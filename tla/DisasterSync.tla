---------------------------- MODULE DisasterSync ----------------------------
(***************************************************************************)
(* The phases of the disaster mode.  Every game's controller counts its    *)
(* own frames; the game that thinks it is the host sends its phase when it *)
(* is new and every 120 frames, the others take it over.  Which game is    *)
(* the host they know from the player list, so for a while two of them may *)
(* think they are, or none.                                                *)
(*                                                                         *)
(* Of the packet's counters only the phase is kept, which is the nerve.    *)
(* mDisableClock is copied by the handler and never set by the sender.     *)
(***************************************************************************)
EXTENDS Integers, Sequences

CONSTANTS
  Players,
  MaxAdvances, \* bound: phases that end by a game's own counters
  MaxMoves,    \* bound: changes of stage
  MaxHosts     \* bound: changes of the host

VARIABLES
  phase,        \* per player: the controller's nerve
  lastPhase,    \* per player: mLastDisasterModeControllerNrv
  disableClock, \* per player: the controller's mDisableClock
  stage,        \* per player: "ocean", or one that takes no part
  host,         \* the last player of the server's list
  isHost,       \* per player: mIsHostClient of its own entry
  phaseUp,      \* per player: updates on their way to the server
  phaseDown,    \* per player: updates on their way to the game
  advances, moves, hosts \* history: how often the bounded events have happened

ctlVars == <<phase, lastPhase, disableClock, stage>>
netVars == <<phaseUp, phaseDown>>
cntVars == <<advances, moves, hosts>>
vars == <<ctlVars, host, isHost, netVars, cntVars>>

Phases == {"Prosperity", "Anticipation", "Disaster"}

Following == [Prosperity |-> "Anticipation", Anticipation |-> "Disaster",
              Disaster |-> "Prosperity"]

(* Stage 0 has another bowser and sends nothing; it and stage 9 take nothing. *)
Stages == {"ocean", "stage0", "stage9"}

Update == [isNewNerve : BOOLEAN, nerve : Phases]

TypeOK ==
  /\ phase \in [Players -> Phases]
  /\ lastPhase \in [Players -> Phases \cup {"none"}]
  /\ disableClock \in [Players -> BOOLEAN]
  /\ stage \in [Players -> Stages]
  /\ host \in Players
  /\ isHost \in [Players -> BOOLEAN]
  /\ phaseUp \in [Players -> Seq(Update)]
  /\ phaseDown \in [Players -> Seq(Update)]
  /\ advances \in 0 .. MaxAdvances
  /\ moves \in 0 .. MaxMoves
  /\ hosts \in 0 .. MaxHosts

Init ==
  /\ phase = [p \in Players |-> "Prosperity"]
  /\ lastPhase = [p \in Players |-> "none"]
  /\ disableClock = [p \in Players |-> FALSE]
  /\ stage = [p \in Players |-> "ocean"]
  /\ host \in Players
  /\ isHost = [p \in Players |-> p = host]
  /\ phaseUp = [p \in Players |-> <<>>]
  /\ phaseDown = [p \in Players |-> <<>>]
  /\ advances = 0 /\ moves = 0 /\ hosts = 0

-----------------------------------------------------------------------------
(* The controller's own clock ends a phase. *)
Advance(p) ==
  /\ advances < MaxAdvances
  /\ ~disableClock[p]
  /\ phase' = [phase EXCEPT ![p] = Following[@]]
  /\ advances' = advances + 1
  /\ UNCHANGED <<lastPhase, disableClock, stage, host, isHost, netVars, moves, hosts>>

(* A stage is entered, with a controller of its own. *)
EnterStage(p, st) ==
  /\ moves < MaxMoves
  /\ stage' = [stage EXCEPT ![p] = st]
  /\ phase' = [phase EXCEPT ![p] = "Prosperity"]
  /\ disableClock' = [disableClock EXCEPT ![p] = FALSE]
  /\ moves' = moves + 1
  /\ UNCHANGED <<lastPhase, host, isHost, netVars, advances, hosts>>

(* Sessions models how the host changes and the games learn of it. *)
ChangeHost(p) ==
  /\ hosts < MaxHosts /\ p # host
  /\ host' = p
  /\ hosts' = hosts + 1
  /\ UNCHANGED <<ctlVars, isHost, netVars, advances, moves>>

(* The player list comes; the entry it makes for the player has seen no nerve. *)
LearnHost(p) ==
  /\ isHost[p] # (p = host)
  /\ isHost' = [isHost EXCEPT ![p] = (p = host)]
  /\ lastPhase' = [lastPhase EXCEPT ![p] = "none"]
  /\ UNCHANGED <<phase, disableClock, stage, host, netVars, cntVars>>

Send(p, isNew) == Append(phaseUp[p], [isNewNerve |-> isNew, nerve |-> phase[p]])

(* The end of updateLocal in a frame in which the nerve is new. *)
SeeNewNerve(p) ==
  /\ stage[p] # "stage0"
  /\ phase[p] # lastPhase[p]
  /\ lastPhase' = [lastPhase EXCEPT ![p] = phase[p]]
  /\ phaseUp' = IF isHost[p] THEN [phaseUp EXCEPT ![p] = Send(p, TRUE)] ELSE phaseUp
  /\ UNCHANGED <<phase, disableClock, stage, host, isHost, phaseDown, cntVars>>

(* The same in a frame that is a multiple of 120; an update arrives in less. *)
Refresh(p) ==
  /\ stage[p] # "stage0" /\ isHost[p]
  /\ phase[p] = lastPhase[p]
  /\ phaseUp[p] = <<>> /\ \A q \in Players : phaseDown[q] = <<>>
  /\ phaseUp' = [phaseUp EXCEPT ![p] = Send(p, FALSE)]
  /\ UNCHANGED <<ctlVars, host, isHost, phaseDown, cntVars>>

(* The server passes an update on to the others. *)
Redistribute(p) ==
  /\ phaseUp[p] # <<>>
  /\ phaseUp' = [phaseUp EXCEPT ![p] = Tail(@)]
  /\ phaseDown' = [q \in Players |-> IF q = p THEN phaseDown[q]
                                     ELSE Append(phaseDown[q], Head(phaseUp[p]))]
  /\ UNCHANGED <<ctlVars, host, isHost, cntVars>>

(* What the handler makes of an update: endInstantly, beginImmediate and
   setNerve all lead to its nerve.  A mutant ignores the refreshes. *)
NewNervesOnly(p, u) == IF u.isNewNerve THEN u.nerve ELSE phase[p]

ApplyNerve(p, u) == IF u.isNewNerve \/ phase[p] # u.nerve THEN u.nerve ELSE phase[p]

handleUpdate(p) ==
  /\ phaseDown[p] # <<>>
  /\ phaseDown' = [phaseDown EXCEPT ![p] = Tail(@)]
  /\ IF stage[p] = "ocean"
       THEN /\ phase' = [phase EXCEPT ![p] = ApplyNerve(p, Head(phaseDown[p]))]
            /\ \E b \in BOOLEAN : disableClock' = [disableClock EXCEPT ![p] = b]
       ELSE UNCHANGED <<phase, disableClock>>
  /\ UNCHANGED <<lastPhase, stage, host, isHost, phaseUp, cntVars>>

Next ==
  \E p \in Players :
    \/ Advance(p) \/ ChangeHost(p) \/ LearnHost(p) \/ SeeNewNerve(p)
    \/ Refresh(p) \/ Redistribute(p) \/ handleUpdate(p)
    \/ \E st \in Stages : EnterStage(p, st)

(* The games run frame by frame, and reliable packets and lists arrive. *)
Fairness ==
  \A p \in Players : /\ WF_vars(LearnHost(p)) /\ WF_vars(SeeNewNerve(p))
                     /\ WF_vars(Refresh(p))
                     /\ WF_vars(Redistribute(p)) /\ WF_vars(handleUpdate(p))

Spec == Init /\ [][Next]_vars
FairSpec == Spec /\ Fairness

-----------------------------------------------------------------------------
(* When the phases, the stages and the host have changed for the last time, all
   games in the ocean come to the host's phase and stay there, also those that
   have entered since its last transition, unless the host sits in stage 0
   (PlayerData.cpp:177-206, DisasterSync.cpp:18-81). *)
DisasterFollows ==
  <>[](stage[host] # "stage0" =>
         \A p \in Players : stage[p] = "ocean" => phase[p] = phase[host])
==============================================================================
