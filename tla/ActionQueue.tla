---------------------------- MODULE ActionQueue -----------------------------
(***************************************************************************)
(* The animations of a puppet.  The network thread puts every action of a  *)
(* player into a queue with a delay in frames, the game thread counts the  *)
(* delays down and plays what is due (PlayerData::update).  An entry that  *)
(* is played is erased in the loop over the queue, so the one that moves   *)
(* up into its place is not counted in this frame.                         *)
(*                                                                         *)
(* The loop is one step per entry, with the network thread in between; a   *)
(* step of the queue itself (pushBack, erase) is taken to be atomic, which *)
(* nothing in the code ensures.  Actions that arrive outside of the scene  *)
(* are not queued.                                                         *)
(***************************************************************************)
EXTENDS Integers, Sequences, FiniteSets

CONSTANTS
  Interval,  \* sPosePacketInterval, the delay of a new entry
  Capacity,  \* of the queue; a full one takes no entry
  MaxActions \* bound: actions of the player

VARIABLES
  queue,   \* mActionQueue
  index,   \* the loop's i, or 0 between two frames
  frame,   \* history: frames with a puppet
  sent,    \* history: actions that have arrived
  played   \* history: what was played, with the frame it was played in

vars == <<queue, index, frame, sent, played>>

(* An entry.  The rest is history: its number, the frame it came for, and how
   many entries were before it, those played in that frame included. *)
Entry == [framesLeft : Int, id : 1 .. MaxActions, born : Nat, ahead : Nat]

TypeOK ==
  /\ queue \in Seq(Entry)
  /\ index \in 0 .. Capacity + 1
  /\ frame \in Nat
  /\ sent \in 0 .. MaxActions
  /\ played \in Seq([id : 1 .. MaxActions, born : Nat, ahead : Nat,
                     due : Nat, at : Nat])

Init ==
  /\ queue = <<>> /\ index = 0 /\ frame = 0 /\ sent = 0 /\ played = <<>>

-----------------------------------------------------------------------------
(* A loop that is under way still reaches the new entry, unless it has erased
   one before. *)
NewEntry ==
  LET first == IF index = 0 THEN frame + 1 ELSE frame
      gone  == {i \in 1 .. Len(played) : played[i].at = first}
  IN  [framesLeft |-> Interval, id |-> sent + 1, born |-> first,
       ahead |-> Len(queue) + Cardinality(gone)]

handleActionPacket ==
  /\ sent < MaxActions
  /\ sent' = sent + 1
  /\ queue' = IF Len(queue) < Capacity THEN Append(queue, NewEntry) ELSE queue
  /\ UNCHANGED <<index, frame, played>>

(* A frame begins in which the puppet is there. *)
BeginFrame ==
  /\ index = 0 /\ queue # <<>>
  /\ index' = 1
  /\ frame' = frame + 1
  /\ UNCHANGED <<queue, sent, played>>

CountDown == [queue EXCEPT ![index].framesLeft = @ - 1]

(* Erasing moves the entries behind up; a mutant takes the one that is due for
   the first of the queue. *)
EraseFirst(s, i) == Tail(s)

Erase(s, i) == SubSeq(s, 1, i - 1) \o SubSeq(s, i + 1, Len(s))

Due(e) == e.born + Interval - 1 + e.ahead

Play(e) ==
  [id |-> e.id, born |-> e.born, ahead |-> e.ahead, due |-> Due(e), at |-> frame]

(* One turn of the loop. *)
StepEntry ==
  /\ index # 0 /\ index <= Len(queue)
  /\ LET counted == CountDown
         e == counted[index]
     IN  IF e.framesLeft = 0
           THEN queue' = Erase(counted, index) /\ played' = Append(played, Play(e))
           ELSE queue' = counted /\ UNCHANGED played
  /\ index' = index + 1
  /\ UNCHANGED <<frame, sent>>

EndFrame ==
  /\ index > Len(queue)
  /\ index' = 0
  /\ UNCHANGED <<queue, frame, sent, played>>

Next == handleActionPacket \/ BeginFrame \/ StepEntry \/ EndFrame

Spec == Init /\ [][Next]_vars

-----------------------------------------------------------------------------
(* The loop counts on past the entry it has skipped, so an action may be played
   before the one it follows.  Still every action is played once, and a skipped
   one does not miss its turn: it comes at most a frame late for every entry that
   was before it.  And it is overtaken only by one that came less than one frame
   later for each of those (PlayerData.cpp:95-110). *)
ActionsInTime ==
  /\ \A i \in 1 .. Len(played) : played[i].at <= played[i].due
  /\ \A i \in 1 .. Len(queue) :
       LET e == queue[i] IN e.framesLeft > 0 /\ frame <= Due(e)
  /\ \A i, j \in 1 .. Len(played) :
       LET early == played[i]
           late  == played[j]
       IN  i < j => /\ early.id # late.id
                    /\ early.id > late.id => early.born < late.born + late.ahead
==============================================================================
