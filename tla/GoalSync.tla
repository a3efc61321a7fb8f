------------------------------ MODULE GoalSync ------------------------------
(***************************************************************************)
(* The shines of all players.  Every game counts the shines it knows of;   *)
(* the server keeps the global counter and the list of the shines that     *)
(* made it up (ServerSaveData), tells everybody of a new one, and replays  *)
(* the counter to a player that enters the scene, on a thread of its own.  *)
(*                                                                         *)
(* Threads of the server: the server thread (handleGoalItemInfo), one      *)
(* detached thread per ToS_SingleModeSceneEnter, the operator's console.   *)
(* None of them locks the progress, so each reads and writes the counter   *)
(* and the list one access at a time.  The channels are reliable and       *)
(* ordered, each packet type on a channel of its own.                      *)
(***************************************************************************)
EXTENDS Integers, Sequences

CONSTANTS
  Players,
  Goals,       \* shines: pairs of island and scenario in the code
  Workers,     \* threads running handleSingleModeSceneEnter at the same time
  Nobody,      \* an idle thread's player, and a packet's shine if it has none
  Unread,      \* a worker that has not read the counter
  Amounts,     \* what the operator may set the counter to
  MaxEvents,   \* bound: shines taken, replays and commands of the operator
  MaxIncidents \* bound: lost connections, scenes left and commands of the operator

ASSUME GoalSyncAssumption ==
  /\ Nobody \notin Goals \cup Players
  /\ Unread \notin Int
  /\ Amounts \subseteq Int
  /\ MaxEvents \in Nat
  /\ MaxIncidents \in Nat

VARIABLES
  num,       \* numCollectedGoalItems
  goals,     \* collectedGoalItems
  online,    \* per player: it has a greeted connection
  inScene,   \* per player: its handlers find a SingleModeScene
  count,     \* per player: mNumGoalItems of its game
  done,      \* per player: the scenarios its game has completed
  up,        \* per player: ToS_GoalItemInfo on their way
  down,      \* per player: ToC_GoalItemInfo on their way
  enterReq,  \* per player: ToS_SingleModeSceneEnter on their way
  events,    \* history: shines taken, replays and commands so far
  step,      \* the server thread: its next step in handleGoalItemInfo
  finder,    \* ... whose packet it handles
  shine,     \* ... the shine to be announced, Nobody if it was in the list
  number,    \* ... the counter it has read last
  wTo,       \* per worker: its player
  wLeft,     \* per worker: replay packets it has still to send
  wNum,      \* per worker: the counter it has read for the next packet
  console,   \* the operator's command: in the middle of reset(), or to broadcast
  amount,    \* ... what setshines has set
  incidents, \* history: lost connections, scenes left and commands so far
  adjusted,  \* history: setshines, or a reset across a handler, since the last reset
  excuse,    \* per player, history: why its count may be off
  missed     \* per player, history: the announcements it did not see

gameVars   == <<online, inScene, count, done, enterReq, events>>
handlerVars == <<step, finder, shine, number>>
workerVars == <<wTo, wLeft, wNum>>
conVars    == <<console, amount, incidents, adjusted>>
histVars   == <<excuse, missed>>
vars == <<num, goals, gameVars, up, down, handlerVars, workerVars, conVars, histVars>>

Recorded == {goals[i] : i \in 1 .. Len(goals)}

(* A ToC_GoalItemInfo; old is history: num was outdated when it was sent. *)
Messages ==
  {m \in [num : Int, isNew : BOOLEAN, goal : Goals \cup {Nobody}, old : BOOLEAN] :
     m.isNew <=> m.goal \in Goals}

Steps == {"idle", "write", "push", "fill", "announce", "refill", "reply"}

TypeOK ==
  /\ num \in Int
  /\ goals \in Seq(Goals)
  /\ online \in [Players -> BOOLEAN]
  /\ inScene \in [Players -> BOOLEAN]
  /\ count \in [Players -> Int]
  /\ done \in [Players -> SUBSET Goals]
  /\ up \in [Players -> Seq(Goals)]
  /\ down \in [Players -> Seq(Messages)]
  /\ enterReq \in [Players -> Nat]
  /\ events \in 0 .. MaxEvents
  /\ step \in Steps
  /\ finder \in Players \cup {Nobody}
  /\ shine \in Goals \cup {Nobody}
  /\ number \in Int
  /\ wTo \in [Workers -> Players \cup {Nobody}]
  /\ wLeft \in [Workers -> Nat]
  /\ wNum \in [Workers -> Int \cup {Unread}]
  /\ console \in {"idle", "clear", "tell"}
  /\ amount \in Int
  /\ incidents \in 0 .. MaxIncidents
  /\ adjusted \in BOOLEAN
  /\ excuse \in [Players -> SUBSET {"absent", "again", "outdated"}]
  /\ missed \in [Players -> SUBSET Goals]

(* A new server and games that have just downloaded its save. *)
Init ==
  /\ num = 0 /\ goals = <<>>
  /\ online = [p \in Players |-> TRUE]
  /\ inScene = [p \in Players |-> FALSE]
  /\ count = [p \in Players |-> 0]
  /\ done = [p \in Players |-> {}]
  /\ up = [p \in Players |-> <<>>]
  /\ down = [p \in Players |-> <<>>]
  /\ enterReq = [p \in Players |-> 0]
  /\ events = 0
  /\ step = "idle" /\ finder = Nobody /\ shine = Nobody /\ number = 0
  /\ wTo = [w \in Workers |-> Nobody]
  /\ wLeft = [w \in Workers |-> 0]
  /\ wNum = [w \in Workers |-> Unread]
  /\ console = "idle" /\ amount = 0 /\ incidents = 0 /\ adjusted = FALSE
  /\ excuse = [p \in Players |-> {}]
  /\ missed = [p \in Players |-> {}]

-----------------------------------------------------------------------------
(* Sending.  A packet to a player without a connection is lost; how old    *)
(* the number in a packet is shows when it is sent.                        *)

Send(p, msg) == IF online[p] THEN Append(down[p], msg) ELSE down[p]

Counter(n, old) == [num |-> n, isNew |-> FALSE, goal |-> Nobody, old |-> old]

News(g, n, old) == [num |-> n, isNew |-> TRUE, goal |-> g, old |-> old]

Outdated(n) == n # num

-----------------------------------------------------------------------------
(* The games *)

(* The scene is built and SceneEnter is sent (singleModeSceneInitHook).    *)
EnterScene(p) ==
  /\ ~inScene[p]
  /\ inScene' = [inScene EXCEPT ![p] = TRUE]
  /\ enterReq' = [enterReq EXCEPT ![p] = IF online[p] THEN @ + 1 ELSE @]
  /\ UNCHANGED <<events, num, goals, online, count, done, up, down, handlerVars,
                 workerVars, conVars, histVars>>

(* The scene is destroyed: packets find none until the next one is built. *)
LeaveScene(p) ==
  /\ inScene[p] /\ incidents < MaxIncidents
  /\ incidents' = incidents + 1
  /\ inScene' = [inScene EXCEPT ![p] = FALSE]
  /\ UNCHANGED <<events, num, goals, online, count, done, enterReq, up, down,
                 handlerVars, workerVars, console, amount, adjusted, histVars>>

(* The player takes a shine its game does not know to be taken: the game   *)
(* counts it, and goalItemCollectNrvHook tells the server.                 *)
Collect(p, g) ==
  /\ inScene[p] /\ g \notin done[p]
  /\ events < MaxEvents
  /\ events' = events + 1
  /\ done' = [done EXCEPT ![p] = @ \cup {g}]
  /\ count' = [count EXCEPT ![p] = @ + 1]
  /\ up' = [up EXCEPT ![p] = IF online[p] THEN Append(@, g) ELSE @]
  /\ UNCHANGED <<num, goals, online, inScene, enterReq, down,
                 handlerVars, workerVars, conVars, histVars>>

SetCount(p, n) == count' = [count EXCEPT ![p] = n]

(* handleToC_GoalItemInfo outside the scene returns early. *)
DropInfo(p) ==
  /\ down[p] # <<>> /\ ~inScene[p]
  /\ down' = [down EXCEPT ![p] = Tail(@)]
  /\ excuse' = [excuse EXCEPT ![p] = @ \cup {"absent"}]
  /\ LET msg == Head(down[p]) IN
     missed' = [missed EXCEPT ![p] = IF msg.isNew THEN @ \cup {msg.goal} ELSE @]
  /\ UNCHANGED <<num, goals, gameVars, up, handlerVars, workerVars, conVars>>

(* A counter alone is taken over; a new shine is completed as well, which  *)
(* adds one to the number set before: whether it does for a scenario that  *)
(* is complete already is up to the game.                                  *)
HandleInfo(p) ==
  /\ down[p] # <<>> /\ inScene[p]
  /\ down' = [down EXCEPT ![p] = Tail(@)]
  /\ LET msg == Head(down[p]) IN
     /\ \/ /\ SetCount(p, msg.num)
           /\ excuse' = [excuse EXCEPT ![p] = IF msg.old THEN {"outdated"} ELSE {}]
        \/ /\ msg.isNew /\ msg.goal \in done[p]
           /\ SetCount(p, msg.num - 1)
           /\ excuse' = [excuse EXCEPT ![p] = {"again"}]
     /\ done' = [done EXCEPT ![p] = IF msg.isNew THEN @ \cup {msg.goal} ELSE @]
  /\ UNCHANGED <<events, num, goals, online, inScene, enterReq, up,
                 handlerVars, workerVars, conVars, missed>>

(* The connection is lost with what is under way in it. *)
Drop(p) ==
  /\ online[p] /\ incidents < MaxIncidents
  /\ incidents' = incidents + 1
  /\ online' = [online EXCEPT ![p] = FALSE]
  /\ up' = [up EXCEPT ![p] = <<>>]
  /\ down' = [down EXCEPT ![p] = <<>>]
  /\ enterReq' = [enterReq EXCEPT ![p] = 0]
  /\ excuse' = [excuse EXCEPT ![p] = @ \cup {"absent"}]
  /\ missed' = [missed EXCEPT ![p] = Goals]
  /\ UNCHANGED <<events, num, goals, inScene, count, done, handlerVars,
                 workerVars, console, amount, adjusted>>

(* NetClient connects again, and the server thread greets it; nothing is   *)
(* replayed to a game in the scene.                                        *)
Reconnect(p) ==
  /\ ~online[p]
  /\ step = "idle"
  /\ online' = [online EXCEPT ![p] = TRUE]
  /\ UNCHANGED <<events, num, goals, inScene, count, done, enterReq, up, down,
                 handlerVars, workerVars, conVars, histVars>>

-----------------------------------------------------------------------------
(* handleGoalItemInfo, on the server thread *)

(* Mutant: a shine is never found in the list. *)
NeverCollected(g) == FALSE

isGoalItemAlreadyCollected(g) == \E i \in 1 .. Len(goals) : goals[i] = g

(* Mutant: only the others are told of the counter. *)
ReplyNothing(p, n) == down[p]

Reply(p, n) == Send(p, Counter(n, Outdated(n)))

(* Mutants: the others get the number only, or a shine without its ids. *)
AnnounceCounter(g, n) == Counter(n, Outdated(n))
AnnounceBlank(g, n)   == News(Nobody, n, Outdated(n))

Announce(g, n) == News(g, n, Outdated(n))

(* A shine that is not in the list: the counter is read, to be incremented. *)
TakeGoal(p) ==
  /\ step = "idle" /\ up[p] # <<>>
  /\ LET g == Head(up[p]) IN
     /\ ~isGoalItemAlreadyCollected(g)
     /\ step' = "write" /\ finder' = p /\ shine' = g /\ number' = num
  /\ up' = [up EXCEPT ![p] = Tail(@)]
  /\ adjusted' = (adjusted \/ console = "clear")
  /\ UNCHANGED <<num, goals, gameVars, down, workerVars, console, amount, incidents,
                 histVars>>

(* A shine that is in the list already: everybody gets the counter. *)
RepeatGoal(p) ==
  /\ step = "idle" /\ up[p] # <<>>
  /\ isGoalItemAlreadyCollected(Head(up[p]))
  /\ step' = "fill" /\ finder' = p
  /\ up' = [up EXCEPT ![p] = Tail(@)]
  /\ UNCHANGED <<num, goals, gameVars, down, shine, number, workerVars, conVars, histVars>>

WriteCount ==
  /\ step = "write"
  /\ num' = number + 1
  /\ step' = "push"
  /\ UNCHANGED <<goals, gameVars, up, down, finder, shine, number, workerVars, conVars,
                 histVars>>

PushGoal ==
  /\ step = "push"
  /\ goals' = Append(goals, shine)
  /\ step' = "fill"
  /\ UNCHANGED <<num, gameVars, up, down, finder, shine, number, workerVars, conVars,
                 histVars>>

(* The packet is filled in with the counter of now, for the others and     *)
(* once more for the finder.                                               *)
FillInfo ==
  /\ step \in {"fill", "refill"}
  /\ number' = num
  /\ step' = IF step = "fill" THEN "announce" ELSE "reply"
  /\ UNCHANGED <<num, goals, gameVars, up, down, finder, shine, workerVars, conVars,
                 histVars>>

SendInfo ==
  /\ step = "announce"
  /\ LET msg == IF shine = Nobody THEN Counter(number, Outdated(number))
                ELSE Announce(shine, number)
         others == Players \ {finder}
     IN /\ down' = [q \in Players |-> IF q \in others THEN Send(q, msg) ELSE down[q]]
        /\ missed' = [q \in Players |->
                        IF msg.isNew /\ q \in others /\ ~online[q]
                        THEN missed[q] \cup {shine} ELSE missed[q]]
  /\ step' = "refill"
  /\ UNCHANGED <<num, goals, gameVars, up, finder, shine, number, workerVars, conVars,
                 excuse>>

SendReply ==
  /\ step = "reply"
  /\ down' = [down EXCEPT ![finder] = Reply(finder, number)]
  /\ step' = "idle" /\ finder' = Nobody /\ shine' = Nobody /\ number' = 0
  /\ UNCHANGED <<num, goals, gameVars, up, workerVars, conVars, histVars>>

-----------------------------------------------------------------------------
(* handleSingleModeSceneEnter, on a thread of its own *)

(* The thread starts, and its loop takes the end of the list. *)
StartReplay(w, p) ==
  /\ enterReq[p] > 0 /\ wTo[w] = Nobody
  /\ goals # <<>> => events < MaxEvents
  /\ events' = events + IF goals = <<>> THEN 0 ELSE 1
  /\ enterReq' = [enterReq EXCEPT ![p] = @ - 1]
  /\ wTo' = [wTo EXCEPT ![w] = IF goals = <<>> THEN Nobody ELSE p]
  /\ wLeft' = [wLeft EXCEPT ![w] = Len(goals)]
  /\ UNCHANGED <<num, goals, online, inScene, count, done, up, down,
                 handlerVars, wNum, conVars, histVars>>

(* A packet is filled in, and then sent. *)
ReadCounter(w) ==
  /\ wLeft[w] > 0 /\ wNum[w] = Unread
  /\ wNum' = [wNum EXCEPT ![w] = num]
  /\ UNCHANGED <<num, goals, gameVars, up, down, handlerVars, wTo, wLeft, conVars,
                 histVars>>

SendCounter(w) ==
  /\ wNum[w] # Unread
  /\ down' = [down EXCEPT ![wTo[w]] =
                Send(wTo[w], Counter(wNum[w], Outdated(wNum[w])))]
  /\ wLeft' = [wLeft EXCEPT ![w] = @ - 1]
  /\ wTo' = [wTo EXCEPT ![w] = IF wLeft[w] = 1 THEN Nobody ELSE @]
  /\ wNum' = [wNum EXCEPT ![w] = Unread]
  /\ UNCHANGED <<num, goals, gameVars, up, handlerVars, conVars, histVars>>

-----------------------------------------------------------------------------
(* The console thread *)

(* The server thread is between reading the counter and pushing the shine. *)
Counting == step \in {"write", "push"}

(* setshines assigns the counter, saves, and broadcasts the amount. *)
SetShines(a) ==
  /\ console = "idle"
  /\ events < MaxEvents /\ incidents < MaxIncidents
  /\ console' = "tell" /\ amount' = a
  /\ num' = a
  /\ events' = events + 1 /\ incidents' = incidents + 1
  /\ adjusted' = TRUE
  /\ UNCHANGED <<goals, online, inScene, count, done, enterReq, up, down, handlerVars,
                 workerVars, histVars>>

TellShines ==
  /\ console = "tell"
  /\ down' = [q \in Players |-> Send(q, Counter(amount, Outdated(amount)))]
  /\ console' = "idle" /\ amount' = 0
  /\ UNCHANGED <<num, goals, gameVars, up, handlerVars, workerVars, incidents, adjusted,
                 histVars>>

(* resetsave: reset() sets the counter, and clears the list after it.      *)
(* Nobody is told: every number under way is outdated from now on.         *)
ClearCount ==
  /\ console = "idle"
  /\ events < MaxEvents /\ incidents < MaxIncidents
  /\ console' = "clear"
  /\ num' = 0
  /\ events' = events + 1 /\ incidents' = incidents + 1
  /\ adjusted' = Counting
  /\ down' = [q \in Players |->
                [i \in 1 .. Len(down[q]) |-> [down[q][i] EXCEPT !.old = TRUE]]]
  /\ excuse' = [q \in Players |-> excuse[q] \cup {"absent"}]
  /\ UNCHANGED <<goals, online, inScene, count, done, enterReq, up, handlerVars,
                 workerVars, amount, missed>>

(* The list has no lock: a push_back at the same time may write the end it *)
(* has read before, and the shines are there again.                        *)
ClearList ==
  /\ console = "clear"
  /\ console' = "idle"
  /\ goals' \in {<<>>} \cup (IF step = "push" THEN {goals} ELSE {})
  /\ UNCHANGED <<num, gameVars, up, down, handlerVars, workerVars, amount, incidents,
                 adjusted, histVars>>

-----------------------------------------------------------------------------
GameStep(p) ==
  \/ EnterScene(p) \/ LeaveScene(p) \/ Drop(p) \/ Reconnect(p)
  \/ \E g \in Goals : Collect(p, g)

Receive(p) == DropInfo(p) \/ HandleInfo(p)

Handle == WriteCount \/ PushGoal \/ FillInfo \/ SendInfo \/ SendReply

ReplayStep(w) == ReadCounter(w) \/ SendCounter(w)

Command == ClearCount \/ ClearList \/ TellShines \/ \E a \in Amounts : SetShines(a)

Next ==
  \/ \E p \in Players : GameStep(p) \/ Receive(p) \/ TakeGoal(p) \/ RepeatGoal(p)
  \/ Handle
  \/ \E w \in Workers, p \in Players : StartReplay(w, p)
  \/ \E w \in Workers : ReplayStep(w)
  \/ Command

Spec == Init /\ [][Next]_vars

-----------------------------------------------------------------------------
(* A shine is in the list once, however many players took it or had not    *)
(* heard of it and however the operator interferes; and the counter is the *)
(* length of the list, plus one with a shine about to be pushed, unless    *)
(* since the last reset the operator has set the counter, or that reset    *)
(* met a handler between its counter and its list, or the other way round. *)
NoDoubleCount ==
  /\ \A i, j \in 1 .. Len(goals) : goals[i] = goals[j] => i = j
  /\ ~adjusted /\ console # "clear" =>
       num = Len(goals) + IF step = "push" THEN 1 ELSE 0

(* Nothing is on its way to or from p, or about to be sent to it. *)
Settled(p) ==
  /\ \A q \in Players : up[q] = <<>>
  /\ down[p] = <<>> /\ enterReq[p] = 0
  /\ \A w \in Workers : wTo[w] # p
  /\ step = "idle" /\ console = "idle"

(* A game in the scene ends with the server's counter, whatever it had     *)
(* counted itself, unless it missed a packet, or the last one it got was   *)
(* of a shine it had completed already, or a number that another thread    *)
(* had outdated between reading and sending.  resetsave is such a miss.    *)
CountsSettle ==
  \A p \in Players :
    Settled(p) /\ online[p] /\ inScene[p] /\ excuse[p] = {} => count[p] = num

(* ... and it has completed every shine of the list whose announcement it  *)
(* was there to see.                                                       *)
ShinesSettle ==
  \A p \in Players :
    Settled(p) /\ online[p] /\ inScene[p] => Recorded \ missed[p] \subseteq done[p]

(* A game that missed nothing ends with the global counter. *)
CountsAgree ==
  \A p \in Players :
    Settled(p) /\ online[p] /\ inScene[p] /\ "absent" \notin excuse[p]
      => count[p] = num
=============================================================================
