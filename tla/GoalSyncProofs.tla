--------------------------- MODULE GoalSyncProofs ---------------------------
(***************************************************************************)
(* Proofs about GoalSync, for every number of players, shines and replay   *)
(* threads and every bound.                                                *)
(***************************************************************************)
EXTENDS GoalSync, SequenceTheorems, TLAPS

(* A replay thread has a counter in hand only while it owes a packet, and  *)
(* owes packets only to a player.                                          *)
ReplayInv ==
  \A w \in Workers : /\ wNum[w] # Unread => wLeft[w] > 0
                     /\ wLeft[w] > 0 => wTo[w] # Nobody

(* The server thread has a finder in its hands while it handles a packet,  *)
(* and a shine to push only while the list lacks it.                       *)
HandlerInv ==
  /\ step = "idle" => shine = Nobody
  /\ step # "idle" => finder \in Players
  /\ Counting => shine \in Goals \ Recorded

(* Unless the excuses of NoDoubleCount hold, reset() and the counting of a *)
(* shine do not overlap, and the counter read is the counter.              *)
CounterInv ==
  ~adjusted =>
    /\ Counting => console # "clear"
    /\ step = "write" => number = num
    /\ console = "clear" => num = 0

IInv == TypeOK /\ ReplayInv /\ HandlerInv /\ CounterInv /\ NoDoubleCount

-----------------------------------------------------------------------------
(* Messages and queues *)

(* The two kinds of packets are messages. *)
LEMMA MessageTypes ==
  ASSUME NEW n \in Int, NEW old \in BOOLEAN
  PROVE  /\ Counter(n, old) \in Messages
         /\ \A g \in Goals : News(g, n, old) \in Messages
BY GoalSyncAssumption DEF Counter, News, Messages

(* Sending keeps the type of a queue. *)
LEMMA SendType ==
  ASSUME TypeOK, NEW p \in Players, NEW msg \in Messages
  PROVE  Send(p, msg) \in Seq(Messages)
<1>1. down[p] \in Seq(Messages)
  BY DEF TypeOK
<1> QED BY <1>1 DEF Send

(* Taking the head of a queue keeps its type. *)
LEMMA QueueType ==
  ASSUME NEW S, NEW s \in Seq(S), s # <<>>
  PROVE  Head(s) \in S /\ Tail(s) \in Seq(S)
BY HeadTailProperties

(* The list stays free of repetitions when a shine that it lacks is added. *)
LEMMA AppendKeepsUnique ==
  ASSUME NEW S, NEW s \in Seq(S), NEW e \in S,
         \A i, j \in 1 .. Len(s) : s[i] = s[j] => i = j,
         ~ \E i \in 1 .. Len(s) : s[i] = e
  PROVE  LET t == Append(s, e) IN
         /\ \A i, j \in 1 .. Len(t) : t[i] = t[j] => i = j
         /\ Len(t) = Len(s) + 1
<1> DEFINE t == Append(s, e)
<1>1. /\ Len(t) = Len(s) + 1
      /\ \A i \in 1 .. Len(s) : t[i] = s[i]
      /\ t[Len(s) + 1] = e
  BY AppendProperties
<1>2. Len(s) \in Nat
  BY LenProperties
<1>3. ASSUME NEW i \in 1 .. Len(t), NEW j \in 1 .. Len(t), t[i] = t[j]
      PROVE  i = j
  <2>1. CASE i \in 1 .. Len(s) /\ j \in 1 .. Len(s)
    BY <1>1, <1>3, <2>1
  <2>2. CASE i = Len(s) + 1
    <3>1. t[j] = e
      BY <1>1, <1>3, <2>2
    <3>2. j \notin 1 .. Len(s)
      BY <1>1, <3>1
    <3> QED BY <1>1, <1>2, <2>2, <3>2
  <2>3. CASE j = Len(s) + 1
    <3>1. t[i] = e
      BY <1>1, <1>3, <2>3
    <3>2. i \notin 1 .. Len(s)
      BY <1>1, <3>1
    <3> QED BY <1>1, <1>2, <2>3, <3>2
  <2> QED BY <1>1, <1>2, <2>1, <2>2, <2>3
<1> QED BY <1>1, <1>3

-----------------------------------------------------------------------------
(* The initial state satisfies the invariant. *)
LEMMA InitInv == Init => IInv
<1> SUFFICES ASSUME Init PROVE IInv
  OBVIOUS
<1>1. TypeOK
  <2>1. /\ num \in Int /\ events \in 0 .. MaxEvents /\ incidents \in 0 .. MaxIncidents
    BY GoalSyncAssumption DEF Init
  <2>2. /\ enterReq \in [Players -> Nat] /\ count \in [Players -> Int]
    BY DEF Init
  <2>3. goals \in Seq(Goals) /\ up \in [Players -> Seq(Goals)]
        /\ down \in [Players -> Seq(Messages)]
    BY DEF Init
  <2>4. /\ online \in [Players -> BOOLEAN] /\ inScene \in [Players -> BOOLEAN]
        /\ done \in [Players -> SUBSET Goals] /\ missed \in [Players -> SUBSET Goals]
    BY DEF Init
  <2>5. excuse \in [Players -> SUBSET {"absent", "again", "outdated"}]
    BY DEF Init
  <2>6. /\ wTo \in [Workers -> Players \cup {Nobody}] /\ wLeft \in [Workers -> Nat]
        /\ wNum \in [Workers -> Int \cup {Unread}]
    BY DEF Init
  <2>7. console \in {"idle", "clear", "tell"} /\ amount \in Int
    BY DEF Init
  <2>9. adjusted \in BOOLEAN
    BY DEF Init
  <2>8. /\ step \in Steps /\ finder \in Players \cup {Nobody}
        /\ shine \in Goals \cup {Nobody} /\ number \in Int
    BY DEF Init, Steps
  <2> QED BY <2>1, <2>2, <2>3, <2>4, <2>5, <2>6, <2>7, <2>8, <2>9 DEF TypeOK
<1>2. ReplayInv /\ HandlerInv /\ CounterInv /\ NoDoubleCount
  BY DEF Init, ReplayInv, HandlerInv, CounterInv, NoDoubleCount, Counting
<1> QED BY <1>1, <1>2 DEF IInv

(* What leaves the counter, the list and the threads of the server alone.  *)
LEMMA ServerUnchanged ==
  ASSUME IInv, UNCHANGED <<num, goals, handlerVars, workerVars, console, adjusted>>
  PROVE  ReplayInv' /\ HandlerInv' /\ CounterInv' /\ NoDoubleCount'
BY DEF IInv, handlerVars, workerVars, ReplayInv, HandlerInv, CounterInv, NoDoubleCount,
       Counting, Recorded

(* What a game does by itself leaves the server's progress alone. *)
LEMMA GameStepInv ==
  ASSUME IInv, NEW p \in Players, GameStep(p)
  PROVE  IInv'
<1> USE DEF IInv, gameVars, handlerVars, workerVars, conVars, histVars
<1>1. UNCHANGED <<num, goals, handlerVars, workerVars, console, adjusted>>
  BY DEF GameStep, EnterScene, LeaveScene, Drop, Reconnect, Collect
<1>2. ReplayInv' /\ HandlerInv' /\ CounterInv' /\ NoDoubleCount'
  BY <1>1, ServerUnchanged
<1>3. TypeOK'
  <2>1. CASE EnterScene(p)
    BY <2>1 DEF TypeOK, EnterScene
  <2>2. CASE LeaveScene(p)
    BY <2>2, GoalSyncAssumption DEF TypeOK, LeaveScene
  <2>3. CASE Drop(p)
    BY <2>3, GoalSyncAssumption DEF TypeOK, Drop
  <2>4. CASE Reconnect(p)
    BY <2>4 DEF TypeOK, Reconnect
  <2>5. ASSUME NEW g \in Goals, Collect(p, g) PROVE TypeOK'
    <3>1. up' \in [Players -> Seq(Goals)]
      BY <2>5 DEF TypeOK, Collect
    <3>2. count' \in [Players -> Int] /\ done' \in [Players -> SUBSET Goals]
      BY <2>5 DEF TypeOK, Collect
    <3>3. events' \in 0 .. MaxEvents
      BY <2>5, GoalSyncAssumption DEF TypeOK, Collect
    <3> QED BY <2>5, <3>1, <3>2, <3>3 DEF TypeOK, Collect
  <2> QED BY <2>1, <2>2, <2>3, <2>4, <2>5 DEF GameStep
<1> QED BY <1>2, <1>3

(* A game that receives a packet changes its own state only. *)
LEMMA ReceiveInv ==
  ASSUME IInv, NEW p \in Players, Receive(p)
  PROVE  IInv'
<1> USE DEF IInv, gameVars, handlerVars, workerVars, conVars, histVars
<1> DEFINE msg == Head(down[p])
<1>1. UNCHANGED <<num, goals, handlerVars, workerVars, console, adjusted>>
  BY DEF Receive, DropInfo, HandleInfo
<1>2. ReplayInv' /\ HandlerInv' /\ CounterInv' /\ NoDoubleCount'
  BY <1>1, ServerUnchanged
<1>3. down[p] # <<>> /\ down' = [down EXCEPT ![p] = Tail(@)]
  BY DEF Receive, DropInfo, HandleInfo
<1>4. msg \in Messages /\ down' \in [Players -> Seq(Messages)]
  BY <1>3, QueueType DEF TypeOK
<1>5. /\ msg.num \in Int /\ msg.num - 1 \in Int
      /\ msg.isNew => msg.goal \in Goals
  BY <1>4 DEF Messages
<1>6. TypeOK'
  <2>1. CASE DropInfo(p)
    <3>1. missed' \in [Players -> SUBSET Goals]
      BY <1>5, <2>1 DEF DropInfo, TypeOK
    <3> QED BY <1>4, <2>1, <3>1 DEF DropInfo, TypeOK
  <2>2. CASE HandleInfo(p)
    <3>1. count' \in [Players -> Int]
      BY <1>5, <2>2 DEF HandleInfo, SetCount, TypeOK
    <3>2. done' \in [Players -> SUBSET Goals]
      BY <1>5, <2>2 DEF HandleInfo, TypeOK
    <3>3. excuse' \in [Players -> SUBSET {"absent", "again", "outdated"}]
      <4>1. PICK e \in SUBSET {"absent", "again", "outdated"} :
              excuse' = [excuse EXCEPT ![p] = e]
        BY <2>2 DEF HandleInfo
      <4>2. excuse \in [Players -> SUBSET {"absent", "again", "outdated"}]
        BY DEF TypeOK
      <4> QED BY <4>1, <4>2
    <3> QED BY <1>4, <2>2, <3>1, <3>2, <3>3 DEF HandleInfo, TypeOK
  <2> QED BY <2>1, <2>2 DEF Receive
<1> QED BY <1>2, <1>6

(* A shine that the list lacks is taken up: the counter read is the counter. *)
LEMMA TakeGoalInv ==
  ASSUME IInv, NEW p \in Players, TakeGoal(p)
  PROVE  IInv'
<1> USE DEF IInv, gameVars, handlerVars, workerVars, conVars, histVars
<1> DEFINE g == Head(up[p])
<1>1. /\ step = "idle" /\ step' = "write" /\ finder' = p /\ shine' = g /\ number' = num
      /\ up[p] # <<>> /\ up' = [up EXCEPT ![p] = Tail(@)]
      /\ ~isGoalItemAlreadyCollected(g)
      /\ adjusted' = (adjusted \/ console = "clear")
      /\ UNCHANGED <<num, goals, gameVars, down, workerVars, console, amount, incidents,
                     histVars>>
  BY DEF TakeGoal
<1>2. g \in Goals /\ up' \in [Players -> Seq(Goals)]
  BY <1>1, QueueType DEF TypeOK
<1>3. TypeOK'
  BY <1>1, <1>2 DEF TypeOK, Steps
<1>4. HandlerInv'
  BY <1>1, <1>2 DEF HandlerInv, Counting, Recorded, isGoalItemAlreadyCollected
<1>5. ReplayInv' /\ CounterInv' /\ NoDoubleCount'
  BY <1>1 DEF ReplayInv, CounterInv, NoDoubleCount, Counting
<1> QED BY <1>3, <1>4, <1>5

(* A shine of the list only leads to packets. *)
LEMMA RepeatGoalInv ==
  ASSUME IInv, NEW p \in Players, RepeatGoal(p)
  PROVE  IInv'
<1> USE DEF IInv, gameVars, handlerVars, workerVars, conVars, histVars
<1>1. /\ step = "idle" /\ step' = "fill" /\ finder' = p /\ up[p] # <<>>
      /\ up' = [up EXCEPT ![p] = Tail(@)]
      /\ UNCHANGED <<num, goals, gameVars, down, shine, number, workerVars, conVars,
                     histVars>>
  BY DEF RepeatGoal
<1>2. up' \in [Players -> Seq(Goals)]
  BY <1>1, QueueType DEF TypeOK
<1>3. TypeOK'
  BY <1>1, <1>2 DEF TypeOK, Steps
<1>4. ReplayInv' /\ HandlerInv' /\ CounterInv' /\ NoDoubleCount'
  BY <1>1 DEF ReplayInv, HandlerInv, CounterInv, NoDoubleCount, Counting
<1> QED BY <1>3, <1>4

(* The counter is ahead of the list, until the shine is pushed. *)
LEMMA CountAndPushInv ==
  ASSUME IInv, WriteCount \/ PushGoal
  PROVE  IInv'
<1> USE DEF IInv, gameVars, handlerVars, workerVars, conVars, histVars
<1>1. CASE WriteCount
  <2> USE <1>1 DEF WriteCount
  <2>1. TypeOK'
    BY DEF TypeOK, Steps
  <2>2. ReplayInv' /\ HandlerInv' /\ CounterInv'
    BY DEF ReplayInv, HandlerInv, CounterInv, Counting, Recorded
  <2>3. NoDoubleCount'
    <3>1. Len(goals) \in Nat
      BY LenProperties DEF TypeOK
    <3> QED BY <3>1 DEF NoDoubleCount, CounterInv, TypeOK
  <2> QED BY <2>1, <2>2, <2>3
<1>2. CASE PushGoal
  <2> USE <1>2 DEF PushGoal
  <2>1. goals \in Seq(Goals) /\ shine \in Goals
        /\ ~ \E i \in 1 .. Len(goals) : goals[i] = shine
    BY DEF TypeOK, HandlerInv, Counting, Recorded
  <2>2. /\ \A i, j \in 1 .. Len(goals') : goals'[i] = goals'[j] => i = j
        /\ Len(goals') = Len(goals) + 1
    <3>1. \A i, j \in 1 .. Len(goals) : goals[i] = goals[j] => i = j
      BY DEF NoDoubleCount
    <3> QED BY <2>1, <3>1, AppendKeepsUnique
  <2>3. goals' \in Seq(Goals)
    BY <2>1
  <2>4. TypeOK'
    BY <2>3 DEF TypeOK, Steps
  <2>5. ReplayInv' /\ HandlerInv' /\ CounterInv'
    BY DEF ReplayInv, HandlerInv, CounterInv, Counting
  <2>6. NoDoubleCount'
    <3>1. Len(goals) \in Nat
      BY <2>1, LenProperties
    <3> QED BY <2>2, <3>1 DEF NoDoubleCount
  <2> QED BY <2>4, <2>5, <2>6
<1> QED BY <1>1, <1>2

(* The packets have the counter that was read, and the shine if it is new. *)
LEMMA TellInv ==
  ASSUME IInv, FillInfo \/ SendInfo \/ SendReply
  PROVE  IInv'
<1> USE DEF IInv, gameVars, handlerVars, workerVars, conVars, histVars
<1>1. /\ step \in {"fill", "refill", "announce", "reply"}
      /\ step' \in {"announce", "reply", "refill", "idle"}
      /\ \/ step' = "idle" /\ shine' = Nobody
         \/ step' # "idle" /\ UNCHANGED <<finder, shine>>
      /\ UNCHANGED <<num, goals, gameVars, up, workerVars, conVars>>
  BY DEF FillInfo, SendInfo, SendReply
<1>2. ReplayInv' /\ HandlerInv' /\ CounterInv' /\ NoDoubleCount'
  <2>1. ~Counting /\ ~Counting'
    BY <1>1 DEF Counting
  <2>2. HandlerInv'
    BY <1>1, <2>1 DEF HandlerInv
  <2>3. CounterInv'
    BY <1>1, <2>1 DEF CounterInv, Counting
  <2>4. NoDoubleCount'
    BY <1>1 DEF NoDoubleCount
  <2> QED BY <1>1, <2>2, <2>3, <2>4 DEF ReplayInv
<1>3. Outdated(number) \in BOOLEAN
  BY DEF Outdated
<1>4. CASE FillInfo
  <2>1. TypeOK'
    BY <1>4 DEF FillInfo, TypeOK, Steps
  <2> QED BY <1>2, <2>1
<1>5. CASE SendInfo
  <2> DEFINE msg == IF shine = Nobody THEN Counter(number, Outdated(number))
                    ELSE Announce(shine, number)
             others == Players \ {finder}
  <2>1. msg \in Messages
    <3>1. number \in Int /\ shine \in Goals \cup {Nobody}
      BY DEF TypeOK
    <3> QED BY <1>3, <3>1, MessageTypes DEF Announce
  <2>2. \A q \in Players : Send(q, msg) \in Seq(Messages)
    BY <2>1, SendType
  <2>3. /\ down' = [q \in Players |-> IF q \in others THEN Send(q, msg) ELSE down[q]]
        /\ missed' = [q \in Players |->
                        IF msg.isNew /\ q \in others /\ ~online[q]
                        THEN missed[q] \cup {shine} ELSE missed[q]]
    BY <1>5 DEF SendInfo
  <2>4. down' \in [Players -> Seq(Messages)]
    <3> HIDE DEF msg
    <3> QED BY <2>2, <2>3 DEF TypeOK
  <2>5. missed' \in [Players -> SUBSET Goals]
    <3>1. msg.isNew => shine \in Goals
      BY DEF Counter, TypeOK
    <3> HIDE DEF msg
    <3> QED BY <2>3, <3>1 DEF TypeOK
  <2>6. TypeOK'
    BY <1>5, <2>4, <2>5 DEF SendInfo, TypeOK, Steps
  <2> QED BY <1>2, <2>6
<1>6. CASE SendReply
  <2>1. finder \in Players /\ number \in Int
    BY <1>1, <1>6 DEF HandlerInv, TypeOK
  <2>2. Reply(finder, number) \in Seq(Messages)
    BY <1>3, <2>1, MessageTypes, SendType DEF Reply
  <2>3. down' \in [Players -> Seq(Messages)]
    BY <1>6, <2>2 DEF SendReply, TypeOK
  <2>4. step' \in Steps /\ finder' = Nobody /\ shine' = Nobody /\ number' \in Int
    BY <1>6 DEF SendReply, Steps
  <2>5. TypeOK'
    BY <1>1, <1>6, <2>3, <2>4 DEF SendReply, TypeOK
  <2> QED BY <1>2, <2>5
<1> QED BY <1>4, <1>5, <1>6

-----------------------------------------------------------------------------
(* A replay thread starts only when idle. *)
LEMMA StartReplayInv ==
  ASSUME IInv, NEW w \in Workers, NEW p \in Players, StartReplay(w, p)
  PROVE  IInv'
<1> USE DEF IInv, gameVars, handlerVars, workerVars, conVars, histVars, StartReplay
<1>1. goals \in Seq(Goals) /\ Len(goals) \in Nat
  BY LenProperties DEF TypeOK
<1>2. TypeOK'
  <2>1. events' \in 0 .. MaxEvents
    BY GoalSyncAssumption DEF TypeOK
  <2> QED BY <1>1, <2>1 DEF TypeOK
<1>3. ReplayInv'
  <2> SUFFICES ASSUME NEW v \in Workers
               PROVE  /\ wNum'[v] # Unread => wLeft'[v] > 0
                      /\ wLeft'[v] > 0 => wTo'[v] # Nobody
    BY DEF ReplayInv
  <2>1. CASE v = w
    <3>1. ~(wLeft[w] > 0) /\ wNum[w] = Unread
      BY DEF ReplayInv
    <3>2. wNum'[v] = Unread
      BY <2>1, <3>1
    <3>3. wLeft'[v] = Len(goals) /\ wTo'[v] = IF goals = <<>> THEN Nobody ELSE p
      BY <2>1 DEF TypeOK
    <3>4. goals = <<>> => Len(goals) = 0
      OBVIOUS
    <3>5. p # Nobody
      BY GoalSyncAssumption
    <3> QED BY <3>2, <3>3, <3>4, <3>5
  <2>2. CASE v # w
    <3>1. wNum'[v] = wNum[v] /\ wLeft'[v] = wLeft[v] /\ wTo'[v] = wTo[v]
      BY <2>2 DEF TypeOK
    <3> QED BY <3>1 DEF ReplayInv
  <2> QED BY <2>1, <2>2
<1>4. HandlerInv' /\ CounterInv' /\ NoDoubleCount'
  BY DEF HandlerInv, CounterInv, NoDoubleCount, Counting, Recorded
<1> QED BY <1>2, <1>3, <1>4

(* Its packets go to its player. *)
LEMMA ReplayStepInv ==
  ASSUME IInv, NEW w \in Workers, ReplayStep(w)
  PROVE  IInv'
<1> USE DEF IInv, gameVars, handlerVars, workerVars, conVars, histVars
<1>1. HandlerInv' /\ CounterInv' /\ NoDoubleCount'
  BY DEF ReplayStep, ReadCounter, SendCounter, HandlerInv, CounterInv, NoDoubleCount,
         Counting, Recorded
<1>2. CASE ReadCounter(w)
  <2>1. TypeOK'
    BY <1>2 DEF TypeOK, ReadCounter
  <2>2. ReplayInv'
    BY <1>2 DEF TypeOK, ReplayInv, ReadCounter
  <2> QED BY <1>1, <2>1, <2>2
<1>3. CASE SendCounter(w)
  <2> USE <1>3 DEF SendCounter
  <2>1. wLeft[w] > 0 /\ wTo[w] \in Players /\ wNum[w] \in Int
    BY DEF ReplayInv, TypeOK
  <2>2. Counter(wNum[w], Outdated(wNum[w])) \in Messages
    BY <2>1, MessageTypes DEF Outdated
  <2>3. Send(wTo[w], Counter(wNum[w], Outdated(wNum[w]))) \in Seq(Messages)
    BY <2>1, <2>2, SendType
  <2>4. down' \in [Players -> Seq(Messages)]
    BY <2>1, <2>3 DEF TypeOK
  <2>5. wLeft' \in [Workers -> Nat]
    BY <2>1 DEF TypeOK
  <2>6. wTo' \in [Workers -> Players \cup {Nobody}]
        /\ wNum' \in [Workers -> Int \cup {Unread}]
    BY DEF TypeOK
  <2>7. TypeOK'
    BY <2>4, <2>5, <2>6 DEF TypeOK
  <2>8. ReplayInv'
    <3> SUFFICES ASSUME NEW v \in Workers
                 PROVE  /\ wNum'[v] # Unread => wLeft'[v] > 0
                        /\ wLeft'[v] > 0 => wTo'[v] # Nobody
      BY DEF ReplayInv
    <3>1. CASE v = w
      <4>1. wNum'[v] = Unread /\ wLeft'[v] = wLeft[w] - 1
            /\ wTo'[v] = IF wLeft[w] = 1 THEN Nobody ELSE wTo[w]
        BY <3>1 DEF TypeOK
      <4>2. wTo[w] # Nobody /\ wLeft[w] \in Nat
        BY <2>1, GoalSyncAssumption DEF TypeOK
      <4>3. wLeft'[v] > 0 => wLeft[w] # 1
        BY <4>1, <4>2
      <4> QED BY <4>1, <4>2, <4>3
    <3>2. CASE v # w
      <4>1. wNum'[v] = wNum[v] /\ wLeft'[v] = wLeft[v] /\ wTo'[v] = wTo[v]
        BY <3>2 DEF TypeOK
      <4> QED BY <4>1 DEF ReplayInv
    <3> QED BY <3>1, <3>2
  <2> QED BY <1>1, <2>7, <2>8
<1> QED BY <1>2, <1>3 DEF ReplayStep

(* setshines gives the counter up; reset() takes the counter first, and    *)
(* the list is empty with it unless a shine is being counted.              *)
LEMMA CommandInv == IInv /\ Command => IInv'
<1> SUFFICES ASSUME IInv, Command PROVE IInv'
  OBVIOUS
<1> USE DEF IInv, gameVars, handlerVars, workerVars, conVars, histVars
<1>1. ASSUME NEW a \in Amounts, SetShines(a) PROVE IInv'
  <2> USE <1>1 DEF SetShines
  <2>1. TypeOK'
    BY GoalSyncAssumption DEF TypeOK
  <2>2. ReplayInv' /\ HandlerInv' /\ CounterInv' /\ NoDoubleCount'
    BY DEF ReplayInv, HandlerInv, CounterInv, NoDoubleCount, Counting, Recorded
  <2> QED BY <2>1, <2>2
<1>2. CASE TellShines
  <2> USE <1>2 DEF TellShines
  <2>1. Counter(amount, Outdated(amount)) \in Messages
    BY MessageTypes DEF TypeOK, Outdated
  <2>2. \A q \in Players : Send(q, Counter(amount, Outdated(amount))) \in Seq(Messages)
    BY <2>1, SendType
  <2>3. TypeOK'
    BY <2>2 DEF TypeOK
  <2>4. ReplayInv' /\ HandlerInv' /\ CounterInv' /\ NoDoubleCount'
    BY DEF ReplayInv, HandlerInv, CounterInv, NoDoubleCount, Counting, Recorded
  <2> QED BY <2>3, <2>4
<1>3. CASE ClearCount
  <2> USE <1>3 DEF ClearCount
  <2>1. down' \in [Players -> Seq(Messages)]
    <3>1. ASSUME NEW q \in Players
          PROVE  [i \in 1 .. Len(down[q]) |-> [down[q][i] EXCEPT !.old = TRUE]]
                   \in Seq(Messages)
      <4>1. down[q] \in Seq(Messages)
        BY DEF TypeOK
      <4>2. ASSUME NEW i \in 1 .. Len(down[q])
            PROVE  [down[q][i] EXCEPT !.old = TRUE] \in Messages
        <5>1. down[q][i] \in Messages
          BY <4>1, ElementOfSeq
        <5> QED BY <5>1 DEF Messages
      <4>3. Len(down[q]) \in Nat
        BY <4>1, LenProperties
      <4> QED BY <4>2, <4>3
    <3> QED BY <3>1
  <2>2. TypeOK'
    <3>1. /\ num' \in Int /\ adjusted' \in BOOLEAN
          /\ excuse' \in [Players -> SUBSET {"absent", "again", "outdated"}]
      BY DEF TypeOK, Counting
    <3>2. events' \in 0 .. MaxEvents /\ incidents' \in 0 .. MaxIncidents
      BY GoalSyncAssumption DEF TypeOK
    <3> QED BY <2>1, <3>1, <3>2 DEF TypeOK
  <2>3. ReplayInv' /\ HandlerInv' /\ CounterInv' /\ NoDoubleCount'
    BY DEF ReplayInv, HandlerInv, CounterInv, NoDoubleCount, Counting, Recorded
  <2> QED BY <2>2, <2>3
<1>4. CASE ClearList
  <2>1. /\ goals' = <<>> \/ (goals' = goals /\ step = "push")
        /\ console = "clear" /\ console' = "idle"
        /\ UNCHANGED <<num, gameVars, up, down, handlerVars, workerVars, amount, incidents,
                       adjusted, histVars>>
    BY <1>4 DEF ClearList
  <2>2. TypeOK'
    <3>1. goals' \in Seq(Goals)
      <4>1. <<>> \in Seq(Goals) /\ goals \in Seq(Goals)
        BY DEF TypeOK
      <4> QED BY <2>1, <4>1
    <3> QED BY <2>1, <3>1 DEF TypeOK
  <2>3. ReplayInv' /\ CounterInv'
    BY <2>1 DEF ReplayInv, CounterInv, Counting
  <2>4. HandlerInv'
    BY <2>1 DEF HandlerInv, Counting, Recorded
  <2>5. NoDoubleCount'
    BY <2>1 DEF NoDoubleCount, CounterInv, Counting
  <2> QED BY <2>2, <2>3, <2>4, <2>5
<1> QED BY <1>1, <1>2, <1>3, <1>4 DEF Command

-----------------------------------------------------------------------------
(* Every step of any thread keeps the invariant. *)
LEMMA NextInv == IInv /\ [Next]_vars => IInv'
<1> SUFFICES ASSUME IInv, [Next]_vars PROVE IInv'
  OBVIOUS
<1>1. ASSUME NEW p \in Players, GameStep(p) PROVE IInv'
  BY <1>1, GameStepInv
<1>2. ASSUME NEW p \in Players, Receive(p) PROVE IInv'
  BY <1>2, ReceiveInv
<1>3. ASSUME NEW p \in Players, TakeGoal(p) \/ RepeatGoal(p) PROVE IInv'
  BY <1>3, TakeGoalInv, RepeatGoalInv
<1>4. ASSUME NEW w \in Workers, NEW p \in Players, StartReplay(w, p) PROVE IInv'
  BY <1>4, StartReplayInv
<1>5. ASSUME NEW w \in Workers, ReplayStep(w) PROVE IInv'
  BY <1>5, ReplayStepInv
<1>6. CASE Command
  BY <1>6, CommandInv
<1>7. CASE Handle
  BY <1>7, CountAndPushInv, TellInv DEF Handle
<1>8. CASE UNCHANGED vars
  BY <1>8, ServerUnchanged DEF IInv, vars, gameVars, handlerVars, workerVars, conVars,
                               histVars, TypeOK
<1> QED BY <1>1, <1>2, <1>3, <1>4, <1>5, <1>6, <1>7, <1>8 DEF Next

(* The variables of the shine sync keep their types: no queue, counter or  *)
(* replay thread leaves its domain under any interleaving.                 *)
THEOREM TypeCorrect == Spec => []TypeOK
<1>1. IInv => TypeOK
  BY DEF IInv
<1> QED BY <1>1, InitInv, NextInv, PTL DEF Spec

(* However many games take the same shine, and whatever is replayed, lost  *)
(* or sent again, handleGoalItemInfo counts it once: the list has no shine *)
(* twice; and the counter is its length, plus the shine about to be pushed *)
(* and but for a list about to be cleared, unless since the last reset the *)
(* operator has set it or that reset met the counting of a shine.          *)
THEOREM CountedOnce == Spec => []NoDoubleCount
<1>1. IInv => NoDoubleCount
  BY DEF IInv
<1> QED BY <1>1, InitInv, NextInv, PTL DEF Spec

-----------------------------------------------------------------------------
(* What the games end with.                                                *)
(*                                                                         *)
(* What waits in a queue: the newest packet has the counter n, or is known *)
(* to be outdated; the shine g is announced.                               *)
Fresh(s, n) == s # <<>> => s[Len(s)].old \/ s[Len(s)].num = n

Announced(s, g) == \E i \in 1 .. Len(s) : s[i].isNew /\ s[i].goal = g

(* The handler that runs has yet to tell p of the counter. *)
Untold(p) == \/ step \in {"write", "push", "fill", "announce"}
             \/ step \in {"refill", "reply"} /\ p = finder

(* The shine g is in the list, and the handler has yet to tell p of it. *)
Unannounced(p, g) == step \in {"fill", "announce"} /\ g = shine /\ p # finder

(* A game without a connection gets nothing, and has an excuse. *)
OfflineInv ==
  \A p \in Players : ~online[p] => down[p] = <<>> /\ "absent" \in excuse[p]

(* Every queue ends with the counter, and a game that has emptied its      *)
(* queues shows it - except between the two steps of setshines, and while  *)
(* the handler has yet to tell it.                                         *)
CountInv ==
  console # "tell" =>
    \A p \in Players : ~Untold(p) =>
      /\ Fresh(down[p], num)
      /\ down[p] = <<>> /\ up[p] = <<>> /\ excuse[p] = {} => count[p] = num

(* A game has completed the shines it reports, and of those in the list it *)
(* has completed, missed or not yet received the announcement.             *)
ShineInv ==
  /\ \A p \in Players :
       /\ \A i \in 1 .. Len(up[p]) : up[p][i] \in done[p]
       /\ \A g \in Recorded :
            g \in missed[p] \cup done[p] \/ Announced(down[p], g) \/ Unannounced(p, g)
  /\ shine # Nobody => shine \in done[finder]

SettleInv == OfflineInv /\ CountInv /\ ShineInv

(* The positions of a lengthened and of a shortened queue. *)
LEMMA AppendPositions ==
  ASSUME NEW S, NEW s \in Seq(S), NEW e \in S
  PROVE  /\ Append(s, e) # <<>> /\ Append(s, e) \in Seq(S)
         /\ Len(Append(s, e)) = Len(s) + 1
         /\ Append(s, e)[Len(s) + 1] = e
         /\ \A i \in 1 .. Len(s) : Append(s, e)[i] = s[i]
BY AppendProperties

LEMMA TailPositions ==
  ASSUME NEW S, NEW s \in Seq(S), s # <<>>
  PROVE  /\ Head(s) = s[1] /\ Len(s) \in Nat \ {0}
         /\ Tail(s) \in Seq(S) /\ Len(Tail(s)) = Len(s) - 1
         /\ \A i \in 1 .. Len(s) - 1 : Tail(s)[i] = s[i + 1]
         /\ Tail(s) = <<>> <=> Len(s) = 1
<1>1. /\ Head(s) = s[1] /\ Tail(s) \in Seq(S) /\ Len(Tail(s)) = Len(s) - 1
      /\ \A i \in 1 .. Len(Tail(s)) : Tail(s)[i] = s[i + 1]
  BY HeadTailProperties
<1>2. Len(s) \in Nat \ {0}
  BY LenProperties, EmptySeq
<1>3. Tail(s) = <<>> <=> Len(Tail(s)) = 0
  BY <1>1, EmptySeq
<1> QED BY <1>1, <1>2, <1>3

(* A packet with the counter makes its queue fresh; receiving one leaves   *)
(* it so, and the last one had the counter.                                *)
LEMMA FreshSend ==
  ASSUME NEW s \in Seq(Messages), NEW m \in Messages, NEW n, m.old \/ m.num = n
  PROVE  Append(s, m) # <<>> /\ Fresh(Append(s, m), n)
BY AppendPositions DEF Fresh

LEMMA FreshTail ==
  ASSUME NEW s \in Seq(Messages), s # <<>>, NEW n, Fresh(s, n)
  PROVE  /\ Fresh(Tail(s), n)
         /\ Tail(s) = <<>> => Head(s).old \/ Head(s).num = n
<1>1. CASE Len(s) = 1
  BY <1>1, TailPositions DEF Fresh
<1>2. CASE Len(s) # 1
  <2>1. /\ Len(Tail(s)) = Len(s) - 1 /\ Len(s) - 1 \in 1 .. Len(s) - 1
        /\ Tail(s) # <<>>
    BY <1>2, TailPositions
  <2>2. Tail(s)[Len(Tail(s))] = s[Len(s)]
    BY <2>1, TailPositions
  <2> QED BY <2>1, <2>2 DEF Fresh
<1> QED BY <1>1, <1>2

(* An announcement stays in its queue until it is received. *)
LEMMA AnnouncedSend ==
  ASSUME NEW s \in Seq(Messages), NEW m \in Messages, NEW g
  PROVE  /\ Announced(s, g) => Announced(Append(s, m), g)
         /\ m.isNew /\ m.goal = g => Announced(Append(s, m), g)
<1>1. Len(s) \in Nat
  BY LenProperties
<1> QED BY <1>1, AppendPositions DEF Announced

LEMMA AnnouncedTail ==
  ASSUME NEW s \in Seq(Messages), s # <<>>, NEW g, Announced(s, g)
  PROVE  Announced(Tail(s), g) \/ (Head(s).isNew /\ Head(s).goal = g)
<1>1. PICK i \in 1 .. Len(s) : s[i].isNew /\ s[i].goal = g
  BY DEF Announced
<1>2. CASE i = 1
  BY <1>1, <1>2, TailPositions
<1>3. CASE i # 1
  <2>1. i - 1 \in 1 .. Len(s) - 1 /\ Tail(s)[i - 1] = s[i]
    BY <1>3, TailPositions
  <2> QED BY <1>1, <2>1, TailPositions DEF Announced
<1> QED BY <1>2, <1>3

(* Sending the counter, or an outdated one, leaves every queue fresh, and  *)
(* that of a game without a connection empty.                              *)
LEMMA SendSettles ==
  ASSUME TypeOK, OfflineInv, NEW p \in Players, NEW m \in Messages,
         NEW n, m.old \/ m.num = n
  PROVE  /\ Fresh(Send(p, m), n)
         /\ Send(p, m) = <<>> <=> ~online[p]
         /\ \A g : Announced(down[p], g) => Announced(Send(p, m), g)
         /\ online[p] /\ m.isNew => Announced(Send(p, m), m.goal)
<1>1. down[p] \in Seq(Messages)
  BY DEF TypeOK
<1>2. CASE online[p]
  BY <1>1, <1>2, FreshSend, AnnouncedSend DEF Send
<1>3. CASE ~online[p]
  BY <1>1, <1>3 DEF Send, OfflineInv, Fresh
<1> QED BY <1>2, <1>3

(* What none of these invariants looks at may change freely.               *)
LEMMA NothingSettles ==
  ASSUME SettleInv,
         UNCHANGED <<num, goals, online, count, done, up, down, step, finder, shine,
                     console, excuse, missed>>
  PROVE  SettleInv'
BY DEF SettleInv, OfflineInv, CountInv, ShineInv, Fresh, Announced, Recorded, Untold,
       Unannounced

(* A game's own steps: what it collects it reports, or has an excuse.      *)
LEMMA GameStepSettles ==
  ASSUME IInv, SettleInv, NEW p \in Players, GameStep(p)
  PROVE  SettleInv'
<1> USE DEF IInv, SettleInv, gameVars, handlerVars, workerVars, conVars, histVars
<1>1. CASE EnterScene(p) \/ LeaveScene(p)
  <2>1. UNCHANGED <<num, goals, online, count, done, up, down, step, finder, shine,
                    console, excuse, missed>>
    BY <1>1 DEF EnterScene, LeaveScene
  <2> QED BY <2>1, NothingSettles
<1>2. CASE Reconnect(p)
  <2>1. /\ UNCHANGED <<num, goals, count, done, up, down, step, finder, shine, console,
                       excuse, missed>>
        /\ \A q \in Players : online[q] => online'[q]
    BY <1>2 DEF Reconnect, TypeOK
  <2>2. OfflineInv'
    BY <2>1 DEF OfflineInv
  <2>3. CountInv' /\ ShineInv'
    BY <2>1 DEF CountInv, ShineInv, Fresh, Announced, Recorded, Untold, Unannounced
  <2> QED BY <2>2, <2>3
<1>3. CASE Drop(p)
  <2> USE <1>3 DEF Drop
  <2>1. /\ up'[p] = <<>> /\ down'[p] = <<>> /\ missed'[p] = Goals
        /\ "absent" \in excuse'[p]
        /\ \A q \in Players \ {p} :
             /\ online'[q] = online[q] /\ up'[q] = up[q] /\ down'[q] = down[q]
             /\ excuse'[q] = excuse[q] /\ missed'[q] = missed[q]
        /\ UNCHANGED <<num, goals, count, done, step, finder, shine, console>>
    BY DEF TypeOK
  <2>2. OfflineInv'
    BY <2>1 DEF OfflineInv
  <2>3. CountInv'
    <3> SUFFICES ASSUME console # "tell", NEW q \in Players, ~Untold(q)
                 PROVE  /\ Fresh(down'[q], num)
                        /\ down'[q] = <<>> /\ up'[q] = <<>> /\ excuse'[q] = {}
                             => count[q] = num
      BY <2>1 DEF CountInv, Fresh, Untold
    <3>1. CASE q = p
      BY <2>1, <3>1 DEF Fresh
    <3>2. CASE q # p
      BY <2>1, <3>2 DEF CountInv
    <3> QED BY <3>1, <3>2
  <2>4. ShineInv'
    <3>1. Recorded' = Recorded /\ Recorded \subseteq Goals
      BY <2>1, ElementOfSeq DEF Recorded, TypeOK
    <3> SUFFICES ASSUME NEW q \in Players
                 PROVE  /\ \A i \in 1 .. Len(up'[q]) : up'[q][i] \in done[q]
                        /\ \A g \in Recorded :
                             \/ g \in missed'[q] \cup done[q]
                             \/ Announced(down'[q], g) \/ Unannounced(q, g)
      BY <2>1, <3>1 DEF ShineInv, Announced, Unannounced
    <3>2. CASE q = p
      BY <2>1, <3>1, <3>2
    <3>3. CASE q # p
      BY <2>1, <3>3 DEF ShineInv
    <3> QED BY <3>2, <3>3
  <2> QED BY <2>2, <2>3, <2>4
<1>4. ASSUME NEW g \in Goals, Collect(p, g) PROVE SettleInv'
  <2> USE <1>4 DEF Collect
  <2>1. \A q \in Players :
          /\ q # p => UNCHANGED <<done[q], count[q], up[q]>>
          /\ done'[p] = done[p] \cup {g}
          /\ online[p] => up'[p] = Append(up[p], g)
          /\ ~online[p] => up'[p] = up[p]
    BY DEF TypeOK
  <2>2. OfflineInv'
    BY <2>1 DEF OfflineInv
  <2>3. CountInv'
    <3>1. up[p] \in Seq(Goals)
      BY DEF TypeOK
    <3>2. up'[p] = <<>> => "absent" \in excuse[p]
      BY <2>1, <3>1, AppendPositions DEF OfflineInv
    <3> QED BY <2>1, <3>2 DEF CountInv, Fresh, Untold
  <2>4. ShineInv'
    <3>1. \A i \in 1 .. Len(up'[p]) : up'[p][i] \in done'[p]
      <4>1. up[p] \in Seq(Goals) /\ Len(up[p]) \in Nat
        BY LenProperties DEF TypeOK
      <4> QED BY <2>1, <4>1, AppendPositions DEF ShineInv
    <3>2. \A q \in Players : done[q] \subseteq done'[q]
      BY <2>1
    <3>3. shine # Nobody => shine \in done'[finder]
      <4>1. shine # Nobody => finder \in Players
        BY DEF HandlerInv
      <4> QED BY <3>2, <4>1 DEF ShineInv
    <3>4. \A q \in Players : \A i \in 1 .. Len(up'[q]) : up'[q][i] \in done'[q]
      BY <2>1, <3>1 DEF ShineInv
    <3>5. /\ Recorded' = Recorded /\ UNCHANGED missed
          /\ \A q \in Players, h \in Recorded :
               /\ Announced(down[q], h)' <=> Announced(down[q], h)
               /\ Unannounced(q, h)' <=> Unannounced(q, h)
      BY DEF Recorded, Announced, Unannounced
    <3>6. \A q \in Players, h \in Recorded :
            h \in missed[q] \cup done'[q] \/ Announced(down[q], h) \/ Unannounced(q, h)
      BY <3>2 DEF ShineInv
    <3>7. \A q \in Players, h \in Recorded' :
            \/ h \in missed'[q] \cup done'[q]
            \/ Announced(down[q], h)' \/ Unannounced(q, h)'
      BY <3>5, <3>6
    <3> QED BY <3>3, <3>4, <3>7 DEF ShineInv
  <2> QED BY <2>2, <2>3, <2>4
<1> QED BY <1>1, <1>2, <1>3, <1>4 DEF GameStep

(* A packet received: with the last one a game shows the counter.          *)
LEMMA ReceiveSettles ==
  ASSUME IInv, SettleInv, NEW p \in Players, Receive(p)
  PROVE  SettleInv'
<1> USE DEF IInv, SettleInv, gameVars, handlerVars, workerVars, conVars, histVars
<1> DEFINE msg == Head(down[p])
<1>1. /\ down[p] # <<>> /\ down' = [down EXCEPT ![p] = Tail(@)]
      /\ UNCHANGED <<num, goals, online, up, step, finder, shine, console>>
  BY DEF Receive, DropInfo, HandleInfo
<1>2. /\ down[p] \in Seq(Messages) /\ online[p]
      /\ \A q \in Players : q # p => down'[q] = down[q]
      /\ down'[p] = Tail(down[p])
  BY <1>1 DEF TypeOK, OfflineInv
<1>3. \A q \in Players :
        /\ q # p => UNCHANGED <<count[q], done[q], excuse[q], missed[q]>>
        /\ done[p] \subseteq done'[p] /\ missed[p] \subseteq missed'[p]
        /\ msg.isNew => msg.goal \in done'[p] \cup missed'[p]
  <2>1. CASE DropInfo(p)
    BY <2>1 DEF DropInfo, TypeOK
  <2>2. CASE HandleInfo(p)
    BY <2>2 DEF HandleInfo, SetCount, TypeOK
  <2> QED BY <2>1, <2>2 DEF Receive
<1>4. OfflineInv'
  BY <1>1, <1>2, <1>3 DEF OfflineInv
<1>5. CountInv'
  <2>1. excuse'[p] = {} => ~msg.old /\ count'[p] = msg.num
    <3>1. CASE DropInfo(p)
      BY <3>1 DEF DropInfo, TypeOK
    <3>2. CASE HandleInfo(p)
      <4>1. CASE /\ SetCount(p, msg.num)
                 /\ excuse' = [excuse EXCEPT ![p] = IF msg.old THEN {"outdated"} ELSE {}]
        BY <4>1 DEF SetCount, TypeOK
      <4>2. CASE excuse' = [excuse EXCEPT ![p] = {"again"}]
        BY <4>2 DEF TypeOK
      <4> QED BY <3>2, <4>1, <4>2 DEF HandleInfo
    <3> QED BY <3>1, <3>2 DEF Receive
  <2>2. console # "tell" /\ ~Untold(p) =>
          /\ Fresh(down'[p], num)
          /\ down'[p] = <<>> => msg.old \/ msg.num = num
    BY <1>1, <1>2, FreshTail DEF CountInv
  <2>3. \A q \in Players : Untold(q)' = Untold(q)
    BY <1>1 DEF Untold
  <2> QED BY <1>1, <1>2, <1>3, <2>1, <2>2, <2>3 DEF CountInv
<1>6. ShineInv'
  <2>1. ASSUME NEW g, Announced(down[p], g)
        PROVE  Announced(down'[p], g) \/ g \in done'[p] \cup missed'[p]
    BY <1>1, <1>2, <1>3, <2>1, AnnouncedTail
  <2>2. shine # Nobody => shine \in done'[finder]
    <3>1. shine # Nobody => finder \in Players
      BY DEF HandlerInv
    <3> QED BY <1>3, <3>1 DEF ShineInv
  <2> QED BY <1>1, <1>2, <1>3, <2>1, <2>2 DEF ShineInv, Recorded, Unannounced
<1> QED BY <1>4, <1>5, <1>6

(* A packet that is taken up was reported by a game that knows the shine,  *)
(* and nobody has been told of it yet.                                     *)
LEMMA TakeSettles ==
  ASSUME IInv, SettleInv, NEW p \in Players, TakeGoal(p) \/ RepeatGoal(p)
  PROVE  SettleInv'
<1> USE DEF IInv, SettleInv, gameVars, handlerVars, workerVars, conVars, histVars
<1>1. /\ up[p] # <<>> /\ up' = [up EXCEPT ![p] = Tail(@)]
      /\ step = "idle" /\ step' \in {"write", "fill"} /\ finder' = p
      /\ shine' \in {Head(up[p]), Nobody}
      /\ UNCHANGED <<num, goals, online, count, done, down, console, excuse, missed>>
  BY DEF TakeGoal, RepeatGoal, HandlerInv
<1>2. /\ up[p] \in Seq(Goals) /\ up'[p] = Tail(up[p])
      /\ \A q \in Players : q # p => up'[q] = up[q]
  BY <1>1 DEF TypeOK
<1>3. Head(up[p]) \in done[p]
  <2>1. Head(up[p]) = up[p][1] /\ 1 \in 1 .. Len(up[p])
    BY <1>1, <1>2, TailPositions
  <2> QED BY <2>1 DEF ShineInv
<1>4. \A q \in Players : \A i \in 1 .. Len(up'[q]) : up'[q][i] \in done[q]
  <2>1. \A i \in 1 .. Len(up'[p]) : up'[p][i] \in done[p]
    BY <1>1, <1>2, TailPositions DEF ShineInv
  <2> QED BY <1>2, <2>1 DEF ShineInv
<1>5. OfflineInv'
  BY <1>1 DEF OfflineInv
<1>6. CountInv'
  <2>1. \A q \in Players : Untold(q)'
    BY <1>1 DEF Untold
  <2> QED BY <2>1 DEF CountInv
<1>7. ShineInv'
  <2>1. \A q \in Players : \A g \in Recorded :
          g \in missed[q] \cup done[q] \/ Announced(down[q], g)
    BY <1>1 DEF ShineInv, Unannounced
  <2>2. shine' # Nobody => shine' \in done[finder']
    BY <1>1, <1>3
  <2>3. Recorded' = Recorded
    BY <1>1 DEF Recorded
  <2> QED BY <1>1, <1>4, <2>1, <2>2, <2>3 DEF ShineInv, Announced
<1> QED BY <1>5, <1>6, <1>7

(* While the shine is counted, pushed, and its packet filled in, all games *)
(* are still to be told; the finder knows the shine.                       *)
LEMMA CountSettles ==
  ASSUME IInv, SettleInv, WriteCount \/ PushGoal \/ FillInfo
  PROVE  SettleInv'
<1> USE DEF IInv, SettleInv, gameVars, handlerVars, workerVars, conVars, histVars
<1>1. /\ UNCHANGED <<online, count, done, up, down, finder, shine, console, excuse, missed>>
      /\ \/ step = "write" /\ step' = "push" /\ UNCHANGED goals
         \/ step = "push" /\ step' = "fill" /\ goals' = Append(goals, shine)
         \/ step = "fill" /\ step' = "announce" /\ UNCHANGED <<num, goals>>
         \/ step = "refill" /\ step' = "reply" /\ UNCHANGED <<num, goals>>
  BY DEF WriteCount, PushGoal, FillInfo
<1>2. OfflineInv'
  BY <1>1 DEF OfflineInv
<1>3. CountInv'
  <2>1. \A q \in Players : Untold(q) => Untold(q)'
    BY <1>1 DEF Untold
  <2>2. CASE step = "refill"
    BY <1>1, <2>1, <2>2 DEF CountInv, Fresh
  <2>3. CASE step # "refill"
    <3>1. \A q \in Players : Untold(q)'
      BY <1>1, <2>3 DEF Untold
    <3> QED BY <3>1 DEF CountInv
  <2> QED BY <2>2, <2>3
<1>4. ShineInv'
  <2>1. CASE step = "push"
    <3>1. goals' = Append(goals, shine) /\ step' = "fill" /\ shine \in Goals
      BY <1>1, <2>1 DEF HandlerInv, Counting
    <3>2. Recorded' \subseteq Recorded \cup {shine}
      <4>1. goals \in Seq(Goals) /\ Len(goals) \in Nat
        BY LenProperties DEF TypeOK
      <4> QED BY <3>1, <4>1, AppendPositions DEF Recorded
    <3>3. shine # Nobody /\ shine \in done[finder]
      BY <3>1, GoalSyncAssumption DEF ShineInv
    <3>4. ASSUME NEW q \in Players, NEW g \in Recorded'
          PROVE  g \in missed[q] \cup done[q] \/ Announced(down[q], g) \/ Unannounced(q, g)'
      <4>1. CASE g = shine
        BY <1>1, <3>1, <3>3, <4>1 DEF Unannounced
      <4>2. CASE g \in Recorded
        BY <2>1, <4>2 DEF ShineInv, Unannounced
      <4> QED BY <3>2, <3>4, <4>1, <4>2
    <3> QED BY <1>1, <3>3, <3>4 DEF ShineInv
  <2>2. CASE step # "push"
    <3>1. Recorded' = Recorded
      BY <1>1, <2>2 DEF Recorded
    <3>2. \A q \in Players : \A g : Unannounced(q, g) => Unannounced(q, g)'
      BY <1>1, <2>2 DEF Unannounced
    <3> QED BY <1>1, <3>1, <3>2 DEF ShineInv
  <2> QED BY <2>1, <2>2
<1> QED BY <1>2, <1>3, <1>4

(* The announcement reaches every other game with a connection.            *)
LEMMA SendInfoSettles ==
  ASSUME IInv, SettleInv, SendInfo
  PROVE  SettleInv'
<1> USE DEF IInv, SettleInv, gameVars, handlerVars, workerVars, conVars, histVars
<1> DEFINE m == IF shine = Nobody THEN Counter(number, Outdated(number))
                ELSE Announce(shine, number)
<1>1. /\ step = "announce" /\ step' = "refill"
      /\ \A q \in Players :
           /\ q # finder => down'[q] = Send(q, m)
           /\ q # finder /\ m.isNew /\ ~online[q] => missed'[q] = missed[q] \cup {shine}
           /\ missed[q] \subseteq missed'[q]
           /\ q = finder => down'[q] = down[q]
      /\ UNCHANGED <<num, goals, online, count, done, up, finder, shine, console, excuse>>
  BY DEF SendInfo, TypeOK
<1>2. /\ m \in Messages /\ (m.old \/ m.num = num)
      /\ shine # Nobody => m.isNew /\ m.goal = shine
  <2>1. number \in Int /\ shine \in Goals \cup {Nobody} /\ Outdated(number) \in BOOLEAN
    BY DEF TypeOK, Outdated
  <2>2. m \in Messages
    BY <2>1, MessageTypes DEF Announce
  <2>3. /\ m.num = number /\ m.old = (number # num)
        /\ shine # Nobody => m.isNew /\ m.goal = shine
    BY DEF Announce, Counter, News, Outdated
  <2> HIDE DEF m
  <2> QED BY <2>2, <2>3
<1> HIDE DEF m
<1>3. \A q \in Players :
        /\ q # finder => Fresh(down'[q], num) /\ (down'[q] = <<>> <=> ~online[q])
        /\ q = finder => down'[q] = down[q]
        /\ \A h : Announced(down[q], h) => Announced(down'[q], h)
        /\ q # finder /\ online[q] /\ m.isNew => Announced(down'[q], m.goal)
  <2> TAKE q \in Players
  <2>1. CASE q = finder
    BY <1>1, <2>1
  <2>2. CASE q # finder
    BY <1>1, <1>2, <2>2, SendSettles
  <2> QED BY <2>1, <2>2
<1>4. OfflineInv'
  BY <1>1, <1>3 DEF OfflineInv
<1>5. CountInv'
  <2>1. \A q \in Players : ~Untold(q)' => q # finder
    BY <1>1 DEF Untold
  <2> QED BY <1>1, <1>3, <1>4, <2>1 DEF CountInv, OfflineInv
<1>6. ShineInv'
  <2>1. ASSUME NEW q \in Players, NEW g \in Recorded
        PROVE  g \in missed'[q] \cup done[q] \/ Announced(down'[q], g)
    <3>1. CASE Unannounced(q, g)
      <4>1. shine # Nobody
        <5>1. g \in Goals
          BY ElementOfSeq DEF Recorded, TypeOK
        <5> QED BY <3>1, <5>1, GoalSyncAssumption DEF Unannounced
      <4> QED BY <1>1, <1>2, <1>3, <3>1, <4>1 DEF Unannounced
    <3>2. CASE ~Unannounced(q, g)
      BY <1>1, <1>3, <3>2 DEF ShineInv
    <3> QED BY <3>1, <3>2
  <2>2. Recorded' = Recorded
    BY <1>1 DEF Recorded
  <2> QED BY <1>1, <2>1, <2>2 DEF ShineInv
<1> QED BY <1>4, <1>5, <1>6

(* The reply is the finder's counter, or known to be outdated.             *)
LEMMA ReplySettles ==
  ASSUME IInv, SettleInv, SendReply
  PROVE  SettleInv'
<1> USE DEF IInv, SettleInv, gameVars, handlerVars, workerVars, conVars, histVars
<1> DEFINE m == Counter(number, Outdated(number))
<1>1. /\ step = "reply" /\ step' = "idle" /\ finder \in Players /\ shine' = Nobody
      /\ down'[finder] = Send(finder, m)
      /\ \A q \in Players : q # finder => down'[q] = down[q]
      /\ UNCHANGED <<num, goals, online, count, done, up, console, excuse, missed>>
  BY DEF SendReply, Reply, HandlerInv, TypeOK
<1>2. m \in Messages /\ (m.old \/ m.num = num)
  BY MessageTypes DEF Counter, Outdated, TypeOK
<1> HIDE DEF m
<1>3. /\ Fresh(down'[finder], num)
      /\ down'[finder] = <<>> <=> ~online[finder]
      /\ \A h : Announced(down[finder], h) => Announced(down'[finder], h)
  BY <1>1, <1>2, SendSettles
<1>4. OfflineInv'
  BY <1>1, <1>3 DEF OfflineInv
<1>5. CountInv'
  <2>1. \A q \in Players : q # finder => ~Untold(q)
    BY <1>1 DEF Untold
  <2> QED BY <1>1, <1>3, <1>4, <2>1 DEF CountInv, OfflineInv
<1>6. ShineInv'
  BY <1>1, <1>3 DEF ShineInv, Recorded, Unannounced
<1> QED BY <1>4, <1>5, <1>6

(* setshines tells all games the amount, or knows that it is outdated.     *)
LEMMA TellSettles ==
  ASSUME IInv, SettleInv, TellShines
  PROVE  SettleInv'
<1> USE DEF IInv, SettleInv, gameVars, handlerVars, workerVars, conVars, histVars
<1> DEFINE m == Counter(amount, Outdated(amount))
<1>1. m \in Messages /\ (m.old \/ m.num = num)
  BY MessageTypes DEF Counter, Outdated, TypeOK
<1>2. /\ \A q \in Players : down'[q] = Send(q, m)
      /\ UNCHANGED <<num, goals, online, count, done, up, step, finder, shine, excuse,
                     missed>>
  BY DEF TellShines
<1> HIDE DEF m
<1>3. \A q \in Players :
        /\ Fresh(down'[q], num)
        /\ down'[q] = <<>> <=> ~online[q]
        /\ \A h : Announced(down[q], h) => Announced(down'[q], h)
  BY <1>1, <1>2, SendSettles
<1>4. OfflineInv'
  BY <1>2, <1>3 DEF OfflineInv
<1>5. CountInv'
  BY <1>2, <1>3, <1>4 DEF CountInv, OfflineInv
<1>6. ShineInv'
  BY <1>2, <1>3 DEF ShineInv, Recorded, Unannounced
<1> QED BY <1>4, <1>5, <1>6

(* A replay thread's packet has the counter, or is known to be outdated.   *)
LEMMA ReplaySettles ==
  ASSUME IInv, SettleInv, NEW w \in Workers, SendCounter(w)
  PROVE  SettleInv'
<1> USE DEF IInv, SettleInv, gameVars, handlerVars, workerVars, conVars, histVars
<1> DEFINE p == wTo[w]
           m == Counter(wNum[w], Outdated(wNum[w]))
<1>1. p \in Players /\ m \in Messages /\ (m.old \/ m.num = num)
  <2>1. p \in Players /\ wNum[w] \in Int
    BY DEF SendCounter, ReplayInv, TypeOK
  <2> QED BY <2>1, MessageTypes DEF Counter, Outdated
<1>2. /\ UNCHANGED <<num, goals, online, count, done, up, step, finder, shine, console,
                     excuse, missed>>
      /\ down'[p] = Send(p, m)
      /\ \A q \in Players : q # p => down'[q] = down[q]
  BY <1>1 DEF SendCounter, TypeOK
<1>3. /\ Fresh(down'[p], num)
      /\ down'[p] = <<>> <=> ~online[p]
      /\ \A h : Announced(down[p], h) => Announced(down'[p], h)
  <2> HIDE DEF p, m
  <2> QED BY <1>1, <1>2, SendSettles
<1>4. OfflineInv'
  BY <1>2, <1>3 DEF OfflineInv
<1>5. CountInv'
  BY <1>2, <1>3, <1>4 DEF CountInv, OfflineInv, Untold
<1>6. ShineInv'
  BY <1>2, <1>3 DEF ShineInv, Recorded, Unannounced
<1> QED BY <1>4, <1>5, <1>6

(* Between the steps of setshines nothing is promised; once resetsave has  *)
(* taken the counter, every packet under way is outdated and every game    *)
(* has an excuse; the list it clears asks for less.                        *)
LEMMA CommandSettles ==
  ASSUME IInv, SettleInv, Command
  PROVE  SettleInv'
<1> USE DEF IInv, SettleInv, gameVars, handlerVars, workerVars, conVars, histVars
<1>1. ASSUME NEW a \in Amounts, SetShines(a) PROVE SettleInv'
  <2>1. /\ console' = "tell"
        /\ UNCHANGED <<goals, online, count, done, up, down, step, finder, shine, excuse,
                       missed>>
    BY <1>1 DEF SetShines
  <2> QED BY <2>1 DEF OfflineInv, CountInv, ShineInv, Recorded, Announced, Unannounced
<1>2. CASE TellShines
  BY <1>2, TellSettles
<1>3. CASE ClearCount
  <2>1. /\ num' = 0 /\ UNCHANGED <<goals, online, count, done, up, step, finder, shine,
                                   missed>>
        /\ \A q \in Players : excuse'[q] = excuse[q] \cup {"absent"}
    BY <1>3 DEF ClearCount
  <2>2. ASSUME NEW q \in Players
        PROVE  /\ down'[q] # <<>> => down'[q][Len(down'[q])].old
               /\ down[q] = <<>> => down'[q] = <<>>
               /\ \A g : Announced(down[q], g) => Announced(down'[q], g)
    <3>1. down'[q] = [i \in 1 .. Len(down[q]) |-> [down[q][i] EXCEPT !.old = TRUE]]
      BY <1>3 DEF ClearCount
    <3>2. down[q] \in Seq(Messages) /\ Len(down[q]) \in Nat
      BY LenProperties DEF TypeOK
    <3>3. \A i \in 1 .. Len(down[q]) : down[q][i] \in Messages
      BY <3>2, ElementOfSeq
    <3>4. \A i \in 1 .. Len(down[q]) : [down[q][i] EXCEPT !.old = TRUE].old = TRUE
      BY <3>3 DEF Messages
    <3>5. Len(down'[q]) = Len(down[q]) /\ down'[q] \in Seq(Messages)
      <4>1. \A i \in 1 .. Len(down[q]) : [down[q][i] EXCEPT !.old = TRUE] \in Messages
        BY <3>3 DEF Messages
      <4> QED BY <3>1, <3>2, <4>1
    <3>6. down'[q] = <<>> <=> Len(down'[q]) = 0
      BY <3>5, EmptySeq
    <3>7. \A i \in 1 .. Len(down[q]) : /\ down'[q][i].isNew = down[q][i].isNew
                                        /\ down'[q][i].goal = down[q][i].goal
      BY <3>1, <3>3 DEF Messages
    <3>8. \A g : Announced(down[q], g) => Announced(down'[q], g)
      BY <3>5, <3>7 DEF Announced
    <3> QED BY <3>1, <3>2, <3>4, <3>5, <3>6, <3>8
  <2>3. OfflineInv'
    BY <2>1, <2>2 DEF OfflineInv
  <2>4. CountInv'
    BY <2>1, <2>2 DEF CountInv, Fresh
  <2>5. ShineInv'
    BY <2>1, <2>2 DEF ShineInv, Recorded, Unannounced
  <2> QED BY <2>3, <2>4, <2>5
<1>4. CASE ClearList
  <2>1. /\ console = "clear" /\ goals' \in {<<>>, goals}
        /\ UNCHANGED <<num, online, count, done, up, down, step, finder, shine, excuse,
                       missed>>
    BY <1>4 DEF ClearList
  <2>2. Recorded' \subseteq Recorded
    BY <2>1 DEF Recorded
  <2> QED BY <2>1, <2>2 DEF OfflineInv, CountInv, ShineInv, Fresh, Announced, Untold,
                            Unannounced
<1> QED BY <1>1, <1>2, <1>3, <1>4 DEF Command

(* Every step keeps what the queues promise.                               *)
LEMMA NextSettles == IInv /\ SettleInv /\ [Next]_vars => SettleInv'
<1> SUFFICES ASSUME IInv, SettleInv, [Next]_vars PROVE SettleInv'
  OBVIOUS
<1>1. ASSUME NEW p \in Players, GameStep(p) PROVE SettleInv'
  BY <1>1, GameStepSettles
<1>2. ASSUME NEW p \in Players, Receive(p) PROVE SettleInv'
  BY <1>2, ReceiveSettles
<1>3. ASSUME NEW p \in Players, TakeGoal(p) \/ RepeatGoal(p) PROVE SettleInv'
  BY <1>3, TakeSettles
<1>4. ASSUME NEW w \in Workers, SendCounter(w) PROVE SettleInv'
  BY <1>4, ReplaySettles
<1>5. CASE Command
  BY <1>5, CommandSettles
<1>6. CASE Handle
  BY <1>6, CountSettles, SendInfoSettles, ReplySettles DEF Handle
<1>7. ASSUME NEW w \in Workers, NEW p \in Players, StartReplay(w, p) PROVE SettleInv'
  BY <1>7, NothingSettles DEF StartReplay, handlerVars, conVars, histVars
<1>8. ASSUME NEW w \in Workers, ReadCounter(w) PROVE SettleInv'
  BY <1>8, NothingSettles DEF ReadCounter, gameVars, handlerVars, conVars, histVars
<1>9. CASE UNCHANGED vars
  BY <1>9, NothingSettles DEF vars, gameVars, handlerVars, conVars, histVars
<1> QED BY <1>1, <1>2, <1>3, <1>4, <1>5, <1>6, <1>7, <1>8, <1>9 DEF Next, ReplayStep

(* In the beginning there is nothing to be told.                           *)
LEMMA InitSettles == Init => SettleInv
BY DEF Init, SettleInv, OfflineInv, CountInv, ShineInv, Fresh, Announced, Recorded,
       Untold

(* Both invariants hold in every reachable state.                          *)
LEMMA Invariant == Spec => [](IInv /\ SettleInv)
BY InitInv, InitSettles, NextInv, NextSettles, PTL DEF Spec

(* A game in the scene to which nothing is on its way shows the server's   *)
(* counter, unless it missed a packet or its last one was of a shine it    *)
(* had completed or outdated when sent: handleGoalItemInfo answers every   *)
(* shine with the counter, and each channel keeps its order.               *)
THEOREM CountsFollow == Spec => []CountsSettle
<1>1. IInv /\ SettleInv => CountsSettle
  BY DEF SettleInv, CountInv, CountsSettle, Settled, Untold
<1> QED BY Invariant, <1>1, PTL

(* ... and has completed every shine of the list, but those whose          *)
(* announcement it was not there to see.                                   *)
THEOREM ShinesFollow == Spec => []ShinesSettle
<1>1. IInv /\ SettleInv => ShinesSettle
  BY DEF SettleInv, ShineInv, ShinesSettle, Settled, Announced, Unannounced
<1> QED BY Invariant, <1>1, PTL
=============================================================================
