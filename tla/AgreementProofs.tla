--------------------------- MODULE AgreementProofs ---------------------------
(***************************************************************************)
(* Proofs about the parts that two games have to agree on, for any number  *)
(* of players and any bounds.                                              *)
(***************************************************************************)
EXTENDS MCAgreement, PatanPanelsProofs, SequenceTheorems, FiniteSetTheorems,
        WellFoundedInduction, TLAPS

-----------------------------------------------------------------------------
(* Packets on two ways, one after the other: s is on its way to a game and t to
   the server.  What the server passes on stays where it is in the order. *)
LEMMA PassedOn ==
  ASSUME NEW S, NEW s \in Seq(S), NEW t \in Seq(S), t # <<>>
  PROVE  Append(s, Head(t)) \o Tail(t) = s \o t
<1>1. /\ Head(t) = t[1] /\ Head(t) \in S /\ Tail(t) \in Seq(S)
      /\ Len(Tail(t)) = Len(t) - 1
      /\ \A i \in 1 .. Len(Tail(t)) : Tail(t)[i] = t[i + 1]
  BY HeadTailProperties
<1>2. Len(t) \in Nat \ {0} /\ Len(s) \in Nat
  BY EmptySeq, LenProperties
<1>3. /\ Append(s, Head(t)) \in Seq(S) /\ Len(Append(s, Head(t))) = Len(s) + 1
      /\ \A i \in 1 .. Len(s) : Append(s, Head(t))[i] = s[i]
      /\ Append(s, Head(t))[Len(s) + 1] = t[1]
  BY <1>1, AppendProperties
<1> DEFINE a == Append(s, Head(t))
           u == Tail(t)
<1>4. /\ a \o u \in Seq(S) /\ Len(a \o u) = Len(a) + Len(u)
      /\ \A i \in 1 .. Len(a) + Len(u) :
           (a \o u)[i] = IF i <= Len(a) THEN a[i] ELSE u[i - Len(a)]
  BY <1>1, <1>3, ConcatProperties
<1>5. /\ s \o t \in Seq(S) /\ Len(s \o t) = Len(s) + Len(t)
      /\ \A i \in 1 .. Len(s) + Len(t) :
           (s \o t)[i] = IF i <= Len(s) THEN s[i] ELSE t[i - Len(s)]
  BY ConcatProperties
<1>6. Len(a \o u) = Len(s \o t)
  BY <1>1, <1>2, <1>3, <1>4, <1>5
<1>7. ASSUME NEW i \in 1 .. Len(a \o u) PROVE (a \o u)[i] = (s \o t)[i]
  <2>1. i \in 1 .. Len(s) + Len(t) /\ i \in 1 .. Len(a) + Len(u) /\ i \in Int
    BY <1>2, <1>4, <1>5, <1>6
  <2>2. CASE i <= Len(s)
    BY <2>1, <2>2, <1>2, <1>3, <1>4, <1>5
  <2>3. CASE i = Len(s) + 1
    BY <2>1, <2>3, <1>2, <1>3, <1>4, <1>5
  <2>4. CASE i > Len(s) + 1
    <3>1. i - Len(a) \in 1 .. Len(u) /\ i - Len(a) + 1 = i - Len(s)
      BY <2>1, <2>4, <1>1, <1>2, <1>3
    <3>2. (a \o u)[i] = u[i - Len(a)]
      BY <2>1, <2>4, <1>2, <1>3, <1>4
    <3>3. (s \o t)[i] = t[i - Len(s)]
      BY <2>1, <2>4, <1>2, <1>5
    <3>4. u[i - Len(a)] = t[i - Len(a) + 1]
      BY <3>1, <1>1
    <3>5. QED
      BY <3>1, <3>2, <3>3, <3>4
  <2>5. QED
    BY <2>1, <2>2, <2>3, <2>4, <1>2
<1>8. QED
  BY <1>4, <1>5, <1>6, <1>7, SeqEqual

(* What arrives is the first of both ways, what is sent is the last. *)
LEMMA Arrives ==
  ASSUME NEW S, NEW s \in Seq(S), NEW t \in Seq(S), s # <<>>
  PROVE  /\ s \o t # <<>> /\ (s \o t)[1] = Head(s)
         /\ Tail(s) \o t = Tail(s \o t)
<1>1. /\ Head(s) = s[1] /\ Tail(s) \in Seq(S) /\ Len(Tail(s)) = Len(s) - 1
      /\ \A i \in 1 .. Len(Tail(s)) : Tail(s)[i] = s[i + 1]
  BY HeadTailProperties
<1>2. Len(s) \in Nat \ {0} /\ Len(t) \in Nat
  BY EmptySeq, LenProperties
<1>3. /\ s \o t \in Seq(S) /\ Len(s \o t) = Len(s) + Len(t)
      /\ \A i \in 1 .. Len(s) + Len(t) :
           (s \o t)[i] = IF i <= Len(s) THEN s[i] ELSE t[i - Len(s)]
  BY ConcatProperties
<1> DEFINE u == Tail(s)
<1>4. /\ u \o t \in Seq(S) /\ Len(u \o t) = Len(u) + Len(t)
      /\ \A i \in 1 .. Len(u) + Len(t) :
           (u \o t)[i] = IF i <= Len(u) THEN u[i] ELSE t[i - Len(u)]
  BY <1>1, ConcatProperties
<1>5. s \o t # <<>>
  BY <1>2, <1>3, EmptySeq
<1>6. /\ Tail(s \o t) \in Seq(S) /\ Len(Tail(s \o t)) = Len(s \o t) - 1
      /\ \A i \in 1 .. Len(Tail(s \o t)) : Tail(s \o t)[i] = (s \o t)[i + 1]
  BY <1>3, <1>5, HeadTailProperties
<1>7. Len(u \o t) = Len(Tail(s \o t))
  BY <1>1, <1>2, <1>3, <1>4, <1>6
<1>8. ASSUME NEW i \in 1 .. Len(u \o t) PROVE (u \o t)[i] = Tail(s \o t)[i]
  <2>1. /\ i \in 1 .. Len(u) + Len(t) /\ i + 1 \in 1 .. Len(s) + Len(t) /\ i \in Int
        /\ Len(u) = Len(s) - 1
    BY <1>1, <1>2, <1>3, <1>4, <1>6, <1>7
  <2>2. Tail(s \o t)[i] = (s \o t)[i + 1]
    BY <1>6, <1>7
  <2>3. CASE i <= Len(u)
    BY <2>1, <2>2, <2>3, <1>1, <1>2, <1>3, <1>4
  <2>4. CASE i > Len(u)
    <3>1. (u \o t)[i] = t[i - Len(u)]
      BY <2>1, <2>4, <1>4
    <3>2. (s \o t)[i + 1] = t[i + 1 - Len(s)]
      BY <2>1, <2>4, <1>2, <1>3
    <3>3. i + 1 - Len(s) = i - Len(u)
      BY <2>1, <1>2
    <3>4. QED
      BY <3>1, <3>2, <3>3, <2>2
  <2>5. QED
    BY <2>1, <2>3, <2>4, <1>2
<1>9. u \o t = Tail(s \o t)
  BY <1>4, <1>6, <1>7, <1>8, SeqEqual
<1>10. QED
  BY <1>1, <1>2, <1>3, <1>5, <1>9

LEMMA Sent ==
  ASSUME NEW S, NEW s \in Seq(S), NEW t \in Seq(S), NEW e \in S
  PROVE  s \o Append(t, e) = Append(s \o t, e)
<1>1. Append(t, e) = t \o <<e>> /\ <<e>> \in Seq(S)
  BY AppendIsConcat
<1>2. s \o t \in Seq(S)
  BY ConcatProperties
<1>3. Append(s \o t, e) = (s \o t) \o <<e>>
  BY <1>2, AppendIsConcat
<1>4. QED
  BY <1>1, <1>3, ConcatAssociative

-----------------------------------------------------------------------------
(* The objects that are gone for all (KillSync) *)

(* What is known of the object in a game: only an object that has been killed
   has been reported, and each of the two that can report it has done so once,
   the player, who is at it for as long as he strikes, and the handler. *)
ReportInv ==
  \A p \in Players :
    /\ striking[p] => inScene[p]
    /\ killedByHook[p] => dead[p]
    /\ ~dead[p] => reports[p] = 0
    /\ ~killedByHook[p] => reports[p] <= 1
    /\ ~killedByHook[p] /\ striking[p] => reports[p] = 0
    /\ reports[p] <= 2
    /\ striking[p] => reports[p] <= 1

(* An object that another game has reported dies of a report on its way. *)
OnItsWay(p) ==
  killDown[p] > 0 \/ \E q \in Players : q # p /\ killUp[q] > 0

HeardInv ==
  \A p \in Players : inScene[p] /\ heard[p] /\ ~dead[p] => OnItsWay(p)

KillInv == Kills!TypeOK /\ ReportInv /\ HeardInv

LEMMA KillsInit == Kills!Init => KillInv
  BY PartsAssumption
  DEF Kills!Init, Kills!Nobody, Kills!Zero, KillInv, Kills!TypeOK, ReportInv, HeardInv

LEMMA KillsStep == KillInv /\ [Kills!Next]_(Kills!vars) => KillInv'
<1> SUFFICES ASSUME KillInv, [Kills!Next]_(Kills!vars) PROVE KillInv'
  OBVIOUS
<1> USE PartsAssumption DEF KillInv, Kills!TypeOK, ReportInv, HeardInv, OnItsWay
<1>1. ASSUME NEW p \in Players, Kills!Strike(p) PROVE KillInv'
  BY <1>1 DEF Kills!Strike
<1>2. ASSUME NEW p \in Players, Kills!Kill(p) PROVE KillInv'
  BY <1>2 DEF Kills!Kill, Kills!Report
<1>3. ASSUME NEW p \in Players, Kills!Leave(p) PROVE KillInv'
  BY <1>3 DEF Kills!Leave, Kills!objectVars
<1>4. ASSUME NEW p \in Players, Kills!Enter(p) PROVE KillInv'
  BY <1>4 DEF Kills!Enter
<1>5. ASSUME NEW p \in Players, Kills!Redistribute(p) PROVE KillInv'
  <2>1. Kills!TypeOK'
    BY <1>5 DEF Kills!Redistribute, Kills!objectVars
  <2>2. ReportInv'
    BY <1>5 DEF Kills!Redistribute, Kills!objectVars
  <2>3. ASSUME NEW q \in Players, inScene'[q], heard'[q], ~dead'[q]
        PROVE OnItsWay(q)'
    <3>1. inScene[q] /\ heard[q] /\ ~dead[q]
      BY <1>5, <2>3 DEF Kills!Redistribute, Kills!objectVars
    <3>2. CASE q # p
      <4>1. killDown'[q] = killDown[q] + 1
        BY <1>5, <3>2 DEF Kills!Redistribute
      <4>2. QED
        BY <4>1
    <3>3. CASE q = p
      BY <1>5, <3>1, <3>3 DEF Kills!Redistribute
    <3>4. QED
      BY <3>2, <3>3
  <2>4. HeardInv'
    BY <2>3, Zenon
  <2>5. QED
    BY <2>1, <2>2, <2>4
<1>6. ASSUME NEW p \in Players, Kills!handleKill(p) PROVE KillInv'
  <2>1. Kills!TypeOK'
    <3>1. killDown' \in [Players -> Nat] /\ hooked' \in BOOLEAN
          /\ inScene' \in [Players -> BOOLEAN] /\ striking' \in [Players -> BOOLEAN]
          /\ scenes' \in 0 .. MaxVisits
      BY <1>6 DEF Kills!handleKill
    <3>2. dead' \in [Players -> BOOLEAN] /\ killedByHook' \in [Players -> BOOLEAN]
      BY <1>6 DEF Kills!handleKill
    <3>3. killUp' \in [Players -> Nat] /\ reports' \in [Players -> Nat]
      BY <1>6 DEF Kills!handleKill, Kills!Report
    <3>4. heard' \in [Players -> BOOLEAN]
      BY <1>6 DEF Kills!handleKill, Kills!Report
    <3>5. QED
      BY <3>1, <3>2, <3>3, <3>4
  <2>2. ReportInv'
    BY <1>6 DEF Kills!handleKill, Kills!Report, Kills!Spares
  <2>3. ASSUME NEW q \in Players, inScene'[q], heard'[q], ~dead'[q]
        PROVE OnItsWay(q)'
    <3>1. q # p
      BY <1>6, <2>3 DEF Kills!handleKill, Kills!Spares
    <3>2. CASE heard[q]
      BY <1>6, <2>3, <3>1, <3>2 DEF Kills!handleKill, Kills!Report
    <3>3. CASE ~heard[q]
      BY <1>6, <2>3, <3>1, <3>3 DEF Kills!handleKill, Kills!Report
    <3>4. QED
      BY <3>2, <3>3
  <2>4. HeardInv'
    BY <2>3, Zenon
  <2>5. QED
    BY <2>1, <2>2, <2>4
<1>7. ASSUME UNCHANGED Kills!vars PROVE KillInv'
  BY <1>7 DEF Kills!vars, Kills!objectVars
<1>8. QED
  BY <1>1, <1>2, <1>3, <1>4, <1>5, <1>6, <1>7 DEF Kills!Next

(* No game reports an object more than twice in a scene, and when all has
   arrived it is gone from every scene that was there when somebody reported
   it: the hooked kill of a handler and mKilledByHook (KillSync). *)
THEOREM ObjectsGone == Kills!Spec => []KillsSettle
<1>1. KillInv => KillsSettle
  BY DEF KillInv, Kills!TypeOK, ReportInv, HeardInv, OnItsWay, KillsSettle,
         Kills!KillsSettle, Kills!Quiet, Kills!Zero, Kills!Nobody
<1>2. QED
  BY KillsInit, KillsStep, <1>1, PTL DEF Kills!Spec

-----------------------------------------------------------------------------
(* A spectator's bowser (BowserHealth) *)

(* A game that has not hit reports nothing, and only another's report brings
   it damage. *)
SilentInv ==
  /\ \A q \in Players : struck[q] \/ healthUp[q] # <<>> => q \in hitters
  /\ \A q \in Players : healthDown[q] # <<>> \/ applying[q] # 0
                        => \E p \in hitters : p # q
  /\ hitters = {} => \A q \in Players : health[q] = 0

(* The reports of p that q has still to hear of, in their order. *)
Pending(p, q) == healthDown[q] \o healthUp[p]

Within(high, low, m) == low <= high /\ high - low <= m

(* What q's bowser will have at least when the damage it is requesting is done,
   and the health that it hears of next. *)
Target(q) == health[q] - applying[q]

Upcoming(p, q) ==
  IF Pending(p, q) = <<>> THEN health[p] ELSE Pending(p, q)[1]

(* The bowser of q follows the one of p: no report is more than one hit, of m,
   from the one before it, and as q takes half of a difference it is never
   more than two hits above what it hears of next. *)
Falls(s, last, m) ==
  /\ \A i \in 1 .. Len(s) : last <= s[i]
  /\ \A i \in 1 .. Len(s) : i < Len(s) => Within(s[i], s[i + 1], m)
  /\ s # <<>> => Within(s[Len(s)], last, m)

Follows(p, q, m) ==
  /\ Falls(Pending(p, q), health[p], m)
  /\ Within(health[q], Target(q), 2 * m)
  /\ Within(Target(q), Upcoming(p, q), IF applying[q] = 0 THEN 2 * m ELSE m)
  /\ ~struck[p] /\ Pending(p, q) # <<>> =>
       Pending(p, q)[Len(Pending(p, q))] = health[p]
  /\ ~struck[p] /\ Pending(p, q) = <<>> =>
       Within(Target(q), health[p], IF applying[q] = 0 THEN m ELSE 0)

FollowInv ==
  \A p \in Players : hitters = {p} =>
    \E d \in Damages : \A q \in Players \ {p} : Follows(p, q, Bowsers!Halve(d))

BowserInv == Bowsers!TypeOK /\ SilentInv /\ FollowInv

LEMMA HalveBounds ==
  ASSUME NEW d \in Nat
  PROVE  /\ Bowsers!Halve(d) \in Nat
         /\ 2 * Bowsers!Halve(d) <= d /\ d <= 2 * Bowsers!Halve(d) + 1
  BY DEF Bowsers!Halve

(* A count that has not reached its bound. *)
LEMMA OneUp ==
  ASSUME NEW m \in Nat, NEW c \in 0 .. m, c < m
  PROVE  c + 1 \in 0 .. m
  OBVIOUS

LEMMA WithinMore ==
  ASSUME NEW a \in Int, NEW b \in Int, NEW m \in Int, NEW n \in Int,
         Within(a, b, m), m <= n
  PROVE  Within(a, b, n)
  BY DEF Within

(* A report of what is left leaves it so. *)
LEMMA FallsReported ==
  ASSUME NEW s \in Seq(Int), NEW last \in Int, NEW m \in Nat, Falls(s, last, m)
  PROVE  Falls(Append(s, last), last, m)
<1> DEFINE t == Append(s, last)
<1>1. /\ Len(s) \in Nat /\ Len(t) = Len(s) + 1 /\ t[Len(s) + 1] = last
      /\ \A i \in 1 .. Len(s) : t[i] = s[i] /\ s[i] \in Int
  BY AppendProperties, LenProperties, ElementOfSeq
<1>2. Len(s) = 0 <=> s = <<>>
  BY EmptySeq
<1>3. \A i \in 1 .. Len(t) : last <= t[i]
  BY <1>1 DEF Falls
<1>4. ASSUME NEW i \in 1 .. Len(t), i < Len(t) PROVE Within(t[i], t[i + 1], m)
  <2>1. CASE i = Len(s)
    BY <1>1, <1>2, <1>4, <2>1 DEF Falls
  <2>2. CASE i < Len(s)
    BY <1>1, <1>4, <2>2 DEF Falls
  <2>3. QED
    BY <2>1, <2>2, <1>1, <1>4
<1>5. Within(t[Len(t)], last, m)
  BY <1>1 DEF Within
<1>6. QED
  BY <1>3, <1>4, <1>5 DEF Falls

(* Hearing of the first leaves the others. *)
LEMMA FallsHeard ==
  ASSUME NEW s \in Seq(Int), s # <<>>, NEW last \in Int, NEW m \in Nat,
         Falls(s, last, m)
  PROVE  /\ Falls(Tail(s), last, m)
         /\ Tail(s) = <<>> => s[1] = s[Len(s)]
         /\ Tail(s) # <<>> => /\ Within(s[1], Tail(s)[1], m)
                              /\ Tail(s)[Len(Tail(s))] = s[Len(s)]
<1> DEFINE t == Tail(s)
<1>1. /\ Len(s) \in Nat \ {0} /\ t \in Seq(Int) /\ Len(t) = Len(s) - 1
      /\ \A i \in 1 .. Len(t) : t[i] = s[i + 1]
  BY HeadTailProperties, EmptySeq
<1>2. Len(t) = 0 <=> t = <<>>
  BY <1>1, EmptySeq
<1>3. \A i \in 1 .. Len(t) : last <= t[i]
  BY <1>1 DEF Falls
<1>4. ASSUME NEW i \in 1 .. Len(t), i < Len(t) PROVE Within(t[i], t[i + 1], m)
  <2>1. i + 1 \in 1 .. Len(s) /\ i + 1 < Len(s) /\ i + 1 \in 1 .. Len(t)
    BY <1>1, <1>4
  <2>2. Within(s[i + 1], s[i + 1 + 1], m)
    BY <2>1 DEF Falls
  <2>3. i + 1 \in 1 .. Len(t) /\ t[i] = s[i + 1] /\ t[i + 1] = s[i + 1 + 1]
    BY <1>1, <2>1
  <2>4. QED
    BY <2>2, <2>3
<1>5. t # <<>> => t[Len(t)] = s[Len(s)] /\ t[1] = s[2] /\ 1 < Len(s)
  <2>0. Len(t) \in Nat /\ Len(s) = Len(t) + 1
    BY <1>1
  <2>1. ASSUME t # <<>> PROVE Len(t) \in 1 .. Len(t) /\ 1 \in 1 .. Len(t) /\ 1 < Len(s)
    <3> DEFINE n == Len(t)
    <3>1. n \in Nat /\ n # 0
      BY <2>0, <1>2, <2>1
    <3> HIDE DEF n
    <3>2. n \in 1 .. n /\ 1 \in 1 .. n /\ 1 < n + 1
      BY <3>1
    <3>3. QED
      BY <2>0, <3>2 DEF n
  <2>2. ASSUME t # <<>> PROVE t[Len(t)] = s[Len(t) + 1] /\ t[1] = s[1 + 1]
    BY <1>1, <2>1, <2>2
  <2>3. Len(t) + 1 = Len(s)
    BY <1>1
  <2>4. QED
    BY <2>1, <2>2, <2>3
<1>6. t # <<>> => Within(s[1], s[2], m)
  BY <1>1, <1>5 DEF Falls
<1>7. s # <<>> => Within(s[Len(s)], last, m)
  BY DEF Falls
<1>8. t # <<>> => Within(t[Len(t)], last, m)
  BY <1>5, <1>7
<1>9. Falls(t, last, m)
  BY <1>3, <1>4, <1>8 DEF Falls
<1>10. t = <<>> => Len(s) = 1
  BY <1>1, <1>2
<1>11. QED
  BY <1>5, <1>6, <1>9, <1>10

(* A hit of no more than n after the last report. *)
LEMMA FallsFurther ==
  ASSUME NEW s \in Seq(Int), NEW last \in Int, NEW new \in Int,
         NEW m \in Nat, NEW n \in Nat,
         Falls(s, last, m), m <= n, Within(last, new, n),
         s # <<>> => s[Len(s)] = last
  PROVE  Falls(s, new, n)
<1>1. /\ Len(s) \in Nat /\ \A i \in 1 .. Len(s) : s[i] \in Int
      /\ s # <<>> => Len(s) \in 1 .. Len(s)
  BY LenProperties, ElementOfSeq, EmptySeq
<1>2. \A i \in 1 .. Len(s) : new <= s[i]
  BY <1>1 DEF Falls, Within
<1>3. ASSUME NEW i \in 1 .. Len(s), i < Len(s) PROVE Within(s[i], s[i + 1], n)
  <2>1. Within(s[i], s[i + 1], m)
    BY <1>3 DEF Falls
  <2>2. i + 1 \in 1 .. Len(s)
    BY <1>1, <1>3
  <2>3. s[i] \in Int /\ s[i + 1] \in Int
    BY <1>1, <2>2
  <2>4. QED
    BY <2>1, <2>3, WithinMore
<1>4. s # <<>> => Within(s[Len(s)], new, n)
  BY DEF Within
<1>5. QED
  BY <1>2, <1>3, <1>4 DEF Falls

LEMMA BowsersInit == Bowsers!Init => BowserInv
<1> SUFFICES ASSUME Bowsers!Init PROVE BowserInv
  OBVIOUS
<1>1. Bowsers!TypeOK
  BY PartsAssumption DEF Bowsers!Init, Bowsers!TypeOK
<1>2. SilentInv
  BY DEF Bowsers!Init, SilentInv
<1>3. FollowInv
  <2>1. hitters = {}
    BY DEF Bowsers!Init
  <2>2. QED
    BY <2>1 DEF FollowInv
<1>4. QED
  BY <1>1, <1>2, <1>3 DEF BowserInv

LEMMA BowsersType ==
  Bowsers!TypeOK /\ [Bowsers!Next]_(Bowsers!vars) => Bowsers!TypeOK'
<1> SUFFICES ASSUME Bowsers!TypeOK, [Bowsers!Next]_(Bowsers!vars)
             PROVE  Bowsers!TypeOK'
  OBVIOUS
<1> USE PartsAssumption DEF Bowsers!TypeOK
<1>1. ASSUME NEW p \in Players, Bowsers!Hit(p) PROVE Bowsers!TypeOK'
  <2>1. PICK d \in Damages : health' = [health EXCEPT ![p] = @ - Bowsers!Halve(d)]
    BY <1>1 DEF Bowsers!Hit
  <2>2. Bowsers!Halve(d) \in Nat
    BY HalveBounds
  <2>3. QED
    BY <1>1, <2>1, <2>2 DEF Bowsers!Hit
<1>2. ASSUME NEW p \in Players, Bowsers!sendDarkBowserHealthPacket(p)
      PROVE  Bowsers!TypeOK'
  BY <1>2 DEF Bowsers!sendDarkBowserHealthPacket
<1>3. ASSUME NEW p \in Players, Bowsers!Redistribute(p) PROVE Bowsers!TypeOK'
  <2>1. Head(healthUp[p]) \in Int /\ Tail(healthUp[p]) \in Seq(Int)
    BY <1>3, HeadTailProperties DEF Bowsers!Redistribute
  <2>2. QED
    BY <1>3, <2>1, AppendProperties DEF Bowsers!Redistribute
<1>4. ASSUME NEW p \in Players, Bowsers!ReadHealth(p) PROVE Bowsers!TypeOK'
  <2>1. Head(healthDown[p]) \in Int /\ Tail(healthDown[p]) \in Seq(Int)
    BY <1>4, HeadTailProperties DEF Bowsers!ReadHealth
  <2>2. QED
    BY <1>4, <2>1 DEF Bowsers!ReadHealth, Bowsers!toDamage
<1>5. ASSUME NEW p \in Players, Bowsers!ApplyDamage(p) PROVE Bowsers!TypeOK'
  <2>1. Bowsers!Halve(applying[p]) \in Int
    BY DEF Bowsers!Halve
  <2>2. QED
    BY <1>5, <2>1 DEF Bowsers!ApplyDamage
<1>6. CASE UNCHANGED Bowsers!vars
  BY <1>6 DEF Bowsers!vars
<1>7. QED
  BY <1>1, <1>2, <1>3, <1>4, <1>5, <1>6 DEF Bowsers!Next

LEMMA BowsersSilent ==
  BowserInv /\ [Bowsers!Next]_(Bowsers!vars) => SilentInv'
<1> SUFFICES ASSUME BowserInv, [Bowsers!Next]_(Bowsers!vars) PROVE SilentInv'
  OBVIOUS
<1> USE DEF BowserInv, Bowsers!TypeOK, SilentInv
<1>1. ASSUME NEW p \in Players, Bowsers!Hit(p) PROVE SilentInv'
  BY <1>1 DEF Bowsers!Hit
<1>2. ASSUME NEW p \in Players, Bowsers!sendDarkBowserHealthPacket(p)
      PROVE  SilentInv'
  BY <1>2 DEF Bowsers!sendDarkBowserHealthPacket
<1>3. ASSUME NEW p \in Players, Bowsers!Redistribute(p) PROVE SilentInv'
  BY <1>3 DEF Bowsers!Redistribute
<1>4. ASSUME NEW p \in Players, Bowsers!ReadHealth(p) PROVE SilentInv'
  BY <1>4 DEF Bowsers!ReadHealth
<1>5. ASSUME NEW p \in Players, Bowsers!ApplyDamage(p) PROVE SilentInv'
  BY <1>5 DEF Bowsers!ApplyDamage
<1>6. CASE UNCHANGED Bowsers!vars
  BY <1>6 DEF Bowsers!vars
<1>7. QED
  BY <1>1, <1>2, <1>3, <1>4, <1>5, <1>6 DEF Bowsers!Next

LEMMA FollowTypes ==
  ASSUME BowserInv, NEW p \in Players, NEW q \in Players
  PROVE  /\ health[p] \in Int /\ health[q] \in Int /\ applying[q] \in Int
         /\ healthUp[p] \in Seq(Int) /\ healthDown[q] \in Seq(Int)
         /\ Pending(p, q) \in Seq(Int) /\ Upcoming(p, q) \in Int
         /\ Target(q) = health[q] - applying[q] /\ Target(q) \in Int
<1>1. /\ health[p] \in Int /\ health[q] \in Int /\ applying[q] \in Int
      /\ healthUp[p] \in Seq(Int) /\ healthDown[q] \in Seq(Int)
  BY DEF BowserInv, Bowsers!TypeOK
<1>2. Pending(p, q) \in Seq(Int)
  BY <1>1, ConcatProperties DEF Pending
<1>3. Pending(p, q) # <<>> => 1 \in 1 .. Len(Pending(p, q))
  BY <1>2, EmptySeq
<1>4. Upcoming(p, q) \in Int
  BY <1>1, <1>2, <1>3, ElementOfSeq DEF Upcoming
<1>5. QED
  BY <1>1, <1>2, <1>4 DEF Target

LEMMA WithinBoth ==
  ASSUME NEW a \in Int, NEW b \in Int, NEW c \in Int, NEW m \in Int, NEW n \in Int,
         Within(a, b, m), Within(b, c, n)
  PROVE  Within(a, c, m + n)
  BY DEF Within

(* The first hit, and another that is reported when the last report is. *)
LEMMA FollowsHit ==
  ASSUME BowserInv, NEW p \in Players, Bowsers!Hit(p), hitters' = {p}
  PROVE  \E d \in Damages : \A q \in Players \ {p} : Follows(p, q, Bowsers!Halve(d))'
<1> USE DEF BowserInv, Bowsers!TypeOK
<1>1. PICK e \in Damages : health' = [health EXCEPT ![p] = @ - Bowsers!Halve(e)]
  BY DEF Bowsers!Hit
<1>2. /\ ~struck[p] /\ struck'[p] /\ (hitters = {} \/ hitters = {p})
      /\ healthUp' = healthUp /\ healthDown' = healthDown /\ applying' = applying
  BY DEF Bowsers!Hit
<1>3. Bowsers!Halve(e) \in Nat
  BY PartsAssumption, HalveBounds
<1>4. CASE hitters = {}
  <2> SUFFICES ASSUME NEW q \in Players, q # p
               PROVE  Follows(p, q, Bowsers!Halve(e))'
    BY <1>1
  <2>1. /\ healthUp[p] = <<>> /\ healthDown[q] = <<>> /\ applying[q] = 0
        /\ health[q] = 0 /\ health[p] = 0
    BY <1>4 DEF SilentInv
  <2>2. Pending(p, q)' = <<>>
    BY <1>2, <2>1, ConcatEmptySeq DEF Pending
  <2>3. health'[p] = 0 - Bowsers!Halve(e) /\ health'[q] = 0
    BY <1>1, <2>1
  <2>4. Falls(<<>>, health'[p], Bowsers!Halve(e))
    BY DEF Falls
  <2>5. Target(q)' = 0 /\ Upcoming(p, q)' = health'[p]
    BY <1>2, <2>1, <2>2, <2>3 DEF Target, Upcoming
  <2>6. /\ Within(health'[q], Target(q)', 2 * Bowsers!Halve(e))
        /\ Within(Target(q)', Upcoming(p, q)', 2 * Bowsers!Halve(e))
        /\ applying'[q] = 0
    BY <1>2, <1>3, <2>1, <2>3, <2>5 DEF Within
  <2>7. QED
    BY <1>2, <2>2, <2>4, <2>6 DEF Follows
<1>5. CASE hitters = {p}
  <2>1. PICK d \in Damages : \A q \in Players \ {p} : Follows(p, q, Bowsers!Halve(d))
    BY <1>5 DEF FollowInv
  <2>2. PICK c \in {d, e} :
          Bowsers!Halve(d) <= Bowsers!Halve(c) /\ Bowsers!Halve(e) <= Bowsers!Halve(c)
    <3>1. Bowsers!Halve(d) \in Nat
      BY PartsAssumption, HalveBounds
    <3>2. CASE Bowsers!Halve(d) <= Bowsers!Halve(e)
      BY <1>3, <3>2
    <3>3. CASE Bowsers!Halve(e) <= Bowsers!Halve(d)
      BY <3>1, <3>3
    <3>4. QED
      BY <1>3, <3>1, <3>2, <3>3
  <2> SUFFICES ASSUME NEW q \in Players, q # p
               PROVE  Follows(p, q, Bowsers!Halve(c))'
    BY <1>1, <2>1
  <2> DEFINE m == Bowsers!Halve(d)
             n == Bowsers!Halve(c)
             s == Pending(p, q)
  <2>3. m \in Nat /\ n \in Nat /\ m <= n
    BY <2>2, PartsAssumption, HalveBounds
  <2>4. Follows(p, q, m)
    BY <2>1
  <2>5. /\ health[p] \in Int /\ health'[p] \in Int
        /\ Within(health[p], health'[p], n) /\ health'[q] = health[q]
        /\ health[q] \in Int /\ applying[q] \in Int
    BY <1>1, <1>3, <2>2, <2>3 DEF Within
  <2> HIDE DEF m, n
  <2>6. s \in Seq(Int) /\ s' = s
    BY <1>2, ConcatProperties DEF Pending
  <2>7. Falls(s, health'[p], n)
    BY <1>2, <2>3, <2>4, <2>5, <2>6, FallsFurther DEF Follows
  <2>8. Target(q)' = Target(q) /\ Target(q) \in Int
    BY <1>2, <2>5 DEF Target
  <2>9. Within(Target(q)', Upcoming(p, q)', IF applying[q] = 0 THEN 2 * n ELSE n)
    <3>1. CASE s = <<>>
      <4>1. Upcoming(p, q)' = health'[p]
        BY <2>6, <3>1 DEF Upcoming
      <4>2. Within(Target(q), health[p], IF applying[q] = 0 THEN m ELSE 0)
        BY <1>2, <2>4, <3>1 DEF Follows
      <4>3. CASE applying[q] = 0
        <5>1. Within(Target(q), health'[p], m + n)
          BY <2>3, <2>5, <2>8, <4>2, <4>3, WithinBoth
        <5>2. QED
          BY <2>3, <2>5, <2>8, <4>1, <4>3, <5>1, WithinMore
      <4>4. CASE applying[q] # 0
        <5>1. Within(Target(q), health'[p], 0 + n)
          BY <2>3, <2>5, <2>8, <4>2, <4>4, WithinBoth
        <5>2. QED
          BY <2>3, <2>5, <2>8, <4>1, <4>4, <5>1, WithinMore
      <4>5. QED
        BY <4>3, <4>4
    <3>2. CASE s # <<>>
      <4>1. Upcoming(p, q)' = Upcoming(p, q) /\ Upcoming(p, q) \in Int
        BY <2>6, <3>2, ElementOfSeq, EmptySeq DEF Upcoming
      <4>2. Within(Target(q), Upcoming(p, q), IF applying[q] = 0 THEN 2 * m ELSE m)
        BY <2>4 DEF Follows
      <4>3. CASE applying[q] = 0
        BY <2>3, <2>8, <4>1, <4>2, <4>3, WithinMore
      <4>4. CASE applying[q] # 0
        BY <2>3, <2>8, <4>1, <4>2, <4>4, WithinMore
      <4>5. QED
        BY <4>3, <4>4
    <3>3. QED
      BY <3>1, <3>2
  <2>10. Within(health'[q], Target(q)', 2 * n)
    BY <2>3, <2>4, <2>5, <2>8 DEF Follows, Within
  <2>11. QED
    BY <1>2, <2>6, <2>7, <2>9, <2>10 DEF Follows, n
<1>6. QED
  BY <1>2, <1>4, <1>5

(* The report, which the hitter's own handler cannot have switched off. *)
LEMMA FollowsReport ==
  ASSUME BowserInv, NEW p \in Players, NEW q \in Players, q # p, hitters = {p},
         NEW m \in Nat, Follows(p, q, m), NEW r \in Players,
         Bowsers!sendDarkBowserHealthPacket(r)
  PROVE  Follows(p, q, m)'
<1> DEFINE s == Pending(p, q)
<1>1. r = p /\ applying[p] = 0
  BY DEF BowserInv, SilentInv, Bowsers!sendDarkBowserHealthPacket
<1>2. /\ struck[p] /\ ~struck'[p] /\ health' = health /\ healthDown' = healthDown
      /\ applying' = applying
      /\ healthUp'[p] = Append(healthUp[p], health[p])
  BY <1>1 DEF BowserInv, Bowsers!TypeOK, Bowsers!sendDarkBowserHealthPacket,
              Bowsers!sDisableBowserDamageHook
<1>3. s \in Seq(Int) /\ s' = Append(s, health[p]) /\ health[p] \in Int
  <2>1. /\ healthUp[p] \in Seq(Int) /\ healthDown[q] \in Seq(Int) /\ health[p] \in Int
        /\ s \in Seq(Int)
    BY FollowTypes
  <2>2. ASSUME NEW u \in Seq(Int), NEW t \in Seq(Int), NEW e \in Int
        PROVE  u \o Append(t, e) = Append(u \o t, e)
    <3> DEFINE S == Int
    <3> HIDE DEF S
    <3>1. u \in Seq(S) /\ t \in Seq(S) /\ e \in S
      BY DEF S
    <3>2. QED
      BY <3>1, Sent
  <2>3. healthDown[q] \o Append(healthUp[p], health[p])
        = Append(healthDown[q] \o healthUp[p], health[p])
    BY <2>1, <2>2, Zenon
  <2>4. s' = healthDown[q] \o Append(healthUp[p], health[p])
    BY <1>2, Zenon DEF Pending
  <2>5. QED
    BY <2>1, <2>3, <2>4, Zenon DEF Pending
<1>4. /\ s' # <<>> /\ s'[Len(s')] = health'[p]
      /\ s # <<>> => s'[1] = s[1]
      /\ s = <<>> => s'[1] = health[p]
  <2> DEFINE t == Append(s, health[p])
  <2>1. /\ t # <<>> /\ Len(t) = Len(s) + 1 /\ t[Len(s) + 1] = health[p]
        /\ \A i \in 1 .. Len(s) : t[i] = s[i]
    BY <1>3, AppendProperties
  <2>2. s # <<>> => 1 \in 1 .. Len(s)
    BY <1>3, EmptySeq
  <2>3. s = <<>> => Len(s) = 0
    OBVIOUS
  <2> HIDE DEF s
  <2>4. QED
    BY <1>2, <1>3, <2>1, <2>2, <2>3
<1>5. Falls(s', health'[p], m)
  BY <1>2, <1>3, FallsReported DEF Follows
<1>6. Upcoming(p, q)' = Upcoming(p, q) /\ Target(q)' = Target(q)
  BY <1>2, <1>4 DEF Upcoming, Target
<1>7. QED
  BY <1>2, <1>4, <1>5, <1>6 DEF Follows

(* The server passes a report on. *)
LEMMA FollowsPassed ==
  ASSUME BowserInv, NEW p \in Players, NEW q \in Players, q # p, hitters = {p},
         NEW m \in Nat, Follows(p, q, m), NEW r \in Players, Bowsers!Redistribute(r)
  PROVE  Follows(p, q, m)'
<1>1. r = p
  BY DEF BowserInv, SilentInv, Bowsers!Redistribute
<1>2. /\ healthUp[p] # <<>> /\ healthUp'[p] = Tail(healthUp[p])
      /\ healthDown'[q] = Append(healthDown[q], Head(healthUp[p]))
      /\ health' = health /\ applying' = applying /\ struck' = struck
  BY <1>1 DEF BowserInv, Bowsers!TypeOK, Bowsers!Redistribute
<1>3. Pending(p, q)' = Pending(p, q)
  <2>1. healthUp[p] \in Seq(Int) /\ healthDown[q] \in Seq(Int)
    BY FollowTypes
  <2>2. Append(healthDown[q], Head(healthUp[p])) \o Tail(healthUp[p])
        = healthDown[q] \o healthUp[p]
    BY <1>2, <2>1, PassedOn
  <2>3. QED
    BY <1>2, <2>2 DEF Pending
<1>4. QED
  BY <1>2, <1>3 DEF Follows, Upcoming, Target

(* The other game hears of a health, and requests the difference. *)
LEMMA FollowsRead ==
  ASSUME BowserInv, NEW p \in Players, NEW q \in Players, q # p, hitters = {p},
         NEW m \in Nat, Follows(p, q, m), NEW r \in Players, Bowsers!ReadHealth(r)
  PROVE  Follows(p, q, m)'
<1> DEFINE s == Pending(p, q)
<1>1. CASE r # q
  <2>1. UNCHANGED <<healthDown[q], healthUp, health, applying[q], struck>>
    BY <1>1 DEF BowserInv, Bowsers!TypeOK, Bowsers!ReadHealth
  <2>2. Pending(p, q)' = Pending(p, q)
    BY <2>1 DEF Pending
  <2>3. QED
    BY <2>1, <2>2 DEF Follows, Upcoming, Target
<1>2. CASE r = q
  <2>1. /\ healthDown[q] # <<>> /\ healthDown'[q] = Tail(healthDown[q])
        /\ applying[q] = 0 /\ applying'[q] = health[q] - Head(healthDown[q])
        /\ health' = health /\ healthUp' = healthUp /\ struck' = struck
    BY <1>2 DEF BowserInv, Bowsers!TypeOK, Bowsers!ReadHealth, Bowsers!toDamage
  <2>2. /\ s \in Seq(Int) /\ s # <<>> /\ s[1] = Head(healthDown[q])
        /\ s' = Tail(s)
    <3>1. healthUp[p] \in Seq(Int) /\ healthDown[q] \in Seq(Int) /\ s \in Seq(Int)
      BY FollowTypes
    <3>2. LET t == healthDown[q] \o healthUp[p]
          IN  /\ t # <<>> /\ t[1] = Head(healthDown[q])
              /\ Tail(healthDown[q]) \o healthUp[p] = Tail(t)
      BY <2>1, <3>1, Arrives
    <3>3. QED
      BY <2>1, <3>1, <3>2 DEF Pending
  <2>3. s[1] \in Int /\ health[q] \in Int /\ health[p] \in Int /\ s[Len(s)] \in Int
    <3>1. 1 \in 1 .. Len(s) /\ Len(s) \in 1 .. Len(s)
      BY <2>2, EmptySeq
    <3>2. s[1] \in Int /\ s[Len(s)] \in Int
      BY <2>2, <3>1, ElementOfSeq
    <3>3. QED
      BY <3>2, FollowTypes
  <2>4. Falls(s, health[p], m)
    BY DEF Follows
  <2>5. /\ Falls(s', health'[p], m)
        /\ s' = <<>> => s[1] = s[Len(s)]
        /\ s' # <<>> => Within(s[1], s'[1], m) /\ s'[Len(s')] = s[Len(s)]
    BY <2>1, <2>2, <2>3, <2>4, FallsHeard
  <2>6. Target(q)' = s[1] /\ Target(q) = health[q]
    <3>1. Target(q)' = health[q] - (health[q] - s[1])
      BY <2>1, <2>2 DEF Target
    <3>2. Target(q) = health[q] - 0
      BY <2>1 DEF Target
    <3> HIDE DEF s
    <3>3. QED
      BY <2>3, <3>1, <3>2
  <2>7. Within(health[q], s[1], 2 * m)
    BY <2>1, <2>2, <2>6 DEF Follows, Upcoming
  <2>8. Within(s[1], Upcoming(p, q)', m)
    <3>1. CASE s' = <<>>
      BY <2>1, <2>2, <2>4, <2>5, <3>1 DEF Upcoming, Falls
    <3>2. CASE s' # <<>>
      BY <2>5, <3>2 DEF Upcoming
    <3>3. QED
      BY <3>1, <3>2
  <2>9. ~struck[p] => s[Len(s)] = health[p]
    BY <2>2 DEF Follows
  <2>10. Upcoming(p, q)' \in Int
    <3>1. s' \in Seq(Int)
      BY <2>2, HeadTailProperties
    <3>2. QED
      BY <2>1, <2>3, <3>1, ElementOfSeq, EmptySeq DEF Upcoming
  <2>11. Within(s[1], Upcoming(p, q)', IF applying'[q] = 0 THEN 2 * m ELSE m)
    <3>1. m <= 2 * m /\ 2 * m \in Int /\ m \in Int
      OBVIOUS
    <3>2. Within(s[1], Upcoming(p, q)', 2 * m)
      BY <2>3, <2>8, <2>10, <3>1, WithinMore
    <3>3. QED
      BY <2>8, <3>2
  <2>12. ~struck[p] /\ s' = <<>> =>
           Within(s[1], health[p], IF applying'[q] = 0 THEN m ELSE 0)
    BY <2>3, <2>5, <2>9 DEF Within
  <2>13. QED
    BY <2>1, <2>5, <2>6, <2>7, <2>9, <2>11, <2>12 DEF Follows
<1>3. QED
  BY <1>1, <1>2

(* The difference goes through the hook, which halves it. *)
LEMMA FollowsApplied ==
  ASSUME BowserInv, NEW p \in Players, NEW q \in Players, q # p, hitters = {p},
         NEW m \in Nat, Follows(p, q, m), NEW r \in Players, Bowsers!ApplyDamage(r)
  PROVE  Follows(p, q, m)'
<1>1. r # p
  BY DEF BowserInv, SilentInv, Bowsers!ApplyDamage
<1>2. UNCHANGED <<health[p], healthDown, healthUp, struck>>
  BY <1>1 DEF BowserInv, Bowsers!TypeOK, Bowsers!ApplyDamage
<1>3. Pending(p, q)' = Pending(p, q) /\ Upcoming(p, q)' = Upcoming(p, q)
  BY <1>2 DEF Pending, Upcoming
<1>4. CASE r # q
  <2>1. UNCHANGED <<health[q], applying[q]>>
    BY <1>4 DEF BowserInv, Bowsers!TypeOK, Bowsers!ApplyDamage
  <2>2. QED
    BY <1>2, <1>3, <2>1 DEF Follows, Target
<1>5. CASE r = q
  <2>1. /\ applying[q] # 0 /\ applying'[q] = 0
        /\ health'[q] = health[q] - Bowsers!Halve(applying[q])
    BY <1>5 DEF BowserInv, Bowsers!TypeOK, Bowsers!ApplyDamage
  <2>2. /\ health[q] \in Int /\ applying[q] \in Int /\ health[p] \in Int
        /\ Target(q) = health[q] - applying[q] /\ Target(q) \in Int
        /\ Upcoming(p, q) \in Int
    BY FollowTypes
  <2>3. /\ Within(health[q], Target(q), 2 * m)
        /\ Within(Target(q), Upcoming(p, q), m)
        /\ ~struck[p] /\ Pending(p, q) = <<>> => Within(Target(q), health[p], 0)
    BY <2>1 DEF Follows
  <2>4. applying[q] \in Nat /\ applying[q] <= 2 * m
    BY <2>2, <2>3 DEF Within
  <2>5. PICK h \in Nat : /\ h = Bowsers!Halve(applying[q])
                         /\ 2 * h <= applying[q] /\ applying[q] <= 2 * h + 1
    BY <2>4, HalveBounds
  <2>6. health'[q] = health[q] - h /\ Target(q)' = health'[q] - 0
    BY <2>1, <2>5 DEF Target
  <2>7. Target(q)' \in Int /\ Target(q)' = health'[q] /\ Within(Target(q)', Target(q), m)
    BY <2>2, <2>4, <2>5, <2>6 DEF Within
  <2>8. Within(Target(q)', Upcoming(p, q)', 2 * m)
    <3>1. Within(Target(q)', Upcoming(p, q), m + m) /\ m + m = 2 * m
      BY <2>2, <2>3, <2>7, WithinBoth
    <3>2. QED
      BY <1>3, <3>1
  <2>9. ~struck[p] /\ Pending(p, q) = <<>> => Within(Target(q)', health'[p], m)
    <3>1. ASSUME ~struck[p], Pending(p, q) = <<>>
          PROVE  Within(Target(q)', health[p], m + 0) /\ m + 0 = m
      BY <2>2, <2>3, <2>7, <3>1, WithinBoth
    <3>2. QED
      BY <1>2, <3>1
  <2>10. Within(health'[q], Target(q)', 2 * m)
    BY <2>7 DEF Within
  <2>11. QED
    BY <1>2, <1>3, <2>1, <2>8, <2>9, <2>10 DEF Follows
<1>6. QED
  BY <1>4, <1>5

LEMMA BowsersFollow ==
  BowserInv /\ [Bowsers!Next]_(Bowsers!vars) => FollowInv'
<1> SUFFICES ASSUME BowserInv, [Bowsers!Next]_(Bowsers!vars),
                    NEW p \in Players, hitters' = {p}
             PROVE  \E d \in Damages :
                      \A q \in Players \ {p} : Follows(p, q, Bowsers!Halve(d))'
  BY DEF FollowInv
<1>1. CASE \E r \in Players : Bowsers!Hit(r)
  <2>1. PICK r \in Players : Bowsers!Hit(r)
    BY <1>1
  <2>2. r = p
    BY <2>1 DEF Bowsers!Hit
  <2>3. QED
    BY <2>1, <2>2, FollowsHit
<1>2. CASE ~\E r \in Players : Bowsers!Hit(r)
  <2>1. hitters = {p}
    BY <1>2 DEF Bowsers!Next, Bowsers!vars, Bowsers!sendDarkBowserHealthPacket,
                Bowsers!Redistribute, Bowsers!ReadHealth, Bowsers!ApplyDamage
  <2>2. PICK d \in Damages : \A q \in Players \ {p} : Follows(p, q, Bowsers!Halve(d))
    BY <2>1 DEF BowserInv, FollowInv
  <2>3. Bowsers!Halve(d) \in Nat
    BY PartsAssumption, HalveBounds
  <2>4. ASSUME NEW q \in Players \ {p} PROVE Follows(p, q, Bowsers!Halve(d))'
    <3> DEFINE m == Bowsers!Halve(d)
    <3>1. Follows(p, q, m) /\ m \in Nat
      BY <2>2, <2>3
    <3> HIDE DEF m
    <3>2. CASE UNCHANGED Bowsers!vars
      BY <3>1, <3>2 DEF Bowsers!vars, Follows, Upcoming, Target, Pending, m
    <3>3. CASE Bowsers!Next
      BY <1>2, <2>1, <3>1, <3>3, FollowsReport, FollowsPassed, FollowsRead,
         FollowsApplied DEF Bowsers!Next, m
    <3>4. QED
      BY <3>2, <3>3
  <2>5. QED
    BY <2>4
<1>3. QED
  BY <1>1, <1>2

(* While only one player hits, no other bowser is weaker than that player's, and
   when all has arrived it is behind by no more than one hit: the hook halves the
   damage of the handler as well (BowserHealth). *)
THEOREM SpectatorsLag == Bowsers!Spec => []LagsAHit
<1>1. BowserInv => LagsAHit
  <2> SUFFICES ASSUME BowserInv, NEW p \in Players, NEW q \in Players, hitters = {p}
               PROVE  /\ health[q] >= health[p]
                      /\ Bowsers!Quiet =>
                           \E d \in Damages : health[q] - health[p] <= Bowsers!Halve(d)
    BY DEF LagsAHit, Bowsers!LagsAHit, BowserInv
  <2>1. PICK d \in Damages :
          \A r \in Players \ {p} : Follows(p, r, Bowsers!Halve(d))
    BY DEF BowserInv, FollowInv
  <2>2. Bowsers!Halve(d) \in Nat /\ health[q] \in Int /\ health[p] \in Int
        /\ applying[q] \in Int
    BY PartsAssumption, HalveBounds DEF BowserInv, Bowsers!TypeOK
  <2>3. CASE q = p
    BY <2>2, <2>3
  <2>4. CASE q # p
    <3> DEFINE m == Bowsers!Halve(d)
               s == Pending(p, q)
    <3>1. Follows(p, q, m) /\ m \in Nat
      BY <2>1, <2>2, <2>4
    <3> HIDE DEF m
    <3>2. s \in Seq(Int)
      BY ConcatProperties DEF Pending, BowserInv, Bowsers!TypeOK
    <3>3. Upcoming(p, q) \in Int /\ health[p] <= Upcoming(p, q)
      <4>1. CASE s = <<>>
        BY <2>2, <4>1 DEF Upcoming
      <4>2. CASE s # <<>>
        <5>1. 1 \in 1 .. Len(s)
          BY <3>2, <4>2, EmptySeq
        <5>2. QED
          BY <3>1, <3>2, <4>2, <5>1, ElementOfSeq DEF Upcoming, Follows, Falls
      <4>3. QED
        BY <4>1, <4>2
    <3>4. health[q] >= health[p]
      BY <2>2, <3>1, <3>3 DEF Follows, Within, Target
    <3>5. ASSUME Bowsers!Quiet PROVE health[q] - health[p] <= m
      <4>1. ~struck[p] /\ applying[q] = 0 /\ healthDown[q] = <<>> /\ healthUp[p] = <<>>
        BY <3>5 DEF Bowsers!Quiet
      <4>2. s = <<>>
        BY <4>1, ConcatEmptySeq DEF Pending
      <4>3. Within(Target(q), health[p], m)
        BY <3>1, <4>1, <4>2 DEF Follows
      <4>4. QED
        BY <2>2, <4>1, <4>3 DEF Target, Within
    <3>6. QED
      BY <3>4, <3>5 DEF m
  <2>5. QED
    BY <2>3, <2>4
<1>2. BowserInv /\ [Bowsers!Next]_(Bowsers!vars) => BowserInv'
  BY BowsersType, BowsersSilent, BowsersFollow DEF BowserInv
<1>3. QED
  BY BowsersInit, <1>1, <1>2, PTL DEF Bowsers!Spec

-----------------------------------------------------------------------------
(* The jump-flip panels (JumpFlip) *)

OnlyFrom(senders) == \A q \in Players \ senders : flipUp[q] = <<>>

NoAnswers == \A q \in Players : flipDown[q] = <<>>

(* One jump since all was quiet.  Its report is on its way, or it has arrived
   and everybody is right or is told so; if the games agreed before, whoever has
   not heard of it still has the old state. *)
JumpOnItsWay ==
  \E p \in Players :
    /\ flipUp[p] = <<wanted[p]>> /\ OnlyFrom({p}) /\ NoAnswers
    /\ sinceQuiet.agreed =>
         /\ wanted[p] = ~jumpFlipState /\ panel[p] = ~jumpFlipState
         /\ \A q \in Players \ {p} :
              wanted[q] = jumpFlipState /\ panel[q] = jumpFlipState

JumpTaken ==
  /\ OnlyFrom({})
  /\ \A q \in Players :
       \/ flipDown[q] = <<>> /\ wanted[q] = jumpFlipState
       \/ /\ flipDown[q] = <<jumpFlipState>>
          /\ sinceQuiet.agreed =>
               wanted[q] = ~jumpFlipState /\ panel[q] = ~jumpFlipState

(* Two jumps of games that agreed: both reports on their way, of one player or of
   two; the second one, whose sender will be told, or has what it asks for; or
   none, and the last that everybody hears is right. *)
BothFromOne ==
  \E p \in Players :
    /\ flipUp[p] = <<~jumpFlipState, jumpFlipState>> /\ OnlyFrom({p}) /\ NoAnswers
    /\ wanted[p] = jumpFlipState

BothFromTwo ==
  \E p, r \in Players :
    /\ p # r /\ OnlyFrom({p, r})
    /\ flipUp[p] = <<~jumpFlipState>> /\ flipUp[r] = <<~jumpFlipState>>

SecondOnItsWay ==
  \E p \in Players :
    /\ OnlyFrom({p})
    /\ \/ flipUp[p] = <<jumpFlipState>>
       \/ /\ flipUp[p] = <<~jumpFlipState>>
          /\ flipDown[p] = <<>> /\ wanted[p] = ~jumpFlipState

BothTaken ==
  /\ OnlyFrom({})
  /\ \A q \in Players :
       IF flipDown[q] = <<>> THEN wanted[q] = jumpFlipState
       ELSE flipDown[q][Len(flipDown[q])] = jumpFlipState

OneJump == JumpOnItsWay \/ JumpTaken

TwoJumps == BothFromOne \/ BothFromTwo \/ SecondOnItsWay \/ BothTaken

JumpsInv ==
  /\ ~sinceQuiet.disturbed /\ sinceQuiet.jumps = 1 => OneJump
  /\ ~sinceQuiet.disturbed /\ sinceQuiet.jumps = 2 /\ sinceQuiet.agreed => TwoJumps

FlipInv ==
  /\ Flips!TypeOK
  /\ sinceQuiet.jumps <= flips
  /\ sinceQuiet.jumps = 0 => Flips!Quiet
  /\ JumpsInv

LEMMA ShortSeqs ==
  ASSUME NEW u, NEW v
  PROVE  /\ <<v>> # <<>> /\ <<u, v>> # <<>>
         /\ Head(<<v>>) = v /\ Tail(<<v>>) = <<>> /\ Append(<<>>, v) = <<v>>
         /\ Append(<<u>>, v) = <<u, v>> /\ Head(<<u, v>>) = u /\ Tail(<<u, v>>) = <<v>>
         /\ <<v>>[Len(<<v>>)] = v
<1>1. <<v>> \in Seq({u, v}) /\ <<u, v>> \in Seq({u, v}) /\ <<u>> \in Seq({u, v})
  OBVIOUS
<1>2. /\ <<v>> # <<>> /\ <<u, v>> # <<>> /\ Head(<<v>>) = v /\ Head(<<u, v>>) = u
      /\ <<v>>[Len(<<v>>)] = v
  OBVIOUS
<1>3. Append(<<>>, v) = <<v>> /\ Append(<<u>>, v) = <<u, v>>
  <2> DEFINE S == {u, v}
             a == Append(<<u>>, v)
             b == <<u, v>>
  <2>1. <<u>> \in Seq(S) /\ v \in S /\ Len(<<u>>) = 1 /\ <<u>>[1] = u
        /\ b \in Seq(S) /\ Len(b) = 2 /\ b[1] = u /\ b[2] = v
    BY <1>1
  <2>2. a \in Seq(S) /\ Len(a) = 2 /\ a[1] = u /\ a[2] = v
    BY <2>1, AppendProperties
  <2> HIDE DEF S, a, b
  <2>3. a = b
    BY <2>1, <2>2, SeqEqual
  <2>4. Append(<<>>, v) = <<v>>
    OBVIOUS
  <2>5. QED
    BY <2>3, <2>4 DEF a, b
<1>4. Tail(<<v>>) = <<>>
  OBVIOUS
<1>5. Tail(<<u, v>>) = <<v>>
  <2>1. /\ Tail(<<u, v>>) \in Seq({u, v}) /\ Len(Tail(<<u, v>>)) = 1
        /\ Tail(<<u, v>>)[1] = <<u, v>>[2]
    <3>1. Len(<<u, v>>) = 2
      OBVIOUS
    <3>2. QED
      BY <1>1, <1>2, <3>1, HeadTailProperties
  <2>2. Len(<<v>>) = 1 /\ <<v>>[1] = v /\ <<u, v>>[2] = v
    OBVIOUS
  <2>3. \A i \in 1 .. 1 : Tail(<<u, v>>)[i] = <<v>>[i]
    BY <2>1, <2>2
  <2>4. QED
    BY <2>1, <2>2, <2>3, <1>1, SeqEqual
<1>6. QED
  BY <1>2, <1>3, <1>4, <1>5

LEMMA LastSent ==
  ASSUME NEW S, NEW s \in Seq(S), NEW v \in S
  PROVE  /\ Append(s, v) # <<>> /\ Append(s, v)[Len(Append(s, v))] = v
         /\ s = <<>> => Append(s, v) = <<v>>
<1>1. /\ Append(s, v) # <<>> /\ Len(Append(s, v)) = Len(s) + 1
      /\ Append(s, v)[Len(s) + 1] = v
  BY AppendProperties
<1>2. s = <<>> => Append(s, v) = <<v>>
  BY ShortSeqs
<1>3. QED
  BY <1>1, <1>2

LEMMA AnswerSent ==
  ASSUME NEW s \in Seq(BOOLEAN), NEW v \in BOOLEAN
  PROVE  /\ Append(s, v) # <<>> /\ Append(s, v)[Len(Append(s, v))] = v
         /\ s = <<>> => Append(s, v) = <<v>>
  BY LastSent

LEMMA LastLeft ==
  ASSUME NEW S, NEW s \in Seq(S), s # <<>>
  PROVE  IF Tail(s) = <<>> THEN Head(s) = s[Len(s)]
         ELSE Tail(s)[Len(Tail(s))] = s[Len(s)]
<1> DEFINE t == Tail(s)
<1>1. /\ Head(s) = s[1] /\ t \in Seq(S) /\ Len(t) = Len(s) - 1
      /\ \A i \in 1 .. Len(t) : t[i] = s[i + 1]
  BY HeadTailProperties
<1>2. Len(s) \in Nat \ {0} /\ Len(<<>>) = 0
  BY EmptySeq
<1> HIDE DEF t
<1>3. t = <<>> => Head(s) = s[Len(s)]
  <2>1. t = <<>> => Len(t) = 0
    BY <1>2
  <2>2. t = <<>> => Len(s) = 1
    BY <1>1, <1>2, <2>1
  <2>3. QED
    BY <1>1, <2>2
<1>4. t # <<>> => t[Len(t)] = s[Len(s)]
  <2>1. t # <<>> => Len(t) \in 1 .. Len(t)
    BY <1>1, EmptySeq
  <2>2. QED
    BY <1>1, <1>2, <2>1
<1>5. QED
  BY <1>3, <1>4 DEF t

LEMMA Reports ==
  /\ <<jumpFlipState>> # <<>> /\ <<~jumpFlipState>> # <<>>
  /\ <<~jumpFlipState, jumpFlipState>> # <<>>
  /\ Tail(<<jumpFlipState>>) = <<>> /\ Tail(<<~jumpFlipState>>) = <<>>
  /\ Tail(<<~jumpFlipState, jumpFlipState>>) = <<jumpFlipState>>
  /\ Append(<<~jumpFlipState>>, jumpFlipState) = <<~jumpFlipState, jumpFlipState>>
<1> DEFINE u == ~jumpFlipState
<1> HIDE DEF u
<1>1. /\ <<jumpFlipState>> # <<>> /\ <<u>> # <<>> /\ <<u, jumpFlipState>> # <<>>
      /\ Tail(<<jumpFlipState>>) = <<>> /\ Tail(<<u>>) = <<>>
      /\ Tail(<<u, jumpFlipState>>) = <<jumpFlipState>>
      /\ Append(<<u>>, jumpFlipState) = <<u, jumpFlipState>>
  BY ShortSeqs
<1>2. QED
  BY <1>1 DEF u

LEMMA FlipsInit == Flips!Init => FlipInv
<1> SUFFICES ASSUME Flips!Init PROVE FlipInv
  OBVIOUS
<1>1. Flips!TypeOK
  BY PartsAssumption DEF Flips!Init, Flips!TypeOK
<1>2. sinceQuiet.jumps = 0 /\ flips = 0 /\ Flips!Quiet
  BY DEF Flips!Init, Flips!Quiet
<1>3. QED
  BY <1>1, <1>2 DEF FlipInv, JumpsInv

(* One jump more is counted in the record and in all. *)
LEMMA JumpCounted ==
  ASSUME NEW m \in Nat, NEW c \in 0 .. m, c < m,
         NEW r \in [agreed : BOOLEAN, jumps : 0 .. m, disturbed : BOOLEAN], r.jumps <= c
  PROVE  LET t == [r EXCEPT !.jumps = @ + 1]
         IN  /\ t \in [agreed : BOOLEAN, jumps : 0 .. m, disturbed : BOOLEAN]
             /\ t.jumps <= c + 1
<1>1. r.jumps + 1 \in 0 .. m /\ r.jumps + 1 <= c + 1
  OBVIOUS
<1>2. QED
  BY <1>1

LEMMA FlipsType ==
  FlipInv /\ [Flips!Next]_(Flips!vars)
    => Flips!TypeOK' /\ (sinceQuiet.jumps <= flips)'
<1> SUFFICES ASSUME FlipInv, [Flips!Next]_(Flips!vars)
             PROVE  Flips!TypeOK' /\ (sinceQuiet.jumps <= flips)'
  OBVIOUS
<1> DEFINE Goal == Flips!TypeOK' /\ (sinceQuiet.jumps <= flips)'
<1> USE PartsAssumption DEF Flips!TypeOK, FlipInv
<1>1. ASSUME NEW p \in Players, Flips!Jump(p) PROVE Goal
  <2>1. Append(flipUp[p], ~panel[p]) \in Seq(BOOLEAN)
    BY AppendProperties
  <2>2. sinceQuiet' \in [agreed : BOOLEAN, jumps : 0 .. MaxFlips, disturbed : BOOLEAN]
        /\ sinceQuiet'.jumps <= flips'
    <3>1. Flips!Agreed \in BOOLEAN
      BY DEF Flips!Agreed
    <3>2. /\ flips' = flips + 1 /\ flips < MaxFlips
          /\ MaxFlips \in Nat /\ flips \in 0 .. MaxFlips
      BY <1>1 DEF Flips!Jump
    <3>3. CASE Flips!Quiet
      <4>1. sinceQuiet' = [agreed |-> Flips!Agreed, jumps |-> 1, disturbed |-> FALSE]
        BY <1>1, <3>3 DEF Flips!Jump
      <4>2. 1 \in 0 .. MaxFlips /\ 1 <= flips'
        BY <3>2
      <4>3. QED
        BY <3>1, <4>1, <4>2
    <3>4. CASE ~Flips!Quiet
      <4>1. sinceQuiet' = [sinceQuiet EXCEPT !.jumps = @ + 1]
        BY <1>1, <3>4 DEF Flips!Jump
      <4>2. /\ sinceQuiet \in [agreed : BOOLEAN, jumps : 0 .. MaxFlips, disturbed : BOOLEAN]
            /\ sinceQuiet.jumps <= flips
        OBVIOUS
      <4>3. QED
        BY <3>2, <4>1, <4>2, JumpCounted
    <3>5. QED
      BY <3>3, <3>4
  <2>3. /\ flips' \in 0 .. MaxFlips
        /\ UNCHANGED <<jumpFlipState, lastFlip, flipDown, lost>>
    <3>1. /\ flips' = flips + 1 /\ flips < MaxFlips
          /\ flips \in 0 .. MaxFlips /\ MaxFlips \in Nat
      BY <1>1 DEF Flips!Jump
    <3>2. flips' \in 0 .. MaxFlips
      BY <3>1, OneUp
    <3>3. QED
      BY <1>1, <3>2 DEF Flips!Jump
  <2>4. flipUp' \in [Players -> Seq(BOOLEAN)]
    <3>1. flipUp' = [flipUp EXCEPT ![p] = Append(@, ~panel[p])]
      BY <1>1 DEF Flips!Jump
    <3>2. QED
      BY <2>1, <3>1
  <2>5. /\ wanted' \in [Players -> BOOLEAN] /\ panel' \in [Players -> BOOLEAN]
        /\ hasty' \in [Players -> BOOLEAN]
        /\ turning' \in [Players -> {"no", "early", "late"}]
    BY <1>1 DEF Flips!Jump
  <2>6. QED
    BY <2>2, <2>3, <2>4, <2>5
<1>2. ASSUME NEW p \in Players, Flips!Calm(p) PROVE Goal
  BY <1>2 DEF Flips!Calm
<1>3. ASSUME NEW p \in Players, Flips!Follow(p) PROVE Goal
  BY <1>3 DEF Flips!Follow
<1>4. ASSUME NEW p \in Players, Flips!Turn(p) PROVE Goal
  BY <1>4 DEF Flips!Turn
<1>5. ASSUME NEW p \in Players, Flips!handleToC_JumpFlip(p) PROVE Goal
  <2>1. Head(flipDown[p]) \in BOOLEAN /\ Tail(flipDown[p]) \in Seq(BOOLEAN)
    BY <1>5, HeadTailProperties DEF Flips!handleToC_JumpFlip
  <2>2. QED
    BY <1>5, <2>1 DEF Flips!handleToC_JumpFlip
<1>6. ASSUME NEW p \in Players, Flips!IgnoreReport(p) PROVE Goal
  <2>1. Tail(flipUp[p]) \in Seq(BOOLEAN)
    BY <1>6, HeadTailProperties DEF Flips!IgnoreReport
  <2>2. QED
    BY <1>6, <2>1 DEF Flips!IgnoreReport, Flips!gameVars
<1>7. ASSUME NEW p \in Players, Flips!handleJumpFlip(p) PROVE Goal
  <2>1. Tail(flipUp[p]) \in Seq(BOOLEAN)
    BY <1>7, HeadTailProperties DEF Flips!handleJumpFlip
  <2>2. \A q \in Players : Append(flipDown[q], ~jumpFlipState) \in Seq(BOOLEAN)
    BY AppendProperties
  <2>3. QED
    BY <1>7, <2>1, <2>2 DEF Flips!handleJumpFlip, Flips!gameVars
<1>8. ASSUME NEW p \in Players, Flips!LoseReport(p) PROVE Goal
  <2>1. Tail(flipUp[p]) \in Seq(BOOLEAN)
    BY <1>8, HeadTailProperties DEF Flips!LoseReport
  <2>2. QED
    <3>1. /\ lost' \in 0 .. MaxLost
          /\ sinceQuiet' \in [agreed : BOOLEAN, jumps : 0 .. MaxFlips, disturbed : BOOLEAN]
          /\ sinceQuiet'.jumps <= flips'
      <4>1. lost' = lost + 1 /\ lost < MaxLost /\ flips' = flips
            /\ sinceQuiet' = [sinceQuiet EXCEPT !.disturbed = TRUE]
        BY <1>8 DEF Flips!LoseReport
      <4>2. lost' \in 0 .. MaxLost
        <5>1. MaxLost \in Nat /\ lost \in 0 .. MaxLost
          OBVIOUS
        <5>2. QED
          BY <4>1, <5>1, OneUp
      <4>3. sinceQuiet'.jumps = sinceQuiet.jumps /\ sinceQuiet.jumps <= flips
        BY <4>1
      <4>4. sinceQuiet' \in [agreed : BOOLEAN, jumps : 0 .. MaxFlips, disturbed : BOOLEAN]
        BY <4>1
      <4>5. QED
        BY <4>1, <4>2, <4>3, <4>4
    <3>2. QED
      BY <1>8, <2>1, <3>1 DEF Flips!LoseReport, Flips!gameVars
<1>9. ASSUME NEW p \in Players, Flips!LoseAnswer(p) PROVE Goal
  <2>1. Tail(flipDown[p]) \in Seq(BOOLEAN)
    BY <1>9, HeadTailProperties DEF Flips!LoseAnswer
  <2>2. QED
    <3>1. /\ lost' \in 0 .. MaxLost
          /\ sinceQuiet' \in [agreed : BOOLEAN, jumps : 0 .. MaxFlips, disturbed : BOOLEAN]
          /\ sinceQuiet'.jumps <= flips'
      <4>1. lost' = lost + 1 /\ lost < MaxLost /\ flips' = flips
            /\ sinceQuiet' = [sinceQuiet EXCEPT !.disturbed = TRUE]
        BY <1>9 DEF Flips!LoseAnswer
      <4>2. lost' \in 0 .. MaxLost
        <5>1. MaxLost \in Nat /\ lost \in 0 .. MaxLost
          OBVIOUS
        <5>2. QED
          BY <4>1, <5>1, OneUp
      <4>3. sinceQuiet'.jumps = sinceQuiet.jumps /\ sinceQuiet.jumps <= flips
        BY <4>1
      <4>4. sinceQuiet' \in [agreed : BOOLEAN, jumps : 0 .. MaxFlips, disturbed : BOOLEAN]
        BY <4>1
      <4>5. QED
        BY <4>1, <4>2, <4>3, <4>4
    <3>2. QED
      BY <1>9, <2>1, <3>1 DEF Flips!LoseAnswer, Flips!gameVars
<1>10. CASE Flips!Elapse
  BY <1>10 DEF Flips!Elapse, Flips!gameVars
<1>11. CASE UNCHANGED Flips!vars
  BY <1>11 DEF Flips!vars, Flips!gameVars
<1>12. QED
  BY <1>1, <1>2, <1>3, <1>4, <1>5, <1>6, <1>7, <1>8, <1>9, <1>10, <1>11
  DEF Flips!Next

LEMMA FlipsCalm ==
  FlipInv /\ [Flips!Next]_(Flips!vars) => (sinceQuiet.jumps = 0 => Flips!Quiet)'
<1> SUFFICES ASSUME FlipInv, [Flips!Next]_(Flips!vars), sinceQuiet'.jumps = 0
             PROVE  Flips!Quiet'
  OBVIOUS
<1> USE DEF FlipInv, Flips!TypeOK
<1>1. ASSUME NEW p \in Players PROVE ~Flips!Jump(p)
  <2>1. CASE Flips!Quiet
    BY <2>1 DEF Flips!Jump
  <2>2. CASE ~Flips!Quiet
    <3>1. Flips!Jump(p) => sinceQuiet'.jumps = sinceQuiet.jumps + 1
      BY <2>2 DEF Flips!Jump
    <3>2. QED
      BY <3>1
  <2>3. QED
    BY <2>1, <2>2
<1>2. sinceQuiet.jumps = 0
  BY <1>1 DEF Flips!Next, Flips!vars, Flips!Calm, Flips!Follow, Flips!Turn,
      Flips!handleToC_JumpFlip, Flips!IgnoreReport, Flips!handleJumpFlip,
      Flips!LoseReport, Flips!LoseAnswer, Flips!Elapse
<1>3. Flips!Quiet
  BY <1>2
<1>4. UNCHANGED <<flipUp, flipDown, turning, panel, wanted>>
  BY <1>1, <1>3
  DEF Flips!Quiet, Flips!Next, Flips!vars, Flips!gameVars, Flips!Calm, Flips!Follow,
      Flips!Turn, Flips!handleToC_JumpFlip, Flips!IgnoreReport, Flips!handleJumpFlip,
      Flips!LoseReport, Flips!LoseAnswer, Flips!Elapse
<1>5. QED
  BY <1>3, <1>4 DEF Flips!Quiet

(* A jump when all is quiet, and a second one of games that agreed. *)
LEMMA FlipsFirstJump ==
  ASSUME FlipInv, NEW p \in Players, Flips!Jump(p), Flips!Quiet
  PROVE  JumpOnItsWay'
<1> USE DEF FlipInv, Flips!TypeOK
<1>1. /\ flipUp'[p] = Append(flipUp[p], ~panel[p]) /\ flipUp[p] = <<>>
      /\ wanted'[p] = ~panel[p] /\ panel'[p] = ~panel[p]
      /\ \A q \in Players \ {p} :
           flipUp'[q] = flipUp[q] /\ wanted'[q] = wanted[q] /\ panel'[q] = panel[q]
      /\ flipDown' = flipDown /\ jumpFlipState' = jumpFlipState
      /\ sinceQuiet'.agreed = Flips!Agreed
  BY DEF Flips!Jump, Flips!Quiet
<1>2. flipUp'[p] = <<wanted'[p]>>
  BY <1>1, ShortSeqs
<1>3. OnlyFrom({p})' /\ NoAnswers'
  BY <1>1 DEF OnlyFrom, NoAnswers, Flips!Quiet
<1>4. ASSUME Flips!Agreed
      PROVE  /\ wanted'[p] = ~jumpFlipState' /\ panel'[p] = ~jumpFlipState'
             /\ \A q \in Players \ {p} :
                  wanted'[q] = jumpFlipState' /\ panel'[q] = jumpFlipState'
  BY <1>1, <1>4 DEF Flips!Agreed, Flips!Quiet
<1>5. QED
  BY <1>1, <1>2, <1>3, <1>4 DEF JumpOnItsWay

LEMMA FlipsSecondJump ==
  ASSUME FlipInv, NEW p \in Players, Flips!Jump(p), ~Flips!Quiet,
         OneJump, sinceQuiet.agreed
  PROVE  TwoJumps'
<1> USE DEF FlipInv, Flips!TypeOK
<1>1. /\ flipUp'[p] = Append(flipUp[p], ~panel[p])
      /\ wanted'[p] = ~panel[p]
      /\ \A q \in Players \ {p} : flipUp'[q] = flipUp[q] /\ wanted'[q] = wanted[q]
      /\ flipDown' = flipDown /\ jumpFlipState' = jumpFlipState
  BY DEF Flips!Jump
<1>2. CASE JumpOnItsWay
  <2>1. PICK r \in Players :
          /\ flipUp[r] = <<wanted[r]>> /\ OnlyFrom({r}) /\ NoAnswers
          /\ wanted[r] = ~jumpFlipState /\ panel[r] = ~jumpFlipState
          /\ \A q \in Players \ {r} : panel[q] = jumpFlipState
    BY <1>2 DEF JumpOnItsWay
  <2>2. CASE r = p
    <3>1. flipUp'[p] = <<~jumpFlipState', jumpFlipState'>>
      <4>1. flipUp[p] = <<~jumpFlipState>> /\ ~panel[p] = jumpFlipState
        BY <2>1, <2>2
      <4>2. flipUp'[p] = Append(<<~jumpFlipState>>, jumpFlipState)
        BY <1>1, <4>1
      <4>3. QED
        BY <1>1, <4>2, Reports
    <3>2. OnlyFrom({p})' /\ NoAnswers' /\ wanted'[p] = jumpFlipState'
      BY <1>1, <2>1, <2>2 DEF OnlyFrom, NoAnswers
    <3>3. QED
      BY <3>1, <3>2 DEF TwoJumps, BothFromOne
  <2>3. CASE r # p
    <3>1. flipUp[p] = <<>> /\ panel[p] = jumpFlipState
      BY <2>1, <2>3 DEF OnlyFrom
    <3>2. flipUp'[p] = <<~jumpFlipState'>>
      BY <1>1, <3>1, ShortSeqs
    <3>3. flipUp'[r] = <<~jumpFlipState'>>
      BY <1>1, <2>1, <2>3
    <3>4. OnlyFrom({p, r})'
      BY <1>1, <2>1 DEF OnlyFrom
    <3>5. QED
      BY <2>3, <3>2, <3>3, <3>4 DEF TwoJumps, BothFromTwo
  <2>4. QED
    BY <2>2, <2>3
<1>3. CASE JumpTaken
  <2>1. flipUp[p] = <<>> /\ OnlyFrom({p})'
    BY <1>1, <1>3 DEF JumpTaken, OnlyFrom
  <2>2. flipUp'[p] = <<~panel[p]>>
    BY <1>1, <2>1, ShortSeqs
  <2>3. CASE panel[p] = jumpFlipState
    <3>1. flipDown[p] = <<>>
      BY <1>3, <2>3 DEF JumpTaken
    <3>2. flipUp'[p] = <<~jumpFlipState'>> /\ wanted'[p] = ~jumpFlipState'
      BY <1>1, <2>2, <2>3
    <3>3. QED
      BY <1>1, <2>1, <3>1, <3>2 DEF TwoJumps, SecondOnItsWay
  <2>4. CASE panel[p] # jumpFlipState
    <3>1. flipUp'[p] = <<jumpFlipState'>>
      BY <1>1, <2>2, <2>4
    <3>2. QED
      BY <2>1, <3>1 DEF TwoJumps, SecondOnItsWay
  <2>5. QED
    BY <2>3, <2>4
<1>4. QED
  BY <1>2, <1>3 DEF OneJump

(* The panels of a game turn, and time passes. *)
LEMMA FlipsTurn ==
  ASSUME FlipInv, UNCHANGED <<jumpFlipState, flipUp, flipDown, wanted, sinceQuiet>>,
         \A q \in Players : panel'[q] # panel[q] => panel[q] # wanted[q]
  PROVE  JumpsInv'
<1> USE DEF FlipInv, Flips!TypeOK
<1>1. ASSUME JumpOnItsWay PROVE JumpOnItsWay'
  <2>1. PICK r \in Players :
          /\ flipUp[r] = <<wanted[r]>> /\ OnlyFrom({r}) /\ NoAnswers
          /\ sinceQuiet.agreed =>
               /\ wanted[r] = ~jumpFlipState /\ panel[r] = ~jumpFlipState
               /\ \A q \in Players \ {r} :
                    wanted[q] = jumpFlipState /\ panel[q] = jumpFlipState
    BY <1>1 DEF JumpOnItsWay
  <2>2. sinceQuiet.agreed => \A q \in Players : panel'[q] = panel[q]
    BY <2>1
  <2>3. sinceQuiet'.agreed => \A q \in Players \ {r} :
                                wanted'[q] = jumpFlipState' /\ panel'[q] = jumpFlipState'
    BY <2>1, <2>2
  <2>4. OnlyFrom({r})' /\ NoAnswers' /\ flipUp'[r] = <<wanted'[r]>>
    BY <2>1 DEF OnlyFrom, NoAnswers
  <2>5. QED
    BY <2>1, <2>2, <2>3, <2>4 DEF JumpOnItsWay
<1>2. ASSUME JumpTaken PROVE JumpTaken'
  BY <1>2, ShortSeqs DEF JumpTaken, OnlyFrom
<1>3. TwoJumps => TwoJumps'
  <2>1. BothFromOne => BothFromOne'
    BY DEF BothFromOne, OnlyFrom, NoAnswers
  <2>2. BothFromTwo => BothFromTwo'
    BY DEF BothFromTwo, OnlyFrom
  <2>3. SecondOnItsWay => SecondOnItsWay'
    BY DEF SecondOnItsWay, OnlyFrom
  <2>4. BothTaken => BothTaken'
    BY DEF BothTaken, OnlyFrom
  <2>5. QED
    BY <2>1, <2>2, <2>3, <2>4 DEF TwoJumps
<1>4. QED
  BY <1>1, <1>2, <1>3 DEF JumpsInv, OneJump

(* A game hears of the server's state. *)
LEMMA FlipsAnswer ==
  ASSUME FlipInv, NEW p \in Players, Flips!handleToC_JumpFlip(p)
  PROVE  JumpsInv'
<1> USE DEF FlipInv, Flips!TypeOK
<1>1. /\ flipDown[p] # <<>> /\ flipDown[p] \in Seq(BOOLEAN)
      /\ wanted'[p] = Head(flipDown[p]) /\ flipDown'[p] = Tail(flipDown[p])
      /\ \A q \in Players \ {p} : wanted'[q] = wanted[q] /\ flipDown'[q] = flipDown[q]
      /\ UNCHANGED <<jumpFlipState, flipUp, panel, sinceQuiet>>
  BY DEF Flips!handleToC_JumpFlip
<1>2. ~JumpOnItsWay /\ ~BothFromOne
  BY <1>1 DEF JumpOnItsWay, BothFromOne, NoAnswers
<1>3. ASSUME JumpTaken PROVE JumpTaken'
  <2>1. flipDown[p] = <<jumpFlipState>>
    BY <1>1, <1>3 DEF JumpTaken
  <2>2. flipDown'[p] = <<>> /\ wanted'[p] = jumpFlipState
    BY <1>1, <2>1, ShortSeqs
  <2>3. OnlyFrom({})'
    BY <1>1, <1>3 DEF JumpTaken, OnlyFrom
  <2>4. ASSUME NEW q \in Players, q # p
        PROVE  /\ wanted'[q] = wanted[q] /\ flipDown'[q] = flipDown[q]
               /\ panel'[q] = panel[q]
    BY <1>1, <2>4
  <2>5. UNCHANGED <<jumpFlipState, sinceQuiet>>
    BY <1>1
  <2> HIDE DEF FlipInv, Flips!TypeOK
  <2>6. QED
    BY <1>3, <2>2, <2>3, <2>4, <2>5 DEF JumpTaken
<1>4. ASSUME BothFromTwo PROVE BothFromTwo'
  <2>1. flipUp' = flipUp /\ jumpFlipState' = jumpFlipState
    BY <1>1
  <2> HIDE DEF FlipInv, Flips!TypeOK
  <2>2. QED
    BY <1>4, <2>1 DEF BothFromTwo, OnlyFrom
<1>5. ASSUME SecondOnItsWay PROVE SecondOnItsWay'
  <2>1. PICK r \in Players :
          /\ OnlyFrom({r})
          /\ \/ flipUp[r] = <<jumpFlipState>>
             \/ /\ flipUp[r] = <<~jumpFlipState>>
                /\ flipDown[r] = <<>> /\ wanted[r] = ~jumpFlipState
    BY <1>5 DEF SecondOnItsWay
  <2>2. OnlyFrom({r})' /\ flipUp'[r] = flipUp[r] /\ jumpFlipState' = jumpFlipState
    BY <1>1, <2>1 DEF OnlyFrom
  <2>3. flipDown[r] = <<>> => flipDown'[r] = <<>> /\ wanted'[r] = wanted[r]
    BY <1>1
  <2> HIDE DEF FlipInv, Flips!TypeOK
  <2>4. QED
    BY <2>1, <2>2, <2>3 DEF SecondOnItsWay
<1>6. ASSUME BothTaken PROVE BothTaken'
  <2>1. flipDown[p][Len(flipDown[p])] = jumpFlipState
    BY <1>1, <1>6 DEF BothTaken
  <2>5. IF flipDown'[p] = <<>> THEN wanted'[p] = jumpFlipState
        ELSE flipDown'[p][Len(flipDown'[p])] = jumpFlipState
    BY <1>1, <2>1, LastLeft
  <2>6. ASSUME NEW q \in Players
        PROVE  IF flipDown'[q] = <<>> THEN wanted'[q] = jumpFlipState
               ELSE flipDown'[q][Len(flipDown'[q])] = jumpFlipState
    BY <1>1, <1>6, <2>5 DEF BothTaken
  <2>7. QED
    BY <1>1, <1>6, <2>6 DEF BothTaken, OnlyFrom
<1>7. QED
  BY <1>1, <1>2, <1>3, <1>4, <1>5, <1>6 DEF JumpsInv, OneJump, TwoJumps

(* The server takes a report. *)
LEMMA FlipsReport ==
  ASSUME FlipInv, NEW p \in Players, Flips!handleJumpFlip(p)
  PROVE  JumpsInv'
<1> USE DEF FlipInv, Flips!TypeOK
<1> DEFINE Told == Head(flipUp[p]) = jumpFlipState
<1>1. /\ flipUp[p] # <<>> /\ flipUp'[p] = Tail(flipUp[p])
      /\ \A q \in Players \ {p} :
           /\ flipUp'[q] = flipUp[q]
           /\ flipDown'[q] = Append(flipDown[q], jumpFlipState')
      /\ flipDown'[p] = IF Told THEN Append(flipDown[p], jumpFlipState')
                        ELSE flipDown[p]
      /\ jumpFlipState' = ~jumpFlipState /\ UNCHANGED <<wanted, panel, sinceQuiet>>
  <2>1. Head(flipUp[p]) \in BOOLEAN
    BY HeadTailProperties DEF Flips!handleJumpFlip
  <2>2. p \in Flips!Audience(p, ~jumpFlipState) <=> Told
    BY <2>1 DEF Flips!Audience
  <2>3. \A q \in Players \ {p} : q \in Flips!Audience(p, ~jumpFlipState)
    BY DEF Flips!Audience
  <2>4. QED
    BY <2>2, <2>3 DEF Flips!handleJumpFlip, Flips!gameVars
<1>2. ~JumpTaken /\ ~BothTaken
  BY <1>1 DEF JumpTaken, BothTaken, OnlyFrom
<1>3. ASSUME NEW q \in Players
      PROVE  /\ Append(flipDown[q], jumpFlipState') # <<>>
             /\ Append(flipDown[q], jumpFlipState')
                  [Len(Append(flipDown[q], jumpFlipState'))] = jumpFlipState'
             /\ flipDown[q] = <<>> =>
                  Append(flipDown[q], jumpFlipState') = <<jumpFlipState'>>
  <2> DEFINE s == flipDown[q]
             v == jumpFlipState'
  <2>1. v \in BOOLEAN /\ s \in Seq(BOOLEAN)
    BY <1>1
  <2> HIDE DEF s, v
  <2>2. /\ Append(s, v) # <<>> /\ Append(s, v)[Len(Append(s, v))] = v
        /\ s = <<>> => Append(s, v) = <<v>>
    BY <2>1, AnswerSent
  <2>3. QED
    BY <2>2 DEF s, v
<1>4. ASSUME JumpOnItsWay PROVE JumpTaken'
  <2>1. /\ flipUp[p] = <<wanted[p]>> /\ OnlyFrom({p}) /\ NoAnswers
        /\ sinceQuiet.agreed =>
             \A q \in Players \ {p} :
               wanted[q] = jumpFlipState /\ panel[q] = jumpFlipState
    BY <1>1, <1>4 DEF JumpOnItsWay, OnlyFrom
  <2>2. Head(flipUp[p]) = wanted[p] /\ flipUp'[p] = <<>>
    BY <1>1, <2>1, ShortSeqs
  <2>3. OnlyFrom({})'
    BY <1>1, <2>1, <2>2 DEF OnlyFrom
  <2>4. ASSUME NEW q \in Players \ {p}
        PROVE  /\ flipDown'[q] = <<jumpFlipState'>>
               /\ sinceQuiet'.agreed =>
                    wanted'[q] = ~jumpFlipState' /\ panel'[q] = ~jumpFlipState'
    <3>1. flipDown'[q] = <<jumpFlipState'>>
      BY <1>1, <1>3, <2>1 DEF NoAnswers
    <3>2. jumpFlipState = ~jumpFlipState'
      BY <1>1
    <3>3. QED
      BY <1>1, <2>1, <3>1, <3>2
  <2>5. \/ flipDown'[p] = <<>> /\ wanted'[p] = jumpFlipState'
        \/ /\ flipDown'[p] = <<jumpFlipState'>>
           /\ ~sinceQuiet'.agreed
    <3>1. flipDown[p] = <<>>
      BY <2>1 DEF NoAnswers
    <3>2. CASE Told
      <4>1. ~sinceQuiet.agreed
        BY <1>4, <2>1, <2>2, <3>2 DEF JumpOnItsWay, OnlyFrom
      <4>2. QED
        BY <1>1, <1>3, <3>1, <3>2, <4>1
    <3>3. CASE ~Told
      BY <1>1, <2>2, <3>1, <3>3
    <3>4. QED
      BY <3>2, <3>3
  <2>6. QED
    BY <2>3, <2>4, <2>5 DEF JumpTaken
<1>5. ASSUME BothFromOne PROVE SecondOnItsWay'
  <2>1. /\ flipUp[p] = <<~jumpFlipState, jumpFlipState>> /\ OnlyFrom({p}) /\ NoAnswers
        /\ wanted[p] = jumpFlipState
    BY <1>1, <1>5 DEF BothFromOne, OnlyFrom
  <2>2. Head(flipUp[p]) = ~jumpFlipState /\ flipUp'[p] = <<jumpFlipState>>
    BY <1>1, <2>1, ShortSeqs
  <2>3. flipDown'[p] = <<>>
    BY <1>1, <2>1, <2>2 DEF NoAnswers
  <2>4. OnlyFrom({p})'
    BY <1>1, <2>1 DEF OnlyFrom
  <2>5. flipUp'[p] = <<~jumpFlipState'>> /\ wanted'[p] = ~jumpFlipState'
    BY <1>1, <2>1, <2>2
  <2>6. QED
    BY <2>3, <2>4, <2>5 DEF SecondOnItsWay
<1>6. ASSUME BothFromTwo PROVE SecondOnItsWay'
  <2>1. PICK r \in Players :
          /\ p # r /\ OnlyFrom({p, r})
          /\ flipUp[p] = <<~jumpFlipState>> /\ flipUp[r] = <<~jumpFlipState>>
    BY <1>1, <1>6 DEF BothFromTwo, OnlyFrom
  <2>2. flipUp'[p] = <<>> /\ flipUp'[r] = <<jumpFlipState'>>
    BY <1>1, <2>1, ShortSeqs
  <2>3. OnlyFrom({r})'
    BY <1>1, <2>1, <2>2 DEF OnlyFrom
  <2>4. QED
    BY <2>2, <2>3 DEF SecondOnItsWay
<1>7. ASSUME SecondOnItsWay PROVE BothTaken'
  <2>1. /\ OnlyFrom({p})
        /\ \/ flipUp[p] = <<jumpFlipState>>
           \/ /\ flipUp[p] = <<~jumpFlipState>>
              /\ flipDown[p] = <<>> /\ wanted[p] = ~jumpFlipState
    BY <1>1, <1>7 DEF SecondOnItsWay, OnlyFrom
  <2>2. flipUp'[p] = <<>>
    BY <1>1, <2>1, Reports
  <2>3. OnlyFrom({})'
    BY <1>1, <2>1, <2>2 DEF OnlyFrom
  <2>4. ASSUME NEW q \in Players \ {p}
        PROVE  flipDown'[q] # <<>> /\ flipDown'[q][Len(flipDown'[q])] = jumpFlipState'
    BY <1>1, <1>3
  <2>5. IF flipDown'[p] = <<>> THEN wanted'[p] = jumpFlipState'
        ELSE flipDown'[p][Len(flipDown'[p])] = jumpFlipState'
    <3>1. CASE flipUp[p] = <<jumpFlipState>>
      <4>1. Told
        BY <3>1, ShortSeqs
      <4>2. QED
        BY <1>1, <1>3, <4>1
    <3>2. CASE /\ flipUp[p] = <<~jumpFlipState>>
               /\ flipDown[p] = <<>> /\ wanted[p] = ~jumpFlipState
      <4>1. Head(flipUp[p]) = ~jumpFlipState
        BY <3>2, ShortSeqs
      <4>2. QED
        BY <1>1, <3>2, <4>1
    <3>3. QED
      BY <2>1, <3>1, <3>2
  <2>6. QED
    BY <2>3, <2>4, <2>5 DEF BothTaken
<1>8. QED
  BY <1>1, <1>2, <1>4, <1>5, <1>6, <1>7 DEF JumpsInv, OneJump, TwoJumps

LEMMA FlipsJumps ==
  FlipInv /\ [Flips!Next]_(Flips!vars) => JumpsInv'
<1> SUFFICES ASSUME FlipInv, [Flips!Next]_(Flips!vars) PROVE JumpsInv'
  OBVIOUS
<1> USE DEF FlipInv
<1>1. ASSUME NEW p \in Players, Flips!Jump(p) PROVE JumpsInv'
  <2>1. CASE Flips!Quiet
    <3>1. sinceQuiet'.jumps = 1
      BY <1>1, <2>1 DEF Flips!Jump
    <3>2. JumpOnItsWay'
      BY <1>1, <2>1, FlipsFirstJump
    <3>3. QED
      BY <3>1, <3>2 DEF JumpsInv, OneJump
  <2>2. CASE ~Flips!Quiet
    <3>1. /\ sinceQuiet'.jumps = sinceQuiet.jumps + 1
          /\ sinceQuiet'.agreed = sinceQuiet.agreed
          /\ sinceQuiet'.disturbed = sinceQuiet.disturbed
          /\ sinceQuiet.jumps \in Nat
      BY <1>1, <2>2 DEF Flips!Jump, Flips!TypeOK
    <3>2. sinceQuiet.jumps # 0
      BY <2>2
    <3>3. ASSUME ~sinceQuiet.disturbed, sinceQuiet.jumps = 1, sinceQuiet.agreed
          PROVE  TwoJumps'
      BY <1>1, <2>2, <3>3, FlipsSecondJump DEF JumpsInv
    <3>4. QED
      BY <3>1, <3>2, <3>3 DEF JumpsInv
  <2>3. QED
    BY <2>1, <2>2
<1>2. ASSUME NEW p \in Players, Flips!Calm(p) \/ Flips!Follow(p) \/ Flips!Turn(p)
      PROVE  JumpsInv'
  <2>1. /\ UNCHANGED <<jumpFlipState, flipUp, flipDown, wanted, sinceQuiet>>
        /\ \A q \in Players : panel'[q] # panel[q] => panel[q] # wanted[q]
    BY <1>2 DEF Flips!TypeOK, Flips!Calm, Flips!Follow, Flips!Turn
  <2>2. QED
    BY <2>1, FlipsTurn
<1>3. CASE Flips!Elapse \/ UNCHANGED Flips!vars
  <2>1. /\ UNCHANGED <<jumpFlipState, flipUp, flipDown, wanted, sinceQuiet>>
        /\ \A q \in Players : panel'[q] # panel[q] => panel[q] # wanted[q]
    BY <1>3 DEF Flips!Elapse, Flips!vars, Flips!gameVars
  <2>2. QED
    BY <2>1, FlipsTurn
<1>4. ASSUME NEW p \in Players,
             Flips!IgnoreReport(p) \/ Flips!LoseReport(p) \/ Flips!LoseAnswer(p)
      PROVE  JumpsInv'
  BY <1>4 DEF Flips!TypeOK, Flips!IgnoreReport, Flips!LoseReport, Flips!LoseAnswer,
              JumpsInv
<1>5. QED
  BY <1>1, <1>2, <1>3, <1>4, FlipsAnswer, FlipsReport DEF Flips!Next

(* One jump that nothing disturbs brings all games to the server's state, and two
   that cross leave games that agreed in agreement: the server flips whatever a
   game asks for, and tells it when it is mistaken (JumpFlip). *)
THEOREM PanelsAgree == Flips!Spec => []FlipsAgree
<1>1. FlipInv => FlipsAgree
  <2> SUFFICES ASSUME FlipInv, Flips!Quiet, ~sinceQuiet.disturbed,
                      OneJump \/ TwoJumps
               PROVE  Flips!Agreed
    BY DEF FlipInv, JumpsInv, FlipsAgree, Flips!FlipsAgree
  <2>1. \A q \in Players : flipUp[q] = <<>> /\ flipDown[q] = <<>> /\ panel[q] = wanted[q]
    BY DEF Flips!Quiet
  <2>2. \A q \in Players : wanted[q] = jumpFlipState
    <3>1. ~JumpOnItsWay /\ ~BothFromOne /\ ~BothFromTwo /\ ~SecondOnItsWay
      <4>1. ~JumpOnItsWay
        BY <2>1, ShortSeqs DEF JumpOnItsWay
      <4>2. ~BothFromOne
        BY <2>1, Reports DEF BothFromOne
      <4>3. ~BothFromTwo
        BY <2>1, Reports DEF BothFromTwo
      <4>4. ~SecondOnItsWay
        BY <2>1, Reports DEF SecondOnItsWay
      <4>5. QED
        BY <4>1, <4>2, <4>3, <4>4
    <3>2. QED
      BY <2>1, <3>1, ShortSeqs DEF OneJump, TwoJumps, JumpTaken, BothTaken
  <2>3. QED
    BY <2>1, <2>2 DEF Flips!Agreed
<1>2. FlipInv /\ [Flips!Next]_(Flips!vars) => FlipInv'
  BY FlipsType, FlipsCalm, FlipsJumps DEF FlipInv
<1>3. QED
  BY FlipsInit, <1>1, <1>2, PTL DEF Flips!Spec

-----------------------------------------------------------------------------
(* The scenario of an island (ScenarioSync) *)

(* Before the first change there is nothing to tell anybody. *)
Unchanged ==
  /\ stored = None /\ storing = None
  /\ \A q \in Players :
       /\ replaying[q] \in {None, "started"} /\ handling[q] = None /\ changing[q] = None
       /\ up[q] = <<>> /\ down[q] = <<>>

(* One change, which has not reached the server: its game has it, and hears of
   no other. *)
ChangeOnItsWay ==
  \E p \in Players, s \in Scenarios :
    /\ storing = None /\ scenario[p] = s /\ handling[p] = None
    /\ \/ changing[p] = s /\ up[p] = <<>>
       \/ changing[p] = None /\ up[p] = <<s>>
    /\ \A q \in Players \ {p} : changing[q] = None /\ up[q] = <<>>

(* And one that has: every game with a scene has it, or will hear of it last. *)
WillHave(q, s) ==
  /\ down[q] # <<>> => down[q][Len(down[q])] = s
  /\ down[q] = <<>> /\ handling[q] \in Scenarios => handling[q] = s
  /\ down[q] = <<>> /\ handling[q] \notin Scenarios /\ visiting[q] =>
       scenario[q] = s \/ entering[q] \/ replaying[q] \in {"started", s}

ChangeTaken ==
  \E s \in Scenarios :
    /\ \A q \in Players : up[q] = <<>> /\ changing[q] = None /\ WillHave(q, s)
    /\ \/ storing = s /\ \A q \in Players : replaying[q] \notin Scenarios
       \/ /\ storing = None /\ stored = s
          /\ \A q \in Players : replaying[q] \in {None, "started", s}

ChangeInv ==
  /\ since.changes = 0 => Unchanged
  /\ since.changes = 1 /\ ~since.hidden /\ ~since.met => ChangeOnItsWay \/ ChangeTaken

IslandInv ==
  /\ Islands!TypeOK
  /\ since.changes <= changes
  /\ ChangeInv

LEMMA IslandsInit == Islands!Init => IslandInv
<1> SUFFICES ASSUME Islands!Init PROVE IslandInv
  OBVIOUS
<1>1. Islands!TypeOK
  BY PartsAssumption DEF Islands!Init, Islands!TypeOK, Islands!Known
<1>2. since.changes = 0 /\ changes = 0 /\ Unchanged
  BY DEF Islands!Init, Unchanged
<1>3. QED
  BY <1>1, <1>2 DEF IslandInv, ChangeInv

(* One change more is counted in the record and in all. *)
LEMMA ChangeCounted ==
  ASSUME NEW m \in Nat, NEW c \in 0 .. m, c < m,
         NEW r \in [changes : 0 .. m, hidden : BOOLEAN, met : BOOLEAN], r.changes <= c
  PROVE  LET t == [r EXCEPT !.changes = @ + 1]
         IN  /\ t \in [changes : 0 .. m, hidden : BOOLEAN, met : BOOLEAN]
             /\ t.changes <= c + 1
<1>1. r.changes + 1 \in 0 .. m /\ r.changes + 1 <= c + 1
  OBVIOUS
<1>2. QED
  BY <1>1

LEMMA IslandsType ==
  Islands!TypeOK /\ since.changes <= changes /\ [Islands!Next]_(Islands!vars)
    => Islands!TypeOK' /\ (since.changes <= changes)'
<1> SUFFICES ASSUME Islands!TypeOK, since.changes <= changes,
                    [Islands!Next]_(Islands!vars)
             PROVE  Islands!TypeOK' /\ (since.changes <= changes)'
  OBVIOUS
<1> DEFINE Goal == Islands!TypeOK' /\ (since.changes <= changes)'
           Since == [changes : 0 .. MaxChanges, hidden : BOOLEAN, met : BOOLEAN]
<1> USE PartsAssumption DEF Islands!TypeOK, Islands!Known, Islands!gameVars,
      Islands!serverVars, Islands!netVars, Islands!histVars
<1>1. ASSUME NEW p \in Players, NEW s \in Scenarios, Islands!Change(p, s) PROVE Goal
  <2>1. since' \in Since /\ since'.changes <= changes'
    <3>1. CASE Islands!Quiet
      <4>1. /\ since' = [changes |-> 1, hidden |-> FALSE, met |-> FALSE]
            /\ changes' = changes + 1 /\ changes < MaxChanges
        BY <1>1, <3>1 DEF Islands!Change
      <4>2. 1 \in 0 .. MaxChanges /\ 1 <= changes'
        BY <4>1
      <4>3. QED
        BY <4>1, <4>2
    <3>2. CASE ~Islands!Quiet
      <4>1. /\ since' = [since EXCEPT !.changes = @ + 1]
            /\ changes' = changes + 1 /\ changes < MaxChanges
        BY <1>1, <3>2 DEF Islands!Change
      <4>2. /\ MaxChanges \in Nat /\ changes \in 0 .. MaxChanges
            /\ since \in Since /\ since.changes <= changes
        OBVIOUS
      <4>3. QED
        BY <4>1, <4>2, ChangeCounted
    <3>3. QED
      BY <3>1, <3>2
  <2>2. /\ changes' \in 0 .. MaxChanges
        /\ UNCHANGED <<stored, storing, replaying, visiting, hookEnabled, handling,
                       up, down, entering, visits>>
    <3>1. /\ changes' = changes + 1 /\ changes < MaxChanges
          /\ changes \in 0 .. MaxChanges /\ MaxChanges \in Nat
      BY <1>1 DEF Islands!Change
    <3>2. changes' \in 0 .. MaxChanges
      BY <3>1, OneUp
    <3>3. QED
      BY <1>1, <3>2 DEF Islands!Change
  <2>3. /\ scenario' \in [Players -> Scenarios]
        /\ changing' \in [Players -> Scenarios \cup {None}]
    BY <1>1 DEF Islands!Change
  <2>4. QED
    BY <2>1, <2>2, <2>3
<1>2. ASSUME NEW p \in Players, Islands!Report(p) PROVE Goal
  <2>1. CASE hookEnabled[p]
    <3>1. Append(up[p], changing[p]) \in Seq(Scenarios)
      BY <1>2, AppendProperties DEF Islands!Report
    <3>2. up' = [up EXCEPT ![p] = Append(@, changing[p])] /\ since' = since
      BY <1>2, <2>1 DEF Islands!Report
    <3>3. up' \in [Players -> Seq(Scenarios)]
      BY <3>1, <3>2
    <3>4. QED
      BY <1>2, <3>2, <3>3 DEF Islands!Report
  <2>2. CASE ~hookEnabled[p]
    <3>1. since' = [since EXCEPT !.hidden = TRUE] /\ up' = up
      BY <1>2, <2>2 DEF Islands!Report
    <3>2. since' \in Since /\ since'.changes = since.changes
      BY <3>1
    <3>3. changing' \in [Players -> Scenarios \cup {None}]
      BY <1>2 DEF Islands!Report
    <3>4. QED
      BY <1>2, <3>1, <3>2, <3>3 DEF Islands!Report
  <2>3. QED
    BY <2>1, <2>2
<1>3. ASSUME NEW p \in Players, Islands!Leave(p) PROVE Goal
  BY <1>3 DEF Islands!Leave
<1>4. ASSUME NEW p \in Players, Islands!Enter(p) PROVE Goal
  BY <1>4 DEF Islands!Enter
<1>5. ASSUME NEW p \in Players, Islands!DropUpdate(p) PROVE Goal
  <2>1. Tail(down[p]) \in Seq(Scenarios)
    BY <1>5, HeadTailProperties DEF Islands!DropUpdate
  <2>2. QED
    BY <1>5, <2>1 DEF Islands!DropUpdate
<1>6. ASSUME NEW p \in Players, Islands!BeginUpdate(p) PROVE Goal
  <2>1. Tail(down[p]) \in Seq(Scenarios) /\ Head(down[p]) \in Scenarios
    BY <1>6, HeadTailProperties DEF Islands!BeginUpdate
  <2>2. since' \in Since /\ since'.changes <= changes'
    BY <1>6 DEF Islands!BeginUpdate
  <2>3. QED
    BY <1>6, <2>1, <2>2 DEF Islands!BeginUpdate
<1>7. ASSUME NEW p \in Players, Islands!ApplyUpdate(p) PROVE Goal
  BY <1>7 DEF Islands!ApplyUpdate
<1>8. ASSUME NEW p \in Players, Islands!EndUpdate(p) PROVE Goal
  BY <1>8 DEF Islands!EndUpdate
<1>9. ASSUME NEW p \in Players, Islands!Redistribute(p) PROVE Goal
  <2>1. Tail(up[p]) \in Seq(Scenarios) /\ Head(up[p]) \in Scenarios
    BY <1>9, HeadTailProperties DEF Islands!Redistribute
  <2>2. \A q \in Players : Append(down[q], Head(up[p])) \in Seq(Scenarios)
    BY <2>1, AppendProperties
  <2>3. since' \in Since /\ since'.changes <= changes'
    BY <1>9 DEF Islands!Redistribute
  <2>4. QED
    BY <1>9, <2>1, <2>2, <2>3 DEF Islands!Redistribute
<1>10. ASSUME NEW p \in Players, Islands!StartReplay(p) PROVE Goal
  BY <1>10 DEF Islands!StartReplay
<1>11. ASSUME NEW p \in Players, Islands!ReadScenario(p) PROVE Goal
  BY <1>11 DEF Islands!ReadScenario
<1>12. ASSUME NEW p \in Players, Islands!SendReplay(p) PROVE Goal
  <2>1. Append(down[p], replaying[p]) \in Seq(Scenarios)
    BY <1>12, AppendProperties DEF Islands!SendReplay
  <2>2. QED
    BY <1>12, <2>1 DEF Islands!SendReplay
<1>13. CASE Islands!Store
  BY <1>13 DEF Islands!Store, Islands!Assigned
<1>14. CASE UNCHANGED Islands!vars
  BY <1>14 DEF Islands!vars
<1>15. QED
  BY <1>1, <1>2, <1>3, <1>4, <1>5, <1>6, <1>7, <1>8, <1>9, <1>10, <1>11, <1>12,
     <1>13, <1>14 DEF Islands!Next

(* No scenario has the name of anything else. *)
LEMMA ScenarioNames ==
  /\ None \notin Scenarios /\ "started" \notin Scenarios /\ "applied" \notin Scenarios
  /\ None # "started" /\ None # "applied"
  BY PartsAssumption

LEMMA WillHaveStill ==
  ASSUME NEW q \in Players, NEW s,
         UNCHANGED <<down[q], handling[q], visiting[q], scenario[q], entering[q],
                     replaying[q]>>
  PROVE  WillHave(q, s) => WillHave(q, s)'
  BY DEF WillHave

LEMMA IslandsChange ==
  ASSUME IslandInv, NEW p \in Players, NEW s \in Scenarios, Islands!Change(p, s)
  PROVE  ChangeInv'
<1>1. /\ scenario'[p] = s /\ changing'[p] = s
      /\ \A q \in Players \ {p} : changing'[q] = changing[q]
      /\ UNCHANGED <<storing, handling, up>>
  BY DEF IslandInv, Islands!TypeOK, Islands!Change, Islands!serverVars, Islands!netVars
<1>2. CASE Islands!Quiet \/ since.changes = 0
  <2>1. /\ storing = None /\ handling[p] = None
        /\ \A q \in Players : changing[q] = None /\ up[q] = <<>>
    BY <1>2 DEF Islands!Quiet, IslandInv, ChangeInv, Unchanged
  <2>2. ChangeOnItsWay'
    BY <1>1, <2>1 DEF ChangeOnItsWay
  <2>3. since'.changes # 0
    <3>1. since.changes \in Nat
      BY DEF IslandInv, Islands!TypeOK
    <3>2. CASE Islands!Quiet
      BY <3>2 DEF Islands!Change
    <3>3. CASE ~Islands!Quiet
      <4>1. since' = [since EXCEPT !.changes = @ + 1]
        BY <3>3 DEF Islands!Change
      <4>2. QED
        BY <3>1, <4>1 DEF IslandInv, Islands!TypeOK
    <3>4. QED
      BY <3>2, <3>3
  <2>4. QED
    BY <2>2, <2>3 DEF ChangeInv
<1>3. CASE ~Islands!Quiet /\ since.changes # 0
  <2>1. since' = [since EXCEPT !.changes = @ + 1] /\ since.changes \in Nat \ {0}
    BY <1>3 DEF Islands!Change, IslandInv, Islands!TypeOK
  <2>2. since'.changes = since.changes + 1
    BY <2>1 DEF IslandInv, Islands!TypeOK
  <2>3. QED
    BY <2>1, <2>2 DEF ChangeInv
<1>4. QED
  BY <1>2, <1>3

LEMMA IslandsReport ==
  ASSUME IslandInv, NEW p \in Players, Islands!Report(p)
  PROVE  ChangeInv'
<1>1. ~Unchanged /\ ~ChangeTaken
  BY DEF Islands!Report, Unchanged, ChangeTaken
<1>2. /\ changing[p] # None /\ changing'[p] = None
      /\ \A q \in Players \ {p} : changing'[q] = changing[q]
      /\ UNCHANGED <<storing, scenario, handling>>
  BY DEF IslandInv, Islands!TypeOK, Islands!Report, Islands!serverVars
<1>3. CASE hookEnabled[p]
  <2>1. /\ up'[p] = Append(up[p], changing[p]) /\ since' = since
        /\ \A q \in Players \ {p} : up'[q] = up[q]
    BY <1>3 DEF IslandInv, Islands!TypeOK, Islands!Report
  <2>2. ASSUME ChangeOnItsWay PROVE ChangeOnItsWay'
    <3>1. PICK r \in Players, s \in Scenarios :
            /\ storing = None /\ scenario[r] = s /\ handling[r] = None
            /\ \/ changing[r] = s /\ up[r] = <<>>
               \/ changing[r] = None /\ up[r] = <<s>>
            /\ \A q \in Players \ {r} : changing[q] = None /\ up[q] = <<>>
      BY <2>2 DEF ChangeOnItsWay
    <3>2. r = p /\ changing[p] = s /\ up[p] = <<>>
      BY <1>2, <3>1
    <3>3. up'[p] = <<s>>
      BY <2>1, <3>2, ShortSeqs
    <3>4. QED
      BY <1>2, <2>1, <3>1, <3>2, <3>3 DEF ChangeOnItsWay
  <2>3. QED
    BY <1>1, <2>1, <2>2 DEF IslandInv, ChangeInv
<1>4. CASE ~hookEnabled[p]
  <2>1. since' = [since EXCEPT !.hidden = TRUE]
    BY <1>4 DEF Islands!Report
  <2>2. since'.changes = since.changes /\ since'.hidden
    BY <2>1 DEF IslandInv, Islands!TypeOK
  <2>3. QED
    BY <1>1, <2>2 DEF IslandInv, ChangeInv
<1>5. QED
  BY <1>3, <1>4

(* What the other steps may do to a change that has not reached the server, and
   to one that has. *)
LEMMA ChangeStays ==
  ASSUME IslandInv,
         since'.changes = since.changes,
         since.hidden => since'.hidden, since.met => since'.met,
         Unchanged => Unchanged',
         ChangeOnItsWay => ChangeOnItsWay' \/ ChangeTaken' \/ since'.met,
         ChangeTaken => ChangeTaken' \/ since'.met
  PROVE  ChangeInv'
  BY DEF IslandInv, ChangeInv

LEMMA OnItsWayStays ==
  ASSUME UNCHANGED <<storing, changing, up>>,
         \A q \in Players :
           scenario'[q] # scenario[q] \/ handling'[q] # handling[q] => handling[q] # None
  PROVE  ChangeOnItsWay => ChangeOnItsWay'
<1> SUFFICES ASSUME ChangeOnItsWay PROVE ChangeOnItsWay'
  OBVIOUS
<1>1. PICK r \in Players, s \in Scenarios :
        /\ storing = None /\ scenario[r] = s /\ handling[r] = None
        /\ \/ changing[r] = s /\ up[r] = <<>>
           \/ changing[r] = None /\ up[r] = <<s>>
        /\ \A q \in Players \ {r} : changing[q] = None /\ up[q] = <<>>
  BY DEF ChangeOnItsWay
<1>2. scenario'[r] = s /\ handling'[r] = None
  BY <1>1
<1>3. QED
  BY <1>1, <1>2 DEF ChangeOnItsWay

LEMMA TakenStays ==
  ASSUME UNCHANGED <<storing, stored, changing, up, replaying>>,
         \A s \in Scenarios : \A q \in Players : WillHave(q, s) => WillHave(q, s)'
  PROVE  ChangeTaken => ChangeTaken'
<1> SUFFICES ASSUME ChangeTaken PROVE ChangeTaken'
  OBVIOUS
<1>1. PICK s \in Scenarios :
        /\ \A q \in Players : up[q] = <<>> /\ changing[q] = None /\ WillHave(q, s)
        /\ \/ storing = s /\ \A q \in Players : replaying[q] \notin Scenarios
           \/ /\ storing = None /\ stored = s
              /\ \A q \in Players : replaying[q] \in {None, "started", s}
  BY DEF ChangeTaken
<1>2. \A q \in Players : up'[q] = <<>> /\ changing'[q] = None /\ WillHave(q, s)'
  BY <1>1
<1>3. QED
  BY <1>1, <1>2 DEF ChangeTaken

LEMMA IslandsScenes ==
  ASSUME IslandInv, NEW p \in Players, Islands!Leave(p) \/ Islands!Enter(p)
  PROVE  ChangeInv'
<1>1. /\ UNCHANGED <<stored, storing, replaying, scenario, handling, changing, up, down,
                     since>>
      /\ \A q \in Players \ {p} : visiting'[q] = visiting[q] /\ entering'[q] = entering[q]
      /\ ~visiting'[p] \/ entering'[p]
  BY DEF IslandInv, Islands!TypeOK, Islands!Leave, Islands!Enter, Islands!serverVars,
         Islands!netVars
<1>2. Unchanged => Unchanged'
  BY <1>1 DEF Unchanged
<1>3. ChangeOnItsWay => ChangeOnItsWay'
  BY <1>1, OnItsWayStays
<1>4. ASSUME NEW s \in Scenarios, NEW q \in Players
      PROVE  WillHave(q, s) => WillHave(q, s)'
  BY <1>1 DEF WillHave
<1>5. ChangeTaken => ChangeTaken'
  BY <1>1, <1>4, TakenStays
<1>6. QED
  BY <1>1, <1>2, <1>3, <1>5, ChangeStays

LEMMA IslandsDrop ==
  ASSUME IslandInv, NEW p \in Players, Islands!DropUpdate(p)
  PROVE  ChangeInv'
<1>1. /\ down[p] # <<>> /\ down'[p] = Tail(down[p]) /\ handling[p] = None
      /\ ~visiting[p] /\ down[p] \in Seq(Scenarios)
      /\ \A q \in Players \ {p} : down'[q] = down[q]
      /\ UNCHANGED <<stored, storing, replaying, scenario, handling, changing, up,
                     visiting, entering, since>>
  BY DEF IslandInv, Islands!TypeOK, Islands!DropUpdate, Islands!serverVars,
         Islands!gameVars
<1>2. ~Unchanged
  BY <1>1 DEF Unchanged
<1>3. ChangeOnItsWay => ChangeOnItsWay'
  BY <1>1, OnItsWayStays
<1>4. ASSUME NEW s \in Scenarios, NEW q \in Players, WillHave(q, s)
      PROVE  WillHave(q, s)'
  <2>1. CASE q = p
    <3>1. down'[p] # <<>> => down'[p][Len(down'[p])] = s
      BY <1>1, <1>4, <2>1, LastLeft DEF WillHave
    <3>2. QED
      BY <1>1, <2>1, <3>1, ScenarioNames DEF WillHave
  <2>2. CASE q # p
    BY <1>1, <1>4, <2>2, WillHaveStill
  <2>3. QED
    BY <2>1, <2>2
<1>5. ChangeTaken => ChangeTaken'
  BY <1>1, <1>4, TakenStays
<1>6. QED
  BY <1>1, <1>2, <1>3, <1>5, ChangeStays

LEMMA IslandsBegin ==
  ASSUME IslandInv, NEW p \in Players, Islands!BeginUpdate(p)
  PROVE  ChangeInv'
<1>1. /\ down[p] # <<>> /\ down'[p] = Tail(down[p]) /\ handling[p] = None
      /\ down[p] \in Seq(Scenarios) /\ handling'[p] = Head(down[p])
      /\ \A q \in Players \ {p} : down'[q] = down[q] /\ handling'[q] = handling[q]
      /\ UNCHANGED <<stored, storing, replaying, scenario, changing, up, visiting,
                     entering>>
      /\ since' = [since EXCEPT !.met = @ \/ up[p] # <<>> \/ changing[p] # None]
  BY DEF IslandInv, Islands!TypeOK, Islands!BeginUpdate, Islands!serverVars
<1>2. /\ since'.changes = since.changes /\ since'.hidden = since.hidden
      /\ since'.met = (since.met \/ up[p] # <<>> \/ changing[p] # None)
  BY <1>1 DEF IslandInv, Islands!TypeOK
<1>3. ~Unchanged
  BY <1>1 DEF Unchanged
<1>4. ASSUME ChangeOnItsWay, ~since'.met PROVE ChangeOnItsWay'
  <2>1. up[p] = <<>> /\ changing[p] = None
    BY <1>2, <1>4
  <2>2. PICK r \in Players, s \in Scenarios :
          /\ storing = None /\ scenario[r] = s /\ handling[r] = None
          /\ \/ changing[r] = s /\ up[r] = <<>>
             \/ changing[r] = None /\ up[r] = <<s>>
          /\ \A q \in Players \ {r} : changing[q] = None /\ up[q] = <<>>
    BY <1>4 DEF ChangeOnItsWay
  <2>3. r # p
    BY <2>1, <2>2, ScenarioNames, ShortSeqs
  <2>4. QED
    BY <1>1, <2>2, <2>3 DEF ChangeOnItsWay
<1>5. ASSUME NEW s \in Scenarios, NEW q \in Players, WillHave(q, s)
      PROVE  WillHave(q, s)'
  <2>1. CASE q = p
    <3>1. IF down'[p] = <<>> THEN handling'[p] = s ELSE down'[p][Len(down'[p])] = s
      BY <1>1, <1>5, <2>1, LastLeft DEF WillHave
    <3>2. handling'[p] \in Scenarios
      BY <1>1, HeadTailProperties
    <3>3. QED
      BY <2>1, <3>1, <3>2 DEF WillHave
  <2>2. CASE q # p
    BY <1>1, <1>5, <2>2, WillHaveStill
  <2>3. QED
    BY <2>1, <2>2
<1>6. ChangeTaken => ChangeTaken'
  BY <1>1, <1>5, TakenStays
<1>7. QED
  BY <1>2, <1>3, <1>4, <1>6, ChangeStays

LEMMA IslandsApply ==
  ASSUME IslandInv, NEW p \in Players,
         Islands!ApplyUpdate(p) \/ Islands!EndUpdate(p)
  PROVE  ChangeInv'
<1>1. /\ handling[p] \in Scenarios \cup {"applied"} /\ handling'[p] \notin Scenarios
      /\ scenario'[p] = IF handling[p] \in Scenarios THEN handling[p] ELSE scenario[p]
      /\ \A q \in Players \ {p} : scenario'[q] = scenario[q] /\ handling'[q] = handling[q]
      /\ UNCHANGED <<stored, storing, replaying, changing, up, down, visiting,
                     entering, since>>
  BY ScenarioNames
  DEF IslandInv, Islands!TypeOK, Islands!ApplyUpdate, Islands!EndUpdate,
      Islands!serverVars, Islands!netVars
<1>2. ~Unchanged
  BY <1>1, ScenarioNames DEF Unchanged
<1>3. ChangeOnItsWay => ChangeOnItsWay'
  BY <1>1, ScenarioNames, OnItsWayStays
<1>4. ASSUME NEW s \in Scenarios, NEW q \in Players, WillHave(q, s)
      PROVE  WillHave(q, s)'
  BY <1>1, <1>4 DEF WillHave
<1>5. ChangeTaken => ChangeTaken'
  BY <1>1, <1>4, TakenStays
<1>6. QED
  BY <1>1, <1>2, <1>3, <1>5, ChangeStays

(* The change reaches the server: what it has told the others before, a replay
   included, they hear before it. *)
LEMMA IslandsRedistribute ==
  ASSUME IslandInv, NEW p \in Players, Islands!Redistribute(p)
  PROVE  ChangeInv'
<1>1. /\ up[p] # <<>> /\ up'[p] = Tail(up[p]) /\ storing' = Head(up[p])
      /\ \A q \in Players \ {p} : up'[q] = up[q]
                                  /\ down'[q] = Append(down[q], Head(up[p]))
      /\ down'[p] = down[p]
      /\ UNCHANGED <<replaying, scenario, changing, handling, visiting, entering>>
      /\ since' = [since EXCEPT !.met =
                     \/ @ \/ down[p] # <<>> \/ handling[p] # None
                     \/ \E q \in Players : replaying[q] \in Scenarios]
  BY DEF IslandInv, Islands!TypeOK, Islands!Redistribute, Islands!gameVars,
         Islands!Others
<1>2. /\ since'.changes = since.changes /\ since'.hidden = since.hidden
      /\ since'.met <=> \/ since.met \/ down[p] # <<>> \/ handling[p] # None
                        \/ \E q \in Players : replaying[q] \in Scenarios
  BY <1>1 DEF IslandInv, Islands!TypeOK
<1>3. ~Unchanged /\ ~ChangeTaken
  BY <1>1 DEF Unchanged, ChangeTaken
<1>4. ASSUME ChangeOnItsWay, ~since'.met PROVE ChangeTaken'
  <2>1. /\ down[p] = <<>> /\ handling[p] = None
        /\ \A q \in Players : replaying[q] \notin Scenarios
    BY <1>2, <1>4
  <2>2. PICK s \in Scenarios :
          /\ scenario[p] = s /\ changing[p] = None /\ up[p] = <<s>>
          /\ \A q \in Players \ {p} : changing[q] = None /\ up[q] = <<>>
    BY <1>1, <1>4 DEF ChangeOnItsWay
  <2>3. Head(up[p]) = s /\ up'[p] = <<>>
    BY <1>1, <2>2, ShortSeqs
  <2>4. WillHave(p, s)'
    BY <1>1, <2>1, <2>2, ScenarioNames DEF WillHave
  <2>5. ASSUME NEW q \in Players \ {p} PROVE WillHave(q, s)'
    <3>1. down[q] \in Seq(Scenarios)
      BY DEF IslandInv, Islands!TypeOK
    <3>2. Append(down[q], s) # <<>> /\ Append(down[q], s)[Len(Append(down[q], s))] = s
      BY <3>1, LastSent
    <3>3. QED
      BY <1>1, <2>3, <3>2 DEF WillHave
  <2>6. QED
    BY <1>1, <2>1, <2>2, <2>3, <2>4, <2>5 DEF ChangeTaken
<1>5. QED
  BY <1>2, <1>3, <1>4, ChangeStays

LEMMA IslandsStore ==
  ASSUME IslandInv, Islands!Store
  PROVE  ChangeInv'
<1>1. /\ storing # None /\ stored' = storing /\ storing' = None
      /\ UNCHANGED <<replaying, scenario, handling, changing, up, down, visiting,
                     entering, since>>
  BY DEF Islands!Store, Islands!Assigned, Islands!gameVars, Islands!netVars
<1>2. ~Unchanged /\ ~ChangeOnItsWay
  BY <1>1 DEF Unchanged, ChangeOnItsWay
<1>3. ASSUME ChangeTaken PROVE ChangeTaken'
  <2>1. PICK s \in Scenarios :
          /\ \A q \in Players : up[q] = <<>> /\ changing[q] = None /\ WillHave(q, s)
          /\ storing = s /\ \A q \in Players : replaying[q] \notin Scenarios
    BY <1>1, <1>3 DEF ChangeTaken
  <2>2. \A q \in Players : WillHave(q, s)'
    BY <1>1, <2>1, WillHaveStill
  <2>3. \A q \in Players : replaying[q] \in {None, "started"}
    BY <2>1 DEF IslandInv, Islands!TypeOK, Islands!Known
  <2>4. QED
    BY <1>1, <2>1, <2>2, <2>3 DEF ChangeTaken
<1>4. QED
  BY <1>1, <1>2, <1>3, ChangeStays

(* A replay that starts, or reads when the change is stored or not there. *)
LEMMA IslandsReplay ==
  ASSUME IslandInv, NEW p \in Players,
         Islands!StartReplay(p) \/ Islands!ReadScenario(p)
  PROVE  ChangeInv'
<1>1. /\ UNCHANGED <<stored, storing, scenario, handling, changing, up, down, visiting>>
      /\ \A q \in Players \ {p} : /\ replaying'[q] = replaying[q]
                                  /\ entering'[q] = entering[q]
      /\ since'.changes = since.changes /\ since'.hidden = since.hidden
      /\ since.met => since'.met
  BY DEF IslandInv, Islands!TypeOK, Islands!StartReplay, Islands!ReadScenario,
         Islands!gameVars, Islands!netVars
<1>2. \/ storing = None /\ replaying'[p] = "started"
      \/ /\ storing # None => since'.met
         /\ replaying[p] = "started" /\ replaying'[p] = stored /\ entering'[p] = entering[p]
  BY DEF IslandInv, Islands!TypeOK, Islands!StartReplay, Islands!ReadScenario,
         Islands!netVars
<1>3. Unchanged => Unchanged'
  BY <1>1, <1>2 DEF Unchanged
<1>4. ChangeOnItsWay => ChangeOnItsWay'
  BY <1>1, OnItsWayStays
<1>5. ASSUME ChangeTaken, ~since'.met PROVE ChangeTaken'
  <2>1. storing = None
    BY <1>2, <1>5
  <2>2. PICK s \in Scenarios :
          /\ \A q \in Players : up[q] = <<>> /\ changing[q] = None /\ WillHave(q, s)
          /\ stored = s /\ \A q \in Players : replaying[q] \in {None, "started", s}
    BY <1>5, <2>1, ScenarioNames DEF ChangeTaken
  <2>3. replaying'[p] \in {"started", s}
    BY <1>2, <2>2
  <2>4. ASSUME NEW q \in Players PROVE WillHave(q, s)'
    BY <1>1, <2>2, <2>3 DEF WillHave
  <2>5. QED
    BY <1>1, <2>1, <2>2, <2>3, <2>4 DEF ChangeTaken
<1>6. QED
  BY <1>1, <1>3, <1>4, <1>5, ChangeStays

LEMMA IslandsSend ==
  ASSUME IslandInv, NEW p \in Players, Islands!SendReplay(p)
  PROVE  ChangeInv'
<1>1. /\ replaying[p] \in Scenarios /\ replaying'[p] = None
      /\ down'[p] = Append(down[p], replaying[p]) /\ down[p] \in Seq(Scenarios)
      /\ \A q \in Players \ {p} : replaying'[q] = replaying[q] /\ down'[q] = down[q]
      /\ UNCHANGED <<stored, storing, scenario, handling, changing, up, visiting,
                     entering, since>>
  BY DEF IslandInv, Islands!TypeOK, Islands!SendReplay, Islands!gameVars
<1>2. ~Unchanged
  BY <1>1, ScenarioNames DEF Unchanged
<1>3. ChangeOnItsWay => ChangeOnItsWay'
  BY <1>1, OnItsWayStays
<1>4. ASSUME ChangeTaken PROVE ChangeTaken'
  <2>1. PICK s \in Scenarios :
          /\ \A q \in Players : up[q] = <<>> /\ changing[q] = None /\ WillHave(q, s)
          /\ storing = None /\ stored = s
          /\ \A q \in Players : replaying[q] \in {None, "started", s}
    BY <1>1, <1>4 DEF ChangeTaken
  <2>2. replaying[p] = s
    BY <1>1, <2>1, ScenarioNames
  <2>3. Append(down[p], s) # <<>> /\ Append(down[p], s)[Len(Append(down[p], s))] = s
    BY <1>1, LastSent
  <2>4. ASSUME NEW q \in Players PROVE WillHave(q, s)'
    BY <1>1, <2>1, <2>2, <2>3 DEF WillHave
  <2>5. QED
    BY <1>1, <2>1, <2>4 DEF ChangeTaken
<1>5. QED
  BY <1>1, <1>2, <1>3, <1>4, ChangeStays

(* A change of one player that no other met reaches the server and every game
   with a scene, those that enter meanwhile included: the server redistributes,
   then stores, and replays what it has stored (ScenarioSync). *)
THEOREM IslandsAgree == Islands!Spec => []ScenariosAgree
<1>1. IslandInv => ScenariosAgree
  <2> SUFFICES ASSUME IslandInv, Islands!Quiet, since.changes = 1, ~since.hidden,
                      ~since.met, NEW p \in Players, visiting[p]
               PROVE  scenario[p] = stored
    BY DEF IslandInv, ScenariosAgree, Islands!ScenariosAgree
  <2>1. ~ChangeOnItsWay
    BY ScenarioNames, ShortSeqs DEF ChangeOnItsWay, Islands!Quiet
  <2>2. ChangeTaken
    BY <2>1 DEF IslandInv, ChangeInv
  <2>3. QED
    BY <2>2, ScenarioNames DEF ChangeTaken, WillHave, Islands!Quiet
<1>2. IslandInv /\ [Islands!Next]_(Islands!vars) => IslandInv'
  <2> SUFFICES ASSUME IslandInv, [Islands!Next]_(Islands!vars) PROVE IslandInv'
    OBVIOUS
  <2>1. Islands!TypeOK' /\ (since.changes <= changes)'
    BY IslandsType DEF IslandInv
  <2>2. ChangeInv'
    <3>1. CASE Islands!Next
      BY <3>1, IslandsChange, IslandsReport, IslandsScenes, IslandsDrop, IslandsBegin,
         IslandsApply, IslandsRedistribute, IslandsStore, IslandsReplay, IslandsSend
      DEF Islands!Next
    <3>2. CASE UNCHANGED Islands!vars
      <4>1. UNCHANGED <<stored, storing, replaying, scenario, visiting, handling,
                        changing, up, down, entering, since>>
        BY <3>2 DEF Islands!vars, Islands!serverVars, Islands!gameVars, Islands!netVars
      <4>2. QED
        BY <4>1 DEF IslandInv, ChangeInv, Unchanged, ChangeOnItsWay, ChangeTaken,
                    WillHave
    <3>3. QED
      BY <3>1, <3>2
  <2>3. QED
    BY <2>1, <2>2 DEF IslandInv
<1>3. QED
  BY IslandsInit, <1>1, <1>2, PTL DEF Islands!Spec

-----------------------------------------------------------------------------
(* Where a puppet is, and its figure (PuppetSync) *)

(* A watcher with a scene has a puppet, or the list that makes one is coming. *)
PuppetInv ==
  scene["watcher"] # "out" => puppet \/ enterUp["watcher"] \/ listDown["watcher"] > 0

(* A player that has stood for four frames has sent its place.  The pose on its
   way is the place, or has been seen; or lists are coming, the watcher's no
   sooner sent than the player's, which will make the player's game start anew. *)
PoseInv ==
  /\ lastPlace = Puppets!Anywhere => still = 0
  /\ still = 4 /\ poses # <<>> => poses[Len(poses)] = lastPlace
  /\ still = 4 /\ poses = <<>> =>
       \/ unseen.pose
       \/ listDown["player"] > 0
       \/ listDown["watcher"] = 0 /\ shown = lastPlace

(* The same of the figure, but that a list in the player's game brings it back
   to none, which is then what the watcher's puppet has. *)
FigureInv ==
  lastFigure = figure /\ ~unseen.unsaid =>
    /\ figures # <<>> => figures[Len(figures)] = figure
    /\ figures = <<>> =>
         \/ unseen.figure
         \/ figure = Puppets!NoFigure /\ look = Puppets!NoFigure
         \/ figure # Puppets!NoFigure /\ listDown["player"] > 0
         \/ figure # Puppets!NoFigure /\ listDown["watcher"] = 0 /\ look = figure

PuppetsInv == Puppets!TypeOK /\ PuppetInv /\ PoseInv /\ FigureInv

LEMMA PuppetsInit == Puppets!Init => PuppetsInv
<1> SUFFICES ASSUME Puppets!Init PROVE PuppetsInv
  OBVIOUS
<1>1. Puppets!TypeOK
  BY PartsAssumption
  DEF Puppets!Init, Puppets!TypeOK, Puppets!Ends, Puppets!Anywhere, Puppets!Origin,
      Puppets!NoFigure
<1>2. PuppetInv /\ PoseInv /\ FigureInv
  BY DEF Puppets!Init, PuppetInv, PoseInv, FigureInv, Puppets!NoFigure, Puppets!Anywhere
<1>3. QED
  BY <1>1, <1>2 DEF PuppetsInv

(* Scenes, lists and what the player does: no packet comes or goes. *)
LEMMA PuppetsScenes ==
  ASSUME PuppetsInv,
         \/ \E g \in Puppets!Ends : \/ Puppets!Enter(g) \/ Puppets!Begin(g)
                                   \/ Puppets!Leave(g) \/ Puppets!ReceiveEnter(g)
         \/ Puppets!News
  PROVE  PuppetsInv'
<1> USE PartsAssumption DEF PuppetsInv, Puppets!TypeOK, Puppets!Ends,
    Puppets!gameVars, Puppets!sentVars, Puppets!watchVars
<1>1. ASSUME NEW g \in Puppets!Ends, Puppets!Enter(g) PROVE PuppetsInv'
  BY <1>1 DEF Puppets!Enter, PuppetInv, PoseInv, FigureInv
<1>2. ASSUME NEW g \in Puppets!Ends, Puppets!Begin(g) PROVE PuppetsInv'
  BY <1>2 DEF Puppets!Begin, PuppetInv, PoseInv, FigureInv
<1>3. ASSUME NEW g \in Puppets!Ends, Puppets!Leave(g) PROVE PuppetsInv'
  BY <1>3 DEF Puppets!Leave, PuppetInv, PoseInv, FigureInv
<1>4. ASSUME NEW g \in Puppets!Ends, Puppets!ReceiveEnter(g) PROVE PuppetsInv'
  BY <1>4 DEF Puppets!ReceiveEnter, Puppets!SendList, PuppetInv, PoseInv, FigureInv
<1>5. ASSUME Puppets!News PROVE PuppetsInv'
  BY <1>5 DEF Puppets!News, Puppets!SendList, PuppetInv, PoseInv, FigureInv
<1>6. QED
  BY <1>1, <1>2, <1>3, <1>4, <1>5

LEMMA PuppetsListed ==
  ASSUME PuppetsInv, Puppets!PlayerListed \/ Puppets!WatcherListed
  PROVE  PuppetsInv'
<1> USE DEF PuppetsInv, Puppets!TypeOK, Puppets!Ends, Puppets!Listed, Puppets!gameVars,
    Puppets!sentVars, Puppets!watchVars, Puppets!NoFigure, Puppets!Anywhere, Puppets!Origin
<1>1. ASSUME Puppets!PlayerListed PROVE PuppetsInv'
  <2>1. /\ listDown["player"] > 0
        /\ listDown' = [listDown EXCEPT !["player"] = @ - 1]
        /\ lastPlace' = Puppets!Anywhere /\ still' = 0 /\ lastFigure' = Puppets!NoFigure
        /\ unseen' = [unseen EXCEPT !.unsaid = @ \/ figure # lastFigure]
        /\ UNCHANGED <<scene, enterUp, place, figure, poses, figures, shown, puppet, look,
                       events>>
    BY <1>1 DEF Puppets!PlayerListed, Puppets!NewData
  <2>2. Puppets!TypeOK'
    <3>1. unseen' \in [pose : BOOLEAN, figure : BOOLEAN, unsaid : BOOLEAN]
      BY <2>1
    <3>2. listDown' \in [Puppets!Ends -> Nat]
      BY <2>1
    <3>3. QED
      BY <2>1, <3>1, <3>2
  <2>3. PuppetInv' /\ PoseInv'
    BY <2>1 DEF PuppetInv, PoseInv
  <2>4. FigureInv'
    BY <2>1 DEF FigureInv
  <2>5. QED
    BY <2>2, <2>3, <2>4
<1>2. ASSUME Puppets!WatcherListed PROVE PuppetsInv'
  <2>1. /\ listDown["watcher"] > 0
        /\ listDown' = [listDown EXCEPT !["watcher"] = @ - 1]
        /\ shown' = Puppets!Origin /\ look' = Puppets!NoFigure
        /\ puppet' = (scene["watcher"] # "out")
        /\ UNCHANGED <<scene, enterUp, place, lastPlace, still, figure, lastFigure, poses,
                       figures, events, unseen>>
    BY <1>2 DEF Puppets!WatcherListed
  <2>2. Puppets!TypeOK'
    <3>1. puppet' \in BOOLEAN
      BY <2>1
    <3>2. listDown' \in [Puppets!Ends -> Nat]
      BY <2>1
    <3>3. QED
      BY <2>1, <3>1, <3>2
  <2>3. PuppetInv' /\ PoseInv'
    <3>1. puppet' <=> scene["watcher"] # "out"
      BY <2>1
    <3>2. listDown'["player"] = listDown["player"]
      BY <2>1
    <3>3. PoseInv'
      BY <2>1, <3>2 DEF PoseInv
    <3>4. PuppetInv'
      BY <2>1, <3>1 DEF PuppetInv
    <3>5. QED
      BY <3>3, <3>4
  <2>4. FigureInv'
    BY <2>1 DEF FigureInv
  <2>5. QED
    BY <2>2, <2>3, <2>4
<1>3. QED
  BY <1>1, <1>2

LEMMA PuppetsPlay ==
  ASSUME PuppetsInv, Puppets!ChangeFigure \/ Puppets!Move
  PROVE  PuppetsInv'
<1> USE PartsAssumption DEF PuppetsInv, Puppets!TypeOK, Puppets!gameVars,
    Puppets!sentVars, Puppets!watchVars
<1>1. ASSUME Puppets!ChangeFigure PROVE PuppetsInv'
  <2>1. Puppets!TypeOK'
    <3>1. unseen' \in [pose : BOOLEAN, figure : BOOLEAN, unsaid : BOOLEAN]
      BY <1>1 DEF Puppets!ChangeFigure
    <3>2. figure' \in Figures \cup {Puppets!NoFigure} /\ events' \in 0 .. MaxEvents
      BY <1>1 DEF Puppets!ChangeFigure
    <3>3. QED
      BY <1>1, <3>1, <3>2 DEF Puppets!ChangeFigure
  <2>2. PuppetInv' /\ PoseInv'
    BY <1>1 DEF Puppets!ChangeFigure, PuppetInv, PoseInv
  <2>3. unseen'.unsaid = (unseen.unsaid \/ figure # lastFigure) /\ figure' # figure
        /\ lastFigure' = lastFigure
    BY <1>1 DEF Puppets!ChangeFigure
  <2>4. FigureInv'
    BY <2>3 DEF FigureInv
  <2>5. QED
    BY <2>1, <2>2, <2>4
<1>2. ASSUME Puppets!Move PROVE PuppetsInv'
  BY <1>2 DEF Puppets!Move, PuppetInv, PoseInv, FigureInv
<1>3. QED
  BY <1>1, <1>2

(* A frame of the player's game: what it sends is the last on its way. *)
LEMMA PuppetsUpdate ==
  ASSUME PuppetsInv, Puppets!updateLocal
  PROVE  PuppetsInv'
<1> USE DEF PuppetsInv
<1>1. Puppets!TypeOK'
  <2>1. still' \in 0 .. 4
    BY DEF Puppets!TypeOK, Puppets!updateLocal, Puppets!CountStill
  <2>2. poses' \in Seq(Places)
    BY AppendProperties DEF Puppets!TypeOK, Puppets!updateLocal
  <2>3. figures' \in Seq(Figures \cup {Puppets!NoFigure})
    BY AppendProperties DEF Puppets!TypeOK, Puppets!updateLocal
  <2>4. unseen' \in [pose : BOOLEAN, figure : BOOLEAN, unsaid : BOOLEAN]
    BY DEF Puppets!TypeOK, Puppets!updateLocal
  <2>5. QED
    BY <2>1, <2>2, <2>3, <2>4 DEF Puppets!TypeOK, Puppets!updateLocal, Puppets!watchVars
<1>2. PuppetInv'
  BY DEF PuppetInv, Puppets!updateLocal, Puppets!watchVars
<1>3. PoseInv'
  <2>1. PICK moving \in BOOLEAN, interval \in BOOLEAN :
          /\ lastPlace # Puppets!Anywhere => moving = (place # lastPlace)
          /\ still' = Puppets!CountStill(moving)
          /\ poses' = IF (moving /\ interval) \/ still = 3 THEN Append(poses, place)
                      ELSE poses
    BY DEF Puppets!updateLocal
  <2>2. /\ lastPlace' = place /\ UNCHANGED <<unseen.pose, listDown, shown>>
        /\ lastPlace' # Puppets!Anywhere
    BY PartsAssumption
    DEF Puppets!updateLocal, Puppets!TypeOK, Puppets!watchVars, Puppets!Anywhere
  <2>3. CASE still' # 4
    BY <2>2, <2>3 DEF PoseInv
  <2>4. CASE still' = 4 /\ still = 3
    <3>1. poses' # <<>> /\ poses'[Len(poses')] = place
      <4>1. poses \in Seq(Places) /\ place \in Places /\ poses' = Append(poses, place)
        BY <2>1, <2>4 DEF Puppets!TypeOK
      <4>2. QED
        BY <4>1, LastSent
    <3>2. QED
      BY <2>2, <3>1 DEF PoseInv
  <2>5. CASE still' = 4 /\ still # 3
    <3>1. still = 4 /\ ~moving
      BY <2>1, <2>5 DEF Puppets!TypeOK, Puppets!CountStill
    <3>2. lastPlace = place /\ poses' = poses
      BY <2>1, <2>5, <3>1 DEF PoseInv
    <3>3. QED
      BY <2>2, <3>1, <3>2 DEF PoseInv
  <2>6. QED
    BY <2>3, <2>4, <2>5
<1>4. FigureInv'
  <2>1. CASE figure = lastFigure
    BY <2>1 DEF FigureInv, Puppets!updateLocal, Puppets!TypeOK, Puppets!watchVars
  <2>2. CASE figure # lastFigure
    <3>1. /\ figures \in Seq(Figures \cup {Puppets!NoFigure})
          /\ figure \in Figures \cup {Puppets!NoFigure}
          /\ figures' = Append(figures, figure) /\ figure' = figure
      BY <2>2 DEF Puppets!updateLocal, Puppets!TypeOK
    <3>2. figures' # <<>> /\ figures'[Len(figures')] = figure'
      BY <3>1, LastSent
    <3>3. QED
      BY <3>2 DEF FigureInv
  <2>3. QED
    BY <2>1, <2>2
<1>5. QED
  BY <1>1, <1>2, <1>3, <1>4

LEMMA PuppetsPose ==
  ASSUME PuppetsInv, Puppets!LosePose \/ Puppets!handlePosePacket
  PROVE  PuppetsInv'
<1> USE DEF PuppetsInv
<1>1. /\ poses \in Seq(Places) /\ poses # <<>> /\ poses' = Tail(poses)
      /\ UNCHANGED <<scene, enterUp, listDown, place, lastPlace, still, figure,
                     lastFigure, figures, puppet, look, unseen.figure, unseen.unsaid>>
  BY DEF Puppets!LosePose, Puppets!handlePosePacket, Puppets!TypeOK, Puppets!gameVars,
         Puppets!watchVars
<1>2. IF Tail(poses) = <<>> THEN Head(poses) = poses[Len(poses)]
      ELSE Tail(poses)[Len(Tail(poses))] = poses[Len(poses)]
  BY <1>1, LastLeft
<1>3. Tail(poses) \in Seq(Places) /\ Head(poses) \in Places
  BY <1>1, HeadTailProperties
<1>4. Puppets!TypeOK'
  <2>1. /\ poses' \in Seq(Places) /\ events' \in 0 .. MaxEvents
        /\ shown' \in Places \cup {Puppets!Origin}
    <3>1. poses' \in Seq(Places)
      BY <1>1, <1>3
    <3>2. /\ MaxEvents \in Nat /\ events \in 0 .. MaxEvents
          /\ shown \in Places \cup {Puppets!Origin}
      BY PartsAssumption DEF Puppets!TypeOK
    <3>3. CASE Puppets!LosePose
      <4>1. events' = events + 1 /\ events < MaxEvents /\ shown' = shown
        BY <3>3 DEF Puppets!LosePose, Puppets!watchVars
      <4>2. QED
        BY <3>1, <3>2, <4>1
    <3>4. CASE Puppets!handlePosePacket
      <4>1. events' = events /\ shown' \in {Head(poses), shown}
        BY <3>4 DEF Puppets!handlePosePacket
      <4>2. QED
        BY <1>3, <3>1, <3>2, <4>1
    <3>5. QED
      BY <3>3, <3>4
  <2>2. unseen' \in [pose : BOOLEAN, figure : BOOLEAN, unsaid : BOOLEAN]
    <3>1. unseen \in [pose : BOOLEAN, figure : BOOLEAN, unsaid : BOOLEAN]
      BY DEF Puppets!TypeOK
    <3>2. PICK b \in BOOLEAN : unseen' = [unseen EXCEPT !.pose = b]
      BY DEF Puppets!LosePose, Puppets!handlePosePacket, Puppets!Overtakes
    <3>3. QED
      BY <3>1, <3>2
  <2>3. QED
    BY <1>1, <2>1, <2>2 DEF Puppets!TypeOK
<1>5. PuppetInv' /\ FigureInv'
  BY <1>1 DEF PuppetInv, FigureInv
<1>6. PoseInv'
  <2>1. CASE Puppets!LosePose
    <3>1. unseen'.pose
      BY <2>1 DEF Puppets!LosePose, Puppets!TypeOK
    <3>2. QED
      BY <1>1, <1>2, <3>1 DEF PoseInv
  <2>2. CASE Puppets!handlePosePacket
    <3>1. /\ unseen'.pose \/ (scene["watcher"] = "in" /\ ~(listDown["watcher"] > 0))
          /\ shown' = IF scene["watcher"] = "in" THEN Head(poses) ELSE shown
      BY <2>2 DEF Puppets!handlePosePacket, Puppets!TypeOK, Puppets!Overtakes
    <3>2. ~unseen'.pose => listDown["watcher"] = 0 /\ shown' = Head(poses)
      <4>1. listDown["watcher"] \in Nat
        BY DEF Puppets!TypeOK, Puppets!Ends
      <4>2. QED
        BY <3>1, <4>1
    <3>3. CASE Tail(poses) = <<>>
      <4>1. poses' = <<>> /\ Head(poses) = poses[Len(poses)]
        BY <1>1, <1>2, <3>3
      <4>2. still' = 4 => poses[Len(poses)] = lastPlace /\ lastPlace' = lastPlace
        BY <1>1 DEF PoseInv
      <4>3. QED
        BY <1>1, <3>2, <4>1, <4>2 DEF PoseInv
    <3>4. CASE Tail(poses) # <<>>
      <4>1. poses'[Len(poses')] = poses[Len(poses)] /\ poses' # <<>>
        BY <1>1, <1>2, <3>4
      <4>2. QED
        BY <1>1, <4>1 DEF PoseInv
    <3>5. QED
      BY <3>3, <3>4
  <2>3. QED
    BY <2>1, <2>2
<1>7. QED
  BY <1>4, <1>5, <1>6

LEMMA PuppetsFigure ==
  ASSUME PuppetsInv, Puppets!handleFigureChangePacket
  PROVE  PuppetsInv'
<1> USE DEF PuppetsInv
<1> DEFINE Known == Figures \cup {Puppets!NoFigure}
           sees == puppet /\ scene["watcher"] = "in"
<1>1. /\ figures \in Seq(Known) /\ figures # <<>> /\ figures' = Tail(figures)
      /\ UNCHANGED <<scene, enterUp, listDown, place, lastPlace, still, figure, lastFigure,
                     poses, puppet, shown, events, unseen.pose, unseen.unsaid>>
      /\ unseen'.figure \/ (sees /\ ~(listDown["watcher"] > 0))
      /\ look' = IF sees THEN Head(figures) ELSE look
  BY DEF Puppets!handleFigureChangePacket, Puppets!TypeOK, Puppets!gameVars,
         Puppets!watchVars, Puppets!Overtakes
<1>2. IF Tail(figures) = <<>> THEN Head(figures) = figures[Len(figures)]
      ELSE Tail(figures)[Len(Tail(figures))] = figures[Len(figures)]
  BY <1>1, LastLeft
<1>3. Tail(figures) \in Seq(Known) /\ Head(figures) \in Known
  BY <1>1, HeadTailProperties
<1>4. Puppets!TypeOK'
  <2>1. unseen' \in [pose : BOOLEAN, figure : BOOLEAN, unsaid : BOOLEAN]
    BY DEF Puppets!handleFigureChangePacket, Puppets!TypeOK, Puppets!Overtakes
  <2>2. look' \in Known
    BY <1>1, <1>3 DEF Puppets!TypeOK
  <2>3. QED
    BY <1>1, <1>3, <2>1, <2>2 DEF Puppets!TypeOK
<1>5. PuppetInv' /\ PoseInv'
  BY <1>1 DEF PuppetInv, PoseInv
<1>6. FigureInv'
  <2>1. ~unseen'.figure => listDown["watcher"] = 0 /\ look' = Head(figures)
    <3>1. listDown["watcher"] \in Nat
      BY DEF Puppets!TypeOK, Puppets!Ends
    <3>2. QED
      BY <1>1, <3>1
  <2>2. lastFigure = figure /\ ~unseen.unsaid => figures[Len(figures)] = figure
    BY <1>1 DEF FigureInv
  <2>3. CASE Tail(figures) = <<>>
    <3>1. figures' = <<>> /\ Head(figures) = figures[Len(figures)]
      BY <1>1, <1>2, <2>3
    <3>2. QED
      BY <1>1, <2>1, <2>2, <3>1 DEF FigureInv
  <2>4. CASE Tail(figures) # <<>>
    <3>1. figures'[Len(figures')] = figures[Len(figures)] /\ figures' # <<>>
      BY <1>1, <1>2, <2>4
    <3>2. QED
      BY <1>1, <2>2, <3>1 DEF FigureInv
  <2>5. QED
    BY <2>3, <2>4
<1>7. QED
  BY <1>4, <1>5, <1>6

(* Once all has settled the watcher's game shows the player where it is and as it
   looks, however lists, poses and figures have overtaken each other: a list is
   sent to both games, and makes the player's send both again (PuppetSync). *)
THEOREM PuppetsFollow == Puppets!Spec => []PuppetSettles
<1>1. PuppetsInv => PuppetSettles
  BY DEF PuppetsInv, PuppetInv, PoseInv, FigureInv, PuppetSettles, Puppets!PuppetSettles,
         Puppets!Quiet, Puppets!Ends, Puppets!TypeOK
<1>2. PuppetsInv /\ [Puppets!Next]_(Puppets!vars) => PuppetsInv'
  <2> SUFFICES ASSUME PuppetsInv, [Puppets!Next]_(Puppets!vars) PROVE PuppetsInv'
    OBVIOUS
  <2>1. CASE Puppets!Next
    BY <2>1, PuppetsScenes, PuppetsListed, PuppetsPlay, PuppetsUpdate, PuppetsPose,
       PuppetsFigure DEF Puppets!Next
  <2>2. CASE UNCHANGED Puppets!vars
    BY <2>2 DEF Puppets!vars, Puppets!gameVars, Puppets!sentVars, Puppets!watchVars,
                PuppetsInv, Puppets!TypeOK, PuppetInv, PoseInv, FigureInv
  <2>3. QED
    BY <2>1, <2>2
<1>3. QED
  BY PuppetsInit, <1>1, <1>2, PTL DEF Puppets!Spec

-----------------------------------------------------------------------------
(* The shards of a zone and its one shine (ShardSync) *)

Elements(s) == {s[i] : i \in 1 .. Len(s)}

LEMMA ElementsSent ==
  ASSUME NEW S, NEW s \in Seq(S), NEW v \in S
  PROVE  Elements(Append(s, v)) = Elements(s) \cup {v}
<1> DEFINE t == Append(s, v)
<1>1. /\ Len(s) \in Nat /\ Len(t) = Len(s) + 1 /\ t[Len(s) + 1] = v
      /\ \A i \in 1 .. Len(s) : t[i] = s[i]
  BY AppendProperties, LenProperties
<1>2. \A i \in 1 .. Len(t) : i \in 1 .. Len(s) \/ i = Len(s) + 1
  BY <1>1
<1>3. \A i \in 1 .. Len(s) : i \in 1 .. Len(t)
  BY <1>1
<1>4. Len(s) + 1 \in 1 .. Len(t)
  BY <1>1
<1> HIDE DEF t
<1>5. Elements(t) = Elements(s) \cup {v}
  BY <1>1, <1>2, <1>3, <1>4 DEF Elements
<1>6. QED
  BY <1>5 DEF t

LEMMA ElementsLeft ==
  ASSUME NEW S, NEW s \in Seq(S), s # <<>>
  PROVE  /\ Head(s) \in S /\ Tail(s) \in Seq(S)
         /\ Elements(s) = Elements(Tail(s)) \cup {Head(s)}
<1> DEFINE t == Tail(s)
           h == Head(s)
<1>1. /\ Len(s) \in Nat \ {0} /\ Len(t) = Len(s) - 1 /\ h = s[1]
      /\ h \in S /\ t \in Seq(S)
      /\ \A i \in 1 .. Len(t) : t[i] = s[i + 1]
  BY HeadTailProperties, EmptySeq
<1>2. \A i \in 1 .. Len(s) : i = 1 \/ (i - 1 \in 1 .. Len(t) /\ i = (i - 1) + 1)
  BY <1>1
<1>3. \A i \in 1 .. Len(t) : i + 1 \in 1 .. Len(s)
  BY <1>1
<1>4. 1 \in 1 .. Len(s)
  BY <1>1
<1> HIDE DEF t, h
<1>5. Elements(s) = Elements(t) \cup {h}
  <2>1. ASSUME NEW x \in Elements(s) PROVE x \in Elements(t) \cup {h}
    <3>1. PICK i \in 1 .. Len(s) : x = s[i]
      BY DEF Elements
    <3>2. CASE i = 1
      BY <1>1, <3>1, <3>2
    <3>3. CASE i # 1
      <4>1. i - 1 \in 1 .. Len(t) /\ t[i - 1] = s[i]
        BY <1>1, <1>2, <3>3
      <4>2. QED
        BY <3>1, <4>1 DEF Elements
    <3>4. QED
      BY <3>2, <3>3
  <2>2. ASSUME NEW x \in Elements(t) PROVE x \in Elements(s)
    BY <1>1, <1>3 DEF Elements
  <2>3. h \in Elements(s)
    BY <1>1, <1>4 DEF Elements
  <2>4. QED
    BY <2>1, <2>2, <2>3
<1>6. QED
  BY <1>1, <1>5 DEF t, h

(* Whatever is on its way or recorded has been taken by a player. *)
TakenInv ==
  /\ \A p \in Players : Elements(shardUp[p]) \subseteq collected[p]
  /\ \A p \in Players : Elements(shardDown[p]) \subseteq Zones!Taken
  /\ Zones!Recorded \subseteq Zones!Taken
  /\ recording # None => recording \in Zones!Taken

(* A game with a scene has a shard, is about to hear of it, or has told the server
   of a new scene, in answer to which it hears of all. *)
HasOrHears(p, s) == s \in collected[p] \cup Elements(shardDown[p]) \/ visit[p]

(* A shard that is redistributed but not recorded is not left to the replay, which
   may be through when it is recorded; a recorded one may be still to replay. *)
ReplayInv ==
  \A p \in Players : playing[p] =>
    /\ recording # None => HasOrHears(p, recording)
    /\ \A i \in 1 .. Len(collectedShards) :
         \/ HasOrHears(p, collectedShards[i])
         \/ replayed[p] # None /\ replayed[p] < i

OneShineOf(p) == shines[p] = 1 /\ \A q \in Players \ {p} : shines[q] = 0

(* The shine appears when the last shard is taken, and not before. *)
ShineInv ==
  ~crossed => IF Zones!Taken = Shards THEN \E p \in Players : OneShineOf(p)
                                      ELSE \A p \in Players : shines[p] = 0

ZoneInv == Zones!TypeOK /\ TakenInv /\ ReplayInv /\ ShineInv

LEMMA ZonesInit == Zones!Init => ZoneInv
<1> SUFFICES ASSUME Zones!Init PROVE ZoneInv
  OBVIOUS
<1>1. Zones!TypeOK
  <2>1. /\ [p \in Players |-> <<>>] \in [Players -> Seq(Shards)] /\ <<>> \in Seq(Shards)
        /\ [p \in Players |-> {}] \in [Players -> SUBSET Shards]
    BY EmptySeq
  <2>2. /\ [p \in Players |-> FALSE] \in [Players -> BOOLEAN]
        /\ [p \in Players |-> TRUE] \in [Players -> BOOLEAN]
        /\ [p \in Players |-> 0] \in [Players -> Nat]
        /\ [p \in Players |-> None] \in [Players -> Nat \cup {None}]
        /\ 0 \in 0 .. MaxShardVisits
    BY PartsAssumption
  <2>3. QED
    BY <2>1, <2>2 DEF Zones!Init, Zones!TypeOK
<1>2. Zones!Taken = {}
  BY DEF Zones!Init, Zones!Taken
<1>3. Len(<<>>) = 0 /\ Elements(<<>>) = {} /\ Zones!Recorded = {}
  BY DEF Zones!Init, Elements, Zones!Recorded
<1>4. TakenInv /\ ReplayInv
  BY <1>3 DEF Zones!Init, TakenInv, ReplayInv, HasOrHears
<1>5. ShineInv
  BY <1>2, PartsAssumption DEF Zones!Init, ShineInv
<1>6. QED
  BY <1>1, <1>4, <1>5 DEF ZoneInv

(* A shard that somebody has taken makes no difference when another collects it. *)
LEMMA TakenStill ==
  ASSUME Zones!TypeOK,
         \A p \in Players : /\ collected[p] \subseteq collected'[p]
                            /\ collected'[p] \subseteq Zones!Taken
  PROVE  Zones!Taken' = Zones!Taken
<1>1. \A x : x \in Zones!Taken <=> \E p \in Players : x \in collected[p]
  BY DEF Zones!Taken
<1>2. \A x : x \in Zones!Taken' <=> \E p \in Players : x \in collected'[p]
  BY DEF Zones!Taken
<1>3. QED
  BY <1>1, <1>2

LEMMA ZonesTake ==
  ASSUME ZoneInv, NEW p \in Players, NEW s \in Shards, Zones!Take(p, s)
  PROVE  ZoneInv'
<1> USE DEF ZoneInv
<1>1. /\ s \notin collected[p] /\ collected' = [collected EXCEPT ![p] = @ \cup {s}]
      /\ shardUp' = [shardUp EXCEPT ![p] = Append(@, s)]
      /\ UNCHANGED <<collectedShards, recording, replayed, gotByHook, removed, playing,
                     shardDown, visit, shardVisits>>
  BY DEF Zones!Take, Zones!serverVars
<1>2. collected \in [Players -> SUBSET Shards] /\ shardUp[p] \in Seq(Shards)
      /\ shines \in [Players -> Nat] /\ crossed \in BOOLEAN
  BY DEF Zones!TypeOK
<1>3. Zones!TypeOK'
  <2>1. shardUp' \in [Players -> Seq(Shards)]
    BY <1>1, AppendProperties DEF Zones!TypeOK
  <2>2. shines' \in [Players -> Nat] /\ crossed' \in BOOLEAN
    <3>1. \A b : shines[p] + (IF b THEN 1 ELSE 0) \in Nat
      BY <1>2
    <3>2. shines' \in [Players -> Nat]
      BY <1>2, <3>1 DEF Zones!Take
    <3>3. crossed' \in BOOLEAN
      BY <1>2 DEF Zones!Take
    <3>4. QED
      BY <3>2, <3>3
  <2>3. collected' \in [Players -> SUBSET Shards]
    BY <1>1 DEF Zones!TypeOK
  <2>4. QED
    BY <1>1, <2>1, <2>2, <2>3 DEF Zones!TypeOK
<1>4. Zones!Taken' = Zones!Taken \cup {s}
  <2>1. \A x : x \in Zones!Taken <=> \E q \in Players : x \in collected[q]
    BY DEF Zones!Taken
  <2>2. \A x : x \in Zones!Taken' <=> \E q \in Players : x \in collected'[q]
    BY DEF Zones!Taken
  <2>3. \A q \in Players :
          collected'[q] = IF q = p THEN collected[q] \cup {s} ELSE collected[q]
    BY <1>1, <1>2
  <2>4. QED
    BY <2>1, <2>2, <2>3
<1>5. Elements(Append(shardUp[p], s)) = Elements(shardUp[p]) \cup {s}
  BY <1>2, ElementsSent
<1>6. TakenInv'
  <2>1. ASSUME NEW q \in Players PROVE Elements(shardUp'[q]) \subseteq collected'[q]
    <3>1. CASE q = p
      BY <1>1, <1>2, <1>5, <3>1 DEF TakenInv, Zones!TypeOK
    <3>2. CASE q # p
      BY <1>1, <1>2, <3>2 DEF TakenInv, Zones!TypeOK
    <3>3. QED
      BY <3>1, <3>2
  <2>2. Zones!Recorded' = Zones!Recorded
    BY <1>1 DEF Zones!Recorded
  <2>3. QED
    BY <1>1, <1>4, <2>1, <2>2 DEF TakenInv
<1>7. ReplayInv'
  <2>1. \A q \in Players : \A x : HasOrHears(q, x) => HasOrHears(q, x)'
    BY <1>1, <1>2 DEF HasOrHears
  <2>2. QED
    BY <1>1, <2>1 DEF ReplayInv
<1>8. ShineInv'
  <2> SUFFICES ASSUME ~crossed'
               PROVE IF Zones!Taken' = Shards THEN \E q \in Players : OneShineOf(q)'
                                              ELSE \A q \in Players : shines'[q] = 0
    BY DEF ShineInv
  <2>1. /\ ~crossed /\ s \notin Zones!Taken
        /\ Zones!Taken \cup {s} = Shards => collected[p] \cup {s} = Shards
    BY DEF Zones!Take
  <2>2. collected[p] \subseteq Zones!Taken /\ Zones!Taken \subseteq Shards
    BY <1>2 DEF Zones!Taken
  <2>3. \A q \in Players : shines[q] = 0
    BY <2>1 DEF ShineInv
  <2>4. shines' = [shines EXCEPT ![p] =
                     @ + IF collected[p] \cup {s} = Shards THEN 1 ELSE 0]
    BY DEF Zones!Take, Zones!shardGotFinalCheck
  <2>5. CASE Zones!Taken' = Shards
    <3>1. shines'[p] = 1 /\ \A q \in Players \ {p} : shines'[q] = 0
      BY <1>2, <1>4, <2>1, <2>3, <2>4, <2>5
    <3>2. QED
      BY <2>5, <3>1 DEF OneShineOf
  <2>6. CASE Zones!Taken' # Shards
    <3>1. collected[p] \cup {s} # Shards
      BY <1>4, <2>2, <2>6
    <3>2. QED
      BY <1>2, <2>3, <2>4, <2>6, <3>1
  <2>7. QED
    BY <2>5, <2>6
<1>9. QED
  BY <1>3, <1>6, <1>7, <1>8

(* The games' other steps take no shard. *)
LEMMA ZonesGame ==
  ASSUME ZoneInv, NEW p \in Players,
         (\E s \in Shards : Zones!GotByHook(p, s)) \/ Zones!Leave(p) \/ Zones!Enter(p)
  PROVE  ZoneInv'
<1> USE DEF ZoneInv
<1>1. /\ UNCHANGED <<collectedShards, recording, replayed, collected, shines, shardUp,
                     shardDown, crossed>>
      /\ shardVisits' \in 0 .. MaxShardVisits
      /\ playing' \in [Players -> BOOLEAN] /\ visit' \in [Players -> BOOLEAN]
      /\ removed' \in [Players -> BOOLEAN] /\ gotByHook' \in [Players -> SUBSET Shards]
      /\ \A q \in Players : /\ visit[q] => visit'[q]
                            /\ playing'[q] => playing[q] \/ visit'[q]
  <2>1. CASE \E s \in Shards : Zones!GotByHook(p, s)
    <3>1. PICK s \in Shards : Zones!GotByHook(p, s)
      BY <2>1
    <3>2. /\ shines' = [shines EXCEPT ![p] = @ + 0]
          /\ gotByHook' = [gotByHook EXCEPT ![p] = @ \ {s}]
          /\ UNCHANGED <<collectedShards, recording, replayed, collected, removed, playing,
                         shardUp, shardDown, visit, shardVisits, crossed>>
      BY <3>1 DEF Zones!GotByHook, Zones!shardGotFinalCheck, Zones!serverVars, Zones!netVars
    <3>3. shines' = shines
      BY <3>2 DEF Zones!TypeOK
    <3>4. gotByHook' \in [Players -> SUBSET Shards]
      BY <3>2 DEF Zones!TypeOK
    <3>5. QED
      BY <3>2, <3>3, <3>4 DEF Zones!TypeOK
  <2>2. CASE Zones!Leave(p)
    BY <2>2 DEF Zones!Leave, Zones!TypeOK, Zones!serverVars, Zones!netVars
  <2>3. CASE Zones!Enter(p)
    BY <2>3, PartsAssumption DEF Zones!Enter, Zones!TypeOK, Zones!serverVars
  <2>4. QED
    BY <2>1, <2>2, <2>3
<1>2. Zones!TypeOK'
  BY <1>1 DEF Zones!TypeOK
<1>3. TakenInv' /\ ShineInv'
  <2>1. Zones!Taken' = Zones!Taken /\ Zones!Recorded' = Zones!Recorded
    BY <1>1 DEF Zones!Taken, Zones!Recorded
  <2>2. QED
    BY <1>1, <2>1 DEF TakenInv, ShineInv, OneShineOf
<1>4. ReplayInv'
  <2>1. \A q \in Players : \A x : HasOrHears(q, x) => HasOrHears(q, x)'
    BY <1>1 DEF HasOrHears
  <2>2. \A q \in Players : \A x : visit'[q] => HasOrHears(q, x)'
    BY DEF HasOrHears
  <2>3. QED
    BY <1>1, <2>1, <2>2 DEF ReplayInv
<1>5. QED
  BY <1>2, <1>3, <1>4

(* A shard arrives: with a scene the game has it now. *)
LEMMA ZonesHear ==
  ASSUME ZoneInv, NEW p \in Players, Zones!handleShardCollect(p)
  PROVE  ZoneInv'
<1> USE DEF ZoneInv
<1> DEFINE s == Head(shardDown[p])
<1>1. /\ shardDown[p] \in Seq(Shards) /\ shardDown[p] # <<>>
      /\ shardDown' = [shardDown EXCEPT ![p] = Tail(@)]
      /\ shardDown \in [Players -> Seq(Shards)] /\ collected \in [Players -> SUBSET Shards]
      /\ UNCHANGED <<collectedShards, recording, replayed, shines, playing, shardUp,
                     visit, shardVisits, crossed>>
  BY DEF Zones!handleShardCollect, Zones!TypeOK, Zones!serverVars
<1>2. /\ s \in Shards /\ Tail(shardDown[p]) \in Seq(Shards)
      /\ Elements(shardDown[p]) = Elements(Tail(shardDown[p])) \cup {s}
  BY <1>1, ElementsLeft
<1>3. collected' = IF playing[p] /\ s \notin collected[p]
                     THEN [collected EXCEPT ![p] = @ \cup {s}] ELSE collected
  BY DEF Zones!handleShardCollect, Zones!CollectShard
<1>4. Zones!TypeOK'
  <2>1. shardDown' \in [Players -> Seq(Shards)] /\ collected' \in [Players -> SUBSET Shards]
    BY <1>1, <1>2, <1>3
  <2>2. removed' \in [Players -> BOOLEAN] /\ gotByHook' \in [Players -> SUBSET Shards]
    <3>1. removed \in [Players -> BOOLEAN] /\ gotByHook \in [Players -> SUBSET Shards]
      BY DEF Zones!TypeOK
    <3>2. CASE playing[p] /\ s \notin collected[p]
      <4>1. Zones!CollectShard(p, s)
        BY <3>2 DEF Zones!handleShardCollect
      <4>2. CASE collected[p] \cup {s} = Shards
        BY <3>1, <4>1, <4>2 DEF Zones!CollectShard
      <4>3. CASE collected[p] \cup {s} # Shards
        BY <1>2, <3>1, <4>1, <4>3 DEF Zones!CollectShard
      <4>4. QED
        BY <4>2, <4>3
    <3>3. CASE ~(playing[p] /\ s \notin collected[p])
      BY <3>1, <3>3 DEF Zones!handleShardCollect
    <3>4. QED
      BY <3>2, <3>3
  <2>3. QED
    BY <1>1, <2>1, <2>2 DEF Zones!TypeOK
<1>5. s \in Zones!Taken
  BY <1>2 DEF TakenInv
<1>6. \A q \in Players : /\ collected[q] \subseteq collected'[q]
                         /\ collected'[q] \subseteq collected[q] \cup {s}
                         /\ collected[q] \subseteq Zones!Taken
                         /\ Elements(shardDown'[q]) \subseteq Elements(shardDown[q])
  BY <1>1, <1>2, <1>3 DEF Zones!Taken
<1>7. Zones!Taken' = Zones!Taken
  <2>1. \A q \in Players : collected'[q] \subseteq Zones!Taken
    BY <1>5, <1>6
  <2>2. QED
    BY <1>6, <2>1, TakenStill
<1>8. Zones!Recorded' = Zones!Recorded
  BY <1>1 DEF Zones!Recorded
<1>9. TakenInv' /\ ShineInv'
  BY <1>1, <1>6, <1>7, <1>8 DEF TakenInv, ShineInv, OneShineOf
<1>10. ReplayInv'
  <2>1. ASSUME NEW q \in Players, playing[q], NEW x, HasOrHears(q, x)
        PROVE  HasOrHears(q, x)'
    <3>1. CASE q = p
      <4>1. s \in collected'[p] /\ shardDown'[p] = Tail(shardDown[p])
        BY <1>1, <1>3, <2>1, <3>1
      <4>2. QED
        BY <1>1, <1>2, <1>6, <2>1, <3>1, <4>1 DEF HasOrHears
    <3>2. CASE q # p
      <4>1. shardDown'[q] = shardDown[q]
        BY <1>1, <3>2
      <4>2. QED
        BY <1>1, <1>6, <2>1, <4>1 DEF HasOrHears
    <3>3. QED
      BY <3>1, <3>2
  <2>2. QED
    BY <1>1, <2>1 DEF ReplayInv
<1>11. QED
  BY <1>4, <1>9, <1>10

(* The server sends a shard to all games but the one that has it. *)
LEMMA ZonesRedistribute ==
  ASSUME ZoneInv, NEW p \in Players, Zones!Redistribute(p)
  PROVE  ZoneInv'
<1> USE DEF ZoneInv
<1> DEFINE s == Head(shardUp[p])
<1>1. /\ shardUp[p] \in Seq(Shards) /\ shardUp[p] # <<>> /\ recording = None
      /\ recording' = s
      /\ shardUp' = [shardUp EXCEPT ![p] = Tail(@)]
      /\ shardDown' = [q \in Players |-> IF q = p THEN shardDown[q]
                                         ELSE Append(shardDown[q], s)]
      /\ shardUp \in [Players -> Seq(Shards)] /\ shardDown \in [Players -> Seq(Shards)]
      /\ UNCHANGED <<collectedShards, replayed, collected, gotByHook, removed, shines,
                     playing, visit, shardVisits, crossed>>
  BY DEF Zones!Redistribute, Zones!TypeOK, Zones!gameVars
<1>2. /\ s \in Shards /\ Tail(shardUp[p]) \in Seq(Shards)
      /\ Elements(shardUp[p]) = Elements(Tail(shardUp[p])) \cup {s}
  BY <1>1, ElementsLeft
<1>3. \A q \in Players \ {p} :
        /\ Append(shardDown[q], s) \in Seq(Shards)
        /\ Elements(Append(shardDown[q], s)) = Elements(shardDown[q]) \cup {s}
  BY <1>1, <1>2, ElementsSent, AppendProperties
<1> HIDE DEF s
<1>4. Zones!TypeOK'
  <2>1. shardUp' \in [Players -> Seq(Shards)] /\ shardDown' \in [Players -> Seq(Shards)]
    BY <1>1, <1>2, <1>3
  <2>2. QED
    BY <1>1, <1>2, <2>1 DEF Zones!TypeOK
<1>5. Zones!Taken' = Zones!Taken /\ Zones!Recorded' = Zones!Recorded
  BY <1>1 DEF Zones!Taken, Zones!Recorded
<1>6. s \in collected[p] /\ s \in Zones!Taken
  BY <1>2 DEF TakenInv, Zones!Taken
<1>7. \A q \in Players :
        /\ Elements(shardUp'[q]) \subseteq Elements(shardUp[q])
        /\ Elements(shardDown'[q]) \subseteq Elements(shardDown[q]) \cup {s}
        /\ Elements(shardDown[q]) \subseteq Elements(shardDown'[q])
        /\ q # p => s \in Elements(shardDown'[q])
  <2>1. ASSUME NEW q \in Players \ {p}
        PROVE  shardUp'[q] = shardUp[q] /\ shardDown'[q] = Append(shardDown[q], s)
    BY <1>1
  <2>2. shardUp'[p] = Tail(shardUp[p]) /\ shardDown'[p] = shardDown[p]
    BY <1>1
  <2>3. QED
    BY <1>2, <1>3, <2>1, <2>2
<1>8. TakenInv' /\ ShineInv'
  BY <1>1, <1>5, <1>6, <1>7 DEF TakenInv, ShineInv, OneShineOf
<1>9. ReplayInv'
  <2>1. UNCHANGED <<collected, visit, playing, collectedShards, replayed>>
    BY <1>1
  <2>2. \A q \in Players : \A x : HasOrHears(q, x) => HasOrHears(q, x)'
    BY <1>7, <2>1 DEF HasOrHears
  <2>3. ASSUME NEW q \in Players PROVE HasOrHears(q, recording)'
    BY <1>1, <1>6, <1>7 DEF HasOrHears
  <2>4. QED
    BY <2>1, <2>2, <2>3 DEF ReplayInv
<1>10. QED
  BY <1>4, <1>8, <1>9

LEMMA ZonesRecord ==
  ASSUME ZoneInv, Zones!Record
  PROVE  ZoneInv'
<1> USE DEF ZoneInv
<1>1. /\ recording # None /\ recording \in Shards /\ recording' = None
      /\ collectedShards \in Seq(Shards)
      /\ collectedShards' = Append(collectedShards, recording)
      /\ UNCHANGED <<replayed, collected, gotByHook, removed, shines, playing, shardUp,
                     shardDown, visit, shardVisits, crossed>>
  BY DEF Zones!Record, Zones!TypeOK, Zones!gameVars, Zones!netVars
<1>2. /\ collectedShards' \in Seq(Shards)
      /\ Len(collectedShards) \in Nat
      /\ Len(collectedShards') = Len(collectedShards) + 1
      /\ \A i \in 1 .. Len(collectedShards) : collectedShards'[i] = collectedShards[i]
      /\ collectedShards'[Len(collectedShards) + 1] = recording
  BY <1>1, AppendProperties, LenProperties
<1>3. Zones!TypeOK'
  BY <1>1, <1>2 DEF Zones!TypeOK
<1>4. Zones!Taken' = Zones!Taken /\ Zones!Recorded' = Zones!Recorded \cup {recording}
  <2>1. Elements(collectedShards') = Elements(collectedShards) \cup {recording}
    BY <1>1, ElementsSent
  <2>2. QED
    BY <1>1, <2>1 DEF Zones!Taken, Zones!Recorded, Elements
<1>5. TakenInv' /\ ShineInv'
  BY <1>1, <1>4 DEF TakenInv, ShineInv, OneShineOf
<1>6. ReplayInv'
  <2>1. \A q \in Players : \A x : HasOrHears(q, x) => HasOrHears(q, x)'
    BY <1>1 DEF HasOrHears
  <2>2. ASSUME NEW q \in Players, playing'[q], NEW i \in 1 .. Len(collectedShards')
        PROVE  \/ HasOrHears(q, collectedShards[i])'
               \/ replayed'[q] # None /\ replayed'[q] < i
    <3>1. CASE i \in 1 .. Len(collectedShards)
      BY <1>1, <1>2, <2>1, <2>2, <3>1 DEF ReplayInv
    <3>2. CASE i = Len(collectedShards) + 1
      BY <1>1, <1>2, <2>1, <2>2, <3>2 DEF ReplayInv
    <3>3. QED
      BY <1>2, <3>1, <3>2
  <2>3. QED
    BY <1>1, <2>2 DEF ReplayInv
<1>7. QED
  BY <1>3, <1>5, <1>6

LEMMA ZonesReplay ==
  ASSUME ZoneInv, NEW p \in Players, Zones!StartReplay(p) \/ Zones!Replay(p)
  PROVE  ZoneInv'
<1> USE DEF ZoneInv
<1>1. /\ UNCHANGED <<collectedShards, recording, collected, gotByHook, removed, shines,
                     playing, shardUp, shardVisits, crossed>>
      /\ collectedShards \in Seq(Shards) /\ Len(collectedShards) \in Nat
      /\ shardDown \in [Players -> Seq(Shards)] /\ shardDown[p] \in Seq(Shards)
      /\ visit \in [Players -> BOOLEAN] /\ replayed \in [Players -> Nat \cup {None}]
  BY LenProperties
  DEF Zones!StartReplay, Zones!Replay, Zones!TypeOK, Zones!gameVars
<1>2. Zones!Taken' = Zones!Taken /\ Zones!Recorded' = Zones!Recorded
  BY <1>1 DEF Zones!Taken, Zones!Recorded
<1>3. CASE Zones!StartReplay(p)
  <2>1. /\ recording = None /\ UNCHANGED shardDown
        /\ visit' = [visit EXCEPT ![p] = FALSE]
        /\ replayed' = [replayed EXCEPT ![p] = 0]
    BY <1>3 DEF Zones!StartReplay
  <2>2. Zones!TypeOK'
    BY <1>1, <2>1 DEF Zones!TypeOK
  <2>3. TakenInv' /\ ShineInv'
    BY <1>1, <1>2, <2>1 DEF TakenInv, ShineInv, OneShineOf
  <2>4. ASSUME NEW q \in Players, playing[q], NEW i \in 1 .. Len(collectedShards)
        PROVE  \/ HasOrHears(q, collectedShards[i])'
               \/ replayed'[q] # None /\ replayed'[q] < i
    <3>1. CASE q = p
      BY <1>1, <2>1, <3>1, PartsAssumption
    <3>2. CASE q # p
      BY <1>1, <2>1, <2>4, <3>2 DEF ReplayInv, HasOrHears
    <3>3. QED
      BY <3>1, <3>2
  <2>5. ReplayInv'
    BY <1>1, <2>1, <2>4 DEF ReplayInv
  <2>6. QED
    BY <2>2, <2>3, <2>5
<1>4. CASE Zones!Replay(p) /\ ~(replayed[p] < Len(collectedShards))
  <2>1. /\ replayed[p] # None /\ UNCHANGED <<shardDown, visit>>
        /\ replayed' = [replayed EXCEPT ![p] = None]
    BY <1>4 DEF Zones!Replay
  <2>2. Zones!TypeOK'
    BY <1>1, <2>1 DEF Zones!TypeOK
  <2>3. TakenInv' /\ ShineInv'
    BY <1>1, <1>2, <2>1 DEF TakenInv, ShineInv, OneShineOf
  <2>4. ReplayInv'
    <3>1. \A q \in Players : \A x : HasOrHears(q, x) => HasOrHears(q, x)'
      BY <1>1, <2>1 DEF HasOrHears
    <3>2. ASSUME NEW q \in Players, NEW i \in 1 .. Len(collectedShards),
                 replayed[q] # None, replayed[q] < i
          PROVE  replayed'[q] # None /\ replayed'[q] < i
      BY <1>1, <1>4, <2>1, <3>2
    <3>3. QED
      BY <1>1, <3>1, <3>2 DEF ReplayInv
  <2>5. QED
    BY <2>2, <2>3, <2>4
<1>5. CASE Zones!Replay(p) /\ replayed[p] < Len(collectedShards)
  <2> DEFINE n == replayed[p]
             s == collectedShards[n + 1]
  <2>1. /\ replayed[p] # None /\ n \in Nat /\ n < Len(collectedShards)
        /\ UNCHANGED visit /\ replayed' = [replayed EXCEPT ![p] = n + 1]
        /\ shardDown' = [shardDown EXCEPT ![p] = Append(@, s)]
    BY <1>1, <1>5 DEF Zones!Replay
  <2>2. n + 1 \in 1 .. Len(collectedShards)
    BY <1>1, <2>1
  <2>3. s \in Shards /\ s \in Zones!Recorded
    BY <1>1, <2>2, ElementOfSeq DEF Zones!Recorded
  <2>4. /\ Append(shardDown[p], s) \in Seq(Shards)
        /\ Elements(Append(shardDown[p], s)) = Elements(shardDown[p]) \cup {s}
    BY <1>1, <2>3, ElementsSent, AppendProperties
  <2> HIDE DEF s, n
  <2>5. Zones!TypeOK'
    <3>1. shardDown' \in [Players -> Seq(Shards)]
      BY <1>1, <2>1, <2>4
    <3>2. replayed' \in [Players -> Nat \cup {None}]
      BY <1>1, <2>1
    <3>3. QED
      BY <1>1, <2>1, <3>1, <3>2 DEF Zones!TypeOK
  <2>6. \A q \in Players :
          /\ Elements(shardDown[q]) \subseteq Elements(shardDown'[q])
          /\ Elements(shardDown'[q]) \subseteq Elements(shardDown[q]) \cup {s}
    <3>1. \A q \in Players \ {p} : shardDown'[q] = shardDown[q]
      BY <1>1, <2>1
    <3>2. shardDown'[p] = Append(shardDown[p], s)
      BY <1>1, <2>1
    <3>3. QED
      BY <2>4, <3>1, <3>2
  <2>7. s \in Elements(shardDown'[p])
    BY <1>1, <2>1, <2>4
  <2>8. TakenInv' /\ ShineInv'
    BY <1>1, <1>2, <2>3, <2>6 DEF TakenInv, ShineInv, OneShineOf
  <2>9. ReplayInv'
    <3>1. \A q \in Players : \A x : HasOrHears(q, x) => HasOrHears(q, x)'
      BY <1>1, <2>1, <2>6 DEF HasOrHears
    <3>2. ASSUME NEW q \in Players, NEW i \in 1 .. Len(collectedShards),
                 replayed[q] # None, replayed[q] < i
          PROVE  \/ HasOrHears(q, collectedShards[i])'
                 \/ replayed'[q] # None /\ replayed'[q] < i
      <4>1. CASE q # p
        <5>1. replayed'[q] = replayed[q]
          BY <1>1, <2>1, <4>1
        <5>2. replayed'[q] # None /\ replayed'[q] < i
          BY <3>2, <5>1
        <5>3. QED
          BY <5>2
      <4>2. CASE q = p /\ i = n + 1
        BY <1>1, <2>7, <4>2 DEF HasOrHears, s
      <4>3. CASE q = p /\ i # n + 1
        <5>1. replayed'[p] = n + 1 /\ n + 1 # None /\ n + 1 < i
          BY <1>1, <2>1, <3>2, <4>3, PartsAssumption DEF n
        <5>2. QED
          BY <4>3, <5>1
      <4>4. QED
        BY <4>1, <4>2, <4>3
    <3>3. QED
      BY <1>1, <3>1, <3>2 DEF ReplayInv
  <2>10. QED
    BY <2>5, <2>8, <2>9
<1>6. QED
  BY <1>3, <1>4, <1>5

(* When all has arrived every game with a scene has all shards that were taken,
   the games that entered meanwhile included, and a complete zone has given one
   shine, to one player of any number, unless shards crossed (ShardSync). *)
THEOREM ShardsGiveOneShine == Zones!Spec => []OneShine
<1>1. ZoneInv => OneShine
  <2> SUFFICES ASSUME ZoneInv, Zones!Quiet PROVE Zones!OneShine
    BY DEF OneShine, ZoneInv, Zones!OneShine
  <2>1. ASSUME NEW p \in Players, playing[p] PROVE Zones!Recorded \subseteq collected[p]
    <3>1. Elements(shardDown[p]) = {} /\ ~visit[p] /\ replayed[p] = None
      BY DEF Zones!Quiet, Elements
    <3>2. \A i \in 1 .. Len(collectedShards) : collectedShards[i] \in collected[p]
      BY <2>1, <3>1 DEF ZoneInv, ReplayInv, HasOrHears
    <3>3. QED
      BY <3>2 DEF Zones!Recorded
  <2>2. ASSUME Zones!Recorded = Shards, ~crossed
        PROVE  \E p \in Players : OneShineOf(p)
    <3>1. Zones!Taken \subseteq Shards
      BY DEF ZoneInv, Zones!TypeOK, Zones!Taken
    <3>2. Zones!Taken = Shards
      BY <2>2, <3>1 DEF ZoneInv, TakenInv
    <3>3. QED
      BY <2>2, <3>2 DEF ZoneInv, ShineInv
  <2>3. QED
    BY <2>1, <2>2 DEF Zones!OneShine, OneShineOf
<1>2. ZoneInv /\ [Zones!Next]_(Zones!vars) => ZoneInv'
  <2> SUFFICES ASSUME ZoneInv, [Zones!Next]_(Zones!vars) PROVE ZoneInv'
    OBVIOUS
  <2>1. CASE Zones!Next
    BY <2>1, ZonesTake, ZonesGame, ZonesHear, ZonesRedistribute, ZonesRecord, ZonesReplay
    DEF Zones!Next
  <2>2. CASE UNCHANGED Zones!vars
    <3>1. UNCHANGED <<collectedShards, recording, replayed, collected, gotByHook, removed,
                      shines, playing, shardUp, shardDown, visit, shardVisits, crossed>>
      BY <2>2 DEF Zones!vars, Zones!serverVars, Zones!gameVars, Zones!netVars
    <3>2. Zones!TypeOK'
      BY <3>1 DEF ZoneInv, Zones!TypeOK
    <3>3. TakenInv' /\ ShineInv'
      <4>1. Zones!Taken' = Zones!Taken /\ Zones!Recorded' = Zones!Recorded
        BY <3>1 DEF Zones!Taken, Zones!Recorded
      <4>2. QED
        BY <3>1, <4>1 DEF ZoneInv, TakenInv, ShineInv, OneShineOf
    <3>4. ReplayInv'
      BY <3>1 DEF ZoneInv, ReplayInv, HasOrHears
    <3>5. QED
      BY <3>2, <3>3, <3>4 DEF ZoneInv
  <2>3. QED
    BY <2>1, <2>2
<1>3. QED
  BY ZonesInit, <1>1, <1>2, PTL DEF Zones!Spec

-----------------------------------------------------------------------------
(* The animations of a puppet (ActionQueue) *)

(* The entries the loop is through with in this frame, those it has skipped
   included, and how many it has played. *)
Through(i) == index = 0 \/ i < index

NowPlayed == {i \in 1 .. Len(played) : played[i].at = frame}

(* After an erased entry the loop is one too far. *)
LoopInv ==
  /\ Len(queue) <= Capacity
  /\ index <= Len(queue) + 2
  /\ index = Len(queue) + 2 => NowPlayed # {}
  /\ \A i \in 1 .. Len(played) : played[i].at <= frame

(* An entry is skipped once at most for every entry that was before it and is no
   more: so what it has still to wait, and one frame for every entry that is
   before it, end when it is due.  And a frame counts an entry once at most. *)
WaitInv ==
  \A i \in 1 .. Len(queue) :
    LET e == queue[i]
    IN  /\ e.framesLeft > 0
        /\ IF Through(i)
             THEN /\ e.framesLeft + frame + i <= Actions!Due(e) + 1
                  /\ Interval + e.born <= e.framesLeft + frame + 1
             ELSE /\ e.framesLeft + frame + i + Cardinality(NowPlayed)
                       <= Actions!Due(e) + 2
                  /\ Interval + e.born <= e.framesLeft + frame

Before(e, f) == e.id # f.id /\ (e.id > f.id => e.born < f.born + f.ahead)

(* The queue is in the order of the arrivals. *)
OrderInv ==
  /\ \A i, j \in 1 .. Len(queue) : i < j => queue[i].id < queue[j].id
  /\ \A i \in 1 .. Len(queue) : queue[i].id <= sent
  /\ \A i \in 1 .. Len(played) : played[i].id <= sent
  /\ \A i \in 1 .. Len(played), j \in 1 .. Len(queue) : Before(played[i], queue[j])

PlayedInv ==
  /\ \A i \in 1 .. Len(played) : played[i].at <= played[i].due
  /\ \A i, j \in 1 .. Len(played) : i < j => Before(played[i], played[j])

ActionInv == Actions!TypeOK /\ LoopInv /\ WaitInv /\ OrderInv /\ PlayedInv

(* The two names of the standard operator, here and in the module's instance. *)
LEMMA SameCardinality ==
  ASSUME NEW S PROVE Actions!Cardinality(S) = Cardinality(S)
  BY DEF Actions!Cardinality, Cardinality

LEMMA EntryFields ==
  ASSUME NEW e \in Actions!Entry
  PROVE  /\ e.framesLeft \in Int /\ e.id \in Nat /\ e.id \in 1 .. MaxActions
         /\ e.born \in Nat /\ e.ahead \in Nat
         /\ Actions!Due(e) = e.born + Interval - 1 + e.ahead
         /\ Actions!Due(e) \in Nat
<1>1. /\ e.framesLeft \in Int /\ e.id \in 1 .. MaxActions /\ e.born \in Nat
      /\ e.ahead \in Nat
  BY DEF Actions!Entry
<1>2. Actions!Due(e) = e.born + Interval - 1 + e.ahead
  BY DEF Actions!Due
<1>3. QED
  BY <1>1, <1>2, PartsAssumption

LEMMA EraseAt ==
  ASSUME NEW S, NEW s \in Seq(S), NEW i \in 1 .. Len(s)
  PROVE  /\ Actions!Erase(s, i) \in Seq(S) /\ Len(Actions!Erase(s, i)) = Len(s) - 1
         /\ \A j \in 1 .. Len(s) - 1 :
              Actions!Erase(s, i)[j] = IF j < i THEN s[j] ELSE s[j + 1]
<1> DEFINE a == SubSeq(s, 1, i - 1)
           b == SubSeq(s, i + 1, Len(s))
<1>1. Len(s) \in Nat /\ i \in Int /\ \A j \in 1 .. Len(s) : s[j] \in S
  BY LenProperties, ElementOfSeq
<1>2. /\ a \in Seq(S) /\ Len(a) = i - 1 /\ \A j \in 1 .. i - 1 : a[j] = s[j]
  <2>1. \A j \in 1 .. i - 1 : s[j] \in S
    BY <1>1
  <2>2. /\ a \in Seq(S) /\ Len(a) = (IF 1 <= i - 1 THEN i - 1 - 1 + 1 ELSE 0)
        /\ \A j \in 1 .. i - 1 - 1 + 1 : a[j] = s[1 + j - 1]
    BY <1>1, <2>1, SubSeqProperties
  <2>3. QED
    BY <1>1, <2>2
<1>3. /\ b \in Seq(S) /\ Len(b) = Len(s) - i
      /\ \A j \in 1 .. Len(s) - i : b[j] = s[i + j]
  <2>1. \A j \in i + 1 .. Len(s) : s[j] \in S
    BY <1>1
  <2>2. /\ b \in Seq(S) /\ Len(b) = (IF i + 1 <= Len(s) THEN Len(s) - (i + 1) + 1 ELSE 0)
        /\ \A j \in 1 .. Len(s) - (i + 1) + 1 : b[j] = s[i + 1 + j - 1]
    BY <1>1, <2>1, SubSeqProperties
  <2>3. QED
    BY <1>1, <2>2
<1> HIDE DEF a, b
<1>4. /\ a \o b \in Seq(S) /\ Len(a \o b) = Len(a) + Len(b)
      /\ \A j \in 1 .. Len(a) + Len(b) :
           (a \o b)[j] = IF j <= Len(a) THEN a[j] ELSE b[j - Len(a)]
  BY <1>2, <1>3, ConcatProperties
<1>5. Len(a) + Len(b) = Len(s) - 1
  BY <1>1, <1>2, <1>3
<1>6. ASSUME NEW j \in 1 .. Len(s) - 1
      PROVE  (a \o b)[j] = IF j < i THEN s[j] ELSE s[j + 1]
  <2>1. CASE j < i
    BY <1>1, <1>2, <1>4, <1>5, <2>1
  <2>2. CASE ~(j < i)
    <3>1. j - Len(a) \in 1 .. Len(s) - i /\ i + (j - Len(a)) = j + 1 /\ ~(j <= Len(a))
      BY <1>1, <1>2, <2>2
    <3>2. QED
      BY <1>3, <1>4, <1>5, <2>2, <3>1
  <2>3. QED
    BY <2>1, <2>2
<1>7. QED
  BY <1>4, <1>5, <1>6 DEF Actions!Erase, a, b

LEMMA OneFrameLess ==
  ASSUME NEW e \in Actions!Entry
  PROVE  LET f == [e EXCEPT !.framesLeft = @ - 1]
         IN  /\ f \in Actions!Entry /\ f.id = e.id /\ f.born = e.born /\ f.ahead = e.ahead
             /\ f.framesLeft = e.framesLeft - 1
  BY DEF Actions!Entry

LEMMA CountedDown ==
  ASSUME Actions!TypeOK, index \in 1 .. Len(queue)
  PROVE  LET counted == Actions!CountDown
         IN  /\ counted \in Seq(Actions!Entry) /\ Len(counted) = Len(queue)
             /\ \A i \in 1 .. Len(queue) :
                  /\ counted[i].id = queue[i].id
                  /\ counted[i].born = queue[i].born
                  /\ counted[i].ahead = queue[i].ahead
                  /\ counted[i].framesLeft =
                       queue[i].framesLeft - IF i = index THEN 1 ELSE 0
<1> DEFINE e == [queue[index] EXCEPT !.framesLeft = @ - 1]
           counted == [queue EXCEPT ![index] = e]
<1>1. queue \in Seq(Actions!Entry) /\ Len(queue) \in Nat
      /\ \A i \in 1 .. Len(queue) : queue[i] \in Actions!Entry
  BY LenProperties, ElementOfSeq DEF Actions!TypeOK
<1>2. /\ e \in Actions!Entry /\ e.id = queue[index].id /\ e.born = queue[index].born
      /\ e.ahead = queue[index].ahead
      /\ e.framesLeft = queue[index].framesLeft - 1
  BY <1>1, OneFrameLess
<1>3. /\ counted \in Seq(Actions!Entry) /\ Len(counted) = Len(queue)
      /\ \A i \in 1 .. Len(queue) : counted[i] = IF i = index THEN e ELSE queue[i]
  BY <1>1, <1>2, ExceptSeq
<1>4. Actions!CountDown = counted
  BY DEF Actions!CountDown
<1>5. \A i \in 1 .. Len(queue) : queue[i].framesLeft \in Int
  BY <1>1, EntryFields
<1> HIDE DEF e, counted
<1>6. \A i \in 1 .. Len(queue) :
        counted[i].framesLeft = queue[i].framesLeft - IF i = index THEN 1 ELSE 0
  BY <1>2, <1>3, <1>5
<1>7. QED
  BY <1>2, <1>3, <1>4, <1>6

(* The number of the entries played in this frame. *)
LEMMA NowPlayedFinite ==
  ASSUME Actions!TypeOK
  PROVE  /\ IsFiniteSet(NowPlayed) /\ Cardinality(NowPlayed) \in Nat
         /\ NowPlayed # {} => Cardinality(NowPlayed) > 0
<1>1. Len(played) \in Nat
  BY LenProperties DEF Actions!TypeOK
<1>2. IsFiniteSet(1 .. Len(played))
  BY <1>1, FS_Interval
<1>3. IsFiniteSet(NowPlayed)
  BY <1>2, FS_Subset DEF NowPlayed
<1>4. QED
  BY <1>3, FS_CardinalityType, FS_EmptySet

LEMMA ActionsInit == Actions!Init => ActionInv
<1> SUFFICES ASSUME Actions!Init PROVE ActionInv
  OBVIOUS
<1>1. queue = <<>> /\ played = <<>> /\ index = 0 /\ frame = 0 /\ sent = 0
  BY DEF Actions!Init
<1>2. Actions!TypeOK
  BY <1>1, EmptySeq, PartsAssumption DEF Actions!TypeOK
<1>3. Len(queue) = 0 /\ Len(played) = 0
  BY <1>1, EmptySeq
<1>4. LoopInv /\ WaitInv /\ OrderInv /\ PlayedInv
  BY <1>1, <1>3, PartsAssumption DEF LoopInv, WaitInv, OrderInv, PlayedInv
<1>5. QED
  BY <1>2, <1>4 DEF ActionInv

(* What the steps start from. *)
LEMMA ActionTypes ==
  ASSUME ActionInv
  PROVE  /\ Len(queue) \in Nat /\ Len(played) \in Nat /\ frame \in Nat /\ index \in Nat
         /\ sent \in Nat /\ Interval \in Nat /\ Capacity \in Nat /\ MaxActions \in Nat
         /\ Cardinality(NowPlayed) \in Nat
         /\ NowPlayed # {} => Cardinality(NowPlayed) > 0
         /\ \A i \in 1 .. Len(queue) :
              /\ queue[i] \in Actions!Entry
              /\ queue[i].framesLeft \in Int /\ queue[i].id \in Nat
              /\ queue[i].born \in Nat /\ queue[i].ahead \in Nat
              /\ Actions!Due(queue[i]) = queue[i].born + Interval - 1 + queue[i].ahead
              /\ Actions!Due(queue[i]) \in Nat
         /\ \A i \in 1 .. Len(played) :
              /\ played[i].id \in Nat /\ played[i].born \in Nat /\ played[i].ahead \in Nat
              /\ played[i].due \in Nat /\ played[i].at \in Nat
<1>1. Actions!TypeOK
  BY DEF ActionInv
<1>2. \A i \in 1 .. Len(queue) : queue[i] \in Actions!Entry
  BY <1>1, ElementOfSeq DEF Actions!TypeOK
<1>3. \A i \in 1 .. Len(played) :
        played[i] \in [id : 1 .. MaxActions, born : Nat, ahead : Nat, due : Nat, at : Nat]
  BY <1>1, ElementOfSeq DEF Actions!TypeOK
<1>4. /\ Len(queue) \in Nat /\ Len(played) \in Nat /\ frame \in Nat /\ index \in Nat
      /\ sent \in Nat /\ Interval \in Nat /\ Capacity \in Nat /\ MaxActions \in Nat
  <2>1. Interval \in Nat /\ Capacity \in Nat /\ MaxActions \in Nat
    BY PartsAssumption
  <2>2. Len(queue) \in Nat /\ Len(played) \in Nat
    BY <1>1, LenProperties DEF Actions!TypeOK
  <2>3. frame \in Nat /\ index \in Nat /\ sent \in Nat
    BY <1>1, <2>1 DEF Actions!TypeOK
  <2>4. QED
    BY <2>1, <2>2, <2>3
<1>5. \A i \in 1 .. Len(queue) :
        /\ queue[i].framesLeft \in Int /\ queue[i].id \in Nat
        /\ queue[i].born \in Nat /\ queue[i].ahead \in Nat
        /\ Actions!Due(queue[i]) = queue[i].born + Interval - 1 + queue[i].ahead
        /\ Actions!Due(queue[i]) \in Nat
  BY <1>2, EntryFields
<1>6. \A i \in 1 .. Len(played) :
        /\ played[i].id \in Nat /\ played[i].born \in Nat /\ played[i].ahead \in Nat
        /\ played[i].due \in Nat /\ played[i].at \in Nat
  BY <1>3
<1>7. Cardinality(NowPlayed) \in Nat /\ (NowPlayed # {} => Cardinality(NowPlayed) > 0)
  BY <1>1, NowPlayedFinite
<1>8. QED
  BY <1>2, <1>4, <1>5, <1>6, <1>7

LEMMA ActionCounts ==
  ASSUME ActionInv
  PROVE  Len(queue) \in Nat /\ Len(played) \in Nat /\ frame \in Nat /\ sent \in Nat
  BY ActionTypes

LEMMA ActionsEndFrame ==
  ASSUME ActionInv, Actions!EndFrame
  PROVE  ActionInv'
<1>1. /\ index > Len(queue) /\ index' = 0 /\ UNCHANGED <<queue, frame, sent, played>>
      /\ index # 0 => \A i \in 1 .. Len(queue) : Through(i)
  BY ActionTypes DEF Actions!EndFrame, Through
<1>2. \A i \in 1 .. Len(queue) : Through(i) /\ Through(i)'
  BY <1>1, ActionTypes DEF Through
<1>3. Actions!TypeOK'
  BY <1>1, PartsAssumption DEF ActionInv, Actions!TypeOK
<1>4. LoopInv'
  BY <1>1, ActionTypes DEF ActionInv, LoopInv, NowPlayed
<1>5. WaitInv'
  BY <1>1, <1>2 DEF ActionInv, WaitInv, Actions!Due
<1>6. OrderInv' /\ PlayedInv'
  BY <1>1 DEF ActionInv, OrderInv, PlayedInv, Before
<1>7. QED
  BY <1>3, <1>4, <1>5, <1>6 DEF ActionInv

LEMMA ActionsBeginFrame ==
  ASSUME ActionInv, Actions!BeginFrame
  PROVE  ActionInv'
<1>1. /\ index = 0 /\ queue # <<>> /\ index' = 1 /\ frame' = frame + 1
      /\ UNCHANGED <<queue, sent, played>>
  BY DEF Actions!BeginFrame
<1>2. Len(queue) \in Nat \ {0}
  BY <1>1, EmptySeq, ActionTypes DEF ActionInv, Actions!TypeOK
<1>3. Actions!TypeOK'
  BY <1>1, PartsAssumption DEF ActionInv, Actions!TypeOK
<1>4. NowPlayed' = {} /\ Cardinality(NowPlayed') = 0
  <2>1. \A i \in 1 .. Len(played) : played[i].at # frame + 1
    BY ActionTypes DEF ActionInv, LoopInv
  <2>2. NowPlayed' = {}
    BY <1>1, <2>1 DEF NowPlayed
  <2>3. QED
    BY <2>2, FS_EmptySet
<1>5. LoopInv'
  BY <1>1, <1>2, ActionTypes DEF ActionInv, LoopInv
<1>6. WaitInv'
  <2>1. ASSUME NEW i \in 1 .. Len(queue)
        PROVE  /\ queue[i].framesLeft > 0 /\ ~Through(i)'
               /\ queue[i].framesLeft + frame' + i + 0 <= Actions!Due(queue[i]) + 2
               /\ Interval + queue[i].born <= queue[i].framesLeft + frame'
    <3>1. Through(i) /\ ~Through(i)' /\ i \in Nat
      BY <1>1, <1>2 DEF Through
    <3>2. /\ queue[i].framesLeft > 0
          /\ queue[i].framesLeft + frame + i <= Actions!Due(queue[i]) + 1
          /\ Interval + queue[i].born <= queue[i].framesLeft + frame + 1
      BY <3>1 DEF ActionInv, WaitInv
    <3>3. /\ queue[i].framesLeft \in Int /\ queue[i].born \in Nat
          /\ Actions!Due(queue[i]) \in Int /\ frame \in Nat /\ Interval \in Nat
      BY ActionTypes
    <3>4. frame' = frame + 1
      BY <1>1
    <3>5. /\ queue[i].framesLeft + frame' + i + 0 <= Actions!Due(queue[i]) + 2
          /\ Interval + queue[i].born <= queue[i].framesLeft + frame'
      <4> DEFINE left == queue[i].framesLeft
                 due  == Actions!Due(queue[i])
                 from == queue[i].born
      <4>1. /\ left + frame + i <= due + 1 /\ Interval + from <= left + frame + 1
            /\ left \in Int /\ due \in Int /\ from \in Int
            /\ frame \in Int /\ Interval \in Int /\ i \in Int
        BY <3>1, <3>2, <3>3
      <4> HIDE DEF left, due, from
      <4>2. left + (frame + 1) + i + 0 <= due + 2 /\ Interval + from <= left + (frame + 1)
        BY <4>1
      <4>3. left + frame' + i + 0 <= due + 2 /\ Interval + from <= left + frame'
        BY <3>4, <4>2
      <4>4. QED
        BY <4>3 DEF left, due, from
    <3>6. QED
      BY <3>1, <3>2, <3>5
  <2>2. QED
    BY <1>1, <1>4, <2>1 DEF WaitInv, Actions!Due
<1>7. OrderInv' /\ PlayedInv'
  BY <1>1 DEF ActionInv, OrderInv, PlayedInv, Before
<1>8. QED
  BY <1>3, <1>5, <1>6, <1>7 DEF ActionInv

LEMMA IdsSent ==
  ASSUME ActionInv
  PROVE  /\ \A i \in 1 .. Len(queue) : queue[i].id <= sent /\ queue[i].id <= sent + 1
         /\ \A i \in 1 .. Len(played) : /\ played[i].id \in Nat
                                        /\ played[i].id <= sent /\ played[i].id <= sent + 1
<1>1. sent \in Nat
  BY ActionTypes
<1>2. ASSUME NEW i \in 1 .. Len(queue) PROVE queue[i].id <= sent /\ queue[i].id <= sent + 1
  <2>1. queue[i].id <= sent /\ queue[i].id \in Nat
    BY ActionTypes DEF ActionInv, OrderInv
  <2>2. QED
    BY <1>1, <2>1
<1>3. ASSUME NEW i \in 1 .. Len(played)
      PROVE  /\ played[i].id \in Nat
             /\ played[i].id <= sent /\ played[i].id <= sent + 1
  <2>1. played[i].id <= sent /\ played[i].id \in Nat
    BY ActionTypes DEF ActionInv, OrderInv
  <2>2. QED
    BY <1>1, <2>1
<1>4. QED
  BY <1>2, <1>3

(* An action arrives: it is behind all others, also where the loop already is
   past the end of the queue. *)
LEMMA ActionsArrive ==
  ASSUME ActionInv, Actions!handleActionPacket
  PROVE  ActionInv'
<1>1. /\ sent < MaxActions /\ sent' = sent + 1 /\ UNCHANGED <<index, frame, played>>
      /\ queue' = IF Len(queue) < Capacity THEN Append(queue, Actions!NewEntry) ELSE queue
  BY DEF Actions!handleActionPacket
<1> DEFINE e == Actions!NewEntry
<1>2. /\ e.framesLeft = Interval /\ e.id = sent + 1
      /\ index = 0 => e.born = frame + 1 /\ e.ahead = Len(queue)
      /\ index # 0 => e.born = frame /\ e.ahead = Len(queue) + Cardinality(NowPlayed)
      /\ e = [framesLeft |-> Interval, id |-> e.id, born |-> e.born, ahead |-> e.ahead]
  <2>1. CASE index = 0
    <3> DEFINE gone == {i \in 1 .. Len(played) : played[i].at = frame + 1}
    <3>1. e = [framesLeft |-> Interval, id |-> sent + 1, born |-> frame + 1,
               ahead |-> Len(queue) + Cardinality(gone)]
      BY <2>1, SameCardinality DEF Actions!NewEntry
    <3>2. \A i \in 1 .. Len(played) : played[i].at # frame + 1
      BY ActionTypes DEF ActionInv, LoopInv
    <3>3. gone = {}
      BY <3>2
    <3>4. Cardinality(gone) = 0
      BY <3>3, FS_EmptySet
    <3> HIDE DEF gone, e
    <3>5. Len(queue) + Cardinality(gone) = Len(queue)
      BY <3>4, ActionTypes
    <3>6. QED
      BY <2>1, <3>1, <3>5
  <2>2. CASE index # 0
    <3>1. e = [framesLeft |-> Interval, id |-> sent + 1, born |-> frame,
               ahead |-> Len(queue) + Cardinality(NowPlayed)]
      BY <2>2, SameCardinality DEF Actions!NewEntry, NowPlayed
    <3> HIDE DEF e
    <3>2. QED
      BY <2>2, <3>1
  <2>3. QED
    BY <2>1, <2>2
<1> HIDE DEF e
<1>3. e \in Actions!Entry /\ e.born \in Nat /\ e.ahead \in Nat
  <2>1. e.born \in Nat /\ e.ahead \in Nat /\ e.id \in 1 .. MaxActions
    <3>1. /\ Len(queue) \in Nat /\ Cardinality(NowPlayed) \in Nat /\ frame \in Nat
          /\ sent \in Nat /\ MaxActions \in Nat
      BY ActionTypes
    <3>2. e.id \in 1 .. MaxActions
      BY <1>1, <1>2, <3>1
    <3>3. e.born \in {frame, frame + 1}
          /\ e.ahead \in {Len(queue), Len(queue) + Cardinality(NowPlayed)}
      BY <1>2
    <3>4. QED
      BY <3>1, <3>2, <3>3
  <2>2. QED
    BY <1>2, <2>1, ActionTypes DEF Actions!Entry
<1>4. CASE ~(Len(queue) < Capacity)
  <2>1. queue' = queue
    BY <1>1, <1>4
  <2>2. Actions!TypeOK'
    BY <1>1, <2>1, ActionTypes DEF ActionInv, Actions!TypeOK
  <2>3. LoopInv' /\ WaitInv' /\ PlayedInv'
    BY <1>1, <2>1 DEF ActionInv, LoopInv, WaitInv, PlayedInv, Before, NowPlayed, Through,
                      Actions!Due
  <2>4. OrderInv'
    <3>1. \A i \in 1 .. Len(queue) : queue[i].id <= sent + 1
      BY IdsSent
    <3>2. \A i \in 1 .. Len(played) : played[i].id <= sent + 1
      BY IdsSent
    <3>3. sent' = sent + 1 /\ queue' = queue /\ played' = played
      BY <1>1, <2>1
    <3> HIDE <1>1, <1>2, <1>3, <1>4
    <3>4. QED
      BY <3>1, <3>2, <3>3 DEF ActionInv, OrderInv, Before
  <2>5. QED
    BY <2>2, <2>3, <2>4 DEF ActionInv
<1>5. CASE Len(queue) < Capacity
  <2> DEFINE n == Len(queue)
  <2>1. /\ queue' \in Seq(Actions!Entry) /\ Len(queue') = n + 1
        /\ \A i \in 1 .. n : queue'[i] = queue[i]
        /\ queue'[n + 1] = e
    BY <1>1, <1>3, <1>5, AppendProperties DEF ActionInv, Actions!TypeOK, e
  <2>2. \A i \in 1 .. n + 1 : i \in 1 .. n \/ i = n + 1
    BY ActionCounts
  <2>3. Actions!TypeOK'
    BY <1>1, <2>1, ActionTypes DEF ActionInv, Actions!TypeOK
  <2>4. NowPlayed' = NowPlayed
    BY <1>1 DEF NowPlayed
  <2>5. LoopInv'
    BY <1>1, <1>5, <2>1, <2>4, ActionTypes DEF ActionInv, LoopInv
  <2>6. WaitInv'
    <3>1. \A i : Through(i)' <=> Through(i)
      BY <1>1 DEF Through
    <3>2. Actions!Due(e) = e.born + Interval - 1 + e.ahead
      BY DEF Actions!Due
    <3>3. /\ e.framesLeft > 0
          /\ IF Through(n + 1)
               THEN /\ e.framesLeft + frame + (n + 1) <= Actions!Due(e) + 1
                    /\ Interval + e.born <= e.framesLeft + frame + 1
               ELSE /\ e.framesLeft + frame + (n + 1) + Cardinality(NowPlayed)
                         <= Actions!Due(e) + 2
                    /\ Interval + e.born <= e.framesLeft + frame
      <4> DEFINE c == Cardinality(NowPlayed)
      <4>0. /\ n \in Nat /\ frame \in Nat /\ index \in Nat /\ c \in Nat
            /\ Interval \in Nat \ {0}
        BY ActionTypes, PartsAssumption
      <4> HIDE DEF c
      <4>1. CASE index = 0
        <5>1. Through(n + 1)
          BY <4>1 DEF Through
        <5>2. e.born = frame + 1 /\ e.ahead = n /\ e.framesLeft = Interval
          BY <1>2, <4>1
        <5>3. QED
          BY <3>2, <4>0, <5>1, <5>2
      <4>2. CASE index # 0 /\ index = n + 2
        <5>1. Through(n + 1)
          BY <4>0, <4>2 DEF Through
        <5>2. e.born = frame /\ e.ahead = n + c /\ e.framesLeft = Interval
          BY <1>2, <4>2 DEF c
        <5>3. c > 0
          BY <4>2, ActionTypes DEF ActionInv, LoopInv, c
        <5>4. QED
          BY <3>2, <4>0, <5>1, <5>2, <5>3
      <4>3. CASE index # 0 /\ index # n + 2
        <5>1. ~Through(n + 1)
          <6>1. index <= n + 2
            BY DEF ActionInv, LoopInv
          <6>2. QED
            BY <4>0, <4>3, <6>1 DEF Through
        <5>2. e.born = frame /\ e.ahead = n + c /\ e.framesLeft = Interval
          BY <1>2, <4>3 DEF c
        <5>3. e.framesLeft + frame + (n + 1) + c <= Actions!Due(e) + 2
          BY <3>2, <4>0, <5>2
        <5>4. QED
          BY <4>0, <5>1, <5>2, <5>3 DEF c
      <4>4. QED
        BY <4>1, <4>2, <4>3
    <3>4. \A i \in 1 .. n + 1 : queue'[i] = IF i = n + 1 THEN e ELSE queue[i]
      BY <2>1, <2>2, ActionTypes
    <3> HIDE DEF n
    <3>5. QED
      <4> SUFFICES ASSUME NEW i \in 1 .. Len(queue')
                   PROVE  LET x == queue'[i]
                          IN  /\ x.framesLeft > 0
                              /\ IF Through(i)
                                   THEN /\ x.framesLeft + frame + i <= Actions!Due(x) + 1
                                        /\ Interval + x.born <= x.framesLeft + frame + 1
                                   ELSE /\ x.framesLeft + frame + i + Cardinality(NowPlayed)
                                             <= Actions!Due(x) + 2
                                        /\ Interval + x.born <= x.framesLeft + frame
        BY <1>1, <2>4, <3>1 DEF WaitInv, Actions!Due
      <4>1. CASE i = n + 1
        BY <2>1, <3>3, <3>4, <4>1
      <4>2. CASE i # n + 1
        <5>1. i \in 1 .. Len(queue) /\ queue'[i] = queue[i]
          BY <2>1, <2>2, <4>2 DEF n
        <5> DEFINE x == queue[i]
        <5>2. /\ x.framesLeft > 0
              /\ IF Through(i)
                   THEN /\ x.framesLeft + frame + i <= Actions!Due(x) + 1
                        /\ Interval + x.born <= x.framesLeft + frame + 1
                   ELSE /\ x.framesLeft + frame + i + Cardinality(NowPlayed)
                             <= Actions!Due(x) + 2
                        /\ Interval + x.born <= x.framesLeft + frame
          BY <5>1 DEF ActionInv, WaitInv
        <5> HIDE DEF x
        <5>3. QED
          BY <5>1, <5>2 DEF x
      <4>3. QED
        BY <4>1, <4>2
  <2>7. OrderInv'
    <3>1. ASSUME NEW i \in 1 .. n + 1, NEW j \in 1 .. n + 1, i < j
          PROVE  queue'[i].id < queue'[j].id
      <4>1. i \in 1 .. n /\ queue'[i] = queue[i] /\ queue[i].id \in Nat /\ sent \in Nat
        <5>1. n \in Nat /\ sent \in Nat
          BY ActionCounts
        <5>2. i \in 1 .. n
          BY <2>2, <3>1, <5>1
        <5>3. queue[i].id \in Nat
          BY <5>2, ActionTypes
        <5>4. QED
          BY <2>1, <5>1, <5>2, <5>3
      <4>2. CASE j = n + 1
        <5>1. queue[i].id <= sent /\ queue'[j].id = sent + 1
          BY <1>2, <2>1, <4>1, <4>2 DEF ActionInv, OrderInv
        <5>2. QED
          BY <4>1, <5>1
      <4>3. CASE j \in 1 .. n
        BY <2>1, <3>1, <4>1, <4>3 DEF ActionInv, OrderInv
      <4>4. QED
        BY <2>2, <4>2, <4>3
    <3>2. ASSUME NEW i \in 1 .. n + 1 PROVE queue'[i].id <= sent'
      <4>1. sent' = sent + 1 /\ sent \in Nat
        BY <1>1, ActionTypes
      <4>2. CASE i = n + 1
        BY <1>2, <2>1, <4>1, <4>2
      <4>3. CASE i # n + 1
        <5>1. i \in 1 .. Len(queue) /\ queue'[i] = queue[i]
          BY <2>1, <2>2, <4>3 DEF n
        <5>2. QED
          BY <4>1, <5>1, IdsSent
      <4>4. QED
        BY <4>2, <4>3
    <3>3. \A i \in 1 .. Len(played) : played[i].id <= sent'
      BY <1>1, IdsSent
    <3>4. \A i \in 1 .. Len(played), j \in 1 .. n + 1 : Before(played[i], queue'[j])
      <4>1. ASSUME NEW i \in 1 .. Len(played) PROVE Before(played[i], e)
        <5>1. played[i].id \in Int /\ played[i].id <= sent /\ sent \in Int
          BY IdsSent, ActionTypes
        <5>2. e.id = sent + 1
          BY <1>2
        <5>3. e.id # played[i].id /\ ~(played[i].id > e.id)
          BY <5>1, <5>2
        <5>4. QED
          BY <5>3 DEF Before
      <4>2. QED
        BY <2>1, <2>2, <4>1 DEF ActionInv, OrderInv
    <3>5. QED
      BY <1>1, <2>1, <3>1, <3>2, <3>3, <3>4 DEF OrderInv, Before
  <2>8. PlayedInv'
    BY <1>1 DEF ActionInv, PlayedInv, Before
  <2>9. QED
    BY <2>3, <2>5, <2>6, <2>7, <2>8 DEF ActionInv
<1>6. QED
  BY <1>4, <1>5

(* The step of the loop at an entry that has still to wait. *)
LEMMA ActionsCountDown ==
  ASSUME ActionInv, Actions!StepEntry, Actions!CountDown[index].framesLeft # 0
  PROVE  ActionInv'
<1> DEFINE n == Len(queue)
           c == Cardinality(NowPlayed)
<1>1. /\ n \in Nat /\ frame \in Nat /\ index \in 1 .. n /\ c \in Nat /\ index \in Nat
      /\ Interval \in Nat /\ Capacity \in Nat
  BY ActionTypes DEF Actions!StepEntry
<1>2. /\ queue' = Actions!CountDown /\ index' = index + 1
      /\ UNCHANGED <<played, frame, sent>>
  BY DEF Actions!StepEntry
<1>3. /\ queue' \in Seq(Actions!Entry) /\ Len(queue') = n
      /\ \A i \in 1 .. n :
           /\ queue'[i].id = queue[i].id
           /\ queue'[i].born = queue[i].born
           /\ queue'[i].ahead = queue[i].ahead
           /\ queue'[i].framesLeft = queue[i].framesLeft - IF i = index THEN 1 ELSE 0
      /\ queue'[index].framesLeft # 0
  BY <1>1, <1>2, CountedDown DEF ActionInv
<1>4. NowPlayed' = NowPlayed
  BY <1>2 DEF NowPlayed
<1>5. LoopInv /\ index <= Capacity
  BY <1>1 DEF ActionInv, LoopInv
<1>6. Actions!TypeOK'
  BY <1>1, <1>2, <1>3, <1>5 DEF ActionInv, Actions!TypeOK
<1>7. LoopInv'
  BY <1>1, <1>2, <1>3, <1>4, <1>5 DEF LoopInv
<1>8. \A i \in 1 .. n : Actions!Due(queue'[i]) = Actions!Due(queue[i])
  BY <1>3 DEF Actions!Due
<1>9. WaitInv'
  <2> SUFFICES ASSUME NEW i \in 1 .. n
               PROVE  /\ queue'[i].framesLeft > 0
                      /\ IF i < index + 1
                           THEN /\ queue'[i].framesLeft + frame + i
                                     <= Actions!Due(queue[i]) + 1
                                /\ Interval + queue[i].born
                                     <= queue'[i].framesLeft + frame + 1
                           ELSE /\ queue'[i].framesLeft + frame + i + c
                                     <= Actions!Due(queue[i]) + 2
                                /\ Interval + queue[i].born <= queue'[i].framesLeft + frame
    <3>1. \A i : Through(i)' <=> i < index + 1
      BY <1>1, <1>2 DEF Through
    <3>2. QED
      BY <1>2, <1>3, <1>4, <1>8, <3>1 DEF WaitInv
  <2>1. /\ queue[i].framesLeft \in Int /\ queue[i].born \in Nat
        /\ Actions!Due(queue[i]) \in Nat /\ i \in Nat
    BY ActionTypes
  <2>2. /\ queue[i].framesLeft > 0
        /\ IF i < index
             THEN /\ queue[i].framesLeft + frame + i <= Actions!Due(queue[i]) + 1
                  /\ Interval + queue[i].born <= queue[i].framesLeft + frame + 1
             ELSE /\ queue[i].framesLeft + frame + i + c <= Actions!Due(queue[i]) + 2
                  /\ Interval + queue[i].born <= queue[i].framesLeft + frame
    BY <1>1 DEF ActionInv, WaitInv, Through
  <2> HIDE DEF c, n
  <2>3. CASE i = index
    <3>1. queue'[i].framesLeft = queue[i].framesLeft - 1 /\ queue'[i].framesLeft # 0
      BY <1>3, <2>3
    <3>2. QED
      BY <1>1, <2>1, <2>2, <2>3, <3>1
  <2>4. CASE i # index
    <3>1. queue'[i].framesLeft = queue[i].framesLeft
      BY <1>3, <2>1, <2>4
    <3>2. QED
      BY <1>1, <2>1, <2>2, <2>4, <3>1
  <2>5. QED
    BY <2>3, <2>4
<1>10. OrderInv' /\ PlayedInv'
  <2>1. PlayedInv'
    BY <1>2 DEF ActionInv, PlayedInv, Before
  <2>2. \A i \in 1 .. Len(queue') :
          /\ i \in 1 .. Len(queue)
          /\ queue'[i].id = queue[i].id /\ queue'[i].born = queue[i].born
          /\ queue'[i].ahead = queue[i].ahead
    BY <1>3
  <2>3. \A i, j \in 1 .. Len(queue') : i < j => queue'[i].id < queue'[j].id
    BY <2>2 DEF ActionInv, OrderInv
  <2>4. \A i \in 1 .. Len(played), j \in 1 .. Len(queue') : Before(played[i], queue'[j])
    BY <2>2 DEF ActionInv, OrderInv, Before
  <2>5. /\ \A i \in 1 .. Len(queue') : queue'[i].id <= sent
        /\ \A i \in 1 .. Len(played) : played[i].id <= sent
    BY <2>2 DEF ActionInv, OrderInv
  <2>6. OrderInv'
    BY <1>2, <2>3, <2>4, <2>5 DEF OrderInv, Before
  <2>7. QED
    BY <2>1, <2>6
<1>11. QED
  BY <1>6, <1>7, <1>9, <1>10 DEF ActionInv

(* The step at an entry that is due: it is erased, and the loop skips the one that
   takes its place. *)
LEMMA ActionsPlay ==
  ASSUME ActionInv, Actions!StepEntry, Actions!CountDown[index].framesLeft = 0
  PROVE  ActionInv'
<1> DEFINE n == Len(queue)
           k == index
           c == Cardinality(NowPlayed)
           e == Actions!CountDown[index]
           r == Actions!Play(e)
           from(j) == IF j < k THEN j ELSE j + 1
<1>1. /\ n \in Nat /\ frame \in Nat /\ k \in 1 .. n /\ c \in Nat /\ k \in Nat
      /\ Interval \in Nat /\ Capacity \in Nat /\ Len(played) \in Nat
  BY ActionTypes DEF Actions!StepEntry
<1>2. /\ queue' = Actions!Erase(Actions!CountDown, index) /\ index' = index + 1
      /\ played' = Append(played, r) /\ UNCHANGED <<frame, sent>>
  BY DEF Actions!StepEntry
<1>3. /\ queue[k].framesLeft \in Int /\ queue[k].id \in 1 .. MaxActions
      /\ queue[k].born \in Nat /\ queue[k].ahead \in Nat
      /\ Actions!Due(queue[k]) \in Nat
  BY <1>1, ActionTypes, EntryFields
<1>4. /\ Actions!CountDown \in Seq(Actions!Entry) /\ Len(Actions!CountDown) = n
      /\ e.id = queue[k].id /\ e.born = queue[k].born /\ e.ahead = queue[k].ahead
      /\ queue[k].framesLeft = 1
      /\ \A i \in 1 .. n : i # k =>
           LET x == Actions!CountDown[i]
           IN  /\ x.id = queue[i].id /\ x.born = queue[i].born /\ x.ahead = queue[i].ahead
               /\ x.framesLeft = queue[i].framesLeft
  <2>1. e.framesLeft = queue[k].framesLeft - 1
    BY <1>1, CountedDown DEF ActionInv
  <2>2. queue[k].framesLeft = 1
    BY <1>3, <2>1
  <2>3. \A i \in 1 .. n : queue[i].framesLeft \in Int
    BY ActionTypes
  <2>4. QED
    BY <1>1, <2>2, <2>3, CountedDown DEF ActionInv
<1>5. /\ r.id = queue[k].id /\ r.born = queue[k].born /\ r.ahead = queue[k].ahead
      /\ r.due = Actions!Due(queue[k]) /\ r.at = frame
      /\ r \in [id : 1 .. MaxActions, born : Nat, ahead : Nat, due : Nat, at : Nat]
  <2>1. Actions!Due(e) = Actions!Due(queue[k])
    BY <1>4 DEF Actions!Due
  <2>2. r = [id |-> e.id, born |-> e.born, ahead |-> e.ahead, due |-> Actions!Due(e),
             at |-> frame]
    BY DEF Actions!Play
  <2> HIDE DEF r, e
  <2>3. QED
    BY <1>1, <1>3, <1>4, <2>1, <2>2
<1>6. /\ queue' \in Seq(Actions!Entry) /\ Len(queue') = n - 1
      /\ \A j \in 1 .. n - 1 : queue'[j] = Actions!CountDown[from(j)]
  <2> DEFINE counted == Actions!CountDown
  <2>1. counted \in Seq(Actions!Entry) /\ Len(counted) = n /\ index \in 1 .. Len(counted)
    BY <1>1, <1>4
  <2>2. queue' = Actions!Erase(counted, index)
    BY <1>2
  <2> HIDE DEF counted, n, e, r
  <2>3. /\ queue' \in Seq(Actions!Entry) /\ Len(queue') = n - 1
        /\ \A j \in 1 .. n - 1 :
             queue'[j] = IF j < index THEN counted[j] ELSE counted[j + 1]
    BY <2>1, <2>2, EraseAt
  <2>4. QED
    BY <2>3 DEF counted
<1>7. \A j \in 1 .. n - 1 :
        /\ from(j) \in 1 .. n /\ from(j) # k
        /\ queue'[j].id = queue[from(j)].id
        /\ queue'[j].born = queue[from(j)].born
        /\ queue'[j].ahead = queue[from(j)].ahead
        /\ queue'[j].framesLeft = queue[from(j)].framesLeft
        /\ Actions!Due(queue'[j]) = Actions!Due(queue[from(j)])
  <2>1. \A j \in 1 .. n - 1 : from(j) \in 1 .. n /\ from(j) # k
    BY <1>1
  <2> HIDE DEF from
  <2>2. QED
    BY <1>4, <1>6, <2>1 DEF Actions!Due
<1> DEFINE Plays == [id : 1 .. MaxActions, born : Nat, ahead : Nat, due : Nat, at : Nat]
<1>8. /\ Len(played') = Len(played) + 1 /\ played'[Len(played) + 1] = r
      /\ \A i \in 1 .. Len(played) : played'[i] = played[i]
      /\ played' \in Seq(Plays)
      /\ \A i \in 1 .. Len(played') : i \in 1 .. Len(played) \/ i = Len(played) + 1
  <2> HIDE DEF r
  <2>1. played \in Seq(Plays) /\ r \in Plays
    BY <1>5 DEF ActionInv, Actions!TypeOK
  <2> HIDE DEF Plays
  <2>2. /\ Len(played') = Len(played) + 1 /\ played'[Len(played) + 1] = r
        /\ \A i \in 1 .. Len(played) : played'[i] = played[i]
        /\ played' \in Seq(Plays)
    BY <1>2, <2>1, AppendProperties
  <2>3. QED
    BY <1>1, <2>2
<1> HIDE DEF r, e
<1>9. Cardinality(NowPlayed)' = c + 1 /\ NowPlayed' # {}
  <2>1. NowPlayed' = NowPlayed \cup {Len(played) + 1}
    <3>1. \A i \in 1 .. Len(played) : i \in 1 .. Len(played')
      BY <1>1, <1>8
    <3>2. Len(played) + 1 \in 1 .. Len(played')
      BY <1>1, <1>8
    <3>3. QED
      BY <1>2, <1>5, <1>8, <3>1, <3>2 DEF NowPlayed
  <2>2. Len(played) + 1 \notin NowPlayed
    BY <1>1 DEF NowPlayed
  <2>3. IsFiniteSet(NowPlayed)
    BY NowPlayedFinite DEF ActionInv
  <2>4. Cardinality(NowPlayed \cup {Len(played) + 1}) = c + 1
    BY <2>2, <2>3, FS_AddElement
  <2>5. QED
    BY <2>1, <2>4
<1>10. k <= Capacity
  BY <1>1 DEF ActionInv, LoopInv
<1>11. Actions!TypeOK'
  BY <1>1, <1>2, <1>6, <1>8, <1>10 DEF ActionInv, Actions!TypeOK
<1> HIDE DEF Plays
<1>12. LoopInv'
  <2>1. ASSUME NEW i \in 1 .. Len(played') PROVE played'[i].at <= frame
    <3>1. CASE i \in 1 .. Len(played)
      BY <1>8, <3>1 DEF ActionInv, LoopInv
    <3>2. CASE i = Len(played) + 1
      BY <1>1, <1>5, <1>8, <3>2
    <3>3. QED
      BY <1>8, <3>1, <3>2
  <2>2. n - 1 <= Capacity
    BY <1>1 DEF ActionInv, LoopInv
  <2>3. QED
    BY <1>1, <1>2, <1>6, <1>9, <2>1, <2>2 DEF LoopInv
<1>13. ASSUME NEW i \in 1 .. n
       PROVE  /\ queue[i].framesLeft \in Int /\ queue[i].born \in Nat /\ queue[i].id \in Nat
              /\ queue[i].ahead \in Nat /\ Actions!Due(queue[i]) \in Nat /\ i \in Nat
              /\ Actions!Due(queue[i]) = queue[i].born + Interval - 1 + queue[i].ahead
  BY <1>13, ActionTypes
<1>14. ASSUME NEW i \in 1 .. n
       PROVE  /\ queue[i].framesLeft > 0
              /\ IF i < k
                   THEN /\ queue[i].framesLeft + frame + i <= Actions!Due(queue[i]) + 1
                        /\ Interval + queue[i].born <= queue[i].framesLeft + frame + 1
                   ELSE /\ queue[i].framesLeft + frame + i + c <= Actions!Due(queue[i]) + 2
                        /\ Interval + queue[i].born <= queue[i].framesLeft + frame
  BY <1>1, <1>14 DEF ActionInv, WaitInv, Through
<1>15. index' = k + 1
  BY <1>2
<1>16. \A i \in 1 .. n : i # k =>
         queue[k].id # queue[i].id /\ (queue[k].id > queue[i].id => i < k)
  <2>1. \A i, j \in 1 .. n : i < j => queue[i].id < queue[j].id
    BY DEF ActionInv, OrderInv
  <2>2. \A i \in 1 .. n : queue[i].id \in Nat /\ i \in Int
    BY <1>13
  <2> HIDE DEF n, k
  <2>3. QED
    BY <1>1, <2>1, <2>2
<1> HIDE DEF c, n, k, from
<1>17. WaitInv'
  <2> SUFFICES ASSUME NEW j \in 1 .. n - 1
               PROVE  LET x == queue[from(j)]
                      IN  /\ x.framesLeft > 0
                          /\ IF j < k + 1
                               THEN /\ x.framesLeft + frame + j <= Actions!Due(x) + 1
                                    /\ Interval + x.born <= x.framesLeft + frame + 1
                               ELSE /\ x.framesLeft + frame + j + (c + 1)
                                         <= Actions!Due(x) + 2
                                    /\ Interval + x.born <= x.framesLeft + frame
    <3>1. \A i : Through(i)' <=> i < k + 1
      BY <1>1, <1>15 DEF Through
    <3>2. QED
      BY <1>2, <1>6, <1>7, <1>9, <3>1 DEF WaitInv
  <2>1. from(j) \in 1 .. n /\ from(j) = (IF j < k THEN j ELSE j + 1) /\ j \in Nat
    BY <1>7 DEF from
  <2> DEFINE i == from(j)
             left == queue[i].framesLeft
             born == queue[i].born
             due == Actions!Due(queue[i])
  <2>2. left \in Int /\ born \in Nat /\ due \in Nat
    BY <1>13, <2>1
  <2>3. /\ left > 0
        /\ IF i < k THEN left + frame + i <= due + 1 /\ Interval + born <= left + frame + 1
                    ELSE left + frame + i + c <= due + 2 /\ Interval + born <= left + frame
    BY <1>14, <2>1
  <2>4. i = (IF j < k THEN j ELSE j + 1)
    BY <2>1
  <2> HIDE DEF left, born, due, i
  <2>5. /\ left > 0
        /\ IF j < k + 1
             THEN left + frame + j <= due + 1 /\ Interval + born <= left + frame + 1
             ELSE left + frame + j + (c + 1) <= due + 2 /\ Interval + born <= left + frame
    <3>1. CASE j < k
      BY <1>1, <2>1, <2>2, <2>3, <2>4, <3>1
    <3>2. CASE j = k
      BY <1>1, <2>1, <2>2, <2>3, <2>4, <3>2
    <3>3. CASE j > k
      BY <1>1, <2>1, <2>2, <2>3, <2>4, <3>3
    <3>4. QED
      BY <1>1, <2>1, <3>1, <3>2, <3>3
  <2>6. QED
    BY <2>5 DEF left, born, due, i
<1>18. ASSUME NEW i \in 1 .. n, i # k PROVE Before(r, queue[i])
  <2>1. CASE i < k
    <3> DEFINE left == queue[i].framesLeft
               born == queue[i].born
               ahead == queue[i].ahead
               bornK == queue[k].born
    <3>1. /\ left \in Int /\ born \in Nat /\ ahead \in Nat /\ bornK \in Nat
          /\ i \in Nat /\ i >= 1
      BY <1>3, <1>13
    <3>2. left > 0 /\ left + frame + i <= (born + Interval - 1 + ahead) + 1
      BY <1>13, <1>14, <2>1
    <3>3. Interval + bornK <= 1 + frame
      BY <1>1, <1>4, <1>14
    <3> HIDE DEF left, born, ahead, bornK
    <3>4. bornK < born + ahead
      BY <1>1, <3>1, <3>2, <3>3
    <3>5. QED
      BY <1>5, <1>16, <1>18, <3>4 DEF Before, born, ahead, bornK
  <2>2. CASE ~(i < k)
    BY <1>5, <1>16, <1>18, <2>2 DEF Before
  <2>3. QED
    BY <2>1, <2>2
<1>19. OrderInv'
  <2>1. \A i, j \in 1 .. n - 1 : i < j => queue'[i].id < queue'[j].id
    <3>1. \A i, j \in 1 .. n - 1 : i < j => from(i) < from(j)
      BY <1>1 DEF from
    <3>2. \A i, j \in 1 .. n : i < j => queue[i].id < queue[j].id
      BY DEF ActionInv, OrderInv, n
    <3>3. QED
      BY <1>7, <3>1, <3>2
  <2>2. \A i \in 1 .. n : queue[i].id <= sent
    BY DEF ActionInv, OrderInv, n
  <2>3. \A j \in 1 .. n - 1 : queue'[j].id <= sent
    BY <1>7, <2>2
  <2>4. \A i \in 1 .. Len(played') : played'[i].id <= sent
    BY <1>1, <1>5, <1>8, <2>2 DEF ActionInv, OrderInv
  <2>5. ASSUME NEW i \in 1 .. Len(played'), NEW j \in 1 .. n - 1
        PROVE  Before(played'[i], queue'[j])
    <3>1. Before(played'[i], queue[from(j)])
      <4>1. CASE i \in 1 .. Len(played)
        BY <1>7, <1>8, <4>1 DEF ActionInv, OrderInv, n
      <4>2. CASE i = Len(played) + 1
        BY <1>7, <1>8, <1>18, <4>2
      <4>3. QED
        BY <1>8, <4>1, <4>2
    <3>2. QED
      BY <1>7, <3>1 DEF Before
  <2>6. QED
    BY <1>2, <1>6, <2>1, <2>3, <2>4, <2>5 DEF OrderInv, Before
<1>20. PlayedInv'
  <2>1. r.at <= r.due
    <3> DEFINE due == Actions!Due(queue[k])
    <3>1. due \in Nat /\ 1 + frame + k + c <= due + 2 /\ k >= 1
      BY <1>1, <1>3, <1>4, <1>14
    <3> HIDE DEF due
    <3>2. frame <= due
      BY <1>1, <3>1
    <3>3. QED
      BY <1>5, <3>2 DEF due
  <2>2. \A i \in 1 .. Len(played') : played'[i].at <= played'[i].due
    BY <1>8, <2>1 DEF ActionInv, PlayedInv
  <2>3. ASSUME NEW i \in 1 .. Len(played'), NEW j \in 1 .. Len(played'), i < j
        PROVE  Before(played'[i], played'[j])
    <3>1. i \in 1 .. Len(played) /\ played'[i] = played[i]
      <4>1. \A l : l \in 1 .. Len(played) + 1 => l \in Int /\ l <= Len(played) + 1
        BY <1>1
      <4>2. i \in Int /\ j \in Int /\ j <= Len(played) + 1 /\ 1 <= i
        BY <1>1, <1>8, <2>3, <4>1
      <4>3. QED
        BY <1>1, <1>8, <2>3, <4>2
    <3>2. CASE j \in 1 .. Len(played)
      BY <1>8, <2>3, <3>1, <3>2 DEF ActionInv, PlayedInv
    <3>3. CASE j = Len(played) + 1
      <4>1. Before(played[i], queue[k])
        BY <1>1, <3>1 DEF ActionInv, OrderInv, n
      <4>2. QED
        BY <1>5, <1>8, <3>1, <3>3, <4>1 DEF Before
    <3>4. QED
      BY <1>8, <3>2, <3>3
  <2>4. QED
    BY <2>2, <2>3 DEF PlayedInv, Before
<1>21. QED
  BY <1>11, <1>12, <1>17, <1>19, <1>20 DEF ActionInv

(* However many actions there are, and whatever the loop over the queue skips: an
   action is played once, no later than one frame for every one that was before
   it, and overtakes only one that came less than one frame earlier for each of
   those (ActionQueue). *)
THEOREM ActionsPlayed == Actions!Spec => []ActionsInTime
<1>1. ActionInv => ActionsInTime
  <2> SUFFICES ASSUME ActionInv PROVE Actions!ActionsInTime
    BY DEF ActionInv, ActionsInTime
  <2>1. \A i \in 1 .. Len(played) : played[i].at <= played[i].due
    BY DEF ActionInv, PlayedInv
  <2>2. ASSUME NEW i \in 1 .. Len(queue)
        PROVE  queue[i].framesLeft > 0 /\ frame <= Actions!Due(queue[i])
    <3>1. /\ queue[i].framesLeft \in Int /\ frame \in Nat /\ i \in Nat /\ i >= 1
          /\ Actions!Due(queue[i]) \in Nat /\ Cardinality(NowPlayed) \in Nat
      BY ActionTypes
    <3>2. /\ queue[i].framesLeft > 0
          /\ \/ queue[i].framesLeft + frame + i <= Actions!Due(queue[i]) + 1
             \/ queue[i].framesLeft + frame + i + Cardinality(NowPlayed)
                  <= Actions!Due(queue[i]) + 2
      BY DEF ActionInv, WaitInv
    <3>3. QED
      BY <3>1, <3>2
  <2>3. \A i, j \in 1 .. Len(played) : i < j => Before(played[i], played[j])
    BY DEF ActionInv, PlayedInv
  <2>4. QED
    BY <2>1, <2>2, <2>3 DEF Actions!ActionsInTime, Before
<1>2. ActionInv /\ [Actions!Next]_(Actions!vars) => ActionInv'
  <2> SUFFICES ASSUME ActionInv, [Actions!Next]_(Actions!vars) PROVE ActionInv'
    OBVIOUS
  <2>1. CASE Actions!Next
    BY <2>1, ActionsArrive, ActionsBeginFrame, ActionsCountDown, ActionsPlay,
       ActionsEndFrame DEF Actions!Next
  <2>2. CASE UNCHANGED Actions!vars
    <3>1. UNCHANGED <<queue, index, frame, sent, played>>
      BY <2>2 DEF Actions!vars
    <3>2. NowPlayed' = NowPlayed
      BY <3>1 DEF NowPlayed
    <3>3. QED
      BY <3>1, <3>2 DEF ActionInv, Actions!TypeOK, LoopInv, WaitInv, OrderInv, PlayedInv,
                        Before, Through, Actions!Due
  <2>3. QED
    BY <2>1, <2>2
<1>3. QED
  BY ActionsInit, <1>1, <1>2, PTL DEF Actions!Spec

-----------------------------------------------------------------------------
(* The parts that follow the clock: one that rotates, and one that goes from key pose
   to key pose, as many frames and moves of the way as the poses before it sum to. *)

(* Numbers have the property that the first of them has and that goes from each to
   the next: of those without it there would be a least. *)
LEMMA AllNumbers ==
  ASSUME NEW S, 0 \in S, \A n \in Nat : n \in S => n + 1 \in S
  PROVE  Nat \subseteq S
<1> DEFINE less == OpToRel(<, Nat)
           others == Nat \ S
<1>1. \A m, n \in Nat : m < n => <<m, n>> \in less
  BY DEF OpToRel
<1>2. IsWellFoundedOn(less, Nat)
  BY NatLessThanWellFounded
<1> SUFFICES ASSUME others # {} PROVE FALSE
  OBVIOUS
<1> HIDE DEF less
<1>3. PICK n \in others : \A m \in others : <<m, n>> \notin less
  <2> HIDE DEF others
  <2>1. others \subseteq Nat
    BY DEF others
  <2> QED BY <1>2, <2>1, WFMin
<1>4. n \in Nat /\ n # 0
  BY <1>3
<1>5. n - 1 \in Nat /\ n - 1 < n /\ n - 1 + 1 = n
  BY <1>4
<1>6. n - 1 \in S
  BY <1>1, <1>3, <1>4, <1>5
<1> QED BY <1>3, <1>5, <1>6

(* f has the sums of the first of n numbers. *)
Sums(f, c, n) ==
  /\ f \in [1 .. n + 1 -> Nat]
  /\ f[1] = 0
  /\ \A i \in 1 .. n : f[i + 1] = f[i] + c[i]

LEMMA SumsExist ==
  ASSUME NEW n \in Nat, NEW c \in [1 .. n -> Nat]
  PROVE  \E f : Sums(f, c, n)
<1> DEFINE S == {k \in Nat : k <= n => \E f : Sums(f, c, k)}
<1>1. 0 \in S
  <2>1. Sums([i \in 1 .. 1 |-> 0], c, 0)
    BY DEF Sums
  <2> QED BY <2>1
<1>2. ASSUME NEW k \in Nat, k \in S PROVE k + 1 \in S
  <2> SUFFICES ASSUME k + 1 <= n PROVE \E f : Sums(f, c, k + 1)
    OBVIOUS
  <2>1. PICK f : Sums(f, c, k)
    BY <1>2
  <2> DEFINE g == [i \in 1 .. (k + 1) + 1 |-> IF i = k + 2 THEN f[k + 1] + c[k + 1]
                                                           ELSE f[i]]
  <2>2. k + 1 \in 1 .. n /\ c[k + 1] \in Nat
    OBVIOUS
  <2>3. /\ \A i \in 1 .. k + 1 : i \in 1 .. (k + 1) + 1 /\ i # k + 2 /\ f[i] \in Nat
        /\ k + 2 \in 1 .. (k + 1) + 1 /\ k + 1 \in 1 .. k + 1 /\ 1 \in 1 .. k + 1
        /\ \A i \in 1 .. (k + 1) + 1 : i # k + 2 => i \in 1 .. k + 1
    BY <2>1 DEF Sums
  <2>4. g \in [1 .. (k + 1) + 1 -> Nat]
    BY <2>2, <2>3
  <2>5. g[1] = 0
    BY <2>1, <2>3 DEF Sums
  <2>6. ASSUME NEW i \in 1 .. k + 1 PROVE g[i + 1] = g[i] + c[i]
    <3>1. CASE i = k + 1
      <4>1. i + 1 = k + 2
        BY <3>1
      <4> QED BY <2>3, <3>1, <4>1
    <3>2. CASE i # k + 1
      <4>1. i \in 1 .. k /\ i + 1 \in 1 .. k + 1
        BY <3>2
      <4> QED BY <2>1, <2>3, <4>1 DEF Sums
    <3> QED BY <3>1, <3>2
  <2>7. Sums(g, c, k + 1)
    BY <2>4, <2>5, <2>6 DEF Sums
  <2> QED BY <2>7
<1> HIDE DEF S
<1>3. n \in S
  BY <1>1, <1>2, AllNumbers
<1> QED BY <1>3 DEF S

LEMMA GrowBoth ==
  ASSUME NEW p \in Nat, NEW q \in Nat, NEW a \in Nat, NEW b \in Nat, NEW c \in Nat,
         NEW d \in Nat, p <= a, a - p <= b - q, c <= d
  PROVE  p <= a + c /\ (a + c) - p <= (b + d) - q
OBVIOUS

LEMMA SumsGrow ==
  ASSUME NEW n \in Nat, NEW c \in [1 .. n -> Nat], NEW f, Sums(f, c, n),
         NEW d \in [1 .. n -> Nat], NEW g, Sums(g, d, n),
         \A i \in 1 .. n : c[i] <= d[i],
         NEW i \in 1 .. n + 1, NEW j \in 1 .. n + 1, i <= j
  PROVE  f[i] <= f[j] /\ f[j] - f[i] <= g[j] - g[i]
<1> DEFINE S == {k \in Nat : i + k <= n + 1 =>
                   f[i] <= f[i + k] /\ f[i + k] - f[i] <= g[i + k] - g[i]}
<1>1. 0 \in S
  <2>1. i + 0 = i /\ f[i] \in Nat /\ g[i] \in Nat
    BY DEF Sums
  <2> QED BY <2>1
<1>2. ASSUME NEW k \in Nat, k \in S PROVE k + 1 \in S
  <2> SUFFICES ASSUME i + (k + 1) <= n + 1
               PROVE  /\ f[i] <= f[i + (k + 1)]
                      /\ f[i + (k + 1)] - f[i] <= g[i + (k + 1)] - g[i]
    OBVIOUS
  <2>1. /\ i + k \in 1 .. n /\ i + k \in 1 .. n + 1 /\ i + (k + 1) = (i + k) + 1
        /\ i + (k + 1) \in 1 .. n + 1
    OBVIOUS
  <2>2. /\ f[i + (k + 1)] = f[i + k] + c[i + k] /\ g[i + (k + 1)] = g[i + k] + d[i + k]
        /\ c[i + k] <= d[i + k] /\ c[i + k] \in Nat /\ d[i + k] \in Nat
        /\ f[i + k] \in Nat /\ g[i + k] \in Nat /\ f[i] \in Nat /\ g[i] \in Nat
    BY <2>1 DEF Sums
  <2>3. f[i] <= f[i + k] /\ f[i + k] - f[i] <= g[i + k] - g[i]
    BY <1>2, <2>1
  <2> DEFINE u == f[i + (k + 1)]
             v == g[i + (k + 1)]
  <2>4. u = f[i + k] + c[i + k] /\ v = g[i + k] + d[i + k]
    BY <2>1, <2>2
  <2> HIDE DEF u, v
  <2>5. f[i] <= u /\ u - f[i] <= v - g[i]
    BY <2>2, <2>3, <2>4, GrowBoth
  <2> QED BY <2>5 DEF u, v
<1> HIDE DEF S
<1>3. j - i \in Nat
  OBVIOUS
<1>5. j - i \in S
  BY <1>1, <1>2, <1>3, AllNumbers
<1>4. i + (j - i) = j
  OBVIOUS
<1> QED BY <1>3, <1>4, <1>5 DEF S

(* A number below the last sum is between two of them, and between no others. *)
LEMMA SumsFind ==
  ASSUME NEW n \in Nat, NEW c \in [1 .. n -> Nat], NEW f, Sums(f, c, n),
         NEW t \in Nat, t < f[n + 1]
  PROVE  \E i \in 1 .. n : f[i] <= t /\ t < f[i] + c[i]
<1> DEFINE S == {k \in Nat : k <= n /\ t < f[k + 1] =>
                   \E i \in 1 .. n : f[i] <= t /\ t < f[i] + c[i]}
<1>1. 0 \in S
  BY DEF Sums
<1>2. ASSUME NEW k \in Nat, k \in S PROVE k + 1 \in S
  <2> SUFFICES ASSUME k + 1 <= n, t < f[(k + 1) + 1]
               PROVE  \E i \in 1 .. n : f[i] <= t /\ t < f[i] + c[i]
    OBVIOUS
  <2>1. k + 1 \in 1 .. n /\ f[(k + 1) + 1] = f[k + 1] + c[k + 1] /\ f[k + 1] \in Nat
    BY DEF Sums
  <2>2. CASE t < f[k + 1]
    BY <1>2, <2>2
  <2>3. CASE f[k + 1] <= t
    BY <2>1, <2>3
  <2> QED BY <2>1, <2>2, <2>3
<1> HIDE DEF S
<1>3. n \in S
  BY <1>1, <1>2, AllNumbers
<1> QED BY <1>3 DEF S

(* A recursive definition of sums has a solution, and every solution is the sums. *)
LEMMA SumsSolve ==
  ASSUME NEW n \in Nat, NEW c \in [1 .. n -> Nat]
  PROVE  \E f : f = [i \in 1 .. n + 1 |-> IF i = 1 THEN 0 ELSE f[i - 1] + c[i - 1]]
<1>1. PICK f : Sums(f, c, n)
  BY SumsExist
<1>2. ASSUME NEW i \in 1 .. n + 1
      PROVE  f[i] = IF i = 1 THEN 0 ELSE f[i - 1] + c[i - 1]
  <2>1. CASE i = 1
    BY <1>1, <2>1 DEF Sums
  <2>2. CASE i # 1
    <3>1. i - 1 \in 1 .. n /\ (i - 1) + 1 = i
      BY <2>2
    <3> QED BY <1>1, <2>2, <3>1 DEF Sums
  <2> QED BY <2>1, <2>2
<1>3. f = [i \in 1 .. n + 1 |-> f[i]]
  BY <1>1 DEF Sums
<1>4. [i \in 1 .. n + 1 |-> f[i]]
        = [i \in 1 .. n + 1 |-> IF i = 1 THEN 0 ELSE f[i - 1] + c[i - 1]]
  BY <1>2
<1>5. f = [i \in 1 .. n + 1 |-> IF i = 1 THEN 0 ELSE f[i - 1] + c[i - 1]]
  BY <1>3, <1>4
<1> QED BY <1>5

LEMMA SumsSolved ==
  ASSUME NEW n \in Nat, NEW c \in [1 .. n -> Nat], NEW f,
         f = [i \in 1 .. n + 1 |-> IF i = 1 THEN 0 ELSE f[i - 1] + c[i - 1]]
  PROVE  Sums(f, c, n)
<1>1. f[1] = 0
  <2>1. 1 \in 1 .. n + 1
    OBVIOUS
  <2> QED BY <2>1
<1>2. ASSUME NEW i \in 1 .. n PROVE f[i + 1] = f[i] + c[i]
  <2>1. i + 1 \in 1 .. n + 1 /\ i + 1 # 1 /\ (i + 1) - 1 = i
    OBVIOUS
  <2> QED BY <2>1
<1> DEFINE S == {k \in Nat : k <= n => f[k + 1] \in Nat}
<1>3. 0 \in S
  BY <1>1
<1>4. ASSUME NEW k \in Nat, k \in S PROVE k + 1 \in S
  <2> SUFFICES ASSUME k + 1 <= n PROVE f[(k + 1) + 1] \in Nat
    OBVIOUS
  <2>1. k + 1 \in 1 .. n /\ c[k + 1] \in Nat /\ f[k + 1] \in Nat
    BY <1>4
  <2> QED BY <1>2, <2>1
<1> HIDE DEF S
<1>5. Nat \subseteq S
  BY <1>3, <1>4, AllNumbers
<1>6. ASSUME NEW i \in 1 .. n + 1 PROVE f[i] \in Nat
  <2>1. i - 1 \in Nat /\ i - 1 <= n /\ (i - 1) + 1 = i
    OBVIOUS
  <2> QED BY <1>5, <2>1 DEF S
<1>7. f \in [1 .. n + 1 -> Nat]
  BY <1>6
<1> QED BY <1>1, <1>2, <1>7 DEF Sums

(* The frames of the key poses, and those of them in which the part moves. *)
Frames == [i \in 1 .. Len(KeyPoses) |-> Clocks!calcKeyPoseFrames(i)]

Moves == [i \in 1 .. Len(KeyPoses) |-> KeyPoses[i].move]

LEMMA KeyPoseTypes ==
  /\ Len(KeyPoses) \in Nat
  /\ Frames \in [1 .. Len(KeyPoses) -> Nat] /\ Moves \in [1 .. Len(KeyPoses) -> Nat]
  /\ \A i \in 1 .. Len(KeyPoses) :
       /\ KeyPoses[i].wait \in Nat /\ KeyPoses[i].move \in Nat
       /\ Moves[i] = KeyPoses[i].move
       /\ Frames[i] = KeyPoses[i].wait + KeyPoses[i].move
       /\ Frames[i] = Clocks!calcKeyPoseFrames(i)
<1>1. /\ Len(KeyPoses) \in Nat
      /\ \A i \in 1 .. Len(KeyPoses) : KeyPoses[i] \in [wait : Nat, move : Nat]
  BY ClocksAssumption, LenProperties, ElementOfSeq
<1> QED BY <1>1 DEF Frames, Moves, Clocks!calcKeyPoseFrames

LEMMA FramesAreSums == Sums(Clocks!FramesBefore, Frames, Len(KeyPoses))
<1> DEFINE n == Len(KeyPoses)
<1>1. PICK f : f = [i \in 1 .. n + 1 |-> IF i = 1 THEN 0 ELSE f[i - 1] + Frames[i - 1]]
  BY KeyPoseTypes, SumsSolve
<1>2. \A i \in 1 .. n + 1 : i # 1 => Frames[i - 1] = Clocks!calcKeyPoseFrames(i - 1)
  BY KeyPoseTypes
<1>3. f = [i \in 1 .. n + 1 |-> IF i = 1 THEN 0
                                         ELSE f[i - 1] + Clocks!calcKeyPoseFrames(i - 1)]
  BY <1>1, <1>2
<1>4. Clocks!FramesBefore
        = [i \in 1 .. n + 1 |-> IF i = 1 THEN 0 ELSE Clocks!FramesBefore[i - 1]
                                                       + Clocks!calcKeyPoseFrames(i - 1)]
  BY <1>3 DEF Clocks!FramesBefore
<1>5. Clocks!FramesBefore
        = [i \in 1 .. n + 1 |-> IF i = 1 THEN 0
                                         ELSE Clocks!FramesBefore[i - 1] + Frames[i - 1]]
  BY <1>2, <1>4
<1> QED BY <1>5, KeyPoseTypes, SumsSolved

LEMMA MovesAreSums == Sums(Clocks!MovesBefore, Moves, Len(KeyPoses))
<1> DEFINE n == Len(KeyPoses)
<1>1. PICK f : f = [i \in 1 .. n + 1 |-> IF i = 1 THEN 0 ELSE f[i - 1] + Moves[i - 1]]
  BY KeyPoseTypes, SumsSolve
<1>2. \A i \in 1 .. n + 1 : i # 1 => Moves[i - 1] = KeyPoses[i - 1].move
  BY KeyPoseTypes
<1>3. f = [i \in 1 .. n + 1 |-> IF i = 1 THEN 0 ELSE f[i - 1] + KeyPoses[i - 1].move]
  BY <1>1, <1>2
<1>4. Clocks!MovesBefore
        = [i \in 1 .. n + 1 |-> IF i = 1 THEN 0 ELSE Clocks!MovesBefore[i - 1]
                                                       + KeyPoses[i - 1].move]
  BY <1>3 DEF Clocks!MovesBefore
<1>5. Clocks!MovesBefore
        = [i \in 1 .. n + 1 |-> IF i = 1 THEN 0
                                         ELSE Clocks!MovesBefore[i - 1] + Moves[i - 1]]
  BY <1>2, <1>4
<1> QED BY <1>5, KeyPoseTypes, SumsSolved

(* Division of numbers, and that it is the only one. *)
LEMMA Quotient ==
  ASSUME NEW a \in Int, NEW b \in Nat \ {0}
  PROVE  /\ a \div b \in Int /\ a % b \in 0 .. b - 1
         /\ a = b * (a \div b) + (a % b)
OBVIOUS

LEMMA QuotientOfNumbers ==
  ASSUME NEW a \in Nat, NEW b \in Nat \ {0}
  PROVE  a \div b \in Nat
OBVIOUS

LEMMA Monotone ==
  ASSUME NEW b \in Nat \ {0}, NEW q \in Int, NEW p \in Int, q < p
  PROVE  b * q + b <= b * p
<1>1. p = q + 1 + (p - q - 1) /\ p - q - 1 \in Nat
  OBVIOUS
<1>2. \A d \in Nat : b * (q + 1 + d) = b * q + b + b * d /\ b * d >= 0
  OBVIOUS
<1> QED BY <1>1, <1>2

LEMMA Unique ==
  ASSUME NEW b \in Nat \ {0}, NEW q \in Int, NEW r \in 0 .. b - 1,
         NEW p \in Int, NEW s \in 0 .. b - 1, b * q + r = b * p + s
  PROVE  q = p /\ r = s
<1>1. CASE q < p
  BY <1>1, Monotone
<1>2. CASE p < q
  BY <1>2, Monotone
<1>3. CASE q = p
  BY <1>3
<1> QED BY <1>1, <1>2, <1>3

LEMMA Remainder ==
  ASSUME NEW a \in Int, NEW b \in Nat \ {0}, NEW q \in Int, NEW r \in 0 .. b - 1,
         a = b * q + r
  PROVE  a % b = r
<1> DEFINE d == a \div b
           s == a % b
<1>1. d \in Int /\ s \in 0 .. b - 1 /\ b * q + r = b * d + s
  BY Quotient
<1> HIDE DEF d, s
<1>2. s = r
  BY <1>1, Unique
<1> QED BY <1>2 DEF s

(* The remainder of the next number is the next one, or the first again. *)
LEMMA NextRemainder ==
  ASSUME NEW c \in Nat, NEW b \in Nat \ {0}
  PROVE  /\ c % b < b - 1 => (c + 1) % b = (c % b) + 1
         /\ c % b = b - 1 => (c + 1) % b = 0
<1> DEFINE q == c \div b
           r == c % b
<1>1. q \in Int /\ r \in 0 .. b - 1 /\ c = b * q + r
  BY Quotient
<1> HIDE DEF q, r
<1>2. ASSUME r < b - 1 PROVE (c + 1) % b = r + 1
  <2>1. r + 1 \in 0 .. b - 1 /\ c + 1 = b * q + (r + 1)
    BY <1>1, <1>2
  <2> QED BY <1>1, <2>1, Remainder
<1>3. ASSUME r = b - 1 PROVE (c + 1) % b = 0
  <2> DEFINE p == q + 1
  <2>1. 0 \in 0 .. b - 1 /\ p \in Int /\ c + 1 \in Int /\ c + 1 = b * p + 0
    BY <1>1, <1>3
  <2> HIDE DEF p
  <2> QED BY <2>1, Remainder
<1> QED BY <1>2, <1>3 DEF r

LEMMA SmallSteps ==
  ASSUME NEW b \in Nat \ {0}
  PROVE  /\ 0 % b = 0 /\ (0 - b) % b = 0
         /\ 1 % b \in {0, 1} /\ (0 - (b - 1)) % b \in {0, 1}
<1>1. 0 = b * 0 + 0 /\ 0 - b = b * (-1) + 0 /\ 0 \in 0 .. b - 1 /\ -1 \in Int
  OBVIOUS
<1>2. 0 % b = 0 /\ (0 - b) % b = 0
  BY <1>1, Remainder
<1>3. CASE b = 1
  <2>1. 1 = b * 1 + 0 /\ 0 - (b - 1) = b * 0 + 0
    BY <1>3
  <2>2. 1 % b = 0
    BY <1>1, <2>1, Remainder
  <2>3. (0 - (b - 1)) % b = 0
    BY <1>1, <2>1, Remainder
  <2> QED BY <1>2, <2>2, <2>3
<1>4. CASE b # 1
  <2>1. 1 \in 0 .. b - 1 /\ 1 = b * 0 + 1 /\ 0 - (b - 1) = b * (-1) + 1
    BY <1>4
  <2>2. 1 % b = 1
    BY <2>1, Remainder
  <2>3. (0 - (b - 1)) % b = 1
    BY <1>1, <2>1, Remainder
  <2> QED BY <1>2, <2>2, <2>3
<1> QED BY <1>3, <1>4

(* A remainder of rounds, each of so many steps. *)
LEMMA ScaledRemainder ==
  ASSUME NEW c \in Nat, NEW m \in Nat \ {0}, NEW n \in Nat \ {0}
  PROVE  (c * m) % (n * m) = (c % n) * m
<1> DEFINE q == c \div n
           r == c % n
<1>1. q \in Int /\ r \in 0 .. n - 1 /\ c = n * q + r
  BY Quotient
<1> HIDE DEF q, r
<1>2. n * m \in Nat \ {0} /\ c * m \in Nat
  OBVIOUS
<1>3. c * m = (n * m) * q + r * m
  BY <1>1
<1>4. r * m \in 0 .. n * m - 1
  <2>1. r * m \in Nat
    BY <1>1
  <2>2. m * r + m <= m * n
    BY <1>1, Monotone
  <2>3. m * r = r * m /\ m * n = n * m
    BY <1>1
  <2> QED BY <1>2, <2>1, <2>2, <2>3
<1> DEFINE b == n * m
           a == c * m
           s == r * m
<1>5. b \in Nat \ {0} /\ a \in Int /\ s \in 0 .. b - 1 /\ a = b * q + s
  BY <1>2, <1>3, <1>4
<1> HIDE DEF a, b, s
<1>6. a % b = s
  BY <1>1, <1>5, Remainder
<1> QED BY <1>6 DEF a, b, s, r, q

(* In a round of the part that moves, t frames from its start it is at w, in the pose
   that has the frame. *)
WayAt(t, w) ==
  \E i \in 1 .. Len(KeyPoses) :
    /\ Clocks!FramesBefore[i] <= t /\ t < Clocks!FramesBefore[i + 1]
    /\ w = Clocks!MovesBefore[i] + Clocks!Progress(i, t - Clocks!FramesBefore[i])

FrameTotal == Clocks!FramesBefore[Len(KeyPoses) + 1]

MoveTotal == Clocks!MovesBefore[Len(KeyPoses) + 1]

LEMMA SumsAt ==
  /\ \A i \in 1 .. Len(KeyPoses) + 1 :
       Clocks!FramesBefore[i] \in Nat /\ Clocks!MovesBefore[i] \in Nat
  /\ Clocks!FramesBefore[1] = 0 /\ Clocks!MovesBefore[1] = 0
  /\ \A i \in 1 .. Len(KeyPoses) :
       /\ i \in 1 .. Len(KeyPoses) + 1 /\ i + 1 \in 1 .. Len(KeyPoses) + 1
       /\ Clocks!FramesBefore[i + 1]
            = Clocks!FramesBefore[i] + KeyPoses[i].wait + KeyPoses[i].move
       /\ Clocks!MovesBefore[i + 1] = Clocks!MovesBefore[i] + KeyPoses[i].move
<1>1. /\ Clocks!FramesBefore \in [1 .. Len(KeyPoses) + 1 -> Nat]
      /\ Clocks!MovesBefore \in [1 .. Len(KeyPoses) + 1 -> Nat]
      /\ Clocks!FramesBefore[1] = 0 /\ Clocks!MovesBefore[1] = 0
  BY FramesAreSums, MovesAreSums DEF Sums
<1>2. ASSUME NEW i \in 1 .. Len(KeyPoses)
      PROVE  /\ i \in 1 .. Len(KeyPoses) + 1 /\ i + 1 \in 1 .. Len(KeyPoses) + 1
             /\ Clocks!FramesBefore[i + 1]
                  = Clocks!FramesBefore[i] + KeyPoses[i].wait + KeyPoses[i].move
             /\ Clocks!MovesBefore[i + 1] = Clocks!MovesBefore[i] + KeyPoses[i].move
  <2>1. i \in 1 .. Len(KeyPoses) + 1 /\ i + 1 \in 1 .. Len(KeyPoses) + 1
    BY KeyPoseTypes
  <2>2. Clocks!MovesBefore[i + 1] = Clocks!MovesBefore[i] + KeyPoses[i].move
    BY MovesAreSums, KeyPoseTypes DEF Sums
  <2>3. /\ Clocks!FramesBefore[i + 1] = Clocks!FramesBefore[i] + Frames[i]
        /\ Frames[i] = KeyPoses[i].wait + KeyPoses[i].move
    BY FramesAreSums, KeyPoseTypes DEF Sums
  <2>4. /\ KeyPoses[i].wait \in Nat /\ KeyPoses[i].move \in Nat
        /\ Clocks!FramesBefore[i] \in Nat
    BY <1>1, <2>1, KeyPoseTypes
  <2> QED BY <2>1, <2>2, <2>3, <2>4
<1> QED BY <1>1, <1>2

LEMMA SumsBetween ==
  ASSUME NEW i \in 1 .. Len(KeyPoses) + 1, NEW j \in 1 .. Len(KeyPoses) + 1, i <= j
  PROVE  /\ Clocks!FramesBefore[i] <= Clocks!FramesBefore[j]
         /\ Clocks!MovesBefore[i] <= Clocks!MovesBefore[j]
         /\ Clocks!MovesBefore[j] - Clocks!MovesBefore[i]
              <= Clocks!FramesBefore[j] - Clocks!FramesBefore[i]
<1>1. \A k \in 1 .. Len(KeyPoses) : Moves[k] <= Frames[k] /\ Frames[k] <= Frames[k]
  BY KeyPoseTypes
<1>2. Clocks!FramesBefore[i] <= Clocks!FramesBefore[j]
  BY <1>1, FramesAreSums, KeyPoseTypes, SumsGrow
<1> QED BY <1>1, <1>2, FramesAreSums, MovesAreSums, KeyPoseTypes, SumsGrow

LEMMA Totals == FrameTotal \in Nat \ {0} /\ MoveTotal \in Nat \ {0}
<1>1. PICK i \in 1 .. Len(KeyPoses) : KeyPoses[i].move # 0
  BY ClocksAssumption
<1>2. KeyPoses[i].move \in Nat /\ Len(KeyPoses) \in Nat
  BY KeyPoseTypes
<1>3. /\ 1 \in 1 .. Len(KeyPoses) + 1 /\ Len(KeyPoses) + 1 \in 1 .. Len(KeyPoses) + 1
      /\ 1 <= Len(KeyPoses) + 1 /\ i + 1 <= Len(KeyPoses) + 1
  BY <1>2
<1>4. Clocks!MovesBefore[i + 1] \in Nat /\ Clocks!MovesBefore[i + 1] > 0
  BY <1>1, <1>2, SumsAt
<1>5. Clocks!MovesBefore[i + 1] <= MoveTotal /\ MoveTotal \in Nat /\ FrameTotal \in Nat
  BY <1>3, SumsAt, SumsBetween DEF MoveTotal, FrameTotal
<1>6. MoveTotal - 0 <= FrameTotal - 0
  BY <1>3, SumsAt, SumsBetween DEF MoveTotal, FrameTotal
<1> QED BY <1>4, <1>5, <1>6

LEMMA WayIs ==
  ASSUME NEW c \in Nat
  PROVE  WayAt(c % FrameTotal, Clocks!Way(c))
<1> DEFINE t == c % FrameTotal
           In(i) == /\ Clocks!FramesBefore[i] <= t
                    /\ t < Clocks!FramesBefore[i] + Clocks!calcKeyPoseFrames(i)
           k == CHOOSE i \in 1 .. Len(KeyPoses) : In(i)
<1>1. t \in Nat /\ t < FrameTotal
  BY Totals, Quotient
<1>2. \E i \in 1 .. Len(KeyPoses) : In(i)
  <2> HIDE DEF t
  <2>1. \E i \in 1 .. Len(KeyPoses) : Clocks!FramesBefore[i] <= t
                                      /\ t < Clocks!FramesBefore[i] + Frames[i]
    BY <1>1, FramesAreSums, KeyPoseTypes, SumsFind DEF FrameTotal
  <2> QED BY <2>1, KeyPoseTypes
<1>3. k \in 1 .. Len(KeyPoses) /\ In(k)
  <2> HIDE DEF In
  <2> QED BY <1>2
<1>4. Clocks!calcCurKeyPoseIdxBySyncClock(c) = k
  BY DEF Clocks!calcCurKeyPoseIdxBySyncClock, Clocks!calcKeyPoseFramesTotal, FrameTotal
<1>5. Clocks!Way(c)
        = Clocks!MovesBefore[k] + Clocks!Progress(k, t - Clocks!FramesBefore[k])
  <2> HIDE DEF k
  <2> QED BY <1>4 DEF Clocks!Way, Clocks!calcKeyPoseFramesTotal, FrameTotal
<1> HIDE DEF k
<1>6. t < Clocks!FramesBefore[k + 1]
  <2>1. Clocks!FramesBefore[k + 1]
          = Clocks!FramesBefore[k] + Clocks!calcKeyPoseFrames(k)
    BY <1>3, FramesAreSums, KeyPoseTypes DEF Sums
  <2> QED BY <1>3, <2>1
<1> HIDE DEF t
<1>7. WayAt(t, Clocks!Way(c))
  BY <1>3, <1>5, <1>6 DEF WayAt
<1> QED BY <1>7 DEF t

(* In a pose the part waits, then moves by one for each frame of it that is left. *)
LEMMA InPose ==
  ASSUME NEW i \in 1 .. Len(KeyPoses), NEW t \in Nat,
         Clocks!FramesBefore[i] <= t, t < Clocks!FramesBefore[i + 1],
         NEW w, w = Clocks!MovesBefore[i] + Clocks!Progress(i, t - Clocks!FramesBefore[i])
  PROVE  /\ w \in Nat
         /\ t <= Clocks!FramesBefore[i] + KeyPoses[i].wait => w = Clocks!MovesBefore[i]
         /\ Clocks!FramesBefore[i] + KeyPoses[i].wait < t =>
              w = Clocks!MovesBefore[i]
                    + (t - (Clocks!FramesBefore[i] + KeyPoses[i].wait))
         /\ t + 1 = Clocks!FramesBefore[i + 1] =>
              w \in {Clocks!MovesBefore[i + 1] - 1, Clocks!MovesBefore[i + 1]}
<1> DEFINE f == Clocks!FramesBefore[i]
           g == Clocks!MovesBefore[i]
           a == KeyPoses[i].wait
           m == KeyPoses[i].move
<1>1. /\ f \in Nat /\ g \in Nat /\ a \in Nat /\ m \in Nat
      /\ Clocks!FramesBefore[i + 1] = f + a + m /\ Clocks!MovesBefore[i + 1] = g + m
  BY SumsAt, KeyPoseTypes
<1>2. w = g + IF t - f <= a THEN 0 ELSE t - f - a
  BY DEF Clocks!Progress
<1>3. f <= t /\ t < f + a + m
  BY <1>1
<1> HIDE DEF f, g, a, m
<1>4. /\ w \in Nat
      /\ t <= f + a => w = g
      /\ f + a < t => w = g + (t - (f + a))
      /\ t + 1 = f + a + m => w \in {g + m - 1, g + m}
  <2>1. CASE t <= f + a
    <3>1. w = g /\ t - f <= a
      BY <1>1, <1>2, <1>3, <2>1
    <3> QED BY <1>1, <1>3, <2>1, <3>1
  <2>2. CASE f + a < t
    <3>1. ~(t - f <= a) /\ t - f - a = t - (f + a)
      BY <1>1, <1>3, <2>2
    <3>2. w = g + (t - (f + a))
      BY <1>2, <3>1
    <3>3. w \in Nat /\ ~(t <= f + a)
      BY <1>1, <2>2, <3>2
    <3>4. t + 1 = f + a + m => w = g + m - 1
      BY <1>1, <3>2
    <3> QED BY <3>2, <3>3, <3>4
  <2> QED BY <1>1, <2>1, <2>2
<1>5. t + 1 = Clocks!FramesBefore[i + 1] =>
        w \in {Clocks!MovesBefore[i + 1] - 1, Clocks!MovesBefore[i + 1]}
  BY <1>1, <1>4
<1> QED BY <1>4, <1>5 DEF f, g, a

(* From frame to frame of a round the part moves by one or not at all. *)
LEMMA WayNext ==
  ASSUME NEW t \in Nat, NEW w, NEW v, WayAt(t, w), WayAt(t + 1, v)
  PROVE  w \in Nat /\ v \in Nat /\ (v = w \/ v = w + 1)
<1>1. PICK i \in 1 .. Len(KeyPoses) :
        /\ Clocks!FramesBefore[i] <= t /\ t < Clocks!FramesBefore[i + 1]
        /\ w = Clocks!MovesBefore[i] + Clocks!Progress(i, t - Clocks!FramesBefore[i])
  BY DEF WayAt
<1>2. PICK j \in 1 .. Len(KeyPoses) :
        /\ Clocks!FramesBefore[j] <= t + 1 /\ t + 1 < Clocks!FramesBefore[j + 1]
        /\ v = Clocks!MovesBefore[j]
                 + Clocks!Progress(j, (t + 1) - Clocks!FramesBefore[j])
  BY DEF WayAt
<1>3. /\ t + 1 \in Nat /\ i \in Nat /\ j \in Nat /\ Len(KeyPoses) \in Nat
      /\ i \in 1 .. Len(KeyPoses) + 1 /\ i + 1 \in 1 .. Len(KeyPoses) + 1
      /\ j \in 1 .. Len(KeyPoses) + 1 /\ j + 1 \in 1 .. Len(KeyPoses) + 1
  BY KeyPoseTypes
<1>4. /\ Clocks!FramesBefore[i] \in Nat /\ Clocks!FramesBefore[j] \in Nat
      /\ Clocks!FramesBefore[i + 1] \in Nat /\ Clocks!FramesBefore[j + 1] \in Nat
      /\ Clocks!MovesBefore[i] \in Nat /\ Clocks!MovesBefore[j] \in Nat
      /\ Clocks!MovesBefore[i + 1] \in Nat
  BY <1>3, SumsAt
<1>5. w \in Nat /\ v \in Nat
  BY <1>1, <1>2, <1>3, InPose
<1>6. KeyPoses[j].wait \in Nat
  BY KeyPoseTypes
<1>7. CASE i = j
  <2>1. /\ t <= Clocks!FramesBefore[i] + KeyPoses[i].wait => w = Clocks!MovesBefore[i]
        /\ Clocks!FramesBefore[i] + KeyPoses[i].wait < t =>
             w = Clocks!MovesBefore[i]
                   + (t - (Clocks!FramesBefore[i] + KeyPoses[i].wait))
    BY <1>1, InPose
  <2>2. /\ t + 1 <= Clocks!FramesBefore[i] + KeyPoses[i].wait =>
             v = Clocks!MovesBefore[i]
        /\ Clocks!FramesBefore[i] + KeyPoses[i].wait < t + 1 =>
             v = Clocks!MovesBefore[i]
                   + ((t + 1) - (Clocks!FramesBefore[i] + KeyPoses[i].wait))
    BY <1>2, <1>3, <1>7, InPose
  <2> DEFINE b == Clocks!FramesBefore[i] + KeyPoses[i].wait
             g == Clocks!MovesBefore[i]
  <2>3. b \in Nat /\ g \in Nat
    BY <1>4, <1>7, <1>6
  <2>4. (t <= b => w = g) /\ (b < t => w = g + (t - b))
    BY <2>1
  <2>5. (t + 1 <= b => v = g) /\ (b < t + 1 => v = g + ((t + 1) - b))
    BY <2>2
  <2> HIDE DEF b, g
  <2>6. CASE t + 1 <= b
    BY <2>3, <2>4, <2>5, <2>6
  <2>7. CASE t = b
    BY <2>3, <2>4, <2>5, <2>7
  <2>8. CASE b < t
    BY <2>3, <2>4, <2>5, <2>8
  <2> QED BY <1>5, <2>3, <2>6, <2>7, <2>8
<1>8. CASE i < j
  <2>1. i + 1 <= j
    BY <1>3, <1>8
  <2>2. /\ Clocks!FramesBefore[i + 1] <= Clocks!FramesBefore[j]
        /\ Clocks!MovesBefore[i + 1] <= Clocks!MovesBefore[j]
        /\ Clocks!MovesBefore[j] - Clocks!MovesBefore[i + 1]
             <= Clocks!FramesBefore[j] - Clocks!FramesBefore[i + 1]
    BY <1>3, <2>1, SumsBetween
  <2>3. Clocks!FramesBefore[i + 1] = t + 1 /\ Clocks!FramesBefore[j] = t + 1
    <3> DEFINE x == Clocks!FramesBefore[i + 1]
               y == Clocks!FramesBefore[j]
    <3>1. x \in Nat /\ y \in Nat /\ t < x /\ x <= y /\ y <= t + 1
      BY <1>1, <1>2, <1>4, <2>2
    <3> HIDE DEF x, y
    <3>2. x = t + 1 /\ y = t + 1
      BY <3>1
    <3> QED BY <3>2 DEF x, y
  <2>4. Clocks!MovesBefore[j] = Clocks!MovesBefore[i + 1]
    BY <1>4, <2>2, <2>3
  <2>5. w \in {Clocks!MovesBefore[i + 1] - 1, Clocks!MovesBefore[i + 1]}
    BY <1>1, <2>3, InPose
  <2>6. v = Clocks!MovesBefore[j]
    <3>1. t + 1 <= Clocks!FramesBefore[j] + KeyPoses[j].wait
      BY <1>4, <1>6, <2>3
    <3> QED BY <1>2, <1>3, <3>1, InPose
  <2>7. v - 1 = w \/ v = w
    BY <2>4, <2>5, <2>6
  <2> QED BY <1>5, <2>7
<1>9. CASE j < i
  <2>1. j + 1 <= i
    BY <1>3, <1>9
  <2>2. Clocks!FramesBefore[j + 1] <= Clocks!FramesBefore[i]
    BY <1>3, <2>1, SumsBetween
  <2>3. Clocks!FramesBefore[i] <= t /\ t + 1 < Clocks!FramesBefore[j + 1]
    BY <1>1, <1>2
  <2> QED BY <1>4, <2>2, <2>3
<1> QED BY <1>3, <1>7, <1>8, <1>9

(* It starts a round where it was placed, and ends it where it is or one before. *)
LEMMA WayEnds ==
  /\ \A w : WayAt(0, w) => w = 0
  /\ \A w : WayAt(FrameTotal - 1, w) => w \in {MoveTotal - 1, MoveTotal}
<1>1. ASSUME NEW w, WayAt(0, w) PROVE w = 0
  <2>1. PICK i \in 1 .. Len(KeyPoses) :
          /\ Clocks!FramesBefore[i] <= 0 /\ 0 < Clocks!FramesBefore[i + 1]
          /\ w = Clocks!MovesBefore[i] + Clocks!Progress(i, 0 - Clocks!FramesBefore[i])
    BY <1>1 DEF WayAt
  <2>2. /\ 1 \in 1 .. Len(KeyPoses) + 1 /\ i \in 1 .. Len(KeyPoses) + 1 /\ 1 <= i
        /\ KeyPoses[i].wait \in Nat
    BY KeyPoseTypes
  <2>3. /\ Clocks!FramesBefore[i] \in Nat /\ Clocks!MovesBefore[i] \in Nat
        /\ Clocks!FramesBefore[1] = 0 /\ Clocks!MovesBefore[1] = 0
    BY <2>2, SumsAt
  <2>4. Clocks!MovesBefore[i] - Clocks!MovesBefore[1]
          <= Clocks!FramesBefore[i] - Clocks!FramesBefore[1]
    BY <2>2, SumsBetween
  <2>5. Clocks!FramesBefore[i] = 0 /\ Clocks!MovesBefore[i] = 0
    BY <2>1, <2>3, <2>4
  <2>6. 0 <= Clocks!FramesBefore[i] + KeyPoses[i].wait
    BY <2>2, <2>3
  <2> QED BY <2>1, <2>5, <2>6, InPose
<1>2. ASSUME NEW w, WayAt(FrameTotal - 1, w) PROVE w \in {MoveTotal - 1, MoveTotal}
  <2> DEFINE t == FrameTotal - 1
  <2>1. t \in Nat /\ t + 1 = FrameTotal
    BY Totals
  <2>2. PICK i \in 1 .. Len(KeyPoses) :
          /\ Clocks!FramesBefore[i] <= t /\ t < Clocks!FramesBefore[i + 1]
          /\ w = Clocks!MovesBefore[i] + Clocks!Progress(i, t - Clocks!FramesBefore[i])
    BY <1>2 DEF WayAt
  <2> HIDE DEF t
  <2> DEFINE n == Len(KeyPoses) + 1
  <2>3. i + 1 \in 1 .. n /\ n \in 1 .. n /\ i + 1 <= n
    BY KeyPoseTypes
  <2>4. /\ Clocks!FramesBefore[i + 1] \in Nat /\ Clocks!MovesBefore[i + 1] \in Nat
        /\ FrameTotal = Clocks!FramesBefore[n] /\ MoveTotal = Clocks!MovesBefore[n]
        /\ FrameTotal \in Nat /\ MoveTotal \in Nat
    BY <2>3, SumsAt, Totals DEF FrameTotal, MoveTotal
  <2>5. /\ Clocks!FramesBefore[i + 1] <= FrameTotal
        /\ Clocks!MovesBefore[i + 1] <= MoveTotal
        /\ MoveTotal - Clocks!MovesBefore[i + 1]
             <= FrameTotal - Clocks!FramesBefore[i + 1]
    BY <2>3, <2>4, SumsBetween
  <2>6. t + 1 = Clocks!FramesBefore[i + 1] /\ MoveTotal = Clocks!MovesBefore[i + 1]
    <3> DEFINE f == Clocks!FramesBefore[i + 1]
               g == Clocks!MovesBefore[i + 1]
    <3>1. f \in Nat /\ t < f /\ f <= FrameTotal
      BY <2>2, <2>4, <2>5
    <3>2. g \in Nat /\ g <= MoveTotal /\ MoveTotal - g <= FrameTotal - f
      BY <2>4, <2>5
    <3>3. MoveTotal \in Nat
      BY <2>4
    <3> HIDE DEF f, g
    <3>4. t + 1 = f
      BY <2>1, <3>1
    <3>5. MoveTotal = g
      BY <2>1, <3>2, <3>3, <3>4
    <3> QED BY <3>4, <3>5 DEF f, g
  <2> QED BY <2>1, <2>2, <2>6, InPose
<1> QED BY <1>1, <1>2

(* From one frame of the clock to the next the part moves by one or not at all,
   counted in rounds of its way. *)
LEMMA WayFollows ==
  ASSUME NEW c \in Nat
  PROVE  /\ Clocks!Way(c) \in Nat
         /\ (Clocks!Way(c + 1) - Clocks!Way(c)) % MoveTotal \in {0, 1}
<1> DEFINE t == c % FrameTotal
           w == Clocks!Way(c)
           v == Clocks!Way(c + 1)
<1>1. t \in Nat /\ t <= FrameTotal - 1 /\ c + 1 \in Nat
  BY Totals, Quotient
<1>2. WayAt(t, w) /\ WayAt((c + 1) % FrameTotal, v)
  BY <1>1, WayIs
<1>3. /\ t < FrameTotal - 1 => (c + 1) % FrameTotal = t + 1
      /\ t = FrameTotal - 1 => (c + 1) % FrameTotal = 0
  BY Totals, NextRemainder
<1> HIDE DEF t, w, v
<1>4. w \in Nat
  <2>1. PICK i \in 1 .. Len(KeyPoses) :
          /\ Clocks!FramesBefore[i] <= t /\ t < Clocks!FramesBefore[i + 1]
          /\ w = Clocks!MovesBefore[i] + Clocks!Progress(i, t - Clocks!FramesBefore[i])
    BY <1>2 DEF WayAt
  <2> QED BY <1>1, <2>1, InPose
<1>5. CASE t < FrameTotal - 1
  <2>1. v \in Nat /\ (v = w \/ v = w + 1)
    BY <1>1, <1>2, <1>3, <1>5, WayNext
  <2>2. v - w = 0 \/ v - w = 1
    BY <1>4, <2>1
  <2>3. (v - w) % MoveTotal \in {0, 1}
    BY <2>2, Totals, SmallSteps
  <2> QED BY <1>4, <2>3 DEF v, w
<1>6. CASE t = FrameTotal - 1
  <2>1. v = 0 /\ w \in {MoveTotal - 1, MoveTotal}
    BY <1>2, <1>3, <1>6, WayEnds
  <2>2. v - w = 0 - (MoveTotal - 1) \/ v - w = 0 - MoveTotal
    BY <2>1
  <2>3. (v - w) % MoveTotal \in {0, 1}
    BY <2>2, Totals, SmallSteps
  <2> QED BY <1>4, <2>3 DEF v, w
<1>7. t < FrameTotal - 1 \/ t = FrameTotal - 1
  BY <1>1, Totals
<1> QED BY <1>5, <1>6, <1>7

Round == WaitTime + RotateSignTime + RotateTime

(* The part that rotates has seen the cycle of the clock it has seen, and if it has not
   rotated through one since, it stands where that many rotations end; the part that
   moves is where it was at that clock. *)
ClockInv ==
  /\ Clocks!TypeOK
  /\ built => cycle = (seen + DelayTime) \div Round
  /\ partNerve # "Rotate" /\ ~missed => angle = (cycle * RotateTime) % (Turns * RotateTime)
  /\ built /\ moved # -1 => moved = Clocks!Way(seen)

LEMMA ClocksInit == Clocks!Init => ClockInv
<1> SUFFICES ASSUME Clocks!Init PROVE ClockInv
  OBVIOUS
<1>1. 0 \in 0 .. Clocks!FullTurn - 1 /\ 0 \in 0 .. Period - 1
  BY ClocksAssumption DEF Clocks!FullTurn
<1>2. Clocks!TypeOK
  BY <1>1 DEF Clocks!Init, Clocks!TypeOK
<1>3. ~built /\ missed
  BY DEF Clocks!Init
<1> QED BY <1>2, <1>3 DEF ClockInv

LEMMA ClocksStep == ClockInv /\ [Clocks!Next]_(Clocks!vars) => ClockInv'
<1> SUFFICES ASSUME ClockInv, [Clocks!Next]_(Clocks!vars) PROVE ClockInv'
  OBVIOUS
<1>1. Clocks!getTotalCycleTime = Round /\ Round \in Nat \ {0}
  BY ClocksAssumption DEF Clocks!getTotalCycleTime, Round
<1>2. /\ clock \in Nat /\ clock + DelayTime \in Nat /\ Clocks!Cycle \in Nat
      /\ Clocks!InCycle \in Nat
  <2>1. clock \in Nat /\ clock + DelayTime \in Nat
    BY ClocksAssumption DEF ClockInv, Clocks!TypeOK
  <2>2. (clock + DelayTime) \div Round \in Nat /\ (clock + DelayTime) % Round \in Nat
    <3> DEFINE c == clock + DelayTime
    <3>1. c \in Nat /\ c \in Int
      BY <2>1
    <3> HIDE DEF c
    <3>2. c % Round \in 0 .. Round - 1
      BY <1>1, <3>1, Quotient
    <3>3. c \div Round \in Nat
      BY <1>1, <3>1, QuotientOfNumbers
    <3>4. c % Round \in Nat
      BY <1>1, <3>2
    <3> QED BY <3>3, <3>4 DEF c
  <2> QED BY <1>1, <2>1, <2>2 DEF Clocks!Cycle, Clocks!InCycle
<1>3. Clocks!FullTurn \in Nat \ {0}
  BY ClocksAssumption DEF Clocks!FullTurn
<1>4. Clocks!RotateAngle \in 0 .. Clocks!FullTurn - 1
  <2>1. Clocks!getProgressIntoNrvByClock \in Int
    BY <1>2, ClocksAssumption DEF Clocks!getProgressIntoNrvByClock
  <2>2. Clocks!getProgressIntoNrvByClock + Clocks!Cycle * RotateTime \in Int
    BY <1>2, <2>1, ClocksAssumption
  <2> QED BY <1>3, <2>2, Quotient DEF Clocks!RotateAngle
<1>5. Clocks!RotateEndAngle \in 0 .. Clocks!FullTurn - 1
  <2>1. Clocks!Cycle * RotateTime \in Int
    BY <1>2, ClocksAssumption
  <2> QED BY <1>3, <2>1, Quotient DEF Clocks!RotateEndAngle
<1>6. CASE Clocks!Tick
  <2>1. (clock + 1) % Period \in 0 .. Period - 1
    <3>1. clock + 1 \in Int
      BY <1>2
    <3> QED BY <3>1, Quotient, ClocksAssumption
  <2> QED BY <1>6, <2>1 DEF Clocks!Tick, ClockInv, Clocks!TypeOK
<1>7. CASE Clocks!Build
  <2>1. Clocks!TypeOK'
    <3>1. 0 \in 0 .. Clocks!FullTurn - 1
      BY <1>3
    <3> QED BY <1>2, <1>7, <3>1 DEF Clocks!Build, ClockInv, Clocks!TypeOK
  <2> QED BY <1>1, <1>7, <2>1 DEF Clocks!Build, Clocks!Cycle, ClockInv
<1>8. CASE Clocks!Destroy
  BY <1>8 DEF Clocks!Destroy, ClockInv, Clocks!TypeOK
<1>9. CASE Clocks!ExecuteNerve
  BY <1>4, <1>9 DEF Clocks!ExecuteNerve, ClockInv, Clocks!TypeOK
<1>10. CASE Clocks!Control
  <2>1. Clocks!TypeOK'
    <3>1. Clocks!getCurrentNerveByClock \in {"Wait", "RotateSign", "Rotate"}
      BY DEF Clocks!getCurrentNerveByClock
    <3>2. Clocks!Way(clock) \in Nat
      BY <1>2, WayFollows
    <3> QED BY <1>2, <1>5, <1>10, <3>1, <3>2 DEF Clocks!Control, ClockInv, Clocks!TypeOK
  <2>2. built => cycle' = (seen' + DelayTime) \div Round
    BY <1>1, <1>10 DEF Clocks!Control, Clocks!Cycle
  <2>3. partNerve' # "Rotate" /\ ~missed'
          => angle' = (cycle' * RotateTime) % (Turns * RotateTime)
    BY <1>10 DEF Clocks!Control, Clocks!RotateEndAngle, Clocks!FullTurn, ClockInv
  <2>4. moved' = Clocks!Way(seen')
    BY <1>10 DEF Clocks!Control
  <2> QED BY <1>10, <2>1, <2>2, <2>3, <2>4 DEF Clocks!Control, ClockInv
<1>11. CASE UNCHANGED Clocks!vars
  BY <1>11 DEF Clocks!vars, ClockInv, Clocks!TypeOK
<1> QED BY <1>6, <1>7, <1>8, <1>9, <1>10, <1>11 DEF Clocks!Next

(* Whenever a part rests and has seen a rotation, it has turned as often as the clock
   has gone round; and one frame of the clock moves a part by one frame of its way or
   not at all, whatever its key poses.  So do the parts of two games
   (ClockMapPartsNet.cpp:87-114, KeyMoveMapPartsNet.cpp:20-56, 97-109). *)
THEOREM PartsFollowClock == Clocks!Spec => []ClockPartsAgree
<1>1. ClockInv => Clocks!TurnsWithClock
  <2> SUFFICES ASSUME ClockInv, built, seen = clock, partNerve # "Rotate", ~missed
               PROVE  angle = (((clock + DelayTime) \div Round) % Turns) * RotateTime
    BY DEF Clocks!TurnsWithClock, Round
  <2>1. Round \in Nat \ {0} /\ clock + DelayTime \in Nat
    BY ClocksAssumption DEF ClockInv, Clocks!TypeOK, Round
  <2>2. cycle = (clock + DelayTime) \div Round /\ cycle \in Nat
    BY <2>1, QuotientOfNumbers DEF ClockInv
  <2>3. (cycle * RotateTime) % (Turns * RotateTime) = (cycle % Turns) * RotateTime
    BY <2>2, ClocksAssumption, ScaledRemainder
  <2> QED BY <2>2, <2>3 DEF ClockInv
<1>2. ClockInv => Clocks!MovesWithClock
  <2> SUFFICES ASSUME ClockInv, built, moved # -1, clock = seen + 1
               PROVE  (Clocks!Way(clock) - moved) % MoveTotal \in {0, 1}
    BY DEF Clocks!MovesWithClock, MoveTotal
  <2>1. moved = Clocks!Way(seen) /\ seen \in Nat
    BY ClocksAssumption DEF ClockInv, Clocks!TypeOK
  <2> QED BY <2>1, WayFollows
<1>3. ClockInv => ClockPartsAgree
  BY <1>1, <1>2 DEF ClockInv, ClockPartsAgree, Clocks!ClockPartsAgree
<1> QED BY <1>3, ClocksInit, ClocksStep, PTL DEF Clocks!Spec

-----------------------------------------------------------------------------
(* Who plays.  SessionsProofs proves it of the module Sessions; here the same is
   said of the instance of Sessions that this module is about, whose operators
   are those of an instance of SessionsProofs. *)
Lobby == INSTANCE SessionsProofs WITH Games <- Players, down <- lists

LEMMA LobbyAssumption == Lobby!SessionsAssumption
BY ListsAssumption, PartsAssumption DEF Lobby!SessionsAssumption, Lobby!Peers

LEMMA SameRejectPacket == ASSUME NEW p, Lists!RejectPacket(p) PROVE Lobby!RejectPacket(p)
BY DEF Lists!RejectPacket, Lobby!RejectPacket, Lists!mapVars, Lobby!mapVars,
   Lists!gameVars, Lobby!gameVars, Lists!histVars, Lobby!histVars, Lists!Held,
   Lobby!Held, Lists!Close, Lobby!Close

LEMMA SameReceiveHello == ASSUME NEW p, Lists!ReceiveHello(p) PROVE Lobby!ReceiveHello(p)
BY DEF Lists!ReceiveHello, Lobby!ReceiveHello, Lists!gameVars, Lobby!gameVars,
   Lists!histVars, Lobby!histVars, Lists!Held, Lobby!Held, Lists!SendPlayerList,
   Lobby!SendPlayerList, Lists!ListOf, Lobby!ListOf, Lists!Broadcast, Lobby!Broadcast,
   Lists!Connected, Lobby!Connected, Lists!Overtake, Lobby!Overtake

LEMMA SameReceiveEnter == ASSUME NEW p, Lists!ReceiveEnter(p) PROVE Lobby!ReceiveEnter(p)
BY DEF Lists!ReceiveEnter, Lobby!ReceiveEnter, Lists!mapVars, Lobby!mapVars,
   Lists!gameVars, Lobby!gameVars, Lists!histVars, Lobby!histVars, Lists!Idle,
   Lobby!Idle, Lists!Held, Lobby!Held

LEMMA SameServerDisconnect == ASSUME NEW p, Lists!ServerDisconnect(p) PROVE
   Lobby!ServerDisconnect(p)
BY DEF Lists!ServerDisconnect, Lobby!ServerDisconnect, Lists!mapVars, Lobby!mapVars,
   Lists!gameVars, Lobby!gameVars, Lists!histVars, Lobby!histVars, Lists!Blank,
   Lobby!Blank, Lists!Free, Lobby!Free, Lists!Held, Lobby!Held, Lists!Without,
   Lobby!Without, Lists!AnnounceLeave, Lobby!AnnounceLeave, Lists!SendPlayerList,
   Lobby!SendPlayerList, Lists!ListOf, Lobby!ListOf, Lists!Broadcast, Lobby!Broadcast,
   Lists!Connected, Lobby!Connected, Lists!Overtake, Lobby!Overtake, Lists!Erase,
   Lobby!Erase

LEMMA SameThreadWrite == ASSUME Lists!ThreadWrite PROVE Lobby!ThreadWrite
BY DEF Lists!ThreadWrite, Lobby!ThreadWrite, Lists!upVars, Lobby!upVars, Lists!gameVars,
   Lobby!gameVars, Lists!histVars, Lobby!histVars, Lists!Idle, Lobby!Idle

LEMMA SameThreadMake == ASSUME Lists!ThreadMake PROVE Lobby!ThreadMake
BY DEF Lists!ThreadMake, Lobby!ThreadMake, Lists!upVars, Lobby!upVars, Lists!mapVars,
   Lobby!mapVars, Lists!gameVars, Lobby!gameVars, Lists!histVars, Lobby!histVars,
   Lists!CurrentList, Lobby!CurrentList, Lists!ListOf, Lobby!ListOf

LEMMA SameThreadSend == ASSUME Lists!ThreadSend PROVE Lobby!ThreadSend
BY DEF Lists!ThreadSend, Lobby!ThreadSend, Lists!upVars, Lobby!upVars, Lists!mapVars,
   Lobby!mapVars, Lists!gameVars, Lobby!gameVars, Lists!histVars, Lobby!histVars,
   Lists!Idle, Lobby!Idle, Lists!Broadcast, Lobby!Broadcast, Lists!Connected,
   Lobby!Connected

LEMMA SameOrders == ASSUME NEW S PROVE Lobby!Orders(S) = Lists!Orders(S)
<1>0. Lobby!Cardinality(S) = Lists!Cardinality(S)
  BY DEF Lobby!Cardinality, Lists!Cardinality
<1>1. ASSUME NEW s PROVE s \in Lobby!Orders(S) <=> s \in Lists!Orders(S)
  BY <1>0 DEF Lobby!Orders, Lists!Orders
<1> QED BY <1>1

LEMMA SameHeld == Lobby!Held = Lists!Held
BY DEF Lobby!Held, Lists!Held

LEMMA SameInsert == ASSUME NEW h PROVE Lobby!Insert(h) = Lists!Insert(h)
BY SameOrders, SameHeld DEF Lobby!Insert, Lists!Insert

LEMMA SameErase == ASSUME NEW t, NEW h PROVE Lobby!Erase(t, h) = Lists!Erase(t, h)
BY DEF Lobby!Erase, Lists!Erase

LEMMA SameGameConnect ==
  ASSUME NEW g, Lists!GameConnect(g)
  PROVE  Lobby!GameConnect(g)
<1> DEFINE A(p, h, t, F, B, I) ==
             /\ peer[p] = F
             /\ \A q \in Lists!Peers : peer[q] = F => p <= q
             /\ IF \E q \in Lists!Peers : peer[q].hash = h
                THEN shared < MaxShared /\ shared' = shared + 1
                ELSE UNCHANGED shared
             /\ peer' = [peer EXCEPT ![p] = [state |-> "up", game |-> g, hash |-> h]]
             /\ hello' = [hello EXCEPT ![p] = TRUE]
             /\ peerOf' = [peerOf EXCEPT ![g] = p]
             /\ client' = [client EXCEPT ![h] = B]
             /\ order' \in I
             /\ \/ thread' = t
                \/ t.step = "started" /\ t.at = None /\ thread' = [t EXCEPT !.at = h]
<1>1. Lobby!Peers = Lists!Peers /\ Lobby!Free = Lists!Free /\ Lobby!Blank = Lists!Blank
  BY DEF Lobby!Peers, Lists!Peers, Lobby!Free, Lists!Free, Lobby!Blank, Lists!Blank
<1>2. \A h : /\ Lobby!Insert(h) = Lists!Insert(h)
             /\ Lobby!Erase(thread, h) = Lists!Erase(thread, h)
  BY SameInsert, SameErase
<1>3. PICK p \in Lists!Peers, h \in Hashes :
        A(p, h, Lists!Erase(thread, h), Lists!Free, Lists!Blank, Lists!Insert(h))
  BY DEF Lists!GameConnect
<1>4. UNCHANGED <<enter, lists, Lists!gameVars, enters, losses, overtaken>>
  BY DEF Lists!GameConnect
<1>5. UNCHANGED <<enter, lists, Lobby!gameVars, enters, losses, overtaken>>
  BY <1>4 DEF Lists!gameVars, Lobby!gameVars
<1>6. A(p, h, Lobby!Erase(thread, h), Lobby!Free, Lobby!Blank, Lobby!Insert(h))
  <2> HIDE DEF A
  <2> QED BY <1>1, <1>2, <1>3
<1>7. peerOf[g] = None
  BY DEF Lists!GameConnect
<1> QED
  BY <1>1, <1>5, <1>6, <1>7 DEF Lobby!GameConnect

LEMMA SameSeeDisconnect == ASSUME NEW g, Lists!SeeDisconnect(g) PROVE Lobby!SeeDisconnect(g)
BY DEF Lists!SeeDisconnect, Lobby!SeeDisconnect, Lists!upVars, Lobby!upVars,
   Lists!mapVars, Lobby!mapVars, Lists!gameVars, Lobby!gameVars, Lists!histVars,
   Lobby!histVars

LEMMA SameEnterScene == ASSUME NEW g, Lists!EnterScene(g) PROVE Lobby!EnterScene(g)
BY DEF Lists!EnterScene, Lobby!EnterScene, Lists!mapVars, Lobby!mapVars, Lists!gameVars,
   Lobby!gameVars

LEMMA SameLoseConnection == ASSUME NEW g, Lists!LoseConnection(g) PROVE
   Lobby!LoseConnection(g)
BY DEF Lists!LoseConnection, Lobby!LoseConnection, Lists!upVars, Lobby!upVars,
   Lists!mapVars, Lobby!mapVars, Lists!gameVars, Lobby!gameVars

LEMMA SameReceiveList == ASSUME NEW g, Lists!ReceiveList(g) PROVE Lobby!ReceiveList(g)
BY DEF Lists!ReceiveList, Lobby!ReceiveList, Lists!upVars, Lobby!upVars, Lists!mapVars,
   Lobby!mapVars, Lists!histVars, Lobby!histVars, Lists!isHostClient, Lobby!isHostClient

LEMMA SameStep == ASSUME [Lists!Next]_Lists!vars PROVE [Lobby!Next]_Lobby!vars
<1>1. Lists!Next => Lobby!Next
  BY SameRejectPacket, SameReceiveHello, SameReceiveEnter, SameServerDisconnect,
     SameThreadWrite, SameThreadMake, SameThreadSend, SameGameConnect,
     SameSeeDisconnect, SameEnterScene, SameLoseConnection, SameReceiveList DEF
     Lists!Next, Lobby!Next, Lists!ServerStep, Lobby!ServerStep, Lists!ThreadStep,
     Lobby!ThreadStep, Lists!Rejoin, Lobby!Rejoin, Lists!Peers, Lobby!Peers
<1>2. UNCHANGED Lists!vars => UNCHANGED Lobby!vars
  BY DEF Lists!vars, Lobby!vars, Lists!upVars, Lobby!upVars, Lists!mapVars,
     Lobby!mapVars, Lists!gameVars, Lobby!gameVars, Lists!histVars, Lobby!histVars
<1> QED BY <1>1, <1>2

LEMMA LobbyInit == Lists!Init => Lobby!IInv
<1>1. Lists!Init => Lobby!Init
  BY DEF Lists!Init, Lobby!Init, Lists!Peers, Lobby!Peers, Lists!Free, Lobby!Free,
     Lists!Blank, Lobby!Blank, Lists!Idle, Lobby!Idle
<1> QED BY <1>1, LobbyAssumption, Lobby!InitInv

LEMMA LobbyStep == Lobby!IInv /\ [Lists!Next]_Lists!vars => Lobby!IInv'
BY SameStep, LobbyAssumption, Lobby!InvStep

LEMMA LobbySettles == Lobby!IInv => ListsSettle
<1> SUFFICES ASSUME Lobby!IInv PROVE ListsSettle
  OBVIOUS
<1>1. Lobby!TypeOK /\ Lobby!ListsSettle
  BY LobbyAssumption, Lobby!ListsAre DEF Lobby!IInv
<1>2. Lists!TypeOK
  BY <1>1 DEF Lists!TypeOK, Lobby!TypeOK, Lists!Peers, Lobby!Peers, Lists!Entry,
     Lobby!Entry, Lists!Threads, Lobby!Threads, Lists!Free, Lobby!Free
<1>3. Lists!ListsSettle
  BY <1>1 DEF Lists!ListsSettle, Lobby!ListsSettle, Lists!Settled, Lobby!Settled,
     Lists!Idle, Lobby!Idle, Lists!Alive, Lobby!Alive, Lists!Peers, Lobby!Peers,
     Lists!Free, Lobby!Free, Lists!CurrentList, Lobby!CurrentList, Lists!ListOf,
     Lobby!ListOf
<1> QED BY <1>2, <1>3 DEF ListsSettle

LEMMA LobbyHost == Lobby!IInv => OneHost
<1> SUFFICES ASSUME Lobby!IInv PROVE OneHost
  OBVIOUS
<1>1. Lobby!OneHost
  BY LobbyAssumption, Lobby!HostIs
<1>2. Lists!OneHost
  BY <1>1 DEF Lists!OneHost, Lobby!OneHost, Lists!Settled, Lobby!Settled, Lists!Idle,
     Lobby!Idle, Lists!Alive, Lobby!Alive, Lists!Peers, Lobby!Peers, Lists!Free,
     Lobby!Free, Lists!Listed, Lobby!Listed, Lists!Held, Lobby!Held
<1> QED BY <1>2 DEF OneHost

(* Once everything has settled every game shows the server's player list, unless
   the last list sent was made by a packet thread before another one was
   (Server.cpp:174-200, MultiplayerManager.cpp:186-248). *)
THEOREM PlayersListed == Lists!Spec => []ListsSettle
<1> QED BY LobbyInit, LobbyStep, LobbySettles, PTL DEF Lists!Spec

(* Then one of the listed games, and only one, is the host that times the
   disasters for all (MultiplayerManager.cpp:186-248). *)
THEOREM OneTimesDisasters == Lists!Spec => []OneHost
<1> QED BY LobbyInit, LobbyStep, LobbyHost, PTL DEF Lists!Spec
-----------------------------------------------------------------------------
(* The union of the parts: a behaviour of it is one of every part, of which all but
   one stand still. *)
LEMMA OnePartSteps ==
  ASSUME [MCNext]_allVars
  PROVE  /\ [Next]_vars
         /\ [Lists!Next]_listVars
         /\ [Flips!Next]_flipVars
         /\ [Islands!Next]_islandVars
         /\ [Zones!Next]_zoneVars
         /\ [Bowsers!Next]_bowserVars
         /\ [Actions!Next]_actionVars
         /\ [Clocks!Next]_clockVars
         /\ [Puppets!Next]_puppetVars
         /\ [Kills!Next]_killVars
<1>1. CASE UNCHANGED allVars
  BY <1>1 DEF allVars
<1>2. CASE NextPanels
  BY <1>2 DEF NextPanels
<1>3. CASE NextLists
  BY <1>3 DEF NextLists
<1>4. CASE NextFlips
  BY <1>4 DEF NextFlips
<1>5. CASE NextIslands
  BY <1>5 DEF NextIslands
<1>6. CASE NextZones
  BY <1>6 DEF NextZones
<1>7. CASE NextBowsers
  BY <1>7 DEF NextBowsers
<1>8. CASE NextActions
  BY <1>8 DEF NextActions
<1>9. CASE NextClocks
  BY <1>9 DEF NextClocks
<1>10. CASE NextPuppets
  BY <1>10 DEF NextPuppets
<1>11. CASE NextKills
  BY <1>11 DEF NextKills
<1> QED BY <1>1, <1>2, <1>3, <1>4, <1>5, <1>6, <1>7, <1>8, <1>9, <1>10, <1>11 DEF MCNext

LEMMA ListsPart == MCSpec => Lists!Spec
<1>1. MCInit => Lists!Init
  BY DEF MCInit
<1>2. [MCNext]_allVars => [Lists!Next]_(Lists!vars)
  BY OnePartSteps DEF listVars, Lists!vars, Lists!upVars, Lists!mapVars, Lists!gameVars,
     Lists!histVars
<1> QED BY <1>1, <1>2, PTL DEF MCSpec, Lists!Spec

LEMMA FlipsPart == MCSpec => Flips!Spec
<1>1. MCInit => Flips!Init
  BY DEF MCInit
<1>2. [MCNext]_allVars => [Flips!Next]_(Flips!vars)
  BY OnePartSteps DEF flipVars, Flips!vars, Flips!gameVars
<1> QED BY <1>1, <1>2, PTL DEF MCSpec, Flips!Spec

LEMMA IslandsPart == MCSpec => Islands!Spec
<1>1. MCInit => Islands!Init
  BY DEF MCInit
<1>2. [MCNext]_allVars => [Islands!Next]_(Islands!vars)
  BY OnePartSteps DEF islandVars, Islands!vars, Islands!serverVars, Islands!gameVars,
     Islands!netVars, Islands!histVars
<1> QED BY <1>1, <1>2, PTL DEF MCSpec, Islands!Spec

LEMMA ZonesPart == MCSpec => Zones!Spec
<1>1. MCInit => Zones!Init
  BY DEF MCInit
<1>2. [MCNext]_allVars => [Zones!Next]_(Zones!vars)
  BY OnePartSteps DEF zoneVars, Zones!vars, Zones!serverVars, Zones!gameVars,
     Zones!netVars
<1> QED BY <1>1, <1>2, PTL DEF MCSpec, Zones!Spec

LEMMA BowsersPart == MCSpec => Bowsers!Spec
<1>1. MCInit => Bowsers!Init
  BY DEF MCInit
<1>2. [MCNext]_allVars => [Bowsers!Next]_(Bowsers!vars)
  BY OnePartSteps DEF bowserVars, Bowsers!vars
<1> QED BY <1>1, <1>2, PTL DEF MCSpec, Bowsers!Spec

LEMMA ActionsPart == MCSpec => Actions!Spec
<1>1. MCInit => Actions!Init
  BY DEF MCInit
<1>2. [MCNext]_allVars => [Actions!Next]_(Actions!vars)
  BY OnePartSteps DEF actionVars, Actions!vars
<1> QED BY <1>1, <1>2, PTL DEF MCSpec, Actions!Spec

LEMMA ClocksPart == MCSpec => Clocks!Spec
<1>1. MCInit => Clocks!Init
  BY DEF MCInit
<1>2. [MCNext]_allVars => [Clocks!Next]_(Clocks!vars)
  BY OnePartSteps DEF clockVars, Clocks!vars
<1> QED BY <1>1, <1>2, PTL DEF MCSpec, Clocks!Spec

LEMMA PuppetsPart == MCSpec => Puppets!Spec
<1>1. MCInit => Puppets!Init
  BY DEF MCInit
<1>2. [MCNext]_allVars => [Puppets!Next]_(Puppets!vars)
  BY OnePartSteps DEF puppetVars, Puppets!vars, Puppets!gameVars, Puppets!sentVars,
     Puppets!watchVars
<1> QED BY <1>1, <1>2, PTL DEF MCSpec, Puppets!Spec

LEMMA KillsPart == MCSpec => Kills!Spec
<1>1. MCInit => Kills!Init
  BY DEF MCInit
<1>2. [MCNext]_allVars => [Kills!Next]_(Kills!vars)
  BY OnePartSteps DEF killVars, Kills!vars, Kills!objectVars
<1> QED BY <1>1, <1>2, PTL DEF MCSpec, Kills!Spec

LEMMA PanelsPart == MCSpec => Spec
<1>1. MCInit => Init
  BY DEF MCInit
<1>2. [MCNext]_allVars => [Next]_vars
  BY OnePartSteps
<1> QED BY <1>1, <1>2, PTL DEF MCSpec, Spec

(* What the theorems above say, each of its part, holds in the specification that the
   runs check: whatever part a behaviour is about, at rest two games agree, with the
   exceptions that each property names (MultiplayerManager.cpp, MiscMapSync.cpp,
   GoalItemSync.cpp, PlayerData.cpp). *)
THEOREM GamesAgree ==
  MCSpec => [](/\ FoldsFromTheFirst /\ ListsSettle /\ OneHost /\ FlipsAgree
              /\ ScenariosAgree /\ OneShine /\ LagsAHit /\ ActionsInTime
              /\ PuppetSettles /\ KillsSettle /\ ClockPartsAgree)
<1> QED BY PanelsPart, Folds, ListsPart, FlipsPart, IslandsPart, ZonesPart, BowsersPart,
          ActionsPart, ClocksPart, PuppetsPart, KillsPart, PlayersListed, OneTimesDisasters,
          PanelsAgree, IslandsAgree, ShardsGiveOneShine, SpectatorsLag, ActionsPlayed,
          PuppetsFollow, ObjectsGone, PartsFollowClock, PTL
=============================================================================
