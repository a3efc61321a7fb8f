--------------------------- MODULE SessionsProofs ---------------------------
(***************************************************************************)
(* Proofs about Sessions, for any games, hashes and number of places, and  *)
(* with the packet thread between any steps of the others.                 *)
(***************************************************************************)
EXTENDS Sessions, SequenceTheorems, FunctionTheorems, FiniteSetTheorems, TLAPS

(* A game's connection is a place of its own. *)
LinkInv == \A g \in Games : peerOf[g] # None => peer[peerOf[g]].game = g

(* A client the server holds has the hash of a place in use, of the player who
   greeted from it or of one whose greeting is still to come. *)
Backs(p, h) ==
  /\ peer[p].hash = h
  /\ \/ client[h].uid = peer[p].game
     \/ client[h].uid = None /\ hello[p]

GhostInv == \A h \in Held : \E p \in Peers : Backs(p, h)

(* A greeting that the server will answer with a list. *)
LateHello == \E p \in Peers : hello[p] /\ peer[p].hash \in Held

(* The last list that a game got, or has yet to read. *)
Current(g) ==
  IF down[g] = <<>> THEN players[g] = CurrentList
  ELSE down[g][Len(down[g])] = CurrentList

(* Every connected game has the current list, or will get one from a greeting
   or from the packet thread; and the thread's is current until another is sent. *)
ListInv ==
  \/ overtaken \/ LateHello \/ thread.step \in {"typed", "made"}
  \/ \A g \in Games : Connected(g) => Current(g)

MadeInv ==
  thread.step = "made" => thread.late \/ LateHello \/ thread.list = CurrentList

(* What a game made of the last list it read. *)
Mine(g) == {i \in DOMAIN players[g] : players[g][i].uid = g}

LocalInv ==
  \A g \in Games :
    IF Mine(g) = {} THEN local[g] \in {"null", "stale"}
    ELSE local[g] = IF \E i \in Mine(g) : isHostClient(i, players[g]) THEN "host"
                    ELSE "guest"

IInv == TypeOK /\ LinkInv /\ GhostInv /\ ListInv /\ MadeInv /\ LocalInv

-----------------------------------------------------------------------------
(* A place is free, or a game's with the hash of an address. *)
LEMMA PlaceTypes ==
  ASSUME TypeOK, NEW p \in Peers
  PROVE  \/ /\ peer[p] = Free /\ peer[p].state = "free"
            /\ peer[p].hash = None /\ peer[p].game = None
         \/ /\ peer[p].state \in {"up", "closing"} /\ peer[p] # Free
            /\ peer[p].game \in Games /\ peer[p].hash \in Hashes
BY DEF TypeOK, Free

LEMMA NoneIsNone == None \notin Games /\ None \notin Hashes /\ None \notin Peers
BY SessionsAssumption

(* The keys of the map. *)
LEMMA HeldTypes ==
  ASSUME TypeOK
  PROVE  /\ Held \subseteq Hashes /\ Len(order) \in Nat /\ DOMAIN order = 1 .. Len(order)
         /\ Held = {order[i] : i \in 1 .. Len(order)}
<1>1. order \in Seq(Hashes)
  BY DEF TypeOK
<1>2. Len(order) \in Nat /\ DOMAIN order = 1 .. Len(order)
  BY <1>1, LenProperties
<1>3. \A i \in 1 .. Len(order) : order[i] \in Hashes
  BY <1>1, ElementOfSeq
<1> QED BY <1>2, <1>3 DEF Held

(* An order of a set is a sequence that has each of its keys once. *)
LEMMA OrdersAre ==
  ASSUME NEW S, IsFiniteSet(S), NEW s \in Orders(S)
  PROVE  /\ s \in Seq(S) /\ {s[i] : i \in DOMAIN s} = S
         /\ \A i, j \in DOMAIN s : s[i] = s[j] => i = j
<1> DEFINE n == Cardinality(S)
<1>1. n \in Nat
  BY FS_CardinalityType
<1>2. s \in [1 .. n -> S] /\ \A h \in S : \E i \in 1 .. n : s[i] = h
  BY DEF Orders
<1>3. s \in Seq(S)
  BY <1>1, <1>2, SeqDef
<1>4. s \in Surjection(1 .. n, S)
  BY <1>2 DEF Surjection
<1>5. IsFiniteSet(1 .. n) /\ Cardinality(1 .. n) = n
  BY <1>1, FS_Interval
<1>6. s \in Injection(1 .. n, S)
  BY <1>4, <1>5, FS_SurjSameCardinalityImpliesInj
<1>7. \A i, j \in 1 .. n : s[i] = s[j] => i = j
  BY <1>6 DEF Injection, IsInjective
<1> QED BY <1>2, <1>3, <1>7

(* The order after a client has been added. *)
LEMMA Inserted ==
  ASSUME TypeOK, NEW h \in Hashes, NEW s \in Insert(h)
  PROVE  /\ s \in Seq(Hashes) /\ {s[i] : i \in DOMAIN s} = Held \cup {h}
         /\ \A i, j \in DOMAIN s : s[i] = s[j] => i = j
<1>1. IsFiniteSet(Held)
  <2> DEFINE f == [i \in 1 .. Len(order) |-> order[i]]
  <2>1. Len(order) \in Nat /\ Held = {order[i] : i \in 1 .. Len(order)}
    BY HeldTypes
  <2>2. f \in Surjection(1 .. Len(order), Held)
    BY <2>1 DEF Surjection
  <2>3. IsFiniteSet(1 .. Len(order))
    BY <2>1, FS_Interval
  <2> QED BY <2>2, <2>3, FS_Surjection
<1>2. IsFiniteSet(Held \cup {h})
  BY <1>1, FS_AddElement
<1>3. /\ s \in Seq(Held \cup {h}) /\ {s[i] : i \in DOMAIN s} = Held \cup {h}
      /\ \A i, j \in DOMAIN s : s[i] = s[j] => i = j
  BY <1>2, OrdersAre DEF Insert
<1>4. Held \cup {h} \subseteq Hashes
  BY HeldTypes
<1>5. s \in Seq(Hashes)
  BY <1>3, <1>4, SeqMonotonic
<1> QED BY <1>3, <1>5

(* The order after a client has been erased. *)
LEMMA Erased ==
  ASSUME TypeOK, NEW h \in Held
  PROVE  LET s == Without(order, h)
         IN  /\ s \in Seq(Hashes) /\ {s[i] : i \in DOMAIN s} = Held \ {h}
             /\ \A i, j \in DOMAIN s : s[i] = s[j] => i = j
<1> DEFINE n == Len(order)
           k == CHOOSE i \in DOMAIN order : order[i] = h
           a == SubSeq(order, 1, k - 1)
           b == SubSeq(order, k + 1, n)
           s == Without(order, h)
<1>1. /\ n \in Nat /\ DOMAIN order = 1 .. n /\ order \in Seq(Hashes)
      /\ Held = {order[i] : i \in 1 .. n}
      /\ \A i, j \in 1 .. n : order[i] = order[j] => i = j
  BY HeldTypes DEF TypeOK
<1>2. k \in 1 .. n /\ order[k] = h
  BY <1>1
<1> HIDE DEF n, k
<1>3. \A i \in 1 .. n : order[i] \in Hashes
  BY <1>1, ElementOfSeq DEF n
<1>4. a \in Seq(Hashes) /\ Len(a) = k - 1 /\ \A j \in 1 .. k - 1 : a[j] = order[j]
  <2>1. \A j \in 1 .. k - 1 : order[j] \in Hashes
    BY <1>1, <1>2, <1>3
  <2>2. /\ a \in Seq(Hashes) /\ Len(a) = (IF 1 <= k - 1 THEN k - 1 - 1 + 1 ELSE 0)
        /\ \A j \in 1 .. k - 1 - 1 + 1 : a[j] = order[1 + j - 1]
    BY <1>1, <1>2, <2>1, SubSeqProperties
  <2> QED BY <1>1, <1>2, <2>2
<1>5. /\ b \in Seq(Hashes) /\ Len(b) = n - k
      /\ \A j \in 1 .. n - k : b[j] = order[k + j]
  <2>1. \A j \in k + 1 .. n : order[j] \in Hashes
    BY <1>1, <1>2, <1>3
  <2>2. /\ b \in Seq(Hashes) /\ Len(b) = (IF k + 1 <= n THEN n - (k + 1) + 1 ELSE 0)
        /\ \A j \in 1 .. n - (k + 1) + 1 : b[j] = order[k + 1 + j - 1]
    BY <1>1, <1>2, <2>1, SubSeqProperties
  <2> QED BY <1>1, <1>2, <2>2
<1>6. s = a \o b
  BY DEF Without, n, k
<1> HIDE DEF a, b, s
<1>7. /\ s \in Seq(Hashes) /\ Len(s) = Len(a) + Len(b)
      /\ \A j \in 1 .. Len(a) + Len(b) : s[j] = IF j <= Len(a) THEN a[j] ELSE b[j - Len(a)]
  BY <1>4, <1>5, <1>6, ConcatProperties
<1>8. Len(a) + Len(b) = n - 1
  BY <1>1, <1>2, <1>4, <1>5
<1>9. ASSUME NEW j \in 1 .. n - 1
      PROVE  s[j] = order[IF j < k THEN j ELSE j + 1]
  <2>1. CASE j < k
    <3>1. j \in 1 .. k - 1 /\ j <= Len(a) /\ j \in 1 .. Len(a) + Len(b)
      BY <1>1, <1>2, <1>4, <1>8, <2>1
    <3> QED BY <1>4, <1>7, <2>1, <3>1
  <2>2. CASE ~(j < k)
    <3>1. j - Len(a) \in 1 .. n - k /\ k + (j - Len(a)) = j + 1 /\ ~(j <= Len(a))
      BY <1>1, <1>2, <1>4, <2>2
    <3> QED BY <1>5, <1>7, <1>8, <2>2, <3>1
  <2> QED BY <2>1, <2>2
<1>10. DOMAIN s = 1 .. n - 1
  BY <1>7, <1>8, LenProperties
<1>11. \A i, j \in 1 .. n - 1 : s[i] = s[j] => i = j
  <2> SUFFICES ASSUME NEW i \in 1 .. n - 1, NEW j \in 1 .. n - 1, s[i] = s[j]
               PROVE  i = j
    OBVIOUS
  <2> DEFINE x == IF i < k THEN i ELSE i + 1
             y == IF j < k THEN j ELSE j + 1
  <2>1. x \in 1 .. n /\ y \in 1 .. n
    BY <1>1, <1>2
  <2>2. order[x] = order[y]
    BY <1>9
  <2>3. x = y
    BY <1>1, <2>1, <2>2
  <2> QED BY <1>1, <1>2, <2>3
<1>12. {s[i] : i \in 1 .. n - 1} = Held \ {h}
  <2>1. ASSUME NEW i \in 1 .. n - 1 PROVE s[i] \in Held \ {h}
    <3> DEFINE x == IF i < k THEN i ELSE i + 1
    <3>1. x \in 1 .. n /\ x # k
      BY <1>1, <1>2
    <3> QED BY <1>1, <1>2, <1>9, <3>1
  <2>2. ASSUME NEW c \in Held \ {h} PROVE \E i \in 1 .. n - 1 : s[i] = c
    <3>1. PICK x \in 1 .. n : order[x] = c
      BY <1>1
    <3>2. x # k
      BY <1>2, <3>1
    <3>3. CASE x < k
      <4>1. x \in 1 .. n - 1
        BY <1>1, <1>2, <3>3
      <4> QED BY <1>9, <3>1, <3>3, <4>1
    <3>4. CASE ~(x < k)
      <4>1. x - 1 \in 1 .. n - 1 /\ ~(x - 1 < k) /\ (x - 1) + 1 = x
        BY <1>1, <1>2, <3>2, <3>4
      <4> QED BY <1>9, <3>1, <4>1
    <3> QED BY <3>3, <3>4
  <2> QED BY <2>1, <2>2
<1> QED BY <1>7, <1>10, <1>11, <1>12 DEF s

(* A list has one entry for every key, in their order. *)
LEMMA ListTypes ==
  ASSUME NEW k \in Seq(Hashes), NEW c \in [Hashes -> Entry]
  PROVE  /\ ListOf(k, c) \in Seq(Entry) /\ Len(ListOf(k, c)) = Len(k)
         /\ Len(k) \in Nat /\ DOMAIN ListOf(k, c) = 1 .. Len(k)
         /\ \A i \in 1 .. Len(k) : ListOf(k, c)[i] = c[k[i]]
<1>1. Len(k) \in Nat
  BY LenProperties
<1>2. \A i \in 1 .. Len(k) : c[k[i]] \in Entry
  <2>1. \A i \in 1 .. Len(k) : k[i] \in Hashes
    BY ElementOfSeq
  <2> QED BY <2>1
<1>3. ListOf(k, c) \in Seq(Entry) /\ Len(ListOf(k, c)) = Len(k)
  <2>1. ListOf(k, c) \in [1 .. Len(k) -> Entry]
    BY <1>2 DEF ListOf
  <2>2. ListOf(k, c) \in Seq(Entry)
    BY <1>1, <2>1, SeqDef
  <2>3. DOMAIN ListOf(k, c) = 1 .. Len(k)
    BY DEF ListOf
  <2>4. Len(ListOf(k, c)) \in Nat /\ DOMAIN ListOf(k, c) = 1 .. Len(ListOf(k, c))
    BY <2>2, LenProperties
  <2>5. 1 .. Len(k) = 1 .. Len(ListOf(k, c))
    BY <2>3, <2>4
  <2>6. Len(ListOf(k, c)) = Len(k)
    BY <1>1, <2>4, <2>5
  <2> QED BY <2>2, <2>6
<1> QED BY <1>1, <1>3 DEF ListOf

(* A list on its way to all who are connected. *)
LEMMA BroadcastTypes ==
  ASSUME TypeOK, NEW list \in Seq(Entry), Broadcast(list)
  PROVE  down' \in [Games -> Seq(Seq(Entry))]
<1>1. \A g \in Games : Append(down[g], list) \in Seq(Seq(Entry))
  BY AppendProperties DEF TypeOK
<1> QED BY <1>1 DEF TypeOK, Broadcast

LEMMA ListSent ==
  ASSUME TypeOK, order' \in Seq(Hashes), client' \in [Hashes -> Entry], SendPlayerList
  PROVE  down' \in [Games -> Seq(Seq(Entry))] /\ overtaken' = FALSE
BY ListTypes, BroadcastTypes DEF SendPlayerList

LEMMA ThreadTypes ==
  ASSUME TypeOK
  PROVE  /\ Overtake(thread) \in Threads
         /\ \A h \in Hashes : /\ Erase(thread, h) \in Threads
                              /\ Overtake(Erase(thread, h)) \in Threads
BY DEF TypeOK, Threads, Overtake, Erase

LEMMA ClientTypes ==
  ASSUME NEW c \in [Hashes -> Entry], NEW h \in Hashes, NEW x \in Games \cup {None}
  PROVE  /\ [c EXCEPT ![h].uid = x] \in [Hashes -> Entry]
         /\ [c EXCEPT ![h].type = x] \in [Hashes -> Entry]
         /\ [c EXCEPT ![h].uid = x][h].uid = x
         /\ \A k \in Hashes : [c EXCEPT ![h].type = x][k].uid = c[k].uid
<1>1. [c[h] EXCEPT !.uid = x] \in Entry /\ [c[h] EXCEPT !.type = x] \in Entry
  BY DEF Entry
<1>2. [c[h] EXCEPT !.uid = x].uid = x /\ [c[h] EXCEPT !.type = x].uid = c[h].uid
  BY DEF Entry
<1> QED BY <1>1, <1>2

LEMMA InitInv == Init => IInv
<1> SUFFICES ASSUME Init PROVE IInv
  OBVIOUS
<1>1. Held = {} /\ order \in Seq(Hashes) /\ \A i \in DOMAIN order : FALSE
  BY EmptySeq DEF Init, Held
<1>2. TypeOK
  <2>1. /\ peer \in [Peers -> [state : {"up", "closing"}, game : Games, hash : Hashes]
                               \cup {Free}]
        /\ hello \in [Peers -> BOOLEAN] /\ enter \in [Peers -> BOOLEAN]
        /\ peerOf \in [Games -> Peers \cup {None}]
    BY DEF Init
  <2>2. client \in [Hashes -> Entry] /\ thread \in Threads
    BY EmptySeq DEF Init, Entry, Blank, Threads, Idle
  <2>3. /\ down \in [Games -> Seq(Seq(Entry))] /\ players \in [Games -> Seq(Entry)]
        /\ local \in [Games -> {"null", "guest", "host", "stale"}]
    BY EmptySeq DEF Init
  <2>4. enters \in 0 .. MaxEnters /\ losses \in 0 .. MaxLosses /\ shared \in 0 .. MaxShared
    BY SessionsAssumption DEF Init
  <2> QED BY <1>1, <2>1, <2>2, <2>3, <2>4 DEF Init, TypeOK
<1>3. LinkInv /\ GhostInv
  BY <1>1 DEF Init, LinkInv, GhostInv
<1>4. ListInv /\ MadeInv
  BY DEF Init, ListInv, MadeInv, Connected, Idle
<1>5. LocalInv
  <2>1. ASSUME NEW g \in Games PROVE Mine(g) = {} /\ local[g] = "null"
    BY EmptySeq DEF Init, Mine
  <2> QED BY <2>1 DEF LocalInv
<1> QED BY <1>2, <1>3, <1>4, <1>5 DEF IInv

-----------------------------------------------------------------------------
(* No step takes a variable out of its domain. *)
LEMMA TypeStep ==
  ASSUME TypeOK, [Next]_vars
  PROVE  TypeOK'
<1> USE DEF upVars, mapVars, gameVars, histVars
<1>1. ASSUME NEW p \in Peers, RejectPacket(p) PROVE TypeOK'
  <2>1. peer' \in [Peers -> [state : {"up", "closing"}, game : Games, hash : Hashes]
                             \cup {Free}]
    <3>1. peer[p].state = "up" /\ peer' = [peer EXCEPT ![p].state = "closing"]
      BY <1>1 DEF RejectPacket, Close
    <3>2. peer[p] \in [state : {"up", "closing"}, game : Games, hash : Hashes]
      BY <3>1 DEF TypeOK, Free
    <3>3. [peer[p] EXCEPT !.state = "closing"]
            \in [state : {"up", "closing"}, game : Games, hash : Hashes]
      BY <3>2
    <3> QED BY <3>1, <3>3 DEF TypeOK
  <2>2. down' \in [Games -> Seq(Seq(Entry))]
    BY <1>1, EmptySeq DEF RejectPacket, TypeOK
  <2> QED BY <1>1, <2>1, <2>2 DEF RejectPacket, TypeOK
<1>2. ASSUME NEW p \in Peers, ReceiveHello(p) PROVE TypeOK'
  <2>1. peer[p].game \in Games /\ peer[p].hash \in Hashes
    BY <1>2, PlaceTypes DEF ReceiveHello
  <2>2. client' \in [Hashes -> Entry] /\ order' = order
    BY <1>2, <2>1, ClientTypes DEF ReceiveHello, TypeOK
  <2>3. down' \in [Games -> Seq(Seq(Entry))] /\ overtaken' = FALSE
    BY <1>2, <2>2, ListSent DEF ReceiveHello, TypeOK
  <2> QED BY <1>2, <2>2, <2>3, ThreadTypes DEF ReceiveHello, TypeOK
<1>3. ASSUME NEW p \in Peers, ReceiveEnter(p) PROVE TypeOK'
  <2>1. peer[p].game \in Games /\ peer[p].hash \in Hashes
    BY <1>3, PlaceTypes DEF ReceiveEnter
  <2>2. thread' \in Threads
    <3>1. thread' = thread
          \/ thread' = [step |-> "started", at |-> peer[p].hash, type |-> peer[p].game,
                        list |-> <<>>, late |-> FALSE]
      BY <1>3 DEF ReceiveEnter, Idle
    <3>2. <<>> \in Seq(Entry) /\ thread \in Threads
      BY EmptySeq DEF TypeOK
    <3> DEFINE t == [step |-> "started", at |-> peer[p].hash, type |-> peer[p].game,
                     list |-> <<>>, late |-> FALSE]
    <3>3. t \in Threads
      BY <2>1, <3>2 DEF Threads
    <3> HIDE DEF t
    <3>4. thread' \in {thread, t}
      BY <3>1 DEF t
    <3> QED BY <3>2, <3>3, <3>4
  <2> QED BY <1>3, <2>2 DEF ReceiveEnter, TypeOK
<1>4. ASSUME NEW p \in Peers, ServerDisconnect(p) PROVE TypeOK'
  <2> DEFINE h == peer[p].hash
  <2>1. /\ h \in Hashes
        /\ peer' \in [Peers -> [state : {"up", "closing"}, game : Games, hash : Hashes]
                                \cup {Free}]
        /\ hello' \in [Peers -> BOOLEAN] /\ enter' \in [Peers -> BOOLEAN]
    BY <1>4, PlaceTypes DEF ServerDisconnect, TypeOK
  <2>2. /\ client' \in [Hashes -> Entry] /\ order' \in Seq(Hashes)
        /\ \A i, j \in DOMAIN order' : order'[i] = order'[j] => i = j
        /\ thread' \in Threads /\ down' \in [Games -> Seq(Seq(Entry))]
        /\ overtaken' \in BOOLEAN
    <3>1. CASE h \in Held
      <4>1. /\ client' = [client EXCEPT ![h] = Blank] /\ order' = Without(order, h)
            /\ thread' = Overtake(Erase(thread, h)) /\ SendPlayerList
        BY <1>4, <3>1 DEF ServerDisconnect, AnnounceLeave
      <4>2. client' \in [Hashes -> Entry]
        BY <4>1 DEF TypeOK, Entry, Blank
      <4>3. /\ order' \in Seq(Hashes)
            /\ \A i, j \in DOMAIN order' : order'[i] = order'[j] => i = j
        BY <3>1, <4>1, Erased
      <4>4. down' \in [Games -> Seq(Seq(Entry))] /\ overtaken' = FALSE
        BY <4>1, <4>2, <4>3, ListSent
      <4> QED BY <2>1, <4>1, <4>2, <4>3, <4>4, ThreadTypes
    <3>2. CASE h \notin Held
      BY <1>4, <3>2 DEF ServerDisconnect, TypeOK
    <3> QED BY <3>1, <3>2
  <2>3. UNCHANGED <<peerOf, gameVars, histVars>>
    BY <1>4 DEF ServerDisconnect
  <2> HIDE DEF h
  <2> QED BY <2>1, <2>2, <2>3 DEF TypeOK
<1>5. CASE ThreadWrite
  <2>1. client' \in [Hashes -> Entry]
    <3>1. /\ thread.at \in Hashes \cup {None} /\ thread.type \in Games \cup {None}
          /\ client \in [Hashes -> Entry]
      BY DEF TypeOK, Threads
    <3>2. client' = IF thread.at = None THEN client
                    ELSE [client EXCEPT ![thread.at].type = thread.type]
      BY <1>5 DEF ThreadWrite
    <3> QED BY <3>1, <3>2, ClientTypes
  <2>2. thread' \in Threads
    BY <1>5, EmptySeq DEF ThreadWrite, Idle, Threads
  <2> QED BY <1>5, <2>1, <2>2 DEF ThreadWrite, TypeOK
<1>6. CASE ThreadMake
  <2>1. CurrentList \in Seq(Entry)
    BY ListTypes DEF CurrentList, TypeOK
  <2>2. thread' \in Threads
    BY <1>6, <2>1 DEF ThreadMake, TypeOK, Threads
  <2> QED BY <1>6, <2>2 DEF ThreadMake, TypeOK
<1>7. CASE ThreadSend
  <2>1. thread.list \in Seq(Entry) /\ thread.late \in BOOLEAN
    BY DEF TypeOK, Threads
  <2>2. down' \in [Games -> Seq(Seq(Entry))] /\ overtaken' \in BOOLEAN
    BY <1>7, <2>1, BroadcastTypes DEF ThreadSend
  <2>3. thread' \in Threads
    BY <1>7, EmptySeq DEF ThreadSend, Idle, Threads
  <2> QED BY <1>7, <2>2, <2>3 DEF ThreadSend, TypeOK
<1>8. ASSUME NEW g \in Games, GameConnect(g) PROVE TypeOK'
  <2>1. PICK p \in Peers, h \in Hashes :
          /\ IF \E q \in Peers : peer[q].hash = h
             THEN shared < MaxShared /\ shared' = shared + 1
             ELSE UNCHANGED shared
          /\ peer' = [peer EXCEPT ![p] = [state |-> "up", game |-> g, hash |-> h]]
          /\ hello' = [hello EXCEPT ![p] = TRUE]
          /\ peerOf' = [peerOf EXCEPT ![g] = p]
          /\ client' = [client EXCEPT ![h] = Blank]
          /\ order' \in Insert(h)
          /\ \/ thread' = Erase(thread, h)
             \/ thread' = [Erase(thread, h) EXCEPT !.at = h]
    BY <1>8 DEF GameConnect
  <2>2. /\ order' \in Seq(Hashes)
        /\ \A i, j \in DOMAIN order' : order'[i] = order'[j] => i = j
    BY <2>1, Inserted
  <2>3. thread' \in Threads
    BY <2>1, ThreadTypes DEF Threads
  <2>4. /\ client' \in [Hashes -> Entry] /\ hello' \in [Peers -> BOOLEAN]
        /\ peerOf' \in [Games -> Peers \cup {None}]
        /\ peer' \in [Peers -> [state : {"up", "closing"}, game : Games, hash : Hashes]
                                \cup {Free}]
    BY <2>1 DEF TypeOK, Entry, Blank
  <2>5. shared' \in 0 .. MaxShared
    BY <2>1, SessionsAssumption DEF TypeOK
  <2> QED BY <1>8, <2>2, <2>3, <2>4, <2>5 DEF GameConnect, TypeOK
<1>9. ASSUME NEW g \in Games, SeeDisconnect(g) PROVE TypeOK'
  BY <1>9, EmptySeq DEF SeeDisconnect, TypeOK
<1>10. ASSUME NEW g \in Games, EnterScene(g) PROVE TypeOK'
  <2>1. enters' \in 0 .. MaxEnters
    BY <1>10, SessionsAssumption DEF EnterScene, TypeOK
  <2> QED BY <1>10, <2>1 DEF EnterScene, TypeOK
<1>11. ASSUME NEW g \in Games, LoseConnection(g) PROVE TypeOK'
  <2>1. losses' \in 0 .. MaxLosses /\ down' \in [Games -> Seq(Seq(Entry))]
    BY <1>11, SessionsAssumption, EmptySeq DEF LoseConnection, TypeOK
  <2> QED BY <1>11, <2>1 DEF LoseConnection, TypeOK
<1>12. ASSUME NEW g \in Games, ReceiveList(g) PROVE TypeOK'
  <2>1. Head(down[g]) \in Seq(Entry) /\ Tail(down[g]) \in Seq(Seq(Entry))
    BY <1>12, HeadTailProperties DEF ReceiveList, TypeOK
  <2>2. players' \in [Games -> Seq(Entry)] /\ down' \in [Games -> Seq(Seq(Entry))]
    BY <1>12, <2>1 DEF ReceiveList, TypeOK
  <2>3. local' \in [Games -> {"null", "guest", "host", "stale"}]
    BY <1>12 DEF ReceiveList, TypeOK
  <2> QED BY <1>12, <2>2, <2>3 DEF ReceiveList, TypeOK
<1>13. CASE UNCHANGED vars
  BY <1>13 DEF vars, TypeOK
<1> QED
  BY <1>1, <1>2, <1>3, <1>4, <1>5, <1>6, <1>7, <1>8, <1>9, <1>10, <1>11, <1>12, <1>13
  DEF Next, ServerStep, ThreadStep, Rejoin

(* A place is given up only when its game has left it. *)
LEMMA LinkStep ==
  ASSUME IInv, [Next]_vars
  PROVE  LinkInv'
<1> USE DEF IInv, LinkInv
<1>1. ASSUME NEW p \in Peers, RejectPacket(p) PROVE LinkInv'
  <2>1. peerOf' = peerOf /\ \A q \in Peers : peer'[q].game = peer[q].game
    BY <1>1 DEF RejectPacket, Close, TypeOK
  <2>2. \A g \in Games : peerOf[g] # None => peerOf[g] \in Peers
    BY DEF TypeOK
  <2> QED BY <2>1, <2>2
<1>2. ASSUME NEW p \in Peers, ServerDisconnect(p) PROVE LinkInv'
  <2>1. /\ peerOf' = peerOf /\ peerOf[peer[p].game] # p
        /\ \A q \in Peers : q # p => peer'[q] = peer[q]
    BY <1>2 DEF ServerDisconnect, TypeOK
  <2>2. \A g \in Games : peerOf[g] # None => peerOf[g] \in Peers /\ peerOf[g] # p
    BY <2>1 DEF TypeOK
  <2> QED BY <2>1, <2>2
<1>3. ASSUME NEW g \in Games, GameConnect(g) PROVE LinkInv'
  <2>1. PICK p \in Peers :
          /\ peer[p] = Free /\ peer'[p].game = g
          /\ \A q \in Peers : q # p => peer'[q] = peer[q]
          /\ peerOf' = [peerOf EXCEPT ![g] = p]
    <3>1. PICK p \in Peers, h \in Hashes :
            /\ peer[p] = Free
            /\ peer' = [peer EXCEPT ![p] = [state |-> "up", game |-> g, hash |-> h]]
            /\ peerOf' = [peerOf EXCEPT ![g] = p]
      BY <1>3 DEF GameConnect
    <3>2. peer'[p].game = g
      BY <3>1 DEF TypeOK
    <3>3. \A q \in Peers : q # p => peer'[q] = peer[q]
      BY <3>1 DEF TypeOK
    <3> QED BY <3>1, <3>2, <3>3
  <2>2. \A k \in Games : k # g /\ peerOf[k] # None =>
          peerOf'[k] = peerOf[k] /\ peerOf[k] \in Peers /\ peerOf[k] # p
    BY <2>1, NoneIsNone DEF TypeOK, Free
  <2> QED BY <2>1, <2>2 DEF TypeOK
<1>4. ASSUME NEW g \in Games, SeeDisconnect(g) \/ LoseConnection(g) PROVE LinkInv'
  BY <1>4 DEF SeeDisconnect, LoseConnection, TypeOK
<1>5. CASE UNCHANGED <<peer, peerOf>>
  BY <1>5
<1>6. ASSUME NEW p \in Peers, ReceiveHello(p) \/ ReceiveEnter(p) PROVE LinkInv'
  BY <1>5, <1>6 DEF ReceiveHello, ReceiveEnter
<1>7. CASE ThreadStep \/ UNCHANGED vars
  BY <1>5, <1>7 DEF ThreadStep, ThreadWrite, ThreadMake, ThreadSend, vars
<1>8. ASSUME NEW g \in Games, EnterScene(g) \/ ReceiveList(g) PROVE LinkInv'
  BY <1>5, <1>8 DEF EnterScene, ReceiveList
<1> QED
  BY <1>1, <1>2, <1>3, <1>4, <1>6, <1>7, <1>8 DEF Next, ServerStep, Rejoin

-----------------------------------------------------------------------------
(* What a greeting, a disconnection and a connection do to the clients. *)
LEMMA GhostHello ==
  ASSUME IInv, NEW p \in Peers, ReceiveHello(p)
  PROVE  GhostInv'
<1> DEFINE k == peer[p].hash
<1>1. /\ k \in Held /\ k \in Hashes /\ order' = order /\ peer' = peer
      /\ client' = [client EXCEPT ![k].uid = peer[p].game]
      /\ hello' = [hello EXCEPT ![p] = FALSE]
  BY PlaceTypes DEF ReceiveHello, IInv
<1>2. Held' = Held
  BY <1>1 DEF Held
<1>3. Backs(p, k)'
  <2>1. client \in [Hashes -> Entry] /\ peer[p].game \in Games
    BY PlaceTypes DEF IInv, TypeOK, ReceiveHello
  <2>2. client'[k].uid = peer[p].game
    BY <1>1, <2>1, ClientTypes
  <2> QED BY <1>1, <2>2 DEF Backs
<1>4. ASSUME NEW h \in Held, h # k PROVE \E q \in Peers : Backs(q, h)'
  <2>1. PICK q \in Peers : Backs(q, h)
    BY DEF IInv, GhostInv
  <2>2. client'[h] = client[h] /\ peer'[q] = peer[q] /\ q # p /\ hello'[q] = hello[q]
    <3>1. h \in Hashes
      BY HeldTypes DEF IInv
    <3>2. q # p
      BY <1>4, <2>1 DEF Backs
    <3> HIDE DEF k
    <3>3. client'[h] = client[h]
      BY <1>1, <1>4, <3>1 DEF IInv, TypeOK
    <3>4. hello'[q] = hello[q]
      BY <1>1, <3>2 DEF IInv, TypeOK
    <3> QED BY <1>1, <3>2, <3>3, <3>4
  <2> QED BY <2>1, <2>2 DEF Backs
<1> QED BY <1>1, <1>2, <1>3, <1>4 DEF GhostInv

LEMMA GhostGone ==
  ASSUME IInv, NEW p \in Peers, ServerDisconnect(p)
  PROVE  GhostInv'
<1> DEFINE k == peer[p].hash
<1>1. /\ peer' = [peer EXCEPT ![p] = Free] /\ hello' = [hello EXCEPT ![p] = FALSE]
      /\ IF k \in Held
         THEN client' = [client EXCEPT ![k] = Blank] /\ order' = Without(order, k)
         ELSE client' = client /\ order' = order
  BY DEF ServerDisconnect, mapVars
<1> HIDE DEF k
<1>2. Held' = Held \ {k}
  <2>1. CASE k \in Held
    <3> DEFINE s == Without(order, k)
    <3>1. {s[i] : i \in DOMAIN s} = Held \ {k}
      BY <2>1, Erased DEF IInv
    <3>2. order' = s
      BY <1>1, <2>1
    <3> HIDE DEF s
    <3> QED BY <3>1, <3>2 DEF Held
  <2>2. CASE k \notin Held
    BY <1>1, <2>2 DEF Held
  <2> QED BY <2>1, <2>2
<1>3. ASSUME NEW h \in Held, h # k PROVE \E q \in Peers : Backs(q, h)'
  <2>1. PICK q \in Peers : Backs(q, h)
    BY DEF IInv, GhostInv
  <2>2. client'[h] = client[h] /\ peer'[q] = peer[q] /\ hello'[q] = hello[q]
    <3>1. h \in Hashes
      BY HeldTypes DEF IInv
    <3>2. q # p
      BY <1>3, <2>1 DEF Backs, k
    <3> QED BY <1>1, <1>3, <3>1, <3>2 DEF IInv, TypeOK
  <2> QED BY <2>1, <2>2 DEF Backs
<1> QED BY <1>2, <1>3 DEF GhostInv

LEMMA GhostNew ==
  ASSUME IInv, NEW g \in Games, GameConnect(g)
  PROVE  GhostInv' /\ LateHello'
<1>1. PICK p \in Peers, k \in Hashes :
        /\ peer[p] = Free
        /\ peer' = [peer EXCEPT ![p] = [state |-> "up", game |-> g, hash |-> k]]
        /\ hello' = [hello EXCEPT ![p] = TRUE]
        /\ client' = [client EXCEPT ![k] = Blank]
        /\ order' \in Insert(k)
  BY DEF GameConnect
<1>2. Held' = Held \cup {k}
  BY <1>1, Inserted DEF IInv, Held
<1>3. peer'[p].hash = k /\ hello'[p] /\ client'[k].uid = None
  BY <1>1 DEF IInv, TypeOK, Blank
<1>4. ASSUME NEW h \in Held, h # k PROVE \E q \in Peers : Backs(q, h)'
  <2>1. PICK q \in Peers : Backs(q, h)
    BY DEF IInv, GhostInv
  <2>2. client'[h] = client[h] /\ peer'[q] = peer[q] /\ hello'[q] = hello[q]
    <3>1. h \in Hashes /\ h # None
      BY HeldTypes, NoneIsNone DEF IInv
    <3>2. q # p
      BY <1>1, <2>1, <3>1 DEF Backs, Free
    <3> QED BY <1>1, <1>4, <3>1, <3>2 DEF IInv, TypeOK
  <2> QED BY <2>1, <2>2 DEF Backs
<1>5. GhostInv'
  BY <1>2, <1>3, <1>4 DEF GhostInv, Backs
<1> QED BY <1>2, <1>3, <1>5 DEF LateHello

(* The other steps keep the keys, the places and who a client is; and a greeting
   is dropped only by a connection whose client has been erased. *)
LEMMA GhostStep ==
  ASSUME IInv, [Next]_vars
  PROVE  GhostInv'
<1> USE DEF upVars, mapVars
<1>1. ASSUME NEW p \in Peers, RejectPacket(p) PROVE GhostInv'
  <2>1. /\ Held' = Held /\ client' = client /\ peer[p].hash \notin Held
        /\ \A q \in Peers : peer'[q].hash = peer[q].hash /\ peer'[q].game = peer[q].game
        /\ \A q \in Peers : q # p => hello'[q] = hello[q]
    BY <1>1 DEF RejectPacket, Close, Held, IInv, TypeOK
  <2>2. ASSUME NEW h \in Held PROVE \E q \in Peers : Backs(q, h)'
    <3>1. PICK q \in Peers : Backs(q, h)
      BY DEF IInv, GhostInv
    <3>2. q # p
      BY <2>1, <3>1 DEF Backs
    <3> QED BY <2>1, <3>1, <3>2 DEF Backs
  <2> QED BY <2>1, <2>2 DEF GhostInv
<1>2. CASE ThreadWrite
  <2>1. Held' = Held /\ UNCHANGED <<peer, hello>>
    BY <1>2 DEF ThreadWrite, Held
  <2>2. \A h \in Hashes : client'[h].uid = client[h].uid
    BY <1>2 DEF ThreadWrite, IInv, TypeOK, Threads, Entry
  <2>3. Held \subseteq Hashes
    BY HeldTypes DEF IInv
  <2> QED BY <2>1, <2>2, <2>3 DEF IInv, GhostInv, Backs
<1>3. CASE UNCHANGED <<peer, hello, client, order>>
  BY <1>3 DEF IInv, GhostInv, Backs, Held
<1>4. ASSUME NEW p \in Peers, ReceiveEnter(p) PROVE GhostInv'
  BY <1>3, <1>4 DEF ReceiveEnter
<1>5. CASE ThreadMake \/ ThreadSend \/ UNCHANGED vars
  BY <1>3, <1>5 DEF ThreadMake, ThreadSend, vars
<1>6. ASSUME NEW g \in Games,
             SeeDisconnect(g) \/ EnterScene(g) \/ LoseConnection(g) \/ ReceiveList(g)
      PROVE  GhostInv'
  BY <1>3, <1>6 DEF SeeDisconnect, EnterScene, LoseConnection, ReceiveList
<1> QED
  BY <1>1, <1>2, <1>4, <1>5, <1>6, GhostHello, GhostGone, GhostNew
  DEF Next, ServerStep, ThreadStep, Rejoin

-----------------------------------------------------------------------------
(* A list that has just been made is current for all who are connected. *)
LEMMA ListFresh ==
  ASSUME TypeOK, peer' = peer \/ (\A g \in Games : Connected(g)' => Connected(g)),
         UNCHANGED <<peerOf, players>>, NEW list \in Seq(Entry), Broadcast(list),
         CurrentList' = list
  PROVE  \A g \in Games : Connected(g)' => Current(g)'
<1> SUFFICES ASSUME NEW g \in Games, Connected(g)' PROVE Current(g)'
  OBVIOUS
<1>1. Connected(g)
  BY DEF Connected
<1>2. down'[g] = Append(down[g], list)
  BY <1>1 DEF Broadcast
<1>3. /\ down'[g] # <<>> /\ Len(down'[g]) = Len(down[g]) + 1
      /\ down'[g][Len(down[g]) + 1] = list
  <2>1. down[g] \in Seq(Seq(Entry))
    BY DEF TypeOK
  <2>2. /\ Append(down[g], list) \in Seq(Seq(Entry))
        /\ Len(Append(down[g], list)) = Len(down[g]) + 1
        /\ Append(down[g], list)[Len(down[g]) + 1] = list
    BY <2>1, AppendProperties
  <2>3. Len(down[g]) \in Nat
    BY <2>1, LenProperties
  <2>4. Append(down[g], list) # <<>>
    <3> DEFINE t == Append(down[g], list)
    <3>1. t \in Seq(Seq(Entry)) /\ Len(t) # 0
      BY <2>2, <2>3
    <3> HIDE DEF t
    <3>2. t # <<>>
      BY <3>1, EmptySeq
    <3> QED BY <3>2 DEF t
  <2> QED BY <1>2, <2>2, <2>4
<1> QED BY <1>3 DEF Current

(* The server thread sends what it has made, and the packet thread's list is old. *)
LEMMA ServerSends ==
  ASSUME TypeOK, TypeOK', (\A g \in Games : Connected(g)' => Connected(g)),
         UNCHANGED <<peerOf, players>>, SendPlayerList,
         NEW t \in Threads, thread' = Overtake(t)
  PROVE  ListInv' /\ MadeInv'
<1>1. CurrentList' = ListOf(order', client') /\ CurrentList' \in Seq(Entry)
  BY ListTypes DEF CurrentList, TypeOK
<1>2. Broadcast(CurrentList')
  BY <1>1 DEF SendPlayerList
<1>3. \A g \in Games : Connected(g)' => Current(g)'
  BY <1>1, <1>2, ListFresh
<1>4. thread'.step = "made" => thread'.late
  BY DEF Overtake, Threads
<1> QED BY <1>3, <1>4 DEF ListInv, MadeInv

(* Steps that change no list on its way, and what they leave alone. *)
LEMMA ListStep ==
  ASSUME IInv, TypeOK', [Next]_vars
  PROVE  ListInv' /\ MadeInv'
<1> USE DEF upVars, mapVars, gameVars
<1>1. ASSUME NEW p \in Peers, RejectPacket(p) PROVE ListInv' /\ MadeInv'
  <2>1. /\ UNCHANGED <<client, order, thread, peerOf, players, overtaken>>
        /\ peer[p].hash \notin Held /\ peer' = [peer EXCEPT ![p].state = "closing"]
        /\ hello' = [hello EXCEPT ![p] = FALSE]
        /\ down' = [g \in Games |-> IF peerOf[g] = p THEN <<>> ELSE down[g]]
    BY <1>1 DEF RejectPacket, Close
  <2>2. Held' = Held /\ CurrentList' = CurrentList
    BY <2>1 DEF Held, CurrentList
  <2>3. LateHello => LateHello'
    <3>1. SUFFICES ASSUME NEW q \in Peers, hello[q], peer[q].hash \in Held PROVE LateHello'
      BY DEF LateHello
    <3>2. q # p
      BY <2>1, <3>1
    <3>3. hello'[q] /\ peer'[q].hash = peer[q].hash
      BY <2>1, <3>1, <3>2 DEF IInv, TypeOK
    <3> QED BY <2>2, <3>1, <3>3 DEF LateHello
  <2>4. ASSUME NEW g \in Games, Connected(g)' PROVE Connected(g) /\ down'[g] = down[g]
    <3>1. peerOf[g] \in Peers /\ peer'[peerOf[g]].state = "up"
      BY <2>1, <2>4 DEF Connected, IInv, TypeOK
    <3>2. peer'[p].state = "closing"
      <4>1. peer[p] \in [state : {"up", "closing"}, game : Games, hash : Hashes]
        BY <1>1 DEF RejectPacket, IInv, TypeOK, Free
      <4>2. peer'[p] = [peer[p] EXCEPT !.state = "closing"]
        BY <2>1 DEF IInv, TypeOK
      <4> QED BY <4>1, <4>2
    <3>3. peerOf[g] # p
      BY <3>1, <3>2
    <3>4. peer'[peerOf[g]] = peer[peerOf[g]]
      BY <2>1, <3>1, <3>3 DEF IInv, TypeOK
    <3>5. Connected(g)
      BY <2>1, <2>4, <3>1, <3>4 DEF Connected
    <3> QED BY <2>1, <3>3, <3>5
  <2>5. ListInv'
    BY <2>1, <2>2, <2>3, <2>4 DEF IInv, ListInv, Current
  <2>6. MadeInv'
    BY <2>1, <2>2, <2>3 DEF IInv, MadeInv
  <2> QED BY <2>5, <2>6
<1>2. ASSUME NEW p \in Peers, ReceiveHello(p) PROVE ListInv' /\ MadeInv'
  <2>1. /\ UNCHANGED <<peer, peerOf, players>> /\ SendPlayerList
        /\ thread' = Overtake(thread) /\ thread \in Threads
    BY <1>2 DEF ReceiveHello, IInv, TypeOK
  <2>2. \A g \in Games : Connected(g)' => Connected(g)
    BY <2>1 DEF Connected
  <2> QED BY <2>1, <2>2, ServerSends DEF IInv
<1>3. ASSUME NEW p \in Peers, ServerDisconnect(p) PROVE ListInv' /\ MadeInv'
  <2> DEFINE h == peer[p].hash
  <2>1. /\ UNCHANGED <<peerOf, players>> /\ peer' = [peer EXCEPT ![p] = Free]
        /\ hello' = [hello EXCEPT ![p] = FALSE]
    BY <1>3 DEF ServerDisconnect
  <2>2. ASSUME NEW g \in Games, Connected(g)' PROVE Connected(g)
    <3>1. peerOf[g] \in Peers /\ peer'[peerOf[g]].state = "up"
      BY <2>1, <2>2 DEF Connected, IInv, TypeOK
    <3>2. peerOf[g] # p
      BY <2>1, <3>1 DEF IInv, TypeOK, Free
    <3>3. peer'[peerOf[g]] = peer[peerOf[g]]
      BY <2>1, <3>1, <3>2 DEF IInv, TypeOK
    <3> QED BY <2>1, <2>2, <3>1, <3>3 DEF Connected
  <2>3. CASE h \in Held
    <3>1. thread' = Overtake(Erase(thread, h)) /\ SendPlayerList
      BY <1>3, <2>3 DEF ServerDisconnect, AnnounceLeave
    <3>2. Erase(thread, h) \in Threads
      BY <2>3, ThreadTypes, HeldTypes DEF IInv
    <3> QED BY <2>1, <2>2, <3>1, <3>2, ServerSends DEF IInv
  <2>4. CASE h \notin Held
    <3>1. UNCHANGED <<client, order, thread, down, overtaken>>
      BY <1>3, <2>4 DEF ServerDisconnect
    <3>2. Held' = Held /\ CurrentList' = CurrentList
      BY <3>1 DEF Held, CurrentList
    <3>3. LateHello => LateHello'
      <4>1. SUFFICES ASSUME NEW q \in Peers, hello[q], peer[q].hash \in Held
                     PROVE  LateHello'
        BY DEF LateHello
      <4>2. q # p
        BY <2>4, <4>1
      <4>3. hello'[q] /\ peer'[q].hash = peer[q].hash
        BY <2>1, <4>1, <4>2 DEF IInv, TypeOK
      <4> QED BY <3>2, <4>1, <4>3 DEF LateHello
    <3>4. ListInv'
      BY <2>1, <2>2, <3>1, <3>2, <3>3 DEF IInv, ListInv, Current
    <3>5. MadeInv'
      BY <3>1, <3>2, <3>3 DEF IInv, MadeInv
    <3> QED BY <3>4, <3>5
  <2> QED BY <2>3, <2>4
<1>4. CASE ThreadWrite
  BY <1>4 DEF ThreadWrite, Idle, ListInv, MadeInv
<1>5. CASE ThreadMake
  <2>1. /\ thread' = [thread EXCEPT !.step = "made", !.list = CurrentList]
        /\ CurrentList' = CurrentList
    BY <1>5 DEF ThreadMake, CurrentList
  <2>2. thread'.step = "made" /\ thread'.list = CurrentList
    BY <2>1 DEF IInv, TypeOK, Threads
  <2> QED BY <2>1, <2>2 DEF ListInv, MadeInv
<1>6. CASE ThreadSend
  <2>1. /\ thread.step = "made" /\ Broadcast(thread.list) /\ overtaken' = thread.late
        /\ thread' = Idle /\ UNCHANGED <<peer, hello, client, order, peerOf, players>>
    BY <1>6 DEF ThreadSend
  <2>2. CurrentList' = CurrentList /\ LateHello' = LateHello
    BY <2>1 DEF CurrentList, LateHello, Held
  <2>3. thread.late \/ LateHello \/ thread.list = CurrentList
    BY <2>1 DEF IInv, MadeInv
  <2>4. CASE thread.list = CurrentList
    <3>1. thread.list \in Seq(Entry)
      BY DEF IInv, TypeOK, Threads
    <3>2. \A g \in Games : Connected(g)' => Current(g)'
      BY <2>1, <2>2, <2>4, <3>1, ListFresh DEF IInv
    <3> QED BY <2>1, <3>2 DEF ListInv, MadeInv, Idle
  <2>5. CASE thread.late \/ LateHello
    BY <2>1, <2>2, <2>5 DEF ListInv, MadeInv, Idle
  <2> QED BY <2>3, <2>4, <2>5
<1>7. ASSUME NEW g \in Games, GameConnect(g) PROVE ListInv' /\ MadeInv'
  BY <1>7, GhostNew DEF ListInv, MadeInv
<1>8. ASSUME NEW g \in Games, SeeDisconnect(g) \/ LoseConnection(g)
      PROVE  ListInv' /\ MadeInv'
  <2>1. /\ UNCHANGED <<peer, hello, client, order, thread, players, overtaken>>
        /\ down' = [down EXCEPT ![g] = <<>>] /\ peerOf' = [peerOf EXCEPT ![g] = None]
    BY <1>8 DEF SeeDisconnect, LoseConnection
  <2>2. CurrentList' = CurrentList /\ LateHello' = LateHello
    BY <2>1 DEF CurrentList, LateHello, Held
  <2>3. ASSUME NEW k \in Games, Connected(k)' PROVE Connected(k) /\ down'[k] = down[k]
    <3>1. k # g
      BY <2>1, <2>3 DEF Connected, IInv, TypeOK
    <3> QED BY <2>1, <2>3, <3>1 DEF Connected, IInv, TypeOK
  <2> QED BY <2>1, <2>2, <2>3 DEF IInv, ListInv, MadeInv, Current
<1>9. ASSUME NEW g \in Games, ReceiveList(g) PROVE ListInv' /\ MadeInv'
  <2>1. /\ UNCHANGED <<peer, hello, client, order, thread, peerOf, overtaken>>
        /\ down[g] # <<>> /\ down' = [down EXCEPT ![g] = Tail(@)]
        /\ players' = [players EXCEPT ![g] = Head(down[g])]
    BY <1>9 DEF ReceiveList
  <2>2. CurrentList' = CurrentList /\ LateHello' = LateHello
    BY <2>1 DEF CurrentList, LateHello, Held
  <2>3. ASSUME NEW k \in Games, Connected(k)' PROVE Connected(k)
    BY <2>1, <2>3 DEF Connected
  <2>4. ASSUME NEW k \in Games, Current(k) PROVE Current(k)'
    <3>1. CASE k # g
      <4>1. down'[k] = down[k] /\ players'[k] = players[k]
        BY <2>1, <3>1 DEF IInv, TypeOK
      <4> QED BY <2>2, <2>4, <4>1 DEF Current
    <3>2. CASE k = g
      <4> DEFINE s == down[g]
      <4>1. s \in Seq(Seq(Entry)) /\ s # <<>> /\ s[Len(s)] = CurrentList
        BY <2>1, <2>4, <3>2 DEF Current, IInv, TypeOK
      <4>2. down'[g] = Tail(s) /\ players'[g] = Head(s)
        BY <2>1 DEF IInv, TypeOK
      <4> HIDE DEF s
      <4>3. /\ Len(s) \in Nat \ {0} /\ Tail(s) \in Seq(Seq(Entry)) /\ Head(s) = s[1]
            /\ Len(Tail(s)) = Len(s) - 1 /\ \A i \in 1 .. Len(s) - 1 : Tail(s)[i] = s[i + 1]
            /\ Tail(s) = <<>> <=> Len(Tail(s)) = 0
        <5>1. /\ Len(s) \in Nat \ {0} /\ Tail(s) \in Seq(Seq(Entry)) /\ Head(s) = s[1]
              /\ Len(Tail(s)) = Len(s) - 1
              /\ \A i \in 1 .. Len(s) - 1 : Tail(s)[i] = s[i + 1]
          BY <4>1, HeadTailProperties, EmptySeq
        <5>2. Tail(s) = <<>> <=> Len(Tail(s)) = 0
          BY <5>1, EmptySeq
        <5> QED BY <5>1, <5>2
      <4>4. CASE Len(s) = 1
        <5>1. Tail(s) = <<>>
          BY <4>3, <4>4
        <5> QED BY <2>2, <3>2, <4>1, <4>2, <4>3, <4>4, <5>1 DEF Current
      <4>5. CASE Len(s) # 1
        <5>1. Tail(s) # <<>> /\ Len(Tail(s)) \in 1 .. Len(s) - 1
          BY <4>3, <4>5
        <5>2. Tail(s)[Len(Tail(s))] = s[Len(s)]
          BY <4>3, <5>1
        <5> QED BY <2>2, <3>2, <4>1, <4>2, <5>1, <5>2 DEF Current
      <4> QED BY <4>4, <4>5
    <3> QED BY <3>1, <3>2
  <2> QED BY <2>1, <2>2, <2>3, <2>4 DEF IInv, ListInv, MadeInv
<1>10. CASE /\ UNCHANGED <<peer, hello, client, order, peerOf, down, players, overtaken>>
            /\ thread'.step = "made" => thread' = thread
            /\ thread.step \in {"typed", "made"} => thread' = thread
  <2>1. CurrentList' = CurrentList /\ LateHello' = LateHello
    BY <1>10 DEF CurrentList, LateHello, Held
  <2>2. \A g \in Games : Connected(g)' = Connected(g) /\ Current(g)' = Current(g)
    BY <1>10, <2>1 DEF Current, Connected
  <2>3. ListInv'
    BY <1>10, <2>1, <2>2 DEF IInv, ListInv
  <2>4. MadeInv'
    BY <1>10, <2>1 DEF IInv, MadeInv
  <2> QED BY <2>3, <2>4
<1>11. ASSUME NEW p \in Peers, ReceiveEnter(p) PROVE ListInv' /\ MadeInv'
  <2>1. UNCHANGED <<peer, hello, client, order, peerOf, down, players, overtaken>>
    BY <1>11 DEF ReceiveEnter
  <2>2. thread' = thread \/ (thread.step = "idle" /\ thread'.step = "started")
    <3> DEFINE t == [Idle EXCEPT !.step = "started", !.at = peer[p].hash,
                                 !.type = peer[p].game]
    <3>1. t.step = "started" /\ Idle.step = "idle"
      BY DEF Idle
    <3> HIDE DEF t
    <3>2. thread' = thread \/ (thread = Idle /\ thread' = t)
      BY <1>11 DEF ReceiveEnter, t
    <3> QED BY <3>1, <3>2
  <2>3. thread'.step = "made" => thread' = thread
    BY <2>2
  <2>4. thread.step \in {"typed", "made"} => thread' = thread
    BY <2>2
  <2> QED BY <1>10, <2>1, <2>3, <2>4
<1>12. ASSUME NEW g \in Games, EnterScene(g) PROVE ListInv' /\ MadeInv'
  BY <1>10, <1>12 DEF EnterScene
<1>13. CASE UNCHANGED vars
  BY <1>10, <1>13 DEF vars
<1> QED
  BY <1>1, <1>2, <1>3, <1>4, <1>5, <1>6, <1>7, <1>8, <1>9, <1>11, <1>12, <1>13
  DEF Next, ServerStep, ThreadStep, Rejoin

-----------------------------------------------------------------------------
(* A game takes itself for the host by the last list it read, and by no other. *)
LEMMA LocalStep ==
  ASSUME IInv, [Next]_vars
  PROVE  LocalInv'
<1> USE DEF gameVars
<1>1. ASSUME NEW g \in Games, ReceiveList(g) PROVE LocalInv'
  <2> DEFINE list == Head(down[g])
             mine == {i \in DOMAIN list : list[i].uid = g}
  <2>1. /\ players' = [players EXCEPT ![g] = list]
        /\ local' = [local EXCEPT ![g] =
                       IF mine = {} THEN IF @ = "null" THEN "null" ELSE "stale"
                       ELSE IF \E i \in mine : isHostClient(i, list)
                            THEN "host" ELSE "guest"]
    BY <1>1 DEF ReceiveList
  <2> HIDE DEF list
  <2>2. players'[g] = list /\ Mine(g)' = mine
    BY <2>1 DEF Mine, IInv, TypeOK
  <2>3. local'[g] = IF mine = {} THEN IF local[g] = "null" THEN "null" ELSE "stale"
                    ELSE IF \E i \in mine : isHostClient(i, list) THEN "host" ELSE "guest"
    BY <2>1 DEF IInv, TypeOK
  <2>4. ASSUME NEW k \in Games, k # g
        PROVE  Mine(k)' = Mine(k) /\ players'[k] = players[k] /\ local'[k] = local[k]
    BY <2>1, <2>4 DEF Mine, IInv, TypeOK
  <2> HIDE DEF mine
  <2>5. ASSUME NEW k \in Games
        PROVE  IF Mine(k)' = {} THEN local'[k] \in {"null", "stale"}
               ELSE local'[k] = IF \E i \in Mine(k)' : isHostClient(i, players'[k])
                                THEN "host" ELSE "guest"
    <3>1. CASE k = g
      BY <2>2, <2>3, <3>1
    <3>2. CASE k # g
      BY <2>4, <3>2 DEF IInv, LocalInv
    <3> QED BY <3>1, <3>2
  <2> QED BY <2>5 DEF LocalInv, isHostClient
<1>2. CASE UNCHANGED <<players, local>>
  BY <1>2 DEF IInv, LocalInv, Mine, isHostClient
<1>3. ASSUME NEW p \in Peers,
             RejectPacket(p) \/ ReceiveHello(p) \/ ReceiveEnter(p) \/ ServerDisconnect(p)
      PROVE  LocalInv'
  BY <1>2, <1>3 DEF RejectPacket, ReceiveHello, ReceiveEnter, ServerDisconnect
<1>4. CASE ThreadStep \/ UNCHANGED vars
  BY <1>2, <1>4 DEF ThreadStep, ThreadWrite, ThreadMake, ThreadSend, vars
<1>5. ASSUME NEW g \in Games,
             GameConnect(g) \/ SeeDisconnect(g) \/ EnterScene(g) \/ LoseConnection(g)
      PROVE  LocalInv'
  BY <1>2, <1>5 DEF GameConnect, SeeDisconnect, EnterScene, LoseConnection
<1> QED
  BY <1>1, <1>3, <1>4, <1>5 DEF Next, ServerStep, Rejoin

LEMMA InvStep ==
  ASSUME IInv, [Next]_vars
  PROVE  IInv'
<1>1. TypeOK'
  BY TypeStep DEF IInv
<1> QED BY <1>1, LinkStep, GhostStep, ListStep, LocalStep DEF IInv

LEMMA Invariant == Spec => []IInv
<1> QED BY InitInv, InvStep, PTL DEF Spec

-----------------------------------------------------------------------------
(* What the invariant says once everything has settled: the client of a key is
   that of a player who is there, *)
LEMMA SettledClients ==
  ASSUME IInv, Settled, NEW h \in Held
  PROVE  \E p \in Peers : Alive(p) /\ peer[p].game = client[h].uid
<1>1. PICK p \in Peers : Backs(p, h)
  BY DEF IInv, GhostInv
<1>2. h # None
  BY HeldTypes, NoneIsNone DEF IInv
<1>3. peer[p] # Free
  BY <1>1, <1>2 DEF Backs, Free
<1>4. Alive(p) /\ ~hello[p]
  BY <1>3 DEF Settled
<1> QED BY <1>1, <1>4 DEF Backs

(* and every game with a connection shows the server's list. *)
LEMMA SettledLists ==
  ASSUME IInv, Settled, ~overtaken, NEW g \in Games, peerOf[g] # None
  PROVE  players[g] = CurrentList
<1>1. peerOf[g] \in Peers /\ peer[peerOf[g]].game = g
  BY DEF IInv, TypeOK, LinkInv
<1>2. peer[peerOf[g]] # Free
  BY <1>1, NoneIsNone DEF Free
<1>3. Connected(g)
  BY <1>1, <1>2 DEF Connected, Settled, Alive
<1>4. ~LateHello
  <2>1. SUFFICES ASSUME NEW p \in Peers, hello[p], peer[p].hash \in Held PROVE FALSE
    BY DEF LateHello
  <2>2. peer[p].hash # None
    BY <2>1, HeldTypes, NoneIsNone DEF IInv
  <2> QED BY <2>1, <2>2 DEF Settled, Free
<1>5. thread.step = "idle"
  BY DEF Settled, Idle
<1>6. Current(g)
  BY <1>3, <1>4, <1>5 DEF IInv, ListInv
<1> QED BY <1>6 DEF Current, Settled

(* A listed player's game is told from the list whether it is the host. *)
LEMMA SettledHost ==
  ASSUME IInv, Settled, ~overtaken, NEW g \in Games, Listed(g)
  PROVE  local[g] \in {"host", "stale"} <=> client[order[Len(order)]].uid = g
<1> DEFINE n == Len(order)
<1>1. /\ n \in Nat /\ order \in Seq(Hashes) /\ client \in [Hashes -> Entry]
      /\ Held = {order[i] : i \in 1 .. n}
  BY HeldTypes DEF IInv, TypeOK
<1>2. PICK h \in Held : client[h].uid = g
  BY DEF Listed
<1>3. PICK p \in Peers : Alive(p) /\ peer[p].game = g
  BY <1>2, SettledClients
<1>4. peerOf[g] # None
  BY <1>3, NoneIsNone DEF Alive
<1>5. players[g] = ListOf(order, client)
  BY <1>4, SettledLists DEF CurrentList
<1>6. /\ Len(players[g]) = n /\ DOMAIN players[g] = 1 .. n
      /\ \A i \in 1 .. n : players[g][i] = client[order[i]]
  BY <1>1, <1>5, ListTypes
<1>7. PICK k \in 1 .. n : order[k] = h
  BY <1>1
<1> HIDE DEF n
<1>8. Mine(g) = {i \in 1 .. n : client[order[i]].uid = g} /\ k \in Mine(g)
  BY <1>2, <1>6, <1>7 DEF Mine
<1>9. (\E i \in Mine(g) : isHostClient(i, players[g])) <=> client[order[n]].uid = g
  <2>1. n \in 1 .. n
    BY <1>1, <1>7 DEF n
  <2> QED BY <1>6, <1>8, <2>1 DEF isHostClient
<1>10. local[g] = IF \E i \in Mine(g) : isHostClient(i, players[g]) THEN "host" ELSE "guest"
  BY <1>8 DEF IInv, LocalInv
<1> QED BY <1>9, <1>10 DEF n

LEMMA GhostsGone == IInv => NoGhostListed
BY SettledClients DEF NoGhostListed

LEMMA ListsAre == IInv => ListsSettle
BY SettledLists DEF ListsSettle

LEMMA HostIs == IInv => OneHost
<1> SUFFICES ASSUME IInv, Settled, ~overtaken, Held # {} PROVE
             \E g \in Games :
               {k \in Games : Listed(k) /\ local[k] \in {"host", "stale"}} = {g}
  BY DEF OneHost
<1> DEFINE n == Len(order)
           g == client[order[n]].uid
<1>1. n \in Nat /\ Held = {order[i] : i \in 1 .. n}
  BY HeldTypes DEF IInv
<1>2. n \in 1 .. n /\ order[n] \in Held
  BY <1>1
<1>3. PICK p \in Peers : Alive(p) /\ peer[p].game = g
  BY <1>2, SettledClients
<1>4. peer[p].game \in Games
  BY <1>3, PlaceTypes DEF Alive, IInv
<1>5. g \in Games
  BY <1>3, <1>4
<1>6. Listed(g)
  BY <1>2 DEF Listed
<1>7. \A k \in Games : Listed(k) => (local[k] \in {"host", "stale"} <=> g = k)
  BY SettledHost
<1> QED BY <1>5, <1>6, <1>7

-----------------------------------------------------------------------------
(* No variable leaves its domain; the player list never names a hash twice, and
   the pointer of the packet thread is at a client of some hash or at none
   (Server.cpp:95-200). *)
THEOREM TypeCorrect == Spec => []TypeOK
<1>1. IInv => TypeOK
  BY DEF IInv
<1> QED BY <1>1, Invariant, PTL

(* Once everything has settled the server lists only players that are there,
   whatever packet threads and shared hashes did (Server.cpp:131, 164). *)
THEOREM NoGhosts == Spec => []NoGhostListed
<1> QED BY Invariant, GhostsGone, PTL

(* Once everything has settled every game shows the list of the server, and one
   of the listed games, and only one, is the host (Server.cpp:174-200,
   MultiplayerManager.cpp:186-248). *)
THEOREM ListsAgree == Spec => [](ListsSettle /\ OneHost)
<1> QED BY Invariant, ListsAre, HostIs, PTL

=============================================================================
