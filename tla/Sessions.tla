------------------------------ MODULE Sessions ------------------------------
(***************************************************************************)
(* Who plays: the connections of the server, the clients it keeps by the   *)
(* hash of their address, the player list it makes of them, and what every *)
(* game makes of the list - among other things, which game is the host     *)
(* that times the disasters for all.                                       *)
(*                                                                         *)
(* mClients is ordered by the map that holds it, and the last entry of the *)
(* list is the host.  The thread that serves ToS_SingleModeSceneEnter keeps *)
(* the address of the client it was started for, also when that client has *)
(* been erased and the memory is another client's, or nobody's.            *)
(*                                                                         *)
(* mIsGhost is left out: no game sets it (NetClient.cpp:197).              *)
(***************************************************************************)
EXTENDS Integers, Sequences, FiniteSets

CONSTANTS
  Games,
  MaxPeers,  \* places of the ENet host
  Hashes,    \* what calcEnetAddressHashCode makes of an address
  None,
  MaxEnters, \* bound: scene changes
  MaxLosses, \* bound: lost connections
  MaxShared  \* bound: connections whose hash is in use

Peers == 1 .. MaxPeers

ASSUME SessionsAssumption ==
  /\ MaxPeers \in Nat
  /\ None \notin Games \cup Peers \cup Hashes
  /\ MaxEnters \in Nat
  /\ MaxLosses \in Nat
  /\ MaxShared \in Nat

VARIABLES
  peer,      \* per place: its state, the game behind it, the hash of its address
  hello,     \* per place: a ToS_Hello is on its way
  enter,     \* per place: a ToS_SingleModeSceneEnter is on its way
  client,    \* per hash: mUid and mPlayerType of its client
  order,     \* the keys of mClients, in the order of its iteration
  thread,    \* a packet thread of SceneEnter
  peerOf,    \* per game: its connection
  down,      \* per game: player lists on their way
  players,   \* per game: mPlayers
  local,     \* per game: what mLocalPlayer points to
  enters,    \* history: scene changes
  losses,    \* history: lost connections
  shared,    \* history: connections whose hash was in use
  overtaken  \* history: the last list sent was made before the one before it

upVars   == <<hello, enter>>
mapVars  == <<client, order>>
gameVars == <<players, local>>
histVars == <<enters, losses, shared>>
vars == <<peer, upVars, mapVars, thread, peerOf, down, gameVars, histVars, overtaken>>

(* A player in a list.  Of mPlayerType only whose choice it is. *)
Entry == [uid : Games \cup {None}, type : Games \cup {None}]

Blank == [uid |-> None, type |-> None]

(* The packet thread between its statements.  Its pointer is at the client of
   a hash, or at freed memory; late says that another list has been sent since
   its own was made. *)
Threads ==
  [step : {"idle", "started", "typed", "made"}, at : Hashes \cup {None},
   type : Games \cup {None}, list : Seq(Entry), late : BOOLEAN]

Idle == [step |-> "idle", at |-> None, type |-> None, list |-> <<>>, late |-> FALSE]

Free == [state |-> "free", game |-> None, hash |-> None]

TypeOK ==
  /\ peer \in [Peers -> [state : {"up", "closing"}, game : Games, hash : Hashes]
                          \cup {Free}]
  /\ hello \in [Peers -> BOOLEAN]
  /\ enter \in [Peers -> BOOLEAN]
  /\ client \in [Hashes -> Entry]
  /\ order \in Seq(Hashes)
  /\ \A i, j \in DOMAIN order : order[i] = order[j] => i = j
  /\ thread \in Threads
  /\ peerOf \in [Games -> Peers \cup {None}]
  /\ down \in [Games -> Seq(Seq(Entry))]
  /\ players \in [Games -> Seq(Entry)]
  /\ local \in [Games -> {"null", "guest", "host", "stale"}]
  /\ enters \in 0 .. MaxEnters
  /\ losses \in 0 .. MaxLosses
  /\ shared \in 0 .. MaxShared
  /\ overtaken \in BOOLEAN

Init ==
  /\ peer = [p \in Peers |-> Free]
  /\ hello = [p \in Peers |-> FALSE]
  /\ enter = [p \in Peers |-> FALSE]
  /\ client = [h \in Hashes |-> Blank]
  /\ order = <<>>
  /\ thread = Idle
  /\ peerOf = [g \in Games |-> None]
  /\ down = [g \in Games |-> <<>>]
  /\ players = [g \in Games |-> <<>>]
  /\ local = [g \in Games |-> "null"]
  /\ enters = 0 /\ losses = 0 /\ shared = 0 /\ overtaken = FALSE

-----------------------------------------------------------------------------
(* mClients. *)

(* mClients.contains. *)
Held == {order[i] : i \in DOMAIN order}

(* A map iterates over the same keys in the same order until one is added,
   and in any order after that. *)
Orders(S) == {s \in [1 .. Cardinality(S) -> S] : \A h \in S : \E i \in DOMAIN s : s[i] = h}

(* mClients[h] = Client(...), and a mutant that adds the ghost's key again. *)
Appends(h) == {Append(order, h)}

Insert(h) == Orders(Held \cup {h})

(* mClients.erase, and a mutant in which the client stays. *)
Stays(s, h) == s

Without(s, h) ==
  LET i == CHOOSE i \in DOMAIN s : s[i] = h
  IN  SubSeq(s, 1, i - 1) \o SubSeq(s, i + 1, Len(s))

(* makePlayerListPacket. *)
ListOf(keys, data) == [i \in 1 .. Len(keys) |-> data[keys[i]]]

CurrentList == ListOf(order, client)

(* A game whose connection the server has in its host, greeted or not. *)
Connected(g) == peerOf[g] # None /\ peer[peerOf[g]].state = "up"

(* enet_host_broadcast. *)
Broadcast(list) ==
  down' = [g \in Games |-> IF Connected(g) THEN Append(down[g], list) ELSE down[g]]

(* A list made and sent by the server thread. *)
SendPlayerList ==
  /\ Broadcast(ListOf(order', client'))
  /\ overtaken' = FALSE

(* The list after a DISCONNECT, and a mutant without one. *)
NoAnnouncement == UNCHANGED <<down, overtaken>>

AnnounceLeave == SendPlayerList

(* Whatever list the packet thread has made is now older than that. *)
Overtake(t) == [t EXCEPT !.late = @ \/ t.step = "made"]

(* What the pointer of the packet thread points to once a client is erased. *)
Erase(t, h) == IF t.at = h THEN [t EXCEPT !.at = None] ELSE t

-----------------------------------------------------------------------------
(* The games. *)

(* The scene's init hook. *)
EnterScene(g) ==
  /\ peerOf[g] # None
  /\ enters < MaxEnters
  /\ ~enter[peerOf[g]]
  /\ enters' = enters + 1
  /\ enter' = [enter EXCEPT ![peerOf[g]] = TRUE]
  /\ UNCHANGED <<peer, hello, mapVars, thread, peerOf, down, gameVars, losses,
                 shared, overtaken>>

(* The connection is gone for the game; what it has sent may still arrive. *)
LoseConnection(g) ==
  /\ peerOf[g] # None
  /\ losses < MaxLosses
  /\ losses' = losses + 1
  /\ down' = [down EXCEPT ![g] = <<>>]
  /\ peerOf' = [peerOf EXCEPT ![g] = None]
  /\ UNCHANGED <<peer, upVars, mapVars, thread, gameVars, enters, shared, overtaken>>

(* The server has closed the connection: exeService goes back to Connect. *)
SeeDisconnect(g) ==
  /\ peerOf[g] # None
  /\ peer[peerOf[g]].state = "closing"
  /\ down' = [down EXCEPT ![g] = <<>>]
  /\ peerOf' = [peerOf EXCEPT ![g] = None]
  /\ UNCHANGED <<peer, upVars, mapVars, thread, gameVars, histVars, overtaken>>

(* Which entry is the host, and a mutant that is off by one. *)
isHostClientEarly(i, list) == i = Len(list) - 1

isHostClient(i, list) == i = Len(list)

(* handlePlayerListPacket.  A list without the player leaves mLocalPlayer where
   it was, in an array whose elements are now those of the new list, so that
   mIsHostClient may be read either way. *)
ReceiveList(g) ==
  /\ down[g] # <<>>
  /\ LET list == Head(down[g])
         mine == {i \in DOMAIN list : list[i].uid = g}
         isHost == \E i \in mine : isHostClient(i, list)
     IN  /\ players' = [players EXCEPT ![g] = list]
         /\ local' = [local EXCEPT ![g] =
                        IF mine = {} THEN IF @ = "null" THEN "null" ELSE "stale"
                        ELSE IF isHost THEN "host" ELSE "guest"]
  /\ down' = [down EXCEPT ![g] = Tail(@)]
  /\ UNCHANGED <<peer, upVars, mapVars, thread, peerOf, histVars, overtaken>>

-----------------------------------------------------------------------------
(* exeService of the server. *)

(* The game has connected, and the server handles its CONNECT event: a client
   that has the hash is taken for a ghost and erased, and the memory of the new
   client may be that of an erased one.  ENet takes its first free place.  The
   game's port is a new one; that its hash is in use all the same is counted.
   Before that event the server does nothing for the place; after it come the
   game's packets, the ToS_Hello of the first step of exeService among them. *)
GameConnect(g) ==
  /\ peerOf[g] = None
  /\ \E p \in Peers, h \in Hashes :
       LET t == Erase(thread, h) IN
       /\ peer[p] = Free
       /\ \A q \in Peers : peer[q] = Free => p <= q
       /\ IF \E q \in Peers : peer[q].hash = h
          THEN shared < MaxShared /\ shared' = shared + 1
          ELSE UNCHANGED shared
       /\ peer' = [peer EXCEPT ![p] = [state |-> "up", game |-> g, hash |-> h]]
       /\ hello' = [hello EXCEPT ![p] = TRUE]
       /\ peerOf' = [peerOf EXCEPT ![g] = p]
       /\ client' = [client EXCEPT ![h] = Blank]
       /\ order' \in Insert(h)
       /\ \/ thread' = t
          \/ t.step = "started" /\ t.at = None /\ thread' = [t EXCEPT !.at = h]
  /\ UNCHANGED <<enter, down, gameVars, enters, losses, overtaken>>

(* enet_peer_disconnect, and a mutant that only drops the packet. *)
StaysOpen(p) == peer

Close(p) == [peer EXCEPT ![p].state = "closing"]

(* RECEIVE from a place whose hash no client has: the connection is closed,
   which drops what is queued in either direction.  The packet is one of those
   modelled, or a pose of a player that moves. *)
RejectPacket(p) ==
  /\ peer[p].state = "up"
  /\ hello[p] \/ enter[p] \/ peerOf[peer[p].game] = p
  /\ peer[p].hash \notin Held
  /\ peer' = Close(p)
  /\ hello' = [hello EXCEPT ![p] = FALSE]
  /\ enter' = [enter EXCEPT ![p] = FALSE]
  /\ down' = [g \in Games |-> IF peerOf[g] = p THEN <<>> ELSE down[g]]
  /\ UNCHANGED <<mapVars, thread, peerOf, gameVars, histVars, overtaken>>

(* handleGreet: the player is who says so, whatever place the client has. *)
ReceiveHello(p) ==
  /\ peer[p].state = "up"
  /\ hello[p]
  /\ peer[p].hash \in Held
  /\ hello' = [hello EXCEPT ![p] = FALSE]
  /\ client' = [client EXCEPT ![peer[p].hash].uid = peer[p].game]
  /\ thread' = Overtake(thread)
  /\ UNCHANGED order
  /\ SendPlayerList
  /\ UNCHANGED <<peer, enter, peerOf, gameVars, histVars>>

(* ToS_SingleModeSceneEnter, for a thread of its own; dropped before greeting. *)
ReceiveEnter(p) ==
  /\ peer[p].state = "up"
  /\ enter[p]
  /\ peer[p].hash \in Held
  /\ enter' = [enter EXCEPT ![p] = FALSE]
  /\ IF client[peer[p].hash].uid = None THEN UNCHANGED thread
     ELSE /\ thread = Idle
          /\ thread' = [Idle EXCEPT !.step = "started", !.at = peer[p].hash,
                                    !.type = peer[p].game]
  /\ UNCHANGED <<peer, hello, mapVars, peerOf, down, gameVars, histVars, overtaken>>

(* DISCONNECT: a timeout, the game's leave, or the end of enet_peer_disconnect.
   It erases the client of the hash, whichever place that client has. *)
ServerDisconnect(p) ==
  LET h == peer[p].hash IN
  /\ peer[p] # Free
  /\ peerOf[peer[p].game] # p
  /\ peer' = [peer EXCEPT ![p] = Free]
  /\ hello' = [hello EXCEPT ![p] = FALSE]
  /\ enter' = [enter EXCEPT ![p] = FALSE]
  /\ IF h \in Held
     THEN /\ client' = [client EXCEPT ![h] = Blank]
          /\ order' = Without(order, h)
          /\ thread' = Overtake(Erase(thread, h))
          /\ AnnounceLeave
     ELSE UNCHANGED <<mapVars, thread, down, overtaken>>
  /\ UNCHANGED <<peerOf, gameVars, histVars>>

-----------------------------------------------------------------------------
(* The thread of handleSingleModeSceneEnter, up to the list it sends. *)

(* client->mPlayerType, through a pointer to what may by now be another client,
   or no memory of a client at all. *)
ThreadWrite ==
  /\ thread.step = "started"
  /\ client' = IF thread.at = None THEN client
               ELSE [client EXCEPT ![thread.at].type = thread.type]
  /\ thread' = [Idle EXCEPT !.step = "typed"]
  /\ UNCHANGED <<peer, upVars, order, peerOf, down, gameVars, histVars, overtaken>>

ThreadMake ==
  /\ thread.step = "typed"
  /\ thread' = [thread EXCEPT !.step = "made", !.list = CurrentList]
  /\ UNCHANGED <<peer, upVars, mapVars, peerOf, down, gameVars, histVars, overtaken>>

ThreadSend ==
  /\ thread.step = "made"
  /\ Broadcast(thread.list)
  /\ overtaken' = thread.late
  /\ thread' = Idle
  /\ UNCHANGED <<peer, upVars, mapVars, peerOf, gameVars, histVars>>

ServerStep ==
  \E p \in Peers :
    RejectPacket(p) \/ ReceiveHello(p) \/ ReceiveEnter(p) \/ ServerDisconnect(p)

ThreadStep == ThreadWrite \/ ThreadMake \/ ThreadSend

Rejoin(g) == GameConnect(g) \/ SeeDisconnect(g)

Next ==
  \/ ServerStep
  \/ ThreadStep
  \/ \E g \in Games :
       Rejoin(g) \/ EnterScene(g) \/ LoseConnection(g) \/ ReceiveList(g)

(* Every thread keeps running, a game in Connect tries again and again, and a
   player that plays moves: its game sends poses. *)
Fairness ==
  /\ WF_vars(ThreadStep)
  /\ \A g \in Games : WF_vars(Rejoin(g)) /\ WF_vars(ReceiveList(g))
  /\ \A p \in Peers :
       /\ WF_vars(RejectPacket(p))
       /\ WF_vars(ReceiveHello(p))
       /\ WF_vars(ServerDisconnect(p))

Spec == Init /\ [][Next]_vars
FairSpec == Spec /\ Fairness

-----------------------------------------------------------------------------
Alive(p) == peer[p].state = "up" /\ peerOf[peer[p].game] = p

(* Nothing is on its way, and every connection is one of a game that plays. *)
Settled ==
  /\ thread = Idle
  /\ \A p \in Peers : (Alive(p) /\ ~hello[p] /\ ~enter[p]) \/ peer[p] = Free
  /\ \A g \in Games : down[g] = <<>>

Listed(g) == \E h \in Held : client[h].uid = g

(* Once everything has settled the server lists only players that are there,
   although a DISCONNECT may come late, a hash may be shared, and a client is
   found by the hash of the address alone (Server.cpp:131, 164). *)
NoGhostListed ==
  Settled => \A h \in Held : \E p \in Peers : Alive(p) /\ peer[p].game = client[h].uid

(* Once everything has settled every game shows the list of the server, unless
   the last list sent was one that a packet thread had made before another. *)
ListsSettle ==
  Settled /\ ~overtaken => \A g \in Games : peerOf[g] # None => players[g] = CurrentList

(* Then one of the listed games, and only one, times the disasters. *)
OneHost ==
  Settled /\ ~overtaken /\ Held # {} =>
    \E g \in Games : {k \in Games : Listed(k) /\ local[k] \in {"host", "stale"}} = {g}

(* A game whose client was erased under it by somebody else's CONNECT or
   DISCONNECT is in the list again some time after, for its next pose is
   rejected and it connects anew. *)
ErasedComesBack ==
  \A g \in Games :
    (\E p \in Peers : Alive(p) /\ peer[p].game = g /\ peer[p].hash \notin Held) ~> Listed(g)
==============================================================================
