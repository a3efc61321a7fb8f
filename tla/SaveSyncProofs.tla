--------------------------- MODULE SaveSyncProofs ---------------------------
(***************************************************************************)
(* Proofs about the shared save end to end, for any number of players,     *)
(* slots, workers, chunks and saves.  What SaveServerProofs has about the  *)
(* server is used through an instance of it.                               *)
(***************************************************************************)
EXTENDS SaveSync, SequenceTheorems, TLAPS

Server == INSTANCE SaveServerProofs

-----------------------------------------------------------------------------
(* The operators of the two instances are the same. *)
LEMMA ServerAssumption == Server!SaveServerAssumption
BY SaveSyncAssumption DEF Server!SaveServerAssumption, Server!Contents, Server!Chunks,
   Images

LEMMA SameConnect ==
  ASSUME NEW s, Srv!Connect(s)
  PROVE  Server!Connect(s)
BY DEF Srv!Connect, Server!Connect, Srv!transferVars, Server!transferVars,
   Srv!workerVars, Server!workerVars, Srv!saveVars, Server!saveVars,
   Srv!ServerThreadFree, Server!ServerThreadFree

LEMMA SameGreet ==
  ASSUME NEW s, NEW w, Srv!Greet(s, w)
  PROVE  Server!Greet(s, w)
BY DEF Srv!Greet, Server!Greet, Srv!transferVars, Server!transferVars, Srv!saveVars,
   Server!saveVars, Srv!ServerThreadFree, Server!ServerThreadFree

LEMMA SameDisconnect ==
  ASSUME NEW s, Srv!Disconnect(s)
  PROVE  Server!Disconnect(s)
BY DEF Srv!Disconnect, Server!Disconnect, Srv!transferVars, Server!transferVars,
   Srv!workerVars, Server!workerVars, Srv!saveVars, Server!saveVars,
   Srv!ServerThreadFree, Server!ServerThreadFree

LEMMA SameIgnoreChunk ==
  ASSUME NEW s, NEW fits, Srv!IgnoreChunk(s, fits)
  PROVE  Server!IgnoreChunk(s, fits)
BY DEF Srv!IgnoreChunk, Server!IgnoreChunk, Srv!workerVars, Server!workerVars,
   Srv!saveVars, Server!saveVars, Srv!ServerThreadFree, Server!ServerThreadFree,
   Srv!Owner, Server!Owner, Srv!SizeSoFar, Server!SizeSoFar

LEMMA SameStoreChunk ==
  ASSUME NEW s, NEW i, NEW img, Srv!StoreChunk(s, i, img)
  PROVE  Server!StoreChunk(s, i, img)
BY DEF Srv!StoreChunk, Server!StoreChunk, Srv!Chunks, Server!Chunks, Srv!workerVars,
   Server!workerVars, Srv!saveVars, Server!saveVars, Srv!ServerThreadFree,
   Server!ServerThreadFree, Srv!Owner, Server!Owner, Srv!SizeSoFar, Server!SizeSoFar

LEMMA SameCommitSave ==
  ASSUME Srv!CommitSave
  PROVE  Server!CommitSave
BY DEF Srv!CommitSave, Server!CommitSave, Srv!Chunks, Server!Chunks, Srv!transferVars,
   Server!transferVars, Srv!workerVars, Server!workerVars, Srv!MutexFree,
   Server!MutexFree

LEMMA SameWorkerLock ==
  ASSUME NEW w, Srv!WorkerLock(w)
  PROVE  Server!WorkerLock(w)
BY DEF Srv!WorkerLock, Server!WorkerLock, Srv!transferVars, Server!transferVars,
   Srv!saveVars, Server!saveVars, Srv!MutexFree, Server!MutexFree

LEMMA SameWorkerSend ==
  ASSUME NEW w, Srv!WorkerSend(w)
  PROVE  Server!WorkerSend(w)
BY DEF Srv!WorkerSend, Server!WorkerSend, Srv!transferVars, Server!transferVars,
   Srv!saveVars, Server!saveVars

LEMMA SameWorkerUnlock ==
  ASSUME NEW w, Srv!WorkerUnlock(w)
  PROVE  Server!WorkerUnlock(w)
BY DEF Srv!WorkerUnlock, Server!WorkerUnlock, Srv!Chunks, Server!Chunks,
   Srv!transferVars, Server!transferVars, Srv!saveVars, Server!saveVars,
   Srv!ReleaseMutex, Server!ReleaseMutex

LEMMA SameResetSave ==
  ASSUME Srv!ResetSave
  PROVE  Server!ResetSave
BY DEF Srv!ResetSave, Server!ResetSave, Srv!Chunks, Server!Chunks, Srv!transferVars,
   Server!transferVars, Srv!workerVars, Server!workerVars, Srv!MutexFree,
   Server!MutexFree

LEMMA SameStep == ASSUME [Srv!Next]_(Srv!vars) PROVE [Server!Next]_(Server!vars)
<1>1. Srv!Next => Server!Next
  BY SameConnect, SameGreet, SameDisconnect, SameIgnoreChunk, SameStoreChunk,
     SameCommitSave, SameWorkerLock, SameWorkerSend, SameWorkerUnlock, SameResetSave DEF
     Srv!Next, Server!Next, Srv!ServerStep, Server!ServerStep, Srv!WorkerStep,
     Server!WorkerStep, Srv!Chunks, Server!Chunks
<1>2. UNCHANGED Srv!vars => UNCHANGED Server!vars
  BY DEF Srv!vars, Server!vars
<1> QED BY <1>1, <1>2

LEMMA SameInit == ASSUME Srv!Init PROVE Server!Init
BY DEF Srv!Init, Server!Init, Srv!Chunks, Server!Chunks

-----------------------------------------------------------------------------
(* What a player's game has.  It plays once it has all chunks; only a game that
   plays saves, and only one that saved has anything to upload, so that the zeroes
   of an empty buffer never reach the server.  A connection that is lost takes what
   is under way with it. *)
PlayerInv ==
  \A p \in Players :
    /\ hello[p] \/ upNet[p] # <<>> \/ downNet[p] # <<>> => Connected(p)
    /\ \A i \in got[p] : buf[p][i] \in Images
    /\ phase[p] = "playing" => got[p] = Chunks
    /\ written[p] = 0 => copied[p] = ChunkCount /\ upAt[p] = ChunkCount /\ ~signaled[p]
    /\ written[p] # 0 => p \in Writers /\ phase[p] = "playing"

(* The history has the content of the shared save. *)
SharedInv == sharedSave \in everShared /\ everShared \subseteq Srv!Contents

(* What SaveServerProofs shows of the server. *)
ServerInv == Server!IInv /\ Server!OneHolder /\ Server!WorkerProgress

(* The types of what is not the server's. *)
LocalOK ==
  /\ at \in [Players -> Slots \cup {NoSlot}]
  /\ hello \in [Players -> BOOLEAN]
  /\ phase \in [Players -> {"menu", "connected", "download", "playing"}]
  /\ got \in [Players -> SUBSET Chunks]
  /\ buf \in [Players -> [Chunks -> Images \cup {Zero}]]
  /\ written \in [Players -> 0 .. MaxWrites]
  /\ copied \in [Players -> 0 .. ChunkCount]
  /\ signaled \in [Players -> BOOLEAN]
  /\ upAt \in [Players -> 0 .. ChunkCount]
  /\ upNet \in [Players -> Seq(Chunks \X Images)]
  /\ downNet \in [Players -> Seq(Chunks \X Images)]
  /\ joins \in [Players -> 0 .. MaxJoins]

IInv == ServerInv /\ LocalOK /\ PlayerInv /\ SharedInv

LEMMA ServerInit == Srv!Init => ServerInv
BY SameInit, ServerAssumption, Server!InitInv, Server!LockInit DEF ServerInv

LEMMA ServerNext == ASSUME ServerInv, [Srv!Next]_(Srv!vars) PROVE ServerInv'
<1>1. [Server!Next]_(Server!vars)
  BY SameStep
<1>2. Server!IInv'
  BY <1>1, ServerAssumption, Server!NextInv DEF ServerInv
<1>3. Server!OneHolder' /\ Server!WorkerProgress'
  BY <1>1, ServerAssumption, Server!LockNext DEF ServerInv, Server!IInv
<1> QED BY <1>2, <1>3 DEF ServerInv

LEMMA ServerTypes == ServerInv => Srv!TypeOK
BY DEF ServerInv, Server!IInv, Server!TypeOK, Srv!TypeOK, Server!Contents, Srv!Contents,
   Server!Chunks, Srv!Chunks

LEMMA InvTypes == IInv => TypeOK
BY ServerTypes DEF IInv, LocalOK, TypeOK

-----------------------------------------------------------------------------
(* Sequences of chunks on their way. *)
LEMMA ChunkTypes ==
  /\ ChunkCount \in Nat \ {0} /\ Chunks = 0 .. ChunkCount - 1
  /\ Srv!Chunks = Chunks /\ Srv!Contents = [Chunks -> Images]
  /\ DefaultImage \in Images
  /\ NoSlot \notin Slots
BY SaveSyncAssumption DEF Chunks, Srv!Chunks, Srv!Contents, Images

LEMMA FirstChunk ==
  ASSUME NEW S, NEW s \in Seq(S), s # <<>>
  PROVE  Head(s) \in S /\ Tail(s) \in Seq(S)
BY HeadTailProperties

LEMMA LastChunk ==
  ASSUME NEW S, NEW s \in Seq(S), NEW m \in S
  PROVE  Append(s, m) \in Seq(S) /\ Append(s, m) # <<>>
BY AppendProperties

LEMMA SaveImage ==
  ASSUME LocalOK, NEW p \in Writers, written[p] # 0
  PROVE  <<p, written[p]>> \in Images
<1>1. written[p] \in 1 .. MaxWrites
  BY SaveSyncAssumption DEF LocalOK
<1> QED BY <1>1 DEF Images

LEMMA WholeTypes ==
  /\ Whole(Zero) \in [Chunks -> Images \cup {Zero}]
BY ChunkTypes DEF Whole

-----------------------------------------------------------------------------
(* The initial states. *)
LEMMA InitInv == Init => IInv
<1> SUFFICES ASSUME Init PROVE IInv
  OBVIOUS
<1>1. ServerInv
  BY ServerInit DEF Init
<1>2. sharedSave \in Srv!Contents
  BY <1>1, ServerTypes DEF Srv!TypeOK
<1>3. SharedInv
  BY <1>2 DEF Init, SharedInv
<1>4. LocalOK
  <2>1. 0 \in 0 .. MaxWrites /\ 0 \in 0 .. MaxJoins /\ ChunkCount \in 0 .. ChunkCount
    BY SaveSyncAssumption
  <2>2. <<>> \in Seq(Chunks \X Images)
    BY EmptySeq
  <2>3. /\ at \in [Players -> Slots \cup {NoSlot}]
        /\ hello \in [Players -> BOOLEAN]
        /\ phase \in [Players -> {"menu", "connected", "download", "playing"}]
        /\ got \in [Players -> SUBSET Chunks]
        /\ buf \in [Players -> [Chunks -> Images \cup {Zero}]]
    BY WholeTypes DEF Init
  <2>4. /\ written \in [Players -> 0 .. MaxWrites]
        /\ copied \in [Players -> 0 .. ChunkCount]
        /\ signaled \in [Players -> BOOLEAN]
        /\ upAt \in [Players -> 0 .. ChunkCount]
        /\ upNet \in [Players -> Seq(Chunks \X Images)]
        /\ downNet \in [Players -> Seq(Chunks \X Images)]
        /\ joins \in [Players -> 0 .. MaxJoins]
    BY <2>1, <2>2 DEF Init
  <2> QED BY <2>3, <2>4 DEF LocalOK
<1>5. PlayerInv
  BY DEF Init, PlayerInv, Connected
<1> QED BY <1>1, <1>3, <1>4, <1>5 DEF IInv

-----------------------------------------------------------------------------
(* Every step is one of the server or none of its business. *)
LEMMA ServerStep == ASSUME IInv, Next PROVE [Srv!Next]_(Srv!vars)
<1>1. CASE UNCHANGED srvVars
  BY <1>1 DEF srvVars, Srv!vars
<1>2. ASSUME NEW p \in Players, NEW s \in Slots, Join(p, s) PROVE Srv!Next
  BY <1>2 DEF Join, Srv!Next, Srv!ServerStep
<1>3. ASSUME NEW p \in Players, NEW w \in Workers, Greet(p, w) PROVE Srv!Next
  <2>1. at[p] \in Slots
    BY <1>3 DEF Greet, IInv, PlayerInv, LocalOK, Connected
  <2> QED BY <1>3, <2>1 DEF Greet, Srv!Next, Srv!ServerStep
<1>4. ASSUME NEW p \in Players, DeliverChunk(p), ~UNCHANGED srvVars PROVE Srv!Next
  <2>1. at[p] \in Slots
    BY <1>4 DEF DeliverChunk, IInv, PlayerInv, LocalOK, Connected
  <2>2. Head(upNet[p])[1] \in Srv!Chunks /\ Head(upNet[p])[2] \in Images
    <3>1. upNet[p] \in Seq(Chunks \X Images)
      BY DEF IInv, LocalOK
    <3>2. Head(upNet[p]) \in Chunks \X Images
      BY <1>4, <3>1, FirstChunk DEF DeliverChunk
    <3> QED BY <3>2, ChunkTypes
  <2>3. \/ Srv!StoreChunk(at[p], Head(upNet[p])[1], Head(upNet[p])[2])
        \/ Srv!IgnoreChunk(at[p], TRUE)
    BY <1>4 DEF DeliverChunk
  <2> QED BY <2>1, <2>2, <2>3 DEF Srv!Next, Srv!ServerStep
<1>5. ASSUME NEW s \in Slots, ServerNotices(s) PROVE Srv!Next
  BY <1>5 DEF ServerNotices, Srv!Next, Srv!ServerStep
<1>6. ASSUME NEW w \in Workers, WorkerTurn(w) PROVE Srv!Next
  BY <1>6 DEF WorkerTurn, WorkerSend, Srv!Next, Srv!WorkerStep
<1>7. CommitSave => Srv!Next
  BY DEF CommitSave, Srv!Next, Srv!ServerStep
<1>8. ASSUME NEW p \in Players,
             GameStep(p) \/ BeginWrite(p) \/ UploadStep(p) \/ ReceiveChunk(p) \/ Leave(p)
      PROVE  UNCHANGED srvVars
  BY <1>8 DEF GameStep, StartDownload, FinishDownload, AbortDownload, CopyChunk,
     BeginWrite, UploadStep, UploadStart, UploadSend, ReceiveChunk, Leave
<1> QED
  BY <1>1, <1>2, <1>3, <1>4, <1>5, <1>6, <1>7, <1>8 DEF Next

-----------------------------------------------------------------------------
(* What the steps do to the rest: the connections, *)
LEMMA JoinLocal ==
  ASSUME IInv, NEW p \in Players, NEW s \in Slots, Join(p, s)
  PROVE  LocalOK' /\ PlayerInv' /\ SharedInv'
<1>1. /\ at' = [at EXCEPT ![p] = s] /\ hello' = [hello EXCEPT ![p] = TRUE]
      /\ joins' = [joins EXCEPT ![p] = joins[p] + 1] /\ joins[p] < MaxJoins
      /\ phase' = [phase EXCEPT ![p] = IF phase[p] = "menu" THEN "connected" ELSE phase[p]]
      /\ UNCHANGED <<got, buf, written, copied, signaled, upAt, upNet, downNet,
                     everShared, sharedSave>>
  BY DEF Join, threadVars, Srv!Connect, Srv!saveVars
<1>2. joins[p] + 1 \in 0 .. MaxJoins
  BY <1>1, SaveSyncAssumption DEF IInv, LocalOK
<1>3. LocalOK'
  BY <1>1, <1>2 DEF IInv, LocalOK
<1>4. PlayerInv'
  <2> SUFFICES ASSUME NEW q \in Players PROVE PlayerInv!(q)'
    BY DEF PlayerInv
  <2>1. at'[q] = IF q = p THEN s ELSE at[q]
    BY <1>1 DEF IInv, LocalOK
  <2>2. Connected(q)' <=> (q = p \/ Connected(q))
    BY <2>1, ChunkTypes DEF Connected
  <2>3. hello'[q] => q = p \/ hello[q]
    BY <1>1 DEF IInv, LocalOK
  <2>4. phase'[q] = "playing" <=> phase[q] = "playing"
    BY <1>1 DEF IInv, LocalOK
  <2> QED BY <1>1, <2>2, <2>3, <2>4 DEF IInv, PlayerInv
<1>5. SharedInv'
  BY <1>1 DEF IInv, SharedInv, Srv!Contents, Srv!Chunks
<1> QED BY <1>3, <1>4, <1>5

LEMMA GreetLocal ==
  ASSUME IInv, NEW p \in Players, NEW w \in Workers, Greet(p, w)
  PROVE  LocalOK' /\ PlayerInv' /\ SharedInv'
<1>1. /\ hello' = [hello EXCEPT ![p] = FALSE]
      /\ UNCHANGED <<at, phase, got, buf, written, copied, signaled, upAt, upNet, downNet,
                     joins, everShared, sharedSave>>
  BY DEF Greet, threadVars, Srv!Greet, Srv!saveVars
<1>2. LocalOK'
  BY <1>1 DEF IInv, LocalOK
<1>3. \A q \in Players : hello'[q] => hello[q]
  BY <1>1 DEF IInv, LocalOK
<1>4. PlayerInv'
  BY <1>1, <1>3 DEF IInv, PlayerInv, Connected
<1>5. SharedInv'
  BY <1>1 DEF IInv, SharedInv, Srv!Contents, Srv!Chunks
<1> QED BY <1>2, <1>4, <1>5

LEMMA LeaveLocal ==
  ASSUME IInv, NEW p \in Players, Leave(p)
  PROVE  LocalOK' /\ PlayerInv' /\ SharedInv'
<1>1. /\ at' = [at EXCEPT ![p] = NoSlot]
      /\ hello' = [hello EXCEPT ![p] = FALSE]
      /\ upNet' = [upNet EXCEPT ![p] = <<>>]
      /\ downNet' = [downNet EXCEPT ![p] = <<>>]
      /\ UNCHANGED <<phase, got, buf, written, copied, signaled, upAt, joins,
                     everShared, sharedSave>>
  BY DEF Leave, threadVars, srvVars
<1>2. <<>> \in Seq(Chunks \X Images)
  BY EmptySeq
<1>3. LocalOK'
  BY <1>1, <1>2 DEF IInv, LocalOK
<1>4. PlayerInv'
  <2> SUFFICES ASSUME NEW q \in Players PROVE PlayerInv!(q)'
    BY DEF PlayerInv
  <2>1. q # p => /\ at'[q] = at[q] /\ hello'[q] = hello[q]
                 /\ upNet'[q] = upNet[q] /\ downNet'[q] = downNet[q]
    BY <1>1 DEF IInv, LocalOK
  <2>2. q = p => ~hello'[q] /\ upNet'[q] = <<>> /\ downNet'[q] = <<>>
    BY <1>1 DEF IInv, LocalOK
  <2> QED BY <1>1, <2>1, <2>2 DEF IInv, PlayerInv, Connected
<1>5. SharedInv'
  BY <1>1 DEF IInv, SharedInv, Srv!Contents, Srv!Chunks
<1> QED BY <1>3, <1>4, <1>5

(* the title menu, *)
LEMMA MenuLocal ==
  ASSUME IInv, NEW p \in Players,
         StartDownload(p) \/ FinishDownload(p) \/ AbortDownload(p)
  PROVE  LocalOK' /\ PlayerInv' /\ SharedInv'
<1>1. UNCHANGED <<at, hello, written, copied, signaled, upAt, upNet, downNet, joins,
                  everShared, sharedSave>>
  BY DEF StartDownload, FinishDownload, AbortDownload, threadVars, srvVars
<1>2. SharedInv'
  BY <1>1 DEF IInv, SharedInv, Srv!Contents, Srv!Chunks
<1>3. CASE StartDownload(p) \/ AbortDownload(p)
  <2>1. /\ phase[p] # "playing"
        /\ \E x \in {"download", "menu"} : phase' = [phase EXCEPT ![p] = x]
        /\ got' = [got EXCEPT ![p] = {}]
        /\ buf' = [buf EXCEPT ![p] = Whole(Zero)]
    BY <1>3 DEF StartDownload, AbortDownload
  <2>2. LocalOK'
    BY <1>1, <2>1, WholeTypes DEF IInv, LocalOK
  <2>3. PlayerInv'
    <3> SUFFICES ASSUME NEW q \in Players PROVE PlayerInv!(q)'
      BY DEF PlayerInv
    <3>1. q # p => phase'[q] = phase[q] /\ got'[q] = got[q] /\ buf'[q] = buf[q]
      BY <2>1 DEF IInv, LocalOK
    <3>2. q = p => phase'[q] # "playing" /\ got'[q] = {}
      BY <2>1 DEF IInv, LocalOK
    <3> QED BY <1>1, <2>1, <3>1, <3>2 DEF IInv, PlayerInv, Connected
  <2> QED BY <1>2, <2>2, <2>3
<1>4. CASE FinishDownload(p)
  <2>1. /\ phase' = [phase EXCEPT ![p] = "playing"] /\ got[p] = Chunks
        /\ UNCHANGED <<got, buf>>
    BY <1>4 DEF FinishDownload, AllChunks
  <2>2. LocalOK'
    BY <1>1, <2>1 DEF IInv, LocalOK
  <2>3. \A q \in Players : phase'[q] = IF q = p THEN "playing" ELSE phase[q]
    BY <2>1 DEF IInv, LocalOK
  <2>4. PlayerInv'
    BY <1>1, <2>1, <2>3 DEF IInv, PlayerInv, Connected
  <2> QED BY <1>2, <2>2, <2>4
<1> QED BY <1>3, <1>4

LEMMA ReceiveLocal ==
  ASSUME IInv, NEW p \in Players, ReceiveChunk(p)
  PROVE  LocalOK' /\ PlayerInv' /\ SharedInv'
<1> DEFINE i == Head(downNet[p])[1]
           img == Head(downNet[p])[2]
<1>1. /\ downNet[p] # <<>>
      /\ buf' = [buf EXCEPT ![p] = [buf[p] EXCEPT ![i] = img]]
      /\ got' = [got EXCEPT ![p] = got[p] \cup {i}]
      /\ downNet' = [downNet EXCEPT ![p] = Tail(downNet[p])]
      /\ UNCHANGED <<at, hello, phase, written, copied, signaled, upAt, upNet, joins,
                     everShared, sharedSave>>
  BY DEF ReceiveChunk, threadVars, srvVars
<1>2. /\ Head(downNet[p]) \in Chunks \X Images
      /\ Tail(downNet[p]) \in Seq(Chunks \X Images)
  BY <1>1, FirstChunk DEF IInv, LocalOK
<1>3. i \in Chunks /\ img \in Images
  BY <1>2
<1> HIDE DEF i, img
<1>4. [buf[p] EXCEPT ![i] = img] \in [Chunks -> Images \cup {Zero}]
  BY <1>3 DEF IInv, LocalOK
<1>5. LocalOK'
  BY <1>1, <1>2, <1>3, <1>4 DEF IInv, LocalOK
<1>6. PlayerInv'
  <2> SUFFICES ASSUME NEW q \in Players PROVE PlayerInv!(q)'
    BY DEF PlayerInv
  <2>1. q # p => got'[q] = got[q] /\ buf'[q] = buf[q] /\ downNet'[q] = downNet[q]
    BY <1>1 DEF IInv, LocalOK
  <2>2. q = p => /\ got'[q] = got[q] \cup {i} /\ buf'[q] = [buf[q] EXCEPT ![i] = img]
                 /\ downNet[q] # <<>>
    BY <1>1 DEF IInv, LocalOK
  <2>3. got[q] \subseteq Chunks /\ buf[q] \in [Chunks -> Images \cup {Zero}]
    BY DEF IInv, LocalOK
  <2>4. \A k \in got'[q] : buf'[q][k] \in Images
    BY <1>3, <2>1, <2>2, <2>3 DEF IInv, PlayerInv
  <2>5. phase'[q] = "playing" => got'[q] = Chunks
    BY <1>1, <1>3, <2>1, <2>2, <2>3 DEF IInv, PlayerInv
  <2>6. downNet'[q] # <<>> => downNet[q] # <<>>
    BY <2>1, <2>2
  <2> QED BY <1>1, <2>4, <2>5, <2>6 DEF IInv, PlayerInv, Connected
<1>7. SharedInv'
  BY <1>1 DEF IInv, SharedInv, Srv!Contents, Srv!Chunks
<1> QED BY <1>5, <1>6, <1>7

(* saving and uploading, *)
LEMMA WriteLocal ==
  ASSUME IInv, NEW p \in Players, BeginWrite(p) \/ UploadStart(p)
  PROVE  LocalOK' /\ PlayerInv' /\ SharedInv'
<1>1. UNCHANGED <<at, hello, phase, got, buf, upNet, downNet, joins, everShared,
                  sharedSave>>
  BY DEF BeginWrite, UploadStart, srvVars
<1>2. SharedInv'
  BY <1>1 DEF IInv, SharedInv, Srv!Contents, Srv!Chunks
<1>3. CASE BeginWrite(p)
  <2>1. /\ p \in Writers /\ phase[p] = "playing" /\ written[p] < MaxWrites
        /\ written' = [written EXCEPT ![p] = written[p] + 1]
        /\ copied' = [copied EXCEPT ![p] = 0]
        /\ UNCHANGED <<signaled, upAt>>
    BY <1>3 DEF BeginWrite
  <2>2. /\ written[p] + 1 \in 0 .. MaxWrites /\ written[p] + 1 # 0
        /\ 0 \in 0 .. ChunkCount
    BY <2>1, SaveSyncAssumption DEF IInv, LocalOK
  <2>3. LocalOK'
    BY <1>1, <2>1, <2>2 DEF IInv, LocalOK
  <2>4. \A q \in Players : q # p => written'[q] = written[q] /\ copied'[q] = copied[q]
    BY <2>1 DEF IInv, LocalOK
  <2>5. written'[p] # 0
    BY <2>1, <2>2 DEF IInv, LocalOK
  <2>6. PlayerInv'
    BY <1>1, <2>1, <2>4, <2>5 DEF IInv, PlayerInv, Connected
  <2> QED BY <1>2, <2>3, <2>6
<1>4. CASE UploadStart(p)
  <2>1. /\ signaled[p]
        /\ signaled' = [signaled EXCEPT ![p] = FALSE]
        /\ upAt' = [upAt EXCEPT ![p] = 0]
        /\ UNCHANGED <<written, copied>>
    BY <1>4 DEF UploadStart
  <2>2. 0 \in 0 .. ChunkCount
    BY SaveSyncAssumption
  <2>3. LocalOK'
    BY <1>1, <2>1, <2>2 DEF IInv, LocalOK
  <2>4. \A q \in Players : q # p => signaled'[q] = signaled[q] /\ upAt'[q] = upAt[q]
    BY <2>1 DEF IInv, LocalOK
  <2>5. written[p] # 0
    BY <2>1 DEF IInv, PlayerInv
  <2>6. PlayerInv'
    BY <1>1, <2>1, <2>4, <2>5 DEF IInv, PlayerInv, Connected
  <2> QED BY <1>2, <2>3, <2>6
<1> QED BY <1>3, <1>4

LEMMA CopyLocal ==
  ASSUME IInv, NEW p \in Players, CopyChunk(p)
  PROVE  LocalOK' /\ PlayerInv' /\ SharedInv'
<1> DEFINE i == copied[p]
           img == <<p, written[p]>>
<1>1. /\ i < ChunkCount
      /\ buf' = [buf EXCEPT ![p] = [buf[p] EXCEPT ![i] = img]]
      /\ copied' = [copied EXCEPT ![p] = i + 1]
      /\ signaled' = [signaled EXCEPT ![p] = TRUE] \/ UNCHANGED signaled
      /\ UNCHANGED <<at, hello, phase, got, written, upAt, upNet, downNet, joins,
                     everShared, sharedSave>>
  BY DEF CopyChunk, RequestUpload, srvVars
<1>2. i \in Chunks /\ i + 1 \in 0 .. ChunkCount
  BY <1>1, ChunkTypes DEF IInv, LocalOK
<1>3. written[p] # 0
  BY <1>1, ChunkTypes DEF IInv, PlayerInv
<1>4. img \in Images
  BY <1>3, SaveImage DEF IInv, PlayerInv
<1> HIDE DEF i, img
<1>5. [buf[p] EXCEPT ![i] = img] \in [Chunks -> Images \cup {Zero}]
  BY <1>4 DEF IInv, LocalOK
<1>6. LocalOK'
  BY <1>1, <1>2, <1>5 DEF IInv, LocalOK
<1>7. PlayerInv'
  <2> SUFFICES ASSUME NEW q \in Players PROVE PlayerInv!(q)'
    BY DEF PlayerInv
  <2>1. q # p => buf'[q] = buf[q] /\ copied'[q] = copied[q] /\ signaled'[q] = signaled[q]
    BY <1>1 DEF IInv, LocalOK
  <2>2. q = p => buf'[q] = [buf[q] EXCEPT ![i] = img] /\ written'[q] # 0
    BY <1>1, <1>3 DEF IInv, LocalOK
  <2>3. got[q] \subseteq Chunks /\ buf[q] \in [Chunks -> Images \cup {Zero}]
    BY DEF IInv, LocalOK
  <2>4. \A k \in got[q] : buf'[q][k] \in Images
    BY <1>4, <2>1, <2>2, <2>3 DEF IInv, PlayerInv
  <2> QED BY <1>1, <2>1, <2>2, <2>4 DEF IInv, PlayerInv, Connected
<1>8. SharedInv'
  BY <1>1 DEF IInv, SharedInv, Srv!Contents, Srv!Chunks
<1> QED BY <1>6, <1>7, <1>8

LEMMA SendLocal ==
  ASSUME IInv, NEW p \in Players, UploadSend(p)
  PROVE  LocalOK' /\ PlayerInv' /\ SharedInv'
<1> DEFINE i == upAt[p]
           more == IF Connected(p) THEN Append(upNet[p], <<i, buf[p][i]>>) ELSE upNet[p]
<1>1. /\ i < ChunkCount
      /\ upAt' = [upAt EXCEPT ![p] = i + 1]
      /\ upNet' = [upNet EXCEPT ![p] = more]
      /\ UNCHANGED <<at, hello, phase, got, buf, written, copied, signaled, downNet, joins,
                     everShared, sharedSave>>
  <2>1. CASE Connected(p)
    BY <2>1 DEF UploadSend, srvVars
  <2>2. CASE ~Connected(p)
    <3>1. upNet' = upNet /\ more = upNet[p]
      BY <2>2 DEF UploadSend
    <3>2. upNet' = [upNet EXCEPT ![p] = more]
      BY <3>1 DEF IInv, LocalOK
    <3> HIDE DEF more
    <3> QED BY <3>2 DEF UploadSend, srvVars
  <2> QED BY <2>1, <2>2
<1>2. i \in Chunks /\ i + 1 \in 0 .. ChunkCount
  BY <1>1, ChunkTypes DEF IInv, LocalOK
<1>3. written[p] # 0
  BY <1>1, ChunkTypes DEF IInv, PlayerInv
<1>4. buf[p][i] \in Images
  BY <1>2, <1>3 DEF IInv, PlayerInv
<1>5. upNet[p] \in Seq(Chunks \X Images)
  BY DEF IInv, LocalOK
<1>6. more \in Seq(Chunks \X Images)
  BY <1>2, <1>4, <1>5, LastChunk
<1>7. more # upNet[p] => Connected(p)
  OBVIOUS
<1> HIDE DEF i, more
<1>8. LocalOK'
  BY <1>1, <1>2, <1>6 DEF IInv, LocalOK
<1>9. PlayerInv'
  <2> SUFFICES ASSUME NEW q \in Players PROVE PlayerInv!(q)'
    BY DEF PlayerInv
  <2>1. q # p => upNet'[q] = upNet[q] /\ upAt'[q] = upAt[q]
    BY <1>1 DEF IInv, LocalOK
  <2>2. q = p => upNet'[q] = more /\ written'[q] # 0
    BY <1>1, <1>3 DEF IInv, LocalOK
  <2> QED BY <1>1, <1>7, <2>1, <2>2 DEF IInv, PlayerInv, Connected
<1>10. SharedInv'
  BY <1>1 DEF IInv, SharedInv, Srv!Contents, Srv!Chunks
<1> QED BY <1>8, <1>9, <1>10

(* and the server. *)
LEMMA DeliverLocal ==
  ASSUME IInv, NEW p \in Players, DeliverChunk(p)
  PROVE  LocalOK' /\ PlayerInv' /\ SharedInv'
<1>1. /\ upNet[p] # <<>>
      /\ upNet' = [upNet EXCEPT ![p] = Tail(upNet[p])]
      /\ UNCHANGED <<at, hello, phase, got, buf, written, copied, signaled, upAt, downNet,
                     joins, everShared, sharedSave>>
  BY DEF DeliverChunk, threadVars, srvVars, Srv!StoreChunk, Srv!IgnoreChunk, Srv!saveVars
<1>2. Tail(upNet[p]) \in Seq(Chunks \X Images)
  BY <1>1, FirstChunk DEF IInv, LocalOK
<1>3. LocalOK'
  BY <1>1, <1>2 DEF IInv, LocalOK
<1>4. \A q \in Players : upNet'[q] # <<>> => upNet[q] # <<>>
  BY <1>1 DEF IInv, LocalOK
<1>5. PlayerInv'
  BY <1>1, <1>4 DEF IInv, PlayerInv, Connected
<1>6. SharedInv'
  BY <1>1 DEF IInv, SharedInv, Srv!Contents, Srv!Chunks
<1> QED BY <1>3, <1>5, <1>6

LEMMA ServerLocal ==
  ASSUME IInv, Srv!TypeOK',
         \/ CommitSave
         \/ \E s \in Slots : ServerNotices(s)
         \/ \E w \in Workers : WorkerTurn(w)
  PROVE  LocalOK' /\ PlayerInv' /\ SharedInv'
<1>1. UNCHANGED <<at, hello, phase, got, buf, written, copied, signaled, upAt, upNet,
                  joins>>
  BY DEF CommitSave, ServerNotices, WorkerTurn, WorkerSend, cliVars, threadVars
<1>2. SharedInv'
  <2>1. CASE CommitSave
    <3>1. everShared' = everShared \cup {sharedSave'} /\ sharedSave' \in Srv!Contents
      BY <2>1 DEF CommitSave, Srv!TypeOK, Srv!Contents, Srv!Chunks
    <3> QED BY <3>1 DEF IInv, SharedInv, Srv!Contents, Srv!Chunks
  <2>2. CASE ~CommitSave
    <3>1. UNCHANGED <<everShared, sharedSave>>
      BY <2>2 DEF ServerNotices, WorkerTurn, WorkerSend, cliVars, Srv!Disconnect,
         Srv!WorkerSend, Srv!WorkerLock, Srv!WorkerUnlock, Srv!saveVars
    <3> QED BY <3>1 DEF IInv, SharedInv, Srv!Contents, Srv!Chunks
  <2> QED BY <2>1, <2>2
<1>3. CASE UNCHANGED downNet
  <2>1. LocalOK'
    BY <1>1, <1>3 DEF IInv, LocalOK
  <2>2. PlayerInv'
    BY <1>1, <1>3 DEF IInv, PlayerInv, Connected
  <2> QED BY <1>2, <2>1, <2>2
<1>4. ASSUME NEW w \in Workers, WorkerSend(w) PROVE LocalOK' /\ PlayerInv'
  <2> DEFINE chunk == <<wNext[w], sharedSave[wNext[w]]>>
  <2>1. /\ wNext[w] \in Chunks /\ sharedSave \in [Chunks -> Images] /\ wTo[w] \in Slots
    BY <1>4, ServerTypes, ChunkTypes DEF IInv, Srv!TypeOK, WorkerSend, Srv!WorkerSend
  <2>2. chunk \in Chunks \X Images
    BY <2>1
  <2>3. downNet' = [q \in Players |-> IF at[q] = wTo[w] THEN Append(downNet[q], chunk)
                                                        ELSE downNet[q]]
    BY <1>4 DEF WorkerSend
  <2> HIDE DEF chunk
  <2>4. \A q \in Players : downNet'[q] \in Seq(Chunks \X Images)
    BY <2>2, <2>3, LastChunk DEF IInv, LocalOK
  <2>5. downNet' \in [Players -> Seq(Chunks \X Images)]
    BY <2>3, <2>4
  <2>6. \A q \in Players : downNet'[q] # <<>> => Connected(q)
    BY <2>1, <2>3, ChunkTypes DEF IInv, PlayerInv, Connected
  <2>7. LocalOK'
    BY <1>1, <2>5 DEF IInv, LocalOK
  <2>8. PlayerInv'
    BY <1>1, <2>6 DEF IInv, PlayerInv, Connected
  <2> QED BY <2>7, <2>8
<1> QED
  BY <1>2, <1>3, <1>4 DEF CommitSave, ServerNotices, WorkerTurn, cliVars

LEMMA InvStep == IInv /\ [Next]_vars => IInv'
<1> SUFFICES ASSUME IInv, [Next]_vars PROVE IInv'
  OBVIOUS
<1>1. [Srv!Next]_(Srv!vars)
  BY ServerStep DEF vars, srvVars, Srv!vars
<1>2. ServerInv'
  BY <1>1, ServerNext DEF IInv
<1>3. Srv!TypeOK'
  BY <1>2, ServerTypes, PTL
<1>4. CASE Next
  BY <1>2, <1>3, <1>4, JoinLocal, GreetLocal, LeaveLocal, MenuLocal, ReceiveLocal,
     WriteLocal, CopyLocal, SendLocal, DeliverLocal, ServerLocal
  DEF Next, GameStep, UploadStep, IInv
<1>5. CASE UNCHANGED vars
  <2>1. UNCHANGED <<at, hello, phase, got, buf, written, copied, signaled, upAt, upNet,
                    downNet, joins, everShared, sharedSave>>
    BY <1>5 DEF vars, srvVars, cliVars, threadVars
  <2>2. LocalOK'
    BY <2>1 DEF IInv, LocalOK
  <2>3. PlayerInv'
    BY <2>1 DEF IInv, PlayerInv, Connected
  <2>4. SharedInv'
    BY <2>1 DEF IInv, SharedInv, Srv!Contents, Srv!Chunks
  <2> QED BY <1>2, <2>2, <2>3, <2>4 DEF IInv
<1> QED BY <1>4, <1>5

(* No variable leaves its domain: what is on its way to the server are chunks of
   saves, never of the empty buffer a download starts with
   (SaveDataSync.cpp:22-150, TopMenuSceneMod.cpp:280-310). *)
THEOREM TypeCorrect == Spec => []TypeOK
<1> QED BY InitInv, InvStep, InvTypes, PTL DEF Spec

(* Every step of players and server together is a step the server's own module
   allows, so that what SaveServerProofs shows holds here too: *)
THEOREM ServerRefined == Spec => Srv!Spec
<1>1. IInv /\ [Next]_vars => [Srv!Next]_(Srv!vars)
  BY ServerStep DEF vars, srvVars, Srv!vars
<1>2. Init => Srv!Init
  BY DEF Init
<1> QED BY <1>1, <1>2, InitInv, InvStep, PTL DEF Spec, Srv!Spec

(* every download gives its player the shared save of one moment, and every upload
   replaces it as a whole (Client.cpp:62, ProjectPacketHandler.cpp:198). *)
THEOREM EndToEndAtomic == Spec => Server!ImplementsRegister
<1>1. Srv!Spec => Server!Spec
  BY SameInit, SameStep, PTL DEF Srv!Spec, Server!Spec
<1> QED BY <1>1, ServerRefined, ServerAssumption, Server!SaveIsAtomic, PTL

-----------------------------------------------------------------------------
(* A player is steady whose client's place is nobody else's, and who connects only
   once.  The chunks that reach such a player's game are those that the one thread
   its greeting starts sends to it; any other player may get a chunk meant for the
   client that had the place before, or for its own last connection. *)
Steady(p) ==
  /\ \A q \in Players \ {p} : Places[q] \cap Places[p] = {}
  /\ MaxJoins = 1 \/ p \notin MayLeave

Serving(w, p) == wState[w] # "none" /\ wTo[w] \in Places[p]

AtHome == \A p \in Players : Connected(p) => at[p] \in Places[p]

LinkOK(p) ==
  /\ Connected(p) => /\ joins[p] # 0
                     /\ session[at[p]] = IF hello[p] THEN "connected" ELSE "greeted"
  /\ ~Connected(p) /\ joins[p] # 0 => joins[p] = MaxJoins
  /\ \A v, w \in Workers : Serving(v, p) /\ Serving(w, p) => v = w
  /\ hello[p] \/ joins[p] = 0 => got[p] = {} /\ \A w \in Workers : ~Serving(w, p)

LinkInv == AtHome /\ \A p \in Players : Steady(p) => LinkOK(p)

LEMMA PlacesTypes ==
  ASSUME NEW p \in Players
  PROVE  Places[p] \subseteq Slots
BY SaveSyncAssumption

LEMMA LinkInit == Init => LinkInv
<1> SUFFICES ASSUME Init PROVE LinkInv
  OBVIOUS
<1>1. \A p \in Players : at[p] = NoSlot /\ ~hello[p] /\ joins[p] = 0 /\ got[p] = {}
  BY DEF Init
<1>2. \A w \in Workers : wState[w] = "none"
  BY DEF Init, Srv!Init
<1> QED BY <1>1, <1>2 DEF LinkInv, AtHome, LinkOK, Connected, Serving

LEMMA LinkKept ==
  ASSUME LinkInv, UNCHANGED <<at, hello, joins, session, wState, wTo>>,
         \A p \in Players : got'[p] = got[p] \/ got'[p] = {}
  PROVE  LinkInv'
<1>1. AtHome'
  BY DEF LinkInv, AtHome, Connected
<1>2. ASSUME NEW p \in Players, Steady(p) PROVE LinkOK(p)'
  <2>1. LinkOK(p)
    BY <1>2 DEF LinkInv
  <2> QED BY <2>1 DEF LinkOK, Connected, Serving
<1>3. \A p \in Players : Steady(p)' <=> Steady(p)
  BY DEF Steady
<1> QED BY <1>1, <1>2, <1>3 DEF LinkInv

LEMMA LinkJoin ==
  ASSUME IInv, LinkInv, NEW p \in Players, NEW s \in Slots, Join(p, s)
  PROVE  LinkInv'
<1>1. /\ at' = [at EXCEPT ![p] = s] /\ hello' = [hello EXCEPT ![p] = TRUE]
      /\ joins' = [joins EXCEPT ![p] = joins[p] + 1]
      /\ session' = [session EXCEPT ![s] = "connected"]
      /\ UNCHANGED <<got, wState, wTo>>
      /\ ~Connected(p) /\ joins[p] < MaxJoins /\ s \in Places[p]
  BY DEF Join, Srv!Connect, Srv!workerVars
<1>2. /\ at'[p] = s /\ hello'[p] /\ joins'[p] = joins[p] + 1 /\ session'[s] = "connected"
      /\ \A q \in Players \ {p} :
           at'[q] = at[q] /\ hello'[q] = hello[q] /\ joins'[q] = joins[q]
      /\ \A t \in Slots \ {s} : session'[t] = session[t]
  BY <1>1, ServerTypes DEF IInv, LocalOK, Srv!TypeOK
<1>3. joins[p] \in Nat
  BY SaveSyncAssumption DEF IInv, LocalOK
<1>4. AtHome'
  BY <1>1, <1>2 DEF LinkInv, AtHome, Connected
<1>5. ASSUME Steady(p) PROVE LinkOK(p)'
  <2>1. LinkOK(p)
    BY <1>5 DEF LinkInv
  <2>2. joins[p] = 0
    BY <1>1, <1>3, <2>1, SaveSyncAssumption DEF LinkOK
  <2>3. got[p] = {} /\ \A w \in Workers : ~Serving(w, p)
    BY <2>1, <2>2 DEF LinkOK
  <2>4. s # NoSlot
    BY ChunkTypes
  <2>5. joins'[p] # 0 /\ session'[at'[p]] = "connected" /\ hello'[p] /\ at'[p] # NoSlot
    BY <1>2, <2>2, <2>4
  <2> QED BY <1>1, <2>3, <2>5 DEF LinkOK, Connected, Serving
<1>6. ASSUME NEW q \in Players \ {p}, Steady(q) PROVE LinkOK(q)'
  <2>1. LinkOK(q)
    BY <1>6 DEF LinkInv
  <2>2. Connected(q) => at[q] \in Slots \ {s}
    BY <1>1, <1>6, PlacesTypes DEF LinkInv, AtHome, Steady
  <2>3. Connected(q) => session'[at[q]] = session[at[q]]
    BY <1>2, <2>2
  <2> QED BY <1>1, <1>2, <2>1, <2>3 DEF LinkOK, Connected, Serving
<1>7. \A q \in Players : Steady(q)' <=> Steady(q)
  BY DEF Steady
<1> QED BY <1>4, <1>5, <1>6, <1>7 DEF LinkInv

LEMMA LinkGreet ==
  ASSUME IInv, LinkInv, NEW p \in Players, NEW w \in Workers, Greet(p, w)
  PROVE  LinkInv'
<1>1. /\ hello[p] /\ hello' = [hello EXCEPT ![p] = FALSE]
      /\ session' = [session EXCEPT ![at[p]] = "greeted"]
      /\ wState[w] = "none"
      /\ wState' = [wState EXCEPT ![w] = "waiting"]
      /\ wTo' = [wTo EXCEPT ![w] = at[p]]
      /\ UNCHANGED <<at, joins, got>>
  BY DEF Greet, Srv!Greet
<1>2. Connected(p) /\ at[p] \in Places[p] /\ at[p] \in Slots
  BY <1>1, PlacesTypes DEF IInv, PlayerInv, LinkInv, AtHome
<1>3. /\ ~hello'[p] /\ session'[at[p]] = "greeted"
      /\ \A q \in Players \ {p} : hello'[q] = hello[q]
      /\ \A t \in Slots \ {at[p]} : session'[t] = session[t]
      /\ wTo'[w] = at[p] /\ wState'[w] = "waiting"
      /\ \A v \in Workers \ {w} : wState'[v] = wState[v] /\ wTo'[v] = wTo[v]
  BY <1>1, <1>2, ServerTypes DEF IInv, LocalOK, Srv!TypeOK
<1>4. AtHome'
  BY <1>1 DEF LinkInv, AtHome, Connected
<1>5. ASSUME Steady(p) PROVE LinkOK(p)'
  <2>1. LinkOK(p)
    BY <1>5 DEF LinkInv
  <2>2. \A v \in Workers : ~Serving(v, p)
    BY <1>1, <2>1 DEF LinkOK
  <2>3. \A v \in Workers : Serving(v, p)' => v = w
    BY <1>3, <2>2 DEF Serving
  <2>4. joins[p] # 0
    BY <1>2, <2>1 DEF LinkOK
  <2> QED BY <1>1, <1>2, <1>3, <2>3, <2>4 DEF LinkOK, Connected
<1>6. ASSUME NEW q \in Players \ {p}, Steady(q) PROVE LinkOK(q)'
  <2>1. LinkOK(q)
    BY <1>6 DEF LinkInv
  <2>2. at[p] \notin Places[q]
    BY <1>2, <1>6 DEF Steady
  <2>3. Connected(q) => at[q] \in Slots \ {at[p]}
    BY <1>6, <2>2, PlacesTypes DEF LinkInv, AtHome
  <2>4. Connected(q) => session'[at[q]] = session[at[q]]
    BY <1>3, <2>3
  <2>5. \A v \in Workers : Serving(v, q)' => Serving(v, q)
    BY <1>3, <2>2 DEF Serving
  <2> QED BY <1>1, <1>3, <2>1, <2>4, <2>5 DEF LinkOK, Connected
<1>7. \A q \in Players : Steady(q)' <=> Steady(q)
  BY DEF Steady
<1> QED BY <1>4, <1>5, <1>6, <1>7 DEF LinkInv

LEMMA LinkLeave ==
  ASSUME IInv, LinkInv, NEW p \in Players, Leave(p)
  PROVE  LinkInv'
<1>1. /\ at' = [at EXCEPT ![p] = NoSlot] /\ hello' = [hello EXCEPT ![p] = FALSE]
      /\ UNCHANGED <<joins, session, got, wState, wTo>>
      /\ Connected(p) /\ p \in MayLeave
  BY DEF Leave, srvVars
<1>2. /\ at'[p] = NoSlot /\ ~hello'[p]
      /\ \A q \in Players \ {p} : at'[q] = at[q] /\ hello'[q] = hello[q]
  BY <1>1 DEF IInv, LocalOK
<1>3. AtHome'
  BY <1>1, <1>2 DEF LinkInv, AtHome, Connected
<1>4. ASSUME Steady(p) PROVE LinkOK(p)'
  <2>1. LinkOK(p) /\ MaxJoins = 1 /\ joins[p] \in 0 .. MaxJoins /\ joins[p] # 0
    BY <1>1, <1>4 DEF LinkInv, Steady, LinkOK, IInv, LocalOK
  <2>2. joins[p] = MaxJoins
    BY <2>1
  <2> QED BY <1>1, <1>2, <2>1, <2>2 DEF LinkOK, Connected, Serving
<1>5. ASSUME NEW q \in Players \ {p}, Steady(q) PROVE LinkOK(q)'
  <2>1. LinkOK(q)
    BY <1>5 DEF LinkInv
  <2> QED BY <1>1, <1>2, <2>1 DEF LinkOK, Connected, Serving
<1>6. \A q \in Players : Steady(q)' <=> Steady(q)
  BY DEF Steady
<1> QED BY <1>3, <1>4, <1>5, <1>6 DEF LinkInv

LEMMA LinkReceive ==
  ASSUME IInv, LinkInv, NEW p \in Players, ReceiveChunk(p),
         Steady(p) => ~hello[p]
  PROVE  LinkInv'
<1>1. /\ downNet[p] # <<>>
      /\ got' = [got EXCEPT ![p] = got[p] \cup {Head(downNet[p])[1]}]
      /\ UNCHANGED <<at, hello, joins, session, wState, wTo>>
  BY DEF ReceiveChunk, srvVars
<1>2. \A q \in Players \ {p} : got'[q] = got[q]
  BY <1>1 DEF IInv, LocalOK
<1>3. Connected(p)
  BY <1>1 DEF IInv, PlayerInv
<1>4. AtHome'
  BY <1>1 DEF LinkInv, AtHome, Connected
<1>5. ASSUME NEW q \in Players, Steady(q) PROVE LinkOK(q)'
  <2>1. LinkOK(q)
    BY <1>5 DEF LinkInv
  <2>2. q = p => ~hello[q] /\ joins[q] # 0
    BY <1>3, <1>5, <2>1 DEF LinkOK
  <2> QED BY <1>1, <1>2, <2>1, <2>2 DEF LinkOK, Connected, Serving
<1>6. \A q \in Players : Steady(q)' <=> Steady(q)
  BY DEF Steady
<1> QED BY <1>4, <1>5, <1>6 DEF LinkInv

LEMMA LinkServer ==
  ASSUME IInv, LinkInv,
         \/ \E s \in Slots : ServerNotices(s)
         \/ \E w \in Workers : Srv!WorkerLock(w) /\ UNCHANGED cliVars
         \/ \E w \in Workers : Srv!WorkerUnlock(w) /\ UNCHANGED cliVars
  PROVE  LinkInv'
<1>1. UNCHANGED <<at, hello, joins, got, wTo>>
  BY DEF ServerNotices, cliVars, Srv!Disconnect, Srv!WorkerLock, Srv!WorkerUnlock,
     Srv!workerVars
<1>2. \A v \in Workers : wState'[v] # "none" => wState[v] # "none"
  BY ServerTypes DEF ServerNotices, Srv!Disconnect, Srv!WorkerLock, Srv!WorkerUnlock,
     Srv!workerVars, IInv, Srv!TypeOK
<1>3. \A q \in Players : Connected(q) => session'[at[q]] = session[at[q]]
  <2>1. ASSUME NEW s \in Slots, ServerNotices(s), NEW q \in Players, Connected(q)
        PROVE  session'[at[q]] = session[at[q]]
    BY <2>1, ServerTypes DEF ServerNotices, Srv!Disconnect, Connected, IInv, Srv!TypeOK
  <2> QED BY <2>1 DEF Srv!WorkerLock, Srv!WorkerUnlock
<1>4. AtHome'
  BY <1>1 DEF LinkInv, AtHome, Connected
<1>5. ASSUME NEW q \in Players, Steady(q) PROVE LinkOK(q)'
  <2>1. LinkOK(q)
    BY <1>5 DEF LinkInv
  <2>2. \A v \in Workers : Serving(v, q)' => Serving(v, q)
    BY <1>1, <1>2 DEF Serving
  <2> QED BY <1>1, <1>3, <2>1, <2>2 DEF LinkOK, Connected
<1>6. \A q \in Players : Steady(q)' <=> Steady(q)
  BY DEF Steady
<1> QED BY <1>4, <1>5, <1>6 DEF LinkInv

-----------------------------------------------------------------------------
(* What a steady player's game has been handed: the first n chunks of img, a content
   the shared save has had.  The last of them are on their way, in order; those that
   have arrived since the download began are in the buffer, until the game saves. *)
Handed(p, n, img) ==
  /\ hello[p] \/ joins[p] = 0 => n = 0
  /\ \A w \in Workers : Serving(w, p) =>
       /\ wNext[w] = n
       /\ Connected(p) => wTo[w] = at[p]
       /\ wState[w] = "sending" => img = sharedSave
  /\ Connected(p) /\ ~hello[p] /\ (\A w \in Workers : ~Serving(w, p)) => n = ChunkCount
  /\ Len(downNet[p]) <= n
  /\ \A k \in 1 .. Len(downNet[p]) :
       downNet[p][k] = <<n - Len(downNet[p]) + k - 1, img[n - Len(downNet[p]) + k - 1]>>
  /\ \A i \in got[p] : /\ i < n - Len(downNet[p])
                       /\ written[p] = 0 => buf[p][i] = img[i]

HandedInv ==
  \A p \in Players :
    Steady(p) => \E n \in 0 .. ChunkCount, img \in everShared : Handed(p, n, img)

LEMMA HandedInit == Init => HandedInv
<1> SUFFICES ASSUME Init, NEW p \in Players
             PROVE  \E n \in 0 .. ChunkCount, img \in everShared : Handed(p, n, img)
  BY DEF HandedInv
<1>1. /\ hello[p] = FALSE /\ joins[p] = 0 /\ at[p] = NoSlot /\ got[p] = {}
      /\ downNet[p] = <<>> /\ sharedSave \in everShared
  BY DEF Init
<1>2. \A w \in Workers : wState[w] = "none"
  BY DEF Init, Srv!Init
<1>3. 0 \in 0 .. ChunkCount /\ Len(downNet[p]) = 0
  BY <1>1, ChunkTypes, EmptySeq
<1>4. Handed(p, 0, sharedSave)
  BY <1>1, <1>2, <1>3 DEF Handed, Connected, Serving
<1> QED BY <1>1, <1>3, <1>4

LEMMA HandedKept ==
  ASSUME NEW p, NEW n, NEW img, Handed(p, n, img),
         hello'[p] = hello[p], joins'[p] = joins[p], at'[p] = at[p],
         downNet'[p] = downNet[p],
         \A w \in Workers :
           /\ Serving(w, p)' <=> Serving(w, p)
           /\ Serving(w, p) =>
                /\ wNext'[w] = wNext[w] /\ wTo'[w] = wTo[w]
                /\ wState'[w] = "sending" =>
                     wState[w] = "sending" /\ sharedSave' = sharedSave,
         got'[p] \subseteq got[p],
         written'[p] = 0 => /\ written[p] = 0
                            /\ \A i \in got'[p] : buf'[p][i] = buf[p][i]
  PROVE  Handed(p, n, img)'
BY DEF Handed, Connected

(* One step of one steady player.  The history keeps what it has. *)
LEMMA HistoryKept == ASSUME Next PROVE everShared \subseteq everShared'
BY DEF Next, Join, Greet, GameStep, StartDownload, FinishDownload, AbortDownload, CopyChunk,
   BeginWrite, UploadStep, UploadStart, UploadSend, ReceiveChunk, DeliverChunk, Leave,
   ServerNotices, WorkerTurn, WorkerSend, CommitSave, cliVars

LEMMA HandedJoin ==
  ASSUME IInv, LinkInv, NEW q \in Players, NEW s \in Slots, Join(q, s),
         NEW p \in Players, Steady(p),
         NEW n \in 0 .. ChunkCount, NEW img \in everShared, Handed(p, n, img)
  PROVE  Handed(p, n, img)'
<1>1. /\ at' = [at EXCEPT ![q] = s] /\ hello' = [hello EXCEPT ![q] = TRUE]
      /\ joins' = [joins EXCEPT ![q] = joins[q] + 1]
      /\ UNCHANGED <<got, buf, written, downNet, wState, wTo, wNext, sharedSave>>
      /\ ~Connected(q) /\ joins[q] < MaxJoins
  BY DEF Join, Srv!Connect, Srv!workerVars, Srv!saveVars, threadVars
<1>2. CASE q # p
  <2>1. at'[p] = at[p] /\ hello'[p] = hello[p] /\ joins'[p] = joins[p]
    BY <1>1, <1>2 DEF IInv, LocalOK
  <2> QED BY <1>1, <2>1, HandedKept DEF Serving
<1>3. CASE q = p
  <2>1. LinkOK(p) /\ joins[p] \in Nat
    BY SaveSyncAssumption DEF LinkInv, IInv, LocalOK
  <2>2. joins[p] = 0
    BY <1>1, <1>3, <2>1, SaveSyncAssumption DEF LinkOK
  <2>3. n = 0 /\ got[p] = {} /\ \A w \in Workers : ~Serving(w, p)
    BY <2>1, <2>2 DEF LinkOK, Handed
  <2>4. hello'[p]
    BY <1>1, <1>3 DEF IInv, LocalOK
  <2>5. \A w \in Workers : ~Serving(w, p)'
    BY <1>1, <2>3 DEF Serving
  <2> QED BY <1>1, <2>3, <2>4, <2>5 DEF Handed
<1> QED BY <1>2, <1>3

LEMMA HandedGreet ==
  ASSUME IInv, LinkInv, NEW q \in Players, NEW v \in Workers, Greet(q, v),
         NEW p \in Players, Steady(p),
         NEW n \in 0 .. ChunkCount, NEW img \in everShared, Handed(p, n, img)
  PROVE  Handed(p, n, img)'
<1>1. /\ hello[q] /\ hello' = [hello EXCEPT ![q] = FALSE]
      /\ wState[v] = "none"
      /\ wState' = [wState EXCEPT ![v] = "waiting"]
      /\ wTo' = [wTo EXCEPT ![v] = at[q]]
      /\ UNCHANGED <<at, joins, got, buf, written, downNet, wNext, sharedSave>>
  BY DEF Greet, Srv!Greet, Srv!saveVars, threadVars
<1>2. Connected(q) /\ at[q] \in Places[q] /\ at[q] \in Slots
  BY <1>1, PlacesTypes DEF IInv, PlayerInv, LinkInv, AtHome
<1>3. /\ wTo'[v] = at[q] /\ wState'[v] = "waiting"
      /\ \A w \in Workers \ {v} : wState'[w] = wState[w] /\ wTo'[w] = wTo[w]
  BY <1>1, <1>2, ServerTypes DEF IInv, Srv!TypeOK
<1>4. CASE q # p
  <2>1. hello'[p] = hello[p] /\ at[q] \notin Places[p]
    BY <1>1, <1>2, <1>4 DEF IInv, LocalOK, Steady
  <2>2. ~Serving(v, p) /\ ~Serving(v, p)'
    BY <1>1, <1>3, <2>1 DEF Serving
  <2>3. \A w \in Workers \ {v} : Serving(w, p)' <=> Serving(w, p)
    BY <1>3 DEF Serving
  <2>4. \A w \in Workers \ {v} : /\ wNext'[w] = wNext[w] /\ wTo'[w] = wTo[w]
                                 /\ wState'[w] = "sending" => wState[w] = "sending"
    BY <1>1, <1>3
  <2> QED BY <1>1, <2>1, <2>2, <2>3, <2>4, HandedKept
<1>5. CASE q = p
  <2>1. LinkOK(p)
    BY DEF LinkInv
  <2>2. n = 0 /\ got[p] = {} /\ \A w \in Workers : ~Serving(w, p)
    BY <1>1, <1>5, <2>1 DEF LinkOK, Handed
  <2>3. Serving(v, p)' /\ \A w \in Workers \ {v} : ~Serving(w, p)'
    BY <1>2, <1>3, <1>5, <2>2 DEF Serving
  <2>4. wNext[v] = 0
    BY <1>1 DEF IInv, ServerInv, Server!WorkerProgress
  <2> QED BY <1>1, <1>3, <1>5, <2>2, <2>3, <2>4 DEF Handed, Connected
<1> QED BY <1>4, <1>5

LEMMA HandedReceive ==
  ASSUME IInv, LinkInv, NEW q \in Players, ReceiveChunk(q),
         NEW p \in Players, Steady(p),
         NEW n \in 0 .. ChunkCount, NEW img \in everShared, Handed(p, n, img)
  PROVE  Handed(p, n, img)' /\ (q = p => ~hello[p])
<1> DEFINE s == downNet[p]
           j == n - Len(s)
<1>1. /\ downNet[q] # <<>>
      /\ buf' = [buf EXCEPT ![q] = [buf[q] EXCEPT ![Head(downNet[q])[1]]
                                                    = Head(downNet[q])[2]]]
      /\ got' = [got EXCEPT ![q] = got[q] \cup {Head(downNet[q])[1]}]
      /\ downNet' = [downNet EXCEPT ![q] = Tail(downNet[q])]
      /\ UNCHANGED <<at, hello, joins, written, wState, wTo, wNext, sharedSave>>
  BY DEF ReceiveChunk, srvVars, threadVars
<1>2. CASE q # p
  <2>1. got'[p] = got[p] /\ buf'[p] = buf[p] /\ downNet'[p] = downNet[p]
    BY <1>1, <1>2 DEF IInv, LocalOK
  <2> QED BY <1>1, <1>2, <2>1, HandedKept DEF Serving
<1>3. CASE q = p
  <2>1. /\ s \in Seq(Chunks \X Images) /\ s # <<>>
        /\ Len(s) \in Nat \ {0}
        /\ Head(s) = s[1] /\ Len(Tail(s)) = Len(s) - 1
        /\ \A k \in 1 .. Len(Tail(s)) : Tail(s)[k] = s[k + 1]
    BY <1>1, <1>3, HeadTailProperties, EmptySeq, LenProperties DEF IInv, LocalOK
  <2>2. n \in Nat /\ j \in Nat /\ Len(s) <= n /\ n # 0
    BY <2>1, ChunkTypes DEF Handed
  <2>3. s[1] = <<j, img[j]>>
    <3>1. 1 \in 1 .. Len(s) /\ n - Len(s) + 1 - 1 = j
      BY <2>1, <2>2
    <3>2. s[1] = <<n - Len(s) + 1 - 1, img[n - Len(s) + 1 - 1]>>
      BY <3>1 DEF Handed
    <3> QED BY <3>1, <3>2
  <2>4. Head(s)[1] = j /\ Head(s)[2] = img[j] /\ s[1] \in Chunks \X Images
    BY <2>1, <2>3
  <2>5. j \in Chunks
    BY <2>3, <2>4
  <2>6. /\ got'[p] = got[p] \cup {j} /\ buf'[p] = [buf[p] EXCEPT ![j] = img[j]]
        /\ downNet'[p] = Tail(s)
    BY <1>1, <1>3, <2>4 DEF IInv, LocalOK
  <2>7. ASSUME NEW k \in 1 .. Len(Tail(s))
        PROVE  Tail(s)[k] = <<n - Len(Tail(s)) + k - 1, img[n - Len(Tail(s)) + k - 1]>>
    <3>1. /\ k + 1 \in 1 .. Len(s) /\ k \in Int
          /\ n - Len(s) + (k + 1) - 1 = n - Len(Tail(s)) + k - 1
      <4> DEFINE l == Len(s)
                 t == Len(Tail(s))
      <4>1. l \in Nat \ {0} /\ t = l - 1 /\ k \in 1 .. t /\ n \in Nat
        BY <2>1, <2>2
      <4> HIDE DEF l, t
      <4>2. k + 1 \in 1 .. l /\ k \in Int /\ n - l + (k + 1) - 1 = n - t + k - 1
        BY <4>1
      <4> QED BY <4>2 DEF l, t
    <3>2. s[k + 1] = <<n - Len(s) + (k + 1) - 1, img[n - Len(s) + (k + 1) - 1]>>
      BY <3>1 DEF Handed
    <3> QED BY <2>1, <3>1, <3>2
  <2>8. n - Len(Tail(s)) = j + 1 /\ Len(Tail(s)) <= n
    <3> DEFINE l == Len(s)
               t == Len(Tail(s))
    <3>1. l \in Nat \ {0} /\ t = l - 1 /\ n \in Nat /\ l <= n /\ j = n - l
      BY <2>1, <2>2
    <3> HIDE DEF l, t, j
    <3>2. n - t = j + 1 /\ t <= n
      BY <3>1
    <3> QED BY <3>2 DEF t
  <2>9. ASSUME NEW i \in got'[p]
        PROVE  i < n - Len(Tail(s)) /\ (written[p] = 0 => buf'[p][i] = img[i])
    <3>1. buf[p] \in [Chunks -> Images \cup {Zero}] /\ got[p] \subseteq Chunks
      BY DEF IInv, LocalOK
    <3>2. CASE i = j
      <4>1. buf'[p][j] = img[j]
        BY <2>5, <2>6, <3>1
      <4>2. j < n - Len(Tail(s))
        <5> HIDE DEF j
        <5> QED BY <2>2, <2>8
      <4> QED BY <3>2, <4>1, <4>2
    <3>3. CASE i # j
      <4>1. i \in got[p] /\ i \in Chunks
        BY <2>6, <3>1, <3>3
      <4>2. i < j /\ (written[p] = 0 => buf[p][i] = img[i])
        BY <4>1 DEF Handed
      <4>3. buf'[p][i] = buf[p][i] /\ i \in Int
        BY <2>6, <3>1, <3>3, <4>1, ChunkTypes
      <4> QED BY <2>2, <2>8, <4>2, <4>3
    <3> QED BY <3>2, <3>3
  <2>10. ~hello[p] /\ joins[p] # 0
    BY <2>2 DEF Handed
  <2>11. \A w \in Workers : Serving(w, p)' <=> Serving(w, p)
    BY <1>1 DEF Serving
  <2>12. Connected(p)' <=> Connected(p)
    BY <1>1 DEF Connected
  <2> HIDE DEF j, s
  <2> QED BY <1>1, <2>6, <2>7, <2>8, <2>9, <2>10, <2>11, <2>12 DEF Handed
<1> QED BY <1>2, <1>3

LEMMA HandedSend ==
  ASSUME IInv, LinkInv, NEW v \in Workers, WorkerSend(v),
         NEW p \in Players, Steady(p),
         NEW n \in 0 .. ChunkCount, NEW img \in everShared, Handed(p, n, img)
  PROVE  \E m \in 0 .. ChunkCount : Handed(p, m, img)'
<1> DEFINE chunk == <<wNext[v], sharedSave[wNext[v]]>>
           s == downNet[p]
<1>1. /\ wState[v] = "sending" /\ wNext[v] < ChunkCount
      /\ wNext' = [wNext EXCEPT ![v] = wNext[v] + 1]
      /\ downNet'[p] = IF at[p] = wTo[v] THEN Append(s, chunk) ELSE s
      /\ UNCHANGED <<at, hello, joins, got, buf, written, wState, wTo, sharedSave>>
  BY DEF WorkerSend, Srv!WorkerSend, Srv!saveVars, threadVars
<1>2. /\ wTo[v] \in Slots /\ \A w \in Workers \ {v} : wNext'[w] = wNext[w]
      /\ wNext[v] \in 0 .. ChunkCount /\ wNext'[v] = wNext[v] + 1
  BY <1>1, ServerTypes DEF IInv, Srv!TypeOK
<1>3. \A w \in Workers : Serving(w, p)' <=> Serving(w, p)
  BY <1>1 DEF Serving
<1>4. Connected(p)' <=> Connected(p)
  BY <1>1 DEF Connected
<1>5. CASE ~Serving(v, p)
  <2>1. at[p] # wTo[v]
    BY <1>1, <1>2, <1>5, ChunkTypes DEF LinkInv, AtHome, Connected, Serving
  <2>2. \A w \in Workers : Serving(w, p) => wNext'[w] = wNext[w]
    BY <1>2, <1>5
  <2> QED BY <1>1, <1>3, <2>1, <2>2, HandedKept
<1>6. CASE Serving(v, p)
  <2>1. LinkOK(p)
    BY DEF LinkInv
  <2>2. \A w \in Workers : Serving(w, p) => w = v
    BY <1>6, <2>1 DEF LinkOK
  <2>3. ~hello[p] /\ joins[p] # 0
    BY <1>6, <2>1 DEF LinkOK
  <2>4. wNext[v] = n /\ img = sharedSave /\ (Connected(p) => wTo[v] = at[p])
    BY <1>1, <1>6 DEF Handed
  <2>5. n \in Nat /\ n + 1 \in 0 .. ChunkCount /\ s \in Seq(Chunks \X Images)
    BY <1>1, <2>4, ChunkTypes DEF IInv, LocalOK
  <2>6. chunk = <<n, img[n]>> /\ chunk \in Chunks \X Images
    <3>1. n \in Chunks /\ sharedSave \in [Chunks -> Images]
      BY <1>1, <2>4, <2>5, ChunkTypes, ServerTypes DEF IInv, Srv!TypeOK
    <3> QED BY <2>4, <3>1
  <2> HIDE DEF chunk
  <2>7. /\ Len(s) \in Nat /\ Append(s, chunk) \in Seq(Chunks \X Images)
        /\ Len(Append(s, chunk)) = Len(s) + 1
        /\ \A k \in 1 .. Len(s) : Append(s, chunk)[k] = s[k]
        /\ Append(s, chunk)[Len(s) + 1] = chunk
    BY <2>5, <2>6, AppendProperties, LenProperties
  <2>8. CASE Connected(p)
    <3>1. downNet'[p] = Append(s, chunk)
      BY <1>1, <2>4, <2>8
    <3>2. /\ Len(s) <= n
          /\ \A k \in 1 .. Len(s) : s[k] = <<n - Len(s) + k - 1, img[n - Len(s) + k - 1]>>
          /\ \A i \in got[p] : /\ i < n - Len(s)
                               /\ written[p] = 0 => buf[p][i] = img[i]
      BY DEF Handed
    <3>3. (n + 1) - Len(downNet'[p]) = n - Len(s) /\ Len(downNet'[p]) <= n + 1
      BY <2>5, <2>7, <3>1, <3>2
    <3>4. ASSUME NEW k \in 1 .. Len(downNet'[p])
          PROVE  downNet'[p][k] = <<n - Len(s) + k - 1, img[n - Len(s) + k - 1]>>
      <4>1. CASE k \in 1 .. Len(s)
        BY <2>7, <3>1, <3>2, <4>1
      <4>2. CASE k = Len(s) + 1
        <5>1. n - Len(s) + k - 1 = n
          BY <2>5, <2>7, <4>2
        <5>2. downNet'[p][k] = <<n, img[n]>>
          BY <2>6, <2>7, <3>1, <4>2
        <5> DEFINE m == n - Len(s) + k - 1
        <5>3. m = n
          BY <5>1
        <5> HIDE DEF m
        <5>4. downNet'[p][k] = <<m, img[m]>>
          BY <5>2, <5>3
        <5> QED BY <5>4 DEF m
      <4>3. k \in 1 .. Len(s) \/ k = Len(s) + 1
        BY <2>7, <3>1
      <4> QED BY <4>1, <4>2, <4>3
    <3>5. \A i \in got'[p] : /\ i < (n + 1) - Len(downNet'[p])
                             /\ written'[p] = 0 => buf'[p][i] = img[i]
      BY <1>1, <3>2, <3>3
    <3>6. \A k \in 1 .. Len(downNet'[p]) :
            downNet'[p][k] = <<(n + 1) - Len(downNet'[p]) + k - 1,
                               img[(n + 1) - Len(downNet'[p]) + k - 1]>>
      BY <3>3, <3>4
    <3>7. Handed(p, n + 1, img)'
      <4> HIDE DEF s
      <4> QED BY <1>1, <1>2, <1>3, <1>4, <1>6, <2>2, <2>3, <2>4, <3>3, <3>5, <3>6
              DEF Handed
    <3> QED BY <2>5, <3>7
  <2>9. CASE ~Connected(p)
    <3>1. downNet'[p] = s /\ s = <<>>
      BY <1>1, <1>2, <2>9, ChunkTypes DEF IInv, PlayerInv, Connected
    <3>2. Len(downNet'[p]) = 0
      BY <3>1, EmptySeq
    <3>3. \A i \in got[p] : i < n /\ (written[p] = 0 => buf[p][i] = img[i])
      BY <2>5, <3>1, <3>2 DEF Handed
    <3>4. \A i \in got[p] : i \in Int
      BY ChunkTypes DEF IInv, LocalOK
    <3>5. \A i \in got'[p] : /\ i < (n + 1) - Len(downNet'[p])
                             /\ written'[p] = 0 => buf'[p][i] = img[i]
      <4>1. n \in Nat /\ Len(downNet'[p]) = 0 /\ got'[p] = got[p] /\ buf' = buf
        BY <1>1, <2>5, <3>2
      <4>2. \A i \in got[p] : i < (n + 1) - 0
        BY <3>3, <3>4, <4>1
      <4> QED BY <1>1, <3>3, <4>1, <4>2
    <3>6. Len(downNet'[p]) <= n + 1 /\ 1 .. Len(downNet'[p]) = {}
      BY <2>5, <3>2
    <3>7. Handed(p, n + 1, img)'
      BY <1>1, <1>2, <1>3, <1>4, <1>6, <2>2, <2>3, <2>4, <2>9, <3>5, <3>6 DEF Handed
    <3> QED BY <2>5, <3>7
  <2> QED BY <2>8, <2>9
<1> QED BY <1>5, <1>6

LEMMA HandedLeave ==
  ASSUME IInv, LinkInv, NEW q \in Players, Leave(q),
         NEW p \in Players, Steady(p),
         NEW n \in 0 .. ChunkCount, NEW img \in everShared, Handed(p, n, img)
  PROVE  Handed(p, n, img)'
<1>1. /\ at' = [at EXCEPT ![q] = NoSlot]
      /\ hello' = [hello EXCEPT ![q] = FALSE]
      /\ downNet' = [downNet EXCEPT ![q] = <<>>]
      /\ UNCHANGED <<got, buf, written, joins, wState, wTo, wNext, sharedSave>>
      /\ Connected(q)
  BY DEF Leave, srvVars, threadVars
<1>2. \A w \in Workers : Serving(w, p)' <=> Serving(w, p)
  BY <1>1 DEF Serving
<1>3. CASE q # p
  <2>1. at'[p] = at[p] /\ hello'[p] = hello[p] /\ downNet'[p] = downNet[p]
    BY <1>1, <1>3 DEF IInv, LocalOK
  <2> QED BY <1>1, <1>2, <2>1, HandedKept
<1>4. CASE q = p
  <2>1. at'[p] = NoSlot /\ ~hello'[p] /\ Len(downNet'[p]) = 0
    BY <1>1, <1>4, EmptySeq DEF IInv, LocalOK
  <2>2. joins[p] # 0
    BY <1>1, <1>4 DEF LinkInv, LinkOK
  <2>3. n \in Nat /\ Len(downNet[p]) \in Nat
    BY ChunkTypes, LenProperties DEF IInv, LocalOK
  <2>4. ASSUME NEW i \in got[p] PROVE i < n /\ (written[p] = 0 => buf[p][i] = img[i])
    <3>1. i \in Int
      BY ChunkTypes DEF IInv, LocalOK
    <3>2. i < n - Len(downNet[p]) /\ (written[p] = 0 => buf[p][i] = img[i])
      BY DEF Handed
    <3>3. i < n
      BY <2>3, <3>1, <3>2
    <3> QED BY <3>2, <3>3
  <2>5. n - Len(downNet'[p]) = n /\ Len(downNet'[p]) <= n /\ 1 .. Len(downNet'[p]) = {}
    BY <2>1, <2>3
  <2>6. ~Connected(p)'
    BY <2>1 DEF Connected
  <2>7. \A w \in Workers : Serving(w, p) =>
          wNext[w] = n /\ (wState[w] = "sending" => img = sharedSave)
    BY DEF Handed
  <2> QED BY <1>1, <1>2, <2>1, <2>2, <2>4, <2>5, <2>6, <2>7 DEF Handed
<1> QED BY <1>3, <1>4

LEMMA HandedLock ==
  ASSUME IInv, LinkInv, NEW v \in Workers, Srv!WorkerLock(v), UNCHANGED cliVars,
         NEW p \in Players, Steady(p),
         NEW n \in 0 .. ChunkCount, NEW img \in everShared, Handed(p, n, img)
  PROVE  \E im \in everShared : Handed(p, n, im)'
<1>1. /\ wState[v] = "waiting"
      /\ wState' = [wState EXCEPT ![v] = "sending"]
      /\ UNCHANGED <<at, hello, got, buf, written, downNet, joins, wTo, wNext, sharedSave>>
  BY DEF Srv!WorkerLock, Srv!saveVars, cliVars, threadVars
<1>2. /\ wState'[v] = "sending"
      /\ \A w \in Workers \ {v} : wState'[w] = wState[w]
  BY <1>1, ServerTypes DEF IInv, Srv!TypeOK
<1>3. \A w \in Workers : Serving(w, p)' <=> Serving(w, p)
  BY <1>1, <1>2 DEF Serving
<1>4. CASE ~Serving(v, p)
  <2>1. Handed(p, n, img)'
    BY <1>1, <1>2, <1>3, <1>4, HandedKept
  <2> QED BY <2>1
<1>5. CASE Serving(v, p)
  <2>1. LinkOK(p) /\ wNext[v] = 0
    BY <1>1 DEF LinkInv, IInv, ServerInv, Server!WorkerProgress
  <2>2. \A w \in Workers : Serving(w, p) => w = v
    BY <1>5, <2>1 DEF LinkOK
  <2>3. n = 0
    BY <1>5, <2>1 DEF Handed
  <2>4. Len(downNet[p]) \in Nat /\ Len(downNet[p]) <= 0
    BY <2>3, LenProperties DEF Handed, IInv, LocalOK
  <2>5. Len(downNet[p]) = 0
    BY <2>4
  <2>6. got[p] = {}
    <3>1. ASSUME NEW i \in got[p] PROVE FALSE
      <4>1. i \in Nat
        BY ChunkTypes DEF IInv, LocalOK
      <4>2. i < n - Len(downNet[p])
        BY DEF Handed
      <4> QED BY <2>3, <2>5, <4>1, <4>2
    <3> QED BY <3>1
  <2>7. PICK im \in everShared : im = sharedSave
    BY DEF IInv, SharedInv
  <2>8. Connected(p)' <=> Connected(p)
    BY <1>1 DEF Connected
  <2>9. 1 .. Len(downNet[p]) = {} /\ Len(downNet[p]) <= n
    BY <2>3, <2>5
  <2>10. ASSUME NEW w \in Workers, Serving(w, p)'
         PROVE  wNext'[w] = n /\ (Connected(p)' => wTo'[w] = at'[p])
    <3>1. Serving(w, p)
      BY <1>3, <2>10
    <3>2. wNext[w] = n /\ (Connected(p) => wTo[w] = at[p])
      BY <3>1 DEF Handed
    <3> QED BY <1>1, <2>8, <3>2
  <2>11. Serving(v, p)'
    BY <1>3, <1>5
  <2>12. hello'[p] \/ joins'[p] = 0 => n = 0
    BY <2>3
  <2>13. Handed(p, n, im)'
    <3>1. /\ got'[p] = {} /\ 1 .. Len(downNet'[p]) = {} /\ Len(downNet'[p]) <= n
          /\ sharedSave' = im
      BY <1>1, <2>6, <2>7, <2>9
    <3>2. \A k \in 1 .. Len(downNet'[p]) :
            downNet'[p][k] = <<n - Len(downNet'[p]) + k - 1,
                               im[n - Len(downNet'[p]) + k - 1]>>
      BY <3>1
    <3>3. \A i \in got'[p] : /\ i < n - Len(downNet'[p])
                             /\ written'[p] = 0 => buf'[p][i] = im[i]
      BY <3>1
    <3>4. \A w \in Workers : Serving(w, p)' =>
            /\ wNext'[w] = n
            /\ Connected(p)' => wTo'[w] = at'[p]
            /\ wState'[w] = "sending" => im = sharedSave'
      BY <2>10, <3>1
    <3> QED BY <2>11, <2>12, <3>1, <3>2, <3>3, <3>4 DEF Handed
  <2> QED BY <2>13
<1> QED BY <1>4, <1>5

LEMMA HandedUnlock ==
  ASSUME IInv, LinkInv, NEW v \in Workers, Srv!WorkerUnlock(v), UNCHANGED cliVars,
         NEW p \in Players, Steady(p),
         NEW n \in 0 .. ChunkCount, NEW img \in everShared, Handed(p, n, img)
  PROVE  Handed(p, n, img)'
<1>1. /\ wState[v] = "sending" /\ wNext[v] = ChunkCount
      /\ wState' = [wState EXCEPT ![v] = "none"]
      /\ wNext' = [wNext EXCEPT ![v] = 0]
      /\ UNCHANGED <<at, hello, got, buf, written, downNet, joins, wTo, sharedSave>>
  BY DEF Srv!WorkerUnlock, Srv!saveVars, cliVars, threadVars
<1>2. /\ wState'[v] = "none"
      /\ \A w \in Workers \ {v} : wState'[w] = wState[w] /\ wNext'[w] = wNext[w]
  BY <1>1, ServerTypes DEF IInv, Srv!TypeOK
<1>3. ~Serving(v, p)' /\ \A w \in Workers \ {v} : Serving(w, p)' <=> Serving(w, p)
  BY <1>1, <1>2 DEF Serving
<1>4. CASE ~Serving(v, p)
  BY <1>1, <1>2, <1>3, <1>4, HandedKept
<1>5. CASE Serving(v, p)
  <2>1. n = ChunkCount
    BY <1>1, <1>5 DEF Handed
  <2>2. LinkOK(p)
    BY DEF LinkInv
  <2>3. \A w \in Workers : ~Serving(w, p)'
    BY <1>3, <1>5, <2>2 DEF LinkOK
  <2> QED BY <1>1, <2>1, <2>3 DEF Handed
<1> QED BY <1>4, <1>5

LEMMA HandedCommit ==
  ASSUME IInv, CommitSave,
         NEW p \in Players,
         NEW n \in 0 .. ChunkCount, NEW img \in everShared, Handed(p, n, img)
  PROVE  Handed(p, n, img)'
<1>1. /\ ~mutexBusy
      /\ UNCHANGED <<at, hello, got, buf, written, downNet, joins, wTo, wState, wNext>>
  BY DEF CommitSave, Srv!CommitSave, Srv!MutexFree, Srv!workerVars, threadVars
<1>2. \A w \in Workers : wState[w] # "sending"
  BY <1>1 DEF IInv, ServerInv, Server!OneHolder
<1> QED BY <1>1, <1>2, HandedKept DEF Serving

LEMMA HandedMenu ==
  ASSUME IInv, NEW q \in Players,
         StartDownload(q) \/ FinishDownload(q) \/ AbortDownload(q),
         NEW p \in Players,
         NEW n \in 0 .. ChunkCount, NEW img \in everShared, Handed(p, n, img)
  PROVE  Handed(p, n, img)'
<1>1. UNCHANGED <<at, hello, written, downNet, joins, wTo, wState, wNext, sharedSave>>
  BY DEF StartDownload, FinishDownload, AbortDownload, srvVars, threadVars
<1>2. (got'[p] = got[p] /\ buf'[p] = buf[p]) \/ got'[p] = {}
  BY DEF StartDownload, FinishDownload, AbortDownload, IInv, LocalOK
<1> QED BY <1>1, <1>2, HandedKept DEF Serving

LEMMA HandedOther ==
  ASSUME IInv, NEW q \in Players,
         BeginWrite(q) \/ CopyChunk(q) \/ UploadStep(q) \/ DeliverChunk(q),
         NEW p \in Players,
         NEW n \in 0 .. ChunkCount, NEW img \in everShared, Handed(p, n, img)
  PROVE  Handed(p, n, img)'
<1>1. UNCHANGED <<at, hello, got, downNet, joins, wTo, wState, wNext, sharedSave>>
  BY DEF BeginWrite, CopyChunk, UploadStep, UploadStart, UploadSend, DeliverChunk,
     srvVars, threadVars, Srv!StoreChunk, Srv!IgnoreChunk, Srv!saveVars, Srv!workerVars
<1>2. written'[p] = 0 => written[p] = 0
  <2>1. CASE BeginWrite(q)
    <3>1. written' = [written EXCEPT ![q] = written[q] + 1] /\ written[q] \in Nat
      BY <2>1, SaveSyncAssumption DEF BeginWrite, IInv, LocalOK
    <3> QED BY <3>1 DEF IInv, LocalOK
  <2>2. CASE ~BeginWrite(q)
    BY <2>2 DEF CopyChunk, UploadStep, UploadStart, UploadSend, DeliverChunk, threadVars
  <2> QED BY <2>1, <2>2
<1>3. written[p] = 0 => buf'[p] = buf[p]
  <2>1. CASE CopyChunk(q)
    <3>1. copied[q] # ChunkCount /\ buf' = [buf EXCEPT ![q] = buf'[q]]
      BY <2>1, ChunkTypes DEF CopyChunk, IInv, LocalOK
    <3>2. written[q] # 0
      BY <3>1 DEF IInv, PlayerInv
    <3> QED BY <3>1, <3>2 DEF IInv, LocalOK
  <2>2. CASE ~CopyChunk(q)
    BY <2>2 DEF BeginWrite, UploadStep, UploadStart, UploadSend, DeliverChunk
  <2> QED BY <2>1, <2>2
<1>4. written'[p] = 0 => written[p] = 0 /\ \A i \in got'[p] : buf'[p][i] = buf[p][i]
  BY <1>2, <1>3
<1>5. got'[p] \subseteq got[p]
  BY <1>1
<1> QED BY <1>1, <1>4, <1>5, HandedKept DEF Serving

LEMMA HandedNotices ==
  ASSUME NEW s \in Slots, ServerNotices(s),
         NEW p \in Players,
         NEW n \in 0 .. ChunkCount, NEW img \in everShared, Handed(p, n, img)
  PROVE  Handed(p, n, img)'
<1>1. UNCHANGED <<at, hello, got, buf, written, downNet, joins, wTo, wState, wNext,
                  sharedSave>>
  BY DEF ServerNotices, Srv!Disconnect, cliVars, threadVars, Srv!saveVars, Srv!workerVars
<1> QED BY <1>1, HandedKept DEF Serving

LEMMA LinkStep == ASSUME IInv, LinkInv, HandedInv, [Next]_vars PROVE LinkInv'
<1>1. ASSUME NEW q \in Players, ReceiveChunk(q) PROVE LinkInv'
  <2>1. Steady(q) => ~hello[q]
    BY <1>1, HandedReceive DEF HandedInv
  <2> QED BY <1>1, <2>1, LinkReceive
<1>2. ASSUME NEW q \in Players,
             StartDownload(q) \/ FinishDownload(q) \/ AbortDownload(q)
      PROVE  LinkInv'
  <2>1. \A p \in Players : got'[p] = got[p] \/ got'[p] = {}
    BY <1>2 DEF StartDownload, FinishDownload, AbortDownload, IInv, LocalOK
  <2>2. UNCHANGED <<at, hello, joins, session, wState, wTo>>
    BY <1>2 DEF StartDownload, FinishDownload, AbortDownload, srvVars
  <2> QED BY <2>1, <2>2, LinkKept
<1>3. ASSUME NEW q \in Players,
             BeginWrite(q) \/ CopyChunk(q) \/ UploadStep(q) \/ DeliverChunk(q)
      PROVE  LinkInv'
  <2>1. UNCHANGED <<at, hello, joins, session, wState, wTo, got>>
    BY <1>3 DEF BeginWrite, CopyChunk, UploadStep, UploadStart, UploadSend, DeliverChunk,
       srvVars, Srv!StoreChunk, Srv!IgnoreChunk, Srv!workerVars
  <2> QED BY <2>1, LinkKept
<1>4. ASSUME NEW w \in Workers, WorkerSend(w) PROVE LinkInv'
  <2>1. UNCHANGED <<at, hello, joins, session, wState, wTo, got>>
    BY <1>4 DEF WorkerSend, Srv!WorkerSend
  <2> QED BY <2>1, LinkKept
<1>5. ASSUME CommitSave PROVE LinkInv'
  <2>1. UNCHANGED <<at, hello, joins, session, wState, wTo, got>>
    BY <1>5 DEF CommitSave, Srv!CommitSave, Srv!workerVars
  <2> QED BY <2>1, LinkKept
<1>6. ASSUME UNCHANGED vars PROVE LinkInv'
  <2>1. UNCHANGED <<at, hello, joins, session, wState, wTo, got>>
    BY <1>6 DEF vars, srvVars, cliVars
  <2> QED BY <2>1, LinkKept
<1> QED
  BY <1>1, <1>2, <1>3, <1>4, <1>5, <1>6, LinkJoin, LinkGreet, LinkLeave, LinkServer
  DEF Next, GameStep, WorkerTurn

LEMMA HandedStep == ASSUME IInv, LinkInv, HandedInv, [Next]_vars PROVE HandedInv'
<1> SUFFICES ASSUME NEW p \in Players, Steady(p)
             PROVE  \E m \in 0 .. ChunkCount, im \in everShared' : Handed(p, m, im)'
  BY DEF HandedInv, Steady
<1>1. PICK n \in 0 .. ChunkCount, img \in everShared : Handed(p, n, img)
  BY DEF HandedInv
<1>2. CASE UNCHANGED vars
  <2>1. Handed(p, n, img)' /\ img \in everShared'
    BY <1>1, <1>2 DEF vars, srvVars, cliVars, threadVars, Handed, Connected, Serving
  <2> QED BY <2>1
<1>3. CASE Next
  <2>1. everShared \subseteq everShared'
    BY <1>3, HistoryKept
  <2>2. ASSUME NEW q \in Players, NEW s \in Slots, Join(q, s) PROVE Handed(p, n, img)'
    BY <1>1, <2>2, HandedJoin
  <2>3. ASSUME NEW q \in Players, NEW w \in Workers, Greet(q, w) PROVE Handed(p, n, img)'
    BY <1>1, <2>3, HandedGreet
  <2>4. ASSUME NEW q \in Players,
               \/ GameStep(q) \/ BeginWrite(q) \/ UploadStep(q)
               \/ ReceiveChunk(q) \/ DeliverChunk(q) \/ Leave(q)
        PROVE  Handed(p, n, img)'
    BY <1>1, <2>4, HandedMenu, HandedOther, HandedReceive, HandedLeave DEF GameStep
  <2>5. ASSUME NEW s \in Slots, ServerNotices(s) PROVE Handed(p, n, img)'
    BY <1>1, <2>5, HandedNotices
  <2>6. ASSUME NEW w \in Workers, WorkerTurn(w)
        PROVE  \E m \in 0 .. ChunkCount, im \in everShared : Handed(p, m, im)'
    <3>1. CASE WorkerSend(w)
      BY <1>1, <3>1, HandedSend
    <3>2. CASE Srv!WorkerLock(w) /\ UNCHANGED cliVars
      BY <1>1, <3>2, HandedLock
    <3>3. CASE Srv!WorkerUnlock(w) /\ UNCHANGED cliVars
      BY <1>1, <3>3, HandedUnlock
    <3> QED BY <2>6, <3>1, <3>2, <3>3 DEF WorkerTurn
  <2>7. CommitSave => Handed(p, n, img)'
    BY <1>1, HandedCommit
  <2>8. \E m \in 0 .. ChunkCount, im \in everShared : Handed(p, m, im)'
    <3>1. Handed(p, n, img)'
            => \E m \in 0 .. ChunkCount, im \in everShared : Handed(p, m, im)'
      OBVIOUS
    <3> QED BY <1>3, <2>2, <2>3, <2>4, <2>5, <2>6, <2>7, <3>1 DEF Next
  <2> QED BY <2>1, <2>8
<1> QED BY <1>2, <1>3

(* All chunks have arrived: then nothing is on its way or will be, and the buffer is
   the content of the shared save that the chunks were cut from. *)
LEMMA Arrived ==
  ASSUME IInv, NEW p \in Players, NEW n \in 0 .. ChunkCount, NEW img \in everShared,
         Handed(p, n, img), got[p] = Chunks
  PROVE  /\ n = ChunkCount /\ downNet[p] = <<>>
         /\ written[p] = 0 => buf[p] = img
<1>1. Len(downNet[p]) \in Nat /\ ChunkCount \in Nat \ {0} /\ n \in Nat /\ n <= ChunkCount
  BY ChunkTypes, LenProperties DEF IInv, LocalOK
<1>2. ChunkCount - 1 \in got[p] /\ ChunkCount - 1 \in Int
  BY <1>1, ChunkTypes
<1>3. ChunkCount - 1 < n - Len(downNet[p])
  BY <1>2 DEF Handed
<1>4. n = ChunkCount /\ Len(downNet[p]) = 0
  BY <1>1, <1>3
<1>5. downNet[p] = <<>>
  BY <1>4, EmptySeq DEF IInv, LocalOK
<1>6. ASSUME written[p] = 0 PROVE buf[p] = img
  <2>1. \A i \in Chunks : buf[p][i] = img[i]
    BY <1>6 DEF Handed
  <2>2. img \in [Chunks -> Images] /\ buf[p] \in [Chunks -> Images \cup {Zero}]
    BY ChunkTypes DEF IInv, SharedInv, LocalOK
  <2> QED BY <2>1, <2>2
<1> QED BY <1>4, <1>5, <1>6

(* A game that has finished its download starts from a content the shared save really
   had, if every player has a place of its own and connects once: a chunk sent to the
   client that had the place before, or for the last connection, would be taken for
   one of this download (Client.cpp:54-80, SaveDataSync.cpp:22-60). *)
THEOREM DownloadsAreWhole ==
  (\A p \in Players : Steady(p)) => (Spec => []DownloadedWhole)
<1> SUFFICES ASSUME \A p \in Players : Steady(p) PROVE Spec => []DownloadedWhole
  OBVIOUS
<1>1. IInv /\ HandedInv => DownloadedWhole
  <2> SUFFICES ASSUME IInv, HandedInv, NEW p \in Players,
                      phase[p] = "playing", written[p] = 0
               PROVE  buf[p] \in everShared
    BY DEF DownloadedWhole
  <2>1. PICK n \in 0 .. ChunkCount, img \in everShared : Handed(p, n, img)
    BY DEF HandedInv
  <2>2. got[p] = Chunks
    BY DEF IInv, PlayerInv
  <2> QED BY <2>1, <2>2, Arrived
<1>2. Init => IInv /\ LinkInv /\ HandedInv
  BY InitInv, LinkInit, HandedInit
<1>3. IInv /\ LinkInv /\ HandedInv /\ [Next]_vars => IInv' /\ LinkInv' /\ HandedInv'
  BY InvStep, LinkStep, HandedStep
<1> QED BY <1>1, <1>2, <1>3, PTL DEF Spec

-----------------------------------------------------------------------------
(* A player with a place of its own and a connection that holds; and one that is the
   only one who has something to upload. *)
Stable(p) == Steady(p) /\ p \notin MayLeave

Alone(p) == Stable(p) /\ \A q \in Players \ {p} : UploadIdle(q)

Stays(p) == joins[p] # 0 => Connected(p)

(* The chunk after i, and the same for the chunk the upload thread is at. *)
Following(i) == IF i = ChunkCount - 1 THEN 0 ELSE i + 1

Wrapped(i) == IF i = ChunkCount THEN 0 ELSE i

(* The chunks on their way, and the next one. *)
Upcoming(p, j) == IF j <= Len(upNet[p]) THEN upNet[p][j][1] ELSE Wrapped(upAt[p])

(* What the save hook has copied is of the last save. *)
CopiedOK(p) ==
  written[p] # 0 => \A i \in Chunks : i < copied[p] => buf[p][i] = <<p, written[p]>>

(* Nobody else sends a chunk, and the chunks come in turn: the server has those
   before the first that is on its way, and the last upAt[p] of those on their way are
   of the upload that goes on. *)
InTurn(p) ==
  /\ \A q \in Players \ {p} : upNet[q] = <<>>
  /\ written[p] = 0 => upNet[p] = <<>> /\ acked = {}
  /\ acked # {} => uploader = at[p]
  /\ acked = 0 .. Upcoming(p, 1) - 1
  /\ \A j \in 1 .. Len(upNet[p]) : Upcoming(p, j + 1) = Following(Upcoming(p, j))
  /\ \A j \in 1 .. Len(upNet[p]) :
       j > Len(upNet[p]) - upAt[p] => upNet[p][j][1] = upAt[p] - Len(upNet[p]) + j - 1

(* When no upload is asked for and no copy is going on, the chunks of the upload that
   goes on, or of the last one, are of the last save, wherever they are by now. *)
LatestOnWay(p) ==
  \A j \in 1 .. Len(upNet[p]) :
    j > Len(upNet[p]) - upAt[p] => upNet[p][j][2] = <<p, written[p]>>

LatestAtServer(p) ==
  /\ upAt[p] - Len(upNet[p]) < ChunkCount =>
       \A i \in 0 .. upAt[p] - Len(upNet[p]) - 1 : workBuf[i] = <<p, written[p]>>
  /\ upAt[p] - Len(upNet[p]) = ChunkCount =>
       IF committing THEN workBuf = LastSave(p) ELSE sharedSave = LastSave(p)

LatestOK(p) ==
  written[p] # 0 /\ copied[p] = ChunkCount /\ ~signaled[p]
    => LatestOnWay(p) /\ LatestAtServer(p)

SoleInv(p) == Stays(p) /\ CopiedOK(p) /\ InTurn(p) /\ LatestOK(p)

LEMMA SoleInit == ASSUME Init, NEW p \in Players PROVE SoleInv(p)
<1>1. /\ joins[p] = 0 /\ written[p] = 0 /\ upAt[p] = ChunkCount
      /\ \A q \in Players : upNet[q] = <<>>
  BY DEF Init
<1>2. acked = {}
  BY DEF Init, Srv!Init
<1>3. Len(upNet[p]) = 0 /\ ~(1 <= Len(upNet[p])) /\ 1 .. Len(upNet[p]) = {}
  BY <1>1, EmptySeq
<1>4. Upcoming(p, 1) = 0 /\ 0 .. 0 - 1 = {}
  BY <1>1, <1>3 DEF Upcoming, Wrapped
<1>5. InTurn(p)
  BY <1>1, <1>2, <1>3, <1>4 DEF InTurn
<1> QED BY <1>1, <1>5 DEF SoleInv, Stays, CopiedOK, LatestOK

(* A writer's game plays; its chunks have all arrived, so that no more will. *)
LEMMA WriterThere ==
  ASSUME IInv, LinkInv, HandedInv, NEW p \in Players, Stable(p), Stays(p), written[p] # 0
  PROVE  /\ Connected(p) /\ at[p] \in Slots /\ session[at[p]] = "greeted"
         /\ phase[p] = "playing" /\ downNet[p] = <<>> /\ got[p] = Chunks
<1>1. phase[p] = "playing" /\ got[p] = Chunks
  BY DEF IInv, PlayerInv
<1>2. PICK n \in 0 .. ChunkCount, img \in everShared : Handed(p, n, img)
  BY DEF HandedInv, Stable
<1>3. n = ChunkCount /\ downNet[p] = <<>>
  BY <1>1, <1>2, Arrived
<1>4. n # 0
  BY <1>3, ChunkTypes
<1>5. ~hello[p] /\ joins[p] # 0
  BY <1>2, <1>4 DEF Handed
<1>6. Connected(p)
  BY <1>5 DEF Stays
<1>7. session[at[p]] = "greeted"
  BY <1>5, <1>6 DEF LinkInv, LinkOK, Stable
<1>8. at[p] \in Slots
  BY <1>6 DEF Connected, IInv, LocalOK
<1> QED BY <1>1, <1>3, <1>6, <1>7, <1>8

LEMMA OnlyWriter ==
  ASSUME NEW p \in Players, Alone(p), NEW q \in Players,
         copied[q] # ChunkCount \/ upAt[q] # ChunkCount \/ signaled[q]
  PROVE  q = p
BY DEF Alone, UploadIdle

(* Who begins a save has something to upload; nobody else begins to have. *)
LEMMA BeginsBusy ==
  ASSUME IInv, NEW q \in Players, BeginWrite(q)
  PROVE  ~UploadIdle(q)'
<1>1. copied'[q] = 0
  BY DEF BeginWrite, IInv, LocalOK
<1> QED BY <1>1, ChunkTypes DEF UploadIdle

LEMMA IdleKept ==
  ASSUME IInv, NEW p \in Players, UploadIdle(p), ~BeginWrite(p), [Next]_vars
  PROVE  UploadIdle(p)'
<1> USE DEF srvVars, cliVars, threadVars
<1>1. CASE UNCHANGED <<copied, signaled, upAt, upNet>>
  BY <1>1 DEF UploadIdle
<1>2. CASE \E q \in Players : BeginWrite(q)
  <2>1. PICK q \in Players : BeginWrite(q) /\ q # p
    BY <1>2
  <2> QED BY <2>1 DEF BeginWrite, UploadIdle, IInv, LocalOK
<1>3. ASSUME NEW q \in Players, CopyChunk(q) PROVE UploadIdle(p)'
  <2>1. q # p
    BY <1>3, ChunkTypes DEF CopyChunk, UploadIdle
  <2> QED BY <1>3, <2>1 DEF CopyChunk, RequestUpload, UploadIdle, IInv, LocalOK
<1>4. ASSUME NEW q \in Players, UploadStep(q) PROVE UploadIdle(p)'
  <2>1. q # p
    BY <1>4, ChunkTypes DEF UploadStep, UploadStart, UploadSend, UploadIdle
  <2> QED BY <1>4, <2>1
          DEF UploadStep, UploadStart, UploadSend, UploadIdle, IInv, LocalOK
<1>5. ASSUME NEW q \in Players, DeliverChunk(q) PROVE UploadIdle(p)'
  <2>1. q # p
    BY <1>5 DEF DeliverChunk, UploadIdle
  <2> QED BY <1>5, <2>1 DEF DeliverChunk, UploadIdle, IInv, LocalOK
<1>6. ASSUME NEW q \in Players, Leave(q) PROVE UploadIdle(p)'
  BY <1>6 DEF Leave, UploadIdle, IInv, LocalOK
<1>7. ASSUME NEW q \in Players,
             \/ \E s \in Slots : Join(q, s)
             \/ \E w \in Workers : Greet(q, w)
             \/ StartDownload(q) \/ FinishDownload(q) \/ AbortDownload(q)
             \/ ReceiveChunk(q)
      PROVE  UNCHANGED <<copied, signaled, upAt, upNet>>
  BY <1>7 DEF Join, Greet, StartDownload, FinishDownload, AbortDownload, ReceiveChunk
<1>8. ASSUME \/ \E s \in Slots : ServerNotices(s)
             \/ \E w \in Workers : WorkerTurn(w)
             \/ CommitSave
      PROVE  UNCHANGED <<copied, signaled, upAt, upNet>>
  BY <1>8 DEF ServerNotices, WorkerTurn, WorkerSend, CommitSave
<1>9. CASE UNCHANGED vars
  BY <1>1, <1>9 DEF vars
<1>10. CASE Next
  BY <1>1, <1>2, <1>3, <1>4, <1>5, <1>6, <1>7, <1>8, <1>10 DEF Next, GameStep
<1> QED BY <1>9, <1>10

LEMMA SoleKept ==
  ASSUME NEW p \in Players, SoleInv(p),
         UNCHANGED <<acked, uploader, workBuf, committing, sharedSave, written, copied,
                     signaled, upAt>>,
         at'[p] = at[p], joins'[p] = joins[p], upNet'[p] = upNet[p],
         \A q \in Players : upNet'[q] = upNet[q] \/ upNet'[q] = <<>>,
         written[p] # 0 => buf'[p] = buf[p]
  PROVE  SoleInv(p)'
<1>1. Stays(p)'
  BY DEF SoleInv, Stays, Connected
<1>2. CopiedOK(p)'
  BY DEF SoleInv, CopiedOK
<1>3. \A j : Upcoming(p, j)' = Upcoming(p, j)
  BY DEF Upcoming
<1>4. InTurn(p)'
  <2>1. \A q \in Players \ {p} : upNet'[q] = <<>>
    BY DEF SoleInv, InTurn
  <2> QED BY <1>3, <2>1 DEF SoleInv, InTurn
<1>5. LatestOK(p)'
  BY DEF SoleInv, LatestOK, LatestOnWay, LatestAtServer, LastSave, Whole, Chunks, Srv!Chunks
<1> QED BY <1>1, <1>2, <1>4, <1>5 DEF SoleInv

LEMMA SoleJoin ==
  ASSUME IInv, LinkInv, HandedInv, NEW p \in Players, Alone(p), SoleInv(p),
         NEW q \in Players, NEW s \in Slots, Join(q, s)
  PROVE  SoleInv(p)'
<1>1. /\ at' = [at EXCEPT ![q] = s] /\ joins' = [joins EXCEPT ![q] = joins[q] + 1]
      /\ UNCHANGED <<acked, uploader, workBuf, committing, sharedSave, written, copied,
                     signaled, upAt, upNet, buf>>
      /\ ~Connected(q)
  BY DEF Join, Srv!Connect, Srv!transferVars, Srv!saveVars, threadVars
<1>2. CASE q # p
  <2>1. at'[p] = at[p] /\ joins'[p] = joins[p]
    BY <1>1, <1>2 DEF IInv, LocalOK
  <2> QED BY <1>1, <2>1, SoleKept
<1>3. CASE q = p
  <2>1. written[p] = 0
    BY <1>1, <1>3, WriterThere DEF SoleInv, Alone
  <2>2. at'[p] # NoSlot
    BY <1>1, <1>3, ChunkTypes DEF IInv, LocalOK
  <2>3. Stays(p)'
    BY <2>2 DEF Stays, Connected
  <2>4. CopiedOK(p)' /\ LatestOK(p)'
    BY <1>1, <2>1 DEF CopiedOK, LatestOK
  <2>5. acked' = {}
    BY <1>1, <2>1 DEF SoleInv, InTurn
  <2>6. \A j : Upcoming(p, j)' = Upcoming(p, j)
    BY <1>1 DEF Upcoming
  <2>7. InTurn(p)'
    BY <1>1, <2>5, <2>6 DEF SoleInv, InTurn
  <2> QED BY <2>3, <2>4, <2>7 DEF SoleInv
<1> QED BY <1>2, <1>3

LEMMA SolePlayers ==
  ASSUME IInv, LinkInv, HandedInv, NEW p \in Players, Alone(p), SoleInv(p),
         NEW q \in Players,
         \/ \E w \in Workers : Greet(q, w)
         \/ StartDownload(q) \/ FinishDownload(q) \/ AbortDownload(q)
         \/ ReceiveChunk(q) \/ Leave(q)
  PROVE  SoleInv(p)'
<1>1. UNCHANGED <<acked, uploader, workBuf, committing, sharedSave, written, copied,
                  signaled, upAt, joins>>
  BY DEF Greet, Srv!Greet, StartDownload, FinishDownload, AbortDownload, ReceiveChunk,
     Leave, srvVars, threadVars, Srv!transferVars, Srv!saveVars
<1>2. at'[p] = at[p] /\ upNet'[p] = upNet[p]
  <2>1. CASE Leave(q)
    <3>1. q # p
      BY <2>1 DEF Leave, Alone, Stable
    <3> QED BY <2>1, <3>1 DEF Leave, IInv, LocalOK
  <2>2. CASE ~Leave(q)
    BY <2>2 DEF Greet, StartDownload, FinishDownload, AbortDownload, ReceiveChunk
  <2> QED BY <2>1, <2>2
<1>3. \A r \in Players : upNet'[r] = upNet[r] \/ upNet'[r] = <<>>
  BY DEF Greet, StartDownload, FinishDownload, AbortDownload, ReceiveChunk, Leave,
     IInv, LocalOK
<1>4. ASSUME written[p] # 0 PROVE buf'[p] = buf[p]
  <2>1. phase[p] = "playing" /\ downNet[p] = <<>>
    BY <1>4, WriterThere DEF SoleInv, Alone
  <2>2. CASE StartDownload(q) \/ AbortDownload(q) \/ ReceiveChunk(q)
    <3>1. q # p
      BY <2>1, <2>2 DEF StartDownload, AbortDownload, ReceiveChunk
    <3> QED BY <2>2, <3>1 DEF StartDownload, AbortDownload, ReceiveChunk, IInv, LocalOK
  <2>3. CASE ~(StartDownload(q) \/ AbortDownload(q) \/ ReceiveChunk(q))
    BY <2>3 DEF Greet, FinishDownload, Leave
  <2> QED BY <2>2, <2>3
<1> QED BY <1>1, <1>2, <1>3, <1>4, SoleKept

LEMMA SoleServer ==
  ASSUME NEW p \in Players, SoleInv(p),
         (\E s \in Slots : ServerNotices(s)) \/ \E w \in Workers : WorkerTurn(w)
  PROVE  SoleInv(p)'
<1>1. UNCHANGED <<acked, uploader, workBuf, committing, sharedSave, written, copied,
                  signaled, upAt, joins, at, upNet, buf>>
  BY DEF ServerNotices, Srv!Disconnect, WorkerTurn, WorkerSend, Srv!WorkerSend,
     Srv!WorkerLock, Srv!WorkerUnlock, cliVars, threadVars, Srv!transferVars, Srv!saveVars
<1> QED BY <1>1, SoleKept

LEMMA SoleWrite ==
  ASSUME IInv, NEW p \in Players, Alone(p), SoleInv(p), Alone(p)',
         NEW q \in Players, BeginWrite(q) \/ CopyChunk(q)
  PROVE  SoleInv(p)'
<1>1. q = p
  <2>1. BeginWrite(q) => q = p
    BY BeginsBusy DEF Alone
  <2>2. CopyChunk(q) => copied[q] # ChunkCount
    BY ChunkTypes DEF CopyChunk, IInv, LocalOK
  <2> QED BY <2>1, <2>2, OnlyWriter
<1>2. UNCHANGED <<acked, uploader, at, joins, upNet, upAt>>
  BY DEF BeginWrite, CopyChunk, srvVars
<1>3. Stays(p)'
  BY <1>2 DEF SoleInv, Stays, Connected
<1>4. \A j : Upcoming(p, j)' = Upcoming(p, j)
  BY <1>2 DEF Upcoming
<1>5. CASE BeginWrite(q)
  <2>1. /\ copied' = [copied EXCEPT ![p] = 0]
        /\ written' = [written EXCEPT ![p] = written[p] + 1]
    BY <1>1, <1>5 DEF BeginWrite
  <2>2. copied'[p] = 0 /\ written'[p] # 0
    BY <2>1, SaveSyncAssumption DEF IInv, LocalOK
  <2>3. CopiedOK(p)'
    BY <2>2, ChunkTypes DEF CopiedOK
  <2>4. LatestOK(p)'
    BY <2>2, ChunkTypes DEF LatestOK
  <2>5. InTurn(p)'
    BY <1>2, <1>4, <2>2 DEF SoleInv, InTurn
  <2> QED BY <1>3, <2>3, <2>4, <2>5 DEF SoleInv
<1>6. CASE CopyChunk(q)
  <2>1. /\ copied[p] < ChunkCount
        /\ buf' = [buf EXCEPT ![p] = [buf[p] EXCEPT ![copied[p]] = <<p, written[p]>>]]
        /\ copied' = [copied EXCEPT ![p] = copied[p] + 1]
        /\ copied[p] + 1 = ChunkCount => signaled' = [signaled EXCEPT ![p] = TRUE]
        /\ UNCHANGED written
    BY <1>1, <1>6 DEF CopyChunk, RequestUpload
  <2>2. /\ copied'[p] = copied[p] + 1 /\ copied[p] \in Nat
        /\ buf[p] \in [Chunks -> Images \cup {Zero}]
        /\ buf'[p] = [buf[p] EXCEPT ![copied[p]] = <<p, written[p]>>]
    BY <2>1, ChunkTypes DEF IInv, LocalOK
  <2>3. CopiedOK(p)'
    <3> SUFFICES ASSUME written[p] # 0, NEW i \in Chunks, i < copied[p] + 1
                 PROVE  buf'[p][i] = <<p, written[p]>>
      BY <2>1, <2>2 DEF CopiedOK
    <3>1. CASE i = copied[p]
      BY <2>2, <3>1
    <3>2. CASE i # copied[p]
      <4>1. i < copied[p]
        BY <2>2, <3>2, ChunkTypes
      <4> QED BY <2>2, <3>2, <4>1 DEF SoleInv, CopiedOK
    <3> QED BY <3>1, <3>2
  <2>4. LatestOK(p)'
    <3>1. copied'[p] = ChunkCount => signaled'[p]
      BY <2>1, <2>2 DEF IInv, LocalOK
    <3> QED BY <3>1 DEF LatestOK
  <2>5. InTurn(p)'
    BY <1>2, <1>4, <2>1 DEF SoleInv, InTurn
  <2> QED BY <1>3, <2>3, <2>4, <2>5 DEF SoleInv
<1> QED BY <1>5, <1>6

LEMMA SoleStart ==
  ASSUME IInv, NEW p \in Players, Alone(p), SoleInv(p),
         NEW q \in Players, UploadStart(q)
  PROVE  SoleInv(p)'
<1>1. q = p /\ upAt[p] = ChunkCount
  BY OnlyWriter DEF UploadStart
<1>2. /\ upAt' = [upAt EXCEPT ![p] = 0]
      /\ UNCHANGED <<acked, uploader, workBuf, committing, sharedSave, at, joins, upNet,
                     written, copied, buf>>
  BY <1>1 DEF UploadStart, srvVars
<1>3. upAt'[p] = 0
  BY <1>2 DEF IInv, LocalOK
<1>4. Len(upNet[p]) \in Nat
  BY LenProperties DEF IInv, LocalOK
<1>5. Stays(p)' /\ CopiedOK(p)'
  BY <1>2 DEF SoleInv, Stays, Connected, CopiedOK
<1>6. \A j : Upcoming(p, j)' = Upcoming(p, j)
  BY <1>1, <1>2, <1>3 DEF Upcoming, Wrapped
<1>7. \A j \in 1 .. Len(upNet[p]) : ~(j > Len(upNet[p]) - 0)
  BY <1>4
<1>8. InTurn(p)'
  BY <1>2, <1>3, <1>6, <1>7 DEF SoleInv, InTurn
<1>9. LatestOnWay(p)'
  BY <1>2, <1>3, <1>7 DEF LatestOnWay
<1>10. /\ 0 .. 0 - Len(upNet[p]) - 1 = {}
       /\ 0 - Len(upNet[p]) # ChunkCount
  BY <1>4, ChunkTypes
<1>11. LatestAtServer(p)'
  BY <1>2, <1>3, <1>10 DEF LatestAtServer
<1> QED BY <1>5, <1>8, <1>9, <1>11 DEF SoleInv, LatestOK

LEMMA SoleSend ==
  ASSUME IInv, LinkInv, HandedInv, NEW p \in Players, Alone(p), SoleInv(p),
         NEW q \in Players, UploadSend(q)
  PROVE  SoleInv(p)'
<1> DEFINE s == upNet[p]
           m == Len(s)
           u == upAt[p]
           chunk == <<u, buf[p][u]>>
<1>1. q = p
  <2>1. upAt[q] < ChunkCount
    BY DEF UploadSend
  <2>2. upAt[q] # ChunkCount
    BY <2>1, ChunkTypes
  <2> QED BY <2>2, OnlyWriter
<1>2. u \in 0 .. ChunkCount - 1 /\ written[p] # 0 /\ s \in Seq(Chunks \X Images)
  <2>1. u < ChunkCount /\ u \in 0 .. ChunkCount
    BY <1>1 DEF UploadSend, IInv, LocalOK
  <2>2. written[p] # 0
    BY <2>1, ChunkTypes DEF IInv, PlayerInv
  <2> QED BY <2>1, <2>2, ChunkTypes DEF IInv, LocalOK
<1>3. Connected(p)
  BY <1>2, WriterThere DEF SoleInv, Alone
<1>4. /\ upAt' = [upAt EXCEPT ![p] = u + 1]
      /\ upNet' = [upNet EXCEPT ![p] = Append(s, chunk)]
      /\ UNCHANGED <<acked, uploader, workBuf, committing, sharedSave, at, joins,
                     written, copied, signaled, buf>>
  BY <1>1, <1>3 DEF UploadSend, srvVars
<1>5. /\ upAt'[p] = u + 1 /\ upNet'[p] = Append(s, chunk)
      /\ \A r \in Players \ {p} : upNet'[r] = upNet[r]
  BY <1>4 DEF IInv, LocalOK
<1>6. buf[p][u] \in Images
  BY <1>2, WriterThere, ChunkTypes DEF IInv, PlayerInv, SoleInv, Alone
<1>7. chunk \in Chunks \X Images
  BY <1>2, <1>6, ChunkTypes
<1>8. /\ m \in Nat /\ Len(upNet'[p]) = m + 1
      /\ \A j \in 1 .. m : upNet'[p][j] = s[j]
      /\ upNet'[p][m + 1] = chunk
  BY <1>2, <1>5, <1>7, AppendProperties, LenProperties
<1>9. Stays(p)' /\ CopiedOK(p)'
  BY <1>4 DEF SoleInv, Stays, Connected, CopiedOK
<1>10. upAt'[p] - Len(upNet'[p]) = u - m /\ u \in Nat /\ u # ChunkCount
  <2>1. u \in Nat /\ u # ChunkCount /\ m \in Nat
    BY <1>2, <1>8, ChunkTypes
  <2>2. upAt'[p] = u + 1 /\ Len(upNet'[p]) = m + 1
    BY <1>5, <1>8
  <2> HIDE DEF u, m
  <2> QED BY <2>1, <2>2
<1>11. ASSUME NEW j \in 1 .. m + 1 PROVE Upcoming(p, j)' = Upcoming(p, j)
  <2>1. CASE j \in 1 .. m
    <3>1. j <= m /\ j <= m + 1
      BY <1>8, <2>1
    <3> QED BY <1>8, <2>1, <3>1 DEF Upcoming
  <2>2. CASE j = m + 1
    <3>1. ~(j <= m) /\ j <= m + 1
      BY <1>8, <2>2
    <3>2. Upcoming(p, j)' = u
      BY <1>8, <2>2, <3>1 DEF Upcoming
    <3>3. Upcoming(p, j) = u
      BY <1>10, <3>1 DEF Upcoming, Wrapped
    <3> QED BY <3>2, <3>3
  <2> QED BY <1>8, <2>1, <2>2
<1>12. ASSUME NEW j, j = m + 1 PROVE Upcoming(p, j + 1)' = Following(Upcoming(p, j)')
  <2>1. ~(j + 1 <= Len(upNet'[p])) /\ j <= Len(upNet'[p])
    BY <1>8, <1>12
  <2>2. Upcoming(p, j + 1)' = Wrapped(u + 1)
    BY <1>5, <2>1 DEF Upcoming, Wrapped
  <2>3. Upcoming(p, j)' = upNet'[p][j][1]
    BY <2>1 DEF Upcoming
  <2>4. upNet'[p][j][1] = u
    BY <1>8, <1>12
  <2>5. Wrapped(u + 1) = Following(u)
    BY <1>2, ChunkTypes DEF Wrapped, Following
  <2> QED BY <2>2, <2>3, <2>4, <2>5
<1> HIDE DEF m, u, chunk, s
<1>13. ASSUME NEW j \in 1 .. m + 1
       PROVE  Upcoming(p, j + 1)' = Following(Upcoming(p, j)')
  <2>1. CASE j = m + 1
    BY <1>12, <2>1
  <2>2. CASE j # m + 1
    <3>1. j \in 1 .. m /\ j + 1 \in 1 .. m + 1
      BY <1>8, <2>2
    <3>2. Upcoming(p, j + 1) = Following(Upcoming(p, j))
      BY <3>1 DEF SoleInv, InTurn, m, s
    <3> QED BY <1>11, <3>1, <3>2
  <2> QED BY <2>1, <2>2
<1>14. ASSUME NEW j \in 1 .. m + 1, j > m - u
       PROVE  upNet'[p][j][1] = u - m + j - 1
  <2>1. CASE j = m + 1
    <3>1. u - m + j - 1 = u
      BY <1>8, <1>10, <2>1
    <3> QED BY <1>8, <2>1, <3>1 DEF chunk
  <2>2. CASE j # m + 1
    <3>1. j \in 1 .. m
      BY <1>8, <2>2
    <3> QED BY <1>8, <1>14, <3>1 DEF SoleInv, InTurn, m, s, u
  <2> QED BY <2>1, <2>2
<1>15. Len(upNet'[p]) - upAt'[p] = m - u
  BY <1>5, <1>8, <1>10
<1>16. InTurn(p)'
  <2>1. 1 \in 1 .. m + 1
    BY <1>8
  <2>2. Upcoming(p, 1)' = Upcoming(p, 1)
    BY <1>11, <2>1
  <2>3. /\ \A r \in Players \ {p} : upNet'[r] = <<>>
        /\ acked' # {} => uploader' = at'[p]
        /\ acked' = 0 .. Upcoming(p, 1)' - 1
    BY <1>4, <1>5, <2>2 DEF SoleInv, InTurn
  <2>4. written'[p] # 0
    BY <1>2, <1>4
  <2> QED BY <1>8, <1>10, <1>13, <1>14, <1>15, <2>3, <2>4 DEF InTurn
<1>17. LatestOK(p)'
  <2> SUFFICES ASSUME copied[p] = ChunkCount, ~signaled[p]
               PROVE  LatestOnWay(p)' /\ LatestAtServer(p)'
    BY <1>4 DEF LatestOK
  <2>1. LatestOnWay(p) /\ LatestAtServer(p)
    BY <1>2 DEF SoleInv, LatestOK
  <2>2. buf[p][u] = <<p, written[p]>>
    <3>1. u \in Chunks /\ u < copied[p]
      BY <1>2, ChunkTypes
    <3> QED BY <1>2, <3>1 DEF SoleInv, CopiedOK
  <2>3. ASSUME NEW j \in 1 .. m + 1, j > m - u
        PROVE  upNet'[p][j][2] = <<p, written[p]>>
    <3>1. CASE j = m + 1
      BY <1>8, <2>2, <3>1 DEF chunk
    <3>2. CASE j # m + 1
      <4>1. j \in 1 .. m
        BY <1>8, <3>2
      <4> QED BY <1>8, <2>1, <2>3, <4>1 DEF LatestOnWay, m, s, u
    <3> QED BY <3>1, <3>2
  <2>4. LatestOnWay(p)'
    BY <1>4, <1>8, <1>15, <2>3 DEF LatestOnWay
  <2>5. LatestAtServer(p)'
    BY <1>4, <1>10, <2>1 DEF LatestAtServer, m, u, s, LastSave, Whole, Chunks, Srv!Chunks
  <2> QED BY <2>4, <2>5
<1> QED BY <1>9, <1>16, <1>17 DEF SoleInv

LEMMA SoleDeliver ==
  ASSUME IInv, LinkInv, HandedInv, NEW p \in Players, Alone(p), SoleInv(p),
         NEW q \in Players, DeliverChunk(q)
  PROVE  SoleInv(p)'
<1> DEFINE s == upNet[p]
           m == Len(s)
           u == upAt[p]
           k == s[1][1]
           x == s[1][2]
           t == Tail(s)
           have == acked \cup {k}
<1>1. q = p /\ s # <<>> /\ written[p] # 0
  BY DEF DeliverChunk, SoleInv, InTurn
<1>2. at[p] \in Slots /\ session[at[p]] = "greeted"
  BY <1>1, WriterThere DEF SoleInv, Alone
<1>3. /\ s \in Seq(Chunks \X Images) /\ m \in Nat \ {0} /\ Head(s) = s[1]
      /\ s[1] \in Chunks \X Images
      /\ t \in Seq(Chunks \X Images) /\ Len(t) = m - 1
      /\ \A j \in 1 .. Len(t) : t[j] = s[j + 1]
  <2>1. s \in Seq(Chunks \X Images)
    BY DEF IInv, LocalOK
  <2>2. /\ Head(s) = s[1] /\ Head(s) \in Chunks \X Images
        /\ t \in Seq(Chunks \X Images) /\ Len(t) = m - 1
        /\ \A j \in 1 .. Len(t) : t[j] = s[j + 1]
    BY <1>1, <2>1, HeadTailProperties
  <2>3. m \in Nat \ {0}
    BY <1>1, <2>1, EmptySeq, LenProperties
  <2> QED BY <2>1, <2>2, <2>3
<1>4. k \in Chunks /\ x \in Images /\ u \in 0 .. ChunkCount
  BY <1>3 DEF IInv, LocalOK
<1>5. 1 <= m /\ 1 \in 1 .. m
  BY <1>3
<1>6. Upcoming(p, 1) = k
  BY <1>5 DEF Upcoming
<1>7. acked = 0 .. k - 1 /\ (acked # {} => uploader = at[p])
  BY <1>6 DEF SoleInv, InTurn
<1>8. Srv!Owner(at[p]) = at[p]
  BY <1>7 DEF Srv!Owner
<1>9. Srv!StoreChunk(at[p], k, x)
  BY <1>1, <1>2, <1>3, <1>8 DEF DeliverChunk, Srv!IgnoreChunk
<1>10. have = 0 .. k /\ have # {} /\ (have = Chunks <=> k = ChunkCount - 1)
  <2>1. k \in Int /\ 0 <= k /\ k <= ChunkCount - 1 /\ ChunkCount \in Nat \ {0}
    BY <1>4, ChunkTypes
  <2> HIDE DEF k
  <2>2. have = 0 .. k
    BY <1>7, <2>1
  <2>3. k = ChunkCount - 1 => 0 .. k = Chunks
    BY <2>1, ChunkTypes
  <2>4. k # ChunkCount - 1 => ChunkCount - 1 \in Chunks /\ ChunkCount - 1 \notin 0 .. k
    BY <2>1, ChunkTypes
  <2> QED BY <2>2, <2>3, <2>4
<1>11. /\ ~committing /\ committing' = (k = ChunkCount - 1)
       /\ workBuf' = [workBuf EXCEPT ![k] = x]
       /\ acked' = IF k = ChunkCount - 1 THEN {} ELSE 0 .. k
       /\ acked' # {} => uploader' = at[p]
       /\ UNCHANGED sharedSave
  BY <1>9, <1>10, ChunkTypes DEF Srv!StoreChunk, Srv!ServerThreadFree, Srv!saveVars
<1>12. /\ upNet' = [upNet EXCEPT ![p] = t]
       /\ UNCHANGED <<at, joins, written, copied, signaled, upAt, buf>>
  BY <1>1 DEF DeliverChunk, threadVars
<1>13. upNet'[p] = t /\ \A r \in Players \ {p} : upNet'[r] = upNet[r]
  BY <1>12 DEF IInv, LocalOK
<1>14. Stays(p)' /\ CopiedOK(p)'
  BY <1>12 DEF SoleInv, Stays, Connected, CopiedOK
<1>15. workBuf \in [Chunks -> Images]
  BY ServerTypes, ChunkTypes DEF IInv, Srv!TypeOK
<1>16. Len(upNet'[p]) = m - 1 /\ upAt'[p] = u
  BY <1>3, <1>12, <1>13
<1>17. /\ k \in Nat /\ u \in Nat /\ ChunkCount \in Nat \ {0}
       /\ k < ChunkCount /\ u <= ChunkCount
  BY <1>4, ChunkTypes
<1>18. ASSUME NEW j \in 1 .. m PROVE Upcoming(p, j)' = Upcoming(p, j + 1)
  <2>1. CASE j = m
    <3>1. ~(j <= Len(upNet'[p])) /\ ~(j + 1 <= m)
      BY <1>3, <1>16, <2>1
    <3> QED BY <1>12, <3>1 DEF Upcoming, Wrapped
  <2>2. CASE j # m
    <3>1. j <= Len(upNet'[p]) /\ j + 1 <= m /\ j \in 1 .. Len(t)
      BY <1>3, <1>16, <2>2
    <3>2. upNet'[p][j] = s[j + 1]
      BY <1>3, <1>13, <3>1
    <3> QED BY <3>1, <3>2 DEF Upcoming
  <2> QED BY <2>1, <2>2
<1> HIDE DEF s, m, u, k, x, t, have
<1>19. ASSUME NEW j \in 1 .. m - 1
       PROVE  Upcoming(p, j + 1)' = Following(Upcoming(p, j)')
  <2>1. j \in 1 .. m /\ j + 1 \in 1 .. m
    BY <1>3
  <2>2. /\ Upcoming(p, j)' = Upcoming(p, j + 1)
        /\ Upcoming(p, j + 1)' = Upcoming(p, (j + 1) + 1)
    BY <1>18, <2>1
  <2>3. Upcoming(p, (j + 1) + 1) = Following(Upcoming(p, j + 1))
    BY <2>1 DEF SoleInv, InTurn, m, s
  <2> QED BY <2>2, <2>3
<1>20. ASSUME NEW j \in 1 .. m - 1, j > (m - 1) - u
       PROVE  /\ upNet'[p][j] = s[j + 1]
              /\ j + 1 \in 1 .. m /\ j + 1 > m - u
              /\ u - m + (j + 1) - 1 = u - (m - 1) + j - 1
  BY <1>3, <1>13, <1>17, <1>20
<1>21. acked' = 0 .. Upcoming(p, 1)' - 1
  <2>1. Upcoming(p, 1)' = Upcoming(p, 1 + 1)
    BY <1>5, <1>18
  <2>2. Upcoming(p, 1 + 1) = Following(k)
    BY <1>5, <1>6 DEF SoleInv, InTurn, m, s
  <2>3. CASE k = ChunkCount - 1
    <3>1. Following(k) = 0 /\ 0 .. 0 - 1 = {}
      BY <2>3 DEF Following
    <3> QED BY <1>11, <2>1, <2>2, <2>3, <3>1
  <2>4. CASE k # ChunkCount - 1
    <3>1. Following(k) = k + 1 /\ (k + 1) - 1 = k
      BY <1>17, <2>4 DEF Following
    <3> QED BY <1>11, <2>1, <2>2, <2>4, <3>1
  <2> QED BY <2>3, <2>4
<1>22. InTurn(p)'
  <2>1. \A r \in Players \ {p} : upNet'[r] = <<>>
    BY <1>13 DEF SoleInv, InTurn
  <2>2. written'[p] # 0
    BY <1>1, <1>12
  <2>3. acked' # {} => uploader' = at'[p]
    BY <1>11, <1>12
  <2>4. ASSUME NEW j \in 1 .. m - 1, j > (m - 1) - u
        PROVE  upNet'[p][j][1] = u - (m - 1) + j - 1
    <3>1. s[j + 1][1] = u - m + (j + 1) - 1
      BY <1>20, <2>4 DEF SoleInv, InTurn, m, s, u
    <3> QED BY <1>20, <2>4, <3>1
  <2> QED BY <1>16, <1>19, <1>21, <2>1, <2>2, <2>3, <2>4 DEF InTurn
<1>23. LatestOK(p)'
  <2> SUFFICES ASSUME copied[p] = ChunkCount, ~signaled[p]
               PROVE  LatestOnWay(p)' /\ LatestAtServer(p)'
    BY <1>12 DEF LatestOK
  <2> DEFINE v == <<p, written[p]>>
  <2>1. LatestOnWay(p) /\ LatestAtServer(p)
    BY <1>1 DEF SoleInv, LatestOK
  <2>2. ASSUME NEW j \in 1 .. m - 1, j > (m - 1) - u
        PROVE  upNet'[p][j][2] = v
    <3>1. s[j + 1][2] = v
      BY <1>20, <2>1, <2>2 DEF LatestOnWay, m, s, u
    <3> QED BY <1>20, <2>2, <3>1
  <2>3. LatestOnWay(p)'
    BY <1>12, <1>16, <2>2 DEF LatestOnWay
  <2>4. CASE m <= u
    <3>1. 1 > m - u /\ u - m + 1 - 1 = u - m
      BY <1>3, <1>17, <2>4
    <3>2. k = u - m + 1 - 1
      BY <1>5, <3>1 DEF SoleInv, InTurn, m, s, u, k
    <3>3. x = v
      BY <1>5, <2>1, <3>1 DEF LatestOnWay, m, s, u, x
    <3>4. k = u - m /\ u - (m - 1) = k + 1
      BY <1>3, <1>17, <3>1, <3>2
    <3>5. \A i \in 0 .. k - 1 : workBuf[i] = v
      BY <1>17, <2>1, <3>4 DEF LatestAtServer, m, s, u
    <3>6. ASSUME NEW i \in 0 .. k PROVE workBuf'[i] = v
      <4>1. i \in Chunks
        BY <1>17, ChunkTypes
      <4>2. i = k \/ i \in 0 .. k - 1
        BY <1>17
      <4> QED BY <1>4, <1>11, <1>15, <3>3, <3>5, <4>1, <4>2
    <3>7. CASE k = ChunkCount - 1
      <4>1. Chunks = 0 .. k
        BY <3>7, ChunkTypes
      <4>2. workBuf' = Whole(v)
        <5>1. workBuf' = [i \in Chunks |-> workBuf'[i]]
          BY <1>11, <1>15
        <5> QED BY <3>6, <4>1, <5>1 DEF Whole
      <4>3. k + 1 = ChunkCount /\ ~(k + 1 < ChunkCount)
        BY <1>17, <3>7
      <4>4. LastSave(p)' = Whole(v)
        BY <1>12 DEF LastSave, Whole, Chunks, Srv!Chunks
      <4> QED BY <1>11, <1>16, <2>3, <3>4, <3>7, <4>2, <4>3, <4>4 DEF LatestAtServer
    <3>8. CASE k # ChunkCount - 1
      <4>1. k + 1 # ChunkCount /\ (k + 1) - 1 = k
        BY <1>17, <3>8
      <4> QED BY <1>12, <1>16, <2>3, <3>4, <3>6, <4>1 DEF LatestAtServer
    <3> QED BY <3>7, <3>8
  <2>5. CASE ~(m <= u)
    <3>1. u - (m - 1) # ChunkCount /\ 0 .. u - (m - 1) - 1 = {}
      BY <1>3, <1>17, <2>5
    <3> QED BY <1>16, <2>3, <3>1 DEF LatestAtServer
  <2> QED BY <2>4, <2>5
<1> QED BY <1>14, <1>22, <1>23 DEF SoleInv

LEMMA SoleCommit ==
  ASSUME IInv, NEW p \in Players, SoleInv(p), CommitSave
  PROVE  SoleInv(p)'
<1>1. /\ committing /\ ~committing'
      /\ sharedSave' = [i \in Chunks |-> IF i < workSize THEN workBuf[i] ELSE sharedSave[i]]
      /\ UNCHANGED <<acked, uploader, workBuf, at, joins, written, copied, signaled, upAt,
                     upNet, buf>>
  BY ChunkTypes DEF CommitSave, Srv!CommitSave, Srv!transferVars, threadVars
<1>2. workSize = ChunkCount /\ workBuf \in [Chunks -> Images]
  BY <1>1, ServerTypes, ChunkTypes DEF IInv, ServerInv, Server!IInv,
     Server!SizeMatchesChunks, Srv!TypeOK
<1>3. \A i \in Chunks : i < workSize
  BY <1>2, ChunkTypes
<1>4. sharedSave' = workBuf
  BY <1>1, <1>2, <1>3
<1>5. Stays(p)' /\ CopiedOK(p)'
  BY <1>1 DEF SoleInv, Stays, Connected, CopiedOK
<1>6. \A j : Upcoming(p, j)' = Upcoming(p, j)
  BY <1>1 DEF Upcoming
<1>7. InTurn(p)'
  BY <1>1, <1>6 DEF SoleInv, InTurn
<1>8. LatestOnWay(p)' <=> LatestOnWay(p)
  BY <1>1 DEF LatestOnWay
<1>9. LastSave(p)' = LastSave(p)
  BY <1>1 DEF LastSave, Whole, Chunks, Srv!Chunks
<1>10. LatestAtServer(p) => LatestAtServer(p)'
  BY <1>1, <1>4, <1>9 DEF LatestAtServer
<1>11. LatestOK(p)'
  BY <1>1, <1>8, <1>10 DEF SoleInv, LatestOK
<1> QED BY <1>5, <1>7, <1>11 DEF SoleInv

LEMMA SoleStep ==
  ASSUME IInv, LinkInv, HandedInv, NEW p \in Players, Alone(p), SoleInv(p), Alone(p)',
         [Next]_vars
  PROVE  SoleInv(p)'
<1>1. CASE UNCHANGED vars
  <2>1. UNCHANGED <<acked, uploader, workBuf, committing, sharedSave, written, copied,
                    signaled, upAt, at, joins, upNet, buf>>
    BY <1>1 DEF vars, srvVars, cliVars, threadVars
  <2> QED BY <2>1, SoleKept
<1>2. CASE Next
  BY <1>2, SoleJoin, SolePlayers, SoleServer, SoleWrite, SoleStart, SoleSend, SoleDeliver,
     SoleCommit DEF Next, GameStep, UploadStep
<1> QED BY <1>1, <1>2

(* When the only player that saves, who has a place of its own and stays connected, has
   nothing left to upload, the server has its last save: no save made during an upload
   is forgotten, and no upload leaves chunks of two saves behind
   (SaveDataSync.cpp:90-150, ProjectPacketHandler.cpp:180-230). *)
THEOREM LastSaveArrives ==
  (\A p \in Writers : Steady(p) /\ p \notin MayLeave) => (Spec => []SavedWhenQuiet)
<1> SUFFICES ASSUME \A p \in Writers : Steady(p) /\ p \notin MayLeave
             PROVE  Spec => []SavedWhenQuiet
  OBVIOUS
<1> DEFINE WriterInv == \A p \in Writers : Writers = {p} => SoleInv(p)
<1>1. ASSUME IInv, WriterInv, NEW p \in Writers, Writers = {p}
      PROVE  p \in Players /\ Alone(p)
  <2>1. p \in Players /\ Stable(p)
    BY SaveSyncAssumption DEF Stable
  <2>2. ASSUME NEW q \in Players \ {p} PROVE UploadIdle(q)
    BY <1>1, <2>2 DEF IInv, PlayerInv, SoleInv, InTurn, UploadIdle
  <2> QED BY <2>1, <2>2 DEF Alone
<1>2. IInv /\ WriterInv => SavedWhenQuiet
  <2> SUFFICES ASSUME IInv, WriterInv, NEW p \in Writers, Writers = {p}, written[p] > 0,
                      UploadIdle(p), ~committing
               PROVE  sharedSave = LastSave(p)
    BY DEF SavedWhenQuiet
  <2>1. written[p] # 0 /\ copied[p] = ChunkCount /\ ~signaled[p]
        /\ upAt[p] = ChunkCount /\ upNet[p] = <<>>
    BY DEF UploadIdle
  <2>2. LatestAtServer(p)
    BY <2>1 DEF SoleInv, LatestOK
  <2>3. upAt[p] - Len(upNet[p]) = ChunkCount
    BY <2>1, EmptySeq, ChunkTypes
  <2> QED BY <2>2, <2>3 DEF LatestAtServer
<1>3. Init => WriterInv
  BY SaveSyncAssumption, SoleInit
<1>4. IInv /\ LinkInv /\ HandedInv /\ WriterInv /\ IInv' /\ [Next]_vars => WriterInv'
  <2> SUFFICES ASSUME IInv, LinkInv, HandedInv, WriterInv, IInv', [Next]_vars,
                      NEW p \in Writers, Writers = {p}
               PROVE  SoleInv(p)'
    OBVIOUS
  <2>1. p \in Players /\ Alone(p) /\ SoleInv(p)
    BY <1>1
  <2>2. \A q \in Players \ {p} : UploadIdle(q) /\ ~BeginWrite(q)
    BY <2>1 DEF Alone, BeginWrite
  <2>3. Alone(p)'
    BY <2>1, <2>2, IdleKept DEF Alone
  <2> QED BY <2>1, <2>3, SoleStep
<1>5. Init => IInv /\ LinkInv /\ HandedInv
  BY InitInv, LinkInit, HandedInit
<1>6. IInv /\ LinkInv /\ HandedInv /\ [Next]_vars => IInv' /\ LinkInv' /\ HandedInv'
  BY InvStep, LinkStep, HandedStep
<1> QED BY <1>2, <1>3, <1>4, <1>5, <1>6, PTL DEF Spec

-----------------------------------------------------------------------------
(* Several writers, one after the other: never have two players something to upload. *)
OneUpload == \A p, q \in Players : ~UploadIdle(p) /\ ~UploadIdle(q) => p = q

(* Nobody has saved. *)
Unsaved ==
  /\ \A p \in Players : UploadIdle(p)
  /\ acked = {} /\ ~committing /\ sharedSave = Whole(DefaultImage)

(* The last who has saved is the only one who has something to upload. *)
TurnOf(p) == written[p] # 0 /\ Alone(p) /\ SoleInv(p)

TurnsInv ==
  /\ \A p \in Writers : Stays(p)
  /\ Unsaved \/ \E p \in Writers : TurnOf(p)

LEMMA TurnsInit == Init => TurnsInv
<1> SUFFICES ASSUME Init PROVE TurnsInv
  OBVIOUS
<1>1. \A p \in Writers : Stays(p)
  BY SaveSyncAssumption DEF Init, Stays
<1>2. \A p \in Players : UploadIdle(p)
  BY DEF Init, UploadIdle
<1>3. acked = {} /\ ~committing /\ sharedSave = Whole(DefaultImage)
  BY ChunkTypes DEF Init, Srv!Init, Whole
<1> QED BY <1>1, <1>2, <1>3 DEF TurnsInv, Unsaved

LEMMA StaysStep ==
  ASSUME IInv, NEW p \in Players, p \notin MayLeave, Stays(p), [Next]_vars
  PROVE  Stays(p)'
<1> USE DEF srvVars, cliVars, threadVars
<1>1. CASE UNCHANGED <<at, joins>>
  BY <1>1 DEF Stays, Connected
<1>2. ASSUME NEW q \in Players, NEW s \in Slots, Join(q, s) PROVE Stays(p)'
  <2>1. s # NoSlot
    BY SaveSyncAssumption
  <2> QED BY <1>2, <2>1 DEF Join, Stays, Connected, IInv, LocalOK
<1>3. ASSUME NEW q \in Players, Leave(q) PROVE Stays(p)'
  BY <1>3 DEF Leave, Stays, Connected, IInv, LocalOK
<1>4. ASSUME NEW q \in Players,
             \/ \E w \in Workers : Greet(q, w)
             \/ GameStep(q) \/ BeginWrite(q) \/ UploadStep(q)
             \/ ReceiveChunk(q) \/ DeliverChunk(q)
      PROVE  UNCHANGED <<at, joins>>
  BY <1>4 DEF Greet, GameStep, StartDownload, FinishDownload, AbortDownload, CopyChunk,
     BeginWrite, UploadStep, UploadStart, UploadSend, ReceiveChunk, DeliverChunk
<1>5. ASSUME \/ \E s \in Slots : ServerNotices(s)
             \/ \E w \in Workers : WorkerTurn(w)
             \/ CommitSave
      PROVE  UNCHANGED <<at, joins>>
  BY <1>5 DEF ServerNotices, WorkerTurn, WorkerSend, CommitSave
<1>6. CASE UNCHANGED vars
  BY <1>1, <1>6 DEF vars
<1>7. CASE Next
  BY <1>1, <1>2, <1>3, <1>4, <1>5, <1>7 DEF Next
<1> QED BY <1>6, <1>7

(* When all is uploaded a player may begin to save: nothing of another is left. *)
LEMMA TurnBegins ==
  ASSUME IInv, NEW q \in Players, Stays(q), BeginWrite(q),
         \A r \in Players : UploadIdle(r), acked = {}
  PROVE  SoleInv(q)'
<1>1. /\ UNCHANGED <<acked, at, joins, upAt, upNet>>
      /\ copied'[q] = 0 /\ written'[q] # 0
  BY SaveSyncAssumption DEF BeginWrite, srvVars, IInv, LocalOK
<1>2. upAt[q] = ChunkCount /\ \A r \in Players : upNet[r] = <<>>
  BY DEF UploadIdle
<1>3. Len(upNet'[q]) = 0 /\ ~(1 <= Len(upNet'[q])) /\ 1 .. Len(upNet'[q]) = {}
  BY <1>1, <1>2, EmptySeq
<1>4. Upcoming(q, 1)' = 0 /\ 0 .. 0 - 1 = {}
  BY <1>1, <1>2, <1>3 DEF Upcoming, Wrapped
<1>5. InTurn(q)'
  BY <1>1, <1>2, <1>3, <1>4 DEF InTurn
<1>6. CopiedOK(q)' /\ LatestOK(q)'
  BY <1>1, ChunkTypes DEF CopiedOK, LatestOK
<1>7. Stays(q)'
  BY <1>1 DEF Stays, Connected
<1> QED BY <1>5, <1>6, <1>7 DEF SoleInv

LEMMA TurnsStep ==
  ASSUME \A p \in Writers : Stable(p), IInv, LinkInv, HandedInv, TurnsInv, OneUpload',
         [Next]_vars
  PROVE  TurnsInv'
<1>1. \A p \in Writers : p \in Players /\ Stays(p)'
  BY SaveSyncAssumption, StaysStep DEF TurnsInv, Stable
<1>2. CASE \E q \in Players : BeginWrite(q)
  <2>1. PICK q \in Players : BeginWrite(q)
    BY <1>2
  <2>2. /\ q \in Writers /\ written'[q] # 0
        /\ \A r \in Players : r # q => (UploadIdle(r)' <=> UploadIdle(r))
    BY <2>1, SaveSyncAssumption DEF BeginWrite, UploadIdle, srvVars, IInv, LocalOK
  <2>3. Alone(q)'
    BY <2>1, <2>2, BeginsBusy DEF OneUpload, Alone, Stable
  <2>4. \A r \in Players \ {q} : UploadIdle(r)
    BY <2>2, <2>3 DEF Alone
  <2>5. ASSUME TurnOf(q) PROVE SoleInv(q)'
    BY <2>3, <2>5, SoleStep DEF TurnOf
  <2>6. ASSUME ~TurnOf(q) PROVE SoleInv(q)'
    <3>1. (\A r \in Players : UploadIdle(r)) /\ acked = {}
      <4>1. CASE Unsaved
        BY <4>1 DEF Unsaved
      <4>2. CASE \E p \in Writers : TurnOf(p)
        <5>1. PICK p \in Writers : TurnOf(p) /\ p # q
          BY <2>6, <4>2
        <5>2. UploadIdle(q) /\ p \in Players
          BY <1>1, <5>1 DEF TurnOf, Alone
        <5>3. UploadIdle(p)
          BY <2>4, <5>1, <5>2
        <5>4. acked = {}
          <6>1. upAt[p] = ChunkCount /\ upNet[p] = <<>>
            BY <5>3 DEF UploadIdle
          <6>2. Len(upNet[p]) = 0 /\ ~(1 <= Len(upNet[p]))
            BY <6>1, EmptySeq
          <6>3. Upcoming(p, 1) = 0 /\ 0 .. 0 - 1 = {}
            BY <6>1, <6>2 DEF Upcoming, Wrapped
          <6> QED BY <5>1, <6>3 DEF TurnOf, SoleInv, InTurn
        <5> QED BY <2>4, <5>2, <5>4
      <4> QED BY <4>1, <4>2 DEF TurnsInv
    <3>2. Stays(q)
      BY <2>2 DEF TurnsInv
    <3> QED BY <2>1, <3>1, <3>2, TurnBegins
  <2>7. SoleInv(q)'
    BY <2>5, <2>6
  <2> QED BY <1>1, <2>2, <2>3, <2>7 DEF TurnsInv, TurnOf
<1>3. CASE ~\E q \in Players : BeginWrite(q)
  <2>1. \A r \in Players : UploadIdle(r) => UploadIdle(r)'
    BY <1>3, IdleKept
  <2>2. CASE Unsaved
    <3>1. UNCHANGED <<acked, committing, sharedSave>>
      <4> USE DEF srvVars, cliVars, threadVars, Srv!transferVars, Srv!saveVars
      <4>1. CASE UNCHANGED srvVars
        BY <4>1
      <4>2. ASSUME NEW q \in Players, DeliverChunk(q) PROVE FALSE
        BY <2>2, <4>2 DEF Unsaved, UploadIdle, DeliverChunk
      <4>3. ASSUME CommitSave PROVE FALSE
        BY <2>2, <4>3 DEF Unsaved, CommitSave, Srv!CommitSave
      <4>4. ASSUME NEW q \in Players,
                   \/ \E s \in Slots : Join(q, s)
                   \/ \E w \in Workers : Greet(q, w)
            PROVE  UNCHANGED <<acked, committing, sharedSave>>
        BY <4>4 DEF Join, Srv!Connect, Greet, Srv!Greet
      <4>5. ASSUME NEW q \in Players,
                   \/ GameStep(q) \/ UploadStep(q) \/ ReceiveChunk(q) \/ Leave(q)
            PROVE  UNCHANGED srvVars
        BY <4>5 DEF GameStep, StartDownload, FinishDownload, AbortDownload, CopyChunk,
           UploadStep, UploadStart, UploadSend, ReceiveChunk, Leave
      <4>6. ASSUME \/ \E s \in Slots : ServerNotices(s)
                   \/ \E w \in Workers : WorkerTurn(w)
            PROVE  UNCHANGED <<acked, committing, sharedSave>>
        BY <4>6 DEF ServerNotices, Srv!Disconnect, WorkerTurn, WorkerSend,
           Srv!WorkerSend, Srv!WorkerLock, Srv!WorkerUnlock
      <4>7. CASE UNCHANGED vars
        BY <4>7 DEF vars
      <4>8. CASE Next
        BY <1>3, <4>1, <4>2, <4>3, <4>4, <4>5, <4>6, <4>8 DEF Next
      <4> QED BY <4>7, <4>8
    <3>2. Whole(DefaultImage)' = Whole(DefaultImage)
      BY DEF Whole, Chunks, Srv!Chunks
    <3>3. Unsaved'
      BY <2>1, <2>2, <3>1, <3>2 DEF Unsaved
    <3> QED BY <1>1, <3>3 DEF TurnsInv
  <2>3. CASE \E p \in Writers : TurnOf(p)
    <3>1. PICK p \in Writers : TurnOf(p)
      BY <2>3
    <3>2. p \in Players /\ Alone(p)'
      BY <1>1, <2>1, <3>1 DEF TurnOf, Alone
    <3>3. SoleInv(p)'
      BY <3>1, <3>2, SoleStep DEF TurnOf
    <3>4. UNCHANGED written
      BY <1>3 DEF Next, Join, Greet, GameStep, StartDownload, FinishDownload,
         AbortDownload, CopyChunk, UploadStep, UploadStart, UploadSend, ReceiveChunk,
         DeliverChunk, Leave, ServerNotices, WorkerTurn, WorkerSend, CommitSave, vars,
         cliVars, threadVars
    <3>5. TurnOf(p)'
      BY <3>1, <3>2, <3>3, <3>4 DEF TurnOf
    <3> QED BY <1>1, <3>5 DEF TurnsInv
  <2> QED BY <2>2, <2>3 DEF TurnsInv
<1> QED BY <1>2, <1>3

(* However many games save, as long as no two of them have something to upload at a
   time and each has a place of its own and stays, what the server keeps in the end is
   one save of one game: what goes wrong with two writers takes two uploads at a time
   (SaveDataSync.cpp:90-150, ProjectPacketHandler.cpp:180-230). *)
THEOREM WritersInTurn ==
  (\A p \in Writers : Steady(p) /\ p \notin MayLeave)
    => (Spec /\ []OneUpload => []SettledSave)
<1> SUFFICES ASSUME \A p \in Writers : Steady(p) /\ p \notin MayLeave
             PROVE  Spec /\ []OneUpload => []SettledSave
  OBVIOUS
<1>1. \A p \in Writers : Stable(p)
  BY DEF Stable
<1>2. IInv /\ TurnsInv => SettledSave
  <2> SUFFICES ASSUME IInv, TurnsInv, \A p \in Players : UploadIdle(p), ~committing
               PROVE  \E img \in Images : sharedSave = Whole(img)
    BY DEF SettledSave
  <2>1. CASE Unsaved
    BY <2>1 DEF Unsaved, Images
  <2>2. CASE \E p \in Writers : TurnOf(p)
    <3>1. PICK p \in Writers : TurnOf(p)
      BY <2>2
    <3>2. p \in Players /\ written[p] # 0 /\ copied[p] = ChunkCount /\ ~signaled[p]
          /\ upAt[p] = ChunkCount /\ upNet[p] = <<>>
      BY <3>1, SaveSyncAssumption DEF UploadIdle, TurnOf
    <3>3. LatestAtServer(p)
      BY <3>1, <3>2 DEF TurnOf, SoleInv, LatestOK
    <3>4. upAt[p] - Len(upNet[p]) = ChunkCount
      BY <3>2, EmptySeq, ChunkTypes
    <3>5. sharedSave = LastSave(p)
      BY <3>3, <3>4 DEF LatestAtServer
    <3>6. <<p, written[p]>> \in Images
      BY <3>1, <3>2, SaveImage DEF IInv
    <3> QED BY <3>5, <3>6 DEF LastSave
  <2> QED BY <2>1, <2>2 DEF TurnsInv
<1>3. IInv /\ LinkInv /\ HandedInv /\ TurnsInv /\ OneUpload' /\ [Next]_vars
        => TurnsInv'
  BY <1>1, TurnsStep
<1>4. Init => IInv /\ LinkInv /\ HandedInv /\ TurnsInv
  BY InitInv, LinkInit, HandedInit, TurnsInit
<1>5. IInv /\ LinkInv /\ HandedInv /\ [Next]_vars => IInv' /\ LinkInv' /\ HandedInv'
  BY InvStep, LinkStep, HandedStep
<1> QED BY <1>2, <1>3, <1>4, <1>5, PTL DEF Spec
=============================================================================
