-------------------------- MODULE SaveServerProofs --------------------------
(***************************************************************************)
(* Proofs about SaveServer, for every number of slots, workers, images and *)
(* chunks.                                                                 *)
(***************************************************************************)
EXTENDS SaveServer, FiniteSetTheorems, TLAPS

(* The transfer under way: never complete between two handlers, owned by   *)
(* one slot, its size that of the chunks it has.                           *)
TransferInv ==
  /\ acked # Chunks
  /\ acked # {} => uploader \in Slots
  /\ committing => acked = {}

IInv == TypeOK /\ TransferInv /\ SingleSource /\ SizeMatchesChunks

-----------------------------------------------------------------------------
(* Counting chunks. *)

LEMMA ChunksFinite ==
  /\ IsFiniteSet(Chunks)
  /\ Cardinality(Chunks) = ChunkCount
  /\ Chunks # {}
<1>1. 0 \in Int /\ ChunkCount - 1 \in Int /\ ChunkCount \in Nat \ {0}
  BY SaveServerAssumption
<1>2. /\ IsFiniteSet(0 .. (ChunkCount - 1))
      /\ Cardinality(0 .. (ChunkCount - 1)) =
           IF 0 > ChunkCount - 1 THEN 0 ELSE (ChunkCount - 1) - 0 + 1
  BY <1>1, FS_Interval
<1>3. 0 \in Chunks
  BY <1>1 DEF Chunks
<1>4. Cardinality(0 .. (ChunkCount - 1)) = ChunkCount
  <2>1. ~(0 > ChunkCount - 1) /\ (ChunkCount - 1) - 0 + 1 = ChunkCount
    BY <1>1
  <2> QED BY <1>2, <2>1
<1> QED BY <1>2, <1>3, <1>4 DEF Chunks

LEMMA AckedCount ==
  ASSUME NEW S \in SUBSET Chunks
  PROVE  /\ IsFiniteSet(S)
         /\ Cardinality(S) \in Nat
         /\ Cardinality(S) <= ChunkCount
         /\ S # Chunks => Cardinality(S) < ChunkCount
         /\ Cardinality({}) = 0
         /\ \A i \in Chunks \ S : Cardinality(S \cup {i}) = Cardinality(S) + 1
<1>1. IsFiniteSet(S) /\ Cardinality(S) <= Cardinality(Chunks)
  BY ChunksFinite, FS_Subset
<1>2. Cardinality(S) \in Nat
  BY <1>1, FS_CardinalityType
<1>3. S # Chunks => Cardinality(S) < Cardinality(Chunks)
  <2> SUFFICES ASSUME S # Chunks PROVE Cardinality(S) < Cardinality(Chunks)
    OBVIOUS
  <2>1. Cardinality(S) # Cardinality(Chunks)
    BY ChunksFinite, FS_Subset
  <2> QED BY <1>1, <1>2, <2>1, ChunksFinite, SaveServerAssumption
<1>4. \A i \in Chunks \ S : Cardinality(S \cup {i}) = Cardinality(S) + 1
  BY <1>1, FS_AddElement
<1> QED BY <1>1, <1>2, <1>3, <1>4, ChunksFinite, FS_EmptySet

-----------------------------------------------------------------------------
LEMMA InitInv == Init => IInv
<1> SUFFICES ASSUME Init PROVE IInv
  OBVIOUS
<1>1. TypeOK
  <2>1. 0 \in 0 .. ChunkCount /\ ChunkCount \in 0 .. ChunkCount
        /\ 0 \in 0 .. MaxResets /\ DefaultImage \in Images
    BY SaveServerAssumption
  <2>2. workBuf \in Contents /\ sharedSave \in Contents
    BY <2>1 DEF Init, Contents
  <2>3. wSent \in [Workers -> [Chunks -> Images \cup {Unsent}]]
    BY DEF Init
  <2> QED BY <2>1, <2>2, <2>3 DEF Init, TypeOK
<1>2. TransferInv /\ SingleSource /\ SizeMatchesChunks
  BY ChunksFinite DEF Init, TransferInv, SingleSource, SizeMatchesChunks
<1> QED BY <1>1, <1>2 DEF IInv

(* The handler's two outcomes are the only steps that touch a transfer. *)
LEMMA IgnoreChunkInv ==
  ASSUME IInv, NEW s \in Slots, NEW fits \in BOOLEAN, IgnoreChunk(s, fits)
  PROVE  IInv'
<1> USE DEF IInv, IgnoreChunk, Owner, SizeSoFar, saveVars, workerVars
<1>1. TypeOK'
  BY SaveServerAssumption DEF TypeOK
<1>2. TransferInv'
  BY DEF TransferInv, TypeOK
<1>3. SingleSource'
  BY DEF SingleSource, ServerThreadFree
<1>4. SizeMatchesChunks'
  BY DEF SizeMatchesChunks, ServerThreadFree
<1> QED BY <1>1, <1>2, <1>3, <1>4

LEMMA StoreChunkInv ==
  ASSUME IInv, NEW s \in Slots, NEW i \in Chunks, NEW img \in Images,
         StoreChunk(s, i, img)
  PROVE  IInv'
<1> DEFINE have == acked \cup {i}
<1> USE DEF IInv, Owner, SizeSoFar, saveVars, workerVars
<1>1. /\ ~committing
      /\ Owner(s) = s
      /\ workBuf' = [workBuf EXCEPT ![i] = img]
      /\ author' = [author EXCEPT ![i] = s]
      /\ workSize' = IF i \in acked THEN SizeSoFar ELSE SizeSoFar + 1
      /\ acked' = IF have = Chunks THEN {} ELSE have
      /\ uploader' = IF have = Chunks THEN NoSlot ELSE s
      /\ committing' = (have = Chunks)
      /\ UNCHANGED <<session, sharedSave, sharedSize, wState, wTo, wNext,
                     wSent, mutexBusy, resets>>
  BY DEF StoreChunk, ServerThreadFree
<1>2. acked \in SUBSET Chunks /\ have \in SUBSET Chunks /\ acked # Chunks
  BY DEF TypeOK, TransferInv
<1>3. SizeSoFar = Cardinality(acked)
  BY <1>2, AckedCount DEF SizeMatchesChunks
<1>4. workSize' = Cardinality(have)
  <2>1. CASE i \in acked
    <3>1. have = acked
      BY <2>1
    <3> QED BY <1>1, <1>3, <2>1, <3>1
  <2>2. CASE i \notin acked
    BY <1>1, <1>2, <1>3, <2>2, AckedCount
  <2> QED BY <2>1, <2>2
<1>5. TypeOK'
  <2>1. workSize' \in 0 .. ChunkCount
    BY <1>2, <1>4, AckedCount, SaveServerAssumption
  <2>2. acked' \subseteq Chunks /\ uploader' \in Slots \cup {NoSlot}
    BY <1>1, <1>2
  <2>3. workBuf' \in Contents /\ author' \in [Chunks -> Slots \cup {NoSlot}]
    BY <1>1 DEF TypeOK, Contents
  <2> QED BY <1>1, <2>1, <2>2, <2>3 DEF TypeOK
<1>6. TransferInv'
  BY <1>1, ChunksFinite DEF TransferInv
<1>7. SingleSource'
  <2>1. \A j \in have : author'[j] = s
    BY <1>1, <1>2 DEF SingleSource, TypeOK
  <2> QED BY <1>1, <2>1 DEF SingleSource
<1>8. SizeMatchesChunks'
  BY <1>1, <1>4, ChunksFinite DEF SizeMatchesChunks
<1> QED BY <1>5, <1>6, <1>7, <1>8

LEMMA CommitSaveInv == IInv /\ CommitSave => IInv'
<1> SUFFICES ASSUME IInv, CommitSave PROVE IInv'
  OBVIOUS
<1> USE DEF IInv, CommitSave, transferVars, workerVars
<1>1. TypeOK'
  BY DEF TypeOK, Contents
<1>2. TransferInv' /\ SingleSource' /\ SizeMatchesChunks'
  BY DEF TransferInv, SingleSource, SizeMatchesChunks
<1> QED BY <1>1, <1>2

LEMMA WorkerInv ==
  ASSUME IInv, NEW w \in Workers, WorkerStep(w)
  PROVE  IInv'
<1> USE DEF IInv, transferVars, saveVars, workerVars
<1>1. TransferInv' /\ SingleSource' /\ SizeMatchesChunks'
  BY DEF WorkerStep, WorkerLock, WorkerSend, WorkerUnlock, TransferInv,
         SingleSource, SizeMatchesChunks
<1>2. CASE WorkerLock(w)
  <2>1. TypeOK'
    BY <1>2 DEF WorkerLock, TypeOK
  <2> QED BY <1>1, <2>1
<1>3. CASE WorkerSend(w)
  <2>1. wNext[w] \in Chunks /\ wNext[w] + 1 \in 0 .. ChunkCount
    BY <1>3, SaveServerAssumption DEF WorkerSend, TypeOK, Chunks
  <2>2. sharedSave[wNext[w]] \in Images
    BY <2>1 DEF TypeOK, Contents
  <2>3. wSent' \in [Workers -> [Chunks -> Images \cup {Unsent}]]
    BY <1>3, <2>1, <2>2 DEF WorkerSend, TypeOK
  <2>4. wNext' \in [Workers -> 0 .. ChunkCount]
    BY <1>3, <2>1 DEF WorkerSend, TypeOK
  <2>5. TypeOK'
    BY <1>3, <2>3, <2>4 DEF WorkerSend, TypeOK
  <2> QED BY <1>1, <2>5
<1>4. CASE WorkerUnlock(w)
  <2>1. wSent' \in [Workers -> [Chunks -> Images \cup {Unsent}]]
    BY <1>4 DEF WorkerUnlock, TypeOK
  <2>2. wNext' \in [Workers -> 0 .. ChunkCount]
    BY <1>4, SaveServerAssumption DEF WorkerUnlock, TypeOK
  <2>3. TypeOK'
    BY <1>4, <2>1, <2>2 DEF WorkerUnlock, ReleaseMutex, TypeOK
  <2> QED BY <1>1, <2>3
<1> QED BY <1>2, <1>3, <1>4 DEF WorkerStep

LEMMA SessionInv ==
  ASSUME IInv, NEW s \in Slots,
         \/ Connect(s) \/ Disconnect(s) \/ \E w \in Workers : Greet(s, w)
  PROVE  IInv'
<1> USE DEF IInv, Connect, Disconnect, Greet, transferVars, saveVars, workerVars
<1>1. TypeOK'
  <2>1. CASE Connect(s)
    BY <2>1 DEF TypeOK
  <2>2. CASE Disconnect(s)
    BY <2>2 DEF TypeOK
  <2>3. ASSUME NEW w \in Workers, Greet(s, w) PROVE TypeOK'
    BY <2>3 DEF TypeOK
  <2> QED BY <2>1, <2>2, <2>3
<1>2. TransferInv' /\ SingleSource' /\ SizeMatchesChunks'
  BY DEF TransferInv, SingleSource, SizeMatchesChunks
<1> QED BY <1>1, <1>2

LEMMA ResetSaveInv == IInv /\ ResetSave => IInv'
<1> SUFFICES ASSUME IInv, ResetSave PROVE IInv'
  OBVIOUS
<1> USE DEF IInv, ResetSave, transferVars, workerVars
<1>1. sharedSave' \in Contents
  BY SaveServerAssumption DEF TypeOK, Contents
<1>2. committing' \in BOOLEAN
  BY Zenon DEF TypeOK
<1>3. sharedSize' \in 0 .. ChunkCount /\ resets' \in 0 .. MaxResets
  BY SaveServerAssumption DEF TypeOK
<1>4. TypeOK'
  BY <1>1, <1>2, <1>3 DEF TypeOK
<1>5. TransferInv' /\ SingleSource' /\ SizeMatchesChunks'
  BY DEF TransferInv, SingleSource, SizeMatchesChunks
<1> QED BY <1>4, <1>5

LEMMA NextInv == IInv /\ [Next]_vars => IInv'
<1> SUFFICES ASSUME IInv, [Next]_vars PROVE IInv'
  OBVIOUS
<1>1. CASE ServerStep
  BY <1>1, SessionInv, IgnoreChunkInv, StoreChunkInv, CommitSaveInv
  DEF ServerStep
<1>2. CASE \E w \in Workers : WorkerStep(w)
  BY <1>2, WorkerInv
<1>3. CASE ResetSave
  BY <1>3, ResetSaveInv
<1>4. CASE UNCHANGED vars
  BY <1>4 DEF vars, IInv, TypeOK, TransferInv, SingleSource, SizeMatchesChunks
<1> QED BY <1>1, <1>2, <1>3, <1>4 DEF Next

-----------------------------------------------------------------------------
(* The state of the server keeps its type: in particular the size of a     *)
(* save being assembled never exceeds the buffer.                          *)
THEOREM TypeCorrect == Spec => []TypeOK
<1>1. Spec => []IInv
  BY InitInv, NextInv, PTL DEF Spec
<1>2. IInv => TypeOK
  BY DEF IInv
<1> QED BY <1>1, <1>2, PTL

(* No two Client objects' chunks ever meet in one transfer or commit. *)
THEOREM UploadsDoNotInterleave == Spec => []SingleSource
<1>1. Spec => []IInv
  BY InitInv, NextInv, PTL DEF Spec
<1>2. IInv => SingleSource
  BY DEF IInv
<1> QED BY <1>1, <1>2, PTL

(* What is committed always has the size of a whole save. *)
THEOREM SizesAgree == Spec => []SizeMatchesChunks
<1>1. Spec => []IInv
  BY InitInv, NextInv, PTL DEF Spec
<1>2. IInv => SizeMatchesChunks
  BY DEF IInv
<1> QED BY <1>1, <1>2, PTL
-----------------------------------------------------------------------------
(* The lock.  A worker that is not sending is at its first chunk, and what *)
(* a sending worker has behind it are images.                              *)
WorkerProgress ==
  \A w \in Workers :
    /\ wState[w] # "sending" => wNext[w] = 0
    /\ \A i \in Chunks : i < wNext[w] => wSent[w][i] \in Images

LEMMA LockStep ==
  ASSUME TypeOK, OneHolder, WorkerProgress, NEW w \in Workers, WorkerStep(w)
  PROVE  OneHolder' /\ WorkerProgress'
<1>1. CASE WorkerLock(w)
  <2>1. OneHolder'
    BY <1>1 DEF WorkerLock, MutexFree, TypeOK, OneHolder
  <2>2. WorkerProgress'
    BY <1>1 DEF WorkerLock, TypeOK, WorkerProgress
  <2> QED BY <2>1, <2>2
<1>2. CASE WorkerSend(w)
  <2>1. OneHolder'
    BY <1>2 DEF WorkerSend, OneHolder
  <2>2. wNext[w] \in Chunks
    BY <1>2, SaveServerAssumption DEF WorkerSend, TypeOK, Chunks
  <2>3. sharedSave[wNext[w]] \in Images
    BY <2>2 DEF TypeOK, Contents
  <2>4. ASSUME NEW v \in Workers, NEW i \in Chunks, i < wNext'[v]
        PROVE  wSent'[v][i] \in Images
    <3>1. CASE v = w
      <4>1. wNext'[w] = wNext[w] + 1
        BY <1>2 DEF WorkerSend, TypeOK
      <4>2. i = wNext[w] \/ i < wNext[w]
        BY <2>4, <3>1, <4>1, <2>2, SaveServerAssumption DEF Chunks
      <4>3. wSent'[w][i] = IF i = wNext[w] THEN sharedSave[wNext[w]]
                                           ELSE wSent[w][i]
        BY <1>2 DEF WorkerSend, TypeOK
      <4> QED BY <2>3, <3>1, <4>2, <4>3 DEF WorkerProgress
    <3>2. CASE v # w
      BY <1>2, <2>4, <3>2 DEF WorkerSend, TypeOK, WorkerProgress
    <3> QED BY <3>1, <3>2
  <2>5. \A v \in Workers : wState'[v] # "sending" => wNext'[v] = 0
    BY <1>2 DEF WorkerSend, TypeOK, WorkerProgress
  <2> QED BY <2>1, <2>4, <2>5 DEF WorkerProgress
<1>3. CASE WorkerUnlock(w)
  <2>1. OneHolder'
    BY <1>3 DEF WorkerUnlock, ReleaseMutex, TypeOK, OneHolder
  <2>2. \A v \in Workers : wState'[v] # "sending" => wNext'[v] = 0
    BY <1>3 DEF WorkerUnlock, TypeOK, WorkerProgress
  <2>3. ASSUME NEW v \in Workers, NEW i \in Chunks, i < wNext'[v]
        PROVE  wSent'[v][i] \in Images
    <3>1. v # w
      BY <1>3, <2>3, SaveServerAssumption DEF WorkerUnlock, TypeOK, Chunks
    <3> QED BY <1>3, <2>3, <3>1 DEF WorkerUnlock, TypeOK, WorkerProgress
  <2> QED BY <2>1, <2>2, <2>3 DEF WorkerProgress
<1> QED BY <1>1, <1>2, <1>3 DEF WorkerStep

LEMMA LockInit == Init => OneHolder /\ WorkerProgress
BY SaveServerAssumption DEF Init, OneHolder, WorkerProgress, Chunks

LEMMA LockNext ==
  TypeOK /\ OneHolder /\ WorkerProgress /\ [Next]_vars
    => OneHolder' /\ WorkerProgress'
<1> SUFFICES ASSUME TypeOK, OneHolder, WorkerProgress, [Next]_vars
             PROVE  OneHolder' /\ WorkerProgress'
  OBVIOUS
<1>1. CASE ServerStep
  <2>1. CASE UNCHANGED <<wState, wNext, wSent, mutexBusy>>
    BY <2>1 DEF OneHolder, WorkerProgress
  <2>2. ASSUME NEW s \in Slots, NEW w \in Workers, Greet(s, w)
        PROVE  OneHolder' /\ WorkerProgress'
    BY <2>2 DEF Greet, TypeOK, OneHolder, WorkerProgress
  <2> QED
    BY <1>1, <2>1, <2>2 DEF ServerStep, Connect, Disconnect, IgnoreChunk,
       StoreChunk, CommitSave, workerVars
<1>2. CASE \E w \in Workers : WorkerStep(w)
  BY <1>2, LockStep
<1>3. CASE ResetSave
  BY <1>3 DEF ResetSave, workerVars, OneHolder, WorkerProgress
<1>4. CASE UNCHANGED vars
  BY <1>4 DEF vars, OneHolder, WorkerProgress
<1> QED BY <1>1, <1>2, <1>3, <1>4 DEF Next

(* Two downloads, or a download and a commit, never overlap. *)
THEOREM MutualExclusion == Spec => []OneHolder
<1>1. Init => OneHolder /\ WorkerProgress
  BY LockInit
<1> QED BY <1>1, TypeCorrect, LockNext, PTL DEF Spec

-----------------------------------------------------------------------------
(* The refinement.  A sending worker hands out a whole content, and only a *)
(* sending worker does.                                                    *)
LEMMA HandedOutType ==
  ASSUME TypeOK, WorkerProgress
  PROVE  /\ HandedOut \in [Workers -> Contents \cup {Unsent}]
         /\ \A w \in Workers :
              /\ wState[w] = "sending" => HandedOut[w] \in Contents
              /\ HandedOut[w] = Unsent <=> wState[w] # "sending"
<1>1. ASSUME NEW w \in Workers, wState[w] = "sending"
      PROVE  HandedOut[w] \in Contents
  BY <1>1 DEF HandedOut, TypeOK, WorkerProgress, Contents
<1>2. ASSUME NEW w \in Workers, wState[w] # "sending"
      PROVE  HandedOut[w] = Unsent
  BY <1>2 DEF HandedOut
<1>3. Unsent \notin Contents
  BY SaveServerAssumption
<1>4. HandedOut = [w \in Workers |-> HandedOut[w]]
  BY DEF HandedOut
<1> QED BY <1>1, <1>2, <1>3, <1>4

LEMMA WorkerRefines ==
  ASSUME TypeOK, OneHolder, WorkerProgress, NEW w \in Workers, WorkerStep(w)
  PROVE  [Register!Next]_(Register!absVars)
<1>1. CASE WorkerLock(w)
  <2>1. /\ sharedSave' = sharedSave /\ wSent' = wSent /\ wNext' = wNext
        /\ resets' = resets
        /\ wState' = [wState EXCEPT ![w] = "sending"]
        /\ wState[w] = "waiting" /\ wNext[w] = 0
    BY <1>1 DEF WorkerLock, saveVars, WorkerProgress
  <2>2. HandedOut'[w] = [i \in Chunks |-> IF i < 0 THEN wSent[w][i] ELSE sharedSave[i]]
    BY <2>1 DEF HandedOut, TypeOK
  <2>3. HandedOut'[w] = sharedSave
    <3>1. \A i \in Chunks : ~(i < 0)
      BY SaveServerAssumption DEF Chunks
    <3>2. sharedSave = [i \in Chunks |-> sharedSave[i]]
      BY DEF TypeOK, Contents
    <3> QED BY <2>2, <3>1, <3>2
  <2>4. HandedOut' = [HandedOut EXCEPT ![w] = sharedSave]
    BY <2>1, <2>3 DEF HandedOut, TypeOK
  <2>5. HandedOut[w] = Unsent
    BY <2>1 DEF HandedOut
  <2> QED BY <2>1, <2>4, <2>5 DEF Register!Next, Register!BeginRead
<1>2. CASE WorkerSend(w)
  <2>1. /\ sharedSave' = sharedSave /\ resets' = resets /\ wState' = wState
        /\ wNext[w] \in Chunks
        /\ wSent' = [wSent EXCEPT ![w] = [@ EXCEPT ![wNext[w]] = sharedSave[wNext[w]]]]
        /\ wNext' = [wNext EXCEPT ![w] = @ + 1]
    BY <1>2, SaveServerAssumption DEF WorkerSend, saveVars, TypeOK, Chunks
  <2>2. ASSUME NEW v \in Workers, wState[v] = "sending", NEW i \in Chunks
        PROVE  (IF i < wNext'[v] THEN wSent'[v][i] ELSE sharedSave[i])
                 = (IF i < wNext[v] THEN wSent[v][i] ELSE sharedSave[i])
    <3>1. CASE v # w
      BY <2>1, <3>1 DEF TypeOK
    <3>2. CASE v = w
      <4>1. i \in Int /\ wNext[w] \in Int
        BY <2>1, SaveServerAssumption DEF Chunks
      <4>2. wNext'[w] = wNext[w] + 1
        BY <2>1 DEF TypeOK
      <4>3. wSent'[w][i] = IF i = wNext[w] THEN sharedSave[i] ELSE wSent[w][i]
        BY <2>1 DEF TypeOK
      <4> QED BY <3>2, <4>1, <4>2, <4>3
    <3> QED BY <3>1, <3>2
  <2>3. HandedOut' = HandedOut
    BY <2>1, <2>2 DEF HandedOut
  <2> QED BY <2>1, <2>3 DEF Register!absVars
<1>3. CASE WorkerUnlock(w)
  <2>1. /\ sharedSave' = sharedSave /\ resets' = resets
        /\ wState[w] = "sending"
        /\ wState' = [wState EXCEPT ![w] = "none"]
        /\ \A v \in Workers \ {w} : wNext'[v] = wNext[v] /\ wSent'[v] = wSent[v]
    BY <1>3 DEF WorkerUnlock, saveVars, TypeOK
  <2>2. HandedOut' = [HandedOut EXCEPT ![w] = Unsent]
    BY <2>1 DEF HandedOut, TypeOK
  <2>3. HandedOut[w] # Unsent
    BY <2>1, HandedOutType
  <2> QED BY <2>1, <2>2, <2>3 DEF Register!Next, Register!EndRead
<1> QED BY <1>1, <1>2, <1>3 DEF WorkerStep

LEMMA ResetRefines ==
  ASSUME TypeOK, WorkerProgress, TypeOK', WorkerProgress', ResetSave
  PROVE  Register!Reset
<1> DEFINE garbled ==
      [w \in Workers |-> IF wState[w] = "sending" THEN HandedOut'[w] ELSE sharedSave]
<1>1. /\ wState' = wState /\ sharedSave' \in Contents /\ sharedSave \in Contents
      /\ resets' = resets + 1
  BY DEF ResetSave, workerVars, TypeOK
<1>2. \A w \in Workers : wState[w] = "sending" => HandedOut'[w] \in Contents
  BY <1>1 DEF HandedOut, TypeOK, WorkerProgress, Contents
<1>3. garbled \in [Workers -> Contents]
  BY <1>1, <1>2
<1>4. \A w \in Workers : HandedOut[w] = Unsent <=> wState[w] # "sending"
  BY HandedOutType
<1>5. HandedOut' = [w \in Workers |-> IF HandedOut[w] = Unsent
                                      THEN Unsent ELSE garbled[w]]
  <2>1. \A w \in Workers : HandedOut'[w] = IF HandedOut[w] = Unsent
                                            THEN Unsent ELSE garbled[w]
    BY <1>1, <1>4 DEF HandedOut
  <2>2. HandedOut' = [w \in Workers |-> HandedOut'[w]]
    BY DEF HandedOut
  <2> QED BY <2>1, <2>2
<1> QED BY <1>1, <1>3, <1>5 DEF Register!Reset

LEMMA StepRefines ==
  ASSUME TypeOK, OneHolder, WorkerProgress, TypeOK', WorkerProgress', [Next]_vars
  PROVE  [Register!Next]_(Register!absVars)
<1>1. CASE UNCHANGED <<sharedSave, wState, wNext, wSent, resets>>
  BY <1>1 DEF HandedOut, Register!absVars
<1>2. ASSUME NEW s \in Slots, NEW w \in Workers, Greet(s, w)
      PROVE  [Register!Next]_(Register!absVars)
  <2>1. HandedOut' = HandedOut /\ sharedSave' = sharedSave /\ resets' = resets
    BY <1>2 DEF Greet, saveVars, HandedOut, TypeOK
  <2> QED BY <2>1 DEF Register!absVars
<1>3. CASE CommitSave
  <2>1. \A w \in Workers : wState[w] # "sending"
    BY <1>3 DEF CommitSave, MutexFree, OneHolder
  <2>2. sharedSave' \in Contents /\ wState' = wState /\ resets' = resets
    BY <1>3 DEF CommitSave, workerVars, TypeOK
  <2>3. HandedOut' = HandedOut
    BY <2>1, <2>2 DEF HandedOut
  <2> QED BY <2>2, <2>3 DEF Register!Next, Register!Put
<1>4. CASE \E w \in Workers : WorkerStep(w)
  BY <1>4, WorkerRefines
<1>5. CASE ResetSave
  BY <1>5, ResetRefines DEF Register!Next
<1> QED
  BY <1>1, <1>2, <1>3, <1>4, <1>5 DEF Next, vars, ServerStep, Connect,
     Disconnect, IgnoreChunk, StoreChunk, saveVars, workerVars

(* Whatever the number of downloads going on: each gives its player the    *)
(* shared save of one moment, and each upload replaces it as a whole.      *)
THEOREM SaveIsAtomic == Spec => ImplementsRegister
<1>1. Init => Register!Init
  <2> SUFFICES ASSUME Init PROVE Register!Init
    OBVIOUS
  <2>1. sharedSave \in Contents
    BY SaveServerAssumption DEF Init, Contents
  <2>2. HandedOut = [w \in Workers |-> Unsent]
    BY DEF Init, HandedOut
  <2> QED BY <2>1, <2>2 DEF Init, Register!Init
<1>2. Init => OneHolder /\ WorkerProgress
  BY LockInit
<1>3. TypeOK /\ OneHolder /\ WorkerProgress /\ TypeOK' /\ WorkerProgress'
        /\ [Next]_vars => [Register!Next]_(Register!absVars)
  BY StepRefines
<1> QED
  BY <1>1, <1>2, <1>3, TypeCorrect, LockNext, PTL
  DEF Spec, ImplementsRegister, Register!Spec
=============================================================================
