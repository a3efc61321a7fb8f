----------------------------- MODULE SaveServer -----------------------------
(***************************************************************************)
(* The server's side of the shared save file: Handlers::handleSaveChunk    *)
(* assembles an uploaded save from its chunks, Client::uploadSaveThread    *)
(* hands the committed save to a player that greets, and Server's event    *)
(* loop creates and erases the Client objects the other two refer to.      *)
(*                                                                         *)
(* Threads: the server thread runs every handler and the event loop; each  *)
(* greeting starts one detached worker that holds mSaveDataMutex while it  *)
(* sends; the console thread runs the operator's commands.                 *)
(*                                                                         *)
(* A slot is the place of a Client object (its hash-map node and its ENet  *)
(* peer).  A slot can be given to a new client once the old one is erased, *)
(* so a pointer kept across the erasure may denote a different player.     *)
(* A chunk's bytes are represented by the save image they were cut from,   *)
(* and sizes are counted in chunks.                                        *)
(***************************************************************************)
EXTENDS Integers, FiniteSets

CONSTANTS
  Slots,        \* places of Client objects (mClients nodes)
  NoSlot,       \* nullptr
  Workers,      \* threads running uploadSaveThread at the same time
  Images,       \* save images a chunk can have been cut from
  DefaultImage, \* the content of GameDataDefault.bin
  Unsent,       \* a chunk a worker has not sent yet
  ChunkCount,   \* 8 in the code
  MaxResets     \* bound: resetsave commands of the operator

Chunks == 0 .. ChunkCount - 1

Contents == [Chunks -> Images]

ASSUME SaveServerAssumption ==
  /\ ChunkCount \in Nat \ {0}
  /\ MaxResets \in Nat
  /\ NoSlot \notin Slots
  /\ DefaultImage \in Images
  /\ Unsent \notin Contents

VARIABLES
  session,    \* per slot: the state of the Client object in it
  acked,      \* mSaveDataAck: the chunks of the transfer that have arrived
  uploader,   \* mCurrentSaveDataUploader
  workBuf,    \* mSharedSaveWorkBuffer
  workSize,   \* mSharedSaveWorkBufferSize, in chunks
  author,     \* history: the slot that wrote each chunk of workBuf
  committing, \* the server thread is about to lock mSaveDataMutex
  sharedSave, \* ServerSaveData::sharedSave
  sharedSize, \* ServerSaveData::sharedSaveSize, in chunks
  wState,     \* per worker: none, waiting for the mutex, or sending
  wTo,        \* per worker: the Client (this) it sends to
  wNext,      \* per worker: the index of the next chunk
  wSent,      \* per worker: the chunks it has sent
  mutexBusy,  \* mSaveDataMutex is held by a worker
  resets      \* history: resetsave commands so far

transferVars == <<acked, uploader, workBuf, workSize, author>>
workerVars   == <<wState, wTo, wNext, wSent>>
saveVars     == <<sharedSave, sharedSize>>
vars == <<session, acked, uploader, workBuf, workSize, author, committing,
          sharedSave, sharedSize, wState, wTo, wNext, wSent, mutexBusy,
          resets>>

TypeOK ==
  /\ session \in [Slots -> {"free", "connected", "greeted"}]
  /\ acked \subseteq Chunks
  /\ uploader \in Slots \cup {NoSlot}
  /\ workBuf \in Contents
  /\ workSize \in 0 .. ChunkCount
  /\ author \in [Chunks -> Slots \cup {NoSlot}]
  /\ committing \in BOOLEAN
  /\ sharedSave \in Contents
  /\ sharedSize \in 0 .. ChunkCount
  /\ wState \in [Workers -> {"none", "waiting", "sending"}]
  /\ wTo \in [Workers -> Slots]
  /\ wNext \in [Workers -> 0 .. ChunkCount]
  /\ wSent \in [Workers -> [Chunks -> Images \cup {Unsent}]]
  /\ mutexBusy \in BOOLEAN
  /\ resets \in 0 .. MaxResets

(* The first run of a server: no SaveData.json, the default save loaded. *)
Init ==
  /\ session = [s \in Slots |-> "free"]
  /\ acked = {}
  /\ uploader = NoSlot
  /\ workBuf = [i \in Chunks |-> DefaultImage]
  /\ workSize = 0
  /\ author = [i \in Chunks |-> NoSlot]
  /\ committing = FALSE
  /\ sharedSave = [i \in Chunks |-> DefaultImage]
  /\ sharedSize = ChunkCount
  /\ wState = [w \in Workers |-> "none"]
  /\ wTo \in [Workers -> Slots]
  /\ wNext = [w \in Workers |-> 0]
  /\ wSent = [w \in Workers |-> [i \in Chunks |-> Unsent]]
  /\ mutexBusy = FALSE
  /\ resets = 0

-----------------------------------------------------------------------------
(* The event loop (exeService).  It is the thread that also runs           *)
(* handleSaveChunk, so it does nothing while a commit waits for the mutex. *)

ServerThreadFree == ~committing

(* mSaveDataMutex.  Mutants: nobody locks; the worker returns without      *)
(* unlocking.                                                              *)
NoLocking     == TRUE
ForgetsUnlock == mutexBusy' = mutexBusy

MutexFree    == ~mutexBusy
ReleaseMutex == mutexBusy' = FALSE

(* ENET_EVENT_TYPE_CONNECT: a Client object is constructed in a free place. *)
Connect(s) ==
  /\ ServerThreadFree
  /\ session[s] = "free"
  /\ session' = [session EXCEPT ![s] = "connected"]
  /\ UNCHANGED <<transferVars, committing, saveVars, workerVars, mutexBusy, resets>>

(* ToS_Hello: Client::handleGreet starts a detached uploadSaveThread. *)
Greet(s, w) ==
  /\ ServerThreadFree
  /\ session[s] = "connected"
  /\ wState[w] = "none"
  /\ session' = [session EXCEPT ![s] = "greeted"]
  /\ wState' = [wState EXCEPT ![w] = "waiting"]
  /\ wTo' = [wTo EXCEPT ![w] = s]
  /\ UNCHANGED <<transferVars, committing, saveVars, wNext, wSent, mutexBusy, resets>>

(* ENET_EVENT_TYPE_DISCONNECT: Client::disconnect is empty, so neither the *)
(* transfer nor a worker that still holds the pointer is told.             *)
Disconnect(s) ==
  /\ ServerThreadFree
  /\ session[s] # "free"
  /\ session' = [session EXCEPT ![s] = "free"]
  /\ UNCHANGED <<transferVars, committing, saveVars, workerVars, mutexBusy, resets>>

-----------------------------------------------------------------------------
(* handleSaveChunk *)

(* Mutants: any sender may write, the size is carried over. *)
AnySender(s)     == s
SizeCarriedOver  == workSize

(* The first chunk after a completed transfer claims it for its sender. *)
Owner(s) == IF acked = {} THEN s ELSE uploader

SizeSoFar == IF acked = {} THEN 0 ELSE workSize

(* A chunk of somebody else's transfer, or one whose size exceeds          *)
(* sSaveDataChunkSize (a last chunk whose u16 size wrapped), is dropped,   *)
(* after the claim.                                                        *)
IgnoreChunk(s, fits) ==
  /\ ServerThreadFree
  /\ session[s] = "greeted"
  /\ Owner(s) # s \/ ~fits
  /\ uploader' = Owner(s)
  /\ workSize' = SizeSoFar
  /\ UNCHANGED <<session, acked, workBuf, author, committing, saveVars,
                 workerVars, mutexBusy, resets>>

(* A chunk of the current transfer is stored; the last missing one ends    *)
(* the transfer and makes the server thread go for the mutex.              *)
StoreChunk(s, i, img) ==
  LET have == acked \cup {i} IN
  /\ ServerThreadFree
  /\ session[s] = "greeted"
  /\ Owner(s) = s
  /\ workBuf' = [workBuf EXCEPT ![i] = img]
  /\ author' = [author EXCEPT ![i] = s]
  /\ workSize' = IF i \in acked THEN SizeSoFar ELSE SizeSoFar + 1
  /\ acked' = IF have = Chunks THEN {} ELSE have
  /\ uploader' = IF have = Chunks THEN NoSlot ELSE s
  /\ committing' = (have = Chunks)
  /\ UNCHANGED <<session, saveVars, workerVars, mutexBusy, resets>>

(* The server thread gets mSaveDataMutex, replaces the shared save, writes *)
(* it to disk and unlocks.                                                 *)
CommitSave ==
  /\ committing
  /\ MutexFree
  /\ sharedSave' = [i \in Chunks |->
                      IF i < workSize THEN workBuf[i] ELSE sharedSave[i]]
  /\ sharedSize' = workSize
  /\ committing' = FALSE
  /\ UNCHANGED <<session, transferVars, workerVars, mutexBusy, resets>>

-----------------------------------------------------------------------------
(* uploadSaveThread *)

WorkerLock(w) ==
  /\ wState[w] = "waiting"
  /\ MutexFree
  /\ mutexBusy' = TRUE
  /\ wState' = [wState EXCEPT ![w] = "sending"]
  /\ UNCHANGED <<session, transferVars, committing, saveVars, wTo, wNext, wSent, resets>>

(* One iteration of the loop: the chunk is cut from the shared save at the *)
(* moment it is sent, 40 ms after the one before.                          *)
WorkerSend(w) ==
  /\ wState[w] = "sending"
  /\ wNext[w] < ChunkCount
  /\ wSent' = [wSent EXCEPT ![w] = [@ EXCEPT ![wNext[w]] = sharedSave[wNext[w]]]]
  /\ wNext' = [wNext EXCEPT ![w] = @ + 1]
  /\ UNCHANGED <<session, transferVars, committing, saveVars, wState, wTo, mutexBusy,
                 resets>>

WorkerUnlock(w) ==
  /\ wState[w] = "sending"
  /\ wNext[w] = ChunkCount
  /\ ReleaseMutex
  /\ wState' = [wState EXCEPT ![w] = "none"]
  /\ wNext' = [wNext EXCEPT ![w] = 0]
  /\ wSent' = [wSent EXCEPT ![w] = [i \in Chunks |-> Unsent]]
  /\ UNCHANGED <<session, transferVars, committing, saveVars, wTo, resets>>

-----------------------------------------------------------------------------
(* The operator's resetsave command runs on the console thread and takes   *)
(* no lock.  When it races with the commit's memcpy, each chunk may end    *)
(* with either content.                                                    *)
ResetSave ==
  /\ resets < MaxResets
  /\ resets' = resets + 1
  /\ \/ /\ sharedSave' = [i \in Chunks |-> DefaultImage]
        /\ UNCHANGED committing
     \/ /\ committing /\ MutexFree
        /\ \E lost \in SUBSET Chunks :
             sharedSave' = [i \in Chunks |->
                              IF i \in lost THEN DefaultImage ELSE workBuf[i]]
        /\ committing' = FALSE
  /\ sharedSize' = ChunkCount
  /\ UNCHANGED <<session, transferVars, workerVars, mutexBusy>>

-----------------------------------------------------------------------------
ServerStep ==
  \/ \E s \in Slots : Connect(s) \/ Disconnect(s)
  \/ \E s \in Slots, w \in Workers : Greet(s, w)
  \/ \E s \in Slots, fits \in BOOLEAN : IgnoreChunk(s, fits)
  \/ \E s \in Slots, i \in Chunks, img \in Images : StoreChunk(s, i, img)
  \/ CommitSave

WorkerStep(w) == WorkerLock(w) \/ WorkerSend(w) \/ WorkerUnlock(w)

Next ==
  \/ ServerStep
  \/ \E w \in Workers : WorkerStep(w)
  \/ ResetSave

Spec == Init /\ [][Next]_vars

(* The threads run: a worker that can step does, and so does the server    *)
(* thread once it is at the lock.  Whether clients send is up to them.     *)
Fairness == WF_vars(CommitSave) /\ \A w \in Workers : WF_vars(WorkerStep(w))

FairSpec == Spec /\ Fairness

-----------------------------------------------------------------------------
(* Every chunk gathered so far, and every chunk of a save about to be      *)
(* committed, was written by one Client object: the guard on               *)
(* mCurrentSaveDataUploader keeps two uploads from interleaving in the one *)
(* work buffer.                                                            *)
SingleSource ==
  /\ \A i \in acked : author[i] = uploader
  /\ committing => \E s \in Slots : \A i \in Chunks : author[i] = s

(* The size that will be committed is that of the chunks gathered, so the  *)
(* shared save never shrinks to part of a file or grows past the buffer,   *)
(* although chunks may be sent twice and the counter is reset only by the  *)
(* first chunk of the next transfer.                                       *)
SizeMatchesChunks ==
  /\ acked # {} => workSize = Cardinality(acked)
  /\ committing => workSize = ChunkCount
  /\ sharedSize = ChunkCount

(* mSaveDataMutex is held exactly while one worker is between its lock and *)
(* its unlock: two downloads, or a download and a commit, never overlap.   *)
OneHolder ==
  /\ \A w \in Workers : wState[w] = "sending" => mutexBusy
  /\ mutexBusy => \E w \in Workers : wState[w] = "sending"
  /\ \A v, w \in Workers :
       wState[v] = "sending" /\ wState[w] = "sending" => v = w

(* The server thread does not wait for mSaveDataMutex for ever, although   *)
(* it waits inside the event loop with mEnetMutex held.                    *)
CommitNotBlocked == committing ~> ~committing

(* The shared save is an atomic register to its readers: what a worker is  *)
(* handing out is what it has sent, followed by what it would send now.    *)
HandedOut ==
  [w \in Workers |->
     IF wState[w] = "sending"
     THEN [i \in Chunks |-> IF i < wNext[w] THEN wSent[w][i] ELSE sharedSave[i]]
     ELSE Unsent]

Register == INSTANCE AtomicSave WITH
  Readers    <- Workers,
  NotReading <- Unsent,
  register   <- sharedSave,
  snapshot   <- HandedOut

(* Every download gives its player the save as it was at one moment, and   *)
(* every upload replaces the save as a whole, except what the operator's  *)
(* resetsave disturbs.                                                     *)
ImplementsRegister == Register!Spec
=============================================================================
