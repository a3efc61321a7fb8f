------------------------------ MODULE SaveSync ------------------------------
(***************************************************************************)
(* The shared save file end to end: every player's game keeps a copy of it *)
(* in a work buffer (SaveDataSync.cpp), downloads it through the title     *)
(* menu (TopMenuExt::exeDownloadSave), and uploads it whenever the game    *)
(* saves; the server side is SaveServer.                                   *)
(*                                                                         *)
(* A player runs three threads on one unprotected work buffer: the game    *)
(* thread (menu, save hook), the network thread (received chunks) and the  *)
(* upload thread.  The ENet channel SaveDataChunk is reliable and ordered  *)
(* per connection; what is in flight is lost with the connection.          *)
(***************************************************************************)
EXTENDS Integers, Sequences, FiniteSets

CONSTANTS
  Players,
  Writers,      \* the players whose game saves
  MayLeave,     \* the players whose connection may be lost
  Places,       \* per player: where the allocator may put its Client object
  Slots, NoSlot, Workers, ChunkCount, MaxResets,
  Unsent, DefaultImage,
  Zero,         \* the zeroes resetSaveDataBuffer leaves in the buffer
  MaxWrites,    \* bound: saves of one player's game
  MaxJoins      \* bound: connections of one player

(* A save is named by the player whose game wrote it and a serial number.  *)
Images == {DefaultImage} \cup (Writers \X (1 .. MaxWrites))

ASSUME SaveSyncAssumption ==
  /\ Writers \subseteq Players
  /\ MayLeave \subseteq Players
  /\ Places \in [Players -> SUBSET Slots]
  /\ NoSlot \notin Slots
  /\ ChunkCount \in Nat \ {0}
  /\ MaxResets \in Nat
  /\ Unsent \notin [0 .. ChunkCount - 1 -> Images]
  /\ MaxWrites \in Nat
  /\ MaxJoins \in Nat

VARIABLES
  session, acked, uploader, workBuf, workSize, author, committing,
  sharedSave, sharedSize, wState, wTo, wNext, wSent, mutexBusy, resets,
  at,        \* per player: the slot its connection leads to
  hello,     \* per player: ToS_Hello is on its way
  phase,     \* per player: where its game is
  got,       \* sCachedSaveFileAck
  buf,       \* sCachedSaveFileWorkBuffer
  written,   \* saves its game has made
  copied,    \* chunks the save hook's memcpy has copied
  signaled,  \* SaveDataUploadThread::mEvent
  upAt,      \* the upload thread's next chunk
  upNet,     \* chunks on their way to the server
  downNet,   \* chunks on their way to the player
  joins,     \* history: connections so far
  everShared \* history: the contents the shared save has had

srvVars == <<session, acked, uploader, workBuf, workSize, author, committing,
             sharedSave, sharedSize, wState, wTo, wNext, wSent, mutexBusy, resets>>
threadVars == <<written, copied, signaled, upAt>>
cliVars == <<at, hello, phase, got, buf, threadVars, upNet, downNet, joins,
                 everShared>>
vars == <<srvVars, cliVars>>

Srv == INSTANCE SaveServer

Chunks == Srv!Chunks

Whole(img) == [i \in Chunks |-> img]

Connected(p) == at[p] # NoSlot

TypeOK ==
  /\ Srv!TypeOK
  /\ at \in [Players -> Slots \cup {NoSlot}]
  /\ hello \in [Players -> BOOLEAN]
  /\ phase \in [Players -> {"menu", "connected", "download", "playing"}]
  /\ got \in [Players -> SUBSET Chunks]
  /\ buf \in [Players -> [Chunks -> Images \cup {Zero}]]
  /\ written \in [Players -> 0 .. MaxWrites]
  /\ copied \in [Players -> 0 .. ChunkCount]
  /\ signaled \in [Players -> BOOLEAN]
  /\ upAt \in [Players -> 0 .. ChunkCount]
  /\ upNet \in [Players -> Seq(Chunks \X Images)]
  /\ downNet \in [Players -> Seq(Chunks \X Images)]
  /\ joins \in [Players -> 0 .. MaxJoins]

Init ==
  /\ Srv!Init
  /\ at = [p \in Players |-> NoSlot]
  /\ hello = [p \in Players |-> FALSE]
  /\ phase = [p \in Players |-> "menu"]
  /\ got = [p \in Players |-> {}]
  /\ buf = [p \in Players |-> Whole(Zero)]
  /\ written = [p \in Players |-> 0]
  /\ copied = [p \in Players |-> ChunkCount]
  /\ signaled = [p \in Players |-> FALSE]
  /\ upAt = [p \in Players |-> ChunkCount]
  /\ upNet = [p \in Players |-> <<>>]
  /\ downNet = [p \in Players |-> <<>>]
  /\ joins = [p \in Players |-> 0]
  /\ everShared = {sharedSave}

-----------------------------------------------------------------------------
(* Connecting and the title menu *)

(* A connection comes up: from the menu, or because NetClient reconnects a *)
(* game that lost it.  The first Service step sends ToS_Hello.             *)
Join(p, s) ==
  /\ ~Connected(p)
  /\ joins[p] < MaxJoins
  /\ s \in Places[p]
  /\ Srv!Connect(s)
  /\ at' = [at EXCEPT ![p] = s]
  /\ hello' = [hello EXCEPT ![p] = TRUE]
  /\ joins' = [joins EXCEPT ![p] = @ + 1]
  /\ phase' = [phase EXCEPT ![p] = IF @ = "menu" THEN "connected" ELSE @]
  /\ UNCHANGED <<got, buf, threadVars, upNet, downNet, everShared>>

Greet(p, w) ==
  /\ hello[p]
  /\ Srv!Greet(at[p], w)
  /\ hello' = [hello EXCEPT ![p] = FALSE]
  /\ UNCHANGED <<at, phase, got, buf, threadVars, upNet, downNet, joins,
                 everShared>>

(* The first step of exeDownloadSave forgets what has arrived before it. *)
StartDownload(p) ==
  /\ phase[p] = "connected" /\ Connected(p)
  /\ phase' = [phase EXCEPT ![p] = "download"]
  /\ got' = [got EXCEPT ![p] = {}]
  /\ buf' = [buf EXCEPT ![p] = Whole(Zero)]
  /\ UNCHANGED <<srvVars, at, hello, threadVars, upNet, downNet, joins,
                 everShared>>

(* Mutant: one chunk is enough. *)
SomeChunk(p) == got[p] # {}

AllChunks(p) == got[p] = Chunks

(* All chunks acknowledged: the buffer becomes the cached save file. *)
FinishDownload(p) ==
  /\ phase[p] = "download" /\ Connected(p)
  /\ AllChunks(p)
  /\ phase' = [phase EXCEPT ![p] = "playing"]
  /\ UNCHANGED <<srvVars, at, hello, got, buf, threadVars, upNet, downNet, joins,
                 everShared>>

(* handle_SaveDataChunk, on the network thread, whatever the game is doing. *)
ReceiveChunk(p) ==
  /\ downNet[p] # <<>>
  /\ LET i == Head(downNet[p])[1]  img == Head(downNet[p])[2] IN
     /\ buf' = [buf EXCEPT ![p] = [@ EXCEPT ![i] = img]]
     /\ got' = [got EXCEPT ![p] = @ \cup {i}]
  /\ downNet' = [downNet EXCEPT ![p] = Tail(@)]
  /\ UNCHANGED <<srvVars, at, hello, phase, threadVars, upNet, joins, everShared>>

(* The connection is lost, with what is under way in it.  NetClient will   *)
(* connect again, which the game or the menu need not notice.              *)
Leave(p) ==
  /\ Connected(p) /\ p \in MayLeave
  /\ at' = [at EXCEPT ![p] = NoSlot]
  /\ hello' = [hello EXCEPT ![p] = FALSE]
  /\ upNet' = [upNet EXCEPT ![p] = <<>>]
  /\ downNet' = [downNet EXCEPT ![p] = <<>>]
  /\ UNCHANGED <<srvVars, phase, got, buf, threadVars, joins, everShared>>

(* A menu that finds the connection gone gives up and resets the buffer. *)
AbortDownload(p) ==
  /\ phase[p] \in {"connected", "download"} /\ ~Connected(p)
  /\ phase' = [phase EXCEPT ![p] = "menu"]
  /\ got' = [got EXCEPT ![p] = {}]
  /\ buf' = [buf EXCEPT ![p] = Whole(Zero)]
  /\ UNCHANGED <<srvVars, at, hello, threadVars, upNet, downNet, joins,
                 everShared>>

(* The server hears of it later. *)
ServerNotices(s) ==
  /\ \A p \in Players : at[p] # s
  /\ Srv!Disconnect(s)
  /\ UNCHANGED cliVars

-----------------------------------------------------------------------------
(* Saving and uploading *)

(* Mutant: a request during an upload is lost. *)
RequestIfIdle(p) ==
  signaled' = IF upAt[p] = ChunkCount THEN [signaled EXCEPT ![p] = TRUE] ELSE signaled

RequestUpload(p) == signaled' = [signaled EXCEPT ![p] = TRUE]

(* The game saves: the write hook copies the save into the work buffer,    *)
(* which the upload thread may be reading, and then signals that thread.   *)
BeginWrite(p) ==
  /\ p \in Writers /\ phase[p] = "playing"
  /\ written[p] < MaxWrites
  /\ copied[p] = ChunkCount
  /\ written' = [written EXCEPT ![p] = @ + 1]
  /\ copied' = [copied EXCEPT ![p] = 0]
  /\ UNCHANGED <<srvVars, at, hello, phase, got, buf, signaled, upAt, upNet,
                 downNet, joins, everShared>>

CopyChunk(p) ==
  /\ copied[p] < ChunkCount
  /\ buf' = [buf EXCEPT ![p] = [@ EXCEPT ![copied[p]] = <<p, written[p]>>]]
  /\ copied' = [copied EXCEPT ![p] = @ + 1]
  /\ IF copied[p] + 1 = ChunkCount THEN RequestUpload(p) ELSE UNCHANGED signaled
  /\ UNCHANGED <<srvVars, at, hello, phase, got, written, upAt, upNet, downNet,
                 joins, everShared>>

(* WaitEvent returns and clears the event. *)
UploadStart(p) ==
  /\ upAt[p] = ChunkCount
  /\ signaled[p]
  /\ signaled' = [signaled EXCEPT ![p] = FALSE]
  /\ upAt' = [upAt EXCEPT ![p] = 0]
  /\ UNCHANGED <<srvVars, at, hello, phase, got, buf, written, copied, upNet,
                 downNet, joins, everShared>>

(* One iteration of the upload loop; NetClient::sendPacket does nothing    *)
(* when there is no connection.                                            *)
UploadSend(p) ==
  /\ upAt[p] < ChunkCount
  /\ upAt' = [upAt EXCEPT ![p] = @ + 1]
  /\ upNet' = IF Connected(p)
              THEN [upNet EXCEPT ![p] = Append(@, <<upAt[p], buf[p][upAt[p]]>>)]
              ELSE upNet
  /\ UNCHANGED <<srvVars, at, hello, phase, got, buf, written, copied, signaled,
                 downNet, joins, everShared>>

-----------------------------------------------------------------------------
(* The server *)

(* A chunk arrives; before the greeting it is dropped by the event loop. *)
DeliverChunk(p) ==
  /\ upNet[p] # <<>>
  /\ LET i == Head(upNet[p])[1]  img == Head(upNet[p])[2] IN
     \/ Srv!StoreChunk(at[p], i, img)
     \/ Srv!IgnoreChunk(at[p], TRUE)
     \/ session[at[p]] = "connected" /\ ~committing /\ UNCHANGED srvVars
  /\ upNet' = [upNet EXCEPT ![p] = Tail(@)]
  /\ UNCHANGED <<at, hello, phase, got, buf, threadVars, downNet, joins, everShared>>

CommitSave ==
  /\ Srv!CommitSave
  /\ everShared' = everShared \cup {sharedSave'}
  /\ UNCHANGED <<at, hello, phase, got, buf, threadVars, upNet, downNet, joins>>

(* A worker's chunk reaches whoever is connected through its slot by now. *)
WorkerSend(w) ==
  /\ Srv!WorkerSend(w)
  /\ downNet' = [p \in Players |->
       IF at[p] = wTo[w] THEN Append(downNet[p], <<wNext[w], sharedSave[wNext[w]]>>)
                         ELSE downNet[p]]
  /\ UNCHANGED <<at, hello, phase, got, buf, threadVars, upNet, joins, everShared>>

WorkerTurn(w) ==
  \/ WorkerSend(w)
  \/ (Srv!WorkerLock(w) \/ Srv!WorkerUnlock(w)) /\ UNCHANGED cliVars

-----------------------------------------------------------------------------
GameStep(p) ==
  StartDownload(p) \/ FinishDownload(p) \/ AbortDownload(p) \/ CopyChunk(p)
UploadStep(p) == UploadStart(p) \/ UploadSend(p)

Next ==
  \/ \E p \in Players, s \in Slots : Join(p, s)
  \/ \E p \in Players, w \in Workers : Greet(p, w)
  \/ \E p \in Players : GameStep(p) \/ BeginWrite(p) \/ UploadStep(p)
                        \/ ReceiveChunk(p) \/ DeliverChunk(p) \/ Leave(p)
  \/ \E s \in Slots : ServerNotices(s)
  \/ \E w \in Workers : WorkerTurn(w)
  \/ CommitSave

Spec == Init /\ [][Next]_vars

(* The threads run and the reliable channels deliver; nobody has to join,  *)
(* leave or save.                                                          *)
Fairness ==
  /\ \A p \in Players :
       /\ WF_vars(GameStep(p))
       /\ WF_vars(UploadStep(p))
       /\ WF_vars(ReceiveChunk(p))
       /\ WF_vars(DeliverChunk(p))
       /\ WF_vars(\E w \in Workers : Greet(p, w))
  /\ \A w \in Workers : WF_vars(WorkerTurn(w))
  /\ WF_vars(CommitSave)

FairSpec == Spec /\ Fairness

-----------------------------------------------------------------------------
(* The last save of p's game, once made completely. *)
LastSave(p) == Whole(<<p, written[p]>>)

UploadIdle(p) ==
  /\ copied[p] = ChunkCount /\ ~signaled[p] /\ upAt[p] = ChunkCount
  /\ upNet[p] = <<>>

(* When the only player that saves has nothing left to upload, the server  *)
(* has its last save: the auto-clear event turns a save made during an     *)
(* upload into a second upload, so none is forgotten.                      *)
SavedWhenQuiet ==
  \A p \in Writers :
    Writers = {p} /\ written[p] > 0 /\ UploadIdle(p) /\ ~committing
      => sharedSave = LastSave(p)

(* A game that has finished its download starts from a content the shared  *)
(* save really had at one moment, although commits go on meanwhile.        *)
DownloadedWhole ==
  \A p \in Players : phase[p] = "playing" /\ written[p] = 0 => buf[p] \in everShared

(* The last save of a player that stays connected reaches the server. *)
SavesReachServer ==
  \A p \in Writers \ MayLeave :
    (written[p] = MaxWrites /\ copied[p] = ChunkCount)
      ~> (\E i \in Chunks : sharedSave[i] = <<p, MaxWrites>>)

(* When nobody has anything left to upload, what the server keeps is one   *)
(* save of one game, not the head of one and the tail of another.          *)
SettledSave ==
  (\A p \in Players : UploadIdle(p)) /\ ~committing
    => \E img \in Images : sharedSave = Whole(img)
=============================================================================
