----------------------------- MODULE Connection -----------------------------
(***************************************************************************)
(* A game and its connection: the title menu of the game thread, the nerve *)
(* of NetClient on the network thread, the ENet host and peer that both    *)
(* use under mClientCS, and the upload thread, which sends through them.   *)
(*                                                                         *)
(* connect and disconnect only set a nerve.  Its function runs with the    *)
(* next step of the network thread, one step every 48 ms; the thread may   *)
(* have begun another one just before.  isConnected asks which nerve was   *)
(* set last.  The menu's animations are left out.                          *)
(***************************************************************************)
EXTENDS Integers

CONSTANTS
  Chunks,     \* of a save
  MaxLosses,  \* bound: lost connections
  MaxFailures \* bound: connects that make no host or find no peer

ASSUME ConnectionAssumption ==
  /\ Chunks \in Nat \ {0}
  /\ MaxLosses \in Nat
  /\ MaxFailures \in Nat

VARIABLES
  nerve,    \* of NetClient
  step,     \* of that nerve: set but not begun, in its first step, or later
  net,      \* the network thread: the function it is in, and where
  lock,     \* mClientCS: which thread has it
  host,     \* mClient: none, or the state of its one connection
  peer,     \* mServerPeer # nullptr
  coming,   \* chunks the server has yet to send, Unasked before ToS_Hello
  acks,     \* getSaveDataAckBuffer
  upload,   \* the upload thread: outside sendPacket, or between its tests and its lock
  menu,     \* the nerve of TopMenuExt; "playing" after the title
  frame,    \* the game thread in the middle of a frame of the menu
  fresh,    \* the menu has not made its first step of DownloadSave
  mode,     \* getSaveDataMode
  nextChar, \* mNextNerveAfterCharSelect
  backChar, \* mNerveBackCharSelect
  intent,   \* history: what the player chose in ModeSelect
  asked,    \* history: connect has been called since the last disconnect
  losses, failures,
  cut,      \* history: a download was cut since the title has appeared
  early,    \* history: chunks arrived before the first step of DownloadSave
  missed,   \* history: exeConnect has dropped a DISCONNECT
  raced,    \* history: disconnect has overtaken a sendPacket between test and lock
  crash     \* history: a null pointer was used: a host that another thread has
            \* destroyed, one that was never made, or the peer

netVars  == <<nerve, step, net, host, peer, coming, acks>>
menuVars == <<menu, frame, fresh, mode, nextChar, backChar, intent, cut>>
histVars == <<asked, losses, failures, early, missed, raced, crash>>
vars == <<netVars, lock, upload, menuVars, histVars>>

Unasked == Chunks + 1

TypeOK ==
  /\ nerve \in {"Stall", "Connect", "Service"}
  /\ step \in {"set", "first", "later"}
  /\ net \in {"sleep", "connect", "connecting", "hello", "helloLock", "service", "serving"}
  /\ lock \in {"free", "net"}
  /\ host \in {"none", "waiting", "answered", "up", "lost"}
  /\ peer \in BOOLEAN
  /\ coming \in 0 .. Unasked
  /\ acks \subseteq 1 .. Chunks
  /\ upload \in {"out", "tested"}
  /\ menu \in {"ModeSelect", "SingleModeTitle", "CharSelect", "FileSelect", "EnterIp",
               "Connect", "DownloadSave", "ConnectEnd", "playing"}
  /\ frame \in {"done", "dropConnect", "tail", "dropDownload", "dropAppear"}
  /\ fresh \in BOOLEAN
  /\ mode \in {"Local", "Server"}
  /\ nextChar \in {"none", "EnterIp", "FileSelect"}
  /\ backChar \in {"none", "ModeSelect", "SingleModeTitle"}
  /\ intent \in {"none", "single", "multi"}
  /\ losses \in 0 .. MaxLosses
  /\ failures \in 0 .. MaxFailures
  /\ asked \in BOOLEAN /\ cut \in BOOLEAN /\ early \in BOOLEAN
  /\ missed \in BOOLEAN /\ raced \in BOOLEAN
  /\ crash \in {"none", "host", "unmade", "peer"}

Init ==
  /\ nerve = "Stall" /\ step = "later" /\ net = "sleep" /\ lock = "free"
  /\ host = "none" /\ peer = FALSE /\ coming = Unasked /\ acks = {} /\ upload = "out"
  /\ menu = "ModeSelect" /\ frame = "done" /\ fresh = FALSE /\ mode = "Local"
  /\ nextChar = "none" /\ backChar = "none" /\ intent = "none"
  /\ losses = 0 /\ failures = 0 /\ crash = "none"
  /\ asked = FALSE /\ cut = FALSE /\ early = FALSE /\ missed = FALSE /\ raced = FALSE

setNerve(n) == nerve' = n /\ step' = "set"

isConnected == nerve = "Service"

(* isFirstStep in exeConnect, and a mutant without the question. *)
EveryStep == TRUE

isFirstStep == step = "first"

(* The condition of checkStall, and a mutant that never stalls. *)
NeverStalls == FALSE

checkStall == host = "none"

(* What sendPacket looks at before it locks. *)
PeerIsConnected == peer /\ host = "up"

(* The end of exeConnect and exeService, and a mutant that keeps the lock. *)
KeepLock == lock' = "net"

Unlock == lock' = "free"

(* The step of a nerve that nobody has changed during it. *)
EndStep == IF step = "first" THEN "later" ELSE step

-----------------------------------------------------------------------------
(* The network thread. *)

(* updateNerve: the function of the nerve is chosen before it runs. *)
Wake ==
  /\ net = "sleep"
  /\ nerve # "Stall"
  /\ step' = IF step = "set" THEN "first" ELSE step
  /\ net' = IF nerve = "Connect" THEN "connect"
            ELSE IF step = "set" THEN "hello" ELSE "service"
  /\ UNCHANGED <<nerve, lock, host, peer, coming, acks, upload, menuVars, histVars>>

(* exeConnect up to checkStall.  That the host is not made is logged, and
   enet_host_connect uses it nevertheless. *)
NoHost ==
  /\ isFirstStep
  /\ failures < MaxFailures
  /\ failures' = failures + 1
  /\ host' = "none" /\ crash' = "unmade"
  /\ lock' = "net" /\ net' = "connecting"
  /\ UNCHANGED <<nerve, step, peer, coming, acks, upload, menuVars, asked, losses, early,
                 missed, raced>>

(* A connect that finds no peer keeps the lock. *)
NoPeer ==
  /\ isFirstStep
  /\ failures < MaxFailures
  /\ failures' = failures + 1
  /\ host' = "waiting" /\ peer' = FALSE
  /\ lock' = "net" /\ net' = "sleep"
  /\ setNerve("Stall")
  /\ UNCHANGED <<coming, acks, upload, menuVars, asked, losses, early, missed,
                 raced, crash>>

StartConnect ==
  /\ isFirstStep
  /\ host' = "waiting" /\ peer' = TRUE /\ coming' = Unasked
  /\ lock' = "net" /\ net' = "connecting"
  /\ UNCHANGED <<nerve, step, acks, upload, menuVars, histVars>>

ContinueConnect ==
  /\ ~isFirstStep
  /\ IF checkStall
     THEN setNerve("Stall") /\ net' = "sleep" /\ Unlock
     ELSE lock' = "net" /\ net' = "connecting" /\ UNCHANGED <<nerve, step>>
  /\ UNCHANGED <<host, peer, coming, acks, upload, menuVars, histVars>>

exeConnect ==
  /\ net = "connect"
  /\ lock = "free"
  /\ NoHost \/ NoPeer \/ StartConnect \/ ContinueConnect

(* The rest of exeConnect.  A DISCONNECT behind the CONNECT is an event like
   any other.  After 300 steps, here after any, it begins again. *)
ServeConnect ==
  /\ net = "connecting"
  /\ net' = "sleep"
  /\ Unlock
  /\ IF host = "none"
     THEN crash' = "host" /\ UNCHANGED <<nerve, step, host, missed>>
     ELSE /\ \/ host = "answered" /\ setNerve("Service") /\ host' = "up" /\ UNCHANGED missed
             \/ /\ host = "answered" /\ losses < MaxLosses
                /\ setNerve("Service") /\ host' = "lost" /\ missed' = TRUE
             \/ /\ host # "answered"
                /\ \/ step' = EndStep /\ UNCHANGED nerve
                   \/ step = "later" /\ setNerve("Connect")
                /\ UNCHANGED <<host, missed>>
          /\ UNCHANGED crash
  /\ UNCHANGED <<peer, coming, acks, upload, menuVars, asked, losses, failures,
                 early, raced>>

(* The first step of exeService sends ToS_Hello, on which the server sends its save. *)
HelloTest ==
  /\ net = "hello"
  /\ net' = IF PeerIsConnected THEN "helloLock" ELSE "service"
  /\ UNCHANGED <<nerve, step, lock, host, peer, coming, acks, upload, menuVars, histVars>>

Hello ==
  /\ net = "helloLock"
  /\ lock = "free"
  /\ net' = "service"
  /\ crash' = IF peer THEN crash ELSE "peer"
  /\ coming' = IF host = "up" THEN Chunks ELSE coming
  /\ UNCHANGED <<nerve, step, lock, host, peer, acks, upload, menuVars, asked, losses,
                 failures, early, missed, raced>>

(* exeService up to its loop: a lock that somebody has is not waited for. *)
exeService ==
  /\ net = "service"
  /\ IF lock # "free"
     THEN net' = "sleep" /\ step' = EndStep /\ UNCHANGED <<nerve, lock>>
     ELSE IF checkStall
     THEN setNerve("Stall") /\ net' = "sleep" /\ Unlock
     ELSE lock' = "net" /\ net' = "serving" /\ UNCHANGED <<nerve, step>>
  /\ UNCHANGED <<host, peer, coming, acks, upload, menuVars, histVars>>

(* uploadSaveThread of the server sends the chunks in order; and a mutant that
   begins one too early. *)
ChunkBefore == Chunks - coming

NextChunk == Chunks - coming + 1

(* The nerve after a DISCONNECT, and a mutant that sets none. *)
NerveUnchanged == nerve

NerveAfterDisconnect == "Connect"

(* Events of exeService.  The one DISCONNECT of a lost connection may have been
   taken by exeConnect. *)
ReceiveChunk ==
  /\ net = "serving" /\ host = "up"
  /\ coming \in 1 .. Chunks
  /\ acks' = acks \cup {NextChunk}
  /\ coming' = coming - 1
  /\ UNCHANGED <<nerve, step, net, lock, host, peer, upload, menuVars, histVars>>

ReceiveDisconnect ==
  /\ net = "serving" /\ host = "lost" /\ ~missed
  /\ setNerve(NerveAfterDisconnect)
  /\ net' = "sleep"
  /\ Unlock
  /\ UNCHANGED <<host, peer, coming, acks, upload, menuVars, histVars>>

EndService ==
  /\ net = "serving"
  /\ host = "lost" => missed
  /\ net' = "sleep" /\ step' = EndStep
  /\ Unlock
  /\ crash' = IF host = "none" THEN "host" ELSE crash
  /\ UNCHANGED <<nerve, host, peer, coming, acks, upload, menuVars, asked, losses,
                 failures, early, missed, raced>>

(* The server accepts the connection; it, or the network, ends it. *)
Answer ==
  /\ host = "waiting" /\ peer
  /\ host' = "answered"
  /\ UNCHANGED <<nerve, step, net, lock, peer, coming, acks, upload, menuVars, histVars>>

Lose ==
  /\ host = "up"
  /\ losses < MaxLosses
  /\ losses' = losses + 1
  /\ host' = "lost" /\ coming' = 0
  /\ UNCHANGED <<nerve, step, net, lock, peer, acks, upload, menuVars, asked, failures,
                 early, missed, raced, crash>>

(* sendPacket of the upload thread. *)
UploadTest ==
  /\ upload = "out" /\ menu = "playing" /\ mode = "Server"
  /\ PeerIsConnected
  /\ upload' = "tested"
  /\ UNCHANGED <<netVars, lock, menuVars, histVars>>

UploadSend ==
  /\ upload = "tested"
  /\ lock = "free"
  /\ upload' = "out"
  /\ crash' = IF peer THEN crash ELSE "peer"
  /\ UNCHANGED <<netVars, lock, menuVars, asked, losses, failures, early, missed, raced>>

-----------------------------------------------------------------------------
(* The menu. *)

(* disconnect, which waits for the lock. *)
disconnect ==
  /\ lock = "free"
  /\ host' = "none" /\ peer' = FALSE /\ coming' = Unasked
  /\ setNerve("Stall")
  /\ asked' = FALSE
  /\ missed' = FALSE
  /\ raced' = (raced \/ upload = "tested" \/ net = "helloLock")
  /\ UNCHANGED <<net, lock, upload, losses, failures, crash>>

(* A step of the menu that leaves the network alone. *)
MenuOnly == frame = "done" /\ UNCHANGED <<netVars, lock, upload, histVars>>

(* exeModeSelect and exeModeSelectOut. *)
ChooseSinglePlayer ==
  /\ MenuOnly /\ menu = "ModeSelect"
  /\ menu' = "SingleModeTitle" /\ backChar' = "SingleModeTitle" /\ intent' = "single"
  /\ UNCHANGED <<frame, fresh, mode, nextChar, cut>>

ChooseMultiPlayer ==
  /\ MenuOnly /\ menu = "ModeSelect"
  /\ menu' = "CharSelect" /\ nextChar' = "EnterIp" /\ backChar' = "ModeSelect"
  /\ intent' = "multi"
  /\ UNCHANGED <<frame, fresh, mode, cut>>

(* onSingleModeTitleLeave. *)
LeaveSingleModeTitle ==
  /\ MenuOnly /\ menu = "SingleModeTitle"
  /\ menu' = "ModeSelect"
  /\ UNCHANGED <<frame, fresh, mode, nextChar, backChar, intent, cut>>

(* setCharSelectNerve, for what the game would go to; and a mutant that forgets it. *)
NextUnchanged == nextChar

NextFromTitle == "FileSelect"

SetCharSelect ==
  /\ MenuOnly /\ menu = "SingleModeTitle"
  /\ menu' = "CharSelect" /\ nextChar' = NextFromTitle
  /\ UNCHANGED <<frame, fresh, mode, backChar, intent, cut>>

(* setCharSelectNerveReturnFromFileSelect. *)
ReturnFromFileSelect ==
  /\ MenuOnly /\ menu = "FileSelect"
  /\ menu' = "CharSelect"
  /\ UNCHANGED <<frame, fresh, mode, nextChar, backChar, intent, cut>>

exeCharSelect ==
  /\ MenuOnly /\ menu = "CharSelect"
  /\ menu' \in {nextChar, backChar}
  /\ UNCHANGED <<frame, fresh, mode, nextChar, backChar, intent, cut>>

(* The scene of the title starts a game from a file, but only in Local mode. *)
PlayFile ==
  /\ MenuOnly /\ menu = "FileSelect"
  /\ mode = "Local"
  /\ menu' = "playing"
  /\ UNCHANGED <<frame, fresh, mode, nextChar, backChar, intent, cut>>

(* enterIpCallback.  To type an address takes the player longer than one step
   of the network thread. *)
CloseKeyboard ==
  /\ MenuOnly /\ menu = "EnterIp"
  /\ menu' = "ModeSelect"
  /\ UNCHANGED <<frame, fresh, mode, nextChar, backChar, intent, cut>>

Connect ==
  /\ frame = "done" /\ menu = "EnterIp"
  /\ net = "sleep"
  /\ setNerve("Connect")
  /\ asked' = TRUE
  /\ menu' = "Connect"
  /\ UNCHANGED <<net, host, peer, coming, acks, lock, upload, frame, fresh, mode, nextChar,
                 backChar, intent, cut, losses, failures, early, missed, raced, crash>>

(* exeConnect of the menu: B, disconnect, and the rest of the same frame. *)
PressB ==
  /\ frame = "done" /\ menu = "Connect"
  /\ ~isConnected
  /\ frame' = "dropConnect"
  /\ UNCHANGED <<netVars, lock, upload, menu, fresh, mode, nextChar, backChar,
                 intent, cut, histVars>>

DropConnect ==
  /\ frame = "dropConnect"
  /\ disconnect
  /\ menu' = "ModeSelect" /\ frame' = "tail"
  /\ UNCHANGED <<acks, early, fresh, mode, nextChar, backChar, intent, cut>>

ConnectTail ==
  /\ frame = "tail" \/ (frame = "done" /\ menu = "Connect")
  /\ frame' = "done"
  /\ IF isConnected
     THEN mode' = "Server" /\ menu' = "DownloadSave" /\ fresh' = TRUE
     ELSE UNCHANGED <<mode, menu, fresh>>
  /\ UNCHANGED <<netVars, lock, upload, nextChar, backChar, intent, cut, histVars>>

(* exeDownloadSave.  Its first step forgets what has arrived. *)
ResetBuffer ==
  /\ menu = "DownloadSave" /\ fresh
  /\ fresh' = FALSE
  /\ acks' = {}
  /\ early' = (early \/ (acks # {} /\ coming < Chunks /\ host = "up"))
  /\ UNCHANGED <<nerve, step, net, host, peer, coming, lock, upload, menu, frame, mode,
                 nextChar, backChar, intent, cut, asked, losses, failures, missed,
                 raced, crash>>

SeeConnectionLost ==
  /\ frame = "done" /\ menu = "DownloadSave" /\ ~fresh
  /\ ~isConnected
  /\ frame' = "dropDownload"
  /\ UNCHANGED <<netVars, lock, upload, menu, fresh, mode, nextChar, backChar,
                 intent, cut, histVars>>

DropDownload ==
  /\ frame = "dropDownload"
  /\ disconnect
  /\ acks' = {}
  /\ menu' = "ModeSelect" /\ frame' = "done"
  /\ cut' = TRUE
  /\ UNCHANGED <<early, fresh, mode, nextChar, backChar, intent>>

FinishDownload ==
  /\ MenuOnly /\ menu = "DownloadSave" /\ ~fresh
  /\ isConnected
  /\ acks = 1 .. Chunks
  /\ menu' = "ConnectEnd"
  /\ UNCHANGED <<frame, fresh, mode, nextChar, backChar, intent, cut>>

(* singleModeTitleHook and exeLoadNetworkSave. *)
LoadNetworkSave ==
  /\ MenuOnly /\ menu = "ConnectEnd"
  /\ mode = "Server"
  /\ menu' = "playing"
  /\ UNCHANGED <<frame, fresh, mode, nextChar, backChar, intent, cut>>

(* appearHook, when the player goes back to the title; and a mutant that keeps
   the mode. *)
ModeUnchanged == mode

ModeOfTitle == "Local"

Appear ==
  /\ frame = "done" /\ menu = "playing"
  /\ frame' = "dropAppear"
  /\ mode' = ModeOfTitle
  /\ UNCHANGED <<netVars, lock, upload, menu, fresh, nextChar, backChar,
                 intent, cut, histVars>>

DropAppear ==
  /\ frame = "dropAppear"
  /\ disconnect
  /\ menu' = "ModeSelect" /\ frame' = "done"
  /\ cut' = FALSE
  /\ UNCHANGED <<acks, early, fresh, mode, nextChar, backChar, intent>>

-----------------------------------------------------------------------------
NetStep ==
  \/ Wake \/ exeConnect \/ ServeConnect \/ HelloTest \/ Hello \/ exeService
  \/ ReceiveChunk \/ ReceiveDisconnect \/ EndService

Choice ==
  \/ ChooseSinglePlayer \/ ChooseMultiPlayer \/ LeaveSingleModeTitle \/ SetCharSelect
  \/ ReturnFromFileSelect \/ exeCharSelect \/ PlayFile \/ CloseKeyboard \/ Connect
  \/ PressB \/ Appear

Drop == DropConnect \/ DropDownload \/ DropAppear

Frame ==
  \/ ConnectTail \/ ResetBuffer \/ SeeConnectionLost \/ FinishDownload \/ LoadNetworkSave

(* A null pointer ends the program. *)
Next ==
  /\ crash = "none"
  /\ NetStep \/ Answer \/ Lose \/ UploadTest \/ UploadSend \/ Choice \/ Drop \/ Frame

(* Both threads keep running; who waits for the lock gets it, for the network
   thread sleeps without it; the server answers, and what it sends arrives. *)
Fairness ==
  /\ WF_vars(crash = "none" /\ NetStep)
  /\ WF_vars(crash = "none" /\ Frame)
  /\ SF_vars(crash = "none" /\ Drop)
  /\ SF_vars(crash = "none" /\ ReceiveChunk)

Spec == Init /\ [][Next]_vars
FairSpec == Spec /\ Fairness

-----------------------------------------------------------------------------
(* What the player has cancelled stays cancelled: after a disconnect there is
   no host, and no nerve that would make one, until the player asks again,
   whatever step the network thread was in (NetClient.cpp:56-74, 137-191). *)
CancelSticks == ~asked => nerve = "Stall" /\ host = "none" /\ ~peer

(* To connect, serve and send no thread uses a null pointer: not the host that
   another has destroyed, for the network thread looks again after it has the lock
   (NetClient.cpp:178, 214), and the peer only if a disconnect comes between the
   test of sendPacket and its lock; a reconnect in between does no harm
   (NetClient.cpp:78-93).  The exception is a host that could not be made: that is
   logged, and it is used (NetClient.cpp:160-169). *)
NoNullPointer == crash \in {"none", "unmade"} \/ (crash = "peer" /\ raced)

(* Whoever has mClientCS is on the way to release it, unless exeConnect has
   found no peer (NetClient.cpp:170). *)
LockComesBack == lock = "net" => net \in {"connecting", "serving"} \/ failures > 0

(* A title that waits for a single-player file can start it, unless a download
   was cut since it appeared: that leaves the mode at Server, in which the
   scene only waits for the network (TopMenuSceneMod.cpp:281, 474). *)
SinglePlayerStarts == menu = "FileSelect" /\ frame = "done" => mode = "Local" \/ cut

(* CharSelect goes where the player came from and on to what the player chose,
   for all the ways back and forth (TopMenuSceneMod.cpp:162-209, 430-447). *)
MenuKeepsCourse ==
  menu = "CharSelect" =>
    IF intent = "single" THEN nextChar = "FileSelect" /\ backChar = "SingleModeTitle"
    ELSE nextChar = "EnterIp" /\ backChar = "ModeSelect"

(* A download ends, with the save or with the menu, unless a chunk came before
   the menu's first step, a DISCONNECT before exeService, or the lock is lost. *)
DownloadEnds ==
  menu = "DownloadSave" ~>
    (menu # "DownloadSave" \/ early \/ missed \/ failures > 0 \/ crash # "none")
==============================================================================
