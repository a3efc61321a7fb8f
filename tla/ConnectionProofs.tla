-------------------------- MODULE ConnectionProofs --------------------------
(***************************************************************************)
(* Proofs about one game: its menu and its connection, for every number of *)
(* chunks and every bound of its faults, and what the games that follow a  *)
(* host's disaster mode hear, for any number of players.                   *)
(***************************************************************************)
EXTENDS MCClient, SequenceTheorems, TLAPS

(* A nerve begins only if it is one that is executed; disconnect and a failed
   connect set Stall, which is not. *)
StallInv == nerve = "Stall" => step # "first"

(* Between taking the lock and releasing it the network thread has a host, unless
   none could be made. *)
HostInv ==
  net \in {"connecting", "serving"} =>
    lock = "net" /\ (host = "none" => crash = "unmade")

(* A lock that the network thread has left behind. *)
LockLost == lock = "net" /\ net \notin {"connecting", "serving"}

(* Who has tested the peer and finds none behind the lock was overtaken by a
   disconnect, or will never get the lock. *)
PeerInv ==
  /\ net = "helloLock" /\ ~peer => raced
  /\ upload = "tested" /\ ~peer => raced \/ LockLost

(* Between the two halves of a frame the menu stays where it is. *)
FrameInv ==
  /\ frame = "dropConnect" => menu = "Connect"
  /\ frame = "dropAppear" => menu = "playing" /\ mode = "Local"

(* A mode of Server that no cut download has left is that of a game on its way. *)
ModeInv == mode = "Server" => cut \/ menu \in {"DownloadSave", "ConnectEnd", "playing"}

(* The title and the choice of a file belong to a single player's way. *)
WayInv ==
  /\ menu = "SingleModeTitle" => intent = "single" /\ backChar = "SingleModeTitle"
  /\ menu = "FileSelect" =>
       intent = "single" /\ nextChar = "FileSelect" /\ backChar = "SingleModeTitle"

NetInv == StallInv /\ CancelSticks /\ HostInv /\ PeerInv /\ NoNullPointer /\ LockComesBack

MenuInv == FrameInv /\ ModeInv /\ WayInv /\ MenuKeepsCourse

IInv == TypeOK /\ NetInv /\ MenuInv

-----------------------------------------------------------------------------
(* The steps of Next that are neither the network thread's nor the menu's. *)
Outside == Answer \/ Lose \/ UploadTest \/ UploadSend

(* The initial state satisfies the invariant. *)
LEMMA InitInv == Init => IInv
<1> SUFFICES ASSUME Init PROVE IInv
  OBVIOUS
<1>1. TypeOK
  <2>1. peer \in BOOLEAN /\ fresh \in BOOLEAN /\ asked \in BOOLEAN /\ cut \in BOOLEAN
        /\ early \in BOOLEAN /\ missed \in BOOLEAN /\ raced \in BOOLEAN
    BY DEF Init
  <2>2. /\ coming \in 0 .. Unasked /\ acks \subseteq 1 .. Chunks
        /\ losses \in 0 .. MaxLosses /\ failures \in 0 .. MaxFailures
    BY ConnectionAssumption DEF Init, Unasked
  <2> QED BY <2>1, <2>2 DEF Init, TypeOK
<1>2. NetInv
  BY DEF Init, NetInv, StallInv, CancelSticks, HostInv, PeerInv, NoNullPointer,
         LockComesBack
<1>3. MenuInv
  BY DEF Init, MenuInv, FrameInv, ModeInv, WayInv, MenuKeepsCourse
<1> QED BY <1>1, <1>2, <1>3 DEF IInv

(* A step of the network thread keeps the types. *)
LEMMA NetStepType ==
  ASSUME IInv, NetStep
  PROVE  TypeOK'
<1> USE DEF netVars, menuVars, histVars
<1>1. CASE Wake
  <2>1. step' \in {"set", "first", "later"} /\ net' \in {"connect", "hello", "service"}
    BY <1>1 DEF IInv, TypeOK, Wake
  <2> QED BY <1>1, <2>1 DEF IInv, TypeOK, Unasked, Wake
<1>2. CASE exeConnect
  <2> USE ConnectionAssumption DEF IInv, TypeOK, Unasked
  <2>1. net' \in {"sleep", "connecting"}
    BY <1>2 DEF exeConnect, NoHost, NoPeer, StartConnect, ContinueConnect
  <2>2. CASE NoPeer
    <3>1. failures' \in 0 .. MaxFailures
      BY <2>2 DEF NoPeer
    <3>2. peer' \in BOOLEAN
      BY <2>2 DEF NoPeer
    <3> QED BY <2>1, <2>2, <3>1, <3>2 DEF NoPeer, setNerve
  <2>3. CASE StartConnect
    BY <2>1, <2>3 DEF StartConnect
  <2>4. CASE ContinueConnect
    BY <2>1, <2>4 DEF ContinueConnect, checkStall, setNerve, Unlock
  <2>5. CASE NoHost
    <3>1. failures' \in 0 .. MaxFailures
      BY <2>5 DEF NoHost
    <3>2. crash' \in {"none", "host", "unmade", "peer"}
      BY <2>5 DEF NoHost
    <3> QED BY <2>1, <2>5, <3>1, <3>2 DEF NoHost
  <2> QED BY <1>2, <2>2, <2>3, <2>4, <2>5 DEF exeConnect
<1>3. CASE ServeConnect
  <2>1. missed' \in BOOLEAN
    BY <1>3 DEF IInv, TypeOK, ServeConnect
  <2>2. /\ nerve' \in {"Stall", "Connect", "Service"} /\ step' \in {"set", "first", "later"}
        /\ host' \in {"none", "waiting", "answered", "up", "lost"}
        /\ crash' \in {"none", "host", "unmade", "peer"}
    BY <1>3 DEF IInv, TypeOK, ServeConnect, setNerve, EndStep
  <2>3. net' = "sleep" /\ lock' = "free"
    BY <1>3 DEF ServeConnect, Unlock
  <2>4. UNCHANGED <<peer, coming, acks, upload, menuVars, asked, losses, failures, early,
                    raced>>
    BY <1>3 DEF ServeConnect
  <2> QED BY <2>1, <2>2, <2>3, <2>4 DEF IInv, TypeOK, Unasked
<1>4. CASE HelloTest
  BY <1>4, ConnectionAssumption
  DEF IInv, TypeOK, Unasked, HelloTest, PeerIsConnected
<1>5. CASE Hello
  BY <1>5, ConnectionAssumption
  DEF IInv, TypeOK, Unasked, Hello
<1>6. CASE exeService
  BY <1>6, ConnectionAssumption
  DEF IInv, TypeOK, Unasked, exeService, checkStall, setNerve, EndStep,
      Unlock
<1>7. CASE ReceiveChunk
  BY <1>7, ConnectionAssumption
  DEF IInv, TypeOK, Unasked, ReceiveChunk, NextChunk
<1>8. CASE ReceiveDisconnect
  BY <1>8, ConnectionAssumption
  DEF IInv, TypeOK, Unasked, ReceiveDisconnect, NerveAfterDisconnect,
      setNerve, Unlock
<1>9. CASE EndService
  BY <1>9, ConnectionAssumption
  DEF IInv, TypeOK, Unasked, EndService, EndStep, Unlock
<1> QED BY <1>1, <1>2, <1>3, <1>4, <1>5, <1>6, <1>7, <1>8, <1>9 DEF NetStep

(* A step of the network thread keeps what the network thread relies on. *)
LEMMA NetStepNet ==
  ASSUME IInv, crash = "none", NetStep
  PROVE  NetInv'
<1> USE DEF netVars, menuVars, histVars
<1>1. CASE Wake
  BY <1>1, ConnectionAssumption
  DEF IInv, TypeOK, NetInv, StallInv, CancelSticks, HostInv, PeerInv,
      LockLost, NoNullPointer, LockComesBack, Wake
<1>2. CASE exeConnect
  <2> USE ConnectionAssumption
      DEF IInv, TypeOK, NetInv, StallInv, CancelSticks, HostInv, PeerInv, LockLost,
          NoNullPointer, LockComesBack
  <2>1. net = "connect" /\ lock = "free"
    BY <1>2 DEF exeConnect
  <2>2. CASE NoHost
    BY <2>1, <2>2 DEF NoHost, isFirstStep
  <2>3. CASE NoPeer
    BY <2>1, <2>3 DEF NoPeer, isFirstStep, setNerve
  <2>4. CASE StartConnect
    BY <2>1, <2>4 DEF StartConnect, isFirstStep
  <2>5. CASE ContinueConnect
    BY <2>1, <2>5 DEF ContinueConnect, isFirstStep, checkStall, setNerve, Unlock
  <2> QED BY <1>2, <2>2, <2>3, <2>4, <2>5 DEF exeConnect
<1>3. CASE ServeConnect
  BY <1>3, ConnectionAssumption
  DEF IInv, TypeOK, NetInv, StallInv, CancelSticks, HostInv, PeerInv,
      LockLost, NoNullPointer, LockComesBack, ServeConnect, setNerve,
      EndStep, Unlock
<1>4. CASE HelloTest
  BY <1>4, ConnectionAssumption
  DEF IInv, TypeOK, NetInv, StallInv, CancelSticks, HostInv, PeerInv,
      LockLost, NoNullPointer, LockComesBack, HelloTest, PeerIsConnected
<1>5. CASE Hello
  BY <1>5, ConnectionAssumption
  DEF IInv, TypeOK, NetInv, StallInv, CancelSticks, HostInv, PeerInv,
      LockLost, NoNullPointer, LockComesBack, Hello
<1>6. CASE exeService
  BY <1>6, ConnectionAssumption
  DEF IInv, TypeOK, NetInv, StallInv, CancelSticks, HostInv, PeerInv,
      LockLost, NoNullPointer, LockComesBack, exeService, checkStall,
      setNerve, EndStep, Unlock
<1>7. CASE ReceiveChunk
  BY <1>7, ConnectionAssumption
  DEF IInv, TypeOK, NetInv, StallInv, CancelSticks, HostInv, PeerInv,
      LockLost, NoNullPointer, LockComesBack, ReceiveChunk, NextChunk
<1>8. CASE ReceiveDisconnect
  BY <1>8, ConnectionAssumption
  DEF IInv, TypeOK, NetInv, StallInv, CancelSticks, HostInv, PeerInv,
      LockLost, NoNullPointer, LockComesBack, ReceiveDisconnect,
      NerveAfterDisconnect, setNerve, Unlock
<1>9. CASE EndService
  BY <1>9, ConnectionAssumption
  DEF IInv, TypeOK, NetInv, StallInv, CancelSticks, HostInv, PeerInv,
      LockLost, NoNullPointer, LockComesBack, EndService, EndStep, Unlock
<1> QED BY <1>1, <1>2, <1>3, <1>4, <1>5, <1>6, <1>7, <1>8, <1>9 DEF NetStep

(* A step of the network thread leaves the menu alone. *)
LEMMA NetStepMenu ==
  ASSUME IInv, NetStep
  PROVE  MenuInv'
<1>1. UNCHANGED menuVars
  BY DEF NetStep,
         Wake, exeConnect, NoHost, NoPeer, StartConnect, ContinueConnect,
         ServeConnect, HelloTest, Hello, exeService, ReceiveChunk,
         ReceiveDisconnect, EndService, menuVars, histVars
<1> QED BY <1>1
  DEF IInv, MenuInv, FrameInv, ModeInv, WayInv, MenuKeepsCourse, menuVars

(* A step of the server, of the network or of the upload thread keeps the types. *)
LEMMA OutsideType ==
  ASSUME IInv, Outside
  PROVE  TypeOK'
<1> USE DEF netVars, menuVars, histVars
<1>1. CASE Answer
  BY <1>1, ConnectionAssumption
  DEF IInv, TypeOK, Unasked, Answer
<1>2. CASE Lose
  BY <1>2, ConnectionAssumption
  DEF IInv, TypeOK, Unasked, Lose
<1>3. CASE UploadTest
  BY <1>3, ConnectionAssumption
  DEF IInv, TypeOK, Unasked, UploadTest, PeerIsConnected
<1>4. CASE UploadSend
  BY <1>4, ConnectionAssumption
  DEF IInv, TypeOK, Unasked, UploadSend
<1> QED BY <1>1, <1>2, <1>3, <1>4 DEF Outside

(* A step of the server, of the network or of the upload thread keeps what the
   network thread relies on. *)
LEMMA OutsideNet ==
  ASSUME IInv, crash = "none", Outside
  PROVE  NetInv'
<1> USE DEF netVars, menuVars, histVars
<1>1. CASE Answer
  BY <1>1, ConnectionAssumption
  DEF IInv, TypeOK, NetInv, StallInv, CancelSticks, HostInv, PeerInv,
      LockLost, NoNullPointer, LockComesBack, Answer
<1>2. CASE Lose
  BY <1>2, ConnectionAssumption
  DEF IInv, TypeOK, NetInv, StallInv, CancelSticks, HostInv, PeerInv,
      LockLost, NoNullPointer, LockComesBack, Lose
<1>3. CASE UploadTest
  BY <1>3, ConnectionAssumption
  DEF IInv, TypeOK, NetInv, StallInv, CancelSticks, HostInv, PeerInv,
      LockLost, NoNullPointer, LockComesBack, UploadTest, PeerIsConnected
<1>4. CASE UploadSend
  BY <1>4, ConnectionAssumption
  DEF IInv, TypeOK, NetInv, StallInv, CancelSticks, HostInv, PeerInv,
      LockLost, NoNullPointer, LockComesBack, UploadSend
<1> QED BY <1>1, <1>2, <1>3, <1>4 DEF Outside

(* A step of the server, of the network or of the upload thread leaves the menu alone. *)
LEMMA OutsideMenu ==
  ASSUME IInv, Outside
  PROVE  MenuInv'
<1>1. UNCHANGED menuVars
  BY DEF Outside,
         Answer, Lose, UploadTest, UploadSend, menuVars, histVars
<1> QED BY <1>1
  DEF IInv, MenuInv, FrameInv, ModeInv, WayInv, MenuKeepsCourse, menuVars

(* A choice of the player keeps the types. *)
LEMMA ChoiceType ==
  ASSUME IInv, Choice
  PROVE  TypeOK'
<1> USE DEF netVars, menuVars, histVars
<1>1. CASE ChooseSinglePlayer
  BY <1>1, ConnectionAssumption
  DEF IInv, TypeOK, Unasked, MenuInv, MenuKeepsCourse, MenuOnly,
      ChooseSinglePlayer
<1>2. CASE ChooseMultiPlayer
  BY <1>2, ConnectionAssumption
  DEF IInv, TypeOK, Unasked, MenuInv, MenuKeepsCourse, MenuOnly,
      ChooseMultiPlayer
<1>3. CASE LeaveSingleModeTitle
  BY <1>3, ConnectionAssumption
  DEF IInv, TypeOK, Unasked, MenuInv, MenuKeepsCourse, MenuOnly,
      LeaveSingleModeTitle
<1>4. CASE SetCharSelect
  BY <1>4, ConnectionAssumption
  DEF IInv, TypeOK, Unasked, MenuInv, MenuKeepsCourse, MenuOnly,
      SetCharSelect, NextFromTitle
<1>5. CASE ReturnFromFileSelect
  BY <1>5, ConnectionAssumption
  DEF IInv, TypeOK, Unasked, MenuInv, MenuKeepsCourse, MenuOnly,
      ReturnFromFileSelect
<1>6. CASE exeCharSelect
  BY <1>6, ConnectionAssumption
  DEF IInv, TypeOK, Unasked, MenuInv, MenuKeepsCourse, MenuOnly,
      exeCharSelect
<1>7. CASE PlayFile
  BY <1>7, ConnectionAssumption
  DEF IInv, TypeOK, Unasked, MenuInv, MenuKeepsCourse, MenuOnly, PlayFile
<1>8. CASE CloseKeyboard
  BY <1>8, ConnectionAssumption
  DEF IInv, TypeOK, Unasked, MenuInv, MenuKeepsCourse, MenuOnly,
      CloseKeyboard
<1>9. CASE Connect
  BY <1>9, ConnectionAssumption
  DEF IInv, TypeOK, Unasked, MenuInv, MenuKeepsCourse, Connect, setNerve
<1>10. CASE PressB
  BY <1>10, ConnectionAssumption
  DEF IInv, TypeOK, Unasked, MenuInv, MenuKeepsCourse, PressB, isConnected
<1>11. CASE Appear
  BY <1>11, ConnectionAssumption
  DEF IInv, TypeOK, Unasked, MenuInv, MenuKeepsCourse, Appear, ModeOfTitle
<1> QED BY <1>1, <1>2, <1>3, <1>4, <1>5, <1>6, <1>7, <1>8, <1>9, <1>10, <1>11 DEF Choice

(* A choice of the player keeps what the network thread relies on. *)
LEMMA ChoiceNet ==
  ASSUME IInv, crash = "none", Choice
  PROVE  NetInv'
<1> USE DEF netVars, menuVars, histVars
<1>1. CASE ChooseSinglePlayer
  BY <1>1, ConnectionAssumption
  DEF IInv, TypeOK, NetInv, StallInv, CancelSticks, HostInv, PeerInv,
      LockLost, NoNullPointer, LockComesBack, MenuOnly, ChooseSinglePlayer
<1>2. CASE ChooseMultiPlayer
  BY <1>2, ConnectionAssumption
  DEF IInv, TypeOK, NetInv, StallInv, CancelSticks, HostInv, PeerInv,
      LockLost, NoNullPointer, LockComesBack, MenuOnly, ChooseMultiPlayer
<1>3. CASE LeaveSingleModeTitle
  BY <1>3, ConnectionAssumption
  DEF IInv, TypeOK, NetInv, StallInv, CancelSticks, HostInv, PeerInv,
      LockLost, NoNullPointer, LockComesBack, MenuOnly, LeaveSingleModeTitle
<1>4. CASE SetCharSelect
  BY <1>4, ConnectionAssumption
  DEF IInv, TypeOK, NetInv, StallInv, CancelSticks, HostInv, PeerInv,
      LockLost, NoNullPointer, LockComesBack, MenuOnly, SetCharSelect,
      NextFromTitle
<1>5. CASE ReturnFromFileSelect
  BY <1>5, ConnectionAssumption
  DEF IInv, TypeOK, NetInv, StallInv, CancelSticks, HostInv, PeerInv,
      LockLost, NoNullPointer, LockComesBack, MenuOnly, ReturnFromFileSelect
<1>6. CASE exeCharSelect
  BY <1>6, ConnectionAssumption
  DEF IInv, TypeOK, NetInv, StallInv, CancelSticks, HostInv, PeerInv,
      LockLost, NoNullPointer, LockComesBack, MenuOnly, exeCharSelect
<1>7. CASE PlayFile
  BY <1>7, ConnectionAssumption
  DEF IInv, TypeOK, NetInv, StallInv, CancelSticks, HostInv, PeerInv,
      LockLost, NoNullPointer, LockComesBack, MenuOnly, PlayFile
<1>8. CASE CloseKeyboard
  BY <1>8, ConnectionAssumption
  DEF IInv, TypeOK, NetInv, StallInv, CancelSticks, HostInv, PeerInv,
      LockLost, NoNullPointer, LockComesBack, MenuOnly, CloseKeyboard
<1>9. CASE Connect
  BY <1>9, ConnectionAssumption
  DEF IInv, TypeOK, NetInv, StallInv, CancelSticks, HostInv, PeerInv,
      LockLost, NoNullPointer, LockComesBack, Connect, setNerve
<1>10. CASE PressB
  BY <1>10, ConnectionAssumption
  DEF IInv, TypeOK, NetInv, StallInv, CancelSticks, HostInv, PeerInv,
      LockLost, NoNullPointer, LockComesBack, PressB, isConnected
<1>11. CASE Appear
  BY <1>11, ConnectionAssumption
  DEF IInv, TypeOK, NetInv, StallInv, CancelSticks, HostInv, PeerInv,
      LockLost, NoNullPointer, LockComesBack, Appear, ModeOfTitle
<1> QED BY <1>1, <1>2, <1>3, <1>4, <1>5, <1>6, <1>7, <1>8, <1>9, <1>10, <1>11 DEF Choice

(* A choice of the player keeps the menu's ways. *)
LEMMA ChoiceMenu ==
  ASSUME IInv, Choice
  PROVE  MenuInv'
<1> USE DEF netVars, menuVars, histVars
<1>1. CASE ChooseSinglePlayer
  BY <1>1
  DEF IInv, TypeOK, MenuInv, FrameInv, ModeInv, WayInv, MenuKeepsCourse,
      MenuOnly, ChooseSinglePlayer
<1>2. CASE ChooseMultiPlayer
  BY <1>2
  DEF IInv, TypeOK, MenuInv, FrameInv, ModeInv, WayInv, MenuKeepsCourse,
      MenuOnly, ChooseMultiPlayer
<1>3. CASE LeaveSingleModeTitle
  BY <1>3
  DEF IInv, TypeOK, MenuInv, FrameInv, ModeInv, WayInv, MenuKeepsCourse,
      MenuOnly, LeaveSingleModeTitle
<1>4. CASE SetCharSelect
  BY <1>4
  DEF IInv, TypeOK, MenuInv, FrameInv, ModeInv, WayInv, MenuKeepsCourse,
      MenuOnly, SetCharSelect, NextFromTitle
<1>5. CASE ReturnFromFileSelect
  BY <1>5
  DEF IInv, TypeOK, MenuInv, FrameInv, ModeInv, WayInv, MenuKeepsCourse,
      MenuOnly, ReturnFromFileSelect
<1>6. CASE exeCharSelect
  BY <1>6
  DEF IInv, TypeOK, MenuInv, FrameInv, ModeInv, WayInv, MenuKeepsCourse,
      MenuOnly, exeCharSelect
<1>7. CASE PlayFile
  BY <1>7
  DEF IInv, TypeOK, MenuInv, FrameInv, ModeInv, WayInv, MenuKeepsCourse,
      MenuOnly, PlayFile
<1>8. CASE CloseKeyboard
  BY <1>8
  DEF IInv, TypeOK, MenuInv, FrameInv, ModeInv, WayInv, MenuKeepsCourse,
      MenuOnly, CloseKeyboard
<1>9. CASE Connect
  BY <1>9
  DEF IInv, TypeOK, MenuInv, FrameInv, ModeInv, WayInv, MenuKeepsCourse,
      Connect, setNerve
<1>10. CASE PressB
  BY <1>10
  DEF IInv, TypeOK, MenuInv, FrameInv, ModeInv, WayInv, MenuKeepsCourse,
      PressB, isConnected
<1>11. CASE Appear
  BY <1>11
  DEF IInv, TypeOK, MenuInv, FrameInv, ModeInv, WayInv, MenuKeepsCourse,
      Appear, ModeOfTitle
<1> QED BY <1>1, <1>2, <1>3, <1>4, <1>5, <1>6, <1>7, <1>8, <1>9, <1>10, <1>11 DEF Choice

(* disconnect keeps the types of what it changes. *)
LEMMA DisconnectType ==
  ASSUME TypeOK, disconnect
  PROVE  /\ nerve' = "Stall" /\ step' = "set" /\ host' = "none"
         /\ coming' \in 0 .. Unasked
         /\ peer' \in BOOLEAN /\ asked' \in BOOLEAN /\ missed' \in BOOLEAN
         /\ raced' \in BOOLEAN
         /\ UNCHANGED <<net, lock, upload, losses, failures, crash>>
<1>1. coming' \in 0 .. Unasked
  BY ConnectionAssumption DEF disconnect, Unasked
<1>2. peer' \in BOOLEAN /\ asked' \in BOOLEAN /\ missed' \in BOOLEAN /\ raced' \in BOOLEAN
  BY DEF disconnect
<1> QED BY <1>1, <1>2 DEF disconnect, setNerve

(* A disconnect of the menu keeps the types. *)
LEMMA DropType ==
  ASSUME IInv, Drop
  PROVE  TypeOK'
<1> USE DEF netVars, menuVars, histVars
<1>1. CASE DropConnect
  <2>1. disconnect
    BY <1>1 DEF DropConnect
  <2> QED BY <1>1, <2>1, DisconnectType DEF IInv, TypeOK, DropConnect
<1>2. CASE DropDownload
  <2>1. disconnect
    BY <1>2 DEF DropDownload
  <2> QED BY <1>2, <2>1, DisconnectType DEF IInv, TypeOK, DropDownload
<1>3. CASE DropAppear
  <2>1. disconnect
    BY <1>3 DEF DropAppear
  <2> QED BY <1>3, <2>1, DisconnectType DEF IInv, TypeOK, DropAppear
<1> QED BY <1>1, <1>2, <1>3 DEF Drop

(* A disconnect of the menu keeps what the network thread relies on. *)
LEMMA DropNet ==
  ASSUME IInv, crash = "none", Drop
  PROVE  NetInv'
<1> USE DEF netVars, menuVars, histVars
<1>1. CASE DropConnect
  BY <1>1, ConnectionAssumption
  DEF IInv, TypeOK, NetInv, StallInv, CancelSticks, HostInv, PeerInv,
      LockLost, NoNullPointer, LockComesBack, DropConnect, disconnect,
      setNerve
<1>2. CASE DropDownload
  BY <1>2, ConnectionAssumption
  DEF IInv, TypeOK, NetInv, StallInv, CancelSticks, HostInv, PeerInv,
      LockLost, NoNullPointer, LockComesBack, DropDownload, disconnect,
      setNerve
<1>3. CASE DropAppear
  BY <1>3, ConnectionAssumption
  DEF IInv, TypeOK, NetInv, StallInv, CancelSticks, HostInv, PeerInv,
      LockLost, NoNullPointer, LockComesBack, DropAppear, disconnect,
      setNerve
<1> QED BY <1>1, <1>2, <1>3 DEF Drop

(* A disconnect of the menu keeps the menu's ways. *)
LEMMA DropMenu ==
  ASSUME IInv, Drop
  PROVE  MenuInv'
<1> USE DEF netVars, menuVars, histVars
<1>1. CASE DropConnect
  BY <1>1
  DEF IInv, TypeOK, MenuInv, FrameInv, ModeInv, WayInv, MenuKeepsCourse,
      DropConnect, disconnect, setNerve
<1>2. CASE DropDownload
  BY <1>2
  DEF IInv, TypeOK, MenuInv, FrameInv, ModeInv, WayInv, MenuKeepsCourse,
      DropDownload, disconnect, setNerve
<1>3. CASE DropAppear
  BY <1>3
  DEF IInv, TypeOK, MenuInv, FrameInv, ModeInv, WayInv, MenuKeepsCourse,
      DropAppear, disconnect, setNerve
<1> QED BY <1>1, <1>2, <1>3 DEF Drop

(* Another frame of the menu keeps the types. *)
LEMMA FrameType ==
  ASSUME IInv, Frame
  PROVE  TypeOK'
<1> USE DEF netVars, menuVars, histVars
<1>1. CASE ConnectTail
  <2>1. fresh' \in BOOLEAN
    BY <1>1 DEF IInv, TypeOK, ConnectTail
  <2>2. UNCHANGED <<netVars, lock, upload, nextChar, backChar, intent, cut, histVars>>
    BY <1>1 DEF ConnectTail
  <2>3. /\ mode' \in {"Local", "Server"} /\ menu' \in {menu, "DownloadSave"}
        /\ frame' = "done"
    BY <1>1 DEF IInv, TypeOK, ConnectTail
  <2> QED BY <2>1, <2>2, <2>3 DEF IInv, TypeOK, Unasked
<1>2. CASE ResetBuffer
  <2>1. early' \in BOOLEAN
    BY <1>2 DEF IInv, TypeOK, ResetBuffer
  <2>2. acks' \subseteq 1 .. Chunks /\ fresh' \in BOOLEAN
    BY <1>2 DEF ResetBuffer
  <2>3. UNCHANGED <<nerve, step, net, host, peer, coming, lock, upload, menu, frame, mode,
                    nextChar, backChar, intent, cut, asked, losses, failures, missed,
                    raced, crash>>
    BY <1>2 DEF ResetBuffer
  <2> QED BY <2>1, <2>2, <2>3 DEF IInv, TypeOK, Unasked
<1>3. CASE SeeConnectionLost
  BY <1>3, ConnectionAssumption
  DEF IInv, TypeOK, Unasked, SeeConnectionLost, isConnected
<1>4. CASE FinishDownload
  BY <1>4, ConnectionAssumption
  DEF IInv, TypeOK, Unasked, MenuOnly, FinishDownload, isConnected
<1>5. CASE LoadNetworkSave
  BY <1>5, ConnectionAssumption
  DEF IInv, TypeOK, Unasked, MenuOnly, LoadNetworkSave
<1> QED BY <1>1, <1>2, <1>3, <1>4, <1>5 DEF Frame

(* Another frame of the menu keeps what the network thread relies on. *)
LEMMA FrameNet ==
  ASSUME IInv, crash = "none", Frame
  PROVE  NetInv'
<1> USE DEF netVars, menuVars, histVars
<1>1. CASE ConnectTail
  BY <1>1, ConnectionAssumption
  DEF IInv, TypeOK, NetInv, StallInv, CancelSticks, HostInv, PeerInv,
      LockLost, NoNullPointer, LockComesBack, ConnectTail, isConnected
<1>2. CASE ResetBuffer
  BY <1>2, ConnectionAssumption
  DEF IInv, TypeOK, NetInv, StallInv, CancelSticks, HostInv, PeerInv,
      LockLost, NoNullPointer, LockComesBack, ResetBuffer
<1>3. CASE SeeConnectionLost
  BY <1>3, ConnectionAssumption
  DEF IInv, TypeOK, NetInv, StallInv, CancelSticks, HostInv, PeerInv,
      LockLost, NoNullPointer, LockComesBack, SeeConnectionLost, isConnected
<1>4. CASE FinishDownload
  BY <1>4, ConnectionAssumption
  DEF IInv, TypeOK, NetInv, StallInv, CancelSticks, HostInv, PeerInv,
      LockLost, NoNullPointer, LockComesBack, MenuOnly, FinishDownload,
      isConnected
<1>5. CASE LoadNetworkSave
  BY <1>5, ConnectionAssumption
  DEF IInv, TypeOK, NetInv, StallInv, CancelSticks, HostInv, PeerInv,
      LockLost, NoNullPointer, LockComesBack, MenuOnly, LoadNetworkSave
<1> QED BY <1>1, <1>2, <1>3, <1>4, <1>5 DEF Frame

(* Another frame of the menu keeps the menu's ways. *)
LEMMA FrameMenu ==
  ASSUME IInv, Frame
  PROVE  MenuInv'
<1> USE DEF netVars, menuVars, histVars
<1>1. CASE ConnectTail
  BY <1>1
  DEF IInv, TypeOK, MenuInv, FrameInv, ModeInv, WayInv, MenuKeepsCourse,
      ConnectTail, isConnected
<1>2. CASE ResetBuffer
  BY <1>2
  DEF IInv, TypeOK, MenuInv, FrameInv, ModeInv, WayInv, MenuKeepsCourse,
      ResetBuffer
<1>3. CASE SeeConnectionLost
  BY <1>3
  DEF IInv, TypeOK, MenuInv, FrameInv, ModeInv, WayInv, MenuKeepsCourse,
      SeeConnectionLost, isConnected
<1>4. CASE FinishDownload
  BY <1>4
  DEF IInv, TypeOK, MenuInv, FrameInv, ModeInv, WayInv, MenuKeepsCourse,
      MenuOnly, FinishDownload, isConnected
<1>5. CASE LoadNetworkSave
  BY <1>5
  DEF IInv, TypeOK, MenuInv, FrameInv, ModeInv, WayInv, MenuKeepsCourse,
      MenuOnly, LoadNetworkSave
<1> QED BY <1>1, <1>2, <1>3, <1>4, <1>5 DEF Frame

-----------------------------------------------------------------------------
(* Every step keeps the invariant, and so does none. *)
LEMMA StepInv == IInv /\ [Next]_vars => IInv'
<1> SUFFICES ASSUME IInv, [Next]_vars PROVE IInv'
  OBVIOUS
<1>1. CASE Next
  <2>1. CASE NetStep
    BY <1>1, <2>1, NetStepType, NetStepNet, NetStepMenu DEF Next, IInv
  <2>2. CASE Outside
    BY <1>1, <2>2, OutsideType, OutsideNet, OutsideMenu DEF Next, IInv
  <2>3. CASE Choice
    BY <1>1, <2>3, ChoiceType, ChoiceNet, ChoiceMenu DEF Next, IInv
  <2>4. CASE Drop
    BY <1>1, <2>4, DropType, DropNet, DropMenu DEF Next, IInv
  <2>5. CASE Frame
    BY <1>1, <2>5, FrameType, FrameNet, FrameMenu DEF Next, IInv
  <2> QED BY <1>1, <2>1, <2>2, <2>3, <2>4, <2>5 DEF Next, Outside
<1>2. CASE UNCHANGED vars
  BY <1>2 DEF vars, netVars, menuVars, histVars, IInv, TypeOK, Unasked, NetInv, StallInv,
    CancelSticks, HostInv, PeerInv, LockLost, NoNullPointer, LockComesBack, MenuInv,
    FrameInv, ModeInv, WayInv, MenuKeepsCourse
<1> QED BY <1>1, <1>2

(* The inductive invariant holds in every reachable state. *)
LEMMA Inductive == Spec => []IInv
BY InitInv, StepInv, PTL DEF Spec

(* The nerve, the lock, the connection and the menu keep their types, for every
   number of chunks (NetClient.cpp, TopMenuSceneMod.cpp). *)
THEOREM TypeCorrect == Spec => []TypeOK
<1>1. IInv => TypeOK
  BY DEF IInv
<1> QED BY <1>1, Inductive, PTL

(* A connect that was cancelled leaves no host behind and makes none later,
   however the two threads interleave (NetClient.cpp:56-74, 137-191). *)
THEOREM Cancelled == Spec => []CancelSticks
<1>1. IInv => CancelSticks
  BY DEF IInv, NetInv
<1> QED BY <1>1, Inductive, PTL

(* The network thread never uses the host that disconnect has destroyed, and a
   sender uses the peer in vain only if a disconnect has overtaken it between its
   test and the lock (NetClient.cpp:78-93, 178, 214).  What is left is a host that
   enet_host_create did not make (NetClient.cpp:160-169). *)
THEOREM NullPointers == Spec => []NoNullPointer
<1>1. IInv => NoNullPointer
  BY DEF IInv, NetInv
<1> QED BY <1>1, Inductive, PTL

(* mClientCS is lost only to a connect that finds no peer (NetClient.cpp:170). *)
THEOREM LockReleased == Spec => []LockComesBack
<1>1. IInv => LockComesBack
  BY DEF IInv, NetInv
<1> QED BY <1>1, Inductive, PTL

(* A single player's title can start its file unless a download was cut
   (TopMenuSceneMod.cpp:281, 474, 487). *)
THEOREM SinglePlayer == Spec => []SinglePlayerStarts
<1>1. IInv => SinglePlayerStarts
  BY DEF IInv, TypeOK, MenuInv, ModeInv, SinglePlayerStarts
<1> QED BY <1>1, Inductive, PTL

(* The character selection leads back to where the player came from and on to
   what the player chose (TopMenuSceneMod.cpp:162-209, 430-447). *)
THEOREM CourseKept == Spec => []MenuKeepsCourse
<1>1. IInv => MenuKeepsCourse
  BY DEF IInv, MenuInv
<1> QED BY <1>1, Inductive, PTL
-----------------------------------------------------------------------------
(* The disaster mode.  The lists have told every game who the host is, and no other
   game's update is on its way. *)
HostKnown ==
  /\ Disasters!TypeOK
  /\ \A p \in Players : isHost[p] = (p = hostPlayer)
  /\ \A p \in Players : p # hostPlayer => phaseUp[p] = <<>>
  /\ phaseDown[hostPlayer] = <<>>

(* An update of the host is on its way to p. *)
Underway(p) == phaseUp[hostPlayer] # <<>> \/ phaseDown[p] # <<>>

(* The nerve of the last of them, or the one that p has. *)
Told(p) ==
  IF phaseUp[hostPlayer] # <<>> THEN phaseUp[hostPlayer][Len(phaseUp[hostPlayer])].nerve
  ELSE IF phaseDown[p] # <<>> THEN phaseDown[p][Len(phaseDown[p])].nerve
  ELSE phase[p]

(* Every game in the ocean is going to the phase that the host has seen last, and so
   is all that is on its way to the others. *)
InStep ==
  /\ HostKnown
  /\ \A p \in Players :
       p # hostPlayer /\ (stage[p] = "ocean" \/ Underway(p))
         => Told(p) = lastPhase[hostPlayer]

(* All updates have arrived, and the host has seen its phase. *)
AtRest ==
  /\ phase[hostPlayer] = lastPhase[hostPlayer]
  /\ \A p \in Players : ~Underway(p)

(* The host stays; and no other game ends a phase or comes to the ocean by itself,
   unless an update will tell it better. *)
HostStays == Disasters!Next /\ UNCHANGED hostPlayer

HostsStep ==
  /\ HostStays
  /\ \A p \in Players :
       p = hostPlayer \/ Underway(p) \/
       /\ ~Disasters!Advance(p)
       /\ ~Disasters!EnterStage(p, "ocean")

(* The end of a way when an element has left, and when one has come. *)
LEMMA LastStays ==
  ASSUME NEW S, NEW s \in Seq(S), s # <<>>
  PROVE  /\ Tail(s) \in Seq(S) /\ Head(s) \in S
         /\ Tail(s) # <<>> => Tail(s)[Len(Tail(s))] = s[Len(s)]
         /\ Tail(s) = <<>> => Head(s) = s[Len(s)]
<1>1. /\ Head(s) \in S /\ Tail(s) \in Seq(S) /\ Len(Tail(s)) = Len(s) - 1 /\ Head(s) = s[1]
      /\ \A i \in 1 .. Len(Tail(s)) : Tail(s)[i] = s[i + 1]
  BY HeadTailProperties
<1>2. Len(s) \in Nat \ {0}
  BY EmptySeq
<1>3. ASSUME Tail(s) # <<>> PROVE Tail(s)[Len(Tail(s))] = s[Len(s)]
  <2>1. Len(Tail(s)) \in Nat \ {0}
    BY <1>1, <1>3, EmptySeq
  <2>2. Len(Tail(s)) \in 1 .. Len(Tail(s)) /\ Len(Tail(s)) + 1 = Len(s)
    BY <1>1, <1>2, <2>1
  <2> QED BY <1>1, <2>2
<1>4. ASSUME Tail(s) = <<>> PROVE Head(s) = s[Len(s)]
  <2>1. Len(Tail(s)) = 0
    BY <1>4, EmptySeq
  <2>2. Len(s) - 1 = 0
    BY <1>1, <2>1
  <2>3. Len(s) = 1
    BY <1>2, <2>2
  <2> QED BY <1>1, <2>3
<1> QED BY <1>1, <1>3, <1>4

LEMMA LastComes ==
  ASSUME NEW S, NEW s \in Seq(S), NEW e \in S
  PROVE  /\ Append(s, e) \in Seq(S) /\ Append(s, e) # <<>>
         /\ Append(s, e)[Len(Append(s, e))] = e
BY AppendProperties

LEMMA DisastersInit == Disasters!Init => HostKnown
<1> SUFFICES ASSUME Disasters!Init PROVE HostKnown
  OBVIOUS
<1>1. <<>> \in Seq(Disasters!Update)
  BY EmptySeq
<1>2. /\ phaseUp \in [Players -> Seq(Disasters!Update)]
      /\ phaseDown \in [Players -> Seq(Disasters!Update)]
  BY <1>1 DEF Disasters!Init
<1>3. Disasters!TypeOK
  BY <1>2, DisastersAssumption
     DEF Disasters!Init, Disasters!TypeOK, Disasters!Phases, Disasters!Stages
<1> QED BY <1>3 DEF Disasters!Init, HostKnown

LEMMA DisastersType ==
  ASSUME Disasters!TypeOK, [Disasters!Next]_(Disasters!vars)
  PROVE  Disasters!TypeOK'
<1> USE DEF Disasters!ctlVars, Disasters!netVars, Disasters!cntVars
<1>1. CASE UNCHANGED Disasters!vars
  BY <1>1 DEF Disasters!vars, Disasters!TypeOK
<1>2. ASSUME NEW p \in Players, Disasters!Advance(p) PROVE Disasters!TypeOK'
  BY <1>2, DisastersAssumption
     DEF Disasters!Advance, Disasters!TypeOK, Disasters!Phases, Disasters!Following
<1>3. ASSUME NEW p \in Players, Disasters!ChangeHost(p) PROVE Disasters!TypeOK'
  BY <1>3, DisastersAssumption DEF Disasters!ChangeHost, Disasters!TypeOK
<1>4. ASSUME NEW p \in Players, Disasters!LearnHost(p) PROVE Disasters!TypeOK'
  BY <1>4 DEF Disasters!LearnHost, Disasters!TypeOK
<1>5. ASSUME NEW p \in Players, NEW isNew \in BOOLEAN
      PROVE  Disasters!TypeOK => Disasters!Send(p, isNew) \in Seq(Disasters!Update)
  BY LastComes DEF Disasters!TypeOK, Disasters!Send, Disasters!Update
<1>6. ASSUME NEW p \in Players, Disasters!SeeNewNerve(p) PROVE Disasters!TypeOK'
  BY <1>5, <1>6 DEF Disasters!SeeNewNerve, Disasters!TypeOK
<1>7. ASSUME NEW p \in Players, Disasters!Refresh(p) PROVE Disasters!TypeOK'
  BY <1>5, <1>7 DEF Disasters!Refresh, Disasters!TypeOK
<1>8. ASSUME NEW p \in Players, Disasters!Redistribute(p) PROVE Disasters!TypeOK'
  <2>1. /\ phaseUp[p] \in Seq(Disasters!Update) /\ phaseUp[p] # <<>>
        /\ \A q \in Players : phaseDown[q] \in Seq(Disasters!Update)
    BY <1>8 DEF Disasters!Redistribute, Disasters!TypeOK
  <2>2. Tail(phaseUp[p]) \in Seq(Disasters!Update) /\ Head(phaseUp[p]) \in Disasters!Update
    BY <2>1, LastStays
  <2>3. \A q \in Players :
          Append(phaseDown[q], Head(phaseUp[p])) \in Seq(Disasters!Update)
    BY <2>1, <2>2, LastComes
  <2>4. phaseDown' \in [Players -> Seq(Disasters!Update)]
    BY <1>8, <2>1, <2>3 DEF Disasters!Redistribute
  <2>5. phaseUp' \in [Players -> Seq(Disasters!Update)]
    BY <1>8, <2>2 DEF Disasters!Redistribute, Disasters!TypeOK
  <2> QED BY <1>8, <2>4, <2>5 DEF Disasters!Redistribute, Disasters!TypeOK
<1>9. ASSUME NEW p \in Players, Disasters!handleUpdate(p) PROVE Disasters!TypeOK'
  <2>1. phaseDown[p] \in Seq(Disasters!Update) /\ phaseDown[p] # <<>>
    BY <1>9 DEF Disasters!handleUpdate, Disasters!TypeOK
  <2>2. /\ Tail(phaseDown[p]) \in Seq(Disasters!Update)
        /\ Head(phaseDown[p]) \in Disasters!Update
    BY <2>1, LastStays
  <2>3. Disasters!ApplyNerve(p, Head(phaseDown[p])) \in Disasters!Phases
    BY <2>2 DEF Disasters!ApplyNerve, Disasters!TypeOK, Disasters!Update
  <2> QED BY <1>9, <2>2, <2>3 DEF Disasters!handleUpdate, Disasters!TypeOK
<1>10. ASSUME NEW p \in Players, NEW st \in Disasters!Stages, Disasters!EnterStage(p, st)
       PROVE  Disasters!TypeOK'
  BY <1>10, DisastersAssumption
     DEF Disasters!EnterStage, Disasters!TypeOK, Disasters!Phases
<1> QED BY <1>1, <1>2, <1>3, <1>4, <1>6, <1>7, <1>8, <1>9, <1>10 DEF Disasters!Next

(* What the host does is all that is heard. *)
LEMMA KnownStep ==
  ASSUME HostKnown, [HostStays]_(Disasters!vars)
  PROVE  HostKnown'
<1> USE DEF Disasters!ctlVars, Disasters!netVars, Disasters!cntVars
<1>1. Disasters!TypeOK'
  BY DisastersType DEF HostKnown, HostStays
<1>2. CASE UNCHANGED Disasters!vars
  BY <1>1, <1>2 DEF Disasters!vars, HostKnown
<1>3. ASSUME NEW p \in Players, UNCHANGED hostPlayer,
             \/ Disasters!Advance(p)
             \/ \E st \in Disasters!Stages : Disasters!EnterStage(p, st)
      PROVE  HostKnown'
  BY <1>1, <1>3 DEF HostKnown, Disasters!Advance, Disasters!EnterStage
<1>4. ASSUME NEW p \in Players, UNCHANGED hostPlayer,
             Disasters!ChangeHost(p) \/ Disasters!LearnHost(p)
      PROVE  HostKnown'
  BY <1>4 DEF HostKnown, Disasters!ChangeHost, Disasters!LearnHost
<1>5. ASSUME NEW p \in Players, Disasters!SeeNewNerve(p) \/ Disasters!Refresh(p)
      PROVE  HostKnown'
  <2>1. /\ UNCHANGED <<hostPlayer, isHost, phaseDown>>
        /\ \A q \in Players : q # hostPlayer => phaseUp'[q] = phaseUp[q]
    BY <1>5 DEF HostKnown, Disasters!TypeOK, Disasters!SeeNewNerve, Disasters!Refresh
  <2> QED BY <1>1, <2>1 DEF HostKnown, Disasters!TypeOK
<1>6. ASSUME NEW p \in Players, Disasters!Redistribute(p) PROVE HostKnown'
  <2>1. p = hostPlayer
    BY <1>6 DEF HostKnown, Disasters!Redistribute
  <2> QED BY <1>1, <1>6, <2>1 DEF HostKnown, Disasters!TypeOK, Disasters!Redistribute
<1>7. ASSUME NEW p \in Players, Disasters!handleUpdate(p) PROVE HostKnown'
  BY <1>1, <1>7 DEF HostKnown, Disasters!TypeOK, Disasters!handleUpdate
<1> QED BY <1>2, <1>3, <1>4, <1>5, <1>6, <1>7 DEF HostStays, Disasters!Next

(* What the host sends is what it has seen last, and brings all games there. *)
LEMMA HostTells ==
  ASSUME HostKnown, HostKnown',
         Disasters!SeeNewNerve(hostPlayer) \/ Disasters!Refresh(hostPlayer)
  PROVE  InStep'
<1> DEFINE h == hostPlayer
           u(isNew) == [isNewNerve |-> isNew, nerve |-> phase[h]]
<1>1. PICK isNew \in BOOLEAN :
        phaseUp' = [phaseUp EXCEPT ![h] = Append(phaseUp[h], u(isNew))]
  BY DEF HostKnown, Disasters!TypeOK, Disasters!SeeNewNerve, Disasters!Refresh,
     Disasters!Send
<1>2. u(isNew) \in Disasters!Update /\ phaseUp[h] \in Seq(Disasters!Update) /\ h \in Players
  BY DEF HostKnown, Disasters!TypeOK, Disasters!Update
<1>3. /\ phaseUp'[h] = Append(phaseUp[h], u(isNew))
      /\ phaseUp'[h] # <<>> /\ phaseUp'[h][Len(phaseUp'[h])] = u(isNew)
  <2>1. phaseUp'[h] = Append(phaseUp[h], u(isNew))
    BY <1>1, <1>2 DEF HostKnown, Disasters!TypeOK
  <2> HIDE DEF h, u
  <2> QED BY <1>2, <2>1, LastComes
<1>4. hostPlayer' = h /\ lastPhase'[h] = phase[h]
  BY DEF HostKnown, Disasters!TypeOK, Disasters!SeeNewNerve, Disasters!Refresh,
     Disasters!ctlVars
<1> QED BY <1>3, <1>4 DEF InStep, Told, Underway

LEMMA InStepStep ==
  ASSUME InStep, [HostsStep]_(Disasters!vars)
  PROVE  InStep'
<1> USE DEF Disasters!ctlVars, Disasters!netVars, Disasters!cntVars
<1> DEFINE h == hostPlayer
<1>1. HostKnown' /\ hostPlayer \in Players
  BY KnownStep DEF InStep, HostKnown, HostsStep, Disasters!TypeOK
<1>2. CASE UNCHANGED Disasters!vars
  BY <1>1, <1>2 DEF Disasters!vars, InStep, Told, Underway
<1>3. ASSUME HostsStep PROVE hostPlayer' = h /\ HostKnown
  BY <1>3 DEF HostsStep, HostStays, InStep
<1>4. ASSUME HostsStep, NEW p \in Players, Disasters!Advance(p) PROVE InStep'
  <2>1. p = h \/ Underway(p)
    BY <1>4 DEF HostsStep
  <2> QED BY <1>1, <1>3, <1>4, <2>1
          DEF InStep, HostKnown, Disasters!TypeOK, Told, Underway, Disasters!Advance
<1>5. ASSUME HostsStep, NEW p \in Players, NEW st \in Disasters!Stages,
             Disasters!EnterStage(p, st)
      PROVE  InStep'
  <2>1. p = h \/ Underway(p) \/ st # "ocean"
    BY <1>5 DEF HostsStep
  <2>2. CASE p = h
    BY <1>1, <1>3, <1>5, <2>2
       DEF InStep, HostKnown, Disasters!TypeOK, Told, Underway, Disasters!EnterStage
  <2>3. CASE st # "ocean"
    BY <1>1, <1>3, <1>5, <2>3
       DEF InStep, HostKnown, Disasters!TypeOK, Told, Underway, Disasters!EnterStage
  <2>4. CASE Underway(p)
    BY <1>1, <1>3, <1>5, <2>4
       DEF InStep, HostKnown, Disasters!TypeOK, Told, Underway, Disasters!EnterStage
  <2> QED BY <2>1, <2>2, <2>3, <2>4
<1>6. ASSUME HostsStep, NEW p \in Players, Disasters!ChangeHost(p) \/ Disasters!LearnHost(p)
      PROVE  InStep'
  BY <1>3, <1>6 DEF HostKnown, Disasters!ChangeHost, Disasters!LearnHost
<1>7. ASSUME HostsStep, NEW p \in Players, Disasters!SeeNewNerve(p) \/ Disasters!Refresh(p)
      PROVE  InStep'
  <2>1. CASE p = h
    BY <1>1, <1>3, <1>7, <2>1, HostTells
  <2>2. CASE p # h
    <3>1. ~isHost[p] /\ hostPlayer' = h
      BY <1>3, <1>7, <2>2 DEF HostKnown
    <3>2. /\ UNCHANGED <<phase, stage, phaseUp, phaseDown>> /\ lastPhase'[h] = lastPhase[h]
      BY <1>3, <1>7, <2>2, <3>1
         DEF HostKnown, Disasters!TypeOK, Disasters!SeeNewNerve, Disasters!Refresh
    <3> QED BY <1>1, <3>1, <3>2 DEF InStep, Told, Underway
  <2> QED BY <2>1, <2>2
<1>8. ASSUME HostsStep, NEW p \in Players, Disasters!Redistribute(p) PROVE InStep'
  <2>1. p = h
    BY <1>3, <1>8 DEF HostKnown, Disasters!Redistribute
  <2> DEFINE s == phaseUp[h]
  <2>2. s \in Seq(Disasters!Update) /\ s # <<>>
    BY <1>3, <1>8, <2>1 DEF HostKnown, Disasters!TypeOK, Disasters!Redistribute
  <2>3. /\ Tail(s) # <<>> => Tail(s)[Len(Tail(s))] = s[Len(s)]
        /\ Tail(s) = <<>> => Head(s) = s[Len(s)]
        /\ Head(s) \in Disasters!Update
    BY <2>2, LastStays
  <2>4. phaseUp'[h] = Tail(s)
    BY <1>1, <1>3, <1>8, <2>1 DEF HostKnown, Disasters!TypeOK, Disasters!Redistribute
  <2>5. ASSUME NEW q \in Players, q # h, stage'[q] = "ocean" \/ Underway(q)'
        PROVE  Told(q)' = lastPhase'[h]
    <3> DEFINE t == phaseDown[q]
    <3>1. t \in Seq(Disasters!Update) /\ phaseDown'[q] = Append(t, Head(s))
      BY <1>3, <1>8, <2>1, <2>5 DEF HostKnown, Disasters!TypeOK, Disasters!Redistribute
    <3>2. phaseDown'[q] # <<>> /\ phaseDown'[q][Len(phaseDown'[q])] = Head(s)
      BY <2>3, <3>1, LastComes
    <3>3. Told(q) = s[Len(s)].nerve
      BY <2>2 DEF Told
    <3>4. Told(q) = lastPhase[h] /\ UNCHANGED lastPhase
      BY <1>8, <2>2, <2>5 DEF InStep, Underway, Disasters!Redistribute
    <3>5. Told(q)' = s[Len(s)].nerve
      BY <1>3, <1>8, <2>3, <2>4, <3>2 DEF Told
    <3> QED BY <3>3, <3>4, <3>5
  <2> QED BY <1>1, <1>3, <1>8, <2>5 DEF InStep
<1>9. ASSUME HostsStep, NEW p \in Players, Disasters!handleUpdate(p) PROVE InStep'
  <2> DEFINE t == phaseDown[p]
  <2>1. p # h /\ t # <<>> /\ t \in Seq(Disasters!Update)
    BY <1>3, <1>9 DEF HostKnown, Disasters!TypeOK, Disasters!handleUpdate
  <2>2. /\ Tail(t) # <<>> => Tail(t)[Len(Tail(t))] = t[Len(t)]
        /\ Tail(t) = <<>> => Head(t) = t[Len(t)]
    BY <2>1, LastStays
  <2>3. /\ phaseDown'[p] = Tail(t)
        /\ \A q \in Players : q # p => phaseDown'[q] = phaseDown[q]
        /\ stage[p] = "ocean" => phase'[p] = Head(t).nerve
        /\ \A q \in Players : q # p => phase'[q] = phase[q]
        /\ UNCHANGED <<phaseUp, stage, lastPhase>>
    BY <1>3, <1>9
       DEF HostKnown, Disasters!TypeOK, Disasters!handleUpdate, Disasters!ApplyNerve
  <2>4. ASSUME NEW q \in Players, q # h, stage'[q] = "ocean" \/ Underway(q)'
        PROVE  Told(q)' = Told(q) /\ (stage[q] = "ocean" \/ Underway(q))
    <3>1. CASE q # p
      BY <1>3, <1>9, <2>3, <2>4, <3>1 DEF Told, Underway
    <3>2. CASE q = p
      BY <1>3, <1>9, <2>1, <2>2, <2>3, <2>4, <3>2 DEF Told, Underway
    <3> QED BY <3>1, <3>2
  <2> QED BY <1>1, <1>3, <1>9, <2>3, <2>4 DEF InStep
<1> QED BY <1>2, <1>4, <1>5, <1>6, <1>7, <1>8, <1>9 DEF HostsStep, HostStays, Disasters!Next

(* While one game stays the host and every game knows, no other is heard, and each
   update that it sends leads every game in the ocean to its phase, whatever they
   are doing (DisasterSync.cpp:18-81, PlayerData.cpp:177-206). *)
THEOREM HostIsHeard ==
  HostKnown /\ [][HostStays]_(Disasters!vars) =>
    /\ []HostKnown
    /\ [][Disasters!SeeNewNerve(hostPlayer) \/ Disasters!Refresh(hostPlayer)
            => InStep']_(Disasters!vars)
<1>1. HostKnown /\ [HostStays]_(Disasters!vars) => HostKnown'
  BY KnownStep
<1>2. HostKnown /\ HostKnown' =>
        [Disasters!SeeNewNerve(hostPlayer) \/ Disasters!Refresh(hostPlayer)
           => InStep']_(Disasters!vars)
  BY HostTells
<1> QED BY <1>1, <1>2, PTL

(* From such an update on they stay in step with it, and at rest every game in the
   ocean is in the host's phase, as long as no other game ends a phase or comes to
   the ocean with nothing on its way to it (PlayerData.cpp:177-206). *)
THEOREM HostLeads ==
  InStep /\ [][HostsStep]_(Disasters!vars) =>
    [](AtRest => \A p \in Players : stage[p] = "ocean" => phase[p] = phase[hostPlayer])
<1>1. InStep /\ [HostsStep]_(Disasters!vars) => InStep'
  BY InStepStep
<1>2. InStep =>
        (AtRest => \A p \in Players : stage[p] = "ocean" => phase[p] = phase[hostPlayer])
  BY DEF InStep, HostKnown, Disasters!TypeOK, AtRest, Underway, Told
<1> QED BY <1>1, <1>2, PTL

-----------------------------------------------------------------------------
(* The three parts of what the run checks. *)
LEMMA OnePartSteps ==
  ASSUME [MCNext]_allVars
  PROVE  [Next]_vars /\ [Disasters!Next]_(Disasters!vars)
<1> USE DEF disasterVars, Disasters!vars, Disasters!ctlVars, Disasters!netVars,
            Disasters!cntVars
<1>1. CASE UNCHANGED allVars
  BY <1>1 DEF allVars
<1>2. CASE NextMenu
  BY <1>2 DEF NextMenu, OnlyMenu
<1>3. CASE NextChain
  BY <1>3 DEF NextChain, OnlyChain
<1>4. CASE NextDisasters
  BY <1>4 DEF NextDisasters, OnlyDisasters
<1> QED BY <1>1, <1>2, <1>3, <1>4 DEF MCNext

LEMMA MenuPart == MCSpec => Spec
<1>1. MCInit => Init
  BY DEF MCInit
<1>2. [MCNext]_allVars => [Next]_vars
  BY OnePartSteps
<1> QED BY <1>1, <1>2, PTL DEF MCSpec, Spec

(* In the specification that the run checks a game's menu and its connection keep
   what the theorems above say; and as long as the first host stays, every update it
   sends leads the others to its phase (NetClient.cpp, TopMenuSceneMod.cpp,
   DisasterSync.cpp). *)
THEOREM GameComesTogether ==
  /\ MCSpec => [](/\ TypeOK /\ CancelSticks /\ NoNullPointer /\ LockComesBack
                  /\ SinglePlayerStarts)
  /\ MCSpec /\ [][UNCHANGED hostPlayer]_(Disasters!vars) =>
       [][Disasters!SeeNewNerve(hostPlayer) \/ Disasters!Refresh(hostPlayer)
            => InStep']_(Disasters!vars)
<1>1. MCInit => Disasters!Init
  BY DEF MCInit
<1>2. [MCNext]_allVars /\ [UNCHANGED hostPlayer]_(Disasters!vars)
        => [HostStays]_(Disasters!vars)
  BY OnePartSteps DEF HostStays
<1>3. MCSpec /\ [][UNCHANGED hostPlayer]_(Disasters!vars)
        => HostKnown /\ [][HostStays]_(Disasters!vars)
  BY <1>1, <1>2, DisastersInit, PTL DEF MCSpec
<1>4. MCSpec => [](/\ TypeOK /\ CancelSticks /\ NoNullPointer /\ LockComesBack
                   /\ SinglePlayerStarts)
  BY MenuPart, TypeCorrect, Cancelled, NullPointers, LockReleased, SinglePlayer, PTL
<1> QED BY <1>3, <1>4, HostIsHeard, PTL
=============================================================================
