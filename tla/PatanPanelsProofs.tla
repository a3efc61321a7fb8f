------------------------- MODULE PatanPanelsProofs --------------------------
(***************************************************************************)
(* The chain of panels, of any length of at least two and with any         *)
(* starters: its type, and that the folding never meets the unfolding.     *)
(*                                                                         *)
(* The invariant says where the chain is: at rest, unfolding at one panel  *)
(* or folding at one panel, with the state of all panels before and after. *)
(***************************************************************************)
EXTENDS PatanPanels, TLAPS

Opening == {"OpenStart", "Open", "StartNext"}

(* The nerve of a panel that is open; the last one has no next to start. *)
Opened(i) == IF i = Panels THEN "StartNext" ELSE "StartedNext"

Resting == ~isOn /\ \A i \in Chain : ~alive[i]

UnfoldingAt(k) ==
  /\ isOn
  /\ alive[k] /\ nerve[k] \in Opening /\ (nerve[k] = "StartNext" => solid[k])
  /\ \A i \in Chain :
       /\ i < k => alive[i] /\ solid[i] /\ nerve[i] = "StartedNext"
       /\ i > k => ~alive[i]

FoldingAt(k) ==
  /\ isOn
  /\ alive[k] /\ nerve[k] \in Closing /\ nerve[1] \in Closing
  /\ \A i \in Chain :
       /\ i < k => ~alive[i]
       /\ i > k => alive[i] /\ solid[i] /\ nerve[i] = Opened(i)

IInv ==
  /\ TypeOK
  /\ ~restarts
  /\ Resting \/ \E k \in Chain : UnfoldingAt(k) \/ FoldingAt(k)

-----------------------------------------------------------------------------
(* The chain begins at rest (PatanPanel.cpp:96-119). *)
LEMMA InitIInv == Init => IInv
BY PanelsAssumption DEF Init, IInv, TypeOK, Resting, Chain, Closing

(* Every step keeps the types: each writes nerves and flags of panels it
   knows, or the nerves of starters. *)
LEMMA TypeStep == TypeOK /\ [Next]_vars => TypeOK'
<1> SUFFICES ASSUME TypeOK, [Next]_vars PROVE TypeOK'
    OBVIOUS
<1> USE PanelsAssumption DEF TypeOK, Chain, Closing
<1>1. ASSUME NEW s \in Starters, receiveMsg(s) PROVE TypeOK'
      BY <1>1 DEF receiveMsg
<1>2. ASSUME NEW s \in Starters, exeToOn(s) PROVE TypeOK'
  <2>1. 1 \in Chain
        OBVIOUS
  <2>2. /\ nerve' \in
             [Chain -> {"OpenStart", "Open", "StartNext", "StartedNext"} \cup Closing]
        /\ alive' \in [Chain -> BOOLEAN]
        /\ solid' \in [Chain -> BOOLEAN]
        BY <1>2, <2>1 DEF exeToOn, start
  <2>3. starter' \in [Starters -> {"OffWait", "ToOn", "OnWait", "ToOff"}]
        BY <1>2 DEF exeToOn
  <2>4. isOn' \in BOOLEAN
        BY <1>2 DEF exeToOn
  <2>5. restarts' \in BOOLEAN
        BY <1>2, Zenon DEF exeToOn
  <2> QED BY <2>2, <2>3, <2>4, <2>5
<1>3. ASSUME NEW s \in Starters, exeToOff(s) PROVE TypeOK'
      BY <1>3 DEF exeToOff
<1>4. ASSUME NEW i \in Chain, ExecutePanel(i) PROVE TypeOK'
  <2>1. CASE exeOpenStart(i) BY <2>1 DEF exeOpenStart
  <2>2. CASE exeOpen(i) BY <2>2 DEF exeOpen
  <2>3. CASE StartNext(i) BY <2>3 DEF StartNext
  <2>4. CASE exeCloseSign(i) BY <2>4 DEF exeCloseSign
  <2>5. CASE exeCloseFace(i) BY <2>5 DEF exeCloseFace
  <2>6. CASE exeClose(i) BY <2>6 DEF exeClose
  <2> QED BY <1>4, <2>1, <2>2, <2>3, <2>4, <2>5, <2>6 DEF ExecutePanel
<1>5. CASE StartClose BY <1>5 DEF StartClose
<1>6. CASE CloseLast
  <2>1. starter' \in [Starters -> {"OffWait", "ToOn", "OnWait", "ToOff"}]
        BY <1>6 DEF CloseLast, CloseStarters
  <2>2. alive' \in [Chain -> BOOLEAN] /\ isOn' \in BOOLEAN
        BY <1>6 DEF CloseLast, tryOffStageSwitch
  <2> QED BY <1>6, <2>1, <2>2 DEF CloseLast
<1>7. CASE UNCHANGED vars BY <1>7 DEF vars
<1> QED BY <1>1, <1>2, <1>3, <1>4, <1>5, <1>6, <1>7
        DEF Next, ExecuteStarter, ExecuteLast

-----------------------------------------------------------------------------
(* The chain stays where it is, or comes to rest, while no panel changes. *)
LEMMA StartersStep ==
  ASSUME IInv, UNCHANGED <<nerve, alive, solid, isOn, restarts>>
  PROVE  /\ ~restarts'
         /\ Resting' \/ \E k \in Chain : UnfoldingAt(k)' \/ FoldingAt(k)'
BY DEF IInv, Resting, UnfoldingAt, FoldingAt, Chain

(* A starter finds the chain at rest or the switch on
   (PatanPanelStarter.cpp:55-66, PatanPanel.cpp:201-219). *)
LEMMA StartStep ==
  ASSUME IInv, NEW s \in Starters, exeToOn(s)
  PROVE  /\ ~restarts'
         /\ Resting' \/ \E k \in Chain : UnfoldingAt(k)' \/ FoldingAt(k)'
<1>0. /\ 1 \in Chain /\ alive \in [Chain -> BOOLEAN]
      /\ nerve \in
             [Chain -> {"OpenStart", "Open", "StartNext", "StartedNext"} \cup Closing]
      BY PanelsAssumption DEF IInv, TypeOK, Chain, Closing
<1>1. CASE isOn
  <2>1. UNCHANGED <<nerve, alive, solid, isOn>>
        BY <1>1, Zenon DEF exeToOn
  <2>2. ~restarts'
        BY <1>1 DEF exeToOn, IInv
  <2> QED BY <1>1, <2>1, <2>2 DEF IInv, Resting, UnfoldingAt, FoldingAt, Chain
<1>2. CASE ~isOn
  <2>1. Resting
        BY <1>2 DEF IInv, UnfoldingAt, FoldingAt
  <2>2. ~restarts'
        BY <2>1 DEF exeToOn, IInv, Resting
  <2>3. UnfoldingAt(1)'
        BY <1>0, <1>2, <2>1 DEF exeToOn, start, Resting, UnfoldingAt, Opening, Chain
  <2> QED BY <1>0, <2>2, <2>3
<1> QED BY <1>1, <1>2

(* A panel that does a step of its own is the one where the chain unfolds or
   folds, and the place moves to the next panel with StartNext and exeClose
   (PatanPanel.cpp:121-192). *)
LEMMA PanelStep ==
  ASSUME IInv, NEW i \in Chain, ExecutePanel(i)
  PROVE  /\ ~restarts'
         /\ \E k \in Chain : UnfoldingAt(k)' \/ FoldingAt(k)'
<1> USE PanelsAssumption DEF Chain
<1>0. /\ alive \in [Chain -> BOOLEAN] /\ solid \in [Chain -> BOOLEAN]
      /\ nerve \in
             [Chain -> {"OpenStart", "Open", "StartNext", "StartedNext"} \cup Closing]
      BY DEF IInv, TypeOK
<1>1. ~restarts' /\ isOn' = isOn /\ alive[i]
      BY DEF IInv, ExecutePanel, exeOpenStart, exeOpen, StartNext, exeCloseSign,
             exeCloseFace, exeClose
<1>2. PICK k \in Chain : UnfoldingAt(k) \/ FoldingAt(k)
      BY <1>1 DEF IInv, Resting
<1>3. CASE UnfoldingAt(k)
  <2> USE <1>3 DEF UnfoldingAt, Opening
  <2>1. CASE exeOpenStart(i)
    <3>1. i = k BY <2>1 DEF exeOpenStart
    <3> QED BY <1>0, <1>1, <2>1, <3>1 DEF exeOpenStart
  <2>2. CASE exeOpen(i)
    <3>1. i = k BY <2>2 DEF exeOpen
    <3> QED BY <1>0, <1>1, <2>2, <3>1 DEF exeOpen
  <2>3. CASE StartNext(i)
    <3>1. i = k /\ k + 1 \in Chain BY <2>3 DEF StartNext
    <3>2. UnfoldingAt(k + 1)' BY <1>0, <1>1, <2>3, <3>1 DEF StartNext
    <3> QED BY <1>1, <3>1, <3>2
  <2>4. CASE exeCloseSign(i) \/ exeCloseFace(i) \/ exeClose(i)
        BY <1>1, <2>4 DEF exeCloseSign, exeCloseFace, exeClose
  <2> QED BY <2>1, <2>2, <2>3, <2>4 DEF ExecutePanel
<1>4. CASE FoldingAt(k)
  <2> USE <1>4 DEF FoldingAt, Closing, Opened
  <2>1. CASE exeCloseSign(i)
    <3>1. i = k BY <2>1 DEF exeCloseSign
    <3> QED BY <1>0, <1>1, <2>1, <3>1 DEF exeCloseSign
  <2>2. CASE exeCloseFace(i)
    <3>1. i = k BY <2>2 DEF exeCloseFace
    <3> QED BY <1>0, <1>1, <2>2, <3>1 DEF exeCloseFace
  <2>3. CASE exeClose(i)
    <3>1. i = k /\ k + 1 \in Chain BY <2>3 DEF exeClose
    <3>2. FoldingAt(k + 1)' BY <1>0, <1>1, <2>3, <3>1 DEF exeClose
    <3> QED BY <1>1, <3>1, <3>2
  <2>4. CASE exeOpenStart(i) \/ exeOpen(i) \/ StartNext(i)
        BY <1>1, <2>4 DEF exeOpenStart, exeOpen, StartNext
  <2> QED BY <2>1, <2>2, <2>3, <2>4 DEF ExecutePanel
<1> QED BY <1>2, <1>3, <1>4

(* The last panel starts the folding when the whole chain is open
   (PatanPanel.cpp:145-151). *)
LEMMA FoldStep ==
  ASSUME IInv, StartClose
  PROVE  ~restarts' /\ FoldingAt(1)'
<1> USE PanelsAssumption DEF Chain
<1>0. nerve \in
             [Chain -> {"OpenStart", "Open", "StartNext", "StartedNext"} \cup Closing]
      BY DEF IInv, TypeOK
<1>1. PICK k \in Chain : UnfoldingAt(k)
      BY DEF IInv, StartClose, Resting, FoldingAt
<1>2. k = Panels
      BY <1>1 DEF StartClose, UnfoldingAt
<1> QED BY <1>0, <1>1, <1>2 DEF IInv, StartClose, UnfoldingAt, FoldingAt, Closing, Opened

(* With the last panel the chain is at rest (PatanPanel.cpp:193-198). *)
LEMMA LastStep ==
  ASSUME IInv, CloseLast
  PROVE  ~restarts' /\ Resting'
<1> USE PanelsAssumption DEF Chain
<1>0. alive \in [Chain -> BOOLEAN]
      BY DEF IInv, TypeOK
<1>1. PICK k \in Chain : FoldingAt(k)
      BY DEF IInv, CloseLast, Resting, UnfoldingAt, Opening
<1>2. k = Panels
      BY <1>1 DEF CloseLast, FoldingAt, Opened
<1> QED BY <1>0, <1>1, <1>2 DEF IInv, CloseLast, tryOffStageSwitch, FoldingAt, Resting

LEMMA NextIInv == IInv /\ [Next]_vars => IInv'
<1> SUFFICES ASSUME IInv, [Next]_vars PROVE IInv'
    OBVIOUS
<1>0. TypeOK'
      BY TypeStep DEF IInv
<1>1. ASSUME NEW s \in Starters, receiveMsg(s) PROVE IInv'
  <2>1. UNCHANGED <<nerve, alive, solid, isOn, restarts>> BY <1>1 DEF receiveMsg
  <2> QED BY <1>0, <2>1, StartersStep DEF IInv
<1>2. ASSUME NEW s \in Starters, exeToOn(s) PROVE IInv'
      BY <1>0, <1>2, StartStep DEF IInv
<1>3. ASSUME NEW s \in Starters, exeToOff(s) PROVE IInv'
  <2>1. UNCHANGED <<nerve, alive, solid, isOn, restarts>> BY <1>3 DEF exeToOff
  <2> QED BY <1>0, <2>1, StartersStep DEF IInv
<1>4. ASSUME NEW i \in Chain, ExecutePanel(i) PROVE IInv'
      BY <1>0, <1>4, PanelStep DEF IInv
<1>5. CASE StartClose
  <2>1. 1 \in Chain BY PanelsAssumption DEF Chain
  <2> QED BY <1>0, <1>5, <2>1, FoldStep DEF IInv
<1>6. CASE CloseLast
      BY <1>0, <1>6, LastStep DEF IInv
<1>7. CASE UNCHANGED vars
  <2>1. UNCHANGED <<nerve, alive, solid, isOn, restarts>> BY <1>7 DEF vars
  <2> QED BY <1>0, <2>1, StartersStep DEF IInv
<1> QED BY <1>1, <1>2, <1>3, <1>4, <1>5, <1>6, <1>7
        DEF Next, ExecuteStarter, ExecuteLast

-----------------------------------------------------------------------------
(* Every variable of the chain keeps its type, whatever its length
   (PatanPanel.cpp, PatanPanelStarter.cpp). *)
THEOREM TypeCorrect == Spec => []TypeOK
<1>1. IInv => TypeOK
      BY DEF IInv
<1> QED BY InitIInv, NextIInv, <1>1, PTL DEF Spec

(* The folding never meets the unfolding, in a chain of any length and with
   any number of starters (PatanPanel.cpp:141-199). *)
THEOREM Folds == Spec => []FoldsFromTheFirst
<1>1. IInv => FoldsFromTheFirst
  <2> SUFFICES ASSUME IInv, NEW i \in Chain, alive[i], nerve[i] \in Closing
               PROVE  /\ \A j \in 1 .. i - 1 : ~alive[j]
                      /\ \A j \in i + 1 .. Panels : alive[j] /\ solid[j]
      BY DEF FoldsFromTheFirst, IInv
  <2>1. PICK k \in Chain : UnfoldingAt(k) \/ FoldingAt(k)
        BY DEF IInv, Resting
  <2>2. FoldingAt(k)
        BY <2>1 DEF UnfoldingAt, Opening, Closing, Chain
  <2>3. i = k
        BY <2>2, PanelsAssumption DEF FoldingAt, Closing, Opened, Chain
  <2> QED BY <2>2, <2>3, PanelsAssumption DEF FoldingAt, Chain
<1> QED BY InitIInv, NextIInv, <1>1, PTL DEF Spec
==============================================================================
