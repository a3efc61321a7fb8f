-------------------------- MODULE PersistenceProofs --------------------------
(***************************************************************************)
(* Proofs about Persistence, for every set of shines, toads, scenarios and *)
(* uploaded saves and every number of crashes and commands.                *)
(***************************************************************************)
EXTENDS Persistence, FiniteSetTheorems, TLAPS

NobodySaves == \A w \in Writers : ~Saving(w)

(* Memory is ahead of the files until the thread that changes it saves: the
   server thread in a handler, the console in reset(). *)
InHandler == at["server"] \in {"push", "copy"}

InReset == at["console"] \in {"clear", "empty", "default"}

Pending == InHandler \/ InReset

(* A stopped server runs no thread, one that loads only its first save, and
   handlers run on the server thread, commands on the console. *)
PhaseInv ==
  /\ phase \in {"down", "broken"} => \A w \in Writers : at[w] = "idle"
  /\ phase = "loading" => at["console"] = "idle" /\ Saving("server")
  /\ at["console"] \notin {"write", "push", "copy"}
  /\ at["server"] \notin {"clear", "empty", "default"}

(* What a handler holds between its steps. *)
ArgInv ==
  /\ at["server"] \in {"write", "push"} => arg \in Shines /\ arg \notin mem.shines
  /\ at["server"] = "copy" => arg \in Saves

(* GameData.bin, once written, never goes away. *)
BinInv ==
  /\ phase = "broken" => bin = "absent"
  /\ ever => bin # "absent"

(* The counter is the number of shines in memory, in the file and in a document
   about to be written; a handler between its steps is one ahead of its list,
   reset() has no counter while it has a list, and a document between its fields
   has the counter that memory has. *)
Matches(d) == d.num = Cardinality(d.shines)

MemoryMatches ==
  /\ at["server"] = "push" => mem.num = Cardinality(mem.shines) + 1
  /\ at["console"] = "clear" => mem.num = 0
  /\ ~Changing("server") /\ ~Changing("console") => Matches(mem)
  /\ at["server"] = "write" => seen = mem.num /\ Matches(mem)

CountInv == ~split =>
  /\ MemoryMatches
  /\ json.kind = "whole" => Matches(json.doc)
  /\ \A w \in Writers :
       /\ Changing(w) => \A v \in Writers \ {w} : ~Between(v)
       /\ at[w] = "rest" => doc[w].num = mem.num
       /\ at[w] \in {"openJson", "writeJson"} => Matches(doc[w])

(* How far a save that no other overlaps has brought the files. *)
Current(d) == d.num = mem.num /\ d.shines = mem.shines

SaveInv == alone =>
  /\ Saving("server") => ~Saving("console")
  /\ \A w \in Writers :
       /\ at[w] = "rest" => (doc[w].num = mem.num \/ Pending)
       /\ at[w] \in {"openJson", "writeJson"} => (Current(doc[w]) \/ Pending)
       /\ at[w] = "writeJson" => json.size = 0
       /\ at[w] \in {"openBin", "writeBin"} =>
            json.kind = "whole" /\ (Current(json.doc) \/ Pending)

(* What the files hold when no save is under way, none has overlapped and none
   was cut short. *)
RestInv == alone /\ ~cut /\ NobodySaves =>
  /\ json.kind # "torn"
  /\ phase = "up" =>
       json.kind = "whole" /\ (Pending \/ (Current(json.doc) /\ bin = mem.shared))

(* Until a save is cut short or overlapped the shared save has content. *)
HarmInv == ~harmed =>
  /\ alone /\ ~cut
  /\ phase \in {"loading", "up"} => mem.shared # None
  /\ NobodySaves /\ json.kind = "whole" => bin # None

IInv ==
  /\ TypeOK /\ PhaseInv /\ ArgInv /\ BinInv
  /\ CountInv /\ SaveInv /\ RestInv /\ HarmInv

-----------------------------------------------------------------------------
(* A set of shines is finite, so its number is one, and one more with a shine
   more. *)
LEMMA ShineCount ==
  ASSUME NEW S \in SUBSET Shines
  PROVE  /\ Cardinality(S) \in Nat
         /\ \A i \in Shines \ S : Cardinality(S \cup {i}) = Cardinality(S) + 1
<1>1. IsFiniteSet(S)
  BY PersistenceAssumption, FS_Subset
<1> QED BY <1>1, FS_CardinalityType, FS_AddElement

LEMMA NoShines == Cardinality({}) = 0
BY FS_EmptySet

(* A document is never shorter than one byte. *)
LEMMA SizeType ==
  ASSUME NEW d \in Documents
  PROVE  Size(d) \in Nat /\ Size(d) > 0
<1>1. Cardinality(d.shines) \in Nat
  BY ShineCount DEF Documents
<1> QED BY <1>1 DEF Size

(* What memory and the documents begin with. *)
LEMMA NewTypes ==
  /\ EmptyDoc \in Documents /\ New \in Progress
  /\ [New EXCEPT !.shared = SharedDefault] \in Progress
BY PersistenceAssumption
   DEF EmptyDoc, Documents, New, SharedDefault, Progress, Contents

(* What a file holds while it is written, and afterwards. *)
LEMMA FileTypes ==
  ASSUME TypeOK
  PROVE  LET Files == [kind : {"absent", "whole", "torn"}, doc : Documents, size : Nat]
         IN  /\ Opened \in Files
             /\ \A d \in Documents : WriteOver(json, d) \in Files
<1>1. \A d \in Documents : Size(d) \in Nat
  BY SizeType
<1>2. json.size \in Nat
  BY DEF TypeOK
<1> QED BY <1>1, <1>2, NewTypes DEF Opened, Whole, Torn, WriteOver

(* The initial state satisfies the invariant. *)
LEMMA InitInv == Init => IInv
<1> SUFFICES ASSUME Init PROVE IInv
  OBVIOUS
<1>1. TypeOK
  <2>1. json \in [kind : {"absent", "whole", "torn"}, doc : Documents, size : Nat]
    BY NewTypes DEF Init, Absent
  <2>2. at \in [Writers -> Steps] /\ doc \in [Writers -> Documents]
    BY NewTypes DEF Init, Steps
  <2>3. crashes \in 0 .. MaxCrashes /\ commands \in 0 .. MaxCommands
    BY PersistenceAssumption DEF Init
  <2>4. /\ phase \in {"down", "loading", "up", "broken"} /\ mem \in Progress
        /\ bin \in Contents \cup {"absent"}
    BY NewTypes DEF Init
  <2>5. arg \in Shines \cup Saves \cup {None} /\ seen \in Int
    BY DEF Init
  <2>6. alone = TRUE /\ cut = FALSE /\ harmed = FALSE /\ ever = FALSE /\ split = FALSE
    BY DEF Init
  <2>7. {alone, cut, harmed, ever, split} \subseteq BOOLEAN
    BY <2>6
  <2> QED BY <2>1, <2>2, <2>3, <2>4, <2>5, <2>7 DEF TypeOK
<1>2. CountInv
  BY NoShines DEF Init, CountInv, MemoryMatches, Matches, Changing, Absent, New, Writers
<1>3. PhaseInv /\ ArgInv /\ BinInv
  BY DEF Init, PhaseInv, ArgInv, BinInv, Writers
<1>4. SaveInv /\ RestInv /\ HarmInv
  BY DEF Init, SaveInv, RestInv, HarmInv, Absent, Writers, Saving
<1> QED BY <1>1, <1>2, <1>3, <1>4 DEF IInv

-----------------------------------------------------------------------------
(* Every step keeps each part of the invariant, whichever action it is of. *)

(* Threads run only on a server that is up. *)
LEMMA PhaseStep ==
  ASSUME IInv, [Next]_vars
  PROVE  PhaseInv'
<1> USE DEF PhaseInv, Saving, Steps, Writers, TypeOK, IInv, histVars, fileVars, handlerVars
<1>1. ASSUME NEW i \in Shines, TakeShine(i) PROVE PhaseInv'
  BY <1>1 DEF TakeShine, Free, Goto
<1>2. CASE WriteCount
  BY <1>2 DEF WriteCount, Goto
<1>3. CASE PushShine
  BY <1>3 DEF PushShine, BeginSave, Goto
<1>4. ASSUME NEW i \in Shines, RepeatShine(i) PROVE PhaseInv'
  BY <1>4 DEF RepeatShine, Free, BeginSave, Goto
<1>5. ASSUME NEW t \in Toads, UnlockToad(t) PROVE PhaseInv'
  BY <1>5 DEF UnlockToad, Free, BeginSave, Goto
<1>6. ASSUME NEW s \in Scenarios, ChangeScenario(s) PROVE PhaseInv'
  BY <1>6 DEF ChangeScenario, Free
<1>7. ASSUME NEW s \in Saves, ReceiveSave(s) PROVE PhaseInv'
  BY <1>7 DEF ReceiveSave, Free, Goto
<1>8. CASE CopySave
  BY <1>8 DEF CopySave, Copied, BeginSave, Goto
<1>9. CASE SaveCommand
  BY <1>9 DEF SaveCommand, Operator, Free, BeginSave, Goto
<1>10. ASSUME NEW a \in Amounts, SetShines(a) PROVE PhaseInv'
  BY <1>10 DEF SetShines, Operator, Free, BeginSave, Goto
<1>11. CASE ResetCount
  BY <1>11 DEF ResetCount, CounterReset, Operator, Free, Goto
<1>12. CASE ClearList
  BY <1>12 DEF ClearList, Goto
<1>13. CASE ClearOthers
  BY <1>13 DEF ClearOthers, Goto
<1>14. CASE LoadDefault
  BY <1>14 DEF LoadDefault, Copied, SharedDefault, BeginSave, Goto
<1>15. ASSUME NEW w \in Writers, SaveNum(w) PROVE PhaseInv'
  BY <1>15 DEF SaveNum, Goto, EmptyDoc
<1>16. ASSUME NEW w \in Writers, SaveRest(w) PROVE PhaseInv'
  BY <1>16 DEF SaveRest, Goto, SavedToads
<1>17. ASSUME NEW w \in Writers, OpenJson(w) PROVE PhaseInv'
  BY <1>17 DEF OpenJson, Goto, Opened, Torn
<1>18. ASSUME NEW w \in Writers, WriteJson(w) PROVE PhaseInv'
  BY <1>18 DEF WriteJson, Goto
<1>19. ASSUME NEW w \in Writers, OpenBin(w) PROVE PhaseInv'
  BY <1>19 DEF OpenBin, Goto
<1>20. ASSUME NEW w \in Writers, WriteBin(w) PROVE PhaseInv'
  BY <1>20 DEF WriteBin, Goto, Written, SharedDefault
<1>21. CASE Crash
  BY <1>21 DEF Crash
<1>22. CASE LoadNothing
  BY <1>22 DEF LoadNothing, BeginSave, Goto, SharedDefault, New
<1>23. CASE LoadTorn
  BY <1>23 DEF LoadTorn, AfterParseError
<1>24. CASE LoadWhole
  BY <1>24 DEF LoadWhole
<1>25. CASE UNCHANGED vars
  BY <1>25 DEF vars, fileVars, handlerVars, histVars
<1> QED BY <1>1, <1>2, <1>3, <1>4, <1>5, <1>6, <1>7, <1>8, <1>9, <1>10, <1>11, <1>12,
    <1>13, <1>14, <1>15, <1>16, <1>17, <1>18, <1>19, <1>20, <1>21, <1>22, <1>23,
    <1>24, <1>25
    DEF Next, Handler, Command, SaveStep

(* A handler keeps what it was given. *)
LEMMA ArgStep ==
  ASSUME IInv, [Next]_vars
  PROVE  ArgInv'
<1> USE DEF ArgInv, PhaseInv, Writers, TypeOK, IInv, histVars, fileVars, handlerVars
<1>1. ASSUME NEW i \in Shines, TakeShine(i) PROVE ArgInv'
  BY <1>1 DEF TakeShine, Free, Goto
<1>2. CASE WriteCount
  BY <1>2 DEF WriteCount, Goto
<1>3. CASE PushShine
  BY <1>3 DEF PushShine, BeginSave, Goto
<1>4. ASSUME NEW i \in Shines, RepeatShine(i) PROVE ArgInv'
  BY <1>4 DEF RepeatShine, Free, BeginSave, Goto
<1>5. ASSUME NEW t \in Toads, UnlockToad(t) PROVE ArgInv'
  BY <1>5 DEF UnlockToad, Free, BeginSave, Goto
<1>6. ASSUME NEW s \in Scenarios, ChangeScenario(s) PROVE ArgInv'
  BY <1>6 DEF ChangeScenario, Free
<1>7. ASSUME NEW s \in Saves, ReceiveSave(s) PROVE ArgInv'
  BY <1>7 DEF ReceiveSave, Free, Goto
<1>8. CASE CopySave
  BY <1>8 DEF CopySave, Copied, BeginSave, Goto
<1>9. CASE SaveCommand
  BY <1>9 DEF SaveCommand, Operator, Free, BeginSave, Goto
<1>10. ASSUME NEW a \in Amounts, SetShines(a) PROVE ArgInv'
  BY <1>10 DEF SetShines, Operator, Free, BeginSave, Goto
<1>11. CASE ResetCount
  BY <1>11 DEF ResetCount, CounterReset, Operator, Free, Goto
<1>12. CASE ClearList
  BY <1>12 DEF ClearList, Goto
<1>13. CASE ClearOthers
  BY <1>13 DEF ClearOthers, Goto
<1>14. CASE LoadDefault
  BY <1>14 DEF LoadDefault, Copied, SharedDefault, BeginSave, Goto
<1>15. ASSUME NEW w \in Writers, SaveNum(w) PROVE ArgInv'
  BY <1>15 DEF SaveNum, Goto, EmptyDoc
<1>16. ASSUME NEW w \in Writers, SaveRest(w) PROVE ArgInv'
  BY <1>16 DEF SaveRest, Goto, SavedToads
<1>17. ASSUME NEW w \in Writers, OpenJson(w) PROVE ArgInv'
  BY <1>17 DEF OpenJson, Goto, Opened, Torn
<1>18. ASSUME NEW w \in Writers, WriteJson(w) PROVE ArgInv'
  BY <1>18 DEF WriteJson, Goto
<1>19. ASSUME NEW w \in Writers, OpenBin(w) PROVE ArgInv'
  BY <1>19 DEF OpenBin, Goto
<1>20. ASSUME NEW w \in Writers, WriteBin(w) PROVE ArgInv'
  BY <1>20 DEF WriteBin, Goto, Written, SharedDefault
<1>21. CASE Crash
  BY <1>21 DEF Crash
<1>22. CASE LoadNothing
  BY <1>22 DEF LoadNothing, BeginSave, Goto, SharedDefault, New
<1>23. CASE LoadTorn
  BY <1>23 DEF LoadTorn, AfterParseError
<1>24. CASE LoadWhole
  BY <1>24 DEF LoadWhole
<1>25. CASE UNCHANGED vars
  BY <1>25 DEF vars, fileVars, handlerVars, histVars
<1> QED BY <1>1, <1>2, <1>3, <1>4, <1>5, <1>6, <1>7, <1>8, <1>9, <1>10, <1>11, <1>12,
    <1>13, <1>14, <1>15, <1>16, <1>17, <1>18, <1>19, <1>20, <1>21, <1>22, <1>23,
    <1>24, <1>25
    DEF Next, Handler, Command, SaveStep

(* A file, once there, stays. *)
LEMMA BinStep ==
  ASSUME IInv, [Next]_vars
  PROVE  BinInv'
<1> USE DEF BinInv, Saving, Writers, Contents, TypeOK, IInv, PhaseInv, ArgInv, Progress,
    histVars, fileVars, handlerVars
<1>1. ASSUME NEW i \in Shines, TakeShine(i) PROVE BinInv'
  BY <1>1, PersistenceAssumption DEF TakeShine, Free, Goto
<1>2. CASE WriteCount
  BY <1>2, PersistenceAssumption DEF WriteCount, Goto
<1>3. CASE PushShine
  BY <1>3, PersistenceAssumption DEF PushShine, BeginSave, Goto
<1>4. ASSUME NEW i \in Shines, RepeatShine(i) PROVE BinInv'
  BY <1>4, PersistenceAssumption DEF RepeatShine, Free, BeginSave, Goto
<1>5. ASSUME NEW t \in Toads, UnlockToad(t) PROVE BinInv'
  BY <1>5, PersistenceAssumption DEF UnlockToad, Free, BeginSave, Goto
<1>6. ASSUME NEW s \in Scenarios, ChangeScenario(s) PROVE BinInv'
  BY <1>6, PersistenceAssumption DEF ChangeScenario, Free
<1>7. ASSUME NEW s \in Saves, ReceiveSave(s) PROVE BinInv'
  BY <1>7, PersistenceAssumption DEF ReceiveSave, Free, Goto
<1>8. CASE CopySave
  BY <1>8, PersistenceAssumption DEF CopySave, Copied, BeginSave, Goto
<1>9. CASE SaveCommand
  BY <1>9, PersistenceAssumption DEF SaveCommand, Operator, Free, BeginSave, Goto
<1>10. ASSUME NEW a \in Amounts, SetShines(a) PROVE BinInv'
  BY <1>10, PersistenceAssumption DEF SetShines, Operator, Free, BeginSave, Goto
<1>11. CASE ResetCount
  BY <1>11, PersistenceAssumption DEF ResetCount, CounterReset, Operator, Free, Goto
<1>12. CASE ClearList
  BY <1>12, PersistenceAssumption DEF ClearList, Goto
<1>13. CASE ClearOthers
  BY <1>13, PersistenceAssumption DEF ClearOthers, Goto
<1>14. CASE LoadDefault
  BY <1>14, PersistenceAssumption DEF LoadDefault, Copied, SharedDefault, BeginSave, Goto
<1>15. ASSUME NEW w \in Writers, SaveNum(w) PROVE BinInv'
  BY <1>15, PersistenceAssumption DEF SaveNum, Goto, EmptyDoc
<1>16. ASSUME NEW w \in Writers, SaveRest(w) PROVE BinInv'
  BY <1>16, PersistenceAssumption DEF SaveRest, Goto, SavedToads
<1>17. ASSUME NEW w \in Writers, OpenJson(w) PROVE BinInv'
  BY <1>17, PersistenceAssumption DEF OpenJson, Goto, Opened, Torn
<1>18. ASSUME NEW w \in Writers, WriteJson(w) PROVE BinInv'
  BY <1>18, PersistenceAssumption DEF WriteJson, Goto
<1>19. ASSUME NEW w \in Writers, OpenBin(w) PROVE BinInv'
  BY <1>19, PersistenceAssumption DEF OpenBin, Goto
<1>20. ASSUME NEW w \in Writers, WriteBin(w) PROVE BinInv'
  BY <1>20, PersistenceAssumption DEF WriteBin, Goto, Written, SharedDefault
<1>21. CASE Crash
  BY <1>21, PersistenceAssumption DEF Crash
<1>22. CASE LoadNothing
  BY <1>22, PersistenceAssumption DEF LoadNothing, BeginSave, Goto, SharedDefault, New
<1>23. CASE LoadTorn
  BY <1>23, PersistenceAssumption DEF LoadTorn, AfterParseError
<1>24. CASE LoadWhole
  BY <1>24, PersistenceAssumption DEF LoadWhole
<1>25. CASE UNCHANGED vars
  BY <1>25 DEF vars, fileVars, handlerVars, histVars
<1> QED BY <1>1, <1>2, <1>3, <1>4, <1>5, <1>6, <1>7, <1>8, <1>9, <1>10, <1>11, <1>12,
    <1>13, <1>14, <1>15, <1>16, <1>17, <1>18, <1>19, <1>20, <1>21, <1>22, <1>23,
    <1>24, <1>25
    DEF Next, Handler, Command, SaveStep

(* A save that no other overlaps writes what memory holds, step by step. *)
LEMMA SaveInvStep ==
  ASSUME IInv, [Next]_vars
  PROVE  SaveInv'
<1> USE DEF SaveInv, PhaseInv, Current, Pending, InHandler, InReset,
    Saving, Steps, Writers, TypeOK, IInv,
    Documents, Progress, histVars, fileVars, handlerVars
<1>1. ASSUME NEW i \in Shines, TakeShine(i) PROVE SaveInv'
  BY <1>1 DEF TakeShine, Free, Goto
<1>2. CASE WriteCount
  BY <1>2 DEF WriteCount, Goto
<1>3. CASE PushShine
  BY <1>3 DEF PushShine, BeginSave, Goto
<1>4. ASSUME NEW i \in Shines, RepeatShine(i) PROVE SaveInv'
  BY <1>4 DEF RepeatShine, Free, BeginSave, Goto
<1>5. ASSUME NEW t \in Toads, UnlockToad(t) PROVE SaveInv'
  BY <1>5 DEF UnlockToad, Free, BeginSave, Goto
<1>6. ASSUME NEW s \in Scenarios, ChangeScenario(s) PROVE SaveInv'
  BY <1>6 DEF ChangeScenario, Free
<1>7. ASSUME NEW s \in Saves, ReceiveSave(s) PROVE SaveInv'
  BY <1>7 DEF ReceiveSave, Free, Goto
<1>8. CASE CopySave
  BY <1>8 DEF CopySave, Copied, BeginSave, Goto
<1>9. CASE SaveCommand
  BY <1>9 DEF SaveCommand, Operator, Free, BeginSave, Goto
<1>10. ASSUME NEW a \in Amounts, SetShines(a) PROVE SaveInv'
  BY <1>10 DEF SetShines, Operator, Free, BeginSave, Goto
<1>11. CASE ResetCount
  BY <1>11 DEF ResetCount, CounterReset, Operator, Free, Goto
<1>12. CASE ClearList
  BY <1>12 DEF ClearList, Goto
<1>13. CASE ClearOthers
  BY <1>13 DEF ClearOthers, Goto
<1>14. CASE LoadDefault
  BY <1>14 DEF LoadDefault, Copied, SharedDefault, BeginSave, Goto
<1>15. ASSUME NEW w \in Writers, SaveNum(w) PROVE SaveInv'
  BY <1>15 DEF SaveNum, Goto, EmptyDoc
<1>16. ASSUME NEW w \in Writers, SaveRest(w) PROVE SaveInv'
  BY <1>16 DEF SaveRest, Goto, SavedToads
<1>17. ASSUME NEW w \in Writers, OpenJson(w) PROVE SaveInv'
  BY <1>17 DEF OpenJson, Goto, Opened, Torn
<1>18. ASSUME NEW w \in Writers, WriteJson(w) PROVE SaveInv'
  <2>1. Size(doc[w]) \in Nat /\ Size(doc[w]) > 0
    BY SizeType
  <2> QED BY <1>18, <2>1 DEF WriteJson, WriteOver, Whole, Goto
<1>19. ASSUME NEW w \in Writers, OpenBin(w) PROVE SaveInv'
  BY <1>19 DEF OpenBin, Goto
<1>20. ASSUME NEW w \in Writers, WriteBin(w) PROVE SaveInv'
  BY <1>20 DEF WriteBin, Goto, Written, SharedDefault
<1>21. CASE Crash
  BY <1>21 DEF Crash
<1>22. CASE LoadNothing
  BY <1>22 DEF LoadNothing, BeginSave, Goto, SharedDefault, New
<1>23. CASE LoadTorn
  BY <1>23 DEF LoadTorn, AfterParseError
<1>24. CASE LoadWhole
  BY <1>24 DEF LoadWhole
<1>25. CASE UNCHANGED vars
  BY <1>25 DEF vars, fileVars, handlerVars, histVars
<1> QED BY <1>1, <1>2, <1>3, <1>4, <1>5, <1>6, <1>7, <1>8, <1>9, <1>10, <1>11, <1>12,
    <1>13, <1>14, <1>15, <1>16, <1>17, <1>18, <1>19, <1>20, <1>21, <1>22, <1>23,
    <1>24, <1>25
    DEF Next, Handler, Command, SaveStep

(* ... and at its end both files hold it. *)
LEMMA RestStep ==
  ASSUME IInv, [Next]_vars
  PROVE  RestInv'
<1> USE DEF RestInv, SaveInv, PhaseInv, NobodySaves, Current, Pending, InHandler, InReset,
    Saving, Steps,
    Writers, TypeOK, IInv, Documents, Progress, histVars, fileVars, handlerVars
<1>1. ASSUME NEW i \in Shines, TakeShine(i) PROVE RestInv'
  BY <1>1 DEF TakeShine, Free, Goto
<1>2. CASE WriteCount
  BY <1>2 DEF WriteCount, Goto
<1>3. CASE PushShine
  BY <1>3 DEF PushShine, BeginSave, Goto
<1>4. ASSUME NEW i \in Shines, RepeatShine(i) PROVE RestInv'
  BY <1>4 DEF RepeatShine, Free, BeginSave, Goto
<1>5. ASSUME NEW t \in Toads, UnlockToad(t) PROVE RestInv'
  BY <1>5 DEF UnlockToad, Free, BeginSave, Goto
<1>6. ASSUME NEW s \in Scenarios, ChangeScenario(s) PROVE RestInv'
  BY <1>6 DEF ChangeScenario, Free
<1>7. ASSUME NEW s \in Saves, ReceiveSave(s) PROVE RestInv'
  BY <1>7 DEF ReceiveSave, Free, Goto
<1>8. CASE CopySave
  BY <1>8 DEF CopySave, Copied, BeginSave, Goto
<1>9. CASE SaveCommand
  BY <1>9 DEF SaveCommand, Operator, Free, BeginSave, Goto
<1>10. ASSUME NEW a \in Amounts, SetShines(a) PROVE RestInv'
  BY <1>10 DEF SetShines, Operator, Free, BeginSave, Goto
<1>11. CASE ResetCount
  BY <1>11 DEF ResetCount, CounterReset, Operator, Free, Goto
<1>12. CASE ClearList
  BY <1>12 DEF ClearList, Goto
<1>13. CASE ClearOthers
  BY <1>13 DEF ClearOthers, Goto
<1>14. CASE LoadDefault
  BY <1>14 DEF LoadDefault, Copied, SharedDefault, BeginSave, Goto
<1>15. ASSUME NEW w \in Writers, SaveNum(w) PROVE RestInv'
  BY <1>15 DEF SaveNum, Goto, EmptyDoc
<1>16. ASSUME NEW w \in Writers, SaveRest(w) PROVE RestInv'
  BY <1>16 DEF SaveRest, Goto, SavedToads
<1>17. ASSUME NEW w \in Writers, OpenJson(w) PROVE RestInv'
  BY <1>17 DEF OpenJson, Goto, Opened, Torn
<1>18. ASSUME NEW w \in Writers, WriteJson(w) PROVE RestInv'
  BY <1>18 DEF WriteJson, Goto
<1>19. ASSUME NEW w \in Writers, OpenBin(w) PROVE RestInv'
  BY <1>19 DEF OpenBin, Goto
<1>20. ASSUME NEW w \in Writers, WriteBin(w) PROVE RestInv'
  BY <1>20 DEF WriteBin, Goto, Written, SharedDefault
<1>21. CASE Crash
  BY <1>21 DEF Crash
<1>22. CASE LoadNothing
  BY <1>22 DEF LoadNothing, BeginSave, Goto, SharedDefault, New
<1>23. CASE LoadTorn
  BY <1>23 DEF LoadTorn, AfterParseError
<1>24. CASE LoadWhole
  BY <1>24 DEF LoadWhole
<1>25. CASE UNCHANGED vars
  BY <1>25 DEF vars, fileVars, handlerVars, histVars
<1> QED BY <1>1, <1>2, <1>3, <1>4, <1>5, <1>6, <1>7, <1>8, <1>9, <1>10, <1>11, <1>12,
    <1>13, <1>14, <1>15, <1>16, <1>17, <1>18, <1>19, <1>20, <1>21, <1>22, <1>23,
    <1>24, <1>25
    DEF Next, Handler, Command, SaveStep

(* Content is lost only to a save cut short or overlapped. *)
LEMMA HarmStep ==
  ASSUME IInv, [Next]_vars
  PROVE  HarmInv'
<1> USE DEF HarmInv, RestInv, SaveInv, ArgInv, PhaseInv, NobodySaves, Saving, Steps,
    Writers, TypeOK, IInv, Progress, histVars, fileVars, handlerVars
<1>1. ASSUME NEW i \in Shines, TakeShine(i) PROVE HarmInv'
  BY <1>1, PersistenceAssumption DEF TakeShine, Free, Goto
<1>2. CASE WriteCount
  BY <1>2, PersistenceAssumption DEF WriteCount, Goto
<1>3. CASE PushShine
  BY <1>3, PersistenceAssumption DEF PushShine, BeginSave, Goto
<1>4. ASSUME NEW i \in Shines, RepeatShine(i) PROVE HarmInv'
  BY <1>4, PersistenceAssumption DEF RepeatShine, Free, BeginSave, Goto
<1>5. ASSUME NEW t \in Toads, UnlockToad(t) PROVE HarmInv'
  BY <1>5, PersistenceAssumption DEF UnlockToad, Free, BeginSave, Goto
<1>6. ASSUME NEW s \in Scenarios, ChangeScenario(s) PROVE HarmInv'
  BY <1>6, PersistenceAssumption DEF ChangeScenario, Free
<1>7. ASSUME NEW s \in Saves, ReceiveSave(s) PROVE HarmInv'
  BY <1>7, PersistenceAssumption DEF ReceiveSave, Free, Goto
<1>8. CASE CopySave
  BY <1>8, PersistenceAssumption DEF CopySave, Copied, BeginSave, Goto
<1>9. CASE SaveCommand
  BY <1>9, PersistenceAssumption DEF SaveCommand, Operator, Free, BeginSave, Goto
<1>10. ASSUME NEW a \in Amounts, SetShines(a) PROVE HarmInv'
  BY <1>10, PersistenceAssumption DEF SetShines, Operator, Free, BeginSave, Goto
<1>11. CASE ResetCount
  BY <1>11, PersistenceAssumption DEF ResetCount, CounterReset, Operator, Free, Goto
<1>12. CASE ClearList
  BY <1>12, PersistenceAssumption DEF ClearList, Goto
<1>13. CASE ClearOthers
  BY <1>13, PersistenceAssumption DEF ClearOthers, Goto
<1>14. CASE LoadDefault
  BY <1>14, PersistenceAssumption DEF LoadDefault, Copied, SharedDefault, BeginSave, Goto
<1>15. ASSUME NEW w \in Writers, SaveNum(w) PROVE HarmInv'
  BY <1>15, PersistenceAssumption DEF SaveNum, Goto, EmptyDoc
<1>16. ASSUME NEW w \in Writers, SaveRest(w) PROVE HarmInv'
  BY <1>16, PersistenceAssumption DEF SaveRest, Goto, SavedToads
<1>17. ASSUME NEW w \in Writers, OpenJson(w) PROVE HarmInv'
  BY <1>17, PersistenceAssumption DEF OpenJson, Goto, Opened, Torn
<1>18. ASSUME NEW w \in Writers, WriteJson(w) PROVE HarmInv'
  BY <1>18, PersistenceAssumption DEF WriteJson, Goto
<1>19. ASSUME NEW w \in Writers, OpenBin(w) PROVE HarmInv'
  BY <1>19, PersistenceAssumption DEF OpenBin, Goto
<1>20. ASSUME NEW w \in Writers, WriteBin(w) PROVE HarmInv'
  BY <1>20, PersistenceAssumption DEF WriteBin, Goto, Written, SharedDefault
<1>21. CASE Crash
  BY <1>21, PersistenceAssumption DEF Crash
<1>22. CASE LoadNothing
  BY <1>22, PersistenceAssumption DEF LoadNothing, BeginSave, Goto, SharedDefault, New
<1>23. CASE LoadTorn
  BY <1>23, PersistenceAssumption DEF LoadTorn, AfterParseError
<1>24. CASE LoadWhole
  BY <1>24, PersistenceAssumption DEF LoadWhole
<1>25. CASE UNCHANGED vars
  BY <1>25 DEF vars, fileVars, handlerVars, histVars
<1> QED BY <1>1, <1>2, <1>3, <1>4, <1>5, <1>6, <1>7, <1>8, <1>9, <1>10, <1>11, <1>12,
    <1>13, <1>14, <1>15, <1>16, <1>17, <1>18, <1>19, <1>20, <1>21, <1>22, <1>23,
    <1>24, <1>25
    DEF Next, Handler, Command, SaveStep

(* The counter and the list stay together. *)
LEMMA CountStep ==
  ASSUME IInv, [Next]_vars
  PROVE  CountInv'
<1> USE DEF CountInv, MemoryMatches, Changing, Between, ArgInv, PhaseInv, Matches, Steps,
    Writers, TypeOK, IInv, Documents, Progress, histVars, fileVars, handlerVars
<1>1. ASSUME NEW i \in Shines, TakeShine(i) PROVE CountInv'
  BY <1>1 DEF TakeShine, Free, Goto
<1>2. CASE WriteCount
  BY <1>2 DEF WriteCount, Goto
<1>3. CASE PushShine
  <2>1. Cardinality(mem.shines \cup {arg}) = Cardinality(mem.shines) + 1
    BY <1>3, ShineCount DEF PushShine
  <2> QED BY <1>3, <2>1 DEF PushShine, BeginSave, Goto
<1>4. ASSUME NEW i \in Shines, RepeatShine(i) PROVE CountInv'
  BY <1>4 DEF RepeatShine, Free, BeginSave, Goto
<1>5. ASSUME NEW t \in Toads, UnlockToad(t) PROVE CountInv'
  BY <1>5 DEF UnlockToad, Free, BeginSave, Goto
<1>6. ASSUME NEW s \in Scenarios, ChangeScenario(s) PROVE CountInv'
  BY <1>6 DEF ChangeScenario, Free
<1>7. ASSUME NEW s \in Saves, ReceiveSave(s) PROVE CountInv'
  BY <1>7 DEF ReceiveSave, Free, Goto
<1>8. CASE CopySave
  BY <1>8 DEF CopySave, Copied, BeginSave, Goto
<1>9. CASE SaveCommand
  BY <1>9 DEF SaveCommand, Operator, Free, BeginSave, Goto
<1>10. ASSUME NEW a \in Amounts, SetShines(a) PROVE CountInv'
  BY <1>10 DEF SetShines, Operator, Free, BeginSave, Goto
<1>11. CASE ResetCount
  BY <1>11 DEF ResetCount, CounterReset, Operator, Free, Goto
<1>12. CASE ClearList
  BY <1>12, NoShines DEF ClearList, Goto
<1>13. CASE ClearOthers
  BY <1>13 DEF ClearOthers, Goto
<1>14. CASE LoadDefault
  BY <1>14 DEF LoadDefault, Copied, SharedDefault, BeginSave, Goto
<1>15. ASSUME NEW w \in Writers, SaveNum(w) PROVE CountInv'
  BY <1>15 DEF SaveNum, EmptyDoc, Goto
<1>16. ASSUME NEW w \in Writers, SaveRest(w) PROVE CountInv'
  <2>1. /\ doc'[w].num = doc[w].num /\ doc'[w].shines = mem.shines
        /\ \A v \in Writers \ {w} : doc'[v] = doc[v]
    BY <1>16 DEF SaveRest
  <2>2. ~split => Matches(mem) /\ doc[w].num = mem.num
    BY <1>16 DEF SaveRest
  <2>3. /\ at[w] = "rest" /\ at' = [at EXCEPT ![w] = "openJson"]
        /\ UNCHANGED <<json, mem, seen, split>>
    BY <1>16 DEF SaveRest, Goto
  <2> QED BY <2>1, <2>2, <2>3
<1>17. ASSUME NEW w \in Writers, OpenJson(w) PROVE CountInv'
  BY <1>17 DEF OpenJson, Goto, Opened, Torn
<1>18. ASSUME NEW w \in Writers, WriteJson(w) PROVE CountInv'
  BY <1>18, NoShines DEF WriteJson, WriteOver, Whole, Torn, EmptyDoc, Goto
<1>19. ASSUME NEW w \in Writers, OpenBin(w) PROVE CountInv'
  BY <1>19 DEF OpenBin, Goto
<1>20. ASSUME NEW w \in Writers, WriteBin(w) PROVE CountInv'
  BY <1>20 DEF WriteBin, Goto, Written, SharedDefault
<1>21. CASE Crash
  BY <1>21, NoShines DEF Crash, New, EmptyDoc
<1>22. CASE LoadNothing
  BY <1>22, NoShines DEF LoadNothing, BeginSave, Goto, SharedDefault, New
<1>23. CASE LoadTorn
  BY <1>23, NoShines DEF LoadTorn, AfterParseError, New
<1>24. CASE LoadWhole
  BY <1>24 DEF LoadWhole
<1>25. CASE UNCHANGED vars
  BY <1>25 DEF vars, fileVars, handlerVars, histVars
<1> QED BY <1>1, <1>2, <1>3, <1>4, <1>5, <1>6, <1>7, <1>8, <1>9, <1>10, <1>11, <1>12,
    <1>13, <1>14, <1>15, <1>16, <1>17, <1>18, <1>19, <1>20, <1>21, <1>22, <1>23,
    <1>24, <1>25
    DEF Next, Handler, Command, SaveStep

(* The types of the state. *)
LEMMA TypeStep ==
  ASSUME IInv, [Next]_vars
  PROVE  TypeOK'
<1> USE DEF TypeOK, ArgInv, PhaseInv, Steps, Writers, IInv, histVars, fileVars, handlerVars
<1>1. ASSUME NEW i \in Shines, TakeShine(i) PROVE TypeOK'
  BY <1>1 DEF TakeShine, Free, Goto, Progress
<1>2. CASE WriteCount
  BY <1>2 DEF WriteCount, Goto, Progress
<1>3. CASE PushShine
  BY <1>3 DEF PushShine, BeginSave, Goto, Progress
<1>4. ASSUME NEW i \in Shines, RepeatShine(i) PROVE TypeOK'
  BY <1>4 DEF RepeatShine, Free, BeginSave, Goto
<1>5. ASSUME NEW t \in Toads, UnlockToad(t) PROVE TypeOK'
  BY <1>5 DEF UnlockToad, Free, BeginSave, Goto, Progress
<1>6. ASSUME NEW s \in Scenarios, ChangeScenario(s) PROVE TypeOK'
  BY <1>6 DEF ChangeScenario, Free, Progress
<1>7. ASSUME NEW s \in Saves, ReceiveSave(s) PROVE TypeOK'
  BY <1>7 DEF ReceiveSave, Free, Goto, Progress, Contents
<1>8. CASE CopySave
  BY <1>8 DEF CopySave, Copied, BeginSave, Goto, Progress, Contents
<1>9. CASE SaveCommand
  BY <1>9, NewTypes, PersistenceAssumption DEF SaveCommand, Operator, Free, BeginSave, Goto
<1>10. ASSUME NEW a \in Amounts, SetShines(a) PROVE TypeOK'
  BY <1>10, NewTypes, PersistenceAssumption
     DEF SetShines, Operator, Free, BeginSave, Goto, Progress, Contents
<1>11. CASE ResetCount
  BY <1>11, NewTypes, PersistenceAssumption
     DEF ResetCount, CounterReset, Operator, Free, Goto, Progress, Contents
<1>12. CASE ClearList
  BY <1>12, NewTypes, PersistenceAssumption DEF ClearList, Goto, Progress, Contents
<1>13. CASE ClearOthers
  BY <1>13, NewTypes, PersistenceAssumption DEF ClearOthers, Goto, Progress, Contents
<1>14. CASE LoadDefault
  BY <1>14, NewTypes, PersistenceAssumption
     DEF LoadDefault, Copied, SharedDefault, BeginSave, Goto, Progress, Contents
<1>15. ASSUME NEW w \in Writers, SaveNum(w) PROVE TypeOK'
  <2>1. [EmptyDoc EXCEPT !.num = mem.num] \in Documents
    BY NewTypes DEF Documents, Progress
  <2> QED BY <1>15, <2>1 DEF SaveNum, Goto
<1>16. ASSUME NEW w \in Writers, SaveRest(w) PROVE TypeOK'
  <2>1. doc' \in [Writers -> Documents]
    <3>1. /\ mem.shines \in SUBSET Shines /\ mem.scenario \in Scenarios
          /\ SavedToads \in SUBSET Toads /\ doc[w] \in Documents
      BY DEF SavedToads, Progress
    <3>2. [doc[w] EXCEPT !.shines = mem.shines, !.scenario = mem.scenario,
                         !.toads = SavedToads] \in Documents
      BY <3>1 DEF Documents
    <3>3. doc' = [doc EXCEPT ![w] = [doc[w] EXCEPT !.shines = mem.shines,
                               !.scenario = mem.scenario, !.toads = SavedToads]]
      BY <1>16 DEF SaveRest
    <3> QED BY <3>2, <3>3
  <2> QED BY <1>16, <2>1 DEF SaveRest, Goto
<1>17. ASSUME NEW w \in Writers, OpenJson(w) PROVE TypeOK'
  BY <1>17, FileTypes DEF OpenJson, Goto
<1>18. ASSUME NEW w \in Writers, WriteJson(w) PROVE TypeOK'
  <2>1. doc[w] \in Documents
    OBVIOUS
  <2> QED BY <1>18, <2>1, FileTypes, NewTypes DEF WriteJson, Goto
<1>19. ASSUME NEW w \in Writers, OpenBin(w) PROVE TypeOK'
  BY <1>19 DEF OpenBin, Goto, Contents
<1>20. ASSUME NEW w \in Writers, WriteBin(w) PROVE TypeOK'
  BY <1>20 DEF WriteBin, Goto, Written, SharedDefault, Contents, Progress
<1>21. CASE Crash
  BY <1>21, NewTypes, PersistenceAssumption DEF Crash
<1>22. CASE LoadNothing
  BY <1>22, NewTypes DEF LoadNothing, BeginSave, Goto
<1>23. CASE LoadTorn
  BY <1>23, NewTypes DEF LoadTorn, AfterParseError
<1>24. CASE LoadWhole
  <2>1. bin # "absent" => mem' \in Progress
    BY <1>24 DEF LoadWhole, Documents, Progress
  <2> QED BY <1>24, <2>1 DEF LoadWhole
<1>25. CASE UNCHANGED vars
  BY <1>25 DEF vars, fileVars, handlerVars, histVars
<1> QED BY <1>1, <1>2, <1>3, <1>4, <1>5, <1>6, <1>7, <1>8, <1>9, <1>10, <1>11, <1>12,
    <1>13, <1>14, <1>15, <1>16, <1>17, <1>18, <1>19, <1>20, <1>21, <1>22, <1>23,
    <1>24, <1>25
    DEF Next, Handler, Command, SaveStep

-----------------------------------------------------------------------------
(* The invariant holds in every reachable state. *)
LEMMA Invariant == Spec => []IInv
<1>1. IInv /\ [Next]_vars => IInv'
  <2> SUFFICES ASSUME IInv, [Next]_vars PROVE IInv'
    OBVIOUS
  <2>1. TypeOK' /\ PhaseInv' /\ ArgInv' /\ BinInv'
    BY TypeStep, PhaseStep, ArgStep, BinStep
  <2>2. CountInv' /\ SaveInv' /\ RestInv' /\ HarmInv'
    BY CountStep, SaveInvStep, RestStep, HarmStep
  <2> QED BY <2>1, <2>2 DEF IInv
<1> QED BY InitInv, <1>1, PTL DEF Spec

(* Every reachable state is of the types declared for the two files, the memory
   and the threads of the server. *)
THEOREM TypeCorrect == Spec => []TypeOK
<1>1. IInv => TypeOK
  BY DEF IInv
<1> QED BY Invariant, <1>1, PTL

(* The files hold the shines, the counter and the shared save of a server that
   rests, unless a save was cut short or overlapped and none has run alone since
   (ServerSaveData.cpp:51-55, Console.cpp:67-79). *)
THEOREM FilesFollow == Spec => []ProgressOnDisk
<1>1. IInv => ProgressOnDisk
  BY DEF IInv, RestInv, ProgressOnDisk, Quiet, NobodySaves, Pending, InHandler,
         InReset, Current, Saving, Writers
<1> QED BY Invariant, <1>1, PTL

(* A server that has ended a save once starts again after every crash
   (ServerSaveData.cpp:47, 114). *)
THEOREM Restarts == Spec => []NeverStuck
<1>1. IInv => NeverStuck
  BY DEF IInv, BinInv, NeverStuck
<1> QED BY Invariant, <1>1, PTL

(* Without a save cut short or overlapped there is a shared save for the players
   that join (ServerSaveData.cpp:78). *)
THEOREM SharedSaveKept == Spec => []SharedSaveThere
<1>1. IInv => SharedSaveThere
  BY DEF IInv, HarmInv, SharedSaveThere, Quiet
<1> QED BY Invariant, <1>1, PTL

(* The counter is the number of the shines, also after a restart, unless the
   console came between the two steps of a handler or of a save. *)
THEOREM CounterHolds == Spec => []CounterMatches
<1>1. IInv => CounterMatches
  <2> SUFFICES ASSUME IInv, Quiet, ~split PROVE mem.num = Cardinality(mem.shines)
    BY DEF CounterMatches
  <2>1. Cardinality(mem.shines) \in Nat
    BY ShineCount DEF IInv, TypeOK, Progress
  <2> QED BY <2>1 DEF IInv, CountInv, MemoryMatches, Matches, Changing, Quiet, Writers
<1> QED BY Invariant, <1>1, PTL
==============================================================================
