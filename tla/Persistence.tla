---------------------------- MODULE Persistence ----------------------------
(***************************************************************************)
(* The two files of the server.  save() writes SaveData.json and then      *)
(* GameData.bin, each in place: opened, which truncates it, then written.  *)
(* The server thread saves after a shine, a toad and a shared save, the    *)
(* console on command; neither waits for the other, not in save() nor in   *)
(* what they change before it, and the machine may stop in between.        *)
(* load() reads both files when the server starts.                         *)
(*                                                                         *)
(* A list that two threads change at a time holds what was in it before or *)
(* after; that its memory is corrupted is left out.                        *)
(* collectedShards are saved and loaded as collectedGoalItems are, and     *)
(* jumpFlipState as the scenario is; they are left out.                    *)
(***************************************************************************)
EXTENDS Integers, FiniteSets

CONSTANTS
  Shines, Toads,
  Scenarios,   \* values of islandToScenarioMap, NoScenario the empty map
  NoScenario,
  Saves,       \* shared saves the players upload
  Default,     \* the content of GameDataDefault.bin
  Mixed,       \* a shared save that was read while it was being written
  None,        \* no content: size 0
  Amounts,     \* what the operator gives to setshines
  MaxCrashes,  \* bound
  MaxCommands  \* bound: commands of the operator

ASSUME PersistenceAssumption ==
  /\ IsFiniteSet(Shines)
  /\ NoScenario \in Scenarios
  /\ Amounts \subseteq Int
  /\ None \notin Saves \cup {Default, Mixed}
  /\ "absent" \notin Saves \cup {Default, Mixed, None}
  /\ MaxCrashes \in Nat
  /\ MaxCommands \in Nat

Writers == {"server", "console"}

VARIABLES
  phase,    \* "down", "loading", "up", or "broken": it crashes when it starts
  mem,      \* mSaveData
  json,     \* SaveData.json
  bin,      \* GameData.bin
  at,       \* per thread: its next statement
  doc,      \* per thread: the JSON document of its save
  arg,      \* what the server thread's handler has been given
  seen,     \* the counter it has read and is to increment
  crashes,  \* history
  commands, \* history
  alone,    \* history: no other save ran during the last one
  cut,      \* history: the server has stopped in a save, and none has run alone since
  harmed,   \* history: the server has stopped in a save, or two have overlapped
  ever,     \* history: some save has ended
  split     \* history: setshines was used, or both threads were at a time between a
            \* counter and its list, one of them to change these

fileVars == <<json, bin>>
handlerVars == <<arg, seen>>
histVars == <<alone, cut, harmed, ever, split>>
vars == <<phase, mem, fileVars, at, doc, handlerVars, crashes, commands, histVars>>

Contents == Saves \cup {Default, Mixed, None}

Progress == [num : Int, shines : SUBSET Shines, toads : SUBSET Toads,
             scenario : Scenarios, shared : Contents]

Documents == [num : Int, shines : SUBSET Shines, toads : SUBSET Toads, scenario : Scenarios]

New == [num |-> 0, shines |-> {}, toads |-> {}, scenario |-> NoScenario, shared |-> None]

(* loadSharedDefault(); and a mutant without it. *)
NotLoaded == mem.shared

SharedDefault == Default

(* The counter of reset(); and a mutant that forgets it. *)
CounterKept == mem.num

CounterReset == 0

EmptyDoc == [num |-> 0, shines |-> {}, toads |-> {}, scenario |-> NoScenario]

(* A document grows with what is in it. *)
Size(d) == 1 + Cardinality(d.shines) + IF d.scenario = NoScenario THEN 0 ELSE 1

(* A file is absent, holds a document, or does not parse; size tells how much
   of it was written since it was truncated. *)
Absent   == [kind |-> "absent", doc |-> EmptyDoc, size |-> 0]
Whole(d) == [kind |-> "whole", doc |-> d, size |-> Size(d)]
Torn(n)  == [kind |-> "torn", doc |-> EmptyDoc, size |-> n]

(* Opened for writing: truncated; and a mutant that is not. *)
NotTruncated == Torn(json.size)

Opened == Torn(0)

(* A document written from the start over what another has written since. *)
WriteOver(f, d) == IF f.size > Size(d) THEN Torn(f.size) ELSE Whole(d)

Steps ==
  {"idle", "write", "push", "copy", "clear", "empty", "default",
   "num", "rest", "openJson", "writeJson", "openBin", "writeBin"}

TypeOK ==
  /\ phase \in {"down", "loading", "up", "broken"}
  /\ mem \in Progress
  /\ json \in [kind : {"absent", "whole", "torn"}, doc : Documents, size : Nat]
  /\ bin \in Contents \cup {"absent"}
  /\ at \in [Writers -> Steps]
  /\ doc \in [Writers -> Documents]
  /\ arg \in Shines \cup Saves \cup {None}
  /\ seen \in Int
  /\ crashes \in 0 .. MaxCrashes
  /\ commands \in 0 .. MaxCommands
  /\ {alone, cut, harmed, ever, split} \subseteq BOOLEAN

Init ==
  /\ phase = "down"
  /\ mem = New
  /\ json = Absent /\ bin = "absent"
  /\ at = [w \in Writers |-> "idle"]
  /\ doc = [w \in Writers |-> EmptyDoc]
  /\ arg = None /\ seen = 0
  /\ crashes = 0 /\ commands = 0
  /\ alone = TRUE /\ cut = FALSE /\ harmed = FALSE /\ ever = FALSE /\ split = FALSE

-----------------------------------------------------------------------------
Saving(w) == at[w] \in {"num", "rest", "openJson", "writeJson", "openBin", "writeBin"}

(* A thread has the counter and the list apart: in memory, where the counter
   comes first, or only in the document of its save. *)
Changing(w) == at[w] \in {"write", "push", "clear"}

Between(w) == Changing(w) \/ at[w] = "rest"

Free(w) == phase = "up" /\ at[w] = "idle"

Goto(w, s) == at' = [at EXCEPT ![w] = s]

(* A thread enters save(). *)
BeginSave(w) ==
  /\ Goto(w, "num")
  /\ alone' = \A v \in Writers \ {w} : ~Saving(v)
  /\ harmed' = (harmed \/ ~alone')

(* handleGoalItemInfo: the counter, read and written, the list, then save(). *)
TakeShine(i) ==
  /\ Free("server")
  /\ i \notin mem.shines
  /\ arg' = i /\ seen' = mem.num
  /\ Goto("server", "write")
  /\ split' = (split \/ Between("console"))
  /\ UNCHANGED <<phase, mem, fileVars, doc, crashes, commands, alone, cut, harmed, ever>>

WriteCount ==
  /\ at["server"] = "write"
  /\ mem' = [mem EXCEPT !.num = seen + 1]
  /\ seen' = 0
  /\ Goto("server", "push")
  /\ UNCHANGED <<phase, fileVars, doc, arg, crashes, commands, histVars>>

PushShine ==
  /\ at["server"] = "push"
  /\ mem' = [mem EXCEPT !.shines = @ \cup {arg}]
  /\ arg' = None
  /\ BeginSave("server")
  /\ UNCHANGED <<phase, fileVars, doc, seen, crashes, commands, cut, ever, split>>

(* A shine that is in the list is saved once more. *)
RepeatShine(i) ==
  /\ Free("server")
  /\ i \in mem.shines
  /\ BeginSave("server")
  /\ UNCHANGED <<phase, mem, fileVars, doc, handlerVars, crashes, commands, cut, ever,
                 split>>

(* handleMiscMapSync for a toad. *)
UnlockToad(t) ==
  /\ Free("server")
  /\ t \notin mem.toads
  /\ mem' = [mem EXCEPT !.toads = @ \cup {t}]
  /\ BeginSave("server")
  /\ UNCHANGED <<phase, fileVars, doc, handlerVars, crashes, commands, cut, ever, split>>

(* handleScenarioUpdate: not saved. *)
ChangeScenario(s) ==
  /\ Free("server")
  /\ s \notin {mem.scenario, NoScenario}
  /\ mem' = [mem EXCEPT !.scenario = s]
  /\ UNCHANGED <<phase, fileVars, at, doc, handlerVars, crashes, commands, histVars>>

(* handleSaveChunk once the save is complete: size and memcpy, then save().
   In the middle of it sharedSave is of both. *)
ReceiveSave(s) ==
  /\ Free("server")
  /\ s # mem.shared
  /\ mem' = [mem EXCEPT !.shared = Mixed]
  /\ arg' = s
  /\ Goto("server", "copy")
  /\ UNCHANGED <<phase, fileVars, doc, seen, crashes, commands, histVars>>

(* The end of a memcpy that another one may have met. *)
Copied(s, other) == IF mem.shared = Mixed /\ ~other THEN {s} ELSE {s, Mixed}

CopySave ==
  /\ at["server"] = "copy"
  /\ \E s \in Copied(arg, at["console"] = "default") : mem' = [mem EXCEPT !.shared = s]
  /\ arg' = None
  /\ BeginSave("server")
  /\ UNCHANGED <<phase, fileVars, doc, seen, crashes, commands, cut, ever, split>>

-----------------------------------------------------------------------------
(* The console *)

Operator ==
  /\ Free("console")
  /\ commands < MaxCommands
  /\ commands' = commands + 1

SaveCommand ==
  /\ Operator
  /\ BeginSave("console")
  /\ UNCHANGED <<phase, mem, fileVars, doc, handlerVars, crashes, cut, ever, split>>

SetShines(a) ==
  /\ Operator
  /\ mem' = [mem EXCEPT !.num = a]
  /\ BeginSave("console")
  /\ split' = TRUE
  /\ UNCHANGED <<phase, fileVars, doc, handlerVars, crashes, cut, ever>>

(* resetsave: reset() sets the counter, ... *)
ResetCount ==
  /\ Operator
  /\ mem' = [mem EXCEPT !.num = CounterReset]
  /\ Goto("console", "clear")
  /\ split' = (split \/ Between("server"))
  /\ UNCHANGED <<phase, fileVars, doc, handlerVars, crashes, alone, cut, harmed, ever>>

(* ... clears the list, which a push_back at the same time may undo, ... *)
ClearList ==
  /\ at["console"] = "clear"
  /\ \E l \in {{}} \cup (IF at["server"] = "push" THEN {mem.shines} ELSE {}) :
       mem' = [mem EXCEPT !.shines = l]
  /\ Goto("console", "empty")
  /\ UNCHANGED <<phase, fileVars, doc, handlerVars, crashes, commands, histVars>>

(* ... and the other lists, and copies the default save; then comes save(). *)
ClearOthers ==
  /\ at["console"] = "empty"
  /\ mem' = [mem EXCEPT !.toads = {}, !.scenario = NoScenario, !.shared = Mixed]
  /\ Goto("console", "default")
  /\ UNCHANGED <<phase, fileVars, doc, handlerVars, crashes, commands, histVars>>

LoadDefault ==
  /\ at["console"] = "default"
  /\ \E s \in Copied(SharedDefault, at["server"] = "copy") :
       mem' = [mem EXCEPT !.shared = s]
  /\ BeginSave("console")
  /\ UNCHANGED <<phase, fileVars, doc, handlerVars, crashes, commands, cut, ever, split>>

-----------------------------------------------------------------------------
(* save(). *)

(* The document is put together field by field, the counter first. *)
SaveNum(w) ==
  /\ at[w] = "num"
  /\ doc' = [doc EXCEPT ![w] = [EmptyDoc EXCEPT !.num = mem.num]]
  /\ Goto(w, "rest")
  /\ split' = (split \/ \E v \in Writers \ {w} : Changing(v))
  /\ UNCHANGED <<phase, mem, fileVars, handlerVars, crashes, commands, alone, cut, harmed,
                 ever>>

(* The toads are pushed to a list that is in the document already; the list of
   toads that is stored afterwards is empty. *)
SavedToads == {}

SaveRest(w) ==
  /\ at[w] = "rest"
  /\ doc' = [doc EXCEPT ![w].shines = mem.shines, ![w].scenario = mem.scenario,
                        ![w].toads = SavedToads]
  /\ Goto(w, "openJson")
  /\ UNCHANGED <<phase, mem, fileVars, handlerVars, crashes, commands, histVars>>

OpenJson(w) ==
  /\ at[w] = "openJson"
  /\ json' = Opened
  /\ Goto(w, "writeJson")
  /\ UNCHANGED <<phase, mem, bin, doc, handlerVars, crashes, commands, histVars>>

WriteJson(w) ==
  /\ at[w] = "writeJson"
  /\ json' = WriteOver(json, doc[w])
  /\ doc' = [doc EXCEPT ![w] = EmptyDoc]
  /\ Goto(w, "openBin")
  /\ UNCHANGED <<phase, mem, bin, handlerVars, crashes, commands, histVars>>

OpenBin(w) ==
  /\ at[w] = "openBin"
  /\ bin' = None
  /\ Goto(w, "writeBin")
  /\ UNCHANGED <<phase, mem, json, doc, handlerVars, crashes, commands, histVars>>

(* A mutant that leaves no file for a shared save without content. *)
NoFileIfEmpty == IF mem.shared = None THEN {"absent"} ELSE {mem.shared}

(* fwrite takes what sharedSave holds now, in the middle of a memcpy too. *)
Written ==
  {mem.shared} \cup {s \in {arg} : at["server"] = "copy"}
               \cup {s \in {SharedDefault} : at["console"] = "default"}

WriteBin(w) ==
  /\ at[w] = "writeBin"
  /\ bin' \in Written
  /\ Goto(w, "idle")
  /\ phase' = "up"
  /\ ever' = TRUE
  /\ cut' = (cut /\ ~alone)
  /\ UNCHANGED <<mem, json, doc, handlerVars, crashes, commands, alone, harmed, split>>

-----------------------------------------------------------------------------
(* The machine stops: memory is lost, the files stay as they are. *)
Crash ==
  /\ phase \in {"loading", "up"}
  /\ crashes < MaxCrashes
  /\ crashes' = crashes + 1
  /\ phase' = "down"
  /\ mem' = New
  /\ at' = [w \in Writers |-> "idle"]
  /\ doc' = [w \in Writers |-> EmptyDoc]
  /\ arg' = None /\ seen' = 0
  /\ cut' = (cut \/ \E w \in Writers : Saving(w))
  /\ harmed' = (harmed \/ cut')
  /\ UNCHANGED <<fileVars, commands, alone, ever, split>>

(* load() of a file that is not there: the default, saved at once. *)
LoadNothing ==
  /\ phase = "down" /\ json.kind = "absent"
  /\ phase' = "loading"
  /\ mem' = [New EXCEPT !.shared = SharedDefault]
  /\ BeginSave("server")
  /\ UNCHANGED <<fileVars, doc, handlerVars, crashes, commands, cut, ever, split>>

(* load() of a file that does not parse returns at once; and a mutant that goes
   on to the other file. *)
GoesOn == [New EXCEPT !.shared = bin]

AfterParseError == New

LoadTorn ==
  /\ phase = "down" /\ json.kind = "torn"
  /\ phase' = "up"
  /\ mem' = AfterParseError
  /\ UNCHANGED <<fileVars, at, doc, handlerVars, crashes, commands, histVars>>

(* load() of both files; readBytesFromFile does not expect that one is missing. *)
LoadWhole ==
  /\ phase = "down" /\ json.kind = "whole"
  /\ IF bin = "absent"
     THEN phase' = "broken" /\ UNCHANGED mem
     ELSE /\ phase' = "up"
          /\ mem' = [num |-> json.doc.num, shines |-> json.doc.shines,
                     toads |-> json.doc.toads, scenario |-> json.doc.scenario,
                     shared |-> bin]
  /\ UNCHANGED <<fileVars, at, doc, handlerVars, crashes, commands, histVars>>

Handler ==
  \/ \E i \in Shines : TakeShine(i) \/ RepeatShine(i)
  \/ \E t \in Toads : UnlockToad(t)
  \/ \E s \in Scenarios : ChangeScenario(s)
  \/ \E s \in Saves : ReceiveSave(s)
  \/ WriteCount \/ PushShine \/ CopySave

Command ==
  \/ SaveCommand
  \/ \E a \in Amounts : SetShines(a)
  \/ ResetCount \/ ClearList \/ ClearOthers \/ LoadDefault

SaveStep(w) ==
  SaveNum(w) \/ SaveRest(w) \/ OpenJson(w) \/ WriteJson(w) \/ OpenBin(w) \/ WriteBin(w)

Next ==
  \/ Handler
  \/ Command
  \/ \E w \in Writers : SaveStep(w)
  \/ Crash \/ LoadNothing \/ LoadTorn \/ LoadWhole

Spec == Init /\ [][Next]_vars

-----------------------------------------------------------------------------
(* No thread is in a handler, a command or a save. *)
Quiet == phase = "up" /\ \A w \in Writers : at[w] = "idle"

(* While nobody saves, what the players have is what a restart would bring
   back - the shines, their counter and the shared save; the scenario waits for
   the next save -, unless two saves have overlapped or one was cut short, and
   none has run alone since (ServerSaveData.cpp:51-55, Console.cpp:67-79). *)
ProgressOnDisk ==
  Quiet /\ alone /\ ~cut =>
    /\ json.kind = "whole"
    /\ json.doc.num = mem.num /\ json.doc.shines = mem.shines
    /\ bin = mem.shared

(* The server starts again after any crash but one in the very first save, of
   which one file may be there and the other not (ServerSaveData.cpp:47, 114). *)
NeverStuck == phase = "broken" => ~ever

(* The server has a shared save for the players that join, unless a crash in a
   save or two saves at a time have left a file that does not parse: then it
   goes on without any (ServerSaveData.cpp:78). *)
SharedSaveThere == Quiet /\ mem.shared = None => harmed

(* Also after a restart the counter is the number of the shines, so that none
   is counted twice, unless the operator has set it, or the console was between a
   counter and its list while the server thread was, be it in a handler, in
   reset() or in a save (ProjectPacketHandler.cpp:111-112, ServerSaveData.cpp:
   124-125 and 15-24). *)
CounterMatches == Quiet /\ ~split => mem.num = Cardinality(mem.shines)

(* What the README says: the save is kept on the server, the toads too. *)
ToadsKept == Quiet /\ alone /\ ~cut => json.doc.toads = mem.toads
==============================================================================
