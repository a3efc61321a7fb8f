----------------------------- MODULE AtomicSave -----------------------------
(***************************************************************************)
(* What the server promises about the shared save file: it is a register.  *)
(* A Put replaces its whole content in one step, and a reader (one         *)
(* download to one player) obtains the content the register had at one     *)
(* moment, never the head of one save and the tail of another.  Only a     *)
(* Reset, which is counted, may disturb the reads that are going on.       *)
(***************************************************************************)
EXTENDS Naturals

CONSTANTS
  Readers,   \* the downloads that may be going on
  Contents,  \* what the register can hold
  NotReading \* the snapshot of a reader that has no read going on; no content

VARIABLES
  register,  \* the shared save
  snapshot,  \* what each reader is being given
  resets     \* how often the register was reset

absVars == <<register, snapshot, resets>>

Init ==
  /\ register \in Contents
  /\ snapshot = [r \in Readers |-> NotReading]
  /\ resets = 0

(* An upload completes: a new save replaces the old one as a whole. *)
Put ==
  /\ register' \in Contents
  /\ UNCHANGED <<snapshot, resets>>

(* A download starts: from now on this reader is given the save as it is. *)
BeginRead(r) ==
  /\ snapshot[r] = NotReading
  /\ snapshot' = [snapshot EXCEPT ![r] = register]
  /\ UNCHANGED <<register, resets>>

(* The download has handed out its last chunk. *)
EndRead(r) ==
  /\ snapshot[r] # NotReading
  /\ snapshot' = [snapshot EXCEPT ![r] = NotReading]
  /\ UNCHANGED <<register, resets>>

(* The operator resets the save under the readers' feet. *)
Reset ==
  /\ resets' = resets + 1
  /\ register' \in Contents
  /\ \E garbled \in [Readers -> Contents] :
       snapshot' = [r \in Readers |-> IF snapshot[r] = NotReading
                                      THEN NotReading ELSE garbled[r]]

Next == Put \/ Reset \/ \E r \in Readers : BeginRead(r) \/ EndRead(r)

Spec == Init /\ [][Next]_absVars
=============================================================================
