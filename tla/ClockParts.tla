----------------------------- MODULE ClockParts -----------------------------
(***************************************************************************)
(* The parts of the map that follow the clock the games share with the     *)
(* server: one that waits, signs and rotates in a cycle (ClockMapPartsNet) *)
(* and one that moves from key pose to key pose (KeyMoveMapPartsNet).  No  *)
(* packet tells of them.  A part of one game is modelled, against what the *)
(* clock says; two games agree because both follow it.                     *)
(*                                                                         *)
(* Angles are counted in steps of mClockAngle / mRotateTime, moves in      *)
(* frames: a key pose that takes n frames to leave is n steps.  The game   *)
(* runs a frame when it likes: it may lag behind the clock or freeze, and  *)
(* the clock may go on between the two halves of a frame.                  *)
(***************************************************************************)
EXTENDS Integers, Sequences

CONSTANTS
  WaitTime, RotateSignTime, RotateTime, DelayTime,
  Period,  \* the clock starts again after so many frames (four hours)
  Turns,   \* so many rotations are a full turn
  KeyPoses \* of the part that moves: the frames it waits and moves, per key pose

VARIABLES
  clock,     \* getSyncClockFrames
  built,     \* the part is in the scene
  half,      \* what comes next in the game's frame: the nerve or control()
  partNerve, \* its nerve
  angle,     \* its rotation
  moved,     \* how far the part that moves is on its way, or -1 where it was placed
  cycle,     \* history: the cycle it saw last
  seen,      \* history: the clock it saw last
  missed     \* history: since it was built, or slept through a rotation or the
             \*   clock's new start, it has not rotated

vars == <<clock, built, half, partNerve, angle, moved, cycle, seen, missed>>

getTotalCycleTime == WaitTime + RotateTime + RotateSignTime

FullTurn == Turns * RotateTime

TypeOK ==
  /\ clock \in 0 .. Period - 1
  /\ built \in BOOLEAN
  /\ half \in {"nerve", "control"}
  /\ partNerve \in {"Wait", "RotateSign", "Rotate"}
  /\ angle \in 0 .. FullTurn - 1
  /\ moved \in Nat \cup {-1}
  /\ cycle \in Nat
  /\ seen \in 0 .. Period - 1
  /\ missed \in BOOLEAN

Init ==
  /\ clock = 0
  /\ built = FALSE
  /\ half = "nerve" /\ partNerve = "Wait" /\ angle = 0 /\ moved = -1
  /\ cycle = 0 /\ seen = 0 /\ missed = TRUE

-----------------------------------------------------------------------------
InCycle == (clock + DelayTime) % getTotalCycleTime

Cycle == (clock + DelayTime) \div getTotalCycleTime

getCurrentNerveByClock ==
  IF InCycle <= WaitTime THEN "Wait"
  ELSE IF InCycle <= WaitTime + RotateSignTime THEN "RotateSign" ELSE "Rotate"

(* In Wait it is the wait time, whatever the clock. *)
getProgressIntoNrvByClock ==
  IF InCycle <= WaitTime THEN WaitTime
  ELSE IF InCycle <= WaitTime + RotateSignTime THEN InCycle - WaitTime
  ELSE InCycle - WaitTime - RotateSignTime

RotateAngle == (getProgressIntoNrvByClock + Cycle * RotateTime) % FullTurn

(* After so many rotations; a mutant forgets the delay of the part. *)
UndelayedAngle == ((clock \div getTotalCycleTime) * RotateTime) % FullTurn

RotateEndAngle == (Cycle * RotateTime) % FullTurn

(* The part that moves: the pose whose frames the clock is in. *)
calcKeyPoseFrames(i) == KeyPoses[i].wait + KeyPoses[i].move

FramesBefore[i \in 1 .. Len(KeyPoses) + 1] ==
  IF i = 1 THEN 0 ELSE FramesBefore[i - 1] + calcKeyPoseFrames(i - 1)

calcKeyPoseFramesTotal == FramesBefore[Len(KeyPoses) + 1]

calcCurKeyPoseIdxBySyncClock(c) ==
  CHOOSE i \in 1 .. Len(KeyPoses) :
    /\ FramesBefore[i] <= c % calcKeyPoseFramesTotal
    /\ c % calcKeyPoseFramesTotal < FramesBefore[i] + calcKeyPoseFrames(i)

(* How far it is from its pose to the next, in frames of the move; and a mutant
   that forgets the wait. *)
WaitForgotten(i, framesIntoPose) == framesIntoPose

Progress(i, framesIntoPose) ==
  IF framesIntoPose <= KeyPoses[i].wait THEN 0 ELSE framesIntoPose - KeyPoses[i].wait

MovesBefore[i \in 1 .. Len(KeyPoses) + 1] ==
  IF i = 1 THEN 0 ELSE MovesBefore[i - 1] + KeyPoses[i - 1].move

Way(c) ==
  LET i == calcCurKeyPoseIdxBySyncClock(c)
  IN  MovesBefore[i] + Progress(i, (c % calcKeyPoseFramesTotal) - FramesBefore[i])

Tick ==
  /\ clock' = (clock + 1) % Period
  /\ UNCHANGED <<built, half, partNerve, angle, moved, cycle, seen, missed>>

(* The part is made for a scene, with its initial angle. *)
Build ==
  /\ ~built
  /\ built' = TRUE
  /\ half' = "nerve" /\ partNerve' = "Wait" /\ angle' = 0 /\ moved' = -1
  /\ cycle' = Cycle /\ seen' = clock /\ missed' = TRUE
  /\ UNCHANGED clock

Destroy ==
  /\ built
  /\ built' = FALSE
  /\ UNCHANGED <<clock, half, partNerve, angle, moved, cycle, seen, missed>>

ExecuteNerve ==
  /\ built /\ half = "nerve"
  /\ half' = "control"
  /\ IF partNerve = "Rotate"
       THEN angle' = RotateAngle /\ missed' = FALSE
       ELSE UNCHANGED <<angle, missed>>
  /\ UNCHANGED <<clock, built, partNerve, moved, cycle, seen>>

(* control() sets the nerve of the clock; a nerve that ends calls its end. *)
Control ==
  /\ built /\ half = "control"
  /\ half' = "nerve"
  /\ partNerve' = getCurrentNerveByClock
  /\ angle' = IF partNerve = "Rotate" /\ partNerve' # "Rotate"
                THEN RotateEndAngle ELSE angle
  /\ missed' = (missed \/ (partNerve # "Rotate" /\ Cycle # cycle))
  /\ cycle' = Cycle /\ seen' = clock
  /\ moved' = Way(clock)
  /\ UNCHANGED <<clock, built>>

Next == Tick \/ Build \/ Destroy \/ ExecuteNerve \/ Control

Spec == Init /\ [][Next]_vars

-----------------------------------------------------------------------------
(* A part that rests has turned as often as the clock has gone round, although
   the frame that ends a rotation sees a clock that is past it, in the wait or
   even in the next cycle; but only after a rotation it has seen: a part that is
   built during the wait starts from its initial angle (ClockMapPartsNet.cpp:34-
   60, 87-114). *)
TurnsWithClock ==
  built /\ half = "nerve" /\ seen = clock /\ partNerve # "Rotate" /\ ~missed =>
    LET rounds == (clock + DelayTime) \div (WaitTime + RotateSignTime + RotateTime)
    IN  angle = (rounds % Turns) * RotateTime

(* A part that moves is, in two games that are one frame apart, no more than one
   frame of its way apart, also from one pose and one round to the next; only where
   the clock starts again it may jump (KeyMoveMapPartsNet.cpp:20-56, 97-109). *)
MovesWithClock ==
  built /\ moved # -1 /\ clock = seen + 1 =>
    (Way(clock) - moved) % MovesBefore[Len(KeyPoses) + 1] \in {0, 1}

(* Parts of two games that follow one clock turn and move together. *)
ClockPartsAgree == TurnsWithClock /\ MovesWithClock
=============================================================================
