---------------------------- MODULE ImuController ----------------------------
(***************************************************************************)
(* The node low_control_with_imu: five times a second it publishes the     *)
(* latest twist of /cmd_vel, or the one the D-pad asks for, corrected for  *)
(* the roll of the robot, or a stop when the twist is old or the robot     *)
(* tilts too much.                                                         *)
(*                                                                         *)
(* Speeds are small integers: Full is the speed of a drive command and of  *)
(* the D-pad, 1 that of a turn; only zero, sign and order matter here.     *)
(* The node has one thread: its mutexes are never contended.               *)
(***************************************************************************)
EXTENDS Integers, Sequences

VARIABLES
  controller,   \* the node's attributes
  controlled    \* diff_drive_controller's queue, of depth 1

Full == 6
Twist == [linear: {-Full, 0, Full}, angular: {-1, 0, 1}]
Zero  == [linear |-> 0, angular |-> 0]

(* roll: 0 up to 8 degrees, 1 up to 20, 2 up to critical_roll, 3 beyond,   *)
(* negative to the other side.  pitch: beyond critical_pitch.              *)
Attitude == [roll: -3..3, pitch: BOOLEAN]
Critical(a) == a.roll \in {-3, 3} \/ a.pitch

(* old: more than k_when_to_stop_s_ since the last twist.                  *)
ControllerState == [twist: Twist, old: BOOLEAN, attitude: Attitude, dpad: -1..1]

Started == [twist |-> Zero, old |-> FALSE,
            attitude |-> [roll |-> 0, pitch |-> FALSE], dpad |-> 0]

ImuCallback(a) == /\ controller' = [controller EXCEPT !.attitude = a]
                  /\ UNCHANGED controlled

JoyCallback(d) == /\ controller' = [controller EXCEPT !.dpad = d]
                  /\ UNCHANGED controlled

VelCallback(t) == /\ controller' = [controller EXCEPT !.twist = t, !.old = FALSE]
                  /\ UNCHANGED controlled

(* k_when_to_stop_s_ passes without a twist.                               *)
TwistGetsOld ==
  /\ ~controller.old
  /\ controller' = [controller EXCEPT !.old = TRUE]
  /\ UNCHANGED controlled

(* The D-pad has priority over the twist.                                  *)
Desired == IF controller.dpad # 0
             THEN [linear |-> Full * controller.dpad, angular |-> 0]
             ELSE controller.twist

(* Roll is corrected by a turn, unless a turn is asked for, and slows the  *)
(* robot down.                                                             *)
Corrected(t) ==
  LET roll == controller.attitude.roll IN
  [linear  |-> IF roll \in {-2, 2} THEN t.linear \div 3 ELSE t.linear,
   angular |-> IF t.angular # 0 \/ roll = 0 THEN t.angular
               ELSE IF roll > 0 THEN 1 ELSE -1]

(* Mutant: the D-pad is obeyed although no twist arrives.                  *)
DPadFirst ==
  IF Critical(controller.attitude) \/ (controller.old /\ controller.dpad = 0)
    THEN Zero ELSE Corrected(Desired)

(* Mutant: only a roll is critical.                                        *)
RollOnly ==
  IF controller.old \/ controller.attitude.roll \in {-3, 3}
    THEN Zero ELSE Corrected(Desired)

Output == IF controller.old \/ Critical(controller.attitude)
            THEN Zero ELSE Corrected(Desired)

TimerCallback == controlled' = <<Output>> /\ UNCHANGED controller
=============================================================================
