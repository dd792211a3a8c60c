---------------------------- MODULE EllipseModel ----------------------------
(***************************************************************************)
(* The node ellipse_model: for every IMU message it publishes the distance *)
(* to the wall of an empty pipe at each angle, for the heading it believes *)
(* the turret to have.  Only that heading is kept of a model here.         *)
(***************************************************************************)
EXTENDS Topics

VARIABLES
  ellipse,            \* its heading (is_forward)
  ellipseDirection,   \* its queue of headings
  distances           \* obstacle_detection's queue of models

(* Mutant: the node does not follow the turret.                            *)
IgnoreTurret ==
  /\ ellipseDirection # <<>>
  /\ ellipseDirection' = Tail(ellipseDirection)
  /\ UNCHANGED <<ellipse, distances>>

(* turret_callback.                                                        *)
TurretCallback ==
  /\ ellipseDirection # <<>>
  /\ ellipseDirection' = Tail(ellipseDirection)
  /\ ellipse' = Head(ellipseDirection)
  /\ UNCHANGED distances

(* imu_callback and calculate_ellipse.                                     *)
ImuCallback ==
  /\ distances' = Arrived(distances, ellipse)
  /\ UNCHANGED <<ellipse, ellipseDirection>>
=============================================================================
