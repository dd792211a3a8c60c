----------------------------- MODULE DriveChain -----------------------------
(***************************************************************************)
(* From /cmd_vel to the wheels: low_control_with_imu,                      *)
(* diff_drive_controller, multiple_wheel_drive_node and the driver, which  *)
(* is what WheelDriver promises.  Twists come from whoever drives, the     *)
(* operator's teleop node or auto_drive, and may cease; the robot may      *)
(* tilt; the processes in between may end.                                 *)
(*                                                                         *)
(* Messages to low_control_with_imu are taken as they arrive: it queues    *)
(* ten of each and they may arrive at any time.                            *)
(***************************************************************************)
EXTENDS ImuController, MultipleWheelDrive

CONSTANTS
  Twists,      \* what is published on /cmd_vel
  Attitudes,   \* how the robot may lie
  DPad,        \* values of the D-pad's axis
  Received     \* robot descriptions that may be received

ASSUME DriveChainAssumption ==
  /\ Zero \in Twists /\ Twists \subseteq Twist
  /\ Attitudes \subseteq Attitude /\ DPad \subseteq -1..1

VARIABLES
  model, allMotors,
  velocity, watched, silent,
  attitude,    \* how the robot lies
  linked,      \* twists still come
  running,     \* the processes that have not ended
  published    \* history: the twist the controller published last

driver == <<velocity, watched, silent>>
world  == <<attitude, linked, running>>
vars == <<controller, controlled, model, allMotors, driver, world, published>>

Velocities == -(Full + 1)..(Full + 1)
Processes  == {"low_control_with_imu", "diff_drive_controller"}

Diff   == INSTANCE DiffDrive
Driver == INSTANCE WheelDriver WITH Wheel <- Wheels

ASSUME ReceivedAssumption == Received \subseteq Diff!Descriptions

Speeds == [linear: -Full..Full, angular: {-1, 0, 1}]

TypeOK ==
  /\ controller \in ControllerState
  /\ Len(controlled) <= 1 /\ \A i \in DOMAIN controlled : controlled[i] \in Speeds
  /\ model \in Diff!Descriptions \cup {"none"}
  /\ Len(allMotors) <= 1 /\ \A i \in DOMAIN allMotors : IsSpeed(allMotors[i])
  /\ velocity \in [Wheels -> Velocities] /\ watched \in BOOLEAN /\ silent \in 0..2
  /\ attitude \in Attitude /\ linked \in BOOLEAN /\ running \subseteq Processes
  /\ published \in Speeds

Init ==
  /\ controller = Started /\ controlled = <<>>
  /\ model = "none" /\ allMotors = <<>>
  /\ Driver!Init
  /\ attitude = Started.attitude /\ linked = TRUE /\ running = Processes
  /\ published = Zero
-----------------------------------------------------------------------------
(* The controller's callbacks and its timer.                               *)
OfController(A) ==
  /\ "low_control_with_imu" \in running
  /\ A
  /\ UNCHANGED <<model, allMotors, driver, world>>

Imu   == OfController(ImuCallback(attitude)) /\ UNCHANGED published
Joy   == (\E d \in DPad : OfController(JoyCallback(d))) /\ UNCHANGED published
Vel   == linked /\ (\E t \in Twists : OfController(VelCallback(t))) /\ UNCHANGED published
Late  == OfController(TwistGetsOld) /\ UNCHANGED published
Timer == OfController(TimerCallback) /\ published' = Output

(* The callbacks of diff_drive_controller.                                 *)
OfDiff(A) ==
  /\ "diff_drive_controller" \in running
  /\ A
  /\ UNCHANGED <<controller, driver, world, published>>

Describe == \E d \in Received : OfDiff(Diff!DescriptionCallback(d))
Convert  == OfDiff(Diff!CommandCallback)
-----------------------------------------------------------------------------
(* The driver.  That a servo misses its part of a command or of a stop is  *)
(* DynamixelComms' concern.                                                *)
Wheel ==
  /\ allMotors # <<>>
  /\ IsSpeed(Head(allMotors))
  /\ allMotors' = <<>>
  /\ Driver!Command(SetAllMotorsSpeed(Head(allMotors)))
  /\ UNCHANGED <<controller, controlled, model, world, published>>

OfDriver(A) ==
  A /\ UNCHANGED <<controller, controlled, model, allMotors, world, published>>

(* The deadman's switch stops all wheels, or it does nothing.              *)
Round == OfDriver(\E v \in {velocity, Driver!Still} : Driver!Round(v))

LateStop == OfDriver(Driver!Slow(Driver!Still))
-----------------------------------------------------------------------------
Nodes == <<controller, controlled, model, allMotors, driver, published>>

Tilt == /\ attitude' \in Attitudes
        /\ UNCHANGED <<Nodes, linked, running>>

LinkLost == /\ linked /\ linked' = FALSE
            /\ UNCHANGED <<Nodes, attitude, running>>

Ends == /\ \E p \in running : running' = running \ {p}
        /\ UNCHANGED <<Nodes, attitude, linked>>

Next == \/ Imu \/ Joy \/ Vel \/ Late \/ Timer
        \/ Describe \/ Convert
        \/ Wheel \/ Round \/ LateStop
        \/ Tilt \/ LinkLost \/ Ends

Spec == Init /\ [][Next]_vars

(* The processes that run are scheduled; the IMU delivers; without twists  *)
(* the timeout passes.  The driver's rounds are only counted on once a     *)
(* process has ended: while commands go on they need not get anywhere.     *)
Interrupted == running # Processes

Fairness == /\ WF_vars(Imu) /\ WF_vars(Timer) /\ WF_vars(Convert)
            /\ WF_vars(Wheel)
            /\ WF_vars(~linked /\ Late)
            /\ WF_vars(Interrupted /\ Round)

FairSpec == Spec /\ Fairness
-----------------------------------------------------------------------------
(* Whoever drives can fall silent, and any process on the way can end: the *)
(* wheels come to a stop for good, with the D-pad left pressed, the robot  *)
(* rolled to one side, or an old command still on its way.                 *)
LossStops == (~linked \/ Interrupted) ~> [](velocity = Driver!Still)

(* "At this point, the robot will stop and refuse to move": a robot that   *)
(* stays tilted stops, whatever is commanded or ends.                      *)
TiltStops == <>[]Critical(attitude) => <>[](velocity = Driver!Still)

(* What the controller published last is what counts: once it has passed   *)
(* through, each wheel does that or stands, although messages overwrite    *)
(* each other on the way, come before the robot description does, or meet  *)
(* a stop of the deadman's switch.                                         *)
Follows(w) == velocity[w] \in {0, SetAllMotorsSpeed(Diff!Motors(published))[w]}

LatestCounts == controlled = <<>> /\ allMotors = <<>> => \A w \in Wheels : Follows(w)

(* Nothing that moves the robot is published: the controller has seen that *)
(* the robot is tilted too far, or the twists have ceased, or it has ended. *)
Refuses ==
  \/ Critical(attitude) /\ Critical(controller.attitude)
  \/ ~linked /\ controller.old
  \/ "low_control_with_imu" \notin running

(* The messages that are on their way ask for a stop.                      *)
StopsOnly ==
  /\ \A i \in DOMAIN controlled : controlled[i] = Zero
  /\ \A i \in DOMAIN allMotors : allMotors[i] = Diff!Motors(Zero)

(* "At this point, the robot will stop and refuse to move": for as long as *)
(* there is a reason to, once the messages on their way ask for a stop, so *)
(* do those that follow, and no wheel turns faster, whatever the D-pad,    *)
(* the deadman's switch or a late robot description may do.                *)
RefusesToMove ==
  [][Refuses /\ StopsOnly =>
       StopsOnly' /\ \A w \in Wheels : velocity'[w] \in {velocity[w], 0}]_vars

(* Why it holds: what is nearest to its publisher is the latest, and       *)
(* nothing passes without a description to go by.                          *)
ChainInv ==
  /\ controlled = <<>> \/ controlled = <<published>>
  /\ ~Diff!Usable => allMotors = <<>> /\ velocity = Driver!Still
  /\ controlled = <<>> /\ allMotors # <<>> => allMotors = <<Diff!Motors(published)>>
  /\ LatestCounts
=============================================================================
