---------------------------- MODULE ObstacleStop ----------------------------
(***************************************************************************)
(* From an obstacle to the stop: the lidar on the turret, ellipse_model,   *)
(* obstacle_detection and auto_drive, with the topics that connect them.   *)
(* The operator may press X at any time.  The turret is what TurretHeading *)
(* shows of it: a heading that changes and is published, with the lidar    *)
(* following it after a while.                                             *)
(***************************************************************************)
EXTENDS Topics

CONSTANTS
  Pipes,      \* where something may be: a set of sets of headings
  MaxTurns    \* bound: turns of the turret

ASSUME ObstacleStopAssumption ==
  /\ Pipes \subseteq SUBSET Headings
  /\ MaxTurns \in Nat

VARIABLES
  auto, autoJoy, stops, autoDirection, drive,
  ellipse, ellipseDirection, distances,
  obstacle,
  heading,     \* the heading turret_joystick_node commands and publishes
  turning,     \* the turret is not there yet
  turns,       \* turns so far
  blocked,     \* headings in which something is in the pipe
  lidar,       \* the lidar delivers scans
  detecting    \* the process obstacle_detection is running

autoVars    == <<auto, autoJoy, drive>>
ellipseVars == <<ellipse, distances>>
world       == <<heading, turning, turns, blocked, lidar, detecting>>
stopVars == <<autoVars, stops, autoDirection, ellipseDirection, ellipseVars,
          obstacle, world>>

AutoNode == INSTANCE AutoDrive
Ellipse  == INSTANCE EllipseModel
Obstacle == INSTANCE ObstacleDetection

StopTypeOK ==
  /\ auto \in AutoNode!AutoState /\ drive \in AutoNode!Drives
  /\ autoJoy \in Queue(BOOLEAN) /\ stops \in Queue(BOOLEAN)
  /\ autoDirection \in Queue(Headings) /\ ellipseDirection \in Queue(Headings)
  /\ distances \in Queue(Headings) /\ ellipse \in Headings
  /\ obstacle \in Obstacle!ObstacleState
  /\ heading \in Headings /\ turning \in BOOLEAN /\ turns \in 0..MaxTurns
  /\ blocked \subseteq Headings /\ lidar \in BOOLEAN /\ detecting \in BOOLEAN

StopInit ==
  /\ auto = AutoNode!Started /\ drive = "stop" /\ autoJoy = <<>>
  /\ stops = <<>> /\ autoDirection = <<>> /\ ellipseDirection = <<>>
  /\ ellipse = "forwards" /\ distances = <<>>
  /\ obstacle = Obstacle!Started
  /\ heading = "forwards" /\ turning = FALSE /\ turns = 0
  /\ blocked \in Pipes /\ lidar = TRUE /\ detecting = TRUE
-----------------------------------------------------------------------------
(* The nodes' steps: a step A of one of them leaves the others alone.      *)
OfAuto(A) == A /\ UNCHANGED <<ellipseDirection, ellipseVars, obstacle, world>>

OfEllipse(A) == A /\ UNCHANGED <<autoVars, stops, autoDirection, obstacle, world>>

OfDetection(A) ==
  /\ detecting
  /\ A
  /\ UNCHANGED <<autoVars, autoDirection, ellipseDirection, ellipse, world>>

(* A scan looks towards the heading, or anywhere while the turret turns.   *)
Scans == IF turning THEN [at : {"between"}, close : BOOLEAN]
                    ELSE {[at |-> heading, close |-> heading \in blocked]}

Scan == lidar /\ \E s \in Scans : OfDetection(Obstacle!ScanCallback(s))
-----------------------------------------------------------------------------
(* The world around the nodes.                                             *)
Nodes == <<auto, drive, ellipseVars, obstacle>>

JoyArrives ==
  /\ \E down \in BOOLEAN : autoJoy' = Arrived(autoJoy, down)
  /\ UNCHANGED <<Nodes, stops, autoDirection, ellipseDirection, world>>

(* toggle_turret, and the turret that follows.                             *)
PublishHeading ==
  /\ autoDirection' = Arrived(autoDirection, heading')
  /\ ellipseDirection' = Arrived(ellipseDirection, heading')
  /\ UNCHANGED <<Nodes, autoJoy, stops, blocked, lidar, detecting>>

TurretToggles ==
  /\ turns < MaxTurns
  /\ turns' = turns + 1
  /\ heading' \in Headings \ {heading}
  /\ turning' = TRUE
  /\ PublishHeading

TurretPublishes == UNCHANGED <<heading, turning, turns>> /\ PublishHeading

TurretArrives ==
  /\ turning
  /\ turning' = FALSE
  /\ UNCHANGED <<Nodes, autoJoy, stops, autoDirection, ellipseDirection,
                 heading, turns, blocked, lidar, detecting>>

LidarDies ==
  /\ lidar
  /\ lidar' = FALSE
  /\ UNCHANGED <<Nodes, autoJoy, stops, autoDirection, ellipseDirection,
                 heading, turning, turns, blocked, detecting>>

DetectionQuits ==
  /\ detecting
  /\ detecting' = FALSE
  /\ Obstacle!Quit
  /\ UNCHANGED <<autoVars, autoDirection, ellipseDirection, ellipse,
                 heading, turning, turns, blocked, lidar>>

StopNext ==
  \/ OfAuto(AutoNode!SwitchOn) \/ OfAuto(AutoNode!OtherCallbacks)
  \/ OfEllipse(Ellipse!TurretCallback) \/ OfEllipse(Ellipse!ImuCallback)
  \/ OfDetection(Obstacle!EllipseCallback) \/ Scan
  \/ OfDetection(Obstacle!ScanGetsOld) \/ OfDetection(Obstacle!TimerCallback)
  \/ JoyArrives \/ TurretToggles \/ TurretPublishes \/ TurretArrives
  \/ LidarDies \/ DetectionQuits

StopSpec == StopInit /\ [][StopNext]_stopVars

(* Every node's executor runs each of its callbacks and timers again and   *)
(* again, the IMU and a living lidar deliver, the turret publishes its     *)
(* heading and reaches it, and without scans the timeout passes.  Nobody   *)
(* has to press a button, and nothing has to fail.                         *)
StopFairness ==
  /\ WF_stopVars(OfAuto(AutoNode!StopCallback))
  /\ WF_stopVars(OfAuto(AutoNode!DirectionCallback))
  /\ WF_stopVars(OfEllipse(Ellipse!TurretCallback))
  /\ WF_stopVars(OfEllipse(Ellipse!ImuCallback))
  /\ WF_stopVars(OfDetection(Obstacle!EllipseCallback))
  /\ WF_stopVars(OfDetection(Obstacle!TimerCallback))
  /\ WF_stopVars(~lidar /\ OfDetection(Obstacle!ScanGetsOld))
  /\ WF_stopVars(Scan)
  /\ WF_stopVars(TurretPublishes) /\ WF_stopVars(TurretArrives)

StopFairSpec == StopSpec /\ StopFairness
-----------------------------------------------------------------------------
(* A robot that drives towards something in the pipe does not go on for    *)
(* ever: also when the turret turned meanwhile, and scans were compared    *)
(* with the model for another heading.                                     *)
BlockedStops ==
  \A h \in Headings : (drive = h /\ h \in blocked) ~> (drive # h)

(* auto_drive drives only while it is on, no stop is required and the      *)
(* turret has the heading of the command.                                  *)
StopDriveMatches ==
  drive # "stop" => auto.enabled /\ ~auto.stop_required /\ drive = auto.heading

(* When obstacle_detection has ended and what it published has been taken, *)
(* the robot stands, whatever the operator presses from then on: its last  *)
(* message, published by main on its way out, is a stop, the clearances    *)
(* before it are not taken after it, and a full queue drops one of those.  *)
Silenced == ~detecting /\ stops = <<>> => drive = "stop"

(* Why it holds: that stop is the last in the queue, or has been taken.    *)
LastWord ==
  ~detecting => IF stops = <<>> THEN auto.stop_required ELSE stops[Len(stops)]

(* Without scans (lidar_timeout), or once obstacle_detection has ended     *)
(* with its last stop, the robot stops and no press starts it again.       *)
BlindStops == (~lidar \/ ~detecting) ~> [](drive = "stop")

(* Its safety part: once auto_drive has taken a stop and only stops are on *)
(* their way to it, it can be left to itself: no press, heading or timer   *)
(* moves the robot again, and no clearance follows.                        *)
Unseen == ~detecting \/ (~lidar /\ obstacle.scan # "recent")
Told   == auto.stop_required /\ stops \in Queue({TRUE})
BlindStays ==
  [][Unseen /\ Told => Unseen' /\ Told' /\ drive' = "stop"]_stopVars
=============================================================================
