# The pipe-inspection robot in TLA+

A specification of the control software of the four-wheeled pipe robot (ROS 2
packages under `src/src`): TLA+ modules translated from the C++ and Python
sources, TLC runs that check them on small instances, and TLAPS proofs of what
matters most for every value of the constants.

`PROJECT.json` lists the components, the runs, the source lines behind each
definition (`map`), a mutation of the model that each property catches
(`mutants`), the disagreements found (`findings`), what is hard to test in the
code (`hazards`) and the theorems.

    tlc -config MCComms.cfg MCDynamixelComms.tla     # a run
    tlapm DynamixelComms_proofs.tla                  # the proofs of a component

## The system

    joy ──► teleop_twist_joy ──────────────┐
     │                                     ├─ /cmd_vel ─► low_control_with_imu
     ├────► auto_drive ────────────────────┘                    │  ▲ ▲
     │        ▲     ▲                            /controlled_cmd_vel │ └ /joy (D-pad)
     │ /stop_obstacle  /turret_is_forward                       │  └ rpy (IMU)
     │        │     │                                           ▼
     │ obstacle_   turret_joystick                    diff_drive_controller
     │ detection     │      │ turret command                    │ all_motors
     │   ▲    ▲      │      ▼                                   ▼
     │  /scan ellipse_   servo_node ─────► DynamixelComms ◄── multiple_wheel_drive_node
     │   │    model                        (+ deadman thread)
     │ ldlidar  ▲                               │ bus
     │          └ rpy ◄ quat_to_euler      5 × DynamixelServo (4 wheels, turret)
     │                     ▲
     └ buttons          bno08x_driver (IMU, + watchdog thread)

| Component | State it keeps | Operations | Correct when |
|---|---|---|---|
| `dynamixel_driver`: `DynamixelComms` | `comms_mutex_`, the atomics `deadmans_switch_` and `deadmans_switch_enabled_`; the servos' registers | `SetAllRPM`, `SetRPM`, `Set(All)RelativePosition`, `SetServoPosition`, `Reboot`, from one executor thread; `DeadmansSwitchLoop` every 500 ms in its own | the wheels stop when commands cease, whatever round or call is under way; position moves are not stopped for long; no call waits for ever |
| `dynamixel_driver`: `DynamixelServo` | mode, `total_encoder_count_`, `last_encoder_count_` | mode change, relative move, encoder total, reboot: sequences of bus transactions that may fail | the total survives mode changes; torque is off when the mode is written and on between calls |
| `dynamixel_driver`: nodes | none to speak of | one callback per topic, a diagnostics timer | a message of wheel speeds is taken whole or not at all |
| `auto_drive` | enabled, stop required, heading, last buttons | four subscriptions, a timer | the robot starts once per press, stops on a stop, a toggle or a heading |
| `obstacle_detection`, `ellipse_model` | the model, its heading, the latest result and its age | subscriptions, timers | drives into nothing; blind means stopped |
| `turret_joystick` | heading, pending command, repeats | button toggles, repeats, alignment, published heading | the servo is at the node's angle for its heading, the listeners have it |
| `low_control_with_imu` | latest twist and its age, joy, roll, pitch | three subscriptions, a 200 ms timer | stops when twists cease or the robot tilts |
| `chassis_controller` | the robot description | converts twists | only a valid description is used |
| `ldlidar_stl_ros2` | points collected, newest frame, its flag | reader thread; main's 10 Hz loop | scans are whole turns, fresh, not published for ever |
| `bno08x_driver` | sensor object and mutex, received parts, watchdog | constructor, poll timer, watchdog thread | silence is noticed, the sensor initialised again |
| `joystick_action_controller` | `action_running_` of two action clients, the turret's delay | held buttons, goals, rejections, results | a held button starts one goal at a time, and the next one after it |
| `camera_ros`: node | a thread, mutex and condition variable per request, `running` | `requestComplete` from libcamera's thread, `process`, constructor, destructor | frames go round for ever and are not read while the camera has them; the destructor leaves nothing behind |
| `camera_ros`: parameters | parameters, `store`, `tmp_store`, `control_values` | set, validate, apply, redeclare, move to a request | no time is set in mode "auto"; what was accepted reaches the camera |
| `libcamera` | each request's status, the queues of the camera and of the device | queue, take, refuse, fill, complete, stop | both queues agree; all requests come back |
| `rpi_monitor`, `quat_to_euler`, `robot_pose_publisher`, launch files, `sh2` | see the end | | |

They interact through ROS topics (queues that keep the last few messages and
drop older ones; the order within a topic holds, between topics nothing does),
through calls under `comms_mutex_` in the driver, through actions between the
joystick's clients and their servers, and in four places through shared memory
between threads: `DynamixelComms`, the lidar driver, the IMU's node and the
camera's, which has as many threads as requests.

What is hard: two threads around a mutex and two atomics that are read outside
of it; bus transactions that fail between any two others; queues that drop;
stops that race with starts; timeouts against late messages; processes that end
while others go on; repeated commands that overtake each other; cached
verdicts and models that go stale when the turret turns; condition variables
without a predicate; destructors that meet threads at work. The `hazards` of
`PROJECT.json` have each at its line.

## The modules

| Module | Models | State and actions |
|---|---|---|
| `DynamixelComms` | `dynamixel_comms.cpp`, what it uses of `dynamixel_servo.cpp`, and the callers | one step per stretch in which the other thread can observe nothing: atomics, lock and bus section are separate. `Call…` are the nodes' callbacks, `WriteRPM`, `Arm`, `Reset`, `Disarm`, `WritePosition`, `WriteTurret`, `SendReboot`, `EndReboot` the executor (a reboot is waited for under the mutex, or given up at once if its reply is lost or carries the alert bit, and goes on with the mutex free), `Wake`, `Check`, `Stop`, `Mark` the deadman thread |
| `WheelDriver` | abstract: the driver's promise to the nodes above | commands, rounds that count, slowing down |
| `DynamixelServo` | `dynamixel_servo.cpp` for one wheel | one step per bus transaction; each may be answered, lost, or carried out with its reply lost. `rebooted` remembers a reboot until the torque is switched on again |
| `Topics` | a ROS subscription queue that keeps the last `Depth` | `Queue`, `Arrived` |
| `AutoDrive` | `auto_drive.py` | one action per callback, timer and restart |
| `EllipseModel`, `ObstacleDetection` | `ellipse_model.py`, `obstacle_detection.py` | one action per callback and timer; `Quit` is the last stop published on shutdown |
| `TurretJoystick` | `turret_joystick_node.py` | toggle, repeats, alignment, published heading |
| `OperatorDrive` | `auto_drive` with the operator and an arbitrary rest of the robot | composes `AutoDrive`, `Topics` |
| `DriveContract` | abstract: what the operator is promised | press, start, stop |
| `TurretHeading` | `turret_joystick`, `servo_node.cpp`, `auto_drive` and `ellipse_model` as listeners | composes `TurretJoystick`, `Topics` |
| `ObstacleStop` | lidar to stop | composes `AutoDrive`, `EllipseModel`, `ObstacleDetection`, `Topics` |
| `ImuController` | `imu_controller.cpp` | three callbacks, the age of the twist, the timer with its priorities |
| `DiffDrive` | `diff_drive_controller.cpp` | description and conversion |
| `MultipleWheelDrive` | `multiple_wheel_drive_node.cpp` | what becomes of a message of wheel speeds |
| `DriveChain` | `/cmd_vel` to the wheels | composes the three with `WheelDriver` as the driver; tilting, silence and processes that end |
| `LidarFrames` | `lipkg.cpp`, serial reader, `demo.cpp` | `Read` and `Flag` are the reader thread, the rest main; flag and data are separate steps |
| `Bno08x` | `bno08x_ros.cpp`, `bno08x.cpp`, `watchdog.hpp`, what `sh2` does with a request | `InitSensor(t)` in either thread; `Create`, `Start`, `Poll` main, `Test`, `Look` the watchdog; ticks of time |
| `PipelineHandler` | libcamera's `request.cpp`, `pipeline_handler.cpp`, `pipeline_base.cpp` as far as a request's life goes | the camera's queue, the device's, what is posted between threads; one action per step of the handler's thread |
| `CameraNode` | `CameraNode.cpp` | extends `PipelineHandler` with the requests' threads (`Wait`, `Wake`, `Process`, `Unlock`), the callback, and main: the end of the constructor and the destructor, statement by statement where a thread can come between |
| `ExposureParameters` | `ParameterHandler.cpp`, `ParameterConflictHandler.cpp` | the start with overrides, a change of parameters and its four outcomes (assertion, not asked, refused and reverted, accepted); rclcpp holds its lock over all of it |
| `CameraControls` | how controls get to the camera | extends `ExposureParameters` with the requests' threads between two waits; a request is queued, refused by the device, or cannot be queued |
| `JoystickActions` | the four nodes of `joystick_action_controller` | `Callback`, `ResultCallback`; a message that comes when the turret's delay is just ending may find it over in one `SetPosition` and not in the other. The operator and the servers are external |
| `MC…` | values of the constants | |
| `…_proofs` | theorems | |

Abstractions worth knowing:

* Speeds, angles and roll are bands: what the code compares them with is kept,
  the numbers are not. `SetRPM`'s clamp and the servo's refusal of a velocity
  beyond the limit are kept.
* Queues hold `Depth` messages (10 in most of the code); a dropped message of a
  queue that keeps the last is what a small depth makes frequent.
* Faults are nondeterministic and bounded in number, never forced.
* A driver that is busy may overwrite queued servo commands, or the bus may
  lose some: `TurretHeading` allows either, not both at once, since five
  repeats into a queue of one, all but one lost, leave nothing.
* The semi-autonomous part is split into three closed systems. `OperatorDrive`
  has `auto_drive` in an arbitrary environment. `TurretHeading` shows that the
  listeners come to have the node's heading, and the servo the angle the node
  has for it; which way the turret looks at that angle is not its subject (see
  "Seen on the way"). `ObstacleStop` relies on that, and has a turret that
  follows its published heading after a while, with a turret mounted so that it
  looks ahead at the node's angle for forwards; scans go directly
  to their node, the IMU is taken to be alive, and the last stop that
  `obstacle_detection` publishes on Ctrl-C is taken to be delivered.
* The robot is started in the order of `src/src/Usage_Instructions.txt`, with
  the turret facing forwards, and ended in the reverse order.
* `DriveChain` takes `WheelDriver` for the driver, which `DynamixelComms` is
  shown to implement. Stops a servo misses are therefore `DynamixelComms`'
  subject, not the chain's. Messages to `low_control_with_imu` are taken as
  they arrive, and the chain queues one message at a time.
* `LidarFrames` has one point per packet and a constant speed, reads that bring
  less than two thirds of a turn, and a filter that never empties a frame.
  (`Tofbf::NearFilter` does empty it when all points of a turn make one closed
  group; such a turn is collected into the next.)
* `Bno08x` counts time in ticks, half a check interval each in the run, so that
  reports and looks may fall between each other. An I2C write that fails is
  retried inside `txProcess`, so `enable_report` never fails on I2C.

* `DynamixelServo` abstracts the goal of a relative move: what it does to the
  mode, the torque and the total is kept, where the wheel ends is not.
* `PipelineHandler` has fewer requests than the 32 a device takes, so that its
  waiting queue is empty between steps, and requests without fences. What
  libcamera does with a request that is reused while it is queued is not
  modelled: `CameraNode` stops there (`misused`) and `BufferExclusive` says
  that it takes a spurious wake-up to get there.
* `CameraNode` takes the body of the loop as one step, during which the
  request's mutex is held; what other threads can do to the request is excluded
  by that mutex or by the request not being in the camera.
* `ExposureParameters` has the three controls that depend on each other, and
  exposure times in range or not. The range is rclcpp's to check until
  `ExposureTime` is declared again without one (`ranged`), then
  `OnSetValidate`'s. An override at the start that rclcpp refuses leaves the
  camera without controls, and `tmp_store` set.
* `CameraControls` lets any request be refused by the device, after which
  `reuse` clears what it carried, and `queueRequest` fail, after which the
  request does not come round. Both count as lost controls in `Delivered`: the
  code drops them without a word.
* `DynamixelComms` has a servo's reboot end at any time, also in the middle of a
  call that addresses it; the servo then takes the rest of the call.

## The runs

| Run | What it shows | Bounds | Distinct states |
|---|---|---|---|
| `comms` | deadman's switch and calls | one wheel a side, 3 calls, 1 fault, one speed that is valid and one that is refused | 675 000 |
| `comms_runaway` (violation) | one side runs on after a position call for the other | no fault | |
| `servo` | encoder total, torque, modes | 3 calls, 2 faults, 2 steps of the wheel | 886 000 |
| `operator_drive` | `auto_drive` implements `DriveContract` | depth 2, 4 presses, 2 restarts | 194 000 |
| `turret_heading` | servo and listeners follow the node | depth 2, 3 repeats, 3 toggles, 2 losses | 220 000 |
| `obstacle_stop` | blocked and blind robots stop; the last stop is not overruled | depth 1, one obstacle ahead or behind, 1 toggle | 162 000 |
| `drive_chain` | commands count; loss and tilt stop the wheels | one speed, two ways to tilt, D-pad backwards, a usable robot description or not | 240 000 |
| `lidar` | frames heal, are fresh, are not repeated for ever | 5 packets a turn, 25 packets, 3 lost, 3 a read | 137 000 |
| `imu_watchdog` | silence is noticed, /imu comes back | 3 faults, timeout of two intervals | 20 000 |
| `camera_stream` | frames circulate, are not read too early, and all come back | 2 requests, 1 refused buffer, 1 spurious wake-up | 60 000 |
| `camera_controls` | exposure parameters and their way to the camera | 2 requests, 3 changes of each parameter alone or both exposure parameters, started with nothing, a mode, a time, or a time out of range | 947 000 |
| `joystick_actions` | one goal at a time, the next one after it, the turret follows | a delay of two periods, servers end once | 38 000 |

Why the bounds are enough for what is asked:

* `comms`: front and rear wheel of a side are treated alike, only the sides
  differ. Three calls make every order of a speed command, a position call and
  a third around a round of the switch; a fault can hit any transaction of any
  of them, or the stop. Rounds are not bounded. A reboot whose reply is lost
  costs none of the faults, so that calls and rounds meet a servo that is down
  and a fault besides. A speed of zero is what the rounds write.
* `servo`: two mode changes with a move of the wheel within and between, and a
  failed read in each. `TypeOK` and the encoder's invariant are also proved.
* `operator_drive`: with queues of two a message can be overtaken by a drop;
  four presses and two restarts include a restart with the button held and a
  press left over from before. Stops and headings are not bounded.
* `turret_heading`: with three repeats and a queue of two, repeats overwrite
  each other and a newer toggle; two of three can be lost.
* `obstacle_stop`: one turn of the turret is what makes models and verdicts
  stale. Scans, presses and timers are not bounded. `Silenced` is about queues,
  which hold one message in the run; it is proved for any depth, and TLC found
  no counterexample with two, either (3.5 million states).
* `lidar`: three losses hit both sides of a cut, or two cuts in a row, so that
  frames are merged until they are discarded; 25 packets leave two turns to
  heal in. The constants in `Healed` (one turn) and `RepeatsBounded` (three)
  are tight: with a packet or a copy less TLC finds a counterexample. So is the
  assumption of `Fresh` (`ShortReads`, see the proofs): with four packets a read
  instead of three, frames are late.
* `imu_watchdog`: three faults are enough for a sensor that is lost, comes
  back without its settings, and restarts in the middle of its initialisation.
  Each exception in `Recovers` is needed: without any one of them TLC finds a
  behaviour that only it allows.

* `camera_stream`: two requests are in the camera, at work, or one in each;
  rounds are not bounded, and the shutdown may come in any of them. The same
  properties hold with three requests and no spurious wake-up (570 000 states).
* `camera_controls`: two threads are enough to redeclare the same parameter
  twice and to overtake each other; three changes to set, unset and give back.
  Refused and failed requests are not bounded. The default time is not asked
  for: it gets set by being given back.
* `joystick_actions`: goals, presses and rounds are not bounded; a server that
  has ended comes back.

### What the properties say

* `DeadmanStops`: with the switch enabled, two rounds after the latest reset no
  wheel turns, unless a servo missed the latest stop. `SilenceStops`: when the
  nodes fall silent an enabled switch stops the robot for good.
  `OneLateStop`: at most one round that had read the flag before stops a
  position move. `ArmedWhileDriving`: without faults, a robot whose both sides
  turn is guarded. `CallReturns`: every call returns. `ImplementsDriver`: all
  this is what `WheelDriver` promises.
* `EncoderAccounts`, `ReturnsTravel`: the driver's total is the wheel's travel
  less what it turned within mode changes. `ReadyBetweenCalls`,
  `ModeChangesUnpowered`: torque around mode changes. The former says of reboots,
  too, that the torque is off after one until the next mode change and no
  longer, as long as no transaction fails.
* `DriveMatches`: a drive command is out only while auto drive is on, no stop
  is required and the heading is the command's. `ImplementsContract`: the robot
  starts from a standstill only, once per press, and keeps its direction.
* `ServoFollows`, `ListenersFollow`, `Agreement`: whenever nothing is on the way
  to them, the servo is at the angle `turret_joystick_node` has for its heading
  (or was never sent anywhere and the heading is the first one), and both
  listeners have the heading; and all come to be so.
* `BlockedStops`, `BlindStops`: a robot driving at something stops; without
  scans, or once `obstacle_detection` has ended, it stops for good. `Silenced`:
  when that node has ended and its messages have been taken, the robot stands
  whatever is pressed: its last stop is neither dropped nor overruled.
* `LatestCounts`: what was published last decides what the wheels do, or they
  stand. `LossStops`: silence, or the end of any process of the chain, stops the
  wheels for good, D-pad and old commands notwithstanding. `TiltStops`.
* `Healed`, `Fresh`, `RepeatsBounded`, `NewestArrives`: scans are whole turns
  again one turn after a loss, complete less than a turn before they are handed
  over, published three times at most, and published in the end. `TypeOK` of
  `LidarFrames` has a bound in it: no more than two turns of points are kept.
* `Noticed`: the IMU's silence is noticed within the timeout and one interval.
  `Recovers`: once sensor and bus work again /imu comes again, or a thread has
  ended, or a lost answer is awaited for ever, or other reports keep the
  watchdog from noticing.

* `BufferExclusive`: no thread works on a request the camera has, unless a wait
  ended by itself, which the loop does not guard against. `QueuesAgree`: what
  libcamera's assertions take for granted of its two queues. `AllReturned`:
  after the destructor libcamera holds nothing and calls back no more.
  `Circulates`: a request comes round again, or its notification was not heard.
  `ShutdownEnds`: the destructor ends if every thread was at its wait.
* `NeverBoth`: no exposure time beside the mode "auto", in parameters and control
  lists alike. `AeEnable` is no part of it, since the code does not keep it apart
  from a time (see "Seen on the way"). `Delivered`: the camera ends as if it
  had been told at once, unless accepted controls were overwritten before a
  request took them, one request overtook another, or a request was refused or
  could not be queued with what it carried. `Available`: a parameter that is
  unset is declared again, and accepted controls are sent, as long as the process
  lives and a request is in circulation.
* `OneGoal`, `Served`: one goal at a time, and another after it while the button
  is held, until a goal fails. `TurretFollows`: the one direction that stays pressed wins;
  with both held nothing is promised, for either may be published.
* Safety parts of what is checked under fairness, and the exceptions to it, each
  a theorem. `SilenceKeeps` (of `SilenceStops`): in silence the switch stays as
  it is and a robot at rest remains so. `BusOwned` (`CallReturns`): the mutex is
  held only by a call that gives it back, and a wheel's servo that is down, with
  the mutex held or free, stands without torque and goal. `BlindStays` (`BlindStops`): blind and told so, the
  robot is moved by nothing. `RefusesToMove` (`TiltStops`, `LossStops`): once only
  stops are on their way, only stops follow, and no wheel turns faster.
  `NoneOverlooked` (`NewestArrives`): no wake-up is lost between the lidar's
  threads. `Accounted` (`Circulates`): no request is in nobody's hands unless a
  notification was not heard. `HangsForGood`, `StuckForGood`, `ShutForGood`: what
  `ShutdownEnds`, `Recovers` and `Served` except does not end by itself.

### Fairness

Every thread and every executor that runs is scheduled, and runs each of its
callbacks again and again: single-threaded executors and timers in the code,
the operating system's scheduler below. A mutex is obtained in the end because
its holders release it. Rebooted servos answer (`ServosAnswer`), which
`Reboot`'s unbounded polling relies on as well. The IMU and a living lidar
deliver, and so does the camera's sensor. libcamera's thread and the requests'
threads are scheduled; a held button repeats its message, and an action server
that is up comes to an end with its goal. Nothing else is assumed: no button is
pressed, no fault happens or is repaired, and messages need not be published, unless the code does it from a
timer. In `DriveChain` the deadman's rounds are counted on only once a process
has ended: while commands go on they need not get anywhere. In `Bno08x` time
does not pass while the poll timer has reports to fetch, since it runs many
times a tick. The operator, the bus and the other nodes are never fair.

### Findings

* `comms_runaway`: `SetRelativePosition` for one side switches the deadman off
  for the robot (`dynamixel_comms.cpp:285`); the other side runs on.

Seen on the way and not a run:

* Which angle is forwards is a disagreement in the repository:
  `turret_joystick_node` sends 180 for it, while `servo_node.cpp:73-74` ("less
  than 90 degrees is forward else backward"), `testing.md:108` ("forward (0
  degrees) and backwards (180 degrees)") and `joystick_node.cpp:38-40` take it to
  be 0. So the two agree only on a turret mounted the other way round.
  `ServoFollows` and `Agreement` are about the node's own angle, and do not say
  that its forwards is the servo's; with the servo's meaning both fail at the
  first command. No run is spent on it: it is a matter of two constants, not of
  a behaviour.
* `SetOperatingMode` does not reboot the servo, against `design.md:105-109`, so
  a wheel beyond the extended range refuses relative moves.
* `diff_drive_controller.cpp:86` has `||` for `&&`: a description with one of
  the two lengths is used, with -1 for the other.
* The watchdog's thread ends for good if it tests its flag before `start()` sets
  it (`watchdog.hpp:22`), against `watchdog_test.cpp:45-47`.
* The rounds of the deadman's switch end with `rclcpp::ok()`
  (`dynamixel_comms.cpp:391`). A driver ended by Ctrl-C while the wheels turn
  joins the thread, which may take a whole timeout, and then stops each wheel by
  one write that switches its torque off (`dynamixel_servo.cpp:85-88`); a write
  that fails is not repeated. `SilenceStops` and `LossStops` speak of a driver
  that runs; its end is not modelled (see the plan).
* A thread of `camera_ros` that is at work when the destructor notifies
  (`CameraNode.cpp:602`) waits for ever, and `join` for it. The same happens to
  a request that completes before its thread is back at the wait (`:631`): its
  buffer is out of circulation. Both are the exceptions of `ShutdownEnds` and
  `Circulates`; the runs fail without them.
* An exception in the constructor after the threads have been started ends the
  process, since they are joinable (`:582`).
* `disconnect` deletes a slot that an emission in another thread may be about to
  call; libcamera's `emit` copies the list of slots, not the slots.
* `ParameterConflictHandler.cpp:153` says "ExposureTime must not be set while
  AeEnable is true", and the code does not keep to it: `AeEnable` is a parameter
  of its own that nothing checks against `ExposureTime` (`:149-193` and
  `ParameterHandler.cpp:324-371` look at the mode), so a list of controls with
  automatic exposure on and a time, in manual mode, is accepted.
* The assertion in `restore` (`ParameterConflictHandler.cpp:169`) is reached
  whenever a time was put aside and the change was then refused without
  `store_commit_or_revert`: while one control's parameter is undeclared, between
  a change and the next completed request, every change fails like that, and so
  does one that is out of the range rclcpp knows; an override at the start that
  is out of range leaves `tmp_store` set from the beginning. (Once
  `ExposureTime` has been declared again, without its range, `OnSetValidate`
  refuses it and does revert.) The model takes these steps and ends with
  `"assertion"`; no property claims that they do not happen.
* A request that the device refuses, or that `queueRequest` does not take
  (`CameraNode.cpp:743`), takes the accepted controls it carries with it: `reuse`
  (`:735`) clears them, and nobody sets them again.
* A reboot whose reply is lost or carries the alert bit, the usual case for one
  that `diagnostics_node.cpp:108` asks for, returns at once
  (`dynamixel_servo.cpp:340-345`): the servo reboots with the mutex free, and
  hears nothing of the calls made meanwhile.
* `low_control_with_imu/README.md:12` speaks of critical roll, pitch and yaw;
  `imu_controller.cpp:146-148` compares roll and pitch. `TiltStops` is about
  these two.
* With both directions of the turret held in `joystick_action_controller`,
  backward may be published although forward comes first in the callback: each
  `SetPosition` reads the clock (`servo_turret_node.cpp:49-50`), and at 5 Hz
  every fifth message comes right when the delay ends.
* Two threads in `redeclare` may both find a parameter missing; the second
  declaration throws (`ParameterHandler.cpp:241`).
* `joystick_node.cpp:47-54` reads the parameter for forwards into the button for
  backwards and vice versa.
* A rejected, failed or lost goal leaves its client's button without effect for
  ever; `OneGoal` and `Served` except it. The ultrasonic client's flag is not
  initialised.

### Hazards without a property

`auto_drive`'s verdicts carry neither heading nor age, models are computed only
while the IMU is alive, a goal position is computed from a failed read, and in
`bno08x_driver` reports taken in while a write is retried in the constructor
reach the callback before the publishers exist (`Retry` ends the process there).
The code has no answer to these, and no property of it would hold.

## The proofs

Each is for all values of the constants that satisfy the named assumptions
(`CommsAssumption` and so on), which say little more than that bounds are
numbers and wheels are not turrets. `FreshCorrect` and `LidarFrames`' own
`TypeCorrect` assume `ShortReads` besides.

| Theorem | Statement | Argument |
|---|---|---|
| `DynamixelComms_proofs!TypeCorrect` | `TypeOK` | inductive |
| `…!DeadmanCorrect` | `DeadmanStops` | `DeadmanInv`: `DeadmanStops` alone is not inductive, for it says nothing of a round under way. What a round has read and written, at each place it can be, once one or two rounds began after the latest reset: that the switch is set after one, that the round will stop after two, and that the wheels stand before it marks. A servo that does not answer is not stopped by a round; that it stands is `BusOwned` |
| `…!LateStopCorrect` | `OneLateStop` | `LateInv`: a round that can still stop has not done so |
| `…!ArmedCorrect` | `ArmedWhileDriving` | `ArmedInv`: while the switch is off, both sides turn only between the write of a speed and the line that arms it, or between the line that disarms it and the mode change of one side |
| `…!DriverCorrect` | refinement of `WheelDriver` | initial states and each step mapped; uses `TypeOK`, `BusOwned` and `DeadmanInv`. `silent` is the number of rounds that are over, and a speed command counts from its bus write |
| `…!SilenceCorrect` | `SilenceKeeps` | action property: a round, an arrival or a late answer only takes speed away from a servo |
| `…!OwnedCorrect` | `BusOwned` | inductive with the types: the holder of the mutex is at a place that leads to its release, and no call, round or late answer gives torque or a goal to a servo that is down |
| `DynamixelServo_proofs!TypeCorrect`, `EncoderCorrect` | `TypeOK`, `EncoderAccounts` | `EncoderInv`: within a mode change the total alone is up to date with the moment of its first update |
| `…!ReturnCorrect` | `ReturnsTravel` | action property from `EncoderInv` |
| `…!ReadyCorrect` | `ReadyBetweenCalls` | `PowerInv`: the torque is on at the places between a mode change's end and the next exactly if there was no reboot since, as long as nothing failed |
| `…!UnpoweredCorrect` | `ModeChangesUnpowered` | action property: the mode is written only where the torque has been seen off |
| `Operator_proofs!TypeCorrect`, `DriveCorrect` | `OperatorDrive`: `TypeOK`, `DriveMatches` | inductive together |
| `…!ContractCorrect` | refinement of `DriveContract` | a step is a press, a start, a stop or nothing. That there is a press left to start with is `PressInv`, about the contents of a queue that drops: every message in it can be labelled with the number of presses there were when it was published, labels do not fall along the queue, and rise where the button goes down. A dropped or taken message leaves the rest of the labels valid, and `starts` is at most the label of the message seen last |
| `…!OneGoalCorrect` | `OneGoal` | `JoyInv`: `OneGoal` is inductive with the types. One lemma for each kind of step of a client, since the other client's part is the same |
| `…!ShutCorrect` | `ShutForGood` | action property from `JoyInv` |
| `TurretHeading_proofs!TypeCorrect`, `FollowCorrect` | `TypeOK`, `ServoFollows` | `FollowInv`: every command still to come is for the present heading, and the heading is the first one while the servo node is not there |
| `…!ListenCorrect` | `ListenersFollow` | `ListenInv`: the newest heading, queued for a listener or else taken by it, is the node's; two lemmas say what arriving and taking do to the last message of a queue that drops its first |
| `DriveChain_proofs!TypeCorrect` | `TypeOK` | `TypeInv`: that a waiting message is one of the controller's, which have a motor for each wheel |
| `…!LatestCorrect` | `LatestCounts` | `ChainInv`: what is nearest its publisher is the latest, and nothing passes without a description |
| `…!RefusesCorrect` | `RefusesToMove` | action property from `ChainInv` and `TypeInv`: what the chain passes on are messages from it, and while there is a reason to stop the controller adds none but stops |
| `Lidar_proofs!RepeatsCorrect` | `RepeatsBounded` | `RepeatInv`: fetches made and to come of the newest frame are three at most |
| `…!OverlookedCorrect` | `NoneOverlooked` | inductive: main takes the flag back before it copies, not after |
| `…!HealedCorrect` | `Healed` | `FrameInv`: see below |
| `…!FreshCorrect`, `TypeCorrect` | `Fresh`, `TypeOK`, given `ShortReads` | `LagInv`: see below |
| `…!StopTypeCorrect`, `SilencedCorrect` | `ObstacleStop`: `StopTypeOK`, `Silenced` | `StopInv`: `auto_drive` drives only while no stop is required, and once `obstacle_detection` has ended a stop is the last message in the queue, or was the last one taken (`LastWord`) |
| `…!BlindCorrect` | `BlindStays` | action property from `StopInv`: `Unseen /\ Told` is a set of states without a way out |
| `Bno08x_proofs!TypeCorrect` | `TypeOK` | inductive |
| `…!NoticedCorrect` | `Noticed` | `NoticeInv`: the silence is no longer than `last_reset_` says, and shorter than the timeout when the thread goes to sleep |
| `…!StuckCorrect` | `StuckForGood` | action property from `NoticeInv`: while one thread initialises, the other is not there or waits for the mutex, and does not ask in its place |
| `Camera_proofs!TypeCorrect` | `CameraNode`: `TypeOK` | inductive |
| `…!ExclusiveCorrect` | `BufferExclusive` | `ExclusiveInv`: where a request can be while its thread is at work |
| `…!ReturnedCorrect` | `AllReturned` | `ReturnedInv`: nobody is connected from `disconnect` on, all threads are gone when the camera is stopped, and nothing is queued afterwards |
| `…!AgreeCorrect` | `QueuesAgree` | `QueuesInv`: a request is in one of the queues and once only (`Apart`), and those waiting for the handler's thread are pending. With that, taking the head of one queue takes the head of the other |
| `…!AccountedCorrect` | `Accounted` | `AccountedInv`, with `QueuesInv`: a request is somewhere, wherever its thread is, and in one queue only, so that taking it from one place puts it in the next |
| `…!HangsCorrect` | `HangsForGood` | action property from `ReturnedInv`: in `join` nobody is connected any more, and main notifies nobody |
| `…!ControlsTypeCorrect` | `ControlsTypeOK` | inductive |
| `…!NeverBothCorrect` | `NeverBoth` | inductive with the types; a lemma for each outcome of a change says that `restore` and `apply` keep parameters, store and controls free of a time in mode "auto" |
| `…!DeliveredCorrect` | `Delivered` | `DeliveredInv`: there is a history of exposures `W` from what the camera has to what is wanted, each the result of the next controls that a thread holds or is about to queue; the threads hold one list each, and hand them over in the order in which they took them; a list that is refused ends the claim |

### Frames: `FrameInv` and `LagInv`

`FrameInv` says of the points collected, followed by the number of the packet to
come, that a number is missing only up to the latest loss, and that they begin
where the angle passed zero if they begin more than a turn after it. `Read`
keeps it, since what arrives has gaps only where packets are missing
(`ArrivalsUnbroken`, `JoinUnbroken`, `ReadUnbroken`); `AssemblePacket` keeps it,
since a cut that lies more than a turn after the latest loss is one at zero
(`CutAligned`), and one turn after the cut before (`WholeTurns`). That uses the least passage of zero, and so an
induction over numbers: the prover has none, but the library's theorem that `<`
on the naturals is well-founded gives every set of numbers a least element
(`LeastNumber`), which is what the lemmas use. Multiples of a turn are dealt
with in `Remainder`, `Quotient` and `Turning`.

`LagInv` says that points in which the angle has passed zero begin with the
latest read, and that two turns of points are the most. A read that brings a
passage and the rest of the points before it cuts one frame only; that the next
read is in time for what it leaves is where the number of packets in a read
matters. `ShortReads` is what the argument needs, `2 * MaxBurst <= Sectors + 1`,
and it cannot be weakened: TLC violates both `LagInv` and `Fresh` with four
packets a read and five a turn. The code does not enforce it. A lidar of this
kind sends some 37 packets a turn and a read takes 4096 bytes, 87 packets; but
`RxThreadProc` does nothing else than read, so a read brings half a turn only if
the thread was kept from running for 50 ms. After such a delay frames may be
late by the reads it takes to cut those before them, one read for each.

### What the proofs changed in the model

* `DynamixelComms`: since a servo may reboot with the mutex free, a round may
  meet a servo that does not hear it without any fault. `DeadmanStops` counts it
  as stopped; that this is right needs an invariant of its own, the second half
  of `BusOwned`.
* `CameraControls`: `Delivered` excepts controls that were overwritten before a
  request took them. The history variable for this used to recognize them by
  their being other than those of the camera's start, which is wrong for a
  change to just these values: the proof of `DeliveredInv` failed there. Now
  `accepted` says where `control_values` come from, and the run has such a
  change.
* `LidarFrames`: `CHOOSE` and `SelectSeq` over the packets of a read are replaced
  by sets (`Arrivals`, `Missing`, `IsCut`) that say the same and can be reasoned
  about. `Fresh` relates a frame to the packet that completes it, which is what
  it is about: the first one left over. Before it was the frame's last packet,
  which without losses is the one ahead of that; but when a whole turn is lost
  right behind it, its age says nothing about the driver.
* `CameraNode`: `QueuesAgree` relates positions in the two queues, not filtered
  queues, since the filter is a recursive definition.
* `ObstacleStop`, `TurretHeading`: `Silenced` and `ListenersFollow` are new,
  safety parts of `BlindStops` and `Agreement` that hold at every moment. The
  latter tells a heading published too early from one published in time, which
  `Agreement` does not, since a timer publishes it again.
* Nothing was changed for the safety parts of the properties under fairness;
  they are definitions beside those properties. The runs do not list them: TLC
  finds each to hold on the run of its component when it is added there, and
  reaches the states that `HangsForGood` and `Accounted` speak of.

Names of `CameraControls`, `JoystickActions` and `ObstacleStop` begin with the
module's subject where another module of the same `…_proofs` has the name too.
Lemmas on queues that keep the last are at the head of the modules that use
them. The type invariants that are proved are not checked by the runs as well,
except that of `LidarFrames`, which has a bound in it.

Only model-checked is everything under fairness, which is out of the prover's
reach, though the safety parts above are not: `SilenceStops`, `CallReturns`, `Agreement`, `BlockedStops`, `BlindStops`,
`LossStops`, `TiltStops`, `NewestArrives`, `Recovers`, `Circulates`,
`ShutdownEnds`, `Available`, `Served`, `TurretFollows`. `NoRunaway` is violated
(see the findings). Every other property of a run is a theorem.

## Not modelled, and why

* Diagnostics and relative moves by message in `dynamixel_driver`: planned.
* `rpi_monitor`: reads `/proc`; percentages from differences.
* `quat_to_euler`, `robot_pose_publisher`: functions of one message.
* `camera_ros`: choosing camera, format and size, the other controls, the
  conversion of images, the node's own parameters.
* `libcamera`, by far the most of the source tree, is third-party code kept
  there so that it can be built for the Raspberry Pi. Modelled is what
  `camera_ros` meets; left out are the other pipeline handlers, image
  processing, Android, fences, more requests than a device takes and cameras
  that are unplugged. So the share of all lines that the modules cover is small
  by the nature of the tree; of the robot's own packages they cover most.
* `sh2`: third-party; how it sends requests and waits for answers is in
  `Bno08x`.
* Launch files, messages, URDF: read for the values the nodes get.
* The geometry of ellipses, wheels and angles, and Ctrl-C within a callback.

## Plan

The order so far: the driver and its deadman's switch first, because everything
else relies on the wheels stopping; the servo; the semi-autonomous nodes; the
chain that connects the two; the sensors; the camera and the joystick's actions.

Next, in this order:

1. `DriverNodes`: the diagnostics timer that reboots a servo between two
   messages, relative moves by message, on top of `DynamixelComms`; a reboot
   leaves the torque off until a mode change.
2. `ImuController` at the start of the node: the D-pad moves the robot in the
   first half second although its README asks for twists first.
3. Shutdown of the driver: the destructors of `DynamixelComms` and of the servos
   against the deadman thread, and a torque write that fails there.
4. `rpi_monitor`'s unsigned differences.

Proofs: every invariant and action property of the passing runs is a theorem,
and so are both refinements and the safety parts of most liveness properties.
`BlockedStops`, `Available` and `TurretFollows` have none that would say more than
one action does. Liveness itself is left to TLC. A new proof should keep its
leaves small: those about remainders and queues near the limit of the solver
carry a time of their own (`SMTT`).
