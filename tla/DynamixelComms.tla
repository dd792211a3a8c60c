--------------------------- MODULE DynamixelComms ---------------------------
(***************************************************************************)
(* The class DynamixelComms of the package dynamixel_driver: the one       *)
(* object that owns the five Dynamixel servos and the serial bus.          *)
(*                                                                         *)
(* Two threads use it.  The EXECUTOR thread runs the callbacks of all the  *)
(* driver's nodes, one at a time, and each callback makes one call of the  *)
(* interface (SetAllRPM, SetRPM, ...).  The DEADMAN thread wakes every     *)
(* 500 ms and stops the four wheels when no speed command reset the switch *)
(* since its previous round.  comms_mutex_ protects the bus; the two       *)
(* atomics deadmans_switch_ and deadmans_switch_enabled_ are read and      *)
(* written outside of it, so a step of this module ends wherever the other *)
(* thread can see, or change, an atomic or the mutex.                      *)
(*                                                                         *)
(* A section that holds the mutex from its first bus transaction to its    *)
(* last and touches neither atomic is one step: the other thread can       *)
(* observe nothing in the middle of it.  What a bus transaction that fails *)
(* leaves behind is in FaultyConfigured, the Faulty... operators that use  *)
(* it, Outcomes and BulkLost.                                              *)
(***************************************************************************)
EXTENDS Integers, FiniteSets

CONSTANTS
  LeftWheels,    \* motor_front_left_, motor_rear_left_
  RightWheels,   \* motor_front_right_, motor_rear_right_
  Turret,        \* servo_turret_
  Speeds,        \* wheel speeds the nodes ask for (RPM)
  MaximumRPM,    \* kMaximumRPM: beyond it the servo refuses the velocity
  Operations,    \* the calls the nodes make
  MaxCalls,      \* bound: calls made in a behaviour
  MaxFaults      \* bound: calls in which a servo misses a transaction

Wheel == LeftWheels \cup RightWheels
Servo == Wheel \cup {Turret}

ASSUME CommsAssumption ==
  /\ LeftWheels \cap RightWheels = {}
  /\ Turret \notin Wheel
  /\ Speeds \subseteq Int
  /\ MaximumRPM \in Nat
  /\ MaxCalls \in Nat
  /\ MaxFaults \in Nat

VARIABLES
  wheel,      \* wheel[w]: the control registers of a wheel's servo
  down,       \* servos that are rebooting and do not answer yet
  lock,       \* owner of comms_mutex_
  switch,     \* deadmans_switch_
  enabled,    \* deadmans_switch_enabled_
  epc,        \* where the executor thread is
  call,       \* the call it is executing
  dpc,        \* where the deadman thread is
  calls,      \* calls made so far (bounded by MaxCalls)
  faults,     \* calls that met a bus fault (bounded by MaxFaults)
  age,        \* history: deadman rounds begun since the last Reset, 0..3
  late,       \* history: stops since the last Disarm, 0..2
  stopFailed  \* history: a servo that was up missed part of the latest stop

vars == <<wheel, down, lock, switch, enabled, epc, call, dpc,
          calls, faults, age, late, stopFailed>>

None == "none"
Mode == {"velocity", "extended"}

(* torque: the motor is powered.  vel: goal velocity register, positive is *)
(* anti-clockwise.  moving: a goal position was accepted and the shaft has *)
(* not reached it yet.                                                     *)
WheelState == [mode: Mode, torque: BOOLEAN,
               vel: -MaximumRPM..MaximumRPM, moving: BOOLEAN]

RPMCalls      == {"SetAllRPM", "SetRPM"}
PositionCalls == {"SetRelativePosition", "SetAllRelativePosition"}

Call ==
  [op: RPMCalls, rpm: [Wheel -> Speeds], on: {Wheel, LeftWheels, RightWheels}]
    \cup [op: PositionCalls, on: {Wheel, LeftWheels, RightWheels}]
    \cup [op: {"SetServoPosition"}]
    \cup [op: {"Reboot"}, servo: Servo]
    \cup [op: {None}]
NoCall == [op |-> None]

ExecutorPC == {"idle", "locking", "arm", "reset", "disarm", "rebooting"}
DeadmanPC  == {"sleep", "check", "stop", "mark"}

TypeOK ==
  /\ wheel \in [Wheel -> WheelState]
  /\ down \subseteq Servo
  /\ lock \in {None, "executor"}
  /\ switch \in BOOLEAN /\ enabled \in BOOLEAN
  /\ epc \in ExecutorPC
  /\ call \in Call
  /\ dpc \in DeadmanPC
  /\ calls \in 0..MaxCalls /\ faults \in 0..MaxFaults
  /\ age \in 0..3 /\ late \in 0..2 /\ stopFailed \in BOOLEAN
-----------------------------------------------------------------------------
(* What the servo does with a command.                                     *)

(* ConfigureControlMode: a mode change goes through torque off, the new    *)
(* mode, torque on; a servo already in the mode is left as it is, torque   *)
(* included.  The servo clears its goals when its mode changes.            *)
Configured(s, m) ==
  IF s.mode = m
    THEN s
    ELSE [mode |-> m, torque |-> TRUE, vel |-> 0, moving |-> FALSE]

(* The same call when one transaction fails.  A mode that cannot be read   *)
(* counts as a different one, so the servo is reconfigured; torque off may *)
(* be lost, or its reply; the new mode may be refused; torque on may be    *)
(* lost after the mode changed.                                            *)
FaultyConfigured(s, m) ==
  { s,
    [s EXCEPT !.torque = FALSE, !.moving = FALSE],
    [mode |-> m, torque |-> FALSE, vel |-> 0, moving |-> FALSE],
    [mode |-> m, torque |-> TRUE,  vel |-> 0, moving |-> FALSE] }

(* A goal velocity out of the servo's limits is refused.                   *)
InLimits(v) == v <= MaximumRPM /\ -v <= MaximumRPM
WriteVelocity(s, v) == IF InLimits(v) THEN [s EXCEPT !.vel = v] ELSE s

(* DynamixelServo::SetRPM: limited, and reversed on the right wheels,      *)
(* which Init configured as clockwise.                                     *)
Limited(rpm) ==
  IF rpm > MaximumRPM THEN MaximumRPM
  ELSE IF rpm < -MaximumRPM THEN -MaximumRPM ELSE rpm

ServoVelocity(w, rpm) ==
  IF w \in RightWheels THEN -Limited(rpm) ELSE Limited(rpm)

ServoSetRPM(w, s, rpm) ==
  WriteVelocity(Configured(s, "velocity"), ServoVelocity(w, rpm))

FaultySetRPM(w, s, rpm) ==
  {Configured(s, "velocity")}
    \cup {WriteVelocity(c, ServoVelocity(w, rpm)) :
            c \in FaultyConfigured(s, "velocity")}

(* SetAllRPM writes the goal velocities itself, in one bulk packet: the    *)
(* right wheels negated, no limit applied.                                 *)
BulkVelocity(w, rpm) == IF w \in RightWheels THEN -rpm ELSE rpm

BulkSetRPM(w, s, rpm) ==
  WriteVelocity(Configured(s, "velocity"), BulkVelocity(w, rpm))

FaultyBulkSetRPM(w, s, rpm) ==
  {Configured(s, "velocity")}
    \cup {WriteVelocity(c, BulkVelocity(w, rpm)) :
            c \in FaultyConfigured(s, "velocity")}

(* A relative move: extended position mode, then a goal position.          *)
ServoMove(s) ==
  LET c == Configured(s, "extended") IN [c EXCEPT !.moving = c.torque]

FaultyMove(s) ==
  FaultyConfigured(s, "extended")
    \cup {[c EXCEPT !.moving = c.torque] : c \in FaultyConfigured(s, "extended")}

(* What DynamixelComms asks of the wheels for the call c.                  *)
ForCall(w, c) ==
  IF w \notin c.on THEN wheel[w]
  ELSE CASE c.op = "SetAllRPM" -> BulkSetRPM(w, wheel[w], c.rpm[w])
         [] c.op = "SetRPM"    ->
              ServoSetRPM(w, wheel[w], IF w \in RightWheels THEN -c.rpm[w]
                                                            ELSE c.rpm[w])
         [] OTHER              -> ServoMove(wheel[w])

FaultyForCall(w, c) ==
  CASE c.op = "SetAllRPM" -> FaultyBulkSetRPM(w, wheel[w], c.rpm[w])
    [] c.op = "SetRPM"    ->
         FaultySetRPM(w, wheel[w], IF w \in RightWheels THEN -c.rpm[w]
                                                        ELSE c.rpm[w])
    [] OTHER              -> FaultyMove(wheel[w])

(* SetAllRPM and SetAllRelativePosition send their goals to the four       *)
(* wheels in one packet, after the modes: lost, it reaches no wheel.       *)
BulkMode(op) == CASE op = "SetAllRPM"              -> "velocity"
                  [] op = "SetAllRelativePosition" -> "extended"

(* A servo that comes back from its reboot in the middle of the call has   *)
(* missed all of ConfigureControlMode, or the read of the mode only.       *)
LateConfigured(s, m) ==
  {s, [mode |-> m, torque |-> TRUE, vel |-> 0, moving |-> FALSE]}

LateForCall(w, c) ==
  CASE c.op = "SetAllRPM" ->
         {WriteVelocity(s, BulkVelocity(w, c.rpm[w])) :
            s \in LateConfigured(wheel[w], "velocity")}
    [] c.op = "SetRPM"    ->
         {WriteVelocity(s, ServoVelocity(w, IF w \in RightWheels THEN -c.rpm[w]
                                                                 ELSE c.rpm[w])) :
            s \in LateConfigured(wheel[w], "velocity")}
    [] OTHER              ->
         {[s EXCEPT !.moving = s.torque] : s \in LateConfigured(wheel[w], "extended")}

(* What may become of wheel w, when the servos of `back` come back in the  *)
(* middle of the call and the one in `bad` misses some of its transactions. *)
(* A servo that is down hears nothing.                                     *)
Outcomes(w, c, back, bad) ==
  IF w \in back THEN LateForCall(w, c)
  ELSE IF w \in down THEN {wheel[w]}
  ELSE IF w \in bad THEN FaultyForCall(w, c)
  ELSE {ForCall(w, c)}

BulkLost(w, c, back) ==
  IF w \in back THEN LateConfigured(wheel[w], BulkMode(c.op))
  ELSE IF w \in down THEN {wheel[w]}
  ELSE {Configured(wheel[w], BulkMode(c.op))}

Become(outcomes) ==
  wheel' \in {f \in [Wheel -> UNION {outcomes[w] : w \in Wheel}] :
               \A w \in Wheel : f[w] \in outcomes[w]}

(* The bus transactions of the call: all of them succeed, or one of the    *)
(* wheels misses some of its own, or the bulk packet is lost.              *)
Transmit(c) ==
  \E back \in SUBSET (down \cap c.on) :
    /\ down' = down \ back
    /\ \/ /\ Become([w \in Wheel |-> Outcomes(w, c, back, {})])
          /\ UNCHANGED faults
       \/ /\ faults < MaxFaults
          /\ faults' = faults + 1
          /\ \/ \E bad \in c.on \ down :
                  Become([w \in Wheel |-> Outcomes(w, c, back, {bad})])
             \/ /\ c.op \in {"SetAllRPM", "SetAllRelativePosition"}
                /\ Become([w \in Wheel |-> BulkLost(w, c, back)])
-----------------------------------------------------------------------------
(* The state in which main() starts the executor: Init has rebooted every  *)
(* servo, set its mode and switched its torque on.  The constructor does   *)
(* not initialise the two atomics.                                         *)
Init ==
  /\ wheel = [w \in Wheel |-> [mode |-> "velocity", torque |-> TRUE,
                               vel |-> 0, moving |-> FALSE]]
  /\ down = {}
  /\ lock = None
  /\ switch \in BOOLEAN /\ enabled \in BOOLEAN
  /\ epc = "idle" /\ call = NoCall
  /\ dpc = "sleep"
  /\ calls = 0 /\ faults = 0
  /\ age = 0 /\ late = 0 /\ stopFailed = FALSE

(* A callback of one of the nodes makes a call.                            *)
Begin(c, pc) ==
  /\ epc = "idle"
  /\ calls < MaxCalls
  /\ c.op \in Operations
  /\ calls' = calls + 1
  /\ call' = c
  /\ epc' = pc
  /\ UNCHANGED <<wheel, down, lock, switch, enabled, dpc, faults,
                 age, late, stopFailed>>

CallSetAllRPM ==
  \E rpm \in [Wheel -> Speeds] :
    Begin([op |-> "SetAllRPM", rpm |-> rpm, on |-> Wheel], "locking")

CallSetRPM ==
  \E side \in {LeftWheels, RightWheels}, v \in Speeds :
    Begin([op |-> "SetRPM", rpm |-> [w \in Wheel |-> v], on |-> side], "locking")

CallSetRelativePosition ==
  \E side \in {LeftWheels, RightWheels} :
    Begin([op |-> "SetRelativePosition", on |-> side], "disarm")

CallSetAllRelativePosition ==
  Begin([op |-> "SetAllRelativePosition", on |-> Wheel], "disarm")

CallSetServoPosition == Begin([op |-> "SetServoPosition"], "locking")

CallReboot ==
  \E s \in Servo : Begin([op |-> "Reboot", servo |-> s], "locking")

(* A call returns to its callback.                                         *)
Return == epc' = "idle" /\ call' = NoCall

(* SetAllRPM and SetRPM, the part under the mutex.  SetAllRPM keeps the    *)
(* mutex until it returns, SetRPM gives it back before it arms the switch. *)
WriteRPM ==
  /\ epc = "locking" /\ call.op \in RPMCalls
  /\ lock = None
  /\ Transmit(call)
  /\ lock' = IF call.op = "SetAllRPM" THEN "executor" ELSE None
  /\ epc' = "arm"
  /\ UNCHANGED <<switch, enabled, call, dpc, calls, age, late, stopFailed>>

(* Mutant: a speed command resets the switch but does not enable it.       *)
ForgetEnable ==
  /\ epc = "arm"
  /\ epc' = "reset"
  /\ UNCHANGED <<wheel, down, lock, switch, enabled, call, dpc, calls, faults,
                 age, late, stopFailed>>

(* DeadmansSwitchEnable(true).                                             *)
Arm ==
  /\ epc = "arm"
  /\ enabled' = TRUE
  /\ epc' = "reset"
  /\ UNCHANGED <<wheel, down, lock, switch, call, dpc, calls, faults,
                 age, late, stopFailed>>

(* DeadmansSwitchReset(), and the call returns.                            *)
Reset ==
  /\ epc = "reset"
  /\ switch' = FALSE
  /\ lock' = None
  /\ Return
  /\ age' = 0
  /\ UNCHANGED <<wheel, down, enabled, dpc, calls, faults,
                 late, stopFailed>>

(* DeadmansSwitchEnable(false), before the mutex is taken.                 *)
Disarm ==
  /\ epc = "disarm"
  /\ enabled' = FALSE
  /\ epc' = "locking"
  /\ late' = 0
  /\ UNCHANGED <<wheel, down, lock, switch, call, dpc, calls, faults,
                 age, stopFailed>>

(* The rest of SetRelativePosition and SetAllRelativePosition.             *)
WritePosition ==
  /\ epc = "locking" /\ call.op \in PositionCalls
  /\ lock = None
  /\ Transmit(call)
  /\ Return
  /\ UNCHANGED <<lock, switch, enabled, dpc, calls, age, late, stopFailed>>

(* SetServoPosition: the turret's goal position is of no concern here.     *)
WriteTurret ==
  /\ epc = "locking" /\ call.op = "SetServoPosition"
  /\ lock = None
  /\ Return
  /\ UNCHANGED <<wheel, down, lock, switch, enabled, dpc, calls,
                 faults, age, late, stopFailed>>

(* Mutant: the wait for the servo returns with the mutex held.             *)
LeakLock ==
  /\ epc = "rebooting"
  /\ call.servo \notin down
  /\ Return
  /\ UNCHANGED <<wheel, down, lock, switch, enabled, dpc, calls,
                 faults, age, late, stopFailed>>

(* Reboot: the servo loses torque and goals.                               *)
GoesDown(s) ==
  /\ s \notin down
  /\ down' = down \cup {s}
  /\ wheel' = [w \in Wheel |->
                 IF w = s THEN [wheel[w] EXCEPT !.torque = FALSE, !.vel = 0,
                                                !.moving = FALSE]
                          ELSE wheel[w]]

(* The caller keeps the mutex and polls until the servo answers.  If the   *)
(* reply is lost, or carries the servo's alert, it gives up at once, and   *)
(* the servo reboots with the mutex free.  A servo may not hear the        *)
(* request, and one that is down does not.                                 *)
SendReboot ==
  /\ epc = "locking" /\ call.op = "Reboot"
  /\ lock = None
  /\ \/ /\ GoesDown(call.servo)
        /\ \/ lock' = "executor" /\ epc' = "rebooting" /\ UNCHANGED call
           \/ lock' = None /\ Return
        /\ UNCHANGED faults
     \/ /\ \/ call.servo \in down /\ UNCHANGED faults
           \/ faults < MaxFaults /\ faults' = faults + 1
        /\ Return
        /\ UNCHANGED <<down, wheel, lock>>
  /\ UNCHANGED <<switch, enabled, dpc, calls, age, late, stopFailed>>

EndReboot ==
  /\ epc = "rebooting"
  /\ call.servo \notin down
  /\ lock' = None
  /\ Return
  /\ UNCHANGED <<wheel, down, switch, enabled, dpc, calls,
                 faults, age, late, stopFailed>>
-----------------------------------------------------------------------------
(* The deadman thread: DeadmansSwitchLoop.                                 *)

(* Mutant: the loop does not look at deadmans_switch_enabled_.             *)
WakeDisabled ==
  /\ dpc = "sleep"
  /\ age' = IF age < 3 THEN age + 1 ELSE 3
  /\ dpc' = "check"
  /\ UNCHANGED <<wheel, down, lock, switch, enabled, epc, call, calls,
                 faults, late, stopFailed>>

(* The sleep is over; deadmans_switch_enabled_ is read.                    *)
Wake ==
  /\ dpc = "sleep"
  /\ age' = IF age < 3 THEN age + 1 ELSE 3
  /\ dpc' = IF enabled THEN "check" ELSE "sleep"
  /\ UNCHANGED <<wheel, down, lock, switch, enabled, epc, call, calls,
                 faults, late, stopFailed>>

(* deadmans_switch_ is read.                                               *)
Check ==
  /\ dpc = "check"
  /\ dpc' = IF switch THEN "stop" ELSE "mark"
  /\ UNCHANGED <<wheel, down, lock, switch, enabled, epc, call, calls,
                 faults, age, late, stopFailed>>

StopOf(wheels) == [op |-> "SetRPM", rpm |-> [w \in Wheel |-> 0], on |-> wheels]

(* Mutant: only the left wheels are stopped.                               *)
StopLeft ==
  /\ dpc = "stop"
  /\ lock = None
  /\ Transmit(StopOf(LeftWheels))
  /\ stopFailed' = (faults' # faults)
  /\ late' = IF late < 2 THEN late + 1 ELSE 2
  /\ dpc' = "mark"
  /\ UNCHANGED <<lock, switch, enabled, epc, call, calls, age>>

(* SetRPM(0.0) on the four wheels, under the mutex.                        *)
Stop ==
  /\ dpc = "stop"
  /\ lock = None
  /\ Transmit(StopOf(Wheel))
  /\ stopFailed' = (faults' # faults)
  /\ late' = IF late < 2 THEN late + 1 ELSE 2
  /\ dpc' = "mark"
  /\ UNCHANGED <<lock, switch, enabled, epc, call, calls, age>>

(* Mutant: a round does not set the switch it expects to be reset.         *)
ForgetMark ==
  /\ dpc = "mark"
  /\ dpc' = "sleep"
  /\ UNCHANGED <<wheel, down, lock, switch, enabled, epc, call, calls, faults,
                 age, late, stopFailed>>

(* deadmans_switch_ = true.                                                *)
Mark ==
  /\ dpc = "mark"
  /\ switch' = TRUE
  /\ dpc' = "sleep"
  /\ UNCHANGED <<wheel, down, lock, enabled, epc, call, calls, faults,
                 age, late, stopFailed>>
-----------------------------------------------------------------------------
(* The hardware.                                                           *)

(* A rebooted servo answers again.                                         *)
ServoReady(s) ==
  /\ s \in down
  /\ down' = down \ {s}
  /\ UNCHANGED <<wheel, lock, switch, enabled, epc, call, dpc, calls,
                 faults, age, late, stopFailed>>

(* A wheel reaches its goal position.                                      *)
Arrive(w) ==
  /\ wheel[w].moving
  /\ wheel' = [wheel EXCEPT ![w].moving = FALSE]
  /\ UNCHANGED <<down, lock, switch, enabled, epc, call, dpc, calls,
                 faults, age, late, stopFailed>>

Node == \/ CallSetAllRPM \/ CallSetRPM
        \/ CallSetRelativePosition \/ CallSetAllRelativePosition
        \/ CallSetServoPosition \/ CallReboot

Executor == \/ WriteRPM \/ Arm \/ Reset
            \/ Disarm \/ WritePosition
            \/ WriteTurret \/ SendReboot \/ EndReboot

Deadman == Wake \/ Check \/ Stop \/ Mark

Hardware == (\E s \in Servo : ServoReady(s)) \/ (\E w \in Wheel : Arrive(w))

Next == Node \/ Executor \/ Deadman \/ Hardware

Spec == Init /\ [][Next]_vars

(* Both threads are scheduled, and the mutex is free again and again       *)
(* because a call the nodes do not repeat for ever holds it (MaxCalls).    *)
(* Nothing forces a node to make a call or a bus fault to happen.          *)
ThreadFairness == WF_vars(Executor) /\ WF_vars(Deadman)
(* A servo that reboots answers again in the end.                          *)
ServosAnswer   == \A s \in Servo : WF_vars(ServoReady(s))

FairSpec == Spec /\ ThreadFairness /\ ServosAnswer
-----------------------------------------------------------------------------
Turning(w) == /\ wheel[w].torque
              /\ wheel[w].mode = "velocity"
              /\ wheel[w].vel # 0
Stopped    == \A w \in Wheel : ~Turning(w)

(* A speed command is between its bus write and the reset of the switch.   *)
Arming == epc \in {"arm", "reset"}

(* DeadmansSwitchLoop promises that the robot stops "if the deadman's      *)
(* switch is not reset within the timeout period": with the switch         *)
(* enabled, once two rounds were begun after the last reset and are over,  *)
(* no wheel turns, unless a servo missed part of the latest stop (then the *)
(* next round repeats it).  This must survive a round that was already     *)
(* under way when the command reset the switch and that marks it again     *)
(* afterwards, and calls that disable and enable the switch in between.    *)
DeadmanStops ==
  (enabled /\ ~Arming /\ age >= 2 /\ dpc = "sleep" /\ ~stopFailed) => Stopped

(* Why it holds: what the round in progress has already read and written,  *)
(* at each place the deadman thread can be (DeadmanStops is the case       *)
(* "sleep" of two rounds).  A position call changes the wheels only with   *)
(* the switch disabled.                                                    *)
Overdue(n) == enabled /\ ~Arming /\ age >= n

DeadmanInv ==
  /\ (epc = "locking" /\ call.op \in PositionCalls) => ~enabled
  /\ (Overdue(1) /\ dpc = "sleep") => switch
  /\ (Overdue(2) /\ dpc = "check") => switch
  /\ (Overdue(2) /\ dpc = "mark" /\ ~stopFailed) => Stopped
  /\ DeadmanStops

(* A position call disables the switch so that the deadman does not stop   *)
(* the move early.  The round that read the flag before can still do so,   *)
(* no other: one stop at most until the switch is enabled again.           *)
OneLateStop == ~enabled => late <= 1

(* Why it holds: a round that can still stop the wheels has not done so.   *)
LateInv == ~enabled => /\ late <= 1
                       /\ dpc \in {"check", "stop"} => late = 0

(* A robot that a command left driving, with wheels turning on both sides, *)
(* is guarded by the switch.  Only inside a call is it otherwise: before   *)
(* the command arms the switch, or after a position call disabled it and   *)
(* before it took the wheels out of velocity mode.  It takes a fault to    *)
(* break this; that one side alone may turn unguarded is NoRunaway's       *)
(* concern.                                                                *)
ArmedWhileDriving ==
  faults = 0 /\ epc = "idle" /\ ~enabled =>
    \/ \A w \in LeftWheels  : ~Turning(w)
    \/ \A w \in RightWheels : ~Turning(w)

(* "... to prevent the robot from running away if the joystick is          *)
(* disconnected": once the nodes make no more calls, an enabled switch     *)
(* stops the robot and it stays so, whatever calls, bus faults and         *)
(* interleavings came before, a failed stop included.                      *)
Silent       == calls = MaxCalls /\ epc = "idle"
SilenceStops == (Silent /\ enabled) ~> []Stopped

(* Its safety part: in silence the switch stays as it is, and a robot that *)
(* stands still remains so, whatever round or reboot is under way and      *)
(* whatever the bus loses.                                                 *)
SilenceKeeps ==
  [][Silent => Silent' /\ enabled' = enabled /\ (Stopped => Stopped')]_vars

(* The same promise without the condition that the switch is enabled, as   *)
(* the comment states it.                                                  *)
NoRunaway == Silent ~> []Stopped

(* Every call of a node returns: no thread waits for ever for the mutex    *)
(* or for a servo, as long as rebooted servos answer again.                *)
CallReturns == (epc # "idle") ~> (epc = "idle")

(* The mutex is held across steps only by a call that gives it back.  A    *)
(* wheel's servo that reboots, be it with the mutex free and addressed by  *)
(* calls and rounds that it does not hear, stands without torque and goal, *)
(* which is why a round may take it for stopped.                           *)
DownStands == \A w \in Wheel \cap down :
                ~wheel[w].torque /\ wheel[w].vel = 0 /\ ~wheel[w].moving
BusOwned ==
  /\ lock = "executor" <=> epc = "rebooting" \/ (Arming /\ call.op = "SetAllRPM")
  /\ DownStands
-----------------------------------------------------------------------------
(* What the nodes above the driver see of all this: commands that take     *)
(* effect, and rounds that stop the wheels when the commands cease.  A     *)
(* round counts when it is over, and a failed stop not at all; a speed     *)
(* command counts from its bus write on, before it arms the switch.        *)
RoundsOver == IF dpc = "sleep" THEN age ELSE age - 1

WheelVelocity(s) == IF s.torque /\ s.mode = "velocity" THEN s.vel ELSE 0

Velocity == [w \in Wheel |-> WheelVelocity(wheel[w])]
Watched  == enabled \/ Arming
Rounds   == IF Arming \/ RoundsOver < 1          THEN 0
            ELSE IF RoundsOver = 1 \/ stopFailed THEN 1
            ELSE 2

Driver == INSTANCE WheelDriver WITH
  Velocities <- -MaximumRPM..MaximumRPM,
  velocity <- Velocity, watched <- Watched, silent <- Rounds

ImplementsDriver == Driver!Spec
=============================================================================
