------------------------ MODULE DynamixelComms_proofs ------------------------
(***************************************************************************)
(* Proofs about DynamixelComms, for any wheels, speeds, calls and bounds.  *)
(*                                                                         *)
(* The first part is type correctness, and who owns the mutex and the bus. *)
(* The second part shows that the deadman's switch stops the robot.        *)
(* DeadmanStops alone is not inductive: it has to be known what the round  *)
(* in progress has read and written, so DeadmanInv says it of each place   *)
(* the deadman thread can be at; and a round takes a servo that does not   *)
(* answer for stopped, which is right because BusOwned says so of servos   *)
(* that are down.  The third part shows that the class implements the      *)
(* contract WheelDriver.  The rest is about arming and silence.            *)
(***************************************************************************)
EXTENDS DynamixelComms, TLAPS

USE CommsAssumption
-----------------------------------------------------------------------------
(* What the servo operations return.                                       *)

(* A servo that was asked for a mode keeps well-typed registers, whether   *)
(* every transaction of ConfigureControlMode succeeds or one fails.        *)
LEMMA ConfiguredType ==
  ASSUME NEW s \in WheelState, NEW m \in Mode
  PROVE  /\ Configured(s, m) \in WheelState
         /\ FaultyConfigured(s, m) \subseteq WheelState
<1>1. 0 \in -MaximumRPM..MaximumRPM
  OBVIOUS
<1>2. ASSUME NEW t \in BOOLEAN
      PROVE  [mode |-> m, torque |-> t, vel |-> 0, moving |-> FALSE] \in WheelState
  BY <1>1 DEF WheelState
<1>3. [s EXCEPT !.torque = FALSE, !.moving = FALSE] \in WheelState
  BY DEF WheelState
<1>4. QED
  BY <1>2, <1>3 DEF Configured, FaultyConfigured

(* A goal velocity register never leaves the servo's limits: what SetRPM   *)
(* clamps and what the servo refuses both end inside.                      *)
LEMMA WriteVelocityType ==
  ASSUME NEW s \in WheelState, NEW v \in Int
  PROVE  WriteVelocity(s, v) \in WheelState
BY DEF WriteVelocity, InLimits, WheelState

(* A wheel that arrives at its goal, or reboots, keeps well-typed          *)
(* registers.                                                              *)
LEMMA HaltedType ==
  ASSUME NEW s \in WheelState
  PROVE  /\ [s EXCEPT !.moving = FALSE] \in WheelState
         /\ [s EXCEPT !.torque = FALSE, !.vel = 0, !.moving = FALSE] \in WheelState
<1>1. 0 \in -MaximumRPM..MaximumRPM
  OBVIOUS
<1>2. QED
  BY <1>1 DEF WheelState

(* The velocities SetRPM and SetAllRPM compute are integers.               *)
LEMMA VelocityType ==
  ASSUME NEW w, NEW rpm \in Int
  PROVE  ServoVelocity(w, rpm) \in Int /\ BulkVelocity(w, rpm) \in Int
BY DEF ServoVelocity, BulkVelocity, Limited

(* Setting a wheel's speed, by either way and with or without a fault,     *)
(* leaves well-typed registers.                                            *)
LEMMA SetRPMType ==
  ASSUME NEW w, NEW s \in WheelState, NEW rpm \in Int
  PROVE  /\ ServoSetRPM(w, s, rpm) \in WheelState
         /\ BulkSetRPM(w, s, rpm) \in WheelState
         /\ FaultySetRPM(w, s, rpm) \subseteq WheelState
         /\ FaultyBulkSetRPM(w, s, rpm) \subseteq WheelState
<1>1. Configured(s, "velocity") \in WheelState
      /\ FaultyConfigured(s, "velocity") \subseteq WheelState
  BY ConfiguredType DEF Mode
<1>2. ServoVelocity(w, rpm) \in Int /\ BulkVelocity(w, rpm) \in Int
  BY VelocityType
<1>3. ServoSetRPM(w, s, rpm) \in WheelState /\ BulkSetRPM(w, s, rpm) \in WheelState
  BY <1>1, <1>2, WriteVelocityType DEF ServoSetRPM, BulkSetRPM
<1>4. FaultySetRPM(w, s, rpm) \subseteq WheelState
  BY <1>1, <1>2, WriteVelocityType DEF FaultySetRPM
<1>5. FaultyBulkSetRPM(w, s, rpm) \subseteq WheelState
  BY <1>1, <1>2, WriteVelocityType DEF FaultyBulkSetRPM
<1>6. QED
  BY <1>3, <1>4, <1>5

(* So does a position move.                                                *)
LEMMA MoveType ==
  ASSUME NEW s \in WheelState
  PROVE  ServoMove(s) \in WheelState /\ FaultyMove(s) \subseteq WheelState
<1>1. Configured(s, "extended") \in WheelState
      /\ FaultyConfigured(s, "extended") \subseteq WheelState
  BY ConfiguredType DEF Mode
<1>2. ASSUME NEW c \in WheelState
      PROVE  [c EXCEPT !.moving = c.torque] \in WheelState
  BY DEF WheelState
<1>3. QED
  BY <1>1, <1>2 DEF ServoMove, FaultyMove

(* A speed or position call in progress carries the fields its bus         *)
(* transactions need.                                                      *)
LEMMA CallFields ==
  ASSUME call \in Call
  PROVE  /\ call.op \in RPMCalls =>
              call.rpm \in [Wheel -> Speeds] /\ call.on \subseteq Wheel
         /\ call.op \in PositionCalls => call.on \subseteq Wheel
BY DEF Call, RPMCalls, PositionCalls, None, Wheel

(* A servo that comes back in the middle of a call has missed some of its  *)
(* transactions, as one that a fault hits.                                 *)
LEMMA LateMissed ==
  ASSUME NEW w, NEW c, c.op \in RPMCalls \cup PositionCalls
  PROVE  LateForCall(w, c) \subseteq FaultyForCall(w, c)
<1>1. \A s, m : LateConfigured(s, m) \subseteq FaultyConfigured(s, m)
  BY DEF LateConfigured, FaultyConfigured
<1>2. CASE c.op = "SetAllRPM"
  BY <1>1, <1>2 DEF LateForCall, FaultyForCall, FaultyBulkSetRPM
<1>3. CASE c.op = "SetRPM"
  BY <1>1, <1>3 DEF LateForCall, FaultyForCall, FaultySetRPM
<1>4. CASE c.op \in PositionCalls
  <2>1. LateForCall(w, c)
          = {[s EXCEPT !.moving = s.torque] : s \in LateConfigured(wheel[w], "extended")}
    BY <1>4 DEF LateForCall, PositionCalls
  <2>2. FaultyForCall(w, c) = FaultyMove(wheel[w])
    BY <1>4 DEF FaultyForCall, PositionCalls
  <2> QED BY <1>1, <2>1, <2>2 DEF FaultyMove
<1> QED BY <1>2, <1>3, <1>4 DEF RPMCalls

BulkCalls == {"SetAllRPM", "SetAllRelativePosition"}

(* What a call makes of each wheel.  One whose servo is still down is as   *)
(* it was, and without a fault those that were up hear the whole call.     *)
LEMMA TransmitWheels ==
  ASSUME NEW c, c.op \in RPMCalls \cup PositionCalls, faults \in Nat, Transmit(c)
  PROVE  /\ down' \subseteq down
         /\ faults' = faults \/ (faults < MaxFaults /\ faults' = faults + 1)
         /\ wheel' = [w \in Wheel |-> wheel'[w]]
         /\ \A w \in Wheel :
              /\ \/ wheel'[w] \in {wheel[w], ForCall(w, c)}
                 \/ wheel'[w] \in FaultyForCall(w, c)
                 \/ /\ c.op \in BulkCalls
                    /\ wheel'[w] \in {Configured(wheel[w], BulkMode(c.op))}
                                    \cup FaultyConfigured(wheel[w], BulkMode(c.op))
              /\ w \in down' => wheel'[w] = wheel[w]
              /\ faults' = faults /\ w \notin down => wheel'[w] = ForCall(w, c)
<1>1. PICK back \in SUBSET (down \cap c.on) :
        /\ down' = down \ back
        /\ \/ /\ Become([w \in Wheel |-> Outcomes(w, c, back, {})])
              /\ UNCHANGED faults
           \/ /\ faults < MaxFaults
              /\ faults' = faults + 1
              /\ \/ \E bad \in c.on \ down :
                      Become([w \in Wheel |-> Outcomes(w, c, back, {bad})])
                 \/ /\ c.op \in BulkCalls
                    /\ Become([w \in Wheel |-> BulkLost(w, c, back)])
  BY DEF Transmit, BulkCalls
<1>2. faults + 1 # faults
  OBVIOUS
<1>3. ASSUME NEW o, Become([w \in Wheel |-> o[w]])
      PROVE  wheel' = [w \in Wheel |-> wheel'[w]] /\ \A w \in Wheel : wheel'[w] \in o[w]
  BY <1>3 DEF Become
<1>4. ASSUME NEW bad \in SUBSET (c.on \ down),
             Become([w \in Wheel |-> Outcomes(w, c, back, bad)]),
             faults' = faults => bad = {}
      PROVE  /\ wheel' = [w \in Wheel |-> wheel'[w]]
             /\ \A w \in Wheel :
                  /\ wheel'[w] \in {wheel[w], ForCall(w, c)} \cup FaultyForCall(w, c)
                  /\ w \in down' => wheel'[w] = wheel[w]
                  /\ faults' = faults /\ w \notin down => wheel'[w] = ForCall(w, c)
  <2>1. /\ wheel' = [w \in Wheel |-> wheel'[w]]
        /\ \A w \in Wheel : wheel'[w] \in Outcomes(w, c, back, bad)
    BY <1>4 DEF Become
  <2>2. ASSUME NEW w \in Wheel
        PROVE  /\ wheel'[w] \in {wheel[w], ForCall(w, c)} \cup FaultyForCall(w, c)
               /\ w \in down' => wheel'[w] = wheel[w]
               /\ faults' = faults /\ w \notin down => wheel'[w] = ForCall(w, c)
    <3>1. LateForCall(w, c) \subseteq FaultyForCall(w, c)
      BY LateMissed
    <3>2. wheel'[w] \in Outcomes(w, c, back, bad)
      BY <2>1
    <3> QED BY <1>1, <1>4, <3>1, <3>2 DEF Outcomes
  <2> QED BY <2>1, <2>2
<1>5. ASSUME c.op \in BulkCalls, Become([w \in Wheel |-> BulkLost(w, c, back)])
      PROVE  /\ wheel' = [w \in Wheel |-> wheel'[w]]
             /\ \A w \in Wheel :
                  /\ wheel'[w] \in {wheel[w], Configured(wheel[w], BulkMode(c.op))}
                                  \cup FaultyConfigured(wheel[w], BulkMode(c.op))
                  /\ w \in down' => wheel'[w] = wheel[w]
  <2>1. /\ wheel' = [w \in Wheel |-> wheel'[w]]
        /\ \A w \in Wheel : wheel'[w] \in BulkLost(w, c, back)
    BY <1>5 DEF Become
  <2>2. ASSUME NEW w \in Wheel
        PROVE  /\ wheel'[w] \in {wheel[w], Configured(wheel[w], BulkMode(c.op))}
                               \cup FaultyConfigured(wheel[w], BulkMode(c.op))
               /\ w \in down' => wheel'[w] = wheel[w]
    <3>1. LateConfigured(wheel[w], BulkMode(c.op))
            \subseteq FaultyConfigured(wheel[w], BulkMode(c.op))
      BY DEF LateConfigured, FaultyConfigured
    <3>2. wheel'[w] \in BulkLost(w, c, back)
      BY <2>1
    <3> QED BY <1>1, <3>1, <3>2 DEF BulkLost
  <2> QED BY <2>1, <2>2
<1>6. CASE Become([w \in Wheel |-> Outcomes(w, c, back, {})]) /\ UNCHANGED faults
  <2>1. {} \in SUBSET (c.on \ down)
    OBVIOUS
  <2> QED BY <1>1, <1>4, <1>6, <2>1
<1>7. ASSUME NEW bad \in c.on \ down, faults < MaxFaults, faults' = faults + 1,
             Become([w \in Wheel |-> Outcomes(w, c, back, {bad})])
      PROVE  /\ wheel' = [w \in Wheel |-> wheel'[w]]
             /\ \A w \in Wheel :
                  /\ wheel'[w] \in {wheel[w], ForCall(w, c)} \cup FaultyForCall(w, c)
                  /\ w \in down' => wheel'[w] = wheel[w]
  <2>1. {bad} \in SUBSET (c.on \ down)
    OBVIOUS
  <2> QED BY <1>2, <1>4, <1>7, <2>1
<1>8. CASE /\ faults < MaxFaults /\ faults' = faults + 1
           /\ \/ \E bad \in c.on \ down :
                   Become([w \in Wheel |-> Outcomes(w, c, back, {bad})])
              \/ c.op \in BulkCalls /\ Become([w \in Wheel |-> BulkLost(w, c, back)])
  BY <1>1, <1>2, <1>5, <1>7, <1>8
<1> QED BY <1>1, <1>6, <1>8

(* Transmit keeps the wheels well-typed and the fault count in bounds.     *)
LEMMA TransmitType ==
  ASSUME TypeOK, NEW c, c.op \in RPMCalls \cup PositionCalls, Transmit(c),
         c.op \in RPMCalls => \A w \in Wheel : c.rpm[w] \in Int
  PROVE  wheel' \in [Wheel -> WheelState] /\ faults' \in 0..MaxFaults /\ down' \subseteq Servo
<1>1. wheel \in [Wheel -> WheelState] /\ faults \in 0..MaxFaults /\ down \subseteq Servo
  BY DEF TypeOK
<1>2. ASSUME NEW w \in Wheel, c.op \in RPMCalls
      PROVE  c.rpm[w] \in Int /\ -c.rpm[w] \in Int
  <2>1. \A v \in Int : -v \in Int
    OBVIOUS
  <2> QED BY <1>2, <2>1
<1>3. ASSUME NEW w \in Wheel
      PROVE  ForCall(w, c) \in WheelState /\ FaultyForCall(w, c) \subseteq WheelState
  <2>1. wheel[w] \in WheelState
    BY <1>1
  <2>2. CASE c.op \in RPMCalls
    BY <2>1, <2>2, <1>2, SetRPMType DEF ForCall, FaultyForCall, RPMCalls
  <2>3. CASE c.op \in PositionCalls
    BY <2>1, <2>3, MoveType DEF ForCall, FaultyForCall, PositionCalls
  <2>4. QED
    BY <2>2, <2>3
<1>4. ASSUME NEW w \in Wheel, c.op \in BulkCalls
      PROVE  {Configured(wheel[w], BulkMode(c.op))}
               \cup FaultyConfigured(wheel[w], BulkMode(c.op)) \subseteq WheelState
  <2>1. BulkMode(c.op) \in Mode
    BY <1>4 DEF BulkCalls, BulkMode, Mode
  <2> QED BY <1>1, <2>1, ConfiguredType
<1>5. /\ down' \subseteq down
      /\ faults' = faults \/ (faults < MaxFaults /\ faults' = faults + 1)
      /\ wheel' = [w \in Wheel |-> wheel'[w]]
  BY <1>1, TransmitWheels
<1>6. ASSUME NEW w \in Wheel
      PROVE  wheel'[w] \in WheelState
  <2>1. \/ wheel'[w] \in {wheel[w], ForCall(w, c)} \cup FaultyForCall(w, c)
        \/ /\ c.op \in BulkCalls
           /\ wheel'[w] \in {Configured(wheel[w], BulkMode(c.op))}
                           \cup FaultyConfigured(wheel[w], BulkMode(c.op))
    BY <1>1, TransmitWheels
  <2> QED BY <1>1, <1>3, <1>4, <2>1
<1>7. wheel' \in [Wheel -> WheelState]
  BY <1>5, <1>6
<1> QED BY <1>1, <1>5, <1>7

LEMMA CallType ==
  ASSUME TypeOK
  PROVE  call.op \in RPMCalls => \A w \in Wheel : call.rpm[w] \in Int
<1>1. \A v \in Speeds : v \in Int
  OBVIOUS
<1>2. call.op \in RPMCalls => call.rpm \in [Wheel -> Speeds]
  BY CallFields DEF TypeOK
<1> QED BY <1>1, <1>2, Zenon

(* The deadman's round is a speed call for all wheels.                     *)
LEMMA StopCall ==
  /\ StopOf(Wheel).op = "SetRPM" /\ StopOf(Wheel).op \in RPMCalls
  /\ \A w \in Wheel : /\ StopOf(Wheel).rpm[w] = 0
                       /\ ForCall(w, StopOf(Wheel)) = ServoSetRPM(w, wheel[w], 0)
                       /\ FaultyForCall(w, StopOf(Wheel)) = FaultySetRPM(w, wheel[w], 0)
<1>1. /\ StopOf(Wheel).op = "SetRPM" /\ StopOf(Wheel).on = Wheel
      /\ \A w \in Wheel : StopOf(Wheel).rpm[w] = 0
  BY DEF StopOf
<1>2. -0 = 0
  <2>1. ASSUME NEW v \in Int, v <= 0, v >= 0
        PROVE  -v = 0
    BY <2>1
  <2>2. 0 \in Int /\ 0 <= 0 /\ 0 >= 0
    OBVIOUS
  <2> QED BY <2>1, <2>2, Zenon
<1> QED BY <1>1, <1>2 DEF ForCall, FaultyForCall, RPMCalls
-----------------------------------------------------------------------------
(* Every action keeps the types: the mutex only ever belongs to the        *)
(* executor across steps, and the velocity registers stay in limits.       *)
LEMMA TypeStep ==
  ASSUME TypeOK, [Next]_vars
  PROVE  TypeOK'
<1> USE DEF TypeOK, ExecutorPC, DeadmanPC, None
<1>0. 0 \in 0..3 /\ 0 \in 0..2
  OBVIOUS
<1>1. CASE Node
  <2>1. ASSUME NEW c \in Call, NEW pc \in ExecutorPC, Begin(c, pc)
        PROVE  TypeOK'
    BY <2>1 DEF Begin
  <2>2. CASE CallSetAllRPM
    <3>1. PICK rpm \in [Wheel -> Speeds] :
            Begin([op |-> "SetAllRPM", rpm |-> rpm, on |-> Wheel], "locking")
      BY <2>2 DEF CallSetAllRPM
    <3>2. [op |-> "SetAllRPM", rpm |-> rpm, on |-> Wheel] \in Call
      BY DEF Call, RPMCalls
    <3>3. QED
      BY <3>1, <3>2, <2>1
  <2>3. CASE CallSetRPM
    <3>1. PICK side \in {LeftWheels, RightWheels}, v \in Speeds :
            Begin([op |-> "SetRPM", rpm |-> [w \in Wheel |-> v], on |-> side],
                  "locking")
      BY <2>3 DEF CallSetRPM
    <3>2. [op |-> "SetRPM", rpm |-> [w \in Wheel |-> v], on |-> side] \in Call
      BY DEF Call, RPMCalls
    <3>3. QED
      BY <3>1, <3>2, <2>1
  <2>4. CASE CallSetRelativePosition
    <3>1. PICK side \in {LeftWheels, RightWheels} :
            Begin([op |-> "SetRelativePosition", on |-> side], "disarm")
      BY <2>4 DEF CallSetRelativePosition
    <3>2. [op |-> "SetRelativePosition", on |-> side] \in Call
      BY DEF Call, PositionCalls
    <3>3. QED
      BY <3>1, <3>2, <2>1
  <2>5. CASE CallSetAllRelativePosition
    <3>1. [op |-> "SetAllRelativePosition", on |-> Wheel] \in Call
      BY DEF Call, PositionCalls
    <3>2. QED
      BY <3>1, <2>1, <2>5 DEF CallSetAllRelativePosition
  <2>6. CASE CallSetServoPosition
    <3>1. [op |-> "SetServoPosition"] \in Call
      BY DEF Call
    <3>2. QED
      BY <3>1, <2>1, <2>6 DEF CallSetServoPosition
  <2>7. CASE CallReboot
    <3>1. PICK s \in Servo : Begin([op |-> "Reboot", servo |-> s], "locking")
      BY <2>7 DEF CallReboot
    <3>2. [op |-> "Reboot", servo |-> s] \in Call
      BY DEF Call
    <3>3. QED
      BY <3>1, <3>2, <2>1
  <2>8. QED
    BY <1>1, <2>2, <2>3, <2>4, <2>5, <2>6, <2>7 DEF Node
<1>2. CASE Executor
  <2>0. NoCall \in Call
    BY DEF NoCall, Call
  <2>1. CASE WriteRPM
    BY <2>1, CallType, TransmitType DEF WriteRPM
  <2>2. CASE Arm
    BY <2>2, Zenon DEF Arm
  <2>3. CASE Reset
    BY <1>0, <2>0, <2>3, Zenon DEF Reset, Return
  <2>4. CASE Disarm
    BY <1>0, <2>4, Zenon DEF Disarm
  <2>5. CASE WritePosition
    BY <2>0, <2>5, CallType, TransmitType DEF WritePosition, Return
  <2>6. CASE WriteTurret
    BY <2>0, <2>6, Zenon DEF WriteTurret, Return
  <2>7. CASE SendReboot
    <3>1. call.servo \in Servo
      BY <2>7 DEF SendReboot, Call, RPMCalls, PositionCalls
    <3>2. ASSUME NEW w \in Wheel
          PROVE  [wheel[w] EXCEPT !.torque = FALSE, !.vel = 0, !.moving = FALSE]
                   \in WheelState
      BY HaltedType
    <3>3. wheel' \in [Wheel -> WheelState]
      <4>1. \/ wheel' = [w \in Wheel |->
                         IF w = call.servo
                           THEN [wheel[w] EXCEPT !.torque = FALSE, !.vel = 0,
                                                 !.moving = FALSE]
                           ELSE wheel[w]]
            \/ wheel' = wheel
        BY <2>7, Zenon DEF SendReboot, GoesDown
      <4>2. wheel \in [Wheel -> WheelState]
        OBVIOUS
      <4>3. ASSUME NEW w \in Wheel
            PROVE  (IF w = call.servo
                      THEN [wheel[w] EXCEPT !.torque = FALSE, !.vel = 0,
                                            !.moving = FALSE]
                      ELSE wheel[w]) \in WheelState
        BY <3>2, <4>2
      <4>4. QED
        BY <4>1, <4>2, <4>3, Zenon
    <3>4. down' \subseteq Servo
      <4>1. down' = down \cup {call.servo} \/ down' = down
        BY <2>7, Zenon DEF SendReboot, GoesDown
      <4>2. QED
        BY <3>1, <4>1
    <3>5. lock' \in {None, "executor"} /\ epc' \in ExecutorPC /\ call' \in Call
      BY <2>0, <2>7, Zenon DEF SendReboot, Return
    <3>6. faults' \in 0..MaxFaults
      <4>1. faults' = faults \/ (faults < MaxFaults /\ faults' = faults + 1)
        BY <2>7, Zenon DEF SendReboot
      <4>2. QED
        BY <4>1
    <3>7. UNCHANGED <<switch, enabled, dpc, calls, age, late, stopFailed>>
      BY <2>7 DEF SendReboot
    <3>8. QED
      BY <3>3, <3>4, <3>5, <3>6, <3>7
  <2>8. CASE EndReboot
    BY <2>0, <2>8, Zenon DEF EndReboot, Return
  <2>9. QED
    BY <1>2, <2>1, <2>2, <2>3, <2>4, <2>5, <2>6, <2>7, <2>8 DEF Executor
<1>3. CASE Deadman
  <2>1. CASE Wake
    BY <2>1 DEF Wake
  <2>2. CASE Check
    BY <2>2, Zenon DEF Check
  <2>3. CASE Stop
    <3>1. Transmit(StopOf(Wheel))
      BY <2>3 DEF Stop
    <3>2. wheel' \in [Wheel -> WheelState] /\ faults' \in 0..MaxFaults /\ down' \subseteq Servo
      BY <3>1, StopCall, TransmitType
    <3>3. late' \in 0..2
      <4>1. late' = IF late < 2 THEN late + 1 ELSE 2
        BY <2>3 DEF Stop
      <4>2. QED
        BY <4>1
    <3>4. dpc' \in DeadmanPC /\ stopFailed' \in BOOLEAN
      BY <2>3, Zenon DEF Stop
    <3>5. UNCHANGED <<lock, switch, enabled, epc, call, calls, age>>
      BY <2>3 DEF Stop
    <3>6. QED
      BY <3>2, <3>3, <3>4, <3>5
  <2>4. CASE Mark
    BY <2>4, Zenon DEF Mark
  <2>5. QED
    BY <1>3, <2>1, <2>2, <2>3, <2>4 DEF Deadman
<1>4. CASE Hardware
  <2>1. ASSUME NEW s \in Servo, ServoReady(s)
        PROVE  TypeOK'
    BY <2>1 DEF ServoReady
  <2>2. ASSUME NEW w \in Wheel, Arrive(w)
        PROVE  TypeOK'
    <3>1. [wheel[w] EXCEPT !.moving = FALSE] \in WheelState
      BY HaltedType
    <3>2. wheel' = [wheel EXCEPT ![w] = [wheel[w] EXCEPT !.moving = FALSE]]
      BY <2>2 DEF Arrive
    <3>3. wheel' \in [Wheel -> WheelState]
      BY <3>1, <3>2
    <3>4. UNCHANGED <<down, lock, switch, enabled, epc, call, dpc, calls,
                      faults, age, late, stopFailed>>
      BY <2>2 DEF Arrive
    <3>5. QED
      BY <3>3, <3>4
  <2>3. QED
    BY <1>4, <2>1, <2>2 DEF Hardware
<1>5. CASE UNCHANGED vars
  BY <1>5 DEF vars
<1>6. QED
  BY <1>1, <1>2, <1>3, <1>4, <1>5 DEF Next

(* The registers, the mutex, the atomics and both threads' positions stay  *)
(* in their types, for every interleaving of calls and bus faults.         *)
THEOREM TypeCorrect == Spec => []TypeOK
<1>1. Init => TypeOK
  <2>1. 0 \in -MaximumRPM..MaximumRPM
    OBVIOUS
  <2>2. [mode |-> "velocity", torque |-> TRUE, vel |-> 0, moving |-> FALSE]
          \in WheelState
    BY <2>1 DEF WheelState, Mode
  <2>3. NoCall \in Call
    BY DEF Call, NoCall
  <2>4. SUFFICES ASSUME Init PROVE TypeOK
    OBVIOUS
  <2>5. wheel \in [Wheel -> WheelState] /\ call \in Call
    BY <2>2, <2>3, <2>4 DEF Init
  <2>6. /\ 0 \in 0..MaxCalls /\ 0 \in 0..MaxFaults
        /\ 0 \in 0..3 /\ 0 \in 0..2
    OBVIOUS
  <2>7. QED
    BY <2>4, <2>5, <2>6, Zenon DEF Init, TypeOK, ExecutorPC, DeadmanPC, None
<1>2. TypeOK /\ [Next]_vars => TypeOK'
  BY TypeStep
<1>3. QED
  BY <1>1, <1>2, PTL DEF Spec
-----------------------------------------------------------------------------
(* Who owns the mutex, and what is known of a servo that is down.          *)
LEMMA OwnedStep == TypeOK /\ BusOwned /\ [Next]_vars => BusOwned'
<1> SUFFICES ASSUME TypeOK, BusOwned, [Next]_vars PROVE BusOwned'
  OBVIOUS
<1> USE DEF BusOwned, Arming
<1>w. faults \in Nat /\ \A w \in Wheel : wheel[w] \in WheelState
  BY DEF TypeOK
<1>d. ASSUME down' \subseteq down, \A w \in Wheel \cap down' : wheel'[w] = wheel[w]
      PROVE  DownStands'
  BY <1>d DEF DownStands
<1>1. CASE Node
  <2>1. PICK c, pc : pc \in {"locking", "disarm"} /\ Begin(c, pc)
    BY <1>1, Zenon
       DEF Node, CallSetAllRPM, CallSetRPM, CallSetRelativePosition,
           CallSetAllRelativePosition, CallSetServoPosition, CallReboot
  <2>2. epc = "idle" /\ epc' \in {"locking", "disarm"} /\ UNCHANGED <<lock, down, wheel>>
    BY <2>1, Zenon DEF Begin
  <2> QED BY <1>d, <2>2
<1>2. CASE WriteRPM
  <2>1. lock = None /\ epc' = "arm" /\ call' = call
        /\ lock' = IF call.op = "SetAllRPM" THEN "executor" ELSE None
    BY <1>2 DEF WriteRPM
  <2>2. DownStands'
    BY <1>2, <1>w, <1>d, TransmitWheels DEF WriteRPM
  <2> QED BY <2>1, <2>2 DEF None
<1>3. CASE SendReboot
  <2>1. lock = None /\ epc = "locking"
    BY <1>3, Zenon DEF SendReboot
  <2>2. \/ lock' = "executor" /\ epc' = "rebooting"
        \/ lock' = None /\ epc' = "idle"
    BY <1>3, <2>1 DEF SendReboot, Return
  <2>3. DownStands'
    <3>1. CASE GoesDown(call.servo)
      <4>1. ASSUME NEW w \in Wheel \cap down'
            PROVE  ~wheel'[w].torque /\ wheel'[w].vel = 0 /\ ~wheel'[w].moving
        <5>1. CASE w = call.servo
          <6>1. wheel'[w] = [wheel[w] EXCEPT !.torque = FALSE, !.vel = 0, !.moving = FALSE]
            BY <3>1, <5>1 DEF GoesDown
          <6> QED BY <1>w, <6>1 DEF WheelState
        <5>2. CASE w # call.servo
          <6>1. wheel'[w] = wheel[w] /\ w \in down
            BY <3>1, <5>2 DEF GoesDown
          <6> QED BY <6>1 DEF DownStands
        <5> QED BY <5>1, <5>2
      <4> QED BY <4>1 DEF DownStands
    <3>2. CASE UNCHANGED <<down, wheel>>
      BY <1>d, <3>2
    <3> QED BY <1>3, <3>1, <3>2 DEF SendReboot
  <2> QED BY <2>2, <2>3 DEF None
<1>4. CASE EndReboot
  <2>1. lock' = None /\ epc' = "idle" /\ UNCHANGED <<wheel, down>>
    BY <1>4 DEF EndReboot, Return
  <2> QED BY <1>d, <2>1 DEF None
<1>5. CASE Arm \/ Reset \/ Disarm
  <2>1. UNCHANGED <<wheel, down>>
    BY <1>5 DEF Arm, Reset, Disarm
  <2>2. DownStands'
    BY <1>d, <2>1
  <2> QED BY <1>5, <2>2 DEF Arm, Reset, Disarm, Return, None
<1>6. CASE WritePosition \/ WriteTurret
  <2>1. epc = "locking" /\ epc' = "idle" /\ lock' = lock
    BY <1>6 DEF WritePosition, WriteTurret, Return
  <2>2. DownStands'
    <3>1. CASE WritePosition
      BY <3>1, <1>w, <1>d, TransmitWheels DEF WritePosition
    <3>2. CASE WriteTurret
      BY <3>2, <1>d DEF WriteTurret
    <3> QED BY <1>6, <3>1, <3>2
  <2> QED BY <2>1, <2>2
<1>7. CASE Deadman
  <2>1. UNCHANGED <<lock, epc, call>>
    BY <1>7, Zenon DEF Deadman, Wake, Check, Stop, Mark
  <2>2. DownStands'
    <3>1. CASE Stop
      BY <3>1, <1>w, <1>d, StopCall, TransmitWheels DEF Stop
    <3>2. CASE Wake \/ Check \/ Mark
      <4>1. UNCHANGED <<wheel, down>>
        BY <3>2 DEF Wake, Check, Mark
      <4> QED BY <1>d, <4>1
    <3> QED BY <1>7, <3>1, <3>2 DEF Deadman
  <2> QED BY <2>1, <2>2
<1>8. CASE Hardware
  <2>1. UNCHANGED <<lock, epc, call>> /\ down' \subseteq down
    BY <1>8 DEF Hardware, ServoReady, Arrive
  <2>2. DownStands'
    <3>1. ASSUME NEW s \in Servo, ServoReady(s) PROVE DownStands'
      BY <3>1, <1>d DEF ServoReady
    <3>2. ASSUME NEW v \in Wheel, Arrive(v) PROVE DownStands'
      <4>1. v \notin down
        BY <3>2 DEF Arrive, DownStands
      <4>2. \A w \in Wheel : w # v => wheel'[w] = wheel[w]
        BY <3>2 DEF Arrive, TypeOK
      <4>3. down' = down
        BY <3>2 DEF Arrive
      <4> QED BY <1>d, <4>1, <4>2, <4>3
    <3> QED BY <1>8, <3>1, <3>2 DEF Hardware
  <2> QED BY <2>1, <2>2
<1>9. CASE UNCHANGED vars
  BY <1>9 DEF vars, DownStands
<1> QED
  BY <1>1, <1>2, <1>3, <1>4, <1>5, <1>6, <1>7, <1>8, <1>9 DEF Next, Executor

(* Whoever waits for comms_mutex_ waits for a call that writes its speeds  *)
(* or that polls the one servo it rebooted, never for a mutex left held;   *)
(* and a wheel whose servo is down stands, whoever addresses it meanwhile. *)
THEOREM OwnedCorrect == Spec => []BusOwned
<1>1. Init => BusOwned
  BY DEF Init, BusOwned, DownStands, Arming, None
<1>2. QED
  BY <1>1, OwnedStep, TypeCorrect, PTL DEF Spec
-----------------------------------------------------------------------------
(* A goal velocity of zero is within every servo's limits, so SetRPM(0.0)  *)
(* leaves the wheel with no velocity, whichever mode it was in.            *)
LEMMA ZeroStops ==
  ASSUME NEW w, NEW s \in WheelState
  PROVE  ServoSetRPM(w, s, 0).vel = 0
<1>1. ServoVelocity(w, 0) = 0
  <2>1. Limited(0) = 0
    BY DEF Limited
  <2>2. ASSUME NEW v \in Int, v <= 0, v >= 0
        PROVE  -v = 0
    BY <2>2
  <2>3. 0 \in Int /\ 0 <= 0 /\ 0 >= 0
    OBVIOUS
  <2>4. QED
    BY <2>1, <2>2, <2>3, Zenon DEF ServoVelocity
<1>2. InLimits(0)
  BY DEF InLimits
<1>3. Configured(s, "velocity") \in WheelState
  BY ConfiguredType DEF Mode
<1>4. [Configured(s, "velocity") EXCEPT !.vel = 0].vel = 0
  BY <1>3 DEF WheelState
<1>5. QED
  BY <1>1, <1>2, <1>4 DEF ServoSetRPM, WriteVelocity

(* What of a servo's velocity a call that is no speed command leaves.      *)
Slower(s, t) == WheelVelocity(t) \in {WheelVelocity(s), 0}

LEMMA ConfiguredSlows ==
  ASSUME NEW s \in WheelState, NEW m \in Mode,
         NEW t \in {Configured(s, m)} \cup FaultyConfigured(s, m)
  PROVE  Slower(s, t)
<1>1. ASSUME t = s \/ ~t.torque \/ t.vel = 0
      PROVE  Slower(s, t)
  BY <1>1 DEF Slower, WheelVelocity
<1>2. [s EXCEPT !.torque = FALSE, !.moving = FALSE].torque = FALSE
  BY DEF WheelState
<1>3. [mode |-> m, torque |-> TRUE,  vel |-> 0, moving |-> FALSE].vel = 0
      /\ [mode |-> m, torque |-> FALSE, vel |-> 0, moving |-> FALSE].vel = 0
  OBVIOUS
<1>4. CASE t = Configured(s, m)
  BY <1>1, <1>3, <1>4 DEF Configured
<1>5. CASE t \in FaultyConfigured(s, m)
  BY <1>1, <1>2, <1>3, <1>5, Zenon DEF FaultyConfigured
<1>6. QED
  BY <1>4, <1>5

(* A stop, whether the servo takes all of it or misses a transaction.      *)
LEMMA StopSlows ==
  ASSUME NEW w, NEW s \in WheelState,
         NEW t \in {ServoSetRPM(w, s, 0)} \cup FaultySetRPM(w, s, 0)
  PROVE  Slower(s, t)
<1>1. ServoVelocity(w, 0) = 0
  <2>1. Limited(0) = 0
    BY DEF Limited
  <2>2. QED
    BY <2>1 DEF ServoVelocity
<1>2. ASSUME NEW c \in WheelState
      PROVE  WheelVelocity(WriteVelocity(c, 0)) = 0
  <2>1. InLimits(0)
    BY DEF InLimits
  <2>2. [c EXCEPT !.vel = 0].vel = 0
    BY <1>2 DEF WheelState
  <2>3. QED
    BY <2>1, <2>2 DEF WheelVelocity, WriteVelocity
<1>3. /\ Configured(s, "velocity") \in WheelState
      /\ FaultyConfigured(s, "velocity") \subseteq WheelState
  BY ConfiguredType DEF Mode
<1>4. Slower(s, Configured(s, "velocity"))
  BY ConfiguredSlows DEF Mode
<1>5. t = Configured(s, "velocity") \/ \E c \in WheelState : t = WriteVelocity(c, 0)
  BY <1>1, <1>3 DEF ServoSetRPM, FaultySetRPM
<1>6. QED
  BY <1>2, <1>4, <1>5 DEF Slower

LEMMA TurningMoves == \A w : Turning(w) <=> WheelVelocity(wheel[w]) # 0
BY DEF Turning, WheelVelocity

LEMMA StoppedSlows ==
  ASSUME TypeOK, Stop, NEW w \in Wheel
  PROVE  Slower(wheel[w], wheel'[w])
<1>1. wheel[w] \in WheelState /\ faults \in Nat /\ Transmit(StopOf(Wheel))
  BY DEF TypeOK, Stop
<1>2. StopOf(Wheel).op \notin BulkCalls
  BY StopCall DEF BulkCalls
<1>3. wheel'[w] \in {wheel[w], ServoSetRPM(w, wheel[w], 0)} \cup FaultySetRPM(w, wheel[w], 0)
  BY <1>1, <1>2, StopCall, TransmitWheels
<1> QED BY <1>1, <1>3, StopSlows DEF Slower

(* A stop in which no servo that is up misses a transaction leaves no      *)
(* wheel turning: those that are down have neither torque nor speed.       *)
LEMMA StopStops ==
  ASSUME TypeOK, BusOwned, Stop, ~stopFailed'
  PROVE  Stopped'
<1>1. faults \in Nat /\ faults' = faults /\ Transmit(StopOf(Wheel))
  <2>1. stopFailed' = (faults' # faults)
    BY Zenon DEF Stop
  <2>2. faults' = faults
    BY <2>1
  <2> QED BY <2>2 DEF TypeOK, Stop
<1>2. ASSUME NEW w \in Wheel
      PROVE  ~Turning(w)'
  <2>1. CASE w \in down
    <3>1. WheelVelocity(wheel[w]) = 0
      BY <2>1 DEF BusOwned, DownStands, WheelVelocity
    <3>2. Slower(wheel[w], wheel'[w])
      BY StoppedSlows
    <3> QED BY <3>1, <3>2 DEF Slower, Turning, WheelVelocity
  <2>2. CASE w \notin down
    <3>1. wheel'[w] = ServoSetRPM(w, wheel[w], 0)
      BY <1>1, <2>2, StopCall, TransmitWheels
    <3>2. wheel[w] \in WheelState
      BY DEF TypeOK
    <3> QED BY <3>1, <3>2, ZeroStops DEF Turning
  <2> QED BY <2>1, <2>2
<1> QED BY <1>2 DEF Stopped

(* A reboot takes a wheel's torque away, an arrival ends a position move:  *)
(* neither makes a wheel turn.                                             *)
LEMMA StaysStopped ==
  ASSUME TypeOK, Stopped, SendReboot \/ \E w \in Wheel : Arrive(w)
  PROVE  Stopped'
<1>1. ASSUME NEW w \in Wheel
      PROVE  wheel[w] \in WheelState /\ ~Turning(w)
  BY DEF TypeOK, Stopped
<1>2. CASE SendReboot
  <2>1. CASE wheel' = wheel
    BY <2>1 DEF Stopped, Turning
  <2>2. CASE wheel' = [w \in Wheel |->
                         IF w = call.servo
                           THEN [wheel[w] EXCEPT !.torque = FALSE, !.vel = 0,
                                                 !.moving = FALSE]
                           ELSE wheel[w]]
    <3>1. ASSUME NEW w \in Wheel
          PROVE  ~Turning(w)'
      <4>1. CASE w = call.servo
        <5>1. wheel'[w] = [wheel[w] EXCEPT !.torque = FALSE, !.vel = 0,
                                           !.moving = FALSE]
          BY <2>2, <4>1
        <5>2. wheel'[w].vel = 0
          BY <1>1, <5>1 DEF WheelState
        <5>3. QED
          BY <5>2 DEF Turning
      <4>2. CASE w # call.servo
        BY <1>1, <2>2, <4>2 DEF Turning
      <4>3. QED
        BY <4>1, <4>2
    <3>2. QED
      BY <3>1 DEF Stopped
  <2>3. QED
    BY <1>2, <2>1, <2>2, Zenon DEF SendReboot, GoesDown
<1>3. ASSUME NEW v \in Wheel, Arrive(v)
      PROVE  Stopped'
  <2>1. wheel' = [wheel EXCEPT ![v].moving = FALSE]
    BY <1>3 DEF Arrive
  <2>2. ASSUME NEW w \in Wheel
        PROVE  /\ wheel'[w].torque = wheel[w].torque
               /\ wheel'[w].mode = wheel[w].mode
               /\ wheel'[w].vel = wheel[w].vel
    BY <1>1, <2>1 DEF WheelState, TypeOK
  <2>3. QED
    BY <1>1, <2>2 DEF Stopped, Turning
<1>4. QED
  BY <1>2, <1>3

(* The strengthened invariant is kept by every step.  The executor can     *)
(* start the wheels only between Arm and Reset, where it claims nothing,   *)
(* and Reset makes the count of rounds start again; the deadman's steps    *)
(* carry the claim from one place of its loop to the next.                 *)
LEMMA DeadmanStep ==
  ASSUME TypeOK, BusOwned, DeadmanInv, [Next]_vars
  PROVE  DeadmanInv'
<1> USE DEF DeadmanInv, DeadmanStops, Overdue, Arming
<1>t. TypeOK'
  BY TypeStep
<1>1. CASE Node
  <2>1. ASSUME NEW c, NEW pc \in {"locking", "disarm"}, Begin(c, pc),
               pc = "locking" => c.op \notin PositionCalls
        PROVE  DeadmanInv'
    BY <2>1 DEF Begin, Stopped, Turning
  <2>2. QED
    BY <1>1, <2>1 DEF Node, CallSetAllRPM, CallSetRPM, CallSetRelativePosition,
                      CallSetAllRelativePosition, CallSetServoPosition,
                      CallReboot, PositionCalls
<1>2. CASE Executor
  <2>1. CASE WriteRPM
    BY <2>1 DEF WriteRPM
  <2>2. CASE Arm
    BY <2>2 DEF Arm
  <2>3. CASE Reset
    BY <2>3 DEF Reset, Return
  <2>4. CASE Disarm
    BY <2>4 DEF Disarm
  <2>5. CASE WritePosition
    BY <2>5 DEF WritePosition, Return
  <2>6. CASE WriteTurret
    BY <2>6 DEF WriteTurret, Return, Stopped, Turning
  <2>7. CASE SendReboot
    <3>1. Stopped => Stopped'
      BY <2>7, StaysStopped
    <3>2. /\ epc = "locking" /\ epc' \in {"rebooting", "idle"}
          /\ UNCHANGED <<switch, enabled, dpc, age, stopFailed>>
      BY <2>7, Zenon DEF SendReboot, Return
    <3>3. QED
      BY <3>1, <3>2
  <2>8. CASE EndReboot
    <3>1. Stopped' = Stopped
      BY <2>8 DEF EndReboot, Stopped, Turning
    <3>2. /\ epc = "rebooting" /\ epc' = "idle"
          /\ UNCHANGED <<switch, enabled, dpc, age, stopFailed>>
      BY <2>8, Zenon DEF EndReboot, Return
    <3>3. QED
      BY <3>1, <3>2
  <2>9. QED
    BY <1>2, <2>1, <2>2, <2>3, <2>4, <2>5, <2>6, <2>7, <2>8 DEF Executor
<1>3. CASE Deadman
  <2>1. CASE Wake
    <3>1. age \in 0..3 /\ Stopped' = Stopped
      BY <2>1 DEF Wake, TypeOK, Stopped, Turning
    <3>2. QED
      BY <2>1, <3>1 DEF Wake
  <2>2. CASE Check
    BY <2>2 DEF Check
  <2>3. CASE Stop
    <3>1. ~stopFailed' => Stopped'
      BY <2>3, StopStops
    <3>2. dpc' = "mark" /\ UNCHANGED <<enabled, epc, call, age>>
      BY <2>3 DEF Stop
    <3>3. QED
      BY <3>1, <3>2
  <2>4. CASE Mark
    BY <2>4 DEF Mark, Stopped, Turning
  <2>5. QED
    BY <1>3, <2>1, <2>2, <2>3, <2>4 DEF Deadman
<1>4. CASE Hardware
  <2>1. ASSUME NEW s \in Servo, ServoReady(s)
        PROVE  DeadmanInv'
    BY <2>1 DEF ServoReady, Stopped, Turning
  <2>2. ASSUME NEW w \in Wheel, Arrive(w)
        PROVE  DeadmanInv'
    <3>1. Stopped => Stopped'
      BY <2>2, StaysStopped
    <3>2. UNCHANGED <<switch, enabled, epc, call, dpc, age, stopFailed>>
      BY <2>2 DEF Arrive
    <3>3. QED
      BY <3>1, <3>2
  <2>3. QED
    BY <1>4, <2>1, <2>2 DEF Hardware
<1>5. CASE UNCHANGED vars
  BY <1>5 DEF vars, Stopped, Turning
<1>6. QED
  BY <1>1, <1>2, <1>3, <1>4, <1>5 DEF Next

(* Two rounds after the last reset of an enabled switch the robot stands   *)
(* still, whatever calls, faults and interleavings came before.            *)
THEOREM DeadmanCorrect == Spec => []DeadmanStops
<1>1. Init => DeadmanInv
  BY DEF Init, DeadmanInv, DeadmanStops, Overdue, Arming
<1>2. TypeOK /\ BusOwned /\ DeadmanInv /\ [Next]_vars => DeadmanInv'
  BY DeadmanStep
<1>3. DeadmanInv => DeadmanStops
  BY DEF DeadmanInv
<1>4. QED
  BY <1>1, <1>2, <1>3, TypeCorrect, OwnedCorrect, PTL DEF Spec

(* Once a position call has disabled the switch, at most the round that    *)
(* was under way stops the wheels.                                         *)
THEOREM LateStopCorrect == Spec => []OneLateStop
<1> USE DEF LateInv
<1>1. Init => LateInv
  BY DEF Init
<1>2. ASSUME TypeOK, LateInv, [Next]_vars
      PROVE  LateInv'
  <2>1. ASSUME UNCHANGED <<enabled, late, dpc>>
        PROVE  LateInv'
    BY <1>2, <2>1
  <2>2. CASE Node
    <3>1. UNCHANGED <<enabled, late, dpc>>
      BY <2>2, Zenon
         DEF Node, Begin, CallSetAllRPM, CallSetRPM, CallSetRelativePosition,
             CallSetAllRelativePosition, CallSetServoPosition, CallReboot
    <3>2. QED
      BY <3>1, <2>1
  <2>3. CASE Executor
    <3>1. CASE Arm
      BY <3>1 DEF Arm
    <3>2. CASE Disarm
      BY <3>2 DEF Disarm
    <3>3. CASE WriteRPM \/ Reset \/ WritePosition \/ WriteTurret
               \/ SendReboot \/ EndReboot
      <4>1. UNCHANGED <<enabled, late, dpc>>
        BY <3>3, Zenon DEF WriteRPM, Reset, WritePosition, WriteTurret,
                           SendReboot, EndReboot
      <4>2. QED
        BY <4>1, <2>1
    <3>4. QED
      BY <2>3, <3>1, <3>2, <3>3 DEF Executor
  <2>4. CASE Deadman
    <3>1. CASE Wake
      BY <1>2, <3>1 DEF Wake
    <3>2. CASE Check
      BY <1>2, <3>2 DEF Check
    <3>3. CASE Stop
      <4>1. late' = IF late < 2 THEN late + 1 ELSE 2
        BY <3>3, Zenon DEF Stop
      <4>2. dpc = "stop" /\ dpc' = "mark" /\ enabled' = enabled
        BY <3>3, Zenon DEF Stop
      <4>3. QED
        BY <1>2, <4>1, <4>2 DEF TypeOK
    <3>4. CASE Mark
      BY <1>2, <3>4 DEF Mark
    <3>5. QED
      BY <2>4, <3>1, <3>2, <3>3, <3>4 DEF Deadman
  <2>5. CASE Hardware
    <3>1. UNCHANGED <<enabled, late, dpc>>
      BY <2>5, Zenon DEF Hardware, ServoReady, Arrive
    <3>2. QED
      BY <3>1, <2>1
  <2>6. CASE UNCHANGED vars
    BY <2>1, <2>6 DEF vars
  <2>7. QED
    BY <1>2, <2>2, <2>3, <2>4, <2>5, <2>6 DEF Next
<1>3. LateInv => OneLateStop
  BY DEF OneLateStop
<1>4. QED
  BY <1>1, <1>2, <1>3, TypeCorrect, PTL DEF Spec
-----------------------------------------------------------------------------
(* The driver implements WheelDriver.  Only a speed command can speed a    *)
(* wheel up; everything else the driver does to a servo, faults included,  *)
(* leaves its velocity or takes it away.                                   *)
(* A position move, whether complete or not.                               *)
LEMMA MoveSlows ==
  ASSUME NEW s \in WheelState, NEW t \in {ServoMove(s)} \cup FaultyMove(s)
  PROVE  Slower(s, t)
<1>1. ASSUME NEW c \in WheelState
      PROVE  WheelVelocity([c EXCEPT !.moving = c.torque]) = WheelVelocity(c)
  BY DEF WheelVelocity, WheelState
<1>2. /\ Configured(s, "extended") \in WheelState
      /\ FaultyConfigured(s, "extended") \subseteq WheelState
  BY ConfiguredType DEF Mode
<1>3. ASSUME NEW c \in {Configured(s, "extended")} \cup FaultyConfigured(s, "extended")
      PROVE  Slower(s, c) /\ Slower(s, [c EXCEPT !.moving = c.torque])
  <2>1. Slower(s, c) /\ c \in WheelState
    BY <1>2, ConfiguredSlows DEF Mode
  <2>2. QED
    BY <1>1, <2>1 DEF Slower
<1>4. QED
  BY <1>3 DEF ServoMove, FaultyMove

(* The bus transactions of a position call.                                *)
LEMMA PositionSlows ==
  ASSUME TypeOK, call.op \in PositionCalls, Transmit(call),
         NEW w \in Wheel
  PROVE  Slower(wheel[w], wheel'[w])
<1>1. wheel[w] \in WheelState /\ faults \in Nat
  BY DEF TypeOK
<1>2. ForCall(w, call) \in {wheel[w], ServoMove(wheel[w])}
  BY DEF ForCall, PositionCalls
<1>3. FaultyForCall(w, call) = FaultyMove(wheel[w])
  BY DEF FaultyForCall, PositionCalls
<1>4. CASE wheel'[w] \in {wheel[w], ForCall(w, call)} \cup FaultyForCall(w, call)
  <2>1. Slower(wheel[w], wheel[w])
    BY DEF Slower
  <2> QED BY <1>1, <1>2, <1>3, <1>4, <2>1, MoveSlows
<1>5. CASE /\ call.op \in BulkCalls
           /\ wheel'[w] \in {Configured(wheel[w], BulkMode(call.op))}
                           \cup FaultyConfigured(wheel[w], BulkMode(call.op))
  <2>1. BulkMode(call.op) \in Mode
    BY <1>5 DEF BulkCalls, BulkMode, Mode
  <2> QED BY <1>1, <1>5, <2>1, ConfiguredSlows
<1> QED BY <1>1, <1>4, <1>5, TransmitWheels

(* No servo turns faster than it can.                                      *)
LEMMA WheelVelocityType ==
  ASSUME NEW s \in WheelState
  PROVE  WheelVelocity(s) \in -MaximumRPM..MaximumRPM
<1>1. 0 \in -MaximumRPM..MaximumRPM
  OBVIOUS
<1>2. QED
  BY <1>1 DEF WheelVelocity, WheelState

(* No step but the bus writes of a speed command speeds a wheel up.        *)
LEMMA StepSlows ==
  ASSUME TypeOK, TypeOK', [Next]_vars, ~WriteRPM
  PROVE  Velocity' \in Driver!Slowed
<1>1. ASSUME NEW w \in Wheel
      PROVE  Slower(wheel[w], wheel'[w])
  <2>1. wheel[w] \in WheelState
    BY DEF TypeOK
  <2>2. CASE wheel' = wheel
    BY <2>2 DEF Slower
  <2>3. CASE WritePosition
    BY <2>3, PositionSlows DEF WritePosition
  <2>4. CASE SendReboot
    <3>1. CASE w = call.servo /\
               wheel' = [v \in Wheel |->
                           IF v = call.servo
                             THEN [wheel[v] EXCEPT !.torque = FALSE, !.vel = 0,
                                                   !.moving = FALSE]
                             ELSE wheel[v]]
      <4>1. wheel'[w] = [wheel[w] EXCEPT !.torque = FALSE, !.vel = 0, !.moving = FALSE]
        BY <3>1
      <4>2. wheel'[w].torque = FALSE
        BY <2>1, <4>1 DEF WheelState
      <4>3. QED
        BY <4>2 DEF Slower, WheelVelocity
    <3>2. CASE wheel'[w] = wheel[w]
      BY <3>2 DEF Slower
    <3>3. QED
      BY <2>4, <3>1, <3>2 DEF SendReboot, GoesDown
  <2>5. CASE Stop
    BY <2>5, StoppedSlows
  <2>6. ASSUME NEW v \in Wheel, Arrive(v)
        PROVE  Slower(wheel[w], wheel'[w])
    <3>1. wheel' = [wheel EXCEPT ![v].moving = FALSE]
      BY <2>6 DEF Arrive
    <3>2. /\ wheel'[w].torque = wheel[w].torque
          /\ wheel'[w].mode = wheel[w].mode
          /\ wheel'[w].vel = wheel[w].vel
      BY <2>1, <3>1 DEF WheelState, TypeOK
    <3>3. QED
      BY <3>2 DEF Slower, WheelVelocity
  <2>7. \/ wheel' = wheel \/ WritePosition \/ SendReboot \/ Stop
        \/ \E v \in Wheel : Arrive(v)
    <3>1. CASE Node
      BY <3>1, Zenon
         DEF Node, Begin, CallSetAllRPM, CallSetRPM, CallSetRelativePosition,
             CallSetAllRelativePosition, CallSetServoPosition, CallReboot
    <3>2. CASE Executor
      BY <3>2, Zenon DEF Executor, Arm, Reset, Disarm, WriteTurret, EndReboot
    <3>3. CASE Deadman
      BY <3>3, Zenon DEF Deadman, Wake, Check, Mark
    <3>4. CASE Hardware
      BY <3>4, Zenon DEF Hardware, ServoReady
    <3>5. CASE UNCHANGED vars
      BY <3>5 DEF vars
    <3>6. QED
      BY <3>1, <3>2, <3>3, <3>4, <3>5 DEF Next
  <2>8. QED
    BY <2>2, <2>3, <2>4, <2>5, <2>6, <2>7
<1>2. Velocity' \in [Wheel -> -MaximumRPM..MaximumRPM]
  BY WheelVelocityType DEF Velocity, TypeOK
<1>3. QED
  BY <1>1, <1>2 DEF Driver!Slowed, Velocity, Slower

(* Every step of the two threads is a step of WheelDriver, or leaves what  *)
(* WheelDriver shows unchanged.  Two steps of the deadman end a round:     *)
(* waking up with the switch disabled, and marking the switch; a           *)
(* successful stop makes the round after a failed one count.               *)
LEMMA DriverStep ==
  ASSUME TypeOK, TypeOK', BusOwned, DeadmanInv, [Next]_vars
  PROVE  [Driver!Next]_<<Velocity, Watched, Rounds>>
<1>1. CASE WriteRPM
  <2>1. Velocity' \in [Wheel -> -MaximumRPM..MaximumRPM]
    BY WheelVelocityType DEF Velocity, TypeOK
  <2>2. Watched' = TRUE /\ Rounds' = 0
    BY <1>1 DEF WriteRPM, Watched, Rounds, Arming
  <2>3. QED
    BY <2>1, <2>2 DEF Driver!Next, Driver!Command
<1>2. CASE ~WriteRPM
  <2>v. Velocity' \in Driver!Slowed
    BY <1>2, StepSlows
  <2>s. ASSUME Watched' = Watched, Rounds' = Rounds
        PROVE  Driver!Next
    BY <2>v, <2>s DEF Driver!Next, Driver!Slow
  <2>1. CASE UNCHANGED <<enabled, epc, dpc, age, stopFailed>>
    BY <2>1, <2>s DEF Watched, Rounds, Arming, RoundsOver
  <2>r. ASSUME Watched' = Watched,
               \/ Rounds = 0 /\ Rounds' = 1
               \/ Rounds = 1 /\ Rounds' = 2 /\ (Watched => Velocity' = Driver!Still)
        PROVE  Driver!Next
    <3>1. Driver!Round(Velocity')
      BY <2>r DEF Driver!Round
    <3>2. QED
      BY <2>v, <3>1 DEF Driver!Next
  <2>2. CASE Node
    <3>1. /\ epc = "idle" /\ epc' \in {"locking", "disarm"}
          /\ UNCHANGED <<enabled, dpc, age, stopFailed>>
      BY <2>2, Zenon
         DEF Node, Begin, CallSetAllRPM, CallSetRPM, CallSetRelativePosition,
             CallSetAllRelativePosition, CallSetServoPosition, CallReboot
    <3>2. QED
      BY <2>s, <3>1 DEF Watched, Rounds, Arming, RoundsOver
  <2>3. CASE WritePosition \/ WriteTurret \/ SendReboot \/ EndReboot
    <3>1. /\ epc \in {"locking", "rebooting"} /\ epc' \in {"idle", "rebooting"}
          /\ UNCHANGED <<enabled, dpc, age, stopFailed>>
      BY <2>3, Zenon DEF WritePosition, WriteTurret, SendReboot, EndReboot, Return
    <3>2. QED
      BY <2>s, <3>1 DEF Watched, Rounds, Arming, RoundsOver
  <2>4. CASE Arm
    BY <2>4, <2>s DEF Arm, Watched, Rounds, Arming
  <2>5. CASE Reset
    <3>0. /\ epc = "reset" /\ epc' = "idle"
          /\ UNCHANGED <<wheel, enabled>> /\ enabled \in BOOLEAN
      BY <2>5 DEF Reset, Return, TypeOK
    <3>1. /\ Watched = TRUE /\ Watched' = enabled /\ Rounds = 0
          /\ Velocity' = Velocity
      BY <3>0 DEF Watched, Rounds, Arming, Velocity
    <3>2. Rounds' = 0
      BY <2>5 DEF Reset, Return, Rounds, Arming, RoundsOver
    <3>3. CASE enabled
      BY <2>s, <3>1, <3>2, <3>3 DEF Watched
    <3>4. CASE ~enabled
      BY <3>1, <3>2, <3>4 DEF Driver!Next, Driver!Release, TypeOK
    <3>5. QED
      BY <3>3, <3>4
  <2>6. CASE Disarm
    <3>1. Watched' = FALSE /\ Rounds' = Rounds /\ Velocity' = Velocity
      BY <2>6 DEF Disarm, Watched, Rounds, Arming, RoundsOver, Velocity
    <3>2. QED
      BY <3>1 DEF Driver!Next, Driver!Release
  <2>7. CASE Wake
    <3>1. /\ dpc = "sleep" /\ age' = (IF age < 3 THEN age + 1 ELSE 3)
          /\ dpc' = (IF enabled THEN "check" ELSE "sleep")
          /\ UNCHANGED <<enabled, epc, stopFailed>>
      BY <2>7 DEF Wake
    <3>2. Watched' = Watched
      BY <3>1 DEF Watched, Arming
    <3>3. CASE Arming \/ enabled
      <4>1. Rounds' = Rounds
        BY <3>1, <3>3 DEF Rounds, Arming, RoundsOver, TypeOK
      <4>2. QED
        BY <2>s, <3>2, <4>1
    <3>4. CASE ~Arming /\ ~enabled
      <4>1. ~Watched
        BY <3>4 DEF Watched
      <4>2. \/ Rounds' = Rounds
            \/ Rounds = 0 /\ Rounds' = 1
            \/ Rounds = 1 /\ Rounds' = 2
        <5>1. age \in 0..3 /\ RoundsOver = age
          BY <3>1 DEF TypeOK, RoundsOver
        <5>2. dpc' = "sleep" /\ RoundsOver' = age' /\ ~Arming /\ ~Arming'
          BY <3>1, <3>4 DEF RoundsOver, Arming
        <5>3. age' = age \/ age' = age + 1
          BY <3>1, <5>1
        <5>4. QED
          BY <3>1, <5>1, <5>2, <5>3 DEF Rounds
      <4>3. QED
        BY <2>s, <2>r, <3>2, <4>1, <4>2
    <3>5. QED
      BY <3>3, <3>4
  <2>8. CASE Check
    <3>1. /\ dpc = "check" /\ dpc' \in {"stop", "mark"}
          /\ UNCHANGED <<enabled, epc, age, stopFailed>>
      BY <2>8 DEF Check
    <3>2. QED
      BY <2>s, <3>1 DEF Watched, Rounds, Arming, RoundsOver
  <2>9. CASE Stop
    <3>1. /\ dpc = "stop" /\ dpc' = "mark" /\ UNCHANGED <<enabled, epc, age>>
      BY <2>9 DEF Stop
    <3>2. Watched' = Watched
      BY <3>1 DEF Watched, Arming
    <3>3. ~stopFailed' => Velocity' = Driver!Still
      <4>1. ~stopFailed' => Stopped'
        BY <2>9, StopStops
      <4>2. QED
        BY <4>1 DEF Stopped, Turning, Velocity, WheelVelocity, Driver!Still
    <3>4. \/ Rounds' = Rounds
          \/ Rounds = 1 /\ Rounds' = 2 /\ ~stopFailed'
          \/ Rounds = 2 /\ Rounds' = 1
      BY <3>1 DEF Rounds, Arming, RoundsOver, TypeOK
    <3>5. ASSUME Rounds = 2, Rounds' = 1
          PROVE  Driver!Next
      BY <2>v, <3>2, <3>5 DEF Driver!Next, Driver!Miss
    <3>6. QED
      BY <2>s, <2>r, <3>2, <3>3, <3>4, <3>5
  <2>10. CASE Mark
    <3>1. /\ dpc = "mark" /\ dpc' = "sleep"
          /\ UNCHANGED <<wheel, enabled, epc, age, stopFailed>>
      BY <2>10 DEF Mark
    <3>2. Watched' = Watched
      BY <3>1 DEF Watched, Arming
    <3>3. \/ Rounds' = Rounds
          \/ Rounds = 0 /\ Rounds' = 1
          \/ Rounds = 1 /\ Rounds' = 2 /\ ~Arming /\ age >= 2 /\ ~stopFailed
      BY <3>1 DEF Rounds, Arming, RoundsOver, TypeOK
    <3>4. ASSUME ~Arming, age >= 2, ~stopFailed, Watched
          PROVE  Velocity' = Driver!Still
      <4>1. Stopped
        BY <3>1, <3>4 DEF DeadmanInv, Overdue, Watched
      <4>2. QED
        BY <3>1, <4>1 DEF Stopped, Turning, Velocity, WheelVelocity, Driver!Still
    <3>5. QED
      BY <2>s, <2>r, <3>2, <3>3, <3>4
  <2>11. CASE Hardware
    <3>1. UNCHANGED <<enabled, epc, dpc, age, stopFailed>>
      BY <2>11, Zenon DEF Hardware, ServoReady, Arrive
    <3>2. QED
      BY <2>1, <3>1
  <2>12. CASE UNCHANGED vars
    BY <2>1, <2>12 DEF vars
  <2>13. QED
    BY <1>2, <2>2, <2>3, <2>4, <2>5, <2>6, <2>7, <2>8, <2>9, <2>10, <2>11, <2>12
       DEF Next, Executor, Deadman
<1>3. QED
  BY <1>1, <1>2

(* The class, with its two threads, its atomics and its mutex, keeps the   *)
(* contract the nodes above it rely on.                                    *)
THEOREM DriverCorrect == Spec => ImplementsDriver
<1>1. Init => Driver!Init
  <2>1. SUFFICES ASSUME Init PROVE Driver!Init
    OBVIOUS
  <2>2. Velocity = Driver!Still
    BY <2>1 DEF Init, Velocity, WheelVelocity, Driver!Still
  <2>3. Watched \in BOOLEAN /\ Rounds = 0
    BY <2>1 DEF Init, Watched, Rounds, Arming, RoundsOver
  <2>4. QED
    BY <2>2, <2>3 DEF Driver!Init
<1>2. TypeOK /\ TypeOK' /\ BusOwned /\ DeadmanInv /\ [Next]_vars
        => [Driver!Next]_<<Velocity, Watched, Rounds>>
  BY DriverStep
<1>3. Spec => []DeadmanInv
  <2>1. Init => DeadmanInv
    BY DEF Init, DeadmanInv, DeadmanStops, Overdue, Arming
  <2>2. TypeOK /\ BusOwned /\ DeadmanInv /\ [Next]_vars => DeadmanInv'
    BY DeadmanStep
  <2>3. QED
    BY <2>1, <2>2, TypeCorrect, OwnedCorrect, PTL DEF Spec
<1>4. QED
  BY <1>1, <1>2, <1>3, TypeCorrect, OwnedCorrect, PTL DEF Spec, ImplementsDriver, Driver!Spec
-----------------------------------------------------------------------------
(* Without faults a robot that was left driving is guarded.  While the     *)
(* switch is disabled, wheels turn on both sides only before a speed       *)
(* command arms it, or before a position call, having disabled it, took    *)
(* one side out of velocity mode.                                          *)
OneSide == \/ \A w \in LeftWheels  : ~Turning(w)
           \/ \A w \in RightWheels : ~Turning(w)

ArmedInv ==
  /\ epc = "disarm" => call.op \in PositionCalls
  /\ epc = "reset" => enabled
  /\ faults = 0 /\ ~enabled =>
       OneSide \/ epc = "arm" \/ (epc = "locking" /\ call.op \in PositionCalls)

(* One side stays still under all steps but the bus writes of a speed      *)
(* command.                                                                *)
LEMMA SideStays ==
  ASSUME TypeOK, TypeOK', [Next]_vars, ~WriteRPM, OneSide
  PROVE  OneSide'
<1>1. ASSUME NEW w \in Wheel, Turning(w)'
      PROVE  Turning(w)
  <2>1. Velocity' \in Driver!Slowed
    BY StepSlows
  <2>2. Velocity'[w] \in {Velocity[w], 0}
    BY <2>1 DEF Driver!Slowed
  <2>3. WheelVelocity(wheel'[w]) \in {WheelVelocity(wheel[w]), 0}
    BY <2>2 DEF Velocity
  <2>4. WheelVelocity(wheel'[w]) # 0
    BY <1>1 DEF Turning, WheelVelocity
  <2>5. QED
    BY <2>3, <2>4, TurningMoves
<1>2. QED
  BY <1>1 DEF OneSide, Wheel

(* A position call that no fault hits takes its side, or all wheels, out   *)
(* of velocity mode.                                                       *)
LEMMA MoveEndsTurning ==
  ASSUME TypeOK, BusOwned, WritePosition, faults' = faults
  PROVE  OneSide'
<1>1. call.op \in PositionCalls /\ faults \in Nat /\ Transmit(call)
  BY DEF TypeOK, WritePosition
<1>2. call.on \in {Wheel, LeftWheels, RightWheels}
  BY <1>1 DEF TypeOK, Call, PositionCalls, RPMCalls, None
<1>3. ASSUME NEW w \in Wheel, w \in call.on
      PROVE  ~Turning(w)'
  <2>1. wheel[w] \in WheelState
    BY DEF TypeOK
  <2>d. CASE w \in down
    <3>1. WheelVelocity(wheel[w]) = 0
      BY <2>d DEF BusOwned, DownStands, WheelVelocity
    <3>2. Slower(wheel[w], wheel'[w])
      BY <1>1, PositionSlows
    <3> QED BY <3>1, <3>2 DEF Slower, Turning, WheelVelocity
  <2>u. ASSUME w \notin down
        PROVE  wheel'[w] = ServoMove(wheel[w])
    BY <1>1, <1>3, <2>u, TransmitWheels DEF ForCall, PositionCalls
  <2>3. Configured(wheel[w], "extended") \in WheelState
    BY <2>1, ConfiguredType DEF Mode
  <2>4. Configured(wheel[w], "extended").mode = "extended"
    BY DEF Configured
  <2>5. ServoMove(wheel[w]).mode = "extended"
    BY <2>3, <2>4 DEF ServoMove, WheelState
  <2>6. QED
    BY <2>d, <2>u, <2>5 DEF Turning
<1>4. QED
  BY <1>2, <1>3 DEF OneSide, Wheel

LEMMA ArmedStep == TypeOK /\ TypeOK' /\ BusOwned /\ ArmedInv /\ [Next]_vars => ArmedInv'
<1> SUFFICES ASSUME TypeOK, TypeOK', BusOwned, ArmedInv, [Next]_vars PROVE ArmedInv'
  OBVIOUS
<1> USE DEF ArmedInv
<1>0. /\ faults \in Nat /\ (faults' = faults \/ faults' = faults + 1)
      /\ faults' = 0 => faults = 0
  <2>1. faults \in Nat
    BY DEF TypeOK
  <2>2. faults' = faults \/ faults' = faults + 1
    <3>1. CASE Node
      BY <3>1, Zenon
         DEF Node, Begin, CallSetAllRPM, CallSetRPM, CallSetRelativePosition,
             CallSetAllRelativePosition, CallSetServoPosition, CallReboot
    <3>2. CASE WriteRPM \/ WritePosition
      BY <2>1, <3>2, TransmitWheels DEF WriteRPM, WritePosition
    <3>3. CASE Stop
      BY <2>1, <3>3, StopCall, TransmitWheels DEF Stop
    <3>a. CASE Arm \/ Reset \/ Disarm \/ WriteTurret \/ SendReboot \/ EndReboot
      BY <3>a, Zenon DEF Arm, Reset, Disarm, WriteTurret, SendReboot, EndReboot
    <3>b. CASE Wake \/ Check \/ Mark
      BY <3>b, Zenon DEF Wake, Check, Mark
    <3>4. CASE Hardware
      BY <3>4, Zenon DEF Hardware, ServoReady, Arrive
    <3>5. CASE UNCHANGED vars
      BY <3>5 DEF vars
    <3>6. QED
      BY <3>1, <3>2, <3>3, <3>a, <3>b, <3>4, <3>5 DEF Next, Executor, Deadman
  <2>3. QED
    BY <2>1, <2>2
<1>1. OneSide /\ ~WriteRPM => OneSide'
  BY SideStays
<1>2. CASE Node
  <2>1. ASSUME NEW c, NEW pc \in {"locking", "disarm"}, Begin(c, pc),
               pc = "disarm" => c.op \in PositionCalls
        PROVE  ArmedInv'
    <3>1. /\ epc = "idle" /\ epc' = pc /\ call' = c
          /\ UNCHANGED <<wheel, faults, enabled>>
      BY <2>1 DEF Begin
    <3>2. OneSide' = OneSide
      BY <3>1 DEF OneSide, Turning
    <3>3. QED
      BY <2>1, <3>1, <3>2
  <2>2. QED
    BY <1>2, <2>1 DEF Node, CallSetAllRPM, CallSetRPM, CallSetRelativePosition,
                      CallSetAllRelativePosition, CallSetServoPosition,
                      CallReboot, PositionCalls
<1>3. CASE WriteRPM
  BY <1>3, Zenon DEF WriteRPM
<1>4. CASE WritePosition
  <2>1. faults' = 0 => OneSide'
    BY <1>0, <1>4, MoveEndsTurning
  <2>2. epc' = "idle"
    BY <1>4 DEF WritePosition, Return
  <2>3. QED
    BY <2>1, <2>2
<1>5. CASE SendReboot
  <2>1. /\ epc = "locking" /\ call.op \notin PositionCalls /\ epc' \in {"rebooting", "idle"}
        /\ enabled' = enabled
    BY <1>5, Zenon DEF SendReboot, Return, PositionCalls
  <2>2. ~WriteRPM
    BY <1>5 DEF SendReboot, WriteRPM, RPMCalls
  <2>3. QED
    BY <1>0, <1>1, <2>1, <2>2
<1>6. CASE Arm \/ Reset \/ Disarm
  BY <1>6 DEF Arm, Reset, Return, Disarm
<1>7. CASE WriteTurret \/ EndReboot
  <2>1. /\ \/ epc = "locking" /\ call.op \notin PositionCalls
           \/ epc = "rebooting"
        /\ epc' = "idle" /\ UNCHANGED <<wheel, enabled, faults>>
    BY <1>7, Zenon DEF WriteTurret, EndReboot, Return, PositionCalls
  <2>2. OneSide' = OneSide
    BY <2>1 DEF OneSide, Turning
  <2>3. QED
    BY <2>1, <2>2
<1>8. CASE Deadman \/ Hardware \/ UNCHANGED vars
  <2>1. UNCHANGED <<epc, call, enabled>>
    <3>1. CASE Deadman
      BY <3>1, Zenon DEF Deadman, Wake, Check, Stop, Mark
    <3>2. CASE Hardware
      BY <3>2, Zenon DEF Hardware, ServoReady, Arrive
    <3>3. QED
      BY <1>8, <3>1, <3>2 DEF vars
  <2>2. CASE WriteRPM
    BY <1>3, <2>2
  <2>3. CASE ~WriteRPM
    BY <1>0, <1>1, <2>1, <2>3
  <2>4. QED
    BY <2>2, <2>3
<1>9. QED
  BY <1>2, <1>3, <1>4, <1>5, <1>6, <1>7, <1>8 DEF Next, Executor

(* Without bus faults, no call leaves wheels turning on both sides with    *)
(* the deadman's switch disabled, for any wheels, speeds and calls.        *)
THEOREM ArmedCorrect == Spec => []ArmedWhileDriving
<1>1. Init => ArmedInv
  <2>1. Init => OneSide
    BY DEF Init, OneSide, Turning, Wheel
  <2>2. QED
    BY <2>1 DEF Init, ArmedInv
<1>2. TypeOK /\ TypeOK' /\ BusOwned /\ ArmedInv /\ [Next]_vars => ArmedInv'
  BY ArmedStep
<1>3. ArmedInv => ArmedWhileDriving
  BY DEF ArmedInv, ArmedWhileDriving, OneSide
<1>4. QED
  BY <1>1, <1>2, <1>3, TypeCorrect, OwnedCorrect, PTL DEF Spec
-----------------------------------------------------------------------------
(* Once the nodes make no more calls, no step touches the switch's flag or *)
(* starts a wheel: what a round, an arrival or a late answer does to a     *)
(* servo of DynamixelComms only takes speed away.                          *)
THEOREM SilenceCorrect == Spec => SilenceKeeps
<1>1. ASSUME TypeOK, TypeOK', [Next]_vars, Silent
      PROVE  Silent' /\ enabled' = enabled /\ (Stopped => Stopped')
  <2>1. calls \in Nat /\ calls = MaxCalls /\ epc = "idle"
    BY <1>1 DEF TypeOK, Silent
  <2>2. ~Node
    <3>1. ~(calls < MaxCalls)
      BY <2>1
    <3>2. QED
      BY <3>1, Zenon DEF Node, Begin, CallSetAllRPM, CallSetRPM, CallSetRelativePosition,
                         CallSetAllRelativePosition, CallSetServoPosition, CallReboot
  <2>3. ~Executor
    BY <2>1 DEF Executor, WriteRPM, Arm, Reset, Disarm, WritePosition, WriteTurret,
                SendReboot, EndReboot
  <2>4. UNCHANGED <<calls, epc, enabled>>
    BY <1>1, <2>2, <2>3, Zenon
       DEF Next, Deadman, Wake, Check, Stop, Mark, Hardware, ServoReady, Arrive, vars
  <2>5. ASSUME NEW w \in Wheel, Turning(w)'
        PROVE  Turning(w)
    <3>1. Velocity' \in Driver!Slowed
      BY <1>1, <2>3, StepSlows DEF Executor
    <3>2. WheelVelocity(wheel'[w]) \in {WheelVelocity(wheel[w]), 0}
      BY <3>1 DEF Driver!Slowed, Velocity
    <3>3. WheelVelocity(wheel'[w]) # 0
      BY <2>5 DEF Turning, WheelVelocity
    <3>4. QED
      BY <3>2, <3>3, TurningMoves
  <2>6. QED
    BY <2>1, <2>4, <2>5 DEF Silent, Stopped
<1>2. TypeOK /\ TypeOK' /\ [Next]_vars
        => [Silent => Silent' /\ enabled' = enabled /\ (Stopped => Stopped')]_vars
  BY <1>1
<1>3. QED
  BY <1>2, TypeCorrect, PTL DEF Spec, SilenceKeeps
=============================================================================
