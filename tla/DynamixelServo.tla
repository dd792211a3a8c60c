--------------------------- MODULE DynamixelServo ---------------------------
(***************************************************************************)
(* The class DynamixelServo for one wheel: the sequence of bus             *)
(* transactions each operation makes, the servo's registers, and the       *)
(* encoder total the driver keeps on top of them.                          *)
(*                                                                         *)
(* DynamixelComms calls the operations one at a time under its mutex, so   *)
(* there is one program counter.  Between two transactions the world goes  *)
(* on: the wheel turns, and any transaction may fail.  A read that fails   *)
(* counts as position 0 (GetPresentPosition).  A write that fails may      *)
(* have been lost, or carried out with its reply lost; a reply with the    *)
(* servo's alert bit set counts as failed, too (CommsCheck).               *)
(*                                                                         *)
(* The servo counts encoder ticks in its present-position register, but a  *)
(* change of its operating mode, and a reboot, modify the count.  The      *)
(* driver's total has to survive that: UpdateEncoderCount.                 *)
(***************************************************************************)
EXTENDS Integers

CONSTANTS
  Bases,      \* what a mode change or a reboot may set the position to
  Moves,      \* counts a wheel may turn in one step
  MaxCalls,   \* bound: operations called in a behaviour
  MaxFaults,  \* bound: transactions that fail
  MaxMoves    \* bound: steps of the wheel

ASSUME ServoAssumption ==
  /\ Bases \subseteq Int /\ Moves \subseteq Int
  /\ MaxCalls \in Nat /\ MaxFaults \in Nat /\ MaxMoves \in Nat

VARIABLES
  mode,       \* the servo's operating mode
  torque,     \* the motor is powered
  pos,        \* present-position register
  total,      \* total_encoder_count_
  last,       \* last_encoder_count_
  pc,         \* the transaction the driver makes next
  op,         \* the operation in progress, or the latest
  calls, faults, moves,   \* bounded counters
  travel,     \* history: counts the wheel has turned
  counted,    \* history: travel when the mode change read the position
  slip,       \* history: counts turned within mode changes
  spoiled,    \* history: a fault or a reboot cost the driver the count
  rebooted    \* history: rebooted since the torque was last switched on

servo   == <<mode, torque, pos>>
driver  == <<total, last>>
history == <<travel, counted, slip, spoiled, rebooted>>
vars    == <<servo, driver, pc, op, calls, faults, moves, history>>

Mode == {"velocity", "extended"}
Operation == {"SetRPM", "SetRelativePosition", "GetTotalEncoderCount", "Reboot"}
Place == {"idle", "mode", "torqueOff", "count", "setMode", "recount",
          "torqueOn", "goal", "read", "move", "total", "reboot", "poll"}

TypeOK ==
  /\ mode \in Mode /\ torque \in BOOLEAN /\ pos \in Int
  /\ total \in Int /\ last \in Int
  /\ pc \in Place /\ op \in Operation
  /\ calls \in 0..MaxCalls /\ faults \in 0..MaxFaults /\ moves \in 0..MaxMoves
  /\ travel \in Int /\ counted \in Int /\ slip \in Int
  /\ spoiled \in BOOLEAN /\ rebooted \in BOOLEAN
-----------------------------------------------------------------------------
(* A transaction is answered, or it fails.                                 *)
Answered == UNCHANGED faults
Failed   == faults < MaxFaults /\ faults' = faults + 1

(* GetPresentPosition returns p.                                           *)
PositionRead(p) == \/ p = pos /\ Answered
                   \/ p = 0   /\ Failed

(* The mode the operation needs.                                           *)
Wanted == IF op = "SetRPM" THEN "velocity" ELSE "extended"

(* The first transaction after ConfigureControlMode.                       *)
AfterConfigure == IF op = "SetRPM" THEN "goal" ELSE "read"

(* What the position register may hold after a mode change or a reboot.    *)
Rebased == {pos} \cup Bases

(* Init of the class has rebooted the servo, set the velocity mode, whose  *)
(* second UpdateEncoderCount read the position, and torque is on.  The     *)
(* total is whatever it was: last_encoder_count_ was not initialised       *)
(* before the first update.  Counting starts from there (travel).          *)
Init ==
  /\ mode = "velocity" /\ torque = TRUE
  /\ pos \in Bases /\ last = pos
  /\ total \in Bases /\ travel = total
  /\ pc = "idle" /\ op = "GetTotalEncoderCount"
  /\ calls = 0 /\ faults = 0 /\ moves = 0
  /\ counted = travel /\ slip = 0 /\ spoiled = FALSE
  /\ rebooted = FALSE

Begin(o, place) ==
  /\ pc = "idle"
  /\ calls < MaxCalls
  /\ calls' = calls + 1
  /\ op' = o
  /\ pc' = place
  /\ UNCHANGED <<servo, driver, faults, moves, history>>

CallSetRPM == Begin("SetRPM", "mode")

CallSetRelativePosition == Begin("SetRelativePosition", "mode")

CallGetTotalEncoderCount == Begin("GetTotalEncoderCount", "total")

CallReboot == Begin("Reboot", "reboot")
-----------------------------------------------------------------------------
(* ConfigureControlMode.                                                   *)

(* GetOperatingMode; a mode that cannot be read differs from every mode.   *)
(* The position read that follows it is discarded by the code.             *)
ReadMode ==
  /\ pc = "mode"
  /\ \/ Answered /\ pc' = IF mode = Wanted THEN AfterConfigure ELSE "torqueOff"
     \/ Failed /\ pc' = "torqueOff"
  /\ UNCHANGED <<servo, driver, op, calls, moves, history>>

(* Mutant: the result of EnableTorque(false) is ignored.                   *)
ChangeAnyway ==
  /\ pc = "torqueOff"
  /\ \/ Answered /\ torque' = FALSE
     \/ Failed /\ torque' \in {torque, FALSE}
  /\ pc' = "count"
  /\ UNCHANGED <<mode, pos, driver, op, calls, moves, history>>

(* EnableTorque(false); if it fails the mode is left as it is.             *)
TorqueOff ==
  /\ pc = "torqueOff"
  /\ \/ Answered /\ torque' = FALSE /\ pc' = "count"
     \/ Failed /\ torque' \in {torque, FALSE} /\ pc' = AfterConfigure
  /\ UNCHANGED <<mode, pos, driver, op, calls, moves, history>>

(* SetOperatingMode: UpdateEncoderCount(false), before the mode changes.   *)
CountBeforeChange ==
  /\ pc = "count"
  /\ \E p \in {pos, 0} :
       /\ PositionRead(p)
       /\ total' = total + (p - last)
       /\ last' = p
  /\ counted' = travel
  /\ spoiled' = (spoiled \/ faults' # faults)
  /\ pc' = "setMode"
  /\ UNCHANGED <<servo, op, calls, moves, travel, slip, rebooted>>

(* The new mode is written.  If that fails the driver leaves it at that:   *)
(* torque stays off, the position is not read again.                       *)
SetMode ==
  /\ pc = "setMode"
  /\ \/ /\ Answered
        /\ mode' = Wanted /\ pos' \in Rebased
        /\ pc' = "recount"
        /\ UNCHANGED spoiled
     \/ /\ Failed
        /\ \/ UNCHANGED <<mode, pos, spoiled>>
           \/ mode' = Wanted /\ pos' \in Rebased /\ spoiled' = TRUE
        /\ pc' = AfterConfigure
  /\ UNCHANGED <<torque, driver, op, calls, moves, travel, counted, slip, rebooted>>

(* Mutant: the difference to the position before the change is counted.    *)
CountTwice ==
  /\ pc = "recount"
  /\ \E p \in {pos, 0} :
       /\ PositionRead(p)
       /\ total' = total + (p - last)
       /\ last' = p
  /\ slip' = slip + (travel - counted)
  /\ spoiled' = (spoiled \/ faults' # faults)
  /\ pc' = "torqueOn"
  /\ UNCHANGED <<servo, op, calls, moves, travel, counted, rebooted>>

(* UpdateEncoderCount(true), after the profile of the new mode is written. *)
RecountAfterChange ==
  /\ pc = "recount"
  /\ \E p \in {pos, 0} : PositionRead(p) /\ last' = p
  /\ slip' = slip + (travel - counted)
  /\ spoiled' = (spoiled \/ faults' # faults)
  /\ pc' = "torqueOn"
  /\ UNCHANGED <<servo, total, op, calls, moves, travel, counted, rebooted>>

(* Mutant: torque is not switched on again.                                *)
LeaveTorqueOff ==
  /\ pc = "torqueOn"
  /\ Answered
  /\ pc' = AfterConfigure
  /\ UNCHANGED <<servo, driver, op, calls, moves, history>>

(* EnableTorque(true).                                                     *)
TorqueOn ==
  /\ pc = "torqueOn"
  /\ \/ Answered /\ torque' = TRUE
     \/ Failed /\ torque' \in {torque, TRUE}
  /\ rebooted' = (rebooted /\ ~torque')
  /\ pc' = AfterConfigure
  /\ UNCHANGED <<mode, pos, driver, op, calls, moves,
                 travel, counted, slip, spoiled>>
-----------------------------------------------------------------------------
(* The operations after ConfigureControlMode.                              *)

(* SetVelocity: the goal velocity is of no concern to this module.         *)
WriteVelocity ==
  /\ pc = "goal"
  /\ Answered \/ Failed
  /\ pc' = "idle"
  /\ UNCHANGED <<servo, driver, op, calls, moves, history>>

(* SetRelativePosition reads where the wheel is ...                        *)
ReadBase ==
  /\ pc = "read"
  /\ Answered \/ Failed
  /\ pc' = "move"
  /\ UNCHANGED <<servo, driver, op, calls, moves, history>>

(* ... and SetGoalPosition sends the goal.                                 *)
WriteGoal ==
  /\ pc = "move"
  /\ Answered \/ Failed
  /\ pc' = "idle"
  /\ UNCHANGED <<servo, driver, op, calls, moves, history>>

(* Mutant: a failed read leaves the last count alone but not the total.    *)
ForgetLast ==
  /\ pc = "total"
  /\ \E p \in {pos, 0} :
       /\ PositionRead(p)
       /\ total' = total + (p - last)
       /\ last' = IF faults' = faults THEN p ELSE last
  /\ pc' = "idle"
  /\ UNCHANGED <<servo, op, calls, moves, history>>

(* GetTotalEncoderCount: UpdateEncoderCount(false), and the total is       *)
(* returned.                                                               *)
ReturnTotal ==
  /\ pc = "total"
  /\ \E p \in {pos, 0} :
       /\ PositionRead(p)
       /\ total' = total + (p - last)
       /\ last' = p
  /\ pc' = "idle"
  /\ UNCHANGED <<servo, op, calls, moves, history>>

(* Reboot: the servo's position starts anew and its torque is off, also    *)
(* when the reply is lost, or carries the alert bit.                       *)
StartAnew == /\ pos' \in Rebased /\ torque' = FALSE
             /\ spoiled' = TRUE /\ rebooted' = TRUE

SendReboot ==
  /\ pc = "reboot"
  /\ \/ /\ Answered
        /\ StartAnew
        /\ pc' = "poll"
     \/ /\ Failed
        /\ StartAnew \/ UNCHANGED <<pos, torque, spoiled, rebooted>>
        /\ pc' = "idle"
  /\ UNCHANGED <<mode, driver, op, calls, moves, travel, counted, slip>>

(* ... until the servo returns its model number.                           *)
PollModel ==
  /\ pc = "poll"
  /\ pc' = "idle"
  /\ UNCHANGED <<servo, driver, op, calls, faults, moves, history>>
-----------------------------------------------------------------------------
(* The wheel turns: driven while torque is on, rolling on while it is off. *)
Turn ==
  /\ moves < MaxMoves
  /\ moves' = moves + 1
  /\ \E d \in Moves : pos' = pos + d /\ travel' = travel + d
  /\ UNCHANGED <<mode, torque, driver, pc, op, calls, faults,
                 counted, slip, spoiled, rebooted>>

Calls == \/ CallSetRPM \/ CallSetRelativePosition
         \/ CallGetTotalEncoderCount \/ CallReboot

Configure == \/ ReadMode \/ TorqueOff \/ CountBeforeChange
             \/ SetMode \/ RecountAfterChange \/ TorqueOn

Act == WriteVelocity \/ ReadBase \/ WriteGoal \/ ReturnTotal
         \/ SendReboot \/ PollModel

(* Nobody calls and the wheel stands still.                                *)
Rest == pc = "idle" /\ UNCHANGED vars

Next == Calls \/ Configure \/ Act \/ Turn \/ Rest

Spec == Init /\ [][Next]_vars
-----------------------------------------------------------------------------
(* The position was counted and is not read again yet.                     *)
Changing == pc \in {"setMode", "recount"}

(* The driver's total survives the modification of the servo's count: with *)
(* what the wheel turned since the last update it is what the wheel has    *)
(* travelled, less what it turned within mode changes.  Failed reads       *)
(* outside of a mode change do not matter: the 0 they count for is taken   *)
(* back by the next update.                                                *)
EncoderAccounts ==
  ~spoiled /\ ~Changing => total + (pos - last) = travel - slip

(* Why it holds: within a mode change the total alone is up to date with   *)
(* the moment of the first update.                                         *)
EncoderInv ==
  /\ EncoderAccounts
  /\ ~spoiled /\ Changing => total = counted - slip
  /\ ~spoiled /\ pc = "setMode" => total + (pos - last) = travel - slip

(* What GetTotalEncoderCount returns after a good read is exact up to that *)
(* slip, however many mode changes and failed reads came before.           *)
ReturnsTravel ==
  [][ReturnTotal /\ faults' = faults /\ ~spoiled => total' = travel - slip]_vars

(* While no transaction has failed, a wheel is in the mode its latest      *)
(* command needed and has its torque on between calls, unless it was       *)
(* rebooted: then the torque stays off through any number of calls, until  *)
(* one of them changes the mode.                                           *)
ReadyBetweenCalls ==
  pc = "idle" /\ faults = 0 =>
    /\ torque <=> ~rebooted
    /\ op \in {"SetRPM", "SetRelativePosition"} => mode = Wanted

(* The servo accepts a new operating mode only while its torque is off:    *)
(* the driver never asks for one otherwise, whatever transaction failed    *)
(* before.                                                                 *)
ModeChangesUnpowered == [][mode' # mode => ~torque]_vars
=============================================================================
