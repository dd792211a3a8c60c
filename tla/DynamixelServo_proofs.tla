------------------------ MODULE DynamixelServo_proofs ------------------------
(***************************************************************************)
(* Proofs about DynamixelServo: for any positions, moves and bounds, the   *)
(* driver's encoder total accounts for what the wheel travelled.           *)
(***************************************************************************)
EXTENDS DynamixelServo, TLAPS

USE ServoAssumption
-----------------------------------------------------------------------------
(* A fault that is counted stays within the bound.                         *)
LEMMA FaultsBounded ==
  ASSUME TypeOK, Answered \/ Failed
  PROVE  faults' \in 0..MaxFaults
BY DEF TypeOK, Answered, Failed

(* What a position read returns is a position.                             *)
LEMMA ReadType ==
  ASSUME TypeOK, NEW p, PositionRead(p)
  PROVE  p \in Int /\ faults' \in 0..MaxFaults
BY FaultsBounded DEF TypeOK, PositionRead

(* A modified position is a position.                                      *)
LEMMA RebasedType ==
  ASSUME TypeOK
  PROVE  Rebased \subseteq Int
BY DEF TypeOK, Rebased

(* Every action keeps the types.                                           *)
LEMMA TypeStep ==
  ASSUME TypeOK, [Next]_vars
  PROVE  TypeOK'
<1> USE DEF servo, driver, history
<1>1. ASSUME NEW o \in Operation, NEW place \in Place, Begin(o, place)
      PROVE  TypeOK'
  <2>1. calls' \in 0..MaxCalls
    BY <1>1 DEF Begin, TypeOK
  <2>2. QED
    BY <1>1, <2>1, Zenon DEF Begin, TypeOK
<1>2. CASE Calls
  <2>1. {"SetRPM", "SetRelativePosition", "GetTotalEncoderCount", "Reboot"} \subseteq Operation
    BY DEF Operation
  <2>2. {"mode", "total", "reboot"} \subseteq Place
    BY DEF Place
  <2>3. QED
    BY <1>1, <1>2, <2>1, <2>2, Zenon
       DEF Calls, CallSetRPM, CallSetRelativePosition, CallGetTotalEncoderCount,
           CallReboot
<1>3. CASE ReadMode
  <2>1. faults' \in 0..MaxFaults
    BY <1>3, FaultsBounded DEF ReadMode
  <2>2. pc' \in Place
    BY <1>3 DEF ReadMode, AfterConfigure, Place
  <2>3. QED
    BY <1>3, <2>1, <2>2, Zenon DEF ReadMode, TypeOK
<1>4. CASE TorqueOff
  <2>1. faults' \in 0..MaxFaults
    BY <1>4, FaultsBounded DEF TorqueOff
  <2>2. pc' \in Place
    BY <1>4 DEF TorqueOff, AfterConfigure, Place
  <2>3. torque' \in BOOLEAN
    BY <1>4, Zenon DEF TorqueOff, TypeOK
  <2>4. QED
    BY <1>4, <2>1, <2>2, <2>3, Zenon DEF TorqueOff, TypeOK
<1>5. CASE CountBeforeChange
  <2>1. faults' \in 0..MaxFaults /\ total' \in Int /\ last' \in Int
    BY <1>5, ReadType DEF CountBeforeChange, TypeOK
  <2>2. pc' \in Place /\ spoiled' \in BOOLEAN
    BY <1>5, Zenon DEF CountBeforeChange, Place, TypeOK
  <2>3. QED
    BY <1>5, <2>1, <2>2, Zenon DEF CountBeforeChange, TypeOK
<1>6. CASE SetMode
  <2>1. faults' \in 0..MaxFaults
    BY <1>6, FaultsBounded DEF SetMode
  <2>2. pc' \in Place
    BY <1>6 DEF SetMode, AfterConfigure, Place
  <2>3. mode' \in Mode
    BY <1>6, Zenon DEF SetMode, Wanted, Mode, TypeOK
  <2>4. pos' \in Int /\ spoiled' \in BOOLEAN
    BY <1>6, RebasedType, Zenon DEF SetMode, TypeOK
  <2>5. QED
    BY <1>6, <2>1, <2>2, <2>3, <2>4, Zenon DEF SetMode, TypeOK
<1>7. CASE RecountAfterChange
  <2>1. faults' \in 0..MaxFaults /\ last' \in Int /\ slip' \in Int
    BY <1>7, ReadType DEF RecountAfterChange, TypeOK
  <2>2. pc' \in Place /\ spoiled' \in BOOLEAN
    BY <1>7, Zenon DEF RecountAfterChange, Place, TypeOK
  <2>3. QED
    BY <1>7, <2>1, <2>2, Zenon DEF RecountAfterChange, TypeOK
<1>8. CASE TorqueOn
  <2>1. faults' \in 0..MaxFaults
    BY <1>8, FaultsBounded DEF TorqueOn
  <2>2. pc' \in Place
    BY <1>8 DEF TorqueOn, AfterConfigure, Place
  <2>3. torque' \in BOOLEAN /\ rebooted' \in BOOLEAN
    BY <1>8, Zenon DEF TorqueOn, TypeOK
  <2>4. QED
    BY <1>8, <2>1, <2>2, <2>3, Zenon DEF TorqueOn, TypeOK
<1>9. CASE WriteVelocity
  <2>1. faults' \in 0..MaxFaults
    BY <1>9, FaultsBounded DEF WriteVelocity
  <2>2. QED
    BY <1>9, <2>1, Zenon DEF WriteVelocity, TypeOK, Place
<1>10. CASE ReadBase
  <2>1. faults' \in 0..MaxFaults
    BY <1>10, FaultsBounded DEF ReadBase
  <2>2. QED
    BY <1>10, <2>1, Zenon DEF ReadBase, TypeOK, Place
<1>11. CASE WriteGoal
  <2>1. faults' \in 0..MaxFaults
    BY <1>11, FaultsBounded DEF WriteGoal
  <2>2. QED
    BY <1>11, <2>1, Zenon DEF WriteGoal, TypeOK, Place
<1>12. CASE ReturnTotal
  <2>1. faults' \in 0..MaxFaults /\ total' \in Int /\ last' \in Int
    BY <1>12, ReadType DEF ReturnTotal, TypeOK
  <2>2. QED
    BY <1>12, <2>1, Zenon DEF ReturnTotal, TypeOK, Place
<1>13. CASE SendReboot
  <2>1. faults' \in 0..MaxFaults
    BY <1>13, FaultsBounded DEF SendReboot
  <2>2. /\ pos' \in Int /\ torque' \in BOOLEAN
        /\ spoiled' \in BOOLEAN /\ rebooted' \in BOOLEAN
    BY <1>13, RebasedType, Zenon DEF SendReboot, StartAnew, TypeOK
  <2>3. pc' \in Place
    BY <1>13 DEF SendReboot, Place
  <2>4. QED
    BY <1>13, <2>1, <2>2, <2>3, Zenon DEF SendReboot, TypeOK
<1>14. CASE PollModel
  BY <1>14, Zenon DEF PollModel, TypeOK, Place
<1>15. CASE Turn
  <2>1. moves' \in 0..MaxMoves /\ pos' \in Int /\ travel' \in Int
    BY <1>15 DEF Turn, TypeOK
  <2>2. QED
    BY <1>15, <2>1, Zenon DEF Turn, TypeOK
<1>16. CASE UNCHANGED vars
  BY <1>16, Zenon DEF vars, TypeOK
<1>17. QED
  BY <1>2, <1>3, <1>4, <1>5, <1>6, <1>7, <1>8, <1>9, <1>10, <1>11, <1>12,
     <1>13, <1>14, <1>15, <1>16, Zenon
     DEF Next, Configure, Act, Rest

(* Registers, driver state and the place in the operation stay in their    *)
(* types, whatever fails.                                                  *)
THEOREM TypeCorrect == Spec => []TypeOK
<1>1. ASSUME Init
      PROVE  TypeOK
  <2>1. /\ mode \in Mode /\ op \in Operation /\ pc \in Place
        /\ torque \in BOOLEAN /\ spoiled \in BOOLEAN /\ rebooted \in BOOLEAN
    BY <1>1, Zenon DEF Init, Mode, Operation, Place
  <2>2. /\ pos \in Int /\ last \in Int /\ total \in Int
        /\ travel \in Int /\ counted \in Int /\ slip \in Int
    BY <1>1 DEF Init
  <2>3. calls \in 0..MaxCalls /\ faults \in 0..MaxFaults /\ moves \in 0..MaxMoves
    BY <1>1 DEF Init
  <2>4. QED
    BY <2>1, <2>2, <2>3, Zenon DEF TypeOK
<1>2. TypeOK /\ [Next]_vars => TypeOK'
  BY TypeStep
<1>3. QED
  BY <1>1, <1>2, PTL DEF Spec
-----------------------------------------------------------------------------
(* An action that leaves the count and its history alone, outside of a     *)
(* mode change, keeps the invariant.                                       *)
LEMMA CountUntouched ==
  ASSUME EncoderInv,
         UNCHANGED <<pos, total, last, travel, counted, slip, spoiled>>,
         ~Changing, ~Changing'
  PROVE  EncoderInv'
BY DEF EncoderInv, EncoderAccounts, Changing

(* A position read that met no fault returned the position.                *)
LEMMA GoodRead ==
  ASSUME TypeOK, NEW p, PositionRead(p), faults' = faults
  PROVE  p = pos
BY DEF TypeOK, PositionRead, Failed

(* Every step keeps the account.  The first update of a mode change brings *)
(* the total up to date with the wheel; from there to the second one the   *)
(* servo's count means nothing, and what the wheel turns is slip.          *)
LEMMA EncoderStep ==
  ASSUME TypeOK, EncoderInv, [Next]_vars
  PROVE  EncoderInv'
<1> USE DEF servo, driver, history
<1>t. TypeOK'
  BY TypeStep
<1>1. CASE Calls
  <2>1. ASSUME NEW o, NEW place \in {"mode", "total", "reboot"}, Begin(o, place)
        PROVE  EncoderInv'
    BY <2>1, CountUntouched DEF Begin, Changing
  <2>2. QED
    BY <1>1, <2>1, Zenon
       DEF Calls, CallSetRPM, CallSetRelativePosition, CallGetTotalEncoderCount,
           CallReboot
<1>2. CASE ReadMode \/ TorqueOff \/ TorqueOn
  BY <1>2, CountUntouched
     DEF ReadMode, TorqueOff, TorqueOn, AfterConfigure, Changing
<1>3. CASE WriteVelocity \/ ReadBase \/ WriteGoal \/ PollModel
  BY <1>3, CountUntouched
     DEF WriteVelocity, ReadBase, WriteGoal, PollModel, Changing
<1>4. CASE CountBeforeChange
  <2>1. CASE spoiled'
    BY <2>1 DEF EncoderInv, EncoderAccounts
  <2>2. CASE ~spoiled'
    <3>1. ~spoiled /\ faults' = faults
      BY <1>4, <2>2, Zenon DEF CountBeforeChange
    <3>2. total' = total + (pos - last) /\ last' = pos
      BY <1>4, <3>1, GoodRead DEF CountBeforeChange
    <3>3. total + (pos - last) = travel - slip
      BY <1>4, <3>1
         DEF CountBeforeChange, EncoderInv, EncoderAccounts, Changing
    <3>4. /\ counted' = travel /\ pc' = "setMode"
          /\ UNCHANGED <<pos, travel, slip>>
      BY <1>4 DEF CountBeforeChange
    <3>5. QED
      BY <3>2, <3>3, <3>4 DEF EncoderInv, EncoderAccounts, Changing, TypeOK
  <2>3. QED
    BY <2>1, <2>2
<1>5. CASE SetMode
  <2>1. CASE spoiled'
    BY <2>1 DEF EncoderInv, EncoderAccounts
  <2>2. CASE ~spoiled' /\ pc' = "recount"
    BY <1>5, <2>2 DEF SetMode, EncoderInv, EncoderAccounts, Changing
  <2>3. CASE ~spoiled' /\ pc' # "recount"
    <3>1. /\ pc = "setMode" /\ pc' = AfterConfigure /\ ~spoiled
          /\ UNCHANGED <<pos, total, last, travel, slip>>
      BY <1>5, <2>3 DEF SetMode
    <3>2. QED
      BY <3>1 DEF AfterConfigure, EncoderInv, EncoderAccounts, Changing
  <2>4. QED
    BY <2>1, <2>2, <2>3
<1>6. CASE RecountAfterChange
  <2>1. CASE spoiled'
    BY <2>1 DEF EncoderInv, EncoderAccounts
  <2>2. CASE ~spoiled'
    <3>1. ~spoiled /\ faults' = faults
      BY <1>6, <2>2, Zenon DEF RecountAfterChange
    <3>2. last' = pos /\ slip' = slip + (travel - counted)
      BY <1>6, <3>1, GoodRead DEF RecountAfterChange
    <3>3. total = counted - slip
      BY <1>6, <3>1 DEF RecountAfterChange, EncoderInv, Changing
    <3>4. pc' = "torqueOn" /\ UNCHANGED <<pos, total, travel>>
      BY <1>6 DEF RecountAfterChange
    <3>5. QED
      BY <3>2, <3>3, <3>4 DEF EncoderInv, EncoderAccounts, Changing, TypeOK
  <2>3. QED
    BY <2>1, <2>2
<1>7. CASE ReturnTotal
  <2>1. PICK p : /\ PositionRead(p)
                 /\ total' = total + (p - last)
                 /\ last' = p
    BY <1>7 DEF ReturnTotal
  <2>2. p \in Int
    BY <2>1, ReadType
  <2>3. /\ pc = "total" /\ pc' = "idle"
        /\ UNCHANGED <<pos, travel, slip, spoiled>>
    BY <1>7 DEF ReturnTotal
  <2>4. QED
    BY <2>1, <2>2, <2>3 DEF EncoderInv, EncoderAccounts, Changing, TypeOK
<1>8. CASE SendReboot
  <2>1. CASE spoiled'
    BY <2>1 DEF EncoderInv, EncoderAccounts
  <2>2. CASE ~spoiled'
    <3>1. /\ pc = "reboot" /\ pc' = "idle"
          /\ UNCHANGED <<pos, total, last, travel, counted, slip, spoiled>>
      BY <1>8, <2>2, Zenon DEF SendReboot, StartAnew
    <3>2. QED
      BY <3>1, CountUntouched DEF Changing
  <2>3. QED
    BY <2>1, <2>2
<1>9. CASE Turn
  <2>1. PICK d \in Moves : pos' = pos + d /\ travel' = travel + d
    BY <1>9 DEF Turn
  <2>2. UNCHANGED <<pc, total, last, counted, slip, spoiled>>
    BY <1>9 DEF Turn
  <2>3. QED
    BY <2>1, <2>2 DEF EncoderInv, EncoderAccounts, Changing, TypeOK
<1>10. CASE UNCHANGED vars
  BY <1>10 DEF vars, EncoderInv, EncoderAccounts, Changing
<1>11. QED
  BY <1>1, <1>2, <1>3, <1>4, <1>5, <1>6, <1>7, <1>8, <1>9, <1>10, Zenon
     DEF Next, Configure, Act, Rest

(* The account holds in every reachable state.                             *)
LEMMA EncoderInvariant == Spec => []EncoderInv
<1>1. Init => EncoderInv
  BY DEF Init, EncoderInv, EncoderAccounts, Changing
<1>2. TypeOK /\ EncoderInv /\ [Next]_vars => EncoderInv'
  BY EncoderStep
<1>3. QED
  BY <1>1, <1>2, TypeCorrect, PTL DEF Spec

(* The driver's total is what the wheel travelled, less what it turned     *)
(* within mode changes, through any number of mode changes and failed      *)
(* regular reads.                                                          *)
THEOREM EncoderCorrect == Spec => []EncoderAccounts
<1>1. EncoderInv => EncoderAccounts
  BY DEF EncoderInv
<1>2. QED
  BY <1>1, EncoderInvariant, PTL

(* And so is every count that GetTotalEncoderCount returns after a good    *)
(* read of the position.                                                   *)
THEOREM ReturnCorrect == Spec => ReturnsTravel
<1>1. ASSUME TypeOK, EncoderInv, ReturnTotal, faults' = faults, ~spoiled
      PROVE  total' = travel - slip
  <2>1. total' = total + (pos - last)
    BY <1>1, GoodRead DEF ReturnTotal
  <2>2. total + (pos - last) = travel - slip
    BY <1>1 DEF ReturnTotal, EncoderInv, EncoderAccounts, Changing
  <2>3. QED
    BY <2>1, <2>2
<1>2. TypeOK /\ EncoderInv
        => [ReturnTotal /\ faults' = faults /\ ~spoiled => total' = travel - slip]_vars
  BY <1>1
<1>3. QED
  BY <1>2, TypeCorrect, EncoderInvariant, PTL DEF ReturnsTravel
-----------------------------------------------------------------------------
(* Torque and mode at each place of an operation.  From the count before a *)
(* mode change to the one after it torque is off, whatever failed; and as  *)
(* long as nothing failed it is off elsewhere only after a reboot, and the *)
(* mode is the wanted one from the moment it is written.                   *)
Sound == faults = 0

PowerInv ==
  /\ pc \in {"count", "setMode", "recount"} => ~torque
  /\ Sound =>
       /\ pc \in {"idle", "mode", "torqueOff", "goal", "read", "move", "total",
                  "reboot", "poll"}
            => (torque <=> ~rebooted)
       /\ pc \in {"recount", "torqueOn", "goal", "read", "move"} => mode = Wanted
       /\ pc = "idle" /\ op \in {"SetRPM", "SetRelativePosition"} => mode = Wanted
       /\ pc = "total" => op = "GetTotalEncoderCount"
       /\ pc \in {"reboot", "poll"} => op = "Reboot"

(* Nothing failed up to a state if nothing failed up to the one before and *)
(* in the step between.                                                    *)
LEMMA SoundBefore ==
  ASSUME TypeOK, [Next]_vars
  PROVE  Sound' => Sound /\ faults' = faults
<1>1. faults \in Nat
  BY ServoAssumption DEF TypeOK
<1>2. faults' = faults \/ faults' = faults + 1
  BY DEF Next, Calls, CallSetRPM, CallSetRelativePosition, CallGetTotalEncoderCount,
         CallReboot, Begin, Configure, ReadMode, TorqueOff, CountBeforeChange, SetMode,
         RecountAfterChange, TorqueOn, Act, WriteVelocity, ReadBase, WriteGoal,
         ReturnTotal, SendReboot, PollModel, Turn, Rest, PositionRead, Answered, Failed,
         vars
<1> QED BY <1>1, <1>2 DEF Sound

LEMMA PowerStep == TypeOK /\ PowerInv /\ [Next]_vars => PowerInv'
<1> SUFFICES ASSUME TypeOK, PowerInv, [Next]_vars PROVE PowerInv'
  OBVIOUS
<1> USE DEF servo, driver, history, PowerInv, AfterConfigure, Wanted
<1>0. Sound' => Sound /\ faults' = faults
  BY SoundBefore
<1>f. Failed => ~Sound'
  <2>1. faults \in Nat
    BY ServoAssumption DEF TypeOK
  <2> QED BY <2>1, <1>0 DEF Failed
<1>1. CASE Calls
  BY <1>1, <1>0
     DEF Calls, CallSetRPM, CallSetRelativePosition, CallGetTotalEncoderCount,
         CallReboot, Begin
<1>2. CASE ReadMode
  BY <1>2, <1>0, <1>f DEF ReadMode
<1>3. CASE TorqueOff
  BY <1>3, <1>0, <1>f DEF TorqueOff
<1>4. CASE CountBeforeChange
  BY <1>4, <1>0 DEF CountBeforeChange
<1>5. CASE SetMode
  BY <1>5, <1>0, <1>f DEF SetMode
<1>6. CASE RecountAfterChange
  BY <1>6, <1>0 DEF RecountAfterChange
<1>7. CASE TorqueOn
  BY <1>7, <1>0, <1>f DEF TorqueOn
<1>8. CASE WriteVelocity \/ ReadBase \/ WriteGoal \/ ReturnTotal
  BY <1>8, <1>0 DEF WriteVelocity, ReadBase, WriteGoal, ReturnTotal
<1>9. CASE SendReboot \/ PollModel
  BY <1>9, <1>0, <1>f DEF SendReboot, StartAnew, PollModel
<1>10. CASE Turn \/ UNCHANGED vars
  BY <1>10, <1>0 DEF Turn, vars
<1> QED BY <1>1, <1>2, <1>3, <1>4, <1>5, <1>6, <1>7, <1>8, <1>9, <1>10
       DEF Next, Configure, Act, Rest

LEMMA PowerInvariant == Spec => []PowerInv
<1>1. Init => PowerInv
  BY DEF Init, PowerInv, Sound
<1> QED BY <1>1, PowerStep, TypeCorrect, PTL DEF Spec

(* Between calls a wheel that met no fault is in the mode of its latest    *)
(* command, and is powered unless a reboot has taken the torque since it   *)
(* was last switched on.                                                   *)
THEOREM ReadyCorrect == Spec => []ReadyBetweenCalls
<1>1. PowerInv => ReadyBetweenCalls
  BY DEF PowerInv, Sound, ReadyBetweenCalls
<1> QED BY <1>1, PowerInvariant, PTL

(* The mode is never written while torque is on, whatever failed before.   *)
THEOREM UnpoweredCorrect == Spec => ModeChangesUnpowered
<1>1. ASSUME PowerInv, [Next]_vars, mode' # mode
      PROVE  ~torque
  <2>1. SetMode
    BY <1>1
       DEF Next, Calls, CallSetRPM, CallSetRelativePosition, CallGetTotalEncoderCount,
           CallReboot, Begin, Configure, ReadMode, TorqueOff, CountBeforeChange,
           RecountAfterChange, TorqueOn, Act, WriteVelocity, ReadBase, WriteGoal,
           ReturnTotal, SendReboot, PollModel, Turn, Rest, vars, servo
  <2> QED BY <2>1, <1>1 DEF SetMode, PowerInv
<1>2. PowerInv /\ [Next]_vars => [mode' # mode => ~torque]_vars
  BY <1>1
<1> QED BY <1>2, PowerInvariant, PTL DEF Spec, ModeChangesUnpowered
=============================================================================
