------------------------------ MODULE DiffDrive ------------------------------
(***************************************************************************)
(* The node diff_drive_controller: a twist becomes a message of four wheel *)
(* speeds, by the geometry in the robot description, once that has been    *)
(* received.  Lengths are 1 where the description has them.                *)
(***************************************************************************)
EXTENDS Integers, Sequences

VARIABLES
  model,        \* what the description received holds, "none" before
  controlled,   \* the node's queue of twists, of depth 1
  allMotors     \* multiple_wheel_drive_node's queue, of depth 1

Descriptions == {"complete", "no joint", "no cylinder", "no wheel"}

(* The first description that can be parsed is kept.                       *)
DescriptionCallback(d) ==
  /\ model = "none"
  /\ model' = d
  /\ UNCHANGED <<controlled, allMotors>>

(* GetWheelDistance, GetWheelRadius: -1 stands for a value not found.      *)
Distance == IF model \in {"complete", "no cylinder"} THEN 1 ELSE -1
Radius   == IF model \in {"complete", "no joint"}    THEN 1 ELSE -1

(* The description has one of them.                                        *)
Usable == Distance > 0 \/ Radius > 0

(* A radius of 1 or -1 divides as it multiplies.                           *)
Left(t)  == (t.linear - t.angular * Distance) * Radius
Right(t) == (t.linear + t.angular * Distance) * Radius

(* PublishAllMotorsMessage.                                                *)
Motor(id, speed) == [id |-> id, mode |-> "radians_second", speed |-> speed]

Motors(t) == << Motor("FRONT_LEFT", Left(t)), Motor("FRONT_RIGHT", Right(t)),
                Motor("REAR_LEFT", Left(t)),  Motor("REAR_RIGHT", Right(t)) >>

(* Mutant: a stop is not worth a message.                                  *)
SkipZero ==
  /\ controlled # <<>>
  /\ controlled' = <<>>
  /\ allMotors' = IF Usable /\ Head(controlled).linear # 0
                    THEN <<Motors(Head(controlled))>> ELSE allMotors
  /\ UNCHANGED model

CommandCallback ==
  /\ controlled # <<>>
  /\ controlled' = <<>>
  /\ allMotors' = IF Usable THEN <<Motors(Head(controlled))>> ELSE allMotors
  /\ UNCHANGED model
=============================================================================
