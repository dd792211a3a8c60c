-------------------------- MODULE MCDynamixelComms --------------------------
(***************************************************************************)
(* Instances of DynamixelComms for TLC.  One wheel stands for each side:   *)
(* the code treats the front and the rear wheel of a side alike, and only  *)
(* the difference between the sides matters to the deadman's switch.       *)
(***************************************************************************)
EXTENDS DynamixelComms

CONSTANTS left, right

OneLeft  == {left}
OneRight == {right}

\* A speed within the limits, and one that exceeds them.
SlowOrFast == {1, 3}
StopOrGo == {0, 1}

AllCalls  == RPMCalls \cup PositionCalls \cup {"SetServoPosition", "Reboot"}

=============================================================================
