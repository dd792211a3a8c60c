------------------------- MODULE MultipleWheelDrive -------------------------
(***************************************************************************)
(* The node multiple_wheel_drive_node of the driver: which call of         *)
(* DynamixelComms a message on /all_motors becomes.  A message is a        *)
(* sequence of motors, each with an id, a mode and the value for its mode. *)
(***************************************************************************)
EXTENDS Integers, Sequences, FiniteSets

Wheels == {"FRONT_LEFT", "FRONT_RIGHT", "REAR_LEFT", "REAR_RIGHT"}

(* The wheels a motor id stands for.                                       *)
Named(id) == CASE id = "LEFT"  -> {"FRONT_LEFT", "REAR_LEFT"}
               [] id = "RIGHT" -> {"FRONT_RIGHT", "REAR_RIGHT"}
               [] OTHER        -> {id} \cap Wheels

Supported == {"relative", "speed", "radians_second"}

(* The supported modes in the message; others are not looked at.           *)
Modes(msg) == {msg[i].mode : i \in DOMAIN msg} \cap Supported

Latest(S) == CHOOSE i \in S : \A j \in S : j <= i

(* A wheel gets the value of the last motor that names it, or stands.      *)
Assigned(msg, w) ==
  LET naming == {i \in DOMAIN msg : w \in Named(msg[i].id)}
  IN  IF naming = {} THEN 0 ELSE msg[Latest(naming)].speed

(* The wheel speeds of the message: one mode for all of it, or no call.    *)
IsSpeed(msg) == Cardinality(Modes(msg)) = 1 /\ "relative" \notin Modes(msg)

SetAllMotorsSpeed(msg) == [w \in Wheels |-> Assigned(msg, w)]
=============================================================================
