----------------------------- MODULE WheelDriver -----------------------------
(***************************************************************************)
(* What dynamixel_driver promises the nodes that command the wheels.  A    *)
(* command takes effect and is watched over: rounds of the deadman's       *)
(* switch go by, and the second one after the latest command stops the     *)
(* wheels.  The driver may slow a wheel down at any time, never speed one  *)
(* up by itself.  DynamixelComms implements this.                          *)
(***************************************************************************)
EXTENDS Integers

CONSTANTS
  Wheel,
  Velocities   \* velocities a wheel can turn with, 0 among them

VARIABLES
  velocity,   \* velocity[w]: how fast wheel w turns
  watched,    \* the deadman's switch is enabled
  silent      \* rounds since the latest command, 0..2

Still == [w \in Wheel |-> 0]

(* What the velocities may have come to when no command raised them.       *)
Slowed == {v \in [Wheel -> Velocities] : \A w \in Wheel : v[w] \in {velocity[w], 0}}

Init == velocity = Still /\ watched \in BOOLEAN /\ silent = 0

Command(v) == velocity' = v /\ watched' = TRUE /\ silent' = 0

(* A position call is not watched over.                                    *)
Release == watched' = FALSE /\ UNCHANGED <<velocity, silent>>

(* A position call, a reboot, or a stop meant for an earlier command.      *)
Slow(v) == velocity' = v /\ UNCHANGED <<watched, silent>>

Round(v) ==
  /\ silent' = IF silent = 0 THEN 1 ELSE 2
  /\ watched /\ silent' = 2 => v = Still
  /\ velocity' = v
  /\ UNCHANGED watched

(* A stop that a servo missed counts for nothing: the next round repeats   *)
(* it.                                                                     *)
Miss(v) == silent = 2 /\ silent' = 1 /\ velocity' = v /\ UNCHANGED watched

Next ==
  \/ \E v \in [Wheel -> Velocities] : Command(v)
  \/ Release
  \/ \E v \in Slowed : Slow(v) \/ Round(v) \/ Miss(v)

Spec == Init /\ [][Next]_<<velocity, watched, silent>>
=============================================================================
