--------------------------- MODULE MCTurretHeading ---------------------------
(* Instances of TurretHeading for TLC.                                     *)
EXTENDS TurretHeading

\* forward_command and backward_command of joystick.launch.py.
LaunchCommands == [h \in Headings |-> IF h = "forwards" THEN 180 ELSE 0]
=============================================================================
