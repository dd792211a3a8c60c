-------------------------- MODULE MCDynamixelServo --------------------------
(* Instances of DynamixelServo for TLC.                                    *)
EXTENDS DynamixelServo

\* The register after a mode change: around zero, and past the range below.
FewBases == {0, 3}
\* One count either way.
Either == {-1, 1}
=============================================================================
