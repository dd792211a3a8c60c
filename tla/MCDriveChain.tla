---------------------------- MODULE MCDriveChain ----------------------------
(* Instances of DriveChain for TLC.                                        *)
EXTENDS DriveChain

StopOrGo == {Zero, [linear |-> Full, angular |-> 0]}

\* Rolled to one side, and pitched too far; it starts level.
Lies == {[roll |-> 2, pitch |-> FALSE], [roll |-> 0, pitch |-> TRUE]}

\* Not pressed, or backwards.
Pad == {0, -1}

\* The robot's own, or one that cannot be used.
UsableOrNot == {"complete", "no wheel"}
=============================================================================
