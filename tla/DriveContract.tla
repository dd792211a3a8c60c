---------------------------- MODULE DriveContract ----------------------------
(***************************************************************************)
(* What the operator is promised of semi-autonomous driving.  The robot    *)
(* starts from a standstill only, and each start uses up one press of the  *)
(* button made before.  It can stop at any time, and drives in the         *)
(* direction it started in until it does.                                  *)
(***************************************************************************)
EXTENDS Naturals

VARIABLES drive, unused   \* unused: presses that did not start the robot

Init == drive = "stop" /\ unused = 0

Press == unused' = unused + 1 /\ UNCHANGED drive

Start(h) == /\ drive = "stop" /\ unused > 0
            /\ drive' = h
            /\ unused' = unused - 1

Stop == drive' = "stop" /\ UNCHANGED unused

Next == Press \/ Stop \/ \E h \in {"forwards", "backwards"} : Start(h)

Spec == Init /\ [][Next]_<<drive, unused>>
=============================================================================
