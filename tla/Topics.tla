------------------------------- MODULE Topics -------------------------------
(***************************************************************************)
(* A ROS 2 topic as a subscriber sees it: a queue that keeps the last      *)
(* Depth messages and drops the oldest when one more arrives.              *)
(***************************************************************************)
EXTENDS Naturals, Sequences

CONSTANT Depth    \* history depth of a subscription

ASSUME TopicsAssumption == Depth \in Nat \ {0}

(* What a subscription to messages of the set S may hold.                  *)
Queue(S) == {q \in Seq(S) : Len(q) <= Depth}

Headings == {"forwards", "backwards"}

(* The queue q after message m arrived.                                    *)
Arrived(q, m) ==
  LET longer == Append(q, m)
  IN  IF Len(longer) > Depth THEN Tail(longer) ELSE longer
=============================================================================
