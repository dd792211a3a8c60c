-------------------------- MODULE ObstacleDetection --------------------------
(***************************************************************************)
(* The node obstacle_detection: a lidar scan closer than the model of the  *)
(* pipe, no model at all, or no scan for a second require a stop.  What    *)
(* applies is published ten times a second.                                *)
(*                                                                         *)
(* A scan is abstracted to where the lidar looked and whether something    *)
(* was there.  A model for that very heading tells the two apart; compared *)
(* with a model for another heading, the scan may give either result.      *)
(***************************************************************************)
EXTENDS Topics

VARIABLES
  obstacle,    \* the node's attributes
  distances,   \* its queue of models
  stops        \* auto_drive's queue of /stop_obstacle

None == "none"

(* model: ellipse_distances.  scan: last_scan_time, as the age of the scan *)
(* compared with lidar_timeout.                                            *)
ObstacleState == [model: Headings \cup {None},
                  scan: {"never", "recent", "old"},
                  stop_required: BOOLEAN]

Started == [model |-> None, scan |-> "never", stop_required |-> TRUE]

(* ellipse_callback.                                                       *)
EllipseCallback ==
  /\ distances # <<>>
  /\ distances' = Tail(distances)
  /\ obstacle' = [obstacle EXCEPT !.model = Head(distances)]
  /\ UNCHANGED stops

(* The results scan_callback can come to for the scan s.                   *)
Results(s) == IF obstacle.model = None      THEN {TRUE}
              ELSE IF obstacle.model = s.at THEN {s.close}
              ELSE BOOLEAN

(* scan_callback.                                                          *)
ScanCallback(s) ==
  /\ \E stop \in Results(s) :
       obstacle' = [obstacle EXCEPT !.scan = "recent", !.stop_required = stop]
  /\ UNCHANGED <<distances, stops>>

(* lidar_timeout passes without a scan.                                    *)
ScanGetsOld ==
  /\ obstacle.scan = "recent"
  /\ obstacle' = [obstacle EXCEPT !.scan = "old"]
  /\ UNCHANGED <<distances, stops>>

(* Mutant: the age of the scan is not looked at.                           *)
KeepOldResult ==
  /\ stops' = Arrived(stops, obstacle.stop_required)
  /\ UNCHANGED <<obstacle, distances>>

(* timer_callback.                                                         *)
TimerCallback ==
  /\ stops' = Arrived(stops, obstacle.scan # "recent" \/ obstacle.stop_required)
  /\ UNCHANGED <<obstacle, distances>>

(* Mutant: main ends as its last verdict has it.                           *)
QuitQuietly ==
  /\ UNCHANGED <<obstacle, distances, stops>>

(* main publishes a stop when the process ends.                            *)
Quit ==
  /\ stops' = Arrived(stops, TRUE)
  /\ UNCHANGED <<obstacle, distances>>
=============================================================================
