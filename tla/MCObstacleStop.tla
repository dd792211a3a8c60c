--------------------------- MODULE MCObstacleStop ---------------------------
(* Instances of ObstacleStop for TLC.                                      *)
EXTENDS ObstacleStop

\* Something ahead of the robot, or behind it.
OneSide == {{"forwards"}, {"backwards"}}
=============================================================================
