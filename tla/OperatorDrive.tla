---------------------------- MODULE OperatorDrive ----------------------------
(***************************************************************************)
(* The node auto_drive between the operator and whatever the rest of the   *)
(* robot may publish: any stop and any heading can arrive at any time, and *)
(* the process can be started anew.                                        *)
(***************************************************************************)
EXTENDS Topics

CONSTANTS
  MaxPresses,   \* bound: presses of X
  MaxRestarts   \* bound: restarts of the process

ASSUME OperatorDriveAssumption ==
  /\ MaxPresses \in Nat /\ MaxRestarts \in Nat

VARIABLES
  auto, autoJoy, stops, autoDirection, drive,
  button,     \* the operator holds X down
  presses,    \* presses so far
  restarts,   \* restarts so far
  starts      \* history: how often a press switched auto drive on

autoVars == <<auto, autoJoy, stops, autoDirection, drive>>
vars == <<autoVars, button, presses, restarts, starts>>

AutoNode == INSTANCE AutoDrive

TypeOK ==
  /\ auto \in AutoNode!AutoState /\ drive \in AutoNode!Drives
  /\ autoJoy \in Queue(BOOLEAN) /\ stops \in Queue(BOOLEAN)
  /\ autoDirection \in Queue(Headings)
  /\ button \in BOOLEAN
  /\ presses \in 0..MaxPresses /\ restarts \in 0..MaxRestarts /\ starts \in Nat

Init ==
  /\ auto = AutoNode!Started /\ drive = "stop"
  /\ autoJoy = <<>> /\ stops = <<>> /\ autoDirection = <<>>
  /\ button \in BOOLEAN /\ presses = 0 /\ restarts = 0 /\ starts = 0
-----------------------------------------------------------------------------
(* The joy node publishes every change of a button, and repeats the state  *)
(* of the buttons (autorepeat_rate).                                       *)
PublishJoy ==
  /\ autoJoy' = Arrived(autoJoy, button')
  /\ UNCHANGED <<auto, stops, autoDirection, drive, restarts, starts>>

Press == /\ ~button /\ presses < MaxPresses
         /\ button' = TRUE /\ presses' = presses + 1
         /\ PublishJoy

ReleaseOrRepeat == /\ button' \in {button, FALSE}
                   /\ UNCHANGED presses
                   /\ PublishJoy

(* obstacle_detection and turret_joystick_node publish.                    *)
StopArrives ==
  /\ \E stop \in BOOLEAN : stops' = Arrived(stops, stop)
  /\ UNCHANGED <<auto, autoJoy, autoDirection, drive,
                 button, presses, restarts, starts>>

HeadingArrives ==
  /\ \E h \in Headings : autoDirection' = Arrived(autoDirection, h)
  /\ UNCHANGED <<auto, autoJoy, stops, drive, button, presses, restarts, starts>>

(* The node's steps.                                                       *)
SwitchOn == AutoNode!SwitchOn /\ starts' = starts + 1
                          /\ UNCHANGED <<button, presses, restarts>>

OtherCallbacks == AutoNode!OtherCallbacks /\ UNCHANGED <<button, presses, restarts, starts>>

Restart == /\ restarts < MaxRestarts
           /\ restarts' = restarts + 1
           /\ AutoNode!Restart
           /\ UNCHANGED <<button, presses, starts>>

Next == \/ Press \/ ReleaseOrRepeat \/ StopArrives \/ HeadingArrives
        \/ SwitchOn \/ OtherCallbacks \/ Restart

Spec == Init /\ [][Next]_vars
-----------------------------------------------------------------------------
(* The command published last is a stop unless auto drive is on; then no   *)
(* stop is required and the command is towards the turret's heading.       *)
(* Every callback that switches auto drive off has to publish, and none    *)
(* may leave a drive command for a heading it has replaced.                *)
DriveMatches ==
  drive # "stop" => /\ auto.enabled /\ ~auto.stop_required
                    /\ drive = auto.heading

(* Auto drive is on only for a press of the operator: one press starts the *)
(* robot at most once, from a standstill, and it keeps its direction until *)
(* it stops; whatever the other nodes publish, messages are dropped, the   *)
(* button is held, or the node is started anew.                            *)
Contract == INSTANCE DriveContract WITH unused <- presses - starts
ImplementsContract == Contract!Spec
=============================================================================
