------------------------------ MODULE AutoDrive ------------------------------
(***************************************************************************)
(* The node auto_drive: button X starts and stops driving at a constant    *)
(* speed towards where the turret faces.  It stops, and stays off until    *)
(* the next press, when obstacle_detection requires a stop or the turret   *)
(* changes its heading.                                                    *)
(***************************************************************************)
EXTENDS Topics

VARIABLES
  auto,           \* the node's attributes
  autoJoy,        \* its queue of Joy messages: whether X is down
  stops,          \* its queue of /stop_obstacle
  autoDirection,  \* its queue of headings
  drive           \* the command it published last on /cmd_vel

Drives == Headings \cup {"stop"}

(* last: the X button in last_buttons, "none" while that list is empty.    *)
AutoState == [enabled: BOOLEAN, stop_required: BOOLEAN, heading: Headings,
              last: {"none", "up", "down"}]

Started == [enabled |-> FALSE, stop_required |-> TRUE,
            heading |-> "forwards", last |-> "none"]

(* joy_callback: a message is taken and its buttons kept.                  *)
TakeJoy == autoJoy # <<>> /\ autoJoy' = Tail(autoJoy)
Button  == IF Head(autoJoy) THEN "down" ELSE "up"
Rising  == Button = "down" /\ auto.last = "up"
After   == [auto EXCEPT !.last = Button]

(* The first message, or one without a press of the button.                *)
JoyWithoutEdge ==
  /\ TakeJoy /\ ~Rising
  /\ auto' = After
  /\ UNCHANGED <<stops, autoDirection, drive>>

SwitchOff ==
  /\ TakeJoy /\ Rising
  /\ auto.enabled
  /\ auto' = [After EXCEPT !.enabled = FALSE]
  /\ drive' = "stop"
  /\ UNCHANGED <<stops, autoDirection>>

RefuseSwitchOn ==
  /\ TakeJoy /\ Rising
  /\ ~auto.enabled /\ auto.stop_required
  /\ auto' = After
  /\ drive' = "stop"
  /\ UNCHANGED <<stops, autoDirection>>

SwitchOn ==
  /\ TakeJoy /\ Rising
  /\ ~auto.enabled /\ ~auto.stop_required
  /\ auto' = [After EXCEPT !.enabled = TRUE]
  /\ drive' = auto.heading
  /\ UNCHANGED <<stops, autoDirection>>

(* Mutant: a stop switches auto drive off without publishing a command.    *)
DisableSilently ==
  /\ stops # <<>>
  /\ stops' = Tail(stops)
  /\ auto' = [auto EXCEPT !.stop_required = Head(stops),
                          !.enabled = @ /\ ~Head(stops)]
  /\ UNCHANGED <<autoJoy, autoDirection, drive>>

(* stop_callback.                                                          *)
StopCallback ==
  /\ stops # <<>>
  /\ stops' = Tail(stops)
  /\ auto' = [auto EXCEPT !.stop_required = Head(stops),
                          !.enabled = @ /\ ~Head(stops)]
  /\ drive' = IF Head(stops) /\ auto.enabled THEN "stop" ELSE drive
  /\ UNCHANGED <<autoJoy, autoDirection>>

(* Mutant: a change of heading stops the robot but leaves auto drive on.   *)
StayEnabled ==
  /\ autoDirection # <<>>
  /\ autoDirection' = Tail(autoDirection)
  /\ LET h == Head(autoDirection)
     IN  IF h = auto.heading
           THEN UNCHANGED <<auto, drive>>
           ELSE /\ auto' = [auto EXCEPT !.heading = h]
                /\ drive' = "stop"
  /\ UNCHANGED <<autoJoy, stops>>

(* turret_direction_callback.                                              *)
DirectionCallback ==
  /\ autoDirection # <<>>
  /\ autoDirection' = Tail(autoDirection)
  /\ LET h == Head(autoDirection)
     IN  IF h = auto.heading
           THEN UNCHANGED <<auto, drive>>
           ELSE /\ auto' = [auto EXCEPT !.heading = h, !.enabled = FALSE]
                /\ drive' = "stop"
  /\ UNCHANGED <<autoJoy, stops>>

(* timer_callback, ten times a second.                                     *)
TimerCallback ==
  /\ auto.enabled
  /\ auto' = [auto EXCEPT !.enabled = ~auto.stop_required]
  /\ drive' = IF auto.stop_required THEN "stop" ELSE auto.heading
  /\ UNCHANGED <<autoJoy, stops, autoDirection>>

(* The process is stopped (main publishes a stop) and started again: its   *)
(* subscriptions begin empty.                                              *)
Restart ==
  /\ auto' = Started
  /\ autoJoy' = <<>> /\ stops' = <<>> /\ autoDirection' = <<>>
  /\ drive' = "stop"

(* Every callback but the one that switches auto drive on.                 *)
OtherCallbacks == \/ JoyWithoutEdge \/ SwitchOff \/ RefuseSwitchOn
                  \/ StopCallback \/ DirectionCallback \/ TimerCallback
=============================================================================
