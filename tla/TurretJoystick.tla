--------------------------- MODULE TurretJoystick ---------------------------
(***************************************************************************)
(* The node turret_joystick_node: button B turns the turret, and with it   *)
(* the lidar, to the other end of the robot.  The servo command is sent    *)
(* and then repeated; the new heading is published at once and again at    *)
(* every tick of a timer.                                                  *)
(***************************************************************************)
EXTENDS Topics, Integers

CONSTANTS
  Commands,   \* Commands[h]: angle_degrees sent for heading h
  Repeats     \* servo_command_repeats

VARIABLES
  turret,            \* the node's attributes
  turretJoy,         \* its queue of Joy messages: whether B is down
  servo,             \* the servo node's queue, of depth 1
  subscribed,        \* the servo node is there
  autoDirection,     \* auto_drive's queue of headings
  ellipseDirection   \* ellipse_model's queue of headings

None == "none"
Other(h) == IF h = "forwards" THEN "backwards" ELSE "forwards"

(* heading: is_forward.  button: last_button_state.  pending, repeats: the *)
(* command to repeat, by its heading, and how often.  aligned: the startup *)
(* timer has fired.                                                        *)
TurretState == [heading: Headings, button: BOOLEAN,
                pending: Headings \cup {None}, repeats: Nat,
                aligned: BOOLEAN]

Started == [heading |-> "forwards", button |-> FALSE,
            pending |-> None, repeats |-> 0, aligned |-> FALSE]

PublishDirection(h) ==
  /\ autoDirection'    = Arrived(autoDirection, h)
  /\ ellipseDirection' = Arrived(ellipseDirection, h)

PublishServo(h) == servo' = IF subscribed THEN <<Commands[h]>> ELSE servo

(* Mutant: the command is sent once.                                       *)
FaceOnce(t, h) ==
  /\ PublishServo(h)
  /\ turret' = [t EXCEPT !.heading = h, !.pending = h, !.repeats = 0]
  /\ PublishDirection(h)

(* Mutant: the heading is published before it is changed.                  *)
FaceLate(t, h) ==
  /\ PublishServo(h)
  /\ turret' = [t EXCEPT !.heading = h, !.pending = h, !.repeats = Repeats - 1]
  /\ PublishDirection(t.heading)

(* The command for h is sent, to be repeated, and h is published.          *)
Face(t, h) ==
  /\ PublishServo(h)
  /\ turret' = [t EXCEPT !.heading = h, !.pending = h, !.repeats = Repeats - 1]
  /\ PublishDirection(h)

(* align_turret_on_startup: once, two seconds after the start.             *)
AlignOnStartup ==
  /\ ~turret.aligned
  /\ Face([turret EXCEPT !.aligned = TRUE], "forwards")
  /\ UNCHANGED <<turretJoy, subscribed>>

(* joy_callback: a message is taken and the state of the button kept.      *)
TakeJoy == turretJoy # <<>> /\ turretJoy' = Tail(turretJoy)
Button  == Head(turretJoy)
Rising  == Button /\ ~turret.button
After   == [turret EXCEPT !.button = Button]

JoyWithoutEdge ==
  /\ TakeJoy /\ ~Rising
  /\ turret' = After
  /\ UNCHANGED <<servo, subscribed, autoDirection, ellipseDirection>>

(* toggle_turret, when nobody listens to the servo topic: only the heading *)
(* is published again.                                                     *)
RefuseToggle ==
  /\ TakeJoy /\ Rising
  /\ ~subscribed
  /\ turret' = After
  /\ PublishDirection(turret.heading)
  /\ UNCHANGED <<servo, subscribed>>

(* Mutant: nobody asks whether the servo node is there.                    *)
ToggleBlindly ==
  /\ TakeJoy /\ Rising
  /\ Face(After, Other(turret.heading))
  /\ UNCHANGED subscribed

Toggle ==
  /\ TakeJoy /\ Rising
  /\ subscribed
  /\ Face(After, Other(turret.heading))
  /\ UNCHANGED subscribed

(* repeat_servo_command.                                                   *)
RepeatCommand ==
  /\ turret.pending # None
  /\ turret.repeats > 0
  /\ PublishServo(turret.pending)
  /\ turret' = [turret EXCEPT !.repeats = @ - 1]
  /\ UNCHANGED <<turretJoy, subscribed, autoDirection, ellipseDirection>>

StopRepeating ==
  /\ turret.pending # None
  /\ turret.repeats <= 0
  /\ turret' = [turret EXCEPT !.pending = None]
  /\ UNCHANGED <<turretJoy, servo, subscribed, autoDirection, ellipseDirection>>

(* publish_turret_direction, called by its timer.                          *)
PublishState ==
  /\ PublishDirection(turret.heading)
  /\ UNCHANGED <<turret, turretJoy, servo, subscribed>>

Joy == JoyWithoutEdge \/ RefuseToggle \/ Toggle
=============================================================================
