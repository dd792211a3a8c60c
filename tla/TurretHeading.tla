---------------------------- MODULE TurretHeading ----------------------------
(***************************************************************************)
(* The heading of the turret, which four parties keep for themselves:      *)
(* turret_joystick_node, the servo, auto_drive and ellipse_model.  The     *)
(* node's commands go to the servo through the driver, which may start     *)
(* later than the node, or miss commands; the headings it publishes go to  *)
(* the two nodes of semi-autonomous control.                               *)
(***************************************************************************)
EXTENDS Topics, Integers

CONSTANTS
  Commands,   \* angle_degrees of each heading
  Repeats,    \* servo_command_repeats
  MaxTurns,   \* bound: presses of B
  MaxLosses   \* bound: servo commands that do not reach the servo

ASSUME TurretHeadingAssumption ==
  /\ Repeats \in Nat \ {0}
  /\ Commands \in [Headings -> Int]
  /\ MaxTurns \in Nat /\ MaxLosses \in Nat

VARIABLES
  turret, turretJoy, servo, subscribed, autoDirection, ellipseDirection,
  button,    \* the operator holds B down
  turns,     \* presses so far
  goal,      \* the limit the servo was last sent to
  losses,    \* commands lost so far
  busy,      \* the driver may be too busy to take every command in time
  autoHeading, ellipseHeading   \* the last headings the two nodes took

turretVars == <<turret, turretJoy, servo, subscribed, autoDirection, ellipseDirection>>
vars == <<turretVars, button, turns, goal, losses, busy, autoHeading, ellipseHeading>>

Turret == INSTANCE TurretJoystick

Limits  == {"forward limit", "backward limit"}
Unsent  == "unsent"   \* no command has reached the servo yet
TypeOK ==
  /\ turret \in Turret!TurretState /\ turret.repeats < Repeats
  /\ turretJoy \in Queue(BOOLEAN)
  /\ servo = <<>> \/ \E h \in Headings : servo = <<Commands[h]>>
  /\ subscribed \in BOOLEAN
  /\ autoDirection \in Queue(Headings) /\ ellipseDirection \in Queue(Headings)
  /\ button \in BOOLEAN /\ turns \in 0..MaxTurns
  /\ goal \in Limits \cup {Unsent} /\ losses \in 0..MaxLosses /\ busy \in BOOLEAN
  /\ autoHeading \in Headings /\ ellipseHeading \in Headings

(* ServoNode::Callback: below 90 degrees is the forward limit.             *)
Limit(angle) == IF angle < 90 THEN "forward limit" ELSE "backward limit"

(* The limit the node's own command for the heading h sends the servo to.  *)
(* It is not the one servo_node.cpp:73-74 and testing.md:108 mean by the   *)
(* heading's name: the launch file sends 180 for forwards, 0 for backwards. *)
SentTo(h) == Limit(Commands[h])

(* Wherever the turret stands, the node believes that it faces forwards.   *)
(* The heading it publishes when it is created finds no subscriber yet.    *)
Init ==
  /\ turret = Turret!Started /\ turretJoy = <<>> /\ servo = <<>>
  /\ subscribed \in BOOLEAN
  /\ autoDirection = <<>> /\ ellipseDirection = <<>>
  /\ button = FALSE /\ turns = 0
  /\ goal = Unsent /\ losses = 0 /\ busy \in BOOLEAN
  /\ autoHeading = "forwards" /\ ellipseHeading = "forwards"
-----------------------------------------------------------------------------
Around == <<button, turns, goal, losses, busy, autoHeading, ellipseHeading>>

OfTurret(A) == A /\ UNCHANGED Around

(* The joy node, as in OperatorDrive.                                      *)
PublishJoy ==
  /\ turretJoy' = Arrived(turretJoy, button')
  /\ UNCHANGED <<turret, servo, subscribed, autoDirection, ellipseDirection,
                 goal, losses, busy, autoHeading, ellipseHeading>>

Press == /\ ~button /\ turns < MaxTurns
         /\ button' = TRUE /\ turns' = turns + 1
         /\ PublishJoy

ReleaseOrRepeat == /\ button' \in {button, FALSE}
                   /\ UNCHANGED turns
                   /\ PublishJoy

(* The driver has initialised its servos and listens.                      *)
DriverStarts ==
  /\ ~subscribed
  /\ subscribed' = TRUE
  /\ UNCHANGED <<turret, turretJoy, servo, autoDirection, ellipseDirection, Around>>

(* The repeats come 100 ms apart: unless the driver is busy for that long  *)
(* the previous command has been taken.                                    *)
Repeat == /\ busy \/ servo = <<>>
          /\ OfTurret(Turret!RepeatCommand)

(* A command takes the servo to one of the limits, or is lost on the bus.  *)
ServoCallback ==
  /\ servo # <<>>
  /\ servo' = <<>>
  /\ \/ goal' = Limit(Head(servo)) /\ UNCHANGED losses
     \/ ~busy /\ losses < MaxLosses /\ losses' = losses + 1 /\ UNCHANGED goal
  /\ UNCHANGED <<turret, turretJoy, subscribed, autoDirection, ellipseDirection,
                 button, turns, busy, autoHeading, ellipseHeading>>

AutoTakes ==
  /\ autoDirection # <<>>
  /\ autoHeading' = Head(autoDirection)
  /\ autoDirection' = Tail(autoDirection)
  /\ UNCHANGED <<turret, turretJoy, servo, subscribed, ellipseDirection,
                 button, turns, goal, losses, busy, ellipseHeading>>

EllipseTakes ==
  /\ ellipseDirection # <<>>
  /\ ellipseHeading' = Head(ellipseDirection)
  /\ ellipseDirection' = Tail(ellipseDirection)
  /\ UNCHANGED <<turret, turretJoy, servo, subscribed, autoDirection,
                 button, turns, goal, losses, busy, autoHeading>>

Next == \/ OfTurret(Turret!AlignOnStartup) \/ OfTurret(Turret!PublishState)
        \/ Repeat \/ OfTurret(Turret!StopRepeating) \/ OfTurret(Turret!Joy)
        \/ Press \/ ReleaseOrRepeat
        \/ DriverStarts \/ ServoCallback \/ AutoTakes \/ EllipseTakes

Spec == Init /\ [][Next]_vars

(* The nodes' executors run every timer and callback again and again.      *)
(* Nobody has to press a button, and the driver may never start.           *)
Fairness == /\ WF_vars(Repeat)
            /\ WF_vars(OfTurret(Turret!PublishState))
            /\ WF_vars(ServoCallback) /\ WF_vars(AutoTakes) /\ WF_vars(EllipseTakes)

FairSpec == Spec /\ Fairness
-----------------------------------------------------------------------------
(* The servo is where the node's own angle for the heading h sends it, or  *)
(* was never sent anywhere and h is the heading the node starts with.      *)
ServoAt(h) == goal = SentTo(h) \/ (goal = Unsent /\ h = "forwards")

(* Once the operator leaves the turret alone, the servo comes to be at the *)
(* node's own angle for its heading, and the two nodes that drive and      *)
(* judge by the heading come to have it, and it stays so: although the     *)
(* driver may start at any time, and either be busy while the repeats      *)
(* overwrite each other in its queue, or lose all but one of the commands  *)
(* (it may not do both).                                                   *)
Agreement == <>[](/\ ServoAt(turret.heading)
                  /\ autoHeading = turret.heading
                  /\ ellipseHeading = turret.heading)

(* With no command lost and none on the way, the servo is at the node's    *)
(* own angle for its present heading: although the node changes its        *)
(* heading when it sends a command and not when the command arrives,       *)
(* aligns the turret while nobody listens, is asked to turn it while       *)
(* nobody listens, and repeats a command after a newer toggle.             *)
ServoFollows == servo = <<>> /\ losses = 0 => ServoAt(turret.heading)

(* Why it holds: every command still to come is for the present heading,   *)
(* and nothing but forwards was ever asked of a servo that is not there.   *)
FollowInv ==
  /\ ServoFollows
  /\ servo # <<>> => servo = <<Commands[turret.heading]>>
  /\ turret.pending \in {"none", turret.heading}
  /\ ~subscribed => servo = <<>> /\ turret.heading = "forwards"

(* A listener that has taken what is queued for it has the heading of the  *)
(* node: although queues drop headings, the listeners take them at         *)
(* different times, and the node turns the turret for two reasons.         *)
ListenersFollow ==
  /\ autoDirection = <<>> => autoHeading = turret.heading
  /\ ellipseDirection = <<>> => ellipseHeading = turret.heading

(* Why it holds: the newest heading, queued or taken, is the node's.       *)
Newest(q, taken) == IF q = <<>> THEN taken ELSE q[Len(q)]

ListenInv == /\ Newest(autoDirection, autoHeading) = turret.heading
             /\ Newest(ellipseDirection, ellipseHeading) = turret.heading
=============================================================================
