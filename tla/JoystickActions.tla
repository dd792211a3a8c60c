--------------------------- MODULE JoystickActions --------------------------
(***************************************************************************)
(* joystick_action_controller: the joystick's buttons turn the turret and  *)
(* start the two sensing actions.  One thread runs all callbacks; a /joy   *)
(* message comes with every period while a button is held.                 *)
(*                                                                         *)
(* The action servers are other processes: they may start late, end, and   *)
(* lose a goal thereby, and answer a goal in any way an action can end.    *)
(***************************************************************************)
EXTENDS Naturals

CONSTANTS
  Delay,      \* kWaitDelayMs, in periods of /joy
  MaxEnds     \* how often a server may end

ASSUME JoystickAssumption == Delay \in Nat \ {0} /\ MaxEnds \in Nat

Client == {"acoustic", "ultrasonic"}
Angle  == {"forward", "backward"}

VARIABLES
  held,       \* the buttons that are held, named for what they do
  since,      \* messages or periods since the turret was turned, at most Delay
  turret,     \* the angle published last
  running,    \* action_running_ of each client
  goal,       \* each client's goal
  up,         \* the servers that are up
  ends,       \* how often a server has ended
  failed      \* history: clients with a goal that did not succeed, or whose
              \* flag was set before they had one

buttons == <<held, since, turret>>
server  == <<up, ends>>
joyVars == <<buttons, running, goal, server, failed>>

(* "sent" on its way to the server, "executing" there; then how it ended,  *)
(* on its way back.  A goal that is lost gets no answer: "none".  A client *)
(* that sends a goal while it has one has "another".                       *)
Answer == {"rejected", "succeeded", "aborted", "cancelled", "unknown"}

(* The constructor of the ultrasonic client does not set the flag.         *)
JoyInit ==
  /\ held = {} /\ since = Delay /\ turret = "unknown"
  /\ running \in {f \in [Client -> BOOLEAN] : ~f["acoustic"]}
  /\ goal = [c \in Client |-> "none"]
  /\ up \in SUBSET Client /\ ends = 0
  /\ failed = {c \in Client : running[c]}
-----------------------------------------------------------------------------
(* Callback calls SetPosition for forward, then for backward, and each     *)
(* call looks at the clock.  The message that comes a full delay after the *)
(* latest turn may be on either side of it, and the delay may end between  *)
(* the two calls: then forward is dropped and backward is not.             *)
Pressed == held \cap Angle
First   == IF "forward" \in held THEN "forward" ELSE "backward"

TurnTo(a) == turret' = a /\ since' = 0
DropPress == turret' = turret /\ since' = IF since < Delay THEN since + 1 ELSE Delay

(* Mutant: each press starts the delay anew.                               *)
RestartDelay ==
  \/ Pressed # {} /\ since = Delay /\ TurnTo(First)
  \/ since = Delay - 1 /\ \E a \in Pressed : TurnTo(a)
  \/ Pressed # {} /\ since < Delay /\ turret' = turret /\ since' = 0
  \/ Pressed = {} /\ DropPress

RotateTurret ==
  \/ Pressed # {} /\ since = Delay /\ TurnTo(First)
  \/ since = Delay - 1 /\ \E a \in Pressed : TurnTo(a)
  \/ (Pressed = {} \/ since < Delay) /\ DropPress

(* Mutant: the flag is not looked at.                                      *)
StartsAnyway(c) == c \in held /\ c \in up

(* Start: an idle client whose server answers in time sends a goal.        *)
Starts(c) == c \in held /\ ~running[c] /\ c \in up

Sent(c) == IF goal[c] = "none" THEN "sent" ELSE "another"

(* Mutant: the flag stays set when there is no server.                     *)
CallbackKeepsFlag ==
  /\ held # {}
  /\ RotateTurret
  /\ running' = [c \in Client |-> running[c] \/ c \in held]
  /\ goal' = [c \in Client |-> IF Starts(c) THEN Sent(c) ELSE goal[c]]
  /\ UNCHANGED <<held, server, failed>>

Callback ==
  /\ held # {}
  /\ RotateTurret
  /\ running' = [c \in Client |-> running[c] \/ Starts(c)]
  /\ goal' = [c \in Client |-> IF Starts(c) THEN Sent(c) ELSE goal[c]]
  /\ UNCHANGED <<held, server, failed>>

(* The answer of a goal: only success sets the flag back.                  *)
Freed(c) == goal[c] = "succeeded"

ResultCallback(c) ==
  /\ goal[c] \in Answer
  /\ goal' = [goal EXCEPT ![c] = "none"]
  /\ running' = IF Freed(c) THEN [running EXCEPT ![c] = FALSE] ELSE running
  /\ failed' = IF goal[c] = "succeeded" THEN failed ELSE failed \cup {c}
  /\ UNCHANGED <<buttons, server>>
-----------------------------------------------------------------------------
(* The operator, and periods in which nothing is held.                     *)
ButtonsChange ==
  \E h \in SUBSET (Angle \cup Client) :
    held' = h /\ UNCHANGED <<since, turret, running, goal, server, failed>>

Period == /\ held = {} /\ since < Delay
          /\ since' = since + 1
          /\ UNCHANGED <<held, turret, running, goal, server, failed>>

(* The servers.                                                            *)
Serve(c, from, to) ==
  /\ c \in up /\ goal[c] = from
  /\ goal' = [goal EXCEPT ![c] = to]
  /\ UNCHANGED <<buttons, running, server, failed>>

Accept(c)  == Serve(c, "sent", "executing")
Reject(c)  == Serve(c, "sent", "rejected")
Succeed(c) == Serve(c, "executing", "succeeded")
Fail(c)    == \E e \in {"aborted", "cancelled", "unknown"} : Serve(c, "executing", e)

ServerStarts(c) == /\ c \notin up /\ up' = up \cup {c}
                   /\ UNCHANGED <<buttons, running, goal, ends, failed>>

ServerEnds(c) ==
  /\ c \in up /\ ends < MaxEnds
  /\ up' = up \ {c} /\ ends' = ends + 1
  /\ IF goal[c] \in {"sent", "executing"}
     THEN goal' = [goal EXCEPT ![c] = "none"] /\ failed' = failed \cup {c}
     ELSE UNCHANGED <<goal, failed>>
  /\ UNCHANGED <<buttons, running>>
-----------------------------------------------------------------------------
JoyNext ==
  \/ Callback \/ ButtonsChange \/ Period
  \/ \E c \in Client : \/ ResultCallback(c)
                       \/ Accept(c) \/ Reject(c) \/ Succeed(c) \/ Fail(c)
                       \/ ServerStarts(c) \/ ServerEnds(c)

JoySpec == JoyInit /\ [][JoyNext]_joyVars

(* A held button repeats its message, the executor gets to the answers,    *)
(* and a server that is up comes to an end with its goal.                  *)
JoyFairness ==
  /\ WF_joyVars(Callback)
  /\ \A c \in Client : /\ WF_joyVars(ResultCallback(c))
                       /\ WF_joyVars(Accept(c) \/ Reject(c))
                       /\ WF_joyVars(Succeed(c) \/ Fail(c))

JoyFairSpec == JoySpec /\ JoyFairness
-----------------------------------------------------------------------------
(* A client has one goal at a time: while it has one, its flag is set, so  *)
(* that presses, repeated five times a second, start no other.  And the    *)
(* flag outlives the goal only where the goal has not succeeded, and then  *)
(* for good.                                                               *)
OneGoal ==
  \A c \in Client : /\ goal[c] # "another"
                    /\ goal[c] # "none" => running[c] /\ c \notin failed
                    /\ goal[c] = "none" => (running[c] <=> c \in failed)

(* The other half: once a goal was rejected, aborted, cancelled or lost,   *)
(* its button starts no other, whatever is pressed and answered later.     *)
ShutForGood == [][\A c \in failed : c \in failed' /\ goal'[c] = "none"]_joyVars

(* A button that stays pressed leads to one goal after the other, however  *)
(* late the server came up, unless a goal has failed or has been lost.     *)
Served ==
  \A c \in Client :
    <>[](c \in held /\ c \in up) => []<>(goal[c] = "executing") \/ <>(c \in failed)

(* The turret comes to where the button that stays pressed wants it, and  *)
(* stays there, whatever was pressed, and dropped by the delay, before.    *)
(* With both held nothing is promised: each message that finds the delay   *)
(* just ending may turn the turret the other way.                          *)
TurretFollows ==
  \A a \in Angle : <>[](Pressed = {a}) => <>[](turret = a)
=============================================================================
