-------------------------- MODULE DriveChain_proofs --------------------------
(***************************************************************************)
(* Proof that the latest command counts, for any twists, attitudes and     *)
(* robot descriptions.  LatestCounts speaks of a chain that has come to    *)
(* rest; ChainInv adds what is known of the messages still in it.  Then    *)
(* type correctness, and that a robot that is to stop does not move.       *)
(***************************************************************************)
EXTENDS DriveChain, FiniteSetTheorems, TLAPS

(* The message for a twist changes only with the description.              *)
LEMMA SameMessage ==
  ASSUME UNCHANGED <<model, published>>
  PROVE  Diff!Motors(published)' = Diff!Motors(published)
BY DEF Diff!Motors, Diff!Motor, Diff!Left, Diff!Right, Diff!Distance, Diff!Radius

(* So does whether it can be used.                                        *)
LEMMA SameUse ==
  ASSUME UNCHANGED model
  PROVE  Diff!Usable' = Diff!Usable
BY DEF Diff!Usable, Diff!Distance, Diff!Radius

(* A wheel that follows the published twist goes on doing so when the      *)
(* driver leaves the wheels alone or stops them.                           *)
LEMMA StillFollows ==
  ASSUME NEW w \in Wheels, Follows(w), UNCHANGED <<model, published>>,
         velocity' \in {velocity, Driver!Still}
  PROVE  Follows(w)'
<1>1. velocity'[w] \in {velocity[w], 0}
  BY DEF Driver!Still
<1>2. QED
  BY <1>1, SameMessage DEF Follows

(* Every step keeps the invariant.  A message is replaced by a later one,  *)
(* or handed on to the next queue, never behind one that came after it.    *)
LEMMA ChainStep ==
  ASSUME ChainInv, [Next]_vars
  PROVE  ChainInv'
<1> USE DEF ChainInv, LatestCounts
<1>1. ASSUME UNCHANGED <<controlled, model, allMotors, published>>,
             velocity' \in {velocity, Driver!Still}
      PROVE  ChainInv'
  <2>1. ASSUME NEW w \in Wheels, controlled = <<>>, allMotors = <<>>
        PROVE  Follows(w)'
    BY <1>1, <2>1, StillFollows
  <2>2. Driver!Still' = Driver!Still
    BY DEF Driver!Still
  <2>3. QED
    BY <1>1, <2>1, <2>2, SameMessage, SameUse
<1>2. CASE Imu \/ Joy \/ Vel \/ Late
  BY <1>1, <1>2
     DEF Imu, Joy, Vel, Late, OfController, driver, ImuCallback, JoyCallback,
         VelCallback, TwistGetsOld
<1>3. CASE Timer
  <2>1. controlled' = <<Output>> /\ published' = Output
        /\ UNCHANGED <<model, allMotors, velocity>>
    BY <1>3 DEF Timer, OfController, TimerCallback, driver
  <2>2. Driver!Still' = Driver!Still
    BY DEF Driver!Still
  <2>3. QED
    BY <2>1, <2>2, SameUse
<1>4. CASE Describe
  <2>1. /\ model = "none" /\ model' \in Received
        /\ UNCHANGED <<controlled, allMotors, velocity, published>>
    BY <1>4 DEF Describe, OfDiff, Diff!DescriptionCallback, driver
  <2>2. allMotors = <<>> /\ velocity = Driver!Still
    <3>1. ~Diff!Usable
      BY <2>1 DEF Diff!Usable, Diff!Distance, Diff!Radius
    <3>2. QED
      BY <3>1
  <2>3. Driver!Still' = Driver!Still
    BY DEF Driver!Still
  <2>4. ASSUME NEW w \in Wheels
        PROVE  Follows(w)'
    BY <2>1, <2>2 DEF Follows, Driver!Still
  <2>5. QED
    BY <2>1, <2>2, <2>3, <2>4
<1>5. CASE Convert
  <2>1. /\ controlled # <<>> /\ controlled' = <<>>
        /\ allMotors' = IF Diff!Usable
                          THEN <<Diff!Motors(Head(controlled))>> ELSE allMotors
        /\ UNCHANGED <<model, velocity, published>>
    BY <1>5 DEF Convert, OfDiff, Diff!CommandCallback, driver
  <2>2. Head(controlled) = published
    BY <2>1
  <2>3. Diff!Usable' = Diff!Usable
    BY <2>1 DEF Diff!Usable, Diff!Distance, Diff!Radius
  <2>4. CASE Diff!Usable
    <3>1. allMotors' = <<Diff!Motors(published)>>
      BY <2>1, <2>2, <2>4
    <3>2. QED
      BY <2>1, <2>3, <2>4, <3>1, SameMessage
  <2>5. CASE ~Diff!Usable
    <3>1. allMotors' = <<>> /\ velocity' = Driver!Still
      BY <2>1, <2>5
    <3>2. Driver!Still' = Driver!Still
      BY DEF Driver!Still
    <3>3. ASSUME NEW w \in Wheels
          PROVE  Follows(w)'
      BY <3>1 DEF Follows, Driver!Still
    <3>4. QED
      BY <2>1, <3>1, <3>2, <3>3
  <2>6. QED
    BY <2>4, <2>5
<1>6. CASE Wheel
  <2>1. /\ allMotors # <<>> /\ allMotors' = <<>>
        /\ velocity' = SetAllMotorsSpeed(Head(allMotors))
        /\ UNCHANGED <<controlled, model, published>>
    BY <1>6 DEF Wheel, Driver!Command
  <2>2. ASSUME NEW w \in Wheels, controlled = <<>>
        PROVE  Follows(w)'
    <3>1. Head(allMotors) = Diff!Motors(published)
      BY <2>1, <2>2
    <3>2. QED
      BY <2>1, <3>1, SameMessage DEF Follows
  <2>3. Diff!Usable
    BY <2>1
  <2>4. QED
    BY <2>1, <2>2, <2>3, SameUse
<1>7. CASE Round \/ LateStop
  BY <1>1, <1>7 DEF Round, LateStop, OfDriver, Driver!Round, Driver!Slow
<1>8. CASE Tilt \/ LinkLost \/ Ends
  BY <1>1, <1>8 DEF Tilt, LinkLost, Ends, Nodes, driver
<1>9. CASE UNCHANGED vars
  BY <1>1, <1>9 DEF vars, driver
<1>10. QED
  BY <1>2, <1>3, <1>4, <1>5, <1>6, <1>7, <1>8, <1>9 DEF Next

(* Once a published twist has passed through the chain, each wheel does    *)
(* what it asks for or stands still.                                       *)
THEOREM LatestCorrect == Spec => []LatestCounts
<1>1. Init => ChainInv
  BY DEF Init, ChainInv, LatestCounts, Follows, Driver!Init, Driver!Still
<1>2. ChainInv /\ [Next]_vars => ChainInv'
  BY ChainStep
<1>3. ChainInv => LatestCounts
  BY DEF ChainInv
<1>4. QED
  BY <1>1, <1>2, <1>3, PTL DEF Spec
-----------------------------------------------------------------------------
(* Type correctness.  What the controller publishes is a speed, and a      *)
(* message of wheel speeds has one motor for each wheel, so that each      *)
(* wheel gets the speed of its own motor.                                  *)
LEMMA OutputType == ASSUME controller \in ControllerState PROVE Output \in Speeds
<1> DEFINE c == controller
           roll == c.attitude.roll
<1>1. /\ c.twist.linear \in {-6, 0, 6} /\ c.twist.angular \in {-1, 0, 1}
      /\ c.twist = [linear |-> c.twist.linear, angular |-> c.twist.angular]
      /\ c.dpad \in -1..1 /\ roll \in -3..3
  BY DEF ControllerState, Twist, Attitude, Full
<1>2. /\ Desired.linear \in {-6, 0, 6} /\ Desired.angular \in {-1, 0, 1}
  BY <1>1 DEF Desired, Full
<1>3. ASSUME NEW l \in {-6, 0, 6} PROVE l \in -6..6 /\ l \div 3 \in -6..6
  OBVIOUS
<1>4. Corrected(Desired) \in Speeds
  <2> DEFINE d == Desired
             lin == IF roll \in {-2, 2} THEN d.linear \div 3 ELSE d.linear
             ang == IF d.angular # 0 \/ roll = 0 THEN d.angular
                    ELSE IF roll > 0 THEN 1 ELSE -1
  <2> HIDE DEF d
  <2>1. d.linear \in {-6, 0, 6} /\ d.angular \in {-1, 0, 1}
    BY <1>2 DEF d
  <2>2. lin \in -6..6
    BY <2>1, <1>3
  <2>3. ang \in {-1, 0, 1}
    BY <2>1
  <2>4. Corrected(d) = [linear |-> lin, angular |-> ang]
    BY DEF Corrected
  <2>5. Corrected(d) \in [linear: -6..6, angular: {-1, 0, 1}]
    BY <2>2, <2>3, <2>4
  <2> QED BY <2>5 DEF Speeds, Full, d
<1>5. Zero \in Speeds
  BY DEF Zero, Speeds, Full
<1> QED BY <1>4, <1>5 DEF Output

(* The messages that diff_drive_controller publishes.                      *)
Message(l, r) == << Diff!Motor("FRONT_LEFT", l), Diff!Motor("FRONT_RIGHT", r),
                    Diff!Motor("REAR_LEFT", l),  Diff!Motor("REAR_RIGHT", r) >>

LEMMA MotorsType ==
  ASSUME NEW t \in Speeds
  PROVE  \E l, r \in Velocities : Diff!Motors(t) = Message(l, r)
<1>1. t.linear \in -6..6 /\ t.angular \in {-1, 0, 1}
  BY DEF Speeds, Full
<1>2. Diff!Distance \in {-1, 1} /\ Diff!Radius \in {-1, 1}
  BY DEF Diff!Distance, Diff!Radius
<1>3. ASSUME NEW x \in -6..6, NEW y \in {-1, 0, 1}, NEW d \in {-1, 1}, NEW r \in {-1, 1}
      PROVE  (x - y * d) * r \in -7..7 /\ (x + y * d) * r \in -7..7
  <2>1. y * d \in {-1, 0, 1}
    OBVIOUS
  <2>2. x - y * d \in -7..7 /\ x + y * d \in -7..7
    BY <2>1
  <2> QED BY <2>2
<1>4. /\ (t.linear - t.angular * Diff!Distance) * Diff!Radius \in -7..7
      /\ (t.linear + t.angular * Diff!Distance) * Diff!Radius \in -7..7
  BY <1>1, <1>2, <1>3
<1>5. -(Full + 1)..(Full + 1) = -7..7
  BY DEF Full
<1>6. Diff!Left(t) \in Velocities /\ Diff!Right(t) \in Velocities
  BY <1>4, <1>5, Zenon DEF Diff!Left, Diff!Right, Velocities
<1> QED BY <1>6 DEF Message, Diff!Motors

LEMMA MessageSpeeds ==
  ASSUME NEW l \in Velocities, NEW r \in Velocities
  PROVE  /\ IsSpeed(Message(l, r)) /\ SetAllMotorsSpeed(Message(l, r)) \in [Wheels -> Velocities]
         /\ \A w \in Wheels : SetAllMotorsSpeed(Message(l, r))[w] \in {l, r}
<1> DEFINE m == Message(l, r)
<1>1. /\ DOMAIN m = {1, 2, 3, 4}
      /\ m[1].id = "FRONT_LEFT" /\ m[2].id = "FRONT_RIGHT"
      /\ m[3].id = "REAR_LEFT"  /\ m[4].id = "REAR_RIGHT"
      /\ m[1].speed = l /\ m[2].speed = r /\ m[3].speed = l /\ m[4].speed = r
      /\ m[1].mode = "radians_second" /\ m[2].mode = "radians_second"
      /\ m[3].mode = "radians_second" /\ m[4].mode = "radians_second"
  BY DEF Message, Diff!Motor
<1> HIDE DEF m
<1>2. Modes(m) = {"radians_second"}
  BY <1>1 DEF Modes, Supported
<1>3. IsSpeed(m)
  BY <1>2, FS_Singleton DEF IsSpeed
<1>4. ASSUME NEW w \in Wheels PROVE Named(w) = {w}
  BY DEF Named, Wheels
<1>5. ASSUME NEW i \in {1, 2, 3, 4} PROVE Latest({i}) = i
  BY DEF Latest
<1>6. ASSUME NEW w \in Wheels PROVE Assigned(m, w) \in {l, r}
  <2> DEFINE naming == {i \in DOMAIN m : w \in Named(m[i].id)}
  <2>1. \A i \in DOMAIN m : m[i].id \in Wheels
    BY <1>1 DEF Wheels
  <2>2. naming = {i \in DOMAIN m : m[i].id = w}
    BY <2>1, <1>4
  <2>3. PICK i \in {1, 2, 3, 4} : naming = {i}
    BY <2>2, <1>1 DEF Wheels
  <2>4. Assigned(m, w) = m[i].speed
    BY <2>3, <1>5 DEF Assigned
  <2> QED BY <2>4, <1>1
<1>7. SetAllMotorsSpeed(m) \in [Wheels -> Velocities]
  BY <1>6 DEF SetAllMotorsSpeed
<1>8. \A w \in Wheels : SetAllMotorsSpeed(m)[w] \in {l, r}
  BY <1>6 DEF SetAllMotorsSpeed
<1> QED BY <1>3, <1>7, <1>8 DEF m

(* TypeOK in an inductive form: the queues written out, and of the         *)
(* messages that they are the controller's.                                *)
Messages == {Message(l, r) : l, r \in Velocities}

Waits(q, S) == q = <<>> \/ \E x \in S : q = <<x>>

TypeInv ==
  /\ controller \in ControllerState
  /\ Waits(controlled, Speeds)
  /\ model \in Diff!Descriptions \cup {"none"}
  /\ Waits(allMotors, Messages)
  /\ velocity \in [Wheels -> Velocities] /\ watched \in BOOLEAN /\ silent \in 0..2
  /\ attitude \in Attitude /\ linked \in BOOLEAN /\ running \subseteq Processes
  /\ published \in Speeds

LEMMA MessagesType ==
  /\ \A m \in Messages : IsSpeed(m) /\ SetAllMotorsSpeed(m) \in [Wheels -> Velocities]
  /\ \A t \in Speeds : Diff!Motors(t) \in Messages
<1>1. ASSUME NEW m \in Messages
      PROVE  IsSpeed(m) /\ SetAllMotorsSpeed(m) \in [Wheels -> Velocities]
  <2>1. PICK l \in Velocities, r \in Velocities : m = Message(l, r)
    BY DEF Messages
  <2>2. QED
    BY <2>1, MessageSpeeds
<1>2. ASSUME NEW t \in Speeds PROVE Diff!Motors(t) \in Messages
  <2>1. PICK l \in Velocities, r \in Velocities : Diff!Motors(t) = Message(l, r)
    BY MotorsType
  <2>2. QED
    BY <2>1 DEF Messages
<1>3. QED
  BY <1>1, <1>2

LEMMA WaitsType == ASSUME NEW S, NEW q, Waits(q, S)
                   PROVE  Len(q) <= 1 /\ \A i \in DOMAIN q : q[i] \in S
<1>1. CASE q = <<>>
  BY <1>1
<1>2. CASE \E x \in S : q = <<x>>
  <2>1. PICK x \in S : q = <<x>>
    BY <1>2
  <2>2. QED
    BY <2>1
<1>3. QED
  BY <1>1, <1>2 DEF Waits

LEMMA TypeInvType == TypeInv => TypeOK
<1> SUFFICES ASSUME TypeInv PROVE TypeOK
  OBVIOUS
<1>1. Len(controlled) <= 1 /\ \A i \in DOMAIN controlled : controlled[i] \in Speeds
  BY WaitsType DEF TypeInv
<1>2. Len(allMotors) <= 1 /\ \A i \in DOMAIN allMotors : allMotors[i] \in Messages
  BY WaitsType DEF TypeInv
<1>3. \A m \in Messages : IsSpeed(m)
  BY MessagesType
<1>4. QED
  BY <1>1, <1>2, <1>3, Zenon DEF TypeInv, TypeOK

(* Each callback of the controller sets one attribute.                     *)
LEMMA ControllerFields ==
  ASSUME NEW c \in ControllerState
  PROVE  /\ \A a \in Attitude : [c EXCEPT !.attitude = a] \in ControllerState
         /\ \A d \in -1..1 : [c EXCEPT !.dpad = d] \in ControllerState
         /\ \A t \in Twist : [c EXCEPT !.twist = t, !.old = FALSE] \in ControllerState
         /\ [c EXCEPT !.old = TRUE] \in ControllerState
BY DEF ControllerState

LEMMA TypeInit == Init => TypeInv
<1> SUFFICES ASSUME Init PROVE TypeInv
  OBVIOUS
<1>1. 0 \in Velocities
  BY DEF Velocities, Full
<1>2. Zero \in Speeds
  BY DEF Zero, Speeds, Full
<1>3. Started \in ControllerState /\ Started.attitude \in Attitude
  BY DEF Started, ControllerState, Zero, Twist, Full, Attitude
<1>4. QED
  BY <1>1, <1>2, <1>3 DEF Init, TypeInv, Waits, Driver!Init, Driver!Still

LEMMA TypeStep == TypeInv /\ [Next]_vars => TypeInv'
<1> SUFFICES ASSUME TypeInv, [Next]_vars PROVE TypeInv'
  OBVIOUS
<1> USE DEF TypeInv
<1>1. CASE Imu
  <2>1. controller' \in ControllerState
    BY <1>1, ControllerFields DEF Imu, OfController, ImuCallback
  <2>2. QED
    BY <1>1, <2>1 DEF Imu, OfController, ImuCallback, driver, world
<1>2. CASE Joy
  <2>1. controller' \in ControllerState
    BY <1>2, DriveChainAssumption, ControllerFields DEF Joy, OfController, JoyCallback
  <2>2. QED
    BY <1>2, <2>1 DEF Joy, OfController, JoyCallback, driver, world
<1>3. CASE Vel
  <2>1. PICK t \in Twists : controller' = [controller EXCEPT !.twist = t, !.old = FALSE]
    BY <1>3, Zenon DEF Vel, OfController, VelCallback
  <2>2. t \in Twist
    BY DriveChainAssumption
  <2>3. controller' \in ControllerState
    BY <2>1, <2>2, ControllerFields, Zenon
  <2>4. QED
    BY <1>3, <2>3 DEF Vel, OfController, VelCallback, driver, world
<1>4. CASE Late
  <2>1. controller' \in ControllerState
    BY <1>4, ControllerFields DEF Late, OfController, TwistGetsOld
  <2>2. QED
    BY <1>4, <2>1 DEF Late, OfController, TwistGetsOld, driver, world
<1>5. CASE Timer
  <2>1. controlled' = <<Output>> /\ published' = Output
    BY <1>5, Zenon DEF Timer, OfController, TimerCallback
  <2>2. Waits(controlled', Speeds) /\ published' \in Speeds
    BY <2>1, OutputType DEF Waits
  <2>3. QED
    BY <1>5, <2>2 DEF Timer, OfController, TimerCallback, driver, world
<1>6. CASE Describe
  <2>1. model' \in Diff!Descriptions
    BY <1>6, ReceivedAssumption DEF Describe, OfDiff, Diff!DescriptionCallback
  <2>2. QED
    BY <1>6, <2>1 DEF Describe, OfDiff, Diff!DescriptionCallback, driver, world
<1>7. CASE Convert
  <2>1. /\ controlled # <<>> /\ controlled' = <<>> /\ UNCHANGED model
        /\ allMotors' = IF Diff!Usable THEN <<Diff!Motors(Head(controlled))>> ELSE allMotors
    BY <1>7 DEF Convert, OfDiff, Diff!CommandCallback
  <2>2. PICK t \in Speeds : controlled = <<t>>
    BY <2>1 DEF Waits
  <2>3. Diff!Motors(t) \in Messages
    BY MessagesType
  <2>4. Waits(allMotors', Messages)
    BY <2>1, <2>2, <2>3 DEF Waits
  <2>5. Waits(controlled', Speeds)
    BY <2>1 DEF Waits
  <2>6. QED
    BY <1>7, <2>1, <2>4, <2>5 DEF Convert, OfDiff, driver, world
<1>8. CASE Wheel
  <2>1. /\ allMotors # <<>> /\ allMotors' = <<>>
        /\ velocity' = SetAllMotorsSpeed(Head(allMotors))
        /\ watched' = TRUE /\ silent' = 0
    BY <1>8 DEF Wheel, Driver!Command
  <2>2. PICK m \in Messages : allMotors = <<m>>
    BY <2>1 DEF Waits
  <2>3. SetAllMotorsSpeed(m) \in [Wheels -> Velocities]
    BY MessagesType
  <2>4. velocity' \in [Wheels -> Velocities]
    BY <2>1, <2>2, <2>3
  <2>5. QED
    BY <1>8, <2>1, <2>4 DEF Wheel, Waits, world
<1>9. CASE Round \/ LateStop
  <2>1. velocity' \in {velocity, Driver!Still}
    BY <1>9 DEF Round, LateStop, OfDriver, Driver!Round, Driver!Slow
  <2>2. Driver!Still \in [Wheels -> Velocities]
    BY DEF Driver!Still, Velocities, Full
  <2>3. watched' \in BOOLEAN /\ silent' \in 0..2
    BY <1>9 DEF Round, LateStop, OfDriver, Driver!Round, Driver!Slow
  <2>4. QED
    BY <1>9, <2>1, <2>2, <2>3 DEF Round, LateStop, OfDriver, world
<1>10. CASE Tilt
  BY <1>10, DriveChainAssumption DEF Tilt, Nodes, driver
<1>11. CASE LinkLost
  BY <1>11 DEF LinkLost, Nodes, driver
<1>12. CASE Ends
  BY <1>12 DEF Ends, Nodes, driver
<1>13. CASE UNCHANGED vars
  BY <1>13 DEF vars, driver, world
<1>14. QED
  BY <1>1, <1>2, <1>3, <1>4, <1>5, <1>6, <1>7, <1>8, <1>9, <1>10, <1>11, <1>12, <1>13
  DEF Next

(* Every reachable state has the types that TypeOK states: what the        *)
(* controller publishes is a speed the robot has, and each message on its  *)
(* way to the driver sets a speed for every wheel.                         *)
THEOREM TypeCorrect == Spec => []TypeOK
<1>1. QED
  BY TypeInit, TypeStep, TypeInvType, PTL DEF Spec
-----------------------------------------------------------------------------
(* A robot that is to stop does not move.                                  *)

(* The message for a stop stops every wheel, whatever the description says. *)
LEMMA StopMessage ==
  \A w \in Wheels : SetAllMotorsSpeed(Diff!Motors(Zero))[w] = 0
<1>1. Diff!Distance \in {-1, 1} /\ Diff!Radius \in {-1, 1}
  BY DEF Diff!Distance, Diff!Radius
<1>2. Diff!Left(Zero) = 0 /\ Diff!Right(Zero) = 0
  BY <1>1 DEF Diff!Left, Diff!Right, Zero
<1>3. Diff!Motors(Zero) = Message(0, 0)
  BY <1>2 DEF Diff!Motors, Message
<1>4. 0 \in Velocities
  BY DEF Velocities, Full
<1>5. QED
  BY <1>3, <1>4, MessageSpeeds

(* What the controller publishes while it has a reason to stop.            *)
LEMMA RefusedOutput ==
  ASSUME Refuses, ~("low_control_with_imu" \notin running)
  PROVE  Output = Zero
BY DEF Refuses, Output

LEMMA RefusesStep ==
  ASSUME ChainInv, TypeInv, [Next]_vars, Refuses, StopsOnly
  PROVE  StopsOnly' /\ \A w \in Wheels : velocity'[w] \in {velocity[w], 0}
<1> DEFINE Slows == \A w \in Wheels : velocity'[w] \in {velocity[w], 0}
<1>1. ASSUME UNCHANGED model PROVE Diff!Motors(Zero)' = Diff!Motors(Zero)
  BY <1>1 DEF Diff!Motors, Diff!Motor, Diff!Left, Diff!Right, Diff!Distance, Diff!Radius, Zero
<1>2. ASSUME UNCHANGED <<controlled, model, allMotors>>, velocity' \in {velocity, Driver!Still}
      PROVE  StopsOnly' /\ Slows
  <2>1. StopsOnly'
    BY <1>1, <1>2 DEF StopsOnly, Zero
  <2>2. Slows
    BY <1>2 DEF Driver!Still
  <2>3. QED
    BY <2>1, <2>2
<1>3. CASE Imu \/ Joy \/ Vel \/ Late
  BY <1>2, <1>3
     DEF Imu, Joy, Vel, Late, OfController, driver, ImuCallback, JoyCallback,
         VelCallback, TwistGetsOld
<1>4. CASE Timer
  <2>1. /\ controlled' = <<Output>> /\ UNCHANGED <<model, allMotors, velocity>>
        /\ ~("low_control_with_imu" \notin running)
    BY <1>4, Zenon DEF Timer, OfController, TimerCallback, driver
  <2>2. controlled' = <<Zero>>
    BY <2>1, RefusedOutput
  <2>3. StopsOnly'
    BY <1>1, <2>1, <2>2 DEF StopsOnly
  <2>4. QED
    BY <2>1, <2>3
<1>5. CASE Describe
  <2>1. /\ model = "none"
        /\ UNCHANGED <<controlled, allMotors, velocity>>
    BY <1>5 DEF Describe, OfDiff, Diff!DescriptionCallback, driver
  <2>2. allMotors = <<>>
    BY <2>1 DEF ChainInv, Diff!Usable, Diff!Distance, Diff!Radius
  <2>3. StopsOnly'
    BY <2>1, <2>2 DEF StopsOnly, Zero
  <2>4. QED
    BY <2>1, <2>3
<1>6. CASE Convert
  <2>1. /\ controlled # <<>> /\ controlled' = <<>>
        /\ allMotors' = IF Diff!Usable
                          THEN <<Diff!Motors(Head(controlled))>> ELSE allMotors
        /\ UNCHANGED <<model, velocity>>
    BY <1>6 DEF Convert, OfDiff, Diff!CommandCallback, driver
  <2>2. PICK t \in Speeds : controlled = <<t>>
    BY <2>1 DEF TypeInv, Waits
  <2>3. Head(controlled) = Zero
    BY <2>2 DEF StopsOnly
  <2>4. allMotors' \in {allMotors, <<Diff!Motors(Zero)>>}
    BY <2>1, <2>3, Zenon
  <2>5. \A i \in DOMAIN allMotors' : allMotors'[i] = Diff!Motors(Zero)
    BY <2>4 DEF StopsOnly
  <2>6. StopsOnly'
    BY <1>1, <2>1, <2>5 DEF StopsOnly
  <2>7. QED
    BY <2>1, <2>6
<1>7. CASE Wheel
  <2>1. /\ allMotors # <<>> /\ allMotors' = <<>>
        /\ velocity' = SetAllMotorsSpeed(Head(allMotors))
        /\ UNCHANGED <<controlled, model>>
    BY <1>7 DEF Wheel, Driver!Command
  <2>2. PICK m \in Messages : allMotors = <<m>>
    BY <2>1 DEF TypeInv, Waits
  <2>3. Head(allMotors) = Diff!Motors(Zero)
    BY <2>2 DEF StopsOnly
  <2>4. Slows
    BY <2>1, <2>3, StopMessage
  <2>5. StopsOnly'
    BY <2>1 DEF StopsOnly, Zero
  <2>6. QED
    BY <2>4, <2>5
<1>8. CASE Round \/ LateStop
  BY <1>2, <1>8 DEF Round, LateStop, OfDriver, Driver!Round, Driver!Slow
<1>9. CASE Tilt \/ LinkLost \/ Ends
  BY <1>2, <1>9 DEF Tilt, LinkLost, Ends, Nodes, driver
<1>10. CASE UNCHANGED vars
  BY <1>2, <1>10 DEF vars, driver
<1>11. QED
  BY <1>3, <1>4, <1>5, <1>6, <1>7, <1>8, <1>9, <1>10 DEF Next

(* A robot that is tilted too far, that nobody drives or whose controller  *)
(* has ended: once the messages on their way ask for a stop, so do all     *)
(* that follow, and no wheel turns faster.                                 *)
THEOREM RefusesCorrect == Spec => RefusesToMove
<1>1. Init => ChainInv
  BY DEF Init, ChainInv, LatestCounts, Follows, Driver!Init, Driver!Still
<1>2. ChainInv /\ [Next]_vars => ChainInv'
  BY ChainStep
<1>3. ChainInv /\ TypeInv /\ [Next]_vars =>
        [Refuses /\ StopsOnly =>
           StopsOnly' /\ \A w \in Wheels : velocity'[w] \in {velocity[w], 0}]_vars
  BY RefusesStep
<1>4. QED
  BY <1>1, <1>2, <1>3, TypeInit, TypeStep, PTL DEF Spec, RefusesToMove
=============================================================================
