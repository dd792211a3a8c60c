------------------------ MODULE TurretHeading_proofs ------------------------
(***************************************************************************)
(* Proofs about TurretHeading, for every depth of the queues, all angles   *)
(* of the two commands, and every number of repeats, turns and losses.     *)
(***************************************************************************)
EXTENDS TurretHeading, TLAPS

(* A message that arrives, or is taken, leaves a queue of such messages.   *)
LEMMA ArrivedType ==
  ASSUME NEW S, NEW q \in Queue(S), NEW m \in S
  PROVE  Arrived(q, m) \in Queue(S)
<1>1. q \in Seq(S) /\ Len(q) <= Depth /\ Len(q) \in Nat /\ Depth \in Nat \ {0}
  BY TopicsAssumption DEF Queue
<1>2. Append(q, m) \in Seq(S) /\ Len(Append(q, m)) = Len(q) + 1
  BY <1>1
<1>3. Append(q, m) # <<>>
  BY <1>1, <1>2
<1>4. Tail(Append(q, m)) \in Seq(S) /\ Len(Tail(Append(q, m))) = Len(q)
  BY <1>1, <1>2, <1>3
<1> QED BY <1>1, <1>2, <1>4 DEF Arrived, Queue

LEMMA TakenType ==
  ASSUME NEW S, NEW q \in Queue(S), q # <<>>
  PROVE  Head(q) \in S /\ Tail(q) \in Queue(S)
<1>1. q \in Seq(S) /\ Len(q) <= Depth /\ Len(q) \in Nat /\ Depth \in Nat \ {0}
  BY TopicsAssumption DEF Queue
<1>2. Tail(q) \in Seq(S) /\ Len(Tail(q)) = Len(q) - 1 /\ Head(q) \in S
  BY <1>1
<1> QED BY <1>1, <1>2 DEF Queue

(* A message arrives: it is the last one, whatever is dropped.             *)
LEMMA ArrivedLast ==
  ASSUME NEW S, NEW q \in Queue(S), NEW e \in S
  PROVE  LET r == Arrived(q, e)
         IN  r \in Queue(S) /\ r # <<>> /\ r[Len(r)] = e
<1> DEFINE k == Len(q)
           long == Append(q, e)
<1>1. q \in Seq(S) /\ k <= Depth /\ k \in Nat /\ Depth \in Nat \ {0}
  BY TopicsAssumption DEF Queue
<1>2. long \in Seq(S) /\ Len(long) = k + 1 /\ long[k + 1] = e /\ long # <<>>
  BY <1>1
<1>3. CASE k + 1 > Depth
  <2>1. k \in 1..k /\ Tail(long) \in Seq(S) /\ Len(Tail(long)) = k
    BY <1>1, <1>2, <1>3
  <2>2. Tail(long)[k] = long[k + 1] /\ Tail(long) # <<>>
    BY <1>1, <1>2, <2>1, SMT
  <2>3. Arrived(q, e) = Tail(long)
    BY <1>2, <1>3 DEF Arrived
  <2> HIDE DEF long
  <2>4. QED
    BY <1>1, <1>2, <2>1, <2>2, <2>3 DEF Queue
<1>4. CASE ~(k + 1 > Depth)
  <2>1. Arrived(q, e) = long
    BY <1>2, <1>4 DEF Arrived
  <2> HIDE DEF long
  <2>2. QED
    BY <1>1, <1>2, <1>4, <2>1, SMT DEF Queue
<1>5. QED
  BY <1>3, <1>4

(* One is taken: the last one is still there, or it was that.              *)
LEMMA TakenLast ==
  ASSUME NEW S, NEW q \in Queue(S), q # <<>>
  PROVE  /\ Head(q) \in S /\ Tail(q) \in Queue(S)
         /\ IF Tail(q) = <<>> THEN Head(q) = q[Len(q)]
                              ELSE Tail(q)[Len(Tail(q))] = q[Len(q)]
<1> DEFINE k == Len(q)
           r == Tail(q)
<1>1. q \in Seq(S) /\ k <= Depth /\ k \in Nat \ {0} /\ Depth \in Nat \ {0}
  BY TopicsAssumption DEF Queue
<1>2. /\ Head(q) \in S /\ Head(q) = q[1] /\ r \in Seq(S) /\ Len(r) = k - 1
      /\ \A i \in 1..Len(r) : r[i] = q[i + 1]
  BY <1>1
<1>3. r \in Queue(S)
  BY <1>1, <1>2 DEF Queue
<1>4. CASE r = <<>>
  <2> HIDE DEF r, k
  <2>1. Len(r) = 0
    BY <1>4
  <2>2. k = 1
    BY <1>1, <1>2, <2>1
  <2>3. QED
    BY <1>2, <1>3, <1>4, <2>2 DEF r, k
<1>5. CASE r # <<>>
  <2>1. Len(r) # 0 /\ Len(r) \in Nat
    BY <1>2, <1>5
  <2> HIDE DEF r, k
  <2>2. Len(r) \in 1..Len(r) /\ Len(r) + 1 = k
    BY <1>1, <1>2, <2>1
  <2>3. r[Len(r)] = q[k]
    BY <1>2, <2>2
  <2>4. QED
    BY <1>2, <1>3, <1>5, <2>3 DEF r, k
<1>6. QED
  BY <1>4, <1>5

LEMMA NothingType == ASSUME NEW S PROVE <<>> \in Queue(S)
BY TopicsAssumption DEF Queue
-----------------------------------------------------------------------------
(* The names that TurretJoystick shares with this module.                  *)
LEMMA Same ==
  /\ Turret!Headings = Headings /\ Turret!None = "none"
  /\ \A q, m : Turret!Arrived(q, m) = Arrived(q, m)
BY DEF Turret!Headings, Headings, Turret!None, Turret!Arrived, Arrived

(* The actions of the node, as this module takes them.                     *)
NodeStep == \/ Turret!AlignOnStartup \/ Turret!PublishState
            \/ Turret!RepeatCommand \/ Turret!StopRepeating
            \/ Turret!JoyWithoutEdge \/ Turret!RefuseToggle \/ Turret!Toggle

NodeType ==
  /\ turret \in Turret!TurretState /\ turret.repeats < Repeats
  /\ turretJoy \in Queue(BOOLEAN)
  /\ servo = <<>> \/ \E h \in Headings : servo = <<Commands[h]>>
  /\ autoDirection \in Queue(Headings) /\ ellipseDirection \in Queue(Headings)
  /\ subscribed \in BOOLEAN

(* Publishing keeps the types of the queues.                               *)
LEMMA PublishType ==
  ASSUME NodeType, NEW h \in Headings
  PROVE  /\ Turret!PublishDirection(h)
              => autoDirection' \in Queue(Headings) /\ ellipseDirection' \in Queue(Headings)
         /\ Turret!PublishServo(h)
              => servo' = <<>> \/ \E g \in Headings : servo' = <<Commands[g]>>
<1>1. ASSUME Turret!PublishDirection(h)
      PROVE  autoDirection' \in Queue(Headings) /\ ellipseDirection' \in Queue(Headings)
  <2>1. /\ autoDirection' = Arrived(autoDirection, h)
        /\ ellipseDirection' = Arrived(ellipseDirection, h)
    BY <1>1, Same DEF Turret!PublishDirection
  <2> QED BY <2>1, ArrivedType DEF NodeType
<1>2. ASSUME Turret!PublishServo(h)
      PROVE  servo' = <<>> \/ \E g \in Headings : servo' = <<Commands[g]>>
  BY <1>2 DEF Turret!PublishServo, NodeType
<1> QED BY <1>1, <1>2

(* A turret, changed as Face changes it.                                   *)
LEMMA FaceType ==
  ASSUME NodeType, NEW t \in Turret!TurretState, NEW h \in Headings,
         Turret!Face(t, h)
  PROVE  /\ turret' \in Turret!TurretState /\ turret'.repeats < Repeats
         /\ turret'.heading = h /\ turret'.pending = h
         /\ servo' = IF subscribed THEN <<Commands[h]>> ELSE servo
         /\ servo' = <<>> \/ \E g \in Headings : servo' = <<Commands[g]>>
         /\ autoDirection' \in Queue(Headings) /\ ellipseDirection' \in Queue(Headings)
<1>1. Repeats \in Nat /\ Repeats - 1 \in Nat /\ Repeats - 1 < Repeats
  BY TurretHeadingAssumption
<1>2. turret' = [t EXCEPT !.heading = h, !.pending = h, !.repeats = Repeats - 1]
  BY DEF Turret!Face
<1>3. turret' \in Turret!TurretState /\ turret'.repeats = Repeats - 1
      /\ turret'.heading = h /\ turret'.pending = h
  BY <1>1, <1>2, Same DEF Turret!TurretState
<1> QED BY <1>1, <1>3, PublishType DEF Turret!Face, Turret!PublishServo

(* joy_callback leaves the node as it is but for the button.               *)
LEMMA AfterType ==
  ASSUME NodeType, turretJoy # <<>>
  PROVE  /\ Turret!After \in Turret!TurretState
         /\ Turret!After.heading = turret.heading
         /\ Turret!After.pending = turret.pending
         /\ Turret!After.repeats = turret.repeats
         /\ Tail(turretJoy) \in Queue(BOOLEAN)
<1>1. Head(turretJoy) \in BOOLEAN /\ Tail(turretJoy) \in Queue(BOOLEAN)
  BY TakenType DEF NodeType
<1> QED BY <1>1, Same DEF NodeType, Turret!After, Turret!Button, Turret!TurretState
-----------------------------------------------------------------------------
LEMMA NodeTypeStep == ASSUME NodeType, NodeStep PROVE NodeType'
<1>0. turret.heading \in Headings /\ Turret!Other(turret.heading) \in Headings
  BY Same DEF NodeType, Turret!TurretState, Turret!Other, Headings
<1>1. CASE Turret!AlignOnStartup
  <2>1. [turret EXCEPT !.aligned = TRUE] \in Turret!TurretState
    BY DEF NodeType, Turret!TurretState
  <2>2. "forwards" \in Headings
    BY DEF Headings
  <2> QED BY <1>1, <2>1, <2>2, FaceType DEF Turret!AlignOnStartup, NodeType
<1>2. CASE Turret!PublishState
  BY <1>0, <1>2, PublishType DEF Turret!PublishState, NodeType
<1>3. CASE Turret!RepeatCommand
  <2>1. turret.pending \in Headings
    BY <1>3, Same DEF Turret!RepeatCommand, NodeType, Turret!TurretState
  <2>2. turret.repeats \in Nat /\ Repeats \in Nat /\ turret.repeats > 0
    BY <1>3, TurretHeadingAssumption DEF Turret!RepeatCommand, NodeType, Turret!TurretState
  <2>3. turret' \in Turret!TurretState /\ turret'.repeats < Repeats
    BY <1>3, <2>2 DEF Turret!RepeatCommand, NodeType, Turret!TurretState
  <2> QED BY <1>3, <2>1, <2>3, PublishType DEF Turret!RepeatCommand, NodeType
<1>4. CASE Turret!StopRepeating
  BY <1>4 DEF Turret!StopRepeating, NodeType, Turret!TurretState
<1>5. CASE Turret!JoyWithoutEdge
  BY <1>5, AfterType DEF Turret!JoyWithoutEdge, Turret!TakeJoy, NodeType
<1>6. CASE Turret!RefuseToggle
  BY <1>0, <1>6, AfterType, PublishType DEF Turret!RefuseToggle, Turret!TakeJoy, NodeType
<1>7. CASE Turret!Toggle
  BY <1>0, <1>7, AfterType, FaceType DEF Turret!Toggle, Turret!TakeJoy, NodeType
<1> QED BY <1>1, <1>2, <1>3, <1>4, <1>5, <1>6, <1>7 DEF NodeStep
-----------------------------------------------------------------------------
LEMMA TypeInit == Init => TypeOK
<1> SUFFICES ASSUME Init PROVE TypeOK
  OBVIOUS
<1>1. Turret!Started \in Turret!TurretState /\ Turret!Started.repeats < Repeats
  BY TurretHeadingAssumption, Same
     DEF Turret!Started, Turret!TurretState, Headings
<1>2. Unsent \in Limits \cup {Unsent}
  OBVIOUS
<1>3. <<>> \in Queue(BOOLEAN) /\ <<>> \in Queue(Headings)
  BY NothingType
<1>4. 0 \in 0..MaxTurns /\ 0 \in 0..MaxLosses
  BY TurretHeadingAssumption
<1>5. "forwards" \in Headings
  BY DEF Headings
<1> QED BY <1>1, <1>2, <1>3, <1>4, <1>5 DEF Init, TypeOK

(* A step of the node is a NodeStep, and leaves its surroundings alone.    *)
LEMMA NodeSteps ==
  (\/ OfTurret(Turret!AlignOnStartup) \/ OfTurret(Turret!PublishState)
   \/ Repeat \/ OfTurret(Turret!StopRepeating) \/ OfTurret(Turret!Joy))
  => NodeStep /\ UNCHANGED Around
BY DEF OfTurret, Repeat, NodeStep, Turret!Joy

LEMMA TypeStep == TypeOK /\ [Next]_vars => TypeOK'
<1> SUFFICES ASSUME TypeOK, [Next]_vars PROVE TypeOK'
  OBVIOUS
<1>0. NodeType
  BY DEF TypeOK, NodeType
<1>1. CASE NodeStep /\ UNCHANGED Around
  <2>1. NodeType'
    BY <1>0, <1>1, NodeTypeStep
  <2> QED BY <1>1, <2>1 DEF Around, NodeType, TypeOK
<1>2. CASE Press
  <2>1. turretJoy' \in Queue(BOOLEAN)
    BY <1>2, ArrivedType DEF Press, PublishJoy, TypeOK
  <2>2. turns' \in 0..MaxTurns
    BY <1>2, TurretHeadingAssumption DEF Press, TypeOK
  <2> QED BY <1>2, <2>1, <2>2 DEF Press, PublishJoy, TypeOK
<1>3. CASE ReleaseOrRepeat
  <2>1. button' \in BOOLEAN
    BY <1>3 DEF ReleaseOrRepeat, TypeOK
  <2>2. turretJoy' \in Queue(BOOLEAN)
    BY <1>3, <2>1, ArrivedType DEF ReleaseOrRepeat, PublishJoy, TypeOK
  <2> QED BY <1>3, <2>1, <2>2 DEF ReleaseOrRepeat, PublishJoy, TypeOK
<1>4. CASE DriverStarts
  BY <1>4 DEF DriverStarts, Around, TypeOK
<1>5. CASE ServoCallback
  <2>1. goal' \in Limits \cup {Unsent}
    BY <1>5 DEF ServoCallback, TypeOK, Limit, Limits
  <2>2. losses' \in 0..MaxLosses
    BY <1>5, TurretHeadingAssumption DEF ServoCallback, TypeOK
  <2> QED BY <1>5, <2>1, <2>2 DEF ServoCallback, TypeOK
<1>6. CASE AutoTakes
  BY <1>6, TakenType DEF AutoTakes, TypeOK
<1>7. CASE EllipseTakes
  BY <1>7, TakenType DEF EllipseTakes, TypeOK
<1>8. CASE UNCHANGED vars
  BY <1>8 DEF vars, turretVars, TypeOK
<1> QED BY <1>1, <1>2, <1>3, <1>4, <1>5, <1>6, <1>7, <1>8, NodeSteps DEF Next

(* The node, the queues and what the others keep stay in their types.      *)
THEOREM TypeCorrect == Spec => []TypeOK
<1>1. Init => TypeOK
  BY TypeInit
<1>2. TypeOK /\ [Next]_vars => TypeOK'
  BY TypeStep
<1> QED BY <1>1, <1>2, PTL DEF Spec
-----------------------------------------------------------------------------
LEMMA FollowInit == Init => FollowInv
BY DEF Init, FollowInv, ServoFollows, ServoAt, Turret!Started, Turret!None

(* What a command for the heading h does to the invariant.                 *)
LEMMA FollowFace ==
  ASSUME TypeOK, FollowInv, NEW t \in Turret!TurretState, NEW h \in Headings,
         Turret!Face(t, h), subscribed \/ h = "forwards",
         UNCHANGED <<subscribed, goal, losses>>
  PROVE  FollowInv'
<1>1. NodeType
  BY DEF TypeOK, NodeType
<1>2. /\ turret'.heading = h /\ turret'.pending = h
      /\ servo' = IF subscribed THEN <<Commands[h]>> ELSE servo
  BY <1>1, FaceType
<1> QED BY <1>2 DEF FollowInv, ServoFollows, ServoAt, SentTo

(* Every step keeps the invariant.                                         *)
LEMMA FollowStep == TypeOK /\ FollowInv /\ [Next]_vars => FollowInv'
<1> SUFFICES ASSUME TypeOK, FollowInv, [Next]_vars PROVE FollowInv'
  OBVIOUS
<1>0. NodeType /\ turret \in Turret!TurretState
  BY DEF TypeOK, NodeType
<1>1. CASE NodeStep /\ UNCHANGED Around
  <2>0. UNCHANGED <<goal, losses>>
    BY <1>1 DEF Around
  <2>1. CASE Turret!AlignOnStartup
    <3>1. [turret EXCEPT !.aligned = TRUE] \in Turret!TurretState
      BY <1>0 DEF Turret!TurretState
    <3> QED BY <2>0, <2>1, <3>1, FollowFace DEF Turret!AlignOnStartup, Headings
  <2>2. CASE Turret!PublishState
    BY <2>0, <2>2 DEF Turret!PublishState, FollowInv, ServoFollows, ServoAt
  <2>3. CASE Turret!RepeatCommand
    <3>1. turret.pending = turret.heading
      BY <2>3, Same DEF Turret!RepeatCommand, FollowInv
    <3>2. turret'.heading = turret.heading /\ turret'.pending = turret.pending
      BY <1>0, <2>3 DEF Turret!RepeatCommand, Turret!TurretState
    <3> QED BY <2>0, <2>3, <3>1, <3>2
            DEF Turret!RepeatCommand, Turret!PublishServo, FollowInv, ServoFollows, ServoAt
  <2>4. CASE Turret!StopRepeating
    <3>1. turret'.heading = turret.heading /\ turret'.pending = "none"
      BY <1>0, <2>4, Same DEF Turret!StopRepeating, Turret!TurretState
    <3> QED BY <2>0, <2>4, <3>1 DEF Turret!StopRepeating, FollowInv, ServoFollows, ServoAt
  <2>5. CASE Turret!JoyWithoutEdge \/ Turret!RefuseToggle
    <3>1. turret'.heading = turret.heading /\ turret'.pending = turret.pending
      BY <1>0, <2>5, AfterType
         DEF Turret!JoyWithoutEdge, Turret!RefuseToggle, Turret!TakeJoy
    <3> QED BY <2>0, <2>5, <3>1
            DEF Turret!JoyWithoutEdge, Turret!RefuseToggle, FollowInv, ServoFollows, ServoAt
  <2>6. CASE Turret!Toggle
    <3>1. Turret!Other(turret.heading) \in Headings
      BY DEF Turret!Other, Headings
    <3>2. Turret!After \in Turret!TurretState
      BY <1>0, <2>6, AfterType DEF Turret!Toggle, Turret!TakeJoy
    <3> QED BY <2>0, <2>6, <3>1, <3>2, FollowFace DEF Turret!Toggle
  <2> QED BY <1>1, <2>1, <2>2, <2>3, <2>4, <2>5, <2>6 DEF NodeStep
<1>2. CASE Press \/ ReleaseOrRepeat
  BY <1>2 DEF Press, ReleaseOrRepeat, PublishJoy, FollowInv, ServoFollows, ServoAt
<1>3. CASE DriverStarts
  BY <1>3 DEF DriverStarts, Around, FollowInv, ServoFollows, ServoAt
<1>4. CASE ServoCallback
  <2>1. servo = <<Commands[turret.heading]>>
    BY <1>4 DEF ServoCallback, FollowInv
  <2>2. Head(servo) = Commands[turret.heading]
    BY <2>1
  <2>3. losses' = 0 => goal' = SentTo(turret.heading)
    BY <1>4, <2>2 DEF ServoCallback, SentTo, TypeOK
  <2> QED BY <1>4, <2>1, <2>3 DEF ServoCallback, FollowInv, ServoFollows, ServoAt
<1>5. CASE AutoTakes \/ EllipseTakes \/ UNCHANGED vars
  BY <1>5 DEF AutoTakes, EllipseTakes, vars, turretVars, FollowInv, ServoFollows, ServoAt
<1> QED BY <1>1, <1>2, <1>3, <1>4, <1>5, NodeSteps DEF Next

(* With no command lost and none on the way, the servo is at the node's    *)
(* own angle for its present heading, or was never sent anywhere and that  *)
(* heading is the first one: also when the driver starts late, and         *)
(* whatever the operator presses.                                          *)
THEOREM FollowCorrect == Spec => []ServoFollows
<1>1. Init => FollowInv
  BY FollowInit
<1>2. TypeOK /\ FollowInv /\ [Next]_vars => FollowInv'
  BY FollowStep
<1>3. FollowInv => ServoFollows
  BY DEF FollowInv
<1> QED BY <1>1, <1>2, <1>3, TypeCorrect, PTL DEF Spec
-----------------------------------------------------------------------------
(* The listeners.  The newest heading, queued for one or taken by it, is   *)
(* the node's: in a queue that keeps the last.                             *)
LEMMA NewestArrives ==
  ASSUME NEW q \in Queue(Headings), NEW h \in Headings, NEW taken
  PROVE  Newest(Arrived(q, h), taken) = h
<1>1. Arrived(q, h) # <<>> /\ Arrived(q, h)[Len(Arrived(q, h))] = h
  BY ArrivedLast
<1>2. QED
  BY <1>1 DEF Newest

LEMMA NewestTaken ==
  ASSUME NEW q \in Queue(Headings), q # <<>>, NEW taken
  PROVE  Newest(Tail(q), Head(q)) = Newest(q, taken)
BY TakenLast, Zenon DEF Newest

LEMMA ListenStep == TypeOK /\ ListenInv /\ [Next]_vars => ListenInv'
<1> SUFFICES ASSUME TypeOK, ListenInv, [Next]_vars PROVE ListenInv'
  OBVIOUS
<1>0. /\ NodeType /\ turret \in Turret!TurretState /\ turret.heading \in Headings
      /\ autoDirection \in Queue(Headings) /\ ellipseDirection \in Queue(Headings)
  BY Same DEF TypeOK, NodeType, Turret!TurretState
<1>1. ASSUME NEW h \in Headings, turret'.heading = h, Turret!PublishDirection(h),
             UNCHANGED <<autoHeading, ellipseHeading>>
      PROVE  ListenInv'
  <2>1. /\ autoDirection' = Arrived(autoDirection, h)
        /\ ellipseDirection' = Arrived(ellipseDirection, h)
    BY <1>1, Same DEF Turret!PublishDirection
  <2>2. QED
    BY <1>0, <1>1, <2>1, NewestArrives DEF ListenInv
<1>2. ASSUME turret'.heading = turret.heading,
             UNCHANGED <<autoDirection, ellipseDirection, autoHeading, ellipseHeading>>
      PROVE  ListenInv'
  BY <1>2 DEF ListenInv
<1>3. CASE NodeStep /\ UNCHANGED Around
  <2>0. UNCHANGED <<autoHeading, ellipseHeading>>
    BY <1>3 DEF Around
  <2>1. CASE Turret!AlignOnStartup
    <3>1. [turret EXCEPT !.aligned = TRUE] \in Turret!TurretState /\ "forwards" \in Headings
      BY <1>0 DEF Turret!TurretState, Headings
    <3>2. turret'.heading = "forwards" /\ Turret!PublishDirection("forwards")
      BY <1>0, <2>1, <3>1, FaceType DEF Turret!AlignOnStartup, Turret!Face
    <3>3. QED
      BY <1>1, <2>0, <3>1, <3>2
  <2>2. CASE Turret!PublishState
    BY <1>0, <1>1, <2>0, <2>2 DEF Turret!PublishState
  <2>3. CASE Turret!RepeatCommand \/ Turret!StopRepeating
    <3>1. turret'.heading = turret.heading
      BY <1>0, <2>3 DEF Turret!RepeatCommand, Turret!StopRepeating, Turret!TurretState
    <3>2. QED
      BY <1>2, <2>0, <2>3, <3>1 DEF Turret!RepeatCommand, Turret!StopRepeating
  <2>4. CASE Turret!JoyWithoutEdge
    <3>1. turret'.heading = turret.heading
      BY <1>0, <2>4, AfterType DEF Turret!JoyWithoutEdge, Turret!TakeJoy
    <3>2. QED
      BY <1>2, <2>0, <2>4, <3>1 DEF Turret!JoyWithoutEdge
  <2>5. CASE Turret!RefuseToggle
    <3>1. turret'.heading = turret.heading
      BY <1>0, <2>5, AfterType DEF Turret!RefuseToggle, Turret!TakeJoy
    <3>2. QED
      BY <1>0, <1>1, <2>0, <2>5, <3>1 DEF Turret!RefuseToggle
  <2>6. CASE Turret!Toggle
    <3> DEFINE h == Turret!Other(turret.heading)
    <3>1. h \in Headings
      BY DEF Turret!Other, Headings
    <3>2. Turret!After \in Turret!TurretState
      BY <1>0, <2>6, AfterType DEF Turret!Toggle, Turret!TakeJoy
    <3>3. Turret!Face(Turret!After, h)
      BY <2>6 DEF Turret!Toggle
    <3> HIDE DEF h
    <3>4. turret'.heading = h /\ Turret!PublishDirection(h)
      BY <1>0, <3>1, <3>2, <3>3, FaceType DEF Turret!Face
    <3>5. QED
      BY <1>1, <2>0, <3>1, <3>4
  <2>7. QED
    BY <1>3, <2>1, <2>2, <2>3, <2>4, <2>5, <2>6 DEF NodeStep
<1>4. CASE AutoTakes
  BY <1>0, <1>4, NewestTaken DEF AutoTakes, ListenInv
<1>5. CASE EllipseTakes
  BY <1>0, <1>5, NewestTaken DEF EllipseTakes, ListenInv
<1>6. CASE Press \/ ReleaseOrRepeat \/ DriverStarts \/ ServoCallback \/ UNCHANGED vars
  BY <1>2, <1>6 DEF Press, ReleaseOrRepeat, PublishJoy, DriverStarts, ServoCallback,
     Around, vars, turretVars
<1>7. QED
  BY <1>3, <1>4, <1>5, <1>6, NodeSteps DEF Next

(* auto_drive and ellipse_model have the heading of turret_joystick_node   *)
(* as soon as each has taken what is queued for it, for queues of any      *)
(* depth, and whatever the operator presses.                               *)
THEOREM ListenCorrect == Spec => []ListenersFollow
<1>1. Init => ListenInv
  BY DEF Init, ListenInv, Newest, Turret!Started
<1>2. ListenInv => ListenersFollow
  BY DEF ListenInv, ListenersFollow, Newest
<1>3. QED
  BY <1>1, <1>2, ListenStep, TypeCorrect, PTL DEF Spec
=============================================================================
