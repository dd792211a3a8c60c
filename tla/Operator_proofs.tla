--------------------------- MODULE Operator_proofs ---------------------------
(***************************************************************************)
(* Proofs about what the operator's buttons do: OperatorDrive, for every   *)
(* depth of the queues and every number of presses and restarts, and       *)
(* JoystickActions, for every delay and any number of ends of the servers. *)
(***************************************************************************)
EXTENDS OperatorDrive, JoystickActions, TLAPS

(* A message that arrives, or is taken, leaves a queue of such messages.   *)
LEMMA ArrivedType ==
  ASSUME NEW S, NEW q \in Queue(S), NEW m \in S
  PROVE  Arrived(q, m) \in Queue(S)
<1>1. q \in Seq(S) /\ Len(q) <= Depth /\ Len(q) \in Nat /\ Depth \in Nat \ {0}
  BY TopicsAssumption DEF Queue
<1>2. Append(q, m) \in Seq(S) /\ Len(Append(q, m)) = Len(q) + 1
  BY <1>1
<1>3. Append(q, m) # <<>>
  BY <1>1, <1>2
<1>4. Tail(Append(q, m)) \in Seq(S) /\ Len(Tail(Append(q, m))) = Len(q)
  BY <1>1, <1>2, <1>3
<1> QED BY <1>1, <1>2, <1>4 DEF Arrived, Queue

LEMMA TakenType ==
  ASSUME NEW S, NEW q \in Queue(S), q # <<>>
  PROVE  Head(q) \in S /\ Tail(q) \in Queue(S)
<1>1. q \in Seq(S) /\ Len(q) <= Depth /\ Len(q) \in Nat /\ Depth \in Nat \ {0}
  BY TopicsAssumption DEF Queue
<1>2. Tail(q) \in Seq(S) /\ Len(Tail(q)) = Len(q) - 1 /\ Head(q) \in S
  BY <1>1
<1> QED BY <1>1, <1>2 DEF Queue

LEMMA NothingType == ASSUME NEW S PROVE <<>> \in Queue(S)
BY TopicsAssumption DEF Queue
-----------------------------------------------------------------------------
LEMMA TypeInit == Init => TypeOK
<1> SUFFICES ASSUME Init PROVE TypeOK
  OBVIOUS
<1>1. <<>> \in Queue(BOOLEAN) /\ <<>> \in Queue(Headings)
  BY NothingType
<1> QED BY <1>1, OperatorDriveAssumption
       DEF Init, TypeOK, AutoNode!Started, AutoNode!AutoState, AutoNode!Drives,
           AutoNode!Headings, Headings

LEMMA TypeStep == TypeOK /\ [Next]_vars => TypeOK'
<1> SUFFICES ASSUME TypeOK, [Next]_vars PROVE TypeOK'
  OBVIOUS
<1> USE OperatorDriveAssumption DEF TypeOK
<1>0. auto.heading \in Headings /\ auto.enabled \in BOOLEAN
      /\ auto.stop_required \in BOOLEAN
  BY DEF AutoNode!AutoState, AutoNode!Headings, Headings
<1>2. CASE Press
  <2>1. autoJoy' \in Queue(BOOLEAN)
    BY <1>2, ArrivedType DEF Press, PublishJoy
  <2>2. presses' \in 0..MaxPresses
    BY <1>2 DEF Press
  <2> QED BY <1>2, <2>1, <2>2 DEF Press, PublishJoy
<1>3. CASE ReleaseOrRepeat
  <2>1. button' \in BOOLEAN
    BY <1>3 DEF ReleaseOrRepeat
  <2> QED BY <1>3, <2>1, ArrivedType DEF ReleaseOrRepeat, PublishJoy
<1>4. CASE StopArrives
  BY <1>4, ArrivedType DEF StopArrives
<1>5. CASE HeadingArrives
  BY <1>5, ArrivedType DEF HeadingArrives
<1>6. CASE SwitchOn
  <2>1. autoJoy' \in Queue(BOOLEAN)
    BY <1>6, TakenType DEF SwitchOn, AutoNode!SwitchOn, AutoNode!TakeJoy
  <2>2. auto' \in AutoNode!AutoState /\ drive' \in AutoNode!Drives
    BY <1>6, <1>0 DEF SwitchOn, AutoNode!SwitchOn, AutoNode!After, AutoNode!Button,
                      AutoNode!AutoState, AutoNode!Drives
  <2> QED BY <1>6, <2>1, <2>2 DEF SwitchOn, AutoNode!SwitchOn
<1>7. CASE OtherCallbacks
  <2>0. UNCHANGED <<button, presses, restarts, starts>>
    BY <1>7 DEF OtherCallbacks
  <2>1. CASE AutoNode!JoyWithoutEdge
    <3>1. autoJoy' \in Queue(BOOLEAN)
      BY <2>1, TakenType DEF AutoNode!JoyWithoutEdge, AutoNode!TakeJoy
    <3>2. auto' \in AutoNode!AutoState
      BY <2>1, <1>0 DEF AutoNode!JoyWithoutEdge, AutoNode!After, AutoNode!Button, AutoNode!AutoState
    <3> QED BY <2>0, <2>1, <3>1, <3>2 DEF AutoNode!JoyWithoutEdge
  <2>2. CASE AutoNode!SwitchOff
    <3>1. autoJoy' \in Queue(BOOLEAN)
      BY <2>2, TakenType DEF AutoNode!SwitchOff, AutoNode!TakeJoy
    <3>2. auto' \in AutoNode!AutoState /\ drive' \in AutoNode!Drives
      BY <2>2, <1>0 DEF AutoNode!SwitchOff, AutoNode!After, AutoNode!Button, AutoNode!AutoState,
                        AutoNode!Drives
    <3> QED BY <2>0, <2>2, <3>1, <3>2 DEF AutoNode!SwitchOff
  <2>3. CASE AutoNode!RefuseSwitchOn
    <3>1. autoJoy' \in Queue(BOOLEAN)
      BY <2>3, TakenType DEF AutoNode!RefuseSwitchOn, AutoNode!TakeJoy
    <3>2. auto' \in AutoNode!AutoState /\ drive' \in AutoNode!Drives
      BY <2>3, <1>0 DEF AutoNode!RefuseSwitchOn, AutoNode!After, AutoNode!Button,
                        AutoNode!AutoState, AutoNode!Drives
    <3> QED BY <2>0, <2>3, <3>1, <3>2 DEF AutoNode!RefuseSwitchOn
  <2>4. CASE AutoNode!StopCallback
    <3>1. Head(stops) \in BOOLEAN /\ stops' \in Queue(BOOLEAN)
      BY <2>4, TakenType DEF AutoNode!StopCallback
    <3>2. auto' \in AutoNode!AutoState /\ drive' \in AutoNode!Drives
      BY <2>4, <1>0, <3>1 DEF AutoNode!StopCallback, AutoNode!AutoState, AutoNode!Drives
    <3> QED BY <2>0, <2>4, <3>1, <3>2 DEF AutoNode!StopCallback
  <2>5. CASE AutoNode!DirectionCallback
    <3>1. Head(autoDirection) \in Headings /\ autoDirection' \in Queue(Headings)
      BY <2>5, TakenType DEF AutoNode!DirectionCallback
    <3>2. \/ UNCHANGED <<auto, drive>>
          \/ /\ auto' = [auto EXCEPT !.heading = Head(autoDirection),
                                     !.enabled = FALSE]
             /\ drive' = "stop"
      BY <2>5 DEF AutoNode!DirectionCallback
    <3>3. auto' \in AutoNode!AutoState /\ drive' \in AutoNode!Drives
      BY <1>0, <3>1, <3>2 DEF AutoNode!AutoState, AutoNode!Drives,
                              AutoNode!Headings, Headings
    <3> QED BY <2>0, <2>5, <3>1, <3>3 DEF AutoNode!DirectionCallback
  <2>6. CASE AutoNode!TimerCallback
    <3>1. auto' \in AutoNode!AutoState /\ drive' \in AutoNode!Drives
      BY <2>6, <1>0 DEF AutoNode!TimerCallback, AutoNode!AutoState, AutoNode!Drives
    <3> QED BY <2>0, <2>6, <3>1 DEF AutoNode!TimerCallback
  <2> QED BY <1>7, <2>1, <2>2, <2>3, <2>4, <2>5, <2>6
          DEF OtherCallbacks, AutoNode!OtherCallbacks
<1>8. CASE Restart
  <2>1. restarts' \in 0..MaxRestarts
    BY <1>8 DEF Restart
  <2> QED BY <1>8, <2>1, NothingType
          DEF Restart, AutoNode!Restart, AutoNode!Started, AutoNode!AutoState,
              AutoNode!Drives, AutoNode!Headings, Headings
<1>9. CASE UNCHANGED vars
  BY <1>9 DEF vars, autoVars
<1> QED BY <1>2, <1>3, <1>4, <1>5, <1>6, <1>7, <1>8, <1>9 DEF Next

(* The node, its queues and the operator stay in their types.              *)
THEOREM TypeCorrect == Spec => []TypeOK
<1>1. Init => TypeOK
  BY TypeInit
<1>2. TypeOK /\ [Next]_vars => TypeOK'
  BY TypeStep
<1> QED BY <1>1, <1>2, PTL DEF Spec
-----------------------------------------------------------------------------
(* A drive command is out only while auto drive is on, no stop is required *)
(* and the turret has the heading of the command: each callback of         *)
(* auto_drive keeps the three together.                                    *)
THEOREM DriveCorrect == Spec => []DriveMatches
<1>1. Init => DriveMatches
  BY DEF Init, DriveMatches
<1>2. TypeOK /\ DriveMatches /\ [Next]_vars => DriveMatches'
  <2> SUFFICES ASSUME TypeOK, DriveMatches, [Next]_vars PROVE DriveMatches'
    OBVIOUS
  <2> USE DEF DriveMatches
  <2>0. auto \in AutoNode!AutoState
    BY DEF TypeOK
  <2>1. CASE Press \/ ReleaseOrRepeat \/ StopArrives \/ HeadingArrives
             \/ UNCHANGED vars
    BY <2>1 DEF Press, ReleaseOrRepeat, PublishJoy, StopArrives, HeadingArrives,
                vars, autoVars
  <2>2. CASE SwitchOn
    BY <2>0, <2>2 DEF SwitchOn, AutoNode!SwitchOn, AutoNode!After, AutoNode!AutoState
  <2>3. CASE Restart
    BY <2>3 DEF Restart, AutoNode!Restart
  <2>4. CASE OtherCallbacks
    <3>1. CASE AutoNode!JoyWithoutEdge
      BY <2>0, <3>1 DEF AutoNode!JoyWithoutEdge, AutoNode!After, AutoNode!AutoState
    <3>2. CASE AutoNode!SwitchOff \/ AutoNode!RefuseSwitchOn
      BY <3>2 DEF AutoNode!SwitchOff, AutoNode!RefuseSwitchOn
    <3>3. CASE AutoNode!StopCallback
      BY <2>0, <3>3 DEF AutoNode!StopCallback, AutoNode!AutoState
    <3>4. CASE AutoNode!DirectionCallback
      BY <2>0, <3>4 DEF AutoNode!DirectionCallback, AutoNode!AutoState
    <3>5. CASE AutoNode!TimerCallback
      BY <2>0, <3>5 DEF AutoNode!TimerCallback, AutoNode!AutoState
    <3> QED BY <2>4, <3>1, <3>2, <3>3, <3>4, <3>5
            DEF OtherCallbacks, AutoNode!OtherCallbacks
  <2> QED BY <2>1, <2>2, <2>3, <2>4 DEF Next
<1> QED BY <1>1, <1>2, TypeCorrect, PTL DEF Spec
-----------------------------------------------------------------------------
(* One press starts the robot at most once.  What joy_callback has seen    *)
(* last, the messages in its queue and the button are labelled with how    *)
(* many presses there were when they were published: a label may be lost   *)
(* with its message, but where the button goes down, the labels go up.     *)
Labels(q, last, down, first, label, p) ==
  /\ first \in Nat /\ p \in Nat /\ first <= p
  /\ label \in [1..Len(q) -> Nat]
  /\ last = "up" /\ down = TRUE => first < p
  /\ \A i \in 1..Len(q) : /\ first <= label[i] /\ label[i] <= p
                          /\ last = "up" /\ q[i] = TRUE => first < label[i]
                          /\ q[i] = FALSE /\ down = TRUE => label[i] < p
  /\ \A i, j \in 1..Len(q) :
       i < j => /\ label[i] <= label[j]
                /\ q[i] = FALSE /\ q[j] = TRUE => label[i] < label[j]

PressInv ==
  \E first, label : /\ Labels(autoJoy, auto.last, button, first, label, presses)
                    /\ starts <= first

(* The state of the button is published.                                   *)
LEMMA Published ==
  ASSUME NEW q \in Seq(BOOLEAN), NEW last, NEW down \in BOOLEAN, NEW first, NEW label,
         NEW p, Labels(q, last, down, first, label, p),
         NEW down2 \in BOOLEAN, NEW p2,
         \/ down2 = TRUE /\ down = FALSE /\ p2 = p + 1
         \/ p2 = p /\ (down2 = TRUE => down = TRUE)
  PROVE  \E l : Labels(Append(q, down2), last, down2, first, l, p2)
<1> DEFINE n == Len(q)
           r == Append(q, down2)
           l == [i \in 1..(n + 1) |-> IF i = n + 1 THEN p2 ELSE label[i]]
<1>1. /\ n \in Nat /\ Len(r) = n + 1 /\ r[n + 1] = down2
      /\ \A i \in 1..n : r[i] = q[i] /\ (q[i] = TRUE \/ q[i] = FALSE)
  OBVIOUS
<1>2. /\ first \in Nat /\ p \in Nat /\ first <= p
      /\ \A i \in 1..n : label[i] \in Nat
      /\ last = "up" /\ down = TRUE => first < p
      /\ \A i \in 1..n : /\ first <= label[i] /\ label[i] <= p
                         /\ last = "up" /\ q[i] = TRUE => first < label[i]
                         /\ q[i] = FALSE /\ down = TRUE => label[i] < p
      /\ \A i, j \in 1..n :
           i < j => /\ label[i] <= label[j]
                    /\ q[i] = FALSE /\ q[j] = TRUE => label[i] < label[j]
  BY DEF Labels
<1>3. p2 \in Nat /\ p <= p2
  BY <1>2
<1>4. l[n + 1] = p2 /\ \A i \in 1..n : l[i] = label[i]
  BY <1>1
<1>5. l \in [1..Len(r) -> Nat]
  BY <1>1, <1>2, <1>3
<1> HIDE DEF r, l, n
<1>6. (last = "up" /\ down2 = TRUE => first < p2) /\ first <= p2
  BY <1>2, <1>3
<1>7. ASSUME NEW i \in 1..Len(r)
      PROVE  /\ first <= l[i] /\ l[i] <= p2
             /\ last = "up" /\ r[i] = TRUE => first < l[i]
             /\ r[i] = FALSE /\ down2 = TRUE => l[i] < p2
  <2>1. CASE i = n + 1
    BY <1>1, <1>3, <1>4, <1>6, <2>1
  <2>2. CASE i \in 1..n
    <3>1. l[i] = label[i] /\ r[i] = q[i] /\ label[i] \in Nat
      BY <1>1, <1>2, <1>4, <2>2
    <3>2. first <= label[i] /\ label[i] <= p2
          /\ (last = "up" /\ q[i] = TRUE => first < label[i])
      BY <1>2, <1>3, <2>2
    <3>3. q[i] = FALSE /\ down2 = TRUE => label[i] < p2
      BY <1>2, <1>3, <2>2, <3>1
    <3> QED BY <3>1, <3>2, <3>3, Zenon
  <2>3. i = n + 1 \/ i \in 1..n
    BY <1>1
  <2> QED BY <2>1, <2>2, <2>3, Zenon
<1>8. ASSUME NEW i \in 1..Len(r), NEW j \in 1..Len(r), i < j
      PROVE  /\ l[i] <= l[j]
             /\ r[i] = FALSE /\ r[j] = TRUE => l[i] < l[j]
  <2>1. i \in 1..n /\ l[i] = label[i] /\ r[i] = q[i]
    BY <1>1, <1>4, <1>8
  <2>2. CASE j = n + 1
    <3>1. l[j] = p2 /\ r[j] = down2
      BY <1>1, <1>4, <2>2
    <3> QED BY <1>7, <2>1, <3>1
  <2>3. CASE j \in 1..n
    <3>1. l[j] = label[j] /\ r[j] = q[j]
      BY <1>1, <1>4, <2>3
    <3>2. label[i] <= label[j] /\ (q[i] = FALSE /\ q[j] = TRUE => label[i] < label[j])
      BY <1>2, <1>8, <2>1, <2>3, Zenon
    <3> QED BY <2>1, <3>1, <3>2, Zenon
  <2>4. j = n + 1 \/ j \in 1..n
    BY <1>1
  <2> QED BY <2>2, <2>3, <2>4, Zenon
<1>9. Labels(r, last, down2, first, l, p2)
  BY <1>2, <1>3, <1>5, <1>6, <1>7, <1>8 DEF Labels
<1> QED BY <1>9 DEF r

(* The oldest message is dropped, or taken.                                *)
LEMMA HeadGone ==
  ASSUME NEW q \in Seq(BOOLEAN), q # <<>>, NEW last, NEW down, NEW first, NEW label,
         NEW p, Labels(q, last, down, first, label, p)
  PROVE  /\ \E l : Labels(Tail(q), last, down, first, l, p)
         /\ first <= label[1]
         /\ last = "up" /\ Head(q) = TRUE => first < label[1]
         /\ label[1] \in Nat
         /\ \E l : Labels(Tail(q), IF Head(q) = TRUE THEN "down" ELSE "up", down, label[1], l, p)
<1> DEFINE n == Len(q)
           t == Tail(q)
           l == [i \in 1..(n - 1) |-> label[i + 1]]
<1>1. /\ n \in Nat \ {0} /\ Len(t) = n - 1 /\ Head(q) = q[1] /\ 1 \in 1..n
      /\ \A i \in 1..(n - 1) : t[i] = q[i + 1] /\ i + 1 \in 1..n
      /\ q[1] = TRUE \/ q[1] = FALSE
  OBVIOUS
<1>2. /\ first \in Nat /\ p \in Nat /\ first <= p
      /\ \A i \in 1..n : label[i] \in Nat
      /\ last = "up" /\ down = TRUE => first < p
      /\ \A i \in 1..n : /\ first <= label[i] /\ label[i] <= p
                         /\ last = "up" /\ q[i] = TRUE => first < label[i]
                         /\ q[i] = FALSE /\ down = TRUE => label[i] < p
      /\ \A i, j \in 1..n :
           i < j => /\ label[i] <= label[j]
                    /\ q[i] = FALSE /\ q[j] = TRUE => label[i] < label[j]
  BY DEF Labels
<1>3. \A i \in 1..(n - 1) : l[i] = label[i + 1] /\ l[i] \in Nat
  BY <1>1, <1>2
<1>4. l \in [1..Len(t) -> Nat]
  BY <1>1, <1>3
<1> HIDE DEF n, t, l
<1>5. \A i, j \in 1..(n - 1) :
        i < j => /\ l[i] <= l[j]
                 /\ t[i] = FALSE /\ t[j] = TRUE => l[i] < l[j]
  <2> SUFFICES ASSUME NEW i \in 1..(n - 1), NEW j \in 1..(n - 1), i < j
               PROVE  /\ l[i] <= l[j]
                      /\ t[i] = FALSE /\ t[j] = TRUE => l[i] < l[j]
    OBVIOUS
  <2>1. i + 1 \in 1..n /\ j + 1 \in 1..n /\ i + 1 < j + 1
    BY <1>1
  <2>2. /\ label[i + 1] <= label[j + 1]
        /\ q[i + 1] = FALSE /\ q[j + 1] = TRUE => label[i + 1] < label[j + 1]
    BY <1>2, <2>1, Zenon
  <2>3. t[i] = q[i + 1] /\ t[j] = q[j + 1] /\ l[i] = label[i + 1] /\ l[j] = label[j + 1]
    BY <1>1, <1>3
  <2> QED BY <2>2, <2>3, Zenon
<1>6. Labels(t, last, down, first, l, p)
  BY <1>1, <1>2, <1>3, <1>4, <1>5 DEF Labels
<1>7. /\ first <= label[1] /\ label[1] \in Nat /\ label[1] <= p
      /\ last = "up" /\ Head(q) = TRUE => first < label[1]
      /\ Head(q) = FALSE /\ down = TRUE => label[1] < p
  BY <1>1, <1>2
<1> DEFINE now == IF Head(q) = TRUE THEN "down" ELSE "up"
<1>8. now = "up" => Head(q) = FALSE /\ q[1] = FALSE
  BY <1>1
<1> HIDE DEF now
<1>9. \A i \in 1..(n - 1) : /\ label[1] <= l[i] /\ l[i] <= p
                            /\ now = "up" /\ t[i] = TRUE => label[1] < l[i]
                            /\ t[i] = FALSE /\ down = TRUE => l[i] < p
  <2> SUFFICES ASSUME NEW i \in 1..(n - 1)
               PROVE  /\ label[1] <= l[i] /\ l[i] <= p
                      /\ now = "up" /\ t[i] = TRUE => label[1] < l[i]
                      /\ t[i] = FALSE /\ down = TRUE => l[i] < p
    OBVIOUS
  <2>1. i + 1 \in 1..n /\ 1 < i + 1 /\ l[i] = label[i + 1] /\ t[i] = q[i + 1]
    BY <1>1, <1>3
  <2> QED BY <1>1, <1>2, <1>8, <2>1
<1>10. Labels(t, now, down, label[1], l, p)
  BY <1>1, <1>2, <1>4, <1>5, <1>7, <1>8, <1>9 DEF Labels
<1> QED BY <1>6, <1>7, <1>10 DEF t, now

LEMMA Arrives ==
  ASSUME NEW q \in Seq(BOOLEAN), NEW last, NEW down \in BOOLEAN, NEW first, NEW label,
         NEW p, Labels(q, last, down, first, label, p),
         NEW down2 \in BOOLEAN, NEW p2,
         \/ down2 = TRUE /\ down = FALSE /\ p2 = p + 1
         \/ p2 = p /\ (down2 = TRUE => down = TRUE)
  PROVE  \E l : Labels(Arrived(q, down2), last, down2, first, l, p2)
<1> DEFINE r == Append(q, down2)
<1>1. PICK l : Labels(r, last, down2, first, l, p2)
  BY Published
<1>2. r \in Seq(BOOLEAN) /\ r # <<>>
  OBVIOUS
<1> HIDE DEF r
<1>3. \E k : Labels(Tail(r), last, down2, first, k, p2)
  BY <1>1, <1>2, HeadGone
<1>4. Arrived(q, down2) = r \/ Arrived(q, down2) = Tail(r)
  BY DEF Arrived, r
<1> QED BY <1>1, <1>3, <1>4, Zenon

(* What joy_callback does not touch leaves the labels as they are.         *)
LEMMA SameLabels ==
  ASSUME PressInv, UNCHANGED <<autoJoy, auto.last, button, presses, starts>>
  PROVE  PressInv'
BY DEF PressInv

(* joy_callback takes a message; a press among them may be used up.        *)
LEMMA JoyLabels ==
  ASSUME TypeOK, PressInv, AutoNode!TakeJoy, auto'.last = AutoNode!Button,
         UNCHANGED <<button, presses>>,
         \/ starts' = starts
         \/ starts' = starts + 1 /\ AutoNode!Rising
  PROVE  /\ PressInv'
         /\ AutoNode!Rising => starts < presses
<1>1. PICK first, label : /\ Labels(autoJoy, auto.last, button, first, label, presses)
                          /\ starts <= first
  BY DEF PressInv
<1>2. autoJoy \in Seq(BOOLEAN) /\ autoJoy # <<>> /\ autoJoy' = Tail(autoJoy) /\ starts \in Nat
  BY DEF TypeOK, Queue, AutoNode!TakeJoy
<1> DEFINE now == IF Head(autoJoy) = TRUE THEN "down" ELSE "up"
<1>3. /\ first <= label[1] /\ label[1] \in Nat
      /\ auto.last = "up" /\ Head(autoJoy) = TRUE => first < label[1]
      /\ \E l : Labels(Tail(autoJoy), now, button, label[1], l, presses)
  BY <1>1, <1>2, HeadGone
<1>4. AutoNode!Button = now
  <2>1. Head(autoJoy) \in BOOLEAN
    BY <1>2
  <2> QED BY <2>1 DEF AutoNode!Button
<1>5. AutoNode!Rising => auto.last = "up" /\ Head(autoJoy) = TRUE
  BY <1>4 DEF AutoNode!Rising
<1>6. first \in Nat
  BY <1>1 DEF Labels
<1> DEFINE next == label[1]
<1>7. next \in Nat /\ first <= next /\ (AutoNode!Rising => first < next)
  BY <1>3, <1>5
<1>8. PICK l : Labels(Tail(autoJoy), now, button, next, l, presses)
  BY <1>3
<1>9. next <= presses /\ presses \in Nat
  BY <1>8 DEF Labels
<1> HIDE DEF next, now
<1>10. starts' <= next
  BY <1>1, <1>2, <1>6, <1>7
<1>11. Labels(autoJoy', auto'.last, button', next, l, presses')
  BY <1>2, <1>4, <1>8
<1>12. PressInv'
  BY <1>10, <1>11 DEF PressInv
<1>13. AutoNode!Rising => starts < presses
  BY <1>1, <1>2, <1>6, <1>7, <1>9
<1> QED BY <1>12, <1>13

LEMMA PressInit == Init => PressInv
<1> SUFFICES ASSUME Init PROVE PressInv
  OBVIOUS
<1>1. Labels(<<>>, "none", button, 0, <<>>, 0)
  BY DEF Labels
<1>2. autoJoy = <<>> /\ auto.last = "none" /\ presses = 0 /\ starts = 0
  BY DEF Init, AutoNode!Started
<1> QED BY <1>1, <1>2 DEF PressInv

LEMMA PressStep ==
  TypeOK /\ PressInv /\ [Next]_vars
    => PressInv' /\ (SwitchOn => starts < presses)
<1> SUFFICES ASSUME TypeOK, PressInv, [Next]_vars
             PROVE  PressInv' /\ (SwitchOn => starts < presses)
  OBVIOUS
<1>0. /\ autoJoy \in Seq(BOOLEAN) /\ button \in BOOLEAN /\ auto \in AutoNode!AutoState
      /\ presses \in Nat /\ starts \in Nat
  BY OperatorDriveAssumption DEF TypeOK, Queue
<1>1. PICK first, label : /\ Labels(autoJoy, auto.last, button, first, label, presses)
                          /\ starts <= first
  BY DEF PressInv
<1>2. CASE Press \/ ReleaseOrRepeat
  <2>1. /\ autoJoy' = Arrived(autoJoy, button') /\ button' \in BOOLEAN
        /\ UNCHANGED <<auto, starts>>
        /\ \/ button' = TRUE /\ button = FALSE /\ presses' = presses + 1
           \/ presses' = presses /\ (button' = TRUE => button = TRUE)
    BY <1>0, <1>2 DEF Press, ReleaseOrRepeat, PublishJoy
  <2>2. \E l : Labels(Arrived(autoJoy, button'), auto.last, button', first, l, presses')
    BY <1>0, <1>1, <2>1, Arrives
  <2>3. PressInv'
    BY <1>1, <2>1, <2>2 DEF PressInv
  <2>4. ~SwitchOn \/ presses' = presses
    BY DEF SwitchOn
  <2>5. ~SwitchOn
    <3>1. CASE presses' # presses
      BY <2>4, <3>1
    <3>2. SUFFICES ASSUME SwitchOn PROVE FALSE
      OBVIOUS
    <3>3. starts' = starts + 1
      BY <3>2 DEF SwitchOn
    <3> QED BY <1>0, <2>1, <3>3
  <2> QED BY <2>3, <2>5
<1>3. CASE SwitchOn
  <2>1. /\ AutoNode!TakeJoy /\ AutoNode!Rising /\ starts' = starts + 1
        /\ UNCHANGED <<button, presses>>
        /\ auto' = [AutoNode!After EXCEPT !.enabled = TRUE]
    BY <1>3 DEF SwitchOn, AutoNode!SwitchOn
  <2>2. auto'.last = AutoNode!Button
    BY <1>0, <2>1 DEF AutoNode!After, AutoNode!AutoState
  <2> QED BY <2>1, <2>2, JoyLabels
<1>4. CASE OtherCallbacks
  <2>0. UNCHANGED <<button, presses, restarts, starts>>
    BY <1>4 DEF OtherCallbacks
  <2>1. ~SwitchOn
    BY <1>0, <2>0 DEF SwitchOn
  <2>2. CASE AutoNode!JoyWithoutEdge \/ AutoNode!SwitchOff \/ AutoNode!RefuseSwitchOn
    <3>1. AutoNode!TakeJoy
      BY <2>2 DEF AutoNode!JoyWithoutEdge, AutoNode!SwitchOff, AutoNode!RefuseSwitchOn
    <3>2. auto'.last = AutoNode!Button
      BY <1>0, <2>2 DEF AutoNode!JoyWithoutEdge, AutoNode!SwitchOff, AutoNode!RefuseSwitchOn,
                        AutoNode!After, AutoNode!AutoState
    <3> QED BY <2>0, <2>1, <3>1, <3>2, JoyLabels
  <2>3. CASE AutoNode!StopCallback \/ AutoNode!DirectionCallback \/ AutoNode!TimerCallback
    <3>1. autoJoy' = autoJoy /\ auto'.last = auto.last
      BY <1>0, <2>3 DEF AutoNode!StopCallback, AutoNode!DirectionCallback,
                        AutoNode!TimerCallback, AutoNode!AutoState
    <3> QED BY <2>0, <2>1, <3>1, SameLabels
  <2> QED BY <1>4, <2>2, <2>3 DEF OtherCallbacks, AutoNode!OtherCallbacks
<1>5. CASE Restart
  <2>1. /\ autoJoy' = <<>> /\ auto'.last = "none" /\ UNCHANGED <<button, presses, starts>>
    BY <1>5 DEF Restart, AutoNode!Restart, AutoNode!Started
  <2>2. starts <= presses
    BY <1>0, <1>1 DEF Labels
  <2>3. Labels(<<>>, "none", button, presses, <<>>, presses)
    BY <1>0 DEF Labels
  <2> QED BY <1>0, <2>1, <2>2, <2>3 DEF PressInv, SwitchOn
<1>6. CASE StopArrives \/ HeadingArrives \/ UNCHANGED vars
  <2>1. UNCHANGED <<autoJoy, auto, button, presses, starts>>
    BY <1>6 DEF StopArrives, HeadingArrives, vars, autoVars
  <2> QED BY <1>0, <2>1, SameLabels DEF SwitchOn
<1> QED BY <1>2, <1>3, <1>4, <1>5, <1>6 DEF Next

(* While auto drive is on, the command is out that the timer repeats.      *)
SteadyInv == auto.enabled => ~auto.stop_required /\ drive = auto.heading

LEMMA SteadyStep == TypeOK /\ SteadyInv /\ [Next]_vars => SteadyInv'
<1> SUFFICES ASSUME TypeOK, SteadyInv, [Next]_vars PROVE SteadyInv'
  OBVIOUS
<1> USE DEF SteadyInv
<1>0. auto \in AutoNode!AutoState
  BY DEF TypeOK
<1>1. CASE Press \/ ReleaseOrRepeat \/ StopArrives \/ HeadingArrives \/ UNCHANGED vars
  BY <1>1 DEF Press, ReleaseOrRepeat, PublishJoy, StopArrives, HeadingArrives, vars, autoVars
<1>2. CASE SwitchOn
  BY <1>0, <1>2 DEF SwitchOn, AutoNode!SwitchOn, AutoNode!After, AutoNode!AutoState
<1>3. CASE Restart
  BY <1>3 DEF Restart, AutoNode!Restart, AutoNode!Started
<1>4. CASE OtherCallbacks
  <2>1. CASE AutoNode!JoyWithoutEdge
    BY <1>0, <2>1 DEF AutoNode!JoyWithoutEdge, AutoNode!After, AutoNode!AutoState
  <2>2. CASE AutoNode!SwitchOff \/ AutoNode!RefuseSwitchOn
    BY <1>0, <2>2 DEF AutoNode!SwitchOff, AutoNode!RefuseSwitchOn, AutoNode!After,
                      AutoNode!AutoState
  <2>3. CASE AutoNode!StopCallback
    BY <1>0, <2>3 DEF AutoNode!StopCallback, AutoNode!AutoState
  <2>4. CASE AutoNode!DirectionCallback
    BY <1>0, <2>4 DEF AutoNode!DirectionCallback, AutoNode!AutoState
  <2>5. CASE AutoNode!TimerCallback
    BY <1>0, <2>5 DEF AutoNode!TimerCallback, AutoNode!AutoState
  <2> QED BY <1>4, <2>1, <2>2, <2>3, <2>4, <2>5 DEF OtherCallbacks, AutoNode!OtherCallbacks
<1> QED BY <1>1, <1>2, <1>3, <1>4 DEF Next

(* Each step of the node and of what surrounds it is one of the contract.  *)
LEMMA ContractStep ==
  TypeOK /\ DriveMatches /\ SteadyInv /\ PressInv /\ [Next]_vars
    => [Contract!Next]_<<drive, presses - starts>>
<1> SUFFICES ASSUME TypeOK, DriveMatches, SteadyInv, PressInv, [Next]_vars
             PROVE  [Contract!Next]_<<drive, presses - starts>>
  OBVIOUS
<1>0. /\ auto \in AutoNode!AutoState /\ presses \in Nat /\ starts \in Nat
  BY OperatorDriveAssumption DEF TypeOK
<1>1. CASE Press
  <2>1. drive' = drive /\ presses' = presses + 1 /\ starts' = starts
    BY <1>1 DEF Press, PublishJoy
  <2> QED BY <1>0, <2>1 DEF Contract!Next, Contract!Press
<1>2. CASE SwitchOn
  <2>1. /\ ~auto.enabled /\ drive' = auto.heading /\ starts' = starts + 1 /\ presses' = presses
    BY <1>2 DEF SwitchOn, AutoNode!SwitchOn
  <2>2. drive = "stop" /\ auto.heading \in {"forwards", "backwards"}
    BY <1>0, <2>1 DEF DriveMatches, AutoNode!AutoState, AutoNode!Headings
  <2>3. starts < presses
    BY <1>2, PressStep
  <2> QED BY <1>0, <2>1, <2>2, <2>3 DEF Contract!Next, Contract!Start
<1>3. CASE ReleaseOrRepeat \/ StopArrives \/ HeadingArrives \/ UNCHANGED vars
  BY <1>3 DEF ReleaseOrRepeat, PublishJoy, StopArrives, HeadingArrives, vars, autoVars
<1>4. CASE OtherCallbacks \/ Restart
  <2>1. UNCHANGED <<presses, starts>>
    BY <1>4 DEF OtherCallbacks, Restart
  <2>2. drive' = drive \/ drive' = "stop"
    <3>1. CASE Restart
      BY <3>1 DEF Restart, AutoNode!Restart
    <3>2. CASE AutoNode!TimerCallback
      BY <3>2 DEF AutoNode!TimerCallback, SteadyInv
    <3>3. CASE AutoNode!JoyWithoutEdge \/ AutoNode!SwitchOff \/ AutoNode!RefuseSwitchOn
               \/ AutoNode!StopCallback \/ AutoNode!DirectionCallback
      BY <3>3 DEF AutoNode!JoyWithoutEdge, AutoNode!SwitchOff, AutoNode!RefuseSwitchOn,
                  AutoNode!StopCallback, AutoNode!DirectionCallback
    <3> QED BY <1>4, <3>1, <3>2, <3>3 DEF OtherCallbacks, AutoNode!OtherCallbacks
  <2> QED BY <2>1, <2>2 DEF Contract!Next, Contract!Stop
<1> QED BY <1>1, <1>2, <1>3, <1>4 DEF Next

(* auto_drive implements its contract: one press starts the robot at most  *)
(* once, from a standstill, and it keeps its direction until it stops, for *)
(* every depth of the queues, whatever is dropped, repeated or restarted.  *)
THEOREM ContractCorrect == Spec => ImplementsContract
<1>1. Init => Contract!Init
  BY DEF Init, Contract!Init
<1>2. Init => TypeOK /\ SteadyInv /\ PressInv
  BY TypeInit, PressInit DEF Init, SteadyInv, AutoNode!Started
<1>3. TypeOK /\ SteadyInv /\ PressInv /\ [Next]_vars
        => TypeOK' /\ SteadyInv' /\ PressInv'
  BY TypeStep, SteadyStep, PressStep
<1> QED BY <1>1, <1>2, <1>3, DriveCorrect, ContractStep, PTL
        DEF Spec, ImplementsContract, Contract!Spec
-----------------------------------------------------------------------------
(***************************************************************************)
(* JoystickActions.  With its types, OneGoal is inductive.                 *)
(***************************************************************************)
JoyType ==
  /\ running \in [Client -> BOOLEAN]
  /\ goal \in [Client -> {"none", "sent", "executing", "another"} \cup Answer]
  /\ failed \subseteq Client

JoyInv == JoyType /\ OneGoal

LEMMA JoyStart == JoyInit => JoyInv
BY DEF JoyInit, JoyInv, JoyType, OneGoal

(* One client's part of a step.                                            *)
OneGoalOf(c) ==
  /\ goal[c] # "another"
  /\ goal[c] # "none" => running[c] /\ c \notin failed
  /\ goal[c] = "none" => (running[c] <=> c \in failed)

LEMMA GoalServed ==
  ASSUME JoyInv, NEW c \in Client, NEW from \in {"sent", "executing"},
         NEW to \in {"executing"} \cup Answer, Serve(c, from, to)
  PROVE  JoyInv'
<1>1. /\ goal' = [goal EXCEPT ![c] = to] /\ goal[c] = from
      /\ UNCHANGED <<running, failed>>
  BY DEF Serve
<1>2. JoyType'
  BY <1>1 DEF JoyInv, JoyType
<1>3. to # "none" /\ to # "another" /\ from # "none"
  BY DEF Answer
<1>4. ASSUME NEW d \in Client PROVE OneGoalOf(d)'
  <2>1. OneGoalOf(d) /\ OneGoalOf(c)
    BY DEF JoyInv, OneGoal, OneGoalOf
  <2>2. goal'[d] = IF d = c THEN to ELSE goal[d]
    BY <1>1 DEF JoyInv, JoyType
  <2> QED BY <1>1, <1>3, <2>1, <2>2 DEF OneGoalOf
<1> QED BY <1>2, <1>4 DEF JoyInv, OneGoal, OneGoalOf

LEMMA GoalSent == ASSUME JoyInv, Callback PROVE JoyInv'
<1>1. /\ running' = [c \in Client |-> running[c] \/ Starts(c)]
      /\ goal' = [c \in Client |-> IF Starts(c) THEN Sent(c) ELSE goal[c]]
      /\ failed' = failed
  BY DEF Callback
<1>2. ASSUME NEW c \in Client PROVE OneGoalOf(c)'
  <2>1. OneGoalOf(c)
    BY DEF JoyInv, OneGoal, OneGoalOf
  <2>2. CASE Starts(c)
    <3>1. goal[c] = "none" /\ c \notin failed
      BY <2>1, <2>2 DEF Starts, OneGoalOf
    <3>2. goal'[c] = "sent" /\ running'[c]
      BY <1>1, <2>2, <3>1 DEF Sent
    <3> QED BY <1>1, <3>1, <3>2 DEF OneGoalOf
  <2>3. CASE ~Starts(c)
    <3>1. goal'[c] = goal[c] /\ running'[c] = running[c]
      <4>1. goal'[c] = goal[c] /\ running'[c] = (running[c] \/ Starts(c))
        BY <1>1, <2>3
      <4>2. running[c] \in BOOLEAN
        BY DEF JoyInv, JoyType
      <4> QED BY <2>3, <4>1, <4>2
    <3> QED BY <1>1, <2>1, <3>1 DEF OneGoalOf
  <2> QED BY <2>2, <2>3
<1>3. JoyType'
  <2>1. running' \in [Client -> BOOLEAN]
    BY <1>1 DEF JoyInv, JoyType
  <2>2. goal' \in [Client -> {"none", "sent", "executing", "another"} \cup Answer]
    BY <1>1 DEF Sent, JoyInv, JoyType
  <2> QED BY <1>1, <2>1, <2>2 DEF JoyInv, JoyType
<1> QED BY <1>2, <1>3 DEF JoyInv, OneGoal, OneGoalOf

LEMMA GoalAnswered == ASSUME JoyInv, NEW c \in Client, ResultCallback(c) PROVE JoyInv'
<1>1. goal' = [goal EXCEPT ![c] = "none"] /\ goal[c] # "none"
  BY DEF ResultCallback, Answer
<1>2. CASE goal[c] = "succeeded"
  <2>1. running' = [running EXCEPT ![c] = FALSE] /\ failed' = failed
    BY <1>2 DEF ResultCallback, Freed
  <2>2. JoyType'
    BY <1>1, <2>1 DEF JoyInv, JoyType
  <2>3. ASSUME NEW d \in Client PROVE OneGoalOf(d)'
    <3>1. OneGoalOf(d)
      BY DEF JoyInv, OneGoal, OneGoalOf
    <3>2. CASE d = c
      <4>1. goal'[d] = "none" /\ ~running'[d]
        BY <1>1, <2>1, <3>2 DEF JoyInv, JoyType
      <4> QED BY <1>1, <2>1, <3>1, <3>2, <4>1 DEF OneGoalOf
    <3>3. CASE d # c
      <4>1. goal'[d] = goal[d] /\ running'[d] = running[d]
        BY <1>1, <2>1, <3>3 DEF JoyInv, JoyType
      <4> QED BY <2>1, <3>1, <4>1 DEF OneGoalOf
    <3> QED BY <3>2, <3>3
  <2> QED BY <2>2, <2>3 DEF JoyInv, OneGoal, OneGoalOf
<1>3. CASE goal[c] # "succeeded"
  <2>1. running' = running /\ failed' = failed \cup {c}
    BY <1>3 DEF ResultCallback, Freed
  <2>2. JoyType'
    BY <1>1, <2>1 DEF JoyInv, JoyType
  <2>3. ASSUME NEW d \in Client PROVE OneGoalOf(d)'
    <3>1. OneGoalOf(d)
      BY DEF JoyInv, OneGoal, OneGoalOf
    <3>2. goal'[d] = IF d = c THEN "none" ELSE goal[d]
      BY <1>1 DEF JoyInv, JoyType
    <3> QED BY <1>1, <2>1, <3>1, <3>2 DEF OneGoalOf
  <2> QED BY <2>2, <2>3 DEF JoyInv, OneGoal, OneGoalOf
<1> QED BY <1>2, <1>3

LEMMA GoalLost == ASSUME JoyInv, NEW c \in Client, ServerEnds(c) PROVE JoyInv'
<1>1. running' = running
  BY DEF ServerEnds
<1>2. CASE goal[c] \in {"sent", "executing"}
  <2>1. goal' = [goal EXCEPT ![c] = "none"] /\ failed' = failed \cup {c}
    BY <1>2 DEF ServerEnds
  <2>2. JoyType'
    BY <1>1, <2>1 DEF JoyInv, JoyType
  <2>3. ASSUME NEW d \in Client PROVE OneGoalOf(d)'
    <3>1. OneGoalOf(d)
      BY DEF JoyInv, OneGoal, OneGoalOf
    <3>2. goal'[d] = IF d = c THEN "none" ELSE goal[d]
      BY <2>1 DEF JoyInv, JoyType
    <3> QED BY <1>1, <1>2, <2>1, <3>1, <3>2 DEF OneGoalOf
  <2> QED BY <2>2, <2>3 DEF JoyInv, OneGoal, OneGoalOf
<1>3. CASE UNCHANGED <<goal, failed>>
  BY <1>1, <1>3 DEF JoyInv, JoyType, OneGoal
<1> QED BY <1>2, <1>3 DEF ServerEnds

LEMMA JoyStep == JoyInv /\ [JoyNext]_joyVars => JoyInv'
<1> SUFFICES ASSUME JoyInv, [JoyNext]_joyVars PROVE JoyInv'
  OBVIOUS
<1>1. ASSUME UNCHANGED <<running, goal, failed>> PROVE JoyInv'
  BY <1>1 DEF JoyInv, JoyType, OneGoal
<1>2. ASSUME NEW c \in Client, Accept(c) \/ Reject(c) \/ Succeed(c) \/ Fail(c)
      PROVE  JoyInv'
  <2>1. PICK from \in {"sent", "executing"}, to \in {"executing"} \cup Answer :
          Serve(c, from, to)
    BY <1>2 DEF Accept, Reject, Succeed, Fail, Answer
  <2> QED BY <2>1, GoalServed
<1> QED BY <1>1, <1>2, GoalSent, GoalAnswered, GoalLost
       DEF JoyNext, ButtonsChange, Period, ServerStarts, joyVars

(* A client has one goal at a time, with its flag set, whatever becomes of *)
(* the servers.                                                            *)
THEOREM OneGoalCorrect == JoySpec => []OneGoal
<1>1. JoyInv => OneGoal
  BY DEF JoyInv
<1> QED BY <1>1, JoyStart, JoyStep, PTL DEF JoySpec

(* A client whose goal did not succeed, or that was lost with its server,  *)
(* keeps its flag and sends no goal ever again: joystick_action_controller *)
(* sets action_running_ back after success only.                           *)
THEOREM ShutCorrect == JoySpec => ShutForGood
<1>1. ASSUME JoyInv, JoyInv', [JoyNext]_joyVars, NEW c \in failed
      PROVE  c \in failed' /\ goal'[c] = "none"
  <2>1. c \in Client /\ goal[c] = "none" /\ running[c]
    BY <1>1 DEF JoyInv, JoyType, OneGoal
  <2>2. failed \subseteq failed'
    BY <1>1 DEF JoyNext, Callback, ButtonsChange, Period, ResultCallback, Accept, Reject,
                Succeed, Fail, Serve, ServerStarts, ServerEnds, joyVars
  <2>3. OneGoalOf(c)'
    BY <1>1, <2>1 DEF JoyInv, OneGoal, OneGoalOf
  <2>4. QED
    BY <1>1, <2>2, <2>3 DEF OneGoalOf
<1>2. JoyInv /\ JoyInv' /\ [JoyNext]_joyVars
        => [\A c \in failed : c \in failed' /\ goal'[c] = "none"]_joyVars
  BY <1>1
<1> QED BY <1>2, JoyStart, JoyStep, PTL DEF JoySpec, ShutForGood
=============================================================================
