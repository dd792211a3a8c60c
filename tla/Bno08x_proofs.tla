--------------------------- MODULE Bno08x_proofs ---------------------------
(***************************************************************************)
(* The watchdog of the IMU's node notices silence within its timeout and   *)
(* one interval, for every length of the two, whatever faults of sensor    *)
(* and bus came before, and through any number of re-initialisations.      *)
(*                                                                         *)
(* The silence cannot be longer than what last_reset_ says, and when the   *)
(* thread goes to sleep it is shorter than the timeout: after a look that  *)
(* found it so, after a re-initialisation, or after the start.             *)
(***************************************************************************)
EXTENDS Bno08x, TLAPS

Labels == {"none", "open", "ask", "await", "enable", "create", "start",
           "spin", "test", "sleep", "ended"}

NoticeInv ==
  /\ pc \in [Threads -> Labels]
  /\ since \in 0..Horizon /\ age \in 0..Timeout /\ nap \in 0..Interval
  /\ flag \in BOOLEAN
  /\ since <= age \/ age = Timeout
  /\ pc["main"] \in {"open", "ask", "await", "enable", "create"} => pc["watchdog"] = "none"
  /\ pc["main"] \in {"create", "start"} => since = 0
  /\ pc["watchdog"] = "test" => since < Timeout
  /\ pc["watchdog"] = "sleep" => flag /\ since + nap < Horizon

(* The main thread and the watchdog's are two.                             *)
LEMMA TwoThreads == \A t \in Threads : t = "main" \/ t = "watchdog"
BY DEF Threads

(* What a jump of one thread does to the two.                              *)
LEMMA Jump ==
  ASSUME pc \in [Threads -> Labels], NEW t \in Threads, NEW l \in Labels, Goto(t, l)
  PROVE  /\ pc' \in [Threads -> Labels]
         /\ pc'[t] = l
         /\ \A u \in Threads : u # t => pc'[u] = pc[u]
BY DEF Goto

(* Horizon is a number, and there is time between timeout and Horizon.     *)
LEMMA Lengths == Horizon \in Nat /\ Timeout \in Nat /\ Interval \in Nat
                   /\ 0 < Timeout /\ 0 < Interval /\ Horizon = Timeout + Interval
BY Bno08xAssumption, SMT DEF Horizon

LEMMA NoticeInit == Init => NoticeInv
<1> SUFFICES ASSUME Init PROVE NoticeInv
  OBVIOUS
<1>1. /\ pc \in [Threads -> Labels]
      /\ pc["main"] = "open" /\ pc["watchdog"] = "none"
  BY DEF Init, Threads, Labels
<1>2. flag \in BOOLEAN
  BY Zenon DEF Init
<1>3. since = 0 /\ age = 0 /\ nap = 0
  BY DEF Init
<1>4. QED
  BY <1>1, <1>2, <1>3, Lengths, SMT DEF NoticeInv

(* A step of init_sensor, in either thread.                                *)
LEMMA NoticeInitSensor ==
  ASSUME NoticeInv, NEW t \in Threads, InitSensor(t)
  PROVE  NoticeInv'
<1> USE DEF NoticeInv
<1>0. t = "main" \/ t = "watchdog"
  BY TwoThreads
<1>a. "main" \in Threads /\ "watchdog" \in Threads
  BY DEF Threads
<1>1. CASE Ends
  <2>1. /\ pc' \in [Threads -> Labels]
        /\ pc'["main"] = "ended" /\ pc'["watchdog"] = "ended"
    BY <1>1, <1>a DEF Ends, Labels
  <2>2. UNCHANGED <<since, age, nap, flag>>
    BY <1>1 DEF Ends, dog
  <2>3. QED
    BY <2>1, <2>2
<1>2. ASSUME NEW l \in {"ask", "await", "enable"},
             pc[t] \in {"open", "ask", "await"}, Goto(t, l),
             UNCHANGED <<since, age, nap, flag>>
      PROVE  NoticeInv'
  <2>1. l \in Labels
    BY <1>2 DEF Labels
  <2>2. /\ pc' \in [Threads -> Labels] /\ pc'[t] = l
        /\ \A u \in Threads : u # t => pc'[u] = pc[u]
    BY <1>2, <2>1, Jump
  <2>3. QED
    BY <1>0, <1>a, <1>2, <2>2
<1>3. CASE Open(t) /\ ~Ends
  BY <1>2, <1>3 DEF Open, dog
<1>4. CASE Ask(t) /\ ~Ends
  BY <1>2, <1>4 DEF Ask, dog
<1>5. CASE Await(t)
  BY <1>2, <1>5 DEF Await, dog
<1>6. CASE EnableReport(t)
  <2>1. UNCHANGED <<pc, since, age, nap, flag>>
    BY <1>6 DEF EnableReport, dog
  <2>2. QED
    BY <2>1
<1>7. CASE Retry(t) /\ ~Ends
  <2>1. t = "watchdog" /\ pc[t] = "enable"
    BY <1>7 DEF Retry
  <2>2. since' = 0 /\ age' = 0 /\ UNCHANGED <<pc, flag, nap>>
    BY <1>7 DEF Retry, SensorCallback
  <2>3. QED
    BY <2>1, <2>2, Lengths, SMT
<1>8. CASE Initialised(t)
  <2> DEFINE l == IF t = "main" THEN "create" ELSE "test"
  <2>1. l \in Labels /\ Goto(t, l) /\ pc[t] = "enable"
    BY <1>8 DEF Initialised, Labels
  <2>2. since' = 0 /\ UNCHANGED <<age, nap, flag>>
    BY <1>8 DEF Initialised
  <2>3. /\ pc' \in [Threads -> Labels] /\ pc'[t] = l
        /\ \A u \in Threads : u # t => pc'[u] = pc[u]
    BY <2>1, Jump
  <2>4. CASE t = "main"
    BY <1>a, <2>1, <2>2, <2>3, <2>4, Lengths, SMT
  <2>5. CASE t = "watchdog"
    BY <1>a, <2>1, <2>2, <2>3, <2>5, Lengths, SMT
  <2>6. QED
    BY <1>0, <2>4, <2>5
<1>9. QED
  BY <1>1, <1>3, <1>4, <1>5, <1>6, <1>7, <1>8 DEF InitSensor

(* Every step keeps the silence within the bounds.                         *)
LEMMA NoticeStep == NoticeInv /\ [Next]_vars => NoticeInv'
<1> SUFFICES ASSUME NoticeInv, [Next]_vars PROVE NoticeInv'
  OBVIOUS
<1> USE DEF NoticeInv
<1>a. "main" \in Threads /\ "watchdog" \in Threads /\ {"test", "sleep", "open", "spin", "ended"} \subseteq Labels
  BY DEF Threads, Labels
<1>1. ASSUME NEW t \in Threads, InitSensor(t) PROVE NoticeInv'
  BY <1>1, NoticeInitSensor
<1>2. CASE Create
  <2>1. /\ pc["main"] = "create" /\ pc' = [main |-> "start", watchdog |-> "test"]
        /\ UNCHANGED <<since, age, nap, flag>>
    BY <1>2 DEF Create, dog
  <2>2. pc' \in [Threads -> Labels] /\ pc'["main"] = "start" /\ pc'["watchdog"] = "test"
    BY <2>1 DEF Threads, Labels
  <2>3. QED
    BY <2>1, <2>2, Lengths, SMT
<1>3. CASE Start
  <2>1. /\ pc["main"] = "start" /\ Goto("main", "spin")
        /\ since' = 0 /\ age' = 0 /\ UNCHANGED nap
    BY <1>3 DEF Start
  <2>2. flag' \in BOOLEAN /\ flag'
    BY <1>3, Zenon DEF Start
  <2>3. /\ pc' \in [Threads -> Labels] /\ pc'["main"] = "spin"
        /\ pc'["watchdog"] = pc["watchdog"]
    BY <1>a, <2>1, Jump
  <2>4. QED
    BY <2>1, <2>2, <2>3, Lengths, SMT
<1>4. ASSUME NEW r \in All, Poll(r) PROVE NoticeInv'
  <2>1. pc["main"] = "spin" /\ since' = 0 /\ age' = 0 /\ UNCHANGED <<pc, flag, nap>>
    BY <1>4 DEF Poll, CanPoll, SensorCallback
  <2>2. QED
    BY <2>1, Lengths, SMT
<1>5. CASE Test
  <2>1. pc["watchdog"] = "test" /\ UNCHANGED <<since, age, flag>>
    BY <1>5 DEF Test
  <2>2. CASE flag
    <3>1. Goto("watchdog", "sleep") /\ nap' = Interval
      BY <1>5, <2>2 DEF Test
    <3>2. /\ pc' \in [Threads -> Labels] /\ pc'["watchdog"] = "sleep"
          /\ pc'["main"] = pc["main"]
      BY <1>a, <3>1, Jump
    <3>3. QED
      BY <2>1, <2>2, <3>1, <3>2, Lengths, SMT
  <2>3. CASE ~flag
    <3>1. Goto("watchdog", "ended") /\ nap' = nap
      BY <1>5, <2>3 DEF Test
    <3>2. /\ pc' \in [Threads -> Labels] /\ pc'["watchdog"] = "ended"
          /\ pc'["main"] = pc["main"]
      BY <1>a, <3>1, Jump
    <3>3. QED
      BY <2>1, <2>3, <3>1, <3>2, Lengths, SMT
  <2>4. QED
    BY <2>2, <2>3
<1>6. CASE Look
  <2>1. /\ pc["watchdog"] = "sleep" /\ nap = 0 /\ flag
        /\ UNCHANGED <<since, age, nap, flag>>
    BY <1>6 DEF Look, dog
  <2>2. CASE age >= Timeout
    <3>1. Goto("watchdog", "open")
      BY <1>6, <2>1, <2>2 DEF Look
    <3>2. /\ pc' \in [Threads -> Labels] /\ pc'["watchdog"] = "open"
          /\ pc'["main"] = pc["main"]
      BY <1>a, <3>1, Jump
    <3>3. QED
      BY <2>1, <3>2, Lengths, SMT
  <2>3. CASE ~(age >= Timeout)
    <3>1. Goto("watchdog", "test")
      BY <1>6, <2>3 DEF Look
    <3>2. /\ pc' \in [Threads -> Labels] /\ pc'["watchdog"] = "test"
          /\ pc'["main"] = pc["main"]
      BY <1>a, <3>1, Jump
    <3>3. since < Timeout
      BY <2>3, Lengths, SMT
    <3>4. QED
      BY <2>1, <3>2, <3>3, Lengths, SMT
  <2>4. QED
    BY <2>2, <2>3
<1>7. CASE Tick
  <2>1. /\ pc["watchdog"] # "test" /\ ~(pc["watchdog"] = "sleep" /\ nap = 0)
        /\ pc["main"] \notin {"create", "start"}
        /\ UNCHANGED <<pc, flag>>
    BY <1>7 DEF Tick
  <2>2. /\ age' = (IF age + 1 < Timeout THEN age + 1 ELSE Timeout)
        /\ since' = (IF since + 1 < Horizon THEN since + 1 ELSE Horizon)
        /\ nap' = (IF nap = 0 THEN 0 ELSE nap - 1)
    BY <1>7 DEF Tick, UpTo
  <2>3. age' \in 0..Timeout /\ since' \in 0..Horizon /\ nap' \in 0..Interval
    BY <2>2, Lengths, SMT
  <2>4. since' <= age' \/ age' = Timeout
    BY <2>2, Lengths, SMT
  <2>5. pc["watchdog"] = "sleep" => since' + nap' < Horizon
    BY <2>1, <2>2, Lengths, SMT
  <2>6. QED
    BY <2>1, <2>3, <2>4, <2>5
<1>8. CASE SensorFault \/ BusFault \/ Repair \/ UNCHANGED vars
  <2>1. UNCHANGED <<pc, since, age, nap, flag>>
    BY <1>8 DEF SensorFault, BusFault, Repair, vars, dog
  <2>2. QED
    BY <2>1
<1>9. QED
  BY <1>1, <1>2, <1>3, <1>4, <1>5, <1>6, <1>7, <1>8 DEF Next

(* Silence of the sensor is noticed within the timeout and one interval.   *)
THEOREM NoticedCorrect == Spec => []Noticed
<1>1. NoticeInv => Noticed
  BY Lengths, SMT DEF NoticeInv, Noticed, Waiting
<1>2. QED
  BY <1>1, NoticeInit, NoticeStep, PTL DEF Spec
-----------------------------------------------------------------------------
(* The types of what NoticeInv does not speak of; /imu's parts are taken   *)
(* back before all of them are there.                                      *)
SensorType ==
  /\ sensor \in {"on", "off"} /\ bus \in {"ok", "bad"} /\ faults \in 0..MaxFaults
  /\ enabled \subseteq All /\ asked \in BOOLEAN
  /\ todo \in Seq(All)
  /\ parts \subseteq ImuParts /\ parts # ImuParts
  /\ fresh \in BOOLEAN

LEMMA FourReports ==
  All = {"magnetic", "rotation", "acceleration", "gyroscope"} /\ Reports \in Seq(All)
<1>1. All = {"magnetic", "rotation", "acceleration", "gyroscope"}
  BY DEF All, Reports
<1> QED BY <1>1 DEF Reports

LEMMA CallbackType ==
  ASSUME SensorType, NEW r \in All, SensorCallback(r)
  PROVE  parts' \subseteq ImuParts /\ parts' # ImuParts /\ fresh' \in BOOLEAN
<1> DEFINE got == parts \cup ({r} \cap ImuParts)
<1>1. IF got = ImuParts THEN parts' = {} /\ fresh' = TRUE
                        ELSE parts' = got /\ UNCHANGED fresh
  BY DEF SensorCallback
<1>2. "rotation" \in ImuParts
  BY FourReports DEF ImuParts
<1>3. got \subseteq ImuParts
  BY DEF SensorType
<1> HIDE DEF got
<1>4. CASE got = ImuParts
  <2>1. parts' = {} /\ fresh' = TRUE
    BY <1>1, <1>4, Zenon
  <2> QED BY <2>1, <1>2
<1>5. CASE got # ImuParts
  <2>1. parts' = got /\ fresh' = fresh
    BY <1>1, <1>5, Zenon
  <2> QED BY <2>1, <1>3, <1>5 DEF SensorType
<1> QED BY <1>4, <1>5

LEMMA SensorTypeStep ==
  ASSUME SensorType, [Next]_vars
  PROVE  SensorType'
<1> USE DEF SensorType
<1>1. ASSUME UNCHANGED <<world, enabled, asked, todo, parts, fresh>> PROVE SensorType'
  BY <1>1, Zenon DEF world
<1>2. ASSUME NEW t \in Threads, InitSensor(t) PROVE SensorType'
  <2>1. CASE Ends
    BY <1>1, <2>1 DEF Ends
  <2>2. CASE Open(t) /\ ~Ends
    <3>1. /\ enabled' = {} /\ asked' = FALSE /\ todo' = Reports
          /\ UNCHANGED <<world, parts, fresh>>
      BY <2>2 DEF Open
    <3>2. Reports \in Seq(All)
      BY FourReports
    <3> QED BY <3>1, <3>2, Zenon DEF world
  <2>3. CASE Ask(t) /\ ~Ends
    <3>1. asked' = TRUE /\ UNCHANGED <<world, enabled, todo, parts, fresh>>
      BY <2>3 DEF Ask
    <3> QED BY <3>1, Zenon DEF world
  <2>4. CASE Await(t)
    <3>1. asked' = FALSE /\ UNCHANGED <<world, enabled, todo, parts, fresh>>
      BY <2>4 DEF Await
    <3> QED BY <3>1, Zenon DEF world
  <2>5. CASE EnableReport(t)
    <3>1. /\ enabled' = enabled \cup {Head(todo)} /\ todo' = Tail(todo) /\ todo # <<>>
          /\ UNCHANGED <<world, asked, parts, fresh>>
      BY <2>5 DEF EnableReport
    <3>2. enabled' \subseteq All /\ todo' \in Seq(All)
      BY <3>1
    <3> QED BY <3>1, <3>2, Zenon DEF world
  <2>6. CASE Retry(t) /\ ~Ends
    <3>1. PICK r \in All : SensorCallback(r) /\ UNCHANGED <<world, enabled, asked, todo>>
      BY <2>6 DEF Retry
    <3>2. parts' \subseteq ImuParts /\ parts' # ImuParts /\ fresh' \in BOOLEAN
      BY <3>1, CallbackType
    <3> QED BY <3>1, <3>2, Zenon DEF world
  <2>7. CASE Initialised(t)
    BY <1>1, <2>7 DEF Initialised
  <2> QED BY <1>2, <2>1, <2>2, <2>3, <2>4, <2>5, <2>6, <2>7 DEF InitSensor
<1>3. CASE Create
  <2>1. parts' = {} /\ UNCHANGED <<world, enabled, asked, todo, fresh>>
    BY <1>3 DEF Create
  <2>2. {} # ImuParts
    BY FourReports DEF ImuParts
  <2> QED BY <2>1, <2>2, Zenon DEF world
<1>4. ASSUME NEW r \in All, Poll(r) PROVE SensorType'
  <2>1. parts' \subseteq ImuParts /\ parts' # ImuParts /\ fresh' \in BOOLEAN
    BY <1>4, CallbackType DEF Poll
  <2> QED BY <1>4, <2>1, Zenon DEF Poll, world
<1>5. CASE Start \/ Test \/ Look
  BY <1>1, <1>5 DEF Start, Test, Look
<1>6. CASE Tick
  <2>1. fresh' = FALSE /\ UNCHANGED <<world, enabled, asked, todo, parts>>
    BY <1>6 DEF Tick
  <2> QED BY <2>1, Zenon DEF world
<1>7. CASE SensorFault \/ BusFault
  <2>1. faults' \in 0..MaxFaults
    BY <1>7, Bno08xAssumption DEF SensorFault, BusFault
  <2>2. /\ sensor' \in {"on", "off"} /\ bus' \in {"ok", "bad"}
        /\ enabled' \subseteq All /\ asked' \in BOOLEAN
    BY <1>7, Zenon DEF SensorFault, BusFault
  <2>3. UNCHANGED <<todo, parts, fresh>>
    BY <1>7 DEF SensorFault, BusFault
  <2> QED BY <2>1, <2>2, <2>3, Zenon
<1>8. CASE Repair
  BY <1>8, Zenon DEF Repair
<1>9. CASE UNCHANGED vars
  BY <1>1, <1>9 DEF vars
<1> QED BY <1>2, <1>3, <1>4, <1>5, <1>6, <1>7, <1>8, <1>9 DEF Next

(* Every variable stays in its type, whatever fails: what is left to be    *)
(* enabled is always the rest of the list of reports, and an incomplete    *)
(* set of parts is all that sensor_callback keeps.                         *)
THEOREM TypeCorrect == Spec => []TypeOK
<1>1. Init => SensorType
  <2> SUFFICES ASSUME Init PROVE SensorType
    OBVIOUS
  <2>1. /\ sensor \in {"on", "off"} /\ bus \in {"ok", "bad"} /\ enabled \subseteq All
        /\ asked \in BOOLEAN /\ fresh \in BOOLEAN
    BY Zenon DEF Init
  <2>2. faults \in 0..MaxFaults
    BY Bno08xAssumption DEF Init
  <2>3. todo \in Seq(All) /\ parts \subseteq ImuParts /\ parts # ImuParts
    <3>1. todo = <<>> /\ parts = {}
      BY Zenon DEF Init
    <3>2. <<>> \in Seq(All)
      OBVIOUS
    <3>3. "gyroscope" \in ImuParts
      <4>1. "gyroscope" \in All /\ "gyroscope" # "magnetic"
        BY FourReports, Zenon
      <4> QED BY <4>1, Zenon DEF ImuParts
    <3> QED BY <3>1, <3>2, <3>3, Zenon
  <2> QED BY <2>1, <2>2, <2>3, Zenon DEF SensorType
<1>2. SensorType /\ [Next]_vars => SensorType'
  BY SensorTypeStep
<1>3. SensorType /\ NoticeInv => TypeOK
  BY Zenon DEF SensorType, NoticeInv, TypeOK, Labels
<1> QED BY <1>1, <1>2, <1>3, NoticeInit, NoticeStep, PTL DEF Spec
-----------------------------------------------------------------------------
(* A thread that waits for an answer the restarted sensor will not give    *)
(* waits for ever: the other thread, if there is one, does not ask for it, *)
(* and whoever polls waits for the mutex of reset().                       *)
THEOREM StuckCorrect == Spec => StuckForGood
<1>1. ASSUME NoticeInv, [Next]_vars, Stuck
      PROVE  Stuck' /\ (fresh' => fresh)
  <2>1. PICK t \in Threads : pc[t] = "await" /\ ~asked
    BY <1>1 DEF Stuck
  <2>2. /\ pc \in [Threads -> Labels] /\ Threads = {"main", "watchdog"}
        /\ pc["main"] \in {"open", "ask", "await", "enable", "create"}
             => pc["watchdog"] = "none"
    BY <1>1 DEF NoticeInv, Threads
  <2>3. ASSUME pc'[t] = pc[t], asked' => asked, fresh' => fresh
        PROVE  Stuck' /\ (fresh' => fresh)
    BY <2>1, <2>3 DEF Stuck
  <2>4. ASSUME NEW u \in Threads PROVE ~InitSensor(u)
    <3>1. CASE u = t
      BY <2>1, <3>1 DEF InitSensor, Open, Ask, Await, EnableReport, Retry, Initialised
    <3>2. CASE u # t
      <4>1. pc[u] \notin {"open", "ask", "await", "enable"}
        BY <2>1, <2>2, <3>2
      <4>2. QED
        BY <4>1 DEF InitSensor, Open, Ask, Await, EnableReport, Retry, Initialised
    <3>3. QED
      BY <3>1, <3>2
  <2>5. ~Create /\ \A r \in All : ~Poll(r)
    BY <2>1, <2>2 DEF Create, Poll, CanPoll
  <2>6. CASE Start \/ Test \/ Look
    <3>1. UNCHANGED <<asked, fresh>>
      BY <2>6 DEF Start, Test, Look
    <3>2. PICK u \in Threads, l \in Labels : Goto(u, l) /\ pc[u] # "await"
      BY <2>2, <2>6 DEF Start, Test, Look, Labels
    <3>3. pc'[t] = pc[t]
      BY <2>1, <2>2, <3>2, Jump
    <3>4. QED
      BY <2>3, <3>1, <3>3
  <2>7. CASE Tick \/ SensorFault \/ BusFault \/ Repair \/ UNCHANGED vars
    <3>1. pc' = pc /\ (asked' => asked) /\ (fresh' => fresh)
      BY <2>7 DEF Tick, SensorFault, BusFault, Repair, vars
    <3>2. QED
      BY <2>3, <3>1
  <2>8. QED
    BY <1>1, <2>4, <2>5, <2>6, <2>7 DEF Next
<1>2. NoticeInv /\ [Next]_vars => [Stuck => Stuck' /\ (fresh' => fresh)]_vars
  BY <1>1
<1>3. QED
  BY <1>2, NoticeInit, NoticeStep, PTL DEF Spec, StuckForGood
=============================================================================
