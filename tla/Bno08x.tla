------------------------------- MODULE Bno08x -------------------------------
(***************************************************************************)
(* The IMU's node, bno08x_driver: main() constructs it and then polls the  *)
(* sensor from a timer; the thread of its Watchdog initialises the sensor  *)
(* again when no report came for a while.  Both go through BNO08x and the  *)
(* library sh2 to the sensor on the I2C bus.                               *)
(*                                                                         *)
(* Time is counted in Ticks, Interval of them in the watchdog's            *)
(* check_interval_.  What takes less than one takes no time.               *)
(***************************************************************************)
EXTENDS Naturals, Sequences

CONSTANTS
  Interval,     \* check_interval_ in ticks
  Timeout,      \* timeout_ in ticks
  MaxFaults     \* bound: faults of the sensor and of the bus

ASSUME Bno08xAssumption ==
  Interval \in Nat \ {0} /\ Timeout \in Nat \ {0} /\ MaxFaults \in Nat

(* The reports in the order they are enabled; /imu needs the last three.   *)
Reports == <<"magnetic", "rotation", "acceleration", "gyroscope">>
All == {Reports[i] : i \in DOMAIN Reports}
ImuParts == All \ {"magnetic"}

Threads == {"main", "watchdog"}

VARIABLES
  sensor,   \* whether the sensor is "on" or "off"
  bus,      \* whether the bus is "ok"; when "bad", transfers may fail
  enabled,  \* the reports the sensor sends
  asked,    \* the sensor has a request for its product ids to answer
  faults,   \* how many faults there were
  pc,       \* where each thread is
  todo,     \* init_sensor: the reports still to be enabled
  parts,    \* imu_received_flag_
  flag,     \* enable_watchdog_
  age,      \* ticks since last_reset_, up to Timeout
  nap,      \* the watchdog's sleep: ticks to go
  since,    \* history: ticks since the latest report, start or re-initialisation
  fresh     \* history: /imu was published since the last tick

world == <<sensor, bus, faults>>
dog   == <<flag, age, nap, since>>
vars == <<world, enabled, asked, pc, todo, parts, dog, fresh>>

Horizon == Timeout + Interval

TypeOK ==
  /\ sensor \in {"on", "off"} /\ bus \in {"ok", "bad"} /\ faults \in 0..MaxFaults
  /\ enabled \subseteq All /\ asked \in BOOLEAN
  /\ pc \in [Threads -> {"none", "open", "ask", "await", "enable", "create", "start",
                         "spin", "test", "sleep", "ended"}]
  /\ todo \in Seq(All)
  /\ parts \subseteq ImuParts /\ parts # ImuParts
  /\ flag \in BOOLEAN /\ age \in 0..Timeout /\ nap \in 0..Interval
  /\ since \in 0..Horizon /\ fresh \in BOOLEAN

(* The node is started; the sensor may still run from an earlier time.     *)
Init ==
  /\ sensor \in {"on", "off"} /\ bus = "ok" /\ faults = 0
  /\ enabled \in {{}, All} /\ asked = FALSE
  /\ pc = [t \in Threads |-> IF t = "main" THEN "open" ELSE "none"]
  /\ todo = <<>> /\ parts = {}
  /\ flag = FALSE /\ age = 0 /\ nap = 0 /\ since = 0 /\ fresh = FALSE

Goto(t, l) == pc' = [pc EXCEPT ![t] = l]

(* An exception nobody catches, in whichever thread, ends the process.     *)
Ends ==
  /\ pc' = [t \in Threads |-> "ended"]
  /\ UNCHANGED <<world, enabled, asked, todo, parts, dog, fresh>>
-----------------------------------------------------------------------------
(* What comes from the sensor.                                             *)

(* A report can come that is enabled, and the magnetic field at any time.  *)
Sends(r) == sensor = "on" /\ r \in enabled \cup {"magnetic"}

(* Mutant: the accelerometer's flag is set for the gyroscope, too.         *)
OneFlagForTwo(r) ==
  /\ age' = 0 /\ since' = 0
  /\ LET got == parts \cup ({IF r = "gyroscope" THEN "acceleration" ELSE r} \cap ImuParts)
     IN  IF got = ImuParts THEN parts' = {} /\ fresh' = TRUE
                           ELSE parts' = got /\ UNCHANGED fresh

(* sensor_callback.                                                        *)
SensorCallback(r) ==
  /\ age' = 0 /\ since' = 0
  /\ LET got == parts \cup ({r} \cap ImuParts)
     IN  IF got = ImuParts THEN parts' = {} /\ fresh' = TRUE
                           ELSE parts' = got /\ UNCHANGED fresh
-----------------------------------------------------------------------------
(* init_sensor, in the constructor or in reset(), which has locked         *)
(* bno08x_mutex_ and deleted the old BNO08x.                               *)

(* BNO08x::init: open() resets the sensor, or throws after five attempts.  *)
Open(t) ==
  /\ pc[t] = "open"
  /\ \/ /\ sensor = "on"
        /\ enabled' = {} /\ asked' = FALSE /\ todo' = Reports
        /\ Goto(t, "ask")
        /\ UNCHANGED <<world, parts, dog, fresh>>
     \/ (sensor = "off" \/ bus = "bad") /\ Ends

(* sh2_getProdIds: the request; an I2C write that fails is repeated until  *)
(* it does not.  Without the sensor's advertisement there is no channel to *)
(* send it on.                                                             *)
Ask(t) ==
  /\ pc[t] = "ask"
  /\ \/ /\ sensor = "on"
        /\ asked' = TRUE
        /\ Goto(t, "await")
        /\ UNCHANGED <<world, enabled, todo, parts, dog, fresh>>
     \/ sensor = "off" /\ Ends

(* ... and the answer, for which opProcess waits without a timeout.        *)
Await(t) ==
  /\ pc[t] = "await"
  /\ asked /\ sensor = "on"
  /\ asked' = FALSE
  /\ Goto(t, "enable")
  /\ UNCHANGED <<world, enabled, todo, parts, dog, fresh>>

(* enable_report: the sensor does not answer.                              *)
EnableReport(t) ==
  /\ pc[t] = "enable" /\ todo # <<>>
  /\ sensor = "on"
  /\ enabled' = enabled \cup {Head(todo)} /\ todo' = Tail(todo)
  /\ UNCHANGED <<world, asked, pc, parts, dog, fresh>>

(* The write fails; txProcess takes in what the sensor has sent and tries  *)
(* again.  In the constructor watchdog_ and the publishers are not set     *)
(* yet, so the callback may end the process, or go unnoticed.              *)
Retry(t) ==
  /\ pc[t] = "enable" /\ todo # <<>> /\ bus = "bad"
  /\ \E r \in All :
       /\ Sends(r)
       /\ \/ /\ t = "watchdog" /\ SensorCallback(r)
             /\ UNCHANGED <<world, enabled, asked, pc, todo, flag, nap>>
          \/ t = "main" /\ Ends

Initialised(t) ==
  /\ pc[t] = "enable" /\ todo = <<>>
  /\ Goto(t, IF t = "main" THEN "create" ELSE "test")
  /\ since' = 0
  /\ UNCHANGED <<world, enabled, asked, todo, parts, flag, age, nap, fresh>>

InitSensor(t) ==
  Open(t) \/ Ask(t) \/ Await(t) \/ EnableReport(t) \/ Retry(t) \/ Initialised(t)
-----------------------------------------------------------------------------
(* main: the rest of the constructor, then spin.                           *)

(* new Watchdog: its thread runs from here on.                             *)
Create ==
  /\ pc["main"] = "create"
  /\ pc' = [main |-> "start", watchdog |-> "test"]
  /\ parts' = {}
  /\ UNCHANGED <<world, enabled, asked, todo, dog, fresh>>

Start ==
  /\ pc["main"] = "start"
  /\ age' = 0 /\ flag' = TRUE /\ since' = 0
  /\ Goto("main", "spin")
  /\ UNCHANGED <<world, enabled, asked, todo, parts, nap, fresh>>

(* poll_timer_callback: it waits for bno08x_mutex_ while reset() has it.   *)
CanPoll ==
  pc["main"] = "spin" /\ pc["watchdog"] \notin {"open", "ask", "await", "enable"}

Poll(r) ==
  /\ CanPoll /\ Sends(r)
  /\ SensorCallback(r)
  /\ UNCHANGED <<world, enabled, asked, pc, todo, flag, nap>>
-----------------------------------------------------------------------------
(* The watchdog's thread.                                                  *)

(* Mutant: it sleeps for timeout_ instead of check_interval_.              *)
SleepLonger ==
  /\ pc["watchdog"] = "test"
  /\ IF flag THEN Goto("watchdog", "sleep") /\ nap' = Timeout
             ELSE Goto("watchdog", "ended") /\ UNCHANGED nap
  /\ UNCHANGED <<world, enabled, asked, todo, parts, flag, age, since, fresh>>

(* The loop: the flag, and the sleep.                                      *)
Test ==
  /\ pc["watchdog"] = "test"
  /\ IF flag THEN Goto("watchdog", "sleep") /\ nap' = Interval
             ELSE Goto("watchdog", "ended") /\ UNCHANGED nap
  /\ UNCHANGED <<world, enabled, asked, todo, parts, flag, age, since, fresh>>

(* ... and the look at last_reset_; the callback is reset().               *)
Look ==
  /\ pc["watchdog"] = "sleep" /\ nap = 0
  /\ Goto("watchdog", IF flag /\ age >= Timeout THEN "open" ELSE "test")
  /\ UNCHANGED <<world, enabled, asked, todo, parts, dog, fresh>>
-----------------------------------------------------------------------------
(* The world.                                                              *)

(* Time passes when no thread has to run: the watchdog wakes up in time,   *)
(* and the poll timer runs many times a tick.                              *)
UpTo(n, m) == IF n < m THEN n ELSE m

Tick ==
  /\ pc["watchdog"] # "test" /\ ~(pc["watchdog"] = "sleep" /\ nap = 0)
  /\ pc["main"] \notin {"create", "start"}
  /\ ~(CanPoll /\ sensor = "on" /\ bus = "ok" /\ enabled # {} /\ since > 0)
  /\ age' = UpTo(age + 1, Timeout) /\ since' = UpTo(since + 1, Horizon)
  /\ nap' = IF nap = 0 THEN 0 ELSE nap - 1
  /\ fresh' = FALSE
  /\ UNCHANGED <<world, enabled, asked, pc, todo, parts, flag>>

(* The sensor is lost or starts anew, without its settings, and what it    *)
(* was asked; nobody looks at was_reset().                                 *)
SensorFault ==
  /\ faults < MaxFaults /\ faults' = faults + 1
  /\ sensor' \in {"on", "off"}
  /\ enabled' = {} /\ asked' = FALSE
  /\ UNCHANGED <<bus, pc, todo, parts, dog, fresh>>

BusFault ==
  /\ faults < MaxFaults /\ faults' = faults + 1
  /\ bus = "ok" /\ bus' = "bad"
  /\ UNCHANGED <<sensor, enabled, asked, pc, todo, parts, dog, fresh>>

Repair ==
  /\ sensor = "off" \/ bus = "bad"
  /\ sensor' = "on" /\ bus' = "ok"
  /\ UNCHANGED <<faults, enabled, asked, pc, todo, parts, dog, fresh>>

Next ==
  \/ \E t \in Threads : InitSensor(t)
  \/ Create \/ Start
  \/ \E r \in All : Poll(r)
  \/ Test \/ Look
  \/ Tick
  \/ SensorFault \/ BusFault \/ Repair

Spec == Init /\ [][Next]_vars

(* The threads run, reports the sensor sends are read, and time passes.    *)
(* That a fault is repaired is not assumed.                                *)
Fairness ==
  /\ \A t \in Threads : WF_vars(Open(t) \/ Ask(t) \/ Await(t) \/ EnableReport(t) \/ Initialised(t))
  /\ WF_vars(Create \/ Start) /\ WF_vars(Test \/ Look) /\ WF_vars(Tick)
  /\ \A r \in All : WF_vars(r \in enabled /\ Poll(r))

FairSpec == Spec /\ Fairness
-----------------------------------------------------------------------------
Waiting == pc["main"] = "spin" /\ pc["watchdog"] \in {"test", "sleep"}

(* While the watchdog waits, no report came for less than its timeout and  *)
(* one interval: silence is noticed at the next look, also when the latest *)
(* re-initialisation was of no use.                                        *)
Noticed == Waiting => since < Horizon

(* The answer a restarted sensor will not give.                            *)
Stuck == \E t \in Threads : pc[t] = "await" /\ ~asked

(* Nobody asks again: the thread keeps bno08x_mutex_, or the constructor,  *)
(* for ever, and /imu is published no more, though the sensor be repaired. *)
StuckForGood == [][Stuck => Stuck' /\ (fresh' => fresh)]_vars

(* When the sensor and the bus work again, /imu is published again and     *)
(* again.  Otherwise a thread has ended or waits for ever for an answer    *)
(* that was lost, or reports other than those of the IMU, or only some of  *)
(* those, keep the watchdog from noticing.                                 *)
Recovers ==
  <>[](sensor = "on" /\ bus = "ok") =>
    \/ []<>fresh
    \/ <>[](pc["watchdog"] = "ended" \/ Stuck)
    \/ []<>(age = 0 /\ enabled # All)
=============================================================================
