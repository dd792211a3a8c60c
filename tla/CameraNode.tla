----------------------------- MODULE CameraNode -----------------------------
(***************************************************************************)
(* camera_ros: one thread per request publishes its frame and queues the   *)
(* request again, woken by a condition variable that libcamera's thread    *)
(* notifies; the destructor wakes and joins these threads.                 *)
(*                                                                         *)
(* Nothing but the notification tells a thread that its request has been   *)
(* completed: the wait has no predicate.  A request's mutex is held by its *)
(* thread from waking to the end of the loop's body, so that libcamera's   *)
(* thread waits for it; between two rounds of the loop it is free.         *)
(***************************************************************************)
EXTENDS PipelineHandler, Naturals

CONSTANTS
  MaxRefused,   \* how often the device may refuse a buffer
  MaxSpurious   \* how often a wait may end without a notification

ASSUME CameraNodeAssumption == MaxRefused \in Nat /\ MaxSpurious \in Nat

VARIABLES
  thread,      \* where the request's thread is in process()
  main,        \* where the constructor or the destructor is
  todo,        \* the requests that main's loop has yet to come to
  connected,   \* requestComplete is connected to requestCompleted
  running,
  refused,     \* buffers refused so far
  spurious,    \* spurious wake-ups so far
  unheard,     \* history: requests whose thread did not hear the notification
  misused      \* a request was reused while in the camera; libcamera's answer
               \* to that is not modelled, and nothing happens from there on

node == <<thread, main, todo, connected, running, refused, spurious, unheard, misused>>
vars == <<camera, node>>

(* "lock": to take the mutex; "waiting": on the condition variable;        *)
(* "woken": to take the mutex back; "body": at work, and "end": having     *)
(* queued the request, with the mutex held.                                *)
ThreadAt == {"lock", "waiting", "woken", "body", "end", "gone"}
MainAt   == {"start", "queue", "alive", "disconnected", "notify", "join", "stop",
             "done", "terminated"}

TypeOK ==
  /\ status \in [Request -> Status] /\ emitted \in Request \cup {None}
  /\ inbox \in Seq(Request) /\ queued \in Seq(Request) /\ device \in Seq(Request)
  /\ thread \in [Request -> ThreadAt] /\ main \in MainAt /\ todo \subseteq Request
  /\ connected \in BOOLEAN /\ running \in BOOLEAN /\ misused \in BOOLEAN
  /\ refused \in 0..MaxRefused /\ spurious \in 0..MaxSpurious
  /\ unheard \subseteq Request

(* The threads have been created and the callback connected.               *)
Init ==
  /\ CameraInit
  /\ thread = [r \in Request |-> "lock"]
  /\ main = "start" /\ todo = {} /\ connected = TRUE /\ running = TRUE
  /\ refused = 0 /\ spurious = 0 /\ unheard = {} /\ misused = FALSE

Goes(r, from, to) ==
  /\ ~misused /\ thread[r] = from
  /\ thread' = [thread EXCEPT ![r] = to]
-----------------------------------------------------------------------------
(* process(), the loop of request r's thread.                              *)
Wait(r) ==
  /\ Goes(r, "lock", "waiting")
  /\ UNCHANGED <<camera, main, todo, connected, running, refused, spurious, unheard, misused>>

(* Mutant: the woken thread does not look whether it is to end.            *)
WakeToWork(r) ==
  /\ Goes(r, "woken", "body")
  /\ UNCHANGED <<camera, main, todo, connected, running, refused, spurious, unheard, misused>>

Wake(r) ==
  /\ Goes(r, "woken", IF running THEN "body" ELSE "gone")
  /\ UNCHANGED <<camera, main, todo, connected, running, refused, spurious, unheard, misused>>

(* Mutant: a cancelled request is not queued again.                        *)
ProcessComplete(r) ==
  /\ ~InCamera(r)
  /\ Goes(r, "body", "end")
  /\ IF status[r] = "Cancelled" THEN UNCHANGED camera
     ELSE reuse(r) /\ queueRequest(r, "Pending", main # "start")
  /\ UNCHANGED <<main, todo, connected, running, refused, spurious, unheard, misused>>

(* Publish a complete frame, reuse the request and queue it again.  Until  *)
(* it has been started the camera takes none.                              *)
Process(r) ==
  /\ ~InCamera(r)
  /\ Goes(r, "body", "end")
  /\ reuse(r) /\ queueRequest(r, "Pending", main # "start")
  /\ UNCHANGED <<main, todo, connected, running, refused, spurious, unheard, misused>>

Unlock(r) ==
  /\ Goes(r, "end", "lock")
  /\ UNCHANGED <<camera, main, todo, connected, running, refused, spurious, unheard, misused>>

Misuse(r) ==
  /\ ~misused /\ InCamera(r)
  /\ thread[r] = "body" \/ (main = "queue" /\ r \in todo)
  /\ misused' = TRUE
  /\ UNCHANGED <<camera, thread, main, todo, connected, running, refused, spurious, unheard>>

(* A condition variable may wake a thread of its own accord.               *)
SpuriousWake(r) ==
  /\ spurious < MaxSpurious
  /\ Goes(r, "waiting", "woken")
  /\ spurious' = spurious + 1
  /\ UNCHANGED <<camera, main, todo, connected, running, refused, unheard, misused>>
-----------------------------------------------------------------------------
(* libcamera's thread.                                                     *)
Pipeline(A) ==
  /\ ~misused
  /\ A
  /\ UNCHANGED <<thread, main, todo, connected, running, spurious, unheard, misused>>

Take     == Pipeline(doQueueRequest) /\ UNCHANGED refused
Refuse   == refused < MaxRefused /\ Pipeline(cancelRequest) /\ refused' = refused + 1
Frame    == Pipeline(checkRequestCompleted) /\ UNCHANGED refused
Complete == Pipeline(completeRequest(connected)) /\ UNCHANGED refused

(* The callback: take the mutex, which a thread at work holds, and notify. *)
Notified(r) == IF thread[r] = "waiting" THEN "woken" ELSE thread[r]

(* Mutant: one condition variable for all requests.                        *)
NotifyEveryThread ==
  /\ ~misused /\ Emitted
  /\ thread[emitted] \notin {"body", "end"}
  /\ thread' = [r \in Request |-> Notified(r)]
  /\ unheard' = IF thread[emitted] = "lock" THEN unheard \cup {emitted} ELSE unheard
  /\ UNCHANGED <<main, todo, connected, running, refused, spurious, misused>>

requestComplete ==
  /\ ~misused /\ Emitted
  /\ thread[emitted] \notin {"body", "end"}
  /\ thread' = [thread EXCEPT ![emitted] = Notified(emitted)]
  /\ unheard' = IF thread[emitted] = "lock" THEN unheard \cup {emitted} ELSE unheard
  /\ UNCHANGED <<main, todo, connected, running, refused, spurious, misused>>
-----------------------------------------------------------------------------
(* The rest of the constructor, then the destructor.                       *)
MainGoes(from, to) == ~misused /\ main = from /\ main' = to

Start ==
  /\ MainGoes("start", "queue")
  /\ todo' = Request
  /\ UNCHANGED <<camera, thread, connected, running, refused, spurious, unheard, misused>>

(* An exception leaves the constructor with its threads joinable.          *)
StartFails ==
  /\ MainGoes("start", "terminated")
  /\ thread' = [r \in Request |-> "gone"]
  /\ UNCHANGED <<camera, todo, connected, running, refused, spurious, unheard, misused>>

QueueFirst ==
  /\ ~misused /\ main = "queue"
  /\ \E r \in todo : /\ ~InCamera(r)
                     /\ queueRequest(r, status[r], TRUE)
                     /\ todo' = todo \ {r}
  /\ UNCHANGED <<status, thread, main, connected, running, refused, spurious, unheard, misused>>

Constructed ==
  /\ MainGoes("queue", "alive") /\ todo = {}
  /\ UNCHANGED <<camera, thread, todo, connected, running, refused, spurious, unheard, misused>>

Disconnect ==
  /\ MainGoes("alive", "disconnected")
  /\ connected' = FALSE
  /\ UNCHANGED <<camera, thread, todo, running, refused, spurious, unheard, misused>>

NotRunning ==
  /\ MainGoes("disconnected", "notify")
  /\ running' = FALSE /\ todo' = Request
  /\ UNCHANGED <<camera, thread, connected, refused, spurious, unheard, misused>>

(* notify_all, without the mutex.                                          *)
NotifyAll ==
  /\ ~misused /\ main = "notify"
  /\ \E r \in todo : /\ todo' = todo \ {r}
                     /\ thread' = [thread EXCEPT ![r] = Notified(r)]
  /\ UNCHANGED <<camera, main, connected, running, refused, spurious, unheard, misused>>

Unlocked ==
  /\ MainGoes("notify", "join") /\ todo = {}
  /\ UNCHANGED <<camera, thread, todo, connected, running, refused, spurious, unheard, misused>>

Joined ==
  /\ MainGoes("join", "stop")
  /\ \A r \in Request : thread[r] = "gone"
  /\ UNCHANGED <<camera, thread, todo, connected, running, refused, spurious, unheard, misused>>

Stop ==
  /\ MainGoes("stop", "done")
  /\ stop
  /\ UNCHANGED <<thread, todo, connected, running, refused, spurious, unheard, misused>>
-----------------------------------------------------------------------------
Thread(r) == Wait(r) \/ Wake(r) \/ Process(r) \/ Misuse(r) \/ Unlock(r)

Destruct == NotRunning \/ NotifyAll \/ Unlocked \/ Joined \/ Stop

Next == \/ \E r \in Request : Thread(r) \/ SpuriousWake(r)
        \/ Take \/ Refuse \/ Frame \/ Complete \/ requestComplete
        \/ Start \/ StartFails \/ QueueFirst \/ Constructed
        \/ Disconnect \/ Destruct

Spec == Init /\ [][Next]_vars

(* All threads are scheduled, and the sensor delivers frames.              *)
Fairness ==
  /\ \A r \in Request : WF_vars(Thread(r))
  /\ WF_vars(Take) /\ WF_vars(Frame) /\ WF_vars(Complete) /\ WF_vars(requestComplete)
  /\ WF_vars(QueueFirst) /\ WF_vars(Constructed) /\ WF_vars(Destruct)

FairSpec == Spec /\ Fairness
-----------------------------------------------------------------------------
(* A thread copies the frame out of its buffer and queues it again only    *)
(* while the camera has let go of it, unless a wait ended by itself: the   *)
(* notification, the mutex and the status are all that keeps the two       *)
(* apart, over any number of rounds and through a shutdown.                *)
BufferExclusive ==
  spurious = 0 => /\ ~misused
                  /\ \A r \in Request : thread[r] = "body" => ~InCamera(r)

(* What completes is at the head of both queues, that of the camera and    *)
(* that of the device, although requests the device refused are only in    *)
(* the first: the device's queue is what is pending of the camera's, in    *)
(* the same order.  libcamera aborts when they come apart.                 *)
IsPending(r) == status[r] = "Pending"
QueuesAgree ==
  /\ Range(device) = {r \in Range(queued) : IsPending(r)}
  /\ \A i, j \in DOMAIN queued, k, l \in DOMAIN device :
       queued[i] = device[k] /\ queued[j] = device[l] => (i < j <=> k < l)

(* Every request that the camera completes comes round again and again,    *)
(* published by its thread, until the node is destroyed or its thread, not *)
(* yet back at its wait, does not hear a notification: no other order of   *)
(* the threads' steps takes a buffer out of circulation.                   *)
Shown(r) == thread[r] = "body" /\ status[r] = "Complete"
Circulates ==
  \A r \in Request :
    main = "alive" ~> Shown(r) \/ r \in unheard \/ main # "alive" \/ misused

(* So a request whose thread has heard every notification is never in      *)
(* nobody's hands while the node lives: the camera has it, or its          *)
(* completion is being told, or its thread is about to work on it.         *)
Accounted ==
  main = "alive" =>
    \A r \in Request :
      r \in unheard \/ InCamera(r) \/ emitted = r \/ thread[r] \in {"woken", "body"}

(* The destructor ends if each thread was at its wait when it notified     *)
(* them, or has been woken since; "unlock all threads" is not enough for a *)
(* thread at work, which goes back to a wait that nothing ends.            *)
Awake(r) == thread[r] \in {"woken", "gone"}
ShutdownEnds == main = "join" /\ (\A r \in Request : Awake(r)) ~> main = "done"

(* Otherwise it hangs for good: with nobody connected, no completion being *)
(* told and no wait ending by itself, main waits for a thread that only    *)
(* main would wake.                                                        *)
Hung(r) ==
  /\ main = "join" /\ thread[r] = "waiting"
  /\ emitted = None /\ spurious = MaxSpurious
HangsForGood == [][\A r \in Request : Hung(r) => Hung(r)']_vars

(* Once the destructor is through, and the requests, mutexes and mapped    *)
(* buffers are gone, libcamera holds none of them and calls back no more.  *)
AllReturned ==
  main = "done" => /\ \A r \in Request : ~InCamera(r) /\ thread[r] = "gone"
                   /\ device = <<>> /\ emitted = None
=============================================================================
