-------------------------- MODULE PipelineHandler ---------------------------
(***************************************************************************)
(* libcamera as camera_ros meets it: the requests, the queues of the       *)
(* camera's pipeline handler and of the Raspberry Pi's one, and the        *)
(* pipeline handler's thread, which takes requests, has them filled in     *)
(* order, and emits requestCompleted.                                      *)
(*                                                                         *)
(* Requests have no fences and there are fewer of them than the 32 a       *)
(* device takes (pipeline_handler.h:37), so none is left waiting: what is  *)
(* posted to the thread goes on to the device as it is taken.              *)
(***************************************************************************)
EXTENDS Sequences, Functions

CONSTANTS
  Request,   \* the requests, each with its buffer
  None       \* no request

ASSUME NoneAssumption == None \notin Request

VARIABLES
  status,    \* Request::status_
  inbox,     \* requests posted to the pipeline handler's thread
  queued,    \* Camera::Private::queuedRequests_
  device,    \* CameraData::requestQueue_: those whose buffers are to be filled
  emitted    \* the request whose completion the thread tells the application

camera == <<status, inbox, queued, device, emitted>>

Status == {"Pending", "Complete", "Cancelled"}

InCamera(r) == r \in Range(inbox) \cup Range(queued)

CameraInit ==
  /\ status = [r \in Request |-> "Pending"]
  /\ inbox = <<>> /\ queued = <<>> /\ device = <<>> /\ emitted = None

(* The application makes a request pending again.                          *)
reuse(r) == status' = [status EXCEPT ![r] = "Pending"]

(* Camera::queueRequest, called by the application when r's status is s:   *)
(* it is refused unless the camera runs and the request is pending.        *)
queueRequest(r, s, isRunning) ==
  /\ inbox' = IF isRunning /\ s = "Pending" THEN Append(inbox, r) ELSE inbox
  /\ UNCHANGED <<queued, device, emitted>>
-----------------------------------------------------------------------------
(* The pipeline handler's thread.  Requests complete in the order in which *)
(* they were queued: one that is cancelled early waits for those before.   *)
Completed == queued # <<>> /\ status[Head(queued)] # "Pending"

Idle == emitted = None /\ ~Completed

doQueueRequest ==
  /\ Idle /\ inbox # <<>>
  /\ inbox' = Tail(inbox)
  /\ queued' = Append(queued, Head(inbox))
  /\ device' = Append(device, Head(inbox))
  /\ UNCHANGED <<status, emitted>>

(* Mutant: a request that the device refused stays in the device's queue.  *)
CancelQueued ==
  /\ Idle /\ inbox # <<>>
  /\ inbox' = Tail(inbox)
  /\ queued' = Append(queued, Head(inbox))
  /\ device' = Append(device, Head(inbox))
  /\ status' = [status EXCEPT ![Head(inbox)] = "Cancelled"]
  /\ UNCHANGED emitted

(* The device does not take the request's buffer.                          *)
cancelRequest ==
  /\ Idle /\ inbox # <<>>
  /\ inbox' = Tail(inbox)
  /\ queued' = Append(queued, Head(inbox))
  /\ status' = [status EXCEPT ![Head(inbox)] = "Cancelled"]
  /\ UNCHANGED <<device, emitted>>

checkRequestCompleted ==
  /\ Idle /\ device # <<>>
  /\ status' = [status EXCEPT ![Head(device)] = "Complete"]
  /\ device' = Tail(device)
  /\ UNCHANGED <<inbox, queued, emitted>>

(* requestCompleted goes to the slots there are now.                       *)
completeRequest(connected) ==
  /\ emitted = None /\ Completed
  /\ queued' = Tail(queued)
  /\ emitted' = IF connected THEN Head(queued) ELSE None
  /\ UNCHANGED <<status, inbox, device>>

Emitted ==
  /\ emitted # None
  /\ emitted' = None
  /\ UNCHANGED <<status, inbox, queued, device>>

(* Mutant: stop overtakes what has been posted.                            *)
StopAtOnce ==
  /\ Idle
  /\ status' = [r \in Request |-> IF r \in Range(queued) THEN "Cancelled" ELSE status[r]]
  /\ queued' = <<>> /\ device' = <<>>
  /\ UNCHANGED <<inbox, emitted>>

(* Camera::stop waits for this; what was posted before is taken before,    *)
(* and with nobody connected all requests are cancelled at once.           *)
stop ==
  /\ Idle /\ inbox = <<>>
  /\ status' = [r \in Request |-> IF r \in Range(queued) THEN "Cancelled" ELSE status[r]]
  /\ queued' = <<>> /\ device' = <<>>
  /\ UNCHANGED <<inbox, emitted>>
=============================================================================
