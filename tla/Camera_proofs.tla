---------------------------- MODULE Camera_proofs ----------------------------
(***************************************************************************)
(* Proofs about the camera: CameraNode, for any set of requests and any    *)
(* number of refused buffers and spurious wake-ups, and CameraControls,    *)
(* for any set of requests, exposure times and changes of the parameters.  *)
(***************************************************************************)
EXTENDS CameraNode, CameraControls, TLAPS

USE DEF Goes, MainGoes, Pipeline, ThreadAt, MainAt

Threads == [Request -> ThreadAt]

LEMMA ThreadType ==
  ASSUME thread \in Threads, NEW r \in Request, NEW p \in ThreadAt
  PROVE  [thread EXCEPT ![r] = p] \in Threads
BY DEF Threads

LEMMA NotifiedType ==
  ASSUME thread \in Threads, NEW r \in Request
  PROVE  Notified(r) \in ThreadAt
BY DEF Threads, Notified

LEMMA TypeInit == Init => TypeOK
<1> SUFFICES ASSUME Init PROVE TypeOK
  OBVIOUS
<1>1. status \in [Request -> Status] /\ thread \in [Request -> ThreadAt]
  BY DEF Init, CameraInit, Status
<1>2. <<>> \in Seq(Request)
  OBVIOUS
<1>3. inbox \in Seq(Request) /\ queued \in Seq(Request) /\ device \in Seq(Request)
  BY <1>2 DEF Init, CameraInit
<1>4. refused \in 0..MaxRefused /\ spurious \in 0..MaxSpurious
  BY CameraNodeAssumption DEF Init
<1> QED BY <1>1, <1>3, <1>4 DEF Init, CameraInit, TypeOK

(* What the camera's steps keep of it.                                     *)
CameraType ==
  /\ status \in [Request -> Status] /\ emitted \in Request \cup {None}
  /\ inbox \in Seq(Request) /\ queued \in Seq(Request) /\ device \in Seq(Request)

LEMMA ReuseType ==
  ASSUME CameraType, NEW r \in Request, reuse(r) \/ UNCHANGED status
  PROVE  status' \in [Request -> Status]
BY DEF CameraType, reuse, Status

LEMMA QueueType ==
  ASSUME CameraType, NEW r \in Request, NEW s, NEW b \in BOOLEAN, queueRequest(r, s, b),
         reuse(r) \/ UNCHANGED status
  PROVE  CameraType'
<1>1. status' \in [Request -> Status]
  BY ReuseType
<1>2. inbox' \in Seq(Request)
  BY DEF CameraType, queueRequest
<1> QED BY <1>1, <1>2 DEF CameraType, queueRequest

LEMMA PipelineType ==
  ASSUME CameraType,
         \/ doQueueRequest \/ cancelRequest \/ checkRequestCompleted
         \/ completeRequest(connected) \/ Emitted \/ stop
  PROVE  CameraType'
<1> USE DEF CameraType
<1>1. CASE doQueueRequest
  BY <1>1 DEF doQueueRequest
<1>2. CASE cancelRequest
  <2>1. status' \in [Request -> Status]
    BY <1>2 DEF cancelRequest, Status
  <2> QED BY <1>2, <2>1 DEF cancelRequest
<1>3. CASE checkRequestCompleted
  <2>1. status' \in [Request -> Status]
    BY <1>3 DEF checkRequestCompleted, Status
  <2> QED BY <1>3, <2>1 DEF checkRequestCompleted
<1>4. CASE completeRequest(connected)
  BY <1>4 DEF completeRequest, Completed
<1>5. CASE Emitted
  BY <1>5 DEF Emitted
<1>6. CASE stop
  <2>1. status' \in [Request -> Status]
    BY <1>6 DEF stop, Status
  <2> QED BY <1>6, <2>1 DEF stop
<1> QED BY <1>1, <1>2, <1>3, <1>4, <1>5, <1>6

LEMMA TypeStep == TypeOK /\ [Next]_vars => TypeOK'
<1> SUFFICES ASSUME TypeOK, [Next]_vars PROVE TypeOK'
  OBVIOUS
<1> DEFINE NodeType ==
      /\ thread \in Threads /\ main \in MainAt /\ todo \subseteq Request
      /\ connected \in BOOLEAN /\ running \in BOOLEAN /\ misused \in BOOLEAN
      /\ refused \in 0..MaxRefused /\ spurious \in 0..MaxSpurious
      /\ unheard \subseteq Request
<1>1. CameraType /\ NodeType
  BY DEF TypeOK, CameraType, Threads
<1>2. CameraType' /\ NodeType' => TypeOK'
  BY DEF TypeOK, CameraType, Threads
<1>3. UNCHANGED camera => CameraType'
  BY <1>1 DEF CameraType, camera
<1>4. ASSUME NEW r \in Request, NEW p \in ThreadAt,
             thread' = [thread EXCEPT ![r] = p] \/ UNCHANGED thread,
             UNCHANGED <<main, todo, connected, running, refused, unheard>>,
             misused' \in BOOLEAN, spurious' \in 0..MaxSpurious
      PROVE  NodeType'
  BY <1>1, <1>4, ThreadType
<1>5. ASSUME UNCHANGED <<thread, connected, refused, spurious, unheard, misused>>,
             main' \in MainAt, todo' \subseteq Request, running' \in BOOLEAN
      PROVE  NodeType'
  BY <1>1, <1>5
<1>6. CASE \E r \in Request : Thread(r) \/ SpuriousWake(r)
  <2> PICK r \in Request : Thread(r) \/ SpuriousWake(r)
    BY <1>6
  <2>1. CASE Wait(r)
    BY <2>1, <1>1, <1>2, <1>3, <1>4 DEF Wait
  <2>2. CASE Wake(r)
    <3> DEFINE p == IF running THEN "body" ELSE "gone"
    <3>1. p \in ThreadAt
      OBVIOUS
    <3>2. thread' = [thread EXCEPT ![r] = p]
      BY <2>2 DEF Wake
    <3>3. /\ UNCHANGED <<camera, main, todo, connected, running, refused, spurious,
                         unheard, misused>>
      BY <2>2 DEF Wake
    <3> QED BY <3>1, <3>2, <3>3, <1>1, <1>2, <1>3, <1>4
  <2>3. CASE Process(r)
    <3>1. CameraType'
      BY <2>3, <1>1, QueueType DEF Process
    <3>2. NodeType'
      BY <2>3, <1>1, <1>4 DEF Process
    <3> QED BY <3>1, <3>2, <1>2
  <2>4. CASE Misuse(r)
    BY <2>4, <1>1, <1>2, <1>3, <1>4 DEF Misuse
  <2>5. CASE Unlock(r)
    BY <2>5, <1>1, <1>2, <1>3, <1>4 DEF Unlock
  <2>6. CASE SpuriousWake(r)
    <3>1. spurious' \in 0..MaxSpurious
      BY <2>6, <1>1, CameraNodeAssumption DEF SpuriousWake
    <3> QED BY <3>1, <2>6, <1>1, <1>2, <1>3, <1>4 DEF SpuriousWake
  <2> QED BY <2>1, <2>2, <2>3, <2>4, <2>5, <2>6 DEF Thread
<1>7. CASE Take \/ Refuse \/ Frame \/ Complete
  <2>1. CameraType'
    BY <1>7, <1>1, PipelineType DEF Take, Refuse, Frame, Complete
  <2>2. refused' \in 0..MaxRefused
    BY <1>7, <1>1, CameraNodeAssumption DEF Take, Refuse, Frame, Complete
  <2>3. UNCHANGED <<thread, main, todo, connected, running, spurious, unheard, misused>>
    BY <1>7 DEF Take, Refuse, Frame, Complete
  <2> QED BY <2>1, <2>2, <2>3, <1>1, <1>2
<1>8. CASE requestComplete
  <2>1. CameraType'
    BY <1>8, <1>1, PipelineType DEF requestComplete
  <2>2. emitted \in Request
    BY <1>8, <1>1 DEF requestComplete, Emitted, CameraType
  <2>3. thread' \in Threads
    BY <1>8, <2>2, <1>1, ThreadType, NotifiedType DEF requestComplete
  <2>4. unheard' \subseteq Request
    BY <1>8, <2>2, <1>1 DEF requestComplete
  <2>5. UNCHANGED <<main, todo, connected, running, refused, spurious, misused>>
    BY <1>8 DEF requestComplete
  <2> QED BY <2>1, <2>3, <2>4, <2>5, <1>1, <1>2
<1>9. CASE Start \/ Constructed \/ NotRunning \/ Unlocked \/ Joined
  BY <1>9, <1>1, <1>2, <1>3, <1>5 DEF Start, Constructed, NotRunning, Unlocked, Joined
<1>10. CASE StartFails
  <2>1. thread' \in Threads
    BY <1>10 DEF StartFails, Threads
  <2> QED BY <2>1, <1>10, <1>1, <1>2, <1>3 DEF StartFails
<1>11. CASE QueueFirst
  <2>1. PICK r \in todo : queueRequest(r, status[r], TRUE) /\ todo' = todo \ {r}
    BY <1>11 DEF QueueFirst
  <2>2. CameraType'
    BY <2>1, <1>11, <1>1, QueueType DEF QueueFirst
  <2> QED BY <2>1, <2>2, <1>11, <1>1, <1>2, <1>5 DEF QueueFirst
<1>12. CASE Disconnect
  BY <1>12, <1>1, <1>2, <1>3 DEF Disconnect
<1>13. CASE NotifyAll
  <2>1. PICK r \in todo : /\ todo' = todo \ {r}
                          /\ thread' = [thread EXCEPT ![r] = Notified(r)]
    BY <1>13 DEF NotifyAll
  <2>2. thread' \in Threads
    BY <2>1, <1>1, ThreadType, NotifiedType
  <2> QED BY <2>1, <2>2, <1>13, <1>1, <1>2, <1>3 DEF NotifyAll
<1>14. CASE Stop
  <2>1. CameraType'
    BY <1>14, <1>1, PipelineType DEF Stop
  <2> QED BY <2>1, <1>14, <1>1, <1>2, <1>5 DEF Stop
<1>15. CASE UNCHANGED vars
  BY <1>15, <1>1, <1>2, <1>3 DEF vars, node
<1> QED BY <1>6, <1>7, <1>8, <1>9, <1>10, <1>11, <1>12, <1>13, <1>14, <1>15
       DEF Next, Destruct
-----------------------------------------------------------------------------
(* Sequences without repetition.                                           *)
Once(s) == \A i, j \in DOMAIN s : s[i] = s[j] => i = j

LEMMA AppendRange ==
  ASSUME NEW s \in Seq(Request), NEW e \in Request
  PROVE  /\ Range(Append(s, e)) = Range(s) \cup {e}
         /\ Once(s) /\ e \notin Range(s) => Once(Append(s, e))
<1> DEFINE t == Append(s, e)
<1>1. /\ DOMAIN s = 1..Len(s) /\ Len(s) \in Nat
      /\ DOMAIN t = 1..(Len(s) + 1) /\ t[Len(s) + 1] = e
      /\ \A i \in 1..Len(s) : t[i] = s[i]
  OBVIOUS
<1> HIDE DEF t
<1>2. Range(t) = Range(s) \cup {e}
  <2>1. ASSUME NEW x \in Range(t) PROVE x \in Range(s) \cup {e}
    <3> PICK i \in DOMAIN t : x = t[i]
      BY <2>1 DEF Range
    <3> QED BY <1>1 DEF Range
  <2>2. ASSUME NEW x \in Range(s) PROVE x \in Range(t)
    <3> PICK i \in DOMAIN s : x = s[i]
      BY <2>2 DEF Range
    <3> QED BY <1>1 DEF Range
  <2>3. e \in Range(t)
    BY <1>1 DEF Range
  <2> QED BY <2>1, <2>2, <2>3
<1>3. ASSUME Once(s), e \notin Range(s) PROVE Once(t)
  <2> SUFFICES ASSUME NEW i \in DOMAIN t, NEW j \in DOMAIN t, t[i] = t[j] PROVE i = j
    BY DEF Once
  <2>1. \A k \in DOMAIN s : s[k] # e
    BY <1>3 DEF Range
  <2> QED BY <1>1, <1>3, <2>1 DEF Once
<1> QED BY <1>2, <1>3 DEF t

LEMMA TailRange ==
  ASSUME NEW s \in Seq(Request), s # <<>>
  PROVE  /\ Head(s) \in Request
         /\ Range(s) = Range(Tail(s)) \cup {Head(s)}
         /\ Once(s) => Once(Tail(s)) /\ Head(s) \notin Range(Tail(s))
<1> DEFINE t == Tail(s)
           e == Head(s)
<1>1. /\ DOMAIN s = 1..Len(s) /\ Len(s) \in Nat \ {0} /\ e = s[1] /\ e \in Request
      /\ DOMAIN t = 1..(Len(s) - 1)
      /\ \A i \in 1..(Len(s) - 1) : t[i] = s[i + 1]
  OBVIOUS
<1> HIDE DEF t, e
<1>2. Range(s) = Range(t) \cup {e}
  <2>1. ASSUME NEW x \in Range(s) PROVE x \in Range(t) \cup {e}
    <3> PICK i \in DOMAIN s : x = s[i]
      BY <2>1 DEF Range
    <3>1. i = 1 \/ (i - 1 \in DOMAIN t /\ t[i - 1] = s[i])
      BY <1>1
    <3> QED BY <1>1, <3>1 DEF Range
  <2>2. ASSUME NEW x \in Range(t) PROVE x \in Range(s)
    <3> PICK i \in DOMAIN t : x = t[i]
      BY <2>2 DEF Range
    <3>1. i + 1 \in DOMAIN s /\ x = s[i + 1]
      BY <1>1
    <3> QED BY <3>1 DEF Range
  <2>3. e \in Range(s)
    BY <1>1 DEF Range
  <2> QED BY <2>1, <2>2, <2>3
<1>3. ASSUME Once(s) PROVE Once(t) /\ e \notin Range(t)
  <2>1. Once(t)
    <3> SUFFICES ASSUME NEW i \in DOMAIN t, NEW j \in DOMAIN t, t[i] = t[j] PROVE i = j
      BY DEF Once
    <3>1. i + 1 \in DOMAIN s /\ j + 1 \in DOMAIN s /\ s[i + 1] = s[j + 1]
      BY <1>1
    <3>2. i + 1 = j + 1
      BY <3>1, <1>3 DEF Once
    <3> QED BY <3>2, <1>1
  <2>2. ASSUME NEW i \in DOMAIN t, t[i] = e PROVE FALSE
    <3>1. i + 1 \in DOMAIN s /\ 1 \in DOMAIN s /\ s[i + 1] = s[1]
      BY <1>1, <2>2
    <3>2. i + 1 = 1
      BY <3>1, <1>3 DEF Once
    <3> QED BY <3>2, <1>1
  <2> QED BY <2>1, <2>2 DEF Range
<1> QED BY <1>1, <1>2, <1>3 DEF t, e
-----------------------------------------------------------------------------
(* What each step does to the set of requests in the camera.               *)
InTheCamera == Range(inbox) \cup Range(queued)

Apart == Once(inbox) /\ Once(queued) /\ Range(inbox) \cap Range(queued) = {}

LEMMA QueueSets ==
  ASSUME CameraType, Apart, NEW r \in Request, r \notin InTheCamera,
         NEW s, NEW b \in BOOLEAN, queueRequest(r, s, b)
  PROVE  /\ Apart' /\ emitted' = emitted
         /\ InTheCamera' \subseteq InTheCamera \cup {r}
<1>1. inbox' = inbox \/ inbox' = Append(inbox, r)
  BY DEF queueRequest
<1>2. queued' = queued /\ emitted' = emitted
  BY DEF queueRequest
<1>3. Range(Append(inbox, r)) = Range(inbox) \cup {r} /\ Once(Append(inbox, r))
  BY AppendRange DEF CameraType, Apart, InTheCamera
<1>4. (Range(inbox))' = Range(inbox) \/ (Range(inbox))' = Range(inbox) \cup {r}
  BY <1>1, <1>3
<1>5. (Range(queued))' = Range(queued) /\ (Once(queued))' /\ (Once(inbox))'
  BY <1>1, <1>2, <1>3 DEF Apart
<1> QED BY <1>2, <1>4, <1>5 DEF Apart, InTheCamera

LEMMA TakeSets ==
  ASSUME CameraType, Apart, doQueueRequest \/ cancelRequest
  PROVE  Apart' /\ emitted' = emitted /\ InTheCamera' = InTheCamera
<1>1. /\ inbox # <<>> /\ inbox' = Tail(inbox)
      /\ queued' = Append(queued, Head(inbox)) /\ emitted' = emitted
  BY DEF doQueueRequest, cancelRequest
<1>2. /\ Head(inbox) \in Request
      /\ Range(inbox) = Range(Tail(inbox)) \cup {Head(inbox)}
      /\ Once(Tail(inbox)) /\ Head(inbox) \notin Range(Tail(inbox))
  BY <1>1, TailRange DEF CameraType, Apart
<1>3. Head(inbox) \notin Range(queued)
  BY <1>2 DEF Apart
<1>4. /\ Range(Append(queued, Head(inbox))) = Range(queued) \cup {Head(inbox)}
      /\ Once(Append(queued, Head(inbox)))
  BY <1>2, <1>3, AppendRange DEF CameraType, Apart
<1>5. /\ (Range(inbox))' = Range(Tail(inbox)) /\ (Once(inbox))'
      /\ (Range(queued))' = Range(queued) \cup {Head(inbox)} /\ (Once(queued))'
  BY <1>1, <1>2, <1>4
<1> QED BY <1>1, <1>2, <1>3, <1>5 DEF Apart, InTheCamera

LEMMA CompleteSets ==
  ASSUME CameraType, Apart, NEW b \in BOOLEAN, completeRequest(b)
  PROVE  /\ Apart' /\ InTheCamera' \subseteq InTheCamera
         /\ emitted' = None \/ (emitted' \in InTheCamera /\ emitted' \notin InTheCamera')
<1>1. /\ queued # <<>> /\ queued' = Tail(queued) /\ inbox' = inbox
      /\ emitted' = None \/ emitted' = Head(queued)
  BY DEF completeRequest, Completed
<1>2. /\ Range(queued) = Range(Tail(queued)) \cup {Head(queued)}
      /\ Once(Tail(queued)) /\ Head(queued) \notin Range(Tail(queued))
  BY <1>1, TailRange DEF CameraType, Apart
<1>3. /\ (Range(inbox))' = Range(inbox) /\ (Once(inbox))'
      /\ (Range(queued))' = Range(Tail(queued)) /\ (Once(queued))'
  BY <1>1, <1>2 DEF Apart
<1> QED BY <1>1, <1>2, <1>3 DEF Apart, InTheCamera

LEMMA OtherSets ==
  ASSUME Apart, checkRequestCompleted \/ Emitted \/ stop \/ UNCHANGED <<inbox, queued, emitted>>
  PROVE  /\ Apart' /\ InTheCamera' \subseteq InTheCamera
         /\ emitted' = emitted \/ emitted' = None
<1>1. /\ inbox' = inbox /\ (queued' = queued \/ queued' = <<>>)
      /\ emitted' = emitted \/ emitted' = None
  BY DEF checkRequestCompleted, Emitted, stop
<1>2. Range(<<>>) = {} /\ Once(<<>>)
  BY DEF Range, Once
<1>3. /\ (Range(inbox))' = Range(inbox) /\ (Once(inbox))' /\ (Once(queued))'
      /\ (Range(queued))' = Range(queued) \/ (Range(queued))' = {}
  BY <1>1, <1>2 DEF Apart
<1> QED BY <1>1, <1>3 DEF Apart, InTheCamera
-----------------------------------------------------------------------------
(* BufferExclusive is not inductive: a thread comes to its work by a       *)
(* notification, so what has to hold is that a request is out of the       *)
(* camera, and its completion no longer to be told, from the notification  *)
(* on; that the notified one has left the camera; and that requests still  *)
(* to be queued by the constructor have not been touched.                  *)
Free(r) == r \notin InTheCamera /\ emitted # r

Working(r) == thread[r] = "body" \/ (thread[r] = "woken" /\ running)

Untouched(r) == main = "start" \/ (main = "queue" /\ r \in todo)

ThreadInv(r) ==
  /\ Working(r) => Free(r)
  /\ Untouched(r) => Free(r) /\ thread[r] \in {"lock", "waiting"}

ExclusiveInv ==
  /\ ~misused /\ Apart
  /\ emitted # None => emitted \notin InTheCamera
  /\ main = "notify" => ~running
  /\ \A r \in Request : ThreadInv(r)

LEMMA SameCamera == \A r : InCamera(r) <=> r \in InTheCamera
BY DEF InCamera, InTheCamera

LEMMA ExclusiveInit == Init => ExclusiveInv
<1> SUFFICES ASSUME Init PROVE ExclusiveInv
  OBVIOUS
<1>1. Range(<<>>) = {} /\ Once(<<>>)
  BY DEF Range, Once
<1>2. Apart /\ InTheCamera = {}
  BY <1>1 DEF Init, CameraInit, Apart, InTheCamera
<1>3. \A r \in Request : ThreadInv(r)
  BY <1>2, NoneAssumption DEF Init, CameraInit, ThreadInv, Working, Untouched, Free
<1> QED BY <1>2, <1>3 DEF Init, CameraInit, ExclusiveInv

(* A step of the camera that lets requests go, and no thread takes part.   *)
LEMMA LetGo ==
  ASSUME ExclusiveInv, Apart', ~misused',
         InTheCamera' \subseteq InTheCamera,
         \/ emitted' = emitted \/ emitted' = None
         \/ emitted' \in InTheCamera /\ emitted' \notin InTheCamera',
         main' = main \/ main' = "done",
         UNCHANGED <<thread, todo, running>>
  PROVE  ExclusiveInv'
<1>1. ASSUME NEW r \in Request PROVE ThreadInv(r)'
  <2>1. ThreadInv(r)
    BY DEF ExclusiveInv
  <2>2. Free(r) => Free(r)'
    BY NoneAssumption DEF Free
  <2> QED BY <2>1, <2>2 DEF ThreadInv, Working, Untouched
<1> QED BY <1>1 DEF ExclusiveInv

(* Steps in which the camera and its messages stay as they are.            *)
LEMMA NodeMoves ==
  ASSUME ExclusiveInv, UNCHANGED camera, ~misused',
         main' = "notify" => ~running',
         \A r \in Request : ThreadInv(r)'
  PROVE  ExclusiveInv'
BY DEF ExclusiveInv, Apart, InTheCamera, camera

LEMMA ExclusiveStep ==
  ASSUME TypeOK, spurious = 0 => ExclusiveInv, [Next]_vars
  PROVE  (spurious = 0 => ExclusiveInv)'
<1>0. spurious \in Nat /\ CameraType /\ thread \in Threads
  BY CameraNodeAssumption DEF TypeOK, CameraType, Threads
<1>1. CASE \E r \in Request : SpuriousWake(r)
  BY <1>0, <1>1 DEF SpuriousWake
<1>2. CASE spurious # 0
  <2>1. spurious' = spurious \/ \E r \in Request : SpuriousWake(r)
    BY DEF Next, Thread, Wait, Wake, Process, Misuse, Unlock, Take, Refuse, Frame, Complete,
           requestComplete, Start, StartFails, QueueFirst, Constructed, Disconnect,
           Destruct, NotRunning, NotifyAll, Unlocked, Joined, Stop, vars, node
  <2> QED BY <1>1, <1>2, <2>1
<1> SUFFICES ASSUME spurious = 0, ~(\E r \in Request : SpuriousWake(r)) PROVE ExclusiveInv'
  BY <1>1, <1>2
<1>3. ExclusiveInv
  OBVIOUS
<1>4. \A r \in Request : ThreadInv(r)
  BY <1>3 DEF ExclusiveInv
<1>5. UNCHANGED camera => \A r : Free(r)' <=> Free(r)
  BY DEF Free, InTheCamera, camera
<1>6. ASSUME NEW r \in Request, Thread(r) PROVE ExclusiveInv'
  <2>1. CASE Wait(r)
    <3>1. \A q \in Request : ThreadInv(q)'
      BY <2>1, <1>0, <1>4, <1>5 DEF Wait, ThreadInv, Working, Untouched, Threads
    <3> QED BY <3>1, <2>1, <1>3, NodeMoves DEF Wait, ExclusiveInv
  <2>2. CASE Wake(r)
    <3>1. \A q \in Request : q # r => thread'[q] = thread[q]
      BY <2>2, <1>0 DEF Wake, Threads
    <3>2. thread[r] = "woken" /\ (thread'[r] = "gone" \/ (running /\ thread'[r] = "body"))
      BY <2>2, <1>0 DEF Wake, Threads
    <3>3. \A q \in Request : ThreadInv(q)'
      BY <2>2, <3>1, <3>2, <1>4, <1>5 DEF Wake, ThreadInv, Working, Untouched
    <3> QED BY <3>3, <2>2, <1>3, NodeMoves DEF Wake, ExclusiveInv
  <2>3. CASE Process(r)
    <3>1. /\ thread[r] = "body" /\ thread' = [thread EXCEPT ![r] = "end"]
          /\ queueRequest(r, "Pending", main # "start")
          /\ UNCHANGED <<main, todo, running, misused>>
      BY <2>3 DEF Process
    <3>2. Free(r) /\ ~Untouched(r)
      BY <3>1, <1>4 DEF ThreadInv, Working
    <3>3. Apart' /\ emitted' = emitted /\ InTheCamera' \subseteq InTheCamera \cup {r}
      BY <3>1, <3>2, <1>0, <1>3, QueueSets DEF Free, ExclusiveInv
    <3>4. ASSUME NEW q \in Request PROVE ThreadInv(q)'
      <4>1. CASE q = r
        BY <4>1, <3>1, <3>2, <1>0 DEF ThreadInv, Working, Untouched, Threads
      <4>2. CASE q # r
        BY <4>2, <3>1, <3>3, <1>0, <1>4 DEF ThreadInv, Working, Untouched, Free, Threads
      <4> QED BY <4>1, <4>2
    <3>5. emitted' # None => emitted' \notin InTheCamera'
      BY <3>2, <3>3, <1>3 DEF Free, ExclusiveInv
    <3> QED BY <3>1, <3>3, <3>4, <3>5, <1>3 DEF ExclusiveInv
  <2>4. CASE Misuse(r)
    <3>1. thread[r] = "body" \/ (main = "queue" /\ r \in todo)
      BY <2>4 DEF Misuse
    <3>2. Free(r)
      BY <3>1, <1>4 DEF ThreadInv, Working, Untouched
    <3> QED BY <2>4, <3>2, SameCamera DEF Misuse, Free
  <2>5. CASE Unlock(r)
    <3>1. \A q \in Request : ThreadInv(q)'
      BY <2>5, <1>0, <1>4, <1>5 DEF Unlock, ThreadInv, Working, Untouched, Threads
    <3> QED BY <3>1, <2>5, <1>3, NodeMoves DEF Unlock, ExclusiveInv
  <2> QED BY <1>6, <2>1, <2>2, <2>3, <2>4, <2>5 DEF Thread
<1>7. CASE Take \/ Refuse
  BY <1>7, <1>0, <1>3, TakeSets, LetGo DEF Take, Refuse, ExclusiveInv
<1>8. CASE Frame
  BY <1>8, <1>3, OtherSets, LetGo DEF Frame, ExclusiveInv
<1>9. CASE Complete
  <2>1. connected \in BOOLEAN
    BY DEF TypeOK
  <2> QED BY <1>9, <2>1, <1>0, <1>3, CompleteSets, LetGo DEF Complete, ExclusiveInv
<1>10. CASE requestComplete
  <2>1. /\ emitted \in Request /\ emitted' = None
        /\ UNCHANGED <<inbox, queued, main, todo, running, misused>>
    BY <1>10, <1>0 DEF requestComplete, Emitted, CameraType
  <2>2. Apart' /\ InTheCamera' = InTheCamera
    BY <2>1, <1>3 DEF Apart, InTheCamera, ExclusiveInv
  <2>3. ASSUME NEW q \in Request PROVE ThreadInv(q)'
    <3>1. CASE q = emitted
      <4>1. Free(q)'
        BY <3>1, <2>1, <2>2, <1>3, NoneAssumption DEF Free, ExclusiveInv
      <4>2. ~Untouched(q)
        BY <3>1, <1>4 DEF ThreadInv, Free
      <4> QED BY <4>1, <4>2, <2>1 DEF ThreadInv, Untouched
    <3>2. CASE q # emitted
      <4>1. thread'[q] = thread[q]
        BY <3>2, <1>10, <2>1, <1>0 DEF requestComplete, Threads
      <4>2. Free(q) => Free(q)'
        BY <2>1, <2>2, NoneAssumption DEF Free
      <4> QED BY <4>1, <4>2, <2>1, <1>4 DEF ThreadInv, Working, Untouched
    <3> QED BY <3>1, <3>2
  <2> QED BY <2>1, <2>2, <2>3, <1>3 DEF ExclusiveInv
<1>11. CASE Start \/ Constructed \/ Disconnect \/ NotRunning \/ Unlocked \/ Joined
  <2>1. \A q \in Request : ThreadInv(q)'
    BY <1>11, <1>4, <1>5 DEF Start, Constructed, Disconnect, NotRunning, Unlocked, Joined,
                             ThreadInv, Working, Untouched
  <2>2. /\ UNCHANGED <<camera, misused>> /\ (main' = "notify" => ~running')
    BY <1>11 DEF Start, Constructed, Disconnect, NotRunning, Unlocked, Joined
  <2> QED BY <2>1, <2>2, <1>3, NodeMoves DEF ExclusiveInv
<1>12. CASE StartFails
  <2>1. \A q \in Request : ThreadInv(q)'
    BY <1>12 DEF StartFails, ThreadInv, Working, Untouched
  <2>2. /\ UNCHANGED <<camera, misused>> /\ main' = "terminated"
    BY <1>12 DEF StartFails
  <2> QED BY <2>1, <2>2, <1>3, NodeMoves DEF ExclusiveInv
<1>13. CASE QueueFirst
  <2>1. PICK r \in todo : queueRequest(r, status[r], TRUE) /\ todo' = todo \ {r}
    BY <1>13 DEF QueueFirst
  <2>2. /\ r \in Request /\ main = "queue"
        /\ UNCHANGED <<thread, main, running, misused>>
    BY <1>13 DEF QueueFirst, TypeOK
  <2>3. Free(r) /\ thread[r] \in {"lock", "waiting"}
    BY <2>1, <2>2, <1>4 DEF ThreadInv, Untouched
  <2>4. Apart' /\ emitted' = emitted /\ InTheCamera' \subseteq InTheCamera \cup {r}
    BY <2>1, <2>2, <2>3, <1>0, <1>3, QueueSets DEF Free, ExclusiveInv
  <2>5. ASSUME NEW q \in Request PROVE ThreadInv(q)'
    <3>1. CASE q = r
      BY <3>1, <2>1, <2>2, <2>3 DEF ThreadInv, Working, Untouched
    <3>2. CASE q # r
      BY <3>2, <2>1, <2>2, <2>4, <1>4 DEF ThreadInv, Working, Untouched, Free
    <3> QED BY <3>1, <3>2
  <2>6. emitted' # None => emitted' \notin InTheCamera'
    BY <2>3, <2>4, <1>3 DEF Free, ExclusiveInv
  <2> QED BY <2>2, <2>4, <2>5, <2>6, <1>3 DEF ExclusiveInv
<1>14. CASE NotifyAll
  <2>1. PICK r \in todo : thread' = [thread EXCEPT ![r] = Notified(r)]
    BY <1>14 DEF NotifyAll
  <2>2. /\ main = "notify" /\ main' = main /\ running' = running /\ ~running
        /\ UNCHANGED <<camera, misused>>
    BY <1>14, <1>3 DEF NotifyAll, ExclusiveInv
  <2>3. ASSUME NEW q \in Request, thread'[q] = "body" PROVE thread[q] = "body"
    BY <2>1, <2>3, <1>0 DEF Notified, Threads
  <2>4. \A q \in Request : ThreadInv(q)'
    BY <2>2, <2>3, <1>4, <1>5 DEF ThreadInv, Working, Untouched
  <2> QED BY <2>2, <2>4, <1>3, NodeMoves DEF ExclusiveInv
<1>15. CASE Stop
  BY <1>15, <1>3, OtherSets, LetGo DEF Stop, ExclusiveInv
<1>16. CASE UNCHANGED vars
  <2>1. /\ UNCHANGED <<camera, inbox, queued, emitted, thread, main, todo, running, misused>>
    BY <1>16 DEF vars, node, camera
  <2> QED BY <2>1, <1>3, OtherSets, LetGo DEF ExclusiveInv
<1> QED BY <1>6, <1>7, <1>8, <1>9, <1>10, <1>11, <1>12, <1>13, <1>14, <1>15, <1>16
       DEF Next, Destruct

(* The destructor's end, once nobody is connected and all threads are gone.*)
Late == {"disconnected", "notify", "join", "stop", "done"}

ReturnedInv ==
  /\ main \in Late => ~connected
  /\ main \in {"stop", "done"} => \A r \in Request : thread[r] = "gone"
  /\ main = "done" => /\ inbox = <<>> /\ queued = <<>> /\ device = <<>>
                      /\ emitted = None

LEMMA ReturnedStep == TypeOK /\ ReturnedInv /\ [Next]_vars => ReturnedInv'
<1> SUFFICES ASSUME TypeOK, ReturnedInv, [Next]_vars PROVE ReturnedInv'
  OBVIOUS
<1> USE DEF ReturnedInv, Late
<1>0. thread \in Threads /\ CameraType
  BY DEF TypeOK, Threads, CameraType
<1>1. CASE \E r \in Request : Thread(r) \/ SpuriousWake(r)
  <2> PICK r \in Request : Thread(r) \/ SpuriousWake(r)
    BY <1>1
  <2>1. CASE Misuse(r)
    BY <2>1 DEF Misuse, camera
  <2>2. CASE (Thread(r) /\ ~Misuse(r)) \/ SpuriousWake(r)
    <3>1. thread[r] # "gone" /\ UNCHANGED <<main, connected>>
      BY <2>2 DEF Thread, Wait, Wake, Process, Unlock, SpuriousWake
    <3> QED BY <3>1
  <2> QED BY <2>1, <2>2
<1>2. CASE Take \/ Refuse \/ Frame \/ Complete
  <2>1. UNCHANGED <<thread, main, connected>>
    BY <1>2 DEF Take, Refuse, Frame, Complete
  <2>2. main # "done"
    BY <1>2 DEF Take, Refuse, Frame, Complete, doQueueRequest, cancelRequest,
                checkRequestCompleted, completeRequest, Completed
  <2> QED BY <2>1, <2>2
<1>3. CASE requestComplete
  <2>1. emitted \in Request /\ main # "done" /\ UNCHANGED <<main, connected>>
    BY <1>3, <1>0 DEF requestComplete, Emitted, CameraType
  <2>2. \A r \in Request : thread[r] = "gone" => thread'[r] = "gone"
    BY <1>3, <2>1, <1>0 DEF requestComplete, Notified, Threads
  <2> QED BY <2>1, <2>2
<1>4. CASE Start \/ Constructed \/ Disconnect \/ NotRunning \/ Unlocked \/ Joined
  BY <1>4 DEF Start, Constructed, Disconnect, NotRunning, Unlocked, Joined
<1>5. CASE StartFails
  BY <1>5 DEF StartFails
<1>6. CASE QueueFirst
  BY <1>6 DEF QueueFirst
<1>7. CASE NotifyAll
  BY <1>7 DEF NotifyAll
<1>8. CASE Stop
  <2>1. /\ main = "stop" /\ thread' = thread /\ connected' = connected
        /\ inbox' = <<>> /\ queued' = <<>> /\ device' = <<>> /\ emitted' = None
    BY <1>8 DEF Stop, stop, Idle
  <2> QED BY <2>1
<1>9. CASE UNCHANGED vars
  BY <1>9 DEF vars, camera, node
<1> QED BY <1>1, <1>2, <1>3, <1>4, <1>5, <1>6, <1>7, <1>8, <1>9 DEF Next, Destruct

LEMMA ReturnedEnough == ReturnedInv => AllReturned
BY DEF ReturnedInv, AllReturned, InCamera, Range
-----------------------------------------------------------------------------
(* The two queues agree since a request is queued once, and pending when   *)
(* it is posted, and nobody changes the status of one that is queued but   *)
(* the pipeline handler.                                                   *)
QueuesInv ==
  /\ Apart
  /\ \A r \in Range(inbox) : IsPending(r)
  /\ QueuesAgree

LEMMA QueuedRequests ==
  ASSUME CameraType
  PROVE  Range(inbox) \subseteq Request /\ Range(queued) \subseteq Request
BY DEF CameraType, Range

LEMMA StatusSet ==
  ASSUME CameraType, NEW e \in Request, NEW s, status' = [status EXCEPT ![e] = s]
  PROVE  /\ IsPending(e)' <=> s = "Pending"
         /\ \A r \in Request : r # e => (IsPending(r)' <=> IsPending(r))
<1>1. status'[e] = s /\ \A r \in Request : r # e => status'[r] = status[r]
  BY DEF CameraType
<1> QED BY <1>1 DEF IsPending

(* Both queues get the same request: its place is the last in both.        *)
LEMMA TakenAgrees ==
  ASSUME CameraType, QueuesInv, doQueueRequest
  PROVE  QueuesInv'
<1> DEFINE e == Head(inbox)
<1>1. /\ inbox # <<>> /\ inbox' = Tail(inbox) /\ queued' = Append(queued, e)
      /\ device' = Append(device, e) /\ status' = status
  BY DEF doQueueRequest
<1>2. /\ e \in Request /\ Range(inbox) = Range(Tail(inbox)) \cup {e} /\ e \notin Range(queued)
  BY <1>1, TailRange DEF CameraType, QueuesInv, Apart
<1>3. e \notin Range(device)
  BY <1>2 DEF QueuesInv, QueuesAgree
<1>4. /\ Range(Append(queued, e)) = Range(queued) \cup {e}
      /\ Range(Append(device, e)) = Range(device) \cup {e}
  BY <1>2, AppendRange DEF CameraType
<1> DEFINE q == Append(queued, e)
           d == Append(device, e)
<1>5. /\ DOMAIN queued = 1..Len(queued) /\ Len(queued) \in Nat
      /\ DOMAIN q = 1..(Len(queued) + 1) /\ q[Len(queued) + 1] = e
      /\ \A i \in 1..Len(queued) : q[i] = queued[i]
  BY <1>2 DEF CameraType
<1>6. /\ DOMAIN device = 1..Len(device) /\ Len(device) \in Nat
      /\ DOMAIN d = 1..(Len(device) + 1) /\ d[Len(device) + 1] = e
      /\ \A k \in 1..Len(device) : d[k] = device[k]
  BY <1>2 DEF CameraType
<1> HIDE DEF q, d, e
<1>7. \A i, j \in DOMAIN q, k, l \in DOMAIN d :
        q[i] = d[k] /\ q[j] = d[l] => (i < j <=> k < l)
  <2> SUFFICES ASSUME NEW i \in DOMAIN q, NEW j \in DOMAIN q,
                      NEW k \in DOMAIN d, NEW l \in DOMAIN d,
                      q[i] = d[k], q[j] = d[l]
               PROVE  i < j <=> k < l
    OBVIOUS
  <2>1. \A n \in DOMAIN queued : queued[n] # e
    BY <1>2 DEF Range
  <2>2. \A n \in DOMAIN device : device[n] # e
    BY <1>3 DEF Range
  <2>3. (i = Len(queued) + 1 <=> k = Len(device) + 1) /\ (j = Len(queued) + 1 <=> l = Len(device) + 1)
    BY <1>5, <1>6, <2>1, <2>2
  <2>4. CASE i # Len(queued) + 1 /\ j # Len(queued) + 1
    <3>1. /\ i \in DOMAIN queued /\ j \in DOMAIN queued /\ k \in DOMAIN device /\ l \in DOMAIN device
          /\ queued[i] = device[k] /\ queued[j] = device[l]
      BY <1>5, <1>6, <2>3, <2>4
    <3> QED BY <3>1 DEF QueuesInv, QueuesAgree
  <2>5. CASE i = Len(queued) + 1 \/ j = Len(queued) + 1
    BY <1>5, <1>6, <2>3, <2>5
  <2> QED BY <2>4, <2>5
<1>8. Apart'
  BY TakeSets DEF QueuesInv
<1>9. /\ (Range(queued))' = Range(q) /\ (Range(device))' = Range(d)
      /\ (Range(inbox))' = Range(Tail(inbox)) /\ queued' = q /\ device' = d
  BY <1>1 DEF q, d
<1>10. (Range(device))' = {r \in (Range(queued))' : IsPending(r)'}
  <2>1. \A r : IsPending(r)' <=> IsPending(r)
    BY <1>1 DEF IsPending
  <2>2. IsPending(e)
    BY <1>2 DEF QueuesInv
  <2> QED BY <1>4, <1>9, <2>1, <2>2 DEF QueuesInv, QueuesAgree, q, d
<1>11. \A r \in (Range(inbox))' : IsPending(r)'
  BY <1>1, <1>2, <1>9 DEF QueuesInv, IsPending
<1> QED BY <1>7, <1>8, <1>9, <1>10, <1>11 DEF QueuesInv, QueuesAgree

(* A refused request is queued, and no longer pending.                     *)
LEMMA RefusedAgrees ==
  ASSUME CameraType, QueuesInv, cancelRequest
  PROVE  QueuesInv'
<1>0. PICK e \in Request : inbox # <<>> /\ e = Head(inbox)
  <2>1. inbox # <<>>
    BY DEF cancelRequest
  <2> QED BY <2>1, TailRange DEF CameraType
<1>1. /\ inbox # <<>> /\ inbox' = Tail(inbox) /\ queued' = Append(queued, e)
      /\ device' = device /\ status' = [status EXCEPT ![e] = "Cancelled"]
  BY <1>0 DEF cancelRequest
<1>2. /\ e \in Request /\ Range(inbox) = Range(Tail(inbox)) \cup {e}
      /\ e \notin Range(Tail(inbox)) /\ e \notin Range(queued)
  BY <1>0, TailRange DEF CameraType, QueuesInv, Apart
<1>3. e \notin Range(device)
  BY <1>2 DEF QueuesInv, QueuesAgree
<1>4. Range(Append(queued, e)) = Range(queued) \cup {e}
  BY <1>2, AppendRange DEF CameraType
<1> DEFINE q == Append(queued, e)
<1>5. /\ DOMAIN queued = 1..Len(queued) /\ Len(queued) \in Nat
      /\ DOMAIN q = 1..(Len(queued) + 1) /\ q[Len(queued) + 1] = e
      /\ \A i \in 1..Len(queued) : q[i] = queued[i]
  BY <1>2 DEF CameraType
<1>6. \A r \in Request : r # e => (IsPending(r)' <=> IsPending(r))
  BY <1>1, <1>2, StatusSet, Zenon
<1>7. ~IsPending(e)'
  <2>1. status'[e] = "Cancelled"
    BY <1>0, <1>1 DEF CameraType
  <2> QED BY <2>1 DEF IsPending
<1> HIDE DEF q
<1>8. \A i, j \in DOMAIN q, k, l \in DOMAIN device :
        q[i] = device[k] /\ q[j] = device[l] => (i < j <=> k < l)
  <2> SUFFICES ASSUME NEW i \in DOMAIN q, NEW j \in DOMAIN q,
                      NEW k \in DOMAIN device, NEW l \in DOMAIN device,
                      q[i] = device[k], q[j] = device[l]
               PROVE  i < j <=> k < l
    OBVIOUS
  <2>1. device[k] # e /\ device[l] # e
    BY <1>3 DEF Range
  <2>2. /\ i \in DOMAIN queued /\ j \in DOMAIN queued
        /\ queued[i] = device[k] /\ queued[j] = device[l]
    BY <1>5, <2>1
  <2> QED BY <2>2 DEF QueuesInv, QueuesAgree
<1>9. Apart'
  BY TakeSets DEF QueuesInv
<1>10. /\ (Range(queued))' = Range(q) /\ (Range(device))' = Range(device)
       /\ (Range(inbox))' = Range(Tail(inbox)) /\ queued' = q /\ device' = device
  BY <1>1 DEF q
<1>11. (Range(device))' = {r \in (Range(queued))' : IsPending(r)'}
  <2>1. Range(q) = Range(queued) \cup {e}
    BY <1>4 DEF q
  <2>2. ASSUME NEW r PROVE r \in Range(device) <=> r \in Range(q) /\ IsPending(r)'
    <3>1. r \in Range(device) <=> r \in Range(queued) /\ IsPending(r)
      BY DEF QueuesInv, QueuesAgree
    <3> QED BY <1>2, <1>3, <1>6, <1>7, <2>1, <3>1, QueuedRequests, Zenon
  <2> QED BY <1>10, <2>2, Zenon
<1>12. \A r \in (Range(inbox))' : IsPending(r)'
  BY <1>2, <1>6, <1>10, QueuedRequests DEF QueuesInv
<1> QED BY <1>8, <1>9, <1>10, <1>11, <1>12 DEF QueuesInv, QueuesAgree

(* The head of the device's queue is pending no longer, and gone from it.  *)
LEMMA FrameAgrees ==
  ASSUME CameraType, QueuesInv, checkRequestCompleted
  PROVE  QueuesInv'
<1>0. PICK e \in Request : device # <<>> /\ e = Head(device)
  <2>1. device # <<>>
    BY DEF checkRequestCompleted
  <2> QED BY <2>1, TailRange DEF CameraType
<1> DEFINE d == Tail(device)
<1>1. /\ device # <<>> /\ device' = d /\ inbox' = inbox /\ queued' = queued
      /\ status' = [status EXCEPT ![e] = "Complete"]
  BY <1>0 DEF checkRequestCompleted
<1>2. e \in Request /\ Range(device) = Range(d) \cup {e}
  BY <1>0, TailRange DEF CameraType
<1>3. e \in Range(queued) /\ e \notin Range(inbox)
  BY <1>2 DEF QueuesInv, QueuesAgree, Apart
<1>4. /\ DOMAIN device = 1..Len(device) /\ Len(device) \in Nat \ {0} /\ e = device[1]
      /\ DOMAIN d = 1..(Len(device) - 1)
      /\ \A k \in 1..(Len(device) - 1) : d[k] = device[k + 1]
  BY <1>0, <1>1 DEF CameraType
<1>5. \A r \in Request : r # e => (IsPending(r)' <=> IsPending(r))
  BY <1>1, <1>2, StatusSet, Zenon
<1>6. ~IsPending(e)'
  <2>1. status'[e] = "Complete"
    BY <1>0, <1>1 DEF CameraType
  <2> QED BY <2>1 DEF IsPending
<1> HIDE DEF d
<1>7. \A i, j \in DOMAIN queued, k, l \in DOMAIN d :
        queued[i] = d[k] /\ queued[j] = d[l] => (i < j <=> k < l)
  <2> SUFFICES ASSUME NEW i \in DOMAIN queued, NEW j \in DOMAIN queued,
                      NEW k \in DOMAIN d, NEW l \in DOMAIN d,
                      queued[i] = d[k], queued[j] = d[l]
               PROVE  i < j <=> k < l
    OBVIOUS
  <2>1. /\ k + 1 \in DOMAIN device /\ l + 1 \in DOMAIN device
        /\ queued[i] = device[k + 1] /\ queued[j] = device[l + 1]
    BY <1>4
  <2>2. i < j <=> k + 1 < l + 1
    BY <2>1 DEF QueuesInv, QueuesAgree
  <2> QED BY <1>4, <2>2
<1>8. e \notin Range(d)
  <2> SUFFICES ASSUME NEW k \in DOMAIN d, d[k] = e PROVE FALSE
    BY DEF Range
  <2>1. PICK i \in DOMAIN queued : queued[i] = e
    BY <1>3 DEF Range
  <2>2. /\ 1 \in DOMAIN device /\ k + 1 \in DOMAIN device
        /\ device[1] = e /\ device[k + 1] = e /\ 1 < k + 1
    BY <1>4
  <2>3. i < i
    BY <2>1, <2>2 DEF QueuesInv, QueuesAgree
  <2>4. i \in Nat
    BY <2>1 DEF CameraType
  <2> QED BY <2>3, <2>4
<1>9. /\ (Range(queued))' = Range(queued) /\ (Range(device))' = Range(d)
      /\ (Range(inbox))' = Range(inbox) /\ queued' = queued /\ device' = d
  BY <1>1
<1>10. (Range(device))' = {r \in (Range(queued))' : IsPending(r)'}
  <2>1. ASSUME NEW r PROVE r \in Range(d) <=> r \in Range(queued) /\ IsPending(r)'
    <3>1. r \in Range(device) <=> r \in Range(queued) /\ IsPending(r)
      BY DEF QueuesInv, QueuesAgree
    <3> QED BY <1>2, <1>5, <1>6, <1>8, <3>1, QueuedRequests, Zenon
  <2> QED BY <1>9, <2>1, Zenon
<1>11. \A r \in (Range(inbox))' : IsPending(r)'
  BY <1>3, <1>5, <1>9, QueuedRequests DEF QueuesInv
<1>12. Apart'
  BY OtherSets DEF QueuesInv
<1> QED BY <1>7, <1>9, <1>10, <1>11, <1>12 DEF QueuesInv, QueuesAgree

(* The head of the camera's queue is not pending: it is not the device's.  *)
LEMMA CompleteAgrees ==
  ASSUME CameraType, QueuesInv, NEW b \in BOOLEAN, completeRequest(b)
  PROVE  QueuesInv'
<1> DEFINE e == Head(queued)
           q == Tail(queued)
<1>1. /\ queued # <<>> /\ queued' = q /\ inbox' = inbox /\ device' = device
      /\ status' = status /\ ~IsPending(e)
  BY DEF completeRequest, Completed, IsPending
<1>2. e \in Request /\ Range(queued) = Range(q) \cup {e} /\ e \notin Range(q)
  BY <1>1, TailRange DEF CameraType, QueuesInv, Apart
<1>3. /\ DOMAIN queued = 1..Len(queued) /\ Len(queued) \in Nat \ {0}
      /\ DOMAIN q = 1..(Len(queued) - 1)
      /\ \A i \in 1..(Len(queued) - 1) : q[i] = queued[i + 1]
  BY <1>1 DEF CameraType
<1> HIDE DEF q, e
<1>4. \A i, j \in DOMAIN q, k, l \in DOMAIN device :
        q[i] = device[k] /\ q[j] = device[l] => (i < j <=> k < l)
  <2> SUFFICES ASSUME NEW i \in DOMAIN q, NEW j \in DOMAIN q,
                      NEW k \in DOMAIN device, NEW l \in DOMAIN device,
                      q[i] = device[k], q[j] = device[l]
               PROVE  i < j <=> k < l
    OBVIOUS
  <2>1. /\ i + 1 \in DOMAIN queued /\ j + 1 \in DOMAIN queued
        /\ queued[i + 1] = device[k] /\ queued[j + 1] = device[l]
    BY <1>3
  <2>2. i + 1 < j + 1 <=> k < l
    BY <2>1 DEF QueuesInv, QueuesAgree
  <2> QED BY <1>3, <2>2
<1>5. \A r : IsPending(r)' <=> IsPending(r)
  BY <1>1 DEF IsPending
<1>6. /\ (Range(queued))' = Range(q) /\ (Range(device))' = Range(device)
      /\ (Range(inbox))' = Range(inbox) /\ queued' = q /\ device' = device
  BY <1>1
<1>7. (Range(device))' = {r \in (Range(queued))' : IsPending(r)'}
  BY <1>1, <1>2, <1>5, <1>6 DEF QueuesInv, QueuesAgree
<1>8. \A r \in (Range(inbox))' : IsPending(r)'
  BY <1>5, <1>6 DEF QueuesInv
<1>9. Apart'
  BY CompleteSets DEF QueuesInv
<1> QED BY <1>4, <1>6, <1>7, <1>8, <1>9 DEF QueuesInv, QueuesAgree

(* The application touches only a request that is not in the camera.       *)
LEMMA PostedAgrees ==
  ASSUME TypeOK, QueuesInv, NEW r \in Request, ~InCamera(r), NEW s, NEW b \in BOOLEAN,
         queueRequest(r, s, b),
         \/ reuse(r) /\ s = "Pending"
         \/ UNCHANGED status /\ s = status[r]
  PROVE  QueuesInv'
<1>1. r \notin Range(inbox) /\ r \notin Range(queued) /\ r \notin Range(device)
  BY DEF InCamera, QueuesInv, QueuesAgree
<1>2. queued' = queued /\ device' = device
      /\ (inbox' = inbox \/ (inbox' = Append(inbox, r) /\ s = "Pending"))
  BY DEF queueRequest
<1>0. CameraType
  BY DEF TypeOK, CameraType
<1>3. \A q \in Request : q # r => (IsPending(q)' <=> IsPending(q))
  BY <1>0, StatusSet DEF reuse, IsPending
<1>4. s = "Pending" => IsPending(r)'
  BY <1>0, StatusSet DEF reuse, IsPending
<1>5. Apart'
  BY <1>1, QueueSets DEF QueuesInv, InTheCamera, TypeOK, CameraType
<1>6. (Range(queued))' = Range(queued) /\ (Range(device))' = Range(device)
  BY <1>2
<1>7. Range(Append(inbox, r)) = Range(inbox) \cup {r}
  BY AppendRange DEF TypeOK
<1>8. \A q \in (Range(inbox))' : IsPending(q)'
  BY <1>0, <1>1, <1>2, <1>3, <1>4, <1>7, QueuedRequests DEF QueuesInv
<1>9. (Range(device))' = {q \in (Range(queued))' : IsPending(q)'}
  <2>1. ASSUME NEW q PROVE q \in Range(device) <=> q \in Range(queued) /\ IsPending(q)'
    <3>1. q \in Range(device) <=> q \in Range(queued) /\ IsPending(q)
      BY DEF QueuesInv, QueuesAgree
    <3> QED BY <1>0, <1>1, <1>3, <3>1, QueuedRequests, Zenon
  <2> QED BY <1>6, <2>1, Zenon
<1> QED BY <1>2, <1>5, <1>8, <1>9 DEF QueuesInv, QueuesAgree

LEMMA QueuesInit == Init => QueuesInv
<1>1. Range(<<>>) = {} /\ DOMAIN <<>> = {}
  BY DEF Range
<1> QED BY <1>1 DEF Init, CameraInit, QueuesInv, QueuesAgree, Apart, Once

LEMMA QueuesStep == TypeOK /\ QueuesInv /\ [Next]_vars => QueuesInv'
<1> SUFFICES ASSUME TypeOK, QueuesInv, [Next]_vars PROVE QueuesInv'
  OBVIOUS
<1>0. CameraType /\ connected \in BOOLEAN
  BY DEF TypeOK, CameraType
<1>1. CASE UNCHANGED <<status, inbox, queued, device>>
  BY <1>1 DEF QueuesInv, QueuesAgree, Apart, IsPending
<1>2. CASE \E r \in Request : Process(r)
  <2>1. PICK r \in Request : Process(r)
    BY <1>2
  <2> QED BY <2>1, PostedAgrees DEF Process
<1>3. CASE QueueFirst
  <2>1. PICK r \in todo : ~InCamera(r) /\ queueRequest(r, status[r], TRUE)
    BY <1>3 DEF QueueFirst
  <2>2. r \in Request /\ UNCHANGED status
    BY <1>3 DEF QueueFirst, TypeOK
  <2> QED BY <2>1, <2>2, PostedAgrees
<1>4. CASE Take
  BY <1>0, <1>4, TakenAgrees DEF Take
<1>5. CASE Refuse
  BY <1>0, <1>5, RefusedAgrees DEF Refuse
<1>6. CASE Frame
  BY <1>0, <1>6, FrameAgrees DEF Frame
<1>7. CASE Complete
  BY <1>0, <1>7, CompleteAgrees DEF Complete
<1>8. CASE Stop
  <2>1. inbox = <<>> /\ inbox' = inbox /\ queued' = <<>> /\ device' = <<>> /\ stop
    BY <1>8 DEF Stop, stop
  <2>2. Range(<<>>) = {} /\ DOMAIN <<>> = {}
    BY DEF Range
  <2>3. Apart'
    BY <2>1, OtherSets DEF QueuesInv
  <2> QED BY <2>1, <2>2, <2>3 DEF QueuesInv, QueuesAgree
<1>9. QED
  BY <1>1, <1>2, <1>3, <1>4, <1>5, <1>6, <1>7, <1>8
     DEF Next, Thread, Destruct, Wait, Wake, Misuse, Unlock, SpuriousWake, requestComplete,
         Emitted, Start, StartFails, Constructed, Disconnect, NotRunning, NotifyAll,
         Unlocked, Joined, vars, camera
-----------------------------------------------------------------------------
(* Accounted is not inductive: until the constructor has queued a request  *)
(* it is nowhere, but pending, so that the camera takes it; and a          *)
(* completion is told, and its thread begins to work and never ends, only  *)
(* while the callback is connected and the node running.                   *)
Somewhere(r) ==
  r \in unheard \/ r \in InTheCamera \/ emitted = r \/ thread[r] \in {"woken", "body"}

Known(r) ==
  /\ thread[r] # "gone"
  /\ Somewhere(r) \/ (Untouched(r) /\ IsPending(r))

Living == main \in {"start", "queue", "alive"}

AccountedInv == Living => running /\ connected /\ \A r \in Request : Known(r)

(* A step that does not touch a request's thread, nor lets it go.          *)
LEMMA StaysKnown ==
  ASSUME NEW q, Known(q), unheard \subseteq unheard', thread'[q] = thread[q],
         q \in InTheCamera => q \in InTheCamera' \/ emitted' = q,
         emitted = q => emitted' = q,
         Untouched(q) => Untouched(q)' \/ Somewhere(q)',
         Untouched(q) /\ IsPending(q) => IsPending(q)' \/ Somewhere(q)'
  PROVE  Known(q)'
BY DEF Known, Somewhere

LEMMA PostedSets ==
  ASSUME CameraType, NEW r \in Request, NEW s, NEW b, queueRequest(r, s, b)
  PROVE  /\ InTheCamera \subseteq InTheCamera'
         /\ b /\ s = "Pending" => r \in InTheCamera'
<1>1. queued' = queued /\ inbox' = (IF b /\ s = "Pending" THEN Append(inbox, r) ELSE inbox)
  BY DEF queueRequest
<1>2. Range(Append(inbox, r)) = Range(inbox) \cup {r}
  BY AppendRange DEF CameraType
<1>3. (Range(queued))' = Range(queued)
  BY <1>1
<1>4. CASE b /\ s = "Pending"
  <2>1. (Range(inbox))' = Range(inbox) \cup {r}
    BY <1>1, <1>2, <1>4
  <2> QED BY <2>1, <1>3 DEF InTheCamera
<1>5. CASE ~(b /\ s = "Pending")
  <2>1. (Range(inbox))' = Range(inbox)
    BY <1>1, <1>5
  <2> QED BY <2>1, <1>3, <1>5 DEF InTheCamera
<1> QED BY <1>4, <1>5

LEMMA AccountedStep ==
  TypeOK /\ QueuesInv /\ AccountedInv /\ [Next]_vars => AccountedInv'
<1> SUFFICES ASSUME TypeOK, QueuesInv, AccountedInv, [Next]_vars, Living'
             PROVE  running' /\ connected' /\ \A r \in Request : Known(r)'
  BY DEF AccountedInv
<1>0. CameraType /\ thread \in Threads /\ connected \in BOOLEAN /\ Apart
  BY DEF TypeOK, CameraType, Threads, QueuesInv
<1>1. Living /\ UNCHANGED <<running, connected>>
  BY DEF Living, Next, Thread, Wait, Wake, Process, Misuse, Unlock, SpuriousWake, Take,
         Refuse, Frame, Complete, requestComplete, Start, StartFails, QueueFirst,
         Constructed, Disconnect, Destruct, NotRunning, NotifyAll, Unlocked, Joined, Stop,
         vars, node
<1>2. running /\ connected /\ \A q \in Request : Known(q)
  BY <1>1 DEF AccountedInv
<1> SUFFICES ASSUME NEW q \in Request PROVE Known(q)'
  BY <1>1, <1>2
<1>3. Known(q)
  BY <1>2
<1>4. UNCHANGED camera => /\ InTheCamera' = InTheCamera /\ emitted' = emitted
                          /\ IsPending(q)' <=> IsPending(q)
  BY DEF camera, InTheCamera, IsPending
<1>5. CASE \E r \in Request : Thread(r) \/ SpuriousWake(r)
  <2> PICK r \in Request : Thread(r) \/ SpuriousWake(r)
    BY <1>5
  <2>0. UNCHANGED <<main, todo, unheard>>
    BY DEF Thread, Wait, Wake, Process, Misuse, Unlock, SpuriousWake
  <2>1. Untouched(q)' <=> Untouched(q)
    BY <2>0 DEF Untouched
  <2>2. CASE Misuse(r)
    BY <2>2, <2>0, <2>1, <1>3, <1>4, StaysKnown DEF Misuse
  <2>3. CASE Wait(r) \/ Unlock(r)
    <3>1. UNCHANGED camera /\ thread[r] \in {"lock", "end"}
          /\ thread'[r] # "gone" /\ (q # r => thread'[q] = thread[q])
      BY <2>3, <1>0 DEF Wait, Unlock, Threads
    <3> QED BY <3>1, <2>0, <2>1, <1>3, <1>4 DEF Known, Somewhere
  <2>4. CASE Wake(r) \/ SpuriousWake(r)
    <3>1. UNCHANGED camera /\ thread'[r] \in {"woken", "body"}
          /\ (q # r => thread'[q] = thread[q])
      BY <2>4, <1>0, <1>2 DEF Wake, SpuriousWake, Threads
    <3> QED BY <3>1, <2>0, <2>1, <1>3, <1>4 DEF Known, Somewhere
  <2>5. CASE Process(r)
    <3>1. /\ reuse(r) /\ queueRequest(r, "Pending", main # "start") /\ emitted' = emitted
          /\ thread'[r] # "gone" /\ (q # r => thread'[q] = thread[q])
      BY <2>5, <1>0 DEF Process, queueRequest, Threads
    <3>2. InTheCamera \subseteq InTheCamera' /\ (main # "start" => r \in InTheCamera')
      BY <3>1, <1>0, PostedSets
    <3>3. IsPending(r)' /\ (q # r => (IsPending(q)' <=> IsPending(q)))
      BY <3>1, <1>0, StatusSet DEF reuse
    <3>4. CASE q = r
      BY <3>4, <3>1, <3>2, <3>3, <2>0 DEF Known, Somewhere, Untouched
    <3>5. CASE q # r
      BY <3>5, <3>1, <3>2, <3>3, <2>0, <2>1, <1>3 DEF Known, Somewhere
    <3> QED BY <3>4, <3>5
  <2> QED BY <2>2, <2>3, <2>4, <2>5 DEF Thread
<1>6. CASE Take \/ Refuse \/ Frame \/ Complete
  <2>0. /\ UNCHANGED <<thread, main, todo, unheard>>
        /\ (Untouched(q)' <=> Untouched(q))
    BY <1>6 DEF Take, Refuse, Frame, Complete, Untouched
  <2>1. CASE Take \/ Refuse
    <3>1. InTheCamera' = InTheCamera /\ emitted' = emitted
      BY <2>1, <1>0, TakeSets DEF Take, Refuse
    <3>2. q \notin InTheCamera => status'[q] = status[q]
      <4>1. CASE Take
        BY <4>1 DEF Take, doQueueRequest
      <4>2. CASE Refuse
        <5>1. inbox # <<>> /\ status' = [status EXCEPT ![Head(inbox)] = "Cancelled"]
          BY <4>2 DEF Refuse, cancelRequest
        <5>2. Head(inbox) \in InTheCamera
          BY <5>1, <1>0, TailRange DEF CameraType, InTheCamera
        <5> QED BY <5>1, <5>2, <1>0 DEF CameraType
      <4> QED BY <2>1, <4>1, <4>2
    <3> QED BY <3>1, <3>2, <2>0, <1>3 DEF Known, Somewhere, IsPending
  <2>2. CASE Frame
    <3>1. /\ device # <<>> /\ status' = [status EXCEPT ![Head(device)] = "Complete"]
          /\ UNCHANGED <<inbox, queued, emitted>>
      BY <2>2 DEF Frame, checkRequestCompleted
    <3>2. Head(device) \in Range(queued)
      BY <3>1, <1>0, TailRange DEF CameraType, QueuesInv, QueuesAgree
    <3>3. InTheCamera' = InTheCamera
      BY <3>1 DEF InTheCamera
    <3>4. q \notin InTheCamera => status'[q] = status[q]
      BY <3>1, <3>2, <1>0 DEF InTheCamera, CameraType
    <3> QED BY <3>1, <3>3, <3>4, <2>0, <1>3 DEF Known, Somewhere, IsPending
  <2>3. CASE Complete
    <3>1. /\ queued # <<>> /\ queued' = Tail(queued) /\ emitted' = Head(queued)
          /\ emitted = None /\ UNCHANGED <<inbox, status>>
      BY <2>3, <1>2 DEF Complete, completeRequest, Completed
    <3>2. Range(queued) = Range(Tail(queued)) \cup {Head(queued)}
      BY <3>1, <1>0, TailRange DEF CameraType
    <3>3. (Range(inbox))' = Range(inbox) /\ (Range(queued))' = Range(Tail(queued))
      BY <3>1
    <3>4. q \in InTheCamera => q \in InTheCamera' \/ emitted' = q
      BY <3>1, <3>2, <3>3 DEF InTheCamera
    <3>5. emitted # q
      BY <3>1, NoneAssumption
    <3>6. IsPending(q)' <=> IsPending(q)
      BY <3>1 DEF IsPending
    <3> QED BY <3>4, <3>5, <3>6, <2>0, <1>3, StaysKnown
  <2> QED BY <1>6, <2>1, <2>2, <2>3
<1>7. CASE requestComplete
  <2>1. /\ emitted \in Request /\ UNCHANGED <<status, inbox, queued, main, todo>>
        /\ thread[emitted] \notin {"body", "end"}
        /\ thread' = [thread EXCEPT ![emitted] = Notified(emitted)]
        /\ unheard' = IF thread[emitted] = "lock" THEN unheard \cup {emitted} ELSE unheard
    BY <1>7, <1>0 DEF requestComplete, Emitted, CameraType
  <2>2. /\ InTheCamera' = InTheCamera /\ (Untouched(q)' <=> Untouched(q))
        /\ (IsPending(q)' <=> IsPending(q))
    BY <2>1 DEF InTheCamera, Untouched, IsPending
  <2>3. CASE q # emitted
    <3>1. thread'[q] = thread[q] /\ unheard \subseteq unheard'
      BY <2>1, <2>3, <1>0 DEF Threads
    <3> QED BY <3>1, <2>2, <2>3, <1>3, StaysKnown
  <2>4. CASE q = emitted /\ thread[q] = "lock"
    <3>1. thread'[q] = "lock" /\ q \in unheard'
      BY <2>1, <2>4, <1>0 DEF Notified, Threads
    <3> QED BY <3>1 DEF Known, Somewhere
  <2>5. CASE q = emitted /\ thread[q] \in {"waiting", "woken"}
    <3>1. thread'[q] = "woken"
      BY <2>1, <2>5, <1>0 DEF Notified, Threads
    <3> QED BY <3>1 DEF Known, Somewhere
  <2>6. thread[q] # "gone"
    BY <1>3 DEF Known
  <2> QED BY <2>1, <2>3, <2>4, <2>5, <2>6, <1>0 DEF Threads
<1>8. CASE Start \/ Constructed
  <2>1. UNCHANGED <<camera, thread, unheard>>
        /\ (Untouched(q) => Untouched(q)')
    BY <1>8 DEF Start, Constructed, Untouched
  <2> QED BY <2>1, <1>3, <1>4, StaysKnown
<1>9. CASE QueueFirst
  <2>1. PICK r \in todo : queueRequest(r, status[r], TRUE) /\ todo' = todo \ {r}
    BY <1>9 DEF QueueFirst
  <2>2. r \in Request /\ UNCHANGED <<status, thread, main, unheard>> /\ emitted' = emitted
    BY <1>9, <2>1 DEF QueueFirst, TypeOK, queueRequest
  <2>3. InTheCamera \subseteq InTheCamera' /\ (status[r] = "Pending" => r \in InTheCamera')
    BY <2>1, <2>2, <1>0, PostedSets
  <2>4. q # r => (Untouched(q)' <=> Untouched(q))
    BY <2>1, <2>2 DEF Untouched
  <2> QED BY <2>2, <2>3, <2>4, <1>3 DEF Known, Somewhere, IsPending
<1>10. CASE UNCHANGED vars
  <2>1. UNCHANGED <<camera, thread, unheard, main, todo>>
    BY <1>10 DEF vars, node
  <2>2. Untouched(q)' <=> Untouched(q)
    BY <2>1 DEF Untouched
  <2> QED BY <2>1, <2>2, <1>3, <1>4, StaysKnown
<1>11. ~(StartFails \/ Disconnect \/ Destruct)
  BY <1>1 DEF Living, StartFails, Disconnect, Destruct, NotRunning, NotifyAll, Unlocked,
              Joined, Stop
<1> QED BY <1>5, <1>6, <1>7, <1>8, <1>9, <1>10, <1>11 DEF Next
-----------------------------------------------------------------------------
(* Requests, queues, threads and the node stay in their types, whatever is *)
(* refused and however often a wait ends by itself.                        *)
THEOREM TypeCorrect == Spec => []TypeOK
<1> QED BY TypeInit, TypeStep, PTL DEF Spec

(* No request is queued or read while the camera has it, for any number of *)
(* requests, unless a wait ends by itself: the condition variables and     *)
(* mutexes keep process() and libcamera apart.                             *)
THEOREM ExclusiveCorrect == Spec => []BufferExclusive
<1>1. Init => TypeOK /\ (spurious = 0 => ExclusiveInv)
  BY TypeInit, ExclusiveInit
<1>2. TypeOK /\ (spurious = 0 => ExclusiveInv) /\ [Next]_vars
        => TypeOK' /\ (spurious = 0 => ExclusiveInv)'
  BY TypeStep, ExclusiveStep
<1>3. (spurious = 0 => ExclusiveInv) => BufferExclusive
  BY SameCamera DEF ExclusiveInv, BufferExclusive, ThreadInv, Working, Free
<1> QED BY <1>1, <1>2, <1>3, PTL DEF Spec

(* The device's queue is what is pending of the camera's, in its order,    *)
(* for any number of requests and refusals: pipeline_handler.cpp's and     *)
(* pipeline_base.cpp's queues never come apart.                            *)
THEOREM AgreeCorrect == Spec => []QueuesAgree
<1>1. Init => TypeOK /\ QueuesInv
  BY TypeInit, QueuesInit
<1>2. TypeOK /\ QueuesInv /\ [Next]_vars => TypeOK' /\ QueuesInv'
  BY TypeStep, QueuesStep
<1> QED BY <1>1, <1>2, PTL DEF Spec, QueuesInv

(* When the destructor is through, libcamera holds no request and no       *)
(* thread is left, for any number of requests and spurious wake-ups.       *)
THEOREM ReturnedCorrect == Spec => []AllReturned
<1>1. Init => TypeOK /\ ReturnedInv
  BY TypeInit DEF Init, ReturnedInv, Late
<1>2. TypeOK /\ ReturnedInv /\ [Next]_vars => TypeOK' /\ ReturnedInv'
  BY TypeStep, ReturnedStep
<1> QED BY <1>1, <1>2, ReturnedEnough, PTL DEF Spec

(* While the node lives, the camera has every request, or its completion   *)
(* is being told, or its thread is to work on it, or that thread was not   *)
(* at its wait when it was notified: camera_node.cpp loses a buffer by an  *)
(* unheard notification or not at all, for any number of requests.         *)
THEOREM AccountedCorrect == Spec => []Accounted
<1>1. Init => TypeOK /\ QueuesInv /\ AccountedInv
  BY TypeInit, QueuesInit
     DEF Init, CameraInit, AccountedInv, Known, Somewhere, Untouched, IsPending
<1>2. TypeOK /\ QueuesInv /\ AccountedInv /\ [Next]_vars
        => TypeOK' /\ QueuesInv' /\ AccountedInv'
  BY TypeStep, QueuesStep, AccountedStep
<1>3. AccountedInv => Accounted
  BY SameCamera DEF AccountedInv, Living, Known, Somewhere, Untouched, Accounted
<1> QED BY <1>1, <1>2, <1>3, PTL DEF Spec

(* Once the destructor has come to join(), a thread that waits then waits  *)
(* for good, and so does the destructor: libcamera tells nobody, and main  *)
(* has notified everybody once.  camera_node.cpp's "unlock all threads"    *)
(* does not reach a thread that is not at its wait.                        *)
THEOREM HangsCorrect == Spec => HangsForGood
<1>1. Init => TypeOK /\ ReturnedInv
  BY TypeInit DEF Init, ReturnedInv, Late
<1>2. TypeOK /\ ReturnedInv /\ [Next]_vars => TypeOK' /\ ReturnedInv'
  BY TypeStep, ReturnedStep
<1>3. ASSUME TypeOK, ReturnedInv, [Next]_vars, NEW r \in Request, Hung(r)
      PROVE  Hung(r)'
  <2>0. /\ thread \in Threads /\ main = "join" /\ thread[r] = "waiting"
        /\ emitted = None /\ spurious = MaxSpurious /\ ~connected
    BY <1>3 DEF TypeOK, Threads, Hung, ReturnedInv, Late
  <2>1. CASE \E q \in Request : Thread(q) \/ SpuriousWake(q)
    <3> PICK q \in Request : Thread(q) \/ SpuriousWake(q)
      BY <2>1
    <3>1. ~SpuriousWake(q)
      BY <2>0, CameraNodeAssumption DEF SpuriousWake
    <3>2. CASE Misuse(q)
      BY <3>2, <2>0 DEF Misuse, Hung, camera
    <3>3. CASE Thread(q) /\ ~Misuse(q)
      <4>1. thread[q] # "waiting" /\ UNCHANGED <<main, emitted, spurious>>
        BY <3>3 DEF Thread, Wait, Wake, Process, Unlock, queueRequest, camera
      <4>2. \A p \in Request : p # q => thread'[p] = thread[p]
        BY <3>3, <2>0 DEF Thread, Wait, Wake, Process, Unlock, Threads
      <4> QED BY <4>1, <4>2, <2>0 DEF Hung
    <3> QED BY <3>1, <3>2, <3>3
  <2>2. CASE Take \/ Refuse \/ Frame \/ Complete
    <3>1. UNCHANGED <<thread, main, spurious>> /\ emitted' = None
      BY <2>2, <2>0 DEF Take, Refuse, Frame, Complete, doQueueRequest, cancelRequest,
                        checkRequestCompleted, completeRequest
    <3> QED BY <3>1, <2>0 DEF Hung
  <2>3. ~requestComplete /\ ~QueueFirst /\ ~NotifyAll /\ ~Joined
    BY <2>0 DEF requestComplete, Emitted, QueueFirst, NotifyAll, Joined
  <2>4. CASE UNCHANGED vars
    BY <2>4, <2>0 DEF vars, camera, node, Hung
  <2> QED BY <1>3, <2>0, <2>1, <2>2, <2>3, <2>4
          DEF Next, Destruct, Start, StartFails, Constructed, Disconnect, NotRunning,
              Unlocked, Stop
<1>4. TypeOK /\ ReturnedInv /\ [Next]_vars => [\A r \in Request : Hung(r) => Hung(r)']_vars
  BY <1>3
<1> QED BY <1>1, <1>2, <1>4, PTL DEF Spec, HangsForGood
-----------------------------------------------------------------------------
(***************************************************************************)
(* CameraControls: the types of what the callbacks of a change make of it. *)
(***************************************************************************)
LEMMA ParameterNames ==
  ASSUME params \in Parameters
  PROVE  DOMAIN params = {"ETM", "ET"}
BY DEF Parameters

LEMMA ResolvedType ==
  ASSUME NEW c \in Change, store \in Exposures \cup {Nothing}
  PROVE  Resolved(c) \in Change
<1>1. CASE GivenBack(c)
  <2>1. store \in Exposures
    BY <1>1 DEF GivenBack
  <2> QED BY <1>1, <2>1 DEF Resolved, Change
<1>2. CASE ~GivenBack(c)
  BY <1>2 DEF Resolved, Change
<1> QED BY <1>1, <1>2

LEMMA ControlsOfType ==
  ASSUME NEW c \in Change, c.ET # "outside"
  PROVE  Controls(c) \in ControlList
<1>1. DOMAIN c = {"ETM", "ET", "AE"}
  BY DEF Change
<1> DEFINE v(p) == IF IsSet(c[p]) THEN c[p] ELSE Absent
<1>2. v("ETM") \in Mode \cup {Absent} /\ v("ET") \in Exposures \cup {Absent}
        /\ v("AE") \in Switch \cup {Absent}
  BY DEF Change, IsSet, Absent
<1>3. Controls(c) = [ETM |-> v("ETM"), ET |-> v("ET"), AE |-> v("AE")]
  BY <1>1 DEF Controls
<1> HIDE DEF v
<1> QED BY <1>2, <1>3 DEF ControlList

LEMMA AfterType ==
  ASSUME params \in Parameters, NEW c \in Change, c.ET # "outside"
  PROVE  [p \in DOMAIN params |-> After(p, c[p])] \in Parameters
<1>1. After("ETM", c["ETM"]) \in Mode \cup {Nothing, "undeclared"}
  BY DEF After, Parameters, Change
<1>2. After("ET", c["ET"]) \in Exposures \cup {Nothing, "undeclared"}
  BY DEF After, Parameters, Change
<1>3. [p \in DOMAIN params |-> After(p, c[p])]
        = [ETM |-> After("ETM", c["ETM"]), ET |-> After("ET", c["ET"])]
  BY ParameterNames
<1> QED BY <1>1, <1>2, <1>3 DEF Parameters

WellExposed(x) == x.mode = "auto" => x.time = Nothing
Exposed == {x \in Exposure : WellExposed(x)}

LEMMA ApplyExposed ==
  ASSUME NEW x \in Exposure, NEW cl \in ControlList
  PROVE  Apply(x, cl) \in Exposed
<1> DEFINE m == ModeOf(x.mode, cl)
<1> DEFINE t == IF m = "auto" THEN Nothing
                ELSE IF cl.ET # Absent THEN cl.ET
                ELSE IF x.mode = "auto" THEN "kept" ELSE x.time
<1>1. m \in Mode
  BY DEF ModeOf, Exposure, ControlList, Mode
<1>2. t \in Exposures \cup {Nothing, "kept"} /\ (m = "auto" => t = Nothing)
  BY DEF Exposure, ControlList
<1>3. Apply(x, cl) = [mode |-> m, time |-> t]
  BY DEF Apply
<1> HIDE DEF m, t
<1> QED BY <1>1, <1>2, <1>3 DEF Exposed, WellExposed, Exposure

LEMMA ApplyNone ==
  ASSUME NEW x \in Exposed
  PROVE  Apply(x, NoControls) = x
<1>1. x = [mode |-> x.mode, time |-> x.time]
  BY DEF Exposed, Exposure
<1>2. ModeOf(x.mode, NoControls) = x.mode
  BY DEF ModeOf, NoControls
<1> QED BY <1>1, <1>2 DEF Apply, NoControls, Exposed, WellExposed

(* What the camera was started with may be applied again. *)
LEMMA ApplyAgain ==
  ASSUME NEW cl \in ControlList, NEW x, x = Apply([mode |-> "auto", time |-> Nothing], cl)
  PROVE  Apply(x, cl) = x
<1>1. ModeOf(x.mode, cl) = x.mode
  BY DEF Apply, ModeOf
<1>2. x.time = IF x.mode = "auto" THEN Nothing ELSE IF cl.ET # Absent THEN cl.ET ELSE "kept"
  BY DEF Apply
<1>3. x = [mode |-> x.mode, time |-> x.time]
  BY DEF Apply
<1> QED BY <1>1, <1>2, <1>3 DEF Apply

LEMMA NoControlsType == NoControls \in ControlList
BY DEF NoControls, ControlList

LEMMA StartChangeType ==
  ASSUME NEW o \in Overrides
  PROVE  /\ StartChange(o) \in Change
         /\ StartChange(o).ETM \in Mode
         /\ StartChange(o).ETM = "auto" => StartChange(o).ET = "unset"
<1>1. o \in Change /\ o.ETM # "unset" /\ o.ET # "unset" /\ Default \in Exposures
  BY ExposureAssumption
<1>2. StartMode(o) \in Mode /\ (StartMode(o) = "auto" => o.ET = Absent)
  BY <1>1 DEF StartMode, Change, Mode
<1>3. (IF DefaultUsed(o) THEN Default ELSE IF o.ET = Absent THEN "unset" ELSE o.ET)
        \in Exposures \cup {"unset", "outside"}
  BY <1>1 DEF Change
<1>4. (IF o.AE = Absent THEN "on" ELSE o.AE) \in Switch
  BY <1>1 DEF Change, Switch
<1>5. StartChange(o).ETM = "auto" => StartChange(o).ET = "unset"
  BY <1>2 DEF StartChange, DefaultUsed
<1>6. StartChange(o) \in Change
  BY <1>2, <1>3, <1>4 DEF StartChange, Change
<1> QED BY <1>2, <1>5, <1>6 DEF StartChange

LEMMA ControlsTypeInit == ControlsInit => ControlsTypeOK
<1> SUFFICES ASSUME ControlsInit PROVE ControlsTypeOK
  OBVIOUS
<1>1. params \in Parameters /\ control_values \in ControlList
        /\ store \in Exposures \cup {Nothing} /\ tmp_store \in Exposures \cup {Nothing}
  <2>1. PICK o \in Overrides :
          LET c == StartChange(o)
          IN /\ store = IF DefaultUsed(o) THEN Nothing ELSE Default
             /\ IF c.ET = "outside"
                THEN /\ params = [ETM |-> Nothing, ET |-> Nothing]
                     /\ tmp_store = store /\ control_values = NoControls
                ELSE /\ params = [ETM |-> c.ETM, ET |-> IF IsSet(c.ET) THEN c.ET ELSE Nothing]
                     /\ tmp_store = Nothing /\ control_values = Controls(c)
    BY DEF ControlsInit, DeclareAll
  <2> DEFINE c == StartChange(o)
  <2>2. c \in Change /\ c.ETM \in Mode
    BY StartChangeType
  <2> HIDE DEF c
  <2>3. store \in Exposures \cup {Nothing} /\ tmp_store \in Exposures \cup {Nothing}
    BY <2>1, ExposureAssumption
  <2>4. CASE c.ET = "outside"
    BY <2>1, <2>3, <2>4, NoControlsType DEF c, Parameters
  <2>5. CASE c.ET # "outside"
    <3>1. control_values \in ControlList
      BY <2>1, <2>2, <2>5, ControlsOfType DEF c
    <3>2. (IF IsSet(c.ET) THEN c.ET ELSE Nothing) \in Exposures \cup {Nothing}
      BY <2>2, <2>5 DEF Change, IsSet
    <3>3. params = [ETM |-> c.ETM, ET |-> IF IsSet(c.ET) THEN c.ET ELSE Nothing]
      BY <2>1, <2>5 DEF c
    <3> QED BY <2>2, <2>3, <3>1, <3>2, <3>3 DEF Parameters
  <2> QED BY <2>4, <2>5
<1>2. at \in [Worker -> WorkerAt] /\ held \in [Worker -> ControlList]
  BY NoControlsType DEF ControlsInit, WorkerAt
<1>3. inCamera \in Exposure /\ wanted \in Exposure
  <2>1. [mode |-> "auto", time |-> Nothing] \in Exposure
    BY DEF Exposure, Mode
  <2> QED BY <1>1, <2>1, ApplyExposed DEF ControlsInit, Exposed
<1>4. changes \in 0..MaxChanges /\ moved \in Seq(Worker)
  BY CameraControlsAssumption DEF ControlsInit
<1>5. ranged \in BOOLEAN
  BY DEF ControlsInit, DeclareAll
<1> QED BY <1>1, <1>2, <1>3, <1>4, <1>5 DEF ControlsTypeOK, ControlsInit

LEMMA AcceptType ==
  ASSUME ControlsTypeOK, NEW c \in Changes, Accept(c)
  PROVE  /\ Controls(Resolved(c)) \in ControlList
         /\ params' \in Parameters /\ control_values' \in ControlList
         /\ store' \in Exposures \cup {Nothing} /\ tmp_store' \in Exposures \cup {Nothing}
<1>1. Resolved(c) \in Change /\ Resolved(c).ET # "outside"
  BY ResolvedType, CameraControlsAssumption DEF ControlsTypeOK, Accept, Refused
<1>2. Controls(Resolved(c)) \in ControlList /\ control_values' \in ControlList
  BY <1>1, ControlsOfType DEF Accept
<1>3. params' \in Parameters
  BY <1>1, AfterType DEF Accept, ControlsTypeOK
<1> QED BY <1>2, <1>3 DEF Accept, Restored, ControlsTypeOK

LEMMA ControlsTypeStep == ControlsTypeOK /\ [ControlsNext]_controlsVars => ControlsTypeOK'
<1> SUFFICES ASSUME ControlsTypeOK, [ControlsNext]_controlsVars PROVE ControlsTypeOK'
  OBVIOUS
<1>1. ASSUME NEW c \in Changes, Set(c) PROVE ControlsTypeOK'
  <2>1. changes' \in 0..MaxChanges
    BY <1>1, CameraControlsAssumption DEF Set, ControlsTypeOK
  <2>2. /\ params' \in Parameters /\ control_values' \in ControlList
        /\ store' \in Exposures \cup {Nothing} /\ tmp_store' \in Exposures \cup {Nothing}
        /\ wanted' \in Exposure
        /\ ended' \in {"no", "assertion", "exception"}
        /\ accepted' \in BOOLEAN /\ lost' \in BOOLEAN /\ ranged' \in BOOLEAN
    <3>1. CASE Aborts /\ ended' = "assertion" /\ UNCHANGED <<parameters, wanted, accepted, lost>>
      BY <3>1 DEF ControlsTypeOK, parameters
    <3>2. CASE RefuseUnasked(c) /\ UNCHANGED <<ended, wanted, accepted, lost>>
      BY <3>2 DEF ControlsTypeOK, RefuseUnasked, Restored
    <3>3. CASE Reject(c) /\ UNCHANGED <<ended, wanted, accepted, lost>>
      BY <3>3 DEF ControlsTypeOK, Reject
    <3>4. CASE /\ Accept(c)
               /\ wanted' = Apply(wanted, Controls(Resolved(c)))
               /\ accepted' = TRUE
               /\ lost' = (lost \/ (accepted /\ control_values # NoControls))
               /\ UNCHANGED ended
      <4>1. wanted' \in Exposure
        BY <3>4, AcceptType, ApplyExposed DEF ControlsTypeOK, Exposed
      <4>2. lost' \in BOOLEAN /\ accepted' \in BOOLEAN /\ ranged' \in BOOLEAN
        BY <3>4 DEF Accept, ControlsTypeOK
      <4> QED BY <3>4, AcceptType, <4>1, <4>2 DEF ControlsTypeOK
    <3> QED BY <1>1, <3>1, <3>2, <3>3, <3>4 DEF Set
  <2> QED BY <1>1, <2>1, <2>2 DEF Set, ControlsTypeOK, worker
<1>2. ASSUME NEW r \in Worker, NEW from, NEW to \in WorkerAt, Steps(r, from, to)
      PROVE  /\ at' \in [Worker -> WorkerAt]
             /\ changes' \in 0..MaxChanges /\ wanted' \in Exposure
  BY <1>2 DEF Steps, ControlsTypeOK
<1>3. ASSUME NEW r \in Worker, Woken(r) PROVE ControlsTypeOK'
  BY <1>3, <1>2 DEF Woken, ControlsTypeOK, parameters, order, WorkerAt
<1>4. ASSUME NEW r \in Worker, NEW p \in {"ETM", "ET"}, NEW from,
             NEW declare \in WorkerAt, NEW next \in WorkerAt,
             Has(r, p, from, declare, next)
      PROVE  ControlsTypeOK'
  <2>1. (IF params[p] = "undeclared" THEN declare ELSE next) \in WorkerAt
    OBVIOUS
  <2> QED BY <1>4, <1>2, <2>1 DEF Has, ControlsTypeOK, parameters, order
<1>5. ASSUME NEW r \in Worker, NEW p \in {"ETM", "ET"}, NEW from, NEW next \in WorkerAt,
             Declare(r, p, from, next)
      PROVE  ControlsTypeOK'
  <2>1. params' \in Parameters
    <3>1. [params EXCEPT ![p] = Nothing] \in Parameters
      BY DEF ControlsTypeOK, Parameters
    <3> QED BY <1>5, <3>1 DEF Declare, Redeclare, ControlsTypeOK, parameters
  <2>2. /\ ended' \in {"no", "assertion", "exception"} /\ ranged' \in BOOLEAN
        /\ UNCHANGED <<store, tmp_store, control_values>>
    BY <1>5 DEF Declare, Redeclare, ControlsTypeOK, parameters
  <2> QED BY <1>5, <1>2, <2>1, <2>2 DEF Declare, ControlsTypeOK, order
<1>6. ASSUME NEW r \in Worker, Move(r) PROVE ControlsTypeOK'
  <2>1. held' \in [Worker -> ControlList] /\ control_values' \in ControlList
          /\ moved' \in Seq(Worker)
    BY <1>6, NoControlsType DEF Move, move_control_values, ControlsTypeOK
  <2> QED BY <1>6, <1>2, <2>1 DEF Move, move_control_values, ControlsTypeOK, WorkerAt
<1>7. ASSUME NEW r \in Worker, Queue(r) PROVE ControlsTypeOK'
  <2>1. held' \in [Worker -> ControlList] /\ moved' \in Seq(Worker) /\ lost' \in BOOLEAN
    BY <1>7, NoControlsType DEF Queue, InTurn, Overtakes, ControlsTypeOK
  <2>2. inCamera' \in Exposure
    BY <1>7, ApplyExposed DEF Queue, ControlsTypeOK, Exposed
  <2> QED BY <1>7, <1>2, <2>1, <2>2 DEF Queue, ControlsTypeOK, WorkerAt, parameters
<1>8. CASE UNCHANGED controlsVars
  BY <1>8 DEF controlsVars, parameters, worker, past, order, ControlsTypeOK
<1>9. ASSUME NEW r \in Worker, redeclare(r) PROVE ControlsTypeOK'
  BY <1>9, <1>4, <1>5 DEF redeclare, WorkerAt
<1>10. ASSUME NEW r \in Worker, QueueRefused(r) \/ QueueFails(r) PROVE ControlsTypeOK'
  <2>1. PICK to \in {"camera", "out"} : Steps(r, "queue", to) /\ Dropped(r)
    BY <1>10 DEF QueueRefused, QueueFails
  <2>2. held' \in [Worker -> ControlList] /\ lost' \in BOOLEAN
    BY <2>1, NoControlsType DEF Dropped, ControlsTypeOK
  <2> QED BY <2>1, <2>2, <1>2 DEF Dropped, ControlsTypeOK, WorkerAt, parameters
<1> QED BY <1>1, <1>3, <1>6, <1>7, <1>8, <1>9, <1>10 DEF ControlsNext, Carry

THEOREM ControlsTypeCorrect == ControlsSpec => []ControlsTypeOK
BY ControlsTypeInit, ControlsTypeStep, PTL DEF ControlsSpec

(***************************************************************************)
(* NeverBoth is inductive: what is restored, checked and merged leaves no  *)
(* exposure time beside the mode "auto", and nothing but an accepted       *)
(* change, or the start, sets a parameter.                                 *)
(***************************************************************************)
LEMMA AfterNotSet ==
  ASSUME NEW p, NEW v, ~IsSet(v), v = Absent => ~IsSet(params[p])
  PROVE  ~IsSet(After(p, v))
BY DEF After, IsSet

LEMMA AcceptedApart ==
  ASSUME ControlsTypeOK, ~Clash(params), NEW c \in Changes, Accept(c)
  PROVE  ~Clash(params') /\ ~Clash(control_values')
<1> DEFINE d == Resolved(c)
<1>1. c \in Change /\ d \in Change
  BY ResolvedType, CameraControlsAssumption DEF ControlsTypeOK
<1>2. d.ETM = c.ETM
  BY <1>1 DEF Resolved, Change
<1>3. c.ETM = "auto" => d.ET = "unset"
  BY <1>1 DEF Accept, Refused, Conflict, Resolved, GivenBack, Change, IsSet, Absent, Nothing
<1>4. params.ETM = "auto" /\ ~IsSet(c.ETM) => ~IsSet(d.ET) /\ ~IsSet(params.ET)
  BY DEF Accept, Refused, Conflict, Clash
<1>5. params' = [p \in {"ETM", "ET"} |-> After(p, d[p])]
  BY ParameterNames DEF Accept, ControlsTypeOK
<1>6. params'.ETM = After("ETM", d.ETM) /\ params'.ET = After("ET", d.ET)
  BY <1>5
<1>7. control_values' = Controls(d)
  BY DEF Accept
<1> HIDE DEF d
<1>8. ~Clash(control_values')
  <2>1. DOMAIN d = {"ETM", "ET", "AE"}
    BY <1>1 DEF Change
  <2>2. /\ control_values'.ETM = IF IsSet(d.ETM) THEN d.ETM ELSE Absent
        /\ control_values'.ET = IF IsSet(d.ET) THEN d.ET ELSE Absent
    BY <1>7, <2>1 DEF Controls
  <2> QED BY <2>2, <1>2, <1>3 DEF Clash, IsSet, Absent
<1>9. CASE c.ETM = "auto"
  <2>1. ~IsSet(After("ET", d.ET))
    BY <1>3, <1>9, AfterNotSet DEF IsSet, Absent
  <2> QED BY <1>6, <1>8, <2>1 DEF Clash
<1>10. CASE c.ETM = "manual"
  BY <1>2, <1>6, <1>8, <1>10 DEF Clash, After, Absent
<1>11. CASE c.ETM \in {Absent, "unset"}
  <2>1. SUFFICES ASSUME params'.ETM = "auto" PROVE ~IsSet(params'.ET)
    BY <1>8 DEF Clash
  <2>2. params.ETM = "auto"
    BY <1>2, <1>6, <1>11, <2>1 DEF After
  <2>3. ~IsSet(d.ET) /\ ~IsSet(params.ET)
    BY <1>4, <1>11, <2>2 DEF IsSet
  <2> QED BY <1>6, <2>3, AfterNotSet
<1> QED BY <1>1, <1>9, <1>10, <1>11 DEF Change, Mode

LEMMA NeverBothInit == ControlsInit => NeverBoth
<1> SUFFICES ASSUME ControlsInit PROVE NeverBoth
  OBVIOUS
<1>1. PICK o \in Overrides :
        LET c == StartChange(o)
        IN \/ params = [ETM |-> Nothing, ET |-> Nothing] /\ control_values = NoControls
           \/ /\ params = [ETM |-> c.ETM, ET |-> IF IsSet(c.ET) THEN c.ET ELSE Nothing]
              /\ control_values = Controls(c)
  BY DEF ControlsInit, DeclareAll
<1> DEFINE c == StartChange(o)
<1>2. c \in Change /\ (c.ETM = "auto" => c.ET = "unset")
  BY StartChangeType
<1> HIDE DEF c
<1>3. ~Clash(NoControls)
  BY DEF NoControls, Clash, Absent
<1>4. ~Clash([ETM |-> Nothing, ET |-> Nothing])
  BY DEF Clash, Nothing
<1>5. ~Clash([ETM |-> c.ETM, ET |-> IF IsSet(c.ET) THEN c.ET ELSE Nothing])
  BY <1>2 DEF Clash, IsSet
<1>6. ~Clash(Controls(c))
  <2>1. DOMAIN c = {"ETM", "ET", "AE"}
    BY <1>2 DEF Change
  <2>2. /\ Controls(c).ETM = IF IsSet(c.ETM) THEN c.ETM ELSE Absent
        /\ Controls(c).ET = IF IsSet(c.ET) THEN c.ET ELSE Absent
    BY <2>1 DEF Controls
  <2> QED BY <1>2, <2>2 DEF Clash, IsSet, Absent
<1>7. \A r \in Worker : held[r] = NoControls
  BY DEF ControlsInit
<1> QED BY <1>1, <1>3, <1>4, <1>5, <1>6, <1>7 DEF NeverBoth, c

LEMMA NeverBothStep ==
  ControlsTypeOK /\ NeverBoth /\ [ControlsNext]_controlsVars => NeverBoth'
<1> SUFFICES ASSUME ControlsTypeOK, NeverBoth, [ControlsNext]_controlsVars PROVE NeverBoth'
  OBVIOUS
<1>1. ASSUME NEW c \in Changes, Set(c) PROVE NeverBoth'
  <2>1. UNCHANGED held
    BY <1>1 DEF Set, worker
  <2>2. CASE UNCHANGED <<params, control_values>>
    BY <2>1, <2>2 DEF NeverBoth
  <2>3. CASE Accept(c)
    BY <2>1, <2>3, AcceptedApart DEF NeverBoth
  <2> QED BY <1>1, <2>2, <2>3 DEF Set, RefuseUnasked, Reject, parameters
<1>2. ASSUME NEW r \in Worker, Woken(r) PROVE NeverBoth'
  BY <1>2 DEF Woken, parameters, NeverBoth
<1>3. ASSUME NEW r \in Worker, NEW p \in {"ETM", "ET"}, NEW from, NEW declare, NEW next,
             Has(r, p, from, declare, next)
      PROVE  NeverBoth'
  BY <1>3 DEF Has, parameters, NeverBoth
<1>4. ASSUME NEW r \in Worker, NEW p \in {"ETM", "ET"}, NEW from, NEW next,
             Declare(r, p, from, next)
      PROVE  NeverBoth'
  <2>1. UNCHANGED <<held, control_values>>
    BY <1>4 DEF Declare, Redeclare, parameters
  <2>2. ~Clash(params')
    <3>1. CASE params' = [params EXCEPT ![p] = Nothing]
      <4>1. ~Clash([params EXCEPT ![p] = Nothing])
        BY ParameterNames DEF Clash, IsSet, NeverBoth, ControlsTypeOK, Nothing
      <4> QED BY <3>1, <4>1
    <3>2. CASE UNCHANGED params
      BY <3>2 DEF NeverBoth
    <3> QED BY <1>4, <3>1, <3>2 DEF Declare, Redeclare, parameters
  <2> QED BY <2>1, <2>2 DEF NeverBoth
<1>5. ASSUME NEW r \in Worker, Move(r) PROVE NeverBoth'
  <2>1. ~Clash(control_values')
    BY <1>5 DEF Move, move_control_values, NoControls, Clash, Absent
  <2>2. \A s \in Worker : ~Clash(held'[s])
    BY <1>5 DEF Move, NeverBoth, ControlsTypeOK
  <2> QED BY <1>5, <2>1, <2>2 DEF Move, move_control_values, NeverBoth
<1>6. ASSUME NEW r \in Worker, Queue(r) \/ QueueRefused(r) \/ QueueFails(r) PROVE NeverBoth'
  <2>1. ~Clash(NoControls)
    BY DEF NoControls, Clash, Absent
  <2>2. held' = [held EXCEPT ![r] = NoControls] /\ UNCHANGED <<params, control_values>>
    BY <1>6 DEF Queue, QueueRefused, QueueFails, Dropped, parameters
  <2>3. \A s \in Worker : ~Clash(held'[s])
    BY <2>1, <2>2 DEF NeverBoth, ControlsTypeOK
  <2> QED BY <2>2, <2>3 DEF NeverBoth
<1>7. CASE UNCHANGED controlsVars
  BY <1>7 DEF controlsVars, parameters, worker, NeverBoth
<1>8. ASSUME NEW r \in Worker, redeclare(r) PROVE NeverBoth'
  BY <1>8, <1>3, <1>4 DEF redeclare
<1> QED BY <1>1, <1>2, <1>5, <1>6, <1>7, <1>8 DEF ControlsNext, Carry

THEOREM NeverBothCorrect == ControlsSpec => []NeverBoth
BY ControlsTypeCorrect, NeverBothInit, NeverBothStep, PTL DEF ControlsSpec
-----------------------------------------------------------------------------
(***************************************************************************)
(* Delivered.  While nothing has been dropped or overtaken, the exposures  *)
(* W that the camera will go through lead from the one it has, by the      *)
(* controls that the requests hold, in the order in which they took them,  *)
(* and by those that none has taken yet, to the one that is wanted.        *)
(***************************************************************************)
Reaches(W) ==
  /\ W[0] = inCamera
  /\ \A i \in 1..Len(moved) : W[i] = Apply(W[i - 1], held[moved[i]])
  /\ wanted = Apply(W[Len(moved)], control_values)

(* Those that hold controls have taken them once each; the controls that   *)
(* the camera was started with may be taken along, but are in it already.  *)
HoldsOnce ==
  /\ \A i, j \in 1..Len(moved) : moved[i] = moved[j] => i = j
  /\ \A r \in Worker : held[r] # NoControls <=> \E i \in 1..Len(moved) : moved[i] = r

AtStart == /\ moved = <<>> /\ wanted = inCamera
           /\ Apply(inCamera, control_values) = inCamera

OrderInv ==
  /\ HoldsOnce
  /\ accepted \/ control_values = NoControls \/ AtStart
  /\ \E W \in [0..Len(moved) -> Exposed] : Reaches(W)

HeldInv == \A r \in Worker : held[r] # NoControls => at[r] = "queue"

DeliveredInv == HeldInv /\ (~lost => OrderInv)

LEMMA DeliveredInit == ControlsInit => DeliveredInv
<1> SUFFICES ASSUME ControlsInit PROVE DeliveredInv
  OBVIOUS
<1> DEFINE x == [mode |-> "auto", time |-> Nothing]
<1>1. inCamera = Apply(x, control_values) /\ wanted = inCamera /\ moved = <<>>
  BY DEF ControlsInit
<1>2. inCamera \in Exposed /\ Apply(inCamera, control_values) = inCamera
  <2>1. control_values \in ControlList /\ x \in Exposure
    BY ControlsTypeInit DEF ControlsTypeOK, Exposure, Mode
  <2> QED BY <1>1, <2>1, ApplyExposed, ApplyAgain
<1>3. Len(moved) = 0
  BY <1>1
<1> HIDE DEF x
<1>4. \E W \in [0..Len(moved) -> Exposed] : Reaches(W)
  <2> DEFINE W == [i \in 0..0 |-> inCamera]
  <2>1. W \in [0..Len(moved) -> Exposed] /\ W[0] = inCamera
    BY <1>1, <1>2, <1>3
  <2>2. wanted = Apply(W[Len(moved)], control_values)
    BY <1>1, <1>2, <1>3, <2>1
  <2>3. Reaches(W)
    BY <1>3, <2>1, <2>2 DEF Reaches
  <2> QED BY <2>1, <2>3
<1>5. HoldsOnce /\ HeldInv
  BY <1>3 DEF HoldsOnce, HeldInv, ControlsInit
<1> QED BY <1>1, <1>2, <1>4, <1>5 DEF DeliveredInv, OrderInv, AtStart

(* Steps that leave the controls and the exposures alone.                  *)
LEMMA SameOrder ==
  ASSUME OrderInv, UNCHANGED <<control_values, held, inCamera, wanted, accepted, moved>>
  PROVE  OrderInv'
<1>1. PICK W \in [0..Len(moved) -> Exposed] : Reaches(W)
  BY DEF OrderInv
<1>2. moved' = moved /\ held' = held
  OBVIOUS
<1>3. W \in [0..Len(moved') -> Exposed] /\ Reaches(W)'
  BY <1>1, <1>2 DEF Reaches
<1>4. HoldsOnce'
  BY <1>2 DEF OrderInv, HoldsOnce
<1>5. (accepted \/ control_values = NoControls \/ AtStart)'
  BY DEF OrderInv, AtStart
<1> QED BY <1>3, <1>4, <1>5 DEF OrderInv

LEMMA AcceptOrder ==
  ASSUME ControlsTypeOK, OrderInv, NEW c \in Changes, Accept(c),
         wanted' = Apply(wanted, Controls(Resolved(c))),
         ~accepted \/ control_values = NoControls, accepted',
         UNCHANGED <<held, inCamera, moved>>
  PROVE  OrderInv'
<1>1. PICK W \in [0..Len(moved) -> Exposed] : Reaches(W)
  BY DEF OrderInv
<1>2. Len(moved) \in Nat /\ W[Len(moved)] \in Exposed
  BY <1>1 DEF ControlsTypeOK
<1>3. wanted = W[Len(moved)]
  <2>1. CASE control_values = NoControls
    BY <1>1, <1>2, <2>1, ApplyNone DEF Reaches
  <2>2. CASE AtStart
    BY <1>1, <2>2 DEF Reaches, AtStart
  <2> QED BY <2>1, <2>2 DEF OrderInv
<1>4. wanted' = Apply(W[Len(moved)], control_values')
  BY <1>3 DEF Accept
<1>5. moved' = moved /\ held' = held
  OBVIOUS
<1>6. W \in [0..Len(moved') -> Exposed] /\ Reaches(W)'
  BY <1>1, <1>4, <1>5 DEF Reaches
<1>7. HoldsOnce'
  BY <1>5 DEF OrderInv, HoldsOnce
<1> QED BY <1>6, <1>7 DEF OrderInv

LEMMA MoveOrder ==
  ASSUME ControlsTypeOK, HeldInv, OrderInv, NEW r \in Worker, Move(r)
  PROVE  OrderInv'
<1> DEFINE n == Len(moved)
<1>1. PICK W \in [0..n -> Exposed] : Reaches(W)
  BY DEF OrderInv
<1>2. n \in Nat /\ moved \in Seq(Worker) /\ W[n] \in Exposed
  BY <1>1 DEF ControlsTypeOK
<1>3. held[r] = NoControls /\ (\A i \in 1..n : moved[i] # r)
  <2>1. held[r] = NoControls
    BY DEF Move, Steps, HeldInv
  <2> QED BY <2>1 DEF OrderInv, HoldsOnce
<1>4. held' = [held EXCEPT ![r] = control_values] /\ held \in [Worker -> ControlList]
  BY DEF Move, ControlsTypeOK
<1>5. control_values' = NoControls /\ inCamera' = inCamera /\ wanted' = wanted
  BY DEF Move, Steps, move_control_values
<1>6. CASE control_values = NoControls
  <2>1. held' = held
    BY <1>3, <1>4, <1>6
  <2>2. moved' = moved
    BY <1>6 DEF Move
  <2>3. W \in [0..Len(moved') -> Exposed] /\ Reaches(W)'
    BY <1>1, <1>5, <1>6, <2>1, <2>2 DEF Reaches
  <2>4. HoldsOnce'
    BY <2>1, <2>2 DEF OrderInv, HoldsOnce
  <2> QED BY <1>5, <2>3, <2>4 DEF OrderInv
<1>7. CASE control_values # NoControls
  <2>1. moved' = Append(moved, r)
    BY <1>7 DEF Move
  <2>2. /\ Len(moved') = n + 1 /\ moved'[n + 1] = r
        /\ \A i \in 1..n : moved'[i] = moved[i] /\ moved[i] \in Worker
    BY <1>2, <2>1
  <2>3. \A i \in 1..n : held'[moved'[i]] = held[moved[i]]
    BY <1>3, <1>4, <2>2
  <2>4. held'[r] = control_values
    BY <1>4
  <2> HIDE DEF n
  <2>5. wanted \in Exposed /\ wanted = Apply(W[n], control_values)
    <3>1. wanted = Apply(W[n], control_values)
      BY <1>1 DEF Reaches, n
    <3> QED BY <3>1, <1>2, ApplyExposed DEF ControlsTypeOK, Exposed
  <2>6. PICK V \in [0..(n + 1) -> Exposed] : V[n + 1] = wanted /\ (\A i \in 0..n : V[i] = W[i])
    <3> DEFINE U == [i \in 0..(n + 1) |-> IF i <= n THEN W[i] ELSE wanted]
    <3>1. U \in [0..(n + 1) -> Exposed] /\ U[n + 1] = wanted /\ (\A i \in 0..n : U[i] = W[i])
      BY <1>1, <1>2, <2>5
    <3> QED BY <3>1
  <2>7. V[n + 1] = wanted /\ (\A i \in 0..n : V[i] = W[i])
    BY <2>6
  <2>8. V[0] = inCamera'
    BY <1>1, <1>2, <1>5, <2>7 DEF Reaches
  <2>9. ASSUME NEW i \in 1..(n + 1) PROVE V[i] = Apply(V[i - 1], held'[moved'[i]])
    <3>1. CASE i = n + 1
      <4>1. i - 1 = n /\ V[n] = W[n]
        BY <1>2, <2>7, <3>1
      <4> QED BY <4>1, <3>1, <2>2, <2>4, <2>5, <2>7
    <3>2. CASE i # n + 1
      <4>1. i \in 1..n /\ i - 1 \in 0..n /\ i \in 0..n
        BY <1>2, <3>2
      <4>2. W[i] = Apply(W[i - 1], held[moved[i]])
        BY <1>1, <4>1 DEF Reaches, n
      <4> QED BY <4>1, <4>2, <2>3, <2>7
    <3> QED BY <3>1, <3>2
  <2>10. wanted' = Apply(V[n + 1], control_values')
    BY <1>5, <2>5, <2>7, ApplyNone
  <2>11. Reaches(V)'
    BY <2>2, <2>8, <2>9, <2>10 DEF Reaches
  <2>12. HoldsOnce'
    <3>1. \A i, j \in 1..(n + 1) : moved'[i] = moved'[j] => i = j
      <4>1. \A i \in 1..(n + 1) : i \in 1..n \/ i = n + 1
        BY <1>2
      <4>2. \A i, j \in 1..n : moved[i] = moved[j] => i = j
        BY DEF OrderInv, HoldsOnce, n
      <4> QED BY <4>1, <4>2, <2>2, <1>3
    <3>2. ASSUME NEW s \in Worker
          PROVE  held'[s] # NoControls <=> \E i \in 1..(n + 1) : moved'[i] = s
      <4>1. CASE s = r
        <5>1. n + 1 \in 1..(n + 1)
          BY <1>2
        <5> QED BY <4>1, <5>1, <1>7, <2>2, <2>4
      <4>2. CASE s # r
        <5>1. held'[s] = held[s]
          BY <1>4, <4>2
        <5>2. held[s] # NoControls <=> \E i \in 1..n : moved[i] = s
          BY DEF OrderInv, HoldsOnce, n
        <5>3. \A i \in 1..(n + 1) : i \in 1..n \/ i = n + 1
          BY <1>2
        <5>4. \A i \in 1..n : i \in 1..(n + 1)
          BY <1>2
        <5> QED BY <4>2, <5>1, <5>2, <5>3, <5>4, <2>2
      <4> QED BY <4>1, <4>2
    <3> QED BY <2>2, <3>1, <3>2 DEF HoldsOnce
  <2>13. V \in [0..Len(moved') -> Exposed]
    BY <2>2, <2>6
  <2> QED BY <1>5, <2>11, <2>12, <2>13 DEF OrderInv
<1> QED BY <1>6, <1>7

LEMMA QueueOrder ==
  ASSUME ControlsTypeOK, OrderInv, NEW r \in Worker, Queue(r), ~Overtakes(r)
  PROVE  OrderInv'
<1> DEFINE n == Len(moved)
<1>1. PICK W \in [0..n -> Exposed] : Reaches(W)
  BY DEF OrderInv
<1>2. n \in Nat /\ moved \in Seq(Worker)
  BY DEF ControlsTypeOK
<1>3. held' = [held EXCEPT ![r] = NoControls] /\ held \in [Worker -> ControlList]
  BY DEF Queue, ControlsTypeOK
<1>4. /\ UNCHANGED <<control_values, wanted, accepted>>
      /\ inCamera' = Apply(inCamera, held[r])
  BY DEF Queue, Steps, parameters
<1>5. CASE held[r] = NoControls
  <2>1. held' = held
    BY <1>3, <1>5
  <2>2. ~InTurn(r)
    <3>1. InTurn(r) => 1 \in 1..n /\ moved[1] = r
      BY <1>2 DEF InTurn
    <3> QED BY <1>5, <3>1 DEF OrderInv, HoldsOnce
  <2>3. moved' = moved
    BY <2>2 DEF Queue
  <2>4. inCamera \in Exposed
    BY <1>1, <1>2 DEF Reaches
  <2>5. inCamera' = inCamera
    BY <1>4, <1>5, <2>4, ApplyNone
  <2> QED BY <1>4, <2>1, <2>3, <2>5, SameOrder
<1>6. CASE InTurn(r) /\ held[r] # NoControls
  <2>1. moved # <<>> /\ moved[1] = r /\ moved' = Tail(moved)
    BY <1>2, <1>6 DEF InTurn, Queue
  <2>2. n \in Nat \ {0} /\ Len(moved') = n - 1 /\ (\A i \in 1..(n - 1) : moved'[i] = moved[i + 1])
    BY <1>2, <2>1
  <2>3. \A i \in 1..n : moved[i] \in Worker /\ (i # 1 => moved[i] # r)
    <3>1. \A i, j \in 1..n : moved[i] = moved[j] => i = j
      BY DEF OrderInv, HoldsOnce
    <3>2. 1 \in 1..n
      BY <2>2
    <3> QED BY <1>2, <2>1, <3>1, <3>2
  <2> HIDE DEF n
  <2>4. \A i \in 1..(n - 1) : /\ i + 1 \in 1..n /\ i \in 0..n /\ i \in 0..(n - 1)
                              /\ i - 1 \in 0..(n - 1) /\ (i - 1) + 1 = i /\ (i + 1) - 1 = i
                              /\ i + 1 # 1
    BY <2>2
  <2>5. \A i \in 1..(n - 1) : held'[moved'[i]] = held[moved[i + 1]]
    BY <1>3, <2>2, <2>3, <2>4
  <2>6. PICK V \in [0..(n - 1) -> Exposed] : \A i \in 0..(n - 1) : V[i] = W[i + 1]
    <3> DEFINE U == [i \in 0..(n - 1) |-> W[i + 1]]
    <3>1. U \in [0..(n - 1) -> Exposed] /\ (\A i \in 0..(n - 1) : U[i] = W[i + 1])
      BY <1>1, <2>2
    <3> QED BY <3>1
  <2>7. \A i \in 0..(n - 1) : V[i] = W[i + 1]
    BY <2>6
  <2>8. \A i \in 1..n : W[i] = Apply(W[i - 1], held[moved[i]])
    BY <1>1 DEF Reaches, n
  <2>9. V[0] = inCamera'
    <3>1. 1 \in 1..n /\ 0 \in 0..(n - 1) /\ 1 - 1 = 0 /\ 0 + 1 = 1
      BY <2>2
    <3>2. W[1] = Apply(W[0], held[moved[1]])
      BY <2>8, <3>1
    <3> QED BY <1>1, <1>4, <2>1, <2>7, <3>1, <3>2 DEF Reaches
  <2>10. ASSUME NEW i \in 1..(n - 1) PROVE V[i] = Apply(V[i - 1], held'[moved'[i]])
    <3>1. V[i] = W[i + 1] /\ V[i - 1] = W[i]
      BY <2>4, <2>7
    <3>2. W[i + 1] = Apply(W[i], held[moved[i + 1]])
      BY <2>4, <2>8
    <3> QED BY <2>5, <3>1, <3>2
  <2>11. wanted' = Apply(V[n - 1], control_values')
    <3>1. n - 1 \in 0..(n - 1) /\ (n - 1) + 1 = n
      BY <2>2
    <3> QED BY <1>1, <1>4, <2>7, <3>1 DEF Reaches, n
  <2>12. Reaches(V)'
    BY <2>2, <2>9, <2>10, <2>11 DEF Reaches
  <2>13. HoldsOnce'
    <3>1. \A i, j \in 1..n : moved[i] = moved[j] => i = j
      BY DEF OrderInv, HoldsOnce, n
    <3>2. \A i, j \in 1..(n - 1) : moved'[i] = moved'[j] => i = j
      <4>1. \A i, j \in 1..(n - 1) : i + 1 = j + 1 => i = j
        BY <2>2
      <4> QED BY <2>2, <2>4, <3>1, <4>1
    <3>3. ASSUME NEW s \in Worker
          PROVE  held'[s] # NoControls <=> \E i \in 1..(n - 1) : moved'[i] = s
      <4>1. CASE s = r
        <5>1. held'[s] = NoControls
          BY <1>3, <4>1
        <5> QED BY <4>1, <5>1, <2>2, <2>3, <2>4
      <4>2. CASE s # r
        <5>1. held'[s] = held[s]
          BY <1>3, <4>2
        <5>2. held[s] # NoControls <=> \E i \in 1..n : moved[i] = s
          BY DEF OrderInv, HoldsOnce, n
        <5>3. ASSUME NEW i \in 1..n, moved[i] = s PROVE \E j \in 1..(n - 1) : moved'[j] = s
          <6>1. i # 1
            BY <2>1, <4>2, <5>3
          <6>2. i - 1 \in 1..(n - 1) /\ (i - 1) + 1 = i
            BY <2>2, <6>1
          <6> QED BY <2>2, <5>3, <6>2
        <5>4. ASSUME NEW j \in 1..(n - 1), moved'[j] = s PROVE \E i \in 1..n : moved[i] = s
          BY <2>2, <2>4, <5>4
        <5> QED BY <5>1, <5>2, <5>3, <5>4
      <4> QED BY <4>1, <4>2
    <3> QED BY <2>2, <3>2, <3>3 DEF HoldsOnce
  <2>14. V \in [0..Len(moved') -> Exposed]
    BY <2>2, <2>6
  <2>15. (accepted \/ control_values = NoControls)'
    BY <1>4, <2>1 DEF OrderInv, AtStart
  <2> QED BY <2>12, <2>13, <2>14, <2>15 DEF OrderInv
<1> QED BY <1>5, <1>6 DEF Overtakes

LEMMA DeliveredStep ==
  ControlsTypeOK /\ DeliveredInv /\ [ControlsNext]_controlsVars => DeliveredInv'
<1> SUFFICES ASSUME ControlsTypeOK, DeliveredInv, [ControlsNext]_controlsVars
             PROVE  DeliveredInv'
  OBVIOUS
<1>1. ASSUME NEW c \in Changes, Set(c) PROVE DeliveredInv'
  <2>1. HeldInv' /\ UNCHANGED <<held, inCamera, moved>>
    BY <1>1 DEF Set, worker, HeldInv, DeliveredInv
  <2>2. CASE UNCHANGED <<control_values, wanted, accepted, lost>>
    BY <2>1, <2>2, SameOrder DEF DeliveredInv
  <2>3. CASE /\ Accept(c)
             /\ wanted' = Apply(wanted, Controls(Resolved(c)))
             /\ accepted' = TRUE
             /\ lost' = (lost \/ (accepted /\ control_values # NoControls))
    BY <2>1, <2>3, AcceptOrder DEF DeliveredInv
  <2> QED BY <1>1, <2>2, <2>3 DEF Set, RefuseUnasked, Reject, parameters
<1>2. ASSUME NEW r \in Worker, NEW from, NEW to, Steps(r, from, to), from # "queue",
             UNCHANGED <<control_values, held, inCamera, order>>
      PROVE  DeliveredInv'
  <2>1. HeldInv'
    BY <1>2 DEF Steps, HeldInv, DeliveredInv, ControlsTypeOK
  <2>2. ~lost => OrderInv'
    BY <1>2, SameOrder DEF DeliveredInv, Steps, order
  <2> QED BY <1>2, <2>1, <2>2 DEF DeliveredInv, order
<1>3. ASSUME NEW r \in Worker, Move(r) PROVE DeliveredInv'
  <2>1. HeldInv'
    BY <1>3 DEF Move, Steps, HeldInv, DeliveredInv, ControlsTypeOK
  <2>2. lost' = lost
    BY <1>3 DEF Move
  <2> QED BY <1>3, <2>1, <2>2, MoveOrder DEF DeliveredInv
<1>4. ASSUME NEW r \in Worker, Queue(r) PROVE DeliveredInv'
  <2>1. HeldInv'
    BY <1>4 DEF Queue, Steps, HeldInv, DeliveredInv, ControlsTypeOK
  <2>2. ~lost' => ~lost /\ ~Overtakes(r)
    BY <1>4 DEF Queue
  <2> QED BY <1>4, <2>1, <2>2, QueueOrder DEF DeliveredInv
<1>5. ASSUME NEW r \in Worker, Woken(r) \/ redeclare(r) PROVE DeliveredInv'
  <2>1. PICK from, to : /\ Steps(r, from, to) /\ from # "queue"
                        /\ UNCHANGED <<control_values, held, inCamera, order>>
    BY <1>5 DEF Woken, redeclare, Has, Declare, Redeclare, parameters
  <2> QED BY <2>1, <1>2
<1>6. CASE UNCHANGED controlsVars
  BY <1>6, SameOrder
     DEF controlsVars, parameters, worker, past, order, DeliveredInv, HeldInv
<1>7. ASSUME NEW r \in Worker, QueueRefused(r) \/ QueueFails(r) PROVE DeliveredInv'
  <2>1. PICK to : Steps(r, "queue", to) /\ Dropped(r)
    BY <1>7 DEF QueueRefused, QueueFails
  <2>2. HeldInv'
    BY <2>1 DEF Steps, Dropped, HeldInv, DeliveredInv, ControlsTypeOK
  <2>3. ASSUME ~lost' PROVE OrderInv'
    <3>1. ~lost /\ held[r] = NoControls
      BY <2>1, <2>3 DEF Dropped
    <3>2. held' = held
      BY <2>1, <3>1 DEF Dropped, ControlsTypeOK
    <3> QED BY <2>1, <3>1, <3>2, SameOrder DEF Steps, Dropped, parameters, DeliveredInv
  <2> QED BY <2>2, <2>3 DEF DeliveredInv
<1> QED BY <1>1, <1>3, <1>4, <1>5, <1>6, <1>7 DEF ControlsNext, Carry

LEMMA DeliveredEnough == ControlsTypeOK /\ DeliveredInv => Delivered
<1> SUFFICES ASSUME ControlsTypeOK, DeliveredInv, Quiet, ~lost PROVE inCamera = wanted
  BY DEF Delivered
<1>1. PICK W \in [0..Len(moved) -> Exposed] : Reaches(W)
  BY DEF DeliveredInv, OrderInv
<1>2. Len(moved) = 0
  <2>1. \A r \in Worker : held[r] = NoControls
    BY DEF Quiet, DeliveredInv, HeldInv
  <2>2. \A i \in 1..Len(moved) : moved[i] \in Worker
    BY DEF ControlsTypeOK
  <2>3. Len(moved) \in Nat /\ (Len(moved) # 0 => 1 \in 1..Len(moved))
    BY DEF ControlsTypeOK
  <2> QED BY <2>1, <2>2, <2>3 DEF DeliveredInv, OrderInv, HoldsOnce
<1>3. W[0] \in Exposed /\ W[0] = inCamera /\ wanted = Apply(W[0], NoControls)
  BY <1>1, <1>2 DEF Reaches, Quiet
<1> QED BY <1>3, ApplyNone

THEOREM DeliveredCorrect == ControlsSpec => []Delivered
BY ControlsTypeCorrect, DeliveredInit, DeliveredStep, DeliveredEnough, PTL DEF ControlsSpec
=============================================================================
