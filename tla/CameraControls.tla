--------------------------- MODULE CameraControls ---------------------------
(***************************************************************************)
(* How a change of the camera's parameters gets to the camera: whichever   *)
(* request completes next redeclares what the change has undeclared, takes *)
(* the accepted controls along and is queued; the camera applies them in   *)
(* the order of the queue.  The requests' threads run at the same time as  *)
(* each other and as the executor, which sets the parameters.              *)
(*                                                                         *)
(* That a request comes round again is CameraNode's concern.  Its controls *)
(* are lost when it does so without the camera having applied them.        *)
(***************************************************************************)
EXTENDS ExposureParameters, Sequences

CONSTANTS
  Worker,     \* the requests' threads, each in process()
  Changes,    \* what is asked to be set
  MaxChanges  \* how often

ASSUME CameraControlsAssumption ==
  /\ Changes \subseteq Change /\ MaxChanges \in Nat
  /\ \A c \in Changes : ~(c.ETM = "manual" /\ c.ET = "unset")

VARIABLES
  at,         \* where the request's thread is in process()
  held,       \* the controls a request has taken but not queued yet
  inCamera,   \* the exposure as the camera has been told
  changes,    \* changes asked for so far
  ended,      \* "no", or how the process came to its end
  wanted,     \* history: the exposure if each change had been applied at once
  accepted,   \* history: control_values are of a change, not of the camera's start
  moved,      \* history: requests that hold controls, in the order they took them
  lost        \* history: controls were dropped, or overtaken by older ones

worker == <<at, held>>
order  == <<accepted, moved, lost>>
past   == <<wanted, order>>
controlsVars == <<parameters, worker, inCamera, changes, ended, past>>

(* process() from the wait to queueRequest; the parameters are redeclared  *)
(* in the order of their names.  "out": the request is not queued again.   *)
WorkerAt == {"camera", "hasET", "declareET", "hasETM", "declareETM", "move", "queue",
             "out"}

(* patchControlList, and the camera: AE means a mode unless ETM is given;  *)
(* a time is ignored in automatic mode, and going over to manual mode      *)
(* keeps the time in use.                                                  *)
ModeOf(m, cl) == IF cl.ETM # Absent THEN cl.ETM
                 ELSE IF cl.AE # Absent THEN (IF cl.AE = "on" THEN "auto" ELSE "manual")
                 ELSE m

Apply(x, cl) ==
  LET mode == ModeOf(x.mode, cl)
  IN [mode |-> mode,
      time |-> IF mode = "auto" THEN Nothing
               ELSE IF cl.ET # Absent THEN cl.ET
               ELSE IF x.mode = "auto" THEN "kept" ELSE x.time]

Exposure == [mode: Mode, time: Exposures \cup {Nothing, "kept"}]

ControlsTypeOK ==
  /\ params \in Parameters /\ ranged \in BOOLEAN /\ control_values \in ControlList
  /\ store \in Exposures \cup {Nothing} /\ tmp_store \in Exposures \cup {Nothing}
  /\ at \in [Worker -> WorkerAt] /\ held \in [Worker -> ControlList]
  /\ inCamera \in Exposure /\ wanted \in Exposure
  /\ changes \in 0..MaxChanges /\ ended \in {"no", "assertion", "exception"}
  /\ accepted \in BOOLEAN /\ moved \in Seq(Worker)
  /\ lost \in BOOLEAN

(* The camera is started with the controls there are; they are not moved.  *)
ControlsInit ==
  /\ DeclareAll
  /\ at = [r \in Worker |-> "camera"] /\ held = [r \in Worker |-> NoControls]
  /\ inCamera = Apply([mode |-> "auto", time |-> Nothing], control_values)
  /\ changes = 0 /\ ended = "no"
  /\ wanted = inCamera /\ accepted = FALSE /\ moved = <<>>
  /\ lost = FALSE
-----------------------------------------------------------------------------
(* The executor: set_parameters with change c.                             *)
Set(c) ==
  /\ ended = "no" /\ changes < MaxChanges
  /\ changes' = changes + 1
  /\ UNCHANGED <<worker, inCamera, moved>>
  /\ \/ /\ Aborts
        /\ ended' = "assertion"
        /\ UNCHANGED <<parameters, wanted, accepted, lost>>
     \/ (RefuseUnasked(c) \/ Reject(c)) /\ UNCHANGED <<ended, wanted, accepted, lost>>
     \/ /\ Accept(c)
        /\ wanted' = Apply(wanted, Controls(Resolved(c)))
        /\ accepted' = TRUE
        /\ lost' = (lost \/ (accepted /\ control_values # NoControls))
        /\ UNCHANGED ended
-----------------------------------------------------------------------------
(* A request's thread.                                                     *)
Steps(r, from, to) ==
  /\ ended = "no" /\ at[r] = from
  /\ at' = [at EXCEPT ![r] = to]
  /\ UNCHANGED <<changes, wanted>>

Woken(r) ==
  Steps(r, "camera", "hasET") /\ UNCHANGED <<parameters, held, inCamera, ended, order>>

Has(r, p, has, declare, next) ==
  /\ Steps(r, has, IF params[p] = "undeclared" THEN declare ELSE next)
  /\ UNCHANGED <<parameters, held, inCamera, ended, order>>

Declare(r, p, declare, next) ==
  /\ Steps(r, declare, next)
  /\ IF params[p] = "undeclared" THEN Redeclare(p) /\ UNCHANGED ended
                                 ELSE ended' = "exception" /\ UNCHANGED parameters
  /\ UNCHANGED <<held, inCamera, order>>

(* Mutant: only the first parameter is looked after.                       *)
RedeclareET(r) ==
  \/ Has(r, "ET", "hasET", "declareET", "hasETM")
  \/ Declare(r, "ET", "declareET", "hasETM")
  \/ Steps(r, "hasETM", "move") /\ UNCHANGED <<parameters, held, inCamera, ended, order>>

redeclare(r) ==
  \/ Has(r, "ET", "hasET", "declareET", "hasETM")
  \/ Declare(r, "ET", "declareET", "hasETM")
  \/ Has(r, "ETM", "hasETM", "declareETM", "move")
  \/ Declare(r, "ETM", "declareETM", "move")

Move(r) ==
  /\ Steps(r, "move", "queue")
  /\ held' = [held EXCEPT ![r] = control_values]
  /\ moved' = IF control_values = NoControls THEN moved ELSE Append(moved, r)
  /\ accepted' = FALSE
  /\ move_control_values
  /\ UNCHANGED <<inCamera, ended, lost>>

(* The order in which controls were taken, as long as none were overtaken. *)
InTurn(r)    == moved # <<>> /\ r = Head(moved)
Overtakes(r) == held[r] # NoControls /\ ~InTurn(r)

(* Mutant: reuse() comes last and clears the controls.                     *)
QueueReused(r) ==
  /\ Steps(r, "queue", "camera")
  /\ held' = [held EXCEPT ![r] = NoControls]
  /\ moved' = IF InTurn(r) THEN Tail(moved) ELSE moved
  /\ lost' = (lost \/ Overtakes(r))
  /\ UNCHANGED <<inCamera, parameters, ended, accepted>>

Queue(r) ==
  /\ Steps(r, "queue", "camera")
  /\ inCamera' = Apply(inCamera, held[r])
  /\ held' = [held EXCEPT ![r] = NoControls]
  /\ moved' = IF InTurn(r) THEN Tail(moved) ELSE moved
  /\ lost' = (lost \/ Overtakes(r))
  /\ UNCHANGED <<parameters, ended, accepted>>

(* What the request carries is not applied.                                *)
Dropped(r) ==
  /\ held' = [held EXCEPT ![r] = NoControls]
  /\ lost' = (lost \/ held[r] # NoControls)
  /\ UNCHANGED <<inCamera, parameters, ended, accepted, moved>>

(* The device refuses the buffer and the request is cancelled: it comes    *)
(* round, and reuse() clears the controls.                                 *)
QueueRefused(r) == Steps(r, "queue", "camera") /\ Dropped(r)

(* queueRequest fails, since the camera is gone.                           *)
QueueFails(r) == Steps(r, "queue", "out") /\ Dropped(r)

Carry(r) == redeclare(r) \/ Move(r) \/ Queue(r) \/ QueueRefused(r) \/ QueueFails(r)
-----------------------------------------------------------------------------
ControlsNext == \/ \E c \in Changes : Set(c)
        \/ \E r \in Worker : Woken(r) \/ Carry(r)

ControlsSpec == ControlsInit /\ [][ControlsNext]_controlsVars

(* Requests that are queued complete, and their threads are scheduled.     *)
ControlsFairness ==
  \A r \in Worker : WF_controlsVars(Woken(r)) /\ WF_controlsVars(Carry(r))

ControlsFairSpec == ControlsSpec /\ ControlsFairness
-----------------------------------------------------------------------------
(* "ExposureTimeMode and ExposureTime must not be set simultaneously": no  *)
(* ExposureTime beside the mode "auto", as parameters or in any list of    *)
(* controls on its way to the camera, whatever is set, unset, given back   *)
(* or redeclared in between.  AeEnable is no part of it: nothing in the    *)
(* code keeps it apart from a time.                                        *)
Clash(x) == x.ETM = "auto" /\ IsSet(x.ET)
NeverBoth == /\ ~Clash(params) /\ ~Clash(control_values)
             /\ \A r \in Worker : ~Clash(held[r])

(* Once all that was accepted has gone through the requests, the camera    *)
(* is exposed as if it had been told at once, although any request's       *)
(* thread may carry any change, unless some was replaced before it was     *)
(* taken, overtaken, or carried by a request that was refused.             *)
Quiet == control_values = NoControls /\ \A r \in Worker : at[r] # "queue"
Delivered == Quiet /\ ~lost => inCamera = wanted

(* A parameter that is unset is declared again, and what was accepted is   *)
(* taken, for as long as a request is in circulation and the process lives. *)
Outstanding(p) == params[p] = "undeclared" \/ control_values # NoControls
Over == ended # "no" \/ \A r \in Worker : at[r] = "out"
Available == \A p \in {"ETM", "ET"} : Outstanding(p) ~> ~Outstanding(p) \/ Over
=============================================================================
