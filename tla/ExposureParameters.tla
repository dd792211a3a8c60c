------------------------- MODULE ExposureParameters -------------------------
(***************************************************************************)
(* What camera_ros makes of a request to set parameters: the callbacks of  *)
(* ParameterHandler and ParameterConflictHandler, as rclcpp calls them.    *)
(*                                                                         *)
(* ExposureTime (ET) must not be set while ExposureTimeMode (ETM) is       *)
(* "auto".  AeEnable (AE) is a parameter of its own and is checked against *)
(* neither; libcamera turns it into a mode.  A change names some of the    *)
(* three.  rclcpp holds its lock over the whole of a change; a parameter   *)
(* that is unset is thereby undeclared.  The first declaration of ET has   *)
(* its range and rclcpp checks it; the descriptor that is kept for later   *)
(* declarations has none, and the range is checked by OnSetValidate.       *)
(***************************************************************************)
EXTENDS Naturals

CONSTANTS
  Exposures,   \* values of ExposureTime in its range
  Default,     \* the camera's default ExposureTime
  Overrides    \* what the node may have been given at its start

Mode    == {"auto", "manual"}
Switch  == {"on", "off"}
Absent  == "absent"        \* not named in a change or a list of controls
Nothing == "nothing"       \* declared without a value; no stored value

(* A list of controls, and a change, which may also unset a parameter or   *)
(* ask for an exposure time out of range.                                  *)
ControlList == [ETM: Mode \cup {Absent}, ET: Exposures \cup {Absent},
                AE: Switch \cup {Absent}]
Change      == [ETM: Mode \cup {Absent, "unset"},
                ET: Exposures \cup {Absent, "unset", "outside"},
                AE: Switch \cup {Absent}]
NoControls  == [ETM |-> Absent, ET |-> Absent, AE |-> Absent]

ASSUME ExposureAssumption ==
  /\ Default \in Exposures
  /\ Overrides \subseteq Change
  /\ \A o \in Overrides : o.ETM # "unset" /\ o.ET # "unset"

Parameters == [ETM: Mode \cup {Nothing, "undeclared"},
               ET: Exposures \cup {Nothing, "undeclared"}]

VARIABLES
  params,          \* the parameters that are checked against each other
  ranged,          \* ET is still declared with its range
  store,           \* ParameterConflictHandler::store: an ExposureTime, or Nothing
  tmp_store,
  control_values   \* accepted controls that no request has taken yet

parameters == <<params, ranged, store, tmp_store, control_values>>

IsSet(v) == v \notin {Absent, "unset", Nothing, "undeclared"}

Controls(c) == [p \in DOMAIN c |-> IF IsSet(c[p]) THEN c[p] ELSE Absent]

(* resolve_defaults: automatic exposure, and its default time is put away. *)
(* resolve_overrides: a time that is given makes the exposure manual, and  *)
(* manual exposure without one gets the default time back.                 *)
StartMode(o) == IF o.ET # Absent THEN "manual" ELSE IF o.ETM = Absent THEN "auto" ELSE o.ETM
DefaultUsed(o) == StartMode(o) = "manual" /\ o.ET = Absent

StartChange(o) ==
  [ETM |-> StartMode(o),
   ET  |-> IF DefaultUsed(o) THEN Default ELSE IF o.ET = Absent THEN "unset" ELSE o.ET,
   AE  |-> IF o.AE = Absent THEN "on" ELSE o.AE]

(* The whole goes through the callbacks as one change; if rclcpp refuses   *)
(* it, the camera is started without controls.                             *)
DeclareAll ==
  \E o \in Overrides :
    LET c == StartChange(o)
    IN /\ ranged = TRUE
       /\ store = IF DefaultUsed(o) THEN Nothing ELSE Default
       /\ IF c.ET = "outside"
          THEN /\ params = [ETM |-> Nothing, ET |-> Nothing]
               /\ tmp_store = store /\ control_values = NoControls
          ELSE /\ params = [ETM |-> c.ETM, ET |-> IF IsSet(c.ET) THEN c.ET ELSE Nothing]
               /\ tmp_store = Nothing /\ control_values = Controls(c)
-----------------------------------------------------------------------------
(* restore, before anything is checked: manual exposure gets the stored    *)
(* time back if the change gives none, automatic exposure unsets it.       *)
GivenBack(c) == c.ETM = "manual" /\ ~IsSet(c.ET) /\ store # Nothing

(* Mutant: automatic exposure leaves the time set.                         *)
OnlyGivenBack(c) == IF GivenBack(c) THEN [c EXCEPT !.ET = store] ELSE c

Resolved(c) ==
  IF GivenBack(c) THEN [c EXCEPT !.ET = store]
  ELSE IF c.ETM = "auto" /\ ~IsSet(c.ET) THEN [c EXCEPT !.ET = "unset"]
  ELSE c

Restored(c) == IF GivenBack(c) THEN Nothing ELSE store

(* check: with what is merged from the old parameters.                     *)
Conflict(c) ==
  /\ (IF IsSet(c.ETM) THEN c.ETM ELSE params.ETM) = "auto"
  /\ IsSet(Resolved(c).ET)

(* OnSetValidate says no: a conflict, or a time out of range.              *)
Refused(c) == Conflict(c) \/ Resolved(c).ET = "outside"

(* It is not asked, or does not come to its end: a parameter that is named *)
(* is not declared, get_parameters throws for another one that is not, or  *)
(* the time is out of the range that rclcpp knows.                         *)
NotAsked(c) == \/ \E p \in DOMAIN params : params[p] = "undeclared"
               \/ ranged /\ Resolved(c).ET = "outside"

After(p, v) == IF v = Absent THEN params[p]
               ELSE IF v # "unset" THEN v
               ELSE IF IsSet(params[p]) THEN "undeclared" ELSE params[p]
-----------------------------------------------------------------------------
(* The outcomes of a change; restore asserts that tmp_store is empty.      *)
Aborts == tmp_store # Nothing

(* store_commit_or_revert is not reached: tmp_store keeps its value.       *)
RefuseUnasked(c) ==
  /\ ~Aborts /\ NotAsked(c)
  /\ tmp_store' = Restored(c)
  /\ UNCHANGED <<params, ranged, store, control_values>>

Reject(c) ==
  /\ ~Aborts /\ ~NotAsked(c) /\ Refused(c)
  /\ tmp_store' = Nothing
  /\ UNCHANGED <<params, ranged, store, control_values>>

(* PostSetApply drops what has not been taken yet.                         *)
Accept(c) ==
  /\ ~Aborts /\ ~NotAsked(c) /\ ~Refused(c)
  /\ store' = Restored(c) /\ tmp_store' = Nothing
  /\ params' = [p \in DOMAIN params |-> After(p, Resolved(c)[p])]
  /\ control_values' = Controls(Resolved(c))
  /\ UNCHANGED ranged
-----------------------------------------------------------------------------
(* redeclare, one parameter; declaring one twice throws.                   *)
Redeclare(p) ==
  /\ params' = [params EXCEPT ![p] = Nothing]
  /\ ranged' = (ranged /\ p # "ET")
  /\ UNCHANGED <<store, tmp_store, control_values>>

move_control_values ==
  /\ control_values' = NoControls
  /\ UNCHANGED <<params, ranged, store, tmp_store>>
=============================================================================
