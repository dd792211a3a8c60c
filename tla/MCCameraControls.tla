-------------------------- MODULE MCCameraControls --------------------------
(* Instances of CameraControls for TLC.                                    *)
EXTENDS CameraControls

ETM(v) == [NoControls EXCEPT !.ETM = v]
ET(v)  == [NoControls EXCEPT !.ET = v]
AE(v)  == [NoControls EXCEPT !.AE = v]

\* Each parameter alone, both exposure parameters at once; AE is unrelated to what
\* is checked.  The default time is set by what is given back.
Asked == Exposures \ {Default}
OneOrBoth ==
  {ETM(v) : v \in Mode \cup {"unset"}} \cup {ET(v) : v \in Asked \cup {"unset", "outside"}}
    \cup {AE(v) : v \in Switch}
    \cup {[ETM(m) EXCEPT !.ET = e] : m \in Mode, e \in Asked}

\* Given at the start: nothing, a mode, a time, a time out of range.
SomeOverrides == {NoControls, ETM("manual"), ET("outside")} \cup {ET(e) : e \in Asked}
=============================================================================
