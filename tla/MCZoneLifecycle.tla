-------------------------- MODULE MCZoneLifecycle --------------------------
(* Model-checking instances of ZoneLifecycle: a root zone on CPU 0, and     *)
(* zones on the other CPUs.                                                 *)
EXTENDS ZoneLifecycle, TLC

OneSmpZone == 1 :> {1, 2}

\* Configurations that ask for CPUs others have, the root zone's among them.
Overlapping == 1 :> {1, 2} @@ 2 :> {2} @@ 3 :> {0, 1}
=============================================================================
