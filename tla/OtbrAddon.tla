------------------------------ MODULE OtbrAddon ------------------------------
(***************************************************************************)
(* The OpenThread Border Router add-on as the Supervisor REST API shows    *)
(* it.  It is not part of this repository: the module models what          *)
(* app/supervisor.py reads and requests, and what an administrator and     *)
(* Supervisor itself may do to the add-on in between.                      *)
(*                                                                         *)
(* The code tells three classes of state apart: running ("started",        *)
(* "running"), stopped ("stopped", "not_running") and everything else.     *)
(* The third class is refined here into its causes, because what happens   *)
(* next depends on them.                                                   *)
(***************************************************************************)

VARIABLE otbr

OtbrStates == {"stopped", "startup", "started", "stopping", "error"}

Running == otbr = "started"
Stopped == otbr = "stopped"

\* A stop request that Supervisor honours; it is void unless something runs.
StopTakesEffect ==
  /\ otbr \in {"startup", "started"}
  /\ otbr' \in {"stopping", "stopped"}

\* A start request that Supervisor honours; it is void unless nothing runs.
StartTakesEffect ==
  /\ otbr \in {"stopped", "error"}
  /\ otbr' \in {"startup", "started"}

\* A pending start or stop comes to its end; a start may fail.
OtbrSettles ==
  \/ otbr = "startup"  /\ otbr' \in {"started", "error"}
  \/ otbr = "stopping" /\ otbr' = "stopped"

=============================================================================
