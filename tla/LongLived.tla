----------------------------- MODULE LongLived -----------------------------
(***************************************************************************)
(* What lives on between two scrapes, or beside them: the goroutine of the *)
(* Windows service, the worker of a PDH collector, and the state that      *)
(* bitlocker, update and container keep.  A behaviour moves one of them,   *)
(* the mover, and leaves the others where they start.                      *)
(***************************************************************************)
EXTENDS CollectorState, PdhCollector, Service

VARIABLE mover

stateVars == <<subject, vars, update, container>>

LiveInit ==
  /\ mover \in {"state", "pdh", "service"}
  /\ StateInit   /\ (mover # "state" => subject = "container")
  /\ ProcessInit /\ (mover # "service" => ~isService /\ eventLog = "ok")
  /\ PdhInit

LiveNext ==
  /\ UNCHANGED mover
  /\ \/ mover = "state"   /\ StateNext   /\ UNCHANGED <<pdhVars, processVars>>
     \/ mover = "pdh"     /\ PdhNext     /\ UNCHANGED <<stateVars, processVars>>
     \/ mover = "service" /\ ProcessNext /\ UNCHANGED <<stateVars, pdhVars>>

\* The fairness of the three; of Service only Startup can be taken where it starts.
LiveSpec ==
  /\ LiveInit /\ [][LiveNext]_<<mover, stateVars, pdhVars, processVars>>
  /\ StateFairness /\ PdhFairness
  /\ WF_processVars(mover = "service" /\ Startup) /\ ProcessEndFairness
=============================================================================
