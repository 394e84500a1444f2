-------------------------- MODULE CollectorWorkers --------------------------
(***************************************************************************)
(* The two collectors that share the work of one Collect among goroutines: *)
(* process, whose workers live as long as the collector and serve all      *)
(* calls, and service, whose workers belong to one call and read what the  *)
(* collector keeps.  The two share nothing, so a behaviour moves one of    *)
(* them, the subject, and leaves the other where it starts.                *)
(***************************************************************************)
EXTENDS ProcessWorkers, ServiceList

VARIABLE subject

WorkersInit == subject \in {"process", "service"} /\ Init /\ ListInit

WorkersNext ==
  /\ UNCHANGED subject
  /\ \/ subject = "process" /\ Next     /\ UNCHANGED listVars
     \/ subject = "service" /\ ListNext /\ UNCHANGED vars

\* The fairness of ProcessWorkers and of ServiceList, each when it is the subject.
WorkersSpec ==
  /\ WorkersInit /\ [][WorkersNext]_<<subject, vars, listVars>>
  /\ Fairness
  /\ \A k \in Collects : WF_listVars(subject = "service" /\ ListStep(k))
=============================================================================
