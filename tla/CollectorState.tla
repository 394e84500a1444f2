--------------------------- MODULE CollectorState ---------------------------
(***************************************************************************)
(* The collectors that keep something from one call of Collect for the     *)
(* next: the channels of bitlocker's worker, what update's scheduler has   *)
(* found and the caches of container.  They share nothing, so a behaviour  *)
(* moves one of them, the subject, and leaves the others where they start. *)
(***************************************************************************)
EXTENDS Bitlocker

CONSTANTS UpdateCalls, \* the calls of Collect of update
          Gens, Containers, Jobs, Pause

VARIABLES subject,
          build, sched, initErr, descs, uCancelled, buf, fetched, last, uCall, got,
          life, written, attached, hcs, job, cpc, todo, ids, seen, early

U == INSTANCE UpdateCollector WITH Calls <- UpdateCalls, cancelled <- uCancelled, call <- uCall
K == INSTANCE ContainerCache

update    == <<build, sched, initErr, descs, uCancelled, buf, fetched, last, uCall, got>>
container == <<life, written, attached, hcs, job, cpc, todo, ids, seen, early>>

StateInit ==
  /\ subject \in {"bitlocker", "update", "container"}
  /\ Init /\ U!Init /\ K!Init

StateNext ==
  /\ UNCHANGED subject
  /\ \/ subject = "bitlocker" /\ Next    /\ UNCHANGED <<update, container>>
     \/ subject = "update"    /\ U!Next  /\ UNCHANGED <<vars, container>>
     \/ subject = "container" /\ K!Next  /\ UNCHANGED <<vars, update>>

\* The fairness of Bitlocker and of UpdateCollector.
StateFairness ==
  /\ WF_vars(subject = "bitlocker" /\ Worker)
  /\ \A k \in Calls : SF_vars(subject = "bitlocker" /\ Caller(k))
  /\ WF_update(subject = "update" /\ U!BuildCall)
  /\ WF_update(subject = "update" /\ U!Scheduler)
  /\ SF_update(subject = "update" /\ U!ContextDone)
  /\ \A k \in UpdateCalls : WF_update(subject = "update" /\ U!CollectReturn(k))

StateSpec ==
  /\ StateInit /\ [][StateNext]_<<subject, vars, update, container>>
  /\ StateFairness

\* What Collect of update sends is what the last search found.
NoStaleMetrics == U!NoStaleMetrics

\* Build of update returns, and Close ends its scheduler unless every search fails.
SchedulerAnswers == U!SchedulerAnswers

\* Metrics of a container carry its own annotations.
AnnotationsOwn == K!AnnotationsOwn

\* The labels of a running container never change.
LabelsStable == K!LabelsStable

\* What the comments of container say: the caches lose the containers that no longer run.
StoppedRemoved == K!StoppedRemoved
=============================================================================
