--------------------------- MODULE UpdateCollector ---------------------------
(***************************************************************************)
(* The update collector (internal/collector/update): Build starts a        *)
(* scheduler goroutine, waits on initErrCh for its initialisation and only *)
(* then makes the descriptors the scheduler uses; the scheduler searches   *)
(* for updates again and again and keeps the metrics in metricsBuf, which  *)
(* Collect sends under the read lock.                                      *)
(***************************************************************************)
EXTENDS Naturals, FiniteSets

CONSTANTS Calls,     \* overlapping calls of Collect
          Gens       \* bound: successful searches told apart

VARIABLES build,     \* where Build is
          sched,     \* where scheduleUpdateStatus is
          initErr,   \* initErrCh: "empty", "error" or "closed"
          descs,     \* the descriptors have been made
          cancelled, \* the context has been cancelled
          buf,       \* metricsBuf: 0 is nil, n those of search n
          fetched,   \* number of the last successful search, counted in a circle
          last,      \* result of the last search: 0 for an error
          call,      \* call -> where its Collect is
          got        \* call -> the metrics it sends

vars == <<build, sched, initErr, descs, cancelled, buf, fetched, last, call, got>>

Init ==
  /\ build = "none" /\ sched = "none" /\ initErr = "empty"
  /\ descs = FALSE /\ cancelled = FALSE
  /\ buf = 0 /\ fetched = 0 /\ last = 0
  /\ call = [k \in Calls |-> "idle"] /\ got = [k \in Calls |-> 0]

\* A panic of the scheduler is recovered by nobody and ends the process.
Alive == sched # "crashed"

BuildStart ==
  /\ build = "none"
  /\ build' = "waiting" /\ sched' = "init"
  /\ UNCHANGED <<initErr, descs, cancelled, buf, fetched, last, call, got>>

BuildError ==
  /\ Alive /\ build = "waiting" /\ initErr = "error"
  /\ build' = "failed"
  /\ UNCHANGED <<sched, initErr, descs, cancelled, buf, fetched, last, call, got>>

BuildGo ==
  /\ Alive /\ build = "waiting" /\ initErr = "closed"
  /\ build' = "describing"
  /\ UNCHANGED <<sched, initErr, descs, cancelled, buf, fetched, last, call, got>>

BuildReturn ==
  /\ Alive /\ build = "describing"
  /\ build' = "returned" /\ descs' = TRUE
  /\ UNCHANGED <<sched, initErr, cancelled, buf, fetched, last, call, got>>

-----------------------------------------------------------------------------
(* scheduleUpdateStatus *)

\* Mutant: one of the error paths returns without a word.
InitFailsSilently ==
  /\ sched = "init"
  /\ sched' = "ended"
  /\ UNCHANGED <<build, initErr, descs, cancelled, buf, fetched, last, call, got>>

\* Any of the eight COM calls fails; its error goes into the channel.
InitFails ==
  /\ sched = "init"
  /\ initErr' = "error" /\ sched' = "ended"
  /\ UNCHANGED <<build, descs, cancelled, buf, fetched, last, call, got>>

InitDone ==
  /\ sched = "init"
  /\ initErr' = "closed" /\ sched' = "fetch"
  /\ UNCHANGED <<build, descs, cancelled, buf, fetched, last, call, got>>

\* The search, or reading its result, fails.
FetchFails ==
  /\ sched = "fetch"
  /\ last' = 0 /\ sched' = "clear"
  /\ UNCHANGED <<build, initErr, descs, cancelled, buf, fetched, call, got>>

\* MustNewConstMetric panics on a descriptor Build has not made yet.
FetchDone ==
  /\ sched = "fetch"
  /\ IF descs
     THEN fetched' = (fetched % Gens) + 1 /\ last' = fetched' /\ sched' = "store"
     ELSE sched' = "crashed" /\ UNCHANGED <<fetched, last>>
  /\ UNCHANGED <<build, initErr, descs, cancelled, buf, call, got>>

\* The write lock waits for every Collect that holds the read lock.
Unlocked == \A k \in Calls : call[k] # "sending"

\* Mutant: an error leaves the old metrics.
ClearNothing ==
  /\ sched = "clear" /\ Unlocked
  /\ sched' = "fetch"
  /\ UNCHANGED <<build, initErr, descs, cancelled, buf, fetched, last, call, got>>

\* metricsBuf = nil, and the next search follows at once.
Clear ==
  /\ sched = "clear" /\ Unlocked
  /\ buf' = 0 /\ sched' = "fetch"
  /\ UNCHANGED <<build, initErr, descs, cancelled, fetched, last, call, got>>

Store ==
  /\ sched = "store" /\ Unlocked
  /\ buf' = last /\ sched' = "wait"
  /\ UNCHANGED <<build, initErr, descs, cancelled, fetched, last, call, got>>

IntervalOver ==
  /\ sched = "wait"
  /\ sched' = "fetch"
  /\ UNCHANGED <<build, initErr, descs, cancelled, buf, fetched, last, call, got>>

ContextDone ==
  /\ sched = "wait" /\ cancelled
  /\ sched' = "ended"
  /\ UNCHANGED <<build, initErr, descs, cancelled, buf, fetched, last, call, got>>

-----------------------------------------------------------------------------
\* Build has returned without an error (none of its errors is tolerated).  RLock waits
\* while the scheduler is waiting for the write lock.
Collect(k) ==
  /\ Alive /\ build = "returned" /\ call[k] = "idle"
  /\ sched \notin {"clear", "store"}
  /\ IF buf = 0 THEN UNCHANGED <<call, got>> \* ErrNoUpdates
     ELSE call' = [call EXCEPT ![k] = "sending"] /\ got' = [got EXCEPT ![k] = buf]
  /\ UNCHANGED <<build, sched, initErr, descs, cancelled, buf, fetched, last>>

CollectReturn(k) ==
  /\ Alive /\ call[k] = "sending"
  /\ call' = [call EXCEPT ![k] = "idle"] /\ got' = [got EXCEPT ![k] = 0]
  /\ UNCHANGED <<build, sched, initErr, descs, cancelled, buf, fetched, last>>

Close ==
  /\ Alive /\ build = "returned"
  /\ cancelled' = TRUE
  /\ UNCHANGED <<build, sched, initErr, descs, buf, fetched, last, call, got>>

BuildCall == BuildStart \/ BuildError \/ BuildGo \/ BuildReturn
Scheduler == \/ InitFails \/ InitDone \/ FetchFails \/ FetchDone
             \/ Clear \/ Store \/ IntervalOver \/ ContextDone
Next == BuildCall \/ Scheduler \/ Close \/ \E k \in Calls : Collect(k) \/ CollectReturn(k)

\* Go's select picks among the ready cases at random, so none is passed over for ever.
Spec == Init /\ [][Next]_vars /\ WF_vars(BuildCall) /\ WF_vars(Scheduler) /\ SF_vars(ContextDone)
        /\ \A k \in Calls : WF_vars(CollectReturn(k))

\* What Collect sends is what the last search found: once the result of a search has
\* been stored nobody sends older metrics, and after a failed search none at all.
NoStaleMetrics ==
  /\ \A k \in Calls : call[k] = "sending" => got[k] = buf
  /\ sched \in {"fetch", "wait", "ended"} => buf = last

\* The scheduler can only meet a missing descriptor, and end the process, while Build is
\* still at work.
CrashOnlyDuringBuild == sched = "crashed" => build \in {"waiting", "describing"}

\* Every path through the initialisation tells Build how it ended, and no crash of the
\* scheduler comes after that.
\* Close ends the scheduler unless every later search fails: the loop goes from a failed
\* search to the next one without the select that looks at the context.
SchedulerAnswers ==
  /\ []CrashOnlyDuringBuild
  /\ build = "waiting" ~> (build \in {"returned", "failed"} \/ sched = "crashed")
  /\ cancelled ~> (sched = "ended" \/ [](sched \in {"fetch", "clear"}))
=============================================================================
