--------------------------- MODULE ProcessWorkers ---------------------------
(***************************************************************************)
(* The process collector (internal/collector/process): Collect hands each  *)
(* process to a pool of worker goroutines over workerCh and waits for its  *)
(* WaitGroup.  Workers recover from panics and restart themselves.  Calls  *)
(* of Collect overlap when an earlier one has timed out; the goroutines of *)
(* the scrape (module Scrape) take whatever workers send.                  *)
(***************************************************************************)
EXTENDS Integers, Sequences, FiniteSets

CONSTANTS Calls,    \* calls of Collect
          Workers,  \* the goroutines Build starts; 4 in the code
          Cap,      \* capacity of workerCh; 32 in the code
          MaxRows   \* bound: processes in one Collect that the filters let through

ASSUME SizesAssumption == /\ Cap \in Nat \ {0} /\ MaxRows \in Nat
                          /\ IsFiniteSet(Workers) /\ Workers # {}

VARIABLES perf,     \* c.perfDataCollector: "none", "live", "error", or a "nil" registry collector
          field,    \* c.workerCh: "nil" or "ch"
          closed,   \* the channel has been closed
          queue,    \* requests in the channel: the call each belongs to
          call,     \* call -> where its Collect is
          rows,     \* call -> processes not yet handed over
          all,      \* call -> processes it found
          wg,       \* call -> the counter of its WaitGroup
          worker,   \* worker -> where it is
          req,      \* worker -> the call of the request it serves
          sent,     \* call -> processes whose metrics have been sent
          lost      \* call -> processes whose worker panicked

vars == <<perf, field, closed, queue, call, rows, all, wg, worker, req, sent, lost>>
calls == <<call, rows, all>>

Init ==
  /\ perf = "none" /\ field = "nil" /\ closed = FALSE /\ queue = <<>>
  /\ call = [k \in Calls |-> "idle"]
  /\ rows = [k \in Calls |-> 0] /\ all = [k \in Calls |-> 0] /\ wg = [k \in Calls |-> 0]
  /\ sent = [k \in Calls |-> 0] /\ lost = [k \in Calls |-> 0]
  /\ worker = [w \in Workers |-> "none"] /\ req = [w \in Workers |-> "none"]

\* pdh.NewCollector or registry.NewCollector fail: no channel, no workers.  A tolerated
\* error (no data yet) can come with a PDH collector that works, any other with one that
\* reports an error, the registry with a nil one.
BuildFails ==
  /\ perf = "none"
  /\ perf' \in {"live", "error", "nil"}
  /\ UNCHANGED <<field, closed, queue, calls, wg, worker, req, sent, lost>>

Build ==
  /\ perf = "none"
  /\ perf' = "live" /\ field' = "ch"
  /\ worker' = [w \in Workers |-> "start"]
  /\ UNCHANGED <<closed, queue, calls, wg, req, sent, lost>>

-----------------------------------------------------------------------------
(* Collect *)

\* The rows are read; an error or a nil collector ends the call at once.
CollectRows(k) ==
  /\ call[k] = "idle" /\ perf # "none"
  /\ \/ /\ perf = "live"
        /\ \E n \in 0..MaxRows : rows' = [rows EXCEPT ![k] = n] /\ all' = [all EXCEPT ![k] = n]
        /\ call' = [call EXCEPT ![k] = "loop"]
     \/ /\ call' = [call EXCEPT ![k] = IF perf = "nil" THEN "panicked" ELSE "failed"]
        /\ UNCHANGED <<rows, all>>
  /\ UNCHANGED <<perf, field, closed, queue, wg, worker, req, sent, lost>>

\* wg.Add(1), and c.workerCh is evaluated: a send on the nil channel waits for ever.
CollectAdd(k) ==
  /\ call[k] = "loop" /\ rows[k] > 0
  /\ wg' = [wg EXCEPT ![k] = @ + 1]
  /\ call' = [call EXCEPT ![k] = IF field = "nil" THEN "stuck" ELSE "send"]
  /\ UNCHANGED <<perf, field, closed, queue, rows, all, worker, req, sent, lost>>

\* A send on the closed channel panics, whether it has been waiting or not.
CollectSend(k) ==
  /\ call[k] = "send"
  /\ \/ /\ ~closed /\ Len(queue) < Cap
        /\ queue' = Append(queue, k)
        /\ rows' = [rows EXCEPT ![k] = @ - 1]
        /\ call' = [call EXCEPT ![k] = "loop"]
     \/ /\ closed
        /\ call' = [call EXCEPT ![k] = "panicked"]
        /\ UNCHANGED <<queue, rows>>
  /\ UNCHANGED <<perf, field, closed, all, wg, worker, req, sent, lost>>

\* Mutant: Collect does not wait for the workers.
CollectNoWait(k) ==
  /\ call[k] = "loop" /\ rows[k] = 0
  /\ call' = [call EXCEPT ![k] = "returned"]
  /\ UNCHANGED <<perf, field, closed, queue, rows, all, wg, worker, req, sent, lost>>

CollectWait(k) ==
  /\ call[k] = "loop" /\ rows[k] = 0
  /\ wg[k] = 0
  /\ call' = [call EXCEPT ![k] = "returned"]
  /\ UNCHANGED <<perf, field, closed, queue, rows, all, wg, worker, req, sent, lost>>

-----------------------------------------------------------------------------
(* collectWorker *)

\* The range statement evaluates c.workerCh once.
WorkerRange(w) ==
  /\ worker[w] = "start"
  /\ worker' = [worker EXCEPT ![w] = IF field = "nil" THEN "stuck" ELSE "receive"]
  /\ UNCHANGED <<perf, field, closed, queue, calls, wg, req, sent, lost>>

WorkerReceive(w) ==
  /\ worker[w] = "receive"
  /\ \/ /\ queue # <<>>
        /\ req' = [req EXCEPT ![w] = Head(queue)] /\ queue' = Tail(queue)
        /\ worker' = [worker EXCEPT ![w] = "serve"]
     \/ /\ queue = <<>> /\ closed
        /\ worker' = [worker EXCEPT ![w] = "ended"]
        /\ UNCHANGED <<queue, req>>
  /\ UNCHANGED <<perf, field, closed, calls, wg, sent, lost>>

\* The channel the metrics go to is closed when Collect returns or panics.
Gone(k) == call[k] \in {"returned", "panicked"}

\* The metrics of one process are sent; the deferred Done comes after them.
WorkerServe(w) ==
  /\ worker[w] = "serve" /\ ~Gone(req[w])
  /\ sent' = [sent EXCEPT ![req[w]] = @ + 1]
  /\ wg' = [wg EXCEPT ![req[w]] = @ - 1]
  /\ worker' = [worker EXCEPT ![w] = "receive"] /\ req' = [req EXCEPT ![w] = "none"]
  /\ UNCHANGED <<perf, field, closed, queue, calls, lost>>

\* Mutants: Done is not deferred; the worker is not started again.
WorkerPanicNoDone(w) ==
  /\ worker[w] = "serve"
  /\ lost' = [lost EXCEPT ![req[w]] = @ + 1]
  /\ worker' = [worker EXCEPT ![w] = "start"] /\ req' = [req EXCEPT ![w] = "none"]
  /\ UNCHANGED <<perf, field, closed, queue, calls, wg, sent>>
WorkerPanicEnds(w) ==
  /\ worker[w] = "serve"
  /\ lost' = [lost EXCEPT ![req[w]] = @ + 1]
  /\ wg' = [wg EXCEPT ![req[w]] = @ - 1]
  /\ worker' = [worker EXCEPT ![w] = "ended"] /\ req' = [req EXCEPT ![w] = "none"]
  /\ UNCHANGED <<perf, field, closed, queue, calls, sent>>

\* Reading an empty command line panics, and so does a send on a channel that is gone.
\* Done is deferred, so it is called all the same; then the worker starts anew.
WorkerPanic(w) ==
  /\ worker[w] = "serve"
  /\ lost' = [lost EXCEPT ![req[w]] = @ + 1]
  /\ wg' = [wg EXCEPT ![req[w]] = @ - 1]
  /\ worker' = [worker EXCEPT ![w] = "start"] /\ req' = [req EXCEPT ![w] = "none"]
  /\ UNCHANGED <<perf, field, closed, queue, calls, sent>>

\* A PDH collector is closed, a registry collector goes on working.
Close ==
  /\ perf # "none"
  /\ perf' \in {perf} \cup (IF perf = "live" THEN {"error"} ELSE {})
  /\ field' = "nil"
  /\ closed' = (closed \/ field = "ch")
  /\ UNCHANGED <<queue, calls, wg, worker, req, sent, lost>>

-----------------------------------------------------------------------------
Step == \/ \E k \in Calls : CollectAdd(k) \/ CollectSend(k) \/ CollectWait(k)
        \/ \E w \in Workers : WorkerRange(w) \/ WorkerReceive(w) \/ WorkerServe(w) \/ WorkerPanic(w)
Next == Build \/ BuildFails \/ (\E k \in Calls : CollectRows(k)) \/ Step \/ Close

\* Every goroutine that can go on does.
Fairness ==
  /\ \A k \in Calls : WF_vars(CollectAdd(k) \/ CollectWait(k)) /\ SF_vars(CollectSend(k))
  /\ \A w \in Workers : WF_vars(WorkerRange(w) \/ WorkerReceive(w) \/ WorkerServe(w) \/ WorkerPanic(w))
Spec == Init /\ [][Next]_vars /\ Fairness

Serving(k) == Cardinality({w \in Workers : worker[w] = "serve" /\ req[w] = k})
Queued(k)  == Cardinality({i \in DOMAIN queue : queue[i] = k})

\* The WaitGroup of a call counts its requests in the channel, those being served, and
\* the one Collect is about to send: no panic of a worker or of Collect loses one.
WaitGroupExact == \A k \in Calls :
  wg[k] = Queued(k) + Serving(k) + (IF call[k] \in {"send", "stuck"} \/ (call[k] = "panicked" /\ all[k] > 0)
                                    THEN 1 ELSE 0)

\* When Collect returns every process it found has been reported, but the ones whose
\* worker panicked: restarts of workers and overlapping calls lose and repeat nothing.
EveryProcessOnce == \A k \in Calls : call[k] = "returned" => sent[k] + lost[k] = all[k]

\* Collect returns, however many workers panic and however full the channel is, unless
\* c.workerCh is nil: Build failed with a collector that works, or Close was called.
CollectReturns == \A k \in Calls :
  call[k] = "loop" ~> (call[k] \in {"returned", "panicked"} \/ field = "nil")
=============================================================================
