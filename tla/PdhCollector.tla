---------------------------- MODULE PdhCollector ----------------------------
(***************************************************************************)
(* The performance counter collector of internal/pdh/collector.go: one     *)
(* worker goroutine owns the PDH query; callers of Collect hand it a       *)
(* destination over the unbuffered channel collectCh and take the answer   *)
(* from the unbuffered channel errorCh; Close takes the write lock.        *)
(*                                                                         *)
(* Builder is the goroutine in NewCollector, whose initial Collect runs    *)
(* before the collector is handed out.  Callers that pass the same slice   *)
(* have the same DstOf.                                                    *)
(***************************************************************************)
CONSTANTS Callers,   \* goroutines that call Collect, Builder included
          Builder,
          Buffers,   \* destination slices
          DstOf,     \* the slice a caller passes
          NoCaller   \* no caller

ASSUME BuilderAssumption == Builder \in Callers
ASSUME DstAssumption == DstOf \in [Callers -> Buffers]
ASSUME NoneAssumption == NoCaller \notin Callers

VARIABLES obj,       \* what NewCollector returned: "building", "nil", "ready"
          handle,    \* the PDH query: "none", "open", "closed"
          chans,     \* fields collectCh and errorCh: "nil", "made"
          chClosed,  \* the channels made by NewCollector are closed
          callPc,    \* callers: "unborn", "idle", "send", "wait", "read"
          readers,   \* callers that hold mu for reading
          closePc,   \* Close: "idle", "waiting" (for the write lock)
          workerPc,  \* "none", "start", "recv", "work", "answer", "stuck", "exit"
          serving,   \* the caller whose destination the worker fills
          result,    \* the error the worker is about to send
          answered,  \* whose request a caller received its last answer for
          slices,    \* who a slice was filled for, or NoCaller while it is written
          torn       \* history: callers for whose slice another call's request was taken
                     \* while they read it

lockVars == <<readers, closePc>>
objVars  == <<obj, handle, chans, chClosed>>
workVars == <<workerPc, serving, result>>
pdhVars  == <<obj, handle, chans, chClosed, callPc, readers, closePc, workerPc, serving,
              result, answered, slices, torn>>

Results == {"ok", "nodata", "error"}

PdhInit ==
  /\ obj = "building" /\ handle = "none" /\ chans = "nil" /\ chClosed = FALSE
  /\ callPc = [c \in Callers |-> "unborn"]
  /\ readers = {} /\ closePc = "idle"
  /\ workerPc = "none" /\ serving = NoCaller /\ result = "ok"
  /\ answered = [c \in Callers |-> NoCaller]
  /\ slices = [b \in Buffers |-> NoCaller] /\ torn = {}

-----------------------------------------------------------------------------
(* NewCollectorWithReflection. *)

Publish(kind) ==
  /\ obj' = kind
  /\ callPc' = [c \in Callers |-> "idle"]

\* OpenQuery fails, or the query is opened and then no collector is returned
\* (invalid result type, no counters configured).
NewNil ==
  /\ obj = "building" /\ workerPc = "none"
  /\ handle' \in {"none", "open"}
  /\ Publish("nil")
  /\ UNCHANGED <<chans, chClosed, lockVars, workVars, answered, slices, torn>>

\* A counter cannot be added: the collector is returned without a worker.
NewNoWorker ==
  /\ obj = "building" /\ workerPc = "none"
  /\ handle' = "open"
  /\ Publish("ready")
  /\ UNCHANGED <<chans, chClosed, lockVars, workVars, answered, slices, torn>>

\* All counters are added: the channels are made and the worker is started.
NewWorker ==
  /\ obj = "building" /\ workerPc = "none"
  /\ handle' = "open" /\ chans' = "made"
  /\ workerPc' = "start"
  /\ callPc' = [callPc EXCEPT ![Builder] = "idle"]
  /\ UNCHANGED <<obj, chClosed, lockVars, serving, result, answered, slices, torn>>

\* The initial Collect has returned; the collector is returned with or without error.
NewReturn ==
  /\ obj = "building" /\ workerPc # "none"
  /\ callPc[Builder] \in {"idle", "read"} /\ answered[Builder] # NoCaller
  /\ Publish("ready")
  /\ UNCHANGED <<handle, chans, chClosed, lockVars, workVars, answered, slices, torn>>

-----------------------------------------------------------------------------
(* Collect. *)

\* A nil collector, or one that is closed or has no worker, answers
\* ErrPerformanceCounterNotInitialized at once.
Initialized == obj # "nil" /\ handle = "open" /\ chans = "made"

\* RLock is granted unless a writer holds the lock or waits for it.
CollectLock(c) ==
  /\ callPc[c] = "idle" /\ Initialized
  /\ c = Builder /\ obj = "building" => answered[c] = NoCaller
  /\ closePc = "idle"
  /\ readers' = readers \cup {c}
  /\ callPc' = [callPc EXCEPT ![c] = "send"]
  /\ UNCHANGED <<objVars, closePc, workVars, answered, slices, torn>>

\* Mutant: collectCh is buffered, so a request is accepted while another is served.
MutCollectHandOver(c) ==
  /\ callPc[c] = "send" /\ workerPc \in {"recv", "work"}
  /\ callPc' = [callPc EXCEPT ![c] = "wait"]
  /\ workerPc' = "work" /\ serving' = c
  /\ slices' = [slices EXCEPT ![DstOf[c]] = NoCaller]
  /\ torn' = torn \cup {d \in Callers \ {c} : callPc[d] = "read" /\ DstOf[d] = DstOf[c]}
  /\ UNCHANGED <<objVars, lockVars, result, answered>>

\* collectCh <- dst meets the worker's receive; the worker empties the slice.
CollectHandOver(c) ==
  /\ callPc[c] = "send" /\ workerPc = "recv"
  /\ callPc' = [callPc EXCEPT ![c] = "wait"]
  /\ workerPc' = "work" /\ serving' = c
  /\ slices' = [slices EXCEPT ![DstOf[c]] = NoCaller]
  /\ torn' = torn \cup {d \in Callers \ {c} : callPc[d] = "read" /\ DstOf[d] = DstOf[c]}
  /\ UNCHANGED <<objVars, lockVars, result, answered>>

\* Mutant: the read lock is not released when the worker answers an error.
MutCollectReturn(c) ==
  /\ callPc[c] = "wait" /\ workerPc = "answer"
  /\ answered' = [answered EXCEPT ![c] = serving]
  /\ callPc' = [callPc EXCEPT ![c] = IF result = "ok" THEN "read" ELSE "idle"]
  /\ readers' = IF result = "error" THEN readers ELSE readers \ {c}
  /\ workerPc' = "recv" /\ serving' = NoCaller
  /\ torn' = torn \ {c}
  /\ UNCHANGED <<objVars, closePc, result, slices>>

\* errorCh <- err meets <-errorCh of some caller, which releases the lock.
CollectReturn(c) ==
  /\ callPc[c] = "wait" /\ workerPc = "answer"
  /\ answered' = [answered EXCEPT ![c] = serving]
  /\ callPc' = [callPc EXCEPT ![c] = IF result = "ok" THEN "read" ELSE "idle"]
  /\ readers' = readers \ {c}
  /\ workerPc' = "recv" /\ serving' = NoCaller
  /\ torn' = torn \ {c}
  /\ UNCHANGED <<objVars, closePc, result, slices>>

\* The caller has turned the rows of its slice into metrics.
ReadDone(c) ==
  /\ callPc[c] = "read"
  /\ callPc' = [callPc EXCEPT ![c] = "idle"]
  /\ UNCHANGED <<objVars, lockVars, workVars, answered, slices, torn>>

-----------------------------------------------------------------------------
(* collectWorkerRaw and collectWorkerFormatted. *)

\* range c.collectCh reads the field once; over a nil channel it blocks for ever.
WorkerStart ==
  /\ workerPc = "start"
  /\ workerPc' = IF chans = "made" THEN "recv" ELSE "stuck"
  /\ UNCHANGED <<objVars, callPc, lockVars, serving, result, answered, slices, torn>>

\* Mutant: the worker answers before it has filled the slice.
MutWorkerFillLate ==
  /\ workerPc = "work"
  /\ workerPc' = "answer"
  /\ result' \in Results
  /\ UNCHANGED <<objVars, callPc, lockVars, serving, answered, slices, torn>>

\* The query is collected and the rows are appended; without a row it is ErrNoData.
WorkerFill ==
  /\ workerPc = "work"
  /\ workerPc' = "answer"
  /\ \E r \in Results :
       /\ result' = r
       /\ slices' = IF r = "ok" THEN [slices EXCEPT ![DstOf[serving]] = serving] ELSE slices
  /\ UNCHANGED <<objVars, callPc, lockVars, serving, answered, torn>>

\* collectCh is closed: the loop ends.
WorkerExit ==
  /\ workerPc = "recv" /\ chClosed
  /\ workerPc' = "exit"
  /\ UNCHANGED <<objVars, callPc, lockVars, serving, result, answered, slices, torn>>

-----------------------------------------------------------------------------
(* Close; on a nil collector it does nothing. *)

CloseCall ==
  /\ obj = "ready" /\ closePc = "idle"
  /\ closePc' = "waiting"
  /\ UNCHANGED <<objVars, callPc, readers, workVars, answered, slices, torn>>

\* Mutant: Close does not take the lock.
MutCloseLocked ==
  /\ closePc = "waiting"
  /\ handle' = "closed"
  /\ chClosed' = (chClosed \/ chans = "made")
  /\ chans' = "nil"
  /\ closePc' = "idle"
  /\ UNCHANGED <<obj, callPc, readers, workVars, answered, slices, torn>>

\* The write lock is granted: CloseQuery, close the channels, clear the fields.
CloseLocked ==
  /\ closePc = "waiting" /\ readers = {}
  /\ handle' = "closed"
  /\ chClosed' = (chClosed \/ chans = "made")
  /\ chans' = "nil"
  /\ closePc' = "idle"
  /\ UNCHANGED <<obj, callPc, readers, workVars, answered, slices, torn>>

-----------------------------------------------------------------------------
New    == NewNil \/ NewNoWorker \/ NewWorker \/ NewReturn
PdhCaller(c) == CollectLock(c) \/ CollectHandOver(c) \/ CollectReturn(c) \/ ReadDone(c)
PdhWorker == WorkerStart \/ WorkerFill \/ WorkerExit
PdhClose  == CloseCall \/ CloseLocked

PdhNext == New \/ (\E c \in Callers : PdhCaller(c)) \/ PdhWorker \/ PdhClose

PdhSafety == PdhInit /\ [][PdhNext]_pdhVars

\* The worker, a caller inside Collect and a writer waiting for the lock go on
\* when they can (PDH calls return).  Nobody is obliged to call Collect or Close.
\* A caller in "send" competes with others for the worker's receive, which the
\* Go runtime serves in FIFO order: strong fairness.
PdhFairness ==
  /\ WF_pdhVars(PdhWorker) /\ WF_pdhVars(CloseLocked)
  /\ \A c \in Callers : SF_pdhVars(CollectHandOver(c)) /\ WF_pdhVars(CollectReturn(c))

PdhSpec == PdhSafety /\ PdhFairness

-----------------------------------------------------------------------------
(* Properties. *)

\* Every variable holds a value of its type; the worker has a request exactly
\* between its receive and its answer.
PdhTypeOK ==
  /\ obj \in {"building", "nil", "ready"}
  /\ handle \in {"none", "open", "closed"}
  /\ chans \in {"nil", "made"}
  /\ chClosed \in BOOLEAN
  /\ callPc \in [Callers -> {"unborn", "idle", "send", "wait", "read"}]
  /\ readers \in SUBSET Callers
  /\ closePc \in {"idle", "waiting"}
  /\ workerPc \in {"none", "start", "recv", "work", "answer", "stuck", "exit"}
  /\ serving \in Callers \cup {NoCaller}
  /\ result \in Results
  /\ answered \in [Callers -> Callers \cup {NoCaller}]
  /\ slices \in [Buffers -> Callers \cup {NoCaller}]
  /\ torn \subseteq Callers
  /\ serving # NoCaller <=> workerPc \in {"work", "answer"}

\* However many goroutines call Collect at once, <-errorCh of a caller takes the
\* error of its own request: only the caller being served waits for an answer.
AnswerMatchesRequest ==
  /\ \A c \in Callers : answered[c] \in {c, NoCaller}
  /\ \A c \in Callers : callPc[c] = "wait" => serving = c

\* Close never pulls the query or the channels away from a Collect in progress:
\* the worker never collects a closed query, and nobody ever sends on a closed
\* or nil channel (which would panic or block for ever).
NoUseAfterClose ==
  workerPc \in {"work", "answer"} \/ (\E c \in Callers : callPc[c] \in {"send", "wait"})
    => handle = "open" /\ chans = "made" /\ ~chClosed

\* A caller reads the rows of its own request, from the answer until it has turned them into
\* metrics, although all scrapes pass the same field: the worker writes to a slice only
\* between the request for it and the answer.  Only the request of an overlapping scrape,
\* taken while the caller reads, can put other rows under it or take its rows away.
RowsStable ==
  \A c \in Callers : callPc[c] = "read" /\ slices[DstOf[c]] # c => c \in torn

\* Every Collect returns, whatever the other callers and Close do, and Close gets the
\* write lock although callers keep coming; after Close the worker goroutine ends.
CallsReturn ==
  /\ \A c \in Callers : callPc[c] = "send" ~> callPc[c] \in {"idle", "read"}
  /\ closePc = "waiting" ~> closePc = "idle"
  /\ chClosed ~> workerPc = "exit"

\* The worker never ranges over a nil collectCh.  It relies on the initial Collect
\* of NewCollector: a worker that first looked at the field after Close would
\* block for ever.
WorkerNotStuck == workerPc # "stuck"
=============================================================================
