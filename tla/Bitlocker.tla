------------------------------ MODULE Bitlocker ------------------------------
(***************************************************************************)
(* The BitLocker sub-collector of logical_disk: for each volume Collect    *)
(* puts the volume's name into bitlockerReqCh and takes a status out of    *)
(* bitlockerResCh; a worker bound to an OS thread answers.  Neither        *)
(* message says which Collect or volume it belongs to.  Calls of Collect   *)
(* overlap when an earlier one has timed out (module ScrapeServer).        *)
(***************************************************************************)
EXTENDS Naturals, Sequences, FiniteSets

CONSTANTS Calls,  \* calls of Collect
          Volumes \* the rows of a Collect, in their order

ASSUME CallsAssumption == IsFiniteSet(Calls)
ASSUME VolumesAssumption == Volumes \in Seq({Volumes[i] : i \in DOMAIN Volumes}) /\ Volumes # <<>>

VARIABLES worker,  \* where workerBitlocker is
          path,    \* the volume it looks up
          reqCh, resCh, \* the channels, each of capacity 1
          cancelled, \* Close has cancelled the context
          call,    \* call -> where its Collect is
          row,     \* call -> the row it is at
          swapped, \* a Collect has taken the status of another volume
          overlapped, \* two calls have been under way together
          panics   \* lookups that panicked

vars == <<worker, path, reqCh, resCh, cancelled, call, row, swapped, overlapped, panics>>

None == 0 \* no row

\* Build has started the worker and waited for its initialisation.
Init ==
  /\ worker = "select" /\ path = None /\ reqCh = <<>> /\ resCh = <<>>
  /\ cancelled = FALSE /\ swapped = FALSE /\ overlapped = FALSE /\ panics = 0
  /\ call = [k \in Calls |-> "idle"] /\ row = [k \in Calls |-> 1]

UnderWay(k) == call[k] \in {"send", "receive"}

Collect(k) ==
  /\ call[k] = "idle"
  /\ call' = [call EXCEPT ![k] = "send"]
  /\ overlapped' = (overlapped \/ \E j \in Calls : UnderWay(j))
  /\ UNCHANGED <<worker, path, reqCh, resCh, cancelled, row, swapped, panics>>

CollectSend(k) ==
  /\ call[k] = "send" /\ reqCh = <<>>
  /\ reqCh' = <<row[k]>>
  /\ call' = [call EXCEPT ![k] = "receive"]
  /\ UNCHANGED <<worker, path, resCh, cancelled, row, swapped, overlapped, panics>>

\* Mutant: Collect goes on without an answer that takes too long.
CollectReceiveOrNot(k) ==
  /\ call[k] = "receive"
  /\ \/ resCh # <<>> /\ resCh' = <<>>
        /\ swapped' = (swapped \/ Volumes[Head(resCh)] # Volumes[row[k]])
     \/ UNCHANGED <<resCh, swapped>>
  /\ row' = [row EXCEPT ![k] = @ + 1]
  /\ call' = [call EXCEPT ![k] = IF row[k] = Len(Volumes) THEN "returned" ELSE "send"]
  /\ UNCHANGED <<worker, path, reqCh, cancelled, overlapped, panics>>

\* The answer taken is whichever is in the channel; then the next row, or the end.
CollectReceive(k) ==
  /\ call[k] = "receive" /\ resCh # <<>>
  /\ resCh' = <<>>
  /\ swapped' = (swapped \/ Volumes[Head(resCh)] # Volumes[row[k]])
  /\ row' = [row EXCEPT ![k] = @ + 1]
  /\ call' = [call EXCEPT ![k] = IF row[k] = Len(Volumes) THEN "returned" ELSE "send"]
  /\ UNCHANGED <<worker, path, reqCh, cancelled, overlapped, panics>>

-----------------------------------------------------------------------------
(* workerBitlocker *)

WorkerRequest ==
  /\ worker = "select" /\ reqCh # <<>>
  /\ path' = Head(reqCh) /\ reqCh' = <<>> /\ worker' = "lookup"
  /\ UNCHANGED <<resCh, cancelled, call, row, swapped, overlapped, panics>>

WorkerDone ==
  /\ worker = "select" /\ cancelled
  /\ worker' = "ended"
  /\ UNCHANGED <<path, reqCh, resCh, cancelled, call, row, swapped, overlapped, panics>>

\* Mutant: an error of the lookup is logged and not answered.
WorkerAnswerOrNot ==
  /\ worker = "lookup" /\ resCh = <<>>
  /\ resCh' \in {<<>>, <<path>>} /\ path' = None /\ worker' = "select"
  /\ UNCHANGED <<reqCh, cancelled, call, row, swapped, overlapped, panics>>

\* A status, an error, or -1 for a volume without a drive letter.
WorkerAnswer ==
  /\ worker = "lookup" /\ resCh = <<>>
  /\ resCh' = <<path>> /\ path' = None /\ worker' = "select"
  /\ UNCHANGED <<reqCh, cancelled, call, row, swapped, overlapped, panics>>

\* A COM call panics: the request is gone, the worker is restarted.
WorkerPanic ==
  /\ worker = "lookup" /\ panics = 0 \* bound: one panic
  /\ panics' = 1 /\ path' = None /\ worker' = "restart"
  /\ UNCHANGED <<reqCh, resCh, cancelled, call, row, swapped, overlapped>>

\* The new worker initialises itself, or cannot and is not heard of again.
WorkerRestart ==
  /\ worker = "restart"
  /\ worker' \in {"select", "ended"}
  /\ UNCHANGED <<path, reqCh, resCh, cancelled, call, row, swapped, overlapped, panics>>

Close ==
  /\ cancelled' = TRUE
  /\ UNCHANGED <<worker, path, reqCh, resCh, call, row, swapped, overlapped, panics>>

Worker == WorkerRequest \/ WorkerDone \/ WorkerAnswer \/ WorkerPanic \/ WorkerRestart
Caller(k) == CollectSend(k) \/ CollectReceive(k)
Next == Worker \/ Close \/ \E k \in Calls : Collect(k) \/ Caller(k)

\* Goroutines that wait on a channel are served in their order.
Spec == Init /\ [][Next]_vars /\ WF_vars(Worker) /\ \A k \in Calls : SF_vars(Caller(k))

\* A volume is reported with the BitLocker status of another volume only when two calls
\* of Collect have overlapped.
SwappedOnlyOnOverlap == swapped => overlapped

\* When no Collect is under way no request and no answer is left for the next one to
\* take for its own, whatever panicked or was cancelled in between.
NothingLeftOver ==
  (\A k \in Calls : ~UnderWay(k)) => reqCh = <<>> /\ resCh = <<>> /\ path = None

\* Collect gets an answer for every volume, errors included, unless the worker panicked
\* or was told to end.
CollectReturns == \A k \in Calls : call[k] = "send" ~> (call[k] = "returned" \/ panics = 1 \/ cancelled)
=============================================================================
