------------------------------- MODULE Scrape -------------------------------
(***************************************************************************)
(* One scrape of a collection: collectAll and collectCollector of          *)
(* pkg/collector/collect.go.                                               *)
(*                                                                         *)
(* For every collector four goroutines share a buffered channel bufCh:     *)
(* the collector goroutine that runs Collect, the forwarder that copies    *)
(* bufCh to the registry channel ch, the goroutine of collectAll that      *)
(* waits for the result or the deadline ("main" below), and the drainer    *)
(* started after a timeout.  Metrics are anonymous, so a channel is the    *)
(* number of metrics it holds.                                             *)
(***************************************************************************)
EXTENDS Naturals

CONSTANTS Collectors,   \* the collectors of the collection
          BufCap,       \* capacity of bufCh (1000 in the code)
          MaxMetrics    \* bound: metrics the Collect of a collector produces

ASSUME BufCapAssumption == BufCap \in Nat \ {0}
ASSUME MaxMetricsAssumption == MaxMetrics \in [Collectors -> Nat]

VARIABLES colPc,      \* collector goroutine: "collect", "send", "close", "done"
          produced,   \* metrics Collect has written to bufCh
          errCh,      \* content of errCh: "empty", or a result of Collect
          buf,        \* number of metrics in bufCh
          bufClosed,  \* bufCh is closed
          fwdPc,      \* forwarder: "select", "check", "send", "done"
          delivered,  \* metrics the forwarder has written to ch
          mainPc,     \* main: "select", "wait", "expired", "done"
          err,        \* the result main has received
          ctx,        \* the context: "live", "expired", "cancelled"
          timeout,    \* the atomic flag timeout
          drainPc,    \* drainer: "off", "drain", "done"
          status,     \* status code sent to collectorStatusCh, or "running"
          allPc,      \* collectAll: "wait", "emit", "done"
          exported,   \* metrics about the scrape itself written to ch
          chClosed    \* the registry has closed ch

colVars  == <<colPc, produced, errCh>>
bufVars  == <<buf, bufClosed>>
fwdVars  == <<fwdPc, delivered>>
mainVars == <<mainPc, err, ctx, timeout, status>>
allVars  == <<allPc, chClosed>>
vars     == <<colPc, produced, errCh, buf, bufClosed, fwdPc, delivered, mainPc,
              err, ctx, timeout, drainPc, status, allPc, exported, chClosed>>

\* What Collect returns: nil, an error collectCollector only warns about
\* (pdh.ErrNoData, types.ErrNoData, EPT_S_NOT_REGISTERED), or another error.
Results     == {"nil", "nodata", "error"}
StatusCodes == {"pending", "success", "failed"}
Exports     == {"duration", "success", "timeout"} \X Collectors \X {0, 1}

Init ==
  /\ colPc     = [c \in Collectors |-> "collect"]
  /\ produced  = [c \in Collectors |-> 0]
  /\ errCh     = [c \in Collectors |-> "empty"]
  /\ buf       = [c \in Collectors |-> 0]
  /\ bufClosed = [c \in Collectors |-> FALSE]
  /\ fwdPc     = [c \in Collectors |-> "select"]
  /\ delivered = [c \in Collectors |-> 0]
  /\ mainPc    = [c \in Collectors |-> "select"]
  /\ err       = [c \in Collectors |-> "empty"]
  /\ ctx       = [c \in Collectors |-> "live"]
  /\ timeout   = [c \in Collectors |-> FALSE]
  /\ drainPc   = [c \in Collectors |-> "off"]
  /\ status    = [c \in Collectors |-> "running"]
  /\ allPc     = "wait"
  /\ exported  = {}
  /\ chClosed  = FALSE

-----------------------------------------------------------------------------
(* The collector goroutine. *)

\* Collect is about to write a metric to bufCh.
CollectMetric(c) ==
  /\ colPc[c] = "collect"
  /\ produced[c] < MaxMetrics[c]
  /\ colPc' = [colPc EXCEPT ![c] = "send"]
  /\ UNCHANGED <<produced, errCh, bufVars, fwdVars, mainVars, drainPc, allVars, exported>>

\* The metric is written; Collect is blocked while bufCh is full.
CollectSend(c) ==
  /\ colPc[c] = "send"
  /\ buf[c] < BufCap
  /\ produced' = [produced EXCEPT ![c] = @ + 1]
  /\ buf' = [buf EXCEPT ![c] = @ + 1]
  /\ colPc' = [colPc EXCEPT ![c] = "collect"]
  /\ UNCHANGED <<errCh, bufClosed, fwdVars, mainVars, drainPc, allVars, exported>>

\* Collect returns and its result is sent to errCh.
CollectReturn(c) ==
  /\ colPc[c] = "collect"
  /\ errCh[c] = "empty"
  /\ \E r \in Results : errCh' = [errCh EXCEPT ![c] = r]
  /\ colPc' = [colPc EXCEPT ![c] = "close"]
  /\ UNCHANGED <<produced, bufVars, fwdVars, mainVars, drainPc, allVars, exported>>

\* Collect panics; the deferred function recovers and sends the panic as an error.
CollectPanic(c) ==
  /\ colPc[c] = "collect"
  /\ errCh[c] = "empty"
  /\ errCh' = [errCh EXCEPT ![c] = "error"]
  /\ colPc' = [colPc EXCEPT ![c] = "close"]
  /\ UNCHANGED <<produced, bufVars, fwdVars, mainVars, drainPc, allVars, exported>>

\* The deferred function closes bufCh.
CloseBuf(c) ==
  /\ colPc[c] = "close"
  /\ bufClosed' = [bufClosed EXCEPT ![c] = TRUE]
  /\ colPc' = [colPc EXCEPT ![c] = "done"]
  /\ UNCHANGED <<produced, errCh, buf, fwdVars, mainVars, drainPc, allVars, exported>>

-----------------------------------------------------------------------------
(* The forwarder. *)

\* select: the context is done (expired, or cancelled by main's return).
FwdCtxDone(c) ==
  /\ fwdPc[c] = "select"
  /\ ctx[c] # "live"
  /\ fwdPc' = [fwdPc EXCEPT ![c] = "done"]
  /\ UNCHANGED <<colVars, bufVars, delivered, mainVars, drainPc, allVars, exported>>

\* select: a metric is received from bufCh.
FwdRecv(c) ==
  /\ fwdPc[c] = "select"
  /\ buf[c] > 0
  /\ buf' = [buf EXCEPT ![c] = @ - 1]
  /\ fwdPc' = [fwdPc EXCEPT ![c] = "check"]
  /\ UNCHANGED <<colVars, bufClosed, delivered, mainVars, drainPc, allVars, exported>>

\* select: bufCh is closed and empty.
FwdClosed(c) ==
  /\ fwdPc[c] = "select"
  /\ buf[c] = 0 /\ bufClosed[c]
  /\ fwdPc' = [fwdPc EXCEPT ![c] = "done"]
  /\ UNCHANGED <<colVars, bufVars, delivered, mainVars, drainPc, allVars, exported>>

\* timeout.Load: after a timeout the metric in hand is dropped.
FwdLoad(c) ==
  /\ fwdPc[c] = "check"
  /\ fwdPc' = [fwdPc EXCEPT ![c] = IF timeout[c] THEN "select" ELSE "send"]
  /\ UNCHANGED <<colVars, bufVars, delivered, mainVars, drainPc, allVars, exported>>

\* The metric in hand is written to ch.
FwdSend(c) ==
  /\ fwdPc[c] = "send"
  /\ ~chClosed
  /\ delivered' = [delivered EXCEPT ![c] = @ + 1]
  /\ fwdPc' = [fwdPc EXCEPT ![c] = "select"]
  /\ UNCHANGED <<colVars, bufVars, mainVars, drainPc, allVars, exported>>

\* The send panics because ch is closed; the deferred recover ends the forwarder.
FwdPanic(c) ==
  /\ fwdPc[c] = "send"
  /\ chClosed
  /\ fwdPc' = [fwdPc EXCEPT ![c] = "done"]
  /\ UNCHANGED <<colVars, bufVars, delivered, mainVars, drainPc, allVars, exported>>

-----------------------------------------------------------------------------
(* The deadline, main and the drainer. *)

\* maxScrapeDuration has passed (at once when it is not positive).
Expire(c) ==
  /\ ctx[c] = "live"
  /\ ctx' = [ctx EXCEPT ![c] = "expired"]
  /\ UNCHANGED <<colVars, bufVars, fwdVars, mainPc, err, timeout, status, drainPc, allVars, exported>>

\* select: the result of Collect.  When the deadline has passed too, select
\* may choose either case.
MainResult(c) ==
  /\ mainPc[c] = "select"
  /\ errCh[c] # "empty"
  /\ err' = [err EXCEPT ![c] = errCh[c]]
  /\ errCh' = [errCh EXCEPT ![c] = "empty"]
  /\ mainPc' = [mainPc EXCEPT ![c] = "wait"]
  /\ UNCHANGED <<colPc, produced, bufVars, fwdVars, ctx, timeout, status, drainPc, allVars, exported>>

\* Mutant: every result counts as a success.
MutStatusOf(r) == "success"

\* The status code for a received result.
StatusOf(r) == IF r \in {"nil", "nodata"} THEN "success" ELSE "failed"

\* Mutant: main does not wait for the forwarder.
MutMainFinish(c) ==
  /\ mainPc[c] = "wait"
  /\ exported' = exported \cup {<<"duration", c, 1>>}
  /\ status' = [status EXCEPT ![c] = StatusOf(err[c])]
  /\ ctx' = [ctx EXCEPT ![c] = IF @ = "live" THEN "cancelled" ELSE @]
  /\ mainPc' = [mainPc EXCEPT ![c] = "done"]
  /\ UNCHANGED <<colVars, bufVars, fwdVars, err, timeout, drainPc, allVars>>

\* wg.Wait is over: the duration is exported, the status code returned and the
\* context cancelled by the deferred cancel.
MainFinish(c) ==
  /\ mainPc[c] = "wait"
  /\ fwdPc[c] = "done"
  /\ exported' = exported \cup {<<"duration", c, 1>>}
  /\ status' = [status EXCEPT ![c] = StatusOf(err[c])]
  /\ ctx' = [ctx EXCEPT ![c] = IF @ = "live" THEN "cancelled" ELSE @]
  /\ mainPc' = [mainPc EXCEPT ![c] = "done"]
  /\ UNCHANGED <<colVars, bufVars, fwdVars, err, timeout, drainPc, allVars>>

\* select: the context is done; timeout.Store(true).
MainExpired(c) ==
  /\ mainPc[c] = "select"
  /\ ctx[c] = "expired"
  /\ timeout' = [timeout EXCEPT ![c] = TRUE]
  /\ mainPc' = [mainPc EXCEPT ![c] = "expired"]
  /\ UNCHANGED <<colVars, bufVars, fwdVars, err, ctx, status, drainPc, allVars, exported>>

\* Mutant: no drainer is started.
MutMainPending(c) ==
  /\ mainPc[c] = "expired"
  /\ exported' = exported \cup {<<"duration", c, 1>>}
  /\ status' = [status EXCEPT ![c] = "pending"]
  /\ mainPc' = [mainPc EXCEPT ![c] = "done"]
  /\ UNCHANGED <<colVars, bufVars, fwdVars, err, ctx, timeout, drainPc, allVars>>

\* The duration is exported, the drainer started, "pending" returned.
MainPending(c) ==
  /\ mainPc[c] = "expired"
  /\ exported' = exported \cup {<<"duration", c, 1>>}
  /\ drainPc' = [drainPc EXCEPT ![c] = "drain"]
  /\ status' = [status EXCEPT ![c] = "pending"]
  /\ mainPc' = [mainPc EXCEPT ![c] = "done"]
  /\ UNCHANGED <<colVars, bufVars, fwdVars, err, ctx, timeout, allVars>>

\* for range bufCh {}: drop a metric, or stop when bufCh is closed and empty.
Drain(c) ==
  /\ drainPc[c] = "drain"
  /\ \/ /\ buf[c] > 0
        /\ buf' = [buf EXCEPT ![c] = @ - 1]
        /\ UNCHANGED drainPc
     \/ /\ buf[c] = 0 /\ bufClosed[c]
        /\ drainPc' = [drainPc EXCEPT ![c] = "done"]
        /\ UNCHANGED buf
  /\ UNCHANGED <<colVars, bufClosed, fwdVars, mainVars, allVars, exported>>

-----------------------------------------------------------------------------
(* collectAll and the registry. *)

\* Mutant: collectAll does not wait for the collectors.
MutAllWait ==
  /\ allPc = "wait"
  /\ allPc' = "emit"
  /\ UNCHANGED <<colVars, bufVars, fwdVars, mainVars, drainPc, chClosed, exported>>

\* wg.Wait is over and collectorStatusCh is closed.
AllWait ==
  /\ allPc = "wait"
  /\ \A c \in Collectors : mainPc[c] = "done"
  /\ allPc' = "emit"
  /\ UNCHANGED <<colVars, bufVars, fwdVars, mainVars, drainPc, chClosed, exported>>

SuccessValue(s) == IF s = "success" THEN 1 ELSE 0
TimeoutValue(s) == IF s = "pending" THEN 1 ELSE 0

\* The metric <<m, c, v>> has been exported for some v.
Exported(m, c) == \E v \in {0, 1} : <<m, c, v>> \in exported

\* One status is read from collectorStatusCh and exported.
EmitStatus(c) ==
  /\ allPc = "emit"
  /\ ~Exported("success", c)
  /\ exported' = exported \cup {<<"success", c, SuccessValue(status[c])>>,
                                <<"timeout", c, TimeoutValue(status[c])>>}
  /\ UNCHANGED <<colVars, bufVars, fwdVars, mainVars, drainPc, allVars>>

\* collectorStatusCh is empty: the scrape duration is written and collectAll returns.
AllReturn ==
  /\ allPc = "emit"
  /\ \A c \in Collectors : Exported("success", c)
  /\ allPc' = "done"
  /\ UNCHANGED <<colVars, bufVars, fwdVars, mainVars, drainPc, chClosed, exported>>

\* The registry closes ch after every registered collector has returned.
RegistryClose ==
  /\ allPc = "done"
  /\ ~chClosed
  /\ chClosed' = TRUE
  /\ UNCHANGED <<colVars, bufVars, fwdVars, mainVars, drainPc, allPc, exported>>

-----------------------------------------------------------------------------
Forwarder(c) == FwdCtxDone(c) \/ FwdRecv(c) \/ FwdClosed(c) \/ FwdLoad(c)
                  \/ FwdSend(c) \/ FwdPanic(c)
Main(c)      == MainResult(c) \/ MainFinish(c) \/ MainExpired(c) \/ MainPending(c)
Collect(c)   == CollectMetric(c) \/ CollectSend(c) \/ CollectReturn(c) \/ CollectPanic(c)

Next ==
  \/ \E c \in Collectors : Collect(c) \/ CloseBuf(c) \/ Forwarder(c) \/ Main(c)
                             \/ Expire(c) \/ Drain(c) \/ EmitStatus(c)
  \/ AllWait \/ AllReturn \/ RegistryClose

Safety == Init /\ [][Next]_vars

\* Goroutines that are runnable run, and timers fire.  Collect itself is code
\* of the collector that may block for ever in the operating system, so of it
\* only the sends to bufCh are fair.
Fairness ==
  /\ \A c \in Collectors : /\ WF_vars(CollectSend(c)) /\ WF_vars(CloseBuf(c)) /\ WF_vars(Forwarder(c))
                           /\ WF_vars(Main(c)) /\ WF_vars(Expire(c))
                           /\ WF_vars(Drain(c)) /\ WF_vars(EmitStatus(c))
  /\ WF_vars(AllWait) /\ WF_vars(AllReturn) /\ WF_vars(RegistryClose)

Spec == Safety /\ Fairness

-----------------------------------------------------------------------------
(* Properties. *)

\* Every variable holds a value of its Go type; bufCh never exceeds its capacity.
TypeOK ==
  /\ colPc \in [Collectors -> {"collect", "send", "close", "done"}]
  /\ produced \in [Collectors -> Nat]
  /\ errCh \in [Collectors -> Results \cup {"empty"}]
  /\ buf \in [Collectors -> 0..BufCap]
  /\ bufClosed \in [Collectors -> BOOLEAN]
  /\ fwdPc \in [Collectors -> {"select", "check", "send", "done"}]
  /\ delivered \in [Collectors -> Nat]
  /\ mainPc \in [Collectors -> {"select", "wait", "expired", "done"}]
  /\ err \in [Collectors -> Results \cup {"empty"}]
  /\ ctx \in [Collectors -> {"live", "expired", "cancelled"}]
  /\ timeout \in [Collectors -> BOOLEAN]
  /\ drainPc \in [Collectors -> {"off", "drain", "done"}]
  /\ status \in [Collectors -> StatusCodes \cup {"running"}]
  /\ allPc \in {"wait", "emit", "done"}
  /\ exported \in SUBSET Exports
  /\ chClosed \in BOOLEAN

\* A collector that finished before its deadline loses no metric: when main has
\* returned its status and the context did not expire, everything Collect wrote
\* to bufCh has been written to the registry channel.
CompleteUnlessExpired ==
  \A c \in Collectors :
    mainPc[c] = "done" /\ ctx[c] # "expired" =>
      /\ status[c] # "pending"
      /\ bufClosed[c] /\ buf[c] = 0
      /\ delivered[c] = produced[c]

\* The registry channel is closed only after every forwarder that main waited
\* for has stopped, so the send that the recover in the forwarder is there for
\* happens for timed-out collectors only.
LateSendOnlyAfterTimeout ==
  \A c \in Collectors :
    chClosed /\ fwdPc[c] # "done" => status[c] = "pending" /\ timeout[c]

\* When collectAll returns, the registry has received exactly one success and
\* one timeout sample per collector (two samples with the same labels make the
\* registry reject the scrape), they agree with the collector's status, and no
\* collector is reported both successful and timed out.
OneStatusPerCollector ==
  allPc = "done" =>
    \A c \in Collectors :
      /\ {e \in exported : e[2] = c} =
           {<<"duration", c, 1>>, <<"success", c, SuccessValue(status[c])>>,
            <<"timeout", c, TimeoutValue(status[c])>>}
      /\ ~(<<"success", c, 1>> \in exported /\ <<"timeout", c, 1>> \in exported)
      /\ <<"success", c, 1>> \in exported => err[c] \in {"nil", "nodata"}

\* A status once reported is final, and nothing of a collector whose main has
\* returned a result other than "pending" reaches the registry afterwards.
StatusFinal ==
  [][\A c \in Collectors :
       status[c] # "running" =>
         /\ status'[c] = status[c]
         /\ status[c] # "pending" => delivered'[c] = delivered[c]]_vars

\* collectAll keeps the promise of ScrapePromise: whatever the goroutines do, the
\* caller sees one status per collector and the samples only after all statuses.
Promise == INSTANCE ScrapePromise WITH phase <- allPc
KeepsPromise == Promise!Spec

\* collectAll returns and the registry channel is closed although any number of
\* Collect calls never return: the deadline bounds the scrape.  The drainer does what its
\* comment says: no Collect is left blocked on bufCh when its forwarder has gone, and once
\* Collect is over no goroutine of its scrape remains.
ScrapeTerminates ==
  /\ <>chClosed
  /\ \A c \in Collectors :
       /\ colPc[c] = "send" ~> colPc[c] # "send"
       /\ colPc[c] = "close" ~>
            (colPc[c] = "done" /\ fwdPc[c] = "done" /\ mainPc[c] = "done" /\ drainPc[c] # "drain")
=============================================================================
