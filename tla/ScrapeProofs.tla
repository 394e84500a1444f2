---------------------------- MODULE ScrapeProofs ----------------------------
(***************************************************************************)
(* What a scrape delivers, for any set of collectors, any buffer capacity  *)
(* and any number of metrics.                                              *)
(***************************************************************************)
EXTENDS Scrape, TLAPS

-----------------------------------------------------------------------------
(* Scrape *)

\* Metrics the forwarder has taken from bufCh and neither written nor dropped.
InHand(c) == IF fwdPc[c] \in {"check", "send"} THEN 1 ELSE 0

\* Until the deadline no metric is dropped: each one is delivered, in the
\* forwarder's hand or in bufCh.
CountInv == \A c \in Collectors :
  ctx[c] # "expired" => delivered[c] + InHand(c) + buf[c] = produced[c]

\* Before the deadline the forwarder ends only when bufCh is closed and empty.
FwdInv == \A c \in Collectors :
  /\ bufClosed[c] <=> colPc[c] = "done"
  /\ fwdPc[c] = "done" /\ ctx[c] # "expired" => bufClosed[c] /\ buf[c] = 0

\* How main, the context, the flag and the drainer go together.
MainInv == \A c \in Collectors :
  /\ ctx[c] = "cancelled" => mainPc[c] = "done"
  /\ mainPc[c] = "done" => ctx[c] # "live"
  /\ timeout[c] => ctx[c] = "expired"
  /\ mainPc[c] = "expired" => timeout[c]
  /\ drainPc[c] # "off" => timeout[c]
  /\ status[c] = "running" <=> mainPc[c] # "done"
  /\ status[c] = "pending" => timeout[c]
  /\ mainPc[c] = "done" /\ status[c] # "pending" => fwdPc[c] = "done"
  /\ mainPc[c] = "wait" => err[c] # "empty"
  /\ status[c] = "success" => err[c] \in {"nil", "nodata"}

\* collectAll goes on, and the registry closes ch, only after every main.
AllInv ==
  /\ allPc # "wait" => \A c \in Collectors : mainPc[c] = "done"
  /\ chClosed => allPc = "done"

IInv == TypeOK /\ CountInv /\ FwdInv /\ MainInv /\ AllInv

USE BufCapAssumption, MaxMetricsAssumption

\* The inductive invariant holds initially.
LEMMA InitIInv == Init => IInv
<1> SUFFICES ASSUME Init PROVE IInv
  OBVIOUS
<1>1. TypeOK
  <2>1. exported \in SUBSET Exports /\ chClosed \in BOOLEAN
    BY DEF Init
  <2> QED
    BY <2>1 DEF Init, TypeOK, Results, StatusCodes
<1>2. CountInv /\ FwdInv
  BY DEF Init, CountInv, FwdInv, InHand
<1>3. MainInv /\ AllInv
  BY DEF Init, MainInv, AllInv
<1> QED
  BY <1>1, <1>2, <1>3 DEF IInv

\* Every step preserves type correctness.
LEMMA NextType == TypeOK /\ [Next]_vars => TypeOK'
<1> SUFFICES ASSUME TypeOK, [Next]_vars PROVE TypeOK'
  OBVIOUS
<1> USE DEF TypeOK, Results, StatusCodes, colVars, bufVars, fwdVars, mainVars, allVars
<1>1. ASSUME NEW c \in Collectors, Collect(c) PROVE TypeOK'
  BY <1>1 DEF Collect, CollectMetric, CollectSend, CollectReturn, CollectPanic
<1>2. ASSUME NEW c \in Collectors, CloseBuf(c) PROVE TypeOK'
  BY <1>2 DEF CloseBuf
<1>3. ASSUME NEW c \in Collectors, Forwarder(c) PROVE TypeOK'
  BY <1>3 DEF Forwarder, FwdCtxDone, FwdRecv, FwdClosed, FwdLoad, FwdSend, FwdPanic
<1>4. ASSUME NEW c \in Collectors, MainResult(c) \/ MainExpired(c) PROVE TypeOK'
  <2>1. exported' \in SUBSET Exports /\ chClosed' \in BOOLEAN
    BY <1>4 DEF MainResult, MainExpired
  <2>2. CASE MainResult(c)
    BY <2>1, <2>2 DEF MainResult
  <2>3. CASE MainExpired(c)
    BY <2>1, <2>3 DEF MainExpired
  <2> QED
    BY <1>4, <2>2, <2>3
<1>5. ASSUME NEW c \in Collectors, MainFinish(c) \/ MainPending(c) PROVE TypeOK'
  <2>1. <<"duration", c, 1>> \in Exports
    BY DEF Exports
  <2>2. exported' \in SUBSET Exports /\ chClosed' \in BOOLEAN
    BY <1>5, <2>1 DEF MainFinish, MainPending
  <2>3. CASE MainFinish(c)
    BY <2>2, <2>3 DEF MainFinish, StatusOf
  <2>4. CASE MainPending(c)
    BY <2>2, <2>4 DEF MainPending
  <2> QED
    BY <1>5, <2>3, <2>4
<1>6. ASSUME NEW c \in Collectors, Expire(c) \/ Drain(c) PROVE TypeOK'
  BY <1>6 DEF Expire, Drain
<1>7. ASSUME NEW c \in Collectors, EmitStatus(c) PROVE TypeOK'
  <2>1. /\ <<"success", c, SuccessValue(status[c])>> \in Exports
        /\ <<"timeout", c, TimeoutValue(status[c])>> \in Exports
    BY DEF Exports, SuccessValue, TimeoutValue
  <2>2. exported' \in SUBSET Exports /\ chClosed' \in BOOLEAN
    BY <1>7, <2>1 DEF EmitStatus
  <2> QED
    BY <1>7, <2>2 DEF EmitStatus
<1>8. CASE AllWait \/ AllReturn \/ RegistryClose
  <2>1. exported' \in SUBSET Exports /\ chClosed' \in BOOLEAN
    BY <1>8 DEF AllWait, AllReturn, RegistryClose
  <2> QED
    BY <1>8, <2>1 DEF AllWait, AllReturn, RegistryClose
<1>9. CASE UNCHANGED vars
  BY <1>9 DEF vars
<1> QED
  BY <1>1, <1>2, <1>3, <1>4, <1>5, <1>6, <1>7, <1>8, <1>9 DEF Next, Main

\* Every step preserves the inductive invariant.
LEMMA NextIInv == IInv /\ [Next]_vars => IInv'
<1> SUFFICES ASSUME IInv, [Next]_vars PROVE CountInv' /\ FwdInv' /\ MainInv' /\ AllInv'
  BY NextType DEF IInv
<1> USE DEF IInv, TypeOK, CountInv, FwdInv, MainInv, AllInv, InHand,
            colVars, bufVars, fwdVars, mainVars, allVars
<1> DEFINE Goal == CountInv' /\ FwdInv' /\ MainInv' /\ AllInv'
<1>1. ASSUME NEW c \in Collectors, CollectMetric(c) PROVE Goal
  <2>1. CountInv'
    BY <1>1 DEF CollectMetric
  <2>2. FwdInv'
    BY <1>1 DEF CollectMetric
  <2>3. MainInv' /\ AllInv'
    BY <1>1 DEF CollectMetric
  <2> QED
    BY <2>1, <2>2, <2>3
<1>2. ASSUME NEW c \in Collectors, CollectSend(c) PROVE Goal
  <2>1. CountInv'
    <3>1. ASSUME NEW d \in Collectors, d # c
          PROVE  produced'[d] = produced[d] /\ buf'[d] = buf[d]
      BY <1>2, <3>1 DEF CollectSend
    <3>2. produced'[c] = produced[c] + 1 /\ buf'[c] = buf[c] + 1
      BY <1>2 DEF CollectSend
    <3>3. UNCHANGED <<ctx, delivered, fwdPc>>
      BY <1>2 DEF CollectSend
    <3> QED
      BY <3>1, <3>2, <3>3
  <2>2. FwdInv'
    BY <1>2 DEF CollectSend
  <2>3. MainInv' /\ AllInv'
    BY <1>2 DEF CollectSend
  <2> QED
    BY <2>1, <2>2, <2>3
<1>3. ASSUME NEW c \in Collectors, CollectReturn(c) \/ CollectPanic(c) PROVE Goal
  BY <1>3 DEF CollectReturn, CollectPanic
<1>4. ASSUME NEW c \in Collectors, CloseBuf(c) PROVE Goal
  BY <1>4 DEF CloseBuf
<1>5. ASSUME NEW c \in Collectors, FwdCtxDone(c) PROVE Goal
  BY <1>5 DEF FwdCtxDone
<1>6. ASSUME NEW c \in Collectors, FwdRecv(c) PROVE Goal
  BY <1>6 DEF FwdRecv
<1>7. ASSUME NEW c \in Collectors, FwdClosed(c) PROVE Goal
  BY <1>7 DEF FwdClosed
<1>8. ASSUME NEW c \in Collectors, FwdLoad(c) PROVE Goal
  BY <1>8 DEF FwdLoad
<1>9. ASSUME NEW c \in Collectors, FwdSend(c) PROVE Goal
  BY <1>9 DEF FwdSend
<1>10. ASSUME NEW c \in Collectors, FwdPanic(c) PROVE Goal
  BY <1>10 DEF FwdPanic
<1>11. ASSUME NEW c \in Collectors, Expire(c) PROVE Goal
  BY <1>11 DEF Expire
<1>12. ASSUME NEW c \in Collectors, MainResult(c) PROVE Goal
  BY <1>12 DEF MainResult
<1>13. ASSUME NEW c \in Collectors, MainFinish(c) PROVE Goal
  BY <1>13 DEF MainFinish, StatusOf
<1>14. ASSUME NEW c \in Collectors, MainExpired(c) PROVE Goal
  BY <1>14 DEF MainExpired
<1>15. ASSUME NEW c \in Collectors, MainPending(c) PROVE Goal
  BY <1>15 DEF MainPending
<1>16. ASSUME NEW c \in Collectors, Drain(c) PROVE Goal
  BY <1>16 DEF Drain
<1>17. ASSUME NEW c \in Collectors, EmitStatus(c) PROVE Goal
  BY <1>17 DEF EmitStatus
<1>18. CASE AllWait \/ AllReturn \/ RegistryClose
  BY <1>18 DEF AllWait, AllReturn, RegistryClose
<1>19. CASE UNCHANGED vars
  BY <1>19 DEF vars
<1> QED
  BY <1>1, <1>2, <1>3, <1>4, <1>5, <1>6, <1>7, <1>8, <1>9, <1>10, <1>11, <1>12, <1>13,
     <1>14, <1>15, <1>16, <1>17, <1>18, <1>19 DEF Next, Collect, Forwarder, Main

\* The inductive invariant holds in every reachable state.
THEOREM ScrapeInvariance == Safety => []IInv
BY InitIInv, NextIInv, PTL DEF Safety

\* Type correctness of a scrape; bufCh never holds more than its capacity.
THEOREM ScrapeTypeCorrect == Safety => []TypeOK
<1>1. IInv => TypeOK
  BY DEF IInv
<1> QED
  BY <1>1, ScrapeInvariance, PTL

\* A collector that finished before its deadline loses no metric.
THEOREM ScrapeComplete == Safety => []CompleteUnlessExpired
<1>1. IInv => CompleteUnlessExpired
  BY DEF IInv, TypeOK, CountInv, InHand, FwdInv, MainInv, CompleteUnlessExpired
<1> QED
  BY <1>1, ScrapeInvariance, PTL

\* When the registry channel is closed only forwarders of timed-out collectors run.
THEOREM ScrapeLateSend == Safety => []LateSendOnlyAfterTimeout
<1>1. IInv => LateSendOnlyAfterTimeout
  BY DEF IInv, MainInv, AllInv, LateSendOnlyAfterTimeout
<1> QED
  BY <1>1, ScrapeInvariance, PTL

-----------------------------------------------------------------------------
(* The metrics about the scrape itself. *)

\* The samples exported so far agree with the status codes.
DurationInv ==
  /\ \A c \in Collectors : mainPc[c] = "done" => <<"duration", c, 1>> \in exported
  /\ \A c \in Collectors : <<"duration", c, 0>> \notin exported

SuccessInv == \A c \in Collectors, v \in {0, 1} :
  <<"success", c, v>> \in exported =>
    /\ v = SuccessValue(status[c]) /\ allPc # "wait"
    /\ <<"timeout", c, TimeoutValue(status[c])>> \in exported

TimeoutInv == \A c \in Collectors, v \in {0, 1} :
  <<"timeout", c, v>> \in exported => v = TimeoutValue(status[c]) /\ allPc # "wait"

DoneInv == allPc = "done" => \A c \in Collectors : Exported("success", c)

ExportInv == DurationInv /\ SuccessInv /\ TimeoutInv /\ DoneInv

\* Every step preserves ExportInv.
LEMMA NextExport == IInv /\ ExportInv /\ [Next]_vars => ExportInv'
<1> SUFFICES ASSUME IInv, ExportInv, [Next]_vars PROVE ExportInv'
  OBVIOUS
<1> USE DEF ExportInv, Exported
<1>1. CASE UNCHANGED <<exported, status, mainPc, allPc>>
  BY <1>1 DEF DurationInv, SuccessInv, TimeoutInv, DoneInv
<1>2. ASSUME NEW c \in Collectors, MainFinish(c) \/ MainPending(c) PROVE ExportInv'
  <2>1. /\ exported' = exported \cup {<<"duration", c, 1>>}
        /\ mainPc' = [mainPc EXCEPT ![c] = "done"]
        /\ allPc' = allPc /\ allPc = "wait"
    BY <1>2 DEF MainFinish, MainPending, allVars, IInv, AllInv, TypeOK
  <2>2. DurationInv'
    BY <2>1 DEF DurationInv, IInv, TypeOK
  <2>3. SuccessInv'
    BY <2>1 DEF SuccessInv
  <2>4. TimeoutInv'
    BY <2>1 DEF TimeoutInv
  <2> QED
    BY <2>1, <2>2, <2>3, <2>4 DEF DoneInv
<1>3. ASSUME NEW c \in Collectors, EmitStatus(c) PROVE ExportInv'
  <2>1. /\ exported' = exported \cup {<<"success", c, SuccessValue(status[c])>>,
                                       <<"timeout", c, TimeoutValue(status[c])>>}
        /\ status' = status /\ mainPc' = mainPc /\ allPc' = allPc /\ allPc = "emit"
    BY <1>3 DEF EmitStatus, mainVars, allVars
  <2>2. DurationInv'
    BY <2>1 DEF DurationInv
  <2>3. SuccessInv'
    BY <2>1 DEF SuccessInv
  <2>4. TimeoutInv'
    BY <2>1 DEF TimeoutInv
  <2> QED
    BY <2>1, <2>2, <2>3, <2>4 DEF DoneInv
<1>4. CASE AllWait \/ AllReturn
  <2>1. /\ UNCHANGED <<exported, status, mainPc>>
        /\ allPc' # "wait"
        /\ allPc' = "done" => \A c \in Collectors : Exported("success", c)
    BY <1>4 DEF AllWait, AllReturn, mainVars
  <2> QED
    BY <2>1 DEF DurationInv, SuccessInv, TimeoutInv, DoneInv
<1> DEFINE Same == UNCHANGED <<exported, status, mainPc, allPc>>
<1>5. ASSUME NEW c \in Collectors, Collect(c) \/ CloseBuf(c) PROVE Same
  BY <1>5 DEF Collect, CollectMetric, CollectSend, CollectReturn, CollectPanic, CloseBuf,
              mainVars, allVars
<1>6. ASSUME NEW c \in Collectors, Forwarder(c) \/ Expire(c) \/ Drain(c) PROVE Same
  BY <1>6 DEF Forwarder, FwdCtxDone, FwdRecv, FwdClosed, FwdLoad, FwdSend, FwdPanic,
              Expire, Drain, mainVars, allVars
<1>7. ASSUME NEW c \in Collectors, MainResult(c) \/ MainExpired(c) PROVE ExportInv'
  <2>1. /\ UNCHANGED <<exported, status, allPc>>
        /\ \A d \in Collectors : mainPc'[d] = "done" => mainPc[d] = "done"
    BY <1>7 DEF MainResult, MainExpired, allVars, IInv, TypeOK
  <2> QED
    BY <2>1 DEF DurationInv, SuccessInv, TimeoutInv, DoneInv
<1>8. CASE RegistryClose \/ UNCHANGED vars
  BY <1>8, <1>1 DEF RegistryClose, mainVars, vars
<1> QED
  BY <1>1, <1>2, <1>3, <1>4, <1>5, <1>6, <1>7, <1>8 DEF Next, Main

\* The samples agree with the status codes in every reachable state.
LEMMA ExportInvariance == Safety => []ExportInv
<1>1. Init => ExportInv
  BY DEF Init, ExportInv, DurationInv, SuccessInv, TimeoutInv, DoneInv
<1> QED
  BY <1>1, NextExport, ScrapeInvariance, PTL DEF Safety

\* When collectAll returns, every collector has exactly one duration, one success
\* and one timeout sample, and they agree with its status.
THEOREM ScrapeOneStatus == Safety => []OneStatusPerCollector
<1>1. IInv /\ ExportInv => OneStatusPerCollector
  <2> SUFFICES ASSUME IInv, ExportInv, allPc = "done", NEW c \in Collectors
               PROVE  /\ {e \in exported : e[2] = c} =
                           {<<"duration", c, 1>>, <<"success", c, SuccessValue(status[c])>>,
                            <<"timeout", c, TimeoutValue(status[c])>>}
                      /\ ~(<<"success", c, 1>> \in exported /\ <<"timeout", c, 1>> \in exported)
                      /\ <<"success", c, 1>> \in exported => err[c] \in {"nil", "nodata"}
    BY DEF OneStatusPerCollector
  <2>1. /\ <<"duration", c, 1>> \in exported
        /\ <<"success", c, SuccessValue(status[c])>> \in exported
        /\ <<"timeout", c, TimeoutValue(status[c])>> \in exported
    <3>1. <<"duration", c, 1>> \in exported
      BY DEF IInv, AllInv, ExportInv, DurationInv
    <3>2. PICK v \in {0, 1} : <<"success", c, v>> \in exported
      BY DEF ExportInv, DoneInv, Exported
    <3> QED
      BY <3>1, <3>2 DEF ExportInv, SuccessInv
  <2>2. ASSUME NEW e \in exported, e[2] = c
        PROVE  \/ e = <<"duration", c, 1>>
               \/ e = <<"success", c, SuccessValue(status[c])>>
               \/ e = <<"timeout", c, TimeoutValue(status[c])>>
    <3>1. PICK m \in {"duration", "success", "timeout"}, d \in Collectors, v \in {0, 1} :
            e = <<m, d, v>>
      BY DEF IInv, TypeOK, Exports
    <3>2. d = c
      BY <2>2, <3>1
    <3> QED
      BY <3>1, <3>2 DEF ExportInv, DurationInv, SuccessInv, TimeoutInv
  <2>3. <<"success", c, 1>> \in exported => status[c] = "success"
    <3>1. <<"success", c, 1>> \in exported => SuccessValue(status[c]) = 1
      BY DEF ExportInv, SuccessInv
    <3> QED
      BY <3>1 DEF SuccessValue
  <2>4. <<"timeout", c, 1>> \in exported => status[c] = "pending"
    <3>1. <<"timeout", c, 1>> \in exported => TimeoutValue(status[c]) = 1
      BY DEF ExportInv, TimeoutInv
    <3> QED
      BY <3>1 DEF TimeoutValue
  <2>5. {e \in exported : e[2] = c} =
           {<<"duration", c, 1>>, <<"success", c, SuccessValue(status[c])>>,
            <<"timeout", c, TimeoutValue(status[c])>>}
    BY <2>1, <2>2
  <2> QED
    BY <2>3, <2>4, <2>5 DEF IInv, MainInv
<1> QED
  BY <1>1, ScrapeInvariance, ExportInvariance, PTL

\* A reported status is final, and nothing of a collector that did not time out
\* reaches the registry after its status.
THEOREM ScrapeStatusFinal == Safety => StatusFinal
<1> DEFINE Final == \A c \in Collectors :
                      status[c] # "running" =>
                        /\ status'[c] = status[c]
                        /\ status[c] # "pending" => delivered'[c] = delivered[c]
<1>1. ASSUME IInv, [Next]_vars PROVE [Final]_vars
  <2> DEFINE Same == UNCHANGED <<status, delivered>>
  <2>1. ASSUME NEW d \in Collectors, Collect(d) \/ CloseBuf(d) PROVE Same
    BY <2>1 DEF Collect, CollectMetric, CollectSend, CollectReturn, CollectPanic, CloseBuf,
                mainVars, fwdVars
  <2>2. ASSUME NEW d \in Collectors, FwdSend(d) PROVE Final
    <3>1. fwdPc[d] = "send" /\ status' = status
      BY <2>2 DEF FwdSend, mainVars
    <3>2. \A c \in Collectors \ {d} : delivered'[c] = delivered[c]
      BY <2>2, <1>1 DEF FwdSend, IInv, TypeOK
    <3>3. status[d] \in {"running", "pending"}
      BY <3>1, <1>1 DEF IInv, MainInv
    <3> QED
      BY <3>1, <3>2, <3>3
  <2>3. ASSUME NEW d \in Collectors,
               FwdCtxDone(d) \/ FwdRecv(d) \/ FwdClosed(d) \/ FwdLoad(d) \/ FwdPanic(d)
        PROVE  Same
    BY <2>3 DEF FwdCtxDone, FwdRecv, FwdClosed, FwdLoad, FwdPanic, mainVars, fwdVars
  <2>4. ASSUME NEW d \in Collectors, MainResult(d) \/ MainExpired(d) \/ Expire(d) \/ Drain(d)
        PROVE  Same
    BY <2>4 DEF MainResult, MainExpired, Expire, Drain, mainVars, fwdVars
  <2>5. ASSUME NEW d \in Collectors, MainFinish(d) \/ MainPending(d) PROVE Final
    <3>1. status[d] = "running" /\ delivered' = delivered
      BY <2>5, <1>1 DEF MainFinish, MainPending, fwdVars, IInv, MainInv
    <3>2. \A c \in Collectors \ {d} : status'[c] = status[c]
      BY <2>5, <1>1 DEF MainFinish, MainPending, IInv, TypeOK
    <3> QED
      BY <3>1, <3>2
  <2>6. ASSUME NEW d \in Collectors, EmitStatus(d) PROVE Same
    BY <2>6 DEF EmitStatus, mainVars, fwdVars
  <2>7. CASE AllWait \/ AllReturn \/ RegistryClose
    BY <2>7 DEF AllWait, AllReturn, RegistryClose, mainVars, fwdVars
  <2> QED
    BY <1>1, <2>1, <2>2, <2>3, <2>4, <2>5, <2>6, <2>7 DEF Next, Forwarder, Main
<1> QED
  BY <1>1, ScrapeInvariance, PTL DEF Safety, StatusFinal

-----------------------------------------------------------------------------
(* collectAll implements ScrapePromise. *)

\* Every step of the scrape is a step of the promise or leaves its state alone.
LEMMA NextPromise == IInv /\ ExportInv /\ [Next]_vars => [Promise!Next]_(Promise!vars)
<1> SUFFICES ASSUME IInv, ExportInv, [Next]_vars PROVE [Promise!Next]_(Promise!vars)
  OBVIOUS
<1> DEFINE Same == UNCHANGED <<status, exported, allPc>>
<1>1. ASSUME NEW c \in Collectors, Collect(c) \/ CloseBuf(c) PROVE Same
  BY <1>1 DEF Collect, CollectMetric, CollectSend, CollectReturn, CollectPanic, CloseBuf,
              mainVars, allVars
<1>2. ASSUME NEW c \in Collectors, Forwarder(c) \/ Expire(c) \/ Drain(c) PROVE Same
  BY <1>2 DEF Forwarder, FwdCtxDone, FwdRecv, FwdClosed, FwdLoad, FwdSend, FwdPanic,
              Expire, Drain, mainVars, allVars
<1>3. ASSUME NEW c \in Collectors, MainResult(c) \/ MainExpired(c) PROVE Same
  BY <1>3 DEF MainResult, MainExpired, mainVars, allVars
<1>4. ASSUME NEW c \in Collectors, MainFinish(c) \/ MainPending(c) PROVE Promise!Report(c)
  <2>1. allPc = "wait" /\ status[c] = "running"
    BY <1>4 DEF MainFinish, MainPending, IInv, TypeOK, AllInv, MainInv
  <2>2. \E s \in {"pending", "success", "failed"} : status' = [status EXCEPT ![c] = s]
    BY <1>4 DEF MainFinish, MainPending, StatusOf
  <2>3. exported' = exported \cup {<<"duration", c, 1>>} /\ allPc' = allPc
    BY <1>4 DEF MainFinish, MainPending, allVars
  <2> QED
    BY <2>1, <2>2, <2>3 DEF Promise!Report
<1>5. ASSUME AllWait PROVE Promise!Proceed
  BY <1>5 DEF AllWait, Promise!Proceed, mainVars, IInv, MainInv
<1>6. ASSUME NEW c \in Collectors, EmitStatus(c) PROVE Promise!Export(c)
  BY <1>6 DEF EmitStatus, Promise!Export, SuccessValue, TimeoutValue, mainVars, allVars
<1>7. ASSUME AllReturn PROVE Promise!Return
  <2>1. ASSUME NEW c \in Collectors
        PROVE  \A m \in {"duration", "success", "timeout"} :
                 \E v \in {0, 1} : <<m, c, v>> \in exported
    <3>1. <<"duration", c, 1>> \in exported
      BY <1>7 DEF AllReturn, IInv, AllInv, ExportInv, DurationInv
    <3>2. PICK v \in {0, 1} : <<"success", c, v>> \in exported
      BY <1>7 DEF AllReturn, Exported
    <3>3. <<"timeout", c, TimeoutValue(status[c])>> \in exported
      BY <3>2 DEF ExportInv, SuccessInv
    <3>4. TimeoutValue(status[c]) \in {0, 1}
      BY DEF TimeoutValue
    <3> QED
      BY <3>1, <3>2, <3>3, <3>4
  <2> QED
    BY <1>7, <2>1 DEF AllReturn, Promise!Return, mainVars
<1>8. CASE RegistryClose \/ UNCHANGED vars
  BY <1>8 DEF RegistryClose, mainVars, vars, Promise!vars
<1> QED
  BY <1>1, <1>2, <1>3, <1>4, <1>5, <1>6, <1>7, <1>8 DEF Next, Main, Promise!Next, Promise!vars

\* Whatever the goroutines do, the caller of collectAll sees a behaviour of ScrapePromise.
THEOREM ScrapeKeepsPromise == Safety => KeepsPromise
<1>1. Init => Promise!Init
  BY DEF Init, Promise!Init
<1> QED
  BY <1>1, NextPromise, ScrapeInvariance, ExportInvariance, PTL
     DEF Safety, KeepsPromise, Promise!Spec
=============================================================================
