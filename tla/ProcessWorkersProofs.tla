------------------------ MODULE ProcessWorkersProofs ------------------------
(***************************************************************************)
(* The WaitGroup of the process collector is exact and Collect reports     *)
(* every process once, for every number of overlapping calls, workers and  *)
(* processes and every capacity of workerCh.                               *)
(***************************************************************************)
EXTENDS ProcessWorkers, FiniteSetTheorems, SequenceTheorems, TLAPS

CallStates == {"idle", "loop", "send", "stuck", "returned", "panicked", "failed"}

CallTypes ==
  /\ queue \in Seq(Calls)
  /\ call \in [Calls -> CallStates]
  /\ rows \in [Calls -> Nat] /\ all \in [Calls -> Nat]
  /\ wg \in [Calls -> Int] /\ sent \in [Calls -> Int] /\ lost \in [Calls -> Int]
WorkerTypes ==
  /\ worker \in [Workers -> {"none", "start", "receive", "stuck", "serve", "ended"}]
  /\ req \in [Workers -> Calls \cup {"none"}]
  /\ \A w \in Workers : worker[w] = "serve" => req[w] \in Calls
  /\ perf = "none" => \A w \in Workers : worker[w] = "none"
TypeOK == CallTypes /\ WorkerTypes

InQueue(k)   == {i \in DOMAIN queue : queue[i] = k}
InService(k) == {w \in Workers : worker[w] = "serve" /\ req[w] = k}

\* Collect has counted a request it has not put into the channel, or never will.
Pending(k) == call[k] \in {"send", "stuck"} \/ (call[k] = "panicked" /\ all[k] > 0)

\* How far a call is: what it has found it has yet to hand over, or handed over.
Stages == \A k \in Calls :
  /\ rows[k] <= all[k]
  /\ call[k] = "idle" => all[k] = 0 /\ rows[k] = 0
  /\ call[k] \in {"send", "stuck"} => rows[k] > 0
  /\ call[k] = "returned" => rows[k] = 0 /\ wg[k] = 0

\* Every process a call has handed over is in the channel, with a worker, reported or lost.
Accounted == \A k \in Calls : sent[k] + lost[k] + Queued(k) + Serving(k) = all[k] - rows[k]

IInv == TypeOK /\ Stages /\ WaitGroupExact /\ Accounted

-----------------------------------------------------------------------------
(* What the channel and the workers' states count. *)

\* The counts are natural numbers: the channel and the pool are finite.
LEMMA Counts ==
  ASSUME TypeOK, NEW k \in Calls
  PROVE  /\ IsFiniteSet(InQueue(k)) /\ Queued(k) = Cardinality(InQueue(k)) /\ Queued(k) \in Nat
         /\ IsFiniteSet(InService(k)) /\ Serving(k) = Cardinality(InService(k)) /\ Serving(k) \in Nat
<1>1. IsFiniteSet(DOMAIN queue)
  <2>1. DOMAIN queue = 1..Len(queue) /\ Len(queue) \in Nat
    BY LenProperties DEF TypeOK, CallTypes
  <2> QED BY <2>1, FS_Interval
<1>2. IsFiniteSet(InQueue(k)) /\ IsFiniteSet(InService(k))
  BY <1>1, FS_Subset, SizesAssumption DEF InQueue, InService
<1> QED BY <1>2, FS_CardinalityType DEF Queued, Serving, InQueue, InService

\* A send adds one to what the channel holds of its call.
LEMMA SendCounts ==
  ASSUME TypeOK, NEW k \in Calls, NEW j \in Calls, queue' = Append(queue, j)
  PROVE  Queued(k)' = IF k = j THEN Queued(k) + 1 ELSE Queued(k)
<1>1. /\ DOMAIN queue = 1..Len(queue) /\ Len(queue) \in Nat
      /\ DOMAIN queue' = 1..(Len(queue) + 1)
      /\ \A i \in 1..Len(queue) : queue'[i] = queue[i]
      /\ queue'[Len(queue) + 1] = j
  BY LenProperties, AppendProperties DEF TypeOK, CallTypes
<1>2. IsFiniteSet(InQueue(k))
  BY Counts
<1>3. CASE k = j
  <2>1. InQueue(k)' = InQueue(k) \cup {Len(queue) + 1}
    BY <1>1, <1>3 DEF InQueue
  <2>2. Len(queue) + 1 \notin InQueue(k)
    BY <1>1 DEF InQueue
  <2> QED BY <1>2, <1>3, <2>1, <2>2, FS_AddElement DEF Queued, InQueue
<1>4. CASE k # j
  <2>1. InQueue(k)' = InQueue(k)
    BY <1>1, <1>4 DEF InQueue
  <2> QED BY <1>4, <2>1 DEF Queued, InQueue
<1> QED BY <1>3, <1>4

\* A receive takes one of them.
LEMMA ReceiveCounts ==
  ASSUME TypeOK, NEW k \in Calls, queue # <<>>, queue' = Tail(queue)
  PROVE  /\ Head(queue) \in Calls
         /\ Queued(k)' = IF k = Head(queue) THEN Queued(k) - 1 ELSE Queued(k)
<1> DEFINE Rest == InQueue(k) \ {1}
<1>1. /\ DOMAIN queue = 1..Len(queue) /\ Len(queue) \in Nat /\ Len(queue) > 0
      /\ DOMAIN queue' = 1..(Len(queue) - 1)
      /\ \A i \in 1..(Len(queue) - 1) : queue'[i] = queue[i + 1]
      /\ Head(queue) = queue[1] /\ Head(queue) \in Calls
  BY LenProperties, HeadTailProperties, EmptySeq DEF TypeOK, CallTypes
<1>2. IsFiniteSet(InQueue(k)) /\ Cardinality(InQueue(k)) = Queued(k) /\ Queued(k) \in Nat
  BY Counts
<1>3. /\ IsFiniteSet(Rest)
      /\ Cardinality(Rest) = IF k = Head(queue) THEN Queued(k) - 1 ELSE Queued(k)
  <2>1. 1 \in InQueue(k) <=> k = Head(queue)
    BY <1>1 DEF InQueue
  <2> QED BY <1>2, <2>1, FS_RemoveElement
<1>4. ExistsBijection(Rest, InQueue(k)')
  <2> DEFINE f == [i \in Rest |-> i - 1]
  <2>1. \A i \in Rest : i \in 2..Len(queue) /\ queue[i] = k
    BY <1>1 DEF InQueue
  <2>2. \A i \in Rest : i - 1 \in InQueue(k)'
    BY <1>1, <2>1 DEF InQueue
  <2>3. \A i \in InQueue(k)' : i + 1 \in Rest /\ f[i + 1] = i
    BY <1>1 DEF InQueue
  <2>4. \A i, j \in Rest : f[i] = f[j] => i = j
    BY <2>1
  <2>5. f \in [Rest -> InQueue(k)']
    BY <2>2
  <2> HIDE DEF f, Rest
  <2>6. f \in Bijection(Rest, InQueue(k)')
    BY <2>3, <2>4, <2>5 DEF Bijection, Injection, Surjection, IsInjective
  <2> QED BY <2>6 DEF ExistsBijection
<1>5. Cardinality(InQueue(k)') = Cardinality(Rest)
  BY <1>3, <1>4, FS_Bijection
<1> QED BY <1>1, <1>3, <1>5 DEF Queued, InQueue

\* A worker that takes a request serves one more.
LEMMA ServeBegins ==
  ASSUME TypeOK, NEW k \in Calls, NEW j \in Calls, NEW w \in Workers, worker[w] = "receive",
         worker' = [worker EXCEPT ![w] = "serve"], req' = [req EXCEPT ![w] = j]
  PROVE  Serving(k)' = IF k = j THEN Serving(k) + 1 ELSE Serving(k)
<1>1. IsFiniteSet(InService(k))
  BY Counts
<1>2. CASE k = j
  <2>1. InService(k)' = InService(k) \cup {w} /\ w \notin InService(k)
    BY <1>2 DEF InService, TypeOK, WorkerTypes
  <2> QED BY <1>1, <1>2, <2>1, FS_AddElement DEF Serving, InService
<1>3. CASE k # j
  <2>1. InService(k)' = InService(k)
    BY <1>3 DEF InService, TypeOK, WorkerTypes
  <2> QED BY <1>3, <2>1 DEF Serving, InService
<1> QED BY <1>2, <1>3

\* One that reports it, or panics, serves one less.
LEMMA ServeEnds ==
  ASSUME TypeOK, NEW k \in Calls, NEW w \in Workers, worker[w] = "serve", NEW s, s # "serve",
         worker' = [worker EXCEPT ![w] = s], req' = [req EXCEPT ![w] = "none"]
  PROVE  Serving(k)' = IF k = req[w] THEN Serving(k) - 1 ELSE Serving(k)
<1>1. IsFiniteSet(InService(k))
  BY Counts
<1>2. CASE k = req[w]
  <2>1. InService(k)' = InService(k) \ {w} /\ w \in InService(k)
    BY <1>2 DEF InService, TypeOK, WorkerTypes
  <2> QED BY <1>1, <1>2, <2>1, FS_RemoveElement DEF Serving, InService
<1>3. CASE k # req[w]
  <2>1. InService(k)' = InService(k)
    BY <1>3 DEF InService, TypeOK, WorkerTypes
  <2> QED BY <1>3, <2>1 DEF Serving, InService
<1> QED BY <1>2, <1>3

\* What else a step does to the workers and the channel leaves the counts alone.
LEMMA SameCounts ==
  ASSUME TypeOK, NEW k \in Calls
  PROVE  /\ queue' = queue => Queued(k)' = Queued(k)
         /\ (req' = req /\ \A w \in Workers : (worker'[w] = "serve") <=> (worker[w] = "serve"))
              => Serving(k)' = Serving(k)
BY DEF Queued, Serving

-----------------------------------------------------------------------------
(* The inductive invariant. *)

\* The part that does not count.
LEMMA CallTypesKept ==
  ASSUME TypeOK, Stages, [Next]_vars
  PROVE  CallTypes'
<1> USE DEF CallTypes, TypeOK, CallStates, calls
<1>1. CASE Build \/ BuildFails \/ Close
  BY <1>1 DEF Build, BuildFails, Close
<1>2. ASSUME NEW k \in Calls, CollectRows(k) PROVE CallTypes'
  <2>1. rows' \in [Calls -> Nat] /\ all' \in [Calls -> Nat]
    <3>1. CASE rows' = rows /\ all' = all
      BY <3>1
    <3>2. CASE \E n \in 0..MaxRows : rows' = [rows EXCEPT ![k] = n] /\ all' = [all EXCEPT ![k] = n]
      BY <3>2, SizesAssumption
    <3> QED BY <1>2, <3>1, <3>2 DEF CollectRows
  <2>2. call' \in [Calls -> CallStates]
    BY <1>2 DEF CollectRows
  <2> QED BY <1>2, <2>1, <2>2 DEF CollectRows
<1>3. ASSUME NEW k \in Calls, CollectAdd(k) \/ CollectWait(k) PROVE CallTypes'
  <2>1. call' \in [Calls -> CallStates]
    BY <1>3 DEF CollectAdd, CollectWait
  <2>2. wg' \in [Calls -> Int]
    BY <1>3 DEF CollectAdd, CollectWait
  <2> QED BY <1>3, <2>1, <2>2 DEF CollectAdd, CollectWait
<1>4. ASSUME NEW k \in Calls, CollectSend(k) PROVE CallTypes'
  <2>1. queue' \in Seq(Calls)
    <3>1. queue \in Seq(Calls) /\ Append(queue, k) \in Seq(Calls)
      BY AppendProperties
    <3> QED BY <1>4, <3>1 DEF CollectSend
  <2>2. call' \in [Calls -> CallStates]
    BY <1>4 DEF CollectSend
  <2>3. rows' \in [Calls -> Nat]
    <3>1. rows[k] - 1 \in Nat
      BY <1>4 DEF CollectSend, Stages
    <3> QED BY <1>4, <3>1 DEF CollectSend
  <2> QED BY <1>4, <2>1, <2>2, <2>3 DEF CollectSend
<1>5. ASSUME NEW w \in Workers, WorkerRange(w) \/ WorkerServe(w) \/ WorkerPanic(w) PROVE CallTypes'
  <2>1. CASE WorkerRange(w)
    BY <2>1 DEF WorkerRange
  <2>2. CASE WorkerServe(w) \/ WorkerPanic(w)
    <3>1. req[w] \in Calls
      BY <2>2 DEF WorkerServe, WorkerPanic, WorkerTypes
    <3>2. wg' \in [Calls -> Int]
      BY <2>2, <3>1 DEF WorkerServe, WorkerPanic
    <3>3. CASE WorkerServe(w)
      <4>1. sent' \in [Calls -> Int]
        BY <3>1, <3>3 DEF WorkerServe
      <4> QED BY <3>2, <3>3, <4>1 DEF WorkerServe
    <3>4. CASE WorkerPanic(w)
      <4>1. lost' \in [Calls -> Int]
        BY <3>1, <3>4 DEF WorkerPanic
      <4> QED BY <3>2, <3>4, <4>1 DEF WorkerPanic
    <3> QED BY <2>2, <3>3, <3>4
  <2> QED BY <1>5, <2>1, <2>2
<1>6. ASSUME NEW w \in Workers, WorkerReceive(w) PROVE CallTypes'
  <2>1. queue' \in Seq(Calls)
    <3>1. queue \in Seq(Calls) /\ (queue # <<>> => Tail(queue) \in Seq(Calls))
      BY HeadTailProperties
    <3> QED BY <1>6, <3>1 DEF WorkerReceive
  <2> QED BY <1>6, <2>1 DEF WorkerReceive
<1>7. CASE UNCHANGED vars
  BY <1>7 DEF vars
<1> HIDE DEF CallTypes, TypeOK, CallStates, calls
<1> QED BY <1>1, <1>2, <1>3, <1>4, <1>5, <1>6, <1>7 DEF Next, Step

LEMMA WorkerTypesKept ==
  ASSUME TypeOK, [Next]_vars
  PROVE  WorkerTypes'
<1> USE DEF WorkerTypes, TypeOK, calls
<1>1. CASE Build \/ BuildFails \/ Close
  BY <1>1 DEF Build, BuildFails, Close
<1>2. ASSUME NEW k \in Calls, CollectRows(k) \/ CollectAdd(k) \/ CollectWait(k) \/ CollectSend(k)
      PROVE  WorkerTypes'
  BY <1>2 DEF CollectRows, CollectAdd, CollectWait, CollectSend
<1>5. ASSUME NEW w \in Workers, WorkerRange(w) PROVE WorkerTypes'
  BY <1>5 DEF WorkerRange
<1>6. ASSUME NEW w \in Workers, WorkerServe(w) \/ WorkerPanic(w) PROVE WorkerTypes'
  BY <1>6 DEF WorkerServe, WorkerPanic
<1>7. ASSUME NEW w \in Workers, WorkerReceive(w) PROVE WorkerTypes'
  <2>1. queue # <<>> => Head(queue) \in Calls
    BY HeadTailProperties DEF CallTypes
  <2> QED BY <1>7, <2>1 DEF WorkerReceive
<1>8. CASE UNCHANGED vars
  BY <1>8 DEF vars
<1> QED BY <1>1, <1>2, <1>5, <1>6, <1>7, <1>8 DEF Next, Step

\* How a step changes the counts of a call, and what the call has done.
LEMMA StagesKept ==
  ASSUME IInv, [Next]_vars
  PROVE  Stages'
<1> USE DEF IInv, TypeOK, CallTypes, Stages
<1>1. CASE Build \/ BuildFails \/ Close
  BY <1>1 DEF Build, BuildFails, Close, calls
<1>2. ASSUME NEW k \in Calls, CollectRows(k) PROVE Stages'
  <2>1. CASE rows' = rows /\ all' = all /\ call'[k] \in {"panicked", "failed"}
    BY <1>2, <2>1 DEF CollectRows
  <2>2. ASSUME NEW n \in 0..MaxRows, rows' = [rows EXCEPT ![k] = n], all' = [all EXCEPT ![k] = n],
               call' = [call EXCEPT ![k] = "loop"]
        PROVE  Stages'
    BY <1>2, <2>2, SizesAssumption DEF CollectRows
  <2> QED BY <1>2, <2>1, <2>2 DEF CollectRows
<1>3. ASSUME NEW k \in Calls, CollectAdd(k) PROVE Stages'
  BY <1>3 DEF CollectAdd
<1>4. ASSUME NEW k \in Calls, CollectSend(k) PROVE Stages'
  BY <1>4 DEF CollectSend
<1>5. ASSUME NEW k \in Calls, CollectWait(k) PROVE Stages'
  BY <1>5 DEF CollectWait
<1>6. ASSUME NEW w \in Workers, WorkerRange(w) \/ WorkerReceive(w) PROVE Stages'
  <2>1. UNCHANGED <<call, rows, all, wg>>
    BY <1>6 DEF WorkerRange, WorkerReceive, calls
  <2> QED BY <2>1
<1>7. ASSUME NEW w \in Workers, WorkerServe(w) \/ WorkerPanic(w) PROVE Stages'
  <2>1. req[w] \in Calls /\ w \in InService(req[w]) /\ UNCHANGED <<call, rows, all>>
        /\ wg' = [wg EXCEPT ![req[w]] = @ - 1]
    BY <1>7 DEF WorkerServe, WorkerPanic, WorkerTypes, InService, calls
  <2>2. Serving(req[w]) # 0
    <3>1. IsFiniteSet(InService(req[w])) /\ Serving(req[w]) = Cardinality(InService(req[w]))
      BY <2>1, Counts
    <3> QED BY <2>1, <3>1, FS_EmptySet
  <2>3. wg[req[w]] # 0
    <3>1. Serving(req[w]) \in Nat /\ Queued(req[w]) \in Nat
      BY <2>1, Counts
    <3>2. wg[req[w]] = Queued(req[w]) + Serving(req[w])
                       + (IF Pending(req[w]) THEN 1 ELSE 0)
      BY <2>1 DEF WaitGroupExact, Pending
    <3> QED BY <2>2, <3>1, <3>2
  <2>4. call[req[w]] # "returned"
    BY <2>1, <2>3
  <2> QED BY <2>1, <2>4
<1>8. CASE UNCHANGED vars
  BY <1>8 DEF vars
<1> QED BY <1>1, <1>2, <1>3, <1>4, <1>5, <1>6, <1>7, <1>8 DEF Next, Step

\* wg.Add precedes the send and Done follows the serving of a request, so that the
\* WaitGroup and the account of processes change together with the two counts.
LEMMA CountsKept ==
  ASSUME IInv, [Next]_vars
  PROVE  (WaitGroupExact /\ Accounted)'
<1>t. TypeOK /\ Stages /\ WaitGroupExact /\ Accounted
  BY DEF IInv
<1> SUFFICES ASSUME NEW k \in Calls
             PROVE  /\ wg'[k] = Queued(k)' + Serving(k)' + (IF Pending(k)' THEN 1 ELSE 0)
                    /\ sent'[k] + lost'[k] + Queued(k)' + Serving(k)' = all'[k] - rows'[k]
  BY DEF WaitGroupExact, Accounted, Pending
<1> DEFINE Goal == /\ wg'[k] = Queued(k)' + Serving(k)' + (IF Pending(k)' THEN 1 ELSE 0)
                   /\ sent'[k] + lost'[k] + Queued(k)' + Serving(k)' = all'[k] - rows'[k]
<1>n. /\ Queued(k) \in Nat /\ Serving(k) \in Nat
      /\ wg[k] \in Int /\ sent[k] \in Int /\ lost[k] \in Int /\ rows[k] \in Nat /\ all[k] \in Nat
      /\ wg[k] = Queued(k) + Serving(k) + (IF Pending(k) THEN 1 ELSE 0)
      /\ sent[k] + lost[k] + Queued(k) + Serving(k) = all[k] - rows[k]
  BY <1>t, Counts, SMTT(30) DEF WaitGroupExact, Accounted, Pending, TypeOK, CallTypes
<1>f. ASSUME Queued(k)' = Queued(k), Serving(k)' = Serving(k), Pending(k)' = Pending(k),
             UNCHANGED <<wg, sent, lost, all, rows>>
      PROVE  Goal
  BY <1>n, <1>f
<1>1. CASE Build
  <2>1. \A w \in Workers : worker'[w] # "serve" /\ worker[w] # "serve"
    BY <1>1, <1>t DEF Build, TypeOK, WorkerTypes
  <2>2. Queued(k)' = Queued(k) /\ Serving(k)' = Serving(k)
    BY <1>1, <1>t, <2>1, SameCounts DEF Build
  <2> QED BY <1>1, <1>f, <2>2 DEF Build, calls, Pending
<1>2. CASE BuildFails \/ Close \/ UNCHANGED vars
  <2>1. Queued(k)' = Queued(k) /\ Serving(k)' = Serving(k)
    BY <1>2, <1>t, SameCounts DEF BuildFails, Close, vars
  <2> QED BY <1>2, <1>f, <2>1 DEF BuildFails, Close, vars, calls, Pending
<1>3. ASSUME NEW j \in Calls, CollectRows(j) PROVE Goal
  <2>1. Queued(k)' = Queued(k) /\ Serving(k)' = Serving(k)
    BY <1>3, <1>t, SameCounts DEF CollectRows
  <2>2. CASE k # j
    <3>1. UNCHANGED <<wg, sent, lost>>
      BY <1>3 DEF CollectRows
    <3>2. rows'[k] = rows[k] /\ all'[k] = all[k] /\ call'[k] = call[k]
      BY <1>3, <1>t, <2>2 DEF CollectRows, TypeOK, CallTypes
    <3> QED BY <1>n, <2>1, <3>1, <3>2 DEF Pending
  <2>3. CASE k = j
    <3>1. all[k] = 0 /\ rows[k] = 0 /\ ~Pending(k) /\ UNCHANGED <<wg, sent, lost>>
      BY <1>3, <1>t, <2>3 DEF CollectRows, Stages, Pending
    <3>2. ~Pending(k)' /\ all'[k] = rows'[k] /\ all'[k] \in Nat
      <4>1. CASE rows' = rows /\ all' = all /\ call'[k] \in {"panicked", "failed"}
        BY <3>1, <4>1 DEF Pending
      <4>2. ASSUME NEW n \in 0..MaxRows, rows' = [rows EXCEPT ![k] = n],
                   all' = [all EXCEPT ![k] = n], call' = [call EXCEPT ![k] = "loop"]
            PROVE  ~Pending(k)' /\ all'[k] = rows'[k] /\ all'[k] \in Nat
        BY <1>t, <4>2, SizesAssumption DEF Pending, TypeOK, CallTypes
      <4> QED BY <1>3, <1>t, <2>3, <4>1, <4>2 DEF CollectRows, TypeOK, CallTypes
    <3> QED BY <1>n, <2>1, <3>1, <3>2
  <2> QED BY <2>2, <2>3
<1>4. ASSUME NEW j \in Calls, CollectAdd(j) PROVE Goal
  <2>1. Queued(k)' = Queued(k) /\ Serving(k)' = Serving(k)
    BY <1>4, <1>t, SameCounts DEF CollectAdd
  <2>2. CASE k # j
    BY <1>4, <1>n, <2>1, <2>2 DEF CollectAdd, Pending
  <2>3. CASE k = j
    <3>1. ~Pending(k) /\ Pending(k)' /\ wg'[k] = wg[k] + 1 /\ UNCHANGED <<sent, lost, all, rows>>
      BY <1>4, <1>t, <2>3, SMTT(30) DEF CollectAdd, Pending, TypeOK, CallTypes
    <3> QED BY <1>n, <2>1, <3>1
  <2> QED BY <2>2, <2>3
<1>5. ASSUME NEW j \in Calls, CollectSend(j) PROVE Goal
  <2>0. Serving(k)' = Serving(k)
    BY <1>5, <1>t, SameCounts DEF CollectSend
  <2>1. CASE queue' = Append(queue, j) /\ rows' = [rows EXCEPT ![j] = @ - 1]
             /\ call' = [call EXCEPT ![j] = "loop"]
    <3>1. Queued(k)' = IF k = j THEN Queued(k) + 1 ELSE Queued(k)
      BY <1>t, <2>1, SendCounts
    <3>2. UNCHANGED <<wg, sent, lost, all>>
      BY <1>5 DEF CollectSend
    <3>3. CASE k # j
      BY <1>n, <2>0, <2>1, <3>1, <3>2, <3>3 DEF Pending
    <3>4. CASE k = j
      <4>1. Pending(k) /\ ~Pending(k)' /\ rows'[k] = rows[k] - 1
        BY <1>5, <1>t, <2>1, <3>4 DEF CollectSend, Pending, TypeOK, CallTypes
      <4> QED BY <1>n, <2>0, <3>1, <3>2, <3>4, <4>1
    <3> QED BY <3>3, <3>4
  <2>2. CASE call' = [call EXCEPT ![j] = "panicked"] /\ UNCHANGED <<queue, rows>>
    <3>1. Queued(k)' = Queued(k) /\ UNCHANGED <<wg, sent, lost, all>>
      BY <1>5, <1>t, <2>2, SameCounts DEF CollectSend
    <3>2. Pending(k)' = Pending(k)
      BY <1>5, <1>t, <2>2, <3>1 DEF CollectSend, Pending, Stages, TypeOK, CallTypes
    <3> QED BY <1>f, <2>0, <2>2, <3>1, <3>2
  <2> QED BY <1>5, <2>1, <2>2 DEF CollectSend
<1>6. ASSUME NEW j \in Calls, CollectWait(j) PROVE Goal
  <2>1. Queued(k)' = Queued(k) /\ Serving(k)' = Serving(k)
    BY <1>6, <1>t, SameCounts DEF CollectWait
  <2>2. Pending(k)' = Pending(k)
    BY <1>6, <1>t, SMTT(30) DEF CollectWait, Pending, TypeOK, CallTypes
  <2> QED BY <1>6, <1>f, <2>1, <2>2 DEF CollectWait
<1>7. ASSUME NEW w \in Workers, WorkerRange(w) PROVE Goal
  <2>1. Queued(k)' = Queued(k) /\ Serving(k)' = Serving(k)
    BY <1>7, <1>t, SameCounts, SMTT(30) DEF WorkerRange, TypeOK, WorkerTypes
  <2> QED BY <1>7, <1>f, <2>1 DEF WorkerRange, calls, Pending
<1>8. ASSUME NEW w \in Workers, WorkerReceive(w) PROVE Goal
  <2>1. UNCHANGED <<call, rows, all, wg, sent, lost>> /\ Pending(k)' = Pending(k)
    BY <1>8 DEF WorkerReceive, calls, Pending
  <2>2. CASE queue # <<>> /\ req' = [req EXCEPT ![w] = Head(queue)] /\ queue' = Tail(queue)
             /\ worker' = [worker EXCEPT ![w] = "serve"]
    <3>1. /\ Head(queue) \in Calls
          /\ Queued(k)' = IF k = Head(queue) THEN Queued(k) - 1 ELSE Queued(k)
      BY <1>t, <2>2, ReceiveCounts
    <3>2. Serving(k)' = IF k = Head(queue) THEN Serving(k) + 1 ELSE Serving(k)
      BY <1>8, <1>t, <2>2, <3>1, ServeBegins DEF WorkerReceive
    <3> QED BY <1>n, <2>1, <3>1, <3>2
  <2>3. CASE worker' = [worker EXCEPT ![w] = "ended"] /\ UNCHANGED <<queue, req>>
    <3>1. Queued(k)' = Queued(k) /\ Serving(k)' = Serving(k)
      BY <1>8, <1>t, <2>3, SameCounts DEF WorkerReceive, TypeOK, WorkerTypes
    <3> QED BY <1>f, <2>1, <3>1
  <2> QED BY <1>8, <2>2, <2>3 DEF WorkerReceive
<1>9. ASSUME NEW w \in Workers, WorkerServe(w) \/ WorkerPanic(w) PROVE Goal
  <2>1. /\ req[w] \in Calls /\ UNCHANGED <<call, rows, all, queue>>
        /\ wg' = [wg EXCEPT ![req[w]] = @ - 1]
        /\ \/ sent' = [sent EXCEPT ![req[w]] = @ + 1] /\ lost' = lost
           \/ lost' = [lost EXCEPT ![req[w]] = @ + 1] /\ sent' = sent
    BY <1>9, <1>t DEF WorkerServe, WorkerPanic, TypeOK, WorkerTypes, calls
  <2>2. Serving(k)' = IF k = req[w] THEN Serving(k) - 1 ELSE Serving(k)
    BY <1>9, <1>t, ServeEnds, SMTT(30) DEF WorkerServe, WorkerPanic
  <2>3. Queued(k)' = Queued(k) /\ Pending(k)' = Pending(k)
    BY <1>t, <2>1, SameCounts DEF Pending
  <2>4. /\ wg'[k] = IF k = req[w] THEN wg[k] - 1 ELSE wg[k]
        /\ \/ /\ sent'[k] = IF k = req[w] THEN sent[k] + 1 ELSE sent[k]
              /\ lost'[k] = lost[k]
           \/ /\ lost'[k] = IF k = req[w] THEN lost[k] + 1 ELSE lost[k]
              /\ sent'[k] = sent[k]
    BY <1>t, <2>1, SMTT(30) DEF TypeOK, CallTypes
  <2>5. rows'[k] = rows[k] /\ all'[k] = all[k]
    BY <2>1
  <2> QED BY <1>n, <2>2, <2>3, <2>4, <2>5
<1> QED BY <1>1, <1>2, <1>3, <1>4, <1>5, <1>6, <1>7, <1>8, <1>9 DEF Next, Step

\* The invariant holds initially and is kept by every step.
LEMMA InvariantHolds == Spec => []IInv
<1>1. Init => IInv
  <2> SUFFICES ASSUME Init PROVE IInv
    OBVIOUS
  <2>1. TypeOK /\ Stages
    BY EmptySeq DEF Init, TypeOK, CallTypes, WorkerTypes, CallStates, Stages
  <2>2. ASSUME NEW k \in Calls PROVE Queued(k) = 0 /\ Serving(k) = 0
    <3>1. InQueue(k) = {} /\ InService(k) = {}
      BY DEF Init, InQueue, InService
    <3> QED BY <3>1, FS_EmptySet DEF Queued, Serving, InQueue, InService
  <2> QED BY <2>1, <2>2 DEF Init, IInv, WaitGroupExact, Accounted
<1>2. IInv /\ [Next]_vars => IInv'
  BY CallTypesKept, WorkerTypesKept, StagesKept, CountsKept DEF IInv, TypeOK
<1> QED BY <1>1, <1>2, PTL DEF Spec

\* The WaitGroup of every call of process.Collect counts exactly its requests in workerCh,
\* those a collectWorker serves and the one about to be sent, whatever panics and
\* restarts: it can neither go below zero nor let Collect wait for nothing.
THEOREM WaitGroupIsExact == Spec => []WaitGroupExact
BY InvariantHolds, PTL DEF IInv

\* When process.Collect returns, each process it found has been reported once or lost
\* with a worker that panicked, for every number of workers and overlapping calls.
THEOREM ProcessesReportedOnce == Spec => []EveryProcessOnce
<1>1. IInv => EveryProcessOnce
  <2> SUFFICES ASSUME IInv, NEW k \in Calls, call[k] = "returned" PROVE sent[k] + lost[k] = all[k]
    BY DEF EveryProcessOnce
  <2>1. rows[k] = 0 /\ wg[k] = 0 /\ wg[k] = Queued(k) + Serving(k)
    <3>1. ~Pending(k)
      BY DEF Pending
    <3>2. wg[k] = Queued(k) + Serving(k) + (IF Pending(k) THEN 1 ELSE 0)
      BY DEF IInv, WaitGroupExact, Pending
    <3>3. Queued(k) \in Nat /\ Serving(k) \in Nat
      BY Counts DEF IInv
    <3> QED BY <3>1, <3>2, <3>3 DEF IInv, Stages
  <2>2. Queued(k) \in Nat /\ Serving(k) \in Nat
    BY Counts DEF IInv
  <2>3. /\ sent[k] \in Int /\ lost[k] \in Int /\ all[k] \in Nat
        /\ sent[k] + lost[k] + Queued(k) + Serving(k) = all[k] - rows[k]
    BY DEF IInv, Accounted, TypeOK, CallTypes
  <2> QED BY <2>1, <2>2, <2>3
<1> QED BY <1>1, InvariantHolds, PTL
=============================================================================
