------------------------ MODULE CollectorStateProofs ------------------------
(***************************************************************************)
(* What the collectors that keep state between calls of Collect promise,   *)
(* for any calls, volumes, searches and containers.                        *)
(***************************************************************************)
EXTENDS CollectorState, FiniteSetTheorems, TLAPS

\* A step is one of one collector and leaves the others alone.
LEMMA StepOfOne ==
  [StateNext]_<<subject, vars, update, container>> =>
    [Next]_vars /\ [U!Next]_update /\ [K!Next]_container
BY DEF StateNext

\* All of them start where they start.
LEMMA StartOfAll == StateInit => Init /\ U!Init /\ K!Init
BY DEF StateInit

-----------------------------------------------------------------------------
(* bitlocker *)

\* The request of the one call under way is in at most one place: in the request
\* channel, with the worker, or answered.
Chain ==
  /\ resCh # <<>> => reqCh = <<>> /\ path = None
  /\ path # None => reqCh = <<>>
OwnRow(k) ==
  /\ reqCh = <<>> \/ reqCh = <<row[k]>>
  /\ resCh = <<>> \/ resCh = <<row[k]>>
  /\ path = None \/ path = row[k]
Alone ==
  /\ \A j, k \in Calls : UnderWay(j) /\ UnderWay(k) => j = k
  /\ \A k \in Calls : call[k] = "receive" => OwnRow(k)
  /\ (\A k \in Calls : call[k] # "receive") => reqCh = <<>> /\ resCh = <<>> /\ path = None
  /\ Chain
  /\ ~swapped
Types ==
  /\ row \in [Calls -> Nat \ {0}]
  /\ call \in [Calls -> {"idle", "send", "receive", "returned"}]
  /\ reqCh \in Seq(Nat \ {0}) /\ path \in Nat
  /\ overlapped \in BOOLEAN /\ swapped \in BOOLEAN
  /\ worker = "lookup" <=> path # None
BitlockerInv == Types /\ (~overlapped => Alone)

LEMMA BitlockerInitially == Init => BitlockerInv
  <1> SUFFICES ASSUME Init PROVE BitlockerInv
    OBVIOUS
  <1>1. overlapped \in BOOLEAN /\ swapped \in BOOLEAN /\ ~swapped
    BY Zenon DEF Init
  <1>2. Types
    BY <1>1 DEF Init, Types, None
  <1>3. Alone
    BY <1>1 DEF Init, Alone, Chain, UnderWay
  <1>4. QED
    BY <1>2, <1>3 DEF BitlockerInv

LEMMA CollectKept == ASSUME BitlockerInv, NEW k \in Calls, Collect(k) PROVE BitlockerInv'
  <1>1. Types'
    BY DEF BitlockerInv, Types, Collect
  <1>2. ASSUME ~overlapped' PROVE Alone'
    <2>1. Alone /\ \A j \in Calls : ~UnderWay(j)
      BY <1>2, Zenon DEF BitlockerInv, Collect, Types
    <2>2. QED
      BY <2>1 DEF BitlockerInv, Types, Collect, Alone, Chain, OwnRow, UnderWay
  <1>3. QED
    BY <1>1, <1>2 DEF BitlockerInv

LEMMA SendKept == ASSUME BitlockerInv, NEW k \in Calls, CollectSend(k) PROVE BitlockerInv'
  <1>1. Types'
    BY DEF BitlockerInv, Types, CollectSend
  <1>2. ASSUME ~overlapped' PROVE Alone'
    <2>1. Alone
      BY <1>2 DEF BitlockerInv, CollectSend
    <2>2. \A j \in Calls : call[j] # "receive"
      BY <2>1 DEF Alone, UnderWay, CollectSend
    <2>3. reqCh = <<>> /\ resCh = <<>> /\ path = None
      BY <2>1, <2>2 DEF Alone
    <2>4. \A j \in Calls : call'[j] = IF j = k THEN "receive" ELSE call[j]
      BY DEF BitlockerInv, Types, CollectSend
    <2>5. reqCh' = <<row'[k]>> /\ resCh' = <<>> /\ path' = None /\ ~swapped' /\ row' = row
      BY <2>1, <2>3 DEF CollectSend, Alone
    <2>6. QED
      BY <2>1, <2>2, <2>4, <2>5 DEF Alone, Chain, OwnRow, UnderWay, CollectSend
  <1>3. QED
    BY <1>1, <1>2 DEF BitlockerInv

LEMMA ReceiveKept == ASSUME BitlockerInv, NEW k \in Calls, CollectReceive(k) PROVE BitlockerInv'
  <1>1. Types'
    <2>1. swapped' \in BOOLEAN
      BY DEF CollectReceive
    <2>2. QED
      BY <2>1 DEF BitlockerInv, Types, CollectReceive
  <1>2. ASSUME ~overlapped' PROVE Alone'
    <2>1. Alone
      BY <1>2 DEF BitlockerInv, CollectReceive
    <2>2. resCh = <<row[k]>> /\ reqCh = <<>> /\ path = None
      BY <2>1 DEF Alone, OwnRow, Chain, CollectReceive
    <2>3. \A j \in Calls : call'[j] # "receive"
      BY <2>1 DEF Alone, UnderWay, CollectReceive, BitlockerInv, Types
    <2>4. Head(resCh) = row[k]
      BY <2>2
    <2>5. ~swapped'
      BY <2>1, <2>4, Zenon DEF Alone, CollectReceive
    <2>6. reqCh' = <<>> /\ resCh' = <<>> /\ path' = None
      BY <2>2 DEF CollectReceive
    <2>7. \A j \in Calls : UnderWay(j)' => UnderWay(j)
      BY DEF UnderWay, CollectReceive, BitlockerInv, Types
    <2>8. QED
      BY <2>1, <2>3, <2>5, <2>6, <2>7 DEF Alone, Chain
  <1>3. QED
    BY <1>1, <1>2 DEF BitlockerInv

LEMMA RequestKept == ASSUME BitlockerInv, WorkerRequest PROVE BitlockerInv'
  <1>1. Types'
    BY DEF BitlockerInv, Types, WorkerRequest, None
  <1>2. ASSUME ~overlapped' PROVE Alone'
    <2>1. Alone /\ resCh = <<>> /\ path = None
      BY <1>2 DEF BitlockerInv, WorkerRequest, Alone, Chain
    <2>2. \A j \in Calls : call[j] = "receive" => path' = row[j]
      BY <2>1 DEF Alone, OwnRow, WorkerRequest
    <2>3. \E j \in Calls : call[j] = "receive"
      BY <2>1 DEF Alone, WorkerRequest
    <2>4. QED
      BY <2>1, <2>2, <2>3 DEF Alone, Chain, OwnRow, UnderWay, WorkerRequest
  <1>3. QED
    BY <1>1, <1>2 DEF BitlockerInv

LEMMA AnswerKept == ASSUME BitlockerInv, WorkerAnswer PROVE BitlockerInv'
  <1>1. Types'
    BY DEF BitlockerInv, Types, WorkerAnswer, None
  <1>2. ASSUME ~overlapped' PROVE Alone'
    <2>1. Alone /\ path # None /\ reqCh = <<>>
      BY <1>2 DEF BitlockerInv, Types, WorkerAnswer, Alone, Chain
    <2>2. \A j \in Calls : call[j] = "receive" => path = row[j]
      BY <2>1 DEF Alone, OwnRow
    <2>3. \E j \in Calls : call[j] = "receive"
      BY <2>1 DEF Alone
    <2>4. QED
      BY <2>1, <2>2, <2>3 DEF Alone, Chain, OwnRow, UnderWay, WorkerAnswer
  <1>3. QED
    BY <1>1, <1>2 DEF BitlockerInv

LEMMA PanicKept == ASSUME BitlockerInv, WorkerPanic PROVE BitlockerInv'
  <1>1. Types'
    BY DEF BitlockerInv, Types, WorkerPanic, None
  <1>2. ASSUME ~overlapped' PROVE Alone'
    <2>1. Alone
      BY <1>2 DEF BitlockerInv, WorkerPanic
    <2>2. QED
      BY <2>1 DEF Alone, Chain, OwnRow, UnderWay, WorkerPanic
  <1>3. QED
    BY <1>1, <1>2 DEF BitlockerInv

\* The steps that move nothing.
LEMMA OtherKept == ASSUME BitlockerInv, WorkerDone \/ WorkerRestart \/ Close \/ UNCHANGED vars PROVE BitlockerInv'
  <1>1. /\ UNCHANGED <<path, reqCh, resCh, call, row, swapped, overlapped>>
        /\ worker' = "lookup" <=> worker = "lookup"
    BY DEF WorkerDone, WorkerRestart, Close, vars
  <1>2. Types'
    BY <1>1 DEF BitlockerInv, Types
  <1>3. ASSUME ~overlapped' PROVE Alone'
    BY <1>1, <1>3 DEF BitlockerInv, Alone, Chain, OwnRow, UnderWay
  <1>4. QED
    BY <1>2, <1>3 DEF BitlockerInv

LEMMA BitlockerKept == BitlockerInv /\ [Next]_vars => BitlockerInv'
  BY CollectKept, SendKept, ReceiveKept, RequestKept, AnswerKept, PanicKept, OtherKept
     DEF Next, Worker, Caller

\* Whatever the number of calls and volumes, logical_disk reports a volume with the
\* BitLocker status of another one only after two calls of Collect have overlapped.
THEOREM BitlockerAnswers == StateSpec => []SwappedOnlyOnOverlap
  <1>1. BitlockerInv => SwappedOnlyOnOverlap
    BY DEF BitlockerInv, Alone, SwappedOnlyOnOverlap
  <1>2. QED
    BY <1>1, StartOfAll, StepOfOne, BitlockerInitially, BitlockerKept, PTL DEF StateSpec
-----------------------------------------------------------------------------
\* Overlapping calls take each other's answers, but every request and answer under way has
\* a call that waits for one.
InPlace(place, nothing) == IF place = nothing THEN 0 ELSE 1
UnderWayTokens == InPlace(reqCh, <<>>) + InPlace(path, None) + InPlace(resCh, <<>>)
Waiting == {k \in Calls : call[k] = "receive"}
TokenInv == Types /\ UnderWayTokens <= Cardinality(Waiting)

\* The number of calls that wait is a natural number.
LEMMA WaitingFinite == IsFiniteSet(Waiting) /\ Cardinality(Waiting) \in Nat
  <1>1. IsFiniteSet(Waiting)
    BY CallsAssumption, FS_Subset DEF Waiting
  <1>2. QED
    BY <1>1, FS_CardinalityType

\* A call that sends is one more that waits.
LEMMA SendWaiting ==
  ASSUME Types, NEW k \in Calls, CollectSend(k) PROVE Cardinality(Waiting') = Cardinality(Waiting) + 1
  <1>1. Waiting' = Waiting \cup {k} /\ k \notin Waiting
    BY DEF Types, CollectSend, Waiting
  <1>2. QED
    BY <1>1, WaitingFinite, FS_AddElement

\* A call that receives is one less.
LEMMA ReceiveWaiting ==
  ASSUME Types, NEW k \in Calls, CollectReceive(k) PROVE Cardinality(Waiting') = Cardinality(Waiting) - 1
  <1>1. Waiting' = Waiting \ {k} /\ k \in Waiting
    BY DEF Types, CollectReceive, Waiting
  <1>2. QED
    BY <1>1, WaitingFinite, FS_RemoveElement

\* Requests and answers move between the places, and only with a waiting call more or less
\* does their number change; a panic loses one.
LEMMA TokenKept == BitlockerInv /\ TokenInv /\ [Next]_vars => TokenInv'
  <1> SUFFICES ASSUME BitlockerInv, TokenInv, [Next]_vars PROVE TokenInv'
    OBVIOUS
  <1>1. Types' /\ Types
    BY BitlockerKept DEF BitlockerInv
  <1>2. ASSUME NEW k \in Calls, CollectSend(k) PROVE TokenInv'
    <2>1. Cardinality(Waiting)' = Cardinality(Waiting) + 1 /\ Cardinality(Waiting) \in Nat
      BY <1>1, <1>2, SendWaiting, WaitingFinite
    <2>2. UnderWayTokens' = UnderWayTokens + 1 /\ UnderWayTokens \in Nat
      BY <1>2 DEF UnderWayTokens, InPlace, CollectSend
    <2>3. QED
      BY <1>1, <2>1, <2>2 DEF TokenInv
  <1>3. ASSUME NEW k \in Calls, CollectReceive(k) PROVE TokenInv'
    <2>1. Cardinality(Waiting)' = Cardinality(Waiting) - 1 /\ Cardinality(Waiting) \in Nat
      BY <1>1, <1>3, ReceiveWaiting, WaitingFinite
    <2>2. UnderWayTokens' = UnderWayTokens - 1 /\ UnderWayTokens \in Nat
      BY <1>3 DEF UnderWayTokens, InPlace, CollectReceive
    <2>3. QED
      BY <1>1, <2>1, <2>2 DEF TokenInv
  <1>4. ASSUME NEW k \in Calls, Collect(k) PROVE TokenInv'
    <2>1. Waiting' = Waiting
      BY <1>1, <1>4 DEF Types, Collect, Waiting
    <2>2. QED
      BY <1>1, <1>4, <2>1 DEF TokenInv, UnderWayTokens, InPlace, Collect
  <1>5. CASE UNCHANGED call
    <2>1. Waiting' = Waiting
      BY <1>5 DEF Waiting
    <2>2. CASE WorkerRequest
      BY <1>1, <2>1, <2>2, WaitingFinite DEF TokenInv, UnderWayTokens, InPlace, WorkerRequest, Types
    <2>3. CASE WorkerAnswer
      BY <1>1, <2>1, <2>3, WaitingFinite DEF TokenInv, UnderWayTokens, InPlace, WorkerAnswer, Types
    <2>4. CASE WorkerPanic
      BY <1>1, <2>1, <2>4, WaitingFinite DEF TokenInv, UnderWayTokens, InPlace, WorkerPanic, Types
    <2>5. CASE UNCHANGED <<reqCh, path, resCh>>
      BY <1>1, <2>1, <2>5 DEF TokenInv, UnderWayTokens, InPlace
    <2>6. QED
      <3>1. WorkerDone \/ WorkerRestart \/ Close \/ UNCHANGED vars => UNCHANGED <<reqCh, path, resCh>>
        BY DEF WorkerDone, WorkerRestart, Close, vars
      <3>2. QED
        BY <1>2, <1>3, <1>4, <2>2, <2>3, <2>4, <2>5, <3>1 DEF Next, Worker, Caller
  <1>6. QED
    <2>1. Worker \/ Close \/ UNCHANGED vars => UNCHANGED call
      BY DEF Worker, WorkerRequest, WorkerDone, WorkerAnswer, WorkerPanic, WorkerRestart, Close, vars
    <2>2. QED
      BY <1>2, <1>3, <1>4, <1>5, <2>1 DEF Next, Caller

\* Whatever panics, is cancelled or overlaps, when no Collect is under way there is no
\* request and no answer that the next one could take for its own.
THEOREM BitlockerNothingLeftOver == StateSpec => []NothingLeftOver
  <1>1. Init => TokenInv
    <2>1. Init => BitlockerInv
      BY BitlockerInitially
    <2>2. QED
      BY <2>1, WaitingFinite DEF Init, TokenInv, UnderWayTokens, InPlace, BitlockerInv
  <1>2. TokenInv => NothingLeftOver
    <2> SUFFICES ASSUME TokenInv, \A k \in Calls : ~UnderWay(k)
                 PROVE reqCh = <<>> /\ resCh = <<>> /\ path = None
      BY DEF NothingLeftOver
    <2>1. Waiting = {}
      BY DEF Waiting, UnderWay
    <2>2. UnderWayTokens <= 0
      BY <2>1, FS_EmptySet DEF TokenInv
    <2>3. QED
      BY <2>2 DEF UnderWayTokens, InPlace
  <1>3. QED
    BY <1>1, <1>2, StartOfAll, StepOfOne, BitlockerInitially, BitlockerKept, TokenKept, PTL DEF StateSpec

-----------------------------------------------------------------------------
(* update *)

\* Between two searches the buffer has the result of the last one, and whoever sends has
\* what the buffer has: the write lock keeps the scheduler from changing it meanwhile.
BufferInv ==
  /\ uCall \in [UpdateCalls -> {"idle", "sending"}]
  /\ DOMAIN got = UpdateCalls
  /\ \A k \in UpdateCalls : uCall[k] = "sending" => got[k] = buf
  /\ sched \in {"none", "init", "fetch", "wait", "ended"} => buf = last
  /\ sched = "clear" => last = 0

\* Build returns only with all descriptors made, and the scheduler gets past its
\* initialisation only when it has closed initErrCh.
BuildInv ==
  /\ build \in {"none", "waiting", "describing", "returned", "failed"}
  /\ build = "none" <=> sched = "none"
  /\ sched \in {"none", "init"} => initErr = "empty"
  /\ sched = "init" => build = "waiting"
  /\ initErr = "error" => sched = "ended"
  /\ build = "failed" => initErr = "error"
  /\ build = "returned" => descs = TRUE
  /\ build = "describing" => sched # "init"
  /\ U!CrashOnlyDuringBuild

UpdateInv == BufferInv /\ BuildInv

\* The invariant holds initially.
LEMMA UpdateInitially == U!Init => UpdateInv
BY DEF U!Init, UpdateInv, BufferInv, BuildInv, U!CrashOnlyDuringBuild

\* Every step keeps the buffer and what is sent together.
LEMMA BufferKept == UpdateInv /\ [U!Next]_update => BufferInv'
<1> SUFFICES ASSUME UpdateInv, [U!Next]_update PROVE BufferInv'
  OBVIOUS
<1> USE DEF UpdateInv, BufferInv
<1>1. CASE U!BuildStart
  BY <1>1 DEF U!BuildStart, BuildInv
<1>2. CASE U!BuildError \/ U!BuildGo \/ U!BuildReturn \/ U!Close \/ UNCHANGED update
  BY <1>2 DEF U!BuildError, U!BuildGo, U!BuildReturn, U!Close, update
<1>3. CASE U!InitFails \/ U!InitDone
  BY <1>3 DEF U!InitFails, U!InitDone
<1>4. CASE U!FetchFails \/ U!FetchDone
  BY <1>4 DEF U!FetchFails, U!FetchDone
<1>5. CASE U!Clear
  BY <1>5 DEF U!Clear, U!Unlocked
<1>6. CASE U!Store
  BY <1>6 DEF U!Store, U!Unlocked
<1>7. CASE U!IntervalOver \/ U!ContextDone
  BY <1>7 DEF U!IntervalOver, U!ContextDone
<1>8. ASSUME NEW k \in UpdateCalls, U!Collect(k) PROVE BufferInv'
  BY <1>8 DEF U!Collect
<1>9. ASSUME NEW k \in UpdateCalls, U!CollectReturn(k) PROVE BufferInv'
  BY <1>9 DEF U!CollectReturn
<1> QED
  BY <1>1, <1>2, <1>3, <1>4, <1>5, <1>6, <1>7, <1>8, <1>9 DEF U!Next, U!BuildCall, U!Scheduler

\* Every step keeps Build and the scheduler in step.
LEMMA BuildKept == UpdateInv /\ [U!Next]_update => BuildInv'
<1> SUFFICES ASSUME UpdateInv, [U!Next]_update PROVE BuildInv'
  OBVIOUS
<1> USE DEF UpdateInv, BuildInv, U!CrashOnlyDuringBuild
<1>1. CASE U!BuildStart
  BY <1>1 DEF U!BuildStart
<1>2. CASE U!BuildError \/ U!BuildGo \/ U!BuildReturn
  BY <1>2 DEF U!BuildError, U!BuildGo, U!BuildReturn, U!Alive
<1>3. CASE U!InitFails \/ U!InitDone
  BY <1>3 DEF U!InitFails, U!InitDone
<1>4. CASE U!FetchFails \/ U!FetchDone
  BY <1>4 DEF U!FetchFails, U!FetchDone
<1>5. CASE U!Clear \/ U!Store \/ U!IntervalOver \/ U!ContextDone
  BY <1>5 DEF U!Clear, U!Store, U!IntervalOver, U!ContextDone
<1>6. CASE U!Close \/ UNCHANGED update
  BY <1>6 DEF U!Close, update
<1>7. ASSUME NEW k \in UpdateCalls, U!Collect(k) \/ U!CollectReturn(k) PROVE BuildInv'
  BY <1>7 DEF U!Collect, U!CollectReturn
<1> QED
  BY <1>1, <1>2, <1>3, <1>4, <1>5, <1>6, <1>7, Zenon DEF U!Next, U!BuildCall, U!Scheduler

\* The invariant holds in every reachable state.
LEMMA UpdateInvariance == StateSpec => []UpdateInv
BY StartOfAll, StepOfOne, UpdateInitially, BufferKept, BuildKept, PTL DEF StateSpec, UpdateInv

\* However calls of Collect and searches interleave, nobody sends metrics older than the
\* last search, and nobody any after a search that failed.
THEOREM UpdateNoStaleMetrics == StateSpec => []NoStaleMetrics
<1>1. UpdateInv => NoStaleMetrics
  BY DEF UpdateInv, BufferInv, NoStaleMetrics, U!NoStaleMetrics
<1> QED
  BY <1>1, UpdateInvariance, PTL

\* Once Build has returned the scheduler cannot end the process.
THEOREM UpdateCrashOnlyDuringBuild == StateSpec => []U!CrashOnlyDuringBuild
<1>1. UpdateInv => U!CrashOnlyDuringBuild
  BY DEF UpdateInv, BuildInv
<1> QED
  BY <1>1, UpdateInvariance, PTL

-----------------------------------------------------------------------------
(* container *)

\* What a cache may hold: containers of the set with an id that has the prefix.
IsCache(cache, set) ==
  /\ cache = [c \in DOMAIN cache |-> cache[c]]
  /\ DOMAIN cache \subseteq set
  /\ \A c \in DOMAIN cache : cache[c].id = K!IdWithPrefix(c)

\* Every cached label is the container's own, or blank for one met too early; labels that
\* have been reported are those of the caches.
CacheInv ==
  /\ IsCache(hcs, Containers \ Jobs) /\ IsCache(job, Jobs)
  /\ early \subseteq DOMAIN hcs
  /\ \A c \in DOMAIN hcs : hcs[c].labels = IF c \in early THEN K!Blank ELSE K!Own(c)
  /\ \A c \in DOMAIN job : job[c].labels = K!Own(c)
  /\ cpc = "visit" => todo \subseteq Containers \ Jobs
  /\ cpc = "jobs" => todo \subseteq DOMAIN job
  /\ \A p \in seen : /\ p[1] \in DOMAIN hcs \cup DOMAIN job
                     /\ p[2] = IF p[1] \in early THEN K!Blank ELSE K!Own(p[1])

\* No id with a prefix is a key: the deletion deletes nothing.
LEMMA EvictKeeps ==
  ASSUME NEW cache, NEW set, IsCache(cache, set) PROVE K!Evict(cache) = cache
<1>1. \A c \in DOMAIN cache, d \in DOMAIN cache : K!Id(c) # cache[d].id
  <2>1. ASSUME NEW c, NEW d PROVE K!Id(c) # K!IdWithPrefix(d)
    <3>1. K!Id(c)[1] = "" /\ K!IdWithPrefix(d)[1] = "containerd://"
      BY DEF K!Id, K!IdWithPrefix
    <3> QED
      BY <3>1, Zenon
  <2> QED
    BY <2>1 DEF IsCache
<1>2. {c \in DOMAIN cache : K!Id(c) \notin {cache[d].id : d \in DOMAIN cache} \ {K!Id(d) : d \in ids}} = DOMAIN cache
  BY <1>1
<1>3. K!Evict(cache) = K!Restrict(cache, DOMAIN cache)
  BY <1>2 DEF K!Evict
<1> QED
  BY <1>3 DEF K!Restrict, IsCache

\* The invariant holds initially.
LEMMA CacheInitially == K!Init => CacheInv
<1> SUFFICES ASSUME K!Init PROVE CacheInv
  OBVIOUS
<1>1. <<>> = [c \in {} |-> c] /\ DOMAIN <<>> = {}
  OBVIOUS
<1> QED
  BY <1>1 DEF K!Init, CacheInv, IsCache

\* What the cache gets.
LEMMA InfoIs ==
  ASSUME NEW c PROVE /\ K!Info(c).id = K!IdWithPrefix(c)
                     /\ K!Info(c).labels = IF c \in written THEN K!Own(c) ELSE K!Blank
BY DEF K!Info

\* Visiting a container keeps what the caches hold and adds what Info gives.
LEMMA VisitKept ==
  ASSUME CacheInv, NEW c \in Containers, K!VisitContainer(c)
  PROVE /\ CacheInv'
        /\ \A d \in DOMAIN hcs : d \in DOMAIN hcs' /\ hcs'[d] = hcs[d]
<1> USE DEF CacheInv, IsCache, K!VisitContainer, K!CollectHCSContainer, K!world
<1>1. c \in Containers \ Jobs /\ cpc' = "visit" /\ todo' \subseteq Containers \ Jobs /\ job' = job
  OBVIOUS
<1>2. CASE c \in DOMAIN hcs
  <2>1. hcs' = hcs /\ early' = early
    BY <1>2
  <2>2. \A p \in seen' : p \in seen \/ p = <<c, hcs[c].labels>>
    BY <2>1
  <2> QED
    BY <1>1, <1>2, <2>1, <2>2
<1>3. CASE c \notin DOMAIN hcs
  <2>1. /\ hcs' = [d \in DOMAIN hcs \cup {c} |-> IF d = c THEN K!Info(c) ELSE hcs[d]]
        /\ early' = IF c \in written THEN early ELSE early \cup {c}
    BY <1>3
  <2>2. /\ DOMAIN hcs' = DOMAIN hcs \cup {c}
        /\ hcs'[c] = K!Info(c)
        /\ \A d \in DOMAIN hcs : hcs'[d] = hcs[d]
    BY <1>3, <2>1
  <2>3. IsCache(hcs, Containers \ Jobs)' /\ early' \subseteq DOMAIN hcs'
    BY <1>1, <2>1, <2>2, InfoIs
  <2>4. \A d \in DOMAIN hcs' : hcs'[d].labels = IF d \in early' THEN K!Blank ELSE K!Own(d)
    BY <1>3, <2>1, <2>2, InfoIs
  <2>5. \A p \in seen' : p \in seen \/ p = <<c, hcs'[c].labels>>
    OBVIOUS
  <2>6. c \notin DOMAIN job
    BY <1>1
  <2>7. \A p \in seen : p[1] # c
    BY <1>3, <2>6
  <2>8. \A p \in seen' : /\ p[1] \in DOMAIN hcs' \cup DOMAIN job
                         /\ p[2] = IF p[1] \in early' THEN K!Blank ELSE K!Own(p[1])
    <3>1. ASSUME NEW p \in seen PROVE p[1] \in early' <=> p[1] \in early
      BY <2>1, <2>7
    <3>2. ASSUME NEW p \in seen
          PROVE /\ p[1] \in DOMAIN hcs' \cup DOMAIN job
                /\ p[2] = IF p[1] \in early' THEN K!Blank ELSE K!Own(p[1])
      BY <2>2, <3>1
    <3>3. c \in DOMAIN hcs' /\ hcs'[c].labels = IF c \in early' THEN K!Blank ELSE K!Own(c)
      BY <2>2, <2>4
    <3> QED
      BY <2>5, <3>2, <3>3
  <2>9. IsCache(job, Jobs)' /\ \A d \in DOMAIN job' : job'[d].labels = K!Own(d)
    BY <1>1
  <2> HIDE DEF IsCache, K!VisitContainer, K!CollectHCSContainer
  <2>10. CacheInv'
    BY <1>1, <2>3, <2>4, <2>8, <2>9
  <2> QED
    BY <2>2, <2>10
<1> QED
  BY <1>2, <1>3

\* The walk keeps what the cache of host process containers holds.
LEMMA WalkKept ==
  ASSUME CacheInv, K!WalkJobs
  PROVE /\ CacheInv'
        /\ \A d \in DOMAIN job : d \in DOMAIN job' /\ job'[d] = job[d]
<1> USE DEF CacheInv, IsCache, K!WalkJobs, K!world
<1>1. hcs' = hcs /\ early' = early /\ seen' = seen
  OBVIOUS
<1>2. PICK met \in SUBSET (Jobs \cap written) :
        /\ job' = [c \in DOMAIN job \cup met |-> IF c \in DOMAIN job THEN job[c] ELSE K!Info(c)]
        /\ cpc' = "idle" \/ (cpc' = "jobs" /\ todo' = met)
  OBVIOUS
<1>3. DOMAIN job' = DOMAIN job \cup met
  BY <1>2, Zenon
<1>4. \A c \in DOMAIN job' : job'[c] = IF c \in DOMAIN job THEN job[c] ELSE K!Info(c)
  BY <1>2
<1>5. IsCache(job, Jobs)'
  BY <1>2, <1>3, <1>4, InfoIs
<1>6. \A c \in DOMAIN job' : job'[c].labels = K!Own(c)
  BY <1>3, <1>4, InfoIs
<1>7. IsCache(hcs, Containers \ Jobs)'
  BY <1>1
<1> HIDE DEF IsCache, K!WalkJobs
<1>8. CacheInv'
  BY <1>1, <1>2, <1>3, <1>5, <1>6, <1>7, Zenon
<1> QED
  BY <1>3, <1>4, <1>8

\* Every step preserves the invariant and what the caches hold.
LEMMA CacheKept ==
  ASSUME CacheInv, K!Next
  PROVE /\ CacheInv'
        /\ \A c \in DOMAIN hcs : c \in DOMAIN hcs' /\ hcs'[c] = hcs[c]
        /\ \A c \in DOMAIN job : c \in DOMAIN job' /\ job'[c] = job[c]
<1>1. ASSUME NEW c \in Containers, K!Start(c) \/ K!WriteSpec(c) \/ K!Stop(c)
      PROVE UNCHANGED <<hcs, job, cpc, todo, seen, early>>
  BY <1>1 DEF K!Start, K!WriteSpec, K!Stop
<1>2. ASSUME NEW c \in Containers, K!VisitContainer(c) PROVE UNCHANGED job
  BY <1>2 DEF K!VisitContainer, K!CollectHCSContainer, K!world
<1>3. CASE K!WalkJobs
  BY <1>3, WalkKept DEF K!WalkJobs, K!world
<1>4. ASSUME NEW c \in Containers, K!VisitJob(c)
      PROVE CacheInv' /\ UNCHANGED <<hcs, job>>
  <2>1. /\ UNCHANGED <<hcs, job, cpc, early>>
        /\ c \in DOMAIN job /\ todo' \subseteq todo /\ cpc = "jobs"
        /\ \A p \in seen' : p \in seen \/ p = <<c, job[c].labels>>
    BY <1>4 DEF K!VisitJob, K!world, CacheInv
  <2>2. c \notin early
    BY <2>1 DEF CacheInv, IsCache
  <2> QED
    BY <2>1, <2>2 DEF CacheInv, IsCache
<1>5. CASE K!ListContainers
  <2>1. UNCHANGED <<hcs, job, early>> /\ seen' = {} /\ todo' \subseteq Containers \ Jobs /\ cpc' # "jobs"
    BY <1>5 DEF K!ListContainers, K!world
  <2> QED
    BY <2>1 DEF CacheInv, IsCache
<1>6. CASE K!CollectNetwork
  <2>1. UNCHANGED <<hcs, job, early>> /\ cpc' \in {"walk", "evict"}
    BY <1>6 DEF K!CollectNetwork, K!world
  <2>2. \A p \in seen' : p \in seen \/ \E c \in DOMAIN hcs : p = <<c, hcs[c].labels>>
    BY <1>6 DEF K!CollectNetwork
  <2> QED
    BY <2>1, <2>2 DEF CacheInv, IsCache
<1>7. CASE K!EvictContainers
  <2>1. hcs' = hcs
    BY <1>7, EvictKeeps DEF K!EvictContainers, CacheInv
  <2> QED
    BY <1>7, <2>1 DEF K!EvictContainers, K!world, CacheInv, IsCache
<1>8. CASE K!EvictJobs
  <2>1. job' = job
    BY <1>8, EvictKeeps DEF K!EvictJobs, CacheInv
  <2> QED
    BY <1>8, <2>1 DEF K!EvictJobs, K!world, CacheInv, IsCache
<1>9. ASSUME UNCHANGED <<hcs, job, cpc, todo, seen, early>> PROVE CacheInv'
  BY <1>9 DEF CacheInv, IsCache
<1> QED
  BY <1>1, <1>2, <1>3, <1>4, <1>5, <1>6, <1>7, <1>8, <1>9, VisitKept DEF K!Next

\* The invariant holds in every reachable state.
LEMMA CacheInvariance == StateSpec => []CacheInv
<1>1. CacheInv /\ UNCHANGED container => CacheInv'
  BY DEF CacheInv, IsCache, container
<1> QED
  BY <1>1, StartOfAll, StepOfOne, CacheInitially, CacheKept, PTL DEF StateSpec

\* Metrics of a container carry its own annotations, or none if it was met before its
\* config.json could be read.
THEOREM CacheAnnotationsOwn == StateSpec => []AnnotationsOwn
<1>1. CacheInv => AnnotationsOwn
  BY DEF CacheInv, AnnotationsOwn, K!AnnotationsOwn
<1> QED
  BY <1>1, CacheInvariance, PTL

\* The labels of a container stay what they are while it runs.  As the code stands even
\* more holds: no step replaces or removes anything the caches hold.
THEOREM CacheLabelsStable == StateSpec => LabelsStable
<1> DEFINE Keeps == /\ \A c \in DOMAIN hcs : c \in DOMAIN hcs' /\ hcs'[c] = hcs[c]
                    /\ \A c \in DOMAIN job : c \in DOMAIN job' /\ job'[c] = job[c]
           Stable == /\ \A c \in DOMAIN hcs : IF c \in DOMAIN hcs' THEN hcs'[c] = hcs[c]
                                              ELSE life[c] # "running"
                     /\ \A c \in DOMAIN job : IF c \in DOMAIN job' THEN job'[c] = job[c]
                                              ELSE cpc = "jobs" /\ c \notin ids
<1>1. CacheInv /\ [K!Next]_container => [Keeps]_(K!vars)
  BY CacheKept DEF container, K!vars
<1>2. Keeps => Stable
  OBVIOUS
<1> QED
  BY <1>1, <1>2, CacheInvariance, StepOfOne, PTL DEF StateSpec, LabelsStable, K!LabelsStable
=============================================================================
