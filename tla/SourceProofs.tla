---------------------------- MODULE SourceProofs ----------------------------
(***************************************************************************)
(* What collectors make of what their sources give them: the metrics of    *)
(* textfile, for all directories and files; and the protocol of the PDH    *)
(* collector, for any number of callers and slices.                        *)
(***************************************************************************)
EXTENDS PdhCollector, TextFiles, TLAPS

-----------------------------------------------------------------------------
(* PdhCollector *)

\* The read lock is held exactly from the check of the fields to the answer.
LockInv == \A c \in Callers : c \in readers <=> callPc[c] \in {"send", "wait"}

\* While the read lock is held the query and the channels are usable.
OpenInv ==
  /\ chans = "made" => ~chClosed
  /\ readers # {} => handle = "open" /\ chans = "made"

\* The caller that waits for an answer is the one the worker serves.
ServeInv ==
  /\ workerPc \in {"work", "answer"} => serving \in Callers /\ callPc[serving] = "wait"
  /\ \A c \in Callers : callPc[c] = "wait" => serving = c /\ workerPc \in {"work", "answer"}
  /\ \A c \in Callers : answered[c] \in {c, NoCaller}

\* Until NewCollector returns only the builder runs, and Close cannot be called.
BuildInv ==
  /\ obj = "building" =>
       /\ closePc = "idle" /\ ~chClosed
       /\ \A c \in Callers \ {Builder} : callPc[c] = "unborn"
       /\ workerPc # "none" => chans = "made"
  /\ obj = "building" /\ workerPc = "none" =>
       chans = "nil" /\ \A c \in Callers : callPc[c] = "unborn"
  /\ workerPc \in {"none", "start"} => \A c \in Callers : answered[c] = NoCaller
  /\ workerPc = "start" => obj = "building"
  /\ workerPc # "stuck"

\* The slice of the caller the worker serves has no rows until they are written, so that
\* whoever else reads it is torn; the rows then written are those of that caller.
RowsInv ==
  /\ workerPc = "work" => slices[DstOf[serving]] = NoCaller
  /\ workerPc = "answer" /\ result = "ok" => slices[DstOf[serving]] = serving

IInv == PdhTypeOK /\ LockInv /\ OpenInv /\ ServeInv /\ BuildInv /\ RowsInv /\ RowsStable

USE BuilderAssumption, DstAssumption, NoneAssumption

\* The inductive invariant holds initially.
LEMMA InitIInv == PdhInit => IInv
BY Zenon DEF PdhInit, IInv, PdhTypeOK, LockInv, OpenInv, ServeInv, BuildInv, RowsInv, RowsStable, Results

\* Every step preserves the inductive invariant.
LEMMA NextIInv == IInv /\ [PdhNext]_pdhVars => IInv'
<1> SUFFICES ASSUME IInv, [PdhNext]_pdhVars PROVE IInv'
  OBVIOUS
<1> USE DEF IInv, PdhTypeOK, LockInv, OpenInv, ServeInv, BuildInv, RowsInv, RowsStable,
            Results, objVars, lockVars, workVars
<1>1. CASE NewNil
  BY <1>1 DEF NewNil, Publish
<1>2. CASE NewNoWorker
  BY <1>2 DEF NewNoWorker, Publish
<1>3. CASE NewWorker
  BY <1>3 DEF NewWorker
<1>4. CASE NewReturn
  BY <1>4 DEF NewReturn, Publish
<1>5. ASSUME NEW c \in Callers, CollectLock(c) PROVE IInv'
  BY <1>5 DEF CollectLock, Initialized
<1>6. ASSUME NEW c \in Callers, CollectHandOver(c) PROVE IInv'
  BY <1>6 DEF CollectHandOver
<1>7. ASSUME NEW c \in Callers, CollectReturn(c) PROVE IInv'
  BY <1>7 DEF CollectReturn
<1>8. ASSUME NEW c \in Callers, ReadDone(c) PROVE IInv'
  BY <1>8 DEF ReadDone
<1>9. CASE WorkerStart
  BY <1>9 DEF WorkerStart
<1>10. CASE WorkerFill
  BY <1>10 DEF WorkerFill
<1>11. CASE WorkerExit
  BY <1>11 DEF WorkerExit
<1>12. CASE CloseCall
  BY <1>12 DEF CloseCall
<1>13. CASE CloseLocked
  BY <1>13 DEF CloseLocked
<1>14. CASE UNCHANGED pdhVars
  BY <1>14 DEF pdhVars
<1> QED
  BY <1>1, <1>2, <1>3, <1>4, <1>5, <1>6, <1>7, <1>8, <1>9, <1>10, <1>11, <1>12,
     <1>13, <1>14, Zenon DEF PdhNext, New, PdhCaller, PdhWorker, PdhClose

\* The inductive invariant holds in every reachable state.
THEOREM PdhInvariance == PdhSafety => []IInv
BY InitIInv, NextIInv, PTL DEF PdhSafety

\* Type correctness of the collector for any set of callers and slices.
THEOREM PdhTypeCorrect == PdhSafety => []PdhTypeOK
<1>1. IInv => PdhTypeOK
  BY DEF IInv
<1> QED
  BY <1>1, PdhInvariance, PTL

\* With any number of concurrent callers, each takes the answer to its own request.
THEOREM PdhAnswers == PdhSafety => []AnswerMatchesRequest
<1>1. IInv => AnswerMatchesRequest
  BY DEF IInv, ServeInv, AnswerMatchesRequest
<1> QED
  BY <1>1, PdhInvariance, PTL

\* Close never pulls the query or the channels away from a Collect in progress.
THEOREM PdhNoUseAfterClose == PdhSafety => []NoUseAfterClose
<1>1. IInv => NoUseAfterClose
  <2> SUFFICES ASSUME IInv,
                      \/ workerPc \in {"work", "answer"}
                      \/ \E c \in Callers : callPc[c] \in {"send", "wait"}
               PROVE  handle = "open" /\ chans = "made" /\ ~chClosed
    BY DEF NoUseAfterClose
  <2>1. \E c \in Callers : callPc[c] \in {"send", "wait"}
    BY DEF IInv, ServeInv
  <2>2. readers # {}
    BY <2>1 DEF IInv, LockInv
  <2> QED
    BY <2>2 DEF IInv, OpenInv
<1> QED
  BY <1>1, PdhInvariance, PTL

\* For any number of callers, whatever slices they share, a caller reads the rows of its own
\* request unless another request for its slice was taken meanwhile.
THEOREM PdhRowsStable == PdhSafety => []RowsStable
<1>1. IInv => RowsStable
  BY DEF IInv
<1> QED
  BY <1>1, PdhInvariance, PTL

\* The worker goroutine never ranges over a nil channel.
THEOREM PdhWorkerNotStuck == PdhSafety => []WorkerNotStuck
<1>1. IInv => WorkerNotStuck
  BY DEF IInv, BuildInv, WorkerNotStuck
<1> QED
  BY <1>1, PdhInvariance, PTL

-----------------------------------------------------------------------------
(* TextFiles *)

\* A metric with the label names of its family.
FamilyMetric ==
  [name : {m.name : m \in Metrics}, labels : {m.labels : m \in Metrics},
   all : SUBSET UNION {DOMAIN m.labels : m \in Metrics}]

\* The types, and where the walk is.
TextShape ==
  /\ dirs \in Directories /\ stage \in {"walk", "file", "all", "sent"}
  /\ dirAt \in Nat \ {0} /\ fileAt \in Nat \ {0} /\ metricAt \in Nat /\ errs \in Nat
  /\ families \in Seq(FamilyMetric)
  /\ stage = "file" => dirAt \in DOMAIN dirs /\ fileAt \in DOMAIN dirs[dirAt].files /\ ~FileHere.bad
  /\ stage \in {"all", "sent"} => dirAt \notin DOMAIN dirs

\* Between two equal metrics of s before place n stands another of their name.
ApartBelow(s, n) ==
  \A i, k \in DOMAIN s :
    i < k /\ k < n /\ SameMetric(s[i], s[k]) =>
      \E m \in DOMAIN s : i < m /\ m < k /\ s[m].name = s[k].name /\ s[m].labels # s[k].labels

\* u has the labels of the last metric of each name in s before place n.
LastOfName(s, n, u) ==
  /\ \A k \in DOMAIN s : k < n => s[k].name \in DOMAIN u
  /\ \A x \in DOMAIN u : \E k \in DOMAIN s :
       /\ k < n /\ s[k].name = x /\ u[x] = s[k].labels
       /\ \A m \in DOMAIN s : k < m /\ m < n => s[m].name # x

\* What duplicateMetricEntry knows when it comes to place n of s.
ComparedBelow(s, n, u) == n \in Nat \ {0} /\ ApartBelow(s, n) /\ LastOfName(s, n, u)

\* duplicateMetricEntry, where it runs.
Comparing ==
  /\ stage = "file" => ComparedBelow(FileHere.metrics, metricAt, unique)
  /\ stage = "all" => ComparedBelow(families, metricAt, unique)

\* The walk has passed file i of directory d.
Past(d, i) == d < dirAt \/ (d = dirAt /\ i < fileAt)

\* The names taken are those of the readable files passed.
NamesKnown ==
  \A n : n \in mTimes <=> \E d \in DOMAIN dirs : \E i \in DOMAIN dirs[d].files :
                             Past(d, i) /\ Readable(d, i) /\ dirs[d].files[i].name = n

\* The metrics taken are those of the accepted files passed.
MetricsTaken ==
  \A n, l : (\E j \in DOMAIN families : families[j].name = n /\ families[j].labels = l) <=>
            (\E d \in DOMAIN dirs : \E i \in DOMAIN dirs[d].files :
               /\ Past(d, i) /\ Accepted(d, i)
               /\ \E k \in DOMAIN dirs[d].files[i].metrics :
                    /\ dirs[d].files[i].metrics[k].name = n
                    /\ dirs[d].files[i].metrics[k].labels = l)

LabelsOfFamily == \A j \in DOMAIN families : DOMAIN families[j].labels \subseteq families[j].all

\* Every file passed that was not accepted, and every broken directory, is an error.
ErrorsNoted ==
  errs > 0 <=> \E d \in DOMAIN dirs : \/ d < dirAt /\ dirs[d].broken
                                      \/ \E i \in DOMAIN dirs[d].files : Past(d, i) /\ ~Accepted(d, i)

\* What was sent is nothing, for a repeated metric, or everything.
Sent ==
  stage = "sent" =>
    \/ Repeats(families) /\ sent = <<>>
    \/ /\ ApartBelow(families, Len(families) + 1)
       /\ sent = [i \in DOMAIN families |-> ConvertMetric(families[i])]

\* The inductive invariant of Collect.
TextInv ==
  /\ TextShape /\ Comparing /\ NamesKnown /\ MetricsTaken /\ LabelsOfFamily /\ ErrorsNoted
  /\ stage # "sent" => sent = <<>>
  /\ Sent

\* uniqueMetrics u with the labels of m under its name.
Noted(u, m) == [x \in DOMAIN u \cup {m.name} |-> IF x = m.name THEN m.labels ELSE u[x]]

\* u has the labels of m under its name.
Has(u, m) == m.name \in DOMAIN u /\ u[m.name] = m.labels

\* A metric that is not the same as the last of its name is apart from all its equals.
LEMMA ComparedOn ==
  ASSUME NEW T, NEW s \in Seq(T), NEW n \in DOMAIN s, NEW u, ComparedBelow(s, n, u),
         ~Has(u, s[n])
  PROVE  ComparedBelow(s, n + 1, Noted(u, s[n]))
<1> DEFINE w == [x \in DOMAIN u \cup {s[n].name} |-> IF x = s[n].name THEN s[n].labels ELSE u[x]]
<1>0. DOMAIN s = 1..Len(s) /\ Len(s) \in Nat /\ ~(s[n].name \in DOMAIN u /\ u[s[n].name] = s[n].labels)
  BY DEF Has
<1>1. ApartBelow(s, n + 1)
  <2> SUFFICES ASSUME NEW i \in DOMAIN s, NEW k \in DOMAIN s, i < k, k < n + 1, SameMetric(s[i], s[k])
               PROVE  \E m \in DOMAIN s : i < m /\ m < k /\ s[m].name = s[k].name /\ s[m].labels # s[k].labels
    BY DEF ApartBelow
  <2>1. CASE k < n
    BY <2>1 DEF ComparedBelow, ApartBelow
  <2>2. CASE k = n
    <3>1. s[i].name = s[n].name /\ s[i].labels = s[n].labels /\ i < n
      BY <2>2 DEF SameMetric
    <3>2. s[n].name \in DOMAIN u
      BY <3>1 DEF ComparedBelow, LastOfName
    <3>3. PICK j \in DOMAIN s : /\ j < n /\ s[j].name = s[n].name /\ u[s[n].name] = s[j].labels
                                /\ \A m \in DOMAIN s : j < m /\ m < n => s[m].name # s[n].name
      BY <3>2 DEF ComparedBelow, LastOfName
    <3>4. s[j].labels # s[n].labels
      BY <1>0, <3>2, <3>3
    <3>5. i < j
      BY <1>0, <3>1, <3>3, <3>4
    <3> QED BY <2>2, <3>3, <3>4, <3>5
  <2> QED BY <1>0, <2>1, <2>2
<1>2. LastOfName(s, n + 1, w)
  <2>1. \A k \in DOMAIN s : k < n + 1 => s[k].name \in DOMAIN w
    <3> SUFFICES ASSUME NEW k \in DOMAIN s, k < n + 1 PROVE s[k].name \in DOMAIN u \cup {s[n].name}
      OBVIOUS
    <3>1. k < n \/ k = n
      BY <1>0
    <3> QED BY <3>1 DEF ComparedBelow, LastOfName
  <2>2. ASSUME NEW x \in DOMAIN w
        PROVE  \E k \in DOMAIN s : /\ k < n + 1 /\ s[k].name = x /\ w[x] = s[k].labels
                                   /\ \A m \in DOMAIN s : k < m /\ m < n + 1 => s[m].name # x
    <3>1. CASE x = s[n].name
      BY <1>0, <3>1
    <3>2. CASE x # s[n].name
      <4>1. x \in DOMAIN u /\ w[x] = u[x]
        BY <3>2
      <4>2. PICK k \in DOMAIN s : /\ k < n /\ s[k].name = x /\ u[x] = s[k].labels
                                  /\ \A m \in DOMAIN s : k < m /\ m < n => s[m].name # x
        BY <4>1 DEF ComparedBelow, LastOfName
      <4>3. \A m \in DOMAIN s : k < m /\ m < n + 1 => s[m].name # x
        BY <1>0, <3>2, <4>2
      <4>4. k < n + 1
        BY <1>0, <4>2
      <4> HIDE DEF w
      <4> QED BY <4>1, <4>2, <4>3, <4>4
    <3> QED BY <3>1, <3>2
  <2> HIDE DEF w
  <2> QED BY <2>1, <2>2 DEF LastOfName
<1>3. n + 1 \in Nat \ {0}
  BY <1>0
<1> QED BY <1>1, <1>2, <1>3 DEF ComparedBelow, Noted

\* duplicateMetricEntry finds a metric only if one repeats.
LEMMA ComparedFound ==
  ASSUME NEW T, NEW s \in Seq(T), NEW n \in DOMAIN s, NEW u, ComparedBelow(s, n, u), Has(u, s[n])
  PROVE  Repeats(s)
<1>1. PICK k \in DOMAIN s : /\ k < n /\ s[k].name = s[n].name /\ u[s[n].name] = s[k].labels
                            /\ \A m \in DOMAIN s : k < m /\ m < n => s[m].name # s[n].name
  BY DEF ComparedBelow, LastOfName, Has
<1>2. DOMAIN s = 1..Len(s) /\ Len(s) \in Nat
  OBVIOUS
<1>3. \A m \in (k + 1)..(n - 1) : s[m].name # s[n].name
  BY <1>1, <1>2
<1> QED BY <1>1, <1>3 DEF Repeats, SameMetric, Has

\* If it finds none, none repeats.
LEMMA ComparedAll ==
  ASSUME NEW T, NEW s \in Seq(T), NEW n, NEW u, ComparedBelow(s, n, u), n \notin DOMAIN s
  PROVE  ApartBelow(s, Len(s) + 1) /\ ~Repeats(s)
<1>0. DOMAIN s = 1..Len(s) /\ Len(s) \in Nat /\ n \in Nat \ {0}
  BY DEF ComparedBelow
<1>1. \A k \in DOMAIN s : k < n
  BY <1>0
<1>2. ApartBelow(s, Len(s) + 1)
  BY <1>1 DEF ComparedBelow, ApartBelow
<1>3. ASSUME NEW i \in DOMAIN s, NEW k \in DOMAIN s, i < k, SameMetric(s[i], s[k])
      PROVE  \E m \in (i + 1)..(k - 1) : s[m].name = s[k].name
  <2>1. PICK m \in DOMAIN s : i < m /\ m < k /\ s[m].name = s[k].name
    BY <1>1, <1>3 DEF ComparedBelow, ApartBelow
  <2>2. m \in (i + 1)..(k - 1)
    BY <1>0, <2>1
  <2> QED BY <2>1, <2>2
<1> QED BY <1>2, <1>3, Zenon DEF Repeats

\* At its first metric duplicateMetricEntry knows nothing.
LEMMA ComparedNone ==
  ASSUME NEW T, NEW s \in Seq(T)
  PROVE  ComparedBelow(s, 1, <<>>)
<1>0. DOMAIN s = 1..Len(s) /\ Len(s) \in Nat
  OBVIOUS
<1>1. \A k \in DOMAIN s : ~(k < 1)
  BY <1>0
<1>2. \A x \in DOMAIN <<>> : FALSE
  OBVIOUS
<1> QED BY <1>1, <1>2 DEF ComparedBelow, ApartBelow, LastOfName

\* What the assumption on the directories says of the ones Collect has.
LEMMA DirsShape ==
  ASSUME dirs \in Directories
  PROVE  /\ Len(dirs) \in Nat /\ DOMAIN dirs = 1..Len(dirs)
         /\ \A d \in DOMAIN dirs : /\ Len(dirs[d].files) \in Nat /\ DOMAIN dirs[d].files = 1..Len(dirs[d].files)
                                   /\ \A i \in DOMAIN dirs[d].files : dirs[d].files[i].metrics \in Seq(Metrics)
BY DirectoriesAssumption

\* Which files are accepted depends on the directories alone.
LEMMA AcceptedUnmoved ==
  ASSUME dirs' = dirs
  PROVE  \A d, i : (Accepted(d, i)' <=> Accepted(d, i)) /\ (Readable(d, i)' <=> Readable(d, i))
BY DEF Accepted, Readable, Repeats, SameMetric

\* Before the first directory the invariant of Collect holds.
LEMMA TextInitially == TextInit => TextInv
<1> SUFFICES ASSUME NEW ds \in Directories, TextStart(ds) PROVE TextInv
  BY DEF TextInit
<1>1. TextShape
  BY DEF TextStart, TextShape
<1>2. Comparing /\ Sent /\ sent = <<>>
  BY DEF TextStart, Comparing, Sent
<1>3. \A d \in DOMAIN dirs : \A i \in DOMAIN dirs[d].files : ~Past(d, i) /\ ~(d < dirAt)
  <2> SUFFICES ASSUME NEW d \in DOMAIN dirs, NEW i \in DOMAIN dirs[d].files PROVE ~Past(d, i) /\ ~(d < dirAt)
    OBVIOUS
  <2>1. d \in Nat \ {0} /\ i \in Nat \ {0}
    BY DirsShape DEF TextStart
  <2> QED BY <2>1 DEF TextStart, Past
<1>4. \A d \in DOMAIN dirs : ~(d < dirAt)
  BY DirsShape DEF TextStart
<1>5. mTimes = {} /\ DOMAIN families = {} /\ errs = 0
  BY DEF TextStart
<1>6. NamesKnown
  BY <1>3, <1>5 DEF NamesKnown
<1>7. MetricsTaken /\ LabelsOfFamily
  BY <1>3, <1>5 DEF MetricsTaken, LabelsOfFamily
<1>8. ErrorsNoted
  BY <1>3, <1>4, <1>5 DEF ErrorsNoted
<1> QED BY <1>1, <1>2, <1>6, <1>7, <1>8 DEF TextInv

\* While no accepted file is passed the metrics taken are the same.
LEMMA MetricsUnmoved ==
  ASSUME TextInv, dirs' = dirs, families' = families,
         \A d \in DOMAIN dirs : \A i \in DOMAIN dirs[d].files :
           (Past(d, i) /\ Accepted(d, i))' <=> Past(d, i) /\ Accepted(d, i)
  PROVE  MetricsTaken'
BY DEF TextInv, MetricsTaken

\* A step that does not move the walk leaves what is known of it.
LEMMA WalkUnmoved ==
  ASSUME TextInv, dirs' = dirs, UNCHANGED <<dirAt, fileAt, mTimes, families, errs>>
  PROVE  NamesKnown' /\ MetricsTaken' /\ LabelsOfFamily' /\ ErrorsNoted'
<1>1. \A d, i : Past(d, i)' <=> Past(d, i)
  BY DEF Past
<1>2. NamesKnown'
  BY <1>1, AcceptedUnmoved DEF TextInv, NamesKnown
<1>3. MetricsTaken'
  BY <1>1, AcceptedUnmoved, MetricsUnmoved
<1>4. LabelsOfFamily'
  BY DEF TextInv, LabelsOfFamily
<1>5. ErrorsNoted'
  BY <1>1, AcceptedUnmoved DEF TextInv, ErrorsNoted
<1> QED BY <1>2, <1>3, <1>4, <1>5

\* A round of duplicateMetricEntry keeps the invariant.
LEMMA CompareKept == ASSUME TextInv, CompareMetric PROVE TextInv'
<1>1. dirs' = dirs /\ UNCHANGED <<stage, dirAt, fileAt, mTimes, families, errs, sent>>
  BY DEF CompareMetric
<1>2. metricAt \in Nat /\ metricAt' = metricAt + 1
  BY DEF CompareMetric, TextInv, TextShape
<1>3. TextShape'
  BY <1>1, <1>2 DEF TextInv, TextShape, FileHere
<1>4. Comparing'
  <2>1. CASE stage = "file"
    <3>1. FileHere.metrics \in Seq(Metrics) /\ Compared = FileHere.metrics
      BY <2>1, DirsShape DEF TextInv, TextShape, FileHere, Compared
    <3>2. ComparedBelow(FileHere.metrics, metricAt + 1, unique')
      <4>1. /\ metricAt \in DOMAIN FileHere.metrics /\ ~Has(unique, FileHere.metrics[metricAt])
            /\ unique' = Noted(unique, FileHere.metrics[metricAt])
        BY <3>1 DEF CompareMetric, SameAsLast, Remember, Has, Noted
      <4>2. ComparedBelow(FileHere.metrics, metricAt, unique)
        BY <2>1 DEF TextInv, Comparing
      <4> QED BY <3>1, <4>1, <4>2, ComparedOn
    <3>3. FileHere' = FileHere
      BY <1>1 DEF FileHere
    <3>4. ComparedBelow(FileHere.metrics, metricAt, unique)'
      BY <1>2, <3>2, <3>3 DEF ComparedBelow, ApartBelow, LastOfName, SameMetric
    <3> QED BY <1>1, <2>1, <3>4 DEF Comparing
  <2>2. CASE stage = "all"
    <3>1. families \in Seq(FamilyMetric) /\ Compared = families
      BY <2>2 DEF TextInv, TextShape, Compared
    <3>2. /\ metricAt \in DOMAIN families /\ ~Has(unique, families[metricAt])
          /\ unique' = Noted(unique, families[metricAt])
      BY <3>1 DEF CompareMetric, SameAsLast, Remember, Has, Noted
    <3>3. ComparedBelow(families, metricAt + 1, unique')
      <4>1. ComparedBelow(families, metricAt, unique)
        BY <2>2 DEF TextInv, Comparing
      <4> QED BY <3>1, <3>2, <4>1, ComparedOn
    <3>4. ComparedBelow(families, metricAt, unique)'
      BY <1>1, <1>2, <3>3 DEF ComparedBelow, ApartBelow, LastOfName, SameMetric
    <3> QED BY <1>1, <2>2, <3>4 DEF Comparing
  <2> QED BY <2>1, <2>2 DEF CompareMetric
<1>5. NamesKnown' /\ MetricsTaken' /\ LabelsOfFamily' /\ ErrorsNoted'
  BY <1>1, WalkUnmoved
<1>6. stage' # "sent" /\ (stage # "sent" => sent = <<>>)'
  BY <1>1 DEF CompareMetric, TextInv
<1> QED BY <1>3, <1>4, <1>5, <1>6 DEF TextInv, Sent

\* The file the walk is at is accepted if it is readable and its name not taken.
LEMMA FirstOfName ==
  ASSUME TextInv, dirAt \in DOMAIN dirs, fileAt \in DOMAIN dirs[dirAt].files
  PROVE  Accepted(dirAt, fileAt) <=> Readable(dirAt, fileAt) /\ FileHere.name \notin mTimes
<1>1. FileHere.name \in mTimes <=>
        \E c \in DOMAIN dirs : \E k \in DOMAIN dirs[c].files :
          (c < dirAt \/ (c = dirAt /\ k < fileAt)) /\ Readable(c, k) /\ dirs[c].files[k].name = FileHere.name
  BY Zenon DEF TextInv, NamesKnown, Past
<1> QED BY <1>1, Zenon DEF Accepted, FileHere

\* The walk passes one file.
LEMMA OneMorePast ==
  ASSUME TextInv, dirs' = dirs, dirAt' = dirAt, fileAt' = fileAt + 1
  PROVE  \A d \in DOMAIN dirs : \A i \in DOMAIN dirs[d].files :
           Past(d, i)' <=> Past(d, i) \/ (d = dirAt /\ i = fileAt)
<1> SUFFICES ASSUME NEW d \in DOMAIN dirs, NEW i \in DOMAIN dirs[d].files
             PROVE  Past(d, i)' <=> Past(d, i) \/ (d = dirAt /\ i = fileAt)
  OBVIOUS
<1>1. dirs \in Directories /\ dirAt \in Nat /\ fileAt \in Nat
  BY DEF TextInv, TextShape
<1>2. i \in Nat /\ d \in Nat
  BY <1>1, DirsShape
<1> QED BY <1>1, <1>2 DEF Past

\* A file that is not accepted is an error, and nothing of it is taken.
LEMMA FileRejected ==
  ASSUME TextInv, dirs' = dirs, dirAt' = dirAt, fileAt' = fileAt + 1,
         dirAt \in DOMAIN dirs, fileAt \in DOMAIN dirs[dirAt].files,
         ~(Readable(dirAt, fileAt) /\ FileHere.name \notin mTimes),
         errs' = errs + 1, UNCHANGED <<mTimes, families>>
  PROVE  NamesKnown' /\ MetricsTaken' /\ LabelsOfFamily' /\ ErrorsNoted'
<1>1. ~Accepted(dirAt, fileAt)
  BY FirstOfName
<1>2. \A d \in DOMAIN dirs : \A i \in DOMAIN dirs[d].files :
        Past(d, i)' <=> Past(d, i) \/ (d = dirAt /\ i = fileAt)
  BY OneMorePast
<1>3. NamesKnown'
  <2>1. Readable(dirAt, fileAt) => FileHere.name \in mTimes
    OBVIOUS
  <2>2. \A n : n \in mTimes <=> \E d \in DOMAIN dirs : \E i \in DOMAIN dirs[d].files :
                  (Past(d, i) \/ (d = dirAt /\ i = fileAt)) /\ Readable(d, i) /\ dirs[d].files[i].name = n
    BY <2>1, Zenon DEF TextInv, NamesKnown, FileHere
  <2> QED BY <1>2, <2>2, AcceptedUnmoved DEF NamesKnown
<1>4. MetricsTaken'
  <2>1. \A d \in DOMAIN dirs : \A i \in DOMAIN dirs[d].files :
          (Past(d, i) /\ Accepted(d, i))' <=> Past(d, i) /\ Accepted(d, i)
    BY <1>1, <1>2, AcceptedUnmoved
  <2> QED BY <2>1 DEF TextInv, MetricsTaken
<1>5. LabelsOfFamily'
  BY DEF TextInv, LabelsOfFamily
<1>6. ErrorsNoted'
  <2>1. \E d \in DOMAIN dirs : \E i \in DOMAIN dirs[d].files : Past(d, i)' /\ ~Accepted(d, i)'
    BY <1>1, <1>2, AcceptedUnmoved
  <2>2. errs' > 0
    BY DEF TextInv, TextShape
  <2> QED BY <2>1, <2>2 DEF ErrorsNoted
<1> QED BY <1>3, <1>4, <1>5, <1>6

\* The metrics of a file with the label names of their families.
LEMMA FamiliesShape ==
  ASSUME NEW s \in Seq(Metrics)
  PROVE  /\ Families(s) \in Seq(FamilyMetric) /\ DOMAIN Families(s) = DOMAIN s
         /\ \A i \in DOMAIN s : /\ Families(s)[i].name = s[i].name /\ Families(s)[i].labels = s[i].labels
                                /\ DOMAIN s[i].labels \subseteq Families(s)[i].all
<1> DEFINE all(i) == UNION {DOMAIN s[k].labels : k \in {j \in DOMAIN s : s[j].name = s[i].name}}
<1>0. DOMAIN s = 1..Len(s) /\ Len(s) \in Nat /\ \A i \in DOMAIN s : s[i] \in Metrics
  OBVIOUS
<1>1. ASSUME NEW i \in DOMAIN s PROVE all(i) \in SUBSET UNION {DOMAIN m.labels : m \in Metrics}
  BY <1>0
<1>2. ASSUME NEW i \in DOMAIN s PROVE DOMAIN s[i].labels \subseteq all(i)
  OBVIOUS
<1>3. Families(s) = [i \in DOMAIN s |-> [name |-> s[i].name, labels |-> s[i].labels, all |-> all(i)]]
  BY DEF Families
<1> HIDE DEF all
<1>4. ASSUME NEW i \in DOMAIN s PROVE Families(s)[i] \in FamilyMetric
  <2>1. s[i].name \in {m.name : m \in Metrics} /\ s[i].labels \in {m.labels : m \in Metrics}
    BY <1>0
  <2> QED BY <1>1, <1>3, <2>1 DEF FamilyMetric
<1>5. Families(s) \in Seq(FamilyMetric)
  <2>1. Families(s) \in [1..Len(s) -> FamilyMetric]
    BY <1>0, <1>3, <1>4
  <2> QED BY <1>0, <2>1
<1> QED BY <1>2, <1>3, <1>5

\* w has the elements of s and after them those of t.
JoinOf(w, s, t) ==
  /\ \A j \in DOMAIN w : (j \in DOMAIN s /\ w[j] = s[j]) \/ \E k \in DOMAIN t : w[j] = t[k]
  /\ \A j \in DOMAIN s : j \in DOMAIN w /\ w[j] = s[j]
  /\ \A k \in DOMAIN t : \E j \in DOMAIN w : w[j] = t[k]

\* The elements of two sequences one after the other.
LEMMA Joined ==
  ASSUME NEW T, NEW s \in Seq(T), NEW t \in Seq(T)
  PROVE  JoinOf(s \o t, s, t)
<1> DEFINE w == s \o t
<1>1. /\ DOMAIN s = 1..Len(s) /\ DOMAIN t = 1..Len(t) /\ DOMAIN w = 1..(Len(s) + Len(t))
      /\ Len(s) \in Nat /\ Len(t) \in Nat
  OBVIOUS
<1>2. /\ \A j \in 1..Len(s) : w[j] = s[j]
      /\ \A j \in (Len(s) + 1)..(Len(s) + Len(t)) : w[j] = t[j - Len(s)]
  BY <1>1
<1> HIDE DEF w
<1>3. ASSUME NEW j \in DOMAIN w, j \notin DOMAIN s PROVE \E k \in DOMAIN t : w[j] = t[k]
  <2>1. j \in (Len(s) + 1)..(Len(s) + Len(t)) /\ j - Len(s) \in DOMAIN t
    BY <1>1, <1>3
  <2> QED BY <1>2, <2>1
<1>4. ASSUME NEW k \in DOMAIN t PROVE \E j \in DOMAIN w : w[j] = t[k]
  <2>1. Len(s) + k \in (Len(s) + 1)..(Len(s) + Len(t)) /\ (Len(s) + k) - Len(s) = k
    BY <1>1
  <2>2. Len(s) + k \in DOMAIN w
    BY <1>1
  <2> QED BY <1>2, <2>1, <2>2
<1>5. \A j \in DOMAIN s : j \in DOMAIN w /\ w[j] = s[j]
  BY <1>1, <1>2
<1>6. JoinOf(w, s, t)
  BY <1>3, <1>4, <1>5, Zenon DEF JoinOf
<1> QED BY <1>6 DEF w

\* w has the metrics of a and those of the file's s, with their label names.
AddsFile(w, a, s) ==
  /\ w \in Seq(FamilyMetric)
  /\ (\A j \in DOMAIN a : DOMAIN a[j].labels \subseteq a[j].all) =>
       \A j \in DOMAIN w : DOMAIN w[j].labels \subseteq w[j].all
  /\ \A n, l : (\E j \in DOMAIN w : w[j].name = n /\ w[j].labels = l) <=>
                 \/ \E j \in DOMAIN a : a[j].name = n /\ a[j].labels = l
                 \/ \E k \in DOMAIN s : s[k].name = n /\ s[k].labels = l

\* Appending the families of a file adds its metrics to those before.
LEMMA FamiliesJoined ==
  ASSUME NEW a \in Seq(FamilyMetric), NEW s \in Seq(Metrics)
  PROVE  AddsFile(a \o Families(s), a, s)
<1> DEFINE f == Families(s)
<1>1. /\ f \in Seq(FamilyMetric) /\ DOMAIN f = DOMAIN s
      /\ \A i \in DOMAIN s : /\ f[i].name = s[i].name /\ f[i].labels = s[i].labels
                             /\ DOMAIN s[i].labels \subseteq f[i].all
  BY FamiliesShape
<1> DEFINE w == a \o f
<1> HIDE DEF f
<1>2. w \in Seq(FamilyMetric) /\ JoinOf(w, a, f)
  BY <1>1, Joined
<1> HIDE DEF w
<1>3. \A k \in DOMAIN f : DOMAIN f[k].labels \subseteq f[k].all
  BY <1>1
<1>4. ASSUME \A j \in DOMAIN a : DOMAIN a[j].labels \subseteq a[j].all, NEW j \in DOMAIN w
      PROVE  DOMAIN w[j].labels \subseteq w[j].all
  BY <1>2, <1>3, <1>4, Zenon DEF JoinOf
<1>5. ASSUME NEW n, NEW l
      PROVE  (\E j \in DOMAIN w : w[j].name = n /\ w[j].labels = l) <=>
               \/ \E j \in DOMAIN a : a[j].name = n /\ a[j].labels = l
               \/ \E k \in DOMAIN s : s[k].name = n /\ s[k].labels = l
  <2>1. (\E k \in DOMAIN s : s[k].name = n /\ s[k].labels = l) <=> \E k \in DOMAIN f : f[k].name = n /\ f[k].labels = l
    BY <1>1
  <2>2. ASSUME NEW j \in DOMAIN w, w[j].name = n, w[j].labels = l
        PROVE  \/ \E i \in DOMAIN a : a[i].name = n /\ a[i].labels = l
               \/ \E k \in DOMAIN f : f[k].name = n /\ f[k].labels = l
    <3>1. (j \in DOMAIN a /\ w[j] = a[j]) \/ \E k \in DOMAIN f : w[j] = f[k]
      BY <1>2, Zenon DEF JoinOf
    <3> QED BY <2>2, <3>1
  <2>3. ASSUME NEW i \in DOMAIN a, a[i].name = n, a[i].labels = l
        PROVE  \E j \in DOMAIN w : w[j].name = n /\ w[j].labels = l
    BY <1>2, <2>3 DEF JoinOf
  <2>4. ASSUME NEW k \in DOMAIN f, f[k].name = n, f[k].labels = l
        PROVE  \E j \in DOMAIN w : w[j].name = n /\ w[j].labels = l
    <3>1. PICK j \in DOMAIN w : w[j] = f[k]
      BY <1>2 DEF JoinOf
    <3> QED BY <2>4, <3>1
  <2> QED BY <2>1, <2>2, <2>3, <2>4
<1>6. AddsFile(w, a, s)
  BY <1>2, <1>4, <1>5, Zenon DEF AddsFile
<1> QED BY <1>6 DEF w, f

\* Passing an accepted file adds its metrics to those of the accepted files passed.
LEMMA MetricsMore ==
  ASSUME TextInv, dirs' = dirs, dirAt \in DOMAIN dirs, fileAt \in DOMAIN dirs[dirAt].files,
         Accepted(dirAt, fileAt),
         \A d \in DOMAIN dirs : \A i \in DOMAIN dirs[d].files :
           Past(d, i)' <=> Past(d, i) \/ (d = dirAt /\ i = fileAt),
         \A n, l : (\E j \in DOMAIN families' : families'[j].name = n /\ families'[j].labels = l) <=>
                     \/ \E j \in DOMAIN families : families[j].name = n /\ families[j].labels = l
                     \/ \E k \in DOMAIN FileHere.metrics : FileHere.metrics[k].name = n /\ FileHere.metrics[k].labels = l
  PROVE  MetricsTaken'
<1>1. \A d \in DOMAIN dirs : \A i \in DOMAIN dirs[d].files :
        (Past(d, i) /\ Accepted(d, i))' <=> (Past(d, i) \/ (d = dirAt /\ i = fileAt)) /\ Accepted(d, i)
  BY AcceptedUnmoved
<1>2. ASSUME NEW n, NEW l
      PROVE  (\E j \in DOMAIN families' : families'[j].name = n /\ families'[j].labels = l) <=>
             (\E d \in DOMAIN dirs : \E i \in DOMAIN dirs[d].files :
                /\ Past(d, i)' /\ Accepted(d, i)'
                /\ \E k \in DOMAIN dirs[d].files[i].metrics :
                     /\ dirs[d].files[i].metrics[k].name = n
                     /\ dirs[d].files[i].metrics[k].labels = l)
  <2> DEFINE has(d, i) == \E k \in DOMAIN dirs[d].files[i].metrics :
                            /\ dirs[d].files[i].metrics[k].name = n
                            /\ dirs[d].files[i].metrics[k].labels = l
             before == \E j \in DOMAIN families : families[j].name = n /\ families[j].labels = l
             after  == \E j \in DOMAIN families' : families'[j].name = n /\ families'[j].labels = l
  <2>0. MetricsTaken
    BY DEF TextInv
  <2>1. before <=> \E d \in DOMAIN dirs : \E i \in DOMAIN dirs[d].files : Past(d, i) /\ Accepted(d, i) /\ has(d, i)
    BY <2>0, Zenon DEF MetricsTaken
  <2>2. after <=> before \/ has(dirAt, fileAt)
    BY Zenon DEF FileHere
  <2> HIDE DEF has, before, after
  <2>3. after <=> \E d \in DOMAIN dirs : \E i \in DOMAIN dirs[d].files : Past(d, i)' /\ Accepted(d, i)' /\ has(d, i)
    BY <1>1, <2>1, <2>2, Zenon
  <2> QED BY <2>3, Zenon DEF has, after
<1> QED BY <1>2 DEF MetricsTaken

\* A file that is accepted is taken with its name and its metrics.
LEMMA FileAccepted ==
  ASSUME TextInv, dirs' = dirs, dirAt' = dirAt, fileAt' = fileAt + 1,
         dirAt \in DOMAIN dirs, fileAt \in DOMAIN dirs[dirAt].files,
         Readable(dirAt, fileAt), FileHere.name \notin mTimes,
         mTimes' = mTimes \cup {FileHere.name}, families' = families \o Families(FileHere.metrics),
         errs' = errs
  PROVE  NamesKnown' /\ MetricsTaken' /\ LabelsOfFamily' /\ ErrorsNoted' /\ families' \in Seq(FamilyMetric)
<1>1. Accepted(dirAt, fileAt)
  BY FirstOfName
<1>2. \A d \in DOMAIN dirs : \A i \in DOMAIN dirs[d].files :
        Past(d, i)' <=> Past(d, i) \/ (d = dirAt /\ i = fileAt)
  BY OneMorePast
<1>3. NamesKnown'
  <2>1. \A n : n \in mTimes' <=> \E d \in DOMAIN dirs : \E i \in DOMAIN dirs[d].files :
                  (Past(d, i) \/ (d = dirAt /\ i = fileAt)) /\ Readable(d, i) /\ dirs[d].files[i].name = n
    BY Zenon DEF TextInv, NamesKnown, FileHere
  <2> QED BY <1>2, <2>1, AcceptedUnmoved DEF NamesKnown
<1>4. FileHere.metrics \in Seq(Metrics) /\ families \in Seq(FamilyMetric)
  BY DirsShape DEF TextInv, TextShape, FileHere
<1>5. AddsFile(families', families, FileHere.metrics)
  BY <1>4, FamiliesJoined
<1>6. LabelsOfFamily' /\ families' \in Seq(FamilyMetric)
  BY <1>5, Zenon DEF TextInv, LabelsOfFamily, AddsFile
<1>7. MetricsTaken'
  BY <1>1, <1>2, <1>5, MetricsMore, Zenon DEF AddsFile
<1>8. ErrorsNoted'
  <2>1. \A d \in DOMAIN dirs : \A i \in DOMAIN dirs[d].files :
          (Past(d, i) /\ ~Accepted(d, i))' <=> Past(d, i) /\ ~Accepted(d, i)
    BY <1>1, <1>2, AcceptedUnmoved
  <2> QED BY <2>1 DEF TextInv, ErrorsNoted
<1> QED BY <1>3, <1>6, <1>7, <1>8, Zenon

\* The types after a file that was accepted.
LEMMA ShapeAfterFile ==
  ASSUME TextInv, dirs' = dirs, dirAt' = dirAt, fileAt' = fileAt + 1, metricAt' = metricAt,
         stage' = "walk", errs' = errs, families' \in Seq(FamilyMetric)
  PROVE  TextShape'
BY DEF TextInv, TextShape

\* Opening a file keeps the invariant.
LEMMA TakeKept == ASSUME TextInv, TakeFile PROVE TextInv'
<1>1. /\ dirs' = dirs /\ dirAt' = dirAt /\ UNCHANGED <<mTimes, families, sent>> /\ stage = "walk"
      /\ dirAt \in DOMAIN dirs /\ fileAt \in DOMAIN dirs[dirAt].files
  BY DEF TakeFile
<1>2. sent = <<>>
  BY <1>1 DEF TextInv
<1>3. CASE FileHere.bad
  <2>1. errs' = errs + 1 /\ fileAt' = fileAt + 1 /\ UNCHANGED <<stage, metricAt, unique>>
    BY <1>3 DEF TakeFile
  <2>2. ~Readable(dirAt, fileAt)
    BY <1>3 DEF Readable, FileHere
  <2>3. NamesKnown' /\ MetricsTaken' /\ LabelsOfFamily' /\ ErrorsNoted'
    BY <1>1, <2>1, <2>2, FileRejected
  <2>4. TextShape'
    BY <1>1, <2>1 DEF TextInv, TextShape
  <2>5. Comparing' /\ Sent' /\ sent' = <<>>
    BY <1>1, <1>2, <2>1 DEF Comparing, Sent
  <2> QED BY <2>3, <2>4, <2>5 DEF TextInv
<1>4. CASE ~FileHere.bad
  <2>1. stage' = "file" /\ metricAt' = 1 /\ unique' = <<>> /\ UNCHANGED <<errs, fileAt>>
    BY <1>4 DEF TakeFile
  <2>2. NamesKnown' /\ MetricsTaken' /\ LabelsOfFamily' /\ ErrorsNoted'
    BY <1>1, <2>1, WalkUnmoved
  <2>3. FileHere' = FileHere
    BY <1>1, <2>1 DEF FileHere
  <2>4. TextShape'
    BY <1>1, <1>4, <2>1, <2>3 DEF TextInv, TextShape
  <2>5. ComparedBelow(FileHere.metrics, metricAt, unique)'
    <3>1. FileHere.metrics \in Seq(Metrics)
      BY <1>1, DirsShape DEF TextInv, TextShape, FileHere
    <3>2. ComparedBelow(FileHere.metrics, 1, <<>>)
      BY <3>1, ComparedNone
    <3> QED BY <2>1, <2>3, <3>2 DEF ComparedBelow, ApartBelow, LastOfName, SameMetric
  <2>6. Comparing' /\ Sent' /\ sent' = <<>>
    BY <1>1, <1>2, <2>1, <2>5 DEF Comparing, Sent
  <2> QED BY <2>2, <2>4, <2>6 DEF TextInv
<1> QED BY <1>3, <1>4

\* The end of the callback keeps the invariant.
LEMMA AddKept == ASSUME TextInv, AddFile PROVE TextInv'
<1>1. /\ dirs' = dirs /\ dirAt' = dirAt /\ fileAt' = fileAt + 1 /\ sent' = sent
      /\ stage = "file" /\ stage' = "walk" /\ metricAt' = metricAt
  BY DEF AddFile
<1>2. /\ dirAt \in DOMAIN dirs /\ fileAt \in DOMAIN dirs[dirAt].files /\ ~FileHere.bad
      /\ sent = <<>> /\ ComparedBelow(FileHere.metrics, metricAt, unique) /\ Compared = FileHere.metrics
  BY <1>1 DEF TextInv, TextShape, Comparing, Compared
<1>3. FileHere.metrics \in Seq(Metrics)
  BY <1>2, DirsShape DEF TextInv, TextShape, FileHere
<1>4. FoundDuplicate => ~Readable(dirAt, fileAt)
  <2>1. FoundDuplicate => Repeats(FileHere.metrics)
    BY <1>2, <1>3, ComparedFound DEF FoundDuplicate, SameAsLast, Has
  <2> QED BY <2>1, Zenon DEF Readable, FileHere
<1>5. FoundNone => Readable(dirAt, fileAt)
  <2>1. FoundNone => ~Repeats(FileHere.metrics)
    BY <1>2, <1>3, ComparedAll DEF FoundNone
  <2> QED BY <1>2, <2>1, Zenon DEF Readable, FileHere
<1>6. Comparing' /\ Sent' /\ sent' = <<>>
  BY <1>1, <1>2 DEF Comparing, Sent
<1>7. CASE FoundDuplicate \/ (FoundNone /\ FileHere.name \in mTimes)
  <2>1. errs' = errs + 1 /\ UNCHANGED <<mTimes, families>>
    BY <1>7, Zenon DEF AddFile, FoundDuplicate, FoundNone
  <2>2. NamesKnown' /\ MetricsTaken' /\ LabelsOfFamily' /\ ErrorsNoted'
    BY <1>1, <1>2, <1>4, <1>7, <2>1, FileRejected
  <2>3. TextShape'
    BY <1>1, <2>1 DEF TextInv, TextShape
  <2> QED BY <1>6, <2>2, <2>3 DEF TextInv
<1>8. CASE FoundNone /\ FileHere.name \notin mTimes
  <2>1. /\ mTimes' = mTimes \cup {FileHere.name} /\ families' = families \o Families(FileHere.metrics)
        /\ errs' = errs
    BY <1>8, Zenon DEF AddFile, FoundDuplicate, FoundNone
  <2>2. /\ NamesKnown' /\ MetricsTaken' /\ LabelsOfFamily' /\ ErrorsNoted'
        /\ families' \in Seq(FamilyMetric)
    BY <1>1, <1>2, <1>5, <1>8, <2>1, FileAccepted, Zenon
  <2>3. TextShape'
    BY <1>1, <2>1, <2>2, Zenon, ShapeAfterFile
  <2> QED BY <1>6, <2>2, <2>3 DEF TextInv
<1> QED BY <1>7, <1>8, Zenon DEF AddFile

\* The next directory keeps the invariant.
LEMMA EndDirectoryKept == ASSUME TextInv, EndDirectory PROVE TextInv'
<1>1. /\ dirs' = dirs /\ UNCHANGED <<stage, metricAt, unique, mTimes, families, sent>> /\ stage = "walk"
      /\ dirAt \in DOMAIN dirs /\ fileAt \notin DOMAIN dirs[dirAt].files
      /\ dirAt' = dirAt + 1 /\ fileAt' = 1 /\ errs' = IF dirs[dirAt].broken THEN errs + 1 ELSE errs
  BY DEF EndDirectory
<1>2. /\ dirs \in Directories /\ dirAt \in Nat \ {0} /\ fileAt \in Nat \ {0} /\ errs \in Nat /\ sent = <<>>
  BY <1>1 DEF TextInv, TextShape
<1>3. TextShape'
  BY <1>1, <1>2 DEF TextInv, TextShape
<1>4. Comparing' /\ Sent' /\ sent' = <<>>
  BY <1>1, <1>2 DEF Comparing, Sent
<1>5. \A d \in DOMAIN dirs : \A i \in DOMAIN dirs[d].files : Past(d, i)' <=> Past(d, i)
  <2> SUFFICES ASSUME NEW d \in DOMAIN dirs, NEW i \in DOMAIN dirs[d].files PROVE Past(d, i)' <=> Past(d, i)
    OBVIOUS
  <2>1. d \in Nat /\ i \in Nat \ {0}
    BY <1>2, DirsShape
  <2>2. d = dirAt => i < fileAt
    <3>1. DOMAIN dirs[d].files = 1..Len(dirs[d].files) /\ Len(dirs[d].files) \in Nat
      BY <1>2, DirsShape
    <3> QED BY <1>1, <1>2, <3>1
  <2> QED BY <1>1, <1>2, <2>1, <2>2 DEF Past
<1>6. NamesKnown'
  BY <1>1, <1>5, AcceptedUnmoved DEF TextInv, NamesKnown
<1>7. MetricsTaken' /\ LabelsOfFamily'
  <2>1. LabelsOfFamily'
    BY <1>1 DEF TextInv, LabelsOfFamily
  <2>2. \A d \in DOMAIN dirs : \A i \in DOMAIN dirs[d].files :
          (Past(d, i) /\ Accepted(d, i))' <=> Past(d, i) /\ Accepted(d, i)
    BY <1>1, <1>5, AcceptedUnmoved
  <2> QED BY <1>1, <2>1, <2>2, MetricsUnmoved, Zenon
<1>8. ErrorsNoted'
  <2>1. \A d \in DOMAIN dirs : \A i \in DOMAIN dirs[d].files :
          (Past(d, i) /\ ~Accepted(d, i))' <=> Past(d, i) /\ ~Accepted(d, i)
    BY <1>1, <1>5, AcceptedUnmoved
  <2>2. \A d \in DOMAIN dirs : d < dirAt' <=> d < dirAt \/ d = dirAt
    BY <1>1, <1>2, DirsShape
  <2>3. errs' > 0 <=> errs > 0 \/ dirs[dirAt].broken
    BY <1>1, <1>2
  <2>4. errs' > 0 <=> \E d \in DOMAIN dirs :
                        \/ d < dirAt' /\ dirs[d].broken
                        \/ \E i \in DOMAIN dirs[d].files : Past(d, i) /\ ~Accepted(d, i)
    BY <1>1, <2>2, <2>3, Zenon DEF TextInv, ErrorsNoted
  <2> QED BY <1>1, <2>1, <2>4 DEF ErrorsNoted
<1> QED BY <1>3, <1>4, <1>6, <1>7, <1>8 DEF TextInv

\* The end of the last walk keeps the invariant.
LEMMA EndWalkKept == ASSUME TextInv, EndWalk PROVE TextInv'
<1>1. /\ dirs' = dirs /\ UNCHANGED <<dirAt, fileAt, mTimes, families, errs, sent>> /\ stage = "walk"
      /\ dirAt \notin DOMAIN dirs /\ stage' = "all" /\ metricAt' = 1 /\ unique' = <<>>
  BY DEF EndWalk
<1>2. TextShape' /\ sent = <<>>
  BY <1>1 DEF TextInv, TextShape
<1>3. NamesKnown' /\ MetricsTaken' /\ LabelsOfFamily' /\ ErrorsNoted'
  BY <1>1, WalkUnmoved
<1>4. ComparedBelow(families, 1, <<>>)
  BY ComparedNone DEF TextInv, TextShape
<1>5. ComparedBelow(families, metricAt, unique)'
  BY <1>1, <1>4 DEF ComparedBelow, ApartBelow, LastOfName, SameMetric
<1>6. Comparing' /\ Sent' /\ sent' = <<>>
  BY <1>1, <1>2, <1>5 DEF Comparing, Sent
<1> QED BY <1>2, <1>3, <1>6 DEF TextInv

\* The end of Collect keeps the invariant.
LEMMA SendKept == ASSUME TextInv, SendMetrics PROVE TextInv'
<1>1. /\ dirs' = dirs /\ UNCHANGED <<dirAt, fileAt, metricAt, mTimes, families, errs>> /\ stage = "all" /\ stage' = "sent"
  BY DEF SendMetrics
<1>2. TextShape'
  BY <1>1 DEF TextInv, TextShape
<1>3. NamesKnown' /\ MetricsTaken' /\ LabelsOfFamily' /\ ErrorsNoted'
  BY <1>1, WalkUnmoved
<1>4. /\ families \in Seq(FamilyMetric) /\ ComparedBelow(families, metricAt, unique) /\ Compared = families
      /\ sent = <<>>
  BY <1>1 DEF TextInv, TextShape, Comparing, Compared
<1>5. \/ Repeats(families) /\ sent' = <<>>
      \/ /\ ApartBelow(families, Len(families) + 1)
         /\ sent' = [i \in DOMAIN families |-> ConvertMetric(families[i])]
  <2>1. CASE FoundDuplicate /\ sent' = sent
    BY <1>4, <2>1, ComparedFound DEF FoundDuplicate, SameAsLast, Has
  <2>2. CASE FoundNone /\ sent' = [i \in DOMAIN families |-> ConvertMetric(families[i])]
    <3>1. ApartBelow(families, Len(families) + 1)
      BY <1>4, <2>2, ComparedAll DEF FoundNone
    <3> QED BY <2>2, <3>1, Zenon
  <2> QED BY <2>1, <2>2, Zenon DEF SendMetrics
<1>6. Sent'
  BY <1>1, <1>5 DEF Sent, Repeats, ApartBelow, SameMetric, ConvertMetric
<1>7. Comparing'
  BY <1>1 DEF Comparing
<1> QED BY <1>1, <1>2, <1>3, <1>6, <1>7 DEF TextInv

\* A metric that is sent is told from others as the one of the file is.
LEMMA KeyKept ==
  ASSUME NEW m, DOMAIN m.labels \subseteq m.all
  PROVE  Key(ConvertMetric(m)) = Key(m)
<1> DEFINE c == ConvertMetric(m)
<1>1. /\ c.name = m.name /\ DOMAIN c.labels = m.all
      /\ \A l \in m.all : c.labels[l] = IF l \in DOMAIN m.labels THEN m.labels[l] ELSE NoValue
  BY DEF ConvertMetric
<1> HIDE DEF c
<1>2. {k \in DOMAIN c.labels : c.labels[k] # NoValue} = {k \in DOMAIN m.labels : m.labels[k] # NoValue}
  BY <1>1
<1>3. \A l \in {k \in DOMAIN m.labels : m.labels[k] # NoValue} : c.labels[l] = m.labels[l]
  BY <1>1
<1>4. {<<l, c.labels[l]>> : l \in {k \in DOMAIN c.labels : c.labels[k] # NoValue}} =
      {<<l, m.labels[l]>> : l \in {k \in DOMAIN m.labels : m.labels[k] # NoValue}}
  BY <1>2, <1>3
<1>5. Key(c) = Key(m)
  BY <1>1, <1>4, Zenon DEF Key
<1> QED BY <1>5 DEF c

\* Metrics of the same name and labels are not told apart.
LEMMA KeyOfSame == ASSUME NEW m, NEW k, SameMetric(m, k) PROVE Key(m) = Key(k)
BY Zenon DEF SameMetric, Key

\* After the last directory every file has been passed.
LEMMA AllPast ==
  ASSUME TextInv, stage = "sent"
  PROVE  \A d \in DOMAIN dirs : d < dirAt /\ \A i : Past(d, i)
<1>1. dirs \in Directories /\ dirAt \in Nat \ {0} /\ dirAt \notin DOMAIN dirs
  BY DEF TextInv, TextShape
<1>2. DOMAIN dirs = 1..Len(dirs) /\ Len(dirs) \in Nat
  BY <1>1, DirsShape
<1>3. \A d \in DOMAIN dirs : d < dirAt
  BY <1>1, <1>2
<1> QED BY <1>3 DEF Past

\* If no metric repeats, all are sent.
LEMMA SentAll ==
  ASSUME TextInv, stage = "sent",
         \A i, k \in DOMAIN families : Key(families[i]) = Key(families[k]) => i = k
  PROVE  /\ DOMAIN sent = DOMAIN families /\ Len(sent) = Len(families)
         /\ \A i \in DOMAIN families : Key(sent[i]) = Key(families[i])
<1>1. families \in Seq(FamilyMetric) /\ DOMAIN families = 1..Len(families) /\ Len(families) \in Nat
  BY DEF TextInv, TextShape
<1>2. ~Repeats(families)
  <2> SUFFICES ASSUME NEW i \in DOMAIN families, NEW k \in DOMAIN families, i < k,
                      SameMetric(families[i], families[k])
               PROVE  FALSE
    BY DEF Repeats
  <2>1. i = k
    BY KeyOfSame
  <2> QED BY <1>1, <2>1
<1>3. sent = [j \in DOMAIN families |-> ConvertMetric(families[j])]
  BY <1>2, Zenon DEF TextInv, Sent
<1>4. DOMAIN sent = DOMAIN families /\ Len(sent) = Len(families)
  BY <1>1, <1>3
<1>5. ASSUME NEW i \in DOMAIN families PROVE Key(sent[i]) = Key(families[i])
  <2>1. sent[i] = ConvertMetric(families[i])
    BY <1>3
  <2> QED BY <2>1, KeyKept DEF TextInv, LabelsOfFamily
<1> QED BY <1>4, <1>5

\* The metrics of the accepted files are those that were taken.
LEMMA TakenAll ==
  ASSUME TextInv, stage = "sent"
  PROVE  \A x : (\E j \in DOMAIN families : x = Key(families[j])) <=>
                \E d \in DOMAIN dirs : \E i \in DOMAIN dirs[d].files :
                  Accepted(d, i) /\ \E k \in DOMAIN dirs[d].files[i].metrics : x = Key(dirs[d].files[i].metrics[k])
<1> TAKE x
<1> DEFINE taken(n, l) == \E j \in DOMAIN families : families[j].name = n /\ families[j].labels = l
           has(d, i, n, l) == \E k \in DOMAIN dirs[d].files[i].metrics :
                                /\ dirs[d].files[i].metrics[k].name = n
                                /\ dirs[d].files[i].metrics[k].labels = l
<1>1. \A n, l : taken(n, l) <=> \E d \in DOMAIN dirs : \E i \in DOMAIN dirs[d].files :
                                  Past(d, i) /\ Accepted(d, i) /\ has(d, i, n, l)
  BY Zenon DEF TextInv, MetricsTaken
<1>2. \A j \in DOMAIN families : taken(families[j].name, families[j].labels)
  BY Zenon
<1>3. \A n, l : taken(n, l) => \E j \in DOMAIN families : families[j].name = n /\ families[j].labels = l
  BY Zenon
<1>4. \A d, i, n, l : has(d, i, n, l) => \E k \in DOMAIN dirs[d].files[i].metrics :
                        dirs[d].files[i].metrics[k].name = n /\ dirs[d].files[i].metrics[k].labels = l
  BY Zenon
<1>5. \A d, i : \A k \in DOMAIN dirs[d].files[i].metrics :
        has(d, i, dirs[d].files[i].metrics[k].name, dirs[d].files[i].metrics[k].labels)
  BY Zenon
<1> HIDE DEF taken, has
<1>6. ASSUME NEW j \in DOMAIN families, x = Key(families[j])
      PROVE  \E d \in DOMAIN dirs : \E i \in DOMAIN dirs[d].files :
               Accepted(d, i) /\ \E k \in DOMAIN dirs[d].files[i].metrics : x = Key(dirs[d].files[i].metrics[k])
  <2>1. PICK d \in DOMAIN dirs : \E i \in DOMAIN dirs[d].files :
               Past(d, i) /\ Accepted(d, i) /\ has(d, i, families[j].name, families[j].labels)
    BY <1>1, <1>2
  <2>2. PICK i \in DOMAIN dirs[d].files : Accepted(d, i) /\ has(d, i, families[j].name, families[j].labels)
    BY <2>1, Zenon
  <2>3. PICK k \in DOMAIN dirs[d].files[i].metrics : SameMetric(families[j], dirs[d].files[i].metrics[k])
    BY <1>4, <2>2 DEF SameMetric
  <2>4. x = Key(dirs[d].files[i].metrics[k])
    BY <1>6, <2>3, KeyOfSame
  <2> QED BY <2>2, <2>4, Zenon
<1>7. ASSUME NEW d \in DOMAIN dirs, NEW i \in DOMAIN dirs[d].files, Accepted(d, i),
             NEW k \in DOMAIN dirs[d].files[i].metrics, x = Key(dirs[d].files[i].metrics[k])
      PROVE  \E j \in DOMAIN families : x = Key(families[j])
  <2> DEFINE m == dirs[d].files[i].metrics[k]
  <2>1. Past(d, i)
    BY AllPast, Zenon
  <2>2. taken(m.name, m.labels)
    BY <1>1, <1>5, <1>7, <2>1
  <2>3. PICK j \in DOMAIN families : families[j].name = m.name /\ families[j].labels = m.labels
    BY <1>3, <2>2
  <2>4. x = Key(families[j])
    BY <1>7, <2>3, KeyOfSame DEF SameMetric
  <2> QED BY <2>4, Zenon
<1> QED BY <1>6, <1>7, Zenon

\* When Collect is over, the invariant is what was promised.
LEMMA TextInvExact == TextInv => TextfileExact
<1> SUFFICES ASSUME TextInv, stage = "sent" PROVE TextfileExact
  BY Zenon DEF TextfileExact
<1>1. Repeats(families) => sent = <<>>
  <2>1. CASE Repeats(families) /\ sent = <<>>
    BY <2>1, Zenon
  <2>2. CASE ApartBelow(families, Len(families) + 1)
    <3>1. DOMAIN families = 1..Len(families) /\ Len(families) \in Nat
      BY DEF TextInv, TextShape
    <3>2. ~Repeats(families)
      BY <2>2, <3>1 DEF Repeats, ApartBelow
    <3> QED BY <3>2, Zenon
  <2> QED BY <2>1, <2>2, Zenon DEF TextInv, Sent
<1>2. ASSUME Distinct(families)
      PROVE  /\ Len(sent) = Len(families)
             /\ {Key(sent[i]) : i \in DOMAIN sent} =
                  UNION {UNION {{Key(m) : m \in Range(dirs[d].files[i].metrics)} :
                                  i \in {k \in DOMAIN dirs[d].files : Accepted(d, k)}} : d \in DOMAIN dirs}
  <2>1. /\ DOMAIN sent = DOMAIN families /\ Len(sent) = Len(families)
        /\ \A i \in DOMAIN families : Key(sent[i]) = Key(families[i])
    BY <1>2, SentAll, Zenon DEF Distinct
  <2> DEFINE F(d) == UNION {{Key(m) : m \in Range(dirs[d].files[i].metrics)} :
                              i \in {k \in DOMAIN dirs[d].files : Accepted(d, k)}}
             G(d, x) == \E i \in DOMAIN dirs[d].files :
                          /\ Accepted(d, i)
                          /\ \E k \in DOMAIN dirs[d].files[i].metrics : x = Key(dirs[d].files[i].metrics[k])
  <2>2. ASSUME NEW d, NEW x PROVE x \in F(d) <=> G(d, x)
    <3>1. \A i : x \in {Key(m) : m \in Range(dirs[d].files[i].metrics)} <=>
                 \E k \in DOMAIN dirs[d].files[i].metrics : x = Key(dirs[d].files[i].metrics[k])
      BY Zenon DEF Range
    <3> QED BY <3>1, Zenon
  <2>3. \A x : (\E j \in DOMAIN families : x = Key(families[j])) <=> \E d \in DOMAIN dirs : G(d, x)
    BY TakenAll, Zenon
  <2> HIDE DEF F, G
  <2>4. \A x : x \in {Key(sent[i]) : i \in DOMAIN sent} <=> \E j \in DOMAIN families : x = Key(families[j])
    BY <2>1, Zenon
  <2>5. \A x : x \in {Key(sent[i]) : i \in DOMAIN sent} <=> x \in UNION {F(d) : d \in DOMAIN dirs}
    <3>1. \A x : x \in UNION {F(d) : d \in DOMAIN dirs} <=> \E d \in DOMAIN dirs : G(d, x)
      BY <2>2, Zenon
    <3> QED BY <2>3, <2>4, <3>1, Zenon
  <2>6. {Key(sent[i]) : i \in DOMAIN sent} = UNION {F(d) : d \in DOMAIN dirs}
    BY <2>5, Zenon
  <2> QED BY <2>1, <2>6, Zenon DEF F
<1>3. errs > 0 <=> Rejects
  BY AllPast, Zenon DEF TextInv, ErrorsNoted, Rejects
<1> QED BY <1>1, <1>2, <1>3, Zenon DEF TextfileExact, NoDuplicates

\* A step that changes nothing keeps the invariant.
LEMMA StutterKept == ASSUME TextInv, UNCHANGED textVars PROVE TextInv'
<1>1. dirs' = dirs /\ UNCHANGED <<stage, dirAt, fileAt, metricAt, unique, mTimes, families, errs, sent>>
  BY DEF textVars
<1>2. NamesKnown' /\ MetricsTaken' /\ LabelsOfFamily' /\ ErrorsNoted'
  BY <1>1, WalkUnmoved
<1>3. TextShape' /\ FileHere' = FileHere
  BY <1>1 DEF TextInv, TextShape, FileHere
<1>4. Comparing'
  <2>1. ComparedBelow(FileHere.metrics, metricAt, unique)' <=> ComparedBelow(FileHere.metrics, metricAt, unique)
    BY <1>1, <1>3 DEF ComparedBelow, ApartBelow, LastOfName, SameMetric
  <2>2. ComparedBelow(families, metricAt, unique)' <=> ComparedBelow(families, metricAt, unique)
    BY <1>1 DEF ComparedBelow, ApartBelow, LastOfName, SameMetric
  <2> QED BY <1>1, <2>1, <2>2 DEF TextInv, Comparing
<1>5. Sent'
  <2>1. Repeats(families)' <=> Repeats(families)
    BY <1>1 DEF Repeats, SameMetric
  <2>2. ApartBelow(families, Len(families) + 1)' <=> ApartBelow(families, Len(families) + 1)
    BY <1>1 DEF ApartBelow, SameMetric
  <2>3. [i \in DOMAIN families |-> ConvertMetric(families[i])]' = [i \in DOMAIN families |-> ConvertMetric(families[i])]
    BY <1>1 DEF ConvertMetric
  <2> QED BY <1>1, <2>1, <2>2, <2>3, Zenon DEF TextInv, Sent
<1>6. (stage # "sent" => sent = <<>>)'
  BY <1>1 DEF TextInv
<1> QED BY <1>2, <1>3, <1>4, <1>5, <1>6, Zenon DEF TextInv

\* For all directories and files, Collect of textfile sends and reports what TextfileExact
\* asks for.
THEOREM TextfileAlways == TextSpec => []TextfileExact
<1>1. TextInv /\ [TextNext]_textVars => TextInv'
  <2> SUFFICES ASSUME TextInv, [TextNext]_textVars PROVE TextInv'
    OBVIOUS
  <2>1. CASE UNCHANGED textVars
    BY <2>1, StutterKept
  <2>2. CASE TextNext
    BY <2>2, TakeKept, CompareKept, AddKept, EndDirectoryKept, EndWalkKept, SendKept, Zenon DEF TextNext
  <2> QED BY <2>1, <2>2
<1> QED BY <1>1, TextInitially, TextInvExact, PTL DEF TextSpec
=============================================================================
