---------------------------- MODULE ProcessProofs ----------------------------
(***************************************************************************)
(* Which objects the performancecounter collector is built with when the   *)
(* process starts, for every configuration; and how the process starts and *)
(* stops, for every bound.                                                 *)
(***************************************************************************)
EXTENDS Service, PerfObjects, TLAPS

-----------------------------------------------------------------------------
(* PerfObjects *)

\* The field names the counters make.
FieldNames == UNION {{config[i].counters[j].field : j \in DOMAIN config[i].counters} : i \in DOMAIN config}

\* The types of what Build has.
BuildShape(st) ==
  /\ DOMAIN st = {"arr", "len", "names", "objects", "counters", "fields", "metrics", "errs",
                  "refused", "end"}
  /\ st.arr \in [DOMAIN config -> {0} \cup DOMAIN config] /\ st.len \in 0..Len(config)
  /\ st.objects \in Seq(DOMAIN config) /\ st.fields \in Seq(FieldNames) /\ st.errs \in Nat
  /\ st.end \in {"no", "error", "panic"}

\* The types of the whole state.
PerfShape ==
  /\ Len(config) \in Nat /\ DOMAIN config = 1..Len(config)
  /\ \A i \in DOMAIN config : /\ Len(config[i].counters) \in Nat
                              /\ DOMAIN config[i].counters = 1..Len(config[i].counters)
  /\ objectAt \in Nat \ {0} /\ counterAt \in Nat /\ inHand \in {0} \cup DOMAIN config
  /\ inHand # 0 => objectAt \in DOMAIN config /\ counterAt # 0
  /\ BuildShape(build)

\* No object has moved, and Build has noted the counters of the one in hand so far.
InPlace ==
  /\ build.arr = [i \in DOMAIN config |-> i] /\ build.len = Len(config)
  /\ inHand # 0 =>
       /\ inHand = objectAt /\ counterAt <= Len(config[inHand].counters) + 1
       /\ build.counters = {config[inHand].counters[j].name : j \in 1..(counterAt - 1)}

\* The objects that have had their turn, the one in hand included.
Taken == IF inHand = 0 THEN 1..(objectAt - 1) ELSE 1..objectAt

\* Two counters of object i below m have one name.
Repeated(i, m) ==
  \E j, k \in 1..m : j # k /\ config[i].counters[j].name = config[i].counters[k].name

\* With counters that are well named Build ends without a panic, and early only for an
\* object without a name.
Ended ==
  /\ build.end # "panic"
  /\ build.end = "error" => inHand = 0 /\ objectAt \in DOMAIN config /\ config[objectAt].name = NoName

\* Build has noted the names of the objects it has taken.
NamesTaken ==
  /\ \A k \in Taken : k \in DOMAIN config /\ config[k].name # NoName
  /\ build.names = {config[k].name : k \in {i \in Taken : config[i].object # NoName}}

\* It has kept the complete objects it has passed.
ObjectsKept ==
  /\ Range(build.objects) = {k \in 1..(objectAt - 1) : Complete(k)}
  /\ \A a, b \in DOMAIN build.objects : a < b => build.objects[a] < build.objects[b]

\* It has given their counters metrics.
MetricsGiven ==
  \A k \in Taken : Complete(k) => \A j \in DOMAIN config[k].counters :
    k < objectAt \/ j < counterAt => config[k].counters[j].metric \/ <<k, j>> \in build.metrics

\* It has reported a fault exactly when it has met one.
FaultsMet ==
  build.errs > 0 <=> \/ build.refused # {}
                     \/ \E k \in 1..(objectAt - 1) : Faulty(k)
                     \/ inHand # 0 /\ Repeated(inHand, counterAt - 1)

\* The fields s are apart, and made of the first m counters of object i.
FieldsOf(s, i, m) ==
  /\ IsInjective(s)
  /\ \A a \in DOMAIN s : \E j \in 1..m : s[a] = config[i].counters[j].field

\* The object in hand will be kept.
HandFit == inHand # 0 => Complete(inHand) /\ FieldsOf(build.fields, inHand, counterAt - 1)

\* What Build has measured, given well named counters.
Measured == Ended /\ NamesTaken /\ ObjectsKept /\ MetricsGiven /\ FaultsMet /\ HandFit

\* The counters of object i are well named.
WellNamed(i) ==
  LET cs == config[i].counters
  IN /\ \A j \in DOMAIN cs : cs[j].name # NoName /\ cs[j].field # NoName
     /\ \A j, k \in DOMAIN cs : cs[j].field = cs[k].field => cs[j].name = cs[k].name

\* As long as nothing is reported, the counters that have had their turn are well named.
Clean ==
  /\ \A k \in 1..(objectAt - 1) : k \in DOMAIN config => WellNamed(k)
  /\ inHand # 0 =>
       /\ Len(build.fields) = counterAt - 1
       /\ \A j \in 1..(counterAt - 1) : /\ build.fields[j] = config[inHand].counters[j].field
                                        /\ config[inHand].counters[j].name # NoName

\* No fault has been reported and Build runs or has ended as it should.
Silent == build.errs = 0 /\ build.end = "no"

\* The inductive invariant of Build: what it measures is known while the counters are well
\* named, and that they are while it reports nothing.
PerfInv ==
  /\ PerfShape
  /\ CountersNamed \/ Silent => InPlace
  /\ CountersNamed => Measured
  /\ Silent => Clean


\* Before the first object Build satisfies its invariant.
LEMMA PerfInitially == PerfInit => PerfInv
<1> SUFFICES ASSUME NEW cfg \in ObjectLists, BuildStart(cfg) PROVE PerfInv
  BY DEF PerfInit
<1>1. config = cfg /\ objectAt = 1 /\ inHand = 0 /\ counterAt = 0
  BY DEF BuildStart
<1>2. /\ build.arr = [i \in DOMAIN config |-> i] /\ build.len = Len(config) /\ build.names = {}
      /\ build.objects = <<>> /\ build.fields = <<>> /\ build.errs = 0 /\ build.refused = {}
      /\ build.end = "no"
      /\ DOMAIN build = {"arr", "len", "names", "objects", "counters", "fields", "metrics", "errs",
                         "refused", "end"}
  BY <1>1 DEF BuildStart
<1>3. PerfShape
  <2>1. <<>> \in Seq(DOMAIN config) /\ <<>> \in Seq(FieldNames)
    OBVIOUS
  <2> QED
    BY <1>1, <1>2, <2>1, ObjectListsAssumption DEF PerfShape, BuildShape
<1>4. InPlace /\ Clean
  BY <1>1, <1>2 DEF InPlace, Clean
<1>5. Measured
  <2>1. Taken = {} /\ 1..(objectAt - 1) = {}
    BY <1>1 DEF Taken
  <2>2. Range(build.objects) = {}
    BY <1>2 DEF Range
  <2> QED
    BY <1>1, <1>2, <2>1, <2>2 DEF Measured, Ended, NamesTaken, ObjectsKept, MetricsGiven, FaultsMet, HandFit
<1> QED
  BY <1>3, <1>4, <1>5 DEF PerfInv

-----------------------------------------------------------------------------
(* What the operations on build leave *)

\* A step that leaves the configuration alone and a build of the right shape.
LEMMA ShapeMoves ==
  ASSUME config' = config, NEW t, build' = t, BuildShape(t)
  PROVE  BuildShape(build)'
BY DEF BuildShape, FieldNames

\* What most steps need of the shape.
LEMMA ShapeGives ==
  ASSUME NEW st, BuildShape(st)
  PROVE  /\ st.errs \in Nat /\ st.end \in {"no", "error", "panic"}
         /\ DOMAIN st = {"arr", "len", "names", "objects", "counters", "fields", "metrics", "errs",
                         "refused", "end"}
BY DEF BuildShape

\* A fault is counted and nothing else happens.
LEMMA Failed ==
  ASSUME NEW st, BuildShape(st), NEW t, t = Fail(st)
  PROVE  /\ BuildShape(t) /\ t.errs = st.errs + 1
         /\ \A f \in DOMAIN st \ {"errs"} : t[f] = st[f]
<1>1. DOMAIN t = DOMAIN st /\ t.errs = st.errs + 1 /\ \A f \in DOMAIN st \ {"errs"} : t[f] = st[f]
  BY DEF Fail, BuildShape
<1> QED
  BY <1>1 DEF BuildShape

\* c.config.Objects[i].Counters[j].Metric names a metric, or panics.
LEMMA MetricOrPanic ==
  ASSUME NEW st, BuildShape(st), st.end = "no", NEW i, NEW j, NEW t, t = SetMetric(st, i, j)
  PROVE  /\ BuildShape(t) /\ t.end \in {"no", "panic"}
         /\ \A f \in DOMAIN st \ {"metrics", "end"} : t[f] = st[f]
<1>1. CASE t = Panic(st)
  <2>1. DOMAIN t = DOMAIN st /\ t.end = "panic" /\ \A f \in DOMAIN st \ {"end"} : t[f] = st[f]
    BY <1>1 DEF Panic, BuildShape
  <2> QED
    BY <2>1 DEF BuildShape
<1>2. CASE t = [st EXCEPT !.metrics = @ \cup {<<st.arr[i], j>>}]
  <2>1. DOMAIN t = DOMAIN st /\ \A f \in DOMAIN st \ {"metrics"} : t[f] = st[f]
    BY <1>2 DEF BuildShape
  <2>2. BuildShape(t)
    BY <2>1, Zenon DEF BuildShape
  <2> QED
    BY <2>1, <2>2, ShapeGives
<1> QED
  BY <1>1, <1>2 DEF SetMetric

\* With every object in its place it names that of counter j of object i.
LEMMA MetricSet ==
  ASSUME PerfShape, NEW st, BuildShape(st), st.end = "no", NEW i \in DOMAIN config,
         NEW j \in DOMAIN config[i].counters, st.arr = [k \in DOMAIN config |-> k], st.len = Len(config),
         NEW t, t = SetMetric(st, i, j)
  PROVE  t.end = "no" /\ t.metrics = st.metrics \cup {<<i, j>>}
<1>1. st.arr[i] = i /\ i # 0 /\ ~(i > st.len)
  BY DEF PerfShape
<1>2. ObjectIn(st, i).counters = config[i].counters
  BY <1>1 DEF ObjectIn
<1>3. ~(j > Len(config[i].counters))
  BY DEF PerfShape
<1>4. t = [st EXCEPT !.metrics = @ \cup {<<i, j>>}]
  BY <1>1, <1>2, <1>3 DEF SetMetric
<1> QED
  BY <1>4, ShapeGives

\* slices.Delete keeps what is not of the list, and may panic.
LEMMA ObjectDeleted ==
  ASSUME PerfShape, NEW st, BuildShape(st), NEW i \in DOMAIN config, NEW t, t = DeleteObject(st, i)
  PROVE  BuildShape(t) /\ t.errs = st.errs
<1>1. CASE t = Panic(st)
  <2>1. DOMAIN t = DOMAIN st /\ t.end = "panic" /\ \A f \in DOMAIN st \ {"end"} : t[f] = st[f]
    BY <1>1 DEF Panic, BuildShape
  <2> QED
    BY <2>1 DEF BuildShape
<1>2. CASE st.len > 0 /\ i = 1
  <2> DEFINE a == [k \in DOMAIN st.arr |-> CASE k < st.len -> st.arr[k + 1]
                                             [] k = st.len -> 0
                                             [] OTHER      -> st.arr[k]]
  <2>1. t = [st EXCEPT !.len = @ - 1, !.arr = a]
    BY <1>2 DEF DeleteObject
  <2>2. a \in [DOMAIN config -> {0} \cup DOMAIN config]
    <3>1. /\ DOMAIN st.arr = DOMAIN config /\ \A k \in DOMAIN config : st.arr[k] \in {0} \cup DOMAIN config
          /\ \A k \in DOMAIN config : k < st.len => k + 1 \in DOMAIN config
      <4>1. st.arr \in [DOMAIN config -> {0} \cup DOMAIN config] /\ st.len \in 0..Len(config)
        BY DEF BuildShape
      <4>2. DOMAIN config = 1..Len(config) /\ Len(config) \in Nat
        BY DEF PerfShape
      <4> QED
        BY <4>1, <4>2
    <3>2. \A k \in DOMAIN config : CASE k < st.len -> st.arr[k + 1] \in {0} \cup DOMAIN config
                                     [] k = st.len -> 0 \in {0} \cup DOMAIN config
                                     [] OTHER      -> st.arr[k] \in {0} \cup DOMAIN config
      BY <3>1
    <3> QED
      BY <3>1, <3>2
  <2>3. st.len - 1 \in 0..Len(config)
    BY <1>2 DEF PerfShape, BuildShape
  <2> HIDE DEF a
  <2>4. /\ DOMAIN t = DOMAIN st /\ t.len = st.len - 1 /\ t.arr = a
        /\ \A f \in DOMAIN st \ {"len", "arr"} : t[f] = st[f]
    BY <2>1, Zenon DEF BuildShape
  <2> QED
    BY <2>2, <2>3, <2>4, Zenon DEF BuildShape
<1>3. CASE t = st
  BY <1>3
<1>4. i \in Nat \ {0} /\ st.len \in Nat
  BY DEF PerfShape, BuildShape
<1> QED
  BY <1>1, <1>2, <1>3, <1>4 DEF DeleteObject


\* Whatever the counter, a visit keeps the shape, and an error is not forgotten.
LEMMA CounterVisited ==
  ASSUME PerfShape, NEW st, BuildShape(st), st.end = "no", NEW i \in DOMAIN config, NEW j \in Nat,
         NEW c, c.field \in FieldNames, NEW t, t = VisitCounter(st, i, c, j)
  PROVE  /\ BuildShape(t) /\ t.errs >= st.errs
         /\ c.name = NoName => t.errs > 0 \/ t.end = "panic"
<1>1. PICK m : m = IF c.metric THEN st ELSE SetMetric(st, i, j)
  OBVIOUS
<1>2. BuildShape(m) /\ m.errs = st.errs /\ m.end \in {"no", "panic"}
  <2>1. CASE c.metric
    BY <1>1, <2>1
  <2>2. CASE ~c.metric
    <3>1. m = SetMetric(st, i, j)
      BY <1>1, <2>2
    <3>2. /\ BuildShape(m) /\ m.end \in {"no", "panic"}
          /\ \A f \in DOMAIN st \ {"metrics", "end"} : m[f] = st[f]
      BY <3>1, MetricOrPanic
    <3> QED
      BY <3>2, ShapeGives
  <2> QED
    BY <2>1, <2>2
<1>0. st.errs \in Nat /\ m.errs \in Nat
  BY <1>2, ShapeGives
<1>3. CASE m.end # "no"
  <2>1. t = m
    BY <1>1, <1>3 DEF VisitCounter
  <2> QED
    BY <1>0, <1>2, <1>3, <2>1
<1>4. CASE m.end = "no" /\ c.name = NoName
  <2>1. PICK u : u = Fail(m)
    OBVIOUS
  <2>2. BuildShape(u) /\ u.errs = st.errs + 1
    BY <1>2, <2>1, Failed
  <2>3. t = DeleteObject(u, i)
    BY <1>1, <1>4, <2>1 DEF VisitCounter
  <2>4. BuildShape(t) /\ t.errs = u.errs
    BY <2>2, <2>3, ObjectDeleted
  <2> QED
    BY <1>0, <2>2, <2>4
<1>5. CASE m.end = "no" /\ c.name # NoName /\ c.name \in m.counters
  <2>1. t = Fail(m)
    BY <1>1, <1>5 DEF VisitCounter
  <2>2. BuildShape(t) /\ t.errs = st.errs + 1
    BY <1>2, <2>1, Failed
  <2> QED
    BY <1>0, <1>5, <2>2
<1>6. CASE m.end = "no" /\ c.name # NoName /\ c.name \notin m.counters
  <2>1. t = [m EXCEPT !.counters = @ \cup {c.name}, !.fields = Append(@, c.field)]
    BY <1>1, <1>6 DEF VisitCounter
  <2>2. /\ DOMAIN t = DOMAIN m /\ t.fields = Append(m.fields, c.field)
        /\ \A f \in DOMAIN m \ {"counters", "fields"} : t[f] = m[f]
    BY <1>2, <2>1, ShapeGives, Zenon
  <2>3. t.fields \in Seq(FieldNames)
    BY <1>2, <2>2 DEF BuildShape
  <2>4. BuildShape(t)
    BY <1>2, <2>2, <2>3, Zenon DEF BuildShape
  <2> QED
    BY <1>0, <1>2, <1>6, <2>2, <2>4, ShapeGives
<1> QED
  BY <1>2, <1>3, <1>4, <1>5, <1>6

\* t is st after counter c, at j of object i, has had its turn with its name.
Noted(st, t, i, c, j) ==
  /\ t.end = "no" /\ st.metrics \subseteq t.metrics /\ (c.metric \/ <<i, j>> \in t.metrics)
  /\ \A f \in {"arr", "len", "names", "objects", "refused"} : t[f] = st[f]
  /\ IF c.name \in st.counters
     THEN t.errs = st.errs + 1 /\ t.counters = st.counters /\ t.fields = st.fields
     ELSE /\ t.errs = st.errs /\ t.counters = st.counters \cup {c.name}
          /\ t.fields = Append(st.fields, c.field)

\* With every object in its place and a counter that has a name, only the counter's own
\* entries are added: a fault if the name was there, else the name and the field.
LEMMA NamedVisited ==
  ASSUME PerfShape, NEW st, BuildShape(st), st.end = "no", NEW i \in DOMAIN config,
         NEW j \in DOMAIN config[i].counters, NEW c, c = config[i].counters[j], c.name # NoName,
         st.arr = [k \in DOMAIN config |-> k], st.len = Len(config),
         NEW t, t = VisitCounter(st, i, c, j)
  PROVE  Noted(st, t, i, c, j)
<1>1. PICK m : m = IF c.metric THEN st ELSE SetMetric(st, i, j)
  OBVIOUS
<1>2. /\ BuildShape(m) /\ m.end = "no" /\ st.metrics \subseteq m.metrics
      /\ c.metric \/ <<i, j>> \in m.metrics
      /\ \A f \in DOMAIN st \ {"metrics", "end"} : m[f] = st[f]
  <2>1. CASE c.metric
    BY <1>1, <2>1
  <2>2. CASE ~c.metric
    <3>1. m = SetMetric(st, i, j)
      BY <1>1, <2>2
    <3>2. /\ BuildShape(m) /\ m.end = "no" /\ m.metrics = st.metrics \cup {<<i, j>>}
          /\ \A f \in DOMAIN st \ {"metrics", "end"} : m[f] = st[f]
      BY <3>1, MetricOrPanic, MetricSet
    <3> QED
      BY <3>2
  <2> QED
    BY <2>1, <2>2
<1>3. m.counters = st.counters
  BY <1>2, ShapeGives
<1>4. CASE c.name \in st.counters
  <2>1. t = Fail(m)
    BY <1>1, <1>2, <1>4, <1>3 DEF VisitCounter
  <2>2. t.errs = m.errs + 1 /\ \A f \in DOMAIN m \ {"errs"} : t[f] = m[f]
    BY <1>2, <2>1, Failed
  <2> QED
    BY <1>2, <1>4, <2>2, ShapeGives DEF Noted
<1>5. CASE c.name \notin st.counters
  <2>1. t = [m EXCEPT !.counters = @ \cup {c.name}, !.fields = Append(@, c.field)]
    BY <1>1, <1>2, <1>5, <1>3 DEF VisitCounter
  <2>2. /\ t.fields = Append(m.fields, c.field) /\ t.counters = m.counters \cup {c.name}
        /\ \A f \in DOMAIN m \ {"counters", "fields"} : t[f] = m[f]
    BY <1>2, <2>1, ShapeGives, Zenon
  <2> QED
    <3>1. \A f \in {"arr", "len", "names", "objects", "refused", "errs", "end", "metrics"} : t[f] = m[f]
      BY <1>2, <2>2, ShapeGives
    <3>2. m.fields = st.fields /\ \A f \in {"arr", "len", "names", "objects", "refused", "errs"} : m[f] = st[f]
      BY <1>2, ShapeGives
    <3> QED
      BY <1>2, <1>5, <1>3, <2>2, <3>1, <3>2 DEF Noted
<1> QED
  BY <1>4, <1>5


-----------------------------------------------------------------------------
(* The steps of Build *)

\* What is said of the configuration alone does not change with a step.
LEMMA Unmoved ==
  ASSUME config' = config
  PROVE  /\ CountersNamed' <=> CountersNamed
         /\ \A k : (Complete(k)' <=> Complete(k)) /\ (Faulty(k)' <=> Faulty(k))
         /\ \A k : WellNamed(k)' <=> WellNamed(k)
         /\ \A k, m : Repeated(k, m)' <=> Repeated(k, m)
<1>1. CountersNamed' <=> CountersNamed
  BY DEF CountersNamed
<1>2. \A k : (Complete(k)' <=> Complete(k)) /\ (Faulty(k)' <=> Faulty(k))
  BY DEF Complete, Faulty
<1>3. \A k : WellNamed(k)' <=> WellNamed(k)
  BY DEF WellNamed
<1>4. \A k, m : Repeated(k, m)' <=> Repeated(k, m)
  BY DEF Repeated
<1> QED
  BY <1>1, <1>2, <1>3, <1>4

\* An object without a name ends Build.
LEMMA NamelessKept ==
  ASSUME PerfInv, config' = config, UNCHANGED <<objectAt, inHand, counterAt>>,
         build.end = "no", inHand = 0, objectAt \in DOMAIN config,
         ObjectIn(build, objectAt).name = NoName, build' = [build EXCEPT !.end = "error"]
  PROVE  PerfInv'
<1>1. PICK st, t : st = build /\ t = build'
  OBVIOUS
<1>2. BuildShape(st) /\ PerfShape
  BY <1>1 DEF PerfInv, PerfShape
<1>3. /\ t.end = "error" /\ DOMAIN t = DOMAIN st
      /\ \A f \in {"arr", "len", "names", "objects", "counters", "fields", "metrics", "errs", "refused"} :
           t[f] = st[f]
  BY <1>1, <1>2, ShapeGives
<1>4. BuildShape(t)
  BY <1>2, <1>3 DEF BuildShape
<1>5. PerfShape'
  BY <1>1, <1>2, <1>4, ShapeMoves DEF PerfShape
<1>6. CountersNamed => InPlace'
  BY <1>1, <1>3 DEF PerfInv, InPlace
<1>7. CountersNamed => Measured'
  <2> SUFFICES ASSUME CountersNamed PROVE Measured'
    OBVIOUS
  <2>1. Measured /\ InPlace
    BY DEF PerfInv
  <2>2. config[objectAt].name = NoName
    BY <2>1, <1>2 DEF InPlace, ObjectIn, PerfShape
  <2>3. Taken' = Taken
    BY DEF Taken
  <2>4. Ended' /\ HandFit'
    BY <1>1, <1>3, <2>2 DEF Ended, HandFit
  <2>5. NamesTaken' /\ MetricsGiven'
    BY <1>1, <1>3, <2>1, <2>3, Unmoved DEF Measured, NamesTaken, MetricsGiven
  <2>6. ObjectsKept' /\ FaultsMet'
    BY <1>1, <1>3, <2>1, Unmoved DEF Measured, ObjectsKept, FaultsMet
  <2> QED
    BY <2>4, <2>5, <2>6 DEF Measured
<1> QED
  BY <1>1, <1>3, <1>5, <1>6, <1>7, Unmoved DEF PerfInv, Silent

\* With no name missing so far, the object that has its turn is passed over exactly when it
\* is not complete.
LEMMA PassedIncomplete ==
  ASSUME PerfShape, Measured, inHand = 0, objectAt \in DOMAIN config,
         config[objectAt].name # NoName
  PROVE  PassedOver(config[objectAt]) <=> ~Complete(objectAt)
<1>1. /\ Taken = 1..(objectAt - 1) /\ \A k \in 1..objectAt : k \in Taken \/ k = objectAt
      /\ \A k \in Taken : config[k].name # NoName
  BY DEF Taken, PerfShape, Measured, NamesTaken
<1>2. build.names = {config[k].name : k \in {i \in Taken : config[i].object # NoName}}
  BY DEF Measured, NamesTaken
<1> QED
  BY <1>1, <1>2 DEF PassedOver, Complete

\* One without an object, or whose name was there before, is passed over.
LEMMA PassedKept ==
  ASSUME PerfInv, config' = config, UNCHANGED <<inHand, counterAt>>, objectAt' = objectAt + 1,
         build.end = "no", inHand = 0, objectAt \in DOMAIN config,
         ObjectIn(build, objectAt).name # NoName, PassedOver(ObjectIn(build, objectAt)),
         build' = Fail(build)
  PROVE  PerfInv'
<1>1. PICK st, t : st = build /\ t = build'
  OBVIOUS
<1>2. BuildShape(st) /\ PerfShape
  BY <1>1 DEF PerfInv, PerfShape
<1>3. /\ BuildShape(t) /\ t.errs = st.errs + 1
      /\ \A f \in {"arr", "len", "names", "objects", "counters", "fields", "metrics", "end", "refused"} :
           t[f] = st[f]
  BY <1>1, <1>2, Failed, ShapeGives
<1>4. PerfShape'
  BY <1>1, <1>2, <1>3, ShapeMoves DEF PerfShape
<1>5. t.errs > 0
  BY <1>2, <1>3, ShapeGives
<1>6. CountersNamed => InPlace'
  BY <1>1, <1>3 DEF PerfInv, InPlace
<1>7. CountersNamed => Measured'
  <2> SUFFICES ASSUME CountersNamed PROVE Measured'
    OBVIOUS
  <2>1. Measured /\ InPlace
    BY DEF PerfInv
  <2>2. ObjectIn(build, objectAt) = config[objectAt]
    BY <2>1, <1>2 DEF InPlace, ObjectIn, PerfShape
  <2>3. ~Complete(objectAt) /\ PassedOver(config[objectAt]) /\ config[objectAt].name # NoName
    BY <1>2, <2>1, <2>2, PassedIncomplete
  <2>4. /\ objectAt \in Nat \ {0} /\ 1..(objectAt' - 1) = 1..(objectAt - 1) \cup {objectAt}
        /\ Taken = 1..(objectAt - 1) /\ Taken' = Taken \cup {objectAt}
    BY <1>2 DEF PerfShape, Taken
  <2>5. Faulty(objectAt)
    <3>1. config[objectAt].object = NoName \/ config[objectAt].name \in build.names
      BY <2>3 DEF PassedOver
    <3> QED
      BY <2>1, <2>4, <3>1 DEF Measured, NamesTaken, Faulty
  <2>6. build'.names = {config[k].name : k \in {i \in Taken' : config[i].object # NoName}}
    <3>1. config[objectAt].object = NoName \/ config[objectAt].name \in build.names
      BY <2>3 DEF PassedOver
    <3>2. build.names = {config[k].name : k \in {i \in Taken : config[i].object # NoName}}
      BY <2>1 DEF Measured, NamesTaken
    <3> QED
      BY <1>1, <1>3, <2>4, <3>1, <3>2
  <2>7. Ended' /\ HandFit'
    BY <1>1, <1>3 DEF Ended, HandFit
  <2>8. NamesTaken'
    BY <2>1, <2>3, <2>4, <2>6 DEF Measured, NamesTaken
  <2>9. ObjectsKept'
    BY <1>1, <1>3, <2>1, <2>3, <2>4, Unmoved DEF Measured, ObjectsKept
  <2>10. MetricsGiven'
    BY <1>1, <1>3, <2>1, <2>3, <2>4, Unmoved DEF Measured, MetricsGiven
  <2>11. FaultsMet'
    BY <1>1, <1>5, <2>4, <2>5, Unmoved DEF FaultsMet
  <2> QED
    BY <2>7, <2>8, <2>9, <2>10, <2>11 DEF Measured
<1> QED
  BY <1>1, <1>4, <1>5, <1>6, <1>7, Unmoved DEF PerfInv, Silent


\* Any other is taken in hand.
LEMMA TakenKept ==
  ASSUME PerfInv, config' = config, objectAt' = objectAt, inHand' = build.arr[objectAt], counterAt' = 1,
         build.end = "no", inHand = 0, objectAt \in DOMAIN config,
         ObjectIn(build, objectAt).name # NoName, ~PassedOver(ObjectIn(build, objectAt)),
         build' = [build EXCEPT !.names = @ \cup {ObjectIn(build, objectAt).name},
                                !.counters = {}, !.fields = <<>>]
  PROVE  PerfInv'
<1>1. PICK st, t, n : st = build /\ t = build' /\ n = ObjectIn(build, objectAt).name
  OBVIOUS
<1>2. BuildShape(st) /\ PerfShape
  BY <1>1 DEF PerfInv, PerfShape
<1>3. /\ t.names = st.names \cup {n} /\ t.counters = {} /\ t.fields = <<>> /\ DOMAIN t = DOMAIN st
      /\ \A f \in {"arr", "len", "objects", "metrics", "errs", "refused", "end"} : t[f] = st[f]
  <2>1. t = [st EXCEPT !.names = @ \cup {n}, !.counters = {}, !.fields = <<>>]
    BY <1>1
  <2> QED
    BY <1>2, <2>1, ShapeGives
<1>4. BuildShape(t)
  <2>1. <<>> \in Seq(FieldNames)
    OBVIOUS
  <2> QED
    BY <1>2, <1>3, <2>1 DEF BuildShape
<1>5. inHand' \in {0} \cup DOMAIN config
  BY <1>1, <1>2 DEF BuildShape
<1>6. PerfShape'
  BY <1>1, <1>2, <1>4, <1>5, ShapeMoves DEF PerfShape
<1>7. ASSUME InPlace
      PROVE  inHand' = objectAt /\ InPlace' /\ ObjectIn(build, objectAt) = config[objectAt]
  <2>1. build.arr[objectAt] = objectAt /\ objectAt # 0
    BY <1>2, <1>7 DEF InPlace, PerfShape
  <2>2. Len(config[objectAt].counters) \in Nat /\ 1..(1 - 1) = {}
    BY <1>2 DEF PerfShape
  <2>3. InPlace'
    BY <1>1, <1>3, <1>7, <2>1, <2>2 DEF InPlace
  <2> QED
    BY <2>1, <2>3 DEF ObjectIn
<1>8. CountersNamed => Measured'
  <2> SUFFICES ASSUME CountersNamed PROVE Measured'
    OBVIOUS
  <2>1. Measured /\ InPlace
    BY DEF PerfInv
  <2>2. inHand' = objectAt /\ ObjectIn(build, objectAt) = config[objectAt]
    BY <1>7, <2>1
  <2>3. Complete(objectAt) /\ config[objectAt].name # NoName /\ config[objectAt].object # NoName
    BY <1>2, <2>1, <2>2, PassedIncomplete DEF PassedOver
  <2>4. /\ objectAt \in Nat \ {0} /\ Taken = 1..(objectAt - 1) /\ Taken' = Taken \cup {objectAt}
        /\ \A k \in Taken : k < objectAt
    BY <1>2, <2>2 DEF PerfShape, Taken
  <2>5. NamesTaken'
    <3>1. /\ \A k \in Taken : k \in DOMAIN config /\ config[k].name # NoName
          /\ build.names = {config[k].name : k \in {i \in Taken : config[i].object # NoName}}
      BY <2>1 DEF Measured, NamesTaken
    <3>2. build'.names = {config[k].name : k \in {i \in Taken' : config[i].object # NoName}}
      BY <1>1, <1>3, <2>2, <2>3, <2>4, <3>1
    <3> QED
      BY <2>3, <2>4, <3>1, <3>2, Zenon DEF NamesTaken
  <2>6. MetricsGiven'
    <3>1. \A j \in DOMAIN config[objectAt].counters : ~(j < 1)
      BY <1>2 DEF PerfShape
    <3>2. ~(objectAt < objectAt)
      BY <2>4
    <3>3. \A k \in Taken' : Complete(k) => \A j \in DOMAIN config[k].counters :
            k < objectAt \/ j < 1 => config[k].counters[j].metric \/ <<k, j>> \in build'.metrics
      BY <1>1, <1>3, <2>1, <2>4, <3>1, <3>2 DEF Measured, MetricsGiven
    <3> QED
      BY <3>3, Unmoved DEF MetricsGiven
  <2>7. HandFit'
    <3>1. Complete(inHand)'
      BY <2>2, <2>3 DEF Complete
    <3>2. FieldsOf(build.fields, inHand, counterAt - 1)'
      BY <1>1, <1>3 DEF FieldsOf, IsInjective
    <3> QED
      BY <3>1, <3>2 DEF HandFit
  <2>8. FaultsMet'
    <3>1. ~Repeated(inHand, counterAt - 1)'
      BY DEF Repeated
    <3>2. build.errs > 0 <=> build.refused # {} \/ \E k \in 1..(objectAt - 1) : Faulty(k)
      BY <2>1 DEF Measured, FaultsMet
    <3> QED
      BY <1>1, <1>3, <3>1, <3>2, Unmoved DEF FaultsMet
  <2>9. ObjectsKept'
    BY <1>1, <1>3, <2>1, Unmoved DEF Measured, ObjectsKept
  <2>10. Ended'
    BY <1>1, <1>3 DEF Ended
  <2> QED
    BY <2>5, <2>6, <2>7, <2>8, <2>9, <2>10 DEF Measured
<1>9. Silent' => Silent /\ Clean'
  <2> SUFFICES ASSUME Silent' PROVE Silent /\ Clean'
    OBVIOUS
  <2>1. Silent
    BY <1>1, <1>3 DEF Silent
  <2>2. Clean
    BY <2>1 DEF PerfInv
  <2> QED
    BY <1>1, <1>3, <2>1, <2>2, Unmoved DEF Clean
<1> QED
  BY <1>6, <1>7, <1>8, <1>9, Unmoved DEF PerfInv

-----------------------------------------------------------------------------
\* With every object in its place, the counter that has its turn, and has a name, leaves
\* every object in its place and its name noted.
LEMMA NamedInPlace ==
  ASSUME PerfShape, TakeCounter, InPlace, config[inHand].counters[counterAt].name # NoName
  PROVE  /\ InPlace' /\ build'.end = "no" /\ build.metrics \subseteq build'.metrics
         /\ config[inHand].counters[counterAt].metric \/ <<inHand, counterAt>> \in build'.metrics
         /\ \A f \in {"names", "objects", "refused"} : build'[f] = build[f]
         /\ IF config[inHand].counters[counterAt].name \in build.counters
            THEN build'.errs = build.errs + 1 /\ build'.fields = build.fields
            ELSE /\ build'.errs = build.errs
                 /\ build'.fields = Append(build.fields, config[inHand].counters[counterAt].field)
<1>1. PICK st, t, i, j, c : /\ st = build /\ t = build' /\ i = inHand /\ j = counterAt
                            /\ c = config[inHand].counters[counterAt]
  OBVIOUS
<1>2. /\ st.end = "no" /\ i # 0 /\ j \in DOMAIN config[i].counters /\ counterAt' = j + 1
      /\ config' = config /\ inHand' = i /\ objectAt' = objectAt /\ objectAt = i
      /\ c = config[i].counters[j] /\ c.name # NoName /\ t = VisitCounter(st, i, c, j)
  BY <1>1 DEF TakeCounter, InPlace
<1>3. /\ i \in DOMAIN config /\ BuildShape(st) /\ j \in 1..Len(config[i].counters)
      /\ Len(config[i].counters) \in Nat
  BY <1>1, <1>2 DEF PerfShape
<1>4. st.arr = [k \in DOMAIN config |-> k] /\ st.len = Len(config)
  BY <1>1 DEF InPlace
<1>5. /\ t.end = "no" /\ st.metrics \subseteq t.metrics /\ (c.metric \/ <<i, j>> \in t.metrics)
      /\ \A f \in {"arr", "len", "names", "objects", "refused"} : t[f] = st[f]
      /\ IF c.name \in st.counters
         THEN t.errs = st.errs + 1 /\ t.counters = st.counters /\ t.fields = st.fields
         ELSE /\ t.errs = st.errs /\ t.counters = st.counters \cup {c.name}
              /\ t.fields = Append(st.fields, c.field)
  <2>1. Noted(st, t, i, c, j)
    BY <1>2, <1>3, <1>4, NamedVisited
  <2> QED
    BY <2>1 DEF Noted
<1>6. t.counters = {config[i].counters[k].name : k \in 1..j}
  <2>1. st.counters = {config[i].counters[k].name : k \in 1..(j - 1)}
    BY <1>1, <1>2 DEF InPlace
  <2>2. 1..j = 1..(j - 1) \cup {j}
    BY <1>3
  <2>3. t.counters = st.counters \cup {c.name}
    BY <1>5
  <2> QED
    BY <1>2, <2>1, <2>2, <2>3
<1>7. InPlace'
  <2>1. j + 1 <= Len(config[i].counters) + 1 /\ (j + 1) - 1 = j
    BY <1>3
  <2>2. t.arr = [k \in DOMAIN config |-> k] /\ t.len = Len(config)
    BY <1>4, <1>5
  <2>3. (build.arr = [k \in DOMAIN config |-> k] /\ build.len = Len(config))'
    BY <1>1, <1>2, <2>2
  <2>4. inHand' = objectAt' /\ counterAt' <= Len(config'[inHand'].counters) + 1
    BY <1>2, <2>1
  <2>5. counterAt' - 1 = j /\ build'.counters = {config[i].counters[k].name : k \in 1..j}
    BY <1>1, <1>2, <1>6, <2>1
  <2>6. build'.counters = {config'[inHand'].counters[k].name : k \in 1..(counterAt' - 1)}
    BY <1>2, <2>5
  <2> QED
    BY <2>3, <2>4, <2>6 DEF InPlace
<1> QED
  BY <1>1, <1>5, <1>7


\* A new field keeps the fields apart.
LEMMA InjectiveAppended ==
  ASSUME NEW T, NEW s \in Seq(T), NEW x, IsInjective(s), \A a \in DOMAIN s : s[a] # x,
         NEW t, t = Append(s, x), DOMAIN t = 1..(Len(s) + 1), t[Len(s) + 1] = x,
         \A a \in 1..Len(s) : t[a] = s[a]
  PROVE  IsInjective(t)
<1> SUFFICES ASSUME NEW a \in DOMAIN t, NEW b \in DOMAIN t, t[a] = t[b] PROVE a = b
  BY DEF IsInjective
<1>1. DOMAIN s = 1..Len(s) /\ Len(s) \in Nat
  OBVIOUS
<1>2. \A k \in DOMAIN t : k \in DOMAIN s \/ k = Len(s) + 1
  BY <1>1
<1>3. CASE a \in DOMAIN s /\ b \in DOMAIN s
  BY <1>1, <1>3 DEF IsInjective
<1>4. CASE a = Len(s) + 1 \/ b = Len(s) + 1
  BY <1>1, <1>2, <1>4
<1> QED
  BY <1>2, <1>3, <1>4

\* The field of a well named counter whose name is new is apart from those before it.
LEMMA FieldNoted ==
  ASSUME PerfShape, CountersNamed, NEW i \in DOMAIN config, NEW j \in DOMAIN config[i].counters,
         NEW s \in Seq(FieldNames), FieldsOf(s, i, j - 1),
         config[i].counters[j].name \notin {config[i].counters[k].name : k \in 1..(j - 1)},
         NEW x, x = config[i].counters[j].field, NEW t, t = Append(s, x)
  PROVE  FieldsOf(t, i, j)
<1>1. j \in 1..Len(config[i].counters) /\ Len(config[i].counters) \in Nat
  BY DEF PerfShape
<1>2. j \in 1..j /\ 1..(j - 1) \subseteq 1..j /\ 1..(j - 1) \subseteq DOMAIN config[i].counters
  BY <1>1 DEF PerfShape
<1>3. /\ Len(s) \in Nat /\ DOMAIN s = 1..Len(s) /\ DOMAIN t = 1..(Len(s) + 1)
      /\ t[Len(s) + 1] = x /\ \A a \in 1..Len(s) : t[a] = s[a]
  OBVIOUS
<1>4. \A a \in DOMAIN s : s[a] # x
  <2> SUFFICES ASSUME NEW m \in 1..(j - 1), config[i].counters[m].field = x PROVE FALSE
    BY DEF FieldsOf
  <2>1. config[i].counters[m].name = config[i].counters[j].name
    BY <1>2 DEF CountersNamed
  <2> QED
    BY <2>1
<1>5. IsInjective(t)
  BY <1>3, <1>4, InjectiveAppended, Zenon DEF FieldsOf
<1>6. ASSUME NEW a \in DOMAIN t
      PROVE  \E m \in 1..j : t[a] = config[i].counters[m].field
  <2>1. CASE a = Len(s) + 1
    BY <1>2, <1>3, <2>1
  <2>2. CASE a \in DOMAIN s
    <3>1. PICK m \in 1..(j - 1) : s[a] = config[i].counters[m].field
      BY <2>2 DEF FieldsOf
    <3> QED
      BY <1>2, <1>3, <2>2, <3>1
  <2> QED
    BY <1>3, <2>1, <2>2
<1> QED
  BY <1>5, <1>6 DEF FieldsOf

\* A counter repeats a name if one before it did or its own name was there.
LEMMA RepeatedNow ==
  ASSUME NEW i, NEW j \in Nat \ {0}
  PROVE  Repeated(i, j) <=>
           \/ Repeated(i, j - 1)
           \/ config[i].counters[j].name \in {config[i].counters[k].name : k \in 1..(j - 1)}
<1>1. 1..j = 1..(j - 1) \cup {j} /\ j \notin 1..(j - 1)
  OBVIOUS
<1> QED
  BY <1>1 DEF Repeated

\* With well named counters, a round of the loop over them keeps what is known of what Build
\* measures.
LEMMA CounterMeasured ==
  ASSUME PerfShape, InPlace, CountersNamed, Measured, TakeCounter
  PROVE  Measured'
<1>1. PICK t, i, j, c : /\ t = build' /\ i = inHand /\ j = counterAt
                        /\ c = config[inHand].counters[counterAt]
  BY Zenon
<1>2. /\ build.end = "no" /\ i # 0 /\ j \in DOMAIN config[i].counters /\ counterAt' = j + 1
      /\ config' = config /\ inHand' = i /\ objectAt' = objectAt /\ i = objectAt
      /\ c = config[i].counters[j] /\ build.counters = {config[i].counters[k].name : k \in 1..(j - 1)}
  BY <1>1 DEF TakeCounter, InPlace
<1>3. /\ i \in DOMAIN config /\ i \in Nat /\ BuildShape(build) /\ j \in Nat \ {0} /\ (j + 1) - 1 = j
  BY <1>1, <1>2 DEF PerfShape
<1>4. c.name # NoName
  BY <1>2, <1>3 DEF CountersNamed
<1>5. /\ t.end = "no" /\ build.metrics \subseteq t.metrics /\ (c.metric \/ <<i, j>> \in t.metrics)
      /\ t.names = build.names /\ t.objects = build.objects /\ t.refused = build.refused
      /\ IF c.name \in build.counters
         THEN t.errs = build.errs + 1 /\ t.fields = build.fields
         ELSE t.errs = build.errs /\ t.fields = Append(build.fields, c.field)
  BY <1>1, <1>4, NamedInPlace
<1>6. Taken' = Taken /\ Taken = 1..objectAt
  BY <1>1, <1>2 DEF Taken
<1>7. ObjectsKept'
  BY <1>1, <1>2, <1>5, Unmoved DEF Measured, ObjectsKept
<1>8. NamesTaken'
  BY <1>1, <1>2, <1>5, <1>6 DEF Measured, NamesTaken
<1>9. Ended'
  BY <1>1, <1>5 DEF Ended
<1>10. MetricsGiven'
  <2> SUFFICES ASSUME NEW k \in Taken, Complete(k), NEW m \in DOMAIN config[k].counters,
                      k < objectAt \/ m < j + 1
               PROVE  config[k].counters[m].metric \/ <<k, m>> \in t.metrics
    BY <1>1, <1>2, <1>6, Unmoved DEF MetricsGiven
  <2>1. k < objectAt \/ m < j \/ (k = i /\ m = j)
    <3>1. DOMAIN config[k].counters = 1..Len(config[k].counters)
      BY DEF PerfShape, Measured, NamesTaken
    <3>2. k \in Nat /\ k <= i /\ m \in Nat
      BY <1>2, <1>3, <1>6, <3>1
    <3> QED
      BY <1>2, <1>3, <3>2
  <2>2. CASE k = i /\ m = j
    BY <1>2, <1>5, <2>2
  <2>3. CASE k < objectAt \/ m < j
    BY <1>1, <1>5, <2>3 DEF Measured, MetricsGiven
  <2> QED
    BY <2>1, <2>2, <2>3
<1>11. FaultsMet'
  <2>1. Repeated(inHand, counterAt - 1)' <=> Repeated(i, j)
    BY <1>2, <1>3 DEF Repeated
  <2>2. Repeated(i, j) <=> Repeated(i, j - 1) \/ c.name \in build.counters
    BY <1>2, <1>3, RepeatedNow
  <2>3. build.errs > 0 <=> \/ build.refused # {}
                           \/ \E k \in 1..(objectAt - 1) : Faulty(k)
                           \/ Repeated(i, j - 1)
    BY <1>1, <1>2 DEF Measured, FaultsMet
  <2>4. t.errs > 0 <=> build.errs > 0 \/ c.name \in build.counters
    <3>1. build.errs \in Nat
      BY <1>3 DEF BuildShape
    <3> QED
      BY <1>5, <3>1
  <2> QED
    BY <1>1, <1>2, <1>5, <2>1, <2>2, <2>3, <2>4, Unmoved DEF FaultsMet
<1>12. HandFit'
  <2>1. Complete(inHand)'
    BY <1>1, <1>2 DEF Measured, HandFit, Complete
  <2>2. PICK s : s = build.fields
    BY Zenon
  <2>3. FieldsOf(s, i, j - 1) /\ s \in Seq(FieldNames)
    BY <1>1, <1>2, <1>3, <2>2 DEF Measured, HandFit, BuildShape
  <2>4. FieldsOf(t.fields, i, j)
    <3>1. CASE c.name \in build.counters
      <4>1. 1..(j - 1) \subseteq 1..j /\ t.fields = s
        BY <1>3, <1>5, <2>2, <3>1
      <4> QED
        BY <2>3, <4>1 DEF FieldsOf
    <3>2. CASE c.name \notin build.counters
      <4>1. t.fields = Append(s, c.field)
        BY <1>5, <2>2, <3>2
      <4> QED
        BY <1>2, <1>3, <2>3, <3>2, <4>1, FieldNoted, Zenon
    <3> QED
      BY <3>1, <3>2
  <2>5. FieldsOf(build.fields, inHand, counterAt - 1)'
    BY <1>1, <1>2, <1>3, <2>4 DEF FieldsOf
  <2> QED
    BY <2>1, <2>5 DEF HandFit
<1> QED
  BY <1>7, <1>8, <1>9, <1>10, <1>11, <1>12 DEF Measured

\* A counter that has its turn while nothing is reported is well named so far.
LEMMA CounterClean ==
  ASSUME PerfShape, InPlace, Clean, TakeCounter, config[inHand].counters[counterAt].name # NoName,
         build'.errs = 0, build.errs = 0
  PROVE  Clean'
<1>1. PICK t, i, j, c, s : /\ t = build' /\ i = inHand /\ j = counterAt /\ s = build.fields
                           /\ c = config[inHand].counters[counterAt]
  BY Zenon
<1>2. /\ i # 0 /\ j \in DOMAIN config[i].counters /\ counterAt' = j + 1
      /\ config' = config /\ inHand' = i /\ objectAt' = objectAt /\ c = config[i].counters[j]
  BY <1>1 DEF TakeCounter
<1>3. j \in Nat \ {0} /\ s \in Seq(FieldNames)
  BY <1>1, <1>2 DEF PerfShape, BuildShape
<1>4. t.fields = Append(s, c.field)
  BY <1>1, NamedInPlace
<1>5. /\ Len(s) = j - 1
      /\ \A m \in 1..(j - 1) : s[m] = config[i].counters[m].field /\ config[i].counters[m].name # NoName
  BY <1>1, <1>2 DEF Clean
<1>6. /\ Len(t.fields) = j /\ t.fields[j] = c.field /\ \A m \in 1..(j - 1) : t.fields[m] = s[m]
      /\ 1..j = 1..(j - 1) \cup {j} /\ (j + 1) - 1 = j
  BY <1>3, <1>4, <1>5
<1>7. \A m \in 1..j : t.fields[m] = config[i].counters[m].field /\ config[i].counters[m].name # NoName
  <2>1. c = config[i].counters[j] /\ c.name # NoName
    BY <1>1, <1>2
  <2> QED
    BY <1>5, <1>6, <2>1, Zenon
<1> QED
  BY <1>1, <1>2, <1>6, <1>7, Unmoved, Zenon DEF Clean

\* A round of the loop over the counters keeps the invariant.
LEMMA CounterKept == ASSUME PerfInv, TakeCounter PROVE PerfInv'
<1>1. PICK st, t, o, j, c : /\ st = build /\ t = build' /\ o = objectAt /\ j = counterAt
                            /\ c = config[inHand].counters[counterAt]
  BY Zenon
<1>2. st.end = "no" /\ config' = config /\ t = VisitCounter(st, o, c, j) /\ j \in DOMAIN config[inHand].counters
  BY <1>1 DEF TakeCounter
<1>3. PerfShape /\ BuildShape(st) /\ o \in DOMAIN config /\ j \in Nat \ {0} /\ inHand \in DOMAIN config
  BY <1>1, <1>2 DEF PerfInv, PerfShape, TakeCounter
<1>4. BuildShape(t) /\ t.errs >= st.errs /\ (c.name = NoName => t.errs > 0 \/ t.end = "panic")
  <2>1. c.field \in FieldNames
    BY <1>1, <1>2, <1>3 DEF FieldNames
  <2> QED
    BY <1>2, <1>3, <2>1, CounterVisited
<1>5. PerfShape'
  <2>1. BuildShape(build)'
    BY <1>1, <1>2, <1>4, ShapeMoves
  <2> QED
    BY <1>1, <1>3, <2>1 DEF PerfShape, TakeCounter
<1>6. st.errs \in Nat /\ t.errs \in Nat
  BY <1>3, <1>4, ShapeGives
<1>7. Silent' => Silent /\ c.name # NoName /\ st.errs = 0 /\ t.errs = 0
  BY <1>1, <1>2, <1>4, <1>6 DEF Silent
<1>8. ASSUME CountersNamed \/ Silent'
      PROVE  InPlace /\ InPlace' /\ c.name # NoName
  <2>1. InPlace
    BY <1>7, <1>8 DEF PerfInv
  <2>2. c.name # NoName
    BY <1>1, <1>2, <1>3, <1>7, <1>8 DEF CountersNamed
  <2> QED
    BY <1>1, <1>3, <2>1, <2>2, NamedInPlace
<1>9. CountersNamed => Measured'
  BY <1>3, <1>8, CounterMeasured DEF PerfInv
<1>10. Silent' => Clean'
  BY <1>1, <1>3, <1>7, <1>8, CounterClean DEF PerfInv
<1> QED
  BY <1>2, <1>5, <1>8, <1>9, <1>10, Unmoved DEF PerfInv

-----------------------------------------------------------------------------
\* t is st after the round of object i.
RoundLeaves(st, t, i) ==
  /\ BuildShape(t) /\ t.errs >= st.errs
  /\ \A f \in {"arr", "len", "names", "counters", "fields", "metrics"} : t[f] = st[f]
  /\ Unfit(st) => t.end = "panic"
  /\ ~Unfit(st) => /\ t.end = st.end /\ t.objects = Append(st.objects, i)
                   /\ \/ t.errs = st.errs /\ t.refused = st.refused
                      \/ t.errs > 0 /\ t.refused # {}

\* What the end of a round leaves: a panic, or the object kept and perhaps reported.
LEMMA RoundEnded ==
  ASSUME NEW st, BuildShape(st), NEW i \in DOMAIN config, NEW ok \in BOOLEAN, NEW t,
         t = Keep(st, i, ok)
  PROVE  RoundLeaves(st, t, i)
<1>1. CASE Unfit(st)
  <2>1. t = Panic(st)
    BY <1>1 DEF Keep
  <2>2. DOMAIN t = DOMAIN st /\ t.end = "panic" /\ \A f \in DOMAIN st \ {"end"} : t[f] = st[f]
    BY <2>1, ShapeGives DEF Panic
  <2>3. BuildShape(t)
    BY <2>2 DEF BuildShape
  <2> QED
    BY <1>1, <2>2, <2>3, ShapeGives DEF RoundLeaves
<1>2. CASE ~Unfit(st)
  <2>1. PICK kept : kept = [st EXCEPT !.objects = Append(@, i)]
    BY Zenon
  <2>2. /\ DOMAIN kept = DOMAIN st /\ kept.objects = Append(st.objects, i)
        /\ \A f \in DOMAIN st \ {"objects"} : kept[f] = st[f]
    BY <2>1, ShapeGives
  <2>3. BuildShape(kept)
    <3>1. kept.objects \in Seq(DOMAIN config)
      BY <2>2 DEF BuildShape
    <3> QED
      BY <2>2, <3>1, Zenon DEF BuildShape
  <2>4. CASE ok
    <3>1. t = kept
      BY <1>2, <2>1, <2>4 DEF Keep
    <3> QED
      <4>1. /\ \A f \in {"arr", "len", "names", "counters", "fields", "metrics", "end", "errs", "refused"} : kept[f] = st[f]
            /\ st.errs \in Nat
        BY <2>2, ShapeGives
      <4>2. t.end = st.end /\ t.errs = st.errs /\ t.refused = st.refused /\ t.objects = Append(st.objects, i)
        BY <2>2, <3>1, <4>1
      <4>3. t.errs >= st.errs /\ \A f \in {"arr", "len", "names", "counters", "fields", "metrics"} : t[f] = st[f]
        BY <3>1, <4>1
      <4> QED
        BY <1>2, <2>3, <3>1, <4>2, <4>3, Zenon DEF RoundLeaves
  <2>5. CASE ~ok
    <3>1. PICK u : u = Fail(kept)
      OBVIOUS
    <3>2. t = [u EXCEPT !.refused = @ \cup {i}]
      BY <1>2, <2>1, <2>5, <3>1 DEF Keep
    <3>3. BuildShape(u) /\ u.errs = kept.errs + 1 /\ \A f \in DOMAIN kept \ {"errs"} : u[f] = kept[f]
      BY <2>3, <3>1, Failed
    <3>4. /\ DOMAIN t = DOMAIN u /\ t.refused = u.refused \cup {i}
          /\ \A f \in DOMAIN u \ {"refused"} : t[f] = u[f]
      BY <3>2, <3>3, ShapeGives
    <3>5. BuildShape(t)
      BY <3>3, <3>4, Zenon DEF BuildShape
    <3>6. t.errs = st.errs + 1 /\ st.errs \in Nat /\ t.refused # {}
      BY <2>2, <2>3, <3>3, <3>4, ShapeGives
    <3>7. /\ \A f \in {"arr", "len", "names", "counters", "fields", "metrics", "end"} : t[f] = st[f]
          /\ t.objects = Append(st.objects, i)
      <4>1. \A f \in DOMAIN st \ {"errs", "refused"} : t[f] = kept[f]
        BY <2>2, <3>3, <3>4, ShapeGives
      <4>2. {"arr", "len", "names", "counters", "fields", "metrics", "end", "objects"}
              \subseteq DOMAIN st \ {"errs", "refused"}
        BY ShapeGives
      <4> QED
        BY <2>2, <4>1, <4>2
    <3> QED
      <4>1. t.errs >= st.errs /\ t.errs > 0 /\ t.end = st.end
        BY <3>6, <3>7
      <4>2. \A f \in {"arr", "len", "names", "counters", "fields", "metrics"} : t[f] = st[f]
        BY <3>7
      <4> QED
        BY <1>2, <3>5, <3>6, <3>7, <4>1, <4>2, Zenon DEF RoundLeaves
  <2> QED
    BY <2>4, <2>5
<1> QED
  BY <1>1, <1>2

\* An object that comes after those kept keeps them in their order.
LEMMA OrderAppended ==
  ASSUME NEW D, NEW s \in Seq(D), NEW i \in D, NEW u, u = Append(s, i),
         \A a \in DOMAIN s : s[a] < i,
         \A a, b \in DOMAIN s : a < b => s[a] < s[b]
  PROVE  /\ Range(u) = Range(s) \cup {i}
         /\ \A a, b \in DOMAIN u : a < b => u[a] < u[b]
<1>1. /\ Len(s) \in Nat /\ DOMAIN s = 1..Len(s) /\ DOMAIN u = 1..(Len(s) + 1) /\ u[Len(s) + 1] = i
      /\ \A a \in 1..Len(s) : u[a] = s[a]
  OBVIOUS
<1>2. Range(u) = Range(s) \cup {i}
  <2>1. DOMAIN u = DOMAIN s \cup {Len(s) + 1}
    BY <1>1
  <2> QED
    BY <1>1, <2>1 DEF Range
<1>3. ASSUME NEW a \in DOMAIN u, NEW b \in DOMAIN u, a < b PROVE u[a] < u[b]
  <2>1. a \in DOMAIN s /\ (b \in DOMAIN s \/ b = Len(s) + 1)
    BY <1>1, <1>3
  <2> QED
    BY <1>1, <1>3, <2>1
<1> QED
  BY <1>2, <1>3

\* What the last step of an object's round does when all objects are in their places.
RoundPlaces(t, i, n) ==
  /\ i \in DOMAIN config /\ i = objectAt /\ i = inHand /\ i \in Nat \ {0} /\ build.end = "no"
  /\ RoundLeaves(build, t, i) /\ t = build' /\ config' = config
  /\ objectAt' = objectAt + 1 /\ inHand' = 0 /\ counterAt' = 0
  /\ counterAt - 1 = n /\ n \in Nat /\ DOMAIN config[i].counters = 1..n
  /\ 1..(objectAt' - 1) = 1..(i - 1) \cup {i}

\* The end of a round moves no object.
LEMMA RoundInPlace ==
  ASSUME PerfShape, InPlace, NEW ok \in BOOLEAN, KeepObject(ok)
  PROVE  InPlace' /\ RoundPlaces(build', inHand, Len(config[inHand].counters))
<1>1. PICK st, t, i, n : st = build /\ t = build' /\ i = inHand /\ n = Len(config[inHand].counters)
  BY Zenon
<1>2. /\ st.end = "no" /\ i # 0 /\ counterAt \notin DOMAIN config[i].counters
      /\ config' = config /\ objectAt' = objectAt + 1 /\ inHand' = 0 /\ counterAt' = 0
  BY <1>1 DEF KeepObject
<1>3. /\ i \in DOMAIN config /\ BuildShape(st) /\ DOMAIN config[i].counters = 1..n
      /\ n \in Nat /\ counterAt \in Nat \ {0} /\ i \in Nat \ {0}
  BY <1>1, <1>2 DEF PerfShape
<1>4. RoundLeaves(st, t, i)
  <2>1. t = Keep(st, i, ok)
    BY <1>1 DEF KeepObject
  <2> QED
    BY <1>3, <2>1, RoundEnded
<1>5. InPlace'
  <2>1. t.arr = st.arr /\ t.len = st.len
    BY <1>4 DEF RoundLeaves
  <2> QED
    BY <1>1, <1>2, <2>1 DEF InPlace
<1>6. i = objectAt /\ counterAt <= n + 1
  BY <1>1, <1>2 DEF InPlace
<1>7. counterAt - 1 = n /\ 1..(objectAt' - 1) = 1..(i - 1) \cup {i}
  BY <1>2, <1>3, <1>6
<1>8. RoundPlaces(t, i, n)
  BY <1>1, <1>2, <1>3, <1>4, <1>6, <1>7 DEF RoundPlaces
<1> QED
  BY <1>1, <1>5, <1>8

\* With well named counters, the end of a round keeps what is known of what Build measures.
LEMMA KeepMeasured ==
  ASSUME PerfShape, CountersNamed, Measured, NEW t, NEW i, NEW n, RoundPlaces(t, i, n)
  PROVE  Measured'
<1>1. /\ i \in DOMAIN config /\ i = objectAt /\ i = inHand /\ i \in Nat \ {0} /\ build.end = "no"
      /\ RoundLeaves(build, t, i) /\ t = build' /\ config' = config
      /\ objectAt' = objectAt + 1 /\ inHand' = 0 /\ counterAt' = 0
  BY Zenon DEF RoundPlaces
<1>2. /\ counterAt - 1 = n /\ n \in Nat /\ DOMAIN config[i].counters = 1..n
      /\ 1..(objectAt' - 1) = 1..(i - 1) \cup {i} /\ i \in 1..i
  BY DEF RoundPlaces
<1>3. Complete(i) /\ FieldsOf(build.fields, i, n)
  BY <1>1, <1>2 DEF Measured, HandFit
<1>4. ~Unfit(build)
  <2>1. \A j \in 1..n : config[i].counters[j].field # NoName
    BY <1>1, <1>2 DEF CountersNamed
  <2>2. NoName \notin Range(build.fields)
    BY <1>3, <2>1 DEF Range, FieldsOf
  <2> QED
    BY <1>3, <2>2 DEF Unfit, FieldsOf
<1>5. /\ t.end = "no" /\ t.names = build.names /\ t.metrics = build.metrics
      /\ t.objects = Append(build.objects, i) /\ t.errs >= build.errs
      /\ \/ t.errs = build.errs /\ t.refused = build.refused
         \/ t.errs > 0 /\ t.refused # {}
  BY <1>1, <1>4 DEF RoundLeaves
<1>6. Taken = 1..i /\ Taken' = 1..i
  <2>1. objectAt' - 1 = i /\ inHand # 0
    <3>1. objectAt \in Nat /\ objectAt' = objectAt + 1 /\ objectAt = i
      BY <1>1, Zenon DEF PerfShape
    <3>2. inHand # 0
      BY <1>1
    <3> QED
      BY <3>1, <3>2
  <2>2. Taken' = 1..(objectAt' - 1)
    BY <1>1 DEF Taken
  <2> QED
    BY <1>1, <2>1, <2>2 DEF Taken
<1>7. Ended'
  BY <1>1, <1>5 DEF Ended
<1>8. NamesTaken'
  BY <1>1, <1>5, <1>6 DEF Measured, NamesTaken
<1>9. HandFit'
  BY <1>1 DEF HandFit
<1>10. MetricsGiven'
  <2> SUFFICES ASSUME NEW k \in 1..i, Complete(k), NEW m \in DOMAIN config[k].counters
               PROVE  config[k].counters[m].metric \/ <<k, m>> \in t.metrics
    BY <1>1, <1>6, Unmoved DEF MetricsGiven
  <2>1. k < objectAt \/ m < counterAt
    <3>1. CASE k = i
      <4>1. m \in 1..n /\ counterAt \in Nat
        BY <1>2, <3>1 DEF PerfShape
      <4> QED
        BY <1>2, <4>1
    <3>2. CASE k # i
      BY <1>1, <3>2
    <3> QED
      BY <3>1, <3>2
  <2> QED
    BY <1>5, <1>6, <2>1 DEF Measured, MetricsGiven
<1>11. ObjectsKept'
  <2>1. PICK s, u : s = build.objects /\ u = t.objects
    BY Zenon
  <2>2. s \in Seq(DOMAIN config) /\ u = Append(s, i)
    BY <1>5, <2>1 DEF PerfShape, BuildShape
  <2>3. /\ Range(s) = {k \in 1..(i - 1) : Complete(k)}
        /\ \A a, b \in DOMAIN s : a < b => s[a] < s[b]
    BY <1>1, <2>1 DEF Measured, ObjectsKept
  <2>4. \A a \in DOMAIN s : s[a] < i
    <3>1. \A a \in DOMAIN s : s[a] \in 1..(i - 1)
      BY <2>3 DEF Range
    <3> QED
      BY <1>1, <3>1
  <2>5. /\ Range(u) = Range(s) \cup {i}
        /\ \A a, b \in DOMAIN u : a < b => u[a] < u[b]
    <3>1. PICK D : D = DOMAIN config
      BY Zenon
    <3>2. s \in Seq(D) /\ i \in D
      BY <1>1, <2>2, <3>1
    <3> QED
      BY <2>2, <2>3, <2>4, <3>2, OrderAppended, Zenon
  <2>6. Range(u) = {k \in 1..(objectAt' - 1) : Complete(k)}
    BY <1>2, <1>3, <2>3, <2>5
  <2> QED
    BY <1>1, <2>1, <2>5, <2>6, Unmoved DEF ObjectsKept
<1>12. FaultsMet'
  <2>1. Faulty(i) <=> Repeated(i, n)
    <3>1. /\ config[i].name # NoName /\ config[i].object # NoName
          /\ ~\E k \in 1..(i - 1) : config[k].name = config[i].name /\ config[k].object # NoName
      BY <1>2, <1>3 DEF Complete
    <3> QED
      BY <1>2, <3>1, Zenon DEF Faulty, Repeated
  <2>2. Repeated(inHand, counterAt - 1) <=> Repeated(i, n)
    BY <1>1, <1>2
  <2>3. build.errs > 0 <=> \/ build.refused # {}
                           \/ \E k \in 1..(i - 1) : Faulty(k)
                           \/ Faulty(i)
    BY <1>1, <2>1, <2>2 DEF Measured, FaultsMet
  <2>4. t.errs > 0 <=> t.refused # {} \/ \E k \in 1..(objectAt' - 1) : Faulty(k)
    BY <1>2, <1>5, <2>3
  <2> QED
    BY <1>1, <2>4, Unmoved DEF FaultsMet
<1> QED
  BY <1>7, <1>8, <1>9, <1>10, <1>11, <1>12 DEF Measured

\* An object whose round ends without a panic, while nothing is reported, is well named.
LEMMA KeepClean ==
  ASSUME PerfShape, Clean, NEW t, NEW i, NEW n, RoundPlaces(t, i, n), ~Unfit(build)
  PROVE  Clean'
<1>1. /\ i \in DOMAIN config /\ i = objectAt /\ i = inHand /\ i # 0 /\ config' = config
      /\ objectAt' = objectAt + 1 /\ inHand' = 0 /\ counterAt - 1 = n /\ n \in Nat
      /\ DOMAIN config[i].counters = 1..n /\ 1..(objectAt' - 1) = 1..(i - 1) \cup {i}
  BY Zenon DEF RoundPlaces
<1>2. PICK s : s = build.fields
  BY Zenon
<1>3. /\ Len(s) = n
      /\ \A j \in 1..n : s[j] = config[i].counters[j].field /\ config[i].counters[j].name # NoName
  BY <1>1, <1>2 DEF Clean
<1>4. DOMAIN s = 1..n
  <2>1. s \in Seq(FieldNames)
    BY <1>2 DEF PerfShape, BuildShape
  <2> QED
    BY <1>3, <2>1
<1>5. WellNamed(i)
  <2>1. \A j \in 1..n : s[j] # NoName
    BY <1>2, <1>4 DEF Range, Unfit
  <2>2. \A j, k \in 1..n : s[j] = s[k] => j = k
    BY <1>2, <1>4 DEF IsInjective, Unfit
  <2> QED
    BY <1>1, <1>3, <2>1, <2>2 DEF WellNamed
<1> QED
  BY <1>1, <1>5, Unmoved DEF Clean

\* The end of a round of the loop over the objects keeps the invariant.
LEMMA KeepKept == ASSUME PerfInv, NEW ok \in BOOLEAN, KeepObject(ok) PROVE PerfInv'
<1>1. PICK st, t, i, n : st = build /\ t = build' /\ i = inHand /\ n = Len(config[inHand].counters)
  BY Zenon
<1>2. /\ st.end = "no" /\ i # 0 /\ t = Keep(st, i, ok)
      /\ config' = config /\ objectAt' = objectAt + 1 /\ inHand' = 0 /\ counterAt' = 0
  BY <1>1 DEF KeepObject
<1>3. PerfShape /\ i \in DOMAIN config /\ BuildShape(st) /\ objectAt \in Nat \ {0}
  BY <1>1, <1>2 DEF PerfInv, PerfShape
<1>4. RoundLeaves(st, t, i)
  BY <1>2, <1>3, RoundEnded
<1>5. PerfShape'
  <2>1. BuildShape(build)'
    BY <1>1, <1>2, <1>4, ShapeMoves DEF RoundLeaves
  <2> QED
    BY <1>2, <1>3, <2>1 DEF PerfShape
<1>6. Silent' => Silent /\ ~Unfit(build)
  <2>1. st.errs \in Nat /\ t.errs >= st.errs /\ (Unfit(st) => t.end = "panic") /\ t.errs \in Nat
    BY <1>3, <1>4, ShapeGives DEF RoundLeaves
  <2> QED
    BY <1>1, <1>2, <2>1 DEF Silent
<1>7. InPlace => InPlace' /\ RoundPlaces(t, i, n)
  BY <1>1, <1>3, RoundInPlace
<1>8. CountersNamed => Measured'
  BY <1>3, <1>7, KeepMeasured DEF PerfInv
<1>9. Silent' => Clean'
  BY <1>3, <1>6, <1>7, KeepClean DEF PerfInv
<1> QED
  BY <1>2, <1>5, <1>6, <1>7, <1>8, <1>9, Unmoved DEF PerfInv

\* Every step of Build keeps the invariant.
LEMMA PerfKept == ASSUME PerfInv, [PerfNext]_perfVars PROVE PerfInv'
<1>1. CASE UNCHANGED perfVars
  <2>1. /\ config' = config /\ build' = build /\ objectAt' = objectAt /\ inHand' = inHand
        /\ counterAt' = counterAt
    BY <1>1 DEF perfVars
  <2>2. PerfShape' <=> PerfShape
    BY <2>1 DEF PerfShape, BuildShape, FieldNames
  <2>3. (InPlace' <=> InPlace) /\ (Silent' <=> Silent)
    BY <2>1 DEF InPlace, Silent
  <2>4. Clean' <=> Clean
    BY <2>1, Unmoved DEF Clean
  <2>5. Measured' <=> Measured
    <3>1. /\ Taken' = Taken /\ (Complete(inHand)' <=> Complete(inHand))
          /\ Repeated(inHand, counterAt - 1)' <=> Repeated(inHand, counterAt - 1)
      BY <2>1 DEF Taken, Complete, Repeated
    <3>2. (Ended' <=> Ended) /\ (NamesTaken' <=> NamesTaken)
      BY <2>1, <3>1 DEF Ended, NamesTaken
    <3>3. (ObjectsKept' <=> ObjectsKept) /\ (MetricsGiven' <=> MetricsGiven)
      BY <2>1, <3>1, Unmoved DEF ObjectsKept, MetricsGiven
    <3>4. FaultsMet' <=> FaultsMet
      BY <2>1, <3>1, Unmoved DEF FaultsMet
    <3>5. HandFit' <=> HandFit
      BY <2>1, <3>1 DEF HandFit, FieldsOf
    <3> QED
      BY <3>2, <3>3, <3>4, <3>5, Zenon DEF Measured
  <2> QED
    BY <2>1, <2>2, <2>3, <2>4, <2>5, Unmoved DEF PerfInv
<1>2. CASE TakeObject
  BY <1>2, NamelessKept, PassedKept, TakenKept DEF TakeObject
<1>3. CASE TakeCounter
  BY <1>3, CounterKept
<1>4. CASE \E ok \in BOOLEAN : KeepObject(ok)
  BY <1>4, KeepKept
<1> QED
  BY <1>1, <1>2, <1>3, <1>4 DEF PerfNext

\* When Build is over, the invariant is what was promised.
LEMMA PerfInvExact == PerfInv => ObjectsExact
<1> SUFFICES ASSUME PerfInv, BuildEnded PROVE ObjectsExact
  BY DEF ObjectsExact
<1>1. CASE CountersNamed
  <2>1. Measured /\ PerfShape
    BY <1>1 DEF PerfInv
  <2>2. CASE build.end = "error"
    <3>1. /\ inHand = 0 /\ objectAt \in DOMAIN config /\ config[objectAt].name = NoName
          /\ Taken = 1..(objectAt - 1)
      BY <2>1, <2>2 DEF Measured, Ended, Taken
    <3>2. \A k \in DOMAIN config : Complete(k) => k \in 1..(objectAt - 1)
      <4> SUFFICES ASSUME NEW k \in DOMAIN config, Complete(k), k >= objectAt PROVE FALSE
        BY <2>1 DEF PerfShape
      <4>1. objectAt \in 1..k
        BY <2>1 DEF PerfShape
      <4> QED
        BY <3>1, <4>1 DEF Complete
    <3>3. Faulty(objectAt)
      BY <3>1 DEF Faulty
    <3>4. Range(build.objects) = {k \in DOMAIN config : Complete(k)}
      <4>1. 1..(objectAt - 1) \subseteq DOMAIN config
        BY <2>1, <3>1 DEF Measured, NamesTaken
      <4> QED
        BY <2>1, <3>2, <4>1 DEF Measured, ObjectsKept
    <3>5. \A k \in Range(build.objects) : \A j \in DOMAIN config[k].counters :
            config[k].counters[j].metric \/ <<k, j>> \in build.metrics
      <4>1. \A k \in Range(build.objects) : k \in Taken /\ Complete(k) /\ k < objectAt
        BY <2>1, <3>1 DEF Measured, ObjectsKept, PerfShape
      <4> QED
        BY <2>1, <4>1, Zenon DEF Measured, MetricsGiven
    <3> QED
      BY <1>1, <2>1, <2>2, <3>1, <3>3, <3>4, <3>5 DEF ObjectsExact, Measured, ObjectsKept
  <2>3. CASE build.end # "error"
    <3>1. inHand = 0 /\ objectAt \notin DOMAIN config /\ Taken = 1..(objectAt - 1)
      BY <2>1, <2>3 DEF BuildEnded, Measured, Ended, PerfShape, BuildShape, Taken
    <3>2. 1..(objectAt - 1) = DOMAIN config
      <4>1. DOMAIN config \subseteq 1..(objectAt - 1)
        BY <2>1, <3>1 DEF PerfShape
      <4>2. 1..(objectAt - 1) \subseteq DOMAIN config
        BY <2>1, <3>1 DEF Measured, NamesTaken
      <4> QED
        BY <4>1, <4>2, Zenon
    <3>3. \A k \in Range(build.objects) : \A j \in DOMAIN config[k].counters :
            config[k].counters[j].metric \/ <<k, j>> \in build.metrics
      <4>1. \A k \in Range(build.objects) : k \in Taken /\ Complete(k) /\ k < objectAt
        BY <2>1, <3>1 DEF Measured, ObjectsKept, PerfShape
      <4> QED
        BY <2>1, <4>1, Zenon DEF Measured, MetricsGiven
    <3> QED
      <4>1. build.end # "panic" /\ Range(build.objects) = {k \in DOMAIN config : Complete(k)}
        <5>1. Ended /\ ObjectsKept
          BY <2>1 DEF Measured
        <5> QED
          BY <3>2, <5>1, Zenon DEF Ended, ObjectsKept
      <4>2. build.errs > 0 <=> build.refused # {} \/ \E k \in DOMAIN config : Faulty(k)
        <5>1. FaultsMet
          BY <2>1 DEF Measured
        <5> QED
          BY <3>1, <3>2, <5>1, Zenon DEF FaultsMet
      <4>3. \A a, b \in DOMAIN build.objects : a < b => build.objects[a] < build.objects[b]
        BY <2>1 DEF Measured, ObjectsKept
      <4> QED
        BY <1>1, <2>3, <3>3, <4>1, <4>2, <4>3 DEF ObjectsExact
  <2> QED
    BY <2>2, <2>3
<1>2. CASE ~CountersNamed
  <2> SUFFICES ASSUME Silent PROVE FALSE
    BY <1>2, ShapeGives DEF ObjectsExact, Silent, PerfInv, PerfShape
  <2>1. Clean /\ PerfShape
    BY DEF PerfInv
  <2>2. objectAt \notin DOMAIN config
    BY DEF BuildEnded, Silent
  <2>3. \A k \in DOMAIN config : WellNamed(k)
    BY <2>1, <2>2 DEF Clean, PerfShape
  <2> QED
    BY <1>2, <2>3 DEF CountersNamed, WellNamed
<1> QED
  BY <1>1, <1>2

\* For every configuration and whatever PDH refuses, Build of performancecounter measures,
\* names and reports what ObjectsExact asks for.
THEOREM ObjectsAlways == PerfSpec => []ObjectsExact
<1> QED
  BY PerfInitially, PerfKept, PerfInvExact, PTL DEF PerfSpec

-----------------------------------------------------------------------------
(* Service *)

\* An exit code in the channel is the one run returned, once main has sent it.
ChannelInv ==
  eventLog = "ok" /\ exitCodeCh # Empty =>
    mainPc \in {"finish", "exited"} /\ exitCodeCh = exitCode

\* The token main waits for is written by the service goroutine's last step.
TokenInv == finished => svcPc = "done"

IInv == ProcessTypeOK /\ ChannelInv /\ TokenInv /\ StoppedAfterMain /\ ExitAfterManager

\* IInv is an invariant of the start and stop protocol: no step of run, main,
\* Execute or the service goroutine breaks it.
THEOREM ServiceInvariance == ProcessSafety => []IInv
<1> USE DEF IInv, ProcessTypeOK, ChannelInv, TokenInv, StoppedAfterMain, ExitAfterManager, Codes, Empty
<1>1. ProcessInit => IInv
  <2> SUFFICES ASSUME ProcessInit PROVE IInv
    OBVIOUS
  <2>1. svcPc \in {"run", "off"} /\ exitCodeCh \in {2, Empty} /\ 0 \in 0..MaxControls
    BY MaxControlsAssumption, SMT DEF ProcessInit
  <2>2. eventLog = "ok" => exitCodeCh = Empty
    BY SMT DEF ProcessInit
  <2> QED
    BY <2>1, <2>2, Zenon DEF ProcessInit
<1>2. IInv /\ [ProcessNext]_processVars => IInv'
  <2> SUFFICES ASSUME IInv, [ProcessNext]_processVars PROVE IInv'
    OBVIOUS
  <2> USE DEF mainVars, svcVars, Alive
  <2>1. CASE Startup
    BY <2>1 DEF Startup, StartupFails, StartupDone
  <2>2. CASE Select
    BY <2>2 DEF Select, SelectSignal, SelectServerError, SelectStop
  <2>3. CASE Shutdown
    BY <2>3 DEF Shutdown
  <2>4. CASE SendCode
    BY <2>4 DEF SendCode
  <2>5. CASE AwaitFinished
    <3>1. svcPc = "done"
      BY <2>5 DEF AwaitFinished
    <3>2. finished' \in BOOLEAN
      BY <2>5, Zenon DEF AwaitFinished
    <3>3. ProcessTypeOK'
      BY <2>5, <3>2 DEF AwaitFinished
    <3>4. TokenInv'
      BY <3>1, <2>5, Zenon DEF AwaitFinished
    <3>5. ChannelInv' /\ StoppedAfterMain'
      BY <2>5 DEF AwaitFinished
    <3>6. ExitAfterManager'
      BY <2>5, <3>1 DEF AwaitFinished
    <3> QED
      BY <3>3, <3>4, <3>5, <3>6
  <2>6. CASE Run
    BY <2>6 DEF Run, RunFails, RunExecutes
  <2>7. CASE Execute
    BY <2>7 DEF Execute, ExecuteCode, ExecuteWait
  <2>8. CASE ExecuteOther
    BY <2>8, MaxControlsAssumption DEF ExecuteOther
  <2>9. CASE ExecuteStop
    BY <2>9, MaxControlsAssumption DEF ExecuteStop
  <2>10. CASE RunReturns
    BY <2>10 DEF RunReturns
  <2>11. CASE Finish
    BY <2>11 DEF Finish
  <2>12. CASE UNCHANGED processVars
    BY <2>12 DEF processVars
  <2> QED
    BY <2>1, <2>2, <2>3, <2>4, <2>5, <2>6, <2>7, <2>8, <2>9, <2>10, <2>11, <2>12, Zenon DEF ProcessNext
<1> QED
  BY <1>1, <1>2, PTL DEF ProcessSafety

\* With a working event log the service manager learns that the service stopped, and
\* with which code, only from an exit code run has returned; and a service process ends
\* only after svc.Run has returned.
THEOREM ServiceEndsInOrder == ProcessSafety => []EndsInOrder
BY ServiceInvariance, PTL DEF IInv, EndsInOrder
==============================================================================
