---------------------------- MODULE PerfObjects -----------------------------
(***************************************************************************)
(* Build of the performancecounter collector: which of the configured      *)
(* objects are measured, and what a faulty entry does to the others, one   *)
(* step for each round of its two loops.  The configuration is a sequence  *)
(* of objects                                                              *)
(*     [name, object, counters : sequence of [name, field, metric]]        *)
(* in which "" stands for a missing name; field is the counter's name made *)
(* a Go field name ("" if that cannot be one), metric whether the file     *)
(* names the metric.                                                       *)
(***************************************************************************)
EXTENDS Naturals, Sequences, Functions

CONSTANT ObjectLists   \* the configurations

ASSUME ObjectListsAssumption ==
  \A cfg \in ObjectLists :
    /\ Len(cfg) \in Nat /\ DOMAIN cfg = 1..Len(cfg)
    /\ \A i \in DOMAIN cfg : /\ Len(cfg[i].counters) \in Nat
                             /\ DOMAIN cfg[i].counters = 1..Len(cfg[i].counters)

VARIABLES config,     \* c.config.Objects as Build finds it
          build,      \* what Build has: see BuildStart
          objectAt,   \* i, the place of the object the outer loop is at
          inHand,     \* the object read from that place when its turn came, or 0
          counterAt   \* j, the counter the inner loop is at

perfVars == <<config, build, objectAt, inHand, counterAt>>

NoName == ""

\* arr and len are c.config.Objects: the places hold the number of an object, 0 the zeroed
\* one.  Objects that move keep their array of counters.
BuildStart(cfg) ==
  /\ config = cfg /\ objectAt = 1 /\ inHand = 0 /\ counterAt = 0
  /\ build = [arr |-> [i \in DOMAIN cfg |-> i], len |-> Len(cfg), names |-> {}, objects |-> <<>>,
              counters |-> {}, fields |-> <<>>, metrics |-> {}, errs |-> 0, refused |-> {},
              end |-> "no"]

PerfInit == \E cfg \in ObjectLists : BuildStart(cfg)

Zeroed == [name |-> NoName, object |-> NoName, counters |-> <<>>]
ObjectIn(st, i) == IF st.arr[i] = 0 THEN Zeroed ELSE config[st.arr[i]]

Fail(st)  == [st EXCEPT !.errs = @ + 1]
Panic(st) == [st EXCEPT !.end = "panic"]

\* c.config.Objects[i].Counters[j].Metric = ...: the object now in place i, which need
\* not be the one the loop has in hand.
SetMetric(st, i, j) ==
  IF i > st.len \/ j > Len(ObjectIn(st, i).counters) THEN Panic(st)
  ELSE [st EXCEPT !.metrics = @ \cup {<<st.arr[i], j>>}]

\* c.config.Objects = slices.Delete(c.config.Objects, i, 1), with i as Go counts: the
\* first object goes, for the second nothing happens, any other index panics.
DeleteObject(st, i) ==
  CASE i > 2 \/ st.len = 0 -> Panic(st)
    [] i = 2 /\ st.len > 0 -> st
    [] i = 1 /\ st.len > 0 ->
         [st EXCEPT !.len = @ - 1,
                    !.arr = [k \in DOMAIN @ |-> CASE k < st.len -> @[k + 1]
                                                  [] k = st.len -> 0
                                                  [] OTHER      -> @[k]]]

\* Counter c, at j, of the object that place i held when its turn came.
VisitCounter(st, i, c, j) ==
  LET s1 == IF c.metric THEN st ELSE SetMetric(st, i, j)
  IN CASE s1.end # "no"                  -> s1
       [] s1.end = "no" /\ c.name = NoName   -> DeleteObject(Fail(s1), i)
       [] s1.end = "no" /\ c.name # NoName /\ c.name \in s1.counters -> Fail(s1)
       [] OTHER -> [s1 EXCEPT !.counters = @ \cup {c.name}, !.fields = Append(@, c.field)]

\* A bug this could have: a repeated name is not noticed.
MutPassedOver(obj) == obj.object = NoName

PassedOver(obj) == obj.object = NoName \/ obj.name \in build.names

\* The beginning of a round: an object without a name ends Build, one without an object or
\* with a name that was there before is passed over.
TakeObject ==
  LET obj == ObjectIn(build, objectAt)
  IN /\ build.end = "no" /\ inHand = 0 /\ objectAt \in DOMAIN config
     /\ \/ /\ obj.name = NoName
           /\ build' = [build EXCEPT !.end = "error"]
           /\ UNCHANGED <<objectAt, inHand, counterAt>>
        \/ /\ obj.name # NoName /\ PassedOver(obj)
           /\ build' = Fail(build) /\ objectAt' = objectAt + 1
           /\ UNCHANGED <<inHand, counterAt>>
        \/ /\ obj.name # NoName /\ ~PassedOver(obj)
           /\ build' = [build EXCEPT !.names = @ \cup {obj.name}, !.counters = {}, !.fields = <<>>]
           /\ inHand' = build.arr[objectAt] /\ counterAt' = 1 /\ UNCHANGED objectAt
     /\ UNCHANGED config

TakeCounter ==
  /\ build.end = "no" /\ inHand # 0 /\ counterAt \in DOMAIN config[inHand].counters
  /\ build' = VisitCounter(build, objectAt, config[inHand].counters[counterAt], counterAt)
  /\ counterAt' = counterAt + 1 /\ UNCHANGED <<config, objectAt, inHand>>

\* reflect.StructOf panics for these fields.
Unfit(st) == ~IsInjective(st.fields) \/ NoName \in Range(st.fields)

\* An error of pdh.NewCollectorWithReflection (ok is FALSE) is reported and the object kept
\* all the same.
Keep(st, i, ok) ==
  LET kept == [st EXCEPT !.objects = Append(@, i)]
  IN CASE Unfit(st)         -> Panic(st)
       [] ~Unfit(st) /\ ok  -> kept
       [] ~Unfit(st) /\ ~ok -> [Fail(kept) EXCEPT !.refused = @ \cup {i}]

\* The end of a round.
KeepObject(ok) ==
  /\ build.end = "no" /\ inHand # 0 /\ counterAt \notin DOMAIN config[inHand].counters
  /\ build' = Keep(build, inHand, ok)
  /\ objectAt' = objectAt + 1 /\ inHand' = 0 /\ counterAt' = 0 /\ UNCHANGED config

PerfNext == TakeObject \/ TakeCounter \/ (\E ok \in BOOLEAN : KeepObject(ok))

PerfSpec == PerfInit /\ [][PerfNext]_perfVars

-----------------------------------------------------------------------------
\* Build is over.
BuildEnded == build.end # "no" \/ (inHand = 0 /\ objectAt \notin DOMAIN config)

\* Every counter has a name that makes a field, and no two of an object make the same.
CountersNamed ==
  \A i \in DOMAIN config : LET cs == config[i].counters IN
     /\ \A j \in DOMAIN cs : cs[j].name # NoName /\ cs[j].field # NoName
     /\ \A j, k \in DOMAIN cs : cs[j].field = cs[k].field => cs[j].name = cs[k].name

\* Object i has a name, as all before it, an object, and is the first such with its name.
Complete(i) ==
  /\ \A k \in 1..i : config[k].name # NoName
  /\ config[i].object # NoName
  /\ \A k \in 1..(i - 1) : config[k].object # NoName => config[k].name # config[i].name

\* Something is missing in object i, its name was there before, or a counter's was.
Faulty(i) ==
  \/ config[i].name = NoName \/ config[i].object = NoName
  \/ \E k \in 1..(i - 1) : config[k].name = config[i].name /\ config[k].object # NoName
  \/ \E j, k \in DOMAIN config[i].counters :
       j # k /\ config[i].counters[j].name = config[i].counters[k].name

\* Build of performancecounter measures the objects that are complete and the first of
\* their name, in their order and with a metric name for each counter, and reports a fault
\* exactly when there is one or PDH refuses an object; only a counter without a name or
\* whose name makes no field, and two that make one field, let it panic, and then a fault
\* is reported or Build does not return.
ObjectsExact ==
  BuildEnded =>
    IF CountersNamed
    THEN /\ build.end # "panic"
         /\ Range(build.objects) = {i \in DOMAIN config : Complete(i)}
         /\ \A a, b \in DOMAIN build.objects : a < b => build.objects[a] < build.objects[b]
         /\ \A i \in Range(build.objects) : \A j \in DOMAIN config[i].counters :
              config[i].counters[j].metric \/ <<i, j>> \in build.metrics
         /\ (build.errs > 0 \/ build.end = "error") <=>
              (build.refused # {} \/ \E i \in DOMAIN config : Faulty(i))
    ELSE build.errs > 0 \/ build.end # "no"
=============================================================================
