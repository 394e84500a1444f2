---------------------------- MODULE MCConversions ---------------------------
(***************************************************************************)
(* What the program computes.  A behaviour takes one task: an algorithm    *)
(* and one input.  PerfObjects, TextFiles, MiRows and Configuration run    *)
(* round by round; what PdhRows and RegistryRows compute is one step here, *)
(* which the properties compare with what it should be.  The seventh task  *)
(* are the running totals of cpu, as CpuCounters has them.                 *)
(***************************************************************************)
EXTENDS CpuCounters, PerfObjects, MCTextFiles, MiRows, Configuration, SequencesExt

VARIABLES task, input, output, done

conversion == <<task, input, output, done>>

Pdh  == INSTANCE PdhRows WITH NameLen <- [n \in {"a", "bb", "c", "*", "", "_Total", "0,_Total"} |->
                                            CASE n = "" -> 0 [] n \in {"bb", "0,_Total"} -> 2 [] OTHER -> 1],
                              Totals <- {"_Total", "0,_Total"}, NoNames <- {"", "*"}, TicksPerSecond <- 10
Reg  == INSTANCE RegistryRows WITH Word <- 4, Object <- "Process", Total <- "_Total",
                                   NoName <- "", Epoch <- 1, Wanted <- {"t", "v"}, TicksPerSecond <- 10

-----------------------------------------------------------------------------
(* Inputs *)

PerfCounter(n) == [name |-> n, metric |-> n = "e",
                   field |-> CASE n \in {"c", "d"} -> "C"   \* c and d become one field
                               [] n = "1"         -> ""    \* no field begins with a digit
                               [] OTHER           -> n]
PerfLists == {<<>>, <<"1">>, <<"c">>, <<"e">>, <<"">>, <<"c", "d">>, <<"c", "c">>, <<"", "c">>}
PerfObject(n, o, l) == [name |-> n, object |-> o, counters |-> [j \in DOMAIN l |-> PerfCounter(l[j])]]
PerfInputs ==
  BoundedSeq({PerfObject(n, "o", l) : n \in {"p", "q"}, l \in PerfLists}
               \cup {PerfObject("", "o", <<"e">>), PerfObject("r", "", <<"c">>)}, 3)

PdhCounter(id, t, f) == [id |-> id, type |-> t, freq |-> f, second |-> id = 1]
PdhCounters == {PdhCounter(1, "plain", 0), PdhCounter(2, "elapsed", 2), PdhCounter(3, "elapsed", 0),
                PdhCounter(4, "ticks", 0)}
PdhItems(names, v) == [i \in DOMAIN names |->
                         [name |-> names[i], valid |-> names[i] # "c", first |-> v + i, second |-> v + 4]]
PdhAnswer(c, ret, names, v) == [counter |-> c, ret |-> ret, items |-> PdhItems(names, v)]
PdhLists == {<<>>, <<"a">>, <<"_Total">>, <<"bb">>, <<"a", "bb">>, <<"bb", "a">>, <<"", "0,_Total">>,
             <<"c", "a", "*">>}
PdhInputs ==  \* two Collects: one array, then the arrays of two counters or of two instances of one
  {<< total,
      <<PdhAnswer(PdhCounter(1, "plain", 0), "ok", l, 1)>>,
      <<PdhAnswer(c, "ok", m, 2), PdhAnswer(d, r, n, 5)>> >> :
     l \in PdhLists, m \in PdhLists, n \in PdhLists, c \in PdhCounters, d \in PdhCounters,
     r \in {"ok", "known", "empty", "error"}, total \in BOOLEAN}

RegDefs == {<<>>} \cup {<<[name |-> "t", type |-> "elapsed", wide |-> TRUE, base |-> FALSE, nano |-> FALSE],
                          [name |-> v[1], type |-> v[2], wide |-> w, base |-> b, nano |-> n]>> :
                        v \in {<<"v", "plain">>, <<"v", "ticks">>, <<"other", "plain">>},
                        w \in BOOLEAN, b \in BOOLEAN, n \in BOOLEAN}
RegLists == {<<"">>, <<"_Total">>, <<"a">>, <<"a", "_Total", "b">>, <<"a", "a">>}
RegObject(n, u, defs, names) ==
  [name |-> n, freq |-> 2, unnamed |-> u, defs |-> defs,
   instances |-> [i \in DOMAIN names |-> [name |-> names[i], values |-> [k \in DOMAIN defs |-> 4 * k + i]]]]
RegObjects == {RegObject("Process", FALSE, d, l) : d \in RegDefs, l \in RegLists}
                \cup {RegObject(n, TRUE, d, <<"">>) : n \in {"Process", "Other"}, d \in RegDefs}
                \cup {RegObject("Other", FALSE, d, <<"b", "c">>) : d \in RegDefs}
RegInputs == {<<o>> : o \in RegObjects} \cup {<<>>}
               \cup {<<o, p>> : o \in {q \in RegObjects : q.name = "Other"}, p \in RegObjects}

MiDeliveries ==
  {[kind |-> "row", more |-> m, val |-> [f |-> x, g |-> y]] :
     m \in BOOLEAN, x \in {1, 2, 7, 8, 9}, y \in {1, 7}}
    \cup {[kind |-> k, more |-> FALSE, val |-> [f |-> 9, g |-> 9]] : k \in {"nil", "empty", "error"}}

ConfFlags ==
  (<<"config", "file">> :> "") @@ (<<"collectors", "enabled">> :> "defaults")
    @@ (<<"log", "level">> :> "info")
ConfigFileFlag == <<"config", "file">>
ConfSuffixed == {"--config.file", "-config.file", "my-config.file", "--config.file=my-config.file",
                 "--log.level=my-config.file"}
ConfFiles ==
  ("good.yml" :> [known |-> TRUE, doc |-> "collectors" :> ("enabled" :> "cpu")])
    @@ ("bad.yml" :> [known |-> FALSE, doc |-> <<>>])
    @@ ("empty.yml" :> [known |-> TRUE, doc |-> <<>>])
    @@ ("my-config.file" :> [known |-> TRUE, doc |-> "collectors" :> ("enabled" :> "net")])
Eq(d, n, v, t) == [kind |-> "eq", dashes |-> d, name |-> n, value |-> v, text |-> t]
Flag(d, n, t)  == [kind |-> "flag", dashes |-> d, name |-> n, text |-> t]
Word(v)        == [kind |-> "word", value |-> v, text |-> v]
ConfArgs ==
  {Eq(2, ConfigFileFlag, p, "--config.file=") : p \in {"good.yml", "bad.yml", "empty.yml", "none.yml", ""}}
    \cup {Eq(2, ConfigFileFlag, "my-config.file", "--config.file=my-config.file"),
          Eq(1, ConfigFileFlag, "good.yml", "-config.file="),
          Flag(2, ConfigFileFlag, "--config.file"), Flag(1, ConfigFileFlag, "-config.file"),
          Word("good.yml"), Word("my-config.file"),
          Eq(2, <<"collectors", "enabled">>, "dns", "--collectors.enabled="),
          Flag(2, <<"log", "level">>, "--log.level"),
          Eq(2, <<"log", "level">>, "my-config.file", "--log.level=my-config.file"),
          Eq(2, <<"no", "flag">>, "dns", "--no.flag=")}
ConfInputs == BoundedSeq(ConfArgs, 3)

-----------------------------------------------------------------------------
(* One task per behaviour *)

\* The tasks that take one step.
ConversionInit ==
  \/ task = "pdh"  /\ input \in PdhInputs
  \/ task = "reg"  /\ input \in RegInputs \X {<<>>, <<"earlier">>}
  \/ task \in {"cpu", "perf", "text", "mi", "conf"} /\ input = <<>>

\* A component starts in a state of its own specification if it is the task, and in one
\* that it will not leave otherwise.
TaskInit ==
  /\ output = <<>> /\ done = FALSE /\ ConversionInit
  /\ Init /\ (task # "cpu" => hw = Zero)
  /\ IF task = "perf" THEN PerfInit ELSE BuildStart(<<>>)
  /\ IF task = "text" THEN TextInit ELSE TextStart(<<>>)
  /\ IF task = "mi"   THEN MiInit   ELSE MiStart("Unmarshal")
  /\ IF task = "conf" THEN ConfInit ELSE ConfStart(<<>>)

Compute(t, result) ==
  /\ task = t /\ ~done /\ done' = TRUE /\ output' = result
  /\ UNCHANGED <<task, input, vars, perfVars, textVars, miVars, confVars>>

CollectPdh       == LET w == Pdh!CollectWorkerRaw(Pdh!NewWorker(input[1]), input[2])
                    IN Compute("pdh", <<w, Pdh!CollectWorkerRaw(w, input[3])>>)
CollectRegistry  == Compute("reg", Reg!Collect(input[2], Reg!Encode(input[1]), Len(input[1])))

CountCycles ==
  task = "cpu" /\ Next /\ UNCHANGED <<conversion, perfVars, textVars, miVars, confVars>>
BuildObjects ==
  task = "perf" /\ PerfNext /\ UNCHANGED <<conversion, vars, textVars, miVars, confVars>>
CollectFiles ==
  task = "text" /\ TextNext /\ UNCHANGED <<conversion, vars, perfVars, miVars, confVars>>
QueryMi ==
  task = "mi" /\ MiNext /\ UNCHANGED <<conversion, vars, perfVars, textVars, confVars>>
ParseSettings ==
  task = "conf" /\ ConfNext /\ UNCHANGED <<conversion, vars, perfVars, textVars, miVars>>

TaskNext == \/ CollectPdh \/ CollectRegistry \/ CountCycles \/ BuildObjects
            \/ CollectFiles \/ QueryMi \/ ParseSettings

TaskSpec ==
  TaskInit /\ [][TaskNext]_<<conversion, vars, perfVars, textVars, miVars, confVars>>

After(t) == done /\ task = t

-----------------------------------------------------------------------------
(* Properties *)

\* What one Collect of the PDH worker w leaves.
PdhExact(w, answers, out) ==
  LET insts   == Pdh!Instances(w, answers)
      blurred == Pdh!Recycled(w, answers)
      stale   == Pdh!Leftover(w, answers)
      named(n) == {i \in DOMAIN out.rows : out.rows[i].name = n}
  IN /\ out.end = "error" => \E i \in DOMAIN answers : answers[i].ret = "error"
     /\ out.end = "panic" => \E i \in DOMAIN answers : answers[i].counter.type = "elapsed"
                                                       /\ answers[i].counter.freq = 0
     /\ out.end = "nodata" => insts \subseteq blurred
     /\ out.end = "no" =>
          /\ \A i \in DOMAIN out.rows : /\ Cardinality(named(out.rows[i].name)) = 1
                                        /\ stale = {} => out.rows[i].name \in insts
          /\ \A n \in insts \ blurred : \E i \in named(n) :
               Pdh!Without(out.rows[i].val, stale) = Pdh!Without(Pdh!OwnValues(w, answers, n), stale)

\* The PDH worker gives every instance, and _Total if it was asked for, one row with its own
\* values of this Collect, and reports no data only when there is none.  Two things blur
\* that, and no other row and no other counter than theirs: two names at one address of the
\* buffer, and a tolerated error that leaves the array of another counter in it.  The worker
\* panics only for an elapsed-time counter without a time base.
PdhRowsOwn ==
  After("pdh") =>
    /\ PdhExact(Pdh!NewWorker(input[1]), input[2], output[1])
    /\ PdhExact(output[1], input[3], output[2])

\* The registry reader finds the wanted object in the block and gives each of its instances
\* a row with its values; if the object is not there, the rows of the Collect before stay.
RegistryRowsFresh ==
  After("reg") =>
    IF \E i \in DOMAIN input[1] : input[1][i].name = "Process"
    THEN output = Reg!Rows(input[1]) ELSE output = input[2]
=============================================================================
