------------------------------ MODULE PdhRows -------------------------------
(***************************************************************************)
(* The body of collectWorkerRaw (internal/pdh): how the worker turns the   *)
(* arrays PDH answers with into the rows of the caller's slice.  Module    *)
(* PdhCollector has the worker's protocol; here is what it computes.       *)
(*                                                                         *)
(* One Collect is a sequence of answers, in the order in which the worker  *)
(* meets counters and instances (a map's, so any):                         *)
(*     [counter, ret : "ok", "known", "empty" or "error",                  *)
(*      items : sequence of [name, valid, first, second]],                 *)
(* a counter is [id, type : "plain", "elapsed" or "ticks", freq, second].  *)
(* "known" is a data error the code tolerates, by which PDH leaves buffer  *)
(* and count as they are; "empty" one by which it sets the count to 0.     *)
(***************************************************************************)
EXTENDS Integers, Sequences, SequencesExt

CONSTANTS NameLen,   \* instance name -> its length in the buffer
          Totals,    \* the names that end in _Total
          NoNames,   \* the names "" and "*"
          TicksPerSecond

ItemSize == 2

\* PDH writes the items and then their names, one after the other.
Offset(items, i) ==
  LET before == {k \in DOMAIN items : k < i}
  IN Len(items) * ItemSize + FoldLeft(LAMBDA n, k : n + NameLen[items[k].name], 0, SetToSeq(before))

BytesNeeded(items) == Offset(items, Len(items) + 1)

\* The loop around GetRawCounterArray: a buffer too small is replaced, one that is large
\* enough is written over from its start.  SzName is an address, <<buffer, offset>>.
GetRawCounterArray(w, answer) ==
  LET fits == BytesNeeded(answer.items) <= w.cap
      buf  == IF fits THEN w.buf ELSE w.buf + 1
  IN CASE answer.ret = "ok" ->
            [w EXCEPT !.buf = buf, !.cap = IF fits THEN @ ELSE BytesNeeded(answer.items),
                      !.items = [i \in DOMAIN answer.items |->
                                   [at |-> <<buf, Offset(answer.items, i)>>] @@ answer.items[i]]]
       [] answer.ret = "known" -> w
       [] answer.ret = "empty" -> [w EXCEPT !.items = <<>>]
       [] answer.ret = "error" -> [w EXCEPT !.end = "error"]

\* The row of an instance gets its MetricType from the counter that comes first.
NewRow(name, counter) == [name |-> name, type |-> counter.type, val |-> <<>>]

\* Integer division as in the code; the panic of a zero Frequency ends the process, for
\* nothing recovers in the worker.
ValuesOf(counter, item) ==
  CASE counter.type = "elapsed" ->
         (<<counter.id, "value">> :> ((item.second - item.first) \div counter.freq))
    [] counter.type = "ticks" -> (<<counter.id, "value">> :> <<item.first, TicksPerSecond>>)
    [] OTHER -> (<<counter.id, "value">> :> item.first)
                  @@ (IF counter.second THEN <<counter.id, "second">> :> item.second ELSE <<>>)

\* The name of an instance in its row.
Shown(name) == IF name \in NoNames THEN "------" ELSE name

\* One item.  Names are looked up by the address they have in the buffer.
VisitItem(w, counter, item) ==
  LET known == item.at \in DOMAIN w.strings
      read  == IF known THEN w.strings[item.at] ELSE item.name
      w1    == [w EXCEPT !.strings = IF known THEN @ ELSE (item.at :> read) @@ @]
      name  == Shown(read)
      found == SelectInSeq(w.rows, LAMBDA r : r.name = name)
      w2    == IF found # 0 THEN w1 ELSE [w1 EXCEPT !.rows = Append(@, NewRow(name, counter))]
      index == IF found # 0 THEN found ELSE Len(w2.rows)
  IN CASE w.end # "no" \/ ~item.valid -> w
       [] read \in Totals /\ ~w.totalCounterRequested -> w1
       [] counter.type = "elapsed" /\ counter.freq = 0 -> [w2 EXCEPT !.end = "panic"]
       [] OTHER -> [w2 EXCEPT !.rows[index].val = ValuesOf(counter, item) @@ @]

VisitAnswer(w, answer) ==
  LET w1 == GetRawCounterArray(w, answer)
  IN IF w.end # "no" THEN w
     ELSE IF w1.end # "no" THEN w1
     ELSE FoldLeft(LAMBDA s, item : VisitItem(s, answer.counter, item), w1, w1.items)

\* A bug this could have: the names of one Collect are still used in the next.
MutStartCollect(w) == [w EXCEPT !.rows = <<>>, !.end = "no"]

\* The slice and the maps are new in each Collect; buffer and count are the worker's.
StartCollect(w) == [w EXCEPT !.rows = <<>>, !.strings = <<>>, !.end = "no"]

\* total: whether the collector was made for the instance _Total too.
NewWorker(total) ==
  [buf |-> 1, cap |-> 1, items |-> <<>>, rows |-> <<>>, strings |-> <<>>, end |-> "no",
   totalCounterRequested |-> total]

CollectWorkerRaw(w, answers) ==
  LET w1 == FoldLeft(VisitAnswer, StartCollect(w), answers)
  IN IF w1.end = "no" /\ w1.rows = <<>> THEN [w1 EXCEPT !.end = "nodata"] ELSE w1

-----------------------------------------------------------------------------
\* The array the worker reads after each answer.
Arrays(w, answers) ==
  [i \in DOMAIN answers |-> FoldLeft(GetRawCounterArray, w, SubSeq(answers, 1, i)).items]

\* The counters read from the array before, which a tolerated error has left in place.
Leftover(w, answers) ==
  {answers[i].counter.id : i \in {k \in DOMAIN answers : answers[k].ret = "known" /\ Arrays(w, answers)[k] # <<>>}}

\* The instances whose name shares its address with another one: both arrays were written to
\* one buffer.
Recycled(w, answers) ==
  LET arrays == Arrays(w, answers)
      items  == UNION {{arrays[i][j] : j \in DOMAIN arrays[i]} : i \in DOMAIN arrays}
  IN {Shown(x.name) : x \in {y \in items : \E z \in items : /\ y.valid /\ z.valid
                                                             /\ y.at = z.at /\ y.name # z.name}}

\* The items that belong in a row, with their counters.
Wanted(w, answers) ==
  LET all == FlattenSeq([i \in DOMAIN answers |->
               IF answers[i].ret # "ok" THEN <<>>
               ELSE [j \in DOMAIN answers[i].items |-> <<answers[i].counter, answers[i].items[j]>>]])
  IN SelectSeq(all, LAMBDA p : p[2].valid /\ (p[2].name \in Totals => w.totalCounterRequested))

\* What the row of an instance should hold: of each counter the last value.
OwnValues(w, answers, name) ==
  FoldLeft(LAMBDA v, p : ValuesOf(p[1], p[2]) @@ v, <<>>,
           SelectSeq(Wanted(w, answers), LAMBDA p : Shown(p[2].name) = name))

\* The instances that should have a row.
Instances(w, answers) == {Shown(p[2].name) : p \in ToSet(Wanted(w, answers))}

\* The values of a row that are not those of the counters in ids.
Without(val, ids) == [k \in {d \in DOMAIN val : d[1] \notin ids} |-> val[k]]
=============================================================================
