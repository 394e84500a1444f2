--------------------------- MODULE CollectorSteps ---------------------------
(***************************************************************************)
(* The vocabulary in which the Build, Collect and Close methods of the     *)
(* collectors in internal/collector are written down: what a method does   *)
(* to the collector's fields and to the operating system's resources, in   *)
(* its order, with what each error leads to.  Metric values, labels and    *)
(* texts are left out.  CollectorLifecycle gives the steps their meaning.  *)
(***************************************************************************)
EXTENDS Sequences

\* A step is taken when its condition "when" holds: a sub-collector is enabled, the
\* host is of some kind, or an entry was appended in Build; "" is always.
Do(op, arg) == [op |-> op, arg |-> arg, when |-> ""]
Only(cond, step) == [step EXCEPT !.when = cond]
When(cond, steps) == <<>> \o [i \in DOMAIN steps |-> Only(cond, steps[i])]

Pdh(q)      == Do("pdh", q)      \* c.q, err = pdh.NewCollector(...)
PdhAny(q)   == Do("pdhAny", q)   \* the same with counters taken from the configuration
Open(h)     == Do("open", h)     \* a handle: open, or nil and an error
Start(w)    == Do("start", w)    \* a worker goroutine: running, or ended with an error of its own
Check(x)    == Do("check", x)    \* a call that may fail and leaves nothing behind
Validate(x) == Do("validate", x) \* a configuration check: only errors of the program's own
Set(f)      == Do("set", f)      \* assigns the fields of group f (descriptors, mostly)
Fn(f)       == Do("fn", f)       \* appends f to collectorFns
Use(r)      == Do("use", r)      \* reads performance data
Query(f)    == Do("query", f)    \* runs the WMI query of field group f on its session
Ask(w)      == Do("ask", w)      \* sends a request to worker w and waits for the answer
Get(f)      == Do("get", f)      \* uses a field of group f, as MustNewConstMetric does
Each(f)     == Do("each", f)     \* the same for each row, of which there may be none
Shut(r)     == Do("shut", r)     \* closes a query, a handle, a worker
Await(t)    == Do("await", t)    \* goes on when goroutine t has finished

\* A block is abandoned at its first error.  The method then returns the error,
\* joins it to the others and goes on with the next block, or only logs it.
Returning(steps) == [steps |-> steps, err |-> "return"]
Joining(steps)   == [steps |-> steps, err |-> "join"]
Logging(steps)   == [steps |-> steps, err |-> "log"]

\* A goroutine of Collect; fn is the entry of collectorFns it runs, "" one that
\* is started whatever collectorFns holds.
Thread(fn, code) == [fn |-> fn, code |-> code]

\* A collector whose Collect runs in the goroutine it is called in.
Inline(conds, build, collect, close) ==
  [conds |-> conds, build |-> build, collect |-> <<Thread("", collect)>>,
   close |-> close, spawn |-> FALSE, errCap |-> 0, perFn |-> FALSE, under |-> <<>>]

\* A collector whose Collect starts a goroutine per thread, waits for them all and
\* only then reads the errors they have put into a channel of capacity errCap, or
\* one with room for an error of each entry of collectorFns.
Spawning(conds, build, threads, close, errCap) ==
  [conds |-> conds, build |-> build, collect |-> threads,
   close |-> close, spawn |-> TRUE, errCap |-> errCap, perFn |-> FALSE, under |-> <<>>]
RunningFns(conds, build, threads, close) ==
  [conds |-> conds, build |-> build, collect |-> threads,
   close |-> close, spawn |-> TRUE, errCap |-> 0, perFn |-> TRUE, under |-> <<>>]

\* Conditions that the code only looks at when cond holds.
Under(cond, inner, prog) ==
  [prog EXCEPT !.conds = @ \cup inner, !.under = [k \in inner |-> cond]]

\* The commonest shapes: one performance object n whose descriptors are made
\* before its query (or after it), and the loop over its rows.
DescribeThenOpen(n) == <<Set(n), Pdh(n)>>
OpenThenDescribe(n) == <<Pdh(n), Set(n)>>
ReadRows(n)         == <<Use(n), Each(n)>>
ReadFirst(n)        == <<Use(n), Get(n)>>
Nothing             == <<>>
=============================================================================
