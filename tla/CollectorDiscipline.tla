------------------------- MODULE CollectorDiscipline -------------------------
(***************************************************************************)
(* The rules by which the methods of the collectors are written, as        *)
(* conditions on their texts: where a failing call may stand, what follows *)
(* what, what is closed under which condition.  They are what              *)
(* CollectorLifecycle's properties rest on whatever fails and whichever    *)
(* sub-collectors are enabled (CollectorLifecycleProofs); the assumptions  *)
(* state that every collector of the collection follows them but for the   *)
(* known exceptions.                                                       *)
(***************************************************************************)
EXTENDS CollectorLifecycle

\* The places of the steps in a method, and their order.
Places(code) == UNION {{[block |-> b, step |-> s] : s \in DOMAIN code[b].steps} : b \in DOMAIN code}
StepAt(code, q) == code[q.block].steps[q.step]
StepsWith(code, ops) == {q \in Places(code) : StepAt(code, q).op \in ops}
Before(p, q) == p.block < q.block \/ (p.block = q.block /\ p.step < q.step)

Opening == {"pdh", "pdhAny", "open", "start"}
Reading == {"use", "query"}
Getting == {"get", "each"}
Failing == Opening \cup Reading \cup {"check", "validate"}

\* When the step at p fails the one at q is passed over.
Skips(code, p, q) ==
  /\ Before(p, q) /\ StepAt(code, p).op \in Failing
  /\ p.block = q.block \/ code[p.block].err # "join"

\* The same in Build, when the collector may be used all the same: the error of the
\* program's own with which Build returns is never tolerated.
Abandons(code, p, q) ==
  /\ Skips(code, p, q)
  /\ ~(code[p.block].err = "return" /\ StepAt(code, p).op \in {"start", "validate"} \cup Reading)

-----------------------------------------------------------------------------
IsCode(code) ==
  /\ code \in Seq(Range(code))
  /\ \A b \in DOMAIN code : /\ code[b].steps \in Seq(Range(code[b].steps))
                            /\ code[b].err \in {"return", "join", "log"}

\* Build opens and registers, Collect and Close never do; Build uses no descriptor.  The
\* name under which Build registers a sub-collector is the condition it is built under,
\* or one that nothing in Build depends on.
WellFormed(p) ==
  /\ IsCode(p.build) /\ IsCode(p.close) /\ p.collect \in Seq(Range(p.collect))
  /\ \A t \in DOMAIN p.collect : /\ IsCode(p.collect[t].code)
                                 /\ StepsWith(p.collect[t].code, Opening \cup {"fn", "shut"}) = {}
  /\ StepsWith(p.build, Getting \cup {"shut", "ask", "await"}) = {}
  /\ StepsWith(p.close, Opening \cup {"fn", "ask", "await"}) = {}
  /\ \A q \in StepsWith(p.build, {"fn"}) :
       \/ StepAt(p.build, q).when = StepAt(p.build, q).arg
       \/ \A z \in Places(p.build) : StepAt(p.build, z).when # StepAt(p.build, q).arg
  /\ p.spawn \in BOOLEAN /\ p.perFn \in BOOLEAN /\ p.errCap \in Nat

\* Close shuts what Build opened under the same condition or under none, and nothing
\* that can fail comes first.
ClosesAll(p, known) == \A q \in StepsWith(p.build, Opening) :
  \/ StepAt(p.build, q).arg \in known
  \/ /\ StepAt(p.build, q).op # "pdhAny"
     /\ \E z \in StepsWith(p.close, {"shut"}) :
          /\ StepAt(p.close, z).arg = StepAt(p.build, q).arg
          /\ StepAt(p.close, z).when \in {"", StepAt(p.build, q).when}
          /\ \A x \in Places(p.close) : ~Skips(p.close, x, z)

\* No step whose failure is not joined comes before a read.
ReadsApart(p, known) == \A t \in DOMAIN p.collect : \A q \in StepsWith(p.collect[t].code, Reading) :
  \/ StepAt(p.collect[t].code, q).arg \in known
  \/ \A x \in Places(p.collect[t].code) : ~Skips(p.collect[t].code, x, q)

\* A goroutine only waits for one that does not wait itself, that is started with it, and
\* the channel of errors has room for one of each that may have one.
MayReport(p) == {t \in DOMAIN p.collect : \E b \in DOMAIN p.collect[t].code : p.collect[t].code[b].err # "log"}
ReturnsAlways(p) ==
  /\ \A t \in DOMAIN p.collect :
       /\ StepsWith(p.collect[t].code, {"ask"}) = {}
       /\ \A q \in StepsWith(p.collect[t].code, {"await"}) :
            LET u == StepAt(p.collect[t].code, q).arg
            IN  /\ p.spawn /\ u \in DOMAIN p.collect /\ p.collect[u].fn \in {"", p.collect[t].fn}
                /\ StepsWith(p.collect[u].code, {"await"}) = {}
  /\ p.spawn => IF p.perFn THEN \A t, u \in DOMAIN p.collect :
                                  /\ p.collect[t].fn # ""
                                  /\ p.collect[t].fn = p.collect[u].fn => t = u
                           ELSE Cardinality(MayReport(p)) <= p.errCap

\* The fields of group f are assigned under condition w, whatever fails, or Build's error
\* is not tolerated.
AssignsAlways(build, f, w) == \E z \in StepsWith(build, {"set"}) :
  /\ StepAt(build, z).arg = f /\ StepAt(build, z).when \in {"", w}
  /\ \A x \in Places(build) : ~Abandons(build, x, z)

\* They are assigned once h has been registered: before it, in the same block, or after it.
AssignsWith(build, f, h) == \A y \in StepsWith(build, {"fn"}) : StepAt(build, y).arg = h =>
  \E z \in StepsWith(build, {"set"}) :
    /\ StepAt(build, z).arg = f /\ StepAt(build, z).when \in {"", StepAt(build, y).when}
    /\ \/ z.block = y.block /\ z.step < y.step
       \/ Before(y, z) /\ \A x \in Places(build) : Before(y, x) => ~Abandons(build, x, z)

DescribesFirst(p) == \A t \in DOMAIN p.collect : \A q \in StepsWith(p.collect[t].code, Getting) :
  LET st == StepAt(p.collect[t].code, q)
  IN  \/ AssignsAlways(p.build, st.arg, st.when)
      \/ p.collect[t].fn # "" /\ AssignsWith(p.build, st.arg, p.collect[t].fn)
      \/ st.when # "" /\ st.when \notin p.conds /\ AssignsWith(p.build, st.arg, st.when)

-----------------------------------------------------------------------------
ASSUME WellFormedAssumption == \A n \in Collectors : WellFormed(Program(n))
ASSUME ClosesAssumption == \A n \in Collectors : ClosesAll(Program(n), Known(LeavesOpen, n))
ASSUME ReadsAssumption == \A n \in Collectors : ReadsApart(Program(n), Known(StopsEarly, n))
ASSUME ReturnsAssumption == \A n \in Collectors \ Waits : ReturnsAlways(Program(n))
ASSUME DescribesAssumption == \A n \in Collectors :
  /\ n \in (IF Program(n).spawn THEN Unclosable ELSE Unready) \/ DescribesFirst(Program(n))
  /\ n \in Unclosable \/ StepsWith(Program(n).close, Getting) = {}
=============================================================================
