----------------------------- MODULE CpuCounters -----------------------------
(***************************************************************************)
(* The running totals of the cpu collector: a hardware counter of 32 bits  *)
(* per core, read by each Collect, made into an ever growing total by      *)
(* utils.Counter.  Calls of Collect overlap when an earlier one has timed  *)
(* out; c.mu is held from before the reading to the end.                   *)
(***************************************************************************)
EXTENDS Integers

CONSTANTS Cores, Calls,
          NoCall,   \* nobody holds c.mu
          M,        \* 2^32
          MaxCount  \* bound: how far the hardware counts

ASSUME MAssumption == M \in Nat \ {0}
ASSUME NoCallAssumption == NoCall \notin Calls

VARIABLES hw,     \* core -> what the hardware has counted, without wrapping
          holder, \* the call that holds c.mu
          call,   \* call -> where its Collect is
          snap,   \* call -> core -> uint32 read
          truth,  \* call -> core -> what hw was then
          todo,   \* call -> cores of this reading still to be handled
          known,  \* cores with an entry in c.processorRTCValues
          lastValue, totalValue, \* core -> fields of its Counter
          base, seen, \* core -> what hw was at the first and at the last reading
          late    \* cores that counted M or more between two readings

vars == <<hw, holder, call, snap, truth, todo, known, lastValue, totalValue, base, seen, late>>

Zero == [core \in Cores |-> 0]

Init ==
  /\ hw \in [Cores -> {n \in 0..M : n <= MaxCount}]
  /\ holder = NoCall /\ call = [k \in Calls |-> "idle"]
  /\ snap = [k \in Calls |-> Zero] /\ truth = [k \in Calls |-> Zero]
  /\ todo = [k \in Calls |-> {}] /\ known = {} /\ late = {}
  /\ lastValue = Zero /\ totalValue = Zero /\ base = Zero /\ seen = Zero

Count(core) ==
  /\ hw[core] < MaxCount
  /\ hw' = [hw EXCEPT ![core] = @ + 1]
  /\ UNCHANGED <<holder, call, snap, truth, todo, known, lastValue, totalValue, base, seen, late>>

\* Mutant: the mutex is not there.
CollectNoLock(k) ==
  /\ call[k] = "idle"
  /\ holder' = k /\ call' = [call EXCEPT ![k] = "read"]
  /\ UNCHANGED <<hw, snap, truth, todo, known, lastValue, totalValue, base, seen, late>>

Collect(k) ==
  /\ call[k] = "idle" /\ holder = NoCall
  /\ holder' = k /\ call' = [call EXCEPT ![k] = "read"]
  /\ UNCHANGED <<hw, snap, truth, todo, known, lastValue, totalValue, base, seen, late>>

\* The reading lists any of the cores, or fails and lists none.
CollectRead(k) ==
  /\ call[k] = "read"
  /\ \E cs \in SUBSET Cores : todo' = [todo EXCEPT ![k] = cs]
  /\ snap' = [snap EXCEPT ![k] = [core \in Cores |-> hw[core] % M]]
  /\ truth' = [truth EXCEPT ![k] = hw]
  /\ call' = [call EXCEPT ![k] = "update"]
  /\ UNCHANGED <<hw, holder, known, lastValue, totalValue, base, seen, late>>

\* Mutant: the difference is taken in a wider type.
SubWide(value, last) == value - last

\* value - c.lastValue in uint32.
Sub(value, last) == (value - last) % M

\* AddValue for a core that has an entry.
AddValue(k, core) ==
  /\ call[k] = "update" /\ core \in todo[k] /\ core \in known
  /\ totalValue' = [totalValue EXCEPT ![core] = @ + Sub(snap[k][core], lastValue[core])]
  /\ lastValue' = [lastValue EXCEPT ![core] = snap[k][core]]
  /\ seen' = [seen EXCEPT ![core] = truth[k][core]]
  /\ late' = late \cup (IF truth[k][core] - seen[core] >= M THEN {core} ELSE {})
  /\ todo' = [todo EXCEPT ![k] = @ \ {core}]
  /\ UNCHANGED <<hw, holder, call, snap, truth, known, base>>

\* NewCounter for one that has none.
NewCounter(k, core) ==
  /\ call[k] = "update" /\ core \in todo[k] /\ core \notin known
  /\ totalValue' = [totalValue EXCEPT ![core] = 0]
  /\ lastValue' = [lastValue EXCEPT ![core] = snap[k][core]]
  /\ seen' = [seen EXCEPT ![core] = truth[k][core]]
  /\ base' = [base EXCEPT ![core] = truth[k][core]]
  /\ known' = known \cup {core}
  /\ todo' = [todo EXCEPT ![k] = @ \ {core}]
  /\ UNCHANGED <<hw, holder, call, snap, truth, late>>

CollectReturn(k) ==
  /\ call[k] = "update" /\ todo[k] = {}
  /\ holder' = NoCall /\ call' = [call EXCEPT ![k] = "idle"]
  /\ snap' = [snap EXCEPT ![k] = Zero] /\ truth' = [truth EXCEPT ![k] = Zero]
  /\ UNCHANGED <<hw, todo, known, lastValue, totalValue, base, seen, late>>

Next ==
  \/ \E core \in Cores : Count(core)
  \/ \E k \in Calls : \/ Collect(k) \/ CollectRead(k) \/ CollectReturn(k)
                      \/ \E core \in Cores : AddValue(k, core) \/ NewCounter(k, core)
Spec == Init /\ [][Next]_vars

\* The total of a core is exactly what its hardware counter has counted between the
\* first reading and the last, across wraps and overlapping calls of Collect, as long as
\* it never counts 2^32 or more between two readings.
TotalExact == \A core \in known \ late : totalValue[core] = seen[core] - base[core]

\* The exported counter never goes down, however late the readings are.
TotalGrows == [][\A core \in known : totalValue'[core] >= totalValue[core]]_vars
=============================================================================
