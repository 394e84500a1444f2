------------------------- MODULE CollectorDataProofs -------------------------
(***************************************************************************)
(* What two collectors keep from one Collect to the next is reported right *)
(* under any interleaving of overlapping calls: the totals of the wrapping *)
(* counters of cpu, and the list of services, for any services and any     *)
(* size of the buffer they are read into.                                  *)
(***************************************************************************)
EXTENDS CpuCounters, ServiceList, FiniteSetTheorems, TLAPS

-----------------------------------------------------------------------------
(* cpu *)

LEMMA DivMod ==
  ASSUME NEW a \in Int
  PROVE  a % M \in 0..(M - 1) /\ a = M * (a \div M) + (a % M) /\ (a \div M) \in Int
  BY MAssumption

\* The difference of two readings in M-valued arithmetic is what was counted between
\* them, when that is less than M.
LEMMA SubExact ==
  ASSUME NEW g \in Nat, NEW r \in Nat, r <= g, g - r < M
  PROVE  Sub(g % M, r % M) = g - r
  <1> DEFINE a == g % M
             b == r % M
             p == g \div M
             q == r \div M
  <1>1. a \in 0..(M - 1) /\ g = M * p + a /\ p \in Int
    BY DivMod
  <1>2. b \in 0..(M - 1) /\ r = M * q + b /\ q \in Int
    BY DivMod
  <1> HIDE DEF a, b, p, q
  <1>3. M * (p - q) = (g - r) - (a - b)
    BY <1>1, <1>2, MAssumption
  <1>4. p - q = 0 \/ p - q = 1
    BY <1>1, <1>2, <1>3, MAssumption
  <1>5. g - r = a - b \/ g - r = M + (a - b)
    BY <1>1, <1>2, <1>3, <1>4, MAssumption
  <1>6. (a - b) % M = g - r
    BY <1>1, <1>2, <1>5, MAssumption
  <1>7. QED
    BY <1>6 DEF a, b, Sub

LEMMA SubNat == ASSUME NEW v \in Int, NEW w \in Int PROVE Sub(v, w) \in Nat
  BY MAssumption DEF Sub

Types ==
  /\ hw \in [Cores -> Nat] /\ base \in [Cores -> Nat] /\ seen \in [Cores -> Nat]
  /\ lastValue \in [Cores -> Int] /\ totalValue \in [Cores -> Int]
  /\ snap \in [Calls -> [Cores -> Int]] /\ truth \in [Calls -> [Cores -> Nat]]
  /\ call \in [Calls -> {"idle", "read", "update"}]
  /\ todo \in [Calls -> SUBSET Cores]
  /\ known \subseteq Cores /\ late \subseteq Cores

\* Only the call that holds the mutex is past the lock.
Locked == \A k \in Calls : call[k] # "idle" => holder = k

\* A Counter holds the last reading; the hardware has not gone back since.
Remembers == \A core \in known :
  lastValue[core] = seen[core] % M /\ seen[core] <= hw[core]

\* A reading under way is not older than the last one handled.
Fresh == \A k \in Calls : call[k] = "update" => \A core \in Cores :
  /\ snap[k][core] = truth[k][core] % M
  /\ truth[k][core] <= hw[core]
  /\ core \in todo[k] /\ core \in known => seen[core] <= truth[k][core]

IInv == Types /\ Locked /\ Remembers /\ Fresh /\ TotalExact

LEMMA InitIInv == Init => IInv
  BY MAssumption DEF Init, IInv, Types, Locked, Remembers, Fresh, TotalExact, Zero

LEMMA CountIInv == ASSUME IInv, NEW c \in Cores, Count(c) PROVE IInv'
  BY DEF IInv, Types, Locked, Remembers, Fresh, TotalExact, Count

LEMMA CollectIInv == ASSUME IInv, NEW k \in Calls, Collect(k) PROVE IInv'
  <1>1. Types'
    BY DEF IInv, Types, Collect
  <1>2. Locked'
    BY NoCallAssumption DEF IInv, Types, Locked, Collect
  <1>3. Remembers' /\ TotalExact'
    BY DEF IInv, Types, Remembers, TotalExact, Collect
  <1>4. Fresh'
    BY DEF IInv, Types, Fresh, Collect
  <1>5. QED
    BY <1>1, <1>2, <1>3, <1>4 DEF IInv

LEMMA ReadIInv == ASSUME IInv, NEW k \in Calls, CollectRead(k) PROVE IInv'
  <1>1. [core \in Cores |-> hw[core] % M] \in [Cores -> Int]
    BY DivMod DEF IInv, Types
  <1>2. Types'
    BY <1>1 DEF IInv, Types, CollectRead
  <1>3. Locked'
    BY DEF IInv, Types, Locked, CollectRead
  <1>4. Remembers' /\ TotalExact'
    BY DEF IInv, Types, Remembers, TotalExact, CollectRead
  <1>5. Fresh'
    BY <1>2 DEF IInv, Types, Fresh, Remembers, CollectRead
  <1>6. QED
    BY <1>2, <1>3, <1>4, <1>5 DEF IInv

\* What AddValue adds is never negative.
LEMMA AddedNat ==
  ASSUME IInv, NEW k \in Calls, NEW c \in Cores
  PROVE  Sub(snap[k][c], lastValue[c]) \in Nat
  <1>1. snap[k] \in [Cores -> Int]
    BY DEF IInv, Types
  <1>2. snap[k][c] \in Int
    BY <1>1
  <1>3. lastValue[c] \in Int
    BY DEF IInv, Types
  <1>4. QED
    BY <1>2, <1>3, SubNat

LEMMA AddIInv == ASSUME IInv, NEW k \in Calls, NEW c \in Cores, AddValue(k, c) PROVE IInv'
  <1>1. Sub(snap[k][c], lastValue[c]) \in Nat
    BY AddedNat
  <1>2. Types'
    BY <1>1 DEF IInv, Types, AddValue
  <1>3. Locked'
    BY DEF IInv, Types, Locked, AddValue
  <1>4. Remembers'
    BY DEF IInv, Types, Fresh, Remembers, AddValue
  <1>5. Fresh'
    <2>1. \A j \in Calls : call[j] = "update" => j = k
      BY DEF IInv, Locked, AddValue
    <2>2. QED
      BY <2>1 DEF IInv, Types, Fresh, AddValue
  <1>6. TotalExact'
    <2>1. ASSUME c \notin late' PROVE totalValue'[c] = seen'[c] - base'[c]
      <3>1. truth[k][c] - seen[c] < M /\ c \notin late
        BY <2>1, MAssumption DEF IInv, Types, AddValue
      <3>2. /\ seen[c] \in Nat /\ truth[k][c] \in Nat /\ seen[c] <= truth[k][c]
            /\ snap[k][c] = truth[k][c] % M /\ lastValue[c] = seen[c] % M
        BY DEF IInv, Types, Fresh, Remembers, AddValue
      <3>3. Sub(snap[k][c], lastValue[c]) = truth[k][c] - seen[c]
        BY <3>1, <3>2, SubExact
      <3>4. totalValue[c] = seen[c] - base[c]
        BY <3>1 DEF IInv, TotalExact, AddValue
      <3>5. QED
        BY <3>2, <3>3, <3>4 DEF IInv, Types, AddValue
    <2>2. QED
      BY <2>1 DEF IInv, Types, TotalExact, AddValue
  <1>7. QED
    BY <1>2, <1>3, <1>4, <1>5, <1>6 DEF IInv

LEMMA NewIInv == ASSUME IInv, NEW k \in Calls, NEW c \in Cores, NewCounter(k, c) PROVE IInv'
  <1>1. Types'
    BY DEF IInv, Types, NewCounter
  <1>2. Locked'
    BY DEF IInv, Types, Locked, NewCounter
  <1>3. Remembers' /\ TotalExact'
    BY DEF IInv, Types, Fresh, Remembers, TotalExact, NewCounter
  <1>4. Fresh'
    <2>1. \A j \in Calls : call[j] = "update" => j = k
      BY DEF IInv, Locked, NewCounter
    <2>2. QED
      BY <2>1 DEF IInv, Types, Fresh, NewCounter
  <1>5. QED
    BY <1>1, <1>2, <1>3, <1>4 DEF IInv

LEMMA ReturnIInv == ASSUME IInv, NEW k \in Calls, CollectReturn(k) PROVE IInv'
  <1>1. Types'
    BY DEF IInv, Types, CollectReturn, Zero
  <1>2. Locked'
    BY DEF IInv, Types, Locked, CollectReturn
  <1>3. Remembers' /\ TotalExact'
    BY DEF IInv, Types, Remembers, TotalExact, CollectReturn
  <1>4. Fresh'
    BY DEF IInv, Types, Fresh, CollectReturn
  <1>5. QED
    BY <1>1, <1>2, <1>3, <1>4 DEF IInv

LEMMA NextIInv == IInv /\ [Next]_vars => IInv'
  <1>1. ASSUME IInv, UNCHANGED vars PROVE IInv'
    BY <1>1 DEF IInv, vars, Types, Locked, Remembers, Fresh, TotalExact
  <1>2. QED
    BY <1>1, CountIInv, CollectIInv, ReadIInv, AddIInv, NewIInv, ReturnIInv DEF Next

\* For any number of cores, any overlap of Collect calls and any counter width, the
\* totals utils.Counter keeps are exact as long as no counter wraps between readings.
THEOREM CpuTotalExact == Spec => []TotalExact
  <1>1. IInv => TotalExact
    BY DEF IInv
  <1>2. QED
    BY <1>1, InitIInv, NextIInv, PTL DEF Spec

\* And they never decrease, even when a counter did wrap unseen.
THEOREM CpuTotalGrows == Spec => TotalGrows
  <1> DEFINE Grows == \A core \in known : totalValue'[core] >= totalValue[core]
  <1>1. ASSUME IInv, [Next]_vars PROVE Grows \/ UNCHANGED vars
    <2>1. ASSUME NEW k \in Calls, NEW c \in Cores, AddValue(k, c) PROVE Grows
      <3>1. Sub(snap[k][c], lastValue[c]) \in Nat
        BY <1>1, AddedNat
      <3>2. QED
        BY <1>1, <2>1, <3>1 DEF IInv, Types, AddValue
    <2>2. ASSUME NEW k \in Calls, NEW c \in Cores, NewCounter(k, c) PROVE Grows
      BY <1>1, <2>2 DEF IInv, Types, NewCounter
    <2>3. ASSUME UNCHANGED totalValue PROVE Grows
      BY <1>1, <2>3 DEF IInv, Types
    <2>4. QED
      BY <1>1, <2>1, <2>2, <2>3 DEF Next, Count, Collect, CollectRead, CollectReturn
  <1>2. QED
    BY <1>1, InitIInv, NextIInv, PTL DEF Spec, TotalGrows

-----------------------------------------------------------------------------
(* service *)

States == {"none", "absent", "running", "stopped"}
Entry == [name : Services \cup {""}, state : States]
Item == [at : Nat, state : States, done : BOOLEAN]

\* Buffers are never freed or shortened, and a slice lies in one of them.
ListShape ==
  /\ state \in [Services -> States]
  /\ bufs \in Seq(Seq(Entry)) /\ buffer \in 1..Len(bufs)
  /\ need \in [Collects -> Nat] /\ DOMAIN pc = Collects /\ DOMAIN view = Collects
  /\ DOMAIN items = Collects /\ DOMAIN taken = Collects /\ DOMAIN answer = Collects
  /\ \A k \in Collects : pc[k] = "push" => view[k] \in 1..Len(bufs)

Pair(e) == <<e.name, e.state>>

\* The first entries of a buffer are the answer of the SCM to a call, and no more.
Holds(k, b) ==
  /\ need[k] <= Len(bufs[b])
  /\ \A i \in 1..need[k] : bufs[b][i].name # "" /\ Pair(bufs[b][i]) \in answer[k]
  /\ \A p \in answer[k] : \E i \in 1..need[k] : p = Pair(bufs[b][i])

\* What the workers of a call have been given and have done with it.
Copied(k) ==
  /\ items[k] \in Seq(Item) /\ Len(items[k]) <= need[k]
  /\ \A i \in 1..Len(items[k]) :
       LET e == bufs[view[k]][i]
       IN /\ items[k][i].at = i /\ items[k][i].state = e.state
          /\ items[k][i].done /\ e.name \in Included => Pair(e) \in taken[k]

\* A call that no other disturbs.
ListOf(k) ==
  /\ pc[k] \in {"idle", "enum", "grow", "slice", "push", "returned"}
  /\ pc[k] \in {"idle", "enum", "grow"} => taken[k] = {} /\ answer[k] = {} /\ items[k] = <<>>
  /\ pc[k] = "slice" => taken[k] = {} /\ items[k] = <<>> /\ Holds(k, buffer)
  /\ pc[k] = "push" => taken[k] \subseteq answer[k] /\ Holds(k, view[k]) /\ Copied(k)
  /\ pc[k] = "returned" => /\ taken[k] \subseteq answer[k]
                           /\ \A p \in answer[k] : p[1] \in Included => p \in taken[k]

\* The inductive invariant: the entries a call has still to read are the answer it got.
ListInv == ListShape /\ \A k \in Collects \ disturbed : ListOf(k)

LEMMA FunctionIsSeq ==
  ASSUME NEW T, NEW n \in Nat, NEW f \in [1..n -> T]
  PROVE  f \in Seq(T) /\ Len(f) = n /\ DOMAIN f = 1..n
OBVIOUS

LEMMA ElementIsIn == ASSUME NEW T, NEW s \in Seq(T), NEW i \in 1..Len(s) PROVE s[i] \in T
OBVIOUS

LEMMA ExceptIsSeq ==
  ASSUME NEW T, NEW s \in Seq(T), NEW i \in 1..Len(s), NEW v \in T
  PROVE  /\ [s EXCEPT ![i] = v] \in Seq(T) /\ Len([s EXCEPT ![i] = v]) = Len(s)
         /\ [s EXCEPT ![i] = v][i] = v
         /\ \A j \in 1..Len(s) : j # i => [s EXCEPT ![i] = v][j] = s[j]
OBVIOUS

LEMMA AppendIsSeq ==
  ASSUME NEW T, NEW s \in Seq(T), NEW v \in T
  PROVE  /\ Append(s, v) \in Seq(T) /\ Len(s) \in Nat /\ Len(Append(s, v)) = Len(s) + 1
         /\ Append(s, v)[Len(s) + 1] = v
         /\ \A j \in 1..Len(s) : Append(s, v)[j] = s[j]
OBVIOUS

LEMMA ListInitially == ListInit => ListInv
<1> SUFFICES ASSUME ListInit PROVE ListInv
  OBVIOUS
<1> DEFINE blank == [i \in 1..InitialSize |-> Blank]
<1>1. blank \in Seq(Entry)
  <2>1. Blank \in Entry
    BY DEF Blank, Entry, States
  <2> QED
    BY <2>1, ServicesAssumption, FunctionIsSeq, Zenon
<1>2. bufs \in Seq(Seq(Entry)) /\ Len(bufs) = 1
  <2>1. bufs = <<blank>>
    BY DEF ListInit
  <2> HIDE DEF blank
  <2> QED
    BY <1>1, <2>1
<1>3. ListShape
  BY <1>2 DEF ListInit, ListShape, States
<1>4. \A k \in Collects : ListOf(k)
  BY DEF ListInit, ListOf
<1> QED
  BY <1>3, <1>4 DEF ListInv

LEMMA ChosenIsIn == ASSUME NEW T, T # {} PROVE (CHOOSE x \in T : TRUE) \in T
OBVIOUS

\* The enumeration names every service there is, and no other.
LEMMA ListingIsInstalled ==
  ASSUME ListShape
  PROVE  /\ Len(Listing) \in Nat /\ Listing \in Seq(Installed)
         /\ \A i \in 1..Len(Listing) : Listing[i] \in Installed
         /\ \A s \in Installed : \E i \in 1..Len(Listing) : Listing[i] = s
<1> DEFINE n == Cardinality(Installed)
<1>1. Installed \subseteq Services
  BY DEF Installed
<1>2. IsFiniteSet(Installed)
  BY <1>1, FS_Subset, ServicesAssumption, Zenon
<1>3. n \in Nat /\ ExistsBijection(1..n, Installed)
  BY <1>2, FS_CardinalityType
<1>4. Bijection(1..n, Installed) # {}
  BY <1>3 DEF ExistsBijection, Bijection, Injection, Surjection, IsInjective,
              Bijection, Injection, Surjection, IsInjective
<1>5. Listing \in Bijection(1..n, Installed)
  <2> DEFINE B == Bijection(1..n, Installed)
  <2>1. Listing = CHOOSE l \in B : TRUE
    BY DEF Listing, Cardinality, Cardinality
  <2>2. B # {}
    BY <1>4
  <2> HIDE DEF B
  <2>3. Listing \in B
    BY <2>1, <2>2, ChosenIsIn
  <2> QED
    BY <2>3 DEF B
<1>6. Listing \in [1..n -> Installed] /\ \A s \in Installed : \E i \in 1..n : Listing[i] = s
  BY <1>5 DEF Bijection, Injection, Surjection
<1> QED
  BY <1>3, <1>6, FunctionIsSeq

\* The buffer keeps its size, and its first entries are those of the enumeration.
LEMMA FillsBuffer ==
  ASSUME ListShape, NEW b \in Seq(Entry)
  PROVE  /\ Fill(b) \in Seq(Entry) /\ Len(Fill(b)) = Len(b)
         /\ \A i \in 1..Len(b) : i <= Len(Listing) =>
              Fill(b)[i] = [name |-> Listing[i], state |-> state[Listing[i]]]
<1>1. Len(b) \in Nat /\ DOMAIN b = 1..Len(b)
  OBVIOUS
<1>2. ASSUME NEW i \in 1..Len(b)
      PROVE  Fill(b)[i] \in Entry
  <2>1. CASE i <= Len(Listing)
    <3>1. Listing[i] \in Services
      BY <2>1, ListingIsInstalled DEF Installed
    <3>2. state[Listing[i]] \in States
      BY <3>1 DEF ListShape
    <3> QED
      BY <3>1, <3>2, <2>1, <1>1, Zenon DEF Fill, Entry
  <2>2. CASE ~(i <= Len(Listing))
    BY <2>2, <1>1 DEF Fill
  <2> QED
    BY <2>1, <2>2
<1>3. Fill(b) \in [1..Len(b) -> Entry]
  BY <1>1, <1>2 DEF Fill
<1>4. Fill(b) \in Seq(Entry) /\ Len(Fill(b)) = Len(b)
  BY <1>1, <1>3, FunctionIsSeq
<1> QED
  BY <1>1, <1>4 DEF Fill

\* A call is where it was when nothing it has still to read has changed.
LEMMA ListOfKept ==
  ASSUME NEW k \in Collects, ListOf(k),
         pc'[k] = pc[k], need'[k] = need[k], view'[k] = view[k],
         items'[k] = items[k], taken'[k] = taken[k], answer'[k] = answer[k],
         pc[k] = "slice" => buffer' = buffer /\ bufs'[buffer] = bufs[buffer],
         pc[k] = "push" => bufs'[view[k]] = bufs[view[k]]
  PROVE  ListOf(k)'
<1>1. CASE pc[k] = "slice"
  BY <1>1, Zenon DEF ListOf, Holds
<1>2. CASE pc[k] = "push"
  <2>1. Holds(k, view[k])'
    BY <1>2, Zenon DEF ListOf, Holds
  <2>2. Copied(k)'
    BY <1>2 DEF ListOf, Copied
  <2> QED
    BY <1>2, <2>1, <2>2, Zenon DEF ListOf
<1>3. CASE pc[k] \notin {"slice", "push"}
  BY <1>3, Zenon DEF ListOf
<1> QED
  BY <1>1, <1>2, <1>3

\* What a call that reads its slice undisturbed has before it.
LEMMA Reading ==
  ASSUME ListInv, NEW k \in Collects \ disturbed, pc[k] = "push"
  PROVE  /\ Holds(k, view[k]) /\ Copied(k) /\ taken[k] \subseteq answer[k]
         /\ need[k] \in Nat /\ bufs[view[k]] \in Seq(Entry)
<1>1. Holds(k, view[k]) /\ Copied(k) /\ taken[k] \subseteq answer[k]
  BY Zenon DEF ListInv, ListOf
<1>2. need[k] \in Nat /\ view[k] \in 1..Len(bufs) /\ bufs \in Seq(Seq(Entry))
  BY DEF ListInv, ListShape
<1> QED
  BY <1>1, <1>2, ElementIsIn

LEMMA ChangeKept ==
  ASSUME ListInv, NEW s \in Services, Change(s)
  PROVE  ListInv'
<1>1. ListShape'
  BY Zenon DEF ListInv, ListShape, Change, progress, States
<1>2. ASSUME NEW k \in Collects \ disturbed'
      PROVE  ListOf(k)'
  BY ListOfKept DEF ListInv, Change, progress
<1> QED
  BY <1>1, <1>2 DEF ListInv

LEMMA ClearKept ==
  ASSUME ListInv, NEW k \in Collects, Clear(k)
  PROVE  ListInv'
<1> DEFINE blank == [i \in DOMAIN bufs[buffer] |-> Blank]
<1>0. bufs[buffer] \in Seq(Entry) /\ Len(bufs[buffer]) \in Nat
  BY DEF ListInv, ListShape
<1>1. blank \in Seq(Entry)
  <2>1. Blank \in Entry
    BY DEF Blank, Entry, States
  <2>2. blank \in [1..Len(bufs[buffer]) -> Entry]
    BY <1>0, <2>1
  <2> QED
    BY <1>0, <2>2, FunctionIsSeq, Zenon
<1>2. bufs' = [bufs EXCEPT ![buffer] = blank]
  BY DEF Clear
<1> HIDE DEF blank
<1>3. ListShape'
  <2>1. bufs' \in Seq(Seq(Entry)) /\ Len(bufs') = Len(bufs)
    BY <1>1, <1>2, ExceptIsSeq DEF ListInv, ListShape
  <2> QED
    BY <2>1 DEF ListInv, ListShape, Clear, progress
<1>4. ASSUME NEW j \in Collects \ disturbed'
      PROVE  ListOf(j)'
  <2>1. j \in Collects \ disturbed
    BY DEF Clear
  <2>2. CASE j = k
    BY <2>1, <2>2 DEF ListInv, ListShape, ListOf, Clear, progress
  <2>3. CASE j # k
    <3>1. pc[j] # "slice" /\ (pc[j] = "push" => view[j] # buffer)
      BY <2>1, <2>3 DEF Clear, Readers
    <3> QED
      BY <2>1, <2>3, <3>1, <1>2, ListOfKept DEF ListInv, ListShape, Clear, progress
  <2> QED
    BY <2>2, <2>3
<1> QED
  BY <1>3, <1>4 DEF ListInv

LEMMA EnumerateKept ==
  ASSUME ListInv, NEW k \in Collects, Enumerate(k)
  PROVE  ListInv'
<1> DEFINE filled == Fill(bufs[buffer])
<1>1. bufs[buffer] \in Seq(Entry) /\ ListShape
  <2>1. ListShape /\ bufs \in Seq(Seq(Entry)) /\ buffer \in 1..Len(bufs)
    BY Zenon DEF ListInv, ListShape
  <2> QED
    BY <2>1, ElementIsIn, Zenon
<1>2. filled \in Seq(Entry) /\ Len(filled) = Len(bufs[buffer])
  BY <1>1, FillsBuffer, Zenon
<1>3. CASE /\ bufs' = [bufs EXCEPT ![buffer] = filled]
           /\ disturbed' = disturbed \cup Readers(k)
           /\ need' = [need EXCEPT ![k] = Len(Listing)]
           /\ IF Len(Listing) <= Len(bufs[buffer])
              THEN /\ pc' = [pc EXCEPT ![k] = "slice"]
                   /\ answer' = [answer EXCEPT ![k] = {<<s, state[s]>> : s \in Installed}]
              ELSE pc' = [pc EXCEPT ![k] = "grow"] /\ UNCHANGED answer
  <2> HIDE DEF filled
  <2>a. /\ UNCHANGED <<state, buffer, view, items, taken>>
        /\ pc[k] = "enum" /\ bufs \in Seq(Seq(Entry)) /\ buffer \in 1..Len(bufs)
    BY <1>1 DEF Enumerate, ListShape
  <2>b. /\ bufs' \in Seq(Seq(Entry)) /\ Len(bufs') = Len(bufs) /\ bufs'[buffer] = filled
        /\ \A b \in 1..Len(bufs) : b # buffer => bufs'[b] = bufs[b]
    <3>1. bufs' = [bufs EXCEPT ![buffer] = filled]
      BY <1>3, Zenon
    <3> QED
      BY <3>1, <1>2, <2>a, ExceptIsSeq
  <2>c. DOMAIN pc = Collects /\ DOMAIN answer = Collects /\ need \in [Collects -> Nat]
    BY <1>1 DEF ListShape
  <2>d. /\ DOMAIN pc' = Collects /\ DOMAIN answer' = Collects
        /\ \A j \in Collects \ {k} : pc'[j] = pc[j] /\ answer'[j] = answer[j] /\ need'[j] = need[j]
        /\ pc'[k] \in {"slice", "grow"} /\ need'[k] = Len(Listing)
    BY <1>3, <2>c
  <2>1. ListShape'
    <3>1. Len(Listing) \in Nat
      BY <1>1, ListingIsInstalled
    <3>2. need' \in [Collects -> Nat]
      BY <1>3, <2>c, <3>1
    <3>3. \A j \in Collects : pc'[j] = "push" => view'[j] \in 1..Len(bufs')
      BY <1>1, <2>a, <2>b, <2>d DEF ListShape
    <3> QED
      BY <1>1, <2>a, <2>b, <2>d, <3>2, <3>3 DEF ListShape
  <2>2. ASSUME NEW j \in Collects \ disturbed', j # k
        PROVE  ListOf(j)'
    <3>1. j \in Collects \ disturbed /\ pc[j] # "slice" /\ (pc[j] = "push" => view[j] # buffer)
      BY <1>3, <2>2 DEF Readers
    <3>2. ListOf(j) /\ (pc[j] = "push" => view[j] \in 1..Len(bufs))
      BY <3>1, <1>1 DEF ListInv, ListShape
    <3> QED
      BY <2>2, <2>a, <2>b, <2>d, <3>1, <3>2, ListOfKept
  <2>3. ASSUME k \notin disturbed'
        PROVE  ListOf(k)'
    <3>1. taken'[k] = {} /\ answer[k] = {} /\ items'[k] = <<>>
      <4>1. k \in Collects \ disturbed
        BY <1>3, <2>3
      <4>2. ListOf(k)
        BY <4>1 DEF ListInv
      <4> QED
        BY <4>2, <2>a DEF ListOf
    <3>2. CASE Len(Listing) <= Len(bufs[buffer])
      <4>1. bufs'[buffer] = filled /\ need'[k] = Len(Listing) /\ buffer' = buffer
        BY <2>a, <2>b, <2>d
      <4>2. answer'[k] = {<<s, state[s]>> : s \in Installed} /\ pc'[k] = "slice"
        BY <1>3, <3>2, <2>c
      <4>3. \A i \in 1..Len(Listing) :
              /\ filled[i].name = Listing[i] /\ filled[i].state = state[Listing[i]]
              /\ Listing[i] \in Installed
        <5> SUFFICES ASSUME NEW i \in 1..Len(Listing)
                     PROVE  /\ filled[i].name = Listing[i] /\ filled[i].state = state[Listing[i]]
                            /\ Listing[i] \in Installed
          OBVIOUS
        <5>1. i \in 1..Len(bufs[buffer]) /\ i <= Len(Listing) /\ Listing[i] \in Installed
          <6>1. Len(Listing) \in Nat /\ Listing[i] \in Installed
            BY <1>1, ListingIsInstalled
          <6>2. Len(bufs[buffer]) \in Nat
            BY <1>1
          <6> QED
            BY <3>2, <6>1, <6>2
        <5>2. filled[i] = [name |-> Listing[i], state |-> state[Listing[i]]]
          BY <1>1, <5>1, FillsBuffer DEF filled
        <5> QED
          BY <5>1, <5>2
      <4>4. \A i \in 1..Len(Listing) : filled[i].name # ""
        <5> SUFFICES ASSUME NEW i \in 1..Len(Listing) PROVE filled[i].name # ""
          OBVIOUS
        <5>1. filled[i].name = Listing[i] /\ Listing[i] \in Installed
          BY <4>3
        <5>2. "" \notin Installed
          BY ServicesAssumption DEF Installed
        <5> QED
          BY <5>1, <5>2
      <4>5. \A i \in 1..Len(Listing) : Pair(filled[i]) \in answer'[k]
        BY <4>2, <4>3 DEF Pair
      <4>6. \A p \in answer'[k] : \E i \in 1..Len(Listing) : p = Pair(filled[i])
        <5> SUFFICES ASSUME NEW s \in Installed
                     PROVE  \E i \in 1..Len(Listing) : <<s, state[s]>> = Pair(filled[i])
          BY <4>2
        <5>1. PICK i \in 1..Len(Listing) : Listing[i] = s
          BY <1>1, ListingIsInstalled
        <5> QED
          BY <5>1, <4>3 DEF Pair
      <4>7. Holds(k, buffer)'
        BY <4>1, <4>4, <4>5, <4>6, <1>2, <3>2, Zenon DEF Holds
      <4> QED
        BY <4>2, <4>7, <3>1, Zenon DEF ListOf
    <3>3. CASE ~(Len(Listing) <= Len(bufs[buffer]))
      <4>1. pc'[k] = "grow" /\ answer'[k] = answer[k]
        BY <1>3, <3>3, <2>c
      <4> QED
        BY <3>1, <4>1 DEF ListOf
    <3> QED
      BY <3>2, <3>3
  <2> QED
    BY <2>1, <2>2, <2>3 DEF ListInv
<1>4. CASE pc' = [pc EXCEPT ![k] = "returned"] /\ UNCHANGED <<bufs, need, answer, disturbed>>
  <2>a. UNCHANGED <<state, buffer, view, items, taken>> /\ pc[k] = "enum"
    BY DEF Enumerate
  <2>b. /\ DOMAIN pc' = Collects /\ pc'[k] = "returned"
        /\ \A j \in Collects \ {k} : pc'[j] = pc[j]
    BY <1>1, <1>4 DEF ListShape
  <2>1. ListShape'
    <3>1. \A j \in Collects : pc'[j] = "push" => view'[j] \in 1..Len(bufs')
      BY <1>1, <1>4, <2>a, <2>b DEF ListShape
    <3> QED
      BY <1>1, <1>4, <2>a, <2>b, <3>1 DEF ListShape
  <2>2. ASSUME NEW j \in Collects \ disturbed'
        PROVE  ListOf(j)'
    <3>0. ListOf(j)
      BY <1>4, <2>2 DEF ListInv
    <3>1. CASE j = k
      BY <1>4, <2>a, <2>b, <3>0, <3>1, SMTT(30) DEF ListOf
    <3>2. CASE j # k
      BY <1>4, <2>a, <2>b, <3>0, <3>2, ListOfKept, SMTT(30)
    <3> QED
      BY <3>1, <3>2
  <2> QED
    BY <2>1, <2>2 DEF ListInv
<1> QED
  BY <1>3, <1>4 DEF Enumerate

LEMMA GrowKept ==
  ASSUME ListInv, NEW k \in Collects, Grow(k)
  PROVE  ListInv'
<1> DEFINE new == [i \in 1..need[k] |-> Blank]
<1>1. new \in Seq(Entry)
  <2>1. Blank \in Entry
    BY DEF Blank, Entry, States
  <2>2. need[k] \in Nat /\ new \in [1..need[k] -> Entry]
    BY <2>1 DEF ListInv, ListShape
  <2> QED
    BY <2>2, FunctionIsSeq
<1>2. bufs' = Append(bufs, new) /\ bufs \in Seq(Seq(Entry))
  BY DEF Grow, ListInv, ListShape
<1> HIDE DEF new
<1>3. /\ bufs' \in Seq(Seq(Entry)) /\ Len(bufs') = Len(bufs) + 1
      /\ \A b \in 1..Len(bufs) : bufs'[b] = bufs[b]
  BY <1>1, <1>2, AppendIsSeq
<1>4. ListShape'
  <2>1. ListShape /\ buffer' = Len(bufs') /\ UNCHANGED <<state, need, view, items, taken, answer>>
    BY DEF ListInv, Grow, progress
  <2>2. DOMAIN pc' = Collects /\ \A j \in Collects : pc'[j] = "push" => pc[j] = "push"
    BY DEF ListInv, ListShape, Grow
  <2>3. Len(bufs) \in Nat
    BY <1>2
  <2>4. \A j \in Collects : pc'[j] = "push" => view'[j] \in 1..Len(bufs')
    BY <1>3, <2>1, <2>2, <2>3 DEF ListShape
  <2> QED
    BY <1>3, <2>1, <2>2, <2>3, <2>4, SMTT(30) DEF ListShape
<1>5. ASSUME NEW j \in Collects \ disturbed'
      PROVE  ListOf(j)'
  <2>1. CASE j = k
    BY <2>1, Zenon DEF ListInv, ListShape, ListOf, Grow, progress
  <2>2. CASE j # k
    BY <1>3, <2>2, ListOfKept, Zenon DEF ListInv, ListShape, Grow, progress
  <2> QED
    BY <2>1, <2>2
<1> QED
  BY <1>4, <1>5 DEF ListInv

LEMMA SliceKept ==
  ASSUME ListInv, NEW k \in Collects, Slice(k)
  PROVE  ListInv'
<1>1. ListShape'
  BY Zenon DEF ListInv, ListShape, Slice
<1>2. ASSUME NEW j \in Collects \ disturbed'
      PROVE  ListOf(j)'
  <2>1. CASE j = k
    <3>1. ListOf(k) /\ view'[k] = buffer /\ pc'[k] = "push" /\ pc[k] = "slice"
      BY <2>1, Zenon DEF ListInv, ListShape, Slice
    <3>2. Holds(k, view[k])'
      <4>1. Holds(k, buffer)
        BY <3>1 DEF ListOf
      <4>2. need' = need /\ bufs' = bufs /\ answer' = answer
        BY DEF Slice
      <4> QED
        BY <3>1, <4>1, <4>2, Zenon DEF Holds
    <3>3. need'[k] \in Nat /\ items'[k] = <<>> /\ taken'[k] = {}
      <4>1. need[k] \in Nat
        BY DEF ListInv, ListShape
      <4>2. items[k] = <<>> /\ taken[k] = {}
        BY <3>1 DEF ListOf
      <4> QED
        BY <4>1, <4>2 DEF Slice
    <3>4. Copied(k)'
      <4>1. items'[k] \in Seq(Item) /\ Len(items'[k]) = 0
        BY <3>3
      <4>2. Len(items'[k]) <= need'[k] /\ 1..Len(items'[k]) = {}
        BY <3>3, <4>1
      <4> QED
        BY <4>1, <4>2, Zenon DEF Copied
    <3> QED
      BY <2>1, <3>1, <3>2, <3>3, <3>4, Zenon DEF ListOf
  <2>2. CASE j # k
    BY <2>2, ListOfKept DEF ListInv, ListShape, Slice
  <2> QED
    BY <2>1, <2>2
<1> QED
  BY <1>1, <1>2 DEF ListInv

LEMMA PushKept ==
  ASSUME ListInv, NEW k \in Collects, Push(k)
  PROVE  ListInv'
<1>1. ListShape'
  BY SMTT(30) DEF ListInv, ListShape, Push
<1>2. ASSUME NEW j \in Collects \ disturbed'
      PROVE  ListOf(j)'
  <2>1. CASE j = k
    <3> DEFINE n == Len(items[k])
               e == bufs[view[k]][n + 1]
               new == [at |-> n + 1, state |-> e.state, done |-> FALSE]
    <3>1. pc[k] = "push" /\ Holds(k, view[k]) /\ Copied(k) /\ taken[k] \subseteq answer[k]
      BY <2>1, Reading DEF Push
    <3>2. /\ items[k] \in Seq(Item) /\ n \in Nat /\ n + 1 \in 1..need[k] /\ need[k] \in Nat
          /\ bufs[view[k]] \in Seq(Entry) /\ n + 1 \in 1..Len(bufs[view[k]])
      <4>1. items[k] \in Seq(Item) /\ n \in Nat
        BY <3>1, SMTT(30) DEF Copied
      <4>2. bufs[view[k]] \in Seq(Entry) /\ need[k] \in Nat
        BY <2>1, <3>1, Reading DEF Push
      <4>3. n + 1 <= need[k] /\ need[k] <= Len(bufs[view[k]])
        BY <3>1, Zenon DEF Holds, Push
      <4> QED
        BY <4>1, <4>2, <4>3
    <3>3. e.name # "" /\ e \in Entry
      <4>1. e.name # ""
        BY <3>1, <3>2, Zenon DEF Holds
      <4>2. e \in Entry
        BY <3>2, ElementIsIn, Zenon
      <4> QED
        BY <4>1, <4>2, Zenon
    <3>4. e # Blank
      <4>1. Blank.name = ""
        BY DEF Blank
      <4> QED
        BY <3>3, <4>1, Zenon
    <3>5. items' = [items EXCEPT ![k] = Append(items[k], new)]
      <4>1. n + 1 <= Len(bufs[view[k]])
        BY <3>2
      <4>2. \E v \in {e.state} : items' = [items EXCEPT ![k] =
                Append(items[k], [at |-> n + 1, state |-> v, done |-> FALSE])]
        BY <4>1, <3>4, Zenon DEF Push
      <4> QED
        BY <4>2, Zenon
    <3>6. new \in Item
      <4>1. e.state \in States
        BY <3>3, Zenon DEF Entry
      <4> QED
        BY <3>2, <4>1 DEF Item
    <3>7. items'[k] = Append(items[k], new)
      BY <3>5 DEF ListInv, ListShape
    <3>8. /\ items'[k] \in Seq(Item) /\ Len(items'[k]) = n + 1 /\ items'[k][n + 1] = new
          /\ \A i \in 1..n : items'[k][i] = items[k][i]
      <4> HIDE DEF new
      <4> QED
        BY <3>2, <3>6, <3>7
    <3>9. Copied(k)'
      <4>1. ASSUME NEW i \in 1..Len(items'[k])
            PROVE  /\ items'[k][i].at = i /\ items'[k][i].state = bufs[view[k]][i].state
                   /\ items'[k][i].done /\ bufs[view[k]][i].name \in Included
                        => Pair(bufs[view[k]][i]) \in taken[k]
        <5>1. CASE i = n + 1
          BY <5>1, <3>8
        <5>2. CASE i \in 1..n
          BY <5>2, <3>8, <3>1, Zenon DEF Copied
        <5> QED
          BY <5>1, <5>2, <3>2, <3>8
      <4> QED
        BY <4>1, <3>2, <3>8, Zenon DEF Copied, Push
    <3>10. Holds(k, view[k])'
      BY <3>1, Zenon DEF Holds, Push
    <3> QED
      BY <2>1, <3>1, <3>9, <3>10, Zenon DEF ListOf, Push
  <2>2. CASE j # k
    BY <2>2, ListOfKept, Zenon DEF ListInv, ListShape, Push
  <2> QED
    BY <2>1, <2>2
<1> QED
  BY <1>1, <1>2 DEF ListInv

LEMMA WorkKept ==
  ASSUME ListInv, NEW k \in Collects, NEW i \in DOMAIN items[k], Work(k, i)
  PROVE  ListInv'
<1>1. ListShape'
  BY Zenon DEF ListInv, ListShape, Work
<1>2. ASSUME NEW j \in Collects \ disturbed'
      PROVE  ListOf(j)'
  <2>1. CASE j = k
    <3> DEFINE e == bufs[view[k]][i]
    <3>1. /\ pc[k] = "push" /\ Holds(k, view[k]) /\ Copied(k) /\ taken[k] \subseteq answer[k]
          /\ need[k] \in Nat
      BY <2>1, Reading, Zenon DEF Work
    <3>2. items[k] \in Seq(Item) /\ i \in 1..Len(items[k]) /\ i \in 1..need[k]
      BY <3>1 DEF Copied
    <3>3. items[k][i].at = i /\ items[k][i].state = e.state /\ i # 0
      BY <3>1, <3>2 DEF Copied
    <3>4. Pair(e) \in answer[k]
      BY <3>1, <3>2, Zenon DEF Holds
    <3>5. taken' = IF e.name \in Included THEN [taken EXCEPT ![k] = @ \cup {Pair(e)}] ELSE taken
      BY <3>3 DEF Work, Pair
    <3>6. /\ taken'[k] \subseteq answer[k] /\ taken[k] \subseteq taken'[k]
          /\ e.name \in Included => Pair(e) \in taken'[k]
      BY <3>1, <3>4, <3>5, Zenon DEF ListInv, ListShape
    <3>7. items'[k] = [items[k] EXCEPT ![i].done = TRUE]
      BY Zenon DEF Work, ListInv, ListShape
    <3>8. /\ items'[k] \in Seq(Item) /\ Len(items'[k]) = Len(items[k])
          /\ \A h \in 1..Len(items[k]) :
               /\ items'[k][h].at = items[k][h].at /\ items'[k][h].state = items[k][h].state
               /\ h # i => items'[k][h].done = items[k][h].done
      <4>1. items[k][i] \in Item /\ items[k] \in [1..Len(items[k]) -> Item]
        BY <3>2
      <4>2. [items[k][i] EXCEPT !.done = TRUE] \in Item
        BY <4>1, Zenon DEF Item
      <4>3. items'[k] \in [1..Len(items[k]) -> Item]
        BY <3>2, <3>7, <4>1, <4>2
      <4>4. items'[k] \in Seq(Item) /\ Len(items'[k]) = Len(items[k])
        BY <3>2, <4>3, FunctionIsSeq
      <4>5. ASSUME NEW h \in 1..Len(items[k])
            PROVE  /\ items'[k][h].at = items[k][h].at /\ items'[k][h].state = items[k][h].state
                   /\ h # i => items'[k][h].done = items[k][h].done
        <5>1. CASE h = i
          <6>1. items'[k][h] = [items[k][i] EXCEPT !.done = TRUE]
            BY <5>1, <3>7, <4>1
          <6> QED
            BY <5>1, <6>1, <4>1 DEF Item
        <5>2. CASE h # i
          <6>1. items'[k][h] = items[k][h]
            BY <5>2, <3>7, <4>1, SMTT(30)
          <6> QED
            BY <6>1
        <5> QED
          BY <5>1, <5>2
      <4> QED
        BY <4>4, <4>5
    <3>9. Copied(k)'
      <4>1. ASSUME NEW h \in 1..Len(items[k])
            PROVE  /\ items'[k][h].at = h /\ items'[k][h].state = bufs[view[k]][h].state
                   /\ items'[k][h].done /\ bufs[view[k]][h].name \in Included
                        => Pair(bufs[view[k]][h]) \in taken'[k]
        BY <3>1, <3>6, <3>8, Zenon DEF Copied
      <4>2. Len(items'[k]) <= need[k]
        BY <3>1, <3>8, Zenon DEF Copied
      <4>3. need' = need /\ bufs' = bufs /\ view' = view
        BY Zenon DEF Work
      <4> QED
        BY <4>1, <4>2, <4>3, <3>8 DEF Copied
    <3>10. Holds(k, view[k])'
      BY <3>1, Zenon DEF Holds, Work
    <3> QED
      BY <2>1, <3>1, <3>6, <3>9, <3>10, Zenon DEF ListOf, Work
  <2>2. CASE j # k
    BY <2>2, ListOfKept, Zenon DEF ListInv, ListShape, Work
  <2> QED
    BY <2>1, <2>2
<1> QED
  BY <1>1, <1>2 DEF ListInv

LEMMA ReturnKept ==
  ASSUME ListInv, NEW k \in Collects, Return(k)
  PROVE  ListInv'
<1>1. ListShape'
  BY Zenon DEF ListInv, ListShape, Return, progress
<1>2. ASSUME NEW j \in Collects \ disturbed'
      PROVE  ListOf(j)'
  <2>1. CASE j = k
    <3>1. /\ pc'[k] = "returned" /\ Holds(k, view[k]) /\ Copied(k) /\ taken[k] \subseteq answer[k]
          /\ need[k] \in Nat
      <4>1. pc[k] = "push" /\ pc'[k] = "returned" /\ disturbed' = disturbed
        BY DEF ListInv, ListShape, Return
      <4> QED
        BY <2>1, <4>1, Reading
    <3>2. ASSUME NEW p \in answer[k], p[1] \in Included
          PROVE  p \in taken[k]
      <4>1. PICK i \in 1..need[k] : p = Pair(bufs[view[k]][i])
        BY <3>1, Zenon DEF Holds
      <4>2. i \in 1..Len(items[k]) /\ items[k][i].done
        BY <3>1 DEF Return, Copied
      <4>3. bufs[view[k]][i].name \in Included
        BY <3>2, <4>1, SMTT(30) DEF Pair
      <4> QED
        BY <3>1, <4>1, <4>2, <4>3, Zenon DEF Copied
    <3> QED
      BY <2>1, <3>1, <3>2, Zenon DEF ListOf, Return, progress
  <2>2. CASE j # k
    BY <2>2, ListOfKept DEF ListInv, ListShape, Return, progress
  <2> QED
    BY <2>1, <2>2
<1> QED
  BY <1>1, <1>2 DEF ListInv

LEMMA ListKept == ListInv /\ [ListNext]_listVars => ListInv'
<1> SUFFICES ASSUME ListInv, [ListNext]_listVars PROVE ListInv'
  OBVIOUS
<1>1. CASE UNCHANGED listVars
  <2>1. ListShape' /\ disturbed' = disturbed
    BY <1>1 DEF listVars, ListInv, ListShape
  <2>2. ASSUME NEW k \in Collects \ disturbed
        PROVE  ListOf(k)'
    BY <1>1, ListOfKept, Zenon DEF listVars, ListInv
  <2> QED
    BY <2>1, <2>2 DEF ListInv
<1>2. CASE ListNext
  BY <1>2, ChangeKept, ClearKept, EnumerateKept, GrowKept, SliceKept, PushKept, WorkKept,
     ReturnKept DEF ListNext, ListStep
<1> QED
  BY <1>1, <1>2

\* Collect of service reports every service the patterns let through, and each with the
\* state it had when the SCM answered, whatever the number of services, the size of the
\* buffer at first, how often it grows and how the workers share the entries, unless a
\* Collect that overlaps it writes over the buffer or replaces it.
THEOREM ServiceRows == ListSpec => []ServiceRowsOwn
<1>1. ListInv => ServiceRowsOwn
  BY DEF ListInv, ListOf, ServiceRowsOwn, ServiceRowsOwn
<1> QED
  BY <1>1, ListInitially, ListKept, PTL DEF ListSpec
=============================================================================
