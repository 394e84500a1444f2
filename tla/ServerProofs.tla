---------------------------- MODULE ServerProofs ----------------------------
(***************************************************************************)
(* The rows of an MI query, for every answer; which collectors serve a     *)
(* request, for any set of requests and collectors; and how the process    *)
(* comes by its settings, for every command line and every set of files.   *)
(***************************************************************************)
EXTENDS ScrapeServer, Configuration, MiRows, TLAPS

-----------------------------------------------------------------------------
(* MiRows *)

\* What a field can hold.
Values == {Unset} \cup {d.val[f] : d \in Deliveries, f \in Fields}

\* While the loop runs every delivery has its row, and elemValue has for each field what
\* the next instance that gives none will get.
MiInv ==
  /\ given \in Seq(Deliveries) /\ dst \in Seq([Fields -> Values]) /\ elem \in [Fields -> Values]
  /\ method \in {"QueryUnmarshal", "Unmarshal"}
  /\ ended = "no" => Len(dst) = Len(given)
  /\ ended = "no" /\ method = "QueryUnmarshal" => \A f \in Fields : Carried(Len(given), f, elem[f])
  /\ MiRowsOwn

\* The domain and the elements of a sequence with one more element.
LEMMA Appended ==
  ASSUME NEW T, NEW s \in Seq(T), NEW v \in T
  PROVE  /\ Append(s, v) \in Seq(T) /\ Len(s) \in Nat /\ Len(Append(s, v)) = Len(s) + 1
         /\ Append(s, v)[Len(s) + 1] = v
         /\ \A j \in 1..Len(s) : Append(s, v)[j] = s[j]
         /\ DOMAIN s = 1..Len(s) /\ DOMAIN Append(s, v) = 1..(Len(s) + 1)
OBVIOUS

\* A later delivery does not change what an earlier row should have.
LEMMA CarriedKept ==
  ASSUME given \in Seq(Deliveries), NEW d \in Deliveries, given' = Append(given, d),
         NEW i \in 0..Len(given), NEW f, NEW v, Carried(i, f, v)
  PROVE  Carried(i, f, v)'
<1>1. \A k \in 1..i : given'[k] = given[k]
  BY Appended
<1>2. \A k \in 1..i : \A m \in (k + 1)..i : m \in 1..i
  OBVIOUS
<1> QED
  BY <1>1, <1>2 DEF Carried

\* The row of the next delivery has its own value, or the one carried so far.
LEMMA CarriedOn ==
  ASSUME given \in Seq(Deliveries), NEW d \in Deliveries, given' = Append(given, d),
         NEW n \in Nat, n = Len(given), NEW f, NEW v, Carried(n, f, v),
         NEW w, w = IF d.val[f] \in {Null, Missing} THEN v ELSE d.val[f]
  PROVE  Carried(n + 1, f, w)'
<1>1. given'[n + 1] = d /\ \A k \in 1..n : given'[k] = given[k]
  BY Appended
<1>2. CASE d.val[f] \notin {Null, Missing}
  <2>1. n + 1 \in 1..(n + 1) /\ \A m \in (n + 1 + 1)..(n + 1) : FALSE
    BY <1>1
  <2>2. w = given'[n + 1].val[f] /\ given'[n + 1].val[f] \notin {Null, Missing}
    BY <1>1, <1>2
  <2> QED
    BY <2>1, <2>2 DEF Carried
<1>3. CASE d.val[f] \in {Null, Missing}
  <2>1. w = v
    BY <1>3
  <2>2. CASE v = Unset /\ \A k \in 1..n : given[k].val[f] \in {Null, Missing}
    <3>1. \A k \in 1..(n + 1) : given'[k].val[f] \in {Null, Missing}
      BY <1>1, <1>3, <2>2
    <3> QED
      BY <2>1, <2>2, <3>1 DEF Carried
  <2>3. CASE \E k \in 1..n : /\ v = given[k].val[f] /\ given[k].val[f] \notin {Null, Missing}
                             /\ \A m \in (k + 1)..n : given[m].val[f] \in {Null, Missing}
    <3>1. PICK k \in 1..n : /\ v = given[k].val[f] /\ given[k].val[f] \notin {Null, Missing}
                            /\ \A m \in (k + 1)..n : given[m].val[f] \in {Null, Missing}
      BY <2>3
    <3>2. k \in 1..(n + 1) /\ w = given'[k].val[f] /\ given'[k].val[f] \notin {Null, Missing}
      BY <1>1, <2>1, <3>1
    <3>3. \A m \in (k + 1)..(n + 1) : given'[m].val[f] \in {Null, Missing}
      <4> SUFFICES ASSUME NEW m \in (k + 1)..(n + 1) PROVE given'[m].val[f] \in {Null, Missing}
        OBVIOUS
      <4>1. CASE m = n + 1
        BY <4>1, <1>1, <1>3
      <4>2. CASE m # n + 1
        <5>1. m \in (k + 1)..n /\ m \in 1..n
          BY <4>2, <1>1, <3>1
        <5> QED
          BY <5>1, <1>1, <3>1
      <4> QED
        BY <4>1, <4>2
    <3> QED
      BY <3>2, <3>3 DEF Carried
  <2> QED
    BY <2>2, <2>3 DEF Carried
<1> QED
  BY <1>2, <1>3

\* Before the first instance of a query the invariant of the loop holds.
LEMMA MiInitially == MiInit => MiInv
<1> SUFFICES ASSUME MiInit PROVE MiInv
  OBVIOUS
<1>1. /\ given = <<>> /\ dst = <<>> /\ ended = "no" /\ elem = [f \in Fields |-> Unset]
      /\ method \in {"QueryUnmarshal", "Unmarshal"}
  BY DEF MiInit, MiStart
<1>2. \A f \in Fields : Carried(Len(given), f, elem[f])
  <2>1. Len(given) = 0 /\ \A f \in Fields : elem[f] = Unset
    BY <1>1
  <2>2. \A f \in Fields : Carried(0, f, Unset)
    BY DEF Carried
  <2> QED
    BY <2>1, <2>2
<1>3. MiRowsOwn
  BY <1>1 DEF MiRowsOwn
<1>4. elem \in [Fields -> Values]
  BY <1>1 DEF Values
<1> QED
  BY <1>1, <1>2, <1>3, <1>4 DEF MiInv

\* Whichever method runs, a later delivery does not change what an earlier row should have.
LEMMA FieldKept ==
  ASSUME given \in Seq(Deliveries), NEW d \in Deliveries, given' = Append(given, d), method' = method,
         NEW i \in 1..Len(given), NEW f, NEW v, FieldOwn(i, f, v)
  PROVE  FieldOwn(i, f, v)'
<1>1. given'[i] = given[i] /\ i \in 0..Len(given)
  BY Appended
<1>2. Carried(i, f, v) => Carried(i, f, v)'
  BY <1>1, CarriedKept
<1> QED
  BY <1>1, <1>2 DEF FieldOwn

\* A round that leaves the loop keeps the inductive invariant.
LEMMA LeaveKept ==
  ASSUME MiInv, NEW d \in Deliveries, ended = "no", given' = Append(given, d), method' = method,
         Leave(d)
  PROVE  MiInv'
<1>0. PICK n \in Nat : n = Len(given)
  BY DEF MiInv
<1>1. /\ given' \in Seq(Deliveries) /\ Len(given') = n + 1 /\ given'[n + 1] = d
      /\ \A k \in 1..n : given'[k] = given[k]
      /\ DOMAIN given = 1..n /\ DOMAIN given' = 1..(n + 1)
  BY <1>0, Appended DEF MiInv
<1>2. dst \in Seq([Fields -> Values]) /\ Len(dst) = n /\ DOMAIN dst = 1..n
  BY <1>0 DEF MiInv
<1>3. \A x : IsRow(x)' <=> IsRow(x)
  BY DEF IsRow, Refused
<1>4. \A k \in 1..n : IsRow(given[k])
  BY <1>1, <1>2 DEF MiInv, MiRowsOwn
<1>5. elem' = elem /\ dst' = dst /\ ended' \in {"done", "error"} /\ ~IsRow(d)
  BY DEF Leave, IsRow
<1>6. ended' = "error" <=> d.kind \in {"row", "error"}
  BY DEF Leave
<1>7. \A i \in 1..n, f \in Fields : FieldOwn(i, f, dst[i][f])'
  <2> SUFFICES ASSUME NEW i \in 1..n, NEW f \in Fields PROVE FieldOwn(i, f, dst[i][f])'
    OBVIOUS
  <2>1. PICK v : v = dst[i][f]
    OBVIOUS
  <2>2. FieldOwn(i, f, v)
    BY <1>2, <2>1 DEF MiInv, MiRowsOwn
  <2>3. FieldOwn(i, f, v)'
    BY <1>0, <2>2, FieldKept DEF MiInv
  <2> QED
    BY <1>5, <2>1, <2>3
<1>8. MiRowsOwn'
  <2>1. \A i \in 1..n + 1 : i \in 1..n <=> IsRow(given[i])'
    BY <1>1, <1>3, <1>4, <1>5
  <2>2. ended' = "error" <=> \E i \in 1..n + 1 : ~IsRow(given[i])' /\ given'[i].kind \in {"row", "error"}
    BY <1>1, <1>3, <1>4, <1>5, <1>6
  <2> QED
    BY <1>1, <1>2, <1>5, <1>7, <2>1, <2>2 DEF MiRowsOwn
<1> QED
  BY <1>1, <1>2, <1>5, <1>8 DEF MiInv

\* A round that appends a row keeps the inductive invariant.
LEMMA AppendKept ==
  ASSUME MiInv, NEW d \in Deliveries, ended = "no", given' = Append(given, d), method' = method,
         d.kind = "row", ~Refused(d.val), AppendElem(d),
         \/ method = "QueryUnmarshal" /\ SetFields(d)
         \/ method = "Unmarshal" /\ SetFieldsStrict(d)
  PROVE  MiInv'
<1>0. PICK n \in Nat : n = Len(given)
  BY DEF MiInv
<1>1. /\ given' \in Seq(Deliveries) /\ Len(given') = n + 1 /\ given'[n + 1] = d
      /\ \A k \in 1..n : given'[k] = given[k]
      /\ DOMAIN given = 1..n /\ DOMAIN given' = 1..(n + 1)
  BY <1>0, Appended DEF MiInv
<1>2. elem' \in [Fields -> Values]
  BY DEF MiInv, SetFields, SetFieldsStrict, Values
<1>3. /\ dst' \in Seq([Fields -> Values]) /\ Len(dst') = n + 1 /\ dst'[n + 1] = elem'
      /\ \A k \in 1..n : dst'[k] = dst[k]
      /\ DOMAIN dst = 1..n /\ DOMAIN dst' = 1..(n + 1)
  BY <1>0, <1>2, Appended DEF MiInv, AppendElem
<1>4. \A x : IsRow(x)' <=> IsRow(x)
  BY DEF IsRow, Refused
<1>5. \A k \in 1..(n + 1) : IsRow(given[k])'
  <2>1. \A k \in 1..n : IsRow(given[k])
    BY <1>1, <1>3 DEF MiInv, MiRowsOwn
  <2>2. IsRow(d)
    BY DEF IsRow
  <2> QED
    BY <1>1, <1>4, <2>1, <2>2
<1>6. method = "QueryUnmarshal" => \A f \in Fields : Carried(n + 1, f, elem[f])'
  <2> SUFFICES ASSUME method = "QueryUnmarshal", NEW f \in Fields PROVE Carried(n + 1, f, elem[f])'
    OBVIOUS
  <2>1. PICK v, w : v = elem[f] /\ w = elem'[f]
    OBVIOUS
  <2>2. Carried(n, f, v)
    BY <1>0, <2>1 DEF MiInv
  <2>3. w = IF d.val[f] \in {Null, Missing} THEN v ELSE d.val[f]
    BY <2>1 DEF SetFields
  <2>4. Carried(n + 1, f, w)'
    BY <1>0, <2>2, <2>3, CarriedOn DEF MiInv
  <2> QED
    BY <2>1, <2>4
<1>7. \A f \in Fields : FieldOwn(n + 1, f, elem[f])'
  BY <1>1, <1>6 DEF FieldOwn, SetFieldsStrict
<1>8. \A i \in 1..n, f \in Fields : FieldOwn(i, f, dst[i][f])'
  <2> SUFFICES ASSUME NEW i \in 1..n, NEW f \in Fields PROVE FieldOwn(i, f, dst[i][f])'
    OBVIOUS
  <2>1. PICK v : v = dst[i][f]
    OBVIOUS
  <2>2. FieldOwn(i, f, v)
    BY <1>3, <2>1 DEF MiInv, MiRowsOwn
  <2>3. FieldOwn(i, f, v)'
    BY <1>0, <2>2, FieldKept DEF MiInv
  <2> QED
    BY <1>3, <2>1, <2>3
<1>9. MiRowsOwn'
  <2>1. \A i \in 1..(n + 1), f \in Fields : FieldOwn(i, f, dst[i][f])'
    <3> SUFFICES ASSUME NEW i \in 1..(n + 1), NEW f \in Fields PROVE FieldOwn(i, f, dst[i][f])'
      OBVIOUS
    <3>1. CASE i = n + 1
      BY <1>3, <1>7, <3>1
    <3>2. CASE i # n + 1
      BY <1>8, <3>2
    <3> QED
      BY <3>1, <3>2
  <2>2. ended' # "error"
    BY DEF AppendElem
  <2>3. (\A i \in DOMAIN given : IsRow(given[i]))'
    BY <1>1, <1>5
  <2>4. (\A i \in DOMAIN dst : \A f \in Fields : FieldOwn(i, f, dst[i][f]))'
    BY <1>3, <2>1
  <2>5. Len(dst') <= Len(given') /\ DOMAIN dst' = DOMAIN given'
    BY <1>1, <1>3
  <2> QED
    BY <2>2, <2>3, <2>4, <2>5 DEF MiRowsOwn
<1> QED
  BY <1>1, <1>2, <1>3, <1>6, <1>9 DEF MiInv

\* Every round of the loop of QueryUnmarshal and of Unmarshal keeps the invariant.
LEMMA MiKept == MiInv /\ [MiNext]_miVars => MiInv'
<1> SUFFICES ASSUME MiInv, [MiNext]_miVars PROVE MiInv'
  OBVIOUS
<1>1. ASSUME NEW d \in Deliveries, VisitInstance(d) PROVE MiInv'
  BY <1>1, LeaveKept, AppendKept DEF VisitInstance
<1>2. CASE UNCHANGED miVars
  BY <1>2 DEF miVars, MiInv, MiRowsOwn, FieldOwn, Carried, IsRow, Refused
<1> QED
  BY <1>1, <1>2 DEF MiNext

\* In every state of an MI query the destination has the rows MiRowsOwn asks for: each
\* delivered instance one row, with its own values where it has them, and in those of
\* QueryUnmarshal the value last given where it has none.
THEOREM MiRowsOwnAlways == MiSpec => []MiRowsOwn
<1>1. MiInv => MiRowsOwn
  BY DEF MiInv
<1> QED
  BY MiInitially, MiKept, <1>1, PTL DEF MiSpec

-----------------------------------------------------------------------------
(* ScrapeServer *)

\* A goroutine that runs belongs to a collector its scrape waits for or has given
\* up on, and a scrape waits for collectors only while it holds the mutex.
GoingInv ==
  \A r \in Requests, c \in Names :
    /\ c \in going[r] => status[r][c] \in {"running", "pending"}
    /\ status[r][c] = "running" => pc[r] = "scrape"
    /\ status[r][c] # "none" => pc[r] \in {"scrape", "answered"}

\* The start narrows the collection to what the flags say and builds it before the
\* first request comes in.
StartInv ==
  /\ stage = "flags" => base = Names
  /\ stage = "enabled" => base = on
  /\ stage \in {"init", "building", "serving"} => base = on \ Off
  /\ stage \in {"flags", "enabled", "init"} => built = {}
  /\ stage = "serving" => built = base /\ failed = {}
  /\ \A r \in Requests : pc[r] # "idle" => stage = "serving"

\* A request's collection is the one it asked for, and its statuses are those of its
\* collection.
FilterInv ==
  \A r \in Requests :
       /\ pc[r] = "rejected" => ~ want[r] \subseteq base
       /\ pc[r] \in {"lock", "scrape", "answered"} =>
            coll[r] \subseteq base /\ coll[r] = IF want[r] = {} THEN base ELSE want[r]
       /\ pc[r] \in {"scrape", "answered"} =>
            \A c \in Names : status[r][c] # "none" <=> c \in coll[r]

IInv == TypeOK /\ StartInv /\ GoingInv /\ FilterInv

USE NoRequestAssumption

\* The inductive invariant holds initially.
LEMMA InitIInv == Init => IInv
<1> SUFFICES ASSUME Init PROVE IInv
  OBVIOUS
<1>1. TypeOK
  BY DEF Init, TypeOK
<1>2. StartInv
  BY DEF Init, StartInv
<1>3. GoingInv /\ FilterInv
  BY DEF Init, GoingInv, FilterInv
<1> QED
  BY <1>1, <1>2, <1>3 DEF IInv

\* Every step preserves the inductive invariant.
LEMMA NextIInv == IInv /\ [Next]_vars => IInv'
<1> SUFFICES ASSUME IInv, [Next]_vars PROVE IInv'
  OBVIOUS
<1> USE DEF IInv, TypeOK, StartInv, GoingInv, FilterInv
<1>1. ASSUME NEW r \in Requests, ServeHTTP(r) PROVE IInv'
  <2> PICK names \in SUBSET Names :
        /\ want' = [want EXCEPT ![r] = names]
        /\ IF names # {}
             THEN WithCollectors(r, names)
             ELSE /\ coll' = [coll EXCEPT ![r] = base]
                  /\ pc' = [pc EXCEPT ![r] = "lock"]
                  /\ UNCHANGED base
    BY <1>1, Zenon DEF ServeHTTP
  <2>1. stage = "serving" /\ pc[r] = "idle" /\ UNCHANGED <<start, base, mu, going, status>>
    BY <1>1 DEF ServeHTTP, WithCollectors
  <2>2. /\ names \subseteq base
        /\ pc' = [pc EXCEPT ![r] = "lock"]
        /\ coll' = [coll EXCEPT ![r] = IF names = {} THEN base ELSE names]
        \/ /\ ~ names \subseteq base
           /\ pc' = [pc EXCEPT ![r] = "rejected"]
           /\ coll' = coll
    <3>1. names \subseteq base => base \cap names = names
      OBVIOUS
    <3> QED
      BY <3>1, Zenon DEF WithCollectors
  <2> USE DEF start
  <2>3. TypeOK'
    <3> HIDE DEF StartInv, GoingInv, FilterInv
    <3>0. base \in SUBSET Names
      OBVIOUS
    <3>1. /\ want' \in [Requests -> SUBSET Names]
          /\ coll' \in [Requests -> SUBSET Names]
      BY <2>2, <3>0
    <3>2. pc' \in [Requests -> {"idle", "lock", "scrape", "answered", "rejected"}]
      BY <2>2
    <3>3. \A s \in Requests : pc'[s] = "scrape" <=> mu = s
      <4>1. pc' = [pc EXCEPT ![r] = "lock"] \/ pc' = [pc EXCEPT ![r] = "rejected"]
        BY <2>2
      <4> QED
        BY <2>1, <4>1
    <3> QED
      BY <2>1, <3>1, <3>2, <3>3
  <2>4. GoingInv'
    BY <2>1, <2>2
  <2>5. FilterInv'
    BY <2>1, <2>2
  <2>6. StartInv'
    BY <2>1, <2>2
  <2> QED
    BY <2>3, <2>4, <2>5, <2>6
<1>2. ASSUME NEW r \in Requests, Collect(r) PROVE IInv'
  <2>1. /\ status' \in [Requests -> [Names -> {"none", "running", "result", "pending"}]]
        /\ \A c \in Names : status'[r][c] = IF c \in coll[r] THEN "running" ELSE "none"
        /\ \A s \in Requests \ {r} : status'[s] = status[s]
    BY <1>2 DEF Collect
  <2>2. TypeOK'
    BY <1>2, <2>1 DEF Collect, start
  <2>3. GoingInv'
    BY <1>2, <2>1 DEF Collect
  <2>4. FilterInv'
    BY <1>2, <2>1 DEF Collect, start
  <2>5. StartInv'
    BY <1>2 DEF Collect, start
  <2> QED
    BY <2>2, <2>3, <2>4, <2>5
<1>3. ASSUME NEW r \in Requests, NEW c \in Names, Return(r, c) PROVE IInv'
  BY <1>3 DEF Return, start
<1>4. ASSUME NEW r \in Requests, NEW c \in Names, Timeout(r, c) PROVE IInv'
  BY <1>4 DEF Timeout, start
<1>5. ASSUME NEW r \in Requests, NEW c \in Names, Report(r, c) PROVE IInv'
  <2>1. \A s \in Requests, d \in Names :
          status'[s][d] = IF s = r /\ d = c THEN "result" ELSE status[s][d]
    BY <1>5 DEF Report
  <2> QED
    BY <1>5, <2>1 DEF Report, start
<1>6. ASSUME NEW r \in Requests, Answer(r) PROVE IInv'
  BY <1>6 DEF Answer, start
<1>7. CASE UNCHANGED vars
  BY <1>7 DEF vars, start, serve
<1>8. CASE Enable
  BY <1>8 DEF Enable, serve
<1>9. CASE Disable
  BY <1>9 DEF Disable, serve
<1>10. CASE InitMI
  BY <1>10 DEF InitMI, serve
<1>11. ASSUME NEW c \in Names, BuildOne(c) PROVE IInv'
  BY <1>11 DEF BuildOne, serve
<1>12. CASE BuildDone
  BY <1>12 DEF BuildDone, serve
<1> QED
  BY <1>1, <1>2, <1>3, <1>4, <1>5, <1>6, <1>7, <1>8, <1>9, <1>10, <1>11, <1>12, Zenon DEF Next

\* The inductive invariant holds in every reachable state.
THEOREM ServerInvariance == Safety => []IInv
BY InitIInv, NextIInv, PTL DEF Safety

\* Overlapping Collect calls of one collector come from a scrape that timed out.
THEOREM ServerOverlap == Safety => []OverlapOnlyAfterTimeout
<1>1. IInv => OverlapOnlyAfterTimeout
  BY DEF IInv, TypeOK, GoingInv, OverlapOnlyAfterTimeout
<1> QED
  BY <1>1, ServerInvariance, PTL

\* Requests are filtered exactly, and no request changes what another one sees.
THEOREM ServerFilter == Safety => []FilterExact
<1>1. ASSUME IInv, NEW r \in Requests
      PROVE /\ pc[r] = "rejected" => ~ want[r] \subseteq on \ Off
            /\ pc[r] = "answered" =>
                 {c \in Names : status[r][c] # "none"} = (IF want[r] = {} THEN on \ Off ELSE want[r])
  <2>1. pc[r] # "idle" => base = on \ Off
    BY <1>1 DEF IInv, StartInv
  <2>2. pc[r] = "rejected" => ~ want[r] \subseteq base
    BY <1>1 DEF IInv, FilterInv
  <2>3. pc[r] = "answered" => {c \in Names : status[r][c] # "none"} = coll[r]
    BY <1>1 DEF IInv, TypeOK, FilterInv
  <2>4. pc[r] = "answered" => coll[r] = IF want[r] = {} THEN base ELSE want[r]
    BY <1>1 DEF IInv, FilterInv
  <2> QED
    BY <2>1, <2>2, <2>3, <2>4
<1>2. IInv => FilterExact
  BY <1>1 DEF FilterExact
<1> QED
  BY <1>2, ServerInvariance, PTL

\* Collect is called only after every Build has returned, and none failed.
THEOREM ServerBuilt == Safety => []BuiltBeforeServed
<1>1. ASSUME IInv, NEW r \in Requests, NEW c \in going[r]
      PROVE built = base /\ failed = {} /\ c \in built
  <2>1. c \in Names /\ status[r][c] \in {"running", "pending"}
    BY <1>1 DEF IInv, TypeOK, GoingInv
  <2>2. pc[r] \in {"scrape", "answered"}
    BY <1>1, <2>1 DEF IInv, GoingInv
  <2>3. built = base /\ failed = {}
    BY <1>1, <2>2 DEF IInv, StartInv
  <2>4. c \in coll[r] /\ coll[r] \subseteq base
    BY <1>1, <2>1, <2>2 DEF IInv, FilterInv
  <2> QED
    BY <2>3, <2>4
<1>2. IInv => BuiltBeforeServed
  BY <1>1 DEF BuiltBeforeServed
<1> QED
  BY <1>2, ServerInvariance, PTL

-----------------------------------------------------------------------------
(* Configuration *)

\* The types.
ConfShape ==
  /\ Len(args) \in Nat /\ DOMAIN args = 1..Len(args) /\ argAt \in Nat \ {0}
  /\ \A i \in DOMAIN args :
       /\ args[i].kind \in {"eq", "flag", "word"}
       /\ args[i].kind = "flag" /\ args[i].name = ConfigFile => HasSuffix(args[i])

\* ParseConfigFile has passed over arguments that name no file, and returned the file of
\* the first that does.
Searched ==
  /\ \A k \in DOMAIN args : k < argAt => ~NamesFile(args[k])
  /\ parsing = "search" => path = NoFile
  /\ parsing # "search" =>
       \/ argAt \notin DOMAIN args /\ path = NoFile
       \/ /\ argAt \in DOMAIN args /\ NamesFile(args[argAt])
          /\ path = IF CutPrefix(args[argAt]) THEN args[argAt].value ELSE args[argAt].text

\* The values of the file that ParseConfigFile returned.
FileValues == IF path = NoFile THEN <<>> ELSE Flatten(Files[path].doc)

\* The defaults are the built-in ones until the file's are bound.
Loaded ==
  /\ parsing \in {"search", "load", "bind"} => defaults = FlagDefaults
  /\ parsing = "bind" => path # NoFile /\ Usable(path) /\ resolver = FileValues
  /\ parsing = "parse" =>
       /\ path = NoFile \/ Usable(path)
       /\ \A n \in DOMAIN FlagDefaults :
            defaults[n] = IF n \in DOMAIN FileValues THEN FileValues[n] ELSE FlagDefaults[n]

\* The inductive invariant of Parse.
ConfInv == ConfShape /\ Searched /\ Loaded /\ SettingsExact

\* The arguments kingpin takes for flags.
Starts == {i \in DOMAIN args : args[i].kind # "word"}

\* Of a command line that kingpin accepts, the value of a flag given as --name=value is that
\* value, and every value kingpin finds is that of an argument.
LEMMA KingpinValues ==
  ASSUME ~KingpinParse(args).err
  PROVE  /\ \A n \in DOMAIN KingpinParse(args).cli : \E i \in Starts : args[i].name = n
         /\ \A i \in Starts : args[i].kind = "eq" =>
              /\ args[i].name \in DOMAIN KingpinParse(args).cli
              /\ KingpinParse(args).cli[args[i].name] = args[i].value
<1> DEFINE cli == [n \in {args[i].name : i \in Starts} |->
                     LET i == CHOOSE k \in Starts : args[k].name = n
                     IN IF args[i].kind = "eq" THEN args[i].value ELSE args[i + 1].value]
<1>1. KingpinParse(args).cli = cli
  BY DEF KingpinParse, Starts
<1>2. \A i, k \in Starts : args[i].name = args[k].name => i = k
  BY DEF KingpinParse, Starts
<1>3. ASSUME NEW i \in Starts, args[i].kind = "eq"
      PROVE  args[i].name \in DOMAIN cli /\ cli[args[i].name] = args[i].value
  <2>1. (CHOOSE k \in Starts : args[k].name = args[i].name) = i
    BY <1>2, Zenon
  <2> QED
    BY <1>3, <2>1, Zenon
<1> HIDE DEF cli
<1>4. \A n \in DOMAIN cli : \E i \in Starts : args[i].name = n
  BY DEF cli
<1> QED
  BY <1>1, <1>3, <1>4

\* Past the search, the file ParseConfigFile returned is the one the property speaks of.
LEMMA FoundFile ==
  ASSUME ConfShape, Searched, parsing # "search", ~KingpinParse(args).err
  PROVE  FileRead = path
<1>1. CASE argAt \notin DOMAIN args /\ path = NoFile
  <2>1. \A k \in DOMAIN args : ~NamesFile(args[k])
    BY <1>1 DEF ConfShape, Searched
  <2>2. Mistaken = {}
    BY <2>1 DEF Mistaken, NamesFile
  <2>3. \A i \in Starts : args[i].name # ConfigFile
    BY <2>1 DEF ConfShape, Starts, NamesFile, CutPrefix
  <2>4. AskedFor(KingpinParse(args)) = NoFile
    BY <2>3, KingpinValues, Zenon DEF AskedFor
  <2> QED
    BY <1>1, <2>2, <2>4, Zenon DEF FileRead
<1>2. CASE argAt \in DOMAIN args /\ CutPrefix(args[argAt]) /\ path = args[argAt].value
  <2>1. \A i \in DOMAIN args : i < argAt \/ i = argAt \/ argAt < i
    BY DEF ConfShape
  <2>2. Mistaken = {}
    BY <1>2, <2>1 DEF Mistaken, NamesFile, Searched
  <2>3. argAt \in Starts /\ args[argAt].kind = "eq" /\ args[argAt].name = ConfigFile
    BY <1>2 DEF Starts, CutPrefix
  <2>4. AskedFor(KingpinParse(args)) = path
    BY <1>2, <2>3, KingpinValues DEF AskedFor
  <2> QED
    BY <2>2, <2>4, Zenon DEF FileRead
<1>3. CASE argAt \in DOMAIN args /\ NamesFile(args[argAt]) /\ ~CutPrefix(args[argAt]) /\ path = args[argAt].text
  <2>1. \A i \in DOMAIN args : i < argAt \/ i = argAt \/ argAt < i
    BY DEF ConfShape
  <2>2. argAt \in Mistaken
    BY <1>3 DEF Mistaken, NamesFile, Searched
  <2>3. \A i \in Mistaken : i = argAt
    BY <1>3, <2>1 DEF Mistaken, NamesFile, Searched
  <2>4. (CHOOSE i \in Mistaken : TRUE) = argAt
    BY <2>2, <2>3
  <2> QED
    BY <1>3, <2>2, <2>4, Zenon DEF FileRead
<1> QED
  BY <1>1, <1>2, <1>3 DEF Searched

\* What a command line says depends on the command line alone.
LEMMA NamedUnmoved ==
  ASSUME args' = args, NEW line, line = KingpinParse(args)
  PROVE  FileRead' = FileRead /\ KingpinParse(args)' = line
<1>1. Mistaken' = Mistaken
  BY DEF Mistaken
<1>2. KingpinParse(args)' = line
  BY DEF KingpinParse
<1>3. FileRead' = FileRead
  <2>1. AskedFor(KingpinParse(args))' = AskedFor(KingpinParse(args))
    BY <1>2 DEF AskedFor
  <2>2. FileRead' = IF Mistaken' = {} THEN AskedFor(KingpinParse(args))'
                    ELSE args'[CHOOSE i \in Mistaken' : TRUE].text
    BY Zenon DEF FileRead
  <2> HIDE DEF Mistaken
  <2>3. FileRead' = IF Mistaken = {} THEN AskedFor(KingpinParse(args))
                    ELSE args[CHOOSE i \in Mistaken : TRUE].text
    BY <1>1, <2>1, <2>2
  <2> QED
    BY <2>3, Zenon DEF FileRead
<1> QED BY <1>2, <1>3

\* Before Parse reads the command line the invariant holds.
LEMMA ConfInitially == ConfInit => ConfInv
<1> SUFFICES ASSUME NEW line \in CommandLines, ConfStart(line) PROVE ConfInv
  BY DEF ConfInit
<1>1. ConfShape
  BY CommandLinesAssumption DEF ConfStart, ConfShape, HasSuffix
<1>2. Searched
  BY <1>1 DEF ConfStart, Searched, ConfShape
<1>3. Loaded /\ SettingsExact
  BY DEF ConfStart, Loaded, SettingsExact
<1> QED
  BY <1>1, <1>2, <1>3 DEF ConfInv

\* A round of the search of ParseConfigFile keeps the invariant.
LEMMA SearchKept == ASSUME ConfInv, SearchArgument PROVE ConfInv'
<1>1. args' = args /\ defaults' = defaults /\ parsing' \in {"search", "load"} /\ parsing = "search"
  BY DEF SearchArgument
<1>2. ConfShape'
  BY DEF SearchArgument, ConfInv, ConfShape
<1>3. Searched'
  <2>1. CASE argAt \in DOMAIN args /\ NamesFile(args[argAt])
    BY <1>1, <2>1 DEF SearchArgument, ConfInv, Searched, NamesFile
  <2>2. CASE argAt \in DOMAIN args /\ ~NamesFile(args[argAt])
    <3>1. argAt' = argAt + 1 /\ parsing' = "search" /\ path' = path
      BY <2>2, <1>1 DEF SearchArgument
    <3>2. \A k \in DOMAIN args : k < argAt + 1 => k < argAt \/ k = argAt
      BY DEF ConfInv, ConfShape
    <3> QED
      BY <1>1, <2>2, <3>1, <3>2 DEF ConfInv, Searched, NamesFile
  <2>3. CASE argAt \notin DOMAIN args
    BY <1>1, <2>3 DEF SearchArgument, ConfInv, Searched, NamesFile
  <2> QED
    BY <2>1, <2>2, <2>3
<1>4. Loaded' /\ SettingsExact'
  BY <1>1 DEF ConfInv, Loaded, SettingsExact
<1> QED
  BY <1>2, <1>3, <1>4 DEF ConfInv

\* NewConfigFileResolver keeps the invariant: it fails only for a file that cannot be used.
LEMMA LoadKept == ASSUME ConfInv, NewConfigFileResolver PROVE ConfInv'
<1>1. /\ args' = args /\ argAt' = argAt /\ path' = path /\ defaults' = defaults
      /\ parsing = "load" /\ parsing' \in {"parse", "failed", "bind"}
  BY DEF NewConfigFileResolver
<1>2. ConfShape'
  BY <1>1 DEF ConfInv, ConfShape
<1>3. Searched'
  BY <1>1 DEF ConfInv, Searched, NamesFile
<1>4. Loaded'
  <2>1. FileValues' = FileValues
    BY <1>1 DEF FileValues
  <2>2. defaults = FlagDefaults /\ (parsing' = "bind" => path # NoFile /\ Usable(path) /\ resolver' = FileValues)
    BY <1>1, FilesAssumption DEF ConfInv, Loaded, NewConfigFileResolver, FileValues, Usable
  <2>3. parsing' = "parse" => path = NoFile /\ DOMAIN FileValues = {}
    BY <1>1 DEF NewConfigFileResolver, FileValues
  <2> QED
    BY <1>1, <2>1, <2>2, <2>3 DEF Loaded, Usable
<1>5. SettingsExact'
  <2>1. PICK line : line = KingpinParse(args)
    BY Zenon
  <2>2. FileRead' = FileRead /\ KingpinParse(args)' = line
    BY <1>1, <2>1, NamedUnmoved, Zenon
  <2>3. parsing' = "failed" => path # NoFile /\ ~Usable(path)
    BY <1>1 DEF NewConfigFileResolver
  <2>4. ConfShape /\ Searched /\ parsing # "search"
    BY <1>1 DEF ConfInv
  <2>5. line.err \/ FileRead = path
    BY <2>1, <2>4, FoundFile, Zenon
  <2>6. Usable(path)' = Usable(path) /\ Usable(FileRead)' = Usable(FileRead)
    BY <1>1, <2>2 DEF Usable
  <2> QED
    BY <1>1, <2>2, <2>3, <2>5, <2>6 DEF SettingsExact
<1> QED
  BY <1>2, <1>3, <1>4, <1>5 DEF ConfInv

\* Bind keeps the invariant: the defaults become the values of the file it was given.
LEMMA BindKept == ASSUME ConfInv, Bind PROVE ConfInv'
<1>1. /\ args' = args /\ argAt' = argAt /\ path' = path
      /\ parsing = "bind" /\ parsing' \in {"parse", "failed"}
  BY DEF Bind
<1>2. ConfShape'
  BY <1>1 DEF ConfInv, ConfShape
<1>3. Searched'
  BY <1>1 DEF ConfInv, Searched, NamesFile
<1>4. Loaded'
  <2>1. FileValues' = FileValues
    BY <1>1 DEF FileValues
  <2>2. parsing' = "parse" => defaults' = SetDefault(FileValues)
    BY <1>1 DEF Bind, ConfInv, Loaded
  <2>3. defaults = FlagDefaults /\ Usable(path)
    BY <1>1 DEF ConfInv, Loaded
  <2>4. \A n \in DOMAIN FlagDefaults :
          SetDefault(FileValues)[n] = IF n \in DOMAIN FileValues THEN FileValues[n] ELSE FlagDefaults[n]
    <3>1. PICK f : f = FileValues
      BY Zenon
    <3>2. SetDefault(f) = [n \in DOMAIN FlagDefaults |-> IF n \in DOMAIN f THEN f[n] ELSE FlagDefaults[n]]
      BY <2>3, Zenon DEF SetDefault
    <3> QED
      BY <3>1, <3>2
  <2> QED
    BY <1>1, <2>1, <2>2, <2>3, <2>4 DEF Loaded, Usable
<1>5. SettingsExact'
  <2>1. parsing' = "failed" => KingpinParse(args).err
    BY <1>1 DEF Bind
  <2> QED
    BY <1>1, <2>1 DEF SettingsExact, KingpinParse
<1> QED
  BY <1>2, <1>3, <1>4, <1>5 DEF ConfInv

\* The last parse of the command line keeps the invariant.
LEMMA ParseKept == ASSUME ConfInv, ParseFlags PROVE ConfInv'
<1>1. /\ args' = args /\ argAt' = argAt /\ path' = path /\ defaults' = defaults
      /\ parsing = "parse" /\ parsing' \in {"done", "failed"}
  BY DEF ParseFlags
<1>2. ConfShape'
  BY <1>1 DEF ConfInv, ConfShape
<1>3. Searched'
  BY <1>1 DEF ConfInv, Searched, NamesFile
<1>4. Loaded'
  BY <1>1 DEF Loaded
<1>5. PICK line : line = KingpinParse(args)
  BY Zenon
<1>6. FileRead' = FileRead /\ KingpinParse(args)' = line
  BY <1>1, <1>5, NamedUnmoved, Zenon
<1>7. CASE line.err
  <2>1. parsing' = "failed"
    BY <1>1, <1>5, <1>7 DEF ParseFlags
  <2> QED
    BY <1>2, <1>3, <1>4, <1>6, <1>7, <2>1 DEF ConfInv, SettingsExact
<1>8. CASE ~line.err
  <2>1. /\ parsing' = "done"
        /\ \A n \in DOMAIN FlagDefaults :
             settings'[n] = IF n \in DOMAIN line.cli THEN line.cli[n] ELSE defaults[n]
    BY <1>1, <1>5, <1>8 DEF ParseFlags
  <2>2. /\ path = NoFile \/ Usable(path)
        /\ \A n \in DOMAIN FlagDefaults :
             defaults[n] = IF n \in DOMAIN FileValues THEN FileValues[n] ELSE FlagDefaults[n]
    BY <1>1 DEF ConfInv, Loaded
  <2>4. FileRead = path
    BY <1>1, <1>5, <1>8, FoundFile DEF ConfInv
  <2>5. SettingsExact'
    BY <1>6, <1>8, <2>1, <2>2, <2>4 DEF SettingsExact, FileValues, Usable
  <2> QED
    BY <1>2, <1>3, <1>4, <2>5 DEF ConfInv
<1> QED
  BY <1>7, <1>8

\* For every command line and every set of files, a start has the settings SettingsExact asks
\* for: the command line before the file before the defaults, or an error with its reason.
THEOREM SettingsAlways == ConfSpec => []SettingsExact
<1>1. ConfInv /\ [ConfNext]_confVars => ConfInv'
  <2> SUFFICES ASSUME ConfInv, [ConfNext]_confVars PROVE ConfInv'
    OBVIOUS
  <2>1. CASE UNCHANGED confVars
    <3>1. ConfShape' /\ Searched' /\ Loaded'
      BY <2>1 DEF confVars, ConfInv, ConfShape, Searched, Loaded, NamesFile, FileValues, Usable
    <3>2. PICK line : line = KingpinParse(args)
      BY Zenon
    <3>3. FileRead' = FileRead /\ KingpinParse(args)' = line
      <4>1. args' = args
        BY <2>1 DEF confVars
      <4> QED BY <3>2, <4>1, NamedUnmoved, Zenon
    <3>4. SettingsExact'
      BY <2>1, <3>2, <3>3 DEF confVars, ConfInv, SettingsExact, Usable
    <3> QED
      BY <3>1, <3>4 DEF ConfInv
  <2>2. CASE ConfNext
    BY <2>2, SearchKept, LoadKept, BindKept, ParseKept DEF ConfNext
  <2> QED
    BY <2>1, <2>2
<1>2. ConfInv => SettingsExact
  BY DEF ConfInv
<1> QED
  BY ConfInitially, <1>1, <1>2, PTL DEF ConfSpec
=============================================================================
