------------------------------ MODULE IisNames ------------------------------
(***************************************************************************)
(* deduplicateIISNames (internal/collector/iis): what becomes of the rows  *)
(* of an IIS performance object whose instances carry "#n" suffixes, one   *)
(* step for each round of the loop.  A row is its name: [site, n], n = 0   *)
(* without a suffix; sites are numbers in the order of their names, and no *)
(* name begins with another.                                               *)
(***************************************************************************)
EXTENDS Naturals, Sequences, Functions

CONSTANT RowLists   \* the lists of rows an object may have

VARIABLES listed,   \* the rows as they were passed
          dedup,    \* the array the caller keeps; the slice's length, the map, a panic
          index     \* the round of the loop, 0 before the sort

iisVars == <<listed, dedup, index>>

Blank == [site |-> 0, n |-> 0]   \* a zeroed row: its name is ""

Before(a, b) == a.site < b.site \/ (a.site = b.site /\ a.n < b.n)

\* What slices.SortFunc may leave in the array.
Sortings(rows) ==
  {arr \in {[k \in DOMAIN rows |-> rows[p[k]]] : p \in Bijection(DOMAIN rows, DOMAIN rows)} :
     \A i, j \in DOMAIN rows : i < j => ~Before(arr[j], arr[i])}

\* The array after slices.Delete(s, i, j) of a slice of length len that starts at its
\* first element: the rows after j move to i, the places they leave are zeroed.
Delete(arr, len, i, j) ==
  [k \in DOMAIN arr |-> CASE k <= i \/ k > len    -> arr[k]
                          [] k <= len - (j - i)   -> arr[k + (j - i)]
                          [] OTHER                -> Blank]

\* What a round does with the row at its index, read when its turn comes.
Visit(st, at) ==
  LET row == st.arr[at]
      i   == at - 1             \* as Go counts
  IN IF row.n = 0 THEN st
     ELSE IF row.site \in DOMAIN st.indexes
          THEN [st EXCEPT !.indexes[row.site] = i]
     ELSE IF i > 1 \/ st.len = 0 THEN [st EXCEPT !.panic = TRUE]
     ELSE [st EXCEPT !.arr = Delete([st.arr EXCEPT ![1] = row], st.len, i, 1),
                     !.len = @ - (1 - i)]

IisStart(rows) ==
  /\ listed = rows /\ index = 0
  /\ dedup = [arr |-> rows, len |-> Len(rows), indexes |-> <<>>, panic |-> FALSE]

IisInit == \E rows \in RowLists : IisStart(rows)

SortNames ==
  /\ index = 0 /\ index' = 1 /\ UNCHANGED listed
  /\ \E arr \in Sortings(listed) : dedup' = [dedup EXCEPT !.arr = arr]

\* The range expression keeps the length it started with: every index is visited.
VisitName ==
  /\ index \in DOMAIN listed /\ ~dedup.panic
  /\ dedup' = Visit(dedup, index) /\ index' = index + 1 /\ UNCHANGED listed

IisNext == SortNames \/ VisitName

IisSpec == IisInit /\ [][IisNext]_iisVars

-----------------------------------------------------------------------------
\* The call is over: the caller keeps the slice it passed, all of the array, whatever the
\* function cut off.
Deduplicated == index > Len(listed) \/ dedup.panic

\* What the function's comment promises: one row per site, the one with the highest
\* suffix (the name it is presented under is left aside).
KeepsHighest ==
  LET highest == {x \in Range(listed) : \A y \in Range(listed) : y.site = x.site => y.n <= x.n}
  IN ~dedup.panic /\ Range(dedup.arr) = highest /\ IsInjective(dedup.arr)

\* The comment of deduplicateIISNames (iis.go:291-296): of each site the row with the
\* highest suffix is kept and the others are discarded.  Asked of lists as in its example,
\* in which a name with a suffix stands beside the one without.
HighestSuffixKept ==
  Deduplicated /\ (\A r \in Range(listed) : [site |-> r.site, n |-> 0] \in Range(listed))
    => KeepsHighest
=============================================================================
