------------------------------- MODULE MiRows -------------------------------
(***************************************************************************)
(* Session.QueryUnmarshal and Operation.Unmarshal (internal/mi): from the  *)
(* instances a WMI query yields to the rows of the caller's slice, one     *)
(* step for each round of the loop.  What GetInstance delivers is          *)
(*     [kind : "row", "nil", "empty" or "error", more,                     *)
(*      val : field -> a value, Null, Missing (no such property) or Bad    *)
(*            (a value type the code does not know)].                      *)
(***************************************************************************)
EXTENDS Naturals, Sequences

CONSTANTS Fields,        \* fields with an mi tag
          Unset,         \* a field that has not been set
          Null, Missing, Bad,
          Deliveries,    \* what GetInstance may deliver
          MaxDeliveries  \* bound: calls of GetInstance

VARIABLES method,   \* "QueryUnmarshal" or "Unmarshal"
          given,    \* what GetInstance has delivered
          elem,     \* elemValue, one variable for the whole query
          dst,      \* the caller's slice
          ended     \* "no", "done" or "error": how the loop was left

miVars == <<method, given, elem, dst, ended>>

MiStart(m) ==
  /\ method = m /\ given = <<>> /\ ended = "no"
  /\ elem = [f \in Fields |-> Unset] /\ dst = <<>>

MiInit == \E m \in {"QueryUnmarshal", "Unmarshal"} : MiStart(m)

\* An instance one of whose elements makes the method return an error: a value type it
\* does not know or, for Unmarshal, a property that is not there.
Refused(val) == \E f \in Fields : val[f] = Bad \/ (method = "Unmarshal" /\ val[f] = Missing)

\* The loop is left: with an error, which keeps the rows so far in the slice, or because
\* there is no instance or an empty one.  The element is not read again.
Leave(d) ==
  /\ \/ d.kind = "error" /\ ended' = "error"
     \/ d.kind = "row" /\ Refused(d.val) /\ ended' = "error"
     \/ d.kind \in {"nil", "empty"} /\ ended' = "done"
  /\ UNCHANGED <<elem, dst>>

\* A bug this could have: the last instance is taken for the end of the results.
MutAppendElem(d) ==
  /\ dst' = IF d.more THEN Append(dst, elem') ELSE dst
  /\ ended' = IF d.more THEN "no" ELSE "done"

AppendElem(d) ==
  /\ dst' = Append(dst, elem')
  /\ ended' = IF d.more THEN "no" ELSE "done"

\* QueryUnmarshal: a null string or a missing property leaves the field as it is.
SetFields(d) ==
  elem' = [f \in Fields |-> IF d.val[f] \in {Null, Missing} THEN elem[f] ELSE d.val[f]]

\* Unmarshal: a null string is "".
SetFieldsStrict(d) == elem' = [f \in Fields |-> IF d.val[f] = Null THEN Unset ELSE d.val[f]]

\* One round of the loop.
VisitInstance(d) ==
  /\ ended = "no" /\ Len(given) < MaxDeliveries
  /\ given' = Append(given, d) /\ UNCHANGED method
  /\ \/ Leave(d)
     \/ /\ d.kind = "row" /\ ~Refused(d.val)
        /\ \/ method = "QueryUnmarshal" /\ SetFields(d)
           \/ method = "Unmarshal" /\ SetFieldsStrict(d)
        /\ AppendElem(d)

MiNext == \E d \in Deliveries : VisitInstance(d)

MiSpec == MiInit /\ [][MiNext]_miVars

-----------------------------------------------------------------------------
\* v is what row i of QueryUnmarshal should have for field f: the instance's own value or,
\* where it gives none, that of the nearest instance before that has one.
Carried(i, f, v) ==
  LET has(k) == given[k].val[f] \notin {Null, Missing}
  IN \/ v = Unset /\ \A k \in 1..i : ~has(k)
     \/ \E k \in 1..i : v = given[k].val[f] /\ has(k) /\ \A m \in (k + 1)..i : ~has(m)

\* v is what row i should have for field f.
FieldOwn(i, f, v) ==
  IF method = "QueryUnmarshal" THEN Carried(i, f, v)
  ELSE v = IF given[i].val[f] = Null THEN Unset ELSE given[i].val[f]

IsRow(d) == d.kind = "row" /\ ~Refused(d.val)

\* QueryUnmarshal gives a row for each instance up to the end of the results, the last
\* included.  A field holds the instance's value; one that the instance leaves out or null
\* holds the value of the last row before that had one.  Unmarshal gives "" instead.  An
\* error is returned exactly when the last call failed or gave an instance that is refused.
MiRowsOwn ==
  /\ Len(dst) <= Len(given)
  /\ \A i \in DOMAIN given : i \in DOMAIN dst <=> IsRow(given[i])
  /\ \A i \in DOMAIN dst : \A f \in Fields : FieldOwn(i, f, dst[i][f])
  /\ ended = "error" <=> \E i \in DOMAIN given : ~IsRow(given[i]) /\ given[i].kind \in {"row", "error"}
=============================================================================
