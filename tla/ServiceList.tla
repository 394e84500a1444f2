---------------------------- MODULE ServiceList -----------------------------
(***************************************************************************)
(* Collect of the service collector: the list of all services is read into *)
(* a buffer the collector keeps, copied entry by entry to a channel, and   *)
(* handled by workers, which read each name from the buffer when its turn  *)
(* comes.  A Collect that timed out goes on beside the next one.  Sizes    *)
(* are counted in services.                                                *)
(***************************************************************************)
EXTENDS Naturals, Sequences, FiniteSets, Functions

CONSTANTS Collects,     \* calls of Collect
          Services,     \* the services that may exist
          Present,      \* the sets of services that may exist at first
          Included,     \* those the include and exclude patterns let through
          InitialSize,  \* the buffer Build makes; 200 KB in the code
          MaxChanges    \* bound: changes of the system's services

ASSUME ServicesAssumption ==
  IsFiniteSet(Services) /\ "" \notin Services /\ Present \subseteq SUBSET Services /\ InitialSize \in Nat

VARIABLES state,     \* service -> "absent", "running" or "stopped", as the SCM has it
          changes,   \* how often that has changed
          buffer,    \* c.queryAllServicesBuffer: the number of a buffer
          bufs,      \* buffers made so far: sequences of entries [name, state]
          pc,        \* call -> where it is
          need,      \* call -> the size it has asked for, or the number of services returned
          view,      \* call -> the buffer its slice lies in
          items,     \* call -> copies in servicesCh: [name pointer, state, done]
          taken,     \* call -> what its workers have taken up: pairs of name and state
          answer,    \* call -> pairs of name and state when the SCM answered
          disturbed  \* calls whose list another call has written over or replaced

listVars == <<state, changes, buffer, bufs, pc, need, view, items, taken, answer, disturbed>>
progress == <<need, view, items, taken, answer>>

Blank == [name |-> "", state |-> "none"]

ListInit ==
  /\ \E present \in Present : state = [s \in Services |-> IF s \in present THEN "running" ELSE "absent"]
  /\ changes = 0
  /\ buffer = 1 /\ bufs = << [i \in 1..InitialSize |-> Blank] >>
  /\ pc = [k \in Collects |-> "idle"] /\ need = [k \in Collects |-> 0] /\ view = [k \in Collects |-> 0]
  /\ items = [k \in Collects |-> <<>>] /\ taken = [k \in Collects |-> {}]
  /\ answer = [k \in Collects |-> {}] /\ disturbed = {}

\* A service is started, stopped, installed or removed.
Change(s) ==
  /\ changes < MaxChanges /\ changes' = changes + 1
  /\ \E v \in {"absent", "running", "stopped"} \ {state[s]} : state' = [state EXCEPT ![s] = v]
  /\ UNCHANGED <<buffer, bufs, pc, progress, disturbed>>

-----------------------------------------------------------------------------
(* queryAllServices *)

\* The other calls that still have to read what is in the collector's buffer.
Readers(k) == {j \in Collects \ {k} : pc[j] = "slice" \/ (pc[j] = "push" /\ view[j] = buffer)}

\* clear(c.queryAllServicesBuffer)
Clear(k) ==
  /\ pc[k] = "idle"
  /\ bufs' = [bufs EXCEPT ![buffer] = [i \in DOMAIN @ |-> Blank]]
  /\ pc' = [pc EXCEPT ![k] = "enum"]
  /\ disturbed' = disturbed \cup Readers(k)
  /\ UNCHANGED <<state, changes, buffer, progress>>

\* The services there are, and the order in which they are enumerated.
Installed == {s \in Services : state[s] # "absent"}
Listing == CHOOSE l \in Bijection(1..Cardinality(Installed), Installed) : TRUE

\* EnumServicesStatusEx fills the buffer as far as it goes.
Fill(buf) == [i \in DOMAIN buf |-> IF i <= Len(Listing)
                                   THEN [name |-> Listing[i], state |-> state[Listing[i]]]
                                   ELSE buf[i]]

\* A bug this could have: a list that does not fit is taken as far as it does.
MutEnumerate(k) ==
  /\ pc[k] = "enum"
  /\ bufs' = [bufs EXCEPT ![buffer] = Fill(@)]
  /\ pc' = [pc EXCEPT ![k] = "slice"]
  /\ need' = [need EXCEPT ![k] = IF Len(Listing) <= Len(bufs[buffer]) THEN Len(Listing)
                                                                     ELSE Len(bufs[buffer])]
  /\ answer' = [answer EXCEPT ![k] = {<<s, state[s]>> : s \in Installed}]
  /\ disturbed' = disturbed \cup Readers(k)
  /\ UNCHANGED <<state, changes, buffer, view, items, taken>>

\* It succeeds, asks for more, or fails.
Enumerate(k) ==
  /\ pc[k] = "enum"
  /\ \/ /\ bufs' = [bufs EXCEPT ![buffer] = Fill(@)]
        /\ disturbed' = disturbed \cup Readers(k)
        /\ need' = [need EXCEPT ![k] = Len(Listing)]
        /\ IF Len(Listing) <= Len(bufs[buffer])
           THEN /\ pc' = [pc EXCEPT ![k] = "slice"]
                /\ answer' = [answer EXCEPT ![k] = {<<s, state[s]>> : s \in Installed}]
           ELSE pc' = [pc EXCEPT ![k] = "grow"] /\ UNCHANGED answer
     \/ pc' = [pc EXCEPT ![k] = "returned"] /\ UNCHANGED <<bufs, need, answer, disturbed>>
  /\ UNCHANGED <<state, changes, buffer, view, items, taken>>

\* A bug this could have: the additional size is taken for the whole.
MutGrow(k) ==
  /\ pc[k] = "grow"
  /\ bufs' = IF Len(bufs) < 4 THEN Append(bufs, [i \in 1..(need[k] - Len(bufs[buffer])) |-> Blank]) ELSE bufs
  /\ buffer' = Len(bufs')
  /\ pc' = [pc EXCEPT ![k] = "enum"]
  /\ disturbed' = disturbed \cup {j \in Collects \ {k} : pc[j] = "slice"}
  /\ UNCHANGED <<state, changes, progress>>

\* The buffer is replaced by one of currentBufferSize + additionalBytesNeeded.
Grow(k) ==
  /\ pc[k] = "grow"
  /\ bufs' = Append(bufs, [i \in 1..need[k] |-> Blank])
  /\ buffer' = Len(bufs')
  /\ pc' = [pc EXCEPT ![k] = "enum"]
  /\ disturbed' = disturbed \cup {j \in Collects \ {k} : pc[j] = "slice"}
  /\ UNCHANGED <<state, changes, progress>>

\* The slice of services is made of whatever buffer the field now has.
Slice(k) ==
  /\ pc[k] = "slice"
  /\ view' = [view EXCEPT ![k] = buffer]
  /\ pc' = [pc EXCEPT ![k] = "push"]
  /\ UNCHANGED <<state, changes, buffer, bufs, need, items, taken, answer, disturbed>>

-----------------------------------------------------------------------------
(* Collect and its workers *)

\* An entry is copied to servicesCh: its state, and the address of its name.  Behind the
\* end of a buffer that is too short lies memory of any content; its name is not read right.
Push(k) ==
  LET i == Len(items[k]) + 1
      b == bufs[view[k]]
  IN /\ pc[k] = "push" /\ i <= need[k]
     /\ \E v \in IF i <= Len(b) THEN {b[i].state} ELSE {"none", "running", "stopped"} :
          items' = [items EXCEPT ![k] =
                      Append(@, [at |-> IF i <= Len(b) /\ b[i] # Blank THEN i ELSE 0,
                                 state |-> v, done |-> FALSE])]
     /\ UNCHANGED <<state, changes, buffer, bufs, pc, need, view, taken, answer, disturbed>>

\* A worker reads the name; if the patterns let it through, the service is opened by that
\* name and reported, or its error logged.
Work(k, i) ==
  LET item == items[k][i]
      name == IF item.at = 0 THEN "" ELSE bufs[view[k]][item.at].name
  IN /\ pc[k] = "push" /\ ~item.done
     /\ items' = [items EXCEPT ![k][i].done = TRUE]
     /\ taken' = IF name \in Included THEN [taken EXCEPT ![k] = @ \cup {<<name, item.state>>}] ELSE taken
     /\ UNCHANGED <<state, changes, buffer, bufs, pc, need, view, answer, disturbed>>

\* wg.Wait() of a Collect that has pushed all its entries.
Return(k) ==
  /\ pc[k] = "push" /\ Len(items[k]) = need[k] /\ \A i \in DOMAIN items[k] : items[k][i].done
  /\ pc' = [pc EXCEPT ![k] = "returned"]
  /\ UNCHANGED <<state, changes, buffer, bufs, progress, disturbed>>

ListStep(k) == \/ Clear(k) \/ Enumerate(k) \/ Grow(k) \/ Slice(k) \/ Push(k) \/ Return(k)
               \/ \E i \in DOMAIN items[k] : Work(k, i)

ListNext == (\E s \in Services : Change(s)) \/ (\E k \in Collects : ListStep(k))

\* Collect and its workers are runnable goroutines.
ListSpec == ListInit /\ [][ListNext]_listVars /\ \A k \in Collects : WF_listVars(ListStep(k))

-----------------------------------------------------------------------------
(* Properties *)

\* A Collect reports names with the states they had when the SCM answered it, and when it
\* returns it has taken up every service of that answer the patterns let through; unless a Collect
\* that overlaps it clears, fills or replaces the buffer while it still reads there.
ServiceRowsOwn ==
  \A k \in Collects \ disturbed :
    /\ taken[k] \subseteq answer[k]
    /\ pc[k] = "returned" => \A p \in answer[k] : p[1] \in Included => p \in taken[k]

\* The enumeration ends: each larger buffer is large enough until services are added.
EnumerationEnds == \A k \in Collects : pc[k] = "enum" ~> pc[k] = "returned"
=============================================================================
