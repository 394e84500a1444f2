------------------------- MODULE CollectorLifecycle -------------------------
(***************************************************************************)
(* What Build, Collect and Close do to one collector, step by step, when   *)
(* any call to the operating system may fail.  The methods are written     *)
(* with CollectorSteps (CollectorPrograms has those of every collector); a *)
(* behaviour picks one collector and the sub-collectors and conditions     *)
(* that hold.                                                              *)
(*                                                                         *)
(* Collection.Build keeps a collector whose Build failed when errors.Is    *)
(* finds one of six tolerated errors anywhere in what Build returned; that *)
(* collector is then collected like any other.  A panic in the goroutine   *)
(* collectCollector started is recovered there, one in a goroutine that    *)
(* Collect itself started ends the process.                                *)
(***************************************************************************)
EXTENDS CollectorSteps, Naturals, FiniteSets, FiniteSetsExt, Sequences

CONSTANTS Collectors, \* the collectors
          Program(_), \* their methods
          MaxConds,   \* bound: sub-collectors and conditions that hold together
          MaxFaults,  \* bound: calls that fail within one Build or Collect
          Large,      \* collectors of many sub-collectors, which get one less of both
          LeavesOpen, \* collector -> what its Close is known to leave open
          StopsEarly, \* collector -> what an earlier error is known to keep it from
          Unready,    \* collectors known to panic after a Build that failed
          Waits,      \* collectors whose Collect may wait for a worker that is not there
          Unclosable  \* collectors whose Close is known to panic after a Build that failed

VARIABLES c,       \* the collector
          prog,    \* its methods
          conds,   \* CollectorsEnabled and the conditions of the host
          phase,   \* what is going on
          pos,     \* goroutine -> its next block and step
          res,     \* query, handle or worker -> its state
          fields,  \* groups of fields that have been assigned
          fns,     \* collectorFns
          errs,    \* kinds of errors joined or returned in this phase
          bad,     \* goroutines with an error to report
          errCh,   \* errors in the channel of Collect
          tried,   \* resources this Collect has read or tried to read
          faults   \* failed calls in this phase

vars == <<c, prog, conds, phase, pos, res, fields, fns, errs, bad, errCh, tried, faults>>

StepsOf(code, ops) == UNION {{code[b].steps[s] : s \in {i \in DOMAIN code[b].steps :
                                code[b].steps[i].op \in ops}} : b \in DOMAIN code}
Resources == {st.arg : st \in StepsOf(prog.build, {"pdh", "pdhAny", "open", "start"})}
\* "dead" is a collector with an open PDH query and no worker, "lost" an open
\* query nobody refers to.
States   == {"nil", "dead", "live", "lost", "closed"}
IsOpen(r) == res[r] \in {"dead", "live", "lost"}

Bound(max, n) == IF n \in Large THEN max - 1 ELSE max

CondSets == {S \in UNION {kSubset(k, prog.conds) : k \in 0..Bound(MaxConds, c)} :
               \A k \in S \cap DOMAIN prog.under : prog.under[k] \in S}
Threads == CASE phase = "building"   -> <<Thread("", prog.build)>>
             [] phase = "collecting" -> prog.collect
             [] phase = "closing"    -> <<Thread("", prog.close)>>
             [] OTHER                -> <<>>

\* A step is taken when its condition holds, and passed over when it does not.
Holds(cond) == cond \in conds \cup fns \cup {""}
Seek(code, b, s) ==
  LET steps(k) == {i \in (IF k = b THEN s ELSE 1)..Len(code[k].steps) : Holds(code[k].steps[i].when)}
      blocks   == {k \in b..Len(code) : steps(k) # {}}
  IN  IF blocks = {} THEN [block |-> Len(code) + 1, step |-> 1]
      ELSE [block |-> Min(blocks), step |-> Min(steps(Min(blocks)))]

Begin(threads) == [t \in {u \in DOMAIN threads : threads[u].fn \in fns \cup {""}} |->
                     Seek(threads[t].code, 1, 1)]
Code(t) == Threads[t].code
Done(t) == pos[t].block > Len(Code(t))
Cur(t)  == Code(t)[pos[t].block].steps[pos[t].step]
OnErr(t) == Code(t)[pos[t].block].err

Init ==
  /\ c \in Collectors /\ prog = Program(c)
  /\ conds \in CondSets
  /\ phase = "building"
  /\ res = [r \in Resources |-> "nil"]
  /\ fields = {} /\ fns = {} /\ errs = {} /\ bad = {} /\ errCh = 0
  /\ tried = {} /\ faults = 0
  /\ pos = Begin(<<Thread("", prog.build)>>)

-----------------------------------------------------------------------------
(* Steps of a goroutine. *)

At(t, op) == ~Done(t) /\ Cur(t).op = op

Advance(t) == pos' = [pos EXCEPT ![t] = Seek(Code(t), @.block, @.step + 1)]

\* Mutant: a method returns at its first error, joined to others or not.
FailFast(t, e) ==
  /\ pos' = [pos EXCEPT ![t] = Seek(Code(t), Len(Code(t)) + 1, 1)]
  /\ errs' = IF OnErr(t) = "log" THEN errs ELSE errs \cup {e}
  /\ bad' = IF OnErr(t) = "log" THEN bad ELSE bad \cup {t}

\* The block is abandoned with an error of kind e.
Fail(t, e) ==
  /\ pos' = [pos EXCEPT ![t] =
               Seek(Code(t), IF OnErr(t) = "join" THEN @.block + 1 ELSE Len(Code(t)) + 1, 1)]
  /\ errs' = CASE OnErr(t) = "log"    -> errs
               [] OnErr(t) = "join"   -> errs \cup {e}
               [] OnErr(t) = "return" -> IF phase = "building" THEN {e} ELSE errs \cup {e}
  /\ bad' = IF OnErr(t) = "log" THEN bad ELSE bad \cup {t}

Fault == faults < Bound(MaxFaults, c) /\ faults' = faults + 1
Fine  == UNCHANGED <<errs, bad, faults>>
Kinds == {"tolerated", "fatal"}

\* A nil field is dereferenced, a nil function called.
Panic ==
  /\ phase' = IF phase = "collecting" /\ ~prog.spawn THEN "panicked" ELSE "crashed"
  /\ pos' = <<>> /\ bad' = {} /\ errCh' = 0
  /\ UNCHANGED <<c, prog, conds, res, fields, fns, errs, tried, faults>>

SetFields(t) ==
  /\ At(t, "set")
  /\ fields' = fields \cup {Cur(t).arg}
  /\ Advance(t) /\ Fine
  /\ UNCHANGED <<c, prog, conds, phase, res, fns, errCh, tried>>

AppendFn(t) ==
  /\ At(t, "fn")
  /\ fns' = fns \cup {Cur(t).arg}
  /\ Advance(t) /\ Fine
  /\ UNCHANGED <<c, prog, conds, phase, res, fields, errCh, tried>>

GetFields(t) ==
  /\ At(t, "get") \/ At(t, "each")
  /\ IF Cur(t).arg \in fields
     THEN /\ Advance(t) /\ Fine
          /\ UNCHANGED <<c, prog, conds, phase, res, fields, fns, errCh, tried>>
     ELSE Panic

\* No row, or none that the filters let through.
NoRows(t) ==
  /\ At(t, "each")
  /\ Advance(t) /\ Fine
  /\ UNCHANGED <<c, prog, conds, phase, res, fields, fns, errCh, tried>>

\* pdh.NewCollector: OpenQuery fails; a counter cannot be added and there is no
\* worker; the first collection fails; or all is well.  With counters taken from the
\* configuration it may also give up after OpenQuery and return no collector.
NewCollector(t) ==
  /\ At(t, "pdh") \/ At(t, "pdhAny")
  /\ \/ /\ res' = [res EXCEPT ![Cur(t).arg] = "live"]
        /\ Advance(t) /\ Fine
     \/ /\ Fault
        /\ \E s \in {"nil", "dead", "live"} \cup IF Cur(t).op = "pdhAny" THEN {"lost"} ELSE {} :
             res' = [res EXCEPT ![Cur(t).arg] = s]
        /\ \E e \in Kinds : Fail(t, e)
  /\ UNCHANGED <<c, prog, conds, phase, fields, fns, errCh, tried>>

OpenHandle(t) ==
  /\ At(t, "open") \/ At(t, "start")
  /\ \/ /\ res' = [res EXCEPT ![Cur(t).arg] = "live"]
        /\ Advance(t) /\ Fine
     \/ /\ Fault /\ \E e \in IF Cur(t).op = "open" THEN Kinds ELSE {"fatal"} : Fail(t, e)
        /\ res' = res
  /\ UNCHANGED <<c, prog, conds, phase, fields, fns, errCh, tried>>

CheckCall(t) ==
  /\ At(t, "check") \/ At(t, "validate")
  /\ \/ Advance(t) /\ Fine
     \/ Fault /\ \E e \in IF Cur(t).op = "check" THEN Kinds ELSE {"fatal"} : Fail(t, e)
  /\ UNCHANGED <<c, prog, conds, phase, res, fields, fns, errCh, tried>>

\* Collect on a collector without a worker, Query on a nil session, are errors.
Works(st) == IF st.op = "query" THEN st.arg \in fields ELSE res[st.arg] = "live"
UseResource(t) ==
  /\ At(t, "use") \/ At(t, "query")
  /\ tried' = tried \cup {Cur(t).arg}
  /\ \/ Works(Cur(t)) /\ Advance(t) /\ Fine
     \/ Works(Cur(t)) /\ Fault /\ Fail(t, "fatal")
     \/ ~Works(Cur(t)) /\ Fail(t, "fatal") /\ UNCHANGED faults
  /\ UNCHANGED <<c, prog, conds, phase, res, fields, fns, errCh>>

\* A send on a channel nobody made, or nobody receives from, waits for ever.
AskWorker(t) ==
  /\ At(t, "ask")
  /\ res[Cur(t).arg] = "live"
  /\ Advance(t) /\ Fine
  /\ UNCHANGED <<c, prog, conds, phase, res, fields, fns, errCh, tried>>

AwaitThread(t) ==
  /\ At(t, "await")
  /\ Done(Cur(t).arg) /\ Cur(t).arg \notin bad
  /\ Advance(t) /\ Fine
  /\ UNCHANGED <<c, prog, conds, phase, res, fields, fns, errCh, tried>>

\* Mutant: Close of a collector without a worker leaves its query open.
ShutLive(t) ==
  /\ At(t, "shut")
  /\ res' = [res EXCEPT ![Cur(t).arg] = IF @ = "live" THEN "closed" ELSE @]
  /\ Advance(t) /\ Fine
  /\ UNCHANGED <<c, prog, conds, phase, fields, fns, errCh, tried>>

\* Close of a nil *pdh.Collector does nothing.
ShutResource(t) ==
  /\ At(t, "shut")
  /\ res' = [res EXCEPT ![Cur(t).arg] = IF @ \in {"dead", "live"} THEN "closed" ELSE @]
  /\ Advance(t) /\ Fine
  /\ UNCHANGED <<c, prog, conds, phase, fields, fns, errCh, tried>>

\* Mutant: room for the errors of all but one.
ErrCapOneShort == IF prog.perFn THEN Cardinality(fns) - 1 ELSE prog.errCap - 1
ErrCap == IF prog.perFn THEN Cardinality(fns) ELSE prog.errCap

\* A goroutine that has ended with an error puts it into the channel.
Report(t) ==
  /\ phase = "collecting" /\ prog.spawn
  /\ Done(t) /\ t \in bad
  /\ errCh < ErrCap
  /\ errCh' = errCh + 1 /\ bad' = bad \ {t}
  /\ UNCHANGED <<c, prog, conds, phase, pos, res, fields, fns, errs, tried, faults>>

ThreadStep(t) ==
  \/ SetFields(t) \/ AppendFn(t) \/ GetFields(t) \/ NoRows(t)
  \/ NewCollector(t) \/ OpenHandle(t) \/ CheckCall(t) \/ UseResource(t)
  \/ AskWorker(t) \/ AwaitThread(t) \/ ShutResource(t) \/ Report(t)

-----------------------------------------------------------------------------
(* The phases. *)

AllDone == \A t \in DOMAIN pos : Done(t) /\ (prog.spawn => t \notin bad)

\* Mutant: a collector is kept whatever error its Build returned.
ToleratedAlways(kinds) == TRUE

\* Collection.Build: a tolerated error anywhere makes the whole error tolerated.
Tolerated(kinds) == kinds = {} \/ "tolerated" \in kinds

EndBuild ==
  /\ phase = "building" /\ \A t \in DOMAIN pos : Done(t)
  /\ phase' = IF Tolerated(errs) THEN "built" ELSE "rejected"
  /\ pos' = <<>> /\ bad' = {} /\ faults' = 0
  /\ UNCHANGED <<c, prog, conds, res, fields, fns, errs, errCh, tried>>

BeginCollect ==
  /\ phase \in {"built", "collected", "panicked"}
  /\ phase' = "collecting" /\ pos' = Begin(prog.collect)
  /\ errs' = {} /\ bad' = {} /\ errCh' = 0 /\ tried' = {} /\ faults' = 0
  /\ UNCHANGED <<c, prog, conds, res, fields, fns>>

EndCollect ==
  /\ phase = "collecting" /\ AllDone
  /\ phase' = "collected" /\ pos' = <<>> /\ bad' = {} /\ errCh' = 0
  /\ UNCHANGED <<c, prog, conds, res, fields, fns, errs, tried, faults>>

BeginClose ==
  /\ phase \in {"built", "collected", "panicked"}
  /\ phase' = "closing" /\ pos' = Begin(<<Thread("", prog.close)>>)
  /\ errs' = {} /\ bad' = {} /\ tried' = {} /\ faults' = 0
  /\ UNCHANGED <<c, prog, conds, res, fields, fns, errCh>>

EndClose ==
  /\ phase = "closing" /\ \A t \in DOMAIN pos : Done(t)
  /\ phase' = "closed" /\ pos' = <<>> /\ bad' = {}
  /\ UNCHANGED <<c, prog, conds, res, fields, fns, errs, errCh, tried, faults>>

Going == (\E t \in DOMAIN pos : ThreadStep(t)) \/ EndBuild \/ EndCollect \/ EndClose
Next  == Going \/ BeginCollect \/ BeginClose
Spec  == Init /\ [][Next]_vars /\ WF_vars(Going)

-----------------------------------------------------------------------------
\* What an enabled part of Collect reads.
Reads == {st \in UNION {StepsOf(prog.collect[t].code, {"use", "query"}) : t \in
                          {u \in DOMAIN prog.collect : prog.collect[u].fn \in fns \cup {""}}} :
            Holds(st.when)}

\* Whatever fails in Build or Collect, no goroutine that Collect starts panics: the
\* sub-collectors that exchange, hyperv, mssql, mscluster, netframework, file and
\* service run in goroutines of their own, outside collectCollector's recover, only
\* use descriptors their build has made.  A Collect after a Build whose error
\* Collection.Build tolerated reports an error or partial data, it never panics on a
\* descriptor Build did not get to.
NoPanic ==
  /\ phase = "crashed" => c \in Unclosable
  /\ phase = "panicked" => c \in Unready

Known(exceptions, n) == IF n \in DOMAIN exceptions THEN exceptions[n] ELSE {}

\* After Close no performance query, handle or worker of the collector is left but the
\* ones its Close method never mentions.
CloseReleases == phase = "closed" => \A r \in DOMAIN res : IsOpen(r) => r \in Known(LeavesOpen, c)

\* One performance object or WMI class that cannot be read never keeps Collect from
\* the others: when Collect has returned, every query of what is enabled has been tried.
ReadsAll == phase = "collected" =>
  \A st \in Reads : st.arg \in tried \cup Known(StopsEarly, c)

\* A goroutine of Collect that waits: for a worker, for another goroutine, for room in
\* the channel of errors.
Waiting(t) ==
  \/ At(t, "ask") /\ res[Cur(t).arg] # "live"
  \/ At(t, "await") /\ (~Done(Cur(t).arg) \/ Cur(t).arg \in bad)
  \/ Done(t) /\ t \in bad /\ prog.spawn /\ errCh >= ErrCap

\* Collect returns: no goroutine of it waits for one that waits for it, and the channel
\* of errors, read only after all have ended, has room for all of them.  Each step takes
\* a goroutine further, so a Collect that can always go on ends.
CollectNeverStuck == phase = "collecting" /\ c \notin Waits =>
  AllDone \/ \E t \in DOMAIN pos : ~Waiting(t) /\ (~Done(t) \/ t \in bad)

\* collection.go says of Build "it will try to build all collectors and return all
\* errors": a Build that failed for a reason that is not tolerated is reported.
BuildReturnsAllErrors == phase = "built" => "fatal" \notin errs
=============================================================================
