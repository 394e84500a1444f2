---------------------- MODULE CollectorLifecycleProofs ----------------------
(***************************************************************************)
(* The properties of CollectorLifecycle for any number of failing calls    *)
(* and every choice of sub-collectors and conditions, from the rules of    *)
(* CollectorDiscipline by which the collectors' methods are written.       *)
(***************************************************************************)
EXTENDS CollectorDiscipline, FiniteSetTheorems, WellFoundedInduction, TLAPS

(* Seek: the next step to take. *)

\* Every non-empty set of natural numbers has a least element, which Min is.
LEMMA MinIsLeast ==
  ASSUME NEW S, S \subseteq Nat, S # {}
  PROVE  Min(S) \in S /\ \A y \in S : Min(S) <= y
<1> DEFINE R == {ss \in Nat \X Nat : ss[1] < ss[2]}
<1>1. IsWellFoundedOn(R, Nat)
  BY NatLessThanWellFounded, Zenon DEF OpToRel
<1>2. PICK x \in S : \A y \in S : ~(<<y, x>> \in R)
  <2> HIDE DEF R
  <2> QED BY <1>1, WFMin, Zenon
<1>3. ASSUME NEW y \in S, ~(x <= y) PROVE FALSE
  <2>1. y < x /\ x \in Nat /\ y \in Nat
    BY <1>3
  <2>2. <<y, x>> \in R
    BY <2>1
  <2> QED BY <1>2, <2>2
<1> QED BY <1>3, Zenon DEF Min

\* A goroutine stands at a step whose condition holds, or behind the last block.
GoodPos(code, p) ==
  /\ p \in [block : Nat, step : Nat] /\ p.block \in 1..(Len(code) + 1)
  /\ p.block <= Len(code) => p \in Places(code) /\ Holds(StepAt(code, p).when)

LEMMA CodeShape ==
  ASSUME NEW code, IsCode(code)
  PROVE  /\ Len(code) \in Nat /\ DOMAIN code = 1..Len(code)
         /\ \A b \in DOMAIN code : /\ Len(code[b].steps) \in Nat
                                   /\ DOMAIN code[b].steps = 1..Len(code[b].steps)
         /\ \A q \in Places(code) : /\ q \in [block : Nat \ {0}, step : Nat \ {0}]
                                    /\ q.block \in DOMAIN code /\ q.step \in DOMAIN code[q.block].steps
         /\ \A b \in DOMAIN code : \A s \in DOMAIN code[b].steps : [block |-> b, step |-> s] \in Places(code)
<1>1. Len(code) \in Nat /\ DOMAIN code = 1..Len(code)
  BY DEF IsCode
<1>2. ASSUME NEW b \in DOMAIN code
      PROVE  Len(code[b].steps) \in Nat /\ DOMAIN code[b].steps = 1..Len(code[b].steps)
  BY <1>2 DEF IsCode
<1>3. ASSUME NEW q \in Places(code)
      PROVE  /\ q \in [block : Nat \ {0}, step : Nat \ {0}]
             /\ q.block \in DOMAIN code /\ q.step \in DOMAIN code[q.block].steps
  <2>0. PICK b \in DOMAIN code : \E s \in DOMAIN code[b].steps : q = [block |-> b, step |-> s]
    BY DEF Places
  <2>1. PICK s \in DOMAIN code[b].steps : q = [block |-> b, step |-> s]
    BY <2>0
  <2>2. b \in Nat \ {0} /\ s \in Nat \ {0}
    BY <1>1, <1>2
  <2> QED BY <2>1, <2>2
<1>4. ASSUME NEW b \in DOMAIN code, NEW s \in DOMAIN code[b].steps
      PROVE  [block |-> b, step |-> s] \in Places(code)
  BY DEF Places
<1> QED BY <1>1, <1>2, <1>3, <1>4

\* Seek finds the first step from a place on whose condition holds: no step in between
\* is one the method would take.
LEMMA SeekFinds ==
  ASSUME NEW code, IsCode(code), NEW b \in 1..(Len(code) + 1), NEW s \in Nat \ {0}
  PROVE  /\ GoodPos(code, Seek(code, b, s)) /\ Seek(code, b, s).block >= b
         /\ b <= Len(code) => ~Before(Seek(code, b, s), [block |-> b, step |-> s])
         /\ \A q \in Places(code) :
              /\ Holds(StepAt(code, q).when)
              /\ ~Before(q, [block |-> b, step |-> s])
              => ~Before(q, Seek(code, b, s))
<1> DEFINE First(k) == IF k = b THEN s ELSE 1
           Steps(k) == {i \in First(k)..Len(code[k].steps) : Holds(code[k].steps[i].when)}
           Blocks   == {k \in b..Len(code) : Steps(k) # {}}
           R        == Seek(code, b, s)
<1>0. R = IF Blocks = {} THEN [block |-> Len(code) + 1, step |-> 1]
          ELSE [block |-> Min(Blocks), step |-> Min(Steps(Min(Blocks)))]
  BY DEF Seek
<1>1. /\ Len(code) \in Nat /\ DOMAIN code = 1..Len(code)
      /\ \A k \in DOMAIN code : /\ Len(code[k].steps) \in Nat
                                /\ DOMAIN code[k].steps = 1..Len(code[k].steps)
  BY CodeShape
<1>2. Blocks \subseteq 1..Len(code) /\ \A k \in 1..Len(code) : Steps(k) \subseteq DOMAIN code[k].steps
  BY <1>1
<1>3. ASSUME NEW q \in Places(code), Holds(StepAt(code, q).when),
             ~Before(q, [block |-> b, step |-> s])
      PROVE  q.block \in Blocks /\ q.step \in Steps(q.block)
  <2>1. /\ q.block \in Nat /\ q.step \in Nat /\ q.block \in 1..Len(code)
        /\ q.step \in 1..Len(code[q.block].steps)
    BY <1>1, CodeShape
  <2>2. q.block >= b /\ q.step >= First(q.block)
    BY <1>3, <2>1 DEF Before
  <2>3. q.step \in Steps(q.block)
    BY <1>1, <1>3, <2>1, <2>2 DEF StepAt
  <2> QED BY <1>1, <2>1, <2>2, <2>3
<1> HIDE DEF R
<1>4. CASE Blocks = {}
  <2>1. R = [block |-> Len(code) + 1, step |-> 1]
    BY <1>0, <1>4
  <2> HIDE DEF Blocks
  <2>2. b <= Len(code) => ~Before(R, [block |-> b, step |-> s])
    BY <1>1, <2>1 DEF Before
  <2> QED BY <1>1, <1>3, <1>4, <2>1, <2>2 DEF R, GoodPos
<1>5. CASE Blocks # {}
  <2> DEFINE m == Min(Blocks)
             n == Min(Steps(m))
  <2>0. Blocks \subseteq Nat
    BY <1>1, <1>2
  <2>1. m \in Blocks /\ \A k \in Blocks : m <= k
    <3> HIDE DEF Blocks
    <3> QED BY <1>5, <2>0, MinIsLeast, Zenon
  <2> HIDE DEF m
  <2>2. m \in 1..Len(code) /\ m >= b /\ Steps(m) # {} /\ Steps(m) \subseteq Nat
    BY <1>1, <1>2, <2>1
  <2>3. n \in Steps(m) /\ \A k \in Steps(m) : n <= k
    <3> HIDE DEF Steps
    <3> QED BY <2>2, MinIsLeast
  <2> HIDE DEF n
  <2>4. n \in DOMAIN code[m].steps /\ Holds(code[m].steps[n].when)
    BY <1>2, <2>2, <2>3
  <2>5. R = [block |-> m, step |-> n]
    BY <1>0, <1>5, Zenon DEF m, n
  <2>6. GoodPos(code, R)
    <3>1. R \in Places(code) /\ m \in Nat /\ n \in Nat
      BY <1>1, <2>2, <2>4, <2>5, CodeShape
    <3> QED BY <1>1, <2>2, <2>4, <2>5, <3>1 DEF GoodPos, StepAt
  <2>7. ASSUME NEW q \in Places(code), Holds(StepAt(code, q).when),
               ~Before(q, [block |-> b, step |-> s])
        PROVE  ~Before(q, R)
    <3>1. q.block \in Blocks /\ q.step \in Steps(q.block) /\ q.block \in Nat /\ q.step \in Nat
      BY <1>3, <2>7, CodeShape, Zenon
    <3>2. m <= q.block /\ (q.block = m => n <= q.step)
      BY <2>1, <2>3, <3>1, Zenon
    <3>3. m \in Nat /\ n \in Nat
      BY <1>1, <2>2, <2>3
    <3> QED BY <2>5, <3>1, <3>2, <3>3 DEF Before
  <2>8. ~Before(R, [block |-> b, step |-> s])
    <3>1. m \in Nat /\ n \in Nat /\ (m = b => n >= s)
      BY <1>1, <2>2, <2>3
    <3> QED BY <2>2, <2>5, <3>1 DEF Before
  <2> QED BY <2>2, <2>5, <2>6, <2>7, <2>8 DEF R
<1> QED BY <1>4, <1>5

-----------------------------------------------------------------------------
(* Where the goroutines are. *)

Active == {"building", "collecting", "closing"}
Used   == {"built", "collecting", "collected", "panicked", "closing", "closed"}
Phases == Active \cup Used \cup {"rejected", "crashed"}

Enabled == {u \in DOMAIN prog.collect : prog.collect[u].fn \in fns \cup {""}}

Shape ==
  /\ c \in Collectors /\ prog = Program(c) /\ phase \in Phases
  /\ phase \in {"building", "closing"} => DOMAIN pos = {1}
  /\ phase = "collecting" => DOMAIN pos = Enabled
  /\ phase \notin Active => DOMAIN pos = {}
  /\ \A t \in DOMAIN pos : GoodPos(Code(t), pos[t])

LEMMA ProgramShape ==
  ASSUME c \in Collectors, prog = Program(c)
  PROVE  WellFormed(prog)
BY WellFormedAssumption

\* The code a goroutine runs.
LEMMA CodeOf ==
  ASSUME Shape
  PROVE  /\ phase = "building" => Code(1) = prog.build
         /\ phase = "closing" => Code(1) = prog.close
         /\ phase = "collecting" => \A t \in DOMAIN pos : t \in DOMAIN prog.collect
                                                        /\ Code(t) = prog.collect[t].code
         /\ \A t \in DOMAIN pos : IsCode(Code(t))
<1>1. phase = "building" => Code(1) = prog.build
  BY Zenon DEF Code, Threads, Thread
<1>2. phase = "closing" => Code(1) = prog.close
  BY Zenon DEF Code, Threads, Thread
<1>3. phase = "collecting" => \A t \in DOMAIN pos : t \in DOMAIN prog.collect
                                                    /\ Code(t) = prog.collect[t].code
  BY Zenon DEF Code, Threads, Shape, Enabled
<1>4. \A t \in DOMAIN pos : IsCode(Code(t))
  <2>1. WellFormed(prog)
    BY ProgramShape DEF Shape
  <2> QED BY <1>1, <1>2, <1>3, <2>1 DEF Shape, WellFormed, Active
<1> QED BY <1>1, <1>2, <1>3, <1>4

\* A goroutine that is not done stands at a step of its code.
LEMMA AtStep ==
  ASSUME Shape, NEW t \in DOMAIN pos, ~Done(t)
  PROVE  /\ pos[t] \in Places(Code(t)) /\ Cur(t) = StepAt(Code(t), pos[t]) /\ Holds(Cur(t).when)
         /\ pos[t].block \in Nat \ {0} /\ pos[t].step \in Nat \ {0} /\ pos[t].block <= Len(Code(t))
         /\ Len(Code(t)) \in Nat
<1>1. IsCode(Code(t)) /\ GoodPos(Code(t), pos[t])
  BY CodeOf DEF Shape
<1>2. Len(Code(t)) \in Nat
  BY <1>1, CodeShape
<1>3. pos[t].block <= Len(Code(t)) /\ pos[t] \in Places(Code(t)) /\ Holds(StepAt(Code(t), pos[t]).when)
  BY <1>1, <1>2 DEF GoodPos, Done
<1> QED BY <1>1, <1>2, <1>3, CodeShape DEF Cur, StepAt

\* A finished goroutine has every step of its code behind it.
LEMMA DonePast ==
  ASSUME Shape, NEW t \in DOMAIN pos, Done(t), NEW q \in Places(Code(t))
  PROVE  Before(q, pos[t])
<1>1. IsCode(Code(t)) /\ GoodPos(Code(t), pos[t])
  BY CodeOf DEF Shape
<1> QED BY <1>1, CodeShape DEF GoodPos, Done, Before

-----------------------------------------------------------------------------
(* What a step of a goroutine does. *)

\* It reports, panics, goes on, or fails.
Moves(t) ==
  /\ ~Done(t) /\ phase' = phase /\ errCh' = errCh
  /\ fields' = fields \cup (IF Cur(t).op = "set" THEN {Cur(t).arg} ELSE {})
  /\ fns' = fns \cup (IF Cur(t).op = "fn" THEN {Cur(t).arg} ELSE {})
  /\ tried' = tried \cup (IF Cur(t).op \in Reading THEN {Cur(t).arg} ELSE {})
  /\ \/ Advance(t) /\ errs' = errs /\ bad' = bad
     \/ /\ Cur(t).op \in Failing
        /\ \E e \in Kinds : Fail(t, e) /\ (Cur(t).op \in {"start", "validate"} \cup Reading => e = "fatal")
Panics(t) == ~Done(t) /\ Panic /\ Cur(t).op \in Getting /\ Cur(t).arg \notin fields

LEMMA StepKinds ==
  ASSUME NEW t \in DOMAIN pos, ThreadStep(t)
  PROVE  UNCHANGED <<c, prog, conds>> /\ (Moves(t) \/ Panics(t) \/ Report(t))
<1> USE DEF At, Fine, Opening, Reading, Getting, Failing, Kinds
<1>1. CASE SetFields(t)
  BY <1>1 DEF SetFields, Moves
<1>2. CASE AppendFn(t)
  BY <1>2 DEF AppendFn, Moves
<1>3. CASE GetFields(t)
  BY <1>3 DEF GetFields, Moves, Panics, Panic
<1>4. CASE NoRows(t)
  BY <1>4 DEF NoRows, Moves
<1>5. CASE NewCollector(t)
  BY <1>5 DEF NewCollector, Moves
<1>6. CASE OpenHandle(t)
  BY <1>6 DEF OpenHandle, Moves
<1>7. CASE CheckCall(t)
  BY <1>7 DEF CheckCall, Moves
<1>8. CASE UseResource(t)
  BY <1>8 DEF UseResource, Moves
<1>9. CASE AskWorker(t) \/ AwaitThread(t) \/ ShutResource(t)
  BY <1>9 DEF AskWorker, AwaitThread, ShutResource, Moves
<1>10. CASE Report(t)
  BY <1>10 DEF Report
<1> QED BY <1>1, <1>2, <1>3, <1>4, <1>5, <1>6, <1>7, <1>8, <1>9, <1>10, Zenon DEF ThreadStep

\* A step leaves the other goroutines where they are, and conditions that hold go on to.
LEMMA MoveFrame ==
  ASSUME Shape, NEW t \in DOMAIN pos, Moves(t), UNCHANGED <<c, prog, conds>>
  PROVE  /\ DOMAIN pos' = DOMAIN pos /\ \A u \in DOMAIN pos : u # t => pos'[u] = pos[u]
         /\ \A u : Code(u)' = Code(u)
         /\ \A w : Holds(w) => Holds(w)'
<1>1. DOMAIN pos' = DOMAIN pos /\ \A u \in DOMAIN pos : u # t => pos'[u] = pos[u]
  BY DEF Moves, Advance, Fail
<1>2. \A u : Code(u)' = Code(u)
  BY DEF Moves, Code, Threads
<1>3. \A w : Holds(w) => Holds(w)'
  BY Zenon DEF Moves, Holds
<1> QED BY <1>1, <1>2, <1>3

\* It goes forward, and over no step that is to be taken but those its failure skips; when
\* Build returns an error of the program's own, that error is all there is.
LEMMA MoveOn ==
  ASSUME Shape, NEW t \in DOMAIN pos, Moves(t)
  PROVE  /\ GoodPos(Code(t), pos'[t]) /\ pos'[t].block >= pos[t].block /\ Before(pos[t], pos'[t])
         /\ \A z \in Places(Code(t)) :
              Holds(StepAt(Code(t), z).when) /\ Before(pos[t], z) /\ z.block = pos'[t].block
                => ~Before(z, pos'[t])
         /\ \A z \in Places(Code(t)) :
              Holds(StepAt(Code(t), z).when) /\ Before(pos[t], z) =>
                \/ ~Before(z, pos'[t])
                \/ /\ Skips(Code(t), pos[t], z)
                   /\ phase = "building" /\ ~Abandons(Code(t), pos[t], z)
                        => pos'[t].block = Len(Code(t)) + 1 /\ errs' = {"fatal"}
<1> DEFINE code == Code(t)
           p == pos[t]
           skip(z) == /\ Skips(code, p, z)
                      /\ phase = "building" /\ ~Abandons(code, p, z)
                           => pos'[t].block = Len(code) + 1 /\ errs' = {"fatal"}
<1>0. /\ IsCode(code) /\ p \in Places(code) /\ Len(code) \in Nat
      /\ p.block \in Nat \ {0} /\ p.step \in Nat \ {0} /\ p.block <= Len(code)
      /\ Cur(t) = StepAt(code, p)
  BY AtStep, CodeOf DEF Moves
<1>1. CASE Advance(t)
  <2>1. pos'[t] = Seek(code, p.block, p.step + 1)
    BY <1>1 DEF Advance
  <2>2. /\ GoodPos(code, pos'[t]) /\ pos'[t].block >= p.block
        /\ \A q \in Places(code) :
             /\ Holds(StepAt(code, q).when)
             /\ ~Before(q, [block |-> p.block, step |-> p.step + 1])
             => ~Before(q, pos'[t])
    <3>1. p.block \in 1..(Len(code) + 1) /\ p.step + 1 \in Nat \ {0}
      BY <1>0
    <3> HIDE DEF code, p
    <3> QED BY <1>0, <2>1, <3>1, SeekFinds
  <2>3. Before(p, pos'[t])
    <3>1. ~Before(pos'[t], [block |-> p.block, step |-> p.step + 1])
      <4>1. p.block \in 1..(Len(code) + 1) /\ p.step + 1 \in Nat \ {0}
        BY <1>0
      <4> HIDE DEF code, p
      <4> QED BY <1>0, <2>1, <4>1, SeekFinds
    <3> QED BY <1>0, <2>2, <3>1 DEF Before, GoodPos
  <2>4. ASSUME NEW z \in Places(code), Before(p, z)
        PROVE  ~Before(z, [block |-> p.block, step |-> p.step + 1])
    <3>1. z.block \in Nat /\ z.step \in Nat
      BY <1>0, CodeShape
    <3> QED BY <1>0, <2>4, <3>1 DEF Before
  <2> QED BY <2>2, <2>3, <2>4
<1>2. ASSUME NEW e \in Kinds, Fail(t, e), Cur(t).op \in Failing,
             Cur(t).op \in {"start", "validate"} \cup Reading => e = "fatal"
      PROVE  /\ GoodPos(code, pos'[t]) /\ pos'[t].block >= p.block /\ Before(p, pos'[t])
             /\ \A z \in Places(code) : Holds(StepAt(code, z).when) /\ z.block = pos'[t].block
                                           => ~Before(z, pos'[t])
             /\ \A z \in Places(code) : Holds(StepAt(code, z).when) /\ Before(p, z)
                                           => ~Before(z, pos'[t]) \/ skip(z)
  <2> DEFINE b == IF OnErr(t) = "join" THEN p.block + 1 ELSE Len(code) + 1
  <2>1. pos'[t] = Seek(code, b, 1) /\ OnErr(t) = code[p.block].err
    BY <1>2 DEF Fail, OnErr
  <2>2. b \in 1..(Len(code) + 1) /\ b >= p.block /\ b > p.block
    BY <1>0
  <2>3. /\ GoodPos(code, pos'[t]) /\ pos'[t].block >= b
        /\ \A q \in Places(code) :
             /\ Holds(StepAt(code, q).when) /\ ~Before(q, [block |-> b, step |-> 1])
             => ~Before(q, pos'[t])
    <3> HIDE DEF code, p, b
    <3> QED BY <1>0, <2>1, <2>2, SeekFinds
  <2>4. pos'[t].block \in Nat /\ pos'[t].block <= Len(code) + 1
    BY <1>0, <2>3 DEF GoodPos
  <2>5. ASSUME NEW z \in Places(code), Holds(StepAt(code, z).when), Before(p, z), Before(z, pos'[t])
        PROVE  skip(z)
    <3>1. Before(z, [block |-> b, step |-> 1])
      BY <2>3, <2>5
    <3>2. z.block < b
      <4>1. z.block \in Nat /\ z.step \in Nat \ {0}
        BY <1>0, CodeShape
      <4> QED BY <1>0, <2>2, <3>1, <4>1 DEF Before
    <3>3. Skips(code, p, z)
      <4>1. z.block \in Nat /\ z.step \in Nat \ {0}
        BY <1>0, CodeShape
      <4>2. p.block = z.block \/ code[p.block].err # "join"
        BY <1>0, <2>1, <2>5, <3>2, <4>1 DEF Before
      <4> QED BY <1>0, <1>2, <2>5, <4>2 DEF Skips
    <3>4. ASSUME phase = "building", ~Abandons(code, p, z)
          PROVE  pos'[t].block = Len(code) + 1 /\ errs' = {"fatal"}
      <4>1. code[p.block].err = "return" /\ Cur(t).op \in {"start", "validate"} \cup Reading
        BY <1>0, <3>3, <3>4 DEF Abandons
      <4>2. OnErr(t) = "return" /\ e = "fatal" /\ b = Len(code) + 1
        BY <1>2, <2>1, <4>1
      <4>3. errs' = {"fatal"}
        BY <1>2, <3>4, <4>2 DEF Fail
      <4> QED BY <1>0, <2>3, <2>4, <4>2, <4>3
    <3> QED BY <3>3, <3>4
  <2>6. p.block \in Nat /\ b \in Nat
    BY <1>0
  <2>7. ASSUME NEW z \in Places(code), Holds(StepAt(code, z).when), z.block = pos'[t].block
        PROVE  ~Before(z, pos'[t])
    <3>1. z.block \in Nat /\ z.step \in Nat \ {0}
      BY <1>0, CodeShape
    <3>2. ~Before(z, [block |-> b, step |-> 1])
      BY <2>3, <2>6, <2>7, <3>1 DEF Before
    <3> QED BY <2>3, <2>7, <3>2
  <2>8. Before(p, pos'[t])
    BY <2>2, <2>3, <2>4, <2>6 DEF Before
  <2> QED BY <2>2, <2>3, <2>4, <2>5, <2>6, <2>7, <2>8
<1> QED BY <1>1, <1>2 DEF Moves

\* Begin puts every enabled goroutine at its first step.
LEMMA BeginFinds ==
  ASSUME NEW threads, NEW t \in DOMAIN Begin(threads), IsCode(threads[t].code)
  PROVE  /\ GoodPos(threads[t].code, Begin(threads)[t])
         /\ \A q \in Places(threads[t].code) :
              Holds(StepAt(threads[t].code, q).when) => ~Before(q, Begin(threads)[t])
<1>1. Begin(threads)[t] = Seek(threads[t].code, 1, 1)
  BY Zenon DEF Begin
<1>2. 1 \in 1..(Len(threads[t].code) + 1)
  BY CodeShape
<1>3. ASSUME NEW q \in Places(threads[t].code) PROVE ~Before(q, [block |-> 1, step |-> 1])
  BY CodeShape DEF Before
<1> QED BY <1>1, <1>2, <1>3, SeekFinds

\* The one goroutine of Build and of Close.
LEMMA BeginOne ==
  ASSUME NEW code
  PROVE  DOMAIN Begin(<<Thread("", code)>>) = {1} /\ <<Thread("", code)>>[1].code = code
<1> DEFINE one == <<Thread("", code)>>
<1>1. DOMAIN one = {1} /\ one[1] = Thread("", code)
  OBVIOUS
<1>2. Thread("", code).fn = "" /\ Thread("", code).code = code
  BY DEF Thread
<1>3. DOMAIN Begin(one) = {u \in DOMAIN one : one[u].fn \in fns \cup {""}}
  BY DEF Begin
<1> HIDE DEF one
<1> QED BY <1>1, <1>2, <1>3, Zenon DEF one

\* Collect leaves collectorFns alone, so that its goroutines and conditions stay the same.
LEMMA CollectRegistersNone ==
  ASSUME Shape, phase = "collecting", NEW t \in DOMAIN pos, Moves(t)
  PROVE  fns' = fns
<1>1. t \in DOMAIN prog.collect /\ Code(t) = prog.collect[t].code
  BY CodeOf
<1>2. pos[t] \in Places(Code(t)) /\ Cur(t) = StepAt(Code(t), pos[t])
  BY AtStep, Zenon DEF Moves
<1>3. StepsWith(Code(t), Opening \cup {"fn", "shut"}) = {}
  BY <1>1, ProgramShape, Zenon DEF Shape, WellFormed
<1>4. Cur(t).op # "fn"
  BY <1>2, <1>3 DEF StepsWith
<1> QED BY <1>4 DEF Moves

LEMMA ShapeKept ==
  ASSUME Shape, [Next]_vars
  PROVE  Shape'
<1>1. ASSUME NEW t \in DOMAIN pos, ThreadStep(t) PROVE Shape'
  <2>0. UNCHANGED <<c, prog, conds>> /\ (Moves(t) \/ Panics(t) \/ Report(t))
    BY <1>1, StepKinds
  <2>1. CASE Moves(t)
    <3>1. /\ DOMAIN pos' = DOMAIN pos /\ \A u \in DOMAIN pos : u # t => pos'[u] = pos[u]
          /\ \A u : Code(u)' = Code(u)
          /\ \A w : Holds(w) => Holds(w)'
      BY <2>0, <2>1, MoveFrame, Zenon
    <3>2. GoodPos(Code(t), pos'[t])
      BY <2>1, MoveOn, Zenon
    <3>3. ASSUME NEW u \in DOMAIN pos' PROVE GoodPos(Code(u), pos[u])'
      BY <3>1, <3>2 DEF GoodPos, Shape
    <3>4. phase = "collecting" => Enabled' = Enabled
      <4>1. phase = "collecting" => fns' = fns
        BY <2>1, CollectRegistersNone
      <4> QED BY <2>0, <4>1 DEF Enabled
    <3>5. c' = c /\ prog' = prog /\ phase' = phase
      BY <2>0, <2>1 DEF Moves
    <3> QED BY <3>1, <3>3, <3>4, <3>5 DEF Shape
  <2>2. CASE Panics(t)
    <3>1. pos' = <<>> /\ phase' \in {"panicked", "crashed"}
      BY <2>2 DEF Panics, Panic
    <3>2. DOMAIN pos' = {}
      BY <3>1
    <3> QED BY <2>0, <3>1, <3>2 DEF Shape, Phases, Active, Used
  <2>3. CASE Report(t)
    BY <2>3, Zenon DEF Report, Shape, GoodPos, Holds, Code, Threads, Enabled
  <2> QED BY <2>0, <2>1, <2>2, <2>3
<1>2. CASE EndBuild \/ EndCollect \/ EndClose
  <2>1. /\ pos' = <<>> /\ UNCHANGED <<c, prog>>
        /\ phase' \in {"built", "rejected", "collected", "closed"}
    BY <1>2 DEF EndBuild, EndCollect, EndClose
  <2>2. DOMAIN pos' = {}
    BY <2>1
  <2> QED BY <2>1, <2>2 DEF Shape, Phases, Active, Used
<1>3. CASE BeginCollect
  <2>0. /\ UNCHANGED <<c, prog, conds, fns>> /\ phase' = "collecting" /\ pos' = Begin(prog.collect)
        /\ Enabled' = Enabled /\ WellFormed(prog)
    BY <1>3, ProgramShape, Zenon DEF BeginCollect, Enabled, Shape
  <2>1. DOMAIN pos' = Enabled
    BY <2>0, Zenon DEF Begin, Enabled
  <2>2. ASSUME NEW t \in DOMAIN pos' PROVE GoodPos(Code(t), pos[t])'
    <3>1. Code(t)' = prog.collect[t].code /\ IsCode(prog.collect[t].code)
      BY <2>0, <2>1, Zenon DEF Code, Threads, WellFormed, Enabled
    <3>2. GoodPos(prog.collect[t].code, pos'[t])
      BY <2>0, <2>2, <3>1, BeginFinds
    <3> QED BY <2>0, <3>1, <3>2, Zenon DEF GoodPos, Holds
  <2> QED BY <2>0, <2>1, <2>2, Zenon DEF Shape, Phases, Active, Used
<1>4. CASE BeginClose
  <2>0. /\ UNCHANGED <<c, prog, conds, fns>> /\ phase' = "closing"
        /\ pos' = Begin(<<Thread("", prog.close)>>) /\ WellFormed(prog)
    BY <1>4, ProgramShape, Zenon DEF BeginClose, Shape
  <2>1. DOMAIN pos' = {1}
    BY <2>0, BeginOne, Zenon
  <2>2. GoodPos(Code(1), pos[1])'
    <3>1. Code(1)' = prog.close /\ IsCode(prog.close)
      BY <2>0, Zenon DEF Code, Threads, Thread, WellFormed
    <3>2. GoodPos(prog.close, pos'[1])
      BY <2>0, <2>1, <3>1, BeginOne, BeginFinds, Zenon
    <3> QED BY <2>0, <3>1, <3>2, Zenon DEF GoodPos, Holds
  <2> QED BY <2>0, <2>1, <2>2, Zenon DEF Shape, Phases, Active, Used
<1>5. CASE UNCHANGED vars
  BY <1>5, Zenon DEF vars, Shape, GoodPos, Holds, Code, Threads, Enabled
<1> QED BY <1>1, <1>2, <1>3, <1>4, <1>5 DEF Next, Going

LEMMA ShapeInitially == Init => Shape
<1> SUFFICES ASSUME Init PROVE Shape
  OBVIOUS
<1>1. c \in Collectors /\ prog = Program(c) /\ WellFormed(prog) /\ phase = "building"
  BY ProgramShape, Zenon DEF Init
<1>2. DOMAIN pos = {1} /\ Code(1) = prog.build /\ IsCode(prog.build)
  BY <1>1, BeginOne, Zenon DEF Init, Code, Threads, Thread, WellFormed
<1>3. GoodPos(prog.build, pos[1])
  BY <1>2, BeginOne, BeginFinds, Zenon DEF Init
<1> QED BY <1>1, <1>2, <1>3 DEF Shape, Phases, Active

\* Of two places one comes first.
LEMMA PlacesOrdered ==
  ASSUME NEW code, IsCode(code), NEW p \in Places(code), NEW z \in Places(code), ~Before(z, p)
  PROVE  z = p \/ Before(p, z)
<1>1. z \in [block : Nat \ {0}, step : Nat \ {0}] /\ p \in [block : Nat \ {0}, step : Nat \ {0}]
  BY CodeShape
<1>2. z.block = p.block /\ z.step = p.step => z = p
  BY <1>1
<1> QED BY <1>1, <1>2 DEF Before

LEMMA BeforeTransitive ==
  ASSUME NEW x, NEW y, NEW z, Before(x, y), Before(y, z),
         x.block \in Nat, x.step \in Nat, y.block \in Nat, y.step \in Nat, z.block \in Nat, z.step \in Nat
  PROVE  Before(x, z)
BY DEF Before

-----------------------------------------------------------------------------
(* Close releases. *)

\* A step of Close that shuts r, is taken and lies ahead.
ShutAhead(r) == \E z \in StepsWith(prog.close, {"shut"}) :
  /\ StepAt(prog.close, z).arg = r /\ Holds(StepAt(prog.close, z).when)
  /\ \A x \in Places(prog.close) : ~Skips(prog.close, x, z)
  /\ ~Before(z, pos[1])

\* Only a step of Build whose condition holds opens something, and only one of pdh.NewCollector
\* with counters of the configuration loses it.
OpenedBy(r, ops) == \E q \in StepsWith(prog.build, ops) :
  StepAt(prog.build, q).arg = r /\ Holds(StepAt(prog.build, q).when)

ReleaseInv ==
  /\ \A r \in DOMAIN res : IsOpen(r) => OpenedBy(r, Opening)
  /\ \A r \in DOMAIN res : res[r] = "lost" => OpenedBy(r, {"pdhAny"})
  /\ phase = "closing" => \A r \in DOMAIN res : IsOpen(r) => r \in Known(LeavesOpen, c) \/ ShutAhead(r)
  /\ CloseReleases

\* What a step does to the queries, handles and workers.
StepOn(t, r) ==
  /\ IsOpen(r)' => IsOpen(r) \/ (~Done(t) /\ Cur(t).op \in Opening /\ Cur(t).arg = r)
  /\ res'[r] = "lost" => res[r] = "lost" \/ (~Done(t) /\ Cur(t).op = "pdhAny" /\ Cur(t).arg = r)
  /\ ~Done(t) /\ Cur(t).op = "shut" /\ Cur(t).arg = r => res[r] = "lost" \/ ~IsOpen(r)'
LEMMA StepResources ==
  ASSUME NEW t \in DOMAIN pos, ThreadStep(t)
  PROVE  /\ DOMAIN res' = DOMAIN res
         /\ \A r \in DOMAIN res : StepOn(t, r)
<1> USE DEF At, IsOpen, Opening, StepOn
<1>1. CASE SetFields(t) \/ AppendFn(t)
  BY <1>1, Zenon DEF SetFields, AppendFn
<1>2. CASE GetFields(t) \/ NoRows(t)
  BY <1>2, Zenon DEF GetFields, NoRows, Panic
<1>3. CASE NewCollector(t)
  BY <1>3 DEF NewCollector
<1>4. CASE OpenHandle(t)
  BY <1>4, Zenon DEF OpenHandle
<1>5. CASE CheckCall(t) \/ UseResource(t)
  BY <1>5, Zenon DEF CheckCall, UseResource
<1>6. CASE AskWorker(t) \/ AwaitThread(t)
  BY <1>6 DEF AskWorker, AwaitThread
<1>7. CASE ShutResource(t)
  BY <1>7 DEF ShutResource
<1>8. CASE Report(t)
  BY <1>8, Zenon DEF Report
<1> QED BY <1>1, <1>2, <1>3, <1>4, <1>5, <1>6, <1>7, <1>8, Zenon DEF ThreadStep

\* A step that opens something is one of Build.
LEMMA OpeningInBuild ==
  ASSUME Shape, NEW t \in DOMAIN pos, ~Done(t), Cur(t).op \in Opening
  PROVE  /\ phase = "building" /\ t = 1 /\ pos[t] \in Places(prog.build)
         /\ Cur(t) = StepAt(prog.build, pos[t]) /\ Holds(Cur(t).when)
<1>1. /\ pos[t] \in Places(Code(t)) /\ Cur(t) = StepAt(Code(t), pos[t]) /\ Holds(Cur(t).when)
  BY AtStep
<1>2. WellFormed(prog)
  BY ProgramShape, Zenon DEF Shape
<1>3. phase # "collecting"
  BY <1>1, <1>2, CodeOf, Zenon DEF WellFormed, StepsWith
<1>4. phase # "closing"
  BY <1>1, <1>2, CodeOf DEF WellFormed, StepsWith, Shape
<1> QED BY <1>1, <1>3, <1>4, CodeOf, Zenon DEF Shape, Active

\* What pdh.NewCollector may lose is among what Close is known to leave open.
LEMMA LostIsKnown ==
  ASSUME Shape, ReleaseInv, NEW r \in DOMAIN res, res[r] = "lost"
  PROVE  r \in Known(LeavesOpen, c)
<1>1. PICK q \in StepsWith(prog.build, {"pdhAny"}) : StepAt(prog.build, q).arg = r
  BY DEF ReleaseInv, OpenedBy
<1>2. q \in StepsWith(prog.build, Opening) /\ StepAt(prog.build, q).op = "pdhAny"
  BY <1>1 DEF StepsWith, Opening
<1>3. ClosesAll(prog, Known(LeavesOpen, c))
  BY ClosesAssumption DEF Shape
<1> QED BY <1>1, <1>2, <1>3, Zenon DEF ClosesAll

LEMMA ReleaseKept ==
  ASSUME Shape, Shape', ReleaseInv, [Next]_vars
  PROVE  ReleaseInv'
<1>1. ASSUME NEW t \in DOMAIN pos, ThreadStep(t) PROVE ReleaseInv'
  <2>0. /\ UNCHANGED <<c, prog, conds>> /\ (Moves(t) \/ Panics(t) \/ Report(t))
        /\ DOMAIN res' = DOMAIN res /\ \A r \in DOMAIN res : StepOn(t, r)
    BY <1>1, StepKinds, StepResources, Zenon
  <2>1. \A w : Holds(w) => Holds(w)'
    BY <2>0, MoveFrame, Zenon DEF Panics, Panic, Report, Holds
  <2>2. ASSUME NEW r, NEW ops, OpenedBy(r, ops) PROVE OpenedBy(r, ops)'
    BY <2>0, <2>1, <2>2, Zenon DEF OpenedBy
  <2>3. ASSUME NEW r \in DOMAIN res, IsOpen(r)' PROVE OpenedBy(r, Opening)'
    <3>1. CASE IsOpen(r)
      BY <2>2, <3>1, Zenon DEF ReleaseInv
    <3>2. CASE ~Done(t) /\ Cur(t).op \in Opening /\ Cur(t).arg = r
      BY <2>2, <3>2, OpeningInBuild DEF OpenedBy, StepsWith
    <3> QED BY <2>0, <2>3, <3>1, <3>2 DEF StepOn
  <2>4. ASSUME NEW r \in DOMAIN res, res'[r] = "lost" PROVE OpenedBy(r, {"pdhAny"})'
    <3>1. CASE res[r] = "lost"
      BY <2>2, <3>1 DEF ReleaseInv
    <3>2. CASE ~Done(t) /\ Cur(t).op = "pdhAny" /\ Cur(t).arg = r
      <4>1. Cur(t).op \in Opening
        BY <3>2 DEF Opening
      <4>2. pos[t] \in Places(prog.build) /\ Cur(t) = StepAt(prog.build, pos[t]) /\ Holds(Cur(t).when)
        BY <3>2, <4>1, OpeningInBuild, Zenon
      <4>3. OpenedBy(r, {"pdhAny"})
        BY <3>2, <4>2 DEF OpenedBy, StepsWith
      <4> QED BY <2>2, <4>3
    <3> QED BY <2>0, <2>4, <3>1, <3>2, Zenon DEF StepOn
  <2>5. ASSUME phase' = "closing", NEW r \in DOMAIN res, IsOpen(r)'
        PROVE  (r \in Known(LeavesOpen, c) \/ ShutAhead(r))'
    <3>1. phase = "closing" /\ t = 1 /\ Code(1) = prog.close /\ ~Panics(t) /\ ~Report(t)
      BY <2>0, <2>5, CodeOf, Zenon DEF Panics, Panic, Report, Moves, Shape
    <3>2. Moves(1) /\ ~Done(1) /\ 1 \in DOMAIN pos
      BY <2>0, <3>1, Zenon DEF Moves
    <3>3. IsOpen(r)
      BY <2>0, <2>5, <3>1, OpeningInBuild, Zenon DEF StepOn
    <3>4. CASE r \in Known(LeavesOpen, c)
      BY <2>0, <3>4
    <3>5. CASE ShutAhead(r)
      <4>1. PICK z \in StepsWith(prog.close, {"shut"}) :
              /\ StepAt(prog.close, z).arg = r /\ Holds(StepAt(prog.close, z).when)
              /\ \A x \in Places(prog.close) : ~Skips(prog.close, x, z)
              /\ ~Before(z, pos[1])
        BY <3>5, Zenon DEF ShutAhead
      <4>2. pos[1] \in Places(prog.close) /\ Cur(1) = StepAt(prog.close, pos[1]) /\ IsCode(prog.close)
        BY <3>1, <3>2, AtStep, CodeOf, Zenon
      <4>3. z = pos[1] \/ Before(pos[1], z)
        BY <4>1, <4>2, PlacesOrdered, Zenon DEF StepsWith
      <4>4. CASE z = pos[1]
        <5>1. res[r] = "lost"
          BY <2>0, <2>5, <3>1, <3>2, <4>1, <4>2, <4>4, Zenon DEF StepsWith, StepOn
        <5>2. r \in Known(LeavesOpen, c)
          BY <5>1, LostIsKnown, Zenon
        <5> QED BY <2>0, <5>2, Zenon
      <4>5. CASE Before(pos[1], z)
        <5>1. ~Before(z, pos'[1])
          BY <3>1, <3>2, <4>1, <4>2, <4>5, MoveOn, Zenon DEF StepsWith
        <5> QED BY <2>0, <2>1, <4>1, <5>1, Zenon DEF ShutAhead
      <4> QED BY <4>3, <4>4, <4>5, Zenon
    <3> QED BY <3>1, <3>3, <3>4, <3>5, Zenon DEF ReleaseInv
  <2>6. phase' # "closed"
    BY <2>0, Zenon DEF Shape, Active, Moves, Panics, Panic, Report
  <2> QED BY <2>0, <2>3, <2>4, <2>5, <2>6, Zenon DEF ReleaseInv, CloseReleases
<1>2. CASE EndBuild \/ EndCollect \/ BeginCollect
  <2>0. UNCHANGED <<c, prog, conds, fns, res>> /\ phase' \notin {"closing", "closed"}
    BY <1>2 DEF EndBuild, EndCollect, BeginCollect
  <2>1. \A r, ops : OpenedBy(r, ops)' = OpenedBy(r, ops)
    BY <2>0, Zenon DEF OpenedBy, Holds
  <2> QED BY <2>0, <2>1, Zenon DEF ReleaseInv, CloseReleases, IsOpen
<1>3. CASE BeginClose
  <2>0. UNCHANGED <<c, prog, conds, fns, res>> /\ phase' = "closing" /\ pos' = Begin(<<Thread("", prog.close)>>)
    BY <1>3, Zenon DEF BeginClose
  <2>1. \A w : Holds(w)' = Holds(w)
    BY <2>0, Zenon DEF Holds
  <2>2. ASSUME NEW r \in DOMAIN res, IsOpen(r), r \notin Known(LeavesOpen, c)
        PROVE  ShutAhead(r)'
    <3>1. PICK q \in StepsWith(prog.build, Opening) :
            StepAt(prog.build, q).arg = r /\ Holds(StepAt(prog.build, q).when)
      BY <2>2, Zenon DEF ReleaseInv, OpenedBy
    <3>2. PICK z \in StepsWith(prog.close, {"shut"}) :
            /\ StepAt(prog.close, z).arg = r
            /\ StepAt(prog.close, z).when \in {"", StepAt(prog.build, q).when}
            /\ \A x \in Places(prog.close) : ~Skips(prog.close, x, z)
      BY <2>2, <3>1, ClosesAssumption, Zenon DEF ClosesAll, Shape
    <3>3. Holds(StepAt(prog.close, z).when)
      BY <3>1, <3>2, Zenon DEF Holds
    <3>4. ~Before(z, pos'[1])
      <4>1. IsCode(prog.close) /\ z \in Places(prog.close)
        BY ProgramShape, Zenon DEF Shape, WellFormed, StepsWith
      <4> QED BY <2>0, <3>3, <4>1, BeginOne, BeginFinds, Zenon
    <3> QED BY <2>0, <2>1, <3>2, <3>3, <3>4, Zenon DEF ShutAhead
  <2> QED BY <2>0, <2>1, <2>2, Zenon DEF ReleaseInv, CloseReleases, OpenedBy, IsOpen
<1>4. CASE EndClose
  <2>0. UNCHANGED <<c, prog, conds, fns, res>> /\ phase = "closing" /\ phase' = "closed" /\ Done(1)
    BY <1>4, Zenon DEF EndClose, Shape
  <2>1. ASSUME NEW r \in DOMAIN res, IsOpen(r) PROVE r \in Known(LeavesOpen, c)
    <3>1. ~ShutAhead(r)
      BY <2>0, DonePast, CodeOf, Zenon DEF ShutAhead, StepsWith, Shape
    <3> QED BY <2>0, <2>1, <3>1, Zenon DEF ReleaseInv
  <2> QED BY <2>0, <2>1, Zenon DEF ReleaseInv, CloseReleases, OpenedBy, IsOpen, Holds
<1>5. CASE UNCHANGED vars
  <2>0. UNCHANGED <<c, prog, conds, fns, res, phase, pos>>
    BY <1>5, Zenon DEF vars
  <2>1. \A r, ops : OpenedBy(r, ops)' = OpenedBy(r, ops) /\ ShutAhead(r)' = ShutAhead(r)
    BY <2>0, Zenon DEF OpenedBy, ShutAhead, Holds
  <2> QED BY <2>0, <2>1, Zenon DEF ReleaseInv, CloseReleases, IsOpen
<1> QED BY <1>1, <1>2, <1>3, <1>4, <1>5, Zenon DEF Next, Going

-----------------------------------------------------------------------------
(* Collect reads all. *)

\* A read that is to be taken has been tried or lies ahead.
ReadInv ==
  /\ phase = "collecting" => \A t \in DOMAIN pos : \A q \in StepsWith(Code(t), Reading) :
       Holds(StepAt(Code(t), q).when) =>
         StepAt(Code(t), q).arg \in tried \cup Known(StopsEarly, c) \/ ~Before(q, pos[t])
  /\ ReadsAll

LEMMA StepsPlaced ==
  ASSUME NEW code, NEW ops, NEW st \in StepsOf(code, ops)
  PROVE  \E q \in StepsWith(code, ops) : st = StepAt(code, q)
<1>1. PICK b \in DOMAIN code : st \in {code[b].steps[s] : s \in {i \in DOMAIN code[b].steps :
                                          code[b].steps[i].op \in ops}}
  BY DEF StepsOf
<1>2. PICK s \in DOMAIN code[b].steps : st = code[b].steps[s] /\ st.op \in ops
  BY <1>1, Zenon
<1>3. [block |-> b, step |-> s] \in Places(code)
  BY DEF Places
<1> QED BY <1>2, <1>3 DEF StepsWith, StepAt

LEMMA ReadKept ==
  ASSUME Shape, Shape', ReadInv, [Next]_vars
  PROVE  ReadInv'
<1>1. ASSUME NEW t \in DOMAIN pos, ThreadStep(t) PROVE ReadInv'
  <2>0. UNCHANGED <<c, prog, conds>> /\ (Moves(t) \/ Panics(t) \/ Report(t))
    BY <1>1, StepKinds, Zenon
  <2>1. CASE phase' # "collecting"
    BY <2>0, <2>1, Zenon DEF ReadInv, ReadsAll, Moves, Panics, Panic, Report, Shape, Active
  <2>2. CASE phase' = "collecting" /\ Moves(t)
    <3>0. /\ phase = "collecting" /\ fns' = fns /\ tried \subseteq tried'
          /\ \A w : Holds(w)' = Holds(w)
      BY <2>0, <2>2, CollectRegistersNone, Zenon DEF Moves, Holds
    <3>1. /\ DOMAIN pos' = DOMAIN pos /\ \A u \in DOMAIN pos : u # t => pos'[u] = pos[u]
          /\ \A u : Code(u)' = Code(u)
      BY <2>0, <2>2, MoveFrame, Zenon
    <3>2. ASSUME NEW q \in StepsWith(Code(t), Reading), Holds(StepAt(Code(t), q).when),
                 ~Before(q, pos[t]), StepAt(Code(t), q).arg \notin tried' \cup Known(StopsEarly, c)
          PROVE  ~Before(q, pos'[t])
      <4>1. /\ pos[t] \in Places(Code(t)) /\ Cur(t) = StepAt(Code(t), pos[t])
            /\ q \in Places(Code(t)) /\ IsCode(Code(t))
        BY <2>2, AtStep, CodeOf, Zenon DEF Moves, StepsWith
      <4>2. q # pos[t]
        BY <2>2, <3>2, <4>1, Zenon DEF Moves, StepsWith
      <4>3. Before(pos[t], q)
        BY <3>2, <4>1, <4>2, PlacesOrdered, Zenon
      <4>4. ~Skips(Code(t), pos[t], q)
        <5>1. t \in DOMAIN prog.collect /\ Code(t) = prog.collect[t].code
          BY <3>0, CodeOf, Zenon
        <5>2. ReadsApart(prog, Known(StopsEarly, c))
          BY ReadsAssumption, Zenon DEF Shape
        <5> QED BY <3>2, <4>1, <5>1, <5>2, Zenon DEF ReadsApart
      <4> QED BY <2>2, <3>2, <4>1, <4>3, <4>4, MoveOn, Zenon
    <3>3. ASSUME NEW u \in DOMAIN pos, NEW q \in StepsWith(Code(u), Reading),
                 Holds(StepAt(Code(u), q).when)
          PROVE  StepAt(Code(u), q).arg \in tried' \cup Known(StopsEarly, c) \/ ~Before(q, pos'[u])
      <4>1. StepAt(Code(u), q).arg \in tried' \cup Known(StopsEarly, c) \/ ~Before(q, pos[u])
        BY <3>0, <3>3, Zenon DEF ReadInv
      <4> QED BY <3>1, <3>2, <3>3, <4>1, Zenon
    <3> QED BY <2>0, <2>2, <3>0, <3>1, <3>3, Zenon DEF ReadInv, ReadsAll
  <2>3. CASE Report(t)
    <3>1. UNCHANGED <<c, prog, conds, phase, pos, fns, tried>> /\ phase = "collecting"
      BY <2>3 DEF Report
    <3>2. \A u : Code(u)' = Code(u)
      BY <3>1, Zenon DEF Code, Threads
    <3> QED BY <3>1, <3>2, Zenon DEF ReadInv, ReadsAll, Holds
  <2>4. CASE Panics(t)
    BY <2>4, Zenon DEF Panics, Panic, ReadInv, ReadsAll
  <2> QED BY <2>0, <2>1, <2>2, <2>3, <2>4, Zenon
<1>2. CASE BeginCollect
  <2>0. /\ UNCHANGED <<c, prog, conds, fns>> /\ phase' = "collecting" /\ pos' = Begin(prog.collect)
        /\ \A w : Holds(w)' = Holds(w)
    BY <1>2, Zenon DEF BeginCollect, Holds
  <2>1. ASSUME NEW t \in DOMAIN pos' PROVE Code(t)' = prog.collect[t].code /\ IsCode(prog.collect[t].code)
    BY <2>0, <2>1, ProgramShape, Zenon DEF Code, Threads, Begin, WellFormed, Shape
  <2>2. ASSUME NEW t \in DOMAIN pos', NEW q \in StepsWith(prog.collect[t].code, Reading),
               Holds(StepAt(prog.collect[t].code, q).when)
        PROVE  ~Before(q, pos'[t])
    BY <2>0, <2>1, <2>2, BeginFinds, Zenon DEF StepsWith
  <2> QED BY <2>0, <2>1, <2>2, Zenon DEF ReadInv, ReadsAll
<1>3. CASE EndCollect
  <2>0. /\ UNCHANGED <<c, prog, conds, fns, tried>> /\ phase = "collecting" /\ DOMAIN pos = Enabled
        /\ \A t \in DOMAIN pos : Done(t)
    BY <1>3, Zenon DEF EndCollect, AllDone, Shape
  <2>1. ASSUME NEW st \in Reads PROVE st.arg \in tried \cup Known(StopsEarly, c)
    <3>1. PICK t \in Enabled : st \in StepsOf(prog.collect[t].code, Reading) /\ Holds(st.when)
      BY Zenon DEF Reads, Enabled, Reading
    <3>2. PICK q \in StepsWith(prog.collect[t].code, Reading) : st = StepAt(prog.collect[t].code, q)
      BY <3>1, StepsPlaced, Zenon
    <3>3. Code(t) = prog.collect[t].code /\ t \in DOMAIN pos
      BY <2>0, CodeOf, Zenon
    <3>4. Before(q, pos[t])
      BY <2>0, <3>3, DonePast, Zenon DEF StepsWith
    <3> QED BY <2>0, <3>1, <3>2, <3>3, <3>4, Zenon DEF ReadInv
  <2>2. Reads' = Reads
    BY <2>0 DEF Reads, Holds
  <2>3. phase' = "collected"
    BY <1>3, Zenon DEF EndCollect
  <2> QED BY <2>0, <2>1, <2>2, <2>3, Zenon DEF ReadInv, ReadsAll
<1>4. CASE EndBuild \/ BeginClose \/ EndClose
  BY <1>4, Zenon DEF EndBuild, BeginClose, EndClose, ReadInv, ReadsAll
<1>5. CASE UNCHANGED vars
  <2>0. UNCHANGED <<c, prog, conds, fns, tried, phase, pos>>
    BY <1>5 DEF vars
  <2>1. Reads' = Reads /\ \A u : Code(u)' = Code(u)
    BY <2>0 DEF Reads, Holds, Code, Threads
  <2> QED BY <2>0, <2>1, Zenon DEF ReadInv, ReadsAll, Holds
<1> QED BY <1>1, <1>2, <1>3, <1>4, <1>5, Zenon DEF Next, Going

-----------------------------------------------------------------------------
(* What is used has been assigned. *)

Build   == prog.build
Assigns == StepsWith(Build, {"set"})
\* A step of Build is taken: its condition was chosen at the start.
Held(z)     == StepAt(Build, z).when \in conds \cup {""}
Assigned(z) == StepAt(Build, z).arg \in fields
\* Its fields are assigned, or will be, or Build ends with an error that is not tolerated.
Secured(z)  == \/ Assigned(z) \/ ~Before(z, pos[1])
               \/ pos[1].block = Len(Build) + 1 /\ errs = {"fatal"}

\* The assignment at z comes after the step at y whatever fails in between.
Follows(y, z) == Before(y, z) /\ \A x \in Places(Build) : Before(y, x) => ~Abandons(Build, x, z)

\* The step at y has registered h; what comes with it is assigned or secured.
RegisteredAt(y, h) ==
  /\ StepAt(Build, y).arg = h /\ Held(y)
  /\ \A z \in Assigns : Held(z) /\ z.block = y.block /\ z.step < y.step => Assigned(z)

BuildInv ==
  /\ \A z \in Assigns : Held(z) /\ (\A x \in Places(Build) : ~Abandons(Build, x, z)) => Secured(z)
  /\ \A z \in Assigns : Held(z) /\ z.block = pos[1].block /\ z.step < pos[1].step => Assigned(z)
  /\ \A h \in fns : \E y \in StepsWith(Build, {"fn"}) :
       /\ RegisteredAt(y, h) /\ Before(y, pos[1])
       /\ \A z \in Assigns : Held(z) /\ Follows(y, z) => Secured(z)

\* What an enabled goroutine of Collect uses is there.
GetsReady == \A t \in Enabled : \A q \in StepsWith(prog.collect[t].code, Getting) :
  Holds(StepAt(prog.collect[t].code, q).when) => StepAt(prog.collect[t].code, q).arg \in fields

Excepted == c \in IF prog.spawn THEN Unclosable ELSE Unready

PanicInv ==
  /\ conds \subseteq prog.conds
  /\ phase = "building" => BuildInv
  /\ phase \in Used /\ ~Excepted => GetsReady
  /\ NoPanic

\* Registering a sub-collector changes no condition a step of Build depends on.
LEMMA HeldIsHolds ==
  ASSUME Shape, BuildInv, NEW z \in Places(Build)
  PROVE  Holds(StepAt(Build, z).when) <=> Held(z)
<1> DEFINE w == StepAt(Build, z).when
<1>1. ASSUME w \in fns PROVE w \in conds \cup {""}
  <2>1. PICK y \in StepsWith(Build, {"fn"}) : StepAt(Build, y).arg = w /\ Held(y)
    BY <1>1, Zenon DEF BuildInv, RegisteredAt
  <2>2. \/ StepAt(Build, y).when = StepAt(Build, y).arg
        \/ \A x \in Places(Build) : StepAt(Build, x).when # StepAt(Build, y).arg
    BY ProgramShape, Zenon DEF Shape, WellFormed, Build
  <2> QED BY <2>1, <2>2, Zenon DEF Held
<1> QED BY <1>1, Zenon DEF Holds, Held

\* A secured assignment stays so until Build ends.
LEMMA SecuredKept ==
  ASSUME Shape, phase = "building", BuildInv, Moves(1), UNCHANGED <<c, prog, conds>>,
         NEW z \in Assigns, Held(z), Secured(z), ~Abandons(Build, pos[1], z)
  PROVE  Secured(z)'
<1>0. /\ 1 \in DOMAIN pos /\ Code(1) = Build /\ IsCode(Build) /\ ~Done(1) /\ z \in Places(Build)
      /\ StepAt(Build, z).op = "set"
  BY CodeOf, Zenon DEF Shape, Build, Moves, Assigns, StepsWith
<1>1. /\ pos[1] \in Places(Build) /\ Cur(1) = StepAt(Build, pos[1])
      /\ pos[1].block <= Len(Build) /\ Len(Build) \in Nat /\ pos[1].block \in Nat
  BY <1>0, AtStep, Zenon
<1>2. fields \subseteq fields' /\ Build' = Build /\ (StepAt(Build, z).arg \in fields' => Secured(z)')
  BY DEF Moves, Build, Secured, Assigned
<1>3. CASE Assigned(z)
  BY <1>2, <1>3 DEF Assigned
<1>4. CASE z = pos[1]
  <2>1. StepAt(Build, z).arg \in fields'
    BY <1>0, <1>1, <1>4, Zenon DEF Moves
  <2> QED BY <1>2, <2>1, Zenon
<1>5. CASE Before(pos[1], z)
  <2>1. Holds(StepAt(Build, z).when)
    BY <1>0, HeldIsHolds, Zenon
  <2>2. \/ ~Before(z, pos'[1])
        \/ pos'[1].block = Len(Build) + 1 /\ errs' = {"fatal"}
    BY <1>0, <1>5, <2>1, MoveOn, Zenon
  <2> QED BY <1>2, <2>2 DEF Secured
<1>6. ~(pos[1].block = Len(Build) + 1)
  BY <1>1
<1>7. ~Before(z, pos[1]) => z = pos[1] \/ Before(pos[1], z)
  BY <1>0, <1>1, PlacesOrdered, Zenon
<1> QED BY <1>3, <1>4, <1>5, <1>6, <1>7, Zenon DEF Secured

LEMMA BuildKept ==
  ASSUME Shape, Shape', phase = "building", BuildInv, Moves(1), UNCHANGED <<c, prog, conds>>
  PROVE  BuildInv'
<1>0. /\ 1 \in DOMAIN pos /\ Code(1) = Build /\ IsCode(Build) /\ ~Done(1)
      /\ fields \subseteq fields' /\ Build' = Build /\ Assigns' = Assigns
      /\ \A z : Held(z)' = Held(z)
  BY CodeOf, Zenon DEF Shape, Build, Moves, Assigns, Held
<1>1. /\ pos[1] \in Places(Build) /\ Cur(1) = StepAt(Build, pos[1]) /\ Holds(Cur(1).when)
      /\ pos[1].block \in Nat /\ pos[1].step \in Nat
  BY <1>0, AtStep, Zenon
<1>2. \A z : Assigned(z) => Assigned(z)'
  BY <1>0, Zenon DEF Assigned
<1>3. /\ Before(pos[1], pos'[1]) /\ pos'[1].block >= pos[1].block
      /\ pos'[1].block \in Nat /\ pos'[1].step \in Nat
  BY <1>0, MoveOn, Zenon DEF GoodPos
<1>4. ASSUME NEW z \in Assigns, Held(z), \A x \in Places(Build) : ~Abandons(Build, x, z)
      PROVE  Secured(z)'
  BY <1>1, <1>4, SecuredKept, Zenon DEF BuildInv
<1>5. ASSUME NEW z \in Assigns, Held(z), z.block = pos'[1].block, z.step < pos'[1].step
      PROVE  Assigned(z)'
  <2>0. z \in Places(Build) /\ z.block \in Nat /\ z.step \in Nat
    BY <1>0, CodeShape DEF Assigns, StepsWith
  <2>1. CASE Before(z, pos[1])
    <3>1. z.block = pos[1].block /\ z.step < pos[1].step
      BY <1>1, <1>3, <1>5, <2>0, <2>1 DEF Before
    <3> QED BY <1>2, <1>5, <3>1, Zenon DEF BuildInv
  <2>2. CASE z = pos[1]
    <3>1. Cur(1).op = "set"
      BY <1>1, <2>2, Zenon DEF Assigns, StepsWith
    <3> QED BY <1>0, <1>1, <2>2, <3>1, Zenon DEF Moves, Assigned
  <2>3. CASE Before(pos[1], z)
    <3>1. Holds(StepAt(Build, z).when)
      BY <1>5, <2>0, HeldIsHolds, Zenon
    <3>2. ~Before(z, pos'[1])
      BY <1>0, <1>5, <2>0, <2>3, <3>1, MoveOn, Zenon
    <3> QED BY <1>5, <3>2, Zenon DEF Before
  <2> QED BY <1>0, <1>1, <2>0, <2>1, <2>2, <2>3, PlacesOrdered, Zenon
<1> DEFINE Good(y, h) == /\ RegisteredAt(y, h)' /\ Before(y, pos'[1])
                         /\ \A z \in Assigns : Held(z) /\ Follows(y, z) => Secured(z)'
<1>6. ASSUME NEW h \in fns PROVE \E y \in StepsWith(Build, {"fn"}) : Good(y, h)
  <2>1. PICK y \in StepsWith(Build, {"fn"}) :
          /\ RegisteredAt(y, h) /\ Before(y, pos[1])
          /\ \A z \in Assigns : Held(z) /\ Follows(y, z) => Secured(z)
    BY <1>6, Zenon DEF BuildInv
  <2>2. RegisteredAt(y, h)'
    BY <1>0, <1>2, <2>1, Zenon DEF RegisteredAt
  <2>3. Before(y, pos'[1])
    <3>1. y.block \in Nat /\ y.step \in Nat
      <4>1. y \in Places(Build)
        BY DEF StepsWith
      <4> QED BY <1>0, <4>1, CodeShape
    <3> QED BY <1>1, <1>3, <2>1, <3>1, BeforeTransitive
  <2>4. ASSUME NEW z \in Assigns, Held(z), Follows(y, z) PROVE Secured(z)'
    <3>1. ~Abandons(Build, pos[1], z)
      BY <1>1, <2>1, <2>4, Zenon DEF Follows
    <3> QED BY <2>1, <2>4, <3>1, SecuredKept, Zenon
  <2> QED BY <2>2, <2>3, <2>4, Zenon
<1>7. ASSUME NEW h, Cur(1).op = "fn", h = Cur(1).arg
      PROVE  \E y \in StepsWith(Build, {"fn"}) : Good(y, h)
  <2>0. PICK y \in Places(Build) : y = pos[1]
    BY <1>1, Zenon
  <2>1. y \in StepsWith(Build, {"fn"}) /\ StepAt(Build, y).arg = h /\ Held(y)
    BY <1>1, <1>7, <2>0, HeldIsHolds, Zenon DEF StepsWith
  <2>2. RegisteredAt(y, h)
    BY <2>0, <2>1, Zenon DEF RegisteredAt, BuildInv
  <2>3. RegisteredAt(y, h)'
    BY <1>0, <1>2, <2>2, Zenon DEF RegisteredAt
  <2>4. ASSUME NEW z \in Assigns, Held(z), Follows(y, z) PROVE Secured(z)'
    <3>1. z \in Places(Build) /\ Holds(StepAt(Build, z).when) /\ Before(pos[1], z)
      BY <2>0, <2>4, HeldIsHolds, Zenon DEF Assigns, StepsWith, Follows
    <3>2. ~Skips(Build, pos[1], z)
      BY <1>1, <1>7, Zenon DEF Skips, Failing, Opening, Reading
    <3>3. ~Before(z, pos'[1])
      BY <1>0, <3>1, <3>2, MoveOn, Zenon
    <3> QED BY <1>0, <3>3, Zenon DEF Secured
  <2> QED BY <1>3, <2>0, <2>1, <2>3, <2>4, Zenon
<1>8. ASSUME NEW h \in fns' PROVE \E y \in StepsWith(Build, {"fn"}) : Good(y, h)
  <2>1. h \in fns \/ (Cur(1).op = "fn" /\ h = Cur(1).arg)
    BY <1>8 DEF Moves
  <2> HIDE DEF Good
  <2> QED BY <1>6, <1>7, <2>1, Zenon
<1>9. \A y, z : Follows(y, z)' = Follows(y, z)
  BY <1>0, Zenon DEF Follows
<1> QED BY <1>0, <1>4, <1>5, <1>8, <1>9, Zenon DEF BuildInv

\* A Build that has ended, with an error that is tolerated or none, has assigned all that
\* what it registered and what the conditions enable goes on to use.
LEMMA BuildReadies ==
  ASSUME Shape, PanicInv, phase = "building", Done(1), Tolerated(errs), ~Excepted
  PROVE  GetsReady
<1>0. /\ 1 \in DOMAIN pos /\ Code(1) = Build /\ BuildInv /\ conds \subseteq prog.conds
      /\ DescribesFirst(prog)
  <2>1. DescribesFirst(prog)
    BY DescribesAssumption, Zenon DEF Shape, Excepted
  <2> QED BY <2>1, CodeOf, Zenon DEF Shape, Build, PanicInv
<1>1. ASSUME NEW z \in Assigns, Secured(z) PROVE Assigned(z)
  <2>1. Before(z, pos[1])
    BY <1>0, DonePast DEF Assigns, StepsWith
  <2>2. errs # {"fatal"}
    BY DEF Tolerated
  <2> QED BY <1>1, <2>1, <2>2, Zenon DEF Secured
<1>2. ASSUME NEW f, NEW w, AssignsAlways(Build, f, w), Holds(w) PROVE f \in fields
  <2>1. PICK z \in Assigns : /\ StepAt(Build, z).arg = f /\ StepAt(Build, z).when \in {"", w}
                             /\ \A x \in Places(Build) : ~Abandons(Build, x, z)
    BY <1>2, Zenon DEF AssignsAlways, Assigns
  <2>2. Held(z)
    <3>1. z \in Places(Build) /\ Holds(StepAt(Build, z).when)
      BY <1>2, <2>1, Zenon DEF Assigns, StepsWith, Holds
    <3> QED BY <1>0, <3>1, HeldIsHolds, Zenon
  <2>3. Secured(z)
    BY <1>0, <2>1, <2>2, Zenon DEF BuildInv
  <2> QED BY <1>1, <2>1, <2>3, Zenon DEF Assigned
<1>3. ASSUME NEW f, NEW h \in fns, AssignsWith(Build, f, h) PROVE f \in fields
  <2>1. PICK y \in StepsWith(Build, {"fn"}) :
          RegisteredAt(y, h) /\ \A z \in Assigns : Held(z) /\ Follows(y, z) => Secured(z)
    BY <1>0, Zenon DEF BuildInv
  <2>2. StepAt(Build, y).arg = h /\ Held(y)
    BY <2>1, Zenon DEF RegisteredAt
  <2>3. PICK z \in Assigns :
          /\ StepAt(Build, z).arg = f /\ StepAt(Build, z).when \in {"", StepAt(Build, y).when}
          /\ (z.block = y.block /\ z.step < y.step) \/ Follows(y, z)
    BY <1>3, <2>2, Zenon DEF AssignsWith, Assigns, Follows
  <2>4. Held(z)
    BY <2>2, <2>3, Zenon DEF Held
  <2>5. Assigned(z)
    BY <1>1, <2>1, <2>3, <2>4, Zenon DEF RegisteredAt
  <2> QED BY <2>3, <2>5, Zenon DEF Assigned
<1>4. ASSUME NEW t \in Enabled, NEW q \in StepsWith(prog.collect[t].code, Getting),
             Holds(StepAt(prog.collect[t].code, q).when)
      PROVE  StepAt(prog.collect[t].code, q).arg \in fields
  <2> DEFINE st == StepAt(prog.collect[t].code, q)
             h  == prog.collect[t].fn
  <2>1. t \in DOMAIN prog.collect /\ h \in fns \cup {""}
    BY Zenon DEF Enabled
  <2>2. \/ AssignsAlways(Build, st.arg, st.when)
        \/ h # "" /\ AssignsWith(Build, st.arg, h)
        \/ st.when # "" /\ st.when \notin prog.conds /\ AssignsWith(Build, st.arg, st.when)
    BY <1>0, <2>1, Zenon DEF DescribesFirst, Build
  <2>3. st.when \in fns \cup prog.conds \cup {""}
    BY <1>0, <1>4, Zenon DEF Holds
  <2> QED BY <1>2, <1>3, <1>4, <2>1, <2>2, <2>3, Zenon
<1> QED BY <1>4, Zenon DEF GetsReady

\* After Build the descriptors, collectorFns and the conditions stay as they are or grow.
LEMMA ReadyStays ==
  ASSUME GetsReady, UNCHANGED <<prog, conds, fns>>, fields \subseteq fields'
  PROVE  GetsReady'
<1>1. Enabled' = Enabled /\ \A w : Holds(w)' = Holds(w)
  BY DEF Enabled, Holds
<1> QED BY <1>1, Zenon DEF GetsReady

LEMMA PanicKept ==
  ASSUME Shape, Shape', PanicInv, [Next]_vars
  PROVE  PanicInv'
<1>1. ASSUME NEW t \in DOMAIN pos, ThreadStep(t) PROVE PanicInv'
  <2>0. UNCHANGED <<c, prog, conds>> /\ (Moves(t) \/ Panics(t) \/ Report(t)) /\ WellFormed(prog)
    BY <1>1, StepKinds, ProgramShape, Zenon DEF Shape
  <2>1. Excepted' = Excepted
    BY <2>0, Zenon DEF Excepted
  <2>2. CASE Moves(t) /\ phase = "building"
    <3>1. t = 1 /\ phase' = "building"
      BY <2>2, Zenon DEF Shape, Moves
    <3>2. BuildInv'
      BY <2>0, <2>2, <3>1, BuildKept, Zenon DEF PanicInv
    <3> QED BY <2>0, <3>1, <3>2, Zenon DEF PanicInv, NoPanic, Used
  <2>3. CASE Moves(t) /\ phase # "building"
    <3>1. phase' = phase /\ phase \in {"collecting", "closing"} /\ fields \subseteq fields'
      BY <2>3 DEF Moves, Shape, Active
    <3>2. fns' = fns
      <4>1. CASE phase = "collecting"
        BY <2>3, <4>1, CollectRegistersNone, Zenon
      <4>2. CASE phase = "closing"
        <5>1. pos[t] \in Places(prog.close) /\ Cur(t) = StepAt(prog.close, pos[t])
          BY <2>3, <4>2, AtStep, CodeOf, Zenon DEF Moves, Shape
        <5>2. Cur(t).op # "fn"
          BY <2>0, <5>1, Zenon DEF WellFormed, StepsWith
        <5> QED BY <2>3, <5>2, Zenon DEF Moves
      <4> QED BY <3>1, <4>1, <4>2
    <3>3. GetsReady => GetsReady'
      BY <2>0, <3>1, <3>2, ReadyStays, Zenon
    <3> QED BY <2>0, <2>1, <3>1, <3>3, Zenon DEF PanicInv, NoPanic, Used
  <2>4. CASE Panics(t)
    <3>0. /\ ~Done(t) /\ Cur(t).op \in Getting /\ Cur(t).arg \notin fields
          /\ fields' = fields /\ fns' = fns
          /\ phase' = IF phase = "collecting" /\ ~prog.spawn THEN "panicked" ELSE "crashed"
          /\ pos[t] \in Places(Code(t)) /\ Cur(t) = StepAt(Code(t), pos[t]) /\ Holds(Cur(t).when)
      BY <2>4, AtStep, Zenon DEF Panics, Panic
    <3>1. phase # "building"
      <4>1. phase = "building" => pos[t] \in StepsWith(prog.build, Getting \cup {"shut", "ask", "await"})
        BY <3>0, CodeOf, Zenon DEF StepsWith, Shape
      <4> QED BY <2>0, <4>1, Zenon DEF WellFormed
    <3>2. CASE phase = "closing"
      <4>1. StepsWith(prog.close, Getting) # {}
        BY <3>0, <3>2, CodeOf, Zenon DEF StepsWith, Shape
      <4>2. c \in Unclosable
        BY <4>1, DescribesAssumption, Zenon DEF Shape
      <4> QED BY <2>0, <3>0, <3>2, <4>2, Zenon DEF PanicInv, NoPanic, Used
    <3>3. CASE phase = "collecting"
      <4>1. ~GetsReady
        <5>1. t \in Enabled /\ Code(t) = prog.collect[t].code
          BY <3>3, CodeOf, Zenon DEF Shape
        <5> QED BY <3>0, <5>1, Zenon DEF GetsReady, StepsWith
      <4>2. Excepted
        BY <3>3, <4>1, Zenon DEF PanicInv, Used
      <4>3. NoPanic'
        BY <2>0, <3>0, <3>3, <4>2, Zenon DEF NoPanic, Excepted
      <4> QED BY <2>0, <2>1, <3>0, <4>2, <4>3, Zenon DEF PanicInv
    <3> QED BY <3>1, <3>2, <3>3, Zenon DEF Shape, Active
  <2>5. CASE Report(t)
    <3>1. UNCHANGED <<phase, fns, fields>> /\ phase = "collecting"
      BY <2>5 DEF Report
    <3>2. GetsReady => GetsReady'
      BY <2>0, <3>1, ReadyStays, Zenon
    <3> QED BY <2>0, <2>1, <3>1, <3>2, Zenon DEF PanicInv, NoPanic, Used
  <2> QED BY <2>0, <2>2, <2>3, <2>4, <2>5, Zenon
<1>2. CASE EndBuild
  <2>0. /\ UNCHANGED <<c, prog, conds, fields, fns>> /\ phase = "building" /\ Done(1)
        /\ phase' = IF Tolerated(errs) THEN "built" ELSE "rejected"
    BY <1>2 DEF EndBuild, Shape
  <2>1. Excepted' = Excepted /\ (GetsReady => GetsReady')
    BY <2>0, ReadyStays DEF Excepted
  <2>2. Tolerated(errs) /\ ~Excepted => GetsReady
    BY <2>0, BuildReadies, Zenon
  <2> QED BY <2>0, <2>1, <2>2, Zenon DEF PanicInv, NoPanic, Used
<1>3. CASE EndCollect \/ BeginCollect \/ BeginClose \/ EndClose
  <2>0. /\ UNCHANGED <<c, prog, conds, fields, fns>> /\ phase \in Used
        /\ phase' \in {"collected", "collecting", "closing", "closed"}
    BY <1>3, Zenon DEF EndCollect, BeginCollect, BeginClose, EndClose, Used
  <2>1. Excepted' = Excepted /\ (GetsReady => GetsReady')
    BY <2>0, ReadyStays, Zenon DEF Excepted
  <2> QED BY <2>0, <2>1, Zenon DEF PanicInv, NoPanic
<1>4. CASE UNCHANGED vars
  <2>0. UNCHANGED <<c, prog, conds, fields, fns, phase, pos, errs>>
    BY <1>4, Zenon DEF vars
  <2>1. Excepted' = Excepted /\ (GetsReady => GetsReady')
    BY <2>0, ReadyStays, Zenon DEF Excepted
  <2>2. BuildInv => BuildInv'
    <3>1. /\ Assigns' = Assigns /\ Build' = Build /\ \A z : Held(z)' = Held(z) /\ Secured(z)' = Secured(z)
          /\ \A z : Assigned(z)' = Assigned(z)
      BY <2>0, Zenon DEF Assigns, Build, Held, Secured, Assigned
    <3>2. \A y, z : Follows(y, z)' = Follows(y, z)
      BY <3>1 DEF Follows
    <3>3. \A y, h : RegisteredAt(y, h)' = RegisteredAt(y, h)
      BY <3>1 DEF RegisteredAt
    <3> QED BY <2>0, <3>1, <3>2, <3>3, Zenon DEF BuildInv
  <2> QED BY <2>0, <2>1, <2>2, Zenon DEF PanicInv, NoPanic
<1> QED BY <1>1, <1>2, <1>3, <1>4, Zenon DEF Next, Going

LEMMA PanicInitially ==
  ASSUME Init
  PROVE  PanicInv
<1>1. Shape /\ phase = "building" /\ fns = {} /\ pos = Begin(<<Thread("", prog.build)>>)
  BY ShapeInitially, Zenon DEF Init
<1>2. conds \subseteq prog.conds
  BY Zenon DEF Init, CondSets, kSubset
<1>3. IsCode(Build) /\ 1 \in DOMAIN pos
  BY <1>1, ProgramShape, Zenon DEF Shape, WellFormed, Build
<1>4. ASSUME NEW z \in Assigns, Held(z) PROVE ~Before(z, pos[1])
  BY <1>1, <1>3, <1>4, BeginOne, BeginFinds, Zenon DEF Assigns, StepsWith, Held, Holds, Build
<1>5. BuildInv
  <2>1. \A z \in Assigns : Held(z) => Secured(z)
    BY <1>4, Zenon DEF Secured
  <2> QED BY <1>1, <1>4, <2>1, Zenon DEF BuildInv, Before
<1> QED BY <1>1, <1>2, <1>5, Zenon DEF PanicInv, NoPanic, Used

-----------------------------------------------------------------------------
(* Collect returns. *)

\* The goroutines that may have an error, and those whose error is in the channel or that
\* ended without one.
Reporters == DOMAIN pos \cap MayReport(prog)
Reported  == {t \in Reporters : Done(t) /\ t \notin bad}

StuckInv ==
  /\ IsFiniteSet(fns)
  /\ phase = "collecting" => bad \subseteq Reporters /\ errCh \in Nat /\ errCh <= Cardinality(Reported)

LEMMA GoroutinesFinite ==
  Shape /\ phase = "collecting" => /\ IsFiniteSet(DOMAIN pos) /\ IsFiniteSet(MayReport(prog))
                                   /\ IsFiniteSet(Reporters) /\ IsFiniteSet(Reported)
<1> SUFFICES ASSUME Shape, phase = "collecting"
             PROVE  /\ IsFiniteSet(DOMAIN pos) /\ IsFiniteSet(MayReport(prog))
                    /\ IsFiniteSet(Reporters) /\ IsFiniteSet(Reported)
  OBVIOUS
<1>1. WellFormed(prog) /\ DOMAIN pos \subseteq DOMAIN prog.collect
  BY ProgramShape, Zenon DEF Shape, Enabled
<1>2. Len(prog.collect) \in Nat /\ DOMAIN prog.collect = 1..Len(prog.collect)
  BY <1>1 DEF WellFormed
<1>3. IsFiniteSet(DOMAIN prog.collect)
  BY <1>2, FS_Interval
<1>4. /\ MayReport(prog) \in SUBSET DOMAIN prog.collect /\ DOMAIN pos \in SUBSET DOMAIN prog.collect
      /\ Reporters \in SUBSET DOMAIN prog.collect /\ Reported \in SUBSET DOMAIN prog.collect
  BY <1>1, Zenon DEF MayReport, Reporters, Reported
<1> QED BY <1>3, <1>4, FS_Subset

\* The channel of errors is as large as the number of goroutines that may send to it.
LEMMA ReportsFit ==
  ASSUME Shape, StuckInv, phase = "collecting", c \notin Waits, prog.spawn
  PROVE  Cardinality(Reporters) <= ErrCap
<1>1. ReturnsAlways(prog) /\ DOMAIN pos = Enabled
  BY ReturnsAssumption DEF Shape
<1>2. CASE ~prog.perFn
  <2>1. Cardinality(MayReport(prog)) <= prog.errCap /\ prog.errCap \in Nat /\ ErrCap = prog.errCap
    BY <1>1, <1>2, ProgramShape, Zenon DEF ReturnsAlways, Shape, WellFormed, ErrCap
  <2>2. /\ Cardinality(Reporters) <= Cardinality(MayReport(prog))
        /\ Cardinality(Reporters) \in Nat /\ Cardinality(MayReport(prog)) \in Nat
    <3>1. Reporters \in SUBSET MayReport(prog)
      BY DEF Reporters
    <3> QED BY <3>1, GoroutinesFinite, FS_Subset, FS_CardinalityType
  <2> QED BY <2>1, <2>2
<1>3. CASE prog.perFn
  <2> DEFINE f == [t \in DOMAIN pos |-> prog.collect[t].fn]
  <2>1. \A t \in DOMAIN pos : t \in DOMAIN prog.collect /\ prog.collect[t].fn \in fns
    BY <1>1, <1>3, Zenon DEF ReturnsAlways, Enabled
  <2>2. \A t, u \in DOMAIN pos : prog.collect[t].fn = prog.collect[u].fn => t = u
    BY <1>1, <1>3, <2>1, Zenon DEF ReturnsAlways
  <2>3. f \in Injection(DOMAIN pos, fns)
    BY <2>1, <2>2, Zenon DEF Injection, IsInjective
  <2>4. Cardinality(DOMAIN pos) <= Cardinality(fns)
    BY <2>3, FS_Injection, Zenon DEF StuckInv
  <2>5. Cardinality(Reporters) <= Cardinality(DOMAIN pos)
    <3>1. Reporters \in SUBSET DOMAIN pos
      BY DEF Reporters
    <3> QED BY <3>1, GoroutinesFinite, FS_Subset
  <2>6. Cardinality(Reporters) \in Nat /\ Cardinality(DOMAIN pos) \in Nat /\ Cardinality(fns) \in Nat
    BY GoroutinesFinite, FS_CardinalityType DEF StuckInv
  <2>7. ErrCap = Cardinality(fns)
    BY <1>3 DEF ErrCap
  <2> QED BY <2>4, <2>5, <2>6, <2>7
<1> QED BY <1>2, <1>3, ProgramShape, Zenon DEF Shape, WellFormed

\* A goroutine that has an error to report finds room in the channel.
LEMMA ReportHasRoom ==
  ASSUME Shape, StuckInv, phase = "collecting", c \notin Waits, prog.spawn, NEW t \in bad
  PROVE  errCh < ErrCap
<1>1. t \in Reporters /\ t \notin Reported /\ errCh \in Nat /\ errCh <= Cardinality(Reported)
  BY DEF StuckInv, Reported
<1>2. Reported \cup {t} \in SUBSET Reporters
  BY <1>1, Zenon DEF Reported
<1>3. Cardinality(Reported \cup {t}) = Cardinality(Reported) + 1
  BY <1>1, GoroutinesFinite, FS_AddElement, Zenon
<1>4. Cardinality(Reported \cup {t}) <= Cardinality(Reporters)
  BY <1>2, GoroutinesFinite, FS_Subset
<1>5. Cardinality(Reporters) <= ErrCap
  BY ReportsFit
<1>6. Cardinality(Reported) \in Nat /\ Cardinality(Reporters) \in Nat /\ ErrCap \in Nat
  <2>1. ErrCap \in Nat
    BY ProgramShape, FS_CardinalityType, Zenon DEF ErrCap, StuckInv, Shape, WellFormed
  <2> QED BY <2>1, GoroutinesFinite, FS_CardinalityType
<1> QED BY <1>1, <1>3, <1>4, <1>5, <1>6

LEMMA StuckKept ==
  ASSUME Shape, Shape', StuckInv, [Next]_vars
  PROVE  StuckInv'
<1>1. ASSUME NEW t \in DOMAIN pos, ThreadStep(t) PROVE StuckInv'
  <2>0. UNCHANGED <<c, prog, conds>> /\ (Moves(t) \/ Panics(t) \/ Report(t))
    BY <1>1, StepKinds, Zenon
  <2>1. CASE Moves(t)
    <3>1. IsFiniteSet(fns')
      BY <2>1, FS_AddElement, Zenon DEF Moves, StuckInv
    <3>2. ASSUME phase = "collecting"
          PROVE  bad' \subseteq Reporters' /\ errCh' = errCh /\ Cardinality(Reported) <= Cardinality(Reported')
      <4>1. /\ DOMAIN pos' = DOMAIN pos /\ \A u \in DOMAIN pos : u # t => pos'[u] = pos[u]
            /\ \A u : Code(u)' = Code(u)
        BY <2>0, <2>1, MoveFrame, Zenon
      <4>2. Reporters' = Reporters /\ errCh' = errCh /\ phase' = phase
        BY <2>0, <2>1, <4>1, Zenon DEF Reporters, Moves
      <4>3. bad' = bad \/ (bad' = bad \cup {t} /\ OnErr(t) # "log")
        BY <2>1, Zenon DEF Moves, Fail
      <4>4. OnErr(t) # "log" => t \in Reporters
        <5>1. t \in DOMAIN prog.collect /\ Code(t) = prog.collect[t].code
          BY <3>2, CodeOf, Zenon
        <5>2. pos[t].block \in DOMAIN Code(t)
          BY <2>1, AtStep, CodeOf, CodeShape, Zenon DEF Moves
        <5> QED BY <5>1, <5>2, Zenon DEF OnErr, Reporters, MayReport
      <4>5. Reported \in SUBSET Reported'
        BY <2>1, <4>1, <4>2, <4>3, Zenon DEF Reported, Reporters, Done, Moves
      <4>6. IsFiniteSet(Reported)'
        <5>1. (phase = "collecting")'
          BY <3>2, <4>2, Zenon
        <5> QED BY <5>1, GoroutinesFinite, PTL
      <4>7. Cardinality(Reported) <= Cardinality(Reported')
        BY <4>5, <4>6, FS_Subset, Zenon
      <4> QED BY <3>2, <4>2, <4>3, <4>4, <4>7 DEF StuckInv
    <3>3. ASSUME phase = "collecting" PROVE Cardinality(Reported) \in Nat /\ Cardinality(Reported') \in Nat
      <4>1. (phase = "collecting")'
        BY <2>1, <3>3 DEF Moves
      <4>2. IsFiniteSet(Reported) /\ IsFiniteSet(Reported)'
        BY <3>3, <4>1, GoroutinesFinite, PTL
      <4> QED BY <4>2, FS_CardinalityType, Zenon
    <3>4. phase' = phase
      BY <2>1, Zenon DEF Moves
    <3> QED BY <3>1, <3>2, <3>3, <3>4 DEF StuckInv
  <2>2. CASE Panics(t)
    BY <2>2, Zenon DEF Panics, Panic, StuckInv
  <2>3. CASE Report(t)
    <3>1. /\ UNCHANGED <<fns, phase, pos>> /\ phase = "collecting" /\ Done(t) /\ t \in bad
          /\ errCh' = errCh + 1 /\ bad' = bad \ {t}
      BY <2>3, Zenon DEF Report
    <3>2. Reporters' = Reporters /\ \A u : Done(u)' = Done(u)
      BY <2>0, <3>1, Zenon DEF Reporters, Done, Code, Threads
    <3>3. Reported' = Reported \cup {t} /\ t \notin Reported
      BY <3>1, <3>2, Zenon DEF Reported, StuckInv
    <3>4. Cardinality(Reported') = Cardinality(Reported) + 1 /\ Cardinality(Reported) \in Nat
      BY <3>1, <3>3, GoroutinesFinite, FS_AddElement, FS_CardinalityType, Zenon
    <3> QED BY <3>1, <3>2, <3>4 DEF StuckInv
  <2> QED BY <2>0, <2>1, <2>2, <2>3, Zenon
<1>2. CASE EndBuild \/ EndCollect \/ BeginClose \/ EndClose
  BY <1>2, Zenon DEF EndBuild, EndCollect, BeginClose, EndClose, StuckInv
<1>3. CASE BeginCollect
  <2>1. fns' = fns /\ (phase = "collecting")' /\ bad' = {} /\ errCh' = 0
    BY <1>3 DEF BeginCollect
  <2>2. Cardinality(Reported') \in Nat
    <3>1. IsFiniteSet(Reported)'
      BY <2>1, GoroutinesFinite, PTL
    <3> QED BY <3>1, FS_CardinalityType
  <2> QED BY <2>1, <2>2 DEF StuckInv
<1>4. CASE UNCHANGED vars
  <2>0. UNCHANGED <<prog, phase, fns, bad, errCh, pos>>
    BY <1>4, Zenon DEF vars
  <2>1. Reporters' = Reporters /\ Reported' = Reported
    BY <2>0, Zenon DEF Reporters, Reported, Done, Code, Threads
  <2> QED BY <2>0, <2>1, Zenon DEF StuckInv
<1> QED BY <1>1, <1>2, <1>3, <1>4, Zenon DEF Next, Going

\* Some goroutine of a Collect that has not ended can go on: one at a step that waits for
\* nothing, one with an error, or one that waits for a goroutine that has ended.
LEMMA NeverStuck ==
  ASSUME Shape, StuckInv
  PROVE  CollectNeverStuck
<1> SUFFICES ASSUME phase = "collecting", c \notin Waits, ~AllDone
             PROVE  \E t \in DOMAIN pos : ~Waiting(t) /\ (~Done(t) \/ t \in bad)
  BY DEF CollectNeverStuck
<1>1. ReturnsAlways(prog) /\ DOMAIN pos = Enabled
  BY ReturnsAssumption, Zenon DEF Shape
<1>2. ASSUME NEW t \in DOMAIN pos, ~Done(t)
      PROVE  /\ t \in DOMAIN prog.collect /\ Code(t) = prog.collect[t].code
             /\ pos[t] \in Places(Code(t)) /\ Cur(t) = StepAt(Code(t), pos[t]) /\ Cur(t).op # "ask"
  <2>1. t \in DOMAIN prog.collect /\ Code(t) = prog.collect[t].code
    BY CodeOf, Zenon
  <2>2. pos[t] \in Places(Code(t)) /\ Cur(t) = StepAt(Code(t), pos[t])
    BY <1>2, AtStep, Zenon
  <2>3. StepsWith(Code(t), {"ask"}) = {}
    BY <1>1, <2>1, Zenon DEF ReturnsAlways
  <2> QED BY <2>1, <2>2, <2>3, Zenon DEF StepsWith
<1>3. CASE \E t \in DOMAIN pos : ~Done(t) /\ Cur(t).op # "await"
  <2>1. PICK t \in DOMAIN pos : ~Done(t) /\ Cur(t).op # "await"
    BY <1>3
  <2> QED BY <1>2, <2>1, Zenon DEF Waiting, At
<1>4. CASE \E t \in DOMAIN pos : Done(t) /\ t \in bad /\ prog.spawn
  <2>1. PICK t \in DOMAIN pos : Done(t) /\ t \in bad /\ prog.spawn
    BY <1>4
  <2>2. errCh < ErrCap
    BY <2>1, ReportHasRoom, Zenon
  <2>3. errCh \in Nat /\ ErrCap \in Nat
    BY ProgramShape, FS_CardinalityType, Zenon DEF ErrCap, StuckInv, Shape, WellFormed
  <2>4. ~Waiting(t)
    BY <2>1, <2>2, <2>3 DEF Waiting, At
  <2> QED BY <2>1, <2>4, Zenon
<1>5. CASE /\ \A t \in DOMAIN pos : Done(t) \/ Cur(t).op = "await"
           /\ \A t \in DOMAIN pos : ~(Done(t) /\ t \in bad /\ prog.spawn)
  <2>1. PICK t \in DOMAIN pos : ~Done(t) /\ Cur(t).op = "await"
    BY <1>5, Zenon DEF AllDone
  <2> DEFINE u == Cur(t).arg
  <2>2. /\ prog.spawn /\ u \in DOMAIN prog.collect /\ prog.collect[u].fn \in {"", prog.collect[t].fn}
        /\ StepsWith(prog.collect[u].code, {"await"}) = {}
    <3>1. pos[t] \in StepsWith(prog.collect[t].code, {"await"}) /\ t \in DOMAIN prog.collect
          /\ Cur(t) = StepAt(prog.collect[t].code, pos[t])
      BY <1>2, <2>1, Zenon DEF StepsWith
    <3> QED BY <1>1, <3>1, Zenon DEF ReturnsAlways
  <2>3. u \in DOMAIN pos
    BY <1>1, <2>1, <2>2, Zenon DEF Enabled
  <2>4. Done(u)
    <3>1. ~Done(u) => Cur(u).op # "await"
      BY <1>2, <2>2, <2>3, Zenon DEF StepsWith
    <3> QED BY <1>5, <2>3, <3>1, Zenon
  <2>5. u \notin bad
    BY <1>5, <2>2, <2>3, <2>4, Zenon
  <2>6. ~Waiting(t)
    BY <2>1, <2>4, <2>5, Zenon DEF Waiting, At
  <2> QED BY <2>1, <2>6, Zenon
<1> QED BY <1>3, <1>4, <1>5

-----------------------------------------------------------------------------
(* The theorems. *)

IInv == Shape /\ ReleaseInv /\ ReadInv /\ PanicInv /\ StuckInv

LEMMA IInvInitially == Init => IInv
<1> SUFFICES ASSUME Init PROVE IInv
  OBVIOUS
<1>1. ReleaseInv
  BY Zenon DEF Init, ReleaseInv, CloseReleases, IsOpen
<1>2. ReadInv
  BY Zenon DEF Init, ReadInv, ReadsAll
<1>3. StuckInv
  BY FS_EmptySet, Zenon DEF Init, StuckInv
<1> QED BY <1>1, <1>2, <1>3, ShapeInitially, PanicInitially, Zenon DEF IInv

LEMMA IInvKept == IInv /\ [Next]_vars => IInv'
BY ShapeKept, ReleaseKept, ReadKept, PanicKept, StuckKept, Zenon DEF IInv

LEMMA IInvHolds == Spec => []IInv
BY IInvInitially, IInvKept, PTL DEF Spec

\* Whatever calls to the operating system fail, and however many, Close leaves no query,
\* handle or worker of any collector open but the ones known to be left: every opening call
\* of a Build has a call in the Close that runs under the same condition and that nothing
\* before it can keep from running.
THEOREM CloseReleasesAll == Spec => []CloseReleases
<1>1. IInv => CloseReleases
  BY DEF IInv, ReleaseInv
<1> QED BY <1>1, IInvHolds, PTL

\* When a Collect returns every performance object and WMI class of the enabled
\* sub-collectors has been tried, whichever others failed, but for the known ones.
THEOREM CollectReadsAll == Spec => []ReadsAll
<1>1. IInv => ReadsAll
  BY DEF IInv, ReadInv
<1> QED BY <1>1, IInvHolds, PTL

\* A Build that failed half way and whose error Collection.Build tolerates leaves no
\* collector whose Collect or Close dereferences a descriptor Build did not get to, but for
\* the known ones.
THEOREM CollectNeverPanics == Spec => []NoPanic
<1>1. IInv => NoPanic
  BY DEF IInv, PanicInv
<1> QED BY <1>1, IInvHolds, PTL

\* However many goroutines of a Collect fail, the errors fit into the channel that is only
\* read when all have ended, and none waits for one that waits.
THEOREM CollectGoesOn == Spec => []CollectNeverStuck
<1>1. IInv => CollectNeverStuck
  BY NeverStuck DEF IInv
<1> QED BY <1>1, IInvHolds, PTL
=============================================================================
