---------------------------- MODULE RegistryRows ----------------------------
(***************************************************************************)
(* The registry reader (internal/pdh/registry), which the process          *)
(* collector uses when told to: it finds its way through the block of      *)
(* HKEY_PERFORMANCE_DATA by offsets and lengths and fills the caller's     *)
(* slice.  A block is a function from offsets to what stands there, in     *)
(* units of one 32-bit word or one header.                                 *)
(***************************************************************************)
EXTENDS Integers, Sequences, SequencesExt

CONSTANTS Word,      \* values of a word; 2^32
          Object,    \* c.object
          Total,     \* an instance name that ends in "_Total"
          NoName,    \* the name ""
          Epoch,     \* WindowsEpoch, in the units of the counter
          Wanted,    \* the counters the fields of the caller's rows name
          TicksPerSecond

UpTo(n) == [i \in 1..n |-> i]

\* RegQueryValueEx as the reader sees it: objects one after the other, each a header, the
\* definitions of its counters, then per instance a definition and a block of values.
Width(def) == IF def.wide THEN 2 ELSE 1
CounterOffset(obj, i) == 1 + FoldLeft(LAMBDA n, k : n + Width(obj.defs[k]), 0, UpTo(i - 1))
BlockLength(obj) == CounterOffset(obj, Len(obj.defs) + 1)
InstanceLength(obj) == BlockLength(obj) + (IF obj.unnamed THEN 0 ELSE 1)
DefinitionLength(obj) == 1 + Len(obj.defs)
ObjectLength(obj) == DefinitionLength(obj) + Len(obj.instances) * InstanceLength(obj)

EncodeValues(obj, inst, pos) ==
  FoldLeft(LAMBDA m, i : LET at == pos + CounterOffset(obj, i) IN
             (at :> (inst.values[i] % Word))
               @@ (IF obj.defs[i].wide THEN (at + 1 :> (inst.values[i] \div Word)) ELSE <<>>) @@ m,
           pos :> [length |-> BlockLength(obj)], UpTo(Len(obj.defs)))

EncodeInstance(obj, k, pos) ==
  IF obj.unnamed THEN EncodeValues(obj, obj.instances[k], pos)
  ELSE (pos :> [name |-> obj.instances[k].name, length |-> 1])
         @@ EncodeValues(obj, obj.instances[k], pos + 1)

EncodeObject(obj, pos) ==
  FoldLeft(LAMBDA m, k :
             EncodeInstance(obj, k, pos + DefinitionLength(obj) + (k - 1) * InstanceLength(obj)) @@ m,
           (pos :> [name |-> obj.name, total |-> ObjectLength(obj), freq |-> obj.freq,
                    definition |-> DefinitionLength(obj), counters |-> Len(obj.defs),
                    instances |-> IF obj.unnamed THEN 0 ELSE Len(obj.instances)])
             @@ [at \in (pos + 1)..(pos + Len(obj.defs)) |->
                   [offset |-> CounterOffset(obj, at - pos)] @@ obj.defs[at - pos]],
           UpTo(Len(obj.instances)))

Encode(objs) ==
  FoldLeft(LAMBDA b, i : [mem |-> EncodeObject(objs[i], b.next) @@ b.mem,
                          next |-> b.next + ObjectLength(objs[i])],
           [mem |-> <<>>, next |-> 1], UpTo(Len(objs))).mem

-----------------------------------------------------------------------------
(* perflib.go *)

\* A bug this could have: 8-byte counters are read as 4-byte ones.
MutConvertCounterValue(mem, def, at) == mem[at]

ConvertCounterValue(mem, def, at) ==
  IF def.wide THEN mem[at] + Word * mem[at + 1] ELSE mem[at]

ParseCounterBlock(mem, pos, defs) ==
  [i \in DOMAIN defs |-> [def |-> defs[i],
                          value |-> ConvertCounterValue(mem, defs[i], pos + defs[i].offset)]]

\* Each instance begins where the block of the one before ends.
ParseInstances(mem, start, n, defs) ==
  FoldLeft(LAMBDA s, i :
             LET pos == s.at + mem[s.at].length
             IN [at |-> pos + mem[pos].length,
                 list |-> Append(s.list, [name |-> mem[s.at].name,
                                          counters |-> ParseCounterBlock(mem, pos, defs)])],
           [at |-> start, list |-> <<>>], UpTo(n)).list

ParseObject(mem, pos) ==
  LET obj  == mem[pos]
      defs == [i \in 1..obj.counters |-> mem[pos + i]]
      at   == pos + obj.definition
  IN [freq |-> obj.freq,
      instances |-> IF obj.instances = 0
                    THEN <<[name |-> NoName, counters |-> ParseCounterBlock(mem, at, defs)]>>
                    ELSE ParseInstances(mem, at, obj.instances, defs)]

\* Objects of other names are stepped over; the first of the wanted name is the answer.
QueryPerformanceData(mem, numObjects) ==
  FoldLeft(LAMBDA s, i :
             IF s.found # <<>> THEN s
             ELSE IF mem[s.at].name # Object THEN [s EXCEPT !.at = @ + mem[s.at].total]
             ELSE [s EXCEPT !.found = <<ParseObject(mem, s.at)>>],
           [at |-> 1, found |-> <<>>], UpTo(numObjects)).found

-----------------------------------------------------------------------------
(* collector.go *)

\* The division by the object's Frequency panics when it is 0.
ValueOf(counter, freq) ==
  CASE counter.def.type = "elapsed" -> (counter.value - Epoch) \div freq
    [] counter.def.type = "ticks"   -> <<counter.value, TicksPerSecond>>   \* a fraction
    [] OTHER                        -> counter.value

Row(inst, freq) ==
  LET used == SelectSeq(inst.counters, LAMBDA c : (~c.def.base \/ c.def.nano) /\ c.def.name \in Wanted)
  IN [name |-> IF inst.name = NoName THEN "------" ELSE inst.name,
      val  |-> FoldLeft(LAMBDA v, c : (c.def.name :> ValueOf(c, freq)) @@ v, <<>>, used)]

\* Nothing found: the function returns before it empties the slice.
Collect(dst, mem, numObjects) ==
  LET found == QueryPerformanceData(mem, numObjects)
      insts == IF found = <<>> THEN <<>>
               ELSE SelectSeq(found[1].instances, LAMBDA i : i.name # Total)
  IN IF found = <<>> THEN dst
     ELSE [i \in DOMAIN insts |-> Row(insts[i], found[1].freq)]

-----------------------------------------------------------------------------
\* The rows that describe the data: no offsets, no words.
Rows(objs) ==
  LET mine  == SelectSeq(objs, LAMBDA o : o.name = Object)
      insts == SelectSeq(mine[1].instances, LAMBDA i : mine[1].unnamed \/ i.name # Total)
      val(inst) ==
        LET used == {i \in DOMAIN mine[1].defs : /\ mine[1].defs[i].name \in Wanted
                                                 /\ ~mine[1].defs[i].base \/ mine[1].defs[i].nano}
        IN [n \in {mine[1].defs[i].name : i \in used} |->
              LET i == CHOOSE k \in used : mine[1].defs[k].name = n
                  v == IF mine[1].defs[i].wide THEN inst.values[i] ELSE inst.values[i] % Word
              IN CASE mine[1].defs[i].type = "elapsed" -> (v - Epoch) \div mine[1].freq
                   [] mine[1].defs[i].type = "ticks"   -> <<v, TicksPerSecond>>
                   [] mine[1].defs[i].type = "plain"   -> v]
  IN [i \in DOMAIN insts |->
        [name |-> IF mine[1].unnamed \/ insts[i].name = NoName THEN "------" ELSE insts[i].name,
         val  |-> val(insts[i])]]
=============================================================================
