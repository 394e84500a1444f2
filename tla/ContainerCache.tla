--------------------------- MODULE ContainerCache ---------------------------
(***************************************************************************)
(* Collect of the container collector and the two caches of annotations it *)
(* keeps from one Collect to the next, while containers come and go.  One  *)
(* Collect at a time: two that overlap write the maps at once, which the   *)
(* Go runtime ends the process for.                                        *)
(***************************************************************************)
EXTENDS Naturals, FiniteSets, Functions

CONSTANTS Containers,
          Jobs,    \* those that are host process containers, unknown to HCS
          Pause    \* the pause containers of pods

VARIABLES life,     \* container -> "new", "running" or "gone"
          written,  \* containers whose config.json can be read
          attached, \* containers that network endpoints name
          hcs,      \* annotationsCacheHCS: container -> [id, labels]
          job,      \* annotationsCacheJob
          cpc,      \* where Collect is
          todo,     \* containers it still has to visit
          ids,      \* containerIDs, then jobContainerIDs
          seen,     \* metrics of this Collect: pairs of container and labels
          early     \* containers first met when their config.json could not be read

vars == <<life, written, attached, hcs, job, cpc, todo, ids, seen, early>>
world == <<life, written, attached>>

Own(c) == <<"annotations", c>>
Blank  == <<"", "">>
Id(c) == <<"", c>>   \* the keys of the caches, and what HCS calls a container
IdWithPrefix(c) == <<"containerd://", c>>   \* or docker://

Init ==
  /\ life = [c \in Containers |-> "new"] /\ written = {} /\ attached = {}
  /\ hcs = <<>> /\ job = <<>> /\ cpc = "idle" /\ todo = {} /\ ids = {} /\ seen = {} /\ early = {}

-----------------------------------------------------------------------------
(* Containers *)

Start(c) == /\ life[c] = "new" /\ life' = [life EXCEPT ![c] = "running"]
            /\ attached' = attached \cup {c}
            /\ UNCHANGED <<written, hcs, job, cpc, todo, ids, seen, early>>

WriteSpec(c) == /\ life[c] = "running" /\ c \notin written /\ written' = written \cup {c}
                /\ UNCHANGED <<life, attached, hcs, job, cpc, todo, ids, seen, early>>

\* A container ends; its endpoint may stay in the list.
Stop(c) == /\ life[c] = "running" /\ life' = [life EXCEPT ![c] = "gone"]
           /\ written' = written \ {c}
           /\ attached' \in {attached, attached \ {c}}
           /\ UNCHANGED <<hcs, job, cpc, todo, ids, seen, early>>

-----------------------------------------------------------------------------
(* collectHCS *)

\* hcs.GetContainers fails or finds no container: the rest of the function is left out.
\* The list may have containers that do not run and are passed over.
ListContainers ==
  /\ cpc = "idle"
  /\ LET found == {c \in Containers \ Jobs : life[c] = "running"}
     IN \/ cpc' = "walk" /\ todo' = {} /\ ids' = {}
        \/ cpc' = "visit" /\ todo' = found /\ ids' = found
  /\ seen' = {}
  /\ UNCHANGED <<world, hcs, job, early>>

IsPause(info) == info.labels # Blank /\ info.labels[2] \in Pause

\* A bug this could have: the variables of the annotations are those of the container before.
MutInfo(c) ==
  [id |-> IdWithPrefix(c),
   labels |-> IF c \in written THEN Own(c)
              ELSE IF \E d \in DOMAIN hcs : d \in ids
                   THEN hcs[CHOOSE d \in DOMAIN hcs : d \in ids].labels ELSE Blank]

\* What the cache gets for a container: blank annotations when they cannot be read.
Info(c) == [id |-> IdWithPrefix(c), labels |-> IF c \in written THEN Own(c) ELSE Blank]

\* The metrics of a container; its statistics may fail.
CollectHCSContainer(c) ==
  \/ ~IsPause(hcs'[c]) /\ seen' = seen \cup {<<c, hcs'[c].labels>>}
  \/ UNCHANGED seen

\* A container of the list: its annotations from the cache, read only the first time.
VisitContainer(c) ==
  /\ cpc = "visit" /\ c \in todo /\ todo' = todo \ {c}
  /\ IF c \in DOMAIN hcs THEN UNCHANGED <<hcs, early>>
     ELSE /\ hcs' = [d \in DOMAIN hcs \cup {c} |-> IF d = c THEN Info(c) ELSE hcs[d]]
          /\ early' = IF c \in written THEN early ELSE early \cup {c}
  /\ CollectHCSContainer(c)
  /\ UNCHANGED <<world, job, cpc, ids>>

\* collectNetworkMetrics passes over endpoints whose statistics fail; its error returns
\* before the cache is cleaned.
CollectNetwork ==
  /\ cpc = "visit" /\ todo = {}
  /\ \/ cpc' = "walk" /\ UNCHANGED seen
     \/ /\ cpc' = "evict"
        /\ \E reached \in SUBSET (attached \cap DOMAIN hcs) :
             seen' = seen \cup {<<c, hcs[c].labels>> : c \in {d \in reached : ~IsPause(hcs[d])}}
  /\ UNCHANGED <<world, hcs, job, todo, ids, early>>

\* A bug this could have: the key is right and the comparison still wrong.
MutEvict(cache) == Restrict(cache, {c \in DOMAIN cache : cache[c].id \in {Id(d) : d \in ids}})

\* "Remove containers that are no longer running": the id with its prefix is compared with
\* the IDs, and deleted as if it were a key.
Evict(cache) ==
  LET gone == {cache[c].id : c \in DOMAIN cache} \ {Id(c) : c \in ids}
  IN Restrict(cache, {c \in DOMAIN cache : Id(c) \notin gone})

EvictContainers ==
  /\ cpc = "evict" /\ cpc' = "walk"
  /\ hcs' = Evict(hcs)
  /\ UNCHANGED <<world, job, todo, ids, seen, early>>

-----------------------------------------------------------------------------
(* collectJobContainers *)

\* The walk meets the host process containers whose config.json can be read; it may fail
\* after some of them.
WalkJobs ==
  /\ cpc = "walk"
  /\ \E met \in SUBSET (Jobs \cap written) :
       /\ job' = [c \in DOMAIN job \cup met |-> IF c \in DOMAIN job THEN job[c] ELSE Info(c)]
       /\ \/ cpc' = "idle" /\ UNCHANGED <<todo, ids>>
          \/ cpc' = "jobs" /\ met = Jobs \cap written /\ todo' = met /\ ids' = {}
  /\ UNCHANGED <<world, hcs, seen, early>>

\* collectJobContainer reports it, finds its job object gone, or fails.
VisitJob(c) ==
  /\ cpc = "jobs" /\ c \in todo /\ todo' = todo \ {c}
  /\ \/ ids' = ids \cup {c} /\ seen' = seen \cup {<<c, job[c].labels>>}
     \/ ids' \in {ids, ids \cup {c}} /\ UNCHANGED seen
  /\ UNCHANGED <<world, hcs, job, cpc, early>>

EvictJobs ==
  /\ cpc = "jobs" /\ todo = {} /\ cpc' = "idle"
  /\ job' = Evict(job)
  /\ UNCHANGED <<world, hcs, todo, ids, seen, early>>

Next ==
  \/ \E c \in Containers : Start(c) \/ WriteSpec(c) \/ Stop(c) \/ VisitContainer(c) \/ VisitJob(c)
  \/ ListContainers \/ CollectNetwork \/ EvictContainers \/ WalkJobs \/ EvictJobs

Safety == Init /\ [][Next]_vars

-----------------------------------------------------------------------------
(* Properties *)

\* A container's metrics carry its own annotations; they are blank exactly for a container
\* that was first met before its config.json could be read.
AnnotationsOwn ==
  \A p \in seen : p[2] = IF p[1] \in early THEN Blank ELSE Own(p[1])

\* The labels of a container stay what they are while it runs: no step changes an entry
\* of a cache, takes that of a running container from annotationsCacheHCS, or takes from
\* annotationsCacheJob one whose job object this Collect has found.
LabelsStable ==
  [][/\ \A c \in DOMAIN hcs : IF c \in DOMAIN hcs' THEN hcs'[c] = hcs[c] ELSE life[c] # "running"
     /\ \A c \in DOMAIN job : IF c \in DOMAIN job' THEN job'[c] = job[c]
                              ELSE cpc = "jobs" /\ c \notin ids]_vars

\* "Remove containers that are no longer running": where the code says so, the cache
\* keeps only containers that this Collect has met.
StoppedRemoved ==
  [][/\ cpc = "evict" => DOMAIN hcs' \subseteq ids
     /\ cpc = "jobs" /\ todo = {} => DOMAIN job' \subseteq ids]_<<cpc, hcs, job>>
=============================================================================
