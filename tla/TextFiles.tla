----------------------------- MODULE TextFiles ------------------------------
(***************************************************************************)
(* Collect of the textfile collector: which metrics of the .prom files it  *)
(* sends, one step for each file, each metric compared and each directory. *)
(* A directory is [files, broken], the files in the order of the walk,     *)
(* broken when the walk of a directory that has a name ends with an error. *)
(* A file is                                                               *)
(*     [name, bad, metrics : sequence of [name, labels]],                  *)
(* bad when it cannot be opened, parsed or stat'ed or has timestamps;      *)
(* labels is a function from label names to values.  The metrics of one    *)
(* name are one family, in one of the orders of the parser's map.          *)
(***************************************************************************)
EXTENDS Naturals, Sequences, Functions

CONSTANTS Directories,   \* the lists of directories Collect may find
          Metrics,       \* the metrics files may have
          NoValue        \* ""

ASSUME DirectoriesAssumption ==
  \A ds \in Directories :
    /\ Len(ds) \in Nat /\ DOMAIN ds = 1..Len(ds)
    /\ \A d \in DOMAIN ds : /\ Len(ds[d].files) \in Nat /\ DOMAIN ds[d].files = 1..Len(ds[d].files)
                            /\ \A i \in DOMAIN ds[d].files : ds[d].files[i].metrics \in Seq(Metrics)

VARIABLES dirs,       \* c.config.TextFileDirectories and what is in them
          stage,      \* "walk", "file" or "all" (duplicateMetricEntry runs for a file or for
                      \* all), or "sent"
          dirAt,      \* the directory the loop is at
          fileAt,     \* the file the walk is at
          metricAt,   \* the metric duplicateMetricEntry is at
          unique,     \* uniqueMetrics: name -> labels of the last metric of the name
          mTimes,     \* the names of the files that were taken
          families,   \* metricFamilies: the metrics, each with the label names of its family
          errs,       \* the number of errors
          sent        \* what convertMetricFamily has sent

textVars == <<dirs, stage, dirAt, fileAt, metricAt, unique, mTimes, families, errs, sent>>

TextStart(ds) ==
  /\ dirs = ds /\ stage = "walk" /\ dirAt = 1 /\ fileAt = 1 /\ metricAt = 0 /\ unique = <<>>
  /\ mTimes = {} /\ families = <<>> /\ errs = 0 /\ sent = <<>>

TextInit == \E ds \in Directories : TextStart(ds)

FileHere == dirs[dirAt].files[fileAt]

\* A file is opened and parsed; its metrics are compared next.
TakeFile ==
  /\ stage = "walk" /\ dirAt \in DOMAIN dirs /\ fileAt \in DOMAIN dirs[dirAt].files
  /\ \/ /\ FileHere.bad
        /\ errs' = errs + 1 /\ fileAt' = fileAt + 1 /\ UNCHANGED <<stage, metricAt, unique>>
     \/ /\ ~FileHere.bad
        /\ stage' = "file" /\ metricAt' = 1 /\ unique' = <<>> /\ UNCHANGED <<errs, fileAt>>
  /\ UNCHANGED <<dirs, dirAt, mTimes, families, sent>>

\* The next directory, after an error that ended the walk is noted.
EndDirectory ==
  /\ stage = "walk" /\ dirAt \in DOMAIN dirs /\ fileAt \notin DOMAIN dirs[dirAt].files
  /\ errs' = IF dirs[dirAt].broken THEN errs + 1 ELSE errs
  /\ dirAt' = dirAt + 1 /\ fileAt' = 1
  /\ UNCHANGED <<dirs, stage, metricAt, unique, mTimes, families, sent>>

\* After the last directory the times of the files taken are exported (mTimes) and the
\* metrics of all files compared.
EndWalk ==
  /\ stage = "walk" /\ dirAt \notin DOMAIN dirs
  /\ stage' = "all" /\ metricAt' = 1 /\ unique' = <<>>
  /\ UNCHANGED <<dirs, dirAt, fileAt, mTimes, families, errs, sent>>

\* What duplicateMetricEntry was called with.
Compared == IF stage = "file" THEN FileHere.metrics ELSE families

\* A bug this could have: only the metric just before is remembered, whatever its name.
MutRemember(m) == [n \in {m.name} |-> m.labels]

\* uniqueMetrics[metricName] = labels: the labels of the metric before are forgotten.
Remember(m) ==
  [n \in DOMAIN unique \cup {m.name} |-> IF n = m.name THEN m.labels ELSE unique[n]]

SameAsLast(m) == m.name \in DOMAIN unique /\ unique[m.name] = m.labels

\* A round of duplicateMetricEntry that does not find a duplicate.
CompareMetric ==
  /\ stage \in {"file", "all"} /\ metricAt \in DOMAIN Compared /\ ~SameAsLast(Compared[metricAt])
  /\ unique' = Remember(Compared[metricAt]) /\ metricAt' = metricAt + 1
  /\ UNCHANGED <<dirs, stage, dirAt, fileAt, mTimes, families, errs, sent>>

\* How duplicateMetricEntry ends.
FoundDuplicate == metricAt \in DOMAIN Compared /\ SameAsLast(Compared[metricAt])
FoundNone      == metricAt \notin DOMAIN Compared

\* The metrics of a file, each with all label names of its family.
Families(metrics) ==
  [i \in DOMAIN metrics |->
     [name |-> metrics[i].name, labels |-> metrics[i].labels,
      all |-> UNION {DOMAIN metrics[k].labels : k \in {j \in DOMAIN metrics : metrics[j].name = metrics[i].name}}]]

\* The rest of the callback: a file with a duplicate or a name that was there is an error.
AddFile ==
  /\ stage = "file" /\ stage' = "walk" /\ fileAt' = fileAt + 1
  /\ \/ /\ FoundDuplicate \/ (FoundNone /\ FileHere.name \in mTimes)
        /\ errs' = errs + 1 /\ UNCHANGED <<mTimes, families>>
     \/ /\ FoundNone /\ FileHere.name \notin mTimes
        /\ mTimes' = mTimes \cup {FileHere.name} /\ families' = families \o Families(FileHere.metrics)
        /\ UNCHANGED errs
  /\ UNCHANGED <<dirs, dirAt, metricAt, unique, sent>>

\* A metric gets all labels of its family, "" where it has none.
ConvertMetric(m) ==
  [name |-> m.name,
   labels |-> [l \in m.all |-> IF l \in DOMAIN m.labels THEN m.labels[l] ELSE NoValue]]

\* Duplicates across files are logged: nothing is sent and no error noted.
SendMetrics ==
  /\ stage = "all" /\ stage' = "sent"
  /\ \/ FoundDuplicate /\ UNCHANGED sent
     \/ FoundNone /\ sent' = [i \in DOMAIN families |-> ConvertMetric(families[i])]
  /\ UNCHANGED <<dirs, dirAt, fileAt, metricAt, unique, mTimes, families, errs>>

TextNext == TakeFile \/ CompareMetric \/ AddFile \/ EndDirectory \/ EndWalk \/ SendMetrics

TextSpec == TextInit /\ [][TextNext]_textVars

-----------------------------------------------------------------------------
\* What tells a metric from others: its name and the labels that have a value.
Key(m) == <<m.name, {<<l, m.labels[l]>> : l \in {k \in DOMAIN m.labels : m.labels[k] # NoValue}}>>

SameMetric(m, k) == m.name = k.name /\ m.labels = k.labels

\* Two equal metrics of s with none of their name between them.
Repeats(s) ==
  \E i, k \in DOMAIN s : /\ i < k /\ SameMetric(s[i], s[k])
                         /\ \A m \in (i + 1)..(k - 1) : s[m].name # s[k].name

\* No two metrics of s that cannot be told apart.
Distinct(s) == \A i, k \in DOMAIN s : Key(s[i]) = Key(s[k]) => i = k

Readable(d, i) == ~dirs[d].files[i].bad /\ ~Repeats(dirs[d].files[i].metrics)

\* File i of directory d is the first of its name that can be read and repeats no metric.
Accepted(d, i) ==
  /\ Readable(d, i)
  /\ \A c \in DOMAIN dirs : \A k \in DOMAIN dirs[c].files :
       (c < d \/ (c = d /\ k < i)) /\ Readable(c, k) => dirs[c].files[k].name # dirs[d].files[i].name

\* Neither a file that can be read nor the files taken together have a metric twice.
NoDuplicates ==
  /\ Distinct(families)
  /\ \A d \in DOMAIN dirs : \A i \in DOMAIN dirs[d].files :
       Readable(d, i) => Distinct(dirs[d].files[i].metrics)

\* A directory could not be walked, or a file was not accepted.
Rejects == \E d \in DOMAIN dirs : \/ dirs[d].broken
                                  \/ \E i \in DOMAIN dirs[d].files : ~Accepted(d, i)

\* Collect of textfile returns an error whenever a file was not accepted or a directory not
\* walked, and sends nothing when a metric of the files it took follows an equal one of its
\* name.  Without duplicates it has no other error, and it sends the metrics of all accepted
\* files, each once, whatever became of the other files.
TextfileExact ==
  stage = "sent" =>
    /\ Rejects => errs > 0
    /\ Repeats(families) => sent = <<>>
    /\ NoDuplicates =>
         /\ errs > 0 => Rejects
         /\ Len(sent) = Len(families)
         /\ {Key(sent[i]) : i \in DOMAIN sent} =
              UNION {UNION {{Key(m) : m \in Range(dirs[d].files[i].metrics)} :
                              i \in {k \in DOMAIN dirs[d].files : Accepted(d, k)}} : d \in DOMAIN dirs}

\* The comments of Collect (textfile.go:309-311 and 360): duplicates across files are an
\* error.  Asked of files that have no metric twice.
DuplicatesReturned ==
  /\ stage = "sent"
  /\ \A d \in DOMAIN dirs : \A i \in DOMAIN dirs[d].files : Distinct(dirs[d].files[i].metrics)
  /\ \E i, k \in DOMAIN families : i # k /\ SameMetric(families[i], families[k])
  => errs > 0
=============================================================================
