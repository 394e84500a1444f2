---------------------------- MODULE ScrapePromise ----------------------------
(***************************************************************************)
(* What a scrape promises its caller, without goroutines or channels:      *)
(* every collector reports one status code, and only when all have         *)
(* reported are the statuses exported; then the scrape is over.            *)
(***************************************************************************)
EXTENDS Naturals

CONSTANT Collectors

VARIABLES status,    \* "running", or the status code reported
          exported,  \* metrics about the scrape itself
          phase      \* "wait", "emit", "done"

vars == <<status, exported, phase>>

Init ==
  /\ status = [c \in Collectors |-> "running"]
  /\ exported = {}
  /\ phase = "wait"

\* A collector reports its status together with the duration of its Collect.
Report(c) ==
  /\ phase = "wait"
  /\ status[c] = "running"
  /\ \E s \in {"pending", "success", "failed"} : status' = [status EXCEPT ![c] = s]
  /\ exported' = exported \cup {<<"duration", c, 1>>}
  /\ UNCHANGED phase

\* All collectors have reported.
Proceed ==
  /\ phase = "wait"
  /\ \A c \in Collectors : status[c] # "running"
  /\ phase' = "emit"
  /\ UNCHANGED <<status, exported>>

\* The success and the timeout sample of one collector.
Export(c) ==
  /\ phase = "emit"
  /\ exported' = exported \cup
       {<<"success", c, IF status[c] = "success" THEN 1 ELSE 0>>,
        <<"timeout", c, IF status[c] = "pending" THEN 1 ELSE 0>>}
  /\ UNCHANGED <<status, phase>>

\* The scrape returns with both samples of every collector exported.
Return ==
  /\ phase = "emit"
  /\ \A c \in Collectors, m \in {"duration", "success", "timeout"} :
       \E v \in {0, 1} : <<m, c, v>> \in exported
  /\ phase' = "done"
  /\ UNCHANGED <<status, exported>>

Next == (\E c \in Collectors : Report(c) \/ Export(c)) \/ Proceed \/ Return

Spec == Init /\ [][Next]_vars
=============================================================================
