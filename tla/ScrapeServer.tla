---------------------------- MODULE ScrapeServer ----------------------------
(***************************************************************************)
(* The start of the program (main.go) up to the HTTP server: Enable,       *)
(* Disable and Build of the collection.  Then requests for /metrics:       *)
(* MetricsHTTPHandler.ServeHTTP and handlerFactory (internal/httphandler), *)
(* NewHandler, WithCollectors and Handler.Collect (pkg/collector).  A      *)
(* scrape is abstracted to what Scrape shows of it: per collector one      *)
(* goroutine that may outlive the scrape, and one status that is either    *)
(* the result of that goroutine or a timeout.                              *)
(***************************************************************************)
CONSTANTS Requests,    \* requests, each served once
          Names,       \* the collectors the program knows
          Flags,       \* values of --collectors.enabled: sets of names
          Off,         \* value of --collectors.disabled
          NoRequest    \* nobody holds concurrencyMu

ASSUME NoRequestAssumption == NoRequest \notin Requests

VARIABLES stage,     \* "flags", "enabled", "init", "building", "serving", "exited"
          on,        \* the value of --collectors.enabled
          built,     \* collectors whose Build has returned
          failed,    \* those of them with an error that is not tolerated
          base,      \* collectors of the program's collection
          pc,        \* requests: "idle", "lock", "scrape", "answered", "rejected"
          want,      \* the collect[] parameters of a request
          coll,      \* collectors of the collection made for a request
          mu,        \* holder of concurrencyMu
          going,     \* per request: the collectors whose Collect goroutine runs
          status     \* per request and collector: "none", "running", "result", "pending"

start == <<stage, on, built, failed>>
serve == <<pc, want, coll, mu, going, status>>
vars == <<start, base, serve>>

Init ==
  /\ stage = "flags" /\ on \in Flags /\ built = {} /\ failed = {}
  /\ base = Names
  /\ pc = [r \in Requests |-> "idle"]
  /\ want = [r \in Requests |-> {}]
  /\ coll = [r \in Requests |-> {}]
  /\ mu = NoRequest
  /\ going = [r \in Requests |-> {}]
  /\ status = [r \in Requests |-> [c \in Names |-> "none"]]

-----------------------------------------------------------------------------
(* The start *)

\* collectors.Enable: a name that is unknown ends the program.
Enable ==
  /\ stage = "flags"
  /\ \/ on \subseteq base /\ base' = base \cap on /\ stage' = "enabled"
     \/ ~ on \subseteq base /\ stage' = "exited" /\ UNCHANGED base
  /\ UNCHANGED <<on, built, failed, serve>>

\* collectors.Disable: unknown names are ignored.
Disable ==
  /\ stage = "enabled" /\ stage' = "init"
  /\ base' = base \ Off
  /\ UNCHANGED <<on, built, failed, serve>>

\* initMI; any of its calls may fail.
InitMI ==
  /\ stage = "init" /\ stage' \in {"building", "exited"}
  /\ UNCHANGED <<on, built, failed, base, serve>>

\* The goroutine of one collector: its Build returns without an error, with one that
\* Collection.Build tolerates (alone or joined with others), or with one it does not.
BuildOne(c) ==
  /\ stage = "building" /\ c \in base \ built
  /\ built' = built \cup {c}
  /\ failed' \in {failed, failed \cup {c}}
  /\ UNCHANGED <<stage, on, base, serve>>

\* Mutant: the server starts without waiting for the goroutines.
MutBuildDone ==
  /\ stage = "building"
  /\ stage' = IF failed # {} THEN "exited" ELSE "serving"
  /\ UNCHANGED <<on, built, failed, base, serve>>

\* wg.Wait() of Collection.Build; main returns 1 or starts the server.
BuildDone ==
  /\ stage = "building" /\ built = base
  /\ stage' = IF failed # {} THEN "exited" ELSE "serving"
  /\ UNCHANGED <<on, built, failed, base, serve>>

-----------------------------------------------------------------------------
(* Requests *)

\* Enable on a clone of the collectors: unknown names are an error.
WithCollectors(r, names) ==
  \/ /\ names \subseteq base
     /\ coll' = [coll EXCEPT ![r] = base \cap names]
     /\ pc' = [pc EXCEPT ![r] = "lock"]
     /\ UNCHANGED base
  \/ /\ ~ names \subseteq base
     /\ pc' = [pc EXCEPT ![r] = "rejected"]
     /\ UNCHANGED <<base, coll>>

\* Mutant: the collectors are filtered in place instead of on a clone.
MutServeHTTP(r) ==
  /\ stage = "serving" /\ pc[r] = "idle"
  /\ \E names \in SUBSET Names :
       /\ want' = [want EXCEPT ![r] = names]
       /\ base' = IF names = {} THEN base ELSE base \cap names
       /\ coll' = [coll EXCEPT ![r] = base']
       /\ pc' = [pc EXCEPT ![r] = IF names \subseteq base THEN "lock" ELSE "rejected"]
  /\ UNCHANGED <<start, mu, going, status>>

\* ServeHTTP up to the handler: without collect[] the server's own collection is
\* used; an error answers 400.
ServeHTTP(r) ==
  /\ stage = "serving" /\ pc[r] = "idle"
  /\ \E names \in SUBSET Names :
       /\ want' = [want EXCEPT ![r] = names]
       /\ IF names # {}
            THEN WithCollectors(r, names)
            ELSE /\ coll' = [coll EXCEPT ![r] = base]
                 /\ pc' = [pc EXCEPT ![r] = "lock"]
                 /\ UNCHANGED base
  /\ UNCHANGED <<start, mu, going, status>>

\* Mutant: the mutex is per handler, and a handler is made per request.
MutCollect(r) ==
  /\ pc[r] = "lock"
  /\ mu' = r
  /\ pc' = [pc EXCEPT ![r] = "scrape"]
  /\ going' = [going EXCEPT ![r] = coll[r]]
  /\ status' = [status EXCEPT ![r] = [c \in Names |-> IF c \in coll[r] THEN "running" ELSE "none"]]
  /\ UNCHANGED <<start, base, want, coll>>

\* Handler.Collect locks concurrencyMu and collectAll starts the goroutines.
Collect(r) ==
  /\ pc[r] = "lock"
  /\ mu = NoRequest
  /\ mu' = r
  /\ pc' = [pc EXCEPT ![r] = "scrape"]
  /\ going' = [going EXCEPT ![r] = coll[r]]
  /\ status' = [status EXCEPT ![r] = [c \in Names |-> IF c \in coll[r] THEN "running" ELSE "none"]]
  /\ UNCHANGED <<start, base, want, coll>>

\* The Collect of a collector returns, in time or late.
Return(r, c) ==
  /\ c \in going[r]
  /\ going' = [going EXCEPT ![r] = @ \ {c}]
  /\ UNCHANGED <<start, base, pc, want, coll, mu, status>>

\* collectCollector gives up on a collector at the deadline.
Timeout(r, c) ==
  /\ status[r][c] = "running"
  /\ status' = [status EXCEPT ![r][c] = "pending"]
  /\ UNCHANGED <<start, base, pc, want, coll, mu, going>>

\* collectCollector has the result of a Collect that returned.
Report(r, c) ==
  /\ status[r][c] = "running" /\ c \notin going[r]
  /\ status' = [status EXCEPT ![r][c] = "result"]
  /\ UNCHANGED <<start, base, pc, want, coll, mu, going>>

\* Mutant: collectAll waits for the goroutines of all collectors.
MutAnswer(r) ==
  /\ pc[r] = "scrape"
  /\ going[r] = {}
  /\ pc' = [pc EXCEPT ![r] = "answered"]
  /\ mu' = NoRequest
  /\ UNCHANGED <<start, base, want, coll, going, status>>

\* collectAll returns, the mutex is unlocked and the response written.
Answer(r) ==
  /\ pc[r] = "scrape"
  /\ \A c \in Names : status[r][c] # "running"
  /\ pc' = [pc EXCEPT ![r] = "answered"]
  /\ mu' = NoRequest
  /\ UNCHANGED <<start, base, want, coll, going, status>>

Next ==
  \/ Enable \/ Disable \/ InitMI \/ BuildDone
  \/ \E c \in Names : BuildOne(c)
  \/ \E r \in Requests :
       \/ ServeHTTP(r) \/ Collect(r) \/ Answer(r)
       \/ \E c \in Names : Return(r, c) \/ Timeout(r, c) \/ Report(r, c)

Safety == Init /\ [][Next]_vars

\* Timers fire and the server's goroutines run; sync.Mutex hands the lock to a
\* waiter that has waited long enough, hence strong fairness of Collect.  A
\* collector's Collect need not return.
Fairness ==
  \A r \in Requests :
    /\ SF_vars(Collect(r)) /\ WF_vars(Answer(r))
    /\ \A c \in Names : WF_vars(Timeout(r, c) \/ Report(r, c))

Spec == Safety /\ Fairness

-----------------------------------------------------------------------------
(* Properties. *)

\* Every variable holds a value of its type; concurrencyMu is held by exactly the
\* request that scrapes.
TypeOK ==
  /\ stage \in {"flags", "enabled", "init", "building", "serving", "exited"}
  /\ on \in Flags /\ built \subseteq base /\ base \subseteq Names /\ failed \subseteq built
  /\ pc \in [Requests -> {"idle", "lock", "scrape", "answered", "rejected"}]
  /\ want \in [Requests -> SUBSET Names]
  /\ coll \in [Requests -> SUBSET Names]
  /\ mu \in Requests \cup {NoRequest}
  /\ going \in [Requests -> SUBSET Names]
  /\ status \in [Requests -> [Names -> {"none", "running", "result", "pending"}]]
  /\ \A r \in Requests : pc[r] = "scrape" <=> mu = r

\* Two Collect calls of one collector overlap only when the scrape of one of them
\* gave up on it: concurrencyMu keeps live scrapes apart, whatever they ask for.
OverlapOnlyAfterTimeout ==
  \A r \in Requests, s \in Requests : r # s =>
    \A c \in going[r] \cap going[s] : status[r][c] = "pending" \/ status[s][c] = "pending"

\* What the comment on concurrencyMu asks for: the memory a collector reads is
\* used by one request at a time.
OneRequestAtATime ==
  \A r \in Requests, s \in Requests : r # s => going[r] \cap going[s] = {}

\* A request is answered with exactly the collectors it asked for, or with all that the
\* flags enable and do not disable, and rejected exactly when it asks for another one, no
\* matter what other requests have asked for before.
FilterExact ==
  \A r \in Requests :
    /\ pc[r] = "rejected" => ~ want[r] \subseteq on \ Off
    /\ pc[r] = "answered" =>
         {c \in Names : status[r][c] # "none"} = (IF want[r] = {} THEN on \ Off ELSE want[r])

\* No Collect runs beside the Build of its collector or of another one, and none at all
\* after a Build whose error is not tolerated.
BuiltBeforeServed ==
  \A r \in Requests : going[r] # {} => built = base /\ failed = {} /\ going[r] \subseteq built

\* Every request that came in is answered although collectors may hang: a scrape
\* holds the mutex no longer than its deadline.
EveryRequestAnswered ==
  \A r \in Requests : pc[r] = "lock" ~> pc[r] = "answered"
=============================================================================
