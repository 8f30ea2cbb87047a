------------------------------ MODULE ApiProcess ------------------------------
(***************************************************************************)
(* The process of the API server (cmd/server/main.go): how it comes up,    *)
(* and how it goes down while requests are being handled.  What net/http   *)
(* does on Shutdown is external: it accepts no more connections and waits  *)
(* for the requests of those it has, until the deadline of its context.    *)
(***************************************************************************)
CONSTANTS
  Requests

VARIABLES
  process,      \* where main() is
  signalled,    \* whether SIGINT or SIGTERM has come
  storeOpen,    \* whether the store can be used
  request,      \* request -> how far it is
  overdue,      \* whether the deadline of Shutdown has passed
  fatal         \* whether log.Fatal has ended the process

processVars == <<process, signalled, storeOpen, request, overdue, fatal>>

Running == {r \in Requests : request[r] = "running"}

\* Type invariant, with the lifetime of the store: it is open from the start to
\* closeStore, and only log.Fatal leaves it open behind.
ProcessTypeOK ==
  /\ process \in {"starting", "serving", "draining", "closing", "closed", "exited"}
  /\ signalled \in BOOLEAN /\ storeOpen \in BOOLEAN
  /\ overdue \in BOOLEAN /\ fatal \in BOOLEAN
  /\ request \in [Requests -> {"none", "running", "answered", "timed out", "failed", "cut off"}]
  /\ process \in {"serving", "draining", "closing"} => storeOpen
  /\ process \in {"closed", "exited"} => ~storeOpen \/ fatal

ProcessInit ==
  /\ process = "starting"
  /\ signalled = FALSE /\ storeOpen = FALSE
  /\ request = [r \in Requests |-> "none"]
  /\ overdue = FALSE /\ fatal = FALSE

\* Exit takes the requests with it that are being handled.
Exit ==
  /\ process' = "exited"
  /\ request' = [r \in Requests |-> IF r \in Running THEN "cut off" ELSE request[r]]

Signal ==
  /\ process # "exited" /\ ~signalled
  /\ signalled' = TRUE
  /\ UNCHANGED <<process, storeOpen, request, overdue, fatal>>

\* newStore connects, with the context that a signal cancels; then the secret.
Start ==
  /\ process = "starting"
  /\ process' = "serving" /\ storeOpen' = TRUE
  /\ UNCHANGED <<signalled, request, overdue, fatal>>

\* No store, no secret, or ListenAndServe ends on its own: log.Fatal, at once.
Fatal ==
  /\ process \in {"starting", "serving"}
  /\ Exit
  /\ fatal' = TRUE
  /\ UNCHANGED <<signalled, storeOpen, overdue>>

Arrive(r) ==
  /\ process \in {"serving", "draining"} /\ request[r] = "none"
  /\ request' = [request EXCEPT ![r] = "running"]
  /\ UNCHANGED <<process, signalled, storeOpen, overdue, fatal>>

\* The handler ends; with the store closed it can only fail.
Handle(r) ==
  /\ r \in Running /\ process # "exited"
  /\ request' = [request EXCEPT ![r] = IF storeOpen THEN "answered" ELSE "failed"]
  /\ UNCHANGED <<process, signalled, storeOpen, overdue, fatal>>

\* It ends after the write timeout of the connection.
HandleLate(r) ==
  /\ r \in Running /\ process # "exited"
  /\ request' = [request EXCEPT ![r] = "timed out"]
  /\ UNCHANGED <<process, signalled, storeOpen, overdue, fatal>>

\* Mutant: the store is closed before the server is shut down.
ShutdownAfterClose ==
  /\ process = "serving" /\ signalled
  /\ process' = "draining" /\ storeOpen' = FALSE
  /\ UNCHANGED <<signalled, request, overdue, fatal>>

Shutdown ==
  /\ process = "serving" /\ signalled
  /\ process' = "draining"
  /\ UNCHANGED <<signalled, storeOpen, request, overdue, fatal>>

Drained ==
  /\ process = "draining" /\ Running = {}
  /\ process' = "closing"
  /\ UNCHANGED <<signalled, storeOpen, request, overdue, fatal>>

\* Mutant: Shutdown has no deadline.
NoDeadline == FALSE /\ UNCHANGED processVars

\* The error of Shutdown is dropped.
DrainDeadline ==
  /\ process = "draining"
  /\ process' = "closing" /\ overdue' = TRUE
  /\ UNCHANGED <<signalled, storeOpen, request, fatal>>

\* The deferred closeStore; its error is dropped too.
CloseStore ==
  /\ process = "closing"
  /\ process' = "closed" /\ storeOpen' = FALSE
  /\ UNCHANGED <<signalled, request, overdue, fatal>>

Return ==
  /\ process = "closed"
  /\ Exit
  /\ UNCHANGED <<signalled, storeOpen, overdue, fatal>>

Main == Start \/ Shutdown \/ Drained \/ DrainDeadline \/ CloseStore \/ Return

ProcessNext ==
  \/ Main \/ Fatal \/ Signal
  \/ \E r \in Requests : Arrive(r) \/ Handle(r) \/ HandleLate(r)

ProcessSpec == ProcessInit /\ [][ProcessNext]_processVars

\* main() goes on; nothing is assumed of the handlers, and nothing has to fail.
FairProcessSpec == ProcessSpec /\ WF_processVars(Main)

-----------------------------------------------------------------------------

\* A request whose handler ends in time is answered, whenever the signal comes: only
\* those that outlast the deadline of Shutdown find the store closed, and only they,
\* and those of a process that log.Fatal ends, are cut off.
OnlyOverdueRequestsFail ==
  \A r \in Requests :
    /\ request[r] = "failed" => overdue
    /\ request[r] = "cut off" => overdue \/ fatal

\* A signal ends the process, even while a handler never returns.
SignalStops == signalled ~> process = "exited"
=============================================================================
