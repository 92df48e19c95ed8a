------------------------------- MODULE Serve -------------------------------
(***************************************************************************)
(* The serve process, from its start to its exit: the goroutine of main,   *)
(* the two servers, the jobs and the requests, and the pool they share.    *)
(*                                                                         *)
(* main is the next thing serve does; its deferred calls run in reverse.   *)
(* A request or a run queries the database several times, each time with a *)
(* connection of its own.  The shutdown's ten seconds are a timer that may *)
(* run out at any moment.  A process killed at once is not modelled here.  *)
(***************************************************************************)
EXTENDS Integers, FiniteSets

CONSTANTS Jobs, Requests, MaxConns

ASSUME ServeAssumption == MaxConns \in Nat \ {0} /\ IsFiniteSet(Jobs \cup Requests)

Servers == {"api", "metrics"}

VARIABLES
    main,      \* where serve is
    result,    \* what serve returns: "none" yet, "ok" or "failed"
    signalled, \* the process got SIGINT or SIGTERM: ctx is done
    stopped,   \* stopJobs cancelled the jobs' own context
    server,    \* each server: "none", "starting", "listening", "closed", "returned"
    errc,      \* what the servers returned and serve has not received
    job,       \* each job: "none", "running", "querying", "waiting", "returned"
    pool,      \* "none", "open", "closing"
    request,   \* each request: "none", "open", "querying", "answered", "cut"
    late       \* history: the shutdown's deadline passed

vars == <<main, result, signalled, stopped, server, errc, job, pool, request, late>>

Cancelled == signalled \/ stopped
Busy == {j \in Jobs : job[j] = "querying"} \cup {r \in Requests : request[r] = "querying"}
Live == {r \in Requests : request[r] \in {"open", "querying"}}
Up == main \notin {"opening", "exited"}

Init ==
    /\ main = "opening" /\ result = "none"
    /\ signalled = FALSE /\ stopped = FALSE /\ late = FALSE
    /\ server = [s \in Servers |-> "none"] /\ errc = {}
    /\ job = [j \in Jobs |-> "none"] /\ pool = "none"
    /\ request = [r \in Requests |-> "none"]

Signal ==
    /\ ~signalled /\ main # "exited"
    /\ signalled' = TRUE
    /\ UNCHANGED <<main, result, stopped, server, errc, job, pool, request, late>>

-----------------------------------------------------------------------------
(* serve.                                                                  *)

\* The configuration is no good, or the database does not answer.
OpenFails ==
    /\ main = "opening"
    /\ main' = "exited" /\ result' = "failed"
    /\ UNCHANGED <<signalled, stopped, server, errc, job, pool, request, late>>

\* NewPool, and then jobs.Start.
Open ==
    /\ main = "opening" /\ ~signalled
    /\ main' = "building" /\ pool' = "open"
    /\ job' = [j \in Jobs |-> "running"]
    /\ UNCHANGED <<result, signalled, stopped, server, errc, request, late>>

\* api.New refuses its policies.
BuildFails ==
    /\ main = "building"
    /\ main' = "stopping" /\ result' = "failed"
    /\ UNCHANGED <<signalled, stopped, server, errc, job, pool, request, late>>

Build ==
    /\ main = "building"
    /\ main' = "serving"
    /\ server' = [s \in Servers |-> "starting"]
    /\ UNCHANGED <<result, signalled, stopped, errc, job, pool, request, late>>

ReceiveError ==
    /\ main = "serving" /\ errc # {}
    /\ \E s \in errc : errc' = errc \ {s}
    /\ main' = "stopping" /\ result' = "failed"
    /\ UNCHANGED <<signalled, stopped, server, job, pool, request, late>>

Close(ss) == [s \in Servers |-> IF s \in ss /\ server[s] # "returned" THEN "closed" ELSE server[s]]
Cut == [r \in Requests |-> IF r \in Live THEN "cut" ELSE request[r]]

\* Mutant: the API server is closed like the other.
ShutDownAtOnce ==
    /\ main = "serving" /\ signalled
    /\ main' = "draining" /\ server' = Close(Servers) /\ request' = Cut
    /\ UNCHANGED <<result, signalled, stopped, errc, job, pool, late>>

\* metricsSrv.Close, and the start of srv.Shutdown.
ShutDown ==
    /\ main = "serving" /\ signalled
    /\ main' = "draining" /\ server' = Close(Servers)
    /\ UNCHANGED <<result, signalled, stopped, errc, job, pool, request, late>>

Drained ==
    /\ main = "draining" /\ Live = {}
    /\ main' = "stopping" /\ result' = "ok"
    /\ UNCHANGED <<signalled, stopped, server, errc, job, pool, request, late>>

\* Shutdown gives up, and Close cuts the connections that are left.  Their
\* handlers go on until they notice: one that is querying holds a connection.
Deadline ==
    /\ main = "draining" /\ Live # {}
    /\ main' = "stopping" /\ result' = "failed" /\ late' = TRUE
    /\ request' = [r \in Requests |-> IF request[r] = "open" THEN "cut" ELSE request[r]]
    /\ UNCHANGED <<signalled, stopped, server, errc, job, pool>>

\* Mutant: stop only waits for the jobs.
StopJobsWaiting ==
    /\ main = "stopping"
    /\ main' = "waiting"
    /\ UNCHANGED <<result, signalled, stopped, server, errc, job, pool, request, late>>

StopJobs ==
    /\ main = "stopping"
    /\ main' = "waiting" /\ stopped' = TRUE
    /\ UNCHANGED <<result, signalled, server, errc, job, pool, request, late>>

JobsStopped ==
    /\ main = "waiting" /\ \A j \in Jobs : job[j] = "returned"
    /\ main' = "closing" /\ pool' = "closing"
    /\ UNCHANGED <<result, signalled, stopped, server, errc, job, request, late>>

\* pool.Close returns once every connection is back, and the process ends.
Exit ==
    /\ main = "closing" /\ Busy = {}
    /\ main' = "exited"
    /\ request' = Cut
    /\ UNCHANGED <<result, signalled, stopped, server, errc, job, pool, late>>

Main == OpenFails \/ Open \/ BuildFails \/ Build \/ ReceiveError \/ ShutDown \/ Drained \/ Deadline
        \/ StopJobs \/ JobsStopped \/ Exit

-----------------------------------------------------------------------------
(* The servers, the jobs and the requests.                                 *)

Listen(s) ==
    /\ Up /\ server[s] = "starting"
    /\ server' = [server EXCEPT ![s] = "listening"]
    /\ UNCHANGED <<main, result, signalled, stopped, errc, job, pool, request, late>>

\* The goroutine of a server ends: its address is taken, its listener fails,
\* or it was closed.  errc has room for both.
Return(s) ==
    /\ Up /\ server[s] \in {"starting", "listening", "closed"}
    /\ server' = [server EXCEPT ![s] = "returned"]
    /\ errc' = errc \cup {s}
    /\ UNCHANGED <<main, result, signalled, stopped, job, pool, request, late>>

Free == pool = "open" /\ Cardinality(Busy) < MaxConns

JobTo(j, from, to) ==
    /\ Up /\ job[j] = from
    /\ job' = [job EXCEPT ![j] = to]
    /\ UNCHANGED <<main, result, signalled, stopped, server, errc, pool, request, late>>

JobQueries(j) == Free /\ ~Cancelled /\ JobTo(j, "running", "querying")

\* A query ends: it is answered, or aborted because its context, which is the
\* process's own and that of stopJobs, was cancelled (serve.go:80, jobs.go:32).
JobQueried(j) == JobTo(j, "querying", "running")

\* A run ends, with an error if its context is cancelled or it gets no
\* connection; a panic ends only the run.
RunEnds(j) == JobTo(j, "running", "waiting")

\* The ticker may be chosen over a context that is done.
Ticks(j) == JobTo(j, "waiting", "running")
JobReturns(j) == Cancelled /\ JobTo(j, "waiting", "returned")

RequestTo(r, from, to) ==
    /\ Up /\ request[r] = from
    /\ request' = [request EXCEPT ![r] = to]
    /\ UNCHANGED <<main, result, signalled, stopped, server, errc, job, pool, late>>

Arrives(r) == server["api"] = "listening" /\ RequestTo(r, "none", "open")
RequestQueries(r) == Free /\ RequestTo(r, "open", "querying")
RequestQueried(r) == RequestTo(r, "querying", IF late THEN "cut" ELSE "open")

\* Answered in full, or with an error for want of a connection.
Answer(r) == RequestTo(r, "open", "answered")

Next ==
    \/ Signal \/ Main
    \/ \E s \in Servers : Listen(s) \/ Return(s)
    \/ \E j \in Jobs : JobQueries(j) \/ JobQueried(j) \/ RunEnds(j) \/ Ticks(j) \/ JobReturns(j)
    \/ \E r \in Requests : Arrives(r) \/ RequestQueries(r) \/ RequestQueried(r) \/ Answer(r)

Spec == Init /\ [][Next]_vars

\* Goroutines run, the deadline passes, and the database answers a query or
\* fails it; a run whose context is cancelled ends, and select, which picks
\* among what is ready at random, does not prefer the ticker for ever.  Nothing
\* is assumed of a client, nor of a run that is not cancelled.
FairSpec ==
    /\ Spec /\ WF_vars(Main)
    /\ \A j \in Jobs : /\ WF_vars(JobQueried(j)) /\ WF_vars(Cancelled /\ RunEnds(j))
                       /\ SF_vars(JobReturns(j))
    /\ \A r \in Requests : WF_vars(RequestQueried(r))

-----------------------------------------------------------------------------
(* Properties.                                                             *)

TypeOK ==
    /\ main \in {"opening", "building", "serving", "draining", "stopping", "waiting", "closing", "exited"}
    /\ result \in {"none", "ok", "failed"} /\ signalled \in BOOLEAN /\ stopped \in BOOLEAN
    /\ server \in [Servers -> {"none", "starting", "listening", "closed", "returned"}]
    /\ errc \subseteq Servers /\ late \in BOOLEAN
    /\ job \in [Jobs -> {"none", "running", "querying", "waiting", "returned"}]
    /\ pool \in {"none", "open", "closing"}
    /\ request \in [Requests -> {"none", "open", "querying", "answered", "cut"}]

\* "API requests get to finish" (serve.go:140) and "stop ... returns once every
\* job has returned" (jobs.go:29): serve reports success only if no request was
\* cut short, so that one is cut only by the deadline or after a failure; and no
\* run of a job ever finds the pool closed, nor is one left when it closes.  It
\* does not say that the queries of a job get to finish: a signal alone cancels
\* the jobs' context, and aborts them.
OrderlyShutdown ==
    /\ \A r \in Requests : request[r] = "cut" => result = "failed"
    /\ pool = "closing" => \A j \in Jobs : job[j] = "returned"

\* "Either server failing stops serve" (serve.go:116), as a signal does: the
\* process exits whatever its clients, its jobs and its requests are doing.
Stops == (signalled \/ errc # {}) ~> main = "exited"
=============================================================================
