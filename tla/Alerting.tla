------------------------------ MODULE Alerting ------------------------------
(***************************************************************************)
(* The alert evaluator in the serve process: jobs.loop starts a run when   *)
(* the process starts and then on every tick, and Evaluator.Run evaluates  *)
(* each rule of each tenant over the window that ends at WindowEnd(now).   *)
(* The evaluation of one rule is AlertEvaluation.tla, with this process as *)
(* its only evaluator.  Time is counted in units a minute is made of.      *)
(***************************************************************************)
EXTENDS Integers, FiniteSets

CONSTANTS
    Tenants, Rules, Keys, Events,
    Minute,     \* units of time in a minute: Interval, and what a window's end is whole in
    Lag,        \* how long after its end a window is evaluated at the least
    MaxDelay,   \* how long after it happened an event may be stored
    MaxRun,     \* how long a run may take
    MaxNow      \* bound on the clock

\* The last whole minute at least Lag ago.
WindowEndNoLag(t) == (t \div Minute) * Minute
WindowEnd(t) == ((t - Lag) \div Minute) * Minute

Ends == {WindowEnd(t) : t \in 0 .. MaxNow}

ASSUME ScheduleAssumption ==
    /\ Minute \in Nat \ {0} /\ Lag \in Nat /\ MaxDelay \in Nat /\ MaxRun \in Nat /\ MaxNow \in Nat
    /\ Keys \subseteq Nat \ {0}
    /\ \A r \in Rules : /\ r.tenant \in Tenants /\ r.webhook \in BOOLEAN
                        /\ r.threshold \in Nat \ {0} /\ r.window \in Nat \ {0} /\ r.cooldown \in Nat
    /\ \A v \in Events : v.ts \in Int

Process == "serve"

VARIABLES
    rules, events, alerts, tx, sent,   \* AlertEvaluation's
    now,     \* the clock
    job,     \* where the job is
    missed   \* missed[r]: the last window the evaluator did not get to evaluate r over

E == INSTANCE AlertEvaluation WITH Evaluators <- {Process}

vars == <<rules, events, alerts, tx, sent, now, job, missed>>

\* The process is not running.
Down == [pc |-> "down"]

\* The loop waits in its select for the tick at `due`.
Waiting(due) == [pc |-> "waiting", due |-> due]

\* A run: when it started, the end of its windows, the tenants and the rules
\* of a tenant it has still to evaluate; "listing" until it has the tenants.
Run(pc, due, end, tenants, left) ==
    [pc |-> pc, due |-> due, started |-> now, end |-> end, tenants |-> tenants, rules |-> left]

Running == job.pc \in {"listing", "running"}

\* Between two rules of a run.
AtRest == job.pc = "running" /\ tx[Process] = E!Idle

\* r was not evaluated over the window that ends at e.
Miss(S, e) == [r \in Rules |-> IF r \in S /\ missed[r] < e THEN e ELSE missed[r]]

-----------------------------------------------------------------------------
Init ==
    /\ E!Init
    /\ now = 0
    /\ job = Down
    /\ missed = [r \in Rules |-> MaxNow]

\* Time passes.  A tick that is due is taken first, and a run takes no longer
\* than MaxRun.
Advance ==
    /\ now < MaxNow
    /\ job.pc = "waiting" => now < job.due
    /\ Running => now - job.started < MaxRun
    /\ now' = now + 1
    /\ UNCHANGED <<rules, events, alerts, tx, sent, job, missed>>

\* A rule created now may be too late for the window under evaluation.
CreateRule(r) ==
    /\ E!CreateRule(r)
    /\ missed' = IF job = Down THEN missed ELSE Miss({r}, WindowEnd(now))
    /\ UNCHANGED <<now, job>>

\* An event is stored, no later than MaxDelay after it happened.
StoreEvent(v) ==
    /\ v.ts \in now - MaxDelay .. now
    /\ E!StoreEvent(v)
    /\ UNCHANGED <<now, job, missed>>

\* The process starts, and its first run with it.  Nothing before is made up for.
Start ==
    /\ job = Down
    /\ job' = Waiting(now)
    /\ missed' = [r \in Rules |-> WindowEnd(now) - Minute]
    /\ UNCHANGED <<rules, events, alerts, tx, sent, now>>

\* A tick is received.  The ticker keeps one that comes during a run, and
\* drops the ones after it.
StartRun ==
    /\ job.pc = "waiting"
    /\ now >= job.due
    /\ job' = Run("listing", job.due + Minute * (1 + (now - job.due) \div Minute), WindowEnd(now), {}, {})
    /\ UNCHANGED <<rules, events, alerts, tx, sent, now, missed>>

ListTenants ==
    /\ job.pc = "listing"
    /\ job' = [job EXCEPT !.pc = "running", !.tenants = Tenants]
    /\ UNCHANGED <<rules, events, alerts, tx, sent, now, missed>>

\* Mutants: a tenant whose rules can't be listed ends the run.
ListRulesOrEnd(t) ==
    /\ AtRest /\ job.rules = {} /\ t \in job.tenants
    /\ \/ /\ job' = [job EXCEPT !.tenants = @ \ {t}, !.rules = {r \in rules : r.tenant = t}]
          /\ UNCHANGED missed
       \/ /\ job' = Waiting(job.due)
          /\ missed' = Miss({r \in Rules : r.tenant = t}, job.end)
    /\ UNCHANGED <<rules, events, alerts, tx, sent, now>>

\* A tenant's rules are listed; if that fails, the tenant is skipped.
ListRules(t) ==
    /\ AtRest /\ job.rules = {} /\ t \in job.tenants
    /\ \/ /\ job' = [job EXCEPT !.tenants = @ \ {t}, !.rules = {r \in rules : r.tenant = t}]
          /\ UNCHANGED missed
       \/ /\ job' = [job EXCEPT !.tenants = @ \ {t}]
          /\ missed' = Miss({r \in Rules : r.tenant = t}, job.end)
    /\ UNCHANGED <<rules, events, alerts, tx, sent, now>>

\* The next rule's statement starts.
Evaluate(r) ==
    /\ AtRest /\ r \in job.rules
    /\ E!Count(Process, r, job.end)
    /\ job' = [job EXCEPT !.rules = @ \ {r}]
    /\ UNCHANGED <<now, missed>>

\* The statement inserts, commits, and its firings are sent.
Proceed ==
    /\ \/ \E k \in Keys : E!InsertRow(Process, k)
       \/ E!Commit(Process)
       \/ E!CommitUnacknowledged(Process)
       \/ \E f \in E!Firings : E!Deliver(Process, f)
    /\ UNCHANGED <<now, job, missed>>

\* The evaluation of a rule fails, and the run goes on to the next.
EvaluateFails ==
    /\ E!Abort(Process)
    /\ missed' = Miss({tx[Process].rule}, job.end)
    /\ UNCHANGED <<now, job>>

\* What the run has not evaluated when it is cut short.
Left ==
    {r \in Rules : \/ job.pc = "listing" \/ r.tenant \in job.tenants \/ r \in job.rules
                   \/ tx[Process] # E!Idle /\ tx[Process].pc = "inserting" /\ r = tx[Process].rule}

\* Mutant: a run that is over leaves its transaction open.
GiveUpNothing == UNCHANGED <<rules, events, alerts, tx, sent>>

\* Whatever was under way is given up: rolled back, or committed and not sent.
GiveUp ==
    \/ tx[Process] = E!Idle /\ UNCHANGED <<rules, events, alerts, tx, sent>>
    \/ E!Abort(Process)
    \/ E!StopSending(Process)

\* The tenants can't be listed, or the run panics: it is over, and the job
\* waits for its next tick.
RunFails ==
    /\ Running
    /\ GiveUp
    /\ job' = Waiting(job.due)
    /\ missed' = Miss(Left, job.end)
    /\ UNCHANGED now

FinishRun ==
    /\ AtRest /\ job.tenants = {} /\ job.rules = {}
    /\ job' = Waiting(job.due)
    /\ UNCHANGED <<rules, events, alerts, tx, sent, now, missed>>

\* The process stops, gracefully or not.  The transaction it was in may still
\* commit.
Stop ==
    /\ job # Down
    /\ GiveUp \/ E!CommitUnacknowledged(Process)
    /\ job' = Down
    /\ missed' = [r \in Rules |-> MaxNow]
    /\ UNCHANGED now

Next ==
    \/ Advance
    \/ \E r \in Rules : CreateRule(r)
    \/ \E v \in Events : StoreEvent(v)
    \/ Start
    \/ StartRun
    \/ ListTenants
    \/ \E t \in Tenants : ListRules(t)
    \/ \E r \in Rules : Evaluate(r)
    \/ Proceed
    \/ EvaluateFails
    \/ RunFails
    \/ FinishRun
    \/ Stop

Spec == Init /\ [][Next]_vars

-----------------------------------------------------------------------------
(* Properties.                                                             *)

\* Every variable stays in its domain, and a transaction is open, and firings
\* are being sent, only in a run.
TypeOK ==
    /\ E!TypeOK
    /\ now \in 0 .. MaxNow
    /\ missed \in [Rules -> Int]
    /\ \/ job = Down
       \/ job \in [pc : {"waiting"}, due : Nat]
       \/ job \in [pc : {"listing", "running"}, due : Nat, started : 0 .. now, end : Ends,
                   tenants : SUBSET Tenants, rules : SUBSET rules]
    /\ ~Running => tx[Process] = E!Idle

\* "An alert appears up to about two and a half minutes after the event that
\* completes it" (architecture.md), and "a tenant or rule that fails ... can't
\* hold up the others" (alerting.go:98): a group with enough events in a
\* window has an alert for it, or one that window is in the cooldown of, once
\* the window's end is Lag, a minute and a run ago, unless the rule itself was
\* not evaluated, and whatever happened to other tenants and rules.
Detected ==
    \A r \in rules, k \in Keys, e \in Ends :
        /\ e > missed[r]
        /\ now >= e + Lag + Minute + MaxRun
        /\ MaxDelay <= Lag /\ MaxRun < Minute
        /\ Cardinality({v \in events : /\ v.tenant = r.tenant /\ v.kind \in r.kinds /\ v.key = k
                                       /\ v.ts \in e - r.window .. e - 1}) >= r.threshold
        => \E f \in E!Firings : /\ alerts[f] > 0 /\ f.rule = r /\ f.key = k
                                /\ f.end = e \/ f.end \in e - r.cooldown + 1 .. e

\* An alert's window ended at least Lag ago, so that events the collector
\* delivers a little late are counted (alerting.go:23), and not so long ago
\* that the alert is old news.
Timely ==
    [][\A f \in E!Firings : alerts'[f] > alerts[f] =>
            now - f.end \in Lag .. Lag + Minute + MaxRun - 1]_alerts

\* "The cooldown defaults to the window length, so one burst raises one alert"
\* (architecture.md): the events of a group that all fit in one window raise
\* no more than one alert of a rule with that default.
BurstFiresOnce ==
    \A r \in rules, k \in Keys :
        LET burst == {v \in events : v.tenant = r.tenant /\ v.kind \in r.kinds /\ v.key = k}
        IN  r.cooldown = r.window /\ (\A u, v \in burst : v.ts - u.ts < r.window) =>
                Cardinality({f \in E!Firings : alerts[f] > 0 /\ f.rule = r /\ f.key = k}) <= 1
=============================================================================
