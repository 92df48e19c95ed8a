-------------------------- MODULE AlertEvaluation --------------------------
(***************************************************************************)
(* AlertRepo.Evaluate and what the evaluator does with its answer: one     *)
(* transaction that counts a rule's events in a window, records a firing   *)
(* for each group at the threshold, and, once it has committed, sends each *)
(* firing it recorded to the rule's webhook.                               *)
(*                                                                         *)
(* An evaluator is whatever runs such a transaction: the serve process, a  *)
(* second replica, or the process before a restart, whose transaction the  *)
(* database has not ended yet.  Here each evaluates any rule over any      *)
(* window at any time; Alerting.tla adds the clock and the schedule.       *)
(*                                                                         *)
(* The transaction is READ COMMITTED.  Its one statement reads events and  *)
(* alerts as they are when it starts, then inserts row by row; a row that  *)
(* meets the same firing in an open transaction waits for it to end.       *)
(***************************************************************************)
EXTENDS Integers, FiniteSets

CONSTANTS
    Evaluators,
    Rules,      \* the rules that may be created
    Keys,       \* the values a group may have, in their sorting order
    Ends,       \* the window ends evaluated
    Events      \* the events that may be stored

\* An event with no value in the column a rule groups by.
NoKey == 0

\* A rule's filter is the kinds of event it matches.
ASSUME EvaluationAssumption ==
    /\ Keys \subseteq Nat \ {NoKey}
    /\ Ends \subseteq Int
    /\ \A r \in Rules : /\ r.threshold \in Nat \ {0}
                        /\ r.window \in Nat \ {0}
                        /\ r.cooldown \in Nat
                        /\ r.webhook \in BOOLEAN
    /\ \A v \in Events : v.ts \in Int

\* A row of alerts: the unique key (rule_id, group_key, window_start), where
\* a rule's window start and end differ by its window.
Firings == [rule : Rules, key : Keys, end : Ends]

VARIABLES
    rules,   \* the rules that exist
    events,  \* the events that are stored
    alerts,  \* alerts[f]: how many rows there are for firing f
    tx,      \* tx[w]: the evaluation w is in the middle of, or Idle
    sent     \* sent[f]: how often firing f reached its rule's webhook

vars == <<rules, events, alerts, tx, sent>>

Idle == [pc |-> "idle"]

\* An evaluation that has groups still to insert and the firings it inserted,
\* and one that has committed and has firings still to send.
Inserting ==
    {x \in [pc : {"inserting"}, rule : Rules, end : Ends, todo : SUBSET Keys, rows : SUBSET Firings] :
        \A f \in x.rows : f.rule = x.rule /\ f.end = x.end}
Sending == [pc : {"sending"}, rows : SUBSET {f \in Firings : f.rule.webhook}]

-----------------------------------------------------------------------------
\* Mutants: a count that includes the event at the window's end, a cooldown
\* that only looks at the window's own end, rows inserted in any order, and an
\* insert that does not look for the same firing.
MatchedThroughEnd(r, k, e) ==
    {v \in events : /\ v.tenant = r.tenant /\ v.kind \in r.kinds /\ v.key = k
                    /\ v.ts >= e - r.window /\ v.ts <= e}
QuietAtEnd(r, k, e) ==
    ~ \E f \in Firings : alerts[f] > 0 /\ f.rule = r /\ f.key = k /\ f.end >= e
AnyOf(k, S) == k \in S
NeverRecorded(f) == FALSE

\* The events counted for group k of rule r in the window that ends at e.
Matched(r, k, e) ==
    {v \in events : /\ v.tenant = r.tenant /\ v.kind \in r.kinds /\ v.key = k
                    /\ v.ts >= e - r.window /\ v.ts < e}

\* The NOT EXISTS: no firing of group k has ended within the cooldown of e.
Quiet(r, k, e) ==
    ~ \E f \in Firings : alerts[f] > 0 /\ f.rule = r /\ f.key = k /\ f.end > e - r.cooldown

\* The groups the statement selects to insert.
Due(r, e) == {k \in Keys : Cardinality(Matched(r, k, e)) >= r.threshold /\ Quiet(r, k, e)}

\* ORDER BY c.group_key: k is the next of S.
NextOf(k, S) == k \in S /\ \A j \in S : k <= j

Recorded(f) == alerts[f] > 0

\* Another open transaction has inserted f.
HeldFrom(w, f) == \E v \in Evaluators \ {w} : tx[v].pc = "inserting" /\ f \in tx[v].rows

-----------------------------------------------------------------------------
Init ==
    /\ rules = {}
    /\ events = {}
    /\ alerts = [f \in Firings |-> 0]
    /\ tx = [w \in Evaluators |-> Idle]
    /\ sent = [f \in Firings |-> 0]

\* An admin creates a rule.
CreateRule(r) ==
    /\ r \notin rules
    /\ rules' = rules \cup {r}
    /\ UNCHANGED <<events, alerts, tx, sent>>

\* An ingested event is stored, however long after it happened.
StoreEvent(v) ==
    /\ v \notin events
    /\ events' = events \cup {v}
    /\ UNCHANGED <<rules, alerts, tx, sent>>

\* The statement starts: its snapshot decides which groups are due.
Count(w, r, e) ==
    /\ tx[w] = Idle
    /\ r \in rules
    /\ tx' = [tx EXCEPT ![w] = [pc |-> "inserting", rule |-> r, end |-> e,
                                todo |-> Due(r, e), rows |-> {}]]
    /\ UNCHANGED <<rules, events, alerts, sent>>

\* The next row is inserted, unless the firing is recorded by now: ON CONFLICT
\* DO NOTHING, which waits for an open transaction that has it.
InsertRow(w, k) ==
    LET f == [rule |-> tx[w].rule, key |-> k, end |-> tx[w].end]
    IN  /\ tx[w].pc = "inserting"
        /\ NextOf(k, tx[w].todo)
        /\ ~HeldFrom(w, f)
        /\ tx' = [tx EXCEPT ![w].todo = @ \ {k},
                            ![w].rows = IF Recorded(f) THEN @ ELSE @ \cup {f}]
        /\ UNCHANGED <<rules, events, alerts, sent>>

\* The rows of a transaction that is ready to commit become visible.
Record(w) ==
    /\ tx[w].pc = "inserting"
    /\ tx[w].todo = {}
    /\ alerts' = [f \in Firings |-> alerts[f] + (IF f \in tx[w].rows THEN 1 ELSE 0)]

\* Mutants: a commit that sends the firings of a rule with no webhook too, and
\* a failed delivery that is tried again.
CommitSendingAll(w) ==
    /\ Record(w)
    /\ tx' = [tx EXCEPT ![w] = IF tx[w].rows # {}
                               THEN [pc |-> "sending", rows |-> tx[w].rows] ELSE Idle]
    /\ UNCHANGED <<rules, events, sent>>
DeliverRetrying(w, f) ==
    /\ tx[w].pc = "sending"
    /\ f \in tx[w].rows
    /\ sent' = [sent EXCEPT ![f] = @ + 1]
    /\ \/ tx' = [tx EXCEPT ![w] = IF tx[w].rows = {f} THEN Idle
                               ELSE [pc |-> "sending", rows |-> tx[w].rows \ {f}]]
       \/ UNCHANGED tx
    /\ UNCHANGED <<rules, events, alerts>>

\* The transaction commits, and the evaluator turns to the webhook.
Commit(w) ==
    /\ Record(w)
    /\ tx' = [tx EXCEPT ![w] = IF tx[w].rule.webhook /\ tx[w].rows # {}
                               THEN [pc |-> "sending", rows |-> tx[w].rows] ELSE Idle]
    /\ UNCHANGED <<rules, events, sent>>

\* It commits, but the answer is lost: the evaluator sees a failure.
CommitUnacknowledged(w) ==
    /\ Record(w)
    /\ tx' = [tx EXCEPT ![w] = Idle]
    /\ UNCHANGED <<rules, events, sent>>

\* It fails at any point: a timeout, a lost connection, a crash.
Abort(w) ==
    /\ tx[w].pc = "inserting"
    /\ tx' = [tx EXCEPT ![w] = Idle]
    /\ UNCHANGED <<rules, events, alerts, sent>>

\* The next firing is POSTed, once; it may or may not get there.
Deliver(w, f) ==
    /\ tx[w].pc = "sending"
    /\ f \in tx[w].rows /\ NextOf(f.key, {g.key : g \in tx[w].rows})
    /\ tx' = [tx EXCEPT ![w] = IF tx[w].rows = {f} THEN Idle
                               ELSE [pc |-> "sending", rows |-> tx[w].rows \ {f}]]
    /\ \/ sent' = [sent EXCEPT ![f] = @ + 1]
       \/ UNCHANGED sent
    /\ UNCHANGED <<rules, events, alerts>>

\* The process stops between two deliveries.
StopSending(w) ==
    /\ tx[w].pc = "sending"
    /\ tx' = [tx EXCEPT ![w] = Idle]
    /\ UNCHANGED <<rules, events, alerts, sent>>

Next ==
    \/ \E r \in Rules : CreateRule(r)
    \/ \E v \in Events : StoreEvent(v)
    \/ \E w \in Evaluators :
        \/ \E r \in Rules, e \in Ends : Count(w, r, e)
        \/ \E k \in Keys : InsertRow(w, k)
        \/ Commit(w)
        \/ \E f \in Firings : Deliver(w, f)
        \/ CommitUnacknowledged(w)
        \/ Abort(w)
        \/ StopSending(w)

Spec == Init /\ [][Next]_vars

\* The database and the webhooks answer in the end.  A row that waits for
\* another transaction is tried again as soon as that one ends, long before
\* its evaluator's next tick: it is not overtaken for ever.
FairSpec ==
    /\ Spec
    /\ \A w \in Evaluators : /\ SF_vars(\E k \in Keys : InsertRow(w, k))
                             /\ WF_vars(Commit(w))
                             /\ WF_vars(\E f \in Firings : Deliver(w, f))

-----------------------------------------------------------------------------
(* Properties.                                                             *)

TypeOK ==
    /\ rules \subseteq Rules
    /\ events \subseteq Events
    /\ alerts \in [Firings -> Nat]
    /\ tx \in [Evaluators -> {Idle} \cup Inserting \cup Sending]
    /\ sent \in [Firings -> Nat]

\* "If the same window is evaluated twice, after a restart or by a second
\* replica at the same moment, it is still recorded only once" (ADR 0010).
FiringUnique == \A f \in Firings : alerts[f] <= 1

\* "a burst that keeps going raises one per window" (architecture.md): with
\* one evaluator, two firings of a group are a cooldown apart, whatever order
\* the windows were evaluated in and however the evaluations failed.
CooldownRespected ==
    \A f, g \in Firings :
        alerts[f] > 0 /\ alerts[g] > 0 /\ f.rule = g.rule /\ f.key = g.key /\ f.end < g.end =>
            f.end + f.rule.cooldown <= g.end

\* A firing rests on enough events of its own rule's tenant, group and filter
\* inside its window, each counted once.
Justified ==
    \A f \in Firings : alerts[f] > 0 =>
        /\ f.rule \in rules
        /\ Cardinality({v \in events : /\ v.tenant = f.rule.tenant /\ v.kind \in f.rule.kinds
                                       /\ v.key = f.key
                                       /\ v.ts \in f.end - f.rule.window .. f.end - 1})
                >= f.rule.threshold

\* "only after the insert commits. A firing the unique key dropped sends
\* nothing, so it is never delivered twice" (ADR 0010).
DeliveredOnce == \A f \in Firings : sent[f] <= 1 /\ sent[f] <= alerts[f]

\* v's next row waits for w's transaction.
WaitsFor(v, w, k) ==
    /\ v # w
    /\ tx[v].pc = "inserting" /\ NextOf(k, tx[v].todo)
    /\ tx[w].pc = "inserting" /\ [rule |-> tx[v].rule, key |-> k, end |-> tx[v].end] \in tx[w].rows

\* No transactions wait for each other in a circle: one that is waited for
\* has only greater groups left, so along a chain of waits the groups grow.
WaitsUpwards ==
    \A v, w \in Evaluators : \A k \in Keys :
        WaitsFor(v, w, k) => \A j \in tx[w].todo : k < j

\* An evaluation ends, without the help of a timeout, as long as the database
\* and the webhooks answer.
EvaluationEnds == \A w \in Evaluators : tx[w] # Idle ~> tx[w] = Idle
=============================================================================
