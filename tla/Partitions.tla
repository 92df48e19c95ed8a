----------------------------- MODULE Partitions -----------------------------
(***************************************************************************)
(* The daily partitions of the events table, and the retention they carry: *)
(* loghub_maintain_partitions, run by the maintain_partitions job of every *)
(* backend, while requests insert events.                                  *)
(*                                                                         *)
(* A run is one transaction: its date and its cutoff are those of its      *)
(* start, it locks the table only once it finds a day with no partition    *)
(* or one to drop, and holds the lock until it ends.  The requests that    *)
(* insert hold a lock of their own until they end, and wait behind a run   *)
(* that waits.                                                             *)
(***************************************************************************)
EXTENDS Integers

CONSTANTS
    Backends,    \* the processes that run the job
    Requests,    \* the requests that insert events
    DayLength,   \* instants in a day
    Retention,   \* ingest.DefaultRetention
    FutureSkew,  \* how far ahead of the clock an event may be
    Migrated,    \* days on which the database may have been migrated
    NoOne,       \* holds no lock
    MaxEvent,    \* bound on the events
    MaxNow,      \* bound on the clock
    MaxFailures  \* bound on the runs that fail for another reason

ASSUME PartitionsAssumption ==
    /\ DayLength \in Nat \ {0} /\ Retention \in Nat \ {0} /\ FutureSkew \in Nat
    /\ Migrated \subseteq Int /\ NoOne \notin Backends
    /\ MaxEvent \in Nat /\ MaxNow \in Nat /\ MaxFailures \in Nat

VARIABLES
    now,       \* the clock
    parts,     \* days that have a partition
    rows,      \* events that are visible; one that is parked is in DEFAULT
    inserted,  \* per request, the events its open transaction inserted
    run,       \* per backend, how far its run is
    lock,      \* the run that has the table locked, or NoOne
    draft,     \* parts and rows as that run has changed them
    nextEvent, \* number of the next event
    lastDone,  \* the latest date of a run that succeeded
    failures   \* runs that failed for another reason

vars == <<now, parts, rows, inserted, run, lock, draft, nextEvent, lastDone, failures>>

NoDraft == [parts |-> {}, rows |-> {}]
Resting == [pc |-> "idle"]

-----------------------------------------------------------------------------
Day(t) == t \div DayLength

\* Mutant: the retention is rounded down.
DaysRoundedDown == Retention \div DayLength

\* MaintainPartitions: the retention in days, rounded up.
Days == (Retention + DayLength - 1) \div DayLength

\* The days a run on `today` keeps: from cutoff to two days ahead.
Cutoff(today) == today - Days

\* Mutant: partitions up to tomorrow's only.
LastDayTomorrow(today) == today + 1
LastDay(today) == today + 2

\* What the run of w reads: its own changes once it has the lock.
View(w) == IF lock = w THEN draft ELSE [parts |-> parts, rows |-> rows]

\* Events in DEFAULT of one day.
Parked(S, d) == {r \in S : r.parked /\ Day(r.ts) = d}

\* The run of w waits for the lock: LOCK TABLE, or the one DROP TABLE takes.
Waits(w) ==
    /\ lock # w
    /\ run[w].pc = "move" \/ (run[w].pc = "drop" /\ run[w].drops # {})

Inserting(q) == inserted[q] # {}

-----------------------------------------------------------------------------
\* The migration has run the function once, on a day at or before the first.
Init ==
    /\ now = 0
    /\ lastDone \in Migrated
    /\ parts = Cutoff(lastDone) .. LastDay(lastDone)
    /\ rows = {}
    /\ inserted = [q \in Requests |-> {}]
    /\ run = [w \in Backends |-> Resting]
    /\ lock = NoOne
    /\ draft = NoDraft
    /\ nextEvent = 1
    /\ failures = 0

Tick ==
    /\ now < MaxNow
    /\ now' = now + 1
    /\ UNCHANGED <<parts, rows, inserted, run, lock, draft, nextEvent, lastDone, failures>>

-----------------------------------------------------------------------------
(* Requests.                                                               *)

\* The normalizer replaces a time outside of the retention, or too far ahead.
Accepted(ts) == ts \in now - Retention .. now + FutureSkew

\* An event that happened at ts goes to its day's partition, or to DEFAULT.
\* The first of a transaction takes a lock no run may have, or wait for.
Insert(q, ts) ==
    /\ nextEvent <= MaxEvent
    /\ Accepted(ts)
    /\ Inserting(q) \/ (lock = NoOne /\ \A w \in Backends : ~Waits(w))
    /\ inserted' = [inserted EXCEPT ![q] =
                        @ \cup {[n |-> nextEvent, ts |-> ts, parked |-> Day(ts) \notin parts]}]
    /\ nextEvent' = nextEvent + 1
    /\ UNCHANGED <<now, parts, rows, run, lock, draft, lastDone, failures>>

Commit(q) ==
    /\ Inserting(q)
    /\ rows' = rows \cup inserted[q]
    /\ inserted' = [inserted EXCEPT ![q] = {}]
    /\ UNCHANGED <<now, parts, run, lock, draft, nextEvent, lastDone, failures>>

Abort(q) ==
    /\ Inserting(q)
    /\ inserted' = [inserted EXCEPT ![q] = {}]
    /\ UNCHANGED <<now, parts, rows, run, lock, draft, nextEvent, lastDone, failures>>

-----------------------------------------------------------------------------
(* Runs.                                                                   *)

Begin(w) ==
    /\ run[w].pc = "idle"
    /\ run' = [run EXCEPT ![w] = [pc |-> "days", today |-> Day(now), day |-> Cutoff(Day(now)),
                                  moving |-> {}, drops |-> {}]]
    /\ UNCHANGED <<now, parts, rows, inserted, lock, draft, nextEvent, lastDone, failures>>

\* to_regclass: a day that has a partition is skipped, one that has none needs
\* the lock; the expired partitions are listed after the last day.
NextDay(w) ==
    LET me == run[w]
        next == CASE me.day > LastDay(me.today) ->
                        [me EXCEPT !.pc = "drop",
                                   !.drops = {d \in View(w).parts : d < Cutoff(me.today)}]
                  [] me.day <= LastDay(me.today) /\ me.day \in View(w).parts ->
                        [me EXCEPT !.day = @ + 1]
                  [] OTHER -> [me EXCEPT !.pc = "move"]
    IN  /\ me.pc = "days"
        /\ run' = [run EXCEPT ![w] = next]
        /\ UNCHANGED <<now, parts, rows, inserted, lock, draft, nextEvent, lastDone, failures>>

\* Mutant: a lock that inserts do not conflict with.
LockShared(w) ==
    /\ Waits(w)
    /\ lock = NoOne
    /\ lock' = w
    /\ draft' = [parts |-> parts, rows |-> rows]
    /\ UNCHANGED <<now, parts, rows, inserted, run, nextEvent, lastDone, failures>>

\* ACCESS EXCLUSIVE: nobody else may read or write the table.
Lock(w) ==
    /\ Waits(w)
    /\ lock = NoOne
    /\ \A q \in Requests : ~Inserting(q)
    /\ lock' = w
    /\ draft' = [parts |-> parts, rows |-> rows]
    /\ UNCHANGED <<now, parts, rows, inserted, run, nextEvent, lastDone, failures>>

\* Mutant: rows in DEFAULT stay there.
MoveNothing(w) ==
    /\ run[w].pc = "move" /\ lock = w
    /\ run' = [run EXCEPT ![w].pc = "create"]
    /\ UNCHANGED <<now, parts, rows, inserted, lock, draft, nextEvent, lastDone, failures>>

\* The day's rows leave DEFAULT for a temporary table.
Move(w) ==
    LET moving == Parked(draft.rows, run[w].day)
    IN  /\ run[w].pc = "move" /\ lock = w
        /\ run' = [run EXCEPT ![w].pc = "create", ![w].moving = moving]
        /\ draft' = [draft EXCEPT !.rows = @ \ moving]
        /\ UNCHANGED <<now, parts, rows, inserted, lock, nextEvent, lastDone, failures>>

\* CREATE TABLE ... PARTITION OF is refused while DEFAULT holds rows of the
\* day, or the day has a partition.
Creatable(w) ==
    /\ run[w].day \notin draft.parts
    /\ Parked(draft.rows, run[w].day) = {}

\* The partition is created, and the day's rows go in.
Create(w) ==
    /\ run[w].pc = "create"
    /\ Creatable(w)
    /\ draft' = [parts |-> draft.parts \cup {run[w].day},
                 rows |-> draft.rows \cup {[r EXCEPT !.parked = FALSE] : r \in run[w].moving}]
    /\ run' = [run EXCEPT ![w].pc = "days", ![w].day = @ + 1, ![w].moving = {}]
    /\ UNCHANGED <<now, parts, rows, inserted, lock, nextEvent, lastDone, failures>>

\* One of the expired partitions is dropped, with its rows.
Drop(w, d) ==
    /\ run[w].pc = "drop" /\ lock = w
    /\ d \in run[w].drops \cap draft.parts
    /\ draft' = [parts |-> draft.parts \ {d},
                 rows |-> {r \in draft.rows : r.parked \/ Day(r.ts) # d}]
    /\ run' = [run EXCEPT ![w].drops = @ \ {d}]
    /\ UNCHANGED <<now, parts, rows, inserted, lock, nextEvent, lastDone, failures>>

\* Mutant: expired rows in DEFAULT stay.
FinishNoPurge(w) ==
    /\ run[w].pc = "drop" /\ run[w].drops = {}
    /\ lock \in {w, NoOne}
    /\ parts' = View(w).parts
    /\ rows' = View(w).rows
    /\ lastDone' = IF run[w].today > lastDone THEN run[w].today ELSE lastDone
    /\ run' = [run EXCEPT ![w] = Resting]
    /\ lock' = NoOne
    /\ draft' = NoDraft
    /\ UNCHANGED <<now, inserted, nextEvent, failures>>

\* Expired rows in DEFAULT are deleted, and the transaction commits.
Finish(w) ==
    LET expired == {r \in View(w).rows : r.parked /\ Day(r.ts) < Cutoff(run[w].today)}
    IN  /\ run[w].pc = "drop" /\ run[w].drops = {}
        /\ lock \in {w, NoOne}
        /\ parts' = View(w).parts
        /\ rows' = View(w).rows \ expired
        /\ lastDone' = IF run[w].today > lastDone THEN run[w].today ELSE lastDone
        /\ run' = [run EXCEPT ![w] = Resting]
        /\ lock' = NoOne
        /\ draft' = NoDraft
        /\ UNCHANGED <<now, inserted, nextEvent, failures>>

\* Nothing of the run stays.
RollBack(w) ==
    /\ run' = [run EXCEPT ![w] = Resting]
    /\ IF lock = w THEN lock' = NoOne /\ draft' = NoDraft ELSE UNCHANGED <<lock, draft>>

\* Another run got there first: the table exists, or the one to drop does not.
Overtaken(w) ==
    /\ \/ run[w].pc = "create" /\ ~Creatable(w)
       \/ run[w].pc = "drop" /\ lock = w /\ ~(run[w].drops \subseteq draft.parts)
    /\ RollBack(w)
    /\ UNCHANGED <<now, parts, rows, inserted, nextEvent, lastDone, failures>>

\* The database fails, the backend stops or dies.
Fail(w) ==
    /\ run[w].pc # "idle"
    /\ failures < MaxFailures
    /\ failures' = failures + 1
    /\ RollBack(w)
    /\ UNCHANGED <<now, parts, rows, inserted, nextEvent, lastDone>>

Step(w) ==
    \/ Begin(w) \/ NextDay(w) \/ Lock(w) \/ Move(w) \/ Create(w)
    \/ \E d \in parts : Drop(w, d)
    \/ Finish(w) \/ Overtaken(w)

Next ==
    \/ Tick
    \/ \E q \in Requests :
        \/ \E ts \in now - Retention .. now + FutureSkew : Insert(q, ts)
        \/ Commit(q) \/ Abort(q)
    \/ \E w \in Backends : Step(w) \/ Fail(w)

Spec == Init /\ [][Next]_vars

\* The job runs again and again, a run goes on, and a request ends.
FairSpec ==
    /\ Spec
    /\ \A w \in Backends : WF_vars(Step(w))
    /\ \A q \in Requests : WF_vars(Commit(q) \/ Abort(q))

-----------------------------------------------------------------------------
(* Properties.                                                             *)

Everywhere == rows \cup draft.rows \cup UNION {inserted[q] : q \in Requests}

\* Every variable stays in its domain, only a run at work has the lock, and
\* no event is twice among the visible ones.
TypeOK ==
    /\ now \in 0 .. MaxNow
    /\ parts \subseteq Int /\ draft.parts \subseteq Int
    /\ \A r \in Everywhere : r.n \in 1 .. nextEvent - 1 /\ r.ts \in Int /\ r.parked \in BOOLEAN
    /\ \A S \in {rows, draft.rows} : \A r, s \in S : r.n = s.n => r = s
    /\ lock = NoOne => draft = NoDraft
    /\ lock # NoOne => run[lock].pc \in {"days", "move", "create", "drop"}
    /\ nextEvent \in 1 .. MaxEvent + 1
    /\ lastDone \in Int
    /\ failures \in 0 .. MaxFailures

\* "events for a day without a partition land in DEFAULT, and they move into
\* that day's partition when it is created" (architecture.md): what is in
\* DEFAULT has no partition of its own, whatever commits around a run.
Placed == \A r \in rows : r.parked <=> Day(r.ts) \notin parts

\* "locking before the DELETE keeps concurrent inserts from landing in DEFAULT
\* in between" (0001_init.sql): no CREATE is refused for the rows of its day.
NothingInBetween ==
    \A w \in Backends : run[w].pc = "create" =>
        /\ Parked(draft.rows, run[w].day) = {}
        /\ \A q \in Requests : Parked(inserted[q], run[w].day) = {}

\* "a day's partition is dropped only once the whole day is older than that,
\* so an event is kept for at least retention" (events.go): an event is gone
\* only then, out of DEFAULT too, and however long its run has waited.
KeptForRetention ==
    [][\A r \in rows : (\A s \in rows' : s.n # r.n) =>
        (Day(r.ts) + 1) * DayLength + Retention <= now]_vars

\* "Partitions exist 2 days ahead" (architecture.md) of the latest run that
\* succeeded, and back to its cutoff: no run undoes what another has done, even
\* one that began on an earlier day.
Covered == lastDone - Days .. lastDone + 2 \subseteq parts

\* "Expired rows in DEFAULT are deleted" and a failed call is retried: when no
\* more fails, every expired event goes, and every kept day has a partition,
\* though runs may overtake each other.
Maintained ==
    <>[](/\ Cutoff(Day(now)) .. LastDay(Day(now)) \subseteq parts
         /\ \A r \in rows : Day(r.ts) >= Cutoff(Day(now)))
=============================================================================
