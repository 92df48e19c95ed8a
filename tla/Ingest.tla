------------------------------- MODULE Ingest -------------------------------
(***************************************************************************)
(* A collector's batches on their way into the events table: Vector's      *)
(* buffer and retries, the ingest handler in api/ingest.go, and            *)
(* EventRepo.Insert, which stores a batch in one transaction and a chunk   *)
(* of it in one savepoint.                                                 *)
(*                                                                         *)
(* A request goes on at the backend when its client gives up on it, so a   *)
(* batch that is sent again may have several requests open at once.        *)
(***************************************************************************)
EXTENDS Integers, Sequences, FiniteSets

CONSTANTS
    Batches,      \* batches in Vector's buffer
    Content,      \* Content[b]: the records of batch b, in order
    Requests,     \* requests the backend may have open
    Tenants,
    Stable,       \* tenants that exist throughout
    ChunkSize,    \* insertChunk
    MaxReported,  \* rejections listed in an answer
    MaxTrouble    \* bound on failures

\* A record the normalizer refuses (or whose line is too long, or whose tenant
\* the caller may not write to), one that the database refuses, or neither.
Classes == {"bad", "unstorable", "good"}

ASSUME IngestAssumption ==
    /\ Content \in [Batches -> Seq([tenant : Tenants, class : Classes])]
    /\ Stable \subseteq Tenants
    /\ ChunkSize \in Nat \ {0} /\ MaxReported \in Nat \ {0} /\ MaxTrouble \in Nat

VARIABLES
    tenants,  \* the tenants that exist
    stored,   \* stored[b][i]: how many rows hold record i of batch b
    sink,     \* sink[b]: where Vector is with batch b
    req,      \* req[q]: what the backend does for request q
    unsure,   \* unsure[b]: how often a batch was sent and its fate not learnt
    trouble   \* failures so far

vars == <<tenants, stored, sink, req, unsure, trouble>>

Records(b) == DOMAIN Content[b]
Bad(b) == {i \in Records(b) : Content[b][i].class = "bad"}
Of(b, t) == {i \in Records(b) : Content[b][i].tenant = t}

Free == [pc |-> "free"]

\* A request: whether its client still waits; the events still to insert, and
\* those of a refused chunk to insert one at a time; the rows its transaction
\* has; the records rejected, and those of them an answer lists; and whether
\* the answer is 200.
Open(b) ==
    [pc : {"received", "inserting", "answered"}, batch : {b}, waited : BOOLEAN,
     todo : SUBSET Records(b), single : SUBSET Records(b), rows : SUBSET Records(b),
     rejected : SUBSET Records(b), reported : SUBSET Records(b), ok : BOOLEAN]

-----------------------------------------------------------------------------
(* What a chunk and an answer are made of.                                 *)

\* The first n of a set of positions, in order.
Firsts(S, n) == {i \in S : Cardinality({j \in S : j < i}) < n}

\* Mutant: a report that is cut before it is put in order.
ReportedUnsorted(b, rejected) ==
    LET early == Firsts(Bad(b), MaxReported)
    IN  early \cup Firsts(rejected \ Bad(b), MaxReported - Cardinality(early))

\* batch.merge: the records found bad while reading and those the insert
\* refused, each list cut at MaxReported, together cut again.
Reported(b, rejected) ==
    Firsts(Firsts(Bad(b), MaxReported) \cup Firsts(rejected \ Bad(b), MaxReported), MaxReported)

\* The database takes record i: its tenant exists and its values are in range.
Storable(b, i) == Content[b][i].tenant \in tenants /\ Content[b][i].class # "unstorable"

-----------------------------------------------------------------------------
Init ==
    /\ tenants \in {T \in SUBSET Tenants : Stable \subseteq T}
    /\ stored = [b \in Batches |-> [i \in Records(b) |-> 0]]
    /\ sink = [b \in Batches |-> "buffered"]
    /\ req = [q \in Requests |-> Free]
    /\ unsure = [b \in Batches |-> 0]
    /\ trouble = 0

Trouble == trouble < MaxTrouble /\ trouble' = trouble + 1

\* Vector sends a batch.  The handler reads it, rejects what it can't
\* normalize, and has nothing to insert if that is all of it.
Send(b, q) ==
    LET events == Records(b) \ Bad(b)
    IN  /\ sink[b] = "buffered"
        /\ req[q] = Free
        /\ sink' = [sink EXCEPT ![b] = "sent"]
        /\ req' = [req EXCEPT ![q] =
               [pc |-> IF events = {} THEN "answered" ELSE "received", batch |-> b, waited |-> TRUE,
                todo |-> events, single |-> {}, rows |-> {}, rejected |-> Bad(b),
                reported |-> Reported(b, Bad(b)), ok |-> events = {}]]
        /\ UNCHANGED <<tenants, stored, unsure, trouble>>

\* Mutant: events of unknown tenants are dropped, and not reported.
LookupSilently(q) ==
    LET r == req[q]
    IN  /\ r.pc = "received"
        /\ req' = [req EXCEPT ![q] =
               [r EXCEPT !.pc = "inserting",
                         !.todo = {i \in @ : Content[r.batch][i].tenant \in tenants}]]
        /\ UNCHANGED <<tenants, stored, sink, unsure, trouble>>

\* knownTenants, outside the transaction: events of other tenants are refused.
Lookup(q) ==
    LET r == req[q]
        unknown == {i \in r.todo : Content[r.batch][i].tenant \notin tenants}
    IN  /\ r.pc = "received"
        /\ req' = [req EXCEPT ![q] = [r EXCEPT !.pc = "inserting", !.todo = @ \ unknown,
                                               !.rejected = @ \cup unknown]]
        /\ UNCHANGED <<tenants, stored, sink, unsure, trouble>>

\* Mutant: what is tried one by one also stays to be inserted.
InsertChunkTwice(q, t) ==
    LET r == req[q]
        chunk == Firsts(r.todo \cap Of(r.batch, t), ChunkSize)
    IN  /\ r.pc = "inserting" /\ r.single = {} /\ chunk # {}
        /\ req' = [req EXCEPT ![q] =
               IF \A i \in chunk : Storable(r.batch, i)
               THEN [r EXCEPT !.todo = @ \ chunk, !.rows = @ \cup chunk]
               ELSE [r EXCEPT !.single = chunk]]
        /\ UNCHANGED <<tenants, stored, sink, unsure, trouble>>

\* The next chunk of tenant t's events, in a savepoint.  If the database
\* refuses one of them the savepoint is rolled back, to insert them one by one.
InsertChunk(q, t) ==
    LET r == req[q]
        chunk == Firsts(r.todo \cap Of(r.batch, t), ChunkSize)
    IN  /\ r.pc = "inserting" /\ r.single = {} /\ chunk # {}
        /\ req' = [req EXCEPT ![q] =
               IF \A i \in chunk : Storable(r.batch, i)
               THEN [r EXCEPT !.todo = @ \ chunk, !.rows = @ \cup chunk]
               ELSE [r EXCEPT !.todo = @ \ chunk, !.single = chunk]]
        /\ UNCHANGED <<tenants, stored, sink, unsure, trouble>>

\* Mutant: a refused event fails the whole insert.
InsertOneOrFail(q, i) ==
    LET r == req[q]
    IN  /\ r.pc = "inserting" /\ i \in r.single /\ \A j \in r.single : i <= j
        /\ req' = [req EXCEPT ![q] =
               IF Storable(r.batch, i)
               THEN [r EXCEPT !.single = @ \ {i}, !.rows = @ \cup {i}]
               ELSE [r EXCEPT !.pc = "answered", !.rows = {}]]
        /\ UNCHANGED <<tenants, stored, sink, unsure, trouble>>

\* The next event of a refused chunk, in a savepoint of its own.
InsertOne(q, i) ==
    LET r == req[q]
    IN  /\ r.pc = "inserting" /\ i \in r.single /\ \A j \in r.single : i <= j
        /\ req' = [req EXCEPT ![q] =
               IF Storable(r.batch, i)
               THEN [r EXCEPT !.single = @ \ {i}, !.rows = @ \cup {i}]
               ELSE [r EXCEPT !.single = @ \ {i}, !.rejected = @ \cup {i}]]
        /\ UNCHANGED <<tenants, stored, sink, unsure, trouble>>

\* The rows of a finished transaction become visible.
Record(q) ==
    LET r == req[q]
    IN  /\ r.pc = "inserting" /\ r.todo = {} /\ r.single = {}
        /\ stored' = [stored EXCEPT ![r.batch] =
               [i \in Records(r.batch) |-> @[i] + (IF i \in r.rows THEN 1 ELSE 0)]]

\* The transaction commits, and the handler answers with every rejection.
Commit(q) ==
    /\ Record(q)
    /\ req' = [req EXCEPT ![q].pc = "answered", ![q].ok = TRUE,
                          ![q].reported = Reported(req[q].batch, req[q].rejected)]
    /\ UNCHANGED <<tenants, sink, unsure, trouble>>
\* It commits, but the acknowledgement is lost: Insert returns an error, and
\* the handler answers 5xx.
CommitUnacknowledged(q) ==
    /\ Trouble
    /\ Record(q)
    /\ req' = [req EXCEPT ![q].pc = "answered"]
    /\ unsure' = [unsure EXCEPT ![req[q].batch] = @ + 1]
    /\ UNCHANGED <<tenants, sink>>

\* Mutant: what was inserted before a failure stays.
FailInPlace(q) ==
    /\ Trouble
    /\ req[q].pc \in {"received", "inserting"}
    /\ stored' = [stored EXCEPT ![req[q].batch] =
           [i \in Records(req[q].batch) |-> @[i] + (IF i \in req[q].rows THEN 1 ELSE 0)]]
    /\ req' = [req EXCEPT ![q].pc = "answered"]
    /\ UNCHANGED <<tenants, sink, unsure>>

\* The lookup, an insert or the commit fails for a reason that is not about an
\* event: everything is rolled back, and the handler answers 5xx.
Fail(q) ==
    /\ Trouble
    /\ req[q].pc \in {"received", "inserting"}
    /\ req' = [req EXCEPT ![q].pc = "answered", ![q].rows = {}]
    /\ UNCHANGED <<tenants, stored, sink, unsure>>

\* Mutants: an answer of 200 whatever Insert returned, and one of 5xx for a
\* batch with a rejected record.
AnswerAlwaysOK(q) ==
    /\ req[q].pc = "answered"
    /\ sink' = [sink EXCEPT ![req[q].batch] = IF req[q].waited THEN "done" ELSE @]
    /\ req' = [req EXCEPT ![q] = Free]
    /\ UNCHANGED <<tenants, stored, unsure, trouble>>
AnswerFailingRejected(q) ==
    /\ req[q].pc = "answered"
    /\ sink' = [sink EXCEPT ![req[q].batch] =
           IF ~req[q].waited THEN @
           ELSE IF req[q].ok /\ req[q].rejected = {} THEN "done" ELSE "buffered"]
    /\ req' = [req EXCEPT ![q] = Free]
    /\ UNCHANGED <<tenants, stored, unsure, trouble>>

\* The answer arrives, if its client still waits: Vector is done with a batch
\* at 200, and sends it again at 5xx.
Answer(q) ==
    /\ req[q].pc = "answered"
    /\ sink' = [sink EXCEPT ![req[q].batch] =
           IF ~req[q].waited THEN @ ELSE IF req[q].ok THEN "done" ELSE "buffered"]
    /\ req' = [req EXCEPT ![q] = Free]
    /\ UNCHANGED <<tenants, stored, unsure, trouble>>

\* Vector gives up on a request: a timeout, or a connection lost either way.
\* The backend goes on with it.
GiveUp(q) ==
    /\ Trouble
    /\ req[q] # Free /\ req[q].waited
    /\ req' = [req EXCEPT ![q].waited = FALSE]
    /\ sink' = [sink EXCEPT ![req[q].batch] = "buffered"]
    /\ unsure' = [unsure EXCEPT ![req[q].batch] = @ + 1]
    /\ UNCHANGED <<tenants, stored>>

\* The backend stops: open transactions are rolled back, and answers not given.
Crash ==
    /\ Trouble
    /\ req' = [q \in Requests |-> Free]
    /\ sink' = [b \in Batches |-> IF sink[b] = "sent" THEN "buffered" ELSE sink[b]]
    /\ unsure' = [b \in Batches |-> unsure[b] + (IF sink[b] = "sent" THEN 1 ELSE 0)]
    /\ UNCHANGED <<tenants, stored>>

\* A tenant is created by `seed`, and removed by hand; a tenant with events,
\* also those of an open transaction, can't be.
CreateTenant(t) ==
    /\ t \notin tenants
    /\ tenants' = tenants \cup {t}
    /\ UNCHANGED <<stored, sink, req, unsure, trouble>>

DeleteTenant(t) ==
    /\ Trouble
    /\ t \in tenants \ Stable
    /\ \A b \in Batches : \A i \in Of(b, t) : stored[b][i] = 0
    /\ \A q \in Requests : req[q] # Free => req[q].rows \cap Of(req[q].batch, t) = {}
    /\ tenants' = tenants \ {t}
    /\ UNCHANGED <<stored, sink, req, unsure>>

\* What the handler and the database do with request q, unless they fail.
Serve(q) ==
    \/ Lookup(q)
    \/ \E t \in Tenants : InsertChunk(q, t)
    \/ req[q].pc = "inserting" /\ \E i \in req[q].single : InsertOne(q, i)
    \/ Commit(q)
    \/ Answer(q)

Next ==
    \/ \E b \in Batches, q \in Requests : Send(b, q)
    \/ \E q \in Requests :
        \/ Serve(q)
        \/ CommitUnacknowledged(q)
        \/ Fail(q)
        \/ GiveUp(q)
    \/ Crash
    \/ \E t \in Tenants : CreateTenant(t) \/ DeleteTenant(t)

Spec == Init /\ [][Next]_vars

\* Vector sends what it has buffered, and the backend serves what it has open.
\* Failures are not fair, and bounded by MaxTrouble: outages end.
FairSpec ==
    /\ Spec
    /\ \A b \in Batches : WF_vars(\E q \in Requests : Send(b, q))
    /\ \A q \in Requests : WF_vars(Serve(q))

-----------------------------------------------------------------------------
(* Properties.                                                             *)

\* Every variable stays in its domain; of a batch that is being inserted,
\* every record is in exactly one place.
TypeOK ==
    /\ tenants \subseteq Tenants /\ Stable \subseteq tenants
    /\ \A b \in Batches : stored[b] \in [Records(b) -> Nat]
    /\ sink \in [Batches -> {"buffered", "sent", "done"}]
    /\ unsure \in [Batches -> Nat]
    /\ trouble \in 0 .. MaxTrouble
    /\ \A q \in Requests : req[q] = Free \/ \E b \in Batches :
        /\ req[q] \in Open(b)
        /\ req[q].todo \cap req[q].single = {}
        /\ (req[q].todo \cup req[q].single) \cap (req[q].rows \cup req[q].rejected) = {}
        /\ req[q].rows \cap req[q].rejected = {}
        /\ req[q].pc # "answered" =>
            req[q].todo \cup req[q].single \cup req[q].rows \cup req[q].rejected = Records(b)

\* "reports, by position, why any of them were not stored" (events.go:64), and
\* "The returned error means nothing was stored" but for a lost commit: a 200
\* accounts for every record, as stored by this request or as rejected, and
\* rejects none that could be stored.
AnswerHonest ==
    \A q \in Requests : req[q].pc = "answered" /\ req[q].ok =>
        LET r == req[q]
        IN  /\ r.rows \cup r.rejected = Records(r.batch)
            /\ r.rows \cap r.rejected = {}
            /\ \A i \in r.rejected : \/ Content[r.batch][i].class # "good"
                                     \/ Content[r.batch][i].tenant \notin Stable

\* Vector is done with a batch only when each of its good records is stored.
DoneIsStored ==
    \A b \in Batches : sink[b] = "done" =>
        \A i \in Records(b) : Content[b][i].class = "good" /\ Content[b][i].tenant \in Stable =>
            stored[b][i] > 0

\* A record is stored again only when Vector could not know it had been:
\* otherwise once, however many of its batch's requests failed.
CopiesBounded == \A b \in Batches : \A i \in Records(b) : stored[b][i] <= 1 + unsure[b]

\* "reported is the first maxReported rejections, in request order"
\* (ingest.go:188).
ReportedFirst ==
    \A q \in Requests : req[q].pc = "answered" /\ req[q].ok =>
        req[q].reported = {i \in req[q].rejected :
                              Cardinality({j \in req[q].rejected : j < i}) < MaxReported}

\* A refused event "must not fail the others, since the collector would retry
\* the whole batch forever" (events.go:66): Vector gets done with every batch.
EveryBatchDone == \A b \in Batches : <>(sink[b] = "done")

\* The records that nothing but a failure keeps from being stored, and those
\* that can be stored while their tenant exists.
Good(b) == {i \in Records(b) : Content[b][i].class = "good"}
Delivered ==
    INSTANCE Delivery WITH
        Items <- [b \in Batches |-> Records(b)],
        Must <- [b \in Batches |-> {i \in Good(b) : Content[b][i].tenant \in Stable}],
        May <- [b \in Batches |-> Good(b)],
        rows <- stored,
        done <- {b \in Batches : sink[b] = "done"},
        doubts <- unsure

\* "All events from one request are stored in one transaction" and "Only the
\* refused event is rejected" (architecture.md): a step stores nothing, or at
\* once a row of each good record of a batch, but for those of a tenant that
\* comes and goes, and of no other; a row that is stored again is paid for by
\* a request whose end Vector did not learn; and Vector never takes a batch up
\* again, nor lets go of one that is not stored.
ImplementsDelivery == Delivered!Spec

\* "The returned error means nothing was stored." (events.go:68)
ErrorMeansNothingStored ==
    \A q \in Requests : req[q].pc = "answered" /\ ~req[q].ok => req[q].rows = {}
=============================================================================
