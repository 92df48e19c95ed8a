---------------------------- MODULE IngestProofs ----------------------------
(***************************************************************************)
(* What Ingest promises for batches of any length and content, any number  *)
(* of requests open at once, and any failures: a batch is stored all or    *)
(* nothing, an answer of 200 accounts for every record and lists the first *)
(* rejections in order, and Vector is done with a batch only when its good *)
(* records are stored.                                                     *)
(*                                                                         *)
(* The invariant follows each record of an open request from the events    *)
(* still to insert to the rows or to the rejections.                       *)
(***************************************************************************)
EXTENDS Ingest, SequenceTheorems, FiniteSetTheorems, TLAPS

LEMMA FirstsSubset == ASSUME NEW S, NEW n PROVE Firsts(S, n) \subseteq S
BY DEF Firsts

\* An open request, each record of which is in no more than one place.
IsOpen(r) ==
    /\ r.batch \in Batches
    /\ r \in Open(r.batch)
    /\ r.todo \cap r.single = {}
    /\ (r.todo \cup r.single) \cap (r.rows \cup r.rejected) = {}
    /\ r.rows \cap r.rejected = {}

\* Each record of an open request is accounted for.
Honest(r) ==
    /\ r.pc # "answered" \/ r.ok => r.todo \cup r.single \cup r.rows \cup r.rejected = Records(r.batch)
    /\ r.ok => r.pc = "answered" /\ r.todo = {} /\ r.single = {}
    /\ Bad(r.batch) \subseteq r.rejected
    /\ \A i \in r.rejected : \/ Content[r.batch][i].class # "good"
                             \/ Content[r.batch][i].tenant \notin Stable
    /\ \A i \in r.rows : Content[r.batch][i].class # "unstorable"

\* What an answer of 200 says is stored, is.
Kept(r) == r.ok => \A i \in r.rows : stored[r.batch][i] > 0

Types ==
    /\ tenants \subseteq Tenants /\ Stable \subseteq tenants
    /\ stored \in [Batches -> {stored[b] : b \in Batches}]
    /\ \A b \in Batches : stored[b] \in [Records(b) -> Nat]
    /\ sink \in [Batches -> {"buffered", "sent", "done"}]
    /\ unsure \in [Batches -> Nat]
    /\ trouble \in 0 .. MaxTrouble
    /\ req \in [Requests -> {req[q] : q \in Requests}]

IInv ==
    /\ Types
    /\ \A q \in Requests : req[q] # Free => IsOpen(req[q]) /\ Honest(req[q]) /\ Kept(req[q])
    /\ DoneIsStored

LEMMA OpenIs == ASSUME NEW r, IsOpen(r) PROVE r.batch \in Batches /\ r.pc # "free" /\ r # Free
BY DEF IsOpen, Open, Free

\* Which records there are.
LEMMA RecordClasses ==
    ASSUME NEW b \in Batches, NEW i \in Records(b)
    PROVE  Content[b][i].class \in Classes /\ Content[b][i].tenant \in Tenants
<1> DEFINE R == [tenant : Tenants, class : Classes]
<1>1. Content[b] \in Seq(R)
  BY IngestAssumption
<1>2. i \in 1 .. Len(Content[b])
  BY <1>1 DEF Records
<1>3. Content[b][i] \in R
  BY <1>1, <1>2, ElementOfSeq
<1> QED
  BY <1>3

-----------------------------------------------------------------------------
LEMMA IInvInit == Init => IInv
<1> SUFFICES ASSUME Init PROVE IInv
  OBVIOUS
<1>1. Types
  BY IngestAssumption DEF Init, Types
<1>2. \A q \in Requests : req[q] = Free
  BY DEF Init
<1>3. DoneIsStored
  BY DEF Init, DoneIsStored
<1> QED
  BY <1>1, <1>2, <1>3 DEF IInv

LEMMA TypesStep == Types /\ (\A q \in Requests : req[q] # Free => IsOpen(req[q])) /\ [Next]_vars => Types'
<1> SUFFICES ASSUME Types, \A q \in Requests : req[q] # Free => IsOpen(req[q]), [Next]_vars
             PROVE  Types'
  OBVIOUS
<1> USE DEF Types
<1>1. ASSUME NEW b \in Batches, NEW q \in Requests, Send(b, q) PROVE Types'
  BY <1>1 DEF Send
<1>2. ASSUME NEW q \in Requests, Lookup(q) PROVE Types'
  BY <1>2 DEF Lookup
<1>3. ASSUME NEW q \in Requests, NEW t \in Tenants, InsertChunk(q, t) PROVE Types'
  BY <1>3 DEF InsertChunk
<1>4. ASSUME NEW q \in Requests, NEW i \in req[q].single, InsertOne(q, i) PROVE Types'
  BY <1>4 DEF InsertOne
<1>r. ASSUME NEW q \in Requests, Record(q)
      PROVE  /\ stored' \in [Batches -> {stored'[b] : b \in Batches}]
             /\ \A b \in Batches : stored'[b] \in [Records(b) -> Nat]
  <2>1. req[q].batch \in Batches
    BY <1>r DEF Record, Free, IsOpen, Open
  <2> DEFINE b == req[q].batch
             new == [i \in Records(b) |-> stored[b][i] + (IF i \in req[q].rows THEN 1 ELSE 0)]
  <2>2. new \in [Records(b) -> Nat]
    BY <2>1
  <2>3. stored' = [stored EXCEPT ![b] = new]
    BY <1>r DEF Record
  <2> HIDE DEF new, b
  <2>4. \A x \in Batches : stored'[x] = IF x = b THEN new ELSE stored[x]
    BY <2>3
  <2>5. \A x \in Batches : stored'[x] \in [Records(x) -> Nat]
    BY <2>2, <2>4
  <2> QED
    BY <2>3, <2>5
<1>u. ASSUME NEW b \in Batches, unsure' = [unsure EXCEPT ![b] = @ + 1]
      PROVE  unsure' \in [Batches -> Nat]
  BY <1>u
<1>b. ASSUME NEW q \in Requests, req[q].pc # "free" PROVE req[q].batch \in Batches
  BY <1>b DEF IsOpen, Open, Free
<1>5. ASSUME NEW q \in Requests, Commit(q) PROVE Types'
  BY <1>5, <1>r DEF Commit
<1>6. ASSUME NEW q \in Requests, CommitUnacknowledged(q) PROVE Types'
  <2>1. unsure' \in [Batches -> Nat]
    BY <1>6, <1>b, <1>u DEF CommitUnacknowledged, Record
  <2>2. trouble' \in 0 .. MaxTrouble
    BY <1>6, IngestAssumption DEF CommitUnacknowledged, Trouble
  <2> QED
    BY <1>6, <1>r, <2>1, <2>2 DEF CommitUnacknowledged
<1>7. ASSUME NEW q \in Requests, Fail(q) PROVE Types'
  <2>1. trouble' \in 0 .. MaxTrouble
    BY <1>7, IngestAssumption DEF Fail, Trouble
  <2> QED
    BY <1>7, <2>1 DEF Fail
<1>8. ASSUME NEW q \in Requests, Answer(q) PROVE Types'
  BY <1>8 DEF Answer
<1>9. ASSUME NEW q \in Requests, GiveUp(q) PROVE Types'
  <2>1. unsure' \in [Batches -> Nat]
    <3>1. req[q].batch \in Batches
      BY <1>9 DEF GiveUp, IsOpen, Open
    <3> QED
      BY <1>9, <3>1, <1>u DEF GiveUp
  <2>2. trouble' \in 0 .. MaxTrouble
    BY <1>9, IngestAssumption DEF GiveUp, Trouble
  <2> QED
    BY <1>9, <2>1, <2>2 DEF GiveUp
<1>10. CASE Crash
  <2>1. req' \in [Requests -> {req'[q] : q \in Requests}]
    BY <1>10 DEF Crash
  <2>2. sink' \in [Batches -> {"buffered", "sent", "done"}]
    BY <1>10 DEF Crash
  <2>3. unsure' \in [Batches -> Nat]
    BY <1>10 DEF Crash
  <2>4. trouble' \in 0 .. MaxTrouble
    BY <1>10, IngestAssumption DEF Crash, Trouble
  <2>5. UNCHANGED <<tenants, stored>>
    BY <1>10 DEF Crash
  <2> QED
    BY <2>1, <2>2, <2>3, <2>4, <2>5
<1>11. ASSUME NEW t \in Tenants, CreateTenant(t) PROVE Types'
  BY <1>11 DEF CreateTenant
<1>12. ASSUME NEW t \in Tenants, DeleteTenant(t) PROVE Types'
  <2>1. trouble' \in 0 .. MaxTrouble
    BY <1>12, IngestAssumption DEF DeleteTenant, Trouble
  <2> QED
    BY <1>12, <2>1 DEF DeleteTenant
<1>13. CASE UNCHANGED vars
  BY <1>13 DEF vars
<1> QED
  BY <1>1, <1>2, <1>3, <1>4, <1>5, <1>6, <1>7, <1>8, <1>9, <1>10, <1>11, <1>12, <1>13 DEF Next, Serve

-----------------------------------------------------------------------------
(* What a step makes of a request's record.                                *)

LEMMA ReportedSubset ==
    ASSUME NEW b \in Batches, NEW S \in SUBSET Records(b)
    PROVE  Reported(b, S) \subseteq Records(b)
BY FirstsSubset DEF Reported, Bad

LEMMA SentIsOpen ==
    ASSUME NEW b \in Batches, NEW q \in Requests, Types, Send(b, q)
    PROVE  IsOpen(req'[q]) /\ Honest(req'[q])
<1> DEFINE events == Records(b) \ Bad(b)
           R == [pc |-> IF events = {} THEN "answered" ELSE "received", batch |-> b, waited |-> TRUE,
                 todo |-> events, single |-> {}, rows |-> {}, rejected |-> Bad(b),
                 reported |-> Reported(b, Bad(b)), ok |-> events = {}]
<1>1. req'[q] = R
  BY DEF Send, Types
<1>2. Bad(b) \in SUBSET Records(b) /\ \A i \in Bad(b) : Content[b][i].class # "good"
  BY DEF Bad
<1>3. Reported(b, Bad(b)) \subseteq Records(b)
  BY <1>2, ReportedSubset
<1>4. IsOpen(R)
  BY <1>2, <1>3 DEF IsOpen, Open
<1>5. Honest(R)
  BY <1>2 DEF Honest
<1> QED
  BY <1>1, <1>4, <1>5

LEMMA LookedUpIsOpen ==
    ASSUME NEW q \in Requests, Types, IsOpen(req[q]), Honest(req[q]), Lookup(q)
    PROVE  IsOpen(req'[q]) /\ Honest(req'[q]) /\ req'[q].ok = FALSE
<1> DEFINE r == req[q]
           unknown == {i \in r.todo : Content[r.batch][i].tenant \notin tenants}
           R == [r EXCEPT !.pc = "inserting", !.todo = @ \ unknown, !.rejected = @ \cup unknown]
<1>1. req'[q] = R
  BY DEF Lookup, Types
<1>2. \A i \in unknown : Content[r.batch][i].tenant \notin Stable
  BY DEF Types
<1>3. unknown \subseteq r.todo /\ r.pc = "received" /\ r.ok = FALSE
  BY DEF Lookup, Honest, IsOpen, Open
<1> HIDE DEF unknown
<1>4. IsOpen(R)
  BY <1>3 DEF IsOpen, Open
<1>5. Honest(R)
  BY <1>2, <1>3 DEF Honest, IsOpen, Open
<1> QED
  BY <1>1, <1>3, <1>4, <1>5 DEF IsOpen, Open

LEMMA ChunkInsertedIsOpen ==
    ASSUME NEW q \in Requests, NEW t \in Tenants, Types, IsOpen(req[q]), Honest(req[q]), InsertChunk(q, t)
    PROVE  IsOpen(req'[q]) /\ Honest(req'[q]) /\ req'[q].ok = FALSE
<1> DEFINE r == req[q]
           chunk == Firsts(r.todo \cap Of(r.batch, t), ChunkSize)
           R == [r EXCEPT !.todo = @ \ chunk, !.rows = @ \cup chunk]
           S == [r EXCEPT !.todo = @ \ chunk, !.single = chunk]
<1>1. req'[q] = IF \A i \in chunk : Storable(r.batch, i) THEN R ELSE S
  BY DEF InsertChunk, Types
<1>2. chunk \subseteq r.todo
  BY FirstsSubset
<1>3. r.pc = "inserting" /\ r.single = {} /\ r.ok = FALSE
  BY DEF InsertChunk, Honest, IsOpen, Open
<1> HIDE DEF chunk
<1>4. CASE \A i \in chunk : Storable(r.batch, i)
  <2>1. \A i \in chunk : Content[r.batch][i].class # "unstorable"
    BY <1>4 DEF Storable
  <2>2. IsOpen(R)
    BY <1>2, <1>3 DEF IsOpen, Open
  <2>3. Honest(R)
    BY <1>2, <1>3, <2>1 DEF Honest, IsOpen, Open
  <2> QED
    BY <1>1, <1>3, <1>4, <2>2, <2>3 DEF IsOpen, Open
<1>5. CASE ~ \A i \in chunk : Storable(r.batch, i)
  <2>1. IsOpen(S)
    BY <1>2, <1>3 DEF IsOpen, Open
  <2>2. Honest(S)
    BY <1>2, <1>3 DEF Honest, IsOpen, Open
  <2> QED
    BY <1>1, <1>3, <1>5, <2>1, <2>2 DEF IsOpen, Open
<1> QED
  BY <1>4, <1>5

LEMMA OneInsertedIsOpen ==
    ASSUME NEW q \in Requests, NEW i, Types, IsOpen(req[q]), Honest(req[q]), InsertOne(q, i)
    PROVE  IsOpen(req'[q]) /\ Honest(req'[q]) /\ req'[q].ok = FALSE
<1> DEFINE r == req[q]
           R == [r EXCEPT !.single = @ \ {i}, !.rows = @ \cup {i}]
           S == [r EXCEPT !.single = @ \ {i}, !.rejected = @ \cup {i}]
<1>1. req'[q] = IF Storable(r.batch, i) THEN R ELSE S
  BY DEF InsertOne, Types
<1>2. i \in r.single
  BY DEF InsertOne
<1>3. r.pc = "inserting" /\ r.ok = FALSE
  BY DEF InsertOne, Honest, IsOpen, Open
<1>4. CASE Storable(r.batch, i)
  <2>1. Content[r.batch][i].class # "unstorable"
    BY <1>4 DEF Storable
  <2>2. IsOpen(R)
    BY <1>2, <1>3, ZenonT(60) DEF IsOpen, Open
  <2>3. Honest(R)
    BY <1>2, <1>3, <2>1 DEF Honest, IsOpen, Open
  <2> QED
    BY <1>1, <1>3, <1>4, <2>2, <2>3 DEF IsOpen, Open
<1>5. CASE ~Storable(r.batch, i)
  <2>1. Content[r.batch][i].class # "good" \/ Content[r.batch][i].tenant \notin Stable
    BY <1>5 DEF Storable, Types
  <2>2. IsOpen(S)
    BY <1>2, <1>3 DEF IsOpen, Open
  <2>3. Honest(S)
    BY <1>2, <1>3, <2>1 DEF Honest, IsOpen, Open
  <2> QED
    BY <1>1, <1>3, <1>5, <2>2, <2>3 DEF IsOpen, Open
<1> QED
  BY <1>4, <1>5

\* What Record adds: one row of each record in the transaction's rows.
LEMMA Recorded ==
    ASSUME NEW q \in Requests, Types, IsOpen(req[q]), Record(q)
    PROVE  /\ \A i \in req[q].rows : stored'[req[q].batch][i] = stored[req[q].batch][i] + 1
           /\ \A b \in Batches : \A i \in Records(b) :
                \/ b = req[q].batch /\ i \in req[q].rows
                \/ stored'[b][i] = stored[b][i]
<1> DEFINE r == req[q]
           new == [i \in Records(r.batch) |-> stored[r.batch][i] + (IF i \in r.rows THEN 1 ELSE 0)]
<1>1. r.batch \in Batches /\ r.rows \subseteq Records(r.batch)
  BY DEF IsOpen, Open
<1>2. stored' = [stored EXCEPT ![r.batch] = new]
  BY DEF Record
<1>3. \A i \in Records(r.batch) : stored[r.batch][i] \in Nat
  BY <1>1 DEF Types
<1>4. \A i \in Records(r.batch) : new[i] = stored[r.batch][i] + (IF i \in r.rows THEN 1 ELSE 0)
  OBVIOUS
<1>5. \A i \in r.rows : new[i] = stored[r.batch][i] + 1
  BY <1>1, <1>4
<1>6. \A i \in Records(r.batch) : i \notin r.rows => new[i] = stored[r.batch][i]
  BY <1>3, <1>4
<1> HIDE DEF new
<1>7. \A b \in Batches : stored'[b] = IF b = r.batch THEN new ELSE stored[b]
  BY <1>2 DEF Types
<1> QED
  BY <1>1, <1>5, <1>6, <1>7

LEMMA CommittedIsOpen ==
    ASSUME NEW q \in Requests, Types, IsOpen(req[q]), Honest(req[q]), Commit(q)
    PROVE  IsOpen(req'[q]) /\ Honest(req'[q]) /\ Kept(req[q])'
<1> DEFINE r == req[q]
           report == Reported(r.batch, r.rejected)
           R == [r EXCEPT !.pc = "answered", !.ok = TRUE, !.reported = report]
<1>1. req'[q] = R
  BY DEF Commit, Types
<1>2. r.pc = "inserting" /\ r.todo = {} /\ r.single = {}
  BY DEF Commit, Record
<1>3. report \subseteq Records(r.batch)
  BY ReportedSubset DEF IsOpen, Open
<1> HIDE DEF report
<1>4. IsOpen(R)
  BY <1>2, <1>3 DEF IsOpen, Open
<1>5. Honest(R)
  BY <1>2 DEF Honest, IsOpen, Open
<1>6. R.rows = r.rows /\ R.batch = r.batch
  BY DEF IsOpen, Open
<1>7. \A i \in r.rows : stored'[r.batch][i] > 0
  <2>1. \A i \in r.rows : stored'[r.batch][i] = stored[r.batch][i] + 1
    BY Recorded DEF Commit
  <2>2. \A i \in r.rows : stored[r.batch][i] \in Nat
    BY DEF Types, IsOpen, Open
  <2> QED
    BY <2>1, <2>2
<1> QED
  BY <1>1, <1>4, <1>5, <1>6, <1>7 DEF Kept

\* A request that fails, and one its client gives up on.
LEMMA FailedIsOpen ==
    ASSUME NEW q \in Requests, Types, IsOpen(req[q]), Honest(req[q]),
           Fail(q) \/ CommitUnacknowledged(q)
    PROVE  IsOpen(req'[q]) /\ Honest(req'[q]) /\ req'[q].ok = FALSE
<1> DEFINE r == req[q]
           R == [r EXCEPT !.pc = "answered", !.rows = {}]
           S == [r EXCEPT !.pc = "answered"]
<1>1. req'[q] \in {R, S}
  BY DEF Fail, CommitUnacknowledged, Types
<1>2. r.ok = FALSE
  BY DEF Fail, CommitUnacknowledged, Record, Honest, IsOpen, Open
<1>3. IsOpen(R) /\ IsOpen(S)
  BY DEF IsOpen, Open
<1>4. Honest(R) /\ Honest(S)
  BY <1>2 DEF Honest, IsOpen, Open
<1> QED
  BY <1>1, <1>2, <1>3, <1>4 DEF IsOpen, Open

LEMMA GivenUpIsOpen ==
    ASSUME NEW q \in Requests, Types, IsOpen(req[q]), Honest(req[q]), GiveUp(q)
    PROVE  /\ IsOpen(req'[q]) /\ Honest(req'[q])
           /\ req'[q].ok = req[q].ok /\ req'[q].rows = req[q].rows /\ req'[q].batch = req[q].batch
<1> DEFINE R == [req[q] EXCEPT !.waited = FALSE]
<1>1. req'[q] = R
  BY DEF GiveUp, Types
<1>2. IsOpen(R)
  BY DEF IsOpen, Open
<1>3. Honest(R)
  BY DEF Honest, IsOpen, Open
<1> QED
  BY <1>1, <1>2, <1>3 DEF IsOpen, Open

-----------------------------------------------------------------------------
(* The invariant is inductive.                                             *)

\* A step that stores something is the commit of one request.
LEMMA StoredStep ==
    ASSUME [Next]_vars, stored' # stored
    PROVE  \E q \in Requests : Record(q) /\ (Commit(q) \/ CommitUnacknowledged(q))
BY DEF Next, Serve, vars, Send, Lookup, InsertChunk, InsertOne, Commit, CommitUnacknowledged,
       Fail, Answer, GiveUp, Crash, CreateTenant, DeleteTenant

LEMMA StoredGrows ==
    ASSUME IInv, [Next]_vars, NEW b \in Batches, NEW i \in Records(b)
    PROVE  stored'[b][i] >= stored[b][i] /\ stored[b][i] \in Nat /\ stored'[b][i] \in Nat
<1>1. stored[b][i] \in Nat
  BY DEF IInv, Types
<1>2. CASE stored' = stored
  BY <1>1, <1>2
<1>3. CASE stored' # stored
  <2>1. PICK q \in Requests : Record(q)
    BY <1>3, StoredStep
  <2>2. IsOpen(req[q]) /\ Types
    BY <2>1 DEF Record, Free, IInv
  <2>3. stored'[b][i] = stored[b][i] + 1 \/ stored'[b][i] = stored[b][i]
    BY <2>1, <2>2, Recorded
  <2> QED
    BY <1>1, <2>3
<1> QED
  BY <1>2, <1>3

\* What was stored for an answered request still is.
LEMMA KeptStays ==
    ASSUME IInv, [Next]_vars, NEW x \in Requests, req[x] # Free,
           req'[x].batch = req[x].batch, req'[x].rows = req[x].rows, req'[x].ok = req[x].ok
    PROVE  Kept(req[x])'
<1>1. IsOpen(req[x]) /\ Kept(req[x])
  BY DEF IInv
<1>2. req[x].batch \in Batches /\ req[x].rows \subseteq Records(req[x].batch)
  BY <1>1 DEF IsOpen, Open
<1>3. ASSUME req[x].ok, NEW i \in req[x].rows PROVE stored'[req[x].batch][i] > 0
  <2>1. stored[req[x].batch][i] > 0
    BY <1>1, <1>3 DEF Kept
  <2> QED
    BY <1>2, <2>1, StoredGrows
<1> QED
  BY <1>3 DEF Kept

LEMMA ReqStep ==
    ASSUME IInv, [Next]_vars, NEW x \in Requests, req'[x] # Free
    PROVE  IsOpen(req'[x]) /\ Honest(req'[x]) /\ Kept(req[x])'
<1> DEFINE Goal == IsOpen(req'[x]) /\ Honest(req'[x]) /\ Kept(req[x])'
<1>t. Types /\ req \in [Requests -> {req[q] : q \in Requests}]
  BY DEF IInv, Types
<1>o. ASSUME NEW q \in Requests, req[q].pc # "free" PROVE IsOpen(req[q]) /\ Honest(req[q])
  BY <1>o DEF IInv, Free
<1>n. ASSUME IsOpen(req'[x]), Honest(req'[x]), req'[x].ok = FALSE PROVE Goal
  BY <1>n DEF Kept
\* A request the step leaves alone.
<1>s. ASSUME req'[x] = req[x] PROVE Goal
  <2>1. req[x] # Free
    BY <1>s
  <2>2. Kept(req[x])'
    BY <1>s, <2>1, KeptStays
  <2> QED
    BY <1>s, <2>1, <2>2 DEF IInv
<1> HIDE DEF Goal
<1>1. ASSUME NEW b \in Batches, NEW q \in Requests, Send(b, q) PROVE Goal
  <2>1. CASE x = q
    <3>1. IsOpen(req'[x]) /\ Honest(req'[x])
      BY <1>1, <1>t, <2>1, SentIsOpen
    <3>2. req'[x].rows = {}
      BY <1>1, <1>t, <2>1 DEF Send
    <3> QED
      BY <3>1, <3>2 DEF Goal, Kept
  <2>2. CASE x # q
    BY <1>1, <1>s, <1>t, <2>2 DEF Send
  <2> QED
    BY <2>1, <2>2
<1>2. ASSUME NEW q \in Requests, Lookup(q) PROVE Goal
  <2>1. req[q].pc # "free"
    BY <1>2 DEF Lookup
  <2>2. CASE x = q
    BY <1>2, <1>n, <1>o, <1>t, <2>1, <2>2, LookedUpIsOpen
  <2>3. CASE x # q
    BY <1>2, <1>s, <1>t, <2>3 DEF Lookup
  <2> QED
    BY <2>2, <2>3
<1>3. ASSUME NEW q \in Requests, NEW t \in Tenants, InsertChunk(q, t) PROVE Goal
  <2>1. req[q].pc # "free"
    BY <1>3 DEF InsertChunk
  <2>2. CASE x = q
    BY <1>3, <1>n, <1>o, <1>t, <2>1, <2>2, ChunkInsertedIsOpen
  <2>3. CASE x # q
    BY <1>3, <1>s, <1>t, <2>3 DEF InsertChunk
  <2> QED
    BY <2>2, <2>3
<1>4. ASSUME NEW q \in Requests, NEW i, InsertOne(q, i) PROVE Goal
  <2>1. req[q].pc # "free"
    BY <1>4 DEF InsertOne
  <2>2. CASE x = q
    BY <1>4, <1>n, <1>o, <1>t, <2>1, <2>2, OneInsertedIsOpen
  <2>3. CASE x # q
    BY <1>4, <1>s, <1>t, <2>3 DEF InsertOne
  <2> QED
    BY <2>2, <2>3
<1>5. ASSUME NEW q \in Requests, Commit(q) PROVE Goal
  <2>1. req[q].pc # "free"
    BY <1>5 DEF Commit, Record
  <2>2. CASE x = q
    BY <1>5, <1>o, <1>t, <2>1, <2>2, CommittedIsOpen DEF Goal
  <2>3. CASE x # q
    BY <1>5, <1>s, <1>t, <2>3 DEF Commit
  <2> QED
    BY <2>2, <2>3
<1>6. ASSUME NEW q \in Requests, Fail(q) \/ CommitUnacknowledged(q) PROVE Goal
  <2>1. req[q].pc # "free"
    BY <1>6 DEF Fail, CommitUnacknowledged, Record
  <2>2. CASE x = q
    BY <1>6, <1>n, <1>o, <1>t, <2>1, <2>2, FailedIsOpen
  <2>3. CASE x # q
    BY <1>6, <1>s, <1>t, <2>3 DEF Fail, CommitUnacknowledged
  <2> QED
    BY <2>2, <2>3
<1>7. ASSUME NEW q \in Requests, Answer(q) PROVE Goal
  BY <1>7, <1>s, <1>t DEF Answer
<1>8. ASSUME NEW q \in Requests, GiveUp(q) PROVE Goal
  <2>1. IsOpen(req[q]) /\ Honest(req[q])
    BY <1>8 DEF GiveUp, IInv
  <2>2. CASE x = q
    <3>1. /\ IsOpen(req'[x]) /\ Honest(req'[x])
          /\ req'[x].ok = req[x].ok /\ req'[x].rows = req[x].rows /\ req'[x].batch = req[x].batch
      BY <1>8, <1>t, <2>1, <2>2, GivenUpIsOpen
    <3>2. req[x] # Free
      BY <1>8, <2>2 DEF GiveUp
    <3> QED
      BY <3>1, <3>2, KeptStays DEF Goal
  <2>3. CASE x # q
    BY <1>8, <1>s, <1>t, <2>3 DEF GiveUp
  <2> QED
    BY <2>2, <2>3
<1>9. ASSUME Crash PROVE Goal
  BY <1>9 DEF Crash
<1>10. ASSUME req' = req PROVE Goal
  <2>1. req'[x] = req[x]
    BY <1>10
  <2> QED
    BY <1>s, <2>1
<1>11. ASSUME NEW q \in Requests, Serve(q) PROVE Goal
  BY <1>2, <1>3, <1>4, <1>5, <1>7, <1>11 DEF Serve
<1>12. ASSUME NEW t \in Tenants, CreateTenant(t) \/ DeleteTenant(t) PROVE req' = req
  BY <1>12 DEF CreateTenant, DeleteTenant
<1>13. ASSUME Next PROVE Goal
  BY <1>1, <1>6, <1>8, <1>9, <1>10, <1>11, <1>12, <1>13 DEF Next
<1>14. ASSUME UNCHANGED vars PROVE Goal
  BY <1>10, <1>14 DEF vars
<1> QED
  BY <1>13, <1>14 DEF Goal

LEMMA DoneStep == ASSUME IInv, [Next]_vars PROVE DoneIsStored'
<1> SUFFICES ASSUME NEW b \in Batches, sink'[b] = "done", NEW i \in Records(b),
                    Content[b][i].class = "good", Content[b][i].tenant \in Stable
             PROVE  stored'[b][i] > 0
  BY DEF DoneIsStored
<1>1. CASE sink[b] = "done"
  <2>1. stored[b][i] > 0
    BY <1>1 DEF IInv, DoneIsStored
  <2> QED
    BY <2>1, StoredGrows
<1>2. CASE sink[b] # "done"
  <2>1. sink \in [Batches -> {"buffered", "sent", "done"}]
    BY DEF IInv, Types
  <2>2. PICK q \in Requests : Answer(q) /\ req[q].batch = b /\ req[q].ok
    BY <1>2, <2>1 DEF Next, Serve, vars, Send, Lookup, InsertChunk, InsertOne, Commit,
       CommitUnacknowledged, Fail, Answer, GiveUp, Crash, CreateTenant, DeleteTenant
  <2>3. IsOpen(req[q]) /\ Honest(req[q]) /\ Kept(req[q])
    BY <2>2 DEF Answer, Free, IInv
  <2>4. i \in req[q].rows
    BY <2>2, <2>3 DEF Honest
  <2>5. stored[b][i] > 0
    BY <2>2, <2>3, <2>4 DEF Kept
  <2> QED
    BY <2>5, StoredGrows
<1> QED
  BY <1>1, <1>2

LEMMA IInvStep == IInv /\ [Next]_vars => IInv'
<1> SUFFICES ASSUME IInv, [Next]_vars PROVE IInv'
  OBVIOUS
<1>1. Types'
  BY TypesStep DEF IInv
<1>2. \A x \in Requests : req'[x] # Free => IsOpen(req'[x]) /\ Honest(req'[x]) /\ Kept(req[x])'
  BY ReqStep
<1>3. DoneIsStored'
  BY DoneStep
<1>4. (\A x \in Requests : req[x] # Free => IsOpen(req[x]) /\ Honest(req[x]) /\ Kept(req[x]))'
  BY <1>2
<1> QED
  BY <1>1, <1>3, <1>4 DEF IInv

LEMMA Invariance == Spec => []IInv
<1> QED
  BY IInvInit, IInvStep, PTL DEF Spec

-----------------------------------------------------------------------------
(* The theorems.                                                           *)

\* The variables stay in their domains, and each record of an open request is
\* in at most one place, and until it is answered in exactly one: still to be
\* inserted (EventRepo.Insert), a row, or rejected.
THEOREM TypeCorrect == Spec => []TypeOK
<1>1. IInv => TypeOK
  <2> SUFFICES ASSUME IInv PROVE TypeOK
    OBVIOUS
  <2>1. ASSUME NEW q \in Requests, req[q] # Free
        PROVE \E b \in Batches : /\ req[q] \in Open(b)
                                 /\ req[q].todo \cap req[q].single = {}
                                 /\ (req[q].todo \cup req[q].single) \cap (req[q].rows \cup req[q].rejected) = {}
                                 /\ req[q].rows \cap req[q].rejected = {}
                                 /\ req[q].pc # "answered" =>
                                     req[q].todo \cup req[q].single \cup req[q].rows \cup req[q].rejected
                                        = Records(b)
    BY <2>1 DEF IInv, IsOpen, Honest
  <2> QED
    BY <2>1 DEF TypeOK, IInv, Types
<1> QED
  BY <1>1, Invariance, PTL

\* A 200 from the ingest handler accounts for every record of the batch, as
\* stored or as rejected, and rejects none that could be stored.
THEOREM AnswersAlwaysHonest == Spec => []AnswerHonest
<1>1. IInv => AnswerHonest
  BY DEF IInv, AnswerHonest, IsOpen, Honest, Free
<1> QED
  BY <1>1, Invariance, PTL

\* When Vector is done with a batch, its good records are in the events table.
THEOREM DoneAlwaysStored == Spec => []DoneIsStored
<1>1. IInv => DoneIsStored
  BY DEF IInv
<1> QED
  BY <1>1, Invariance, PTL

\* EventRepo.Insert stores a batch in one step: a row of each good record, and
\* of no bad one.
LEMMA StoredWhole ==
    ASSUME IInv, NEW q \in Requests, Record(q)
    PROVE  /\ IsOpen(req[q]) /\ req[q].rows \subseteq Good(req[q].batch)
           /\ \A i \in Good(req[q].batch) : Content[req[q].batch][i].tenant \in Stable => i \in req[q].rows
<1> DEFINE b == req[q].batch
<1>1. IsOpen(req[q]) /\ Honest(req[q])
  BY DEF Record, Free, IInv
<1>2. b \in Batches /\ req[q].rows \subseteq Records(b)
  BY <1>1 DEF IsOpen, Open
<1>3. ASSUME NEW i \in req[q].rows PROVE i \in Good(b)
  <2>1. Content[b][i].class # "unstorable" /\ i \notin Bad(b)
    BY <1>1 DEF Honest, IsOpen
  <2> QED
    BY <1>2, <2>1, RecordClasses DEF Bad, Classes, Good
<1>4. ASSUME NEW i \in Good(b), Content[b][i].tenant \in Stable PROVE i \in req[q].rows
  BY <1>1, <1>4 DEF Honest, Record, Good
<1> QED
  BY <1>1, <1>3, <1>4

-----------------------------------------------------------------------------
(* Copies: each row more than the first is one Vector could not know of.   *)

\* Request q may still store a row of each record of b, or it has failed and
\* Vector is about to learn so.
Pends(q, b) == req[q].pc \in {"received", "inserting"} /\ req[q].batch = b
Fails(q, b) == req[q].pc = "answered" /\ req[q].batch = b /\ req[q].waited /\ ~req[q].ok

Pending(b) == {q \in Requests : Pends(q, b)}
Failed(b) == IF \E q \in Requests : Fails(q, b) THEN 1 ELSE 0
Out(b) == IF sink[b] = "buffered" THEN 0 ELSE 1

\* Vector waits for one request of a batch at a time, and the rows of a record
\* and the requests that may add one are no more than the times it was sent
\* without learning that it had failed.
Waiting ==
    /\ \A q \in Requests : req[q] # Free /\ req[q].waited => sink[req[q].batch] = "sent"
    /\ \A p, q \in Requests :
        req[p] # Free /\ req[q] # Free /\ req[p].batch = req[q].batch /\ req[p].waited /\ req[q].waited => p = q
Counted(b) ==
    /\ IsFiniteSet(Pending(b))
    /\ \A i \in Records(b) : stored[b][i] + Cardinality(Pending(b)) + Failed(b) <= unsure[b] + Out(b)
CopiesInv == Waiting /\ \A b \in Batches : Counted(b)

\* What a step of one request does to the set of those that are pending.
LEMMA PendingChange ==
    ASSUME NEW q \in Requests, \A p \in Requests \ {q} : req'[p] = req[p],
           NEW b \in Batches, IsFiniteSet(Pending(b))
    PROVE  /\ IsFiniteSet(Pending(b)') /\ Cardinality(Pending(b)) \in Nat /\ Cardinality(Pending(b)') \in Nat
           /\ Pends(q, b) /\ Pends(q, b)' => Cardinality(Pending(b)') = Cardinality(Pending(b))
           /\ ~Pends(q, b) /\ ~Pends(q, b)' => Cardinality(Pending(b)') = Cardinality(Pending(b))
           /\ Pends(q, b) /\ ~Pends(q, b)' => Cardinality(Pending(b)') = Cardinality(Pending(b)) - 1
           /\ ~Pends(q, b) /\ Pends(q, b)' => Cardinality(Pending(b)') = Cardinality(Pending(b)) + 1
<1>1. \A p \in Requests \ {q} : Pends(p, b)' <=> Pends(p, b)
  BY DEF Pends
<1>2. CASE Pends(q, b)'
  <2>1. Pending(b)' = Pending(b) \cup {q}
    BY <1>1, <1>2 DEF Pending
  <2>2. q \in Pending(b) <=> Pends(q, b)
    BY DEF Pending
  <2> QED
    BY <1>2, <2>1, <2>2, FS_AddElement, FS_CardinalityType
<1>3. CASE ~Pends(q, b)'
  <2>1. Pending(b)' = Pending(b) \ {q}
    BY <1>1, <1>3 DEF Pending
  <2>2. q \in Pending(b) <=> Pends(q, b)
    BY DEF Pending
  <2> QED
    BY <1>3, <2>1, <2>2, FS_RemoveElement, FS_CardinalityType
<1> QED
  BY <1>2, <1>3

\* A step of one request that still says so much of its batch keeps Counted.
\* More is what the step adds to the rows of a record.
LEMMA CountedStep ==
    ASSUME IInv, IInv', CopiesInv, NEW q \in Requests, \A p \in Requests \ {q} : req'[p] = req[p],
           NEW b \in Batches, NEW more \in {0, 1},
           \A i \in Records(b) : stored'[b][i] <= stored[b][i] + more,
           \/ /\ more = 0 /\ unsure'[b] + Out(b)' = unsure[b] + Out(b) /\ Failed(b)' <= Failed(b)
              /\ Pends(q, b)' => Pends(q, b)
           \/ /\ more = 0 /\ unsure'[b] + Out(b)' = unsure[b] + Out(b) + 1 /\ Failed(b)' <= Failed(b)
           \/ /\ unsure'[b] + Out(b)' = unsure[b] + Out(b) /\ Failed(b)' + more <= Failed(b) + 1
              /\ Pends(q, b) /\ ~Pends(q, b)'
           \/ /\ unsure'[b] + Out(b)' = unsure[b] + Out(b) + 1
              /\ Pends(q, b) /\ ~Pends(q, b)'
           \/ /\ more = 0 /\ unsure'[b] + Out(b)' = unsure[b] + Out(b) - 1 /\ Failed(b)' = 0 /\ Failed(b) = 1
              /\ ~Pends(q, b) /\ ~Pends(q, b)'
    PROVE  Counted(b)'
<1>1. IsFiniteSet(Pending(b)) /\ \A i \in Records(b) :
            stored[b][i] + Cardinality(Pending(b)) + Failed(b) <= unsure[b] + Out(b)
  BY DEF CopiesInv, Counted
<1>2. /\ IsFiniteSet(Pending(b)') /\ Cardinality(Pending(b)) \in Nat /\ Cardinality(Pending(b)') \in Nat
      /\ Pends(q, b) /\ Pends(q, b)' => Cardinality(Pending(b)') = Cardinality(Pending(b))
      /\ ~Pends(q, b) /\ ~Pends(q, b)' => Cardinality(Pending(b)') = Cardinality(Pending(b))
      /\ Pends(q, b) /\ ~Pends(q, b)' => Cardinality(Pending(b)') = Cardinality(Pending(b)) - 1
      /\ ~Pends(q, b) /\ Pends(q, b)' => Cardinality(Pending(b)') = Cardinality(Pending(b)) + 1
  BY <1>1, PendingChange
<1>3. /\ Failed(b) \in {0, 1} /\ Failed(b)' \in {0, 1} /\ Out(b) \in {0, 1} /\ Out(b)' \in {0, 1}
      /\ unsure[b] \in Nat /\ unsure'[b] \in Nat
      /\ \A i \in Records(b) : stored[b][i] \in Nat /\ stored'[b][i] \in Nat
  BY DEF Failed, Out, IInv, Types
<1>4. ASSUME NEW i \in Records(b)
      PROVE  stored'[b][i] + Cardinality(Pending(b)') + Failed(b)' <= unsure'[b] + Out(b)'
  <2> DEFINE s == stored[b][i]
             t == stored'[b][i]
             c == Cardinality(Pending(b))
             d == Cardinality(Pending(b)')
  <2>1. s \in Nat /\ t \in Nat /\ t <= s + more /\ c \in Nat /\ d \in Nat
        /\ s + c + Failed(b) <= unsure[b] + Out(b)
    BY <1>1, <1>2, <1>3
  <2> HIDE DEF s, t, c, d
  <2>2. t + d + Failed(b)' <= unsure'[b] + Out(b)'
    BY <1>2, <1>3, <2>1 DEF c, d
  <2> QED
    BY <2>2 DEF t, d
<1> QED
  BY <1>2, <1>4 DEF Counted

\* What the requests that have failed are after a step of one of them.
LEMMA FailedChange ==
    ASSUME NEW q \in Requests, \A p \in Requests \ {q} : req'[p] = req[p], NEW b
    PROVE  /\ Failed(b) \in {0, 1} /\ Failed(b)' \in {0, 1}
           /\ (Fails(q, b)' => Fails(q, b)) => Failed(b)' <= Failed(b)
           /\ Fails(q, b) => Failed(b) = 1
           /\ ~Fails(q, b)' /\ (\A p \in Requests \ {q} : ~Fails(p, b)) => Failed(b)' = 0
<1>1. \A p \in Requests \ {q} : Fails(p, b)' <=> Fails(p, b)
  BY DEF Fails
<1>2. ASSUME Fails(q, b)' => Fails(q, b), \E p \in Requests : Fails(p, b)' PROVE \E p \in Requests : Fails(p, b)
  BY <1>1, <1>2
<1>3. (Fails(q, b)' => Fails(q, b)) => Failed(b)' <= Failed(b)
  BY <1>2 DEF Failed
<1>4. Fails(q, b) => Failed(b) = 1
  BY DEF Failed
<1>5. ~Fails(q, b)' /\ (\A p \in Requests \ {q} : ~Fails(p, b)) => Failed(b)' = 0
  BY <1>1 DEF Failed
<1> QED
  BY <1>3, <1>4, <1>5 DEF Failed

\* A step of one request keeps Waiting if the request does not begin to wait.
LEMMA WaitingStep ==
    ASSUME IInv, Waiting, NEW q \in Requests, \A p \in Requests \ {q} : req'[p] = req[p],
           \/ req'[q] = Free
           \/ req[q] # Free /\ req'[q].batch = req[q].batch /\ (req'[q].waited => req[q].waited),
           \/ UNCHANGED sink
           \/ /\ req[q] # Free /\ req[q].waited /\ \A b \in Batches : b # req[q].batch => sink'[b] = sink[b]
              /\ req'[q] = Free \/ ~req'[q].waited
    PROVE  Waiting'
<1>1. \A p \in Requests : req'[p] # Free /\ req'[p].waited =>
        req[p] # Free /\ req[p].waited /\ req'[p].batch = req[p].batch
  OBVIOUS
<1>2. \A p \in Requests : req[p] # Free => req[p].batch \in Batches
  BY DEF IInv, IsOpen
<1>3. ASSUME NEW p \in Requests, req'[p] # Free, req'[p].waited PROVE sink'[req'[p].batch] = "sent"
  <2>1. sink[req[p].batch] = "sent" /\ req[p] # Free /\ req[p].waited /\ req'[p].batch = req[p].batch
    BY <1>1, <1>3 DEF Waiting
  <2>2. CASE UNCHANGED sink
    BY <2>1, <2>2
  <2>3. CASE /\ req[q] # Free /\ req[q].waited /\ \A b \in Batches : b # req[q].batch => sink'[b] = sink[b]
             /\ req'[q] = Free \/ ~req'[q].waited
    <3>1. p # q
      BY <1>3, <2>3
    <3>2. req[p].batch # req[q].batch
      BY <2>1, <2>3, <3>1 DEF Waiting
    <3> QED
      BY <1>2, <2>1, <2>3, <3>2
  <2> QED
    BY <2>2, <2>3
<1> QED
  BY <1>1, <1>3 DEF Waiting

\* What the steps of a request do to what is counted.
LEMMA SendCounts ==
    ASSUME IInv, NEW b \in Batches, NEW q \in Requests, Send(b, q)
    PROVE  /\ req[q] = Free /\ sink[b] = "buffered" /\ sink' = [sink EXCEPT ![b] = "sent"]
           /\ UNCHANGED <<stored, unsure>> /\ \A p \in Requests \ {q} : req'[p] = req[p]
           /\ req'[q].batch = b /\ req'[q].waited /\ (req'[q].pc = "answered" => req'[q].ok)
           /\ req'[q] # Free
<1> DEFINE new == [pc |-> IF Records(b) \ Bad(b) = {} THEN "answered" ELSE "received", batch |-> b, waited |-> TRUE,
                   todo |-> Records(b) \ Bad(b), single |-> {}, rows |-> {}, rejected |-> Bad(b),
                   reported |-> Reported(b, Bad(b)), ok |-> Records(b) \ Bad(b) = {}]
<1>1. req' = [req EXCEPT ![q] = new]
  BY DEF Send
<1>2. req'[q] = new /\ \A p \in Requests \ {q} : req'[p] = req[p]
  BY <1>1 DEF IInv, Types
<1>3. new.batch = b /\ new.waited = TRUE /\ new.pc # "free"
      /\ (new.pc = "answered" => Records(b) \ Bad(b) = {}) /\ new.ok = (Records(b) \ Bad(b) = {})
  OBVIOUS
<1>4. new # Free
  BY <1>3 DEF Free
<1> HIDE DEF new
<1> QED
  BY <1>2, <1>3, <1>4 DEF Send

LEMMA InsertCounts ==
    ASSUME IInv, NEW q \in Requests,
           Lookup(q) \/ (\E t \in Tenants : InsertChunk(q, t)) \/ \E i \in req[q].single : InsertOne(q, i)
    PROVE  /\ UNCHANGED <<stored, sink, unsure>> /\ \A p \in Requests \ {q} : req'[p] = req[p]
           /\ req[q] # Free /\ req[q].pc \in {"received", "inserting"} /\ req'[q].pc \in {"received", "inserting"}
           /\ req'[q].batch = req[q].batch /\ req'[q].waited = req[q].waited
<1>1. UNCHANGED <<stored, sink, unsure>> /\ req[q].pc \in {"received", "inserting"}
  BY DEF Lookup, InsertChunk, InsertOne
<1>2. IsOpen(req[q]) /\ Honest(req[q]) /\ req[q] # Free
  BY <1>1 DEF IInv, Free
<1>3. \E x : req' = [req EXCEPT ![q] = x]
  BY DEF Lookup, InsertChunk, InsertOne
<1>4. \A p \in Requests \ {q} : req'[p] = req[p]
  BY <1>3 DEF IInv, Types
<1>5. req'[q].batch = req[q].batch /\ req'[q].waited = req[q].waited /\ req'[q].pc = "inserting"
  <2> DEFINE r == req[q]
  <2>1. r \in Open(r.batch)
    BY <1>2 DEF IsOpen
  <2>2. CASE Lookup(q)
    <3> DEFINE unknown == {i \in r.todo : Content[r.batch][i].tenant \notin tenants}
    <3>1. req'[q] = [r EXCEPT !.pc = "inserting", !.todo = @ \ unknown, !.rejected = @ \cup unknown]
      BY <2>2 DEF Lookup, IInv, Types
    <3> HIDE DEF unknown
    <3> QED
      BY <2>1, <3>1 DEF Open
  <2>3. ASSUME NEW t \in Tenants, InsertChunk(q, t)
        PROVE  req'[q].batch = r.batch /\ req'[q].waited = r.waited /\ req'[q].pc = "inserting"
    <3> DEFINE chunk == Firsts(r.todo \cap Of(r.batch, t), ChunkSize)
    <3>1. /\ r.pc = "inserting"
          /\ \/ req'[q] = [r EXCEPT !.todo = @ \ chunk, !.rows = @ \cup chunk]
             \/ req'[q] = [r EXCEPT !.todo = @ \ chunk, !.single = chunk]
      BY <2>3 DEF InsertChunk, IInv, Types
    <3> HIDE DEF chunk
    <3> QED
      BY <2>1, <3>1 DEF Open
  <2>4. ASSUME NEW i \in r.single, InsertOne(q, i)
        PROVE  req'[q].batch = r.batch /\ req'[q].waited = r.waited /\ req'[q].pc = "inserting"
    <3>1. /\ r.pc = "inserting"
          /\ \/ req'[q] = [r EXCEPT !.single = @ \ {i}, !.rows = @ \cup {i}]
             \/ req'[q] = [r EXCEPT !.single = @ \ {i}, !.rejected = @ \cup {i}]
      BY <2>4 DEF InsertOne, IInv, Types
    <3> QED
      BY <2>1, <3>1 DEF Open
  <2> QED
    BY <2>2, <2>3, <2>4
<1> QED
  BY <1>1, <1>2, <1>4, <1>5

LEMMA EndCounts ==
    ASSUME IInv, NEW q \in Requests, Commit(q) \/ CommitUnacknowledged(q) \/ Fail(q)
    PROVE  /\ \A p \in Requests \ {q} : req'[p] = req[p]
           /\ req[q] # Free /\ req[q].pc \in {"received", "inserting"} /\ req'[q].pc = "answered"
           /\ req[q].batch \in Batches
           /\ req'[q].batch = req[q].batch /\ req'[q].waited = req[q].waited /\ UNCHANGED sink
           /\ Commit(q) => req'[q].ok
<1>1. req[q].pc \in {"received", "inserting"} /\ UNCHANGED sink
  BY DEF Commit, CommitUnacknowledged, Fail, Record
<1>2. IsOpen(req[q]) /\ req[q] # Free
  BY <1>1 DEF IInv, Free
<1>3. req[q] \in Open(req[q].batch) /\ req[q].batch \in Batches
  BY <1>2 DEF IsOpen
<1>4. CASE Commit(q)
  <2> DEFINE rep == Reported(req[q].batch, req[q].rejected)
  <2>1. /\ req'[q] = [req[q] EXCEPT !.pc = "answered", !.ok = TRUE, !.reported = rep]
        /\ \A p \in Requests \ {q} : req'[p] = req[p]
    BY <1>4 DEF Commit, IInv, Types
  <2> HIDE DEF rep
  <2> QED
    BY <1>1, <1>2, <1>3, <2>1 DEF Open
<1>5. CASE CommitUnacknowledged(q) \/ Fail(q)
  <2>1. /\ req'[q] \in {[req[q] EXCEPT !.pc = "answered"], [req[q] EXCEPT !.pc = "answered", !.rows = {}]}
        /\ \A p \in Requests \ {q} : req'[p] = req[p]
    BY <1>5 DEF CommitUnacknowledged, Fail, IInv, Types
  <2>2. ~Commit(q) \/ req'[q].ok
    BY <1>4, <1>1, <1>2, <1>3 DEF Commit, IInv, Types, Open
  <2> QED
    BY <1>1, <1>2, <1>3, <2>1, <2>2 DEF Open
<1> QED
  BY <1>4, <1>5

LEMMA AnswerCounts ==
    ASSUME IInv, NEW q \in Requests, Answer(q)
    PROVE  /\ req[q].pc = "answered" /\ req[q] # Free /\ req'[q] = Free /\ req[q].batch \in Batches
           /\ \A p \in Requests \ {q} : req'[p] = req[p] /\ UNCHANGED <<stored, unsure>>
           /\ sink' = [sink EXCEPT ![req[q].batch] =
                  IF ~req[q].waited THEN @ ELSE IF req[q].ok THEN "done" ELSE "buffered"]
<1>1. req[q].pc = "answered" /\ req[q] # Free
  BY DEF Answer, Free
<1>2. req[q].batch \in Batches
  BY <1>1 DEF IInv, IsOpen
<1> QED
  BY <1>1, <1>2 DEF Answer, IInv, Types

LEMMA GiveUpCounts ==
    ASSUME IInv, NEW q \in Requests, GiveUp(q)
    PROVE  /\ req[q] # Free /\ req[q].waited /\ req[q].batch \in Batches
           /\ \A p \in Requests \ {q} : req'[p] = req[p]
           /\ req'[q].batch = req[q].batch /\ req'[q].pc = req[q].pc /\ req'[q].waited = FALSE
           /\ UNCHANGED stored /\ sink' = [sink EXCEPT ![req[q].batch] = "buffered"]
           /\ unsure' = [unsure EXCEPT ![req[q].batch] = @ + 1]
<1>1. req[q] # Free /\ req[q].waited
  BY DEF GiveUp
<1>2. IsOpen(req[q])
  BY <1>1 DEF IInv
<1>3. req[q] \in Open(req[q].batch) /\ req[q].batch \in Batches
  BY <1>2 DEF IsOpen
<1>4. req'[q] = [req[q] EXCEPT !.waited = FALSE] /\ \A p \in Requests \ {q} : req'[p] = req[p]
  BY DEF GiveUp, IInv, Types
<1> QED
  BY <1>1, <1>3, <1>4 DEF GiveUp, Open

\* A committed transaction adds one row at most to a record of its batch.
LEMMA RecordAdds ==
    ASSUME IInv, NEW q \in Requests, Record(q), NEW b \in Batches, NEW i \in Records(b)
    PROVE  /\ stored'[b][i] <= stored[b][i] + (IF b = req[q].batch THEN 1 ELSE 0)
<1>1. IsOpen(req[q])
  BY DEF Record, IInv, Free
<1>2. stored[b][i] \in Nat
  BY DEF IInv, Types
<1>3. stored'[b][i] = stored[b][i] \/ (b = req[q].batch /\ stored'[b][i] = stored[b][i] + 1)
  BY <1>1, Recorded DEF IInv
<1> QED
  BY <1>2, <1>3

LEMMA CopiesStep == IInv /\ CopiesInv /\ [Next]_vars => CopiesInv'
<1> SUFFICES ASSUME IInv, CopiesInv, [Next]_vars PROVE CopiesInv'
  OBVIOUS
<1>i. IInv' /\ Waiting
  BY IInvStep DEF CopiesInv
<1>s. \A b \in Batches : /\ sink[b] \in {"buffered", "sent", "done"} /\ unsure[b] \in Nat /\ unsure'[b] \in Nat
                         /\ Failed(b) \in {0, 1} /\ Failed(b)' \in {0, 1}
                         /\ Out(b) \in {0, 1} /\ Out(b)' \in {0, 1}
                         /\ \A i \in Records(b) : stored[b][i] \in Nat
  BY <1>i DEF IInv, Types, Failed, Out
<1>u. ASSUME UNCHANGED <<req, stored, sink, unsure>> PROVE CopiesInv'
  BY <1>u DEF CopiesInv, Waiting, Counted, Pending, Pends, Failed, Fails, Out
<1>1. ASSUME NEW b \in Batches, NEW q \in Requests, Send(b, q) PROVE CopiesInv'
  <2>1. /\ req[q] = Free /\ sink[b] = "buffered" /\ sink' = [sink EXCEPT ![b] = "sent"]
        /\ UNCHANGED <<stored, unsure>> /\ \A p \in Requests \ {q} : req'[p] = req[p]
        /\ req'[q].batch = b /\ req'[q].waited /\ (req'[q].pc = "answered" => req'[q].ok) /\ req'[q] # Free
    BY <1>1, SendCounts
  <2>2. \A p \in Requests : req[p] # Free /\ req[p].waited => req[p].batch # b /\ req[p].batch \in Batches
    BY <2>1, <1>i DEF Waiting, IInv, IsOpen
  <2>3. sink' \in [Batches -> {"buffered", "sent", "done"}] /\ sink'[b] = "sent"
        /\ \A c \in Batches : c # b => sink'[c] = sink[c]
    BY <2>1 DEF IInv, Types
  <2>4. Waiting'
    BY <2>1, <2>2, <2>3, <1>i DEF Waiting
  <2>5. ASSUME NEW c \in Batches PROVE Counted(c)'
    <3>1. ~Fails(q, c)'
      BY <2>1 DEF Fails
    <3>2. Failed(c)' <= Failed(c)
      BY <2>1, <3>1, FailedChange
    <3>3. \A i \in Records(c) : stored'[c][i] <= stored[c][i] + 0
      BY <2>1, <1>s
    <3>4. CASE c = b
      <4>1. Out(c) = 0 /\ Out(c)' = 1
        BY <2>1, <2>3, <3>4 DEF Out
      <4>2. unsure'[c] + Out(c)' = unsure[c] + Out(c) + 1
        BY <1>s, <2>1, <4>1
      <4> QED
        BY <1>i, <2>1, <3>2, <3>3, <4>2, CountedStep
    <3>5. CASE c # b
      <4>1. Out(c)' = Out(c) /\ ~Pends(q, c)'
        BY <2>1, <2>3, <3>5 DEF Out, Pends
      <4>2. unsure'[c] + Out(c)' = unsure[c] + Out(c)
        BY <1>s, <2>1, <4>1
      <4> QED
        BY <1>i, <2>1, <3>2, <3>3, <4>1, <4>2, CountedStep
    <3> QED
      BY <3>4, <3>5
  <2> QED
    BY <2>4, <2>5 DEF CopiesInv
<1>2. ASSUME NEW q \in Requests,
             Lookup(q) \/ (\E t \in Tenants : InsertChunk(q, t)) \/ \E i \in req[q].single : InsertOne(q, i)
      PROVE  CopiesInv'
  <2>1. /\ UNCHANGED <<stored, sink, unsure>> /\ \A p \in Requests \ {q} : req'[p] = req[p]
        /\ req[q] # Free /\ req[q].pc \in {"received", "inserting"} /\ req'[q].pc \in {"received", "inserting"}
        /\ req'[q].batch = req[q].batch /\ req'[q].waited = req[q].waited
    BY <1>2, InsertCounts
  <2>2. Waiting'
    BY <1>i, <2>1, WaitingStep
  <2>3. ASSUME NEW c \in Batches PROVE Counted(c)'
    <3>1. ~Fails(q, c)' /\ (Pends(q, c)' => Pends(q, c))
      BY <2>1 DEF Fails, Pends
    <3>2. Failed(c)' <= Failed(c)
      BY <2>1, <3>1, FailedChange
    <3>3. \A i \in Records(c) : stored'[c][i] <= stored[c][i] + 0
      BY <2>1, <1>s
    <3>4. unsure'[c] + Out(c)' = unsure[c] + Out(c)
      BY <2>1 DEF Out
    <3> QED
      BY <1>i, <2>1, <3>1, <3>2, <3>3, <3>4, CountedStep
  <2> QED
    BY <2>2, <2>3 DEF CopiesInv
<1>3. ASSUME NEW q \in Requests, Commit(q) \/ CommitUnacknowledged(q) \/ Fail(q) PROVE CopiesInv'
  <2>1. /\ \A p \in Requests \ {q} : req'[p] = req[p]
        /\ req[q] # Free /\ req[q].pc \in {"received", "inserting"} /\ req'[q].pc = "answered"
        /\ req[q].batch \in Batches
        /\ req'[q].batch = req[q].batch /\ req'[q].waited = req[q].waited /\ UNCHANGED sink
        /\ Commit(q) => req'[q].ok
    BY <1>3, EndCounts
  <2>2. Waiting'
    BY <1>i, <2>1, WaitingStep
  <2>3. ASSUME NEW c \in Batches PROVE Counted(c)'
    <3>1. Out(c)' = Out(c)
      BY <2>1 DEF Out
    <3>2. CASE c # req[q].batch
      <4>1. ~Fails(q, c)' /\ ~Pends(q, c)'
        BY <2>1, <3>2 DEF Fails, Pends
      <4>2. Failed(c)' <= Failed(c)
        BY <2>1, <4>1, FailedChange
      <4>3. \A i \in Records(c) : stored'[c][i] <= stored[c][i] + 0
        <5>1. CASE Record(q)
          BY <3>2, <5>1, RecordAdds
        <5>2. CASE Fail(q)
          BY <1>s, <5>2 DEF Fail
        <5> QED
          BY <1>3, <5>1, <5>2 DEF Commit, CommitUnacknowledged
      <4>4. unsure'[c] = unsure[c]
        BY <1>3, <2>1, <3>2 DEF Commit, CommitUnacknowledged, Fail, IInv, Types
      <4>5. unsure'[c] + Out(c)' = unsure[c] + Out(c)
        BY <3>1, <4>4
      <4> QED
        BY <1>i, <2>1, <4>1, <4>2, <4>3, <4>5, CountedStep
    <3>3. CASE c = req[q].batch
      <4>1. Pends(q, c) /\ ~Pends(q, c)'
        BY <2>1, <3>3 DEF Pends
      <4>2. CASE Commit(q)
        <5>1. ~Fails(q, c)'
          BY <2>1, <4>2 DEF Fails
        <5>2. Failed(c)' <= Failed(c)
          BY <2>1, <5>1, FailedChange
        <5>3. Failed(c)' + 1 <= Failed(c) + 1
          BY <1>s, <5>2
        <5>4. \A i \in Records(c) : stored'[c][i] <= stored[c][i] + 1
          BY <3>3, <4>2, RecordAdds DEF Commit
        <5>5. unsure'[c] + Out(c)' = unsure[c] + Out(c)
          BY <3>1, <4>2 DEF Commit
        <5> QED
          BY <1>i, <2>1, <4>1, <5>3, <5>4, <5>5, CountedStep
      <4>3. CASE CommitUnacknowledged(q)
        <5>1. \A i \in Records(c) : stored'[c][i] <= stored[c][i] + 1
          BY <3>3, <4>3, RecordAdds DEF CommitUnacknowledged
        <5>2. unsure'[c] = unsure[c] + 1
          BY <3>3, <4>3 DEF CommitUnacknowledged, IInv, Types
        <5>3. unsure'[c] + Out(c)' = unsure[c] + Out(c) + 1
          BY <1>s, <3>1, <5>2
        <5> QED
          BY <1>i, <2>1, <4>1, <5>1, <5>3, CountedStep
      <4>4. CASE Fail(q)
        <5>1. \A i \in Records(c) : stored'[c][i] <= stored[c][i] + 0
          BY <1>s, <4>4 DEF Fail
        <5>2. unsure'[c] + Out(c)' = unsure[c] + Out(c)
          BY <3>1, <4>4 DEF Fail
        <5>3. Failed(c)' + 0 <= Failed(c) + 1
          BY <1>s
        <5> QED
          BY <1>i, <2>1, <4>1, <5>1, <5>2, <5>3, CountedStep
      <4> QED
        BY <1>3, <4>2, <4>3, <4>4
    <3> QED
      BY <3>2, <3>3
  <2> QED
    BY <2>2, <2>3 DEF CopiesInv
<1>4. ASSUME NEW q \in Requests, Answer(q) PROVE CopiesInv'
  <2>1. /\ req[q].pc = "answered" /\ req[q] # Free /\ req'[q] = Free /\ req[q].batch \in Batches
        /\ \A p \in Requests \ {q} : req'[p] = req[p]
        /\ UNCHANGED <<stored, unsure>>
        /\ sink' = [sink EXCEPT ![req[q].batch] =
               IF ~req[q].waited THEN @ ELSE IF req[q].ok THEN "done" ELSE "buffered"]
    BY <1>4, AnswerCounts DEF Answer
  <2>2. /\ \A c \in Batches : c # req[q].batch => sink'[c] = sink[c]
        /\ ~req[q].waited => sink' = sink
        /\ req[q].waited => sink'[req[q].batch] = IF req[q].ok THEN "done" ELSE "buffered"
    BY <2>1 DEF IInv, Types
  <2>3. Waiting'
    <3>1. CASE req[q].waited
      BY <1>i, <2>1, <2>2, <3>1, WaitingStep
    <3>2. CASE ~req[q].waited
      BY <1>i, <2>1, <2>2, <3>2, WaitingStep
    <3> QED
      BY <3>1, <3>2
  <2>4. ASSUME NEW c \in Batches PROVE Counted(c)'
    <3>1. ~Fails(q, c)' /\ ~Pends(q, c)' /\ ~Pends(q, c)
      BY <2>1 DEF Fails, Pends, Free
    <3>2. Failed(c)' <= Failed(c)
      BY <2>1, <3>1, FailedChange
    <3>3. \A i \in Records(c) : stored'[c][i] <= stored[c][i] + 0
      BY <2>1, <1>s
    <3>4. CASE ~(c = req[q].batch /\ req[q].waited /\ ~req[q].ok)
      <4>1. Out(c)' = Out(c)
        <5>1. CASE c = req[q].batch /\ req[q].waited
          <6>1. sink[c] = "sent" /\ sink'[c] = "done"
            BY <1>i, <2>1, <2>2, <3>4, <5>1 DEF Waiting
          <6> QED
            BY <6>1 DEF Out
        <5>2. CASE ~(c = req[q].batch /\ req[q].waited)
          <6>1. sink'[c] = sink[c]
            BY <2>2, <5>2
          <6> QED
            BY <6>1 DEF Out
        <5> QED
          BY <5>1, <5>2
      <4>2. unsure'[c] + Out(c)' = unsure[c] + Out(c)
        BY <2>1, <4>1
      <4> QED
        BY <1>i, <2>1, <3>1, <3>2, <3>3, <4>2, CountedStep
    <3>5. CASE c = req[q].batch /\ req[q].waited /\ ~req[q].ok
      <4>1. Out(c) = 1 /\ Out(c)' = 0
        BY <1>i, <2>1, <2>2, <3>5 DEF Waiting, Out
      <4>2. Fails(q, c)
        BY <2>1, <3>5 DEF Fails
      <4>3. \A p \in Requests \ {q} : ~Fails(p, c)
        BY <1>i, <2>1, <3>5 DEF Waiting, Fails, Free
      <4>4. Failed(c) = 1 /\ Failed(c)' = 0
        BY <2>1, <3>1, <4>2, <4>3, FailedChange
      <4>5. unsure'[c] + Out(c)' = unsure[c] + Out(c) - 1
        BY <1>s, <2>1, <4>1
      <4> QED
        BY <1>i, <2>1, <3>1, <3>3, <4>4, <4>5, CountedStep
    <3> QED
      BY <3>4, <3>5
  <2> QED
    BY <2>3, <2>4 DEF CopiesInv
<1>5. ASSUME NEW q \in Requests, GiveUp(q) PROVE CopiesInv'
  <2>1. /\ req[q] # Free /\ req[q].waited /\ req[q].batch \in Batches
        /\ \A p \in Requests \ {q} : req'[p] = req[p]
        /\ req'[q].batch = req[q].batch /\ req'[q].pc = req[q].pc /\ req'[q].waited = FALSE
        /\ UNCHANGED stored /\ sink' = [sink EXCEPT ![req[q].batch] = "buffered"]
        /\ unsure' = [unsure EXCEPT ![req[q].batch] = @ + 1]
    BY <1>5, GiveUpCounts
  <2>2. /\ \A c \in Batches : c # req[q].batch => sink'[c] = sink[c] /\ unsure'[c] = unsure[c]
        /\ sink'[req[q].batch] = "buffered" /\ unsure'[req[q].batch] = unsure[req[q].batch] + 1
    BY <2>1 DEF IInv, Types
  <2>3. Waiting'
    BY <1>i, <2>1, <2>2, WaitingStep
  <2>4. ASSUME NEW c \in Batches PROVE Counted(c)'
    <3>1. ~Fails(q, c)' /\ (Pends(q, c)' => Pends(q, c))
      BY <2>1 DEF Fails, Pends
    <3>2. Failed(c)' <= Failed(c)
      BY <2>1, <3>1, FailedChange
    <3>3. \A i \in Records(c) : stored'[c][i] <= stored[c][i] + 0
      BY <2>1, <1>s
    <3>4. CASE c = req[q].batch
      <4>1. Out(c) = 1 /\ Out(c)' = 0
        BY <1>i, <2>1, <2>2, <3>4 DEF Waiting, Out
      <4>2. unsure'[c] + Out(c)' = unsure[c] + Out(c)
        BY <1>s, <2>2, <3>4, <4>1
      <4> QED
        BY <1>i, <2>1, <3>1, <3>2, <3>3, <4>2, CountedStep
    <3>5. CASE c # req[q].batch
      <4>1. unsure'[c] + Out(c)' = unsure[c] + Out(c)
        BY <2>2, <3>5 DEF Out
      <4> QED
        BY <1>i, <2>1, <3>1, <3>2, <3>3, <4>1, CountedStep
    <3> QED
      BY <3>4, <3>5
  <2> QED
    BY <2>3, <2>4 DEF CopiesInv
<1>6. CASE Crash
  <2>1. /\ \A q \in Requests : req'[q] = Free
        /\ \A c \in Batches : /\ sink'[c] = IF sink[c] = "sent" THEN "buffered" ELSE sink[c]
                              /\ unsure'[c] = unsure[c] + (IF sink[c] = "sent" THEN 1 ELSE 0)
        /\ UNCHANGED stored
    BY <1>6 DEF Crash
  <2>2. Waiting'
    BY <2>1 DEF Waiting
  <2>3. ASSUME NEW c \in Batches PROVE Counted(c)'
    <3>1. Pending(c)' = {} /\ Failed(c)' = 0
      BY <2>1 DEF Pending, Pends, Failed, Fails, Free
    <3>2. IsFiniteSet(Pending(c)') /\ Cardinality(Pending(c)') = 0
      BY <3>1, FS_EmptySet
    <3>3. unsure'[c] + Out(c)' = unsure[c] + Out(c)
      BY <1>s, <2>1 DEF Out
    <3>4. /\ IsFiniteSet(Pending(c)) /\ Cardinality(Pending(c)) \in Nat
          /\ \A i \in Records(c) : stored[c][i] + Cardinality(Pending(c)) + Failed(c) <= unsure[c] + Out(c)
      BY FS_CardinalityType DEF CopiesInv, Counted
    <3>5. \A i \in Records(c) : stored'[c][i] + 0 + 0 <= unsure'[c] + Out(c)'
      <4> SUFFICES ASSUME NEW i \in Records(c) PROVE stored[c][i] + 0 + 0 <= unsure[c] + Out(c)
        BY <2>1, <3>3
      <4>1. stored[c][i] \in Nat /\ Failed(c) \in {0, 1} /\ Out(c) \in {0, 1} /\ unsure[c] \in Nat
        BY <1>s
      <4>2. stored[c][i] + Cardinality(Pending(c)) + Failed(c) <= unsure[c] + Out(c)
        BY <3>4
      <4> DEFINE n == Cardinality(Pending(c))
      <4>3. n \in Nat
        BY <3>4
      <4> HIDE DEF n
      <4>4. stored[c][i] + n + Failed(c) <= unsure[c] + Out(c)
        BY <4>2 DEF n
      <4> QED
        BY <4>1, <4>3, <4>4
    <3> QED
      BY <3>1, <3>2, <3>5 DEF Counted
  <2> QED
    BY <2>2, <2>3 DEF CopiesInv
<1>7. ASSUME NEW t \in Tenants, CreateTenant(t) \/ DeleteTenant(t) PROVE CopiesInv'
  BY <1>7, <1>u DEF CreateTenant, DeleteTenant
<1>8. CASE UNCHANGED vars
  BY <1>8, <1>u DEF vars
<1> QED
  BY <1>1, <1>2, <1>3, <1>4, <1>5, <1>6, <1>7, <1>8 DEF Next, Serve

LEMMA CopiesInit == Init => CopiesInv
<1> SUFFICES ASSUME Init PROVE CopiesInv
  OBVIOUS
<1>1. \A q \in Requests : req[q] = Free
  BY DEF Init
<1>2. ASSUME NEW b \in Batches PROVE Counted(b)
  <2>1. Pending(b) = {} /\ Failed(b) = 0
    BY <1>1 DEF Pending, Pends, Failed, Fails, Free
  <2>2. IsFiniteSet(Pending(b)) /\ Cardinality(Pending(b)) = 0
    BY <2>1, FS_EmptySet
  <2>3. \A i \in Records(b) : stored[b][i] = 0 /\ unsure[b] = 0 /\ Out(b) = 0
    BY DEF Init, Out
  <2> QED
    BY <2>1, <2>2, <2>3 DEF Counted
<1> QED
  BY <1>1, <1>2 DEF CopiesInv, Waiting

LEMMA CopiesBound == IInv /\ CopiesInv => CopiesBounded
<1> SUFFICES ASSUME IInv, CopiesInv, NEW b \in Batches, NEW i \in Records(b)
             PROVE  stored[b][i] <= 1 + unsure[b]
  BY DEF CopiesBounded
<1> DEFINE n == Cardinality(Pending(b))
<1>1. n \in Nat /\ stored[b][i] + n + Failed(b) <= unsure[b] + Out(b)
  BY FS_CardinalityType DEF CopiesInv, Counted
<1> HIDE DEF n
<1>2. stored[b][i] \in Nat /\ unsure[b] \in Nat /\ Failed(b) \in {0, 1} /\ Out(b) \in {0, 1}
  BY DEF IInv, Types, Failed, Out
<1> QED
  BY <1>1, <1>2

\* However many requests of a batch fail, race or are abandoned, a record has
\* no more rows than one and the times Vector could not know of
\* (EventRepo.Insert in InTx, vector.yaml's retries).
THEOREM CopiesAlwaysBounded == Spec => []CopiesBounded
<1> QED
  BY CopiesInit, CopiesBound, CopiesStep, Invariance, PTL DEF Spec

-----------------------------------------------------------------------------
(* Ingest implements Delivery: a request stores its batch when it commits.  *)

LEMMA DeliveryInit == Init => Delivered!Init
<1> SUFFICES ASSUME Init PROVE Delivered!Init
  OBVIOUS
<1> DEFINE Items == [b \in Batches |-> Records(b)]
<1>1. stored = [b \in Batches |-> [i \in Items[b] |-> 0]]
  BY DEF Init
<1>2. {b \in Batches : sink[b] = "done"} = {}
  BY DEF Init
<1> QED
  BY <1>1, <1>2 DEF Init, Delivered!Init

LEMMA CommitStores ==
    ASSUME IInv, IInv', CopiesBounded', NEW q \in Requests, Commit(q) \/ CommitUnacknowledged(q)
    PROVE  req[q].batch \in Batches /\ req[q].rows \subseteq Good(req[q].batch)
           /\ Delivered!Store(req[q].batch, req[q].rows)
<1> DEFINE b == req[q].batch
           S == req[q].rows
           Items == [x \in Batches |-> Records(x)]
           Must == [x \in Batches |-> {i \in Good(x) : Content[x][i].tenant \in Stable}]
<1>1. Record(q)
  BY DEF Commit, CommitUnacknowledged
<1>2. IsOpen(req[q]) /\ S \subseteq Good(b) /\ Types
  BY <1>1, StoredWhole DEF IInv
<1>3. b \in Batches /\ S \subseteq Records(b)
  BY <1>2 DEF IsOpen, Open
<1>4. Must[b] \subseteq S
  BY <1>1, <1>3, StoredWhole
<1>5. unsure' \in {unsure, [unsure EXCEPT ![b] = @ + 1]} /\ sink' = sink
  BY DEF Commit, CommitUnacknowledged
<1>6. ASSUME NEW i \in S PROVE stored[b][i] <= unsure'[b]
  <2>1. stored'[b][i] = stored[b][i] + 1 /\ stored'[b][i] <= 1 + unsure'[b]
    BY <1>1, <1>2, <1>3, Recorded DEF CopiesBounded
  <2>2. stored[b][i] \in Nat /\ unsure'[b] \in Nat
    BY <1>2, <1>3 DEF IInv, Types
  <2> QED
    BY <2>1, <2>2
<1>7. stored' = [stored EXCEPT ![b] = [i \in Items[b] |-> IF i \in S THEN @[i] + 1 ELSE @[i]]]
  <2> DEFINE old == [i \in Records(b) |-> stored[b][i] + (IF i \in S THEN 1 ELSE 0)]
             new == [i \in Items[b] |-> IF i \in S THEN stored[b][i] + 1 ELSE stored[b][i]]
  <2>1. \A i \in Records(b) : stored[b][i] \in Nat
    BY <1>2, <1>3 DEF Types
  <2>2. Items[b] = Records(b)
    BY <1>3
  <2>3. \A i \in Records(b) : stored[b][i] + (IF i \in S THEN 1 ELSE 0)
                                = IF i \in S THEN stored[b][i] + 1 ELSE stored[b][i]
    BY <2>1
  <2>4. old = new
    BY <2>2, <2>3
  <2>5. stored' = [stored EXCEPT ![b] = old]
    BY <1>1 DEF Record
  <2> QED
    BY <2>4, <2>5
<1> HIDE DEF Items
<1> QED
  BY <1>2, <1>3, <1>4, <1>5, <1>6, <1>7 DEF Delivered!Store, Items

LEMMA AnswerConfirms ==
    ASSUME IInv, IInv', Waiting, NEW q \in Requests, Answer(q)
    PROVE  (\E b \in Batches : Delivered!Confirm(b)) \/ UNCHANGED Delivered!vars
<1> DEFINE b == req[q].batch
           Done == {x \in Batches : sink[x] = "done"}
<1>1. /\ req[q] # Free /\ b \in Batches /\ UNCHANGED <<stored, unsure>>
      /\ sink' = [sink EXCEPT ![b] = IF ~req[q].waited THEN @ ELSE IF req[q].ok THEN "done" ELSE "buffered"]
  BY AnswerCounts DEF Answer
<1>2. sink \in [Batches -> {"buffered", "sent", "done"}] /\ DoneIsStored'
  BY DEF IInv, Types
<1>3. CASE req[q].waited /\ req[q].ok
  <2>1. sink'[b] = "done" /\ Done' = Done \cup {b}
    BY <1>1, <1>2, <1>3
  <2>2. \A i \in Good(b) : Content[b][i].tenant \in Stable => stored[b][i] > 0
    BY <1>1, <1>2, <2>1 DEF DoneIsStored, Good
  <2> QED
    BY <1>1, <2>1, <2>2 DEF Delivered!Confirm
<1>4. CASE ~(req[q].waited /\ req[q].ok)
  <2>1. req[q].waited => sink[b] = "sent"
    BY <1>1 DEF Waiting
  <2>2. Done' = Done
    BY <1>1, <1>2, <1>4, <2>1
  <2> QED
    BY <1>1, <2>2 DEF Delivered!vars
<1> QED
  BY <1>3, <1>4

LEMMA DeliveryStep ==
    ASSUME IInv, IInv', CopiesInv, CopiesBounded', [Next]_vars
    PROVE  [Delivered!Next]_(Delivered!vars)
<1> DEFINE Done == {x \in Batches : sink[x] = "done"}
<1>t. Waiting /\ sink \in [Batches -> {"buffered", "sent", "done"}] /\ unsure \in [Batches -> Nat]
  BY DEF CopiesInv, IInv, Types
<1>u. ASSUME UNCHANGED <<stored, sink, unsure>> PROVE UNCHANGED Delivered!vars
  BY <1>u DEF Delivered!vars
<1>d. ASSUME NEW B \in SUBSET Batches, UNCHANGED stored, \A b \in B : sink[b] = "sent", Done' = Done,
             unsure' = [b \in Batches |-> IF b \in B THEN unsure[b] + 1 ELSE unsure[b]]
      PROVE  Delivered!Next
  <2>1. B \cap Done = {}
    BY <1>d
  <2>2. Delivered!Doubt(B)
    BY <1>d, <2>1 DEF Delivered!Doubt
  <2> QED
    BY <2>2 DEF Delivered!Next
<1>1. ASSUME NEW b \in Batches, NEW q \in Requests, Send(b, q) PROVE UNCHANGED Delivered!vars
  <2>1. UNCHANGED <<stored, unsure>> /\ sink[b] = "buffered" /\ sink' = [sink EXCEPT ![b] = "sent"]
    BY <1>1, SendCounts
  <2>2. Done' = Done
    BY <1>t, <2>1
  <2> QED
    BY <2>1, <2>2 DEF Delivered!vars
<1>2. ASSUME NEW q \in Requests,
             \/ Lookup(q) \/ \E t \in Tenants : InsertChunk(q, t)
             \/ \E i \in req[q].single : InsertOne(q, i)
             \/ Fail(q)
      PROVE  UNCHANGED Delivered!vars
  BY <1>2, <1>u DEF Lookup, InsertChunk, InsertOne, Fail
<1>3. ASSUME NEW q \in Requests, Commit(q) \/ CommitUnacknowledged(q) PROVE Delivered!Next
  BY <1>3, CommitStores DEF Delivered!Next
<1>4. ASSUME NEW q \in Requests, Answer(q) PROVE [Delivered!Next]_(Delivered!vars)
  <2>1. (\E b \in Batches : Delivered!Confirm(b)) \/ UNCHANGED Delivered!vars
    BY <1>t, <1>4, AnswerConfirms
  <2>2. CASE \E b \in Batches : Delivered!Confirm(b)
    <3>1. Delivered!Next
      BY <2>2 DEF Delivered!Next
    <3> QED
      BY <3>1
  <2> QED
    BY <2>1, <2>2
<1>5. ASSUME NEW q \in Requests, GiveUp(q) PROVE Delivered!Next
  <2> DEFINE b == req[q].batch
  <2>1. /\ b \in Batches /\ UNCHANGED stored /\ sink[b] = "sent"
        /\ sink' = [sink EXCEPT ![b] = "buffered"] /\ unsure' = [unsure EXCEPT ![b] = @ + 1]
    BY <1>t, <1>5, GiveUpCounts DEF Waiting
  <2>2. Done' = Done
    BY <1>t, <2>1
  <2>3. unsure' = [x \in Batches |-> IF x \in {b} THEN unsure[x] + 1 ELSE unsure[x]]
    BY <1>t, <2>1
  <2> DEFINE B == {b}
  <2>4. B \in SUBSET Batches /\ \A x \in B : sink[x] = "sent"
    BY <2>1
  <2>5. unsure' = [x \in Batches |-> IF x \in B THEN unsure[x] + 1 ELSE unsure[x]]
    BY <2>3
  <2> HIDE DEF B, b, Done
  <2> QED
    BY <1>d, <2>1, <2>2, <2>4, <2>5
<1>6. CASE Crash
  <2> DEFINE B == {b \in Batches : sink[b] = "sent"}
  <2>1. UNCHANGED stored /\ Done' = Done
    BY <1>6 DEF Crash
  <2>2. unsure' = [b \in Batches |-> IF b \in B THEN unsure[b] + 1 ELSE unsure[b]]
    BY <1>6, <1>t DEF Crash
  <2>3. B \in SUBSET Batches /\ \A b \in B : sink[b] = "sent"
    OBVIOUS
  <2> HIDE DEF B, Done
  <2> QED
    BY <1>d, <2>1, <2>2, <2>3
<1>7. ASSUME NEW t \in Tenants, CreateTenant(t) \/ DeleteTenant(t) PROVE UNCHANGED Delivered!vars
  BY <1>7, <1>u DEF CreateTenant, DeleteTenant
<1>8. CASE UNCHANGED vars
  BY <1>8, <1>u DEF vars
<1> QED
  BY <1>1, <1>2, <1>3, <1>4, <1>5, <1>6, <1>7, <1>8 DEF Next, Serve

\* The handler, its chunks, savepoints and retries are at-least-once delivery
\* of whole batches: each commit of EventRepo.Insert is one Store, each answer
\* of 200 that Vector gets a Confirm, and everything else a Doubt or nothing.
THEOREM IngestIsDelivery == Spec => ImplementsDelivery
<1>1. IInv /\ IInv' /\ CopiesInv /\ CopiesBounded' /\ [Next]_vars => [Delivered!Next]_(Delivered!vars)
  BY DeliveryStep
<1>2. Spec => [](IInv /\ CopiesInv /\ CopiesBounded)
  BY CopiesInit, CopiesStep, CopiesBound, Invariance, PTL DEF Spec
<1> QED
  BY <1>1, <1>2, DeliveryInit, PTL DEF Spec, ImplementsDelivery, Delivered!Spec

-----------------------------------------------------------------------------
(* The report: the first rejections, in order.                             *)

\* How many of S come before i.
Before(S, i) == {j \in S : j < i}

LEMMA BeforeFinite ==
    ASSUME NEW S \in SUBSET Int, IsFiniteSet(S), NEW i \in Int
    PROVE  /\ IsFiniteSet(Before(S, i)) /\ Cardinality(Before(S, i)) \in Nat
           /\ i \in S => Cardinality(Before(S, i)) < Cardinality(S)
<1>1. Before(S, i) \in SUBSET S
  BY DEF Before
<1>2. /\ IsFiniteSet(Before(S, i)) /\ Cardinality(Before(S, i)) <= Cardinality(S)
      /\ Cardinality(S) = Cardinality(Before(S, i)) => S = Before(S, i)
  BY <1>1, FS_Subset
<1>3. Cardinality(Before(S, i)) \in Nat /\ Cardinality(S) \in Nat
  BY <1>2, FS_CardinalityType
<1>4. i \in S => S # Before(S, i)
  BY DEF Before
<1> QED
  BY <1>2, <1>3, <1>4

\* Fewer of a smaller set come before.
LEMMA BeforeMonotone ==
    ASSUME NEW S \in SUBSET Int, IsFiniteSet(S), NEW T \in SUBSET S, NEW i \in Int
    PROVE  Cardinality(Before(T, i)) <= Cardinality(Before(S, i))
<1>1. Before(T, i) \in SUBSET Before(S, i)
  BY DEF Before
<1> QED
  BY <1>1, BeforeFinite, FS_Subset

\* A finite set of positions has a first: how many come before a member numbers
\* its members from 0.
LEMMA FirstMember ==
    ASSUME NEW S \in SUBSET Int, IsFiniteSet(S), S # {}
    PROVE  \E m \in S : \A k \in S : m <= k
<1> DEFINE n == Cardinality(S)
           T == 0 .. (n - 1)
           rank == [i \in S |-> Cardinality(Before(S, i))]
<1>1. n \in Nat /\ n # 0
  BY FS_CardinalityType, FS_EmptySet
<1>2. IsFiniteSet(T) /\ Cardinality(T) = n
  BY <1>1, FS_Interval
<1>3. \A i \in S : rank[i] \in T
  BY <1>1, BeforeFinite
<1>4. ASSUME NEW i \in S, NEW k \in S, i < k PROVE rank[i] # rank[k]
  <2>1. /\ IsFiniteSet(Before(S, k)) /\ Cardinality(Before(S, k)) \in Nat
    BY BeforeFinite
  <2>2. Before(S, i) \in SUBSET Before(S, k)
    <3>1. i \in Int /\ k \in Int /\ \A j \in S : j \in Int
      OBVIOUS
    <3>2. \A j \in S : j < i => j < k
      BY <1>4, <3>1
    <3> QED
      BY <3>2 DEF Before
  <2>3. i \in Before(S, k) /\ i \notin Before(S, i)
    BY <1>4 DEF Before
  <2>4. Cardinality(Before(S, k)) = Cardinality(Before(S, i)) => Before(S, k) = Before(S, i)
    BY <2>1, <2>2, FS_Subset
  <2> QED
    BY <2>3, <2>4
<1>5. rank \in Injection(S, T)
  <2>1. rank \in [S -> T]
    BY <1>3
  <2>2. \A i, k \in S : rank[i] = rank[k] => i = k
    <3> HIDE DEF rank
    <3>1. \A i, k \in S : i \in Int /\ k \in Int
      OBVIOUS
    <3>2. \A i, k \in S : i < k \/ k < i \/ i = k
      BY <3>1
    <3> QED
      BY <1>4, <3>2
  <2> HIDE DEF rank
  <2> QED
    BY <2>1, <2>2 DEF Injection, IsInjective
<1>6. rank \in Surjection(S, T)
  BY <1>2, <1>5, FS_Injection
<1>7. PICK m \in S : rank[m] = 0
  <2>1. 0 \in T
    BY <1>1
  <2> HIDE DEF rank, T
  <2> QED
    BY <1>6, <2>1 DEF Surjection
<1>8. Before(S, m) = {}
  BY <1>7, BeforeFinite, FS_EmptySet
<1>9. \A k \in S : m \in Int /\ k \in Int /\ ~(k < m)
  BY <1>8 DEF Before
<1> QED
  BY <1>9

\* The first n of a set are n, if one of it is not among them.
LEMMA FirstsFull ==
    ASSUME NEW S \in SUBSET Int, IsFiniteSet(S), NEW n \in Nat,
           NEW i \in S, i \notin Firsts(S, n)
    PROVE  \E m \in S : m <= i /\ n <= Cardinality(Before(Firsts(S, n), m))
<1> DEFINE Late == S \ Firsts(S, n)
<1>1. Late \in SUBSET Int /\ IsFiniteSet(Late) /\ Late # {}
  BY FS_Subset
<1>2. PICK m \in Late : \A k \in Late : m <= k
  BY <1>1, FirstMember
<1>3. Before(S, m) = Before(Firsts(S, n), m)
  <2>1. \A k \in S : k < m => k \notin Late
    BY <1>2
  <2>2. Firsts(S, n) \subseteq S
    BY FirstsSubset
  <2> QED
    BY <2>1, <2>2 DEF Before
<1>4. ~(Cardinality(Before(S, m)) < n)
  BY DEF Firsts, Before
<1>5. Cardinality(Before(S, m)) \in Nat
  BY BeforeFinite
<1>6. m <= i /\ m \in S
  BY <1>2
<1> QED
  BY <1>3, <1>4, <1>5, <1>6

\* Cutting two lists to n, putting them together in order and cutting again
\* leaves the first n of both: nothing a list lost could have been kept.
LEMMA CutMerged ==
    ASSUME NEW A \in SUBSET Int, IsFiniteSet(A), NEW B \in SUBSET Int, IsFiniteSet(B), NEW n \in Nat
    PROVE  Firsts(Firsts(A, n) \cup Firsts(B, n), n) = Firsts(A \cup B, n)
<1> DEFINE R == A \cup B
           U == Firsts(A, n) \cup Firsts(B, n)
<1>1. R \in SUBSET Int /\ IsFiniteSet(R)
  BY FS_Union
<1>2. U \in SUBSET R /\ Firsts(A, n) \in SUBSET U /\ Firsts(B, n) \in SUBSET U
  BY FirstsSubset
<1>3. IsFiniteSet(U) /\ U \in SUBSET Int
  BY <1>1, <1>2, FS_Subset
<1>4. \A S, i : i \in Firsts(S, n) <=> i \in S /\ Cardinality(Before(S, i)) < n
  BY DEF Firsts, Before
<1>5. ASSUME NEW i \in Firsts(R, n) PROVE i \in Firsts(U, n)
  <2>1. i \in R /\ i \in Int /\ Cardinality(Before(R, i)) < n
    BY <1>1, <1>4, <1>5
  <2>2. /\ Cardinality(Before(R, i)) \in Nat /\ Cardinality(Before(U, i)) \in Nat
        /\ Cardinality(Before(A, i)) \in Nat /\ Cardinality(Before(B, i)) \in Nat
    BY <1>1, <1>3, <2>1, BeforeFinite
  <2>3. /\ Cardinality(Before(U, i)) <= Cardinality(Before(R, i))
        /\ Cardinality(Before(A, i)) <= Cardinality(Before(R, i))
        /\ Cardinality(Before(B, i)) <= Cardinality(Before(R, i))
    <3>1. A \in SUBSET R /\ B \in SUBSET R
      OBVIOUS
    <3> HIDE DEF R, U
    <3> QED
      BY <1>1, <1>2, <2>1, <3>1, BeforeMonotone
  <2>4. /\ Cardinality(Before(U, i)) < n /\ Cardinality(Before(A, i)) < n
        /\ Cardinality(Before(B, i)) < n
    BY <2>1, <2>2, <2>3
  <2>5. i \in U
    BY <1>4, <2>1, <2>4
  <2> QED
    BY <1>4, <2>4, <2>5
<1>6. ASSUME NEW i \in Firsts(U, n) PROVE i \in Firsts(R, n)
  <2>1. i \in U /\ i \in R /\ i \in Int /\ Cardinality(Before(U, i)) < n
    BY <1>1, <1>2, <1>4, <1>6
  <2>2. ASSUME NEW S \in SUBSET R, S = A \/ S = B, NEW j \in S, j < i PROVE j \in Firsts(S, n)
    <3> SUFFICES ASSUME j \notin Firsts(S, n) PROVE FALSE
      OBVIOUS
    <3>1. S \in SUBSET Int /\ IsFiniteSet(S) /\ Firsts(S, n) \in SUBSET U
      BY <1>2, <2>2
    <3>2. PICK m \in S : m <= j /\ n <= Cardinality(Before(Firsts(S, n), m))
      BY <3>1, FirstsFull
    <3>3. m \in Int /\ j \in Int /\ m < i
      BY <2>1, <2>2, <3>1, <3>2
    <3>4. Before(Firsts(S, n), m) \in SUBSET Before(U, i)
      <4>1. \A k \in U : k \in Int
        BY <1>3
      <4>2. \A k \in U : k < m => k < i
        BY <2>1, <3>3, <4>1
      <4>3. \A k \in Firsts(S, n) : k \in U
        BY <3>1
      <4> QED
        BY <4>2, <4>3 DEF Before
    <3>5. /\ IsFiniteSet(Before(U, i)) /\ Cardinality(Before(U, i)) \in Nat
      BY <1>3, <2>1, BeforeFinite
    <3>6. /\ Cardinality(Before(Firsts(S, n), m)) <= Cardinality(Before(U, i))
          /\ Cardinality(Before(Firsts(S, n), m)) \in Nat
      BY <3>4, <3>5, FS_Subset, FS_CardinalityType
    <3> QED
      BY <2>1, <3>2, <3>5, <3>6
  <2>3. Before(R, i) = Before(U, i)
    <3>1. \A j \in R : j < i => j \in U
      BY <1>2, <2>2
    <3> HIDE DEF R, U
    <3> QED
      BY <1>2, <3>1 DEF Before
  <2> QED
    BY <1>4, <2>1, <2>3
<1> QED
  BY <1>5, <1>6

\* An answer lists what Reported makes of the rejections.
Listed == \A q \in Requests : req[q] # Free /\ req[q].ok =>
              req[q].reported = Reported(req[q].batch, req[q].rejected)

LEMMA ListedStep == IInv /\ Listed /\ [Next]_vars => Listed'
<1> SUFFICES ASSUME IInv, Listed, [Next]_vars,
                    NEW x \in Requests, req'[x] # Free, req'[x].ok
             PROVE  req'[x].reported = Reported(req'[x].batch, req'[x].rejected)
  BY DEF Listed
<1> DEFINE Goal == req'[x].reported = Reported(req'[x].batch, req'[x].rejected)
<1>t. req \in [Requests -> {req[q] : q \in Requests}]
  BY DEF IInv, Types
<1>s. ASSUME req'[x] = req[x] PROVE Goal
  BY <1>s DEF Listed
<1> HIDE DEF Goal
<1>1. ASSUME NEW b \in Batches, NEW q \in Requests, Send(b, q) PROVE Goal
  <2>1. CASE x = q
    <3>1. /\ req'[x].batch = b /\ req'[x].rejected = Bad(b)
          /\ req'[x].reported = Reported(b, Bad(b))
      BY <1>1, <1>t, <2>1 DEF Send
    <3> QED
      BY <3>1 DEF Goal
  <2>2. CASE x # q
    BY <1>1, <1>s, <1>t, <2>2 DEF Send
  <2> QED
    BY <2>1, <2>2
<1>2. ASSUME NEW q \in Requests,
             Lookup(q) \/ (\E t \in Tenants : InsertChunk(q, t)) \/ (\E i : InsertOne(q, i))
      PROVE  Goal
  <2>1. CASE x = q
    <3>1. req[q].pc # "free"
      BY <1>2 DEF Lookup, InsertChunk, InsertOne
    <3>2. IsOpen(req[q]) /\ Honest(req[q]) /\ Types
      BY <3>1 DEF IInv, Free
    <3>3. req'[q].ok = FALSE
      BY <1>2, <3>2, LookedUpIsOpen, ChunkInsertedIsOpen, OneInsertedIsOpen
    <3> QED
      BY <2>1, <3>3
  <2>2. CASE x # q
    BY <1>2, <1>s, <1>t, <2>2 DEF Lookup, InsertChunk, InsertOne
  <2> QED
    BY <2>1, <2>2
<1>3. ASSUME NEW q \in Requests, Commit(q) PROVE Goal
  <2>1. CASE x = q
    <3>1. IsOpen(req[q])
      BY <1>3 DEF IInv, Free, Commit, Record
    <3>2. /\ req'[x].batch = req[x].batch /\ req'[x].rejected = req[x].rejected
          /\ req'[x].reported = Reported(req[x].batch, req[x].rejected)
      BY <1>3, <1>t, <2>1, <3>1 DEF Commit, IsOpen, Open
    <3> QED
      BY <3>2 DEF Goal
  <2>2. CASE x # q
    BY <1>3, <1>s, <1>t, <2>2 DEF Commit
  <2> QED
    BY <2>1, <2>2
<1>4. ASSUME NEW q \in Requests, Fail(q) \/ CommitUnacknowledged(q) PROVE Goal
  <2>1. CASE x = q
    <3>1. req[q].pc # "free"
      BY <1>4 DEF Fail, CommitUnacknowledged, Record
    <3>2. IsOpen(req[q]) /\ Honest(req[q]) /\ Types
      BY <3>1 DEF IInv, Free
    <3>3. req'[q].ok = FALSE
      BY <1>4, <3>2, FailedIsOpen
    <3> QED
      BY <2>1, <3>3
  <2>2. CASE x # q
    BY <1>4, <1>s, <1>t, <2>2 DEF Fail, CommitUnacknowledged
  <2> QED
    BY <2>1, <2>2
<1>5. ASSUME NEW q \in Requests, Answer(q) PROVE Goal
  BY <1>5, <1>s, <1>t DEF Answer
<1>6. ASSUME NEW q \in Requests, GiveUp(q) PROVE Goal
  <2>1. CASE x = q
    <3>1. IsOpen(req[q]) /\ req[q] # Free
      BY <1>6 DEF IInv, GiveUp
    <3>2. /\ req'[x].batch = req[x].batch /\ req'[x].rejected = req[x].rejected
          /\ req'[x].reported = req[x].reported /\ req'[x].ok = req[x].ok
      BY <1>6, <1>t, <2>1, <3>1 DEF GiveUp, IsOpen, Open
    <3> QED
      BY <2>1, <3>1, <3>2 DEF Goal, Listed
  <2>2. CASE x # q
    BY <1>6, <1>s, <1>t, <2>2 DEF GiveUp
  <2> QED
    BY <2>1, <2>2
<1>7. ASSUME Crash PROVE Goal
  BY <1>7 DEF Crash
<1>8. ASSUME req' = req PROVE Goal
  <2>1. req'[x] = req[x]
    BY <1>8
  <2> QED
    BY <1>s, <2>1
<1>9. ASSUME NEW q \in Requests, Serve(q) PROVE Goal
  BY <1>2, <1>3, <1>5, <1>9 DEF Serve
<1>10. ASSUME NEW t \in Tenants, CreateTenant(t) \/ DeleteTenant(t) PROVE req' = req
  BY <1>10 DEF CreateTenant, DeleteTenant
<1>11. ASSUME Next PROVE Goal
  BY <1>1, <1>4, <1>6, <1>7, <1>8, <1>9, <1>10, <1>11 DEF Next
<1>12. ASSUME UNCHANGED vars PROVE Goal
  BY <1>8, <1>12 DEF vars
<1> QED
  BY <1>11, <1>12 DEF Goal

\* An answer lists the first MaxReported rejections, in request order, whether
\* they were found while reading or by the insert: batch.merge cuts both lists
\* and their merger, and loses none of the first.
THEOREM AlwaysReportedFirst == Spec => []ReportedFirst
<1>1. Init => Listed
  BY DEF Init, Listed
<1>2. ASSUME IInv, Listed PROVE ReportedFirst
  <2> SUFFICES ASSUME NEW q \in Requests, req[q].pc = "answered", req[q].ok
               PROVE  req[q].reported = Firsts(req[q].rejected, MaxReported)
    BY DEF ReportedFirst, Firsts
  <2> DEFINE b == req[q].batch
             A == Bad(b)
             B == req[q].rejected \ A
  <2>1. IsOpen(req[q]) /\ Honest(req[q]) /\ req[q] # Free
    BY <1>2 DEF IInv, Free
  <2>2. req[q].reported = Reported(b, req[q].rejected)
    BY <1>2, <2>1 DEF Listed
  <2>3. b \in Batches /\ A \subseteq req[q].rejected /\ req[q].rejected \subseteq Records(b)
    BY <2>1 DEF IsOpen, Open, Honest
  <2>4. Records(b) \in SUBSET Int /\ IsFiniteSet(Records(b))
    <3>1. Content[b] \in Seq([tenant : Tenants, class : Classes])
      BY <2>3, IngestAssumption
    <3>2. Records(b) = 1 .. Len(Content[b]) /\ Len(Content[b]) \in Nat
      BY <3>1 DEF Records
    <3> QED
      BY <3>2, FS_Interval
  <2>5. /\ A \in SUBSET Int /\ IsFiniteSet(A) /\ B \in SUBSET Int /\ IsFiniteSet(B)
        /\ A \cup B = req[q].rejected
    <3>1. A \in SUBSET Records(b) /\ B \in SUBSET Records(b)
      BY <2>3
    <3> HIDE DEF A, B
    <3>2. IsFiniteSet(A) /\ IsFiniteSet(B)
      BY <2>4, <3>1, FS_Subset
    <3> QED
      BY <2>3, <2>4, <3>1, <3>2 DEF B
  <2>6. MaxReported \in Nat
    BY IngestAssumption
  <2> HIDE DEF A, B
  <2>7. Firsts(Firsts(A, MaxReported) \cup Firsts(B, MaxReported), MaxReported)
            = Firsts(req[q].rejected, MaxReported)
    BY <2>5, <2>6, CutMerged
  <2> QED
    BY <2>2, <2>7 DEF Reported, A, B
<1> QED
  BY <1>1, <1>2, ListedStep, Invariance, PTL DEF Spec
=============================================================================
