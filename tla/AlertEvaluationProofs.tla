----------------------- MODULE AlertEvaluationProofs -----------------------
(***************************************************************************)
(* What AlertEvaluation promises for every set of rules, groups, windows,  *)
(* events and evaluators: a firing is recorded once and delivered at most  *)
(* once, and no evaluations wait for each other in a circle.  With one     *)
(* evaluator, the firings of a group are also a cooldown apart.            *)
(***************************************************************************)
EXTENDS AlertEvaluation, FiniteSetTheorems, TLAPS

-----------------------------------------------------------------------------
(* Types.                                                                  *)

\* The firing that evaluator w inserts for group k.
Row(w, k) == [rule |-> tx[w].rule, key |-> k, end |-> tx[w].end]

LEMMA TypeInit == Init => TypeOK
BY DEF Init, TypeOK

\* What inserting a row does to the transactions.
LEMMA InsertFacts ==
    ASSUME TypeOK, NEW w \in Evaluators, NEW k \in Keys, InsertRow(w, k)
    PROVE  /\ tx[w] \in Inserting
           /\ tx' \in [Evaluators -> {tx'[v] : v \in Evaluators}]
           /\ tx'[w] = [pc |-> "inserting", rule |-> tx[w].rule, end |-> tx[w].end,
                        todo |-> tx[w].todo \ {k},
                        rows |-> IF alerts[Row(w, k)] > 0 THEN tx[w].rows
                                 ELSE tx[w].rows \cup {Row(w, k)}]
           /\ \A v \in Evaluators : v # w => tx'[v] = tx[v]
<1>1. tx[w] \in Inserting
  BY DEF InsertRow, TypeOK, Idle, Sending
<1>2. tx' = [tx EXCEPT ![w].todo = @ \ {k},
                       ![w].rows = IF alerts[Row(w, k)] > 0 THEN @ ELSE @ \cup {Row(w, k)}]
  BY DEF InsertRow, Recorded, Row
<1>3. \A v \in Evaluators : v # w => tx'[v] = tx[v]
  BY <1>2 DEF TypeOK
<1>4. tx'[w] = [tx[w] EXCEPT !.todo = @ \ {k},
                             !.rows = IF alerts[Row(w, k)] > 0 THEN @ ELSE @ \cup {Row(w, k)}]
  BY <1>2 DEF TypeOK
<1>5. tx'[w] = [pc |-> "inserting", rule |-> tx[w].rule, end |-> tx[w].end,
                todo |-> tx[w].todo \ {k},
                rows |-> IF alerts[Row(w, k)] > 0 THEN tx[w].rows
                         ELSE tx[w].rows \cup {Row(w, k)}]
  BY <1>1, <1>4 DEF Inserting
<1>6. tx' \in [Evaluators -> {tx'[v] : v \in Evaluators}]
  BY <1>2 DEF TypeOK
<1> QED
  BY <1>1, <1>3, <1>5, <1>6

LEMMA TypeStep == TypeOK /\ [Next]_vars => TypeOK'
<1> SUFFICES ASSUME TypeOK, [Next]_vars PROVE TypeOK'
  OBVIOUS
<1>1. ASSUME NEW r \in Rules, CreateRule(r) PROVE TypeOK'
  BY <1>1 DEF CreateRule, TypeOK
<1>2. ASSUME NEW v \in Events, StoreEvent(v) PROVE TypeOK'
  BY <1>2 DEF StoreEvent, TypeOK
<1>3. ASSUME NEW w \in Evaluators, NEW r \in Rules, NEW e \in Ends, Count(w, r, e) PROVE TypeOK'
  <2>1. Due(r, e) \subseteq Keys
    BY DEF Due
  <2>2. [pc |-> "inserting", rule |-> r, end |-> e, todo |-> Due(r, e), rows |-> {}] \in Inserting
    BY <2>1 DEF Inserting
  <2> QED
    BY <1>3, <2>2 DEF Count, TypeOK
<1>4. ASSUME NEW w \in Evaluators, NEW k \in Keys, InsertRow(w, k) PROVE TypeOK'
  <2>1. tx[w] \in Inserting
    BY <1>4 DEF InsertRow, TypeOK, Idle, Sending
  <2>2. /\ Row(w, k) \in Firings
        /\ Row(w, k).rule = tx[w].rule /\ Row(w, k).end = tx[w].end
    BY <2>1 DEF Inserting, Firings, Row
  <2>3. /\ tx' \in [Evaluators -> {tx'[v] : v \in Evaluators}]
        /\ tx'[w] = [pc |-> "inserting", rule |-> tx[w].rule, end |-> tx[w].end, todo |-> tx[w].todo \ {k},
                     rows |-> IF alerts[Row(w, k)] > 0 THEN tx[w].rows ELSE tx[w].rows \cup {Row(w, k)}]
        /\ \A v \in Evaluators : v # w => tx'[v] = tx[v]
    BY <1>4, InsertFacts
  <2>4. tx'[w] \in Inserting
    BY <2>1, <2>2, <2>3 DEF Inserting
  <2>6. tx' \in [Evaluators -> {Idle} \cup Inserting \cup Sending]
    BY <2>3, <2>4 DEF TypeOK
  <2> QED
    BY <1>4, <2>6 DEF InsertRow, TypeOK
<1>5. ASSUME NEW w \in Evaluators, Commit(w) \/ CommitUnacknowledged(w) PROVE TypeOK'
  <2>1. alerts' \in [Firings -> Nat]
    BY <1>5 DEF Commit, CommitUnacknowledged, Record, TypeOK
  <2>2. tx[w] \in Inserting
    BY <1>5 DEF Commit, CommitUnacknowledged, Record, TypeOK, Idle, Sending
  <2>3. tx[w].rule.webhook => [pc |-> "sending", rows |-> tx[w].rows] \in Sending
    BY <2>2 DEF Inserting, Sending
  <2>4. tx' \in [Evaluators -> {Idle} \cup Inserting \cup Sending]
    BY <1>5, <2>3 DEF Commit, CommitUnacknowledged, TypeOK
  <2> QED
    BY <1>5, <2>1, <2>4 DEF Commit, CommitUnacknowledged, Record, TypeOK
<1>6. ASSUME NEW w \in Evaluators, Abort(w) \/ StopSending(w) PROVE TypeOK'
  BY <1>6 DEF Abort, StopSending, TypeOK
<1>7. ASSUME NEW w \in Evaluators, NEW f \in Firings, Deliver(w, f) PROVE TypeOK'
  <2>1. tx[w] \in Sending
    BY <1>7 DEF Deliver, TypeOK, Idle, Inserting
  <2>2. [pc |-> "sending", rows |-> tx[w].rows \ {f}] \in Sending
    BY <2>1 DEF Sending
  <2>3. tx' \in [Evaluators -> {Idle} \cup Inserting \cup Sending]
    BY <1>7, <2>2 DEF Deliver, TypeOK
  <2>4. sent' \in [Firings -> Nat]
    BY <1>7 DEF Deliver, TypeOK
  <2> QED
    BY <1>7, <2>3, <2>4 DEF Deliver, TypeOK
<1>8. CASE UNCHANGED vars
  BY <1>8 DEF vars, TypeOK
<1> QED
  BY <1>1, <1>2, <1>3, <1>4, <1>5, <1>6, <1>7, <1>8 DEF Next

\* Every variable stays in its domain.
THEOREM TypeCorrect == Spec => []TypeOK
BY TypeInit, TypeStep, PTL DEF Spec

-----------------------------------------------------------------------------
(* A firing is recorded once, and delivered at most once.                  *)

\* The firings an open transaction inserted are not recorded yet, no two
\* transactions have the same one, and none is inserted and still to do.
RowsNew ==
    /\ \A w \in Evaluators : tx[w].pc = "inserting" =>
            \A f \in tx[w].rows : alerts[f] = 0 /\ f.key \notin tx[w].todo
    /\ \A v, w \in Evaluators : v # w /\ tx[v].pc = "inserting" /\ tx[w].pc = "inserting" =>
            tx[v].rows \cap tx[w].rows = {}

\* The firings still to send are recorded and were not sent, and no two
\* evaluators send the same one.
RowsUnsent ==
    /\ \A w \in Evaluators : tx[w].pc = "sending" =>
            \A f \in tx[w].rows : alerts[f] > 0 /\ sent[f] = 0
    /\ \A v, w \in Evaluators : v # w /\ tx[v].pc = "sending" /\ tx[w].pc = "sending" =>
            tx[v].rows \cap tx[w].rows = {}

OnceInv == TypeOK /\ FiringUnique /\ DeliveredOnce /\ RowsNew /\ RowsUnsent

LEMMA OnceInit == Init => OnceInv
BY TypeInit DEF Init, Idle, OnceInv, FiringUnique, DeliveredOnce, RowsNew, RowsUnsent

LEMMA OnceStep == OnceInv /\ [Next]_vars => OnceInv'
<1> SUFFICES ASSUME OnceInv, [Next]_vars PROVE OnceInv'
  OBVIOUS
<1> USE DEF OnceInv
<1>t. TypeOK'
  BY TypeStep
\* A step that leaves the tables alone and empties or leaves each transaction.
<1>q. ASSUME /\ alerts' = alerts /\ sent' = sent
             /\ \A v \in Evaluators : \/ tx'[v] \in {tx[v], Idle}
                                      \/ tx'[v].pc = "inserting" /\ tx'[v].rows = {}
      PROVE  OnceInv'
  <2>1. FiringUnique' /\ DeliveredOnce'
    BY <1>q DEF FiringUnique, DeliveredOnce
  <2>2. \A v \in Evaluators : tx'[v].pc # "idle" /\ tx'[v].rows # {} => tx'[v] = tx[v]
    BY <1>q DEF Idle
  <2>3. RowsNew'
    BY <1>q, <2>2 DEF RowsNew
  <2>4. RowsUnsent'
    BY <1>q, <2>2 DEF RowsUnsent
  <2> QED
    BY <1>t, <2>1, <2>3, <2>4
<1>1. ASSUME NEW r \in Rules, CreateRule(r) PROVE OnceInv'
  BY <1>1, <1>q DEF CreateRule
<1>2. ASSUME NEW v \in Events, StoreEvent(v) PROVE OnceInv'
  BY <1>2, <1>q DEF StoreEvent
<1>3. ASSUME NEW w \in Evaluators, NEW r \in Rules, NEW e \in Ends, Count(w, r, e) PROVE OnceInv'
  <2>1. \A v \in Evaluators : \/ tx'[v] = tx[v]
                              \/ tx'[v].pc = "inserting" /\ tx'[v].rows = {}
    BY <1>3 DEF Count, TypeOK
  <2> QED
    BY <1>3, <2>1, <1>q DEF Count
<1>4. ASSUME NEW w \in Evaluators, NEW k \in Keys, InsertRow(w, k) PROVE OnceInv'
  <2>1. /\ tx[w] \in Inserting
        /\ tx'[w] = [pc |-> "inserting", rule |-> tx[w].rule, end |-> tx[w].end,
                     todo |-> tx[w].todo \ {k},
                     rows |-> IF alerts[Row(w, k)] > 0 THEN tx[w].rows
                              ELSE tx[w].rows \cup {Row(w, k)}]
        /\ \A v \in Evaluators : v # w => tx'[v] = tx[v]
    BY <1>4, InsertFacts
  <2>2. /\ alerts' = alerts /\ sent' = sent
        /\ k \in tx[w].todo
        /\ \A v \in Evaluators \ {w} : tx[v].pc = "inserting" => Row(w, k) \notin tx[v].rows
    BY <1>4 DEF InsertRow, NextOf, HeldFrom, Row
  <2>3. Row(w, k) \in Firings /\ Row(w, k).key = k /\ tx[w].pc = "inserting"
    BY <2>1 DEF Inserting, Firings, Row
  <2>4. FiringUnique' /\ DeliveredOnce'
    BY <2>2 DEF FiringUnique, DeliveredOnce
  <2>5. alerts[Row(w, k)] > 0 \/ alerts[Row(w, k)] = 0
    BY <2>3 DEF TypeOK
  <2>6. \A f \in tx'[w].rows : f \in tx[w].rows \/ (f = Row(w, k) /\ alerts[f] = 0)
    BY <2>1, <2>5
  <2>7. RowsNew'
    <3>1. \A f \in tx'[w].rows : alerts[f] = 0 /\ f.key \notin tx'[w].todo
      BY <2>1, <2>2, <2>3, <2>6 DEF RowsNew
    <3>2. \A v \in Evaluators \ {w} : tx[v].pc = "inserting" => tx[v].rows \cap tx'[w].rows = {}
      BY <2>2, <2>3, <2>6 DEF RowsNew
    <3> QED
      BY <2>1, <2>2, <3>1, <3>2 DEF RowsNew
  <2>8. RowsUnsent'
    BY <2>1, <2>2 DEF RowsUnsent
  <2> QED
    BY <1>t, <2>4, <2>7, <2>8
<1>5. ASSUME NEW w \in Evaluators, Commit(w) \/ CommitUnacknowledged(w) PROVE OnceInv'
  <2>1. /\ tx[w].pc = "inserting" /\ tx[w] \in Inserting /\ sent' = sent
        /\ alerts' = [f \in Firings |-> alerts[f] + (IF f \in tx[w].rows THEN 1 ELSE 0)]
        /\ tx'[w] = Idle \/ tx'[w] = [pc |-> "sending", rows |-> tx[w].rows]
        /\ \A v \in Evaluators : v # w => tx'[v] = tx[v]
    BY <1>5 DEF Commit, CommitUnacknowledged, Record, TypeOK, Idle, Sending
  <2>2. \A f \in tx[w].rows : f \in Firings /\ alerts[f] = 0 /\ alerts'[f] = 1
    BY <2>1 DEF Inserting, RowsNew
  <2>3. \A f \in Firings : f \notin tx[w].rows => alerts'[f] = alerts[f]
    BY <2>1 DEF TypeOK
  <2>4. \A f \in Firings : alerts[f] \in Nat /\ sent[f] \in Nat
    BY DEF TypeOK
  <2>5. FiringUnique'
    BY <2>2, <2>3 DEF FiringUnique
  <2>6. DeliveredOnce'
    BY <2>1, <2>2, <2>3, <2>4 DEF DeliveredOnce
  <2>7. \A f \in tx[w].rows : sent[f] = 0
    BY <2>2, <2>4 DEF DeliveredOnce
  <2>8. \A v \in Evaluators : tx[v].pc \in {"inserting", "sending"} =>
            \A f \in tx[v].rows : f \in Firings
    BY DEF TypeOK, Idle, Inserting, Sending
  <2>9. RowsNew'
    <3>1. \A v \in Evaluators : tx'[v].pc = "inserting" => v # w /\ tx'[v] = tx[v]
      BY <2>1 DEF Idle
    <3>2. ASSUME NEW v \in Evaluators, tx'[v].pc = "inserting", NEW f \in tx'[v].rows
          PROVE  alerts'[f] = 0 /\ f.key \notin tx'[v].todo
      <4>1. f \in Firings /\ f \notin tx[w].rows /\ alerts[f] = 0 /\ f.key \notin tx[v].todo
        BY <2>1, <2>8, <3>1, <3>2 DEF RowsNew
      <4> QED
        BY <2>3, <3>1, <3>2, <4>1
    <3> QED
      BY <3>1, <3>2 DEF RowsNew
  <2>10. RowsUnsent'
    <3>1. \A v \in Evaluators : tx'[v].pc = "sending" =>
              \/ v = w /\ tx'[v].rows = tx[w].rows
              \/ v # w /\ tx'[v] = tx[v] /\ \A f \in tx[v].rows : alerts[f] > 0
      BY <2>1 DEF Idle, RowsUnsent
    <3>2. ASSUME NEW v \in Evaluators, tx'[v].pc = "sending", NEW f \in tx'[v].rows
          PROVE  alerts'[f] > 0 /\ sent'[f] = 0
      <4>1. CASE v = w
        BY <2>1, <2>2, <2>7, <3>1, <3>2, <4>1
      <4>2. CASE v # w
        <5>1. f \in Firings /\ alerts[f] > 0 /\ sent[f] = 0
          BY <2>8, <3>1, <3>2, <4>2 DEF RowsUnsent
        <5> QED
          BY <2>1, <2>2, <2>3, <5>1
      <4> QED
        BY <4>1, <4>2
    <3>3. ASSUME NEW u \in Evaluators, NEW v \in Evaluators, u # v,
                 tx'[u].pc = "sending", tx'[v].pc = "sending"
          PROVE  tx'[u].rows \cap tx'[v].rows = {}
      BY <2>2, <3>1, <3>3 DEF RowsUnsent
    <3> QED
      BY <3>2, <3>3 DEF RowsUnsent
  <2> QED
    BY <1>t, <2>5, <2>6, <2>9, <2>10
<1>6. ASSUME NEW w \in Evaluators, Abort(w) \/ StopSending(w) PROVE OnceInv'
  <2>1. \A v \in Evaluators : tx'[v] \in {tx[v], Idle}
    BY <1>6 DEF Abort, StopSending, TypeOK
  <2> QED
    BY <1>6, <2>1, <1>q DEF Abort, StopSending
<1>7. ASSUME NEW w \in Evaluators, NEW f \in Firings, Deliver(w, f) PROVE OnceInv'
  <2>1. /\ tx[w].pc = "sending" /\ f \in tx[w].rows /\ alerts' = alerts
        /\ tx'[w] = Idle \/ tx'[w] = [pc |-> "sending", rows |-> tx[w].rows \ {f}]
        /\ \A v \in Evaluators : v # w => tx'[v] = tx[v]
        /\ \A g \in Firings : g # f => sent'[g] = sent[g]
        /\ sent'[f] = sent[f] \/ sent'[f] = sent[f] + 1
    BY <1>7 DEF Deliver, TypeOK
  <2>2. alerts[f] > 0 /\ sent[f] = 0
    BY <2>1 DEF RowsUnsent
  <2>3. FiringUnique'
    BY <2>1 DEF FiringUnique
  <2>4. DeliveredOnce'
    <3>1. \A g \in Firings : alerts[g] \in Nat
      BY DEF TypeOK
    <3> QED
      BY <2>1, <2>2, <3>1 DEF DeliveredOnce
  <2>5. RowsNew'
    BY <2>1 DEF RowsNew, Idle
  <2>6. RowsUnsent'
    <3>1. \A v \in Evaluators : tx'[v].pc = "sending" =>
              tx[v].pc = "sending" /\ tx'[v].rows \subseteq tx[v].rows /\ f \notin tx'[v].rows
      BY <2>1 DEF RowsUnsent, Idle
    <3>2. \A v \in Evaluators : tx[v].pc = "sending" => tx[v].rows \subseteq Firings
      BY DEF TypeOK, Idle, Inserting, Sending
    <3>3. \A v \in Evaluators : tx'[v].pc = "sending" =>
              \A g \in tx'[v].rows : alerts'[g] > 0 /\ sent'[g] = 0
      BY <2>1, <3>1, <3>2 DEF RowsUnsent
    <3>4. \A u, v \in Evaluators : u # v /\ tx'[u].pc = "sending" /\ tx'[v].pc = "sending" =>
              tx'[u].rows \cap tx'[v].rows = {}
      BY <3>1 DEF RowsUnsent
    <3> QED
      BY <3>3, <3>4 DEF RowsUnsent
  <2> QED
    BY <1>t, <2>3, <2>4, <2>5, <2>6
<1>8. CASE UNCHANGED vars
  BY <1>8, <1>q DEF vars
<1> QED
  BY <1>1, <1>2, <1>3, <1>4, <1>5, <1>6, <1>7, <1>8 DEF Next

LEMMA OnceAlways == Spec => []OnceInv
BY OnceInit, OnceStep, PTL DEF Spec

\* Whatever number of evaluators, restarts and failures: a firing is recorded
\* once.
THEOREM FiringAlwaysUnique == Spec => []FiringUnique
<1>1. OnceInv => FiringUnique
  BY DEF OnceInv
<1> QED
  BY <1>1, OnceAlways, PTL

\* A firing reaches its webhook at most once, and only when it is recorded.
THEOREM DeliveredAtMostOnce == Spec => []DeliveredOnce
<1>1. OnceInv => DeliveredOnce
  BY DEF OnceInv
<1> QED
  BY <1>1, OnceAlways, PTL

-----------------------------------------------------------------------------
(* Rows are inserted in the order of their groups.                         *)

RowsFirst ==
    \A w \in Evaluators : tx[w].pc = "inserting" =>
        \A f \in tx[w].rows : \A j \in tx[w].todo : f.key < j

OrderInv == TypeOK /\ RowsFirst

LEMMA OrderStep == OrderInv /\ [Next]_vars => OrderInv'
<1> SUFFICES ASSUME OrderInv, [Next]_vars PROVE RowsFirst'
  BY TypeStep DEF OrderInv
<1> USE DEF OrderInv
<1>q. ASSUME \A v \in Evaluators :
                \/ tx'[v] \in {tx[v], Idle}
                \/ tx'[v].pc = "sending"
                \/ tx'[v].pc = "inserting" /\ tx'[v].rows = {}
      PROVE  RowsFirst'
  BY <1>q DEF RowsFirst, Idle
<1>1. ASSUME NEW r \in Rules, CreateRule(r) PROVE RowsFirst'
  BY <1>1, <1>q DEF CreateRule
<1>2. ASSUME NEW v \in Events, StoreEvent(v) PROVE RowsFirst'
  BY <1>2, <1>q DEF StoreEvent
<1>3. ASSUME NEW w \in Evaluators, NEW r \in Rules, NEW e \in Ends, Count(w, r, e) PROVE RowsFirst'
  <2>1. \A v \in Evaluators : \/ tx'[v] = tx[v]
                              \/ tx'[v].pc = "inserting" /\ tx'[v].rows = {}
    BY <1>3 DEF Count, TypeOK
  <2> QED
    BY <2>1, <1>q
<1>4. ASSUME NEW w \in Evaluators, NEW k \in Keys, InsertRow(w, k) PROVE RowsFirst'
  <2>1. /\ tx[w] \in Inserting
        /\ tx'[w] = [pc |-> "inserting", rule |-> tx[w].rule, end |-> tx[w].end,
                     todo |-> tx[w].todo \ {k},
                     rows |-> IF alerts[Row(w, k)] > 0 THEN tx[w].rows
                              ELSE tx[w].rows \cup {Row(w, k)}]
        /\ \A v \in Evaluators : v # w => tx'[v] = tx[v]
    BY <1>4, InsertFacts
  <2>2. tx[w].todo \subseteq Nat /\ k \in Nat /\ tx[w].pc = "inserting"
    BY <2>1, EvaluationAssumption DEF Inserting
  <2>3. \A j \in tx'[w].todo : j \in tx[w].todo /\ k < j
    BY <1>4, <2>1, <2>2 DEF InsertRow, NextOf
  <2>4. \A f \in tx'[w].rows : f \in tx[w].rows \/ f.key = k
    BY <2>1 DEF Row
  <2>5. \A f \in tx'[w].rows : \A j \in tx'[w].todo : f.key < j
    BY <2>2, <2>3, <2>4 DEF RowsFirst
  <2> QED
    BY <2>1, <2>5 DEF RowsFirst
<1>5. ASSUME NEW w \in Evaluators, Commit(w) \/ CommitUnacknowledged(w) PROVE RowsFirst'
  <2>1. \A v \in Evaluators : tx'[v] \in {tx[v], Idle} \/ tx'[v].pc = "sending"
    BY <1>5 DEF Commit, CommitUnacknowledged, TypeOK
  <2> QED
    BY <2>1, <1>q
<1>6. ASSUME NEW w \in Evaluators, Abort(w) \/ StopSending(w) PROVE RowsFirst'
  <2>1. \A v \in Evaluators : tx'[v] \in {tx[v], Idle}
    BY <1>6 DEF Abort, StopSending, TypeOK
  <2> QED
    BY <2>1, <1>q
<1>7. ASSUME NEW w \in Evaluators, NEW f \in Firings, Deliver(w, f) PROVE RowsFirst'
  <2>1. \A v \in Evaluators : tx'[v] \in {tx[v], Idle} \/ tx'[v].pc = "sending"
    BY <1>7 DEF Deliver, TypeOK
  <2> QED
    BY <2>1, <1>q
<1>8. CASE UNCHANGED vars
  BY <1>8, <1>q DEF vars
<1> QED
  BY <1>1, <1>2, <1>3, <1>4, <1>5, <1>6, <1>7, <1>8 DEF Next

\* Evaluations never wait for each other in a circle: what ORDER BY group_key
\* is for.
THEOREM WaitsAlwaysUpwards == Spec => []WaitsUpwards
<1>1. Init => OrderInv
  BY TypeInit DEF Init, Idle, OrderInv, RowsFirst
<1>2. OrderInv => WaitsUpwards
  <2> SUFFICES ASSUME OrderInv, NEW v \in Evaluators, NEW w \in Evaluators, NEW k \in Keys,
                      WaitsFor(v, w, k), NEW j \in tx[w].todo
               PROVE  k < j
    BY DEF WaitsUpwards
  <2> DEFINE f == [rule |-> tx[v].rule, key |-> k, end |-> tx[v].end]
  <2>1. tx[w].pc = "inserting" /\ f \in tx[w].rows /\ f.key = k
    BY DEF WaitsFor
  <2> QED
    BY <2>1 DEF OrderInv, RowsFirst
<1> QED
  BY <1>1, <1>2, OrderStep, PTL DEF Spec

-----------------------------------------------------------------------------
(* With one evaluator, the firings of a group are a cooldown apart.        *)

\* No firing of the groups an evaluation has selected ended within the
\* cooldown of its window's end.
SelectedQuiet ==
    \A w \in Evaluators : tx[w].pc = "inserting" =>
        \A k \in Keys : (k \in tx[w].todo \/ \E f \in tx[w].rows : f.key = k) =>
            Quiet(tx[w].rule, k, tx[w].end)

CooldownInv == TypeOK /\ CooldownRespected /\ SelectedQuiet

LEMMA CooldownStep ==
    ASSUME NEW w \in Evaluators, Evaluators = {w}, CooldownInv, [Next]_vars
    PROVE  CooldownInv'
<1> SUFFICES CooldownRespected' /\ SelectedQuiet'
  BY TypeStep DEF CooldownInv
<1> USE DEF CooldownInv
<1>q. ASSUME alerts' = alerts, tx'[w] = tx[w] \/ tx'[w].pc # "inserting"
      PROVE  CooldownRespected' /\ SelectedQuiet'
  BY <1>q DEF CooldownRespected, SelectedQuiet, Quiet
<1>1. ASSUME NEW r \in Rules, CreateRule(r) PROVE CooldownRespected' /\ SelectedQuiet'
  BY <1>1, <1>q DEF CreateRule
<1>2. ASSUME NEW v \in Events, StoreEvent(v) PROVE CooldownRespected' /\ SelectedQuiet'
  BY <1>2, <1>q DEF StoreEvent
<1>3. ASSUME NEW r \in Rules, NEW e \in Ends, Count(w, r, e) PROVE CooldownRespected' /\ SelectedQuiet'
  <2>1. /\ alerts' = alerts
        /\ tx'[w] = [pc |-> "inserting", rule |-> r, end |-> e, todo |-> Due(r, e), rows |-> {}]
    BY <1>3 DEF Count, TypeOK
  <2>2. \A k \in Due(r, e) : Quiet(r, k, e)
    BY DEF Due
  <2>3. CooldownRespected'
    BY <2>1 DEF CooldownRespected
  <2>4. SelectedQuiet'
    BY <2>1, <2>2 DEF SelectedQuiet, Quiet
  <2> QED
    BY <2>3, <2>4
<1>4. ASSUME NEW k \in Keys, InsertRow(w, k) PROVE CooldownRespected' /\ SelectedQuiet'
  <2>1. /\ tx[w] \in Inserting /\ tx[w].pc = "inserting"
        /\ k \in tx[w].todo /\ alerts' = alerts
    BY <1>4, InsertFacts DEF InsertRow, NextOf
  <2>2. /\ tx'[w].rule = tx[w].rule /\ tx'[w].end = tx[w].end
        /\ tx'[w].todo \subseteq tx[w].todo
        /\ \A f \in tx'[w].rows : f \in tx[w].rows \/ f.key = k
    <3>1. /\ tx'[w].rule = tx[w].rule /\ tx'[w].end = tx[w].end
          /\ tx'[w].todo = tx[w].todo \ {k}
          /\ tx'[w].rows = IF alerts[Row(w, k)] > 0 THEN tx[w].rows
                           ELSE tx[w].rows \cup {Row(w, k)}
      <4>1. tx'[w] = [pc |-> "inserting", rule |-> tx[w].rule, end |-> tx[w].end,
                      todo |-> tx[w].todo \ {k},
                      rows |-> IF alerts[Row(w, k)] > 0 THEN tx[w].rows
                               ELSE tx[w].rows \cup {Row(w, k)}]
        BY <1>4, InsertFacts
      <4> QED
        BY <4>1
    <3> QED
      BY <3>1 DEF Row
  <2>3. CooldownRespected'
    BY <2>1 DEF CooldownRespected
  <2>4. SelectedQuiet'
    BY <2>1, <2>2 DEF SelectedQuiet, Quiet
  <2> QED
    BY <2>3, <2>4
<1>5. ASSUME Commit(w) \/ CommitUnacknowledged(w) PROVE CooldownRespected' /\ SelectedQuiet'
  <2>1. /\ tx[w] \in Inserting /\ tx[w].pc = "inserting" /\ tx'[w].pc # "inserting"
        /\ alerts' = [f \in Firings |-> alerts[f] + (IF f \in tx[w].rows THEN 1 ELSE 0)]
    BY <1>5 DEF Commit, CommitUnacknowledged, Record, TypeOK, Idle, Sending
  <2>2. \A f \in Firings : /\ alerts'[f] > 0 => alerts[f] > 0 \/ f \in tx[w].rows
                           /\ f.rule.cooldown \in Nat /\ f.end \in Int
    <3>1. \A f \in Firings : f.rule.cooldown \in Nat /\ f.end \in Int
      BY EvaluationAssumption DEF Firings
    <3>2. \A f \in Firings : alerts[f] \in Nat
                             /\ alerts'[f] = alerts[f] + (IF f \in tx[w].rows THEN 1 ELSE 0)
      BY <2>1 DEF TypeOK
    <3> QED
      BY <3>1, <3>2
  <2>3. \A f \in tx[w].rows : /\ f \in Firings /\ f.rule = tx[w].rule /\ f.end = tx[w].end
                              /\ f.key \in Keys
    BY <2>1 DEF Inserting, Firings
  <2>4. \A f \in tx[w].rows, g \in Firings :
            alerts[g] > 0 /\ g.rule = f.rule /\ g.key = f.key => ~(g.end > f.end - f.rule.cooldown)
    BY <2>1, <2>3 DEF SelectedQuiet, Quiet
  <2>5. CooldownRespected'
    <3> SUFFICES ASSUME NEW f \in Firings, NEW g \in Firings,
                        alerts'[f] > 0, alerts'[g] > 0,
                        f.rule = g.rule, f.key = g.key, f.end < g.end
                 PROVE  f.end + f.rule.cooldown <= g.end
      BY DEF CooldownRespected
    <3>1. CASE alerts[f] > 0 /\ alerts[g] > 0
      BY <3>1 DEF CooldownRespected
    <3>2. CASE f \in tx[w].rows /\ g \in tx[w].rows
      BY <2>2, <2>3, <3>2
    <3>3. CASE alerts[f] > 0 /\ g \in tx[w].rows
      <4>1. ~(f.end > g.end - f.rule.cooldown)
        BY <2>4, <3>3
      <4> QED
        BY <2>2, <4>1
    <3>4. CASE f \in tx[w].rows /\ alerts[g] > 0
      <4>1. ~(g.end > f.end - f.rule.cooldown)
        BY <2>4, <3>4
      <4> QED
        BY <2>2, <4>1
    <3> QED
      BY <2>2, <3>1, <3>2, <3>3, <3>4
  <2>6. SelectedQuiet'
    BY <2>1 DEF SelectedQuiet
  <2> QED
    BY <2>5, <2>6
<1>6. ASSUME Abort(w) \/ StopSending(w) PROVE CooldownRespected' /\ SelectedQuiet'
  <2>1. alerts' = alerts /\ tx'[w].pc # "inserting"
    BY <1>6 DEF Abort, StopSending, TypeOK, Idle
  <2> QED
    BY <2>1, <1>q
<1>7. ASSUME NEW f \in Firings, Deliver(w, f) PROVE CooldownRespected' /\ SelectedQuiet'
  <2>1. alerts' = alerts /\ tx'[w].pc # "inserting"
    BY <1>7 DEF Deliver, TypeOK, Idle
  <2> QED
    BY <2>1, <1>q
<1>8. CASE UNCHANGED vars
  BY <1>8, <1>q DEF vars
<1> QED
  BY <1>1, <1>2, <1>3, <1>4, <1>5, <1>6, <1>7, <1>8 DEF Next

\* loghub runs one evaluator: then a group's firings are a cooldown apart.
THEOREM CooldownAlwaysRespected ==
    ASSUME NEW w \in Evaluators, Evaluators = {w}
    PROVE  Spec => []CooldownRespected
<1>1. Init => CooldownInv
  BY TypeInit DEF Init, Idle, CooldownInv, CooldownRespected, SelectedQuiet
<1>2. CooldownInv /\ [Next]_vars => CooldownInv'
  BY CooldownStep
<1>3. CooldownInv => CooldownRespected
  BY DEF CooldownInv
<1> QED
  BY <1>1, <1>2, <1>3, PTL DEF Spec

-----------------------------------------------------------------------------
(* A firing rests on enough events.                                        *)

\* Enough events of group k in r's window that ends at e.  They are finitely
\* many, as one is stored at a time, and none is ever taken away.
Enough(r, k, e) == Cardinality(Matched(r, k, e)) >= r.threshold

JustifiedInv ==
    /\ TypeOK /\ IsFiniteSet(events)
    /\ \A f \in Firings : alerts[f] > 0 => f.rule \in rules /\ Enough(f.rule, f.key, f.end)
    /\ \A w \in Evaluators : tx[w].pc = "inserting" =>
        /\ tx[w].rule \in rules
        /\ \A r \in Rules, k \in Keys, e \in Ends :
              r = tx[w].rule /\ e = tx[w].end /\ (k \in tx[w].todo \/ \E f \in tx[w].rows : f.key = k) =>
                  Enough(r, k, e)

LEMMA EnoughStays ==
    ASSUME IsFiniteSet(events'), events \subseteq events', NEW r \in Rules, NEW k, NEW e, Enough(r, k, e)
    PROVE  Enough(r, k, e)'
<1>1. Matched(r, k, e) \subseteq Matched(r, k, e)' /\ Matched(r, k, e)' \subseteq events'
  BY DEF Matched
<1>2. IsFiniteSet(Matched(r, k, e)')
  BY <1>1, FS_Subset
<1>3. /\ Cardinality(Matched(r, k, e)) <= Cardinality(Matched(r, k, e)')
      /\ Cardinality(Matched(r, k, e)) \in Nat /\ Cardinality(Matched(r, k, e)') \in Nat
  BY <1>1, <1>2, FS_Subset, FS_CardinalityType
<1>4. r.threshold \in Nat
  BY EvaluationAssumption
<1> QED
  BY <1>3, <1>4 DEF Enough

LEMMA EventsStay ==
    ASSUME JustifiedInv, [Next]_vars
    PROVE  events \subseteq events' /\ IsFiniteSet(events') /\ rules \subseteq rules'
<1>1. ASSUME NEW v \in Events, StoreEvent(v) PROVE IsFiniteSet(events') /\ events \subseteq events' /\ rules' = rules
  BY <1>1, FS_AddElement DEF StoreEvent, JustifiedInv
<1>2. CASE ~ \E v \in Events : StoreEvent(v)
  BY <1>2 DEF JustifiedInv, Next, vars, CreateRule, Count, InsertRow, Commit, Record, Deliver,
              CommitUnacknowledged, Abort, StopSending
<1> QED
  BY <1>1, <1>2

LEMMA JustifiedStep == JustifiedInv /\ [Next]_vars => JustifiedInv'
<1> SUFFICES ASSUME JustifiedInv, [Next]_vars PROVE JustifiedInv'
  OBVIOUS
<1>1. TypeOK' /\ IsFiniteSet(events') /\ rules \subseteq rules' /\ TypeOK
  BY TypeStep, EventsStay DEF JustifiedInv
<1>2. \A r \in Rules : \A k, e : Enough(r, k, e) => Enough(r, k, e)'
  BY EventsStay, EnoughStays
<1>3. \A f \in Firings : f.rule \in Rules /\ alerts[f] \in Nat
  BY <1>1 DEF TypeOK, Firings
<1>4. \A w \in Evaluators : tx[w].pc = "inserting" => tx[w] \in Inserting
  BY <1>1 DEF TypeOK, Idle, Sending
<1>5. \A x \in Inserting : x.rule \in Rules /\ x.end \in Ends /\ x.todo \subseteq Keys
                           /\ \A f \in x.rows : f \in Firings /\ f.rule = x.rule /\ f.end = x.end /\ f.key \in Keys
  BY DEF Inserting, Firings
\* A recorded firing was recorded, or is of a transaction that commits.
<1>6. \A f \in Firings : alerts'[f] > 0 =>
        alerts[f] > 0 \/ \E w \in Evaluators : tx[w].pc = "inserting" /\ f \in tx[w].rows
  <2>1. CASE UNCHANGED alerts
    BY <2>1
  <2>2. ASSUME NEW w \in Evaluators, Record(w) PROVE \A f \in Firings : alerts'[f] > 0 =>
            alerts[f] > 0 \/ (tx[w].pc = "inserting" /\ f \in tx[w].rows)
    BY <1>3, <2>2 DEF Record
  <2>3. UNCHANGED alerts \/ \E w \in Evaluators : Record(w)
    BY DEF Next, vars, CreateRule, StoreEvent, Count, InsertRow, Commit, Deliver,
           CommitUnacknowledged, Abort, StopSending
  <2> QED
    BY <2>1, <2>2, <2>3
<1>7. ASSUME NEW f \in Firings, alerts'[f] > 0 PROVE f.rule \in rules' /\ Enough(f.rule, f.key, f.end)'
  <2>1. f.rule \in rules /\ Enough(f.rule, f.key, f.end)
    <3>1. CASE alerts[f] > 0
      BY <3>1 DEF JustifiedInv
    <3>2. ASSUME NEW w \in Evaluators, tx[w].pc = "inserting", f \in tx[w].rows
          PROVE  f.rule \in rules /\ Enough(f.rule, f.key, f.end)
      <4>1. f.rule = tx[w].rule /\ f.end = tx[w].end /\ f.key \in Keys /\ f.rule \in Rules /\ f.end \in Ends
        BY <1>4, <1>5, <3>2
      <4> QED
        BY <3>2, <4>1 DEF JustifiedInv
    <3> QED
      BY <1>6, <1>7, <3>1, <3>2
  <2> QED
    BY <1>1, <1>2, <1>3, <2>1
\* A transaction is what it was, but for a row inserted, or has just counted.
<1>8. ASSUME NEW w \in Evaluators, tx'[w].pc = "inserting"
      PROVE  \/ /\ tx[w].pc = "inserting" /\ tx'[w].rule = tx[w].rule /\ tx'[w].end = tx[w].end
                /\ tx'[w].todo \subseteq tx[w].todo
                /\ \A f \in tx'[w].rows : f \in tx[w].rows
                        \/ \E k \in tx[w].todo : f = [rule |-> tx[w].rule, key |-> k, end |-> tx[w].end]
             \/ \E r \in Rules, e \in Ends : /\ r \in rules /\ events' = events
                    /\ tx'[w] = [pc |-> "inserting", rule |-> r, end |-> e, todo |-> Due(r, e), rows |-> {}]
  <2>1. CASE tx'[w] = tx[w]
    BY <1>8, <2>1
  <2>2. ASSUME NEW v \in Evaluators, NEW r \in Rules, NEW e \in Ends, Count(v, r, e), tx'[w] # tx[w]
        PROVE  /\ r \in rules /\ events' = events
               /\ tx'[w] = [pc |-> "inserting", rule |-> r, end |-> e, todo |-> Due(r, e), rows |-> {}]
    BY <1>1, <2>2 DEF Count, TypeOK
  <2>3. ASSUME NEW v \in Evaluators, NEW k \in Keys, InsertRow(v, k), tx'[w] # tx[w]
        PROVE  /\ tx[w].pc = "inserting" /\ tx'[w].rule = tx[w].rule /\ tx'[w].end = tx[w].end
               /\ tx'[w].todo \subseteq tx[w].todo
               /\ \A f \in tx'[w].rows : f \in tx[w].rows
                       \/ \E j \in tx[w].todo : f = [rule |-> tx[w].rule, key |-> j, end |-> tx[w].end]
    <3>1. v = w /\ tx[w].pc = "inserting" /\ k \in tx[w].todo
      BY <1>1, <2>3, InsertFacts DEF InsertRow, NextOf
    <3>2. tx'[w] = [pc |-> "inserting", rule |-> tx[w].rule, end |-> tx[w].end, todo |-> tx[w].todo \ {k},
                    rows |-> IF alerts[Row(w, k)] > 0 THEN tx[w].rows ELSE tx[w].rows \cup {Row(w, k)}]
      BY <1>1, <2>3, <3>1, InsertFacts
    <3>3. /\ tx'[w].rule = tx[w].rule /\ tx'[w].end = tx[w].end /\ tx'[w].todo = tx[w].todo \ {k}
          /\ tx'[w].rows = IF alerts[Row(w, k)] > 0 THEN tx[w].rows ELSE tx[w].rows \cup {Row(w, k)}
      BY <3>2
    <3> QED
      BY <3>1, <3>3 DEF Row
  <2>4. CASE \/ UNCHANGED vars \/ (\E r \in Rules : CreateRule(r)) \/ (\E v \in Events : StoreEvent(v))
    BY <2>1, <2>4 DEF vars, CreateRule, StoreEvent
  <2>5. ASSUME NEW v \in Evaluators, \/ Commit(v) \/ CommitUnacknowledged(v) \/ Abort(v) \/ StopSending(v)
                                     \/ \E f \in Firings : Deliver(v, f)
        PROVE  tx'[w] = tx[w]
    <3>1. \E x : tx' = [tx EXCEPT ![v] = x] /\ x.pc # "inserting"
      <4>1. CASE CommitUnacknowledged(v) \/ Abort(v) \/ StopSending(v)
        BY <4>1 DEF CommitUnacknowledged, Abort, StopSending, Idle
      <4>2. CASE Commit(v)
        <5> DEFINE x == IF tx[v].rule.webhook /\ tx[v].rows # {}
                        THEN [pc |-> "sending", rows |-> tx[v].rows] ELSE Idle
        <5>1. x.pc # "inserting"
          BY DEF Idle
        <5>2. tx' = [tx EXCEPT ![v] = x]
          BY <4>2 DEF Commit
        <5> QED
          BY <5>1, <5>2
      <4>3. ASSUME NEW f \in Firings, Deliver(v, f) PROVE \E x : tx' = [tx EXCEPT ![v] = x] /\ x.pc # "inserting"
        <5> DEFINE x == IF tx[v].rows = {f} THEN Idle ELSE [pc |-> "sending", rows |-> tx[v].rows \ {f}]
        <5>1. x.pc # "inserting"
          BY DEF Idle
        <5>2. tx' = [tx EXCEPT ![v] = x]
          BY <4>3 DEF Deliver
        <5> QED
          BY <5>1, <5>2
      <4> QED
        BY <2>5, <4>1, <4>2, <4>3
    <3> QED
      BY <1>1, <1>8, <3>1 DEF TypeOK
  <2> QED
    BY <2>1, <2>2, <2>3, <2>4, <2>5 DEF Next
<1>9. ASSUME NEW w \in Evaluators, tx'[w].pc = "inserting"
      PROVE  /\ tx'[w].rule \in rules'
             /\ \A r \in Rules, k \in Keys, e \in Ends :
                   r = tx'[w].rule /\ e = tx'[w].end
                   /\ (k \in tx'[w].todo \/ \E f \in tx'[w].rows : f.key = k) => Enough(r, k, e)'
  <2>1. CASE /\ tx[w].pc = "inserting" /\ tx'[w].rule = tx[w].rule /\ tx'[w].end = tx[w].end
             /\ tx'[w].todo \subseteq tx[w].todo
             /\ \A f \in tx'[w].rows : f \in tx[w].rows
                     \/ \E k \in tx[w].todo : f = [rule |-> tx[w].rule, key |-> k, end |-> tx[w].end]
    <3>1. tx[w].rule \in rules
      BY <2>1 DEF JustifiedInv
    <3> SUFFICES ASSUME NEW r \in Rules, NEW k \in Keys, NEW e \in Ends, r = tx[w].rule, e = tx[w].end,
                        k \in tx'[w].todo \/ \E f \in tx'[w].rows : f.key = k
                 PROVE  Enough(r, k, e)'
      BY <1>1, <2>1, <3>1
    <3>2. k \in tx[w].todo \/ \E f \in tx[w].rows : f.key = k
      BY <2>1
    <3>3. Enough(r, k, e)
      BY <2>1, <3>2 DEF JustifiedInv
    <3> QED
      BY <1>2, <3>3
  <2>2. ASSUME NEW q \in Rules, NEW d \in Ends, q \in rules, events' = events,
               tx'[w] = [pc |-> "inserting", rule |-> q, end |-> d, todo |-> Due(q, d), rows |-> {}],
               NEW r \in Rules, NEW k \in Keys, NEW e \in Ends, r = tx'[w].rule, e = tx'[w].end,
               k \in tx'[w].todo \/ \E f \in tx'[w].rows : f.key = k
        PROVE  q = tx'[w].rule /\ Enough(r, k, e)'
    <3>1. tx'[w].rule = q /\ tx'[w].end = d /\ tx'[w].todo = Due(q, d) /\ tx'[w].rows = {}
      BY <2>2
    <3>2. k \in Due(r, e)
      BY <2>2, <3>1
    <3>3. Enough(r, k, e)
      BY <3>2 DEF Due, Enough
    <3> QED
      BY <1>2, <3>1, <3>3
  <2>3. ASSUME NEW q \in Rules, NEW d \in Ends, q \in rules, events' = events,
               tx'[w] = [pc |-> "inserting", rule |-> q, end |-> d, todo |-> Due(q, d), rows |-> {}]
        PROVE  tx'[w].rule \in rules'
    <3>1. tx'[w].rule = q
      BY <2>3
    <3> QED
      BY <1>1, <2>3, <3>1
  <2> QED
    BY <1>8, <1>9, <2>1, <2>2, <2>3
<1> QED
  BY <1>1, <1>7, <1>9 DEF JustifiedInv

\* Every firing rests on enough events of its tenant, group and filter in its
\* window, however many evaluators there are and whatever is stored meanwhile
\* (AlertRepo.Evaluate).
THEOREM FiringsAlwaysJustified == Spec => []Justified
<1>1. Init => JustifiedInv
  BY TypeInit, FS_EmptySet DEF Init, Idle, JustifiedInv
<1>2. JustifiedInv => Justified
  <2> SUFFICES ASSUME JustifiedInv, NEW f \in Firings, alerts[f] > 0
               PROVE  /\ f.rule \in rules
                      /\ Cardinality({v \in events : /\ v.tenant = f.rule.tenant /\ v.kind \in f.rule.kinds
                                                     /\ v.key = f.key
                                                     /\ v.ts \in f.end - f.rule.window .. f.end - 1})
                            >= f.rule.threshold
    BY DEF Justified
  <2>1. f.rule \in rules /\ Enough(f.rule, f.key, f.end)
    BY DEF JustifiedInv
  <2>2. f.end \in Int /\ f.rule.window \in Nat /\ \A v \in events : v.ts \in Int
    BY EvaluationAssumption DEF JustifiedInv, TypeOK, Firings
  <2>3. Matched(f.rule, f.key, f.end) =
            {v \in events : /\ v.tenant = f.rule.tenant /\ v.kind \in f.rule.kinds /\ v.key = f.key
                            /\ v.ts \in f.end - f.rule.window .. f.end - 1}
    BY <2>2 DEF Matched
  <2> QED
    BY <2>1, <2>3 DEF Enough
<1> QED
  BY <1>1, <1>2, JustifiedStep, PTL DEF Spec
=============================================================================
