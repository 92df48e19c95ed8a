--------------------------- MODULE AlertingProofs ---------------------------
(***************************************************************************)
(* For any tenants, rules, keys and events: the evaluator on its schedule  *)
(* is an evaluator of AlertEvaluation, its alerts are timely, and what     *)
(* crosses a threshold is alerted on.                                      *)
(***************************************************************************)
EXTENDS Alerting, TLAPS

-----------------------------------------------------------------------------
(* Windows.                                                                *)

LEMMA Times ==
    Minute \in Nat \ {0} /\ Lag \in Nat /\ MaxDelay \in Nat /\ MaxRun \in Nat /\ MaxNow \in Nat
BY ScheduleAssumption

LEMMA DivBounds ==
    ASSUME NEW x \in Int, NEW m \in Nat \ {0}
    PROVE  /\ x \div m \in Int
           /\ (x \div m) * m <= x /\ x < (x \div m) * m + m
BY SMTT(60)

LEMMA WindowEndIs ==
    ASSUME NEW t \in Int
    PROVE  /\ WindowEnd(t) \in Int /\ WindowEnd(t) <= t - Lag /\ t - Lag < WindowEnd(t) + Minute
           /\ \E q \in Int : WindowEnd(t) = q * Minute
<1> DEFINE n == (t - Lag) \div Minute
<1>1. n \in Int /\ n * Minute <= t - Lag /\ t - Lag < n * Minute + Minute
  BY Times, DivBounds
<1>2. WindowEnd(t) = n * Minute
  BY DEF WindowEnd
<1> HIDE DEF n
<1>3. n * Minute \in Int
  BY <1>1, Times
<1>4. QED
  BY <1>1, <1>2, <1>3

\* Window ends are a minute apart.
LEMMA EndsApart ==
    ASSUME NEW d \in Int, NEW e \in Int, \E q \in Int : d = q * Minute, \E q \in Int : e = q * Minute,
           d < e + Minute
    PROVE  d <= e
<1>1. PICK p \in Int : d = p * Minute
  OBVIOUS
<1>2. PICK q \in Int : e = q * Minute
  OBVIOUS
<1>3. p * Minute < (q + 1) * Minute
  BY <1>1, <1>2, Times
<1>4. p < q + 1
  BY <1>3, Times
<1>5. p <= q
  BY <1>4
<1>6. p * Minute <= q * Minute
  BY <1>5, Times
<1>7. QED
  BY <1>1, <1>2, <1>6

LEMMA LaterEnds ==
    ASSUME NEW t \in Int, NEW u \in Int, t <= u PROVE WindowEnd(t) <= WindowEnd(u)
<1>1. WindowEnd(t) < WindowEnd(u) + Minute /\ WindowEnd(t) \in Int /\ WindowEnd(u) \in Int
  BY WindowEndIs, Times
<1>2. QED
  BY <1>1, WindowEndIs, EndsApart

LEMMA NextEnd ==
    ASSUME NEW t \in Int PROVE WindowEnd(t + Minute) = WindowEnd(t) + Minute
<1>1. (t + Minute - Lag) \div Minute = (t - Lag) \div Minute + 1
  BY Times, SMTT(30)
<1>2. (t - Lag) \div Minute \in Int
  BY Times
<1>3. QED
  BY <1>1, <1>2, Times DEF WindowEnd

LEMMA EndsAre ==
    ASSUME NEW e \in Ends PROVE e \in Int /\ e <= MaxNow /\ \E q \in Int : e = q * Minute
<1>1. PICK t \in 0 .. MaxNow : e = WindowEnd(t)
  BY DEF Ends
<1>2. t \in Int /\ t <= MaxNow
  BY Times
<1>3. /\ WindowEnd(t) \in Int /\ WindowEnd(t) <= t - Lag
      /\ \E q \in Int : WindowEnd(t) = q * Minute
  BY <1>2, WindowEndIs
<1>4. QED
  BY <1>1, <1>2, <1>3, Times

-----------------------------------------------------------------------------
(* The run and its transaction.                                            *)

Types ==
    /\ rules \in SUBSET Rules /\ events \in SUBSET Events
    /\ alerts \in [E!Firings -> Nat] /\ sent \in [E!Firings -> Nat]
    /\ tx \in [{Process} -> {E!Idle} \cup E!Inserting \cup E!Sending]
    /\ now \in 0 .. MaxNow /\ missed \in [Rules -> Int]

Busy == [pc : {"listing", "running"}, due : Nat, started : Nat, end : Ends,
         tenants : SUBSET Tenants, rules : SUBSET Rules]

\* A run evaluates the windows that ended at its start, and no longer than MaxRun.
JobOk ==
    \/ job = Down
    \/ job \in [pc : {"waiting"}, due : Nat]
    \/ /\ job \in Busy /\ job.rules \subseteq rules /\ job.end = WindowEnd(job.started)
       /\ job.started <= now /\ now - job.started <= MaxRun

\* Only a run has a transaction, of one of its windows.
TxOk ==
    /\ job.pc # "running" => tx[Process] = E!Idle
    /\ tx[Process].pc = "inserting" => tx[Process].end = job.end /\ tx[Process].rule \in rules

SInv == Types /\ JobOk /\ TxOk

LEMMA Pcs ==
    /\ E!Idle.pc = "idle" /\ Down.pc = "down"
    /\ \A x \in E!Inserting : /\ x.pc = "inserting" /\ x.rule \in Rules /\ x.end \in Ends
                              /\ x.todo \in SUBSET Keys /\ x.rows \in SUBSET E!Firings
                              /\ \A f \in x.rows : f.rule = x.rule /\ f.end = x.end
    /\ \A x \in E!Sending : x.pc = "sending" /\ x.rows \in SUBSET E!Firings
BY DEF E!Idle, Down, E!Inserting, E!Sending

LEMMA WaitingIs ==
    ASSUME NEW due PROVE Waiting(due).pc = "waiting" /\ Waiting(due).due = due
BY DEF Waiting

LEMMA JobIs ==
    ASSUME JobOk
    PROVE  /\ job.pc \in {"down", "waiting", "listing", "running"}
           /\ job.pc = "down" <=> job = Down
           /\ job.pc = "waiting" => job \in [pc : {"waiting"}, due : Nat] /\ job.due \in Nat
           /\ Running => /\ job \in Busy /\ job.rules \subseteq rules /\ job.end = WindowEnd(job.started)
                         /\ job.started <= now /\ now - job.started <= MaxRun
                         /\ job.due \in Nat /\ job.started \in Nat /\ job.end \in Ends
                         /\ job.tenants \in SUBSET Tenants /\ job.rules \in SUBSET Rules
BY Pcs DEF JobOk, Running, Busy

LEMMA TxIs ==
    ASSUME Types
    PROVE  /\ tx[Process].pc \in {"idle", "inserting", "sending"}
           /\ tx[Process].pc = "idle" <=> tx[Process] = E!Idle
           /\ tx[Process].pc = "inserting" <=> tx[Process] \in E!Inserting
           /\ tx[Process].pc = "sending" <=> tx[Process] \in E!Sending
<1>1. tx[Process] \in {E!Idle} \cup E!Inserting \cup E!Sending
  BY DEF Types
<1>2. QED
  BY <1>1, Pcs

LEMMA MissKeeps ==
    ASSUME Types, NEW S, NEW e \in Int
    PROVE  /\ Miss(S, e) \in [Rules -> Int]
           /\ \A r \in Rules : Miss(S, e)[r] >= missed[r] /\ (r \in S => Miss(S, e)[r] >= e)
<1>1. \A r \in Rules : missed[r] \in Int
  BY DEF Types
<1>2. QED
  BY <1>1 DEF Miss

LEMMA InitSInv == Init => SInv
<1> SUFFICES ASSUME Init PROVE SInv
  OBVIOUS
<1>1. Types
  BY Times DEF Init, E!Init, Types
<1>2. JobOk /\ TxOk
  BY Pcs DEF Init, E!Init, JobOk, TxOk
<1>3. QED
  BY <1>1, <1>2 DEF SInv

\* The clock, the admins and the collector.
LEMMA AroundKeepsSInv ==
    ASSUME SInv, Advance \/ (\E r \in Rules : CreateRule(r)) \/ \E v \in Events : StoreEvent(v)
    PROVE  SInv'
<1>1. CASE Advance
  <2>1. Types'
    BY <1>1, Times DEF Advance, SInv, Types
  <2>2. JobOk'
    <3>1. CASE Running
      BY <1>1, <3>1, JobIs, Times DEF Advance, SInv, Types, JobOk, Busy
    <3>2. CASE ~Running
      BY <1>1, <3>2, JobIs DEF Advance, SInv, JobOk, Running
    <3>3. QED
      BY <3>1, <3>2
  <2>3. TxOk'
    BY <1>1 DEF Advance, SInv, TxOk
  <2>4. QED
    BY <2>1, <2>2, <2>3 DEF SInv
<1>2. ASSUME NEW r \in Rules, CreateRule(r) PROVE SInv'
  <2>1. /\ rules' = rules \cup {r} /\ UNCHANGED <<events, alerts, tx, sent, now, job>>
        /\ missed' = missed \/ missed' = Miss({r}, WindowEnd(now))
    BY <1>2 DEF CreateRule, E!CreateRule
  <2>2. WindowEnd(now) \in Int
    BY WindowEndIs, Times DEF SInv, Types
  <2>3. Types'
    BY <2>1, <2>2, MissKeeps DEF SInv, Types
  <2>4. JobOk' /\ TxOk'
    BY <2>1, Pcs DEF SInv, JobOk, TxOk
  <2>5. QED
    BY <2>3, <2>4 DEF SInv
<1>3. ASSUME NEW v \in Events, StoreEvent(v) PROVE SInv'
  BY <1>3 DEF StoreEvent, E!StoreEvent, SInv, Types, JobOk, TxOk
<1>4. QED
  BY <1>1, <1>2, <1>3

\* The loop and the run between evaluations.
LEMMA LoopKeepsSInv ==
    ASSUME SInv, Start \/ StartRun \/ ListTenants \/ (\E t \in Tenants : ListRules(t)) \/ FinishRun
    PROVE  SInv'
<1>1. UNCHANGED <<rules, events, alerts, tx, sent, now>>
  BY DEF Start, StartRun, ListTenants, ListRules, FinishRun
<1>2. tx[Process] = E!Idle
  BY Pcs DEF Start, StartRun, ListTenants, ListRules, FinishRun, AtRest, SInv, TxOk
<1>3. TxOk'
  BY <1>1, <1>2, Pcs DEF TxOk
<1>4. now \in Int /\ now \in Nat /\ now \in 0 .. MaxNow /\ WindowEnd(now) \in Int /\ WindowEnd(now) \in Ends
  <2>1. now \in 0 .. MaxNow
    BY DEF SInv, Types
  <2>2. QED
    BY <2>1, WindowEndIs, Times DEF Ends
<1>5. missed' \in [Rules -> Int]
  <2>1. CASE Start
    BY <1>4, <2>1, Times DEF Start
  <2>2. ASSUME NEW t \in Tenants, ListRules(t) PROVE missed' \in [Rules -> Int]
    <3>1. job.end \in Int
      BY <2>2, JobIs, EndsAre DEF ListRules, AtRest, SInv, Running
    <3>2. Miss({r \in Rules : r.tenant = t}, job.end) \in [Rules -> Int]
      BY <3>1, MissKeeps DEF SInv
    <3>3. QED
      BY <2>2, <3>2 DEF ListRules, SInv, Types
  <2>3. CASE StartRun \/ ListTenants \/ FinishRun
    BY <2>3 DEF StartRun, ListTenants, FinishRun, SInv, Types
  <2>4. QED
    BY <2>1, <2>2, <2>3
<1>6. Types'
  BY <1>1, <1>5 DEF SInv, Types
<1>7. JobOk'
  <2>1. CASE Start
    BY <1>4, <2>1 DEF Start, Waiting, JobOk
  <2>2. CASE StartRun
    <3>1. job.due \in Nat
      BY <2>2, JobIs DEF StartRun, SInv
    <3>2. job.due + Minute * (1 + (now - job.due) \div Minute) \in Nat
      <4>1. now - job.due \in Nat
        BY <1>4, <2>2, <3>1 DEF StartRun
      <4>2. (now - job.due) \div Minute \in Nat
        BY <4>1, Times, SMTT(30)
      <4>3. \A n \in Nat : Minute * (1 + n) \in Nat
        BY Times
      <4>4. QED
        BY <3>1, <4>2, <4>3
    <3> DEFINE next == job.due + Minute * (1 + (now - job.due) \div Minute)
    <3>3. job' = [pc |-> "listing", due |-> next, started |-> now, end |-> WindowEnd(now),
                  tenants |-> {}, rules |-> {}]
      BY <2>2 DEF StartRun, Run
    <3> HIDE DEF next
    <3>4. job' \in Busy
      BY <1>4, <3>2, <3>3 DEF Busy, next
    <3>5. /\ job'.started = now /\ job'.end = WindowEnd(now) /\ job'.rules = {}
      BY <3>3
    <3>6. QED
      BY <1>1, <1>4, <3>4, <3>5, Times DEF JobOk
  <2>3. CASE ListTenants
    <3>1. job \in Busy
      BY <2>3, JobIs DEF ListTenants, SInv, Running
    <3>2. job' = [job EXCEPT !.pc = "running", !.tenants = Tenants]
      BY <2>3 DEF ListTenants
    <3>3. job' \in Busy /\ job'.rules = job.rules /\ job'.started = job.started /\ job'.end = job.end
      BY <3>1, <3>2 DEF Busy
    <3>4. QED
      BY <1>1, <2>3, <3>3, JobIs DEF JobOk, SInv, ListTenants, Running
  <2>4. ASSUME NEW t \in Tenants, ListRules(t) PROVE JobOk'
    <3>1. job \in Busy /\ Running /\ rules \in SUBSET Rules
      BY <2>4, JobIs DEF ListRules, AtRest, SInv, Running, Types
    <3>2. \/ job' = [job EXCEPT !.tenants = @ \ {t}, !.rules = {r \in rules : r.tenant = t}]
          \/ job' = [job EXCEPT !.tenants = @ \ {t}]
      BY <2>4 DEF ListRules
    <3>3. /\ job' \in Busy /\ job'.started = job.started /\ job'.end = job.end
          /\ job'.rules = job.rules \/ job'.rules \subseteq rules
      BY <3>1, <3>2 DEF Busy
    <3>4. QED
      BY <1>1, <3>1, <3>3, JobIs DEF JobOk, SInv
  <2>5. CASE FinishRun
    BY <2>5, JobIs DEF FinishRun, AtRest, Waiting, JobOk, SInv, Running
  <2>6. QED
    BY <2>1, <2>2, <2>3, <2>4, <2>5
<1>8. QED
  BY <1>3, <1>6, <1>7 DEF SInv

\* A transaction begins, goes on or ends.
LEMMA NewTx ==
    ASSUME Types, NEW x \in {E!Idle} \cup E!Inserting \cup E!Sending, tx' = [tx EXCEPT ![Process] = x]
    PROVE  tx' \in [{Process} -> {E!Idle} \cup E!Inserting \cup E!Sending] /\ tx'[Process] = x
BY DEF Types

LEMMA RecordIs ==
    ASSUME SInv, E!Record(Process)
    PROVE  /\ tx[Process] \in E!Inserting /\ alerts' \in [E!Firings -> Nat]
           /\ \A f \in E!Firings : /\ f \in tx[Process].rows => alerts'[f] = alerts[f] + 1
                                   /\ f \notin tx[Process].rows => alerts'[f] = alerts[f]
<1>1. tx[Process] \in E!Inserting
  BY TxIs DEF SInv, E!Record
<1>2. \A f \in E!Firings : alerts[f] \in Nat
  BY DEF SInv, Types
<1>3. QED
  BY <1>1, <1>2 DEF E!Record

LEMMA GiveUpIs ==
    ASSUME SInv, GiveUp
    PROVE  /\ UNCHANGED <<rules, events, alerts, sent>> /\ tx'[Process] = E!Idle
           /\ tx' \in [{Process} -> {E!Idle} \cup E!Inserting \cup E!Sending]
<1>1. CASE tx[Process] = E!Idle /\ UNCHANGED <<rules, events, alerts, tx, sent>>
  BY <1>1 DEF SInv, Types
<1>2. CASE E!Abort(Process) \/ E!StopSending(Process)
  BY <1>2, NewTx DEF SInv, E!Abort, E!StopSending
<1>3. QED
  BY <1>1, <1>2 DEF GiveUp

LEMMA LostCommitIs ==
    ASSUME SInv, E!CommitUnacknowledged(Process)
    PROVE  /\ E!Record(Process) /\ UNCHANGED <<rules, events, sent>> /\ tx'[Process] = E!Idle
           /\ tx' \in [{Process} -> {E!Idle} \cup E!Inserting \cup E!Sending]
BY NewTx DEF SInv, E!CommitUnacknowledged

LEMMA EvaluateIs ==
    ASSUME SInv, NEW r \in Rules, Evaluate(r)
    PROVE  /\ UNCHANGED <<rules, events, alerts, sent, now, missed>> /\ job' = [job EXCEPT !.rules = @ \ {r}]
           /\ Running /\ job.pc = "running" /\ tx[Process] = E!Idle /\ r \in rules /\ r \in job.rules
           /\ tx' \in [{Process} -> {E!Idle} \cup E!Inserting \cup E!Sending]
           /\ tx'[Process] = [pc |-> "inserting", rule |-> r, end |-> job.end,
                              todo |-> E!Due(r, job.end), rows |-> {}]
<1>1. job.end \in Ends
  BY JobIs DEF Evaluate, AtRest, SInv, Running
<1> DEFINE x == [pc |-> "inserting", rule |-> r, end |-> job.end, todo |-> E!Due(r, job.end), rows |-> {}]
<1>2. E!Due(r, job.end) \in SUBSET Keys
  BY DEF E!Due
<1>3. x \in E!Inserting
  BY <1>1, <1>2 DEF E!Inserting
<1>4. tx' = [tx EXCEPT ![Process] = x]
  BY DEF Evaluate, E!Count
<1>5. tx' \in [{Process} -> {E!Idle} \cup E!Inserting \cup E!Sending] /\ tx'[Process] = x
  BY <1>3, <1>4, NewTx DEF SInv
<1>6. QED
  BY <1>5 DEF Evaluate, AtRest, E!Count, Running

LEMMA InsertRowIs ==
    ASSUME SInv, NEW k \in Keys, E!InsertRow(Process, k)
    PROVE  LET f == [rule |-> tx[Process].rule, key |-> k, end |-> tx[Process].end]
           IN  /\ UNCHANGED <<rules, events, alerts, sent>> /\ tx[Process] \in E!Inserting
               /\ tx' \in [{Process} -> {E!Idle} \cup E!Inserting \cup E!Sending]
               /\ f \in E!Firings /\ tx'[Process].pc = "inserting"
               /\ tx'[Process].rule = tx[Process].rule /\ tx'[Process].end = tx[Process].end
               /\ tx'[Process].todo = tx[Process].todo \ {k}
               /\ tx'[Process].rows = IF alerts[f] > 0 THEN tx[Process].rows ELSE tx[Process].rows \cup {f}
<1> DEFINE x == tx[Process]
           f == [rule |-> x.rule, key |-> k, end |-> x.end]
           y == [x EXCEPT !.todo = @ \ {k}, !.rows = IF alerts[f] > 0 THEN @ ELSE @ \cup {f}]
<1>1. x \in E!Inserting
  BY TxIs DEF SInv, E!InsertRow
<1>2. f \in E!Firings
  BY <1>1 DEF E!Firings, E!Inserting
<1>3. y \in E!Inserting
  <2>1. \A T \in SUBSET Keys : \A R \in SUBSET E!Firings :
            (\A g \in R : g.rule = x.rule /\ g.end = x.end) =>
                [x EXCEPT !.todo = T, !.rows = R] \in E!Inserting
    BY <1>1 DEF E!Inserting
  <2> DEFINE T == x.todo \ {k}
             R == IF alerts[f] > 0 THEN x.rows ELSE x.rows \cup {f}
  <2>2. T \in SUBSET Keys /\ R \in SUBSET E!Firings
    BY <1>1, <1>2, Pcs
  <2>3. \A g \in R : g.rule = x.rule /\ g.end = x.end
    BY <1>1, Pcs
  <2>4. y = [x EXCEPT !.todo = T, !.rows = R]
    OBVIOUS
  <2> HIDE DEF T, R
  <2>5. QED
    BY <2>1, <2>2, <2>3, <2>4
<1>4. tx' = [tx EXCEPT ![Process] = y]
  BY DEF E!InsertRow, E!Recorded, SInv, Types
<1>5. tx' \in [{Process} -> {E!Idle} \cup E!Inserting \cup E!Sending] /\ tx'[Process] = y
  BY <1>3, <1>4, NewTx DEF SInv
<1>6. /\ y.pc = "inserting" /\ y.rule = x.rule /\ y.end = x.end /\ y.todo = x.todo \ {k}
      /\ y.rows = IF alerts[f] > 0 THEN x.rows ELSE x.rows \cup {f}
  BY <1>1 DEF E!Inserting
<1>7. QED
  BY <1>1, <1>2, <1>5, <1>6 DEF E!InsertRow

LEMMA CommitIs ==
    ASSUME SInv, E!Commit(Process)
    PROVE  /\ E!Record(Process) /\ UNCHANGED <<rules, events, sent>>
           /\ tx' \in [{Process} -> {E!Idle} \cup E!Inserting \cup E!Sending]
           /\ tx'[Process].pc # "inserting"
<1>1. tx[Process] \in E!Inserting
  BY RecordIs DEF E!Commit
<1>2. ASSUME tx[Process].rule.webhook PROVE [pc |-> "sending", rows |-> tx[Process].rows] \in E!Sending
  BY <1>1, <1>2 DEF E!Sending, E!Inserting
<1> DEFINE x == IF tx[Process].rule.webhook /\ tx[Process].rows # {}
                THEN [pc |-> "sending", rows |-> tx[Process].rows] ELSE E!Idle
<1>3. x \in {E!Idle} \cup E!Sending
  BY <1>2
<1>4. tx' = [tx EXCEPT ![Process] = x]
  BY DEF E!Commit
<1>5. tx' \in [{Process} -> {E!Idle} \cup E!Inserting \cup E!Sending] /\ tx'[Process] = x
  BY <1>3, <1>4, NewTx DEF SInv
<1>6. x.pc # "inserting"
  BY <1>3, Pcs
<1>7. QED
  BY <1>5, <1>6 DEF E!Commit

LEMMA DeliverIs ==
    ASSUME SInv, NEW f \in E!Firings, E!Deliver(Process, f)
    PROVE  /\ UNCHANGED <<rules, events, alerts>> /\ sent' \in [E!Firings -> Nat]
           /\ tx[Process].pc = "sending"
           /\ tx' \in [{Process} -> {E!Idle} \cup E!Inserting \cup E!Sending]
           /\ tx'[Process].pc # "inserting"
<1>1. tx[Process] \in E!Sending
  BY TxIs DEF SInv, E!Deliver
<1>2. [pc |-> "sending", rows |-> tx[Process].rows \ {f}] \in E!Sending
  BY <1>1 DEF E!Sending
<1> DEFINE x == IF tx[Process].rows = {f} THEN E!Idle ELSE [pc |-> "sending", rows |-> tx[Process].rows \ {f}]
<1>3. x \in {E!Idle} \cup E!Sending
  BY <1>2
<1>4. tx' = [tx EXCEPT ![Process] = x]
  BY DEF E!Deliver
<1>5. tx' \in [{Process} -> {E!Idle} \cup E!Inserting \cup E!Sending] /\ tx'[Process] = x
  BY <1>3, <1>4, NewTx DEF SInv
<1>6. x.pc # "inserting"
  BY <1>3, Pcs
<1>7. sent' \in [E!Firings -> Nat]
  BY DEF E!Deliver, SInv, Types
<1>8. QED
  BY <1>5, <1>6, <1>7 DEF E!Deliver

\* The evaluation of a rule.
LEMMA EvaluationKeepsSInv ==
    ASSUME SInv, (\E r \in Rules : Evaluate(r)) \/ Proceed \/ EvaluateFails PROVE SInv'
<1>1. ASSUME NEW r \in Rules, Evaluate(r) PROVE SInv'
  <2>1. Types'
    BY <1>1, EvaluateIs DEF SInv, Types
  <2>2. job \in Busy /\ job' = [job EXCEPT !.rules = @ \ {r}]
    BY <1>1, EvaluateIs, JobIs DEF SInv
  <2>3. /\ job' \in Busy /\ job'.pc = job.pc /\ job'.rules \subseteq job.rules
        /\ job'.started = job.started /\ job'.end = job.end
    BY <2>2 DEF Busy
  <2>4. JobOk'
    BY <1>1, <2>3, EvaluateIs, JobIs DEF SInv, JobOk
  <2>5. /\ tx'[Process].pc = "inserting" /\ tx'[Process].end = job.end /\ tx'[Process].rule = r
        /\ r \in rules /\ rules' = rules /\ job.pc = "running"
    <3>1. tx'[Process] = [pc |-> "inserting", rule |-> r, end |-> job.end,
                          todo |-> E!Due(r, job.end), rows |-> {}]
      BY <1>1, EvaluateIs
    <3>2. r \in rules /\ rules' = rules /\ job.pc = "running"
      BY <1>1, EvaluateIs
    <3>3. QED
      BY <3>1, <3>2
  <2>6. TxOk'
    BY <2>3, <2>5 DEF TxOk
  <2>7. QED
    BY <2>1, <2>4, <2>6 DEF SInv
<1>2. CASE Proceed
  <2>1. UNCHANGED <<rules, events, now, job, missed>>
    BY <1>2 DEF Proceed, E!InsertRow, E!Commit, E!CommitUnacknowledged, E!Deliver
  <2>2. JobOk'
    BY <2>1 DEF SInv, JobOk
  <2>3. ASSUME NEW k \in Keys, E!InsertRow(Process, k) PROVE Types' /\ TxOk'
    BY <2>1, <2>3, InsertRowIs, Pcs DEF SInv, Types, TxOk
  <2>4. CASE E!Commit(Process)
    <3>1. alerts' \in [E!Firings -> Nat]
      BY <2>4, RecordIs DEF E!Commit
    <3>2. tx[Process].pc = "inserting"
      BY <2>4 DEF E!Commit, E!Record
    <3>3. QED
      BY <2>1, <2>2, <2>4, <3>1, <3>2, CommitIs, Pcs DEF SInv, Types, TxOk
  <2>5. CASE E!CommitUnacknowledged(Process)
    <3>1. alerts' \in [E!Firings -> Nat]
      BY <2>5, RecordIs DEF E!CommitUnacknowledged
    <3>2. QED
      BY <2>1, <2>2, <2>5, <3>1, LostCommitIs, Pcs DEF SInv, Types, TxOk
  <2>6. ASSUME NEW f \in E!Firings, E!Deliver(Process, f) PROVE Types' /\ TxOk'
    BY <2>1, <2>6, DeliverIs, Pcs DEF SInv, Types, TxOk
  <2>7. QED
    BY <1>2, <2>2, <2>3, <2>4, <2>5, <2>6 DEF Proceed, SInv
<1>3. CASE EvaluateFails
  <2>1. /\ UNCHANGED <<rules, events, alerts, sent, now, job>> /\ tx[Process].pc = "inserting"
        /\ tx' = [tx EXCEPT ![Process] = E!Idle] /\ missed' = Miss({tx[Process].rule}, job.end)
    BY <1>3 DEF EvaluateFails, E!Abort
  <2>2. /\ tx' \in [{Process} -> {E!Idle} \cup E!Inserting \cup E!Sending] /\ tx'[Process] = E!Idle
    BY <2>1, NewTx DEF SInv
  <2>3. job.end \in Int
    <3>1. Running
      BY <2>1, Pcs DEF SInv, TxOk, Running
    <3>2. QED
      BY <3>1, JobIs, EndsAre DEF SInv
  <2>4. missed' \in [Rules -> Int]
    BY <2>1, <2>3, MissKeeps DEF SInv
  <2>5. Types'
    BY <2>1, <2>2, <2>4 DEF SInv, Types
  <2>6. JobOk' /\ TxOk'
    BY <2>1, <2>2, Pcs DEF SInv, JobOk, TxOk
  <2>7. QED
    BY <2>5, <2>6 DEF SInv
<1>4. QED
  BY <1>1, <1>2, <1>3

\* A run or the process ends.
LEMMA EndKeepsSInv ==
    ASSUME SInv, RunFails \/ Stop PROVE SInv'
<1>1. CASE RunFails
  <2>1. UNCHANGED <<rules, events, alerts, sent, now>> /\ tx'[Process] = E!Idle
        /\ tx' \in [{Process} -> {E!Idle} \cup E!Inserting \cup E!Sending]
    BY <1>1, GiveUpIs DEF RunFails
  <2>2. job.due \in Nat /\ job.end \in Int
    BY <1>1, JobIs, EndsAre DEF RunFails, SInv
  <2>3. missed' \in [Rules -> Int]
    <3>1. Miss(Left, job.end) \in [Rules -> Int]
      BY <2>2, MissKeeps DEF SInv
    <3>2. QED
      BY <1>1, <3>1 DEF RunFails
  <2>4. Types'
    BY <2>1, <2>3 DEF SInv, Types
  <2>5. job' \in [pc : {"waiting"}, due : Nat]
    BY <1>1, <2>2 DEF RunFails, Waiting
  <2>6. JobOk' /\ TxOk'
    BY <2>1, <2>5, Pcs DEF JobOk, TxOk
  <2>7. QED
    BY <2>4, <2>6 DEF SInv
<1>2. CASE Stop
  <2>1. /\ UNCHANGED <<rules, events, sent, now>> /\ tx'[Process] = E!Idle
        /\ tx' \in [{Process} -> {E!Idle} \cup E!Inserting \cup E!Sending]
        /\ alerts' \in [E!Firings -> Nat]
    <3>1. CASE GiveUp
      BY <1>2, <3>1, GiveUpIs DEF Stop, SInv, Types
    <3>2. CASE E!CommitUnacknowledged(Process)
      BY <1>2, <3>2, LostCommitIs, RecordIs DEF Stop
    <3>3. QED
      BY <1>2, <3>1, <3>2 DEF Stop
  <2>2. job' = Down /\ missed' = [r \in Rules |-> MaxNow]
    BY <1>2 DEF Stop
  <2>3. missed' \in [Rules -> Int]
    BY <2>2, Times
  <2>4. Types'
    BY <2>1, <2>3 DEF SInv, Types
  <2>5. JobOk' /\ TxOk'
    BY <2>1, <2>2, Pcs DEF JobOk, TxOk
  <2>6. QED
    BY <2>4, <2>5 DEF SInv
<1>3. QED
  BY <1>1, <1>2

LEMMA NextKeepsSInv == SInv /\ [Next]_vars => SInv'
<1> SUFFICES ASSUME SInv, [Next]_vars PROVE SInv'
  OBVIOUS
<1>1. CASE UNCHANGED vars
  BY <1>1 DEF vars, SInv, Types, JobOk, TxOk
<1>2. CASE Next
  BY <1>2, AroundKeepsSInv, LoopKeepsSInv, EvaluationKeepsSInv, EndKeepsSInv DEF Next
<1>3. QED
  BY <1>1, <1>2

LEMMA AlwaysSInv == Spec => []SInv
BY InitSInv, NextKeepsSInv, PTL DEF Spec

\* TypeOK always holds: a transaction is open, and firings are being sent, only
\* in a run, and a run evaluates only rules that exist (Evaluator.Run).
THEOREM TypeCorrect == Spec => []TypeOK
<1>1. SInv => TypeOK
  <2> SUFFICES ASSUME SInv PROVE TypeOK
    OBVIOUS
  <2>1. E!TypeOK /\ now \in 0 .. MaxNow /\ missed \in [Rules -> Int]
    BY DEF SInv, Types, E!TypeOK
  <2>2. \/ job = Down
        \/ job \in [pc : {"waiting"}, due : Nat]
        \/ job \in [pc : {"listing", "running"}, due : Nat, started : 0 .. now, end : Ends,
                    tenants : SUBSET Tenants, rules : SUBSET rules]
    <3>1. ASSUME job \in Busy, job.rules \subseteq rules, job.started <= now
          PROVE  job \in [pc : {"listing", "running"}, due : Nat, started : 0 .. now, end : Ends,
                          tenants : SUBSET Tenants, rules : SUBSET rules]
      <4>1. now \in Int
        BY <2>1
      <4>2. job.started \in 0 .. now
        BY <3>1, <4>1 DEF Busy
      <4>3. QED
        BY <3>1, <4>2 DEF Busy
    <3>2. QED
      BY <3>1 DEF SInv, JobOk
  <2>3. ~Running => tx[Process] = E!Idle
    BY DEF SInv, TxOk, Running
  <2>4. QED
    BY <2>1, <2>2, <2>3 DEF TypeOK
<1>2. QED
  BY <1>1, AlwaysSInv, PTL

-----------------------------------------------------------------------------
(* An evaluator on a schedule is an evaluator.                             *)

LEMMA StepImplements == SInv /\ [Next]_vars => [E!Next]_(E!vars)
<1> SUFFICES ASSUME SInv, [Next]_vars PROVE [E!Next]_(E!vars)
  OBVIOUS
<1>1. CASE \/ UNCHANGED vars \/ Advance \/ Start \/ StartRun \/ ListTenants
           \/ (\E t \in Tenants : ListRules(t)) \/ FinishRun
  BY <1>1 DEF vars, E!vars, Advance, Start, StartRun, ListTenants, ListRules, FinishRun
<1>2. CASE (\E r \in Rules : CreateRule(r)) \/ \E v \in Events : StoreEvent(v)
  BY <1>2 DEF CreateRule, StoreEvent, E!Next
<1>3. ASSUME NEW r \in Rules, Evaluate(r) PROVE E!Next
  <2>1. job.end \in Ends
    BY <1>3, EvaluateIs, JobIs DEF SInv
  <2>2. E!Count(Process, r, job.end)
    BY <1>3 DEF Evaluate
  <2>3. QED
    BY <2>1, <2>2 DEF E!Next
<1>4. CASE Proceed \/ EvaluateFails
  BY <1>4 DEF Proceed, EvaluateFails, E!Next
<1>5. CASE RunFails \/ Stop
  BY <1>5 DEF RunFails, Stop, GiveUp, E!Next, E!vars
<1>6. QED
  BY <1>1, <1>2, <1>3, <1>4, <1>5 DEF Next

\* Whatever the ticker, the failures of a run and the stops of the process do,
\* the evaluator does to rules, alerts and webhooks only what AlertEvaluation
\* lets an evaluator do (Evaluator.Run, jobs.loop): what is proved of one
\* evaluator there holds of it.
THEOREM IsAnEvaluator == Spec => E!Spec
<1>1. Init => E!Init
  BY DEF Init
<1>2. QED
  BY <1>1, AlwaysSInv, StepImplements, PTL DEF Spec, E!Spec

-----------------------------------------------------------------------------
(* Timeliness.                                                             *)

\* A run that is evaluating a rule does so at most MaxRun after its start, and
\* the window it evaluates had ended Lag before that start.
LEMMA RunIsTimely ==
    ASSUME SInv, tx[Process].pc = "inserting"
    PROVE  now - tx[Process].end \in Lag .. Lag + Minute + MaxRun - 1
<1>1. Running /\ tx[Process].end = job.end
  BY Pcs DEF SInv, TxOk, Running
<1>2. /\ job.end = WindowEnd(job.started) /\ job.started \in Int
      /\ job.started <= now /\ now - job.started <= MaxRun
  BY <1>1, JobIs DEF SInv
<1>3. /\ WindowEnd(job.started) \in Int /\ WindowEnd(job.started) <= job.started - Lag
      /\ job.started - Lag < WindowEnd(job.started) + Minute
  BY <1>2, WindowEndIs
<1>4. now \in Int
  BY Times DEF SInv, Types
<1>5. QED
  BY <1>1, <1>2, <1>3, <1>4, Times

LEMMA OnlyRecordsAlert ==
    ASSUME SInv, [Next]_vars
    PROVE  UNCHANGED alerts \/ E!Record(Process)
<1>1. CASE Proceed
  BY <1>1 DEF Proceed, E!InsertRow, E!Commit, E!CommitUnacknowledged, E!Deliver
<1>2. CASE RunFails \/ Stop
  BY <1>2, GiveUpIs DEF RunFails, Stop, E!CommitUnacknowledged
<1>3. CASE \/ UNCHANGED vars \/ Advance \/ Start \/ StartRun \/ ListTenants
           \/ (\E t \in Tenants : ListRules(t)) \/ FinishRun \/ EvaluateFails
  BY <1>3 DEF vars, Advance, Start, StartRun, ListTenants, ListRules, FinishRun, EvaluateFails, E!Abort
<1>4. CASE \/ (\E r \in Rules : CreateRule(r)) \/ (\E v \in Events : StoreEvent(v))
           \/ (\E r \in Rules : Evaluate(r))
  BY <1>4 DEF CreateRule, StoreEvent, Evaluate, E!CreateRule, E!StoreEvent, E!Count
<1>5. QED
  BY <1>1, <1>2, <1>3, <1>4 DEF Next

\* Timely always holds: however late a run is or long it takes, an alert's
\* window ended at least Lag ago and at most Lag, a minute and a run.
THEOREM AlertsAlwaysTimely == Spec => Timely
<1>1. SInv /\ [Next]_vars =>
        [\A f \in E!Firings : alerts'[f] > alerts[f] =>
            now - f.end \in Lag .. Lag + Minute + MaxRun - 1]_alerts
  <2> SUFFICES ASSUME SInv, [Next]_vars, alerts' # alerts, NEW f \in E!Firings, alerts'[f] > alerts[f]
               PROVE  now - f.end \in Lag .. Lag + Minute + MaxRun - 1
    OBVIOUS
  <2>1. E!Record(Process)
    BY OnlyRecordsAlert
  <2>2. tx[Process] \in E!Inserting /\ f \in tx[Process].rows
    <3>1. tx[Process] \in E!Inserting /\ (f \notin tx[Process].rows => alerts'[f] = alerts[f])
      BY <2>1, RecordIs
    <3>2. alerts[f] \in Nat
      BY DEF SInv, Types
    <3>3. QED
      BY <3>1, <3>2
  <2>3. f.end = tx[Process].end /\ tx[Process].pc = "inserting"
    BY <2>2, Pcs
  <2>4. QED
    BY <2>3, RunIsTimely
<1>2. QED
  BY <1>1, AlwaysSInv, PTL DEF Spec, Timely

-----------------------------------------------------------------------------
(* Detection: runs start a minute apart and end before the next is due, so *)
(* each window is evaluated once nothing can be stored in it any more.     *)

Prompt == MaxDelay <= Lag /\ MaxRun < Minute

\* What Detected calls enough events, and an alert for them.
Crossed(r, k, e) == Cardinality(E!Matched(r, k, e)) >= r.threshold
Alerted(r, k, e) ==
    \E f \in E!Firings : alerts[f] > 0 /\ f.rule = r /\ f.key = k
                         /\ (f.end = e \/ f.end \in e - r.cooldown + 1 .. e)

\* The evaluator is done with r over the window that ends at e.
Seen(r, e) ==
    \/ job.pc = "waiting" /\ e < WindowEnd(job.due)
    \/ Running /\ (e < job.end \/ (e = job.end /\ r \notin Left))

OnTime ==
    /\ job.pc = "waiting" => now <= job.due /\ job.due <= now + Minute
    /\ Running => job.due = job.started + Minute
    /\ job = Down => \A r \in Rules : missed[r] = MaxNow

\* No alert is of a window the evaluator has not come to.
PastOk ==
    \A f \in E!Firings : alerts[f] > 0 =>
        (IF Running THEN f.end <= job.end ELSE f.end <= WindowEnd(now))

SeenOk ==
    \A r \in rules : \A k \in Keys : \A e \in Ends :
        e > missed[r] /\ Seen(r, e) /\ Crossed(r, k, e) => Alerted(r, k, e)

\* A group that has crossed is still to insert, is inserted, or is alerted on.
Taken(x, k) ==
    Crossed(x.rule, k, x.end) =>
        k \in x.todo \/ [rule |-> x.rule, key |-> k, end |-> x.end] \in x.rows \/ Alerted(x.rule, k, x.end)
TakenOk == tx[Process].pc = "inserting" => \A k \in Keys : Taken(tx[Process], k)

DInv == OnTime /\ PastOk /\ SeenOk /\ TakenOk

LEMMA AlertsAreSInt ==
    ASSUME Types PROVE \A f \in E!Firings : alerts[f] \in Nat /\ f.end \in Int /\ f.end \in Ends
BY EndsAre DEF Types, E!Firings

LEMMA NowIs ==
    ASSUME Types PROVE now \in 0 .. MaxNow /\ now \in Int /\ WindowEnd(now) \in Int /\ WindowEnd(now) \in Ends
<1>1. now \in 0 .. MaxNow /\ now \in Int
  BY Times DEF Types
<1>2. QED
  BY <1>1, WindowEndIs DEF Ends

\* The windows that are done with have ended Lag ago.
LEMMA SeenIsPast ==
    ASSUME SInv, OnTime, NEW r, NEW e \in Ends, Seen(r, e)
    PROVE  e <= WindowEnd(now) /\ e <= now - Lag
<1>1. now \in Int /\ WindowEnd(now) \in Int /\ e \in Int /\ WindowEnd(now) <= now - Lag
  BY NowIs, WindowEndIs, EndsAre DEF SInv
<1>2. ASSUME job.pc = "waiting", e < WindowEnd(job.due) PROVE e <= WindowEnd(now)
  <2>1. job.due \in Int /\ job.due - Minute \in Int /\ job.due - Minute <= now
        /\ (job.due - Minute) + Minute = job.due
    BY <1>1, <1>2, JobIs, Times DEF SInv, OnTime
  <2>2. WindowEnd(job.due) = WindowEnd(job.due - Minute) + Minute
    BY <2>1, NextEnd
  <2>3. WindowEnd(job.due - Minute) \in Int /\ \E q \in Int : WindowEnd(job.due - Minute) = q * Minute
    BY <2>1, WindowEndIs
  <2>4. e <= WindowEnd(job.due - Minute)
    BY <1>1, <1>2, <2>2, <2>3, EndsAre, EndsApart
  <2>5. WindowEnd(job.due - Minute) <= WindowEnd(now)
    BY <1>1, <2>1, LaterEnds
  <2>6. QED
    BY <1>1, <2>3, <2>4, <2>5
<1>3. ASSUME Running, e <= job.end PROVE e <= WindowEnd(now)
  <2>1. job.started \in Int /\ job.started <= now /\ job.end = WindowEnd(job.started) /\ job.end \in Int
    BY <1>3, JobIs, EndsAre DEF SInv
  <2>2. job.end <= WindowEnd(now)
    BY <1>1, <2>1, LaterEnds
  <2>3. QED
    BY <1>1, <1>3, <2>1, <2>2
<1>4. e <= WindowEnd(now)
  <2>1. CASE Running
    <3>1. job.end \in Int
      BY <2>1, JobIs, EndsAre DEF SInv
    <3>2. QED
      BY <1>1, <1>3, <2>1, <3>1 DEF Seen, Running
  <2>2. CASE ~Running
    BY <1>2, <2>2 DEF Seen
  <2>3. QED
    BY <2>1, <2>2
<1>5. QED
  BY <1>1, <1>4, Times

\* What keeps SeenOk: nothing more is done with, nothing more has crossed and
\* no alert is withdrawn.
LEMMA SeenKeeps ==
    ASSUME SeenOk,
           \A r \in rules' : \A e \in Ends :
               e > missed'[r] /\ Seen(r, e)' => r \in rules /\ e > missed[r] /\ Seen(r, e),
           UNCHANGED events, \A f \in E!Firings : alerts[f] > 0 => alerts'[f] > 0
    PROVE  SeenOk'
<1> SUFFICES ASSUME NEW r \in rules', NEW k \in Keys, NEW e \in Ends,
                    e > missed'[r], Seen(r, e)', Crossed(r, k, e)'
             PROVE  Alerted(r, k, e)'
  BY DEF SeenOk
<1>1. r \in rules /\ e > missed[r] /\ Seen(r, e)
  OBVIOUS
<1>2. Crossed(r, k, e)
  BY DEF Crossed, E!Matched
<1>3. Alerted(r, k, e)
  BY <1>1, <1>2 DEF SeenOk
<1>4. QED
  BY <1>3 DEF Alerted

LEMMA TakenKeeps ==
    ASSUME TakenOk, UNCHANGED <<events, tx>>, \A f \in E!Firings : alerts[f] > 0 => alerts'[f] > 0
    PROVE  TakenOk'
<1> SUFFICES ASSUME tx[Process].pc = "inserting", NEW k \in Keys PROVE Taken(tx[Process], k)'
  BY DEF TakenOk
<1>1. Taken(tx[Process], k)
  BY DEF TakenOk
<1>2. Crossed(tx[Process].rule, k, tx[Process].end)' => Crossed(tx[Process].rule, k, tx[Process].end)
  BY DEF Crossed, E!Matched
<1>3. Alerted(tx[Process].rule, k, tx[Process].end) => Alerted(tx[Process].rule, k, tx[Process].end)'
  BY DEF Alerted
<1>4. QED
  BY <1>1, <1>2, <1>3 DEF Taken

LEMMA InitDInv == Init => DInv
<1> SUFFICES ASSUME Init PROVE DInv
  OBVIOUS
<1>1. job = Down /\ tx[Process] = E!Idle /\ rules = {} /\ alerts = [f \in E!Firings |-> 0]
      /\ missed = [r \in Rules |-> MaxNow]
  BY DEF Init, E!Init
<1>2. OnTime
  BY <1>1, Pcs DEF OnTime, Running
<1>3. PastOk /\ SeenOk
  BY <1>1 DEF PastOk, SeenOk
<1>4. TakenOk
  BY <1>1, Pcs DEF TakenOk
<1>5. QED
  BY <1>2, <1>3, <1>4 DEF DInv

\* The clock: a run ends before the next is due, and the loop waits for no
\* tick that has passed.
LEMMA AdvanceKeepsDInv == ASSUME SInv, DInv, Advance PROVE DInv'
<1>1. UNCHANGED <<rules, events, alerts, tx, sent, job, missed>> /\ now' = now + 1
      /\ (job.pc = "waiting" => now < job.due)
  BY DEF Advance
<1>2. now \in Int /\ WindowEnd(now) \in Int /\ WindowEnd(now') \in Int /\ WindowEnd(now) <= WindowEnd(now')
  BY <1>1, NowIs, WindowEndIs, LaterEnds DEF SInv
<1>3. OnTime'
  <2>1. CASE job.pc = "waiting"
    <3>1. job.due \in Int /\ now < job.due /\ job.due <= now + Minute
      BY <1>1, <2>1, JobIs DEF SInv, DInv, OnTime
    <3>2. now + 1 <= job.due /\ job.due <= (now + 1) + Minute
      BY <1>2, <3>1, Times
    <3>3. job # Down /\ ~Running
      BY <2>1, Pcs DEF Running
    <3>4. QED
      BY <1>1, <3>2, <3>3 DEF OnTime, Running
  <2>2. CASE job.pc # "waiting"
    BY <1>1, <2>2 DEF DInv, OnTime, Running
  <2>3. QED
    BY <2>1, <2>2
<1>4. PastOk'
  <2> SUFFICES ASSUME NEW f \in E!Firings, alerts[f] > 0
               PROVE  IF Running THEN f.end <= job.end ELSE f.end <= WindowEnd(now')
    BY <1>1 DEF PastOk, Running, WindowEnd
  <2>1. f.end \in Int
    BY AlertsAreSInt DEF SInv
  <2>2. IF Running THEN f.end <= job.end ELSE f.end <= WindowEnd(now)
    BY DEF DInv, PastOk
  <2>3. QED
    BY <1>2, <2>1, <2>2
<1>5. SeenOk'
  BY <1>1, SeenKeeps DEF DInv, Seen, Running, Left
<1>6. TakenOk'
  BY <1>1, TakenKeeps DEF DInv
<1>7. QED
  BY <1>3, <1>4, <1>5, <1>6 DEF DInv

\* A rule that is created now is only expected to be evaluated from the next
\* window on.
LEMMA CreateRuleKeepsDInv == ASSUME SInv, DInv, NEW r \in Rules, CreateRule(r) PROVE DInv'
<1>1. /\ rules' = rules \cup {r} /\ UNCHANGED <<events, alerts, tx, sent, now, job>>
      /\ IF job = Down THEN missed' = missed ELSE missed' = Miss({r}, WindowEnd(now))
  BY DEF CreateRule, E!CreateRule
<1>2. WindowEnd(now) \in Int /\ \A q \in Rules : missed[q] \in Int
  BY NowIs DEF SInv, Types
<1>3. OnTime' /\ PastOk'
  BY <1>1 DEF DInv, OnTime, PastOk, Running
<1>4. \A q \in rules' : \A e \in Ends :
        e > missed'[q] /\ Seen(q, e)' => q \in rules /\ e > missed[q] /\ Seen(q, e)
  <2> SUFFICES ASSUME NEW q \in rules', NEW e \in Ends, e > missed'[q], Seen(q, e)'
               PROVE  q \in rules /\ e > missed[q] /\ Seen(q, e)
    OBVIOUS
  <2>1. Seen(q, e)
    BY <1>1 DEF Seen, Running, Left
  <2>2. job # Down
    BY <2>1, Pcs DEF Seen, Running
  <2>3. missed' \in [Rules -> Int] /\ q \in Rules /\ missed' = Miss({r}, WindowEnd(now))
    BY <1>1, <1>2, <2>2, MissKeeps DEF SInv, Types
  <2>4. missed'[q] >= missed[q] /\ (q = r => missed'[q] >= WindowEnd(now))
    BY <1>2, <2>3, MissKeeps DEF SInv
  <2>5. e <= WindowEnd(now) /\ e \in Int
    BY <2>1, SeenIsPast, EndsAre DEF DInv
  <2>6. missed'[q] \in Int /\ missed[q] \in Int
    BY <1>2, <2>3
  <2>7. e > missed[q] /\ q # r
    BY <1>2, <2>4, <2>5, <2>6
  <2>8. QED
    BY <1>1, <2>1, <2>7
<1>5. SeenOk'
  BY <1>1, <1>4, SeenKeeps DEF DInv
<1>6. TakenOk'
  BY <1>1, TakenKeeps DEF DInv
<1>7. QED
  BY <1>3, <1>5, <1>6 DEF DInv

\* An event is stored no later than Lag after it happened, so in no window that
\* is evaluated or under evaluation.
LEMMA StoreEventKeepsDInv == ASSUME Prompt, SInv, DInv, NEW v \in Events, StoreEvent(v) PROVE DInv'
<1>1. /\ events' = events \cup {v} /\ UNCHANGED <<rules, alerts, tx, sent, now, job, missed>>
      /\ v.ts \in now - MaxDelay .. now
  BY DEF StoreEvent, E!StoreEvent
<1>2. now \in Int /\ v.ts \in Int /\ v.ts >= now - Lag
  BY <1>1, NowIs, ScheduleAssumption DEF SInv, Prompt
<1>3. OnTime' /\ PastOk'
  BY <1>1 DEF DInv, OnTime, PastOk, Running
<1>4. ASSUME NEW r, NEW k, NEW e \in Ends, e <= now - Lag
      PROVE  Crossed(r, k, e)' <=> Crossed(r, k, e)
  <2>1. ~ (v.ts < e)
    BY <1>2, <1>4, EndsAre, Times
  <2>2. E!Matched(r, k, e)' = E!Matched(r, k, e)
    BY <1>1, <2>1 DEF E!Matched
  <2>3. QED
    BY <2>2 DEF Crossed
<1>5. SeenOk'
  <2> SUFFICES ASSUME NEW r \in rules', NEW k \in Keys, NEW e \in Ends,
                      e > missed'[r], Seen(r, e)', Crossed(r, k, e)'
               PROVE  Alerted(r, k, e)'
    BY DEF SeenOk
  <2>1. r \in rules /\ e > missed[r] /\ Seen(r, e)
    BY <1>1 DEF Seen, Running, Left
  <2>2. Crossed(r, k, e)
    BY <1>4, <2>1, SeenIsPast DEF DInv
  <2>3. Alerted(r, k, e)
    BY <2>1, <2>2 DEF DInv, SeenOk
  <2>4. QED
    BY <1>1, <2>3 DEF Alerted
<1>6. TakenOk'
  <2> SUFFICES ASSUME tx[Process].pc = "inserting", NEW k \in Keys PROVE Taken(tx[Process], k)'
    BY <1>1 DEF TakenOk
  <2>1. tx[Process].end \in Ends
    BY TxIs, Pcs DEF SInv
  <2>2. tx[Process].end <= now - Lag
    <3>1. Running /\ tx[Process].end = job.end
      BY Pcs DEF SInv, TxOk, Running
    <3>2. job.started \in Int /\ job.started <= now /\ job.end = WindowEnd(job.started) /\ job.end \in Int
      BY <3>1, JobIs, EndsAre DEF SInv
    <3>3. job.end <= job.started - Lag
      BY <3>2, WindowEndIs
    <3>4. QED
      BY <1>2, <3>1, <3>2, <3>3, Times
  <2>3. Crossed(tx[Process].rule, k, tx[Process].end)' <=> Crossed(tx[Process].rule, k, tx[Process].end)
    BY <1>1, <1>4, <2>1, <2>2
  <2>4. Taken(tx[Process], k)
    BY DEF DInv, TakenOk
  <2>5. Alerted(tx[Process].rule, k, tx[Process].end) => Alerted(tx[Process].rule, k, tx[Process].end)'
    BY <1>1 DEF Alerted
  <2>6. QED
    BY <1>1, <2>3, <2>4, <2>5 DEF Taken
<1>7. QED
  BY <1>3, <1>5, <1>6 DEF DInv

\* The process starts: nothing has been seen since the window before this one.
LEMMA StartKeepsDInv == ASSUME SInv, DInv, Start PROVE DInv'
<1>1. /\ job = Down /\ job' = Waiting(now) /\ missed' = [r \in Rules |-> WindowEnd(now) - Minute]
      /\ UNCHANGED <<rules, events, alerts, tx, sent, now>>
  BY DEF Start
<1>2. now \in Int /\ WindowEnd(now) \in Int
  BY NowIs DEF SInv
<1>3. job'.pc = "waiting" /\ job'.due = now /\ job' # Down /\ ~Running'
  BY <1>1, WaitingIs, Pcs DEF Running
<1>4. OnTime'
  BY <1>1, <1>2, <1>3, Times DEF OnTime
<1>5. PastOk'
  BY <1>1, <1>3, Pcs DEF DInv, PastOk, Running, WindowEnd
<1>6. \A r \in rules' : \A e \in Ends : ~ (e > missed'[r] /\ Seen(r, e)')
  <2> SUFFICES ASSUME NEW r \in rules', NEW e \in Ends, e > missed'[r], Seen(r, e)' PROVE FALSE
    OBVIOUS
  <2>1. r \in Rules
    BY <1>1 DEF SInv, Types
  <2>2. e > WindowEnd(now) - Minute /\ e < WindowEnd(now)
    BY <1>1, <1>3, <2>1 DEF Seen, WindowEnd
  <2>3. e \in Int /\ \E q \in Int : e = q * Minute
    BY EndsAre
  <2>4. WindowEnd(now) <= e
    <3>1. \E q \in Int : WindowEnd(now) = q * Minute
      BY <1>2, WindowEndIs
    <3>2. WindowEnd(now) < e + Minute
      BY <1>2, <2>2, <2>3, Times
    <3>3. QED
      BY <1>2, <2>3, <3>1, <3>2, EndsApart
  <2>5. QED
    BY <1>2, <2>2, <2>3, <2>4
<1>7. SeenOk' /\ TakenOk'
  BY <1>1, <1>6, SeenKeeps, TakenKeeps DEF DInv
<1>8. QED
  BY <1>4, <1>5, <1>7 DEF DInv

\* A tick is received when it is due, and the run's windows are the next.
LEMMA StartRunKeepsDInv == ASSUME SInv, DInv, StartRun PROVE DInv'
<1>1. /\ job.pc = "waiting" /\ now >= job.due
      /\ job' = Run("listing", job.due + Minute * (1 + (now - job.due) \div Minute), WindowEnd(now), {}, {})
      /\ UNCHANGED <<rules, events, alerts, tx, sent, now, missed>>
  BY DEF StartRun
<1>2. now \in Int /\ WindowEnd(now) \in Int /\ job.due \in Int /\ job.due = now
  BY <1>1, NowIs, JobIs DEF SInv, DInv, OnTime
<1>3. job.due + Minute * (1 + (now - job.due) \div Minute) = now + Minute
  <2>1. now - job.due = 0
    BY <1>2
  <2>2. 0 \div Minute = 0
    BY Times, SMTT(30)
  <2>3. 1 + (now - job.due) \div Minute = 1
    BY <2>1, <2>2
  <2>4. Minute * (1 + (now - job.due) \div Minute) = Minute
    BY <2>3, Times
  <2>5. QED
    BY <1>2, <2>4, Times
<1>4. /\ job'.pc = "listing" /\ job'.due = now + Minute /\ job'.started = now
      /\ job'.end = WindowEnd(now) /\ Running' /\ job' # Down
  <2>1. job' = [pc |-> "listing", due |-> now + Minute, started |-> now, end |-> WindowEnd(now),
                tenants |-> {}, rules |-> {}]
    BY <1>1, <1>3 DEF Run
  <2>2. QED
    BY <2>1, Pcs DEF Running
<1>5. OnTime'
  BY <1>4 DEF OnTime
<1>6. PastOk'
  BY <1>1, <1>4 DEF DInv, PastOk, Running
<1>7. \A r \in rules' : \A e \in Ends :
        e > missed'[r] /\ Seen(r, e)' => r \in rules /\ e > missed[r] /\ Seen(r, e)
  <2> SUFFICES ASSUME NEW r \in rules', NEW e \in Ends, e > missed'[r], Seen(r, e)'
               PROVE  r \in rules /\ e > missed[r] /\ Seen(r, e)
    OBVIOUS
  <2>1. r \in Left'
    <3>1. r \in Rules
      BY <1>1 DEF SInv, Types
    <3>2. QED
      BY <1>4, <3>1 DEF Left
  <2>2. e < WindowEnd(now)
    BY <1>4, <2>1 DEF Seen
  <2>3. QED
    BY <1>1, <1>2, <2>2 DEF Seen
<1>8. SeenOk' /\ TakenOk'
  BY <1>1, <1>7, SeenKeeps, TakenKeeps DEF DInv
<1>9. QED
  BY <1>5, <1>6, <1>8 DEF DInv

LEMMA ListTenantsKeepsDInv == ASSUME SInv, DInv, ListTenants PROVE DInv'
<1>1. /\ job.pc = "listing" /\ job' = [job EXCEPT !.pc = "running", !.tenants = Tenants]
      /\ UNCHANGED <<rules, events, alerts, tx, sent, now, missed>>
  BY DEF ListTenants
<1>2. job \in Busy /\ Running
  BY <1>1, JobIs DEF SInv, Running
<1>3. /\ job'.pc = "running" /\ job'.tenants = Tenants /\ job'.due = job.due
      /\ job'.started = job.started /\ job'.end = job.end
  BY <1>1, <1>2 DEF Busy
<1>4. Running' /\ job' # Down
  BY <1>3, Pcs DEF Running
<1>5. OnTime' /\ PastOk'
  BY <1>1, <1>2, <1>3, <1>4 DEF DInv, OnTime, PastOk
<1>6. \A r \in Rules : r \in Left'
  BY <1>3, ScheduleAssumption DEF Left
<1>7. \A r \in rules' : \A e \in Ends :
        e > missed'[r] /\ Seen(r, e)' => r \in rules /\ e > missed[r] /\ Seen(r, e)
  BY <1>1, <1>2, <1>3, <1>4, <1>6 DEF Seen, SInv, Types
<1>8. SeenOk' /\ TakenOk'
  BY <1>1, <1>7, SeenKeeps, TakenKeeps DEF DInv
<1>9. QED
  BY <1>5, <1>8 DEF DInv

\* A tenant's rules are left until each has been evaluated, and missed if they
\* can't be listed.
LEMMA ListRulesKeepsDInv == ASSUME SInv, DInv, NEW t \in Tenants, ListRules(t) PROVE DInv'
<1>1. /\ AtRest /\ job.rules = {} /\ t \in job.tenants
      /\ UNCHANGED <<rules, events, alerts, tx, sent, now>>
  BY DEF ListRules
<1>2. job \in Busy /\ Running /\ job.end \in Int /\ job.pc = "running" /\ tx[Process] = E!Idle
  BY <1>1, JobIs, EndsAre DEF SInv, Running, AtRest
<1>3. \/ /\ job' = [job EXCEPT !.tenants = @ \ {t}, !.rules = {r \in rules : r.tenant = t}]
         /\ missed' = missed
      \/ /\ job' = [job EXCEPT !.tenants = @ \ {t}]
         /\ missed' = Miss({r \in Rules : r.tenant = t}, job.end)
  BY DEF ListRules
<1>4. /\ job'.pc = "running" /\ job'.tenants = job.tenants \ {t} /\ job'.due = job.due
      /\ job'.started = job.started /\ job'.end = job.end
      /\ \/ job'.rules = {r \in rules : r.tenant = t} /\ missed' = missed
         \/ job'.rules = {} /\ missed' = Miss({r \in Rules : r.tenant = t}, job.end)
  BY <1>1, <1>2, <1>3 DEF Busy
<1>5. Running' /\ job' # Down /\ ~(job.pc = "waiting") /\ ~(job'.pc = "waiting")
  BY <1>2, <1>4, Pcs DEF Running
<1>6. OnTime' /\ PastOk'
  BY <1>1, <1>2, <1>4, <1>5 DEF DInv, OnTime, PastOk
<1>7. \A r \in rules' : \A e \in Ends :
        e > missed'[r] /\ Seen(r, e)' => r \in rules /\ e > missed[r] /\ Seen(r, e)
  <2> SUFFICES ASSUME NEW r \in rules', NEW e \in Ends, e > missed'[r], Seen(r, e)'
               PROVE  r \in rules /\ e > missed[r] /\ Seen(r, e)
    OBVIOUS
  <2>1. r \in rules /\ r \in Rules /\ e \in Int /\ missed[r] \in Int
    BY <1>1, EndsAre DEF SInv, Types
  <2>2. e <= job.end /\ (e = job.end => r \notin Left')
    BY <1>2, <1>4, <1>5, <2>1 DEF Seen
  <2>3. CASE job'.rules = {x \in rules : x.tenant = t} /\ missed' = missed
    <3>1. r \in Left => r \in Left'
      BY <1>1, <1>2, <1>4, <2>1, <2>3, Pcs DEF Left
    <3>2. QED
      BY <1>2, <2>1, <2>2, <2>3, <3>1 DEF Seen
  <2>4. CASE job'.rules = {} /\ missed' = Miss({x \in Rules : x.tenant = t}, job.end)
    <3> DEFINE S == {x \in Rules : x.tenant = t}
    <3>1. missed'[r] >= missed[r] /\ (r \in S => missed'[r] >= job.end) /\ missed'[r] \in Int
      <4>1. Miss(S, job.end) \in [Rules -> Int] /\ Miss(S, job.end)[r] >= missed[r]
            /\ (r \in S => Miss(S, job.end)[r] >= job.end)
        BY <1>2, <2>1, MissKeeps DEF SInv
      <4>2. QED
        BY <2>1, <2>4, <4>1
    <3>2. e > missed[r] /\ r \notin S
      BY <1>2, <2>1, <2>2, <3>1
    <3>3. r \in Left => r \in Left'
      BY <1>1, <1>2, <1>4, <2>1, <2>4, <3>2, Pcs DEF Left
    <3>4. QED
      BY <1>2, <2>1, <2>2, <3>2, <3>3 DEF Seen
  <2>5. QED
    BY <1>4, <2>3, <2>4
<1>8. SeenOk' /\ TakenOk'
  BY <1>1, <1>7, SeenKeeps, TakenKeeps DEF DInv
<1>9. QED
  BY <1>6, <1>8 DEF DInv

\* What the windows before the next tick's are.
LEMMA BeforeNextEnd ==
    ASSUME SInv, OnTime, Running, NEW e \in Ends, e < WindowEnd(job.due)
    PROVE  e <= job.end
<1>1. /\ job.started \in Int /\ job.due = job.started + Minute /\ job.end = WindowEnd(job.started)
      /\ job.end \in Ends
  BY JobIs, Times DEF SInv, OnTime
<1>2. WindowEnd(job.due) = job.end + Minute
  BY <1>1, NextEnd
<1>3. e \in Int /\ job.end \in Int /\ (\E q \in Int : e = q * Minute) /\ (\E q \in Int : job.end = q * Minute)
  BY <1>1, EndsAre
<1>4. QED
  BY <1>2, <1>3, EndsApart

\* A run that ends with nothing left is done with its windows.
LEMMA EndOfRun ==
    ASSUME SInv, OnTime, PastOk, MaxRun < Minute, Running, job' = Waiting(job.due),
           UNCHANGED <<now, alerts>>
    PROVE  /\ OnTime' /\ PastOk' /\ ~Running'
           /\ \A r : \A e \in Ends : Seen(r, e)' => e <= job.end
<1>1. /\ job.started \in Int /\ job.due = job.started + Minute /\ job.end = WindowEnd(job.started)
      /\ job.end \in Int /\ now - job.started <= MaxRun /\ job.started <= now
  BY JobIs, EndsAre DEF SInv, OnTime
<1>2. now \in Int /\ WindowEnd(now) \in Int /\ job.end <= WindowEnd(now)
  BY <1>1, NowIs, LaterEnds DEF SInv
<1>3. job'.pc = "waiting" /\ job'.due = job.due /\ job' # Down /\ ~Running'
  BY WaitingIs, Pcs DEF Running
<1>4. OnTime'
  <2>1. now <= job.due /\ job.due <= now + Minute
    BY <1>1, <1>2, Times
  <2>2. QED
    BY <1>3, <2>1 DEF OnTime
<1>5. PastOk'
  <2> SUFFICES ASSUME NEW f \in E!Firings, alerts[f] > 0 PROVE f.end <= WindowEnd(now)
    BY <1>3 DEF PastOk, WindowEnd
  <2>1. f.end \in Int /\ f.end <= job.end
    BY AlertsAreSInt DEF SInv, PastOk
  <2>2. QED
    BY <1>1, <1>2, <2>1
<1>6. ASSUME NEW r, NEW e \in Ends, Seen(r, e)' PROVE e <= job.end
  <2>1. e < WindowEnd(job.due)
    BY <1>3, <1>6 DEF Seen, WindowEnd
  <2>2. QED
    BY <2>1, BeforeNextEnd
<1>7. QED
  BY <1>3, <1>4, <1>5, <1>6

LEMMA FinishRunKeepsDInv == ASSUME Prompt, SInv, DInv, FinishRun PROVE DInv'
<1>1. /\ AtRest /\ job.tenants = {} /\ job.rules = {} /\ job' = Waiting(job.due)
      /\ UNCHANGED <<rules, events, alerts, tx, sent, now, missed>>
  BY DEF FinishRun
<1>2. Running /\ Left = {} /\ job.end \in Int
  BY <1>1, JobIs, EndsAre, Pcs DEF AtRest, Running, Left, SInv
<1>3. OnTime' /\ PastOk' /\ \A r : \A e \in Ends : Seen(r, e)' => e <= job.end
  BY <1>1, <1>2, EndOfRun DEF DInv, Prompt
<1>4. \A r \in rules' : \A e \in Ends :
        e > missed'[r] /\ Seen(r, e)' => r \in rules /\ e > missed[r] /\ Seen(r, e)
  <2> SUFFICES ASSUME NEW r \in rules', NEW e \in Ends, e > missed'[r], Seen(r, e)'
               PROVE  r \in rules /\ e > missed[r] /\ Seen(r, e)
    OBVIOUS
  <2>1. e <= job.end /\ e \in Int
    BY <1>3, EndsAre
  <2>2. QED
    BY <1>1, <1>2, <2>1 DEF Seen
<1>5. SeenOk' /\ TakenOk'
  BY <1>1, <1>4, SeenKeeps, TakenKeeps DEF DInv
<1>6. QED
  BY <1>3, <1>5 DEF DInv

LEMMA DueIs ==
    ASSUME NEW r, NEW k \in Keys, NEW e, Crossed(r, k, e), E!Quiet(r, k, e) PROVE k \in E!Due(r, e)
<1>1. E!Cardinality(E!Matched(r, k, e)) = Cardinality(E!Matched(r, k, e))
  BY DEF E!Cardinality, Cardinality
<1>2. QED
  BY <1>1 DEF Crossed, E!Due

\* A rule's statement takes every group that has crossed, but for those its
\* cooldown keeps quiet: what they rest on is no later than this window.
LEMMA EvaluateKeepsDInv == ASSUME SInv, DInv, NEW r \in Rules, Evaluate(r) PROVE DInv'
<1>1. /\ UNCHANGED <<rules, events, alerts, sent, now, missed>> /\ job' = [job EXCEPT !.rules = @ \ {r}]
      /\ Running /\ job.pc = "running" /\ tx[Process] = E!Idle /\ r \in rules /\ r \in job.rules
      /\ tx'[Process] = [pc |-> "inserting", rule |-> r, end |-> job.end,
                         todo |-> E!Due(r, job.end), rows |-> {}]
  BY EvaluateIs
<1>2. /\ job'.pc = "running" /\ job'.tenants = job.tenants /\ job'.due = job.due
      /\ job'.started = job.started /\ job'.end = job.end /\ job'.rules = job.rules \ {r}
  BY <1>1, JobIs DEF SInv, Busy
<1>3. Running' /\ job' # Down
  BY <1>2, Pcs DEF Running
<1>4. tx'[Process].pc = "inserting" /\ tx'[Process].rule = r /\ tx'[Process].end = job.end
      /\ tx'[Process].todo = E!Due(r, job.end) /\ tx'[Process] # E!Idle
  <2>1. tx'[Process].pc = "inserting" /\ tx'[Process].rule = r /\ tx'[Process].end = job.end
        /\ tx'[Process].todo = E!Due(r, job.end)
    BY <1>1
  <2>2. QED
    BY <2>1, Pcs
<1>5. OnTime' /\ PastOk'
  BY <1>1, <1>2, <1>3 DEF DInv, OnTime, PastOk
<1>6. Left \subseteq Left'
  BY <1>1, <1>2, <1>4 DEF Left
<1>7. \A q \in rules' : \A e \in Ends :
        e > missed'[q] /\ Seen(q, e)' => q \in rules /\ e > missed[q] /\ Seen(q, e)
  BY <1>1, <1>2, <1>3, <1>6 DEF Seen
<1>8. SeenOk'
  BY <1>1, <1>7, SeenKeeps DEF DInv
<1>9. TakenOk'
  <2> SUFFICES ASSUME NEW k \in Keys, Crossed(r, k, job.end)', k \notin E!Due(r, job.end)
               PROVE  Alerted(r, k, job.end)'
    BY <1>2, <1>4 DEF TakenOk, Taken
  <2>1. Crossed(r, k, job.end)
    <3>1. E!Matched(r, k, job.end)' = E!Matched(r, k, job.end)
      BY <1>1, <1>2 DEF E!Matched
    <3>2. QED
      BY <3>1 DEF Crossed
  <2>2. ~ E!Quiet(r, k, job.end)
    BY <2>1, DueIs
  <2>3. PICK f \in E!Firings : alerts[f] > 0 /\ f.rule = r /\ f.key = k /\ f.end > job.end - r.cooldown
    BY <2>2 DEF E!Quiet
  <2>4. f.end \in Int /\ job.end \in Int /\ f.end <= job.end /\ r.cooldown \in Nat
    BY <1>1, <2>3, AlertsAreSInt, JobIs, EndsAre, ScheduleAssumption DEF SInv, DInv, PastOk
  <2>5. f.end \in job.end - r.cooldown + 1 .. job.end
    BY <2>3, <2>4
  <2>6. QED
    BY <1>1, <1>2, <2>3, <2>5 DEF Alerted
<1>10. QED
  BY <1>5, <1>8, <1>9 DEF DInv

\* Each of its groups is inserted, or has been alerted on.
LEMMA InsertRowKeepsDInv ==
    ASSUME SInv, DInv, NEW k \in Keys, E!InsertRow(Process, k), UNCHANGED <<now, job, missed>>
    PROVE  DInv'
<1> DEFINE x == tx[Process]
           f == [rule |-> x.rule, key |-> k, end |-> x.end]
<1>1. /\ UNCHANGED <<rules, events, alerts, sent>> /\ x \in E!Inserting /\ f \in E!Firings
      /\ tx'[Process].pc = "inserting" /\ tx'[Process].rule = x.rule /\ tx'[Process].end = x.end
      /\ tx'[Process].todo = x.todo \ {k}
      /\ tx'[Process].rows = IF alerts[f] > 0 THEN x.rows ELSE x.rows \cup {f}
  BY InsertRowIs
<1>2. OnTime' /\ PastOk'
  BY <1>1 DEF DInv, OnTime, PastOk, Running
<1>3. x.pc = "inserting" /\ x # E!Idle /\ tx'[Process] # E!Idle
  BY <1>1, Pcs
<1>4. Left' = Left
  BY <1>1, <1>3 DEF Left
<1>5. \A r \in rules' : \A e \in Ends :
        e > missed'[r] /\ Seen(r, e)' => r \in rules /\ e > missed[r] /\ Seen(r, e)
  BY <1>1, <1>4 DEF Seen, Running
<1>6. SeenOk'
  BY <1>1, <1>5, SeenKeeps DEF DInv
<1>7. TakenOk'
  <2> SUFFICES ASSUME NEW j \in Keys, Crossed(x.rule, j, x.end)', j \notin x.todo \ {k},
                      [rule |-> x.rule, key |-> j, end |-> x.end] \notin tx'[Process].rows
               PROVE  Alerted(x.rule, j, x.end)'
    BY <1>1 DEF TakenOk, Taken, Crossed
  <2>1. Alerted(x.rule, j, x.end) => Alerted(x.rule, j, x.end)'
    BY <1>1 DEF Alerted
  <2>2. Crossed(x.rule, j, x.end)
    BY <1>1 DEF Crossed, E!Matched
  <2>3. j \in x.todo \/ [rule |-> x.rule, key |-> j, end |-> x.end] \in x.rows \/ Alerted(x.rule, j, x.end)
    BY <1>3, <2>2 DEF DInv, TakenOk, Taken
  <2>4. CASE j = k
    <3>1. alerts[f] > 0
      BY <1>1, <2>4
    <3>2. f.rule = x.rule /\ f.key = j /\ f.end = x.end
      BY <2>4
    <3>3. Alerted(x.rule, j, x.end)
      BY <1>1, <3>1, <3>2 DEF Alerted
    <3>4. QED
      BY <2>1, <3>3
  <2>5. CASE j # k
    BY <1>1, <2>1, <2>3, <2>5
  <2>6. QED
    BY <2>4, <2>5
<1>8. QED
  BY <1>2, <1>6, <1>7 DEF DInv

\* The alerts of a rule that commits are those of all its groups.
LEMMA RecordSees ==
    ASSUME SInv, DInv, E!Record(Process), UNCHANGED <<rules, events>>
    PROVE  /\ \A f \in E!Firings : alerts[f] > 0 => alerts'[f] > 0
           /\ \A f \in E!Firings : alerts'[f] > 0 => alerts[f] > 0 \/ (f.end = job.end /\ Running)
           /\ \A r \in Rules : \A k \in Keys : \A e \in Ends :
                r = tx[Process].rule /\ e = job.end /\ Crossed(r, k, e)' => Alerted(r, k, e)'
<1> DEFINE x == tx[Process]
<1>1. /\ x \in E!Inserting /\ x.todo = {} /\ x.pc = "inserting"
      /\ \A f \in E!Firings : /\ f \in x.rows => alerts'[f] = alerts[f] + 1
                              /\ f \notin x.rows => alerts'[f] = alerts[f]
  BY RecordIs DEF E!Record
<1>2. x.end = job.end /\ Running /\ \A f \in x.rows : f.end = job.end
  BY <1>1, Pcs DEF SInv, TxOk, Running
<1>3. \A f \in E!Firings : alerts[f] \in Nat
  BY AlertsAreSInt DEF SInv
<1>4. \A f \in E!Firings : alerts[f] > 0 => alerts'[f] > 0
  BY <1>1, <1>3
<1>5. \A f \in E!Firings : alerts'[f] > 0 => alerts[f] > 0 \/ (f.end = job.end /\ Running)
  BY <1>1, <1>2, <1>3
<1>6. ASSUME NEW r \in Rules, NEW k \in Keys, NEW e \in Ends, r = x.rule, e = job.end, Crossed(r, k, e)'
      PROVE  Alerted(r, k, e)'
  <2> DEFINE f == [rule |-> r, key |-> k, end |-> e]
  <2>1. Crossed(r, k, e)
    BY <1>6 DEF Crossed, E!Matched
  <2>2. f \in x.rows \/ Alerted(r, k, e)
    BY <1>1, <1>2, <1>6, <2>1 DEF DInv, TakenOk, Taken
  <2>3. CASE f \in x.rows
    <3>1. f \in E!Firings /\ alerts'[f] > 0
      BY <1>1, <1>3, <2>3, Pcs
    <3>2. f.rule = r /\ f.key = k /\ f.end = e
      OBVIOUS
    <3>3. QED
      BY <3>1, <3>2 DEF Alerted
  <2>4. CASE Alerted(r, k, e)
    BY <1>4, <2>4 DEF Alerted
  <2>5. QED
    BY <2>2, <2>3, <2>4
<1>7. QED
  BY <1>4, <1>5, <1>6

\* A rule whose transaction has committed is done with, acknowledged or not.
LEMMA CommitKeepsDInv ==
    ASSUME SInv, DInv, E!Record(Process), UNCHANGED <<rules, events, now, job, missed>>,
           tx'[Process].pc # "inserting"
    PROVE  DInv'
<1>1. /\ \A f \in E!Firings : alerts[f] > 0 => alerts'[f] > 0
      /\ \A f \in E!Firings : alerts'[f] > 0 => alerts[f] > 0 \/ (f.end = job.end /\ Running)
      /\ \A r \in Rules : \A k \in Keys : \A e \in Ends :
           r = tx[Process].rule /\ e = job.end /\ Crossed(r, k, e)' => Alerted(r, k, e)'
  BY RecordSees
<1>2. tx[Process].pc = "inserting" /\ tx[Process] # E!Idle
  BY Pcs DEF E!Record
<1>3. Running /\ job.end \in Int
  BY <1>2, JobIs, EndsAre DEF SInv, TxOk, Running
<1>4. OnTime'
  BY DEF DInv, OnTime, Running
<1>5. PastOk'
  <2> SUFFICES ASSUME NEW f \in E!Firings, alerts'[f] > 0 PROVE f.end <= job.end
    BY <1>3 DEF PastOk, Running
  <2>1. CASE alerts[f] > 0
    BY <1>3, <2>1 DEF DInv, PastOk
  <2>2. CASE f.end = job.end
    BY <1>3, <2>2
  <2>3. QED
    BY <1>1, <2>1, <2>2
<1>6. SeenOk'
  <2> SUFFICES ASSUME NEW r \in rules', NEW k \in Keys, NEW e \in Ends,
                      e > missed'[r], Seen(r, e)', Crossed(r, k, e)'
               PROVE  Alerted(r, k, e)'
    BY DEF SeenOk
  <2>1. r \in rules /\ r \in Rules /\ e > missed[r] /\ e \in Int
    BY EndsAre DEF SInv, Types
  <2>2. CASE Seen(r, e)
    <3>1. Crossed(r, k, e)
      BY DEF Crossed, E!Matched
    <3>2. Alerted(r, k, e)
      BY <2>1, <2>2, <3>1 DEF DInv, SeenOk
    <3>3. QED
      BY <1>1, <3>2 DEF Alerted
  <2>3. CASE ~ Seen(r, e)
    <3>1. e = job.end /\ r \in Left /\ r \notin Left'
      BY <1>3, <2>1, <2>3 DEF Seen, Running
    <3>2. r = tx[Process].rule
      BY <3>1 DEF Left
    <3>3. QED
      BY <1>1, <2>1, <3>1, <3>2
  <2>4. QED
    BY <2>2, <2>3
<1>7. TakenOk'
  BY DEF TakenOk
<1>8. QED
  BY <1>4, <1>5, <1>6, <1>7 DEF DInv

LEMMA ProceedKeepsDInv == ASSUME SInv, DInv, Proceed PROVE DInv'
<1>1. UNCHANGED <<rules, events, now, job, missed>>
  BY DEF Proceed, E!InsertRow, E!Commit, E!CommitUnacknowledged, E!Deliver
<1>2. ASSUME NEW k \in Keys, E!InsertRow(Process, k) PROVE DInv'
  BY <1>1, <1>2, InsertRowKeepsDInv
<1>3. CASE E!Commit(Process)
  BY <1>1, <1>3, CommitIs, CommitKeepsDInv
<1>4. CASE E!CommitUnacknowledged(Process)
  BY <1>1, <1>4, LostCommitIs, CommitKeepsDInv, Pcs
<1>5. ASSUME NEW f \in E!Firings, E!Deliver(Process, f) PROVE DInv'
  <2>1. UNCHANGED <<rules, events, alerts>> /\ tx[Process].pc = "sending" /\ tx'[Process].pc # "inserting"
    BY <1>5, DeliverIs
  <2>2. OnTime' /\ PastOk'
    BY <1>1, <2>1 DEF DInv, OnTime, PastOk, Running
  <2>3. Left' = Left
    BY <1>1, <2>1 DEF Left
  <2>4. SeenOk'
    BY <1>1, <2>1, <2>3, SeenKeeps DEF DInv, Seen, Running
  <2>5. TakenOk'
    BY <2>1 DEF TakenOk
  <2>6. QED
    BY <2>2, <2>4, <2>5 DEF DInv
<1>6. QED
  BY <1>2, <1>3, <1>4, <1>5 DEF Proceed

\* A rule that was not evaluated is missed, and only that.
LEMMA FailureKeepsDInv ==
    ASSUME Prompt, SInv, DInv, EvaluateFails \/ RunFails PROVE DInv'
<1>1. CASE EvaluateFails
  <2>1. /\ UNCHANGED <<rules, events, alerts, sent, now, job>> /\ tx[Process].pc = "inserting"
        /\ tx' = [tx EXCEPT ![Process] = E!Idle] /\ missed' = Miss({tx[Process].rule}, job.end)
    BY <1>1 DEF EvaluateFails, E!Abort
  <2>2. tx'[Process] = E!Idle /\ tx'[Process].pc # "inserting"
    BY <2>1, NewTx, Pcs DEF SInv
  <2>3. Running /\ job.end \in Int /\ job # Down /\ job.pc # "waiting"
    BY <2>1, JobIs, EndsAre, Pcs DEF SInv, TxOk, Running
  <2>4. OnTime' /\ PastOk'
    BY <2>1, <2>3 DEF DInv, OnTime, PastOk, Running
  <2>5. \A r \in rules' : \A e \in Ends :
          e > missed'[r] /\ Seen(r, e)' => r \in rules /\ e > missed[r] /\ Seen(r, e)
    <3> SUFFICES ASSUME NEW r \in rules', NEW e \in Ends, e > missed'[r], Seen(r, e)'
                 PROVE  r \in rules /\ e > missed[r] /\ Seen(r, e)
      OBVIOUS
    <3>1. r \in rules /\ r \in Rules /\ e \in Int /\ missed[r] \in Int
      BY <2>1, EndsAre DEF SInv, Types
    <3> DEFINE S == {tx[Process].rule}
    <3>2. Miss(S, job.end) \in [Rules -> Int] /\ Miss(S, job.end)[r] >= missed[r]
          /\ (r \in S => Miss(S, job.end)[r] >= job.end)
      BY <2>3, <3>1, MissKeeps DEF SInv
    <3>3. missed'[r] >= missed[r] /\ (r = tx[Process].rule => missed'[r] >= job.end) /\ missed'[r] \in Int
      BY <2>1, <3>1, <3>2
    <3>4. e <= job.end
      BY <2>1, <2>3, <3>1 DEF Seen, Running
    <3>5. e > missed[r] /\ r # tx[Process].rule
      BY <2>3, <3>1, <3>3, <3>4
    <3>6. r \in Left => r \in Left'
      BY <2>1, <3>5 DEF Left
    <3>7. QED
      BY <2>1, <3>1, <3>5, <3>6 DEF Seen, Running
  <2>6. SeenOk'
    BY <2>1, <2>5, SeenKeeps DEF DInv
  <2>7. TakenOk'
    BY <2>2 DEF TakenOk
  <2>8. QED
    BY <2>4, <2>6, <2>7 DEF DInv
<1>2. CASE RunFails
  <2>1. /\ Running /\ GiveUp /\ job' = Waiting(job.due) /\ missed' = Miss(Left, job.end) /\ now' = now
    BY <1>2 DEF RunFails
  <2>2. UNCHANGED <<rules, events, alerts, sent>> /\ tx'[Process] = E!Idle /\ tx'[Process].pc # "inserting"
    BY <2>1, GiveUpIs, Pcs
  <2>3. OnTime' /\ PastOk' /\ \A r : \A e \in Ends : Seen(r, e)' => e <= job.end
    BY <2>1, <2>2, EndOfRun DEF DInv, Prompt
  <2>4. job.end \in Int
    BY <2>1, JobIs, EndsAre DEF SInv
  <2>5. \A r \in rules' : \A e \in Ends :
          e > missed'[r] /\ Seen(r, e)' => r \in rules /\ e > missed[r] /\ Seen(r, e)
    <3> SUFFICES ASSUME NEW r \in rules', NEW e \in Ends, e > missed'[r], Seen(r, e)'
                 PROVE  r \in rules /\ e > missed[r] /\ Seen(r, e)
      OBVIOUS
    <3>1. r \in rules /\ r \in Rules /\ e \in Int /\ missed[r] \in Int
      BY <2>2, EndsAre DEF SInv, Types
    <3>2. /\ Miss(Left, job.end) \in [Rules -> Int] /\ Miss(Left, job.end)[r] >= missed[r]
          /\ (r \in Left => Miss(Left, job.end)[r] >= job.end)
      BY <2>4, <3>1, MissKeeps DEF SInv
    <3>3. missed'[r] \in Int /\ missed'[r] >= missed[r] /\ (r \in Left => missed'[r] >= job.end)
      BY <2>1, <3>1, <3>2
    <3>4. e <= job.end
      BY <2>3
    <3>5. e > missed[r] /\ r \notin Left
      BY <2>4, <3>1, <3>3, <3>4
    <3>6. QED
      BY <2>1, <2>4, <3>1, <3>4, <3>5 DEF Seen
  <2>6. SeenOk'
    BY <2>2, <2>5, SeenKeeps DEF DInv
  <2>7. TakenOk'
    BY <2>2 DEF TakenOk
  <2>8. QED
    BY <2>3, <2>6, <2>7 DEF DInv
<1>3. QED
  BY <1>1, <1>2

LEMMA StopKeepsDInv == ASSUME SInv, DInv, Stop PROVE DInv'
<1>1. job' = Down /\ missed' = [r \in Rules |-> MaxNow] /\ now' = now
  BY DEF Stop
<1>2. job'.pc = "down" /\ ~Running'
  BY <1>1, Pcs DEF Running
<1>3. /\ tx'[Process].pc # "inserting"
      /\ \A f \in E!Firings : alerts'[f] > 0 => alerts[f] > 0 \/ (f.end = job.end /\ Running)
  <2>1. CASE GiveUp
    BY <2>1, GiveUpIs, Pcs
  <2>2. CASE E!CommitUnacknowledged(Process)
    BY <2>2, LostCommitIs, RecordSees, Pcs
  <2>3. QED
    BY <2>1, <2>2 DEF Stop
<1>4. OnTime'
  BY <1>1, <1>2, Pcs DEF OnTime
<1>5. PastOk'
  <2> SUFFICES ASSUME NEW f \in E!Firings, alerts'[f] > 0 PROVE f.end <= WindowEnd(now)
    BY <1>1, <1>2 DEF PastOk, WindowEnd
  <2>1. f.end \in Int /\ WindowEnd(now) \in Int /\ now \in Int
    BY AlertsAreSInt, NowIs DEF SInv
  <2>2. CASE ~Running
    BY <1>3, <2>2 DEF DInv, PastOk
  <2>3. CASE Running
    <3>1. job.started \in Int /\ job.started <= now /\ job.end = WindowEnd(job.started) /\ job.end \in Int
      BY <2>3, JobIs, EndsAre DEF SInv
    <3>2. job.end <= WindowEnd(now)
      BY <2>1, <3>1, LaterEnds
    <3>3. f.end <= job.end
      BY <1>3, <2>3, <3>1 DEF DInv, PastOk
    <3>4. QED
      BY <2>1, <3>1, <3>2, <3>3
  <2>4. QED
    BY <2>2, <2>3
<1>6. SeenOk'
  BY <1>2 DEF SeenOk, Seen
<1>7. TakenOk'
  BY <1>3 DEF TakenOk
<1>8. QED
  BY <1>4, <1>5, <1>6, <1>7 DEF DInv

LEMMA NextKeepsDInv == ASSUME Prompt, SInv, DInv, [Next]_vars PROVE DInv'
<1>1. CASE UNCHANGED vars
  <2>1. OnTime' /\ PastOk'
    BY <1>1 DEF vars, DInv, OnTime, PastOk, Running
  <2>2. SeenOk'
    BY <1>1, SeenKeeps DEF vars, DInv, Seen, Running, Left
  <2>3. TakenOk'
    BY <1>1, TakenKeeps DEF vars, DInv
  <2>4. QED
    BY <2>1, <2>2, <2>3 DEF DInv
<1>2. CASE Advance \/ (\E r \in Rules : CreateRule(r)) \/ \E v \in Events : StoreEvent(v)
  BY <1>2, AdvanceKeepsDInv, CreateRuleKeepsDInv, StoreEventKeepsDInv
<1>3. CASE Start \/ StartRun \/ ListTenants \/ (\E t \in Tenants : ListRules(t)) \/ FinishRun
  BY <1>3, StartKeepsDInv, StartRunKeepsDInv, ListTenantsKeepsDInv, ListRulesKeepsDInv, FinishRunKeepsDInv
<1>4. CASE (\E r \in Rules : Evaluate(r)) \/ Proceed \/ EvaluateFails \/ RunFails \/ Stop
  BY <1>4, EvaluateKeepsDInv, ProceedKeepsDInv, FailureKeepsDInv, StopKeepsDInv
<1>5. QED
  BY <1>1, <1>2, <1>3, <1>4 DEF Next

\* A window that ended Lag, a minute and a run ago is done with.
LEMMA LongAgoIsSeen ==
    ASSUME SInv, OnTime, NEW r \in Rules, NEW e \in Ends, e > missed[r], now >= e + Lag + Minute + MaxRun
    PROVE  Seen(r, e)
<1>1. now \in Int /\ e \in Int /\ e <= MaxNow
  BY NowIs, EndsAre DEF SInv
<1>2. job # Down
  <2>1. ~ (e > MaxNow)
    BY <1>1, Times
  <2>2. QED
    BY <2>1 DEF OnTime
<1>3. CASE job.pc = "waiting"
  <2>1. job.due \in Int /\ now <= job.due
    BY <1>3, JobIs DEF SInv, OnTime
  <2>2. WindowEnd(job.due) \in Int /\ job.due - Lag < WindowEnd(job.due) + Minute
    BY <2>1, WindowEndIs
  <2>3. e < WindowEnd(job.due)
    BY <1>1, <2>1, <2>2, Times
  <2>4. QED
    BY <1>3, <2>3 DEF Seen
<1>4. CASE Running
  <2>1. job.started \in Int /\ now - job.started <= MaxRun /\ job.end = WindowEnd(job.started) /\ job.end \in Int
    BY <1>4, JobIs, EndsAre DEF SInv
  <2>2. job.started - Lag < job.end + Minute
    BY <2>1, WindowEndIs
  <2>3. e < job.end
    BY <1>1, <2>1, <2>2, Times
  <2>4. QED
    BY <1>4, <2>3 DEF Seen
<1>5. QED
  BY <1>2, <1>3, <1>4, JobIs DEF SInv, Running

\* Detected always holds, for any tenants, rules and events: where events are
\* stored within Lag and a run takes less than a minute, a group that crosses a
\* rule's threshold in a window is alerted on, or within the cooldown of an
\* alert, whatever failed for other rules and tenants, and however often the
\* process was started again (Evaluator.Run, AlertRepo.Evaluate).
THEOREM CrossingsAlwaysDetected == Spec => []Detected
<1>1. ASSUME Prompt PROVE Init /\ [][Next]_vars => [](SInv /\ DInv)
  <2>1. Init => SInv /\ DInv
    BY InitSInv, InitDInv
  <2>2. SInv /\ DInv /\ [Next]_vars => (SInv /\ DInv)'
    BY <1>1, NextKeepsSInv, NextKeepsDInv
  <2>3. QED
    BY <2>1, <2>2, PTL
<1>2. SInv /\ DInv => Detected
  <2> SUFFICES ASSUME SInv, DInv, NEW r \in rules, NEW k \in Keys, NEW e \in Ends, e > missed[r],
                      now >= e + Lag + Minute + MaxRun,
                      Cardinality({v \in events : /\ v.tenant = r.tenant /\ v.kind \in r.kinds /\ v.key = k
                                                  /\ v.ts \in e - r.window .. e - 1}) >= r.threshold
               PROVE  Alerted(r, k, e)
    BY DEF Detected, Alerted
  <2>1. r \in Rules /\ r.window \in Nat /\ e \in Int /\ \A v \in events : v.ts \in Int
    BY EndsAre, ScheduleAssumption DEF SInv, Types
  <2>2. E!Matched(r, k, e) = {v \in events : /\ v.tenant = r.tenant /\ v.kind \in r.kinds /\ v.key = k
                                             /\ v.ts \in e - r.window .. e - 1}
    BY <2>1 DEF E!Matched
  <2>3. Crossed(r, k, e)
    BY <2>2 DEF Crossed
  <2>4. Seen(r, e)
    BY <2>1, LongAgoIsSeen DEF DInv
  <2>5. QED
    BY <2>3, <2>4 DEF DInv, SeenOk
<1>3. ~Prompt => Detected
  BY DEF Detected, Prompt
<1>4. CASE Prompt
  BY <1>1, <1>2, <1>4, PTL DEF Spec
<1>5. CASE ~Prompt
  BY <1>3, <1>5, PTL
<1>6. QED
  BY <1>4, <1>5
=============================================================================
