-------------------------- MODULE PartitionsProofs --------------------------
(***************************************************************************)
(* For any number of backends and requests, and any length of a day and of *)
(* the retention: events are where queries look for them, partitions are   *)
(* there, and nothing goes too early.                                      *)
(***************************************************************************)
EXTENDS Partitions, TLAPS

-----------------------------------------------------------------------------
(* Days.                                                                   *)

LEMMA DayIsNumber ==
    ASSUME NEW t \in Int
    PROVE  /\ Day(t) \in Int
           /\ Day(t) * DayLength <= t
           /\ t < (Day(t) + 1) * DayLength
BY PartitionsAssumption, SMTT(30) DEF Day

LEMMA DaysIsNumber == Days \in Int /\ Days * DayLength >= Retention
BY PartitionsAssumption, SMTT(30) DEF Days

LEMMA NoOneIsNoBackend == NoOne \notin Backends /\ MaxNow \in Nat /\ MaxEvent \in Nat /\ MaxFailures \in Nat
BY PartitionsAssumption

-----------------------------------------------------------------------------
(* The invariant.                                                          *)

Event == [n : Nat \ {0}, ts : Int, parked : BOOLEAN]
Working == [pc : {"days", "move", "create", "drop"}, today : Int, day : Int,
            moving : SUBSET Event, drops : SUBSET Int]

Types ==
    /\ now \in 0 .. MaxNow /\ nextEvent \in 1 .. MaxEvent + 1 /\ failures \in 0 .. MaxFailures
    /\ lastDone \in Int /\ parts \in SUBSET Int /\ rows \in SUBSET Event
    /\ inserted \in [Requests -> SUBSET Event]
    /\ run \in [Backends -> {Resting} \cup Working]
    /\ lock \in Backends \cup {NoOne}
    /\ draft \in [parts : SUBSET Int, rows : SUBSET Event]

\* Only a run at work has the lock, and only that run moves rows; no request
\* has an insert open meanwhile.
LockOk ==
    /\ lock = NoOne => draft = NoDraft
    /\ lock # NoOne => run[lock].pc # "idle" /\ \A q \in Requests : inserted[q] = {}
    /\ \A w \in Backends : /\ run[w].pc = "create" => lock = w
                           /\ run[w].pc \in {"days", "move", "drop"} => run[w].moving = {}

\* What is committed or about to be, and what the run with the lock holds.
Visible == rows \cup UNION {inserted[q] : q \in Requests}
Holds == draft.rows \cup run[lock].moving

\* No event is counted twice.
Numbered(S) == /\ \A r \in S : r.n < nextEvent
               /\ \A r, s \in S : r.n = s.n => r = s
NumbersOk == Numbered(Visible) /\ (lock # NoOne => Numbered(Holds))

\* Events are in DEFAULT when their day has no partition, in a draft too.
PlacedIn(S, P) == \A r \in S : r.parked <=> Day(r.ts) \notin P
PlacesOk ==
    /\ PlacedIn(Visible, parts) /\ PlacedIn(draft.rows, draft.parts)
    /\ \A w \in Backends : run[w].pc = "create" =>
        /\ Parked(draft.rows, run[w].day) = {}
        /\ \A r \in run[w].moving : Day(r.ts) = run[w].day

\* What a run has found or created is still there when it commits, unless a
\* run of a later day was faster; it drops nothing newer than its cutoff.
DaysOk ==
    /\ \A d \in Cutoff(lastDone) .. LastDay(lastDone) : d \in parts
    /\ \A w \in Backends : run[w].pc # "idle" =>
        /\ run[w].pc = "drop" => run[w].day > LastDay(run[w].today)
        /\ run[w].pc = "drop" => \A d \in run[w].drops : d < Cutoff(run[w].today)
        /\ run[w].today >= lastDone => \A d \in Cutoff(run[w].today) .. run[w].day - 1 : d \in View(w).parts
        /\ \A d \in parts : lock = w /\ d >= Cutoff(run[w].today) => d \in draft.parts

\* A run's date is not ahead of the clock, and what its draft misses is of a
\* day before its cutoff.
KeepsOk ==
    /\ \A w \in Backends : run[w].pc # "idle" => run[w].today * DayLength <= now
    /\ lock # NoOne => \A r \in rows :
        \/ Day(r.ts) < Cutoff(run[lock].today)
        \/ \E s \in Holds : s.n = r.n /\ s.ts = r.ts

IInv == Types /\ LockOk /\ NumbersOk /\ PlacesOk /\ DaysOk /\ KeepsOk

LEMMA CutoffIsNumber ==
    ASSUME NEW d \in Int
    PROVE  Cutoff(d) \in Int /\ LastDay(d) \in Int /\ Cutoff(d) = d - Days /\ LastDay(d) = d + 2
BY DaysIsNumber DEF Cutoff, LastDay

\* Any other run is left alone.
LEMMA Changed ==
    ASSUME Types, NEW w \in Backends, NEW me, run' = [run EXCEPT ![w] = me]
    PROVE  run'[w] = me /\ \A v \in Backends \ {w} : run'[v] = run[v]
BY DEF Types

LEMMA RunTypes ==
    ASSUME Types, NEW w \in Backends, run[w].pc # "idle"
    PROVE  run[w] \in Working
<1>1. Resting.pc = "idle"
  BY DEF Resting
<1>2. QED
  BY <1>1 DEF Types

-----------------------------------------------------------------------------
(* The actions.                                                            *)

LEMMA InitIInv == Init => IInv
<1> SUFFICES ASSUME Init PROVE IInv
  OBVIOUS
<1>1. /\ lastDone \in Int /\ Cutoff(lastDone) \in Int /\ LastDay(lastDone) \in Int
      /\ rows = {} /\ draft = [parts |-> {}, rows |-> {}] /\ lock = NoOne
      /\ \A q \in Requests : inserted[q] = {}
      /\ \A w \in Backends : run[w].pc = "idle"
  BY PartitionsAssumption, CutoffIsNumber DEF Init, NoDraft, Resting
<1>2. Visible = {}
  BY <1>1 DEF Visible
<1>3. Types
  BY <1>1, NoOneIsNoBackend DEF Init, Types
<1>4. LockOk
  BY <1>1 DEF LockOk, NoDraft
<1>5. NumbersOk /\ PlacesOk
  BY <1>1, <1>2 DEF NumbersOk, Numbered, PlacesOk, PlacedIn
<1>6. DaysOk
  BY <1>1 DEF DaysOk, Init
<1>7. KeepsOk
  BY <1>1 DEF KeepsOk
<1>8. QED
  BY <1>3, <1>4, <1>5, <1>6, <1>7 DEF IInv

LEMMA TickKeepsIInv == ASSUME IInv, Tick PROVE IInv'
<1>1. /\ now' = now + 1 /\ now < MaxNow /\ now \in Nat
      /\ UNCHANGED <<parts, rows, inserted, run, lock, draft, nextEvent, lastDone, failures>>
  BY NoOneIsNoBackend DEF Tick, IInv, Types
<1>2. Types' /\ LockOk'
  BY <1>1, NoOneIsNoBackend DEF IInv, Types, LockOk
<1>3. NumbersOk' /\ PlacesOk'
  BY <1>1 DEF IInv, NumbersOk, Numbered, Visible, Holds, PlacesOk, PlacedIn
<1>4. DaysOk'
  BY <1>1 DEF IInv, DaysOk, View
<1>5. KeepsOk'
  <2>1. ASSUME NEW w \in Backends, run[w].pc # "idle" PROVE run[w].today * DayLength <= now'
    <3>1. run[w].today \in Int /\ DayLength \in Int /\ run[w].today * DayLength <= now
      BY <2>1, RunTypes, PartitionsAssumption DEF IInv, KeepsOk, Working
    <3>2. run[w].today * DayLength \in Int
      BY <3>1
    <3>3. QED
      BY <1>1, <3>1, <3>2
  <2>2. QED
    BY <1>1, <2>1 DEF IInv, KeepsOk, Holds
<1>6. QED
  BY <1>2, <1>3, <1>4, <1>5 DEF IInv

LEMMA InsertKeepsIInv ==
    ASSUME IInv, NEW q \in Requests, NEW ts \in now - Retention .. now + FutureSkew, Insert(q, ts)
    PROVE  IInv'
<1> DEFINE e == [n |-> nextEvent, ts |-> ts, parked |-> Day(ts) \notin parts]
<1>1. /\ nextEvent <= MaxEvent /\ nextEvent' = nextEvent + 1
      /\ inserted' = [inserted EXCEPT ![q] = @ \cup {e}]
      /\ UNCHANGED <<now, parts, rows, run, lock, draft, lastDone, failures>>
  BY DEF Insert
<1>2. nextEvent \in Nat \ {0} /\ ts \in Int
  BY NoOneIsNoBackend, PartitionsAssumption DEF IInv, Types
<1>3. e \in Event /\ e.n = nextEvent /\ e.parked = (Day(e.ts) \notin parts)
  BY <1>2 DEF Event
<1> HIDE DEF e
<1>4. lock = NoOne
  BY DEF Insert, Inserting, IInv, LockOk
<1>5. /\ inserted'[q] = inserted[q] \cup {e}
      /\ \A p \in Requests \ {q} : inserted'[p] = inserted[p]
  BY <1>1 DEF IInv, Types
<1>6. Visible' = Visible \cup {e}
  BY <1>1, <1>5 DEF Visible
<1>7. Types'
  BY <1>1, <1>2, <1>3, NoOneIsNoBackend DEF IInv, Types
<1>8. LockOk'
  BY <1>1, <1>4 DEF IInv, LockOk
<1>9. NumbersOk'
  <2>1. Visible \in SUBSET Event
    BY DEF IInv, Types, Visible
  <2>2. \A r \in Visible : r.n \in Nat
    BY <2>1 DEF Event
  <2>3. QED
    BY <1>1, <1>2, <1>3, <1>4, <1>6, <2>2 DEF IInv, NumbersOk, Numbered
<1>10. PlacesOk'
  BY <1>1, <1>3, <1>6 DEF IInv, PlacesOk, PlacedIn
<1>11. DaysOk' /\ KeepsOk'
  BY <1>1, <1>4 DEF IInv, DaysOk, View, KeepsOk
<1>12. QED
  BY <1>7, <1>8, <1>9, <1>10, <1>11 DEF IInv

\* A request ends, its events committed or not.
LEMMA EndKeepsIInv ==
    ASSUME IInv, NEW q \in Requests, Commit(q) \/ Abort(q) PROVE IInv'
<1>1. /\ rows' = rows \/ rows' = rows \cup inserted[q]
      /\ inserted' = [inserted EXCEPT ![q] = {}]
      /\ UNCHANGED <<now, parts, run, lock, draft, nextEvent, lastDone, failures>>
      /\ lock = NoOne
  BY DEF Commit, Abort, Inserting, IInv, LockOk
<1>2. /\ inserted'[q] = {}
      /\ \A p \in Requests \ {q} : inserted'[p] = inserted[p]
  BY <1>1 DEF IInv, Types
<1>3. Visible' \in SUBSET Visible
  BY <1>1, <1>2 DEF Visible
<1>4. Types'
  BY <1>1 DEF IInv, Types
<1>5. LockOk' /\ NumbersOk' /\ PlacesOk'
  BY <1>1, <1>3 DEF IInv, LockOk, NumbersOk, Numbered, PlacesOk, PlacedIn
<1>6. DaysOk' /\ KeepsOk'
  BY <1>1 DEF IInv, DaysOk, View, KeepsOk
<1>7. QED
  BY <1>4, <1>5, <1>6 DEF IInv

LEMMA BeginKeepsIInv == ASSUME IInv, NEW w \in Backends, Begin(w) PROVE IInv'
<1> DEFINE me == [pc |-> "days", today |-> Day(now), day |-> Cutoff(Day(now)),
                  moving |-> {}, drops |-> {}]
<1>1. /\ run[w].pc = "idle" /\ run' = [run EXCEPT ![w] = me]
      /\ UNCHANGED <<now, parts, rows, inserted, lock, draft, nextEvent, lastDone, failures>>
  BY DEF Begin
<1>2. now \in Int /\ Day(now) \in Int /\ Cutoff(Day(now)) \in Int /\ Day(now) * DayLength <= now
  <2>1. now \in Int
    BY NoOneIsNoBackend DEF IInv, Types
  <2>2. QED
    BY <2>1, DayIsNumber, CutoffIsNumber
<1>3. /\ me \in Working /\ me.pc = "days" /\ me.moving = {} /\ me.today = Day(now)
      /\ me.day = Cutoff(me.today)
  BY <1>2 DEF Working
<1> HIDE DEF me
<1>4. run'[w] = me /\ \A v \in Backends \ {w} : run'[v] = run[v]
  BY <1>1, Changed DEF IInv
<1>5. lock # w /\ (lock # NoOne => lock \in Backends \ {w})
  BY <1>1, NoOneIsNoBackend DEF IInv, LockOk, Types
<1>6. Types'
  BY <1>1, <1>3 DEF IInv, Types
<1>7. LockOk'
  BY <1>1, <1>3, <1>4, <1>5 DEF IInv, LockOk
<1>8. Visible' = Visible /\ (lock # NoOne => Holds' = Holds)
  BY <1>1, <1>4, <1>5 DEF Visible, Holds
<1>9. NumbersOk' /\ PlacesOk'
  BY <1>1, <1>3, <1>4, <1>8 DEF IInv, NumbersOk, Numbered, PlacesOk, PlacedIn
<1>10. DaysOk'
  <2>1. \A d \in Int : d \notin Cutoff(me.today) .. me.day - 1
    BY <1>2, <1>3
  <2>2. Cutoff(me.today) .. me.day - 1 \in SUBSET Int
    BY <1>2, <1>3
  <2>3. QED
    BY <1>1, <1>3, <1>4, <1>5, <2>1, <2>2 DEF IInv, DaysOk, View
<1>11. KeepsOk'
  BY <1>1, <1>2, <1>3, <1>4, <1>5, <1>8 DEF IInv, KeepsOk
<1>12. QED
  BY <1>6, <1>7, <1>9, <1>10, <1>11 DEF IInv

LEMMA NextDayKeepsIInv == ASSUME IInv, NEW w \in Backends, NextDay(w) PROVE IInv'
<1> DEFINE old == run[w]
           me == run'[w]
           Last == [old EXCEPT !.pc = "drop", !.drops = {d \in View(w).parts : d < Cutoff(old.today)}]
           Found == [old EXCEPT !.day = @ + 1]
           Missing == [old EXCEPT !.pc = "move"]
           next == CASE old.day > LastDay(old.today) -> Last
                     [] old.day <= LastDay(old.today) /\ old.day \in View(w).parts -> Found
                     [] OTHER -> Missing
<1>1. /\ old.pc = "days" /\ old \in Working /\ old.moving = {} /\ old.today \in Int /\ old.day \in Int
      /\ UNCHANGED <<now, parts, rows, inserted, lock, draft, nextEvent, lastDone, failures>>
  <2>1. old.pc = "days" /\ UNCHANGED <<now, parts, rows, inserted, lock, draft, nextEvent, lastDone, failures>>
    BY DEF NextDay
  <2>2. old \in Working
    BY <2>1, RunTypes DEF IInv
  <2>3. QED
    BY <2>1, <2>2 DEF Working, IInv, LockOk
<1>2. run' = [run EXCEPT ![w] = next]
  BY DEF NextDay
<1>3. View(w).parts \in SUBSET Int /\ LastDay(old.today) \in Int
  BY <1>1, CutoffIsNumber DEF IInv, Types, View
<1>4. /\ me \in Working /\ me.today = old.today /\ me.moving = {} /\ me.pc \in {"drop", "days", "move"}
      /\ me.pc = "drop" => me.day > LastDay(me.today) /\ \A d \in me.drops : d < Cutoff(me.today)
      /\ me.day = old.day \/ (me.day = old.day + 1 /\ old.day \in View(w).parts)
      /\ \A v \in Backends \ {w} : run'[v] = run[v]
  <2>1. me = next /\ \A v \in Backends \ {w} : run'[v] = run[v]
    <3> HIDE DEF next
    <3>1. QED
      BY <1>2, Changed DEF IInv
  <2>2. CASE old.day > LastDay(old.today)
    <3>1. next = Last
      BY <1>1, <1>3, <2>2
    <3>2. Last \in Working /\ Last.pc = "drop" /\ Last.today = old.today /\ Last.day = old.day
          /\ Last.moving = {} /\ Last.drops = {d \in View(w).parts : d < Cutoff(old.today)}
      BY <1>1, <1>3 DEF Working
    <3> HIDE DEF next, Last
    <3>3. QED
      BY <2>1, <2>2, <3>1, <3>2
  <2>3. CASE old.day <= LastDay(old.today) /\ old.day \in View(w).parts
    <3>1. next = Found
      BY <1>1, <1>3, <2>3
    <3>2. Found \in Working /\ Found.pc = "days" /\ Found.today = old.today /\ Found.day = old.day + 1
          /\ Found.moving = {}
      BY <1>1 DEF Working
    <3> HIDE DEF next, Found
    <3>3. QED
      BY <2>1, <2>3, <3>1, <3>2
  <2>4. CASE ~(old.day > LastDay(old.today)) /\ old.day \notin View(w).parts
    <3>1. next = Missing
      BY <1>1, <1>3, <2>4
    <3>2. Missing \in Working /\ Missing.pc = "move" /\ Missing.today = old.today /\ Missing.day = old.day
          /\ Missing.moving = {}
      BY <1>1 DEF Working
    <3> HIDE DEF next, Missing
    <3>3. QED
      BY <2>1, <2>4, <3>1, <3>2
  <2>5. QED
    BY <1>1, <1>3, <2>2, <2>3, <2>4
<1> HIDE DEF next
<1>5. \A v \in Backends : run'[v].pc # "idle" <=> run[v].pc # "idle"
  BY <1>1, <1>4
<1>6. Types'
  <2>1. run' \in [Backends -> {Resting} \cup Working]
    BY <1>2, <1>4 DEF IInv, Types
  <2>2. QED
    BY <1>1, <2>1 DEF IInv, Types
<1>7. LockOk'
  BY <1>1, <1>4, <1>5 DEF IInv, LockOk, Types
<1>8. Visible' = Visible /\ (lock # NoOne => Holds' = Holds /\ run'[lock].today = run[lock].today)
  BY <1>1, <1>4 DEF Visible, Holds, IInv, Types
<1>9. NumbersOk' /\ PlacesOk'
  BY <1>1, <1>4, <1>8 DEF IInv, NumbersOk, Numbered, PlacesOk, PlacedIn
<1>10. DaysOk'
  <2>1. ASSUME me.today >= lastDone, NEW d \in Cutoff(me.today) .. me.day - 1 PROVE d \in View(w).parts
    <3>1. Cutoff(old.today) \in Int /\ \A c \in Cutoff(old.today) .. old.day - 1 : c \in View(w).parts
      BY <1>1, <1>4, <2>1, CutoffIsNumber DEF IInv, DaysOk
    <3>2. d \in Cutoff(old.today) .. old.day - 1 \/ (d = old.day /\ old.day \in View(w).parts)
      BY <1>1, <1>4, <3>1
    <3>3. QED
      BY <3>1, <3>2
  <2>2. \A v \in Backends : View(v)' = View(v)
    BY <1>1 DEF View
  <2>3. \A v \in Backends : run'[v].today = run[v].today \/ run[v].pc = "idle"
    BY <1>4
  <2>4. QED
    BY <1>1, <1>4, <1>5, <2>1, <2>2, <2>3 DEF IInv, DaysOk
<1>11. KeepsOk'
  BY <1>1, <1>4, <1>5, <1>8 DEF IInv, KeepsOk
<1>12. QED
  BY <1>6, <1>7, <1>9, <1>10, <1>11 DEF IInv

\* The run has seen what was committed, which stays so until it ends.
LEMMA LockKeepsIInv == ASSUME IInv, NEW w \in Backends, Lock(w) PROVE IInv'
<1>1. /\ lock = NoOne /\ lock' = w /\ draft' = [parts |-> parts, rows |-> rows]
      /\ draft'.parts = parts /\ draft'.rows = rows
      /\ run[w].pc \in {"move", "drop"}
      /\ \A q \in Requests : inserted[q] = {}
      /\ UNCHANGED <<now, parts, rows, inserted, run, nextEvent, lastDone, failures>>
  BY DEF Lock, Waits, Inserting
<1>2. /\ w # NoOne /\ run[w].moving = {}
      /\ \A v \in Backends : run[v].pc # "create"
  BY <1>1, NoOneIsNoBackend DEF IInv, LockOk
<1>3. Types' /\ LockOk'
  BY <1>1, <1>2 DEF IInv, Types, LockOk
<1>4. Visible' = Visible /\ Visible = rows /\ Holds' = rows
  BY <1>1, <1>2 DEF Visible, Holds
<1>5. NumbersOk' /\ PlacesOk'
  BY <1>1, <1>2, <1>4 DEF IInv, NumbersOk, Numbered, PlacesOk, PlacedIn
<1>6. \A v \in Backends : View(v)'.parts = View(v).parts
  BY <1>1, NoOneIsNoBackend DEF View
<1>7. DaysOk'
  BY <1>1, <1>6 DEF IInv, DaysOk
<1>8. KeepsOk'
  BY <1>1, <1>4 DEF IInv, KeepsOk
<1>9. QED
  BY <1>3, <1>5, <1>7, <1>8 DEF IInv

LEMMA MoveKeepsIInv == ASSUME IInv, NEW w \in Backends, Move(w) PROVE IInv'
<1> DEFINE moving == Parked(draft.rows, run[w].day)
           me == run'[w]
<1>1. /\ run[w].pc = "move" /\ lock = w /\ w # NoOne /\ run[w] \in Working /\ run[w].moving = {}
      /\ run' = [run EXCEPT ![w] = [@ EXCEPT !.pc = "create", !.moving = moving]]
      /\ draft' = [draft EXCEPT !.rows = @ \ moving]
      /\ UNCHANGED <<now, parts, rows, inserted, lock, nextEvent, lastDone, failures>>
  <2>1. run[w].pc = "move" /\ run[w] \in Working
    BY RunTypes DEF Move, IInv
  <2>2. QED
    BY <2>1, NoOneIsNoBackend DEF Move, IInv, LockOk, Types
<1>2. /\ moving \in SUBSET draft.rows /\ moving \in SUBSET Event
      /\ \A r \in moving : Day(r.ts) = run[w].day
  BY DEF Parked, IInv, Types
<1>3. /\ draft'.parts = draft.parts /\ draft'.rows = draft.rows \ moving
      /\ draft' \in [parts : SUBSET Int, rows : SUBSET Event]
  BY <1>1 DEF IInv, Types
<1>4. Parked(draft'.rows, run[w].day) = {}
  BY <1>3 DEF Parked
<1> HIDE DEF moving
<1>5. /\ me \in Working /\ me.pc = "create" /\ me.moving = moving
      /\ me.today = run[w].today /\ me.day = run[w].day
      /\ \A v \in Backends \ {w} : run'[v] = run[v]
  BY <1>1, <1>2 DEF IInv, Types, Working
<1>6. Types'
  <2>1. run' \in [Backends -> {Resting} \cup Working]
    BY <1>1, <1>5 DEF IInv, Types
  <2>2. QED
    BY <1>1, <1>3, <2>1 DEF IInv, Types
<1>7. LockOk'
  BY <1>1, <1>5 DEF IInv, LockOk
<1>8. Visible' = Visible /\ Holds' = Holds
  BY <1>1, <1>2, <1>3, <1>5 DEF Visible, Holds
<1>9. NumbersOk'
  BY <1>1, <1>8 DEF IInv, NumbersOk, Numbered
<1>10. PlacesOk'
  <2>1. PlacedIn(Visible, parts)'
    BY <1>1, <1>8 DEF IInv, PlacesOk, PlacedIn
  <2>2. PlacedIn(draft.rows, draft.parts)'
    BY <1>3 DEF IInv, PlacesOk, PlacedIn
  <2>3. ASSUME NEW v \in Backends, run'[v].pc = "create"
        PROVE  /\ Parked(draft.rows, run[v].day)' = {}
               /\ \A r \in run'[v].moving : Day(r.ts) = run'[v].day
    <3>1. v = w
      BY <1>1, <1>5, <2>3 DEF IInv, LockOk
    <3>2. QED
      BY <1>2, <1>4, <1>5, <3>1 DEF Parked
  <2>4. QED
    BY <2>1, <2>2, <2>3 DEF PlacesOk
<1>11. DaysOk'
  <2>1. \A v \in Backends : View(v)'.parts = View(v).parts
    BY <1>1, <1>3 DEF View
  <2>2. QED
    BY <1>1, <1>3, <1>5, <2>1 DEF IInv, DaysOk
<1>12. KeepsOk'
  BY <1>1, <1>5, <1>8 DEF IInv, KeepsOk
<1>13. QED
  BY <1>6, <1>7, <1>9, <1>10, <1>11, <1>12 DEF IInv

LEMMA CreateKeepsIInv == ASSUME IInv, NEW w \in Backends, Create(w) PROVE IInv'
<1> DEFINE day == run[w].day
           me == run'[w]
           Unparked(r) == [r EXCEPT !.parked = FALSE]
           back == {Unparked(r) : r \in run[w].moving}
           next == [run[w] EXCEPT !.pc = "days", !.day = @ + 1, !.moving = {}]
<1>1. /\ run[w].pc = "create" /\ lock = w /\ w # NoOne /\ run[w] \in Working /\ day \in Int
      /\ day \notin draft.parts
      /\ run' = [run EXCEPT ![w] = next]
      /\ draft' = [parts |-> draft.parts \cup {day}, rows |-> draft.rows \cup back]
      /\ UNCHANGED <<now, parts, rows, inserted, lock, nextEvent, lastDone, failures>>
  <2>1. run[w].pc = "create" /\ run[w] \in Working
    BY RunTypes DEF Create, IInv
  <2>2. QED
    BY <2>1, NoOneIsNoBackend DEF Create, Creatable, IInv, LockOk, Types, Working
<1>2. \A r \in run[w].moving : /\ r \in Event /\ Day(r.ts) = day /\ Unparked(r) \in Event
                               /\ Unparked(r).n = r.n /\ Unparked(r).ts = r.ts /\ ~Unparked(r).parked
  BY <1>1 DEF IInv, PlacesOk, Working, Event
<1>3. \A s \in back : s \in Event /\ Day(s.ts) = day /\ ~s.parked
  BY <1>2
<1>4. \A s \in back : \E r \in run[w].moving : s = Unparked(r) /\ s.n = r.n /\ s.ts = r.ts
  BY <1>2
<1>5. \A r \in run[w].moving : \E s \in back : s = Unparked(r) /\ s.n = r.n /\ s.ts = r.ts
  BY <1>2
<1> HIDE DEF back, Unparked
<1>6. /\ draft'.parts = draft.parts \cup {day} /\ draft'.rows = draft.rows \cup back
      /\ draft' \in [parts : SUBSET Int, rows : SUBSET Event]
  BY <1>1, <1>3 DEF IInv, Types
<1>7. /\ me \in Working /\ me.pc = "days" /\ me.moving = {}
      /\ me.today = run[w].today /\ me.day = day + 1
      /\ \A v \in Backends \ {w} : run'[v] = run[v]
  <2>1. run[w] \in Working
    BY <1>1
  <2>2. /\ next \in Working /\ next.pc = "days" /\ next.moving = {}
        /\ next.today = run[w].today /\ next.day = day + 1
    <3> DEFINE On(d) == [run[w] EXCEPT !.pc = "days", !.day = d, !.moving = {}]
    <3>1. \A d \in Int : /\ On(d) \in Working /\ On(d).pc = "days" /\ On(d).moving = {}
                         /\ On(d).today = run[w].today /\ On(d).day = d
      BY <2>1 DEF Working
    <3>2. next = On(day + 1)
      OBVIOUS
    <3>3. day + 1 \in Int
      BY <2>1 DEF Working
    <3> HIDE DEF next, On
    <3>4. QED
      BY <3>1, <3>2, <3>3
  <2> HIDE DEF next
  <2>3. me = next /\ \A v \in Backends \ {w} : run'[v] = run[v]
    BY <1>1, Changed DEF IInv
  <2>4. QED
    BY <2>2, <2>3
<1>8. Types'
  <2>1. run' \in [Backends -> {Resting} \cup Working]
    BY <1>1, <1>7 DEF IInv, Types
  <2>2. QED
    BY <1>1, <1>6, <2>1 DEF IInv, Types
<1>9. LockOk'
  BY <1>1, <1>7 DEF IInv, LockOk
<1>10. Visible' = Visible /\ Holds' = draft.rows \cup back
  BY <1>1, <1>6, <1>7 DEF Visible, Holds
<1>11. NumbersOk'
  <2>1. Numbered(Holds)
    BY <1>1 DEF IInv, NumbersOk
  <2>2. \A s \in draft.rows : s \in Holds
    BY DEF Holds
  <2>3. \A r \in run[w].moving : r \in Holds
    BY <1>1 DEF Holds
  <2>4. \A s \in draft.rows : Day(s.ts) = day => s.parked
    BY <1>1 DEF IInv, PlacesOk, PlacedIn
  <2>5. \A s \in draft.rows : Day(s.ts) # day
    BY <1>1, <2>4 DEF IInv, PlacesOk, Parked
  <2>6. Numbered(Holds')
    <3>1. \A s \in Holds' : s.n < nextEvent
      BY <1>4, <1>10, <2>1, <2>2, <2>3 DEF Numbered
    <3>2. ASSUME NEW r \in Holds', NEW s \in Holds', r.n = s.n PROVE r = s
      <4>1. CASE r \in draft.rows /\ s \in draft.rows
        BY <2>1, <2>2, <3>2, <4>1 DEF Numbered
      <4>2. CASE r \in back /\ s \in back
        BY <1>4, <2>1, <2>3, <3>2, <4>2 DEF Numbered
      <4>3. CASE r \in draft.rows /\ s \in back
        <5>1. PICK m \in run[w].moving : m.n = s.n
          BY <1>4, <4>3
        <5>2. r = m
          BY <2>1, <2>2, <2>3, <3>2, <4>3, <5>1 DEF Numbered
        <5>3. QED
          BY <1>2, <2>5, <4>3, <5>1, <5>2
      <4>4. CASE r \in back /\ s \in draft.rows
        <5>1. PICK m \in run[w].moving : m.n = r.n
          BY <1>4, <4>4
        <5>2. s = m
          BY <2>1, <2>2, <2>3, <3>2, <4>4, <5>1 DEF Numbered
        <5>3. QED
          BY <1>2, <2>5, <4>4, <5>1, <5>2
      <4>5. QED
        BY <1>10, <4>1, <4>2, <4>3, <4>4
    <3>3. QED
      BY <3>1, <3>2 DEF Numbered
  <2>7. QED
    BY <1>1, <1>10, <2>6 DEF IInv, NumbersOk, Numbered
<1>12. PlacesOk'
  <2>1. \A s \in draft.rows : Day(s.ts) # day
    BY <1>1 DEF IInv, PlacesOk, PlacedIn, Parked
  <2>2. PlacedIn(draft.rows, draft.parts)'
    BY <1>3, <1>6, <2>1 DEF IInv, PlacesOk, PlacedIn
  <2>3. \A v \in Backends : run'[v].pc # "create"
    BY <1>1, <1>7 DEF IInv, LockOk
  <2>4. QED
    BY <1>1, <1>10, <2>2, <2>3 DEF IInv, PlacesOk, PlacedIn
<1>13. DaysOk'
  <2>1. View(w)'.parts = draft.parts \cup {day} /\ View(w).parts = draft.parts
    BY <1>1, <1>6 DEF View
  <2>2. \A v \in Backends \ {w} : View(v)'.parts = View(v).parts
    BY <1>1 DEF View
  <2>3. run[w].today \in Int
    BY <1>1 DEF Working
  <2>4. \A c \in Cutoff(me.today) .. me.day - 1 : c \in Cutoff(run[w].today) .. day - 1 \/ c = day
    BY <1>1, <1>7, <2>3, CutoffIsNumber
  <2>5. QED
    BY <1>1, <1>6, <1>7, <2>1, <2>2, <2>4 DEF IInv, DaysOk
<1>14. KeepsOk'
  <2>1. \A s \in Holds : \E u \in Holds' : u.n = s.n /\ u.ts = s.ts
    BY <1>1, <1>5, <1>10 DEF Holds
  <2>2. ASSUME NEW r \in rows
        PROVE  Day(r.ts) < Cutoff(run[w].today) \/ \E s \in Holds' : s.n = r.n /\ s.ts = r.ts
    <3>1. Day(r.ts) < Cutoff(run[w].today) \/ \E s \in Holds : s.n = r.n /\ s.ts = r.ts
      BY <1>1 DEF IInv, KeepsOk
    <3>2. QED
      BY <2>1, <3>1
  <2>3. QED
    BY <1>1, <1>7, <2>2 DEF IInv, KeepsOk
<1>15. QED
  BY <1>8, <1>9, <1>11, <1>12, <1>13, <1>14 DEF IInv

LEMMA DropKeepsIInv ==
    ASSUME IInv, NEW w \in Backends, NEW d \in parts, Drop(w, d) PROVE IInv'
<1> DEFINE me == run'[w]
           left == {r \in draft.rows : r.parked \/ Day(r.ts) # d}
           next == [run[w] EXCEPT !.drops = @ \ {d}]
<1>1. /\ run[w].pc = "drop" /\ lock = w /\ w # NoOne /\ run[w] \in Working
      /\ d \in run[w].drops /\ d \in draft.parts /\ d \in Int /\ run[w].today \in Int
      /\ run[w].moving = {}
      /\ run' = [run EXCEPT ![w] = next]
      /\ draft' = [parts |-> draft.parts \ {d}, rows |-> left]
      /\ UNCHANGED <<now, parts, rows, inserted, lock, nextEvent, lastDone, failures>>
  <2>1. run[w].pc = "drop" /\ run[w] \in Working
    BY RunTypes DEF Drop, IInv
  <2>2. QED
    BY <2>1, NoOneIsNoBackend DEF Drop, IInv, LockOk, Types, Working
<1>2. /\ next \in Working /\ next.pc = "drop" /\ next.moving = {} /\ next.drops = run[w].drops \ {d}
      /\ next.today = run[w].today /\ next.day = run[w].day
  BY <1>1 DEF Working
<1>3. draft'.parts = draft.parts \ {d} /\ draft'.rows = left /\ draft' \in [parts : SUBSET Int, rows : SUBSET Event]
  BY <1>1 DEF IInv, Types
<1> HIDE DEF next
<1>4. me = next /\ \A v \in Backends \ {w} : run'[v] = run[v]
  BY <1>1, Changed DEF IInv
<1>5. Types'
  <2>1. run' \in [Backends -> {Resting} \cup Working]
    BY <1>1, <1>2 DEF IInv, Types
  <2>2. QED
    BY <1>1, <1>3, <2>1 DEF IInv, Types
<1>6. LockOk'
  BY <1>1, <1>2, <1>4 DEF IInv, LockOk
<1>7. Visible' = Visible /\ Holds = draft.rows /\ Holds' = left
  BY <1>1, <1>2, <1>3, <1>4 DEF Visible, Holds
<1>8. NumbersOk'
  BY <1>1, <1>7 DEF IInv, NumbersOk, Numbered
<1>9. PlacesOk'
  <2>1. \A r \in left : Day(r.ts) # d
    BY <1>1 DEF IInv, PlacesOk, PlacedIn
  <2>2. PlacedIn(draft.rows, draft.parts)'
    BY <1>3, <2>1 DEF IInv, PlacesOk, PlacedIn
  <2>3. \A v \in Backends : run'[v].pc # "create"
    BY <1>1, <1>2, <1>4 DEF IInv, LockOk
  <2>4. QED
    BY <1>1, <1>7, <2>2, <2>3 DEF IInv, PlacesOk, PlacedIn
<1>10. d < Cutoff(run[w].today) /\ Cutoff(run[w].today) \in Int
  BY <1>1, CutoffIsNumber DEF IInv, DaysOk
<1>11. DaysOk'
  <2>1. View(w)'.parts = draft.parts \ {d} /\ View(w).parts = draft.parts
    BY <1>1, <1>3 DEF View
  <2>2. \A v \in Backends \ {w} : View(v)'.parts = View(v).parts
    BY <1>1 DEF View
  <2>3. \A c \in Int : c >= Cutoff(run[w].today) => c # d
    BY <1>1, <1>10
  <2>4. run[w].day \in Int /\ \A c \in Cutoff(run[w].today) .. run[w].day - 1 : c \in Int /\ c # d
    BY <1>1, <1>10, <2>3 DEF Working
  <2>5. parts \in SUBSET Int
    BY DEF IInv, Types
  <2>6. /\ \A c \in Cutoff(lastDone) .. LastDay(lastDone) : c \in parts
        /\ run[w].day > LastDay(run[w].today)
        /\ \A c \in run[w].drops : c < Cutoff(run[w].today)
        /\ run[w].today >= lastDone => \A c \in Cutoff(run[w].today) .. run[w].day - 1 : c \in draft.parts
        /\ \A c \in parts : c >= Cutoff(run[w].today) => c \in draft.parts
    BY <1>1, <2>1 DEF IInv, DaysOk
  <2>7. ASSUME NEW v \in Backends \ {w}, run'[v].pc # "idle"
        PROVE  /\ run'[v].pc = "drop" => run'[v].day > LastDay(run'[v].today)
               /\ run'[v].pc = "drop" => \A c \in run'[v].drops : c < Cutoff(run'[v].today)
               /\ run'[v].today >= lastDone =>
                    \A c \in Cutoff(run'[v].today) .. run'[v].day - 1 : c \in View(v)'.parts
               /\ lock # v
    BY <1>1, <1>4, <2>2, <2>7 DEF IInv, DaysOk
  <2>8. QED
    BY <1>1, <1>2, <1>3, <1>4, <2>1, <2>3, <2>4, <2>5, <2>6, <2>7 DEF DaysOk
<1>12. KeepsOk'
  <2>1. ASSUME NEW r \in rows
        PROVE  Day(r.ts) < Cutoff(run[w].today) \/ \E s \in left : s.n = r.n /\ s.ts = r.ts
    <3>1. CASE Day(r.ts) < Cutoff(run[w].today)
      BY <3>1
    <3>2. CASE \E s \in draft.rows : s.n = r.n /\ s.ts = r.ts
      <4>1. PICK s \in draft.rows : s.n = r.n /\ s.ts = r.ts
        BY <3>2
      <4>2. s \in left \/ Day(r.ts) = d
        BY <4>1
      <4>3. QED
        BY <1>10, <4>1, <4>2
    <3>3. QED
      BY <1>1, <1>7, <3>1, <3>2 DEF IInv, KeepsOk
  <2>2. QED
    BY <1>1, <1>2, <1>4, <1>7, <2>1 DEF IInv, KeepsOk
<1>13. QED
  BY <1>5, <1>6, <1>8, <1>9, <1>11, <1>12 DEF IInv

LEMMA RollBackKeepsIInv ==
    ASSUME IInv, NEW w \in Backends, RollBack(w), failures' \in 0 .. MaxFailures,
           UNCHANGED <<now, parts, rows, inserted, nextEvent, lastDone>>
    PROVE  IInv'
<1>1. run'[w].pc = "idle" /\ \A v \in Backends \ {w} : run'[v] = run[v]
  <2>1. run' = [run EXCEPT ![w] = Resting]
    BY DEF RollBack
  <2>2. run'[w] = Resting /\ \A v \in Backends \ {w} : run'[v] = run[v]
    BY <2>1, Changed DEF IInv
  <2>3. QED
    BY <2>2 DEF Resting
<1>2. \/ lock = w /\ lock' = NoOne /\ draft' = NoDraft
      \/ lock # w /\ lock' = lock /\ draft' = draft
  BY DEF RollBack
<1>3. NoDraft \in [parts : SUBSET Int, rows : SUBSET Event] /\ NoDraft.rows = {} /\ NoDraft.parts = {}
  BY DEF NoDraft
<1>4. lock' # NoOne => lock' = lock /\ lock \in Backends \ {w} /\ draft' = draft
  BY <1>2 DEF IInv, Types
<1>5. Types'
  <2>1. run' \in [Backends -> {Resting} \cup Working]
    BY DEF IInv, Types, RollBack
  <2>2. QED
    BY <1>2, <1>3, <2>1 DEF IInv, Types
<1>6. LockOk'
  BY <1>1, <1>2, <1>4, NoOneIsNoBackend DEF IInv, LockOk
<1>7. Visible' = Visible /\ (lock' # NoOne => Holds' = Holds)
  BY <1>1, <1>4 DEF Visible, Holds
<1>8. NumbersOk'
  BY <1>4, <1>7 DEF IInv, NumbersOk, Numbered
<1>9. PlacesOk'
  <2>1. PlacedIn(draft.rows, draft.parts)'
    BY <1>2, <1>3 DEF IInv, PlacesOk, PlacedIn
  <2>2. \A v \in Backends : run'[v].pc = "create" => v # w /\ lock = v /\ draft' = draft
    BY <1>1, <1>2 DEF IInv, LockOk
  <2>3. QED
    BY <1>1, <1>7, <2>1, <2>2 DEF IInv, PlacesOk, PlacedIn
<1>10. DaysOk'
  <2>1. \A v \in Backends \ {w} : View(v)'.parts = View(v).parts
    BY <1>2, NoOneIsNoBackend DEF View
  <2>2. QED
    BY <1>1, <1>2, <1>4, <2>1, NoOneIsNoBackend DEF IInv, DaysOk
<1>11. KeepsOk'
  BY <1>1, <1>4, <1>7 DEF IInv, KeepsOk
<1>12. QED
  BY <1>5, <1>6, <1>8, <1>9, <1>10, <1>11 DEF IInv

LEMMA FinishIs ==
    ASSUME IInv, NEW w \in Backends, Finish(w)
    PROVE  /\ run[w].pc = "drop" /\ run[w].moving = {} /\ run[w].drops = {} /\ w # NoOne
           /\ run[w].today \in Int /\ run[w].day \in Int
           /\ lock \in {w, NoOne} /\ lock' = NoOne /\ draft' = NoDraft /\ run'[w].pc = "idle"
           /\ \A v \in Backends \ {w} : run'[v] = run[v]
           /\ run' \in [Backends -> {Resting} \cup Working]
           /\ parts' = View(w).parts
           /\ \A r \in rows' : r \in View(w).rows
           /\ \A r \in View(w).rows : r \in rows' \/ Day(r.ts) < Cutoff(run[w].today)
           /\ lastDone' = IF run[w].today > lastDone THEN run[w].today ELSE lastDone
           /\ UNCHANGED <<now, inserted, nextEvent, failures>>
<1>1. run[w].pc = "drop" /\ run[w] \in Working
  BY RunTypes DEF Finish, IInv
<1>2. run' = [run EXCEPT ![w] = Resting]
  BY DEF Finish
<1>3. run'[w] = Resting /\ \A v \in Backends \ {w} : run'[v] = run[v]
  BY <1>2, Changed DEF IInv
<1>4. run' \in [Backends -> {Resting} \cup Working]
  BY <1>2 DEF IInv, Types
<1>5. run[w].today \in Int /\ run[w].day \in Int
  BY <1>1 DEF Working
<1>6. run[w].moving = {}
  BY <1>1 DEF IInv, LockOk
<1>7. w # NoOne /\ Resting.pc = "idle"
  BY NoOneIsNoBackend DEF Resting
<1>8. QED
  BY <1>1, <1>3, <1>4, <1>5, <1>6, <1>7 DEF Finish

\* What the run with the date today commits: partitions back to its cutoff.
LEMMA FinishKeepsIInv == ASSUME IInv, NEW w \in Backends, Finish(w) PROVE IInv'
<1> DEFINE today == run[w].today
<1>1. /\ run[w].pc = "drop" /\ w # NoOne /\ today \in Int /\ run[w].day \in Int
      /\ lock \in {w, NoOne} /\ lock' = NoOne /\ draft' = NoDraft /\ run'[w].pc = "idle"
      /\ \A v \in Backends \ {w} : run'[v] = run[v]
      /\ parts' = View(w).parts
      /\ \A r \in rows' : r \in View(w).rows
      /\ lastDone' = IF today > lastDone THEN today ELSE lastDone
      /\ UNCHANGED <<now, inserted, nextEvent, failures>>
  BY FinishIs
<1>2. /\ lastDone \in Int /\ lastDone' \in Int /\ lastDone' >= lastDone /\ lastDone' >= today
      /\ parts \in SUBSET Int
  BY <1>1 DEF IInv, Types
<1>3. /\ NoDraft \in [parts : SUBSET Int, rows : SUBSET Event]
      /\ NoDraft.rows = {} /\ NoDraft.parts = {}
  BY DEF NoDraft
<1>4. Types'
  <2>1. View(w).parts \in SUBSET Int /\ View(w).rows \in SUBSET Event
    BY DEF IInv, Types, View
  <2>2. parts' \in SUBSET Int /\ rows' \in SUBSET Event
    BY <1>1, <2>1
  <2>3. QED
    BY <1>1, <1>2, <1>3, <2>2, FinishIs DEF IInv, Types
<1>5. \A v \in Backends : run'[v].pc # "create"
  BY <1>1, NoOneIsNoBackend DEF IInv, LockOk
<1>6. LockOk'
  BY <1>1, <1>5 DEF IInv, LockOk
<1>7. NumbersOk' /\ PlacesOk'
  <2>1. CASE lock = w
    <3>1. View(w) = draft /\ \A q \in Requests : inserted[q] = {}
      BY <1>1, <2>1 DEF View, IInv, LockOk
    <3>2. Visible' \in SUBSET draft.rows
      BY <1>1, <3>1 DEF Visible
    <3>3. \A r \in Visible' : r \in Holds /\ r \in draft.rows
      BY <3>2 DEF Holds
    <3>4. Numbered(Holds) /\ PlacedIn(draft.rows, draft.parts)
      BY <1>1, <2>1 DEF IInv, NumbersOk, PlacesOk
    <3>5. QED
      BY <1>1, <1>3, <1>5, <3>1, <3>3, <3>4 DEF NumbersOk, Numbered, PlacesOk, PlacedIn
  <2>2. CASE lock = NoOne
    <3>1. View(w).rows = rows /\ View(w).parts = parts
      BY <1>1, <2>2 DEF View
    <3>2. Visible' \in SUBSET Visible
      BY <1>1, <3>1 DEF Visible
    <3>3. QED
      BY <1>1, <1>3, <1>5, <3>1, <3>2 DEF IInv, NumbersOk, Numbered, PlacesOk, PlacedIn
  <2>3. QED
    BY <1>1, <2>1, <2>2
<1>8. \A c \in parts : c >= Cutoff(today) => c \in parts'
  BY <1>1 DEF IInv, DaysOk, View
<1>9. DaysOk'
  <2>1. \A d \in Int : Cutoff(d) = d - Days /\ LastDay(d) = d + 2 /\ Cutoff(d) \in Int /\ LastDay(d) \in Int
    BY CutoffIsNumber
  <2>2. /\ \A d \in Cutoff(lastDone) .. LastDay(lastDone) : d \in parts
        /\ run[w].day > LastDay(today)
        /\ today >= lastDone => \A d \in Cutoff(today) .. run[w].day - 1 : d \in View(w).parts
    BY <1>1 DEF IInv, DaysOk
  <2>3. ASSUME NEW d \in Cutoff(lastDone') .. LastDay(lastDone') PROVE d \in parts'
    <3>1. CASE today > lastDone
      <4>1. d \in Cutoff(today) .. run[w].day - 1
        BY <1>1, <1>2, <2>1, <2>2, <2>3, <3>1
      <4>2. QED
        BY <1>1, <1>2, <2>2, <3>1, <4>1
    <3>2. CASE ~(today > lastDone)
      <4>1. d \in Cutoff(lastDone) .. LastDay(lastDone)
        BY <1>1, <2>3, <3>2
      <4>2. d >= Cutoff(today)
        BY <1>1, <1>2, <2>1, <3>2, <4>1, DaysIsNumber
      <4>3. QED
        BY <1>8, <2>2, <4>1, <4>2
    <3>3. QED
      BY <3>1, <3>2
  <2>4. ASSUME NEW v \in Backends \ {w}, run[v].pc # "idle", run[v].today >= lastDone',
               NEW c \in Cutoff(run[v].today) .. run[v].day - 1
        PROVE  c \in parts'
    <3>1. run[v].today \in Int /\ run[v].day \in Int
      BY <2>4, RunTypes DEF IInv, Working
    <3>2. run[v].today >= lastDone /\ run[v].today >= today /\ c \in Int
      BY <1>1, <1>2, <2>1, <2>4, <3>1
    <3>3. c \in View(v).parts /\ lock # v
      BY <1>1, <2>4, <3>2, NoOneIsNoBackend DEF IInv, DaysOk
    <3>4. c \in parts
      BY <3>3 DEF View
    <3>5. c >= Cutoff(today)
      BY <1>1, <2>1, <2>4, <3>1, <3>2, DaysIsNumber
    <3>6. QED
      BY <1>8, <3>4, <3>5
  <2>5. \A v \in Backends : View(v)'.parts = parts' /\ lock' # v
    BY <1>1, NoOneIsNoBackend DEF View
  <2>6. \A v \in Backends \ {w} : run'[v].pc # "idle" =>
            /\ run'[v].pc = "drop" => run'[v].day > LastDay(run'[v].today)
            /\ run'[v].pc = "drop" => \A d \in run'[v].drops : d < Cutoff(run'[v].today)
    BY <1>1 DEF IInv, DaysOk
  <2>7. QED
    BY <1>1, <2>3, <2>4, <2>5, <2>6 DEF DaysOk
<1>10. KeepsOk'
  BY <1>1 DEF IInv, KeepsOk
<1>11. QED
  BY <1>4, <1>6, <1>7, <1>9, <1>10 DEF IInv

LEMMA NextKeepsIInv == IInv /\ [Next]_vars => IInv'
<1> SUFFICES ASSUME IInv, [Next]_vars PROVE IInv'
  OBVIOUS
<1>1. CASE UNCHANGED vars
  BY <1>1 DEF vars, IInv, Types, LockOk, NumbersOk, Numbered, Visible, Holds, PlacesOk, PlacedIn,
              DaysOk, View, KeepsOk
<1>2. CASE Tick
  BY <1>2, TickKeepsIInv
<1>3. ASSUME NEW q \in Requests, NEW ts \in now - Retention .. now + FutureSkew, Insert(q, ts) PROVE IInv'
  BY <1>3, InsertKeepsIInv
<1>4. ASSUME NEW q \in Requests, Commit(q) \/ Abort(q) PROVE IInv'
  BY <1>4, EndKeepsIInv
<1>5. ASSUME NEW w \in Backends, Step(w) PROVE IInv'
  <2>1. CASE Begin(w)
    BY <2>1, BeginKeepsIInv
  <2>2. CASE NextDay(w)
    BY <2>2, NextDayKeepsIInv
  <2>3. CASE Lock(w)
    BY <2>3, LockKeepsIInv
  <2>4. CASE Move(w)
    BY <2>4, MoveKeepsIInv
  <2>5. CASE Create(w)
    BY <2>5, CreateKeepsIInv
  <2>6. ASSUME NEW d \in parts, Drop(w, d) PROVE IInv'
    BY <2>6, DropKeepsIInv
  <2>7. CASE Finish(w)
    BY <2>7, FinishKeepsIInv
  <2>8. CASE Overtaken(w)
    BY <2>8, RollBackKeepsIInv DEF Overtaken, IInv, Types
  <2>9. QED
    BY <1>5, <2>1, <2>2, <2>3, <2>4, <2>5, <2>6, <2>7, <2>8 DEF Step
<1>6. ASSUME NEW w \in Backends, Fail(w) PROVE IInv'
  <2>1. failures' \in 0 .. MaxFailures
    BY <1>6, NoOneIsNoBackend DEF Fail, IInv, Types
  <2>2. QED
    BY <1>6, <2>1, RollBackKeepsIInv DEF Fail
<1>7. QED
  BY <1>1, <1>2, <1>3, <1>4, <1>5, <1>6 DEF Next

LEMMA Inductive == Spec => []IInv
BY InitIInv, NextKeepsIInv, PTL DEF Spec

-----------------------------------------------------------------------------
(* The theorems.                                                           *)

\* Every variable stays in its domain, only a run at work has the lock, and no
\* event is counted twice, in a draft neither.
THEOREM TypeCorrect == Spec => []TypeOK
<1>1. IInv => TypeOK
  <2> SUFFICES ASSUME IInv PROVE TypeOK
    OBVIOUS
  <2>1. rows \subseteq Visible /\ (lock # NoOne => draft.rows \subseteq Holds)
    BY DEF Visible, Holds
  <2>2. Everywhere \subseteq Visible \cup draft.rows
    BY DEF Everywhere, Visible
  <2>3. Visible \cup draft.rows \subseteq Event
    BY DEF IInv, Types, Visible
  <2>4. lock = NoOne => draft.rows = {}
    BY DEF IInv, LockOk, NoDraft
  <2>5. \A r \in Visible \cup draft.rows : r.n < nextEvent
    BY <2>1, <2>4 DEF IInv, NumbersOk, Numbered
  <2>6. \A r \in Everywhere : r.n \in 1 .. nextEvent - 1 /\ r.ts \in Int /\ r.parked \in BOOLEAN
    BY <2>2, <2>3, <2>5, NoOneIsNoBackend DEF IInv, Types, Event
  <2>7. \A S \in {rows, draft.rows} : \A r, s \in S : r.n = s.n => r = s
    BY <2>1, <2>4 DEF IInv, NumbersOk, Numbered
  <2>8. lock # NoOne => run[lock].pc \in {"days", "move", "create", "drop"}
    BY RunTypes DEF IInv, Types, LockOk, Working
  <2>9. QED
    BY <2>6, <2>7, <2>8 DEF TypeOK, IInv, Types, LockOk
<1>2. QED
  BY <1>1, Inductive, PTL

\* Whatever commits around a run, and however many there are, an event is in
\* DEFAULT exactly when its day has no partition.
THEOREM AlwaysPlaced == Spec => []Placed
<1>1. IInv => Placed
  BY DEF IInv, PlacesOk, PlacedIn, Visible, Placed
<1>2. QED
  BY <1>1, Inductive, PTL

\* No CREATE is refused for rows of its day in DEFAULT.
THEOREM NothingEverInBetween == Spec => []NothingInBetween
<1>1. IInv => NothingInBetween
  <2> SUFFICES ASSUME IInv, NEW w \in Backends, run[w].pc = "create"
               PROVE  /\ Parked(draft.rows, run[w].day) = {}
                      /\ \A q \in Requests : Parked(inserted[q], run[w].day) = {}
    BY DEF NothingInBetween
  <2>1. lock = w /\ w # NoOne /\ Parked(draft.rows, run[w].day) = {}
    BY NoOneIsNoBackend DEF IInv, LockOk, PlacesOk
  <2>2. \A q \in Requests : inserted[q] = {}
    BY <2>1 DEF IInv, LockOk
  <2>3. QED
    BY <2>1, <2>2 DEF Parked
<1>2. QED
  BY <1>1, Inductive, PTL

\* The days of the latest run that succeeded have their partitions, however
\* many runs of other days overlap.
THEOREM AlwaysCovered == Spec => []Covered
<1>1. IInv => Covered
  <2> SUFFICES ASSUME IInv PROVE Covered
    OBVIOUS
  <2>1. lastDone \in Int
    BY DEF IInv, Types
  <2>2. Cutoff(lastDone) = lastDone - Days /\ LastDay(lastDone) = lastDone + 2
    BY <2>1, CutoffIsNumber
  <2>3. QED
    BY <2>2 DEF IInv, DaysOk, Covered
<1>2. QED
  BY <1>1, Inductive, PTL

\* What is before a cutoff is older than the retention, whole days counted.
LEMMA OldEnough ==
    ASSUME NEW ts \in Int, NEW today \in Int, NEW t \in Int,
           today * DayLength <= t, Day(ts) < Cutoff(today)
    PROVE  (Day(ts) + 1) * DayLength + Retention <= t
<1>1. Day(ts) \in Int /\ Days \in Int /\ DayLength \in Nat /\ Retention \in Nat
  BY DayIsNumber, DaysIsNumber, PartitionsAssumption
<1>2. Day(ts) + 1 <= today - Days
  BY <1>1, CutoffIsNumber
<1>3. (Day(ts) + 1) * DayLength <= (today - Days) * DayLength
  BY <1>1, <1>2
<1>4. (today - Days) * DayLength = today * DayLength - Days * DayLength
  BY <1>1
<1>5. /\ today * DayLength \in Int /\ Days * DayLength \in Int
      /\ (Day(ts) + 1) * DayLength \in Int /\ (today - Days) * DayLength \in Int
  BY <1>1
<1>6. Days * DayLength >= Retention
  BY DaysIsNumber
<1>7. QED
  BY <1>1, <1>3, <1>4, <1>5, <1>6

\* An event goes only when its whole day is older than the retention, even if
\* the run that drops it has waited for days.
THEOREM AlwaysKept == Spec => KeptForRetention
<1>1. ASSUME IInv, [Next]_vars, NEW r \in rows, \A s \in rows' : s.n # r.n
      PROVE  (Day(r.ts) + 1) * DayLength + Retention <= now
  <2>1. \/ rows \subseteq rows'
        \/ \E w \in Backends : Finish(w)
    <3>1. CASE UNCHANGED vars \/ Tick
      BY <3>1 DEF vars, Tick
    <3>2. ASSUME NEW q \in Requests, NEW ts \in now - Retention .. now + FutureSkew,
                 Insert(q, ts)
          PROVE  rows \subseteq rows'
      BY <3>2 DEF Insert
    <3>3. ASSUME NEW w \in Backends, Fail(w) \/ (Step(w) /\ ~Finish(w)) PROVE rows' = rows
      BY <3>3 DEF Step, Begin, NextDay, Lock, Move, Create, Drop, Overtaken, Fail
    <3>4. ASSUME NEW q \in Requests, Commit(q) \/ Abort(q) PROVE rows \subseteq rows'
      BY <3>4 DEF Commit, Abort
    <3>5. QED
      BY <1>1, <3>1, <3>2, <3>3, <3>4 DEF Next
  <2>2. PICK w \in Backends : Finish(w)
    BY <1>1, <2>1
  <2>3. /\ run[w].pc = "drop" /\ run[w].moving = {} /\ w # NoOne /\ run[w].today \in Int /\ lock \in {w, NoOne}
        /\ \A s \in View(w).rows : s \in rows' \/ Day(s.ts) < Cutoff(run[w].today)
    BY <1>1, <2>2, FinishIs
  <2>4. Day(r.ts) < Cutoff(run[w].today)
    <3>1. CASE lock = NoOne
      BY <1>1, <2>3, <3>1 DEF View
    <3>2. CASE lock = w
      <4>1. View(w).rows = Holds
        BY <2>3, <3>2 DEF View, Holds
      <4>2. Day(r.ts) < Cutoff(run[w].today) \/ \E s \in Holds : s.n = r.n /\ s.ts = r.ts
        BY <1>1, <2>3, <3>2 DEF IInv, KeepsOk
      <4>3. QED
        BY <1>1, <2>3, <4>1, <4>2
    <3>3. QED
      BY <2>3, <3>1, <3>2
  <2>5. run[w].today * DayLength <= now /\ now \in Int /\ r.ts \in Int
    BY <1>1, <2>3, NoOneIsNoBackend DEF IInv, KeepsOk, Types, Event
  <2>6. QED
    BY <2>3, <2>4, <2>5, OldEnough
<1>2. IInv /\ [Next]_vars => [\A r \in rows : (\A s \in rows' : s.n # r.n) =>
        (Day(r.ts) + 1) * DayLength + Retention <= now]_vars
  BY <1>1
<1>3. QED
  BY <1>2, Inductive, PTL DEF Spec, KeptForRetention
=============================================================================
