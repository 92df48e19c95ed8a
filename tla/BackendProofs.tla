--------------------------- MODULE BackendProofs ---------------------------
(***************************************************************************)
(* The life of the process for any number of jobs, requests and            *)
(* connections, and the normalizer for every record: whatever its keys and *)
(* their values, and whatever the words in them.                           *)
(***************************************************************************)
EXTENDS Serve, Normalizer, SequenceTheorems, FiniteSetTheorems, WellFoundedInduction, TLAPS

-----------------------------------------------------------------------------
(* The process.                                                            *)

\* Before the pool is open nothing runs.
NotStarted == main = "opening" => pool = "none" /\ Live = {}

\* Once a shutdown began the API server accepts nothing, and one that was in
\* time left no request behind.
ShutIsShut ==
    main \notin {"opening", "building", "serving"} /\ result # "failed" =>
        /\ server["api"] \in {"closed", "returned"}
        /\ main # "draining" => Live = {}

\* The pool closes after the jobs, and for good.
ClosesLast ==
    /\ main \in {"closing", "exited"} /\ pool # "none" => pool = "closing"
    /\ main \in {"closing"} => pool = "closing"
    /\ pool = "closing" => main \in {"closing", "exited"}

\* What serve returns is not decided before it stops.
Undecided == main \in {"opening", "building", "serving", "draining"} => result = "none"

\* The deadline is a failure.
LateFails == late => result = "failed"

IInv == TypeOK /\ LateFails /\ Undecided /\ NotStarted /\ ShutIsShut /\ ClosesLast /\ OrderlyShutdown

LEMMA InitIInv == Init => IInv
BY DEF Init, IInv, TypeOK, LateFails, Undecided, NotStarted, ShutIsShut, ClosesLast, OrderlyShutdown, Live, Servers

LEMMA MainKeepsIInv == IInv /\ Main => IInv'
<1> SUFFICES ASSUME IInv, Main PROVE IInv'
  OBVIOUS
<1> USE DEF IInv, TypeOK, LateFails, Undecided, NotStarted, ShutIsShut, ClosesLast, OrderlyShutdown, Live
<1>1. CASE OpenFails
  BY <1>1 DEF OpenFails
<1>2. CASE Open
  BY <1>2 DEF Open
<1>3. CASE BuildFails
  BY <1>3 DEF BuildFails
<1>4. CASE Build
  BY <1>4 DEF Build
<1>5. CASE ReceiveError
  BY <1>5 DEF ReceiveError
<1>6. CASE ShutDown
  BY <1>6 DEF ShutDown, Close, Servers
<1>7. CASE Drained
  BY <1>7 DEF Drained
<1>8. CASE Deadline
  BY <1>8 DEF Deadline
<1>9. CASE StopJobs
  BY <1>9 DEF StopJobs
<1>10. CASE JobsStopped
  BY <1>10 DEF JobsStopped
<1>11. CASE Exit
  BY <1>11 DEF Exit, Cut
<1>12. QED
  BY <1>1, <1>2, <1>3, <1>4, <1>5, <1>6, <1>7, <1>8, <1>9, <1>10, <1>11 DEF Main

LEMMA ServerKeepsIInv == ASSUME IInv, NEW s \in Servers, Listen(s) \/ Return(s) PROVE IInv'
<1>1. main' = main /\ result' = result /\ late' = late /\ pool' = pool /\ job' = job /\ request' = request
  BY DEF Listen, Return
<1>2. server' \in [Servers -> {"none", "starting", "listening", "closed", "returned"}]
  BY DEF Listen, Return, IInv, TypeOK
<1>3. TypeOK'
  BY <1>2 DEF Listen, Return, IInv, TypeOK
<1>4. ShutIsShut'
  <2>1. SUFFICES ASSUME server["api"] \in {"closed", "returned"} PROVE server'["api"] \in {"closed", "returned"}
    BY <1>1 DEF IInv, ShutIsShut, Live
  <2>2. CASE Listen(s)
    BY <2>1, <2>2 DEF Listen, IInv, TypeOK
  <2>3. CASE Return(s)
    BY <2>1, <2>3 DEF Return, IInv, TypeOK
  <2>4. QED
    BY <2>2, <2>3
<1>5. QED
  BY <1>1, <1>3, <1>4 DEF IInv, LateFails, Undecided, NotStarted, ClosesLast, OrderlyShutdown, Live

\* A job is never taken up again once it returned.
LEMMA JobKeepsIInv ==
    ASSUME IInv, NEW j \in Jobs, NEW from, NEW to \in {"running", "querying", "waiting", "returned"},
           JobTo(j, from, to), from # "returned"
    PROVE  IInv'
<1>1. pool = "closing" => job[j] = "returned"
  BY DEF IInv, OrderlyShutdown
<1>2. pool # "closing"
  BY <1>1 DEF JobTo
<1>3. QED
  BY <1>2 DEF IInv, TypeOK, LateFails, Undecided, NotStarted, ShutIsShut, ClosesLast, OrderlyShutdown, Live, JobTo

LEMMA RequestKeepsIInv ==
    ASSUME IInv, NEW r \in Requests, NEW from, NEW to \in {"open", "querying", "answered", "cut"},
           RequestTo(r, from, to),
           from = "none" => to = "open" /\ server["api"] = "listening",
           to = "cut" => late, from \in {"none", "open", "querying"}
    PROVE  IInv'
<1>1. main \notin {"opening", "exited"}
  BY DEF RequestTo, Up
<1>2. Live' \subseteq Live \cup {r}
  BY DEF RequestTo, Live, IInv, TypeOK
<1>3. CASE from = "none"
  <2>1. main \in {"building", "serving"} \/ result = "failed"
    BY <1>1, <1>3 DEF IInv, TypeOK, ShutIsShut
  <2>2. QED
    BY <1>1, <1>3, <2>1 DEF IInv, TypeOK, LateFails, Undecided, NotStarted, ShutIsShut, ClosesLast, OrderlyShutdown, RequestTo
<1>4. CASE from # "none"
  <2>1. r \in Live
    BY <1>4 DEF RequestTo, Live
  <2>2. QED
    BY <1>1, <1>2, <2>1 DEF IInv, TypeOK, LateFails, Undecided, NotStarted, ShutIsShut, ClosesLast, OrderlyShutdown, RequestTo
<1>5. QED
  BY <1>3, <1>4

LEMMA NextKeepsIInv == IInv /\ [Next]_vars => IInv'
<1> SUFFICES ASSUME IInv, [Next]_vars PROVE IInv'
  OBVIOUS
<1>1. CASE Signal
  BY <1>1 DEF Signal, IInv, TypeOK, LateFails, Undecided, NotStarted, ShutIsShut, ClosesLast, OrderlyShutdown, Live
<1>2. CASE Main
  BY <1>2, MainKeepsIInv
<1>3. CASE \E s \in Servers : Listen(s) \/ Return(s)
  BY <1>3, ServerKeepsIInv
<1>4. CASE \E j \in Jobs : JobQueries(j) \/ JobQueried(j) \/ RunEnds(j) \/ Ticks(j) \/ JobReturns(j)
  BY <1>4, JobKeepsIInv DEF JobQueries, JobQueried, RunEnds, Ticks, JobReturns
<1>5. CASE \E r \in Requests : Arrives(r) \/ RequestQueries(r) \/ RequestQueried(r) \/ Answer(r)
  BY <1>5, RequestKeepsIInv DEF Arrives, RequestQueries, RequestQueried, Answer
<1>6. CASE UNCHANGED vars
  BY <1>6 DEF vars, IInv, TypeOK, LateFails, Undecided, NotStarted, ShutIsShut, ClosesLast, OrderlyShutdown, Live
<1>7. QED
  BY <1>1, <1>2, <1>3, <1>4, <1>5, <1>6 DEF Next

LEMMA Inductive == Spec => []IInv
BY InitIInv, NextKeepsIInv, PTL DEF Spec

\* Every variable of the process stays in its domain, however many jobs and
\* requests share how few connections.
THEOREM TypeCorrect == Spec => []TypeOK
BY Inductive, PTL DEF IInv

\* serve.go's order of stopping: serve reports success only if no request was cut
\* short, and the pool closes only once every job has returned.  What a signal
\* does to a job's query is not part of it.
THEOREM ShutdownAlwaysOrderly == Spec => []OrderlyShutdown
BY Inductive, PTL DEF IInv

-----------------------------------------------------------------------------
(* Numbers.                                                                *)

\* A set of numbers that are not negative has a least one.
LEMMA Least ==
    ASSUME NEW b \in Nat, NEW S \in SUBSET (0 .. b), S # {}
    PROVE  \E x \in S : \A y \in S : x <= y
<1> DEFINE R == StrictSubsetOrdering(0 .. b)
           T == {0 .. x : x \in S}
<1>1. IsWellFoundedOn(R, SUBSET (0 .. b))
  <2>1. IsFiniteSet(0 .. b)
    BY FS_Interval
  <2>2. FiniteSubsetsOf(0 .. b) = SUBSET (0 .. b)
    BY <2>1, FS_FiniteSubsetsOfFinite
  <2>3. IsWellFoundedOn(R, FiniteSubsetsOf(0 .. b))
    BY FS_StrictSubsetOrderingWellFounded
  <2> QED
    BY <2>2, <2>3
<1>2. T \subseteq SUBSET (0 .. b) /\ T # {}
  <2>1. PICK x \in S : TRUE
    OBVIOUS
  <2>2. 0 .. x \in T
    BY <2>1
  <2>3. \A y \in S : 0 .. y \subseteq 0 .. b
    OBVIOUS
  <2> QED
    BY <2>2, <2>3
<1> HIDE DEF R
<1>3. PICK t \in T : \A u \in T : <<u, t>> \notin R
  BY <1>1, <1>2, WFMin, Zenon
<1>4. PICK x \in S : t = 0 .. x
  BY <1>3
<1>5. ASSUME NEW y \in S, y < x PROVE FALSE
  <2>1. 0 .. y \in SUBSET (0 .. b) /\ 0 .. x \in SUBSET (0 .. b)
    OBVIOUS
  <2>2. 0 .. y \subseteq 0 .. x /\ 0 .. y # 0 .. x
    BY <1>5
  <2>3. <<0 .. y, 0 .. x>> \in R
    BY <2>1, <2>2 DEF R, StrictSubsetOrdering
  <2> QED
    BY <1>3, <1>4, <2>3
<1> QED
  BY <1>5

\* Counting up from 0 reaches every number to b.
LEMMA CountUp ==
    ASSUME NEW b \in Nat, NEW P, 0 \in P,
           \A m \in 0 .. b - 1 : m \in P => m + 1 \in P
    PROVE  \A m \in 0 .. b : m \in P
<1> DEFINE bad == {m \in 0 .. b : m \notin P}
<1>1. SUFFICES ASSUME bad # {} PROVE FALSE
  OBVIOUS
<1>2. PICK x \in bad : \A y \in bad : x <= y
  BY <1>1, Least
<1>3. x # 0 /\ x \in 0 .. b
  BY <1>2
<1>4. x - 1 \in 0 .. b - 1 /\ ~(x <= x - 1) /\ (x - 1) + 1 = x
  BY <1>3
<1>5. x - 1 \in P
  BY <1>2, <1>4
<1> QED
  BY <1>2, <1>4, <1>5

\* A set of places in a sequence has a first and a last.
LEMMA Bounds ==
    ASSUME NEW n \in Nat, NEW S \in SUBSET (1 .. n), S # {}
    PROVE  /\ Min(S) \in S /\ \A x \in S : Min(S) <= x
           /\ Max(S) \in S /\ \A x \in S : x <= Max(S)
<1> DEFINE T == {n - x : x \in S}
<1>1. S \in SUBSET (0 .. n) /\ T \in SUBSET (0 .. n) /\ T # {}
  <2>1. PICK x \in S : TRUE
    OBVIOUS
  <2>2. n - x \in T
    BY <2>1
  <2>3. \A y \in S : y \in 0 .. n /\ n - y \in 0 .. n
    OBVIOUS
  <2> QED
    BY <2>2, <2>3
<1>2. PICK x \in S : \A y \in S : x <= y
  BY <1>1, Least
<1>3. PICK z \in T : \A y \in T : z <= y
  BY <1>1, Least
<1>4. PICK w \in S : z = n - w
  BY <1>3
<1>5. \A y \in S : n - w <= n - y
  BY <1>3, <1>4
<1>6. \A y \in S : w >= y
  BY <1>5
<1>7. Min(S) \in S /\ \A y \in S : Min(S) <= y
  BY <1>2 DEF Min
<1>8. Max(S) \in S /\ \A y \in S : Max(S) >= y
  BY <1>6 DEF Max
<1> QED
  BY <1>7, <1>8

-----------------------------------------------------------------------------
(* Texts.                                                                  *)

\* Neither end of a text is blank.
Trimmed(t) == t = Empty \/ (t[1] \notin Blank /\ t[Len(t)] \notin Blank)

\* A trimmed text has ends that are not blank and nothing the text had not,
\* and is empty if there were only blanks.
LEMMA TrimIs ==
    ASSUME NEW t \in Texts
    PROVE  /\ TrimSpace(t) \in Texts /\ Trimmed(TrimSpace(t))
           /\ \A i \in 1 .. Len(TrimSpace(t)) : \E j \in 1 .. Len(t) : TrimSpace(t)[i] = t[j]
           /\ TrimSpace(t) = Empty <=> \A i \in 1 .. Len(t) : t[i] \in Blank
<1> DEFINE words == {i \in DOMAIN t : t[i] \notin Blank}
<1>1. t \in Seq(STRING) /\ Len(t) \in Nat /\ DOMAIN t = 1 .. Len(t)
  BY DEF Texts
<1>2. CASE words = {}
  <2>1. TrimSpace(t) = <<>>
    BY <1>2 DEF TrimSpace, Empty
  <2>2. TrimSpace(t) \in Texts /\ Len(TrimSpace(t)) = 0
    BY <2>1 DEF Texts
  <2> QED
    BY <1>1, <1>2, <2>1, <2>2 DEF Trimmed, Empty
<1>3. CASE words # {}
  <2> DEFINE m == Min(words)
             n == Max(words)
  <2>1. /\ m \in words /\ n \in words /\ \A x \in words : m <= x
        /\ \A x \in words : x <= n
    BY <1>1, <1>3, Bounds
  <2>2. m \in 1 .. Len(t) /\ n \in 1 .. Len(t) /\ m <= n
    BY <1>1, <2>1
  <2>3. TrimSpace(t) = SubSeq(t, m, n)
    BY <1>3 DEF TrimSpace
  <2> HIDE DEF m, n
  <2>4. m \in Int /\ n \in Int /\ \A i \in m .. n : t[i] \in STRING
    <3>1. m \in Int /\ n \in Int /\ \A i \in m .. n : i \in 1 .. Len(t)
      BY <1>1, <2>2
    <3>2. \A i \in 1 .. Len(t) : t[i] \in STRING
      BY <1>1
    <3> QED
      BY <3>1, <3>2
  <2>5. /\ SubSeq(t, m, n) \in Seq(STRING) /\ Len(SubSeq(t, m, n)) = n - m + 1
        /\ \A i \in 1 .. n - m + 1 : SubSeq(t, m, n)[i] = t[m + i - 1]
    BY <1>1, <2>2, <2>4, SubSeqProperties
  <2>6. /\ n - m + 1 \in Nat /\ 1 \in 1 .. n - m + 1 /\ m + 1 - 1 = m
        /\ n - m + 1 \in 1 .. n - m + 1 /\ m + (n - m + 1) - 1 = n
        /\ \A i \in 1 .. n - m + 1 : m + i - 1 \in 1 .. Len(t)
    BY <1>1, <2>2
  <2>7. TrimSpace(t)[1] = t[m] /\ TrimSpace(t)[Len(TrimSpace(t))] = t[n] /\ TrimSpace(t) # Empty
    BY <2>3, <2>5, <2>6 DEF Empty
  <2>8. t[m] \notin Blank /\ t[n] \notin Blank
    BY <2>1
  <2>9. \A i \in 1 .. Len(TrimSpace(t)) : \E j \in 1 .. Len(t) : TrimSpace(t)[i] = t[j]
    BY <2>3, <2>5, <2>6
  <2> QED
    BY <1>1, <2>2, <2>3, <2>5, <2>7, <2>8, <2>9 DEF Trimmed, Texts
<1> QED
  BY <1>2, <1>3

\* Trimming leaves a trimmed text as it is.
LEMMA TrimmedStays ==
    ASSUME NEW t \in Texts, Trimmed(t)
    PROVE  TrimSpace(t) = t
<1> DEFINE words == {i \in DOMAIN t : t[i] \notin Blank}
<1>1. t \in Seq(STRING) /\ Len(t) \in Nat /\ DOMAIN t = 1 .. Len(t)
  BY DEF Texts
<1>2. CASE t = <<>>
  BY <1>1, <1>2 DEF TrimSpace, Empty
<1>3. CASE t # <<>>
  <2>1. Len(t) # 0 /\ 1 \in 1 .. Len(t) /\ Len(t) \in 1 .. Len(t)
    BY <1>1, <1>3, EmptySeq
  <2>2. 1 \in words /\ Len(t) \in words
    BY <1>1, <1>3, <2>1 DEF Trimmed, Empty
  <2>3. words \in SUBSET (1 .. Len(t)) /\ words # {}
    BY <1>1, <2>2
  <2>4. /\ Min(words) \in words /\ Min(words) <= 1
        /\ Max(words) \in words /\ Len(t) <= Max(words)
    BY <1>1, <2>2, <2>3, Bounds
  <2>5. Min(words) = 1 /\ Max(words) = Len(t)
    BY <1>1, <2>4
  <2>6. TrimSpace(t) = SubSeq(t, 1, Len(t))
    BY <2>3, <2>5 DEF TrimSpace
  <2> QED
    BY <1>1, <2>6, SubSeqFull
<1> QED
  BY <1>2, <1>3

\* A table of words applied to a text changes nothing but words.
LEMMA EachIs ==
    ASSUME NEW t \in Texts, NEW table, table \in [DOMAIN table -> STRING]
    PROVE  /\ Each(table, t) \in Texts /\ Len(Each(table, t)) = Len(t)
           /\ \A i \in 1 .. Len(t) : Each(table, t)[i] = Apply(table, t[i])
           /\ Each(table, t) = Empty <=> t = Empty
           /\ (\A i \in 1 .. Len(t) : t[i] \notin DOMAIN table) => Each(table, t) = t
<1>1. /\ t \in Seq(STRING) /\ Len(t) \in Nat /\ DOMAIN t = 1 .. Len(t)
      /\ \A i \in 1 .. Len(t) : t[i] \in STRING
  BY DEF Texts
<1>2. \A i \in 1 .. Len(t) : Apply(table, t[i]) \in STRING
  BY <1>1 DEF Apply
<1>3. Each(table, t) = [i \in 1 .. Len(t) |-> Apply(table, t[i])]
  BY <1>1 DEF Each
<1>4. Each(table, t) \in Seq(STRING) /\ Len(Each(table, t)) = Len(t)
  BY <1>1, <1>2, <1>3, IsASeq
<1>5. (\A i \in 1 .. Len(t) : t[i] \notin DOMAIN table) => Each(table, t) = t
  BY <1>1, <1>3, <1>4, SeqEqual DEF Apply
<1> QED
  BY <1>1, <1>3, <1>4, <1>5, EmptySeq DEF Texts, Empty

\* A text the table can hold as it is.
Held(t) == t \in Texts /\ Trimmed(t) /\ \A i \in 1 .. Len(t) : t[i] \notin DOMAIN CleanOf

\* What the tables of words promise of every word, in them or not.
LEMMA Tables ==
    /\ LowerOf \in [DOMAIN LowerOf -> STRING] /\ CleanOf \in [DOMAIN CleanOf -> STRING]
    /\ \A w : Apply(LowerOf, w) \notin DOMAIN LowerOf
    /\ \A w : w \notin Blank => Apply(LowerOf, w) \notin Blank /\ Apply(CleanOf, w) \notin Blank
    /\ \A w : w \notin DOMAIN CleanOf => Apply(LowerOf, w) \notin DOMAIN CleanOf
    /\ \A w : Apply(CleanOf, w) \notin DOMAIN CleanOf
BY TableAssumption DEF Apply

\* What cleanText makes of a text can be held, and is empty only if there was
\* nothing in the text.
LEMMA CleanIs ==
    ASSUME NEW t \in Texts
    PROVE  Held(Clean(t)) /\ (Clean(t) = Empty <=> TrimSpace(t) = Empty)
<1> DEFINE u == TrimSpace(t)
<1>1. u \in Texts /\ Trimmed(u)
  BY TrimIs
<1> HIDE DEF u
<1>2. Clean(t) = Each(CleanOf, u)
  BY DEF Clean, u
<1>3. /\ Clean(t) \in Texts /\ Len(Clean(t)) = Len(u) /\ (Clean(t) = Empty <=> u = Empty)
      /\ \A i \in 1 .. Len(u) : Clean(t)[i] = Apply(CleanOf, u[i])
  BY <1>1, <1>2, Tables, EachIs
<1>4. \A i \in 1 .. Len(Clean(t)) : Clean(t)[i] \notin DOMAIN CleanOf
  BY <1>3, Tables
<1>5. CASE u = Empty
  BY <1>3, <1>4, <1>5 DEF Held, Trimmed, u
<1>6. CASE u # Empty
  <2>1. Len(u) \in Nat /\ Len(u) # 0
    BY <1>1, <1>6, EmptySeq DEF Texts, Empty
  <2>2. 1 \in 1 .. Len(u) /\ Len(u) \in 1 .. Len(u)
    BY <2>1
  <2>3. Clean(t)[1] \notin Blank /\ Clean(t)[Len(u)] \notin Blank
    BY <1>1, <1>3, <1>6, <2>2, Tables DEF Trimmed
  <2> QED
    BY <1>3, <1>4, <2>3 DEF Held, Trimmed, u
<1> QED
  BY <1>5, <1>6

\* cleanText leaves alone what it made.
LEMMA HeldStays == ASSUME NEW t, Held(t) PROVE Clean(t) = t
BY TrimmedStays, EachIs, Tables DEF Held, Clean

\* In lower case a text has as many words, and no blank it had not.
LEMMA LowerIs ==
    ASSUME NEW t \in Texts
    PROVE  /\ Lower(t) \in Texts /\ Len(Lower(t)) = Len(t)
           /\ \A i \in 1 .. Len(t) : Lower(t)[i] = Apply(LowerOf, t[i])
           /\ Lower(Lower(t)) = Lower(t)
           /\ TrimSpace(t) # Empty => TrimSpace(Lower(t)) # Empty
<1>1. /\ Lower(t) \in Texts /\ Len(Lower(t)) = Len(t)
      /\ \A i \in 1 .. Len(t) : Lower(t)[i] = Apply(LowerOf, t[i])
  BY EachIs, Tables DEF Lower
<1>2. \A i \in 1 .. Len(Lower(t)) : Lower(t)[i] \notin DOMAIN LowerOf
  BY <1>1, Tables
<1>3. Lower(Lower(t)) = Lower(t)
  BY <1>1, <1>2, EachIs, Tables DEF Lower
<1>4. ASSUME TrimSpace(t) # Empty PROVE TrimSpace(Lower(t)) # Empty
  <2>1. PICK i \in 1 .. Len(t) : t[i] \notin Blank
    BY <1>4, TrimIs
  <2>2. i \in 1 .. Len(Lower(t)) /\ Lower(t)[i] \notin Blank
    BY <1>1, <2>1, Tables
  <2> QED
    BY <1>1, <2>2, TrimIs
<1> QED
  BY <1>1, <1>3, <1>4

\* Lower case of what can be held can be held.
LEMMA LowerHolds ==
    ASSUME NEW t, Held(t)
    PROVE  Held(Lower(t))
<1>1. /\ t \in Texts /\ Len(t) \in Nat /\ DOMAIN t = 1 .. Len(t)
      /\ Lower(t) \in Texts /\ DOMAIN Lower(t) = 1 .. Len(Lower(t))
  BY LowerIs DEF Held, Texts
<1>2. /\ Len(Lower(t)) = Len(t)
      /\ \A i \in 1 .. Len(t) : Lower(t)[i] = Apply(LowerOf, t[i])
  BY <1>1, LowerIs
<1>3. \A i \in 1 .. Len(t) : Lower(t)[i] \notin DOMAIN CleanOf
  BY <1>2, Tables DEF Held
<1>4. Trimmed(Lower(t))
  <2>1. CASE t = Empty
    BY <1>1, <1>2, <2>1, EmptySeq DEF Trimmed, Empty, Texts
  <2>2. CASE t # Empty
    <3>1. Len(t) # 0
      BY <1>1, <2>2, EmptySeq DEF Texts, Empty
    <3>2. 1 \in 1 .. Len(t) /\ Len(t) \in 1 .. Len(t)
      BY <1>1, <3>1
    <3> QED
      BY <1>2, <2>2, <3>2, Tables DEF Trimmed, Held
  <2> QED
    BY <2>1, <2>2
<1> QED
  BY <1>1, <1>2, <1>3, <1>4 DEF Held

\* A text of one word.
LEMMA Word ==
    ASSUME NEW S, NEW w \in S
    PROVE  <<w>> \in Seq(S) /\ Len(<<w>>) = 1 /\ <<w>>[1] = w /\ DOMAIN <<w>> = 1 .. 1
<1>1. <<w>> = Append(<<>>, w) /\ <<>> \in Seq(S)
  OBVIOUS
<1>2. Append(<<>>, w) \in Seq(S) /\ Len(Append(<<>>, w)) = 1
  BY <1>1, AppendProperties
<1> QED
  BY <1>1, <1>2

\* One word the code itself stores.
LEMMA OwnWord ==
    ASSUME NEW w \in OwnWords
    PROVE  Held(<<w>>) /\ ~TooLong(<<w>>) /\ Lower(<<w>>) = <<w>>
<1> DEFINE t == <<w>>
<1>1. w \in STRING /\ w \notin Blank /\ w \notin Long /\ w \notin DOMAIN CleanOf /\ w \notin DOMAIN LowerOf
  BY TableAssumption
<1>2. t \in Texts /\ Len(t) = 1 /\ t[1] = w /\ DOMAIN t = 1 .. 1
  BY <1>1, Word DEF Texts
<1> HIDE DEF t
<1>3. \A i \in 1 .. Len(t) : t[i] = w
  BY <1>2
<1>4. Lower(t) = t
  BY <1>1, <1>2, <1>3, EachIs, Tables DEF Lower
<1>5. Held(t) /\ ~TooLong(t)
  BY <1>1, <1>2, <1>3 DEF Held, Trimmed, TooLong
<1> QED
  BY <1>4, <1>5 DEF t

\* normalizeAction makes lower case of what can be held, and can be held
\* itself.
LEMMA ActionHolds ==
    ASSUME NEW t, Held(t)
    PROVE  Held(NormalAction(t)) /\ Lower(NormalAction(t)) = NormalAction(t)
<1>1. Held(Lower(t)) /\ Lower(Lower(t)) = Lower(t)
  BY LowerHolds, LowerIs DEF Held
<1>2. NormalAction(t) \in {<<"deny">>, <<"allow">>, <<"login">>, <<"logout">>, Lower(t)}
  BY DEF NormalAction
<1>3. {"deny", "allow", "login", "logout"} \subseteq OwnWords
  BY DEF OwnWords
<1> QED
  BY <1>1, <1>2, <1>3, OwnWord

\* The loop of Fill takes the offers in their order.
IsFilling(b, offers, n, f) ==
    /\ DOMAIN f = 0 .. n
    /\ f[0] = b
    /\ \A i \in 1 .. n : f[i] = Take(f[i - 1], offers[i])

LEMMA Filling ==
    ASSUME NEW b, NEW offers, Len(offers) \in Nat
    PROVE  \E f : IsFilling(b, offers, Len(offers), f) /\ Fill(b, offers) = f[Len(offers)]
<1> DEFINE N == Len(offers)
           Def(f, n) == f = [i \in 0 .. n |-> IF i = 0 THEN b ELSE Take(f[i - 1], offers[i])]
           P == {n \in 0 .. N : \E f : Def(f, n)}
<1>1. N \in Nat
  OBVIOUS
<1>2. 0 \in P
  <2> DEFINE f == [i \in 0 .. 0 |-> b]
  <2>1. f = [i \in 0 .. 0 |-> IF i = 0 THEN b ELSE Take(f[i - 1], offers[i])]
    OBVIOUS
  <2>2. 0 \in 0 .. N
    BY <1>1
  <2> HIDE DEF f, N
  <2> QED
    BY <2>1, <2>2
<1>3. ASSUME NEW n \in 0 .. N - 1, n \in P PROVE n + 1 \in P
  <2>1. PICK f : Def(f, n)
    BY <1>3
  <2> HIDE DEF Def
  <2> DEFINE g == [i \in 0 .. n + 1 |-> IF i = n + 1 THEN Take(f[n], offers[n + 1]) ELSE f[i]]
  <2>2. g = [i \in 0 .. n + 1 |-> IF i = 0 THEN b ELSE Take(g[i - 1], offers[i])]
    <3>1. SUFFICES ASSUME NEW i \in 0 .. n + 1
                   PROVE  g[i] = IF i = 0 THEN b ELSE Take(g[i - 1], offers[i])
      BY Zenon
    <3>2. CASE i = n + 1
      <4>1. i # 0 /\ i - 1 = n /\ n \in 0 .. n + 1 /\ n # n + 1
        BY <3>2
      <4>2. g[i - 1] = f[n] /\ g[i] = Take(f[n], offers[n + 1])
        BY <3>2, <4>1
      <4> QED
        BY <3>2, <4>1, <4>2
    <3>3. CASE i = 0
      <4>1. 0 \in 0 .. n /\ 0 # n + 1
        OBVIOUS
      <4>2. f[0] = b
        BY <2>1, <4>1 DEF Def
      <4> QED
        BY <3>3, <4>1, <4>2
    <3>4. CASE i # 0 /\ i # n + 1
      <4>1. i \in 0 .. n /\ i - 1 \in 0 .. n + 1 /\ i - 1 # n + 1
        BY <3>4
      <4>2. f[i] = Take(f[i - 1], offers[i])
        BY <2>1, <3>4, <4>1 DEF Def
      <4> QED
        BY <3>4, <4>1, <4>2
    <3> QED
      BY <3>2, <3>3, <3>4
  <2>3. n + 1 \in 0 .. N
    BY <1>1
  <2> HIDE DEF g
  <2> QED
    BY <2>2, <2>3 DEF Def
<1>4. N \in P
  <2> HIDE DEF P, N
  <2>1. \A n \in 0 .. N : n \in P
    BY <1>1, <1>2, <1>3, CountUp
  <2> QED
    BY <1>1, <2>1
<1>5. \E f : Def(f, N)
  BY <1>4
<1> DEFINE filled == CHOOSE f : Def(f, N)
<1>6. Def(filled, N)
  BY <1>5
<1>7. Fill(b, offers) = filled[N]
  BY DEF Fill
<1> HIDE DEF filled
<1>8. IsFilling(b, offers, N, filled)
  <2>1. DOMAIN filled = 0 .. N /\ 0 \in 0 .. N
    BY <1>1, <1>6
  <2>2. filled[0] = b
    BY <1>6, <2>1
  <2>3. ASSUME NEW i \in 1 .. N PROVE filled[i] = Take(filled[i - 1], offers[i])
    <3>1. i \in 0 .. N /\ i # 0
      BY <1>1
    <3> QED
      BY <1>6, <3>1
  <2> QED
    BY <2>1, <2>2, <2>3 DEF IsFilling
<1> QED
  BY <1>7, <1>8

-----------------------------------------------------------------------------
(* The setters.                                                            *)

\* A field is a text, an address or a number, and no two of them.
LEMMA Kinds ==
    /\ DOMAIN Numbers = {"severity", "src_port", "dst_port", "status_code"}
    /\ \A f \in Fields : \/ f \in TextFields /\ f \notin AddressFields /\ f \notin DOMAIN Numbers
                         \/ f \in AddressFields /\ f \notin TextFields /\ f \notin DOMAIN Numbers
                         \/ f \in DOMAIN Numbers /\ f \notin TextFields /\ f \notin AddressFields
    /\ TextFields \subseteq Fields /\ DOMAIN Numbers \subseteq Fields
<1>1. DOMAIN Numbers = {"severity", "src_port", "dst_port", "status_code"}
  BY DEF Numbers
<1> QED
  BY <1>1 DEF Fields, TextFields, AddressFields

\* What a field of an event holds.
FineField(f, v) ==
    /\ f \in TextFields => Held(v) /\ ~TooLong(v)
    /\ f \in DOMAIN Numbers => v = Empty \/ v[1] \in Numbers[f]
FineEvent(e) == e = [f \in Fields |-> e[f]] /\ \A f \in Fields : FineField(f, e[f])

\* What a text would give its field.
Suits(f, t) == TrimSpace(t) # Empty /\ Usable(f, t)

\* What setText stores can be held, and is not empty if the text is not.
LEMMA TextIs ==
    ASSUME NEW f, NEW t \in Texts
    PROVE  Held(Text(f, t)) /\ (TrimSpace(t) # Empty => Text(f, t) # Empty)
<1>1. CASE f = "protocol"
  BY <1>1, LowerIs, CleanIs DEF Text
<1>2. CASE f # "protocol"
  BY <1>2, CleanIs DEF Text
<1> QED
  BY <1>1, <1>2

\* What a setter stores is fit for its field, and never empty.
LEMMA ValueIs ==
    ASSUME NEW f \in Fields, NEW t \in Texts, Suits(f, t)
    PROVE  FineField(f, Value(f, t)) /\ Value(f, t) # Empty
<1>1. CASE f \in TextFields
  <2>1. Value(f, t) = Text(f, t) /\ ~TooLong(Text(f, t)) /\ f \notin DOMAIN Numbers
    BY <1>1, Kinds DEF Value, Usable, Suits
  <2> QED
    BY <2>1, TextIs DEF Suits, FineField
<1>2. CASE f \in AddressFields
  <2>1. Value(f, t) = <<AddressOf[TrimSpace(t)[1]]>> /\ f \notin TextFields /\ f \notin DOMAIN Numbers
    BY <1>2, Kinds DEF Value
  <2> QED
    BY <2>1 DEF FineField, Empty
<1>3. CASE f \in DOMAIN Numbers
  <2>1. /\ Value(f, t) = <<IntOf[TrimSpace(t)[1]]>> /\ f \notin TextFields
        /\ IntOf[TrimSpace(t)[1]] \in Numbers[f]
    BY <1>3, Kinds DEF Value, Usable, Suits
  <2> QED
    BY <2>1 DEF FineField, Empty
<1> QED
  BY <1>1, <1>2, <1>3, Kinds

\* A setter gives a field that is empty what suits it, and leaves the others.
LEMMA SetIs ==
    ASSUME NEW e, FineEvent(e), NEW f \in Fields, NEW t \in Texts
    PROVE  /\ FineEvent(Set(e, f, t))
           /\ \A g \in Fields : Set(e, f, t)[g] = IF g = f /\ e[f] = Empty /\ Suits(f, t)
                                                  THEN Value(f, t) ELSE e[g]
<1>1. CASE Skips(e, f, t) \/ ~Usable(f, t)
  <2>1. Set(e, f, t) = e
    BY <1>1 DEF Set
  <2>2. ~(e[f] = Empty /\ Suits(f, t))
    BY <1>1 DEF Skips, Suits
  <2> QED
    BY <2>1, <2>2
<1>2. CASE ~Skips(e, f, t) /\ Usable(f, t)
  <2>1. e[f] = Empty /\ Suits(f, t)
    BY <1>2 DEF Skips, Suits
  <2> DEFINE v == Value(f, t)
  <2>2. FineField(f, v)
    BY <2>1, ValueIs
  <2>3. Set(e, f, t) = [e EXCEPT ![f] = v]
    BY <1>2 DEF Set
  <2> HIDE DEF v
  <2>4. e = [g \in Fields |-> e[g]]
    BY DEF FineEvent
  <2>5. /\ Set(e, f, t) = [g \in Fields |-> Set(e, f, t)[g]]
        /\ \A g \in Fields : Set(e, f, t)[g] = IF g = f THEN v ELSE e[g]
    BY <2>3, <2>4
  <2>6. \A g \in Fields : FineField(g, e[g])
    BY DEF FineEvent
  <2>7. FineEvent(Set(e, f, t))
    BY <2>2, <2>5, <2>6 DEF FineEvent
  <2> QED
    BY <2>1, <2>5, <2>7 DEF v
<1> QED
  BY <1>1, <1>2

\* A tag a normalizer derives while it reads a record.
DerivedTag(d) == (\E key : d = <<"invalid", key>>) \/ d \in {<<"auth", "success">>, <<"auth", "failure">>}

FineBuilder(b) ==
    /\ b = [source |-> b.source, e |-> b.e, sender |-> b.sender, derived |-> b.derived,
            raw |-> b.raw, time |-> b.time]
    /\ FineEvent(b.e)
    /\ \A d \in b.derived : DerivedTag(d)

FineOffer(o) ==
    o.there => o.field \in Fields /\ (o.scalar => o.text \in Texts)

\* An offer that gives its field a value, and one that is told as invalid.
Gives(o, f) == o.there /\ o.scalar /\ o.field = f /\ Suits(f, o.text)
Refused(e, o) ==
    o.there /\ (o.scalar => e[o.field] = Empty /\ TrimSpace(o.text) # Empty /\ ~Usable(o.field, o.text))

\* The rest of a builder is not touched by an offer.
SameRest(b, c) == c.source = b.source /\ c.sender = b.sender /\ c.raw = b.raw /\ c.time = b.time

\* What becomes of a builder when it takes one offer.
LEMMA TakeIs ==
    ASSUME NEW b, FineBuilder(b), NEW o, FineOffer(o)
    PROVE  LET c == Take(b, o)
           IN  /\ FineBuilder(c) /\ SameRest(b, c)
               /\ \A g \in Fields : c.e[g] = IF Gives(o, g) /\ b.e[g] = Empty
                                             THEN Value(g, o.text) ELSE b.e[g]
               /\ c.derived = b.derived \cup (IF Refused(b.e, o) THEN {<<"invalid", o.key>>} ELSE {})
<1> DEFINE c == Take(b, o)
<1>1. CASE ~o.there
  <2>1. c = b /\ ~Refused(b.e, o) /\ \A g \in Fields : ~Gives(o, g)
    BY <1>1 DEF Take, Refused, Gives
  <2> QED
    BY <2>1 DEF SameRest
<1>2. CASE o.there /\ ~o.scalar
  <2>1. c = [b EXCEPT !.derived = @ \cup {<<"invalid", o.key>>}]
    BY <1>2 DEF Take, Invalid
  <2>2. Refused(b.e, o) /\ \A g \in Fields : ~Gives(o, g)
    BY <1>2 DEF Refused, Gives
  <2>3. /\ c = [source |-> b.source, e |-> b.e, sender |-> b.sender,
                derived |-> b.derived \cup {<<"invalid", o.key>>}, raw |-> b.raw, time |-> b.time]
    BY <2>1 DEF FineBuilder
  <2>4. FineBuilder(c)
    BY <2>3 DEF FineBuilder, DerivedTag
  <2> QED
    BY <2>2, <2>3, <2>4 DEF SameRest
<1>3. CASE o.there /\ o.scalar
  <2> DEFINE f == o.field
             t == o.text
             e == Set(b.e, f, t)
             more == IF Skips(b.e, f, t) \/ Usable(f, t) THEN {} ELSE {<<"invalid", o.key>>}
  <2>1. f \in Fields /\ t \in Texts
    BY <1>3 DEF FineOffer
  <2>2. c = [b EXCEPT !.e = Set(@, f, t),
                      !.derived = IF Skips(b.e, f, t) \/ Usable(f, t) THEN @ ELSE @ \cup {<<"invalid", o.key>>}]
    BY <1>3 DEF Take, Put
  <2>3. /\ FineEvent(e)
        /\ \A g \in Fields : e[g] = IF g = f /\ b.e[f] = Empty /\ Suits(f, t) THEN Value(f, t) ELSE b.e[g]
    BY <2>1, SetIs DEF FineBuilder
  <2>4. c = [source |-> b.source, e |-> e, sender |-> b.sender, derived |-> b.derived \cup more,
             raw |-> b.raw, time |-> b.time]
    <3>1. b = [source |-> b.source, e |-> b.e, sender |-> b.sender, derived |-> b.derived,
               raw |-> b.raw, time |-> b.time]
      BY DEF FineBuilder
    <3>2. (IF Skips(b.e, f, t) \/ Usable(f, t) THEN b.derived ELSE b.derived \cup {<<"invalid", o.key>>})
            = b.derived \cup more
      OBVIOUS
    <3> HIDE DEF more
    <3> QED
      BY <2>2, <3>1, <3>2
  <2>5. more = IF Refused(b.e, o) THEN {<<"invalid", o.key>>} ELSE {}
    BY <1>3 DEF Skips, Refused
  <2>6. \A g \in Fields : Gives(o, g) <=> g = f /\ Suits(f, t)
    BY <1>3 DEF Gives
  <2>7. \A d \in more : DerivedTag(d)
    BY DEF DerivedTag
  <2> HIDE DEF e, more, f, t, c
  <2>8. FineBuilder(c)
    BY <2>3, <2>4, <2>7 DEF FineBuilder
  <2>9. c.e = e /\ c.derived = b.derived \cup more /\ SameRest(b, c)
    BY <2>4 DEF SameRest
  <2>10. \A g \in Fields : c.e[g] = IF Gives(o, g) /\ b.e[g] = Empty THEN Value(g, t) ELSE b.e[g]
    BY <2>3, <2>6, <2>9
  <2> QED
    BY <2>5, <2>8, <2>9, <2>10 DEF c, t
<1> QED
  BY <1>1, <1>2, <1>3

FineOffers(offers) ==
    Len(offers) \in Nat /\ \A i \in 1 .. Len(offers) : FineOffer(offers[i])

\* The offers that are told as invalid: all but those that suit, are blank, or
\* come after one that gave the field its value.
RefusedAt(b, offers, j) ==
    /\ offers[j].there
    /\ offers[j].scalar =>
        /\ b.e[offers[j].field] = Empty
        /\ TrimSpace(offers[j].text) # Empty /\ ~Usable(offers[j].field, offers[j].text)
        /\ \A k \in 1 .. j - 1 : ~Gives(offers[k], offers[j].field)

\* What builder c holds after the first n offers to builder b.
Filled(b, offers, n, c) ==
    /\ FineBuilder(c) /\ SameRest(b, c)
    /\ \A g \in Fields :
        /\ c.e[g] = Empty <=> (b.e[g] = Empty /\ \A j \in 1 .. n : ~Gives(offers[j], g))
        /\ b.e[g] # Empty => c.e[g] = b.e[g]
        /\ \A j \in 1 .. n :
            b.e[g] = Empty /\ Gives(offers[j], g) /\ (\A k \in 1 .. j - 1 : ~Gives(offers[k], g))
                => c.e[g] = Value(g, offers[j].text)
    /\ \A d : d \in c.derived <=> \/ d \in b.derived
                                  \/ \E j \in 1 .. n : /\ RefusedAt(b, offers, j)
                                                       /\ d = <<"invalid", offers[j].key>>

LEMMA FillsNone == ASSUME NEW b, FineBuilder(b), NEW offers PROVE Filled(b, offers, 0, b)
BY DEF Filled, SameRest

LEMMA FillsOneMore ==
    ASSUME NEW b, FineBuilder(b), NEW offers, FineOffers(offers),
           NEW n \in 0 .. Len(offers) - 1, NEW c, Filled(b, offers, n, c)
    PROVE  Filled(b, offers, n + 1, Take(c, offers[n + 1]))
<1> DEFINE o == offers[n + 1]
           c1 == Take(c, o)
<1>1. /\ Len(offers) \in Nat /\ n \in Nat /\ n + 1 \in 1 .. Len(offers) /\ n + 1 \in 1 .. n + 1
      /\ \A j \in 1 .. n + 1 : j = n + 1 \/ j \in 1 .. n
      /\ \A j \in 1 .. n : j \in 1 .. n + 1 /\ j # n + 1
      /\ (n + 1) - 1 = n
  BY DEF FineOffers
<1>2. FineOffer(o)
  BY <1>1 DEF FineOffers
<1>3. /\ FineBuilder(c1) /\ SameRest(c, c1)
      /\ \A g \in Fields : c1.e[g] = IF Gives(o, g) /\ c.e[g] = Empty THEN Value(g, o.text) ELSE c.e[g]
      /\ c1.derived = c.derived \cup (IF Refused(c.e, o) THEN {<<"invalid", o.key>>} ELSE {})
  BY <1>2, TakeIs DEF Filled
<1> HIDE DEF c1
<1>4. SameRest(b, c1)
  BY <1>3 DEF Filled, SameRest
<1>5. ASSUME NEW g \in Fields
      PROVE  /\ c1.e[g] = Empty <=> (b.e[g] = Empty /\ \A j \in 1 .. n + 1 : ~Gives(offers[j], g))
             /\ b.e[g] # Empty => c1.e[g] = b.e[g]
             /\ \A j \in 1 .. n + 1 :
                    b.e[g] = Empty /\ Gives(offers[j], g) /\ (\A k \in 1 .. j - 1 : ~Gives(offers[k], g))
                        => c1.e[g] = Value(g, offers[j].text)
  <2>1. /\ c.e[g] = Empty <=> (b.e[g] = Empty /\ \A j \in 1 .. n : ~Gives(offers[j], g))
        /\ b.e[g] # Empty => c.e[g] = b.e[g]
        /\ \A j \in 1 .. n :
               b.e[g] = Empty /\ Gives(offers[j], g) /\ (\A k \in 1 .. j - 1 : ~Gives(offers[k], g))
                   => c.e[g] = Value(g, offers[j].text)
    BY DEF Filled
  <2>2. c1.e[g] = IF Gives(o, g) /\ c.e[g] = Empty THEN Value(g, o.text) ELSE c.e[g]
    BY <1>3
  <2>3. Gives(o, g) => Value(g, o.text) # Empty
    BY <1>2, ValueIs DEF Gives, FineOffer
  <2>4. c1.e[g] = Empty <=> (b.e[g] = Empty /\ \A j \in 1 .. n + 1 : ~Gives(offers[j], g))
    <3>1. c1.e[g] = Empty <=> c.e[g] = Empty /\ ~Gives(o, g)
      BY <2>2, <2>3
    <3>2. (\A j \in 1 .. n + 1 : ~Gives(offers[j], g)) <=> (~Gives(o, g) /\ \A j \in 1 .. n : ~Gives(offers[j], g))
      BY <1>1
    <3> QED
      BY <2>1, <3>1, <3>2
  <2>5. b.e[g] # Empty => c1.e[g] = b.e[g]
    BY <2>1, <2>2
  <2>6. ASSUME NEW j \in 1 .. n + 1, b.e[g] = Empty, Gives(offers[j], g),
               \A k \in 1 .. j - 1 : ~Gives(offers[k], g)
        PROVE  c1.e[g] = Value(g, offers[j].text)
    <3>1. CASE j = n + 1
      <4>1. c.e[g] = Empty
        BY <1>1, <2>1, <2>6, <3>1
      <4> QED
        BY <2>2, <2>6, <3>1, <4>1
    <3>2. CASE j \in 1 .. n
      <4>1. c.e[g] = Value(g, offers[j].text) /\ c.e[g] # Empty
        BY <2>1, <2>6, <3>2
      <4> QED
        BY <2>2, <4>1
    <3> QED
      BY <1>1, <3>1, <3>2
  <2> QED
    BY <2>4, <2>5, <2>6
<1>6. Refused(c.e, o) <=> RefusedAt(b, offers, n + 1)
  <2>1. CASE ~(o.there /\ o.scalar)
    BY <2>1 DEF Refused, RefusedAt
  <2>2. CASE o.there /\ o.scalar
    <3>1. o.field \in Fields
      BY <1>2, <2>2 DEF FineOffer
    <3>2. c.e[o.field] = Empty <=> (b.e[o.field] = Empty /\ \A j \in 1 .. n : ~Gives(offers[j], o.field))
      BY <3>1 DEF Filled
    <3> QED
      BY <1>1, <2>2, <3>2 DEF Refused, RefusedAt
  <2> QED
    BY <2>1, <2>2
<1>7. ASSUME NEW d
      PROVE  d \in c1.derived <=> \/ d \in b.derived
                                  \/ \E j \in 1 .. n + 1 : /\ RefusedAt(b, offers, j)
                                                           /\ d = <<"invalid", offers[j].key>>
  <2>1. d \in c.derived <=> \/ d \in b.derived
                            \/ \E j \in 1 .. n : RefusedAt(b, offers, j) /\ d = <<"invalid", offers[j].key>>
    BY DEF Filled
  <2>2. d \in c1.derived <=> d \in c.derived \/ (RefusedAt(b, offers, n + 1) /\ d = <<"invalid", o.key>>)
    BY <1>3, <1>6
  <2> QED
    BY <1>1, <2>1, <2>2
<1> QED
  BY <1>3, <1>4, <1>5, <1>7 DEF Filled, c1

\* What becomes of it once it took them all.
LEMMA FillIs ==
    ASSUME NEW b, FineBuilder(b), NEW offers, FineOffers(offers)
    PROVE  Filled(b, offers, Len(offers), Fill(b, offers))
<1> DEFINE N == Len(offers)
<1>1. N \in Nat
  BY DEF FineOffers
<1>2. PICK f : IsFilling(b, offers, N, f) /\ Fill(b, offers) = f[N]
  BY <1>1, Filling
<1> DEFINE P == {n \in 0 .. N : Filled(b, offers, n, f[n])}
<1>3. 0 \in P
  BY <1>1, <1>2, FillsNone DEF IsFilling
<1>4. ASSUME NEW n \in 0 .. N - 1, n \in P PROVE n + 1 \in P
  <2>1. n + 1 \in 1 .. N /\ n + 1 \in 0 .. N /\ (n + 1) - 1 = n
    BY <1>1
  <2>2. f[n + 1] = Take(f[n], offers[n + 1])
    BY <1>2, <2>1 DEF IsFilling
  <2>3. Filled(b, offers, n, f[n])
    BY <1>4
  <2>4. Filled(b, offers, n + 1, f[n + 1])
    BY <2>2, <2>3, FillsOneMore
  <2> QED
    BY <2>1, <2>4
<1>5. N \in P
  <2> HIDE DEF P, N
  <2>1. \A n \in 0 .. N : n \in P
    BY <1>1, <1>3, <1>4, CountUp
  <2> QED
    BY <1>1, <2>1
<1> QED
  BY <1>2, <1>5

-----------------------------------------------------------------------------
(* What is on offer.                                                       *)

LEMMA CloudIs ==
    /\ DOMAIN CloudFields = {"account_id", "region", "service"} /\ DOMAIN CloudKeys = DOMAIN CloudFields
    /\ CloudFields["account_id"] = "cloud_account_id" /\ CloudKeys["account_id"] = "cloud.account_id"
    /\ CloudFields["region"] = "cloud_region" /\ CloudKeys["region"] = "cloud.region"
    /\ CloudFields["service"] = "cloud_service" /\ CloudKeys["service"] = "cloud.service"
BY DEF CloudFields, CloudKeys

LEMMA SettersAre ==
    /\ Setters = {"vendor", "product", "event_type", "event_subtype", "severity", "action",
                  "src_ip", "src_port", "dst_ip", "dst_port", "protocol", "user", "host", "process",
                  "url", "http_method", "status_code", "rule_name", "rule_id"}
    /\ Fields = Setters \cup {"cloud_account_id", "cloud_region", "cloud_service"}
<1>1. {CloudFields[m] : m \in DOMAIN CloudFields} = {"cloud_account_id", "cloud_region", "cloud_service"}
  BY CloudIs
<1>2. Fields = TextFields \cup AddressFields \cup {"severity", "src_port", "dst_port", "status_code"}
  BY Kinds DEF Fields
<1> QED
  BY <1>1, <1>2 DEF Setters, TextFields, AddressFields

LEMMA KeysAre ==
    /\ Len(JsonKeys) = 20
    /\ JsonKeys[1] = "vendor" /\ JsonKeys[2] = "product" /\ JsonKeys[3] = "event_type"
    /\ JsonKeys[4] = "event_subtype" /\ JsonKeys[5] = "severity" /\ JsonKeys[6] = "action"
    /\ JsonKeys[7] = "src_ip" /\ JsonKeys[8] = "ip" /\ JsonKeys[9] = "src_port"
    /\ JsonKeys[10] = "dst_ip" /\ JsonKeys[11] = "dst_port" /\ JsonKeys[12] = "protocol"
    /\ JsonKeys[13] = "user" /\ JsonKeys[14] = "host" /\ JsonKeys[15] = "process"
    /\ JsonKeys[16] = "url" /\ JsonKeys[17] = "http_method" /\ JsonKeys[18] = "status_code"
    /\ JsonKeys[19] = "rule_name" /\ JsonKeys[20] = "rule_id"
BY DEF JsonKeys

\* Every field has a key, and only an address two.
LEMMA JsonKeyIs ==
    /\ \A i \in 1 .. 20 : JsonField(JsonKeys[i]) \in Setters
    /\ \A f \in Setters : \E i \in 1 .. 20 : JsonKeys[i] = f /\ (i = 8 <=> f = "ip")
    /\ \A i \in 1 .. 20, j \in 1 .. 20 : JsonKeys[i] = JsonKeys[j] => i = j
<1>1. \A i \in 1 .. 20 : \/ i = 1 \/ i = 2 \/ i = 3 \/ i = 4 \/ i = 5 \/ i = 6 \/ i = 7 \/ i = 8
                         \/ i = 9 \/ i = 10 \/ i = 11 \/ i = 12 \/ i = 13 \/ i = 14 \/ i = 15
                         \/ i = 16 \/ i = 17 \/ i = 18 \/ i = 19 \/ i = 20
  OBVIOUS
<1>2. \A i \in 1 .. 20 : JsonField(JsonKeys[i]) \in Setters
  BY <1>1, KeysAre, SettersAre DEF JsonField
<1>3. \A f \in Setters : \E i \in 1 .. 20 : JsonKeys[i] = f /\ (i = 8 <=> f = "ip")
  BY KeysAre, SettersAre
<1>4. \A i \in 1 .. 20, j \in 1 .. 20 : JsonKeys[i] = JsonKeys[j] => i = j
  BY <1>1, KeysAre
<1> QED
  BY <1>2, <1>3, <1>4

FineRecord(r) ==
    \A key \in DOMAIN r :
        /\ IsValue(r[key])
        /\ r[key].kind = "object" => \A m \in DOMAIN r[key].members : IsValue(r[key].members[m])

\* The word on its own that a sequence of at most one is.
Optional(t) == t = Empty \/ \E w \in STRING : t = <<w>>

LEMMA OptionalIs == ASSUME NEW t, Optional(t) PROVE t \in Texts
<1>1. CASE t = Empty
  BY <1>1, EmptySeq DEF Texts, Empty
<1>2. ASSUME NEW w \in STRING, t = <<w>> PROVE t \in Texts
  BY <1>2, Word DEF Texts
<1> QED
  BY <1>1, <1>2 DEF Optional

LEMMA ExtraIs ==
    ASSUME NEW r, FineRecord(r), NEW key
    PROVE  Extra(r, key) \in Texts
<1>1. Empty \in Texts
  BY EmptySeq DEF Texts, Empty
<1>2. ASSUME Has(r, key), r[key].kind \in Scalars PROVE TrimSpace(r[key].text) \in Texts
  <2>1. r[key].text \in Texts
    BY <1>2 DEF FineRecord, Has, IsValue, Scalars
  <2> QED
    BY <2>1, TrimIs
<1> QED
  BY <1>1, <1>2 DEF Extra

\* What a member of an object offers.
LEMMA MemberIs ==
    ASSUME NEW r, NEW key, Has(r, key) => IsValue(r[key]), NEW name, NEW f \in Fields
    PROVE  LET o == Member(r, key, name, f)
           IN  /\ FineOffer(o) /\ o.there \in BOOLEAN /\ (o.there <=> Has(r, key))
               /\ Has(r, key) => o.key = name /\ o.field = f /\ (o.scalar <=> r[key].kind \in Scalars)
               /\ Has(r, key) /\ r[key].kind \in Scalars => o.text = r[key].text
<1>1. CASE ~Has(r, key)
  BY <1>1 DEF Member, NoOffer, FineOffer
<1>2. CASE Has(r, key) /\ r[key].kind \in Scalars
  <2>1. r[key].text \in Texts
    BY <1>2 DEF IsValue, Scalars
  <2>2. Member(r, key, name, f) = Scalar(name, f, r[key].text)
    BY <1>2 DEF Member
  <2> QED
    BY <1>2, <2>1, <2>2 DEF Scalar, FineOffer
<1>3. CASE Has(r, key) /\ r[key].kind \notin Scalars
  <2>1. Member(r, key, name, f) = Unusable(name, f)
    BY <1>3 DEF Member
  <2> QED
    BY <1>3, <2>1 DEF Unusable, FineOffer
<1> QED
  BY <1>1, <1>2, <1>3

LEMMA JsonOffersAre ==
    ASSUME NEW r, FineRecord(r)
    PROVE  /\ FineOffers(JsonOffers(r)) /\ Len(JsonOffers(r)) = 20
           /\ \A i \in 1 .. 20 :
                JsonOffers(r)[i] = Member(r, JsonKeys[i], JsonKeys[i], JsonField(JsonKeys[i]))
<1> DEFINE S == {Member(r, JsonKeys[i], JsonKeys[i], JsonField(JsonKeys[i])) : i \in 1 .. 20}
<1>1. JsonOffers(r) = [i \in 1 .. 20 |-> Member(r, JsonKeys[i], JsonKeys[i], JsonField(JsonKeys[i]))]
  BY KeysAre DEF JsonOffers
<1>2. \A i \in 1 .. 20 : Member(r, JsonKeys[i], JsonKeys[i], JsonField(JsonKeys[i])) \in S
  OBVIOUS
<1>3. /\ Len(JsonOffers(r)) = 20
      /\ \A i \in 1 .. 20 :
                JsonOffers(r)[i] = Member(r, JsonKeys[i], JsonKeys[i], JsonField(JsonKeys[i]))
  BY <1>1, <1>2, IsASeq
<1>4. ASSUME NEW i \in 1 .. 20 PROVE FineOffer(JsonOffers(r)[i])
  <2>1. JsonField(JsonKeys[i]) \in Fields
    BY JsonKeyIs, SettersAre
  <2>2. Has(r, JsonKeys[i]) => IsValue(r[JsonKeys[i]])
    BY DEF FineRecord, Has
  <2> QED
    BY <1>3, <2>1, <2>2, MemberIs
<1> QED
  BY <1>3, <1>4 DEF FineOffers

LEMMA CloudOffersAre ==
    ASSUME NEW x, \A m \in DOMAIN x : IsValue(x[m])
    PROVE  /\ FineOffers(CloudOffers(x)) /\ Len(CloudOffers(x)) = 3
           /\ CloudOffers(x)[1] = Member(x, "account_id", "cloud.account_id", "cloud_account_id")
           /\ CloudOffers(x)[2] = Member(x, "region", "cloud.region", "cloud_region")
           /\ CloudOffers(x)[3] = Member(x, "service", "cloud.service", "cloud_service")
<1> DEFINE o1 == Member(x, "account_id", "cloud.account_id", "cloud_account_id")
           o2 == Member(x, "region", "cloud.region", "cloud_region")
           o3 == Member(x, "service", "cloud.service", "cloud_service")
<1>1. CloudOffers(x) = <<o1, o2, o3>>
  BY CloudIs DEF CloudOffers
<1>2. FineOffer(o1) /\ FineOffer(o2) /\ FineOffer(o3)
  <2>1. \A m : Has(x, m) => IsValue(x[m])
    BY DEF Has
  <2> QED
    BY <2>1, MemberIs, SettersAre
<1> HIDE DEF o1, o2, o3
<1>3. Len(CloudOffers(x)) = 3 /\ CloudOffers(x)[1] = o1 /\ CloudOffers(x)[2] = o2 /\ CloudOffers(x)[3] = o3
  BY <1>1
<1>4. \A i \in 1 .. 3 : i = 1 \/ i = 2 \/ i = 3
  OBVIOUS
<1>5. FineOffers(CloudOffers(x))
  BY <1>2, <1>3, <1>4 DEF FineOffers
<1> QED
  BY <1>3, <1>5 DEF o1, o2, o3

-----------------------------------------------------------------------------
(* Lines.                                                                  *)

FineLine(v) == v.pri \in Int /\ v.tokens \in Seq(Tokens)

\* What the header of a line gives.
FineHeader(m) ==
    /\ m.severity = Empty \/ \E n \in 0 .. 7 : m.severity = <<n>>
    /\ m.time = Empty \/ \E x : m.time = <<x>>
    /\ Optional(m.host) /\ Optional(m.app)
    /\ m.body \in Seq(Tokens)

\* What parseSyslog finds in a line, of whichever format.
LEMMA HeaderIs ==
    ASSUME NEW v, FineLine(v)
    PROVE  FineHeader(ParseSyslog(v))
<1> DEFINE ts == v.tokens
           plain == [severity |-> Empty, time |-> Empty, host |-> Empty, app |-> Empty, body |-> ts]
           headed == [plain EXCEPT !.severity = <<v.pri % 8>>]
           m == ParseSyslog(v)
<1>1. /\ v.pri \in Int /\ ts \in Seq(Tokens) /\ Len(ts) \in Nat
      /\ \A i \in 1 .. Len(ts) : ts[i] \in Tokens /\ ts[i].word \in STRING
  <2>1. v.pri \in Int /\ ts \in Seq(Tokens) /\ Len(ts) \in Nat
    BY LenProperties DEF FineLine
  <2>2. \A i \in 1 .. Len(ts) : ts[i] \in Tokens
    BY <2>1, ElementOfSeq
  <2> QED
    BY <2>1, <2>2 DEF Tokens
<1>2. /\ headed = [severity |-> <<v.pri % 8>>, time |-> Empty, host |-> Empty, app |-> Empty, body |-> ts]
      /\ v.pri % 8 \in 0 .. 7
  BY <1>1
<1>3. Optional(Empty) /\ \A w \in STRING : Optional(<<w>>) /\ Optional(Nil(w))
  BY DEF Optional, Nil
<1> HIDE DEF headed
<1>4. CASE v.pri \notin 0 .. 191
  <2>1. m = plain
    BY <1>4 DEF ParseSyslog
  <2> QED
    BY <1>1, <1>3, <2>1 DEF FineHeader
<1>5. CASE v.pri \in 0 .. 191 /\ Is5424(ts)
  <2> DEFINE time == IF ts[2].word = "-" THEN Empty ELSE <<TimeOf[ts[2].word]>>
             body == SubSeq(ts, 8, Len(ts))
  <2>1. m = [headed EXCEPT !.time = time, !.host = Nil(ts[3].word), !.app = Nil(ts[4].word), !.body = body]
    BY <1>5 DEF ParseSyslog, headed
  <2>2. Len(ts) >= 7
    BY <1>5 DEF Is5424
  <2>3. body \in Seq(Tokens)
    <3>1. \A i \in 8 .. Len(ts) : ts[i] \in Tokens
      BY <1>1
    <3> QED
      BY <1>1, <3>1, SubSeqProperties
  <2>4. ts[3].word \in STRING /\ ts[4].word \in STRING
    <3>1. 3 \in 1 .. Len(ts) /\ 4 \in 1 .. Len(ts)
      BY <1>1, <2>2
    <3> QED
      BY <1>1, <3>1
  <2>5. time = Empty \/ \E x : time = <<x>>
    OBVIOUS
  <2> HIDE DEF time, body
  <2>6. m = [severity |-> <<v.pri % 8>>, time |-> time, host |-> Nil(ts[3].word), app |-> Nil(ts[4].word),
             body |-> body]
    BY <1>2, <2>1
  <2>7. Optional(Nil(ts[3].word)) /\ Optional(Nil(ts[4].word))
    BY <1>3, <2>4
  <2>8. /\ m.time = time /\ m.severity = <<v.pri % 8>> /\ m.body = body
        /\ m.host = Nil(ts[3].word) /\ m.app = Nil(ts[4].word)
    BY <2>6
  <2> HIDE DEF m, ts, plain
  <2>9. FineHeader(m)
    BY <1>2, <2>3, <2>5, <2>7, <2>8 DEF FineHeader
  <2> QED
    BY <2>9 DEF m
<1>6. CASE v.pri \in 0 .. 191 /\ ~Is5424(ts) /\ Is3164(ts)
  <2> DEFINE host == IF AfterHost(ts) = AfterStamp(ts) THEN Empty ELSE <<ts[2].word>>
             app == IF HasTag(ts) THEN <<TagOf[AfterHost(ts)[1].word]>> ELSE Empty
             body == IF HasTag(ts) THEN Tail(AfterHost(ts)) ELSE AfterHost(ts)
  <2>1. m = [headed EXCEPT !.host = host, !.app = app, !.body = body]
    BY <1>6 DEF ParseSyslog, headed
  <2>2. Len(ts) >= 2
    BY <1>6 DEF Is3164
  <2>3. Tail(ts) \in Seq(Tokens) /\ Tail(ts) # <<>>
    <3>1. ts # <<>>
      BY <2>2, EmptySeq
    <3>2. Tail(ts) \in Seq(Tokens) /\ Len(Tail(ts)) = Len(ts) - 1
      BY <1>1, <3>1, HeadTailProperties
    <3> QED
      BY <1>1, <2>2, <3>2, EmptySeq
  <2>4. AfterHost(ts) \in Seq(Tokens)
    <3>1. Tail(Tail(ts)) \in Seq(Tokens)
      BY <2>3, HeadTailProperties
    <3> QED
      BY <2>3, <3>1 DEF AfterHost, AfterStamp
  <2>5. Optional(host)
    <3>1. 2 \in 1 .. Len(ts)
      BY <1>1, <2>2
    <3> QED
      BY <1>1, <1>3, <3>1
  <2>6. Optional(app)
    <3>1. HasTag(ts) => TagOf[AfterHost(ts)[1].word] \in STRING
      BY TableAssumption DEF HasTag
    <3> QED
      BY <1>3, <3>1
  <2>7. body \in Seq(Tokens)
    <3>1. HasTag(ts) => Tail(AfterHost(ts)) \in Seq(Tokens)
      BY <2>4, HeadTailProperties DEF HasTag
    <3> QED
      BY <2>4, <3>1
  <2> HIDE DEF host, app, body
  <2>8. m = [severity |-> <<v.pri % 8>>, time |-> Empty, host |-> host, app |-> app, body |-> body]
    BY <1>2, <2>1
  <2> QED
    BY <1>2, <2>5, <2>6, <2>7, <2>8 DEF FineHeader
<1>7. CASE v.pri \in 0 .. 191 /\ ~Is5424(ts) /\ ~Is3164(ts)
  <2>1. m = headed
    BY <1>7 DEF ParseSyslog, headed
  <2> QED
    BY <1>1, <1>2, <1>3, <2>1 DEF FineHeader
<1> QED
  BY <1>4, <1>5, <1>6, <1>7

\* Pairs, each with its key.
FinePairs(pairs) == pairs \in Seq(Tokens) /\ \A i \in 1 .. Len(pairs) : pairs[i].key # None

LEMMA ContinueIs ==
    ASSUME NEW pairs, FinePairs(pairs), NEW token \in Tokens
    PROVE  FinePairs(Continue(pairs, token))
<1> DEFINE n == Len(pairs)
<1>1. pairs \in Seq(Tokens) /\ n \in Nat /\ \A i \in 1 .. n : pairs[i] \in Tokens /\ pairs[i].key # None
  BY ElementOfSeq, LenProperties DEF FinePairs
<1>5. n = Len(pairs)
  OBVIOUS
<1> HIDE DEF n
<1>2. CASE token.key # None
  <2>1. Continue(pairs, token) = Append(pairs, token)
    BY <1>2, <1>5 DEF Continue
  <2>2. /\ Append(pairs, token) \in Seq(Tokens) /\ Len(Append(pairs, token)) = n + 1
        /\ \A i \in 1 .. n : Append(pairs, token)[i] = pairs[i]
        /\ Append(pairs, token)[n + 1] = token
    BY <1>1, <1>5, AppendProperties
  <2>3. \A i \in 1 .. n + 1 : i \in 1 .. n \/ i = n + 1
    BY <1>1
  <2> QED
    BY <1>1, <1>2, <2>1, <2>2, <2>3 DEF FinePairs
<1>3. CASE token.key = None /\ n > 0 /\ ~pairs[n].quoted
  <2>1. n \in 1 .. n /\ pairs[n] \in Tokens
    BY <1>1, <1>3
  <2> DEFINE p == [pairs[n] EXCEPT !.text = Append(@, token.word)]
  <2>2. p \in Tokens /\ p.key = pairs[n].key
    <3>1. Append(pairs[n].text, token.word) \in Texts
      <4>1. pairs[n].text \in Seq(STRING) /\ token.word \in STRING
        BY <2>1 DEF Tokens, Texts
      <4> QED
        BY <4>1, AppendProperties DEF Texts
    <3> QED
      BY <2>1, <3>1 DEF Tokens
  <2>3. Continue(pairs, token) = [pairs EXCEPT ![n] = p]
    BY <1>3, <1>5 DEF Continue
  <2> HIDE DEF p
  <2>4. /\ [pairs EXCEPT ![n] = p] \in Seq(Tokens) /\ Len([pairs EXCEPT ![n] = p]) = n
        /\ \A i \in 1 .. n : [pairs EXCEPT ![n] = p][i] = IF i = n THEN p ELSE pairs[i]
    BY <1>1, <1>5, <2>1, <2>2, ExceptSeq
  <2> QED
    BY <1>1, <2>1, <2>2, <2>3, <2>4 DEF FinePairs
<1>4. CASE ~(token.key # None) /\ ~(token.key = None /\ n > 0 /\ ~pairs[n].quoted)
  <2>1. Continue(pairs, token) = pairs
    BY <1>4, <1>5 DEF Continue
  <2> QED
    BY <2>1
<1> QED
  BY <1>2, <1>3, <1>4

\* The pairs of a line have keys, and texts.
LEMMA ParseKVIs ==
    ASSUME NEW tokens, tokens \in Seq(Tokens)
    PROVE  FinePairs(ParseKV(tokens))
<1> DEFINE N == Len(tokens)
           Step(f, i) == IF i = 0 THEN <<>> ELSE Continue(f[i - 1], tokens[i])
           Def(f, n) == f = [i \in 0 .. n |-> Step(f, i)]
           P == {n \in 0 .. N : \E f : Def(f, n)}
<1>1. N \in Nat /\ \A i \in 1 .. N : tokens[i] \in Tokens
  BY LenProperties, ElementOfSeq
<1>2. 0 \in P
  <2> DEFINE f == [i \in 0 .. 0 |-> <<>>]
  <2>1. Def(f, 0)
    OBVIOUS
  <2>2. 0 \in 0 .. N
    BY <1>1
  <2> HIDE DEF f, N, Def
  <2> QED
    BY <2>1, <2>2
<1>3. ASSUME NEW n \in 0 .. N - 1, n \in P PROVE n + 1 \in P
  <2>1. PICK f : Def(f, n)
    BY <1>3
  <2> DEFINE g == [i \in 0 .. n + 1 |-> IF i = n + 1 THEN Step(f, n + 1) ELSE f[i]]
  <2>2. ASSUME NEW i \in 0 .. n + 1 PROVE g[i] = Step(g, i)
    <3>1. CASE i = n + 1
      <4>1. i # 0 /\ i - 1 = n /\ n \in 0 .. n + 1 /\ n # n + 1
        BY <3>1
      <4>2. g[i - 1] = f[n] /\ g[i] = Continue(f[n], tokens[n + 1])
        BY <3>1, <4>1
      <4> QED
        BY <3>1, <4>1, <4>2
    <3>2. CASE i = 0
      <4>1. 0 \in 0 .. n /\ 0 # n + 1
        OBVIOUS
      <4>2. f[0] = <<>>
        BY <2>1, <4>1
      <4> QED
        BY <3>2, <4>1, <4>2
    <3>3. CASE i # 0 /\ i # n + 1
      <4>1. i \in 0 .. n /\ i - 1 \in 0 .. n + 1 /\ i - 1 # n + 1
        BY <3>3
      <4>2. f[i] = Continue(f[i - 1], tokens[i])
        BY <2>1, <3>3, <4>1
      <4> QED
        BY <3>3, <4>1, <4>2
    <3> QED
      BY <3>1, <3>2, <3>3
  <2>3. n + 1 \in 0 .. N
    BY <1>1
  <2>4. Def(g, n + 1)
    <3> HIDE DEF Step
    <3> QED
      BY <2>2, Zenon
  <2> HIDE DEF g, Def
  <2> QED
    BY <2>3, <2>4
<1>4. N \in P
  <2> HIDE DEF P, N
  <2>1. \A n \in 0 .. N : n \in P
    BY <1>1, <1>2, <1>3, CountUp
  <2> QED
    BY <1>1, <2>1
<1>5. \E f : Def(f, N)
  BY <1>4
<1> DEFINE pairs == CHOOSE f : Def(f, N)
<1>6. Def(pairs, N)
  BY <1>5
<1>7. ParseKV(tokens) = pairs[N]
  BY DEF ParseKV
<1> HIDE DEF pairs
<1> DEFINE Q == {n \in 0 .. N : FinePairs(pairs[n])}
<1>8. 0 \in Q
  <2>1. 0 \in 0 .. N
    BY <1>1
  <2>2. pairs[0] = <<>>
    BY <1>6, <2>1
  <2>3. FinePairs(<<>>)
    BY EmptySeq DEF FinePairs
  <2> QED
    BY <2>1, <2>2, <2>3
<1>9. ASSUME NEW n \in 0 .. N - 1, n \in Q PROVE n + 1 \in Q
  <2>1. n + 1 \in 0 .. N /\ n + 1 \in 1 .. N /\ n + 1 # 0 /\ (n + 1) - 1 = n
    BY <1>1
  <2>2. pairs[n + 1] = Continue(pairs[n], tokens[n + 1])
    BY <1>6, <2>1
  <2>3. FinePairs(pairs[n]) /\ tokens[n + 1] \in Tokens
    BY <1>1, <1>9, <2>1
  <2> QED
    BY <2>1, <2>2, <2>3, ContinueIs
<1> HIDE DEF Q, N
<1>10. \A n \in 0 .. N : n \in Q
  BY <1>1, <1>8, <1>9, CountUp
<1> QED
  BY <1>1, <1>7, <1>10 DEF Q

\* What the pairs of a line offer.
LEMMA PairOffersAre ==
    ASSUME NEW pairs, FinePairs(pairs)
    PROVE  /\ FineOffers(PairOffers(pairs)) /\ Len(PairOffers(pairs)) = Len(pairs) /\ Len(pairs) \in Nat
           /\ \A i \in 1 .. Len(pairs) :
                LET o == PairOffers(pairs)[i]
                IN  /\ o.there <=> KeyField(pairs[i].key) \in Setters
                    /\ o.there => /\ o.key = pairs[i].key /\ o.field = KeyField(pairs[i].key)
                                  /\ o.scalar /\ o.text = pairs[i].text
           /\ \A i \in 1 .. Len(pairs) : pairs[i].text \in Texts /\ pairs[i].key # None
<1>1. /\ Len(pairs) \in Nat
      /\ \A i \in 1 .. Len(pairs) : pairs[i] \in Tokens /\ pairs[i].key # None
  BY ElementOfSeq, LenProperties DEF FinePairs
<1>2. /\ Len(PairOffers(pairs)) = Len(pairs)
      /\ \A i \in 1 .. Len(pairs) : PairOffers(pairs)[i] = Pair(pairs[i])
  <2>1. PairOffers(pairs) = [i \in 1 .. Len(pairs) |-> Pair(pairs[i])]
    BY DEF PairOffers
  <2>2. DOMAIN PairOffers(pairs) = 1 .. Len(pairs) /\ \A i \in 1 .. Len(pairs) : PairOffers(pairs)[i] = Pair(pairs[i])
    BY <2>1
  <2> DEFINE S == {Pair(pairs[i]) : i \in 1 .. Len(pairs)}
  <2>3. PairOffers(pairs) \in Seq(S)
    BY <1>1, <2>1, IsASeq
  <2>4. DOMAIN PairOffers(pairs) = 1 .. Len(PairOffers(pairs)) /\ Len(PairOffers(pairs)) \in Nat
    BY <2>3, LenProperties
  <2>5. Len(PairOffers(pairs)) = Len(pairs)
    BY <1>1, <2>2, <2>4
  <2> QED
    BY <2>2, <2>5
<1>3. ASSUME NEW i \in 1 .. Len(pairs)
      PROVE  LET o == Pair(pairs[i])
             IN  /\ o.there <=> KeyField(pairs[i].key) \in Setters
                 /\ o.there => /\ o.key = pairs[i].key /\ o.field = KeyField(pairs[i].key)
                               /\ o.scalar /\ o.text = pairs[i].text
  BY DEF Pair, Scalar, NoOffer
<1>4. \A i \in 1 .. Len(pairs) : pairs[i].text \in Texts
  BY <1>1 DEF Tokens
<1>5. FineOffers(PairOffers(pairs))
  <2>1. Setters \subseteq Fields
    BY DEF Setters
  <2> QED
    BY <1>1, <1>2, <1>3, <1>4, <2>1 DEF FineOffers, FineOffer
<1> QED
  BY <1>1, <1>2, <1>3, <1>4, <1>5

-----------------------------------------------------------------------------
(* What a field reads of the offers X, v of them, when D are the tags.     *)

Fitting(f, X) == {x \in X : Fits(f, x.offer)}
RefusedOf(f, X) == {x \in X : Says(x.offer) /\ \A y \in Fitting(f, X) : x.at < y.at}

Reads(f, X, v, D) ==
    /\ v = Empty <=> Fitting(f, X) = {}
    /\ \A x \in Fitting(f, X) : (\A y \in Fitting(f, X) : x.at <= y.at) => v = Value(f, x.offer.text)
    /\ \A x \in RefusedOf(f, X) : x.offer.key # None => <<"invalid", x.offer.key>> \in D
    /\ \A x \in X : <<"invalid", x.offer.key>> \in D =>
            (\E y \in RefusedOf(f, X) : y.offer.key = x.offer.key) \/ ~x.offer.scalar

\* X are the offers to field f, in the order in which they are taken.
Ranks(offers, f, X, pos) ==
    /\ \A x \in X :
        LET o == offers[pos[x]]
        IN  /\ pos[x] \in 1 .. Len(offers) /\ o.there /\ o.field = f /\ x.offer.key = o.key
            /\ (x.offer.scalar <=> o.scalar) /\ (o.scalar => x.offer.text = o.text)
    /\ \A j \in 1 .. Len(offers) : offers[j].there /\ offers[j].field = f => \E x \in X : pos[x] = j
    /\ \A x \in X, y \in X : (x.at < y.at <=> pos[x] < pos[y]) /\ (x.at <= y.at <=> pos[x] <= pos[y])

\* Offers of one key are to one field, and alike.
OneKeyOneField(offers) ==
    \A i \in 1 .. Len(offers), j \in 1 .. Len(offers) :
        offers[i].there /\ offers[j].there /\ offers[i].key = offers[j].key
            => offers[i].field = offers[j].field /\ (offers[i].scalar <=> offers[j].scalar)

\* A field that was empty reads the offers it is given in their order.
LEMMA FilledReads ==
    ASSUME NEW b, NEW offers, FineOffers(offers), NEW c, Filled(b, offers, Len(offers), c),
           NEW f \in Fields, b.e[f] = Empty,
           NEW X, NEW pos, Ranks(offers, f, X, pos), OneKeyOneField(offers),
           \A x \in X : <<"invalid", x.offer.key>> \notin b.derived
    PROVE  Reads(f, X, c.e[f], c.derived)
<1> DEFINE n == Len(offers)
<1>1. n \in Nat /\ \A j \in 1 .. n : j \in Int
  BY DEF FineOffers
<1>2. /\ \A x \in X : pos[x] \in 1 .. n
      /\ \A x \in X : Fits(f, x.offer) <=> Gives(offers[pos[x]], f)
  BY DEF Ranks, Fits, Gives, Suits
<1>3. \A j \in 1 .. n : Gives(offers[j], f) => \E x \in X : pos[x] = j
  BY DEF Ranks, Gives
<1>4. /\ c.e[f] = Empty <=> \A j \in 1 .. n : ~Gives(offers[j], f)
      /\ \A j \in 1 .. n : Gives(offers[j], f) /\ (\A k \in 1 .. j - 1 : ~Gives(offers[k], f))
                                => c.e[f] = Value(f, offers[j].text)
      /\ \A d : d \in c.derived <=> \/ d \in b.derived
                                    \/ \E j \in 1 .. n : /\ RefusedAt(b, offers, j)
                                                         /\ d = <<"invalid", offers[j].key>>
  BY DEF Filled
<1>5. c.e[f] = Empty <=> Fitting(f, X) = {}
  BY <1>2, <1>3, <1>4 DEF Fitting
<1>6. ASSUME NEW x \in Fitting(f, X), \A y \in Fitting(f, X) : x.at <= y.at
      PROVE  c.e[f] = Value(f, x.offer.text)
  <2> DEFINE j == pos[x]
  <2>1. x \in X /\ j \in 1 .. n /\ Gives(offers[j], f)
    BY <1>2 DEF Fitting
  <2>2. ASSUME NEW k \in 1 .. j - 1, Gives(offers[k], f) PROVE FALSE
    <3>1. k \in 1 .. n /\ k < j
      BY <1>1, <2>1
    <3>2. PICK y \in X : pos[y] = k
      BY <1>3, <2>2, <3>1
    <3>3. y \in Fitting(f, X)
      BY <1>2, <2>2, <3>2 DEF Fitting
    <3>4. pos[x] <= pos[y]
      BY <1>6, <2>1, <3>3 DEF Ranks
    <3> QED
      BY <1>1, <2>1, <3>1, <3>2, <3>4
  <2>3. c.e[f] = Value(f, offers[j].text)
    BY <1>4, <2>1, <2>2
  <2>4. x.offer.text = offers[j].text
    BY <2>1 DEF Ranks, Gives
  <2> QED
    BY <2>3, <2>4
<1>7. ASSUME NEW x \in RefusedOf(f, X)
      PROVE  <<"invalid", x.offer.key>> \in c.derived
  <2> DEFINE j == pos[x]
             o == offers[j]
  <2>1. /\ x \in X /\ j \in 1 .. n /\ o.there /\ o.field = f /\ x.offer.key = o.key
        /\ (x.offer.scalar <=> o.scalar) /\ (o.scalar => x.offer.text = o.text)
    BY DEF Ranks, RefusedOf
  <2>2. Says(x.offer) /\ \A y \in Fitting(f, X) : x.at < y.at
    BY DEF RefusedOf
  <2>3. x \notin Fitting(f, X)
    BY <1>1, <2>1, <2>2 DEF Ranks
  <2>4. ASSUME NEW k \in 1 .. j - 1, Gives(offers[k], f) PROVE FALSE
    <3>1. k \in 1 .. n /\ k < j
      BY <1>1, <2>1
    <3>2. PICK y \in X : pos[y] = k
      BY <1>3, <2>4, <3>1
    <3>3. y \in Fitting(f, X)
      BY <1>2, <2>4, <3>2 DEF Fitting
    <3>4. pos[x] < pos[y]
      BY <2>1, <2>2, <3>3 DEF Ranks
    <3> QED
      BY <1>1, <2>1, <3>1, <3>2, <3>4
  <2>5. RefusedAt(b, offers, j)
    BY <2>1, <2>2, <2>3, <2>4 DEF RefusedAt, Says, Fitting, Fits
  <2> QED
    BY <1>4, <2>1, <2>5
<1>8. ASSUME NEW x \in X, <<"invalid", x.offer.key>> \in c.derived
      PROVE  (\E y \in RefusedOf(f, X) : y.offer.key = x.offer.key) \/ ~x.offer.scalar
  <2>1. PICK j \in 1 .. n : RefusedAt(b, offers, j) /\ <<"invalid", x.offer.key>> = <<"invalid", offers[j].key>>
    BY <1>4, <1>8
  <2>2. offers[j].key = x.offer.key /\ offers[j].there
    BY <2>1 DEF RefusedAt
  <2>3. pos[x] \in 1 .. n /\ offers[pos[x]].there /\ offers[pos[x]].key = offers[j].key
        /\ offers[pos[x]].field = f /\ (x.offer.scalar <=> offers[pos[x]].scalar)
    BY <2>2 DEF Ranks
  <2>4. offers[j].field = f /\ (offers[j].scalar <=> x.offer.scalar)
    BY <2>2, <2>3 DEF OneKeyOneField
  <2>5. PICK y \in X : pos[y] = j
    BY <2>2, <2>4 DEF Ranks
  <2>6. CASE x.offer.scalar
    <3>1. /\ TrimSpace(offers[j].text) # Empty /\ ~Usable(f, offers[j].text)
          /\ \A k \in 1 .. j - 1 : ~Gives(offers[k], f)
      BY <2>1, <2>4, <2>6 DEF RefusedAt
    <3>2. y.offer.scalar /\ y.offer.text = offers[j].text /\ y.offer.key = x.offer.key
      BY <2>2, <2>4, <2>5, <2>6 DEF Ranks
    <3>3. ASSUME NEW z \in Fitting(f, X) PROVE y.at < z.at
      <4>1. z \in X /\ pos[z] \in 1 .. n /\ Gives(offers[pos[z]], f)
        BY <1>2 DEF Fitting
      <4>2. pos[z] # j
        BY <3>1, <4>1 DEF Gives, Suits
      <4>3. ~(pos[z] < j)
        BY <1>1, <3>1, <4>1
      <4>4. pos[y] < pos[z]
        BY <1>1, <2>5, <4>1, <4>2, <4>3
      <4> QED
        BY <4>1, <4>4 DEF Ranks
    <3>4. y \in RefusedOf(f, X)
      BY <3>1, <3>2, <3>3 DEF RefusedOf, Says
    <3> QED
      BY <3>2, <3>4
  <2> QED
    BY <2>6
<1> QED
  BY <1>5, <1>6, <1>7, <1>8 DEF Reads

\* Tags of other keys tell nothing of a field.
LEMMA ReadsStill ==
    ASSUME NEW f, NEW X, NEW v, NEW D, Reads(f, X, v, D), NEW E, D \subseteq E,
           \A x \in X : <<"invalid", x.offer.key>> \in E => <<"invalid", x.offer.key>> \in D
    PROVE  Reads(f, X, v, E)
BY DEF Reads

\* What field f holds after text t is offered to it, when it held v.
After(f, v, t) == IF v = Empty /\ Suits(f, t) THEN Value(f, t) ELSE v

LEMMA SetGives ==
    ASSUME NEW e, FineEvent(e), NEW f \in Fields, NEW t \in Texts
    PROVE  /\ FineEvent(Set(e, f, t)) /\ Set(e, f, t)[f] = After(f, e[f], t)
           /\ \A g \in Fields : g # f => Set(e, f, t)[g] = e[g]
BY SetIs DEF After

\* What comes last and has no key is read if nothing else fits.
LEMMA ReadsMore ==
    ASSUME NEW f \in Fields, NEW X, NEW v, NEW D, Reads(f, X, v, D),
           NEW at \in Int, \A x \in X : x.at \in Int /\ x.at < at,
           NEW t \in Texts, <<"invalid", None>> \notin D
    PROVE  Reads(f, X \cup {Ranked(at, Scalar(None, f, t))}, After(f, v, t), D)
<1> DEFINE z == Ranked(at, Scalar(None, f, t))
           Y == X \cup {z}
           w == After(f, v, t)
<1>1. z.at = at /\ z.offer.key = None /\ z.offer.scalar /\ z.offer.text = t
  BY DEF Ranked, Scalar
<1>2. Fits(f, z.offer) <=> Suits(f, t)
  BY <1>1 DEF Fits, Suits
<1> HIDE DEF z
<1>3. Fitting(f, Y) = Fitting(f, X) \cup (IF Suits(f, t) THEN {z} ELSE {})
  BY <1>2 DEF Fitting
<1>4. v = Empty <=> Fitting(f, X) = {}
  BY DEF Reads
<1>5. Suits(f, t) => Value(f, t) # Empty
  BY ValueIs
<1>6. w = Empty <=> Fitting(f, Y) = {}
  BY <1>3, <1>4, <1>5 DEF After
<1>7. \A x \in Fitting(f, X) : x \in X /\ x.at < at /\ x.at \in Int
  BY DEF Fitting
<1>8. ASSUME NEW x \in Fitting(f, Y), \A y \in Fitting(f, Y) : x.at <= y.at
      PROVE  w = Value(f, x.offer.text)
  <2>1. CASE x \in Fitting(f, X)
    <3>1. v = Value(f, x.offer.text)
      BY <1>3, <1>8, <2>1 DEF Reads
    <3>2. v # Empty
      BY <1>4, <2>1
    <3> QED
      BY <3>1, <3>2 DEF After
  <2>2. CASE x = z /\ Suits(f, t)
    <3>1. Fitting(f, X) = {}
      <4>1. SUFFICES ASSUME NEW y \in Fitting(f, X) PROVE FALSE
        OBVIOUS
      <4>2. y \in Fitting(f, Y) /\ y.at < at /\ y.at \in Int
        BY <1>3, <1>7
      <4>3. at <= y.at
        BY <1>1, <1>8, <2>2, <4>2
      <4> QED
        BY <4>2, <4>3
    <3> QED
      BY <1>1, <1>4, <2>2, <3>1 DEF After
  <2> QED
    BY <1>3, <2>1, <2>2
<1>9. \A x \in RefusedOf(f, Y) : x \in RefusedOf(f, X) \/ x = z
  BY <1>3 DEF RefusedOf
<1>10. \A x \in RefusedOf(f, X) : x \in RefusedOf(f, Y)
  <2>1. \A x \in X : x.at < z.at
    BY <1>1
  <2> QED
    BY <1>3, <2>1 DEF RefusedOf
<1>11. ASSUME NEW x \in RefusedOf(f, Y), x.offer.key # None PROVE <<"invalid", x.offer.key>> \in D
  BY <1>1, <1>9, <1>11 DEF Reads
<1>12. ASSUME NEW x \in Y, <<"invalid", x.offer.key>> \in D
       PROVE  (\E y \in RefusedOf(f, Y) : y.offer.key = x.offer.key) \/ ~x.offer.scalar
  <2>1. x \in X
    BY <1>1, <1>12
  <2> QED
    BY <1>10, <1>12, <2>1 DEF Reads
<1> HIDE DEF Y, w
<1>13. Reads(f, Y, w, D)
  BY <1>6, <1>8, <1>11, <1>12 DEF Reads
<1> QED
  BY <1>13 DEF Y, w, z

-----------------------------------------------------------------------------
(* The readers.                                                            *)

LEMMA NewIs ==
    ASSUME NEW s
    PROVE  LET b == [NewBuilder EXCEPT !.source = s]
           IN  /\ FineBuilder(b) /\ b.source = s /\ b.time = Empty /\ b.sender = {} /\ b.derived = {}
               /\ \A f \in Fields : b.e[f] = Empty
<1> DEFINE e == [f \in Fields |-> Empty]
           b == [NewBuilder EXCEPT !.source = s]
<1>1. b = [source |-> s, e |-> e, sender |-> {}, derived |-> {}, raw |-> "record", time |-> Empty]
  BY DEF NewBuilder
<1>2. FineEvent(e)
  <2>1. Held(Empty) /\ ~TooLong(Empty)
    BY EmptySeq DEF Held, Trimmed, Texts, TooLong, Empty
  <2>2. \A f \in Fields : FineField(f, Empty)
    BY <2>1 DEF FineField
  <2> QED
    BY <2>2 DEF FineEvent
<1> HIDE DEF b
<1>3. b.e = e /\ b.derived = {}
  BY <1>1
<1>4. \A f \in Fields : b.e[f] = Empty
  BY <1>3
<1> HIDE DEF e
<1>5. FineBuilder(b)
  BY <1>1, <1>2 DEF FineBuilder
<1> QED
  BY <1>1, <1>4, <1>5 DEF b

LEMMA InvalidIs ==
    ASSUME NEW b, FineBuilder(b), NEW key
    PROVE  LET c == Invalid(b, key)
           IN  /\ FineBuilder(c) /\ SameRest(b, c) /\ c.e = b.e
               /\ c.derived = b.derived \cup {<<"invalid", key>>}
<1> DEFINE c == Invalid(b, key)
<1>1. c = [source |-> b.source, e |-> b.e, sender |-> b.sender,
           derived |-> b.derived \cup {<<"invalid", key>>}, raw |-> b.raw, time |-> b.time]
  BY DEF Invalid, FineBuilder
<1>2. FineBuilder(c)
  BY <1>1 DEF FineBuilder, DerivedTag
<1> QED
  BY <1>1, <1>2 DEF SameRest

\* The tags a sender put in a record.
SenderOf(r) == IF Has(r, "_tags") /\ r["_tags"].kind = "array" THEN r["_tags"].texts ELSE {}

LEMMA SenderTagsAre ==
    ASSUME NEW b, FineBuilder(b), b.sender = {}, NEW r
    PROVE  LET c == ReadSenderTags(b, r)
           IN  /\ FineBuilder(c) /\ c.e = b.e /\ c.source = b.source /\ c.time = b.time /\ c.raw = b.raw
               /\ c.sender = SenderOf(r)
               /\ b.derived \subseteq c.derived /\ c.derived \subseteq b.derived \cup {<<"invalid", "_tags">>}
<1>1. CASE ~Has(r, "_tags")
  <2>1. ReadSenderTags(b, r) = b
    BY <1>1 DEF ReadSenderTags
  <2> QED
    BY <1>1, <2>1 DEF SenderOf
<1>2. CASE Has(r, "_tags") /\ r["_tags"].kind = "array"
  <2> DEFINE c == ReadSenderTags(b, r)
  <2>1. c = [b EXCEPT !.sender = r["_tags"].texts]
    BY <1>2 DEF ReadSenderTags
  <2>2. c = [source |-> b.source, e |-> b.e, sender |-> r["_tags"].texts,
             derived |-> b.derived, raw |-> b.raw, time |-> b.time]
    BY <2>1 DEF FineBuilder
  <2> HIDE DEF c
  <2>3. FineBuilder(c)
    BY <2>2 DEF FineBuilder
  <2>4. SenderOf(r) = r["_tags"].texts
    BY <1>2 DEF SenderOf
  <2> QED
    BY <2>2, <2>3, <2>4 DEF c
<1>3. CASE Has(r, "_tags") /\ r["_tags"].kind # "array"
  <2>1. ReadSenderTags(b, r) = Invalid(b, "_tags")
    BY <1>3 DEF ReadSenderTags
  <2> QED
    BY <1>3, <2>1, InvalidIs DEF SenderOf, SameRest
<1> QED
  BY <1>1, <1>2, <1>3

\* What one key of an object tells.
LEMMA ToldIs ==
    ASSUME NEW r, NEW key, NEW name, NEW at
    PROVE  /\ \A x \in Told(r, key, name, at) :
                /\ Has(r, key) /\ x.at = at /\ x.offer.key = name
                /\ (x.offer.scalar <=> r[key].kind \in Scalars)
                /\ r[key].kind \in Scalars => x.offer.text = r[key].text
           /\ Has(r, key) => Told(r, key, name, at) # {}
<1>1. CASE ~Has(r, key)
  BY <1>1 DEF Told
<1>2. CASE Has(r, key) /\ r[key].kind \in Scalars
  <2>1. Told(r, key, name, at) = {Ranked(at, Scalar(name, name, r[key].text))}
    BY <1>2 DEF Told
  <2> QED
    BY <1>2, <2>1 DEF Ranked, Scalar
<1>3. CASE Has(r, key) /\ r[key].kind \notin Scalars
  <2>1. Told(r, key, name, at) = {Ranked(at, Unusable(name, name))}
    BY <1>3 DEF Told
  <2> QED
    BY <1>3, <2>1 DEF Ranked, Unusable
<1> QED
  BY <1>1, <1>2, <1>3

\* The i-th offer of a record.
LEMMA JsonOfferIs ==
    ASSUME NEW r, FineRecord(r), NEW i \in 1 .. 20
    PROVE  LET o == JsonOffers(r)[i]
               key == JsonKeys[i]
           IN  /\ (o.there <=> Has(r, key))
               /\ Has(r, key) => /\ o.key = key /\ o.field = JsonField(key)
                                 /\ (o.scalar <=> r[key].kind \in Scalars)
               /\ Has(r, key) /\ r[key].kind \in Scalars => o.text = r[key].text
<1>1. JsonField(JsonKeys[i]) \in Fields
  BY JsonKeyIs, SettersAre
<1>2. Has(r, JsonKeys[i]) => IsValue(r[JsonKeys[i]])
  BY DEF FineRecord, Has
<1> QED
  BY <1>1, <1>2, JsonOffersAre, MemberIs

\* The order of jsonKeys is the order in which a record offers values to a
\* field.
LEMMA JsonRanks ==
    ASSUME NEW r, FineRecord(r), NEW f \in Setters
    PROVE  \E pos : Ranks(JsonOffers(r), f, RecordOffers(f, r), pos)
<1> DEFINE os == JsonOffers(r)
           own == Told(r, f, f, 1)
           alias == IF f = "src_ip" THEN Told(r, "ip", "ip", 2) ELSE {}
           X == own \cup alias
<1>1. RecordOffers(f, r) = X
  BY DEF RecordOffers
<1>2. PICK i \in 1 .. 20 : JsonKeys[i] = f /\ (i = 8 <=> f = "ip")
  BY JsonKeyIs
<1>3. f # "ip" /\ i # 8 /\ JsonField(f) = f /\ (f = "src_ip" => i = 7) /\ JsonKeys[8] = "ip" /\ JsonField("ip") = "src_ip"
  BY <1>2, SettersAre, KeysAre, JsonKeyIs DEF JsonField
<1> DEFINE pos == [x \in X |-> IF x.at = 2 THEN 8 ELSE i]
<1>4. /\ \A x \in own : /\ x.at = 1 /\ Has(r, f) /\ x.offer.key = f
                        /\ (x.offer.scalar <=> r[f].kind \in Scalars)
                        /\ (r[f].kind \in Scalars => x.offer.text = r[f].text)
      /\ Has(r, f) => own # {}
  BY ToldIs
<1>5. /\ \A x \in alias : /\ x.at = 2 /\ Has(r, "ip") /\ x.offer.key = "ip" /\ f = "src_ip"
                          /\ (x.offer.scalar <=> r["ip"].kind \in Scalars)
                          /\ (r["ip"].kind \in Scalars => x.offer.text = r["ip"].text)
      /\ Has(r, "ip") /\ f = "src_ip" => alias # {}
  BY ToldIs
<1>6. Len(os) = 20 /\ \A k \in 1 .. 20, l \in 1 .. 20 : JsonKeys[k] = JsonKeys[l] => k = l
  BY JsonOffersAre, JsonKeyIs
<1>7. /\ os[i].there <=> Has(r, f)
      /\ Has(r, f) => os[i].key = f /\ os[i].field = f /\ (os[i].scalar <=> r[f].kind \in Scalars)
      /\ Has(r, f) /\ r[f].kind \in Scalars => os[i].text = r[f].text
  BY <1>2, <1>3, JsonOfferIs
<1>8. /\ os[8].there <=> Has(r, "ip")
      /\ Has(r, "ip") => os[8].key = "ip" /\ os[8].field = "src_ip" /\ (os[8].scalar <=> r["ip"].kind \in Scalars)
      /\ Has(r, "ip") /\ r["ip"].kind \in Scalars => os[8].text = r["ip"].text
  <2>1. 8 \in 1 .. 20
    OBVIOUS
  <2> QED
    BY <1>3, <2>1, JsonOfferIs
<1> HIDE DEF own, alias
<1>9. /\ \A x \in own : x \in X /\ pos[x] = i
      /\ \A x \in alias : x \in X /\ pos[x] = 8 /\ f = "src_ip" /\ i = 7
      /\ \A x \in X : x \in own \/ x \in alias
  BY <1>3, <1>4, <1>5
<1> HIDE DEF X, pos
<1>10. ASSUME NEW x \in X
       PROVE  LET o == os[pos[x]]
              IN  /\ pos[x] \in 1 .. Len(os) /\ o.there /\ o.field = f /\ x.offer.key = o.key
                  /\ (x.offer.scalar <=> o.scalar) /\ (o.scalar => x.offer.text = o.text)
  <2> HIDE DEF os
  <2>1. CASE x \in own
    BY <1>2, <1>4, <1>6, <1>7, <1>9, <2>1
  <2>2. CASE x \in alias
    BY <1>5, <1>6, <1>8, <1>9, <2>2
  <2> QED
    BY <1>9, <2>1, <2>2
<1>11. ASSUME NEW j \in 1 .. Len(os), os[j].there, os[j].field = f
       PROVE  \E x \in X : pos[x] = j
  <2>1. j \in 1 .. 20 /\ Has(r, JsonKeys[j]) /\ JsonField(JsonKeys[j]) = f
    BY <1>6, <1>11, JsonOfferIs
  <2>2. CASE JsonKeys[j] = "ip"
    <3>1. j = 8
      <4>1. 8 \in 1 .. 20
        OBVIOUS
      <4> QED
        BY <1>3, <1>6, <2>1, <2>2, <4>1
    <3>2. Has(r, "ip") /\ f = "src_ip"
      BY <1>3, <2>1, <2>2
    <3> QED
      BY <1>5, <1>9, <3>1, <3>2
  <2>3. CASE JsonKeys[j] # "ip"
    <3>1. JsonKeys[j] = f
      BY <2>1, <2>3 DEF JsonField
    <3>2. j = i
      BY <1>2, <1>6, <2>1, <3>1
    <3> QED
      BY <1>4, <1>9, <2>1, <3>1, <3>2
  <2> QED
    BY <2>2, <2>3
<1>12. ASSUME NEW x \in X, NEW y \in X
       PROVE  (x.at < y.at <=> pos[x] < pos[y]) /\ (x.at <= y.at <=> pos[x] <= pos[y])
  <2>1. \/ x.at = 1 /\ pos[x] = i
        \/ x.at = 2 /\ pos[x] = 8 /\ i = 7
    BY <1>4, <1>5, <1>9
  <2>2. \/ y.at = 1 /\ pos[y] = i
        \/ y.at = 2 /\ pos[y] = 8 /\ i = 7
    BY <1>4, <1>5, <1>9
  <2> QED
    BY <2>1, <2>2
<1>13. Ranks(os, f, X, pos)
  BY <1>10, <1>11, <1>12 DEF Ranks
<1> QED
  BY <1>1, <1>13

\* No key of a record is read for two fields.
LEMMA JsonOneKey ==
    ASSUME NEW r, FineRecord(r)
    PROVE  OneKeyOneField(JsonOffers(r))
<1> SUFFICES ASSUME NEW i \in 1 .. 20, NEW j \in 1 .. 20,
                    JsonOffers(r)[i].there, JsonOffers(r)[j].there,
                    JsonOffers(r)[i].key = JsonOffers(r)[j].key
             PROVE  i = j
  BY JsonOffersAre DEF OneKeyOneField
<1>1. JsonKeys[i] = JsonKeys[j]
  BY JsonOfferIs
<1> QED
  BY <1>1, JsonKeyIs

CloudNames == {"cloud_account_id", "cloud_region", "cloud_service"}

\* Every field of the cloud has its place among the offers, its member and key.
CloudPlace(f, k, m) ==
    /\ k \in 1 .. 3 /\ m \in DOMAIN CloudFields /\ CloudFields[m] = f
    /\ m = <<"account_id", "region", "service">>[k]
    /\ CloudKeys[m] = <<"cloud.account_id", "cloud.region", "cloud.service">>[k]
    /\ f = <<"cloud_account_id", "cloud_region", "cloud_service">>[k]

LEMMA CloudPlaces ==
    ASSUME NEW f \in CloudNames
    PROVE  \E k, m : /\ CloudPlace(f, k, m)
                     /\ m = CHOOSE x \in DOMAIN CloudFields : CloudFields[x] = f
<1> DEFINE m == CHOOSE x \in DOMAIN CloudFields : CloudFields[x] = f
<1>1. \E x \in DOMAIN CloudFields : CloudFields[x] = f
  BY CloudIs DEF CloudNames
<1>2. m \in DOMAIN CloudFields /\ CloudFields[m] = f
  BY <1>1
<1> HIDE DEF m
<1>3. CASE m = "account_id"
  <2>1. CloudPlace(f, 1, m)
    BY <1>2, <1>3, CloudIs DEF CloudPlace
  <2> QED
    BY <2>1 DEF m
<1>4. CASE m = "region"
  <2>1. CloudPlace(f, 2, m)
    BY <1>2, <1>4, CloudIs DEF CloudPlace
  <2> QED
    BY <2>1 DEF m
<1>5. CASE m = "service"
  <2>1. CloudPlace(f, 3, m)
    BY <1>2, <1>5, CloudIs DEF CloudPlace
  <2> QED
    BY <2>1 DEF m
<1> QED
  BY <1>2, <1>3, <1>4, <1>5, CloudIs

LEMMA CloudOfferIs ==
    ASSUME NEW x, \A m \in DOMAIN x : IsValue(x[m]), NEW f \in CloudNames, NEW k, NEW m, CloudPlace(f, k, m)
    PROVE  LET o == CloudOffers(x)[k]
           IN  /\ o.there <=> Has(x, m)
               /\ Has(x, m) => o.key = CloudKeys[m] /\ o.field = f /\ (o.scalar <=> x[m].kind \in Scalars)
               /\ Has(x, m) /\ x[m].kind \in Scalars => o.text = x[m].text
<1>1. CloudOffers(x)[k] = Member(x, m, CloudKeys[m], f)
  <2>1. k = 1 \/ k = 2 \/ k = 3
    BY DEF CloudPlace
  <2> QED
    BY <2>1, CloudOffersAre DEF CloudPlace
<1>2. f \in Fields
  BY SettersAre DEF CloudNames
<1>3. Has(x, m) => IsValue(x[m])
  BY DEF Has
<1> QED
  BY <1>1, <1>2, <1>3, MemberIs

LEMMA CloudAt ==
    \A k \in 1 .. 3 : \E f \in CloudNames : \E m : CloudPlace(f, k, m)
<1>1. \A k \in 1 .. 3 : k = 1 \/ k = 2 \/ k = 3
  OBVIOUS
<1>2. /\ CloudPlace("cloud_account_id", 1, "account_id") /\ CloudPlace("cloud_region", 2, "region")
      /\ CloudPlace("cloud_service", 3, "service")
  BY CloudIs DEF CloudPlace
<1> QED
  BY <1>1, <1>2 DEF CloudNames

LEMMA CloudPlaceIs ==
    \A f, g, k, l, m, n : CloudPlace(f, k, m) /\ CloudPlace(g, l, n) =>
        ((f = g <=> k = l) /\ (m = n <=> k = l) /\ (CloudKeys[m] = CloudKeys[n] <=> k = l))
<1> SUFFICES ASSUME NEW f, NEW g, NEW k, NEW l, NEW m, NEW n, CloudPlace(f, k, m), CloudPlace(g, l, n)
             PROVE  (f = g <=> k = l) /\ (m = n <=> k = l) /\ (CloudKeys[m] = CloudKeys[n] <=> k = l)
  OBVIOUS
<1>1. (k = 1 \/ k = 2 \/ k = 3) /\ (l = 1 \/ l = 2 \/ l = 3)
  BY DEF CloudPlace
<1> QED
  BY <1>1 DEF CloudPlace

LEMMA CloudOneKey ==
    ASSUME NEW x, \A m \in DOMAIN x : IsValue(x[m])
    PROVE  OneKeyOneField(CloudOffers(x))
<1> SUFFICES ASSUME NEW i \in 1 .. 3, NEW j \in 1 .. 3,
                    CloudOffers(x)[i].there, CloudOffers(x)[j].there,
                    CloudOffers(x)[i].key = CloudOffers(x)[j].key
             PROVE  i = j
  BY CloudOffersAre DEF OneKeyOneField
<1>1. PICK f, m : f \in CloudNames /\ CloudPlace(f, i, m)
  BY CloudAt
<1>2. PICK g, n : g \in CloudNames /\ CloudPlace(g, j, n)
  BY CloudAt
<1>3. CloudOffers(x)[i].key = CloudKeys[m]
  BY <1>1, CloudOfferIs
<1>4. CloudOffers(x)[j].key = CloudKeys[n]
  BY <1>2, CloudOfferIs
<1>5. CloudKeys[m] = CloudKeys[n]
  BY <1>3, <1>4
<1>6. CloudKeys[m] = CloudKeys[n] <=> i = j
  BY <1>1, <1>2, CloudPlaceIs
<1> QED
  BY <1>5, <1>6

\* A cloud field has one offer, of its own member.
LEMMA CloudRanks ==
    ASSUME NEW x, \A m \in DOMAIN x : IsValue(x[m]), NEW f \in CloudNames, NEW k, NEW m, CloudPlace(f, k, m)
    PROVE  \E pos : Ranks(CloudOffers(x), f, Told(x, m, CloudKeys[m], 1), pos)
<1> DEFINE os == CloudOffers(x)
           X == Told(x, m, CloudKeys[m], 1)
           pos == [y \in X |-> k]
<1>1. /\ \A y \in X : /\ Has(x, m) /\ y.at = 1 /\ y.offer.key = CloudKeys[m]
                      /\ (y.offer.scalar <=> x[m].kind \in Scalars)
                      /\ x[m].kind \in Scalars => y.offer.text = x[m].text
      /\ Has(x, m) => X # {}
  BY ToldIs
<1>2. /\ os[k].there <=> Has(x, m)
      /\ Has(x, m) => os[k].key = CloudKeys[m] /\ os[k].field = f /\ (os[k].scalar <=> x[m].kind \in Scalars)
      /\ Has(x, m) /\ x[m].kind \in Scalars => os[k].text = x[m].text
  BY CloudOfferIs
<1>3. Len(os) = 3 /\ k \in 1 .. 3
  BY CloudOffersAre DEF CloudPlace
<1> HIDE DEF os, X
<1>4. \A y \in X : pos[y] = k
  OBVIOUS
<1> HIDE DEF pos
<1>5. ASSUME NEW j \in 1 .. Len(os), os[j].there, os[j].field = f PROVE \E y \in X : pos[y] = j
  <2>1. PICK g, n : g \in CloudNames /\ CloudPlace(g, j, n)
    BY <1>3, CloudAt
  <2>2. os[j].field = g
    BY <1>5, <2>1, CloudOfferIs DEF os
  <2>3. j = k
    BY <1>5, <2>1, <2>2, CloudPlaceIs
  <2> QED
    BY <1>1, <1>2, <1>4, <1>5, <2>3
<1>6. ASSUME NEW y \in X
      PROVE  LET o == os[pos[y]]
             IN  /\ pos[y] \in 1 .. Len(os) /\ o.there /\ o.field = f /\ y.offer.key = o.key
                 /\ (y.offer.scalar <=> o.scalar) /\ (o.scalar => y.offer.text = o.text)
  BY <1>1, <1>2, <1>3, <1>4
<1>7. \A y \in X, z \in X : (y.at < z.at <=> pos[y] < pos[z]) /\ (y.at <= z.at <=> pos[y] <= pos[z])
  BY <1>1, <1>3, <1>4
<1>8. Ranks(os, f, X, pos)
  BY <1>5, <1>6, <1>7 DEF Ranks
<1> QED
  BY <1>8 DEF os, X

\* What a record read as JSON gives, once its fields are read.
JsonRead(r, s, b) ==
    /\ FineBuilder(b) /\ b.source = s /\ b.time = Empty /\ b.sender = {}
    /\ \A f \in Setters : Reads(f, RecordOffers(f, r), b.e[f], b.derived)

LEMMA FieldsRead ==
    ASSUME NEW r, FineRecord(r), NEW s
    PROVE  LET b == Fill([NewBuilder EXCEPT !.source = s], JsonOffers(r))
           IN  /\ JsonRead(r, s, b) /\ \A f \in CloudNames : b.e[f] = Empty
               /\ \A d \in b.derived : \E i \in 1 .. 20 : d = <<"invalid", JsonKeys[i]>>
<1> DEFINE b0 == [NewBuilder EXCEPT !.source = s]
           os == JsonOffers(r)
           b == Fill(b0, os)
<1>1. /\ FineBuilder(b0) /\ b0.source = s /\ b0.time = Empty /\ b0.sender = {} /\ b0.derived = {}
      /\ \A f \in Fields : b0.e[f] = Empty
  BY NewIs
<1>2. FineOffers(os) /\ Len(os) = 20 /\ OneKeyOneField(os)
  BY JsonOffersAre, JsonOneKey
<1> HIDE DEF b0
<1>3. Filled(b0, os, Len(os), b)
  BY <1>1, <1>2, FillIs
<1>4. FineBuilder(b) /\ b.source = s /\ b.time = Empty /\ b.sender = {}
  BY <1>1, <1>3 DEF Filled, SameRest
<1>5. ASSUME NEW f \in Setters PROVE Reads(f, RecordOffers(f, r), b.e[f], b.derived)
  <2>1. f \in Fields
    BY SettersAre
  <2>2. PICK pos : Ranks(os, f, RecordOffers(f, r), pos)
    BY JsonRanks
  <2> HIDE DEF os, b
  <2> QED
    BY <1>1, <1>2, <1>3, <2>1, <2>2, FilledReads
<1>6. ASSUME NEW f \in CloudNames PROVE b.e[f] = Empty
  <2>1. f \in Fields /\ f \notin Setters
    BY SettersAre DEF CloudNames
  <2>2. ASSUME NEW j \in 1 .. 20, Gives(os[j], f) PROVE FALSE
    <3>1. Has(r, JsonKeys[j]) /\ JsonField(JsonKeys[j]) = f
      BY <2>2, JsonOfferIs DEF Gives
    <3> QED
      BY <2>1, <3>1, JsonKeyIs
  <2> QED
    BY <1>1, <1>2, <1>3, <2>1, <2>2 DEF Filled
<1>7. ASSUME NEW d \in b.derived PROVE \E i \in 1 .. 20 : d = <<"invalid", JsonKeys[i]>>
  <2>1. PICK j \in 1 .. 20 : RefusedAt(b0, os, j) /\ d = <<"invalid", os[j].key>>
    BY <1>1, <1>2, <1>3 DEF Filled
  <2>2. os[j].key = JsonKeys[j]
    BY <2>1, JsonOfferIs DEF RefusedAt
  <2> QED
    BY <2>1, <2>2
<1> HIDE DEF b
<1> QED
  BY <1>4, <1>5, <1>6, <1>7 DEF JsonRead, b, b0

\* The keys a record offers to a field are its own.
LEMMA RecordKeys ==
    ASSUME NEW r, NEW f \in Fields, NEW x \in RecordOffers(f, r)
    PROVE  /\ f \in Setters => x.offer.key \in {f, "ip"}
           /\ f \in CloudNames => x.offer.key \in {"cloud.account_id", "cloud.region", "cloud.service"}
           /\ x.at \in 1 .. 2
<1>1. CASE f \in Setters
  <2>1. x \in Told(r, f, f, 1) \/ x \in Told(r, "ip", "ip", 2)
    BY <1>1 DEF RecordOffers
  <2>2. f \notin CloudNames
    BY <1>1, SettersAre DEF CloudNames
  <2> QED
    BY <2>1, <2>2, ToldIs
<1>2. CASE f \notin Setters
  <2>1. f \in CloudNames
    BY <1>2, SettersAre DEF CloudNames
  <2>2. PICK k, m : CloudPlace(f, k, m) /\ m = CHOOSE y \in DOMAIN CloudFields : CloudFields[y] = f
    BY <2>1, CloudPlaces
  <2>3. x \in Told(r["cloud"].members, m, CloudKeys[m], 1)
    BY <1>2, <2>2 DEF RecordOffers
  <2>4. x.offer.key = CloudKeys[m] /\ x.at = 1
    BY <2>3, ToldIs
  <2> QED
    BY <1>2, <2>2, <2>4, CloudIs DEF CloudPlace
<1> QED
  BY <1>1, <1>2

\* A builder of which every field reads what the record offers it.
RecordRead(r, s, b) ==
    /\ FineBuilder(b) /\ b.source = s /\ b.time = Empty
    /\ \A f \in Fields : Reads(f, RecordOffers(f, r), b.e[f], b.derived)

\* A tag of a key that no field has changes nothing.
LEMMA StillRead ==
    ASSUME NEW r, NEW s, NEW b, RecordRead(r, s, b),
           NEW c, FineBuilder(c), c.e = b.e, c.source = b.source, c.time = b.time, b.derived \subseteq c.derived,
           NEW key \in {"cloud", "raw", "_tags"}, c.derived \subseteq b.derived \cup {<<"invalid", key>>}
    PROVE  RecordRead(r, s, c)
<1>1. ASSUME NEW f \in Fields PROVE Reads(f, RecordOffers(f, r), c.e[f], c.derived)
  <2>1. Reads(f, RecordOffers(f, r), c.e[f], b.derived)
    BY DEF RecordRead
  <2>2. ASSUME NEW x \in RecordOffers(f, r) PROVE <<"invalid", x.offer.key>> # <<"invalid", key>>
    <3>1. x.offer.key # key
      <4>1. x.offer.key \in Setters \cup {"ip", "cloud.account_id", "cloud.region", "cloud.service"}
        BY RecordKeys, SettersAre DEF CloudNames
      <4> QED
        BY <4>1, SettersAre
    <3> QED
      BY <3>1
  <2> QED
    BY <2>1, <2>2, ReadsStill
<1> QED
  BY <1>1 DEF RecordRead

\* readCloud gives the cloud fields what the members say, and no other field.
LEMMA CloudRead ==
    ASSUME NEW r, FineRecord(r), NEW s, NEW b, JsonRead(r, s, b), \A f \in CloudNames : b.e[f] = Empty,
           \A d \in b.derived : \E i \in 1 .. 20 : d = <<"invalid", JsonKeys[i]>>
    PROVE  RecordRead(r, s, ReadCloud(b, r)) /\ ReadCloud(b, r).sender = {}
<1> DEFINE c == ReadCloud(b, r)
<1>1. Fields = Setters \cup CloudNames /\ Setters \cap CloudNames = {}
  BY SettersAre DEF CloudNames
<1>2. CASE ~(Has(r, "cloud") /\ r["cloud"].kind = "object")
  <2>1. ASSUME NEW f \in CloudNames PROVE Reads(f, RecordOffers(f, r), b.e[f], b.derived)
    <3>1. RecordOffers(f, r) = {}
      BY <1>1, <1>2 DEF RecordOffers
    <3> QED
      BY <3>1 DEF Reads, Fitting, RefusedOf
  <2>2. RecordRead(r, s, b) /\ b.sender = {}
    BY <1>1, <2>1 DEF RecordRead, JsonRead
  <2>3. CASE ~Has(r, "cloud")
    BY <2>2, <2>3 DEF ReadCloud
  <2>4. CASE Has(r, "cloud")
    <3>1. c = Invalid(b, "cloud")
      BY <1>2, <2>4 DEF ReadCloud
    <3>2. /\ FineBuilder(c) /\ SameRest(b, c) /\ c.e = b.e
          /\ c.derived = b.derived \cup {<<"invalid", "cloud">>}
      BY <2>2, <3>1, InvalidIs DEF RecordRead
    <3>3. RecordRead(r, s, c)
      BY <2>2, <3>2, StillRead DEF SameRest
    <3> QED
      BY <2>2, <3>2, <3>3 DEF SameRest
  <2> QED
    BY <2>3, <2>4
<1>3. CASE Has(r, "cloud") /\ r["cloud"].kind = "object"
  <2> DEFINE os == CloudOffers(r["cloud"].members)
  <2>1. c = Fill(b, os)
    BY <1>3 DEF ReadCloud
  <2>2. \A m \in DOMAIN r["cloud"].members : IsValue(r["cloud"].members[m])
    BY <1>3 DEF FineRecord, Has
  <2>3. FineOffers(os) /\ Len(os) = 3 /\ OneKeyOneField(os)
    BY <2>2, CloudOffersAre, CloudOneKey
  <2>4. \A j \in 1 .. 3 : os[j].there =>
            os[j].field \in CloudNames /\ os[j].key \in {CloudKeys[m] : m \in DOMAIN CloudKeys}
    <3>1. SUFFICES ASSUME NEW j \in 1 .. 3, os[j].there
                   PROVE  os[j].field \in CloudNames /\ os[j].key \in {CloudKeys[m] : m \in DOMAIN CloudKeys}
      OBVIOUS
    <3>2. PICK f, m : f \in CloudNames /\ CloudPlace(f, j, m)
      BY CloudAt
    <3>3. os[j].field = f /\ os[j].key = CloudKeys[m]
      BY <2>2, <3>1, <3>2, CloudOfferIs
    <3>4. m \in DOMAIN CloudKeys
      BY <3>2, CloudIs DEF CloudPlace
    <3> QED
      BY <3>2, <3>3, <3>4
  <2> HIDE DEF os, c
  <2>12. FineBuilder(b)
    BY DEF JsonRead
  <2>5. Filled(b, os, Len(os), c)
    BY <2>1, <2>3, <2>12, FillIs
  <2>6. FineBuilder(c) /\ c.source = s /\ c.time = Empty /\ c.sender = {}
    BY <2>5 DEF Filled, SameRest, JsonRead
  <2>7. ASSUME NEW f \in CloudNames PROVE Reads(f, RecordOffers(f, r), c.e[f], c.derived)
    <3>1. PICK k, m : CloudPlace(f, k, m) /\ m = CHOOSE y \in DOMAIN CloudFields : CloudFields[y] = f
      BY CloudPlaces
    <3>2. f \notin Setters /\ f \in Fields
      BY <1>1
    <3>3. RecordOffers(f, r) = Told(r["cloud"].members, m, CloudKeys[m], 1)
      BY <1>3, <3>1, <3>2 DEF RecordOffers
    <3>4. PICK pos : Ranks(os, f, RecordOffers(f, r), pos)
      BY <2>2, <3>1, <3>3, CloudRanks DEF os
    <3>5. \A x \in RecordOffers(f, r) : <<"invalid", x.offer.key>> \notin b.derived
      <4>1. SUFFICES ASSUME NEW x \in RecordOffers(f, r), NEW i \in 1 .. 20,
                            <<"invalid", x.offer.key>> = <<"invalid", JsonKeys[i]>>
                     PROVE  FALSE
        OBVIOUS
      <4>2. x.offer.key = JsonKeys[i] /\ x.offer.key \in {"cloud.account_id", "cloud.region", "cloud.service"}
        BY <3>2, <4>1, RecordKeys
      <4>3. JsonField(x.offer.key) \in Setters
        BY <4>2, JsonKeyIs
      <4> QED
        BY <4>2, <4>3, SettersAre DEF JsonField
    <3> QED
      BY <2>3, <2>5, <3>2, <3>4, <3>5, FilledReads
  <2>8. ASSUME NEW f \in Setters PROVE Reads(f, RecordOffers(f, r), c.e[f], c.derived)
    <3>1. f \in Fields /\ f \notin CloudNames
      BY <1>1
    <3>2. \A j \in 1 .. 3 : ~Gives(os[j], f)
      BY <2>4, <3>1 DEF Gives
    <3>3. c.e[f] = b.e[f]
      BY <2>3, <2>5, <3>1, <3>2 DEF Filled
    <3>4. Reads(f, RecordOffers(f, r), c.e[f], b.derived)
      BY <3>3 DEF JsonRead
    <3>5. b.derived \subseteq c.derived
      BY <2>5 DEF Filled
    <3>6. ASSUME NEW x \in RecordOffers(f, r), <<"invalid", x.offer.key>> \in c.derived
          PROVE  <<"invalid", x.offer.key>> \in b.derived
      <4>1. x.offer.key \in {f, "ip"}
        BY <3>1, RecordKeys
      <4>2. x.offer.key \notin {CloudKeys[m] : m \in DOMAIN CloudKeys}
        BY <4>1, SettersAre, CloudIs
      <4>3. SUFFICES ASSUME NEW j \in 1 .. 3, RefusedAt(b, os, j),
                            <<"invalid", x.offer.key>> = <<"invalid", os[j].key>>
                     PROVE  FALSE
        BY <2>3, <2>5, <3>6 DEF Filled
      <4>4. x.offer.key = os[j].key /\ os[j].there
        BY <4>3 DEF RefusedAt
      <4> QED
        BY <2>4, <4>2, <4>4
    <3> QED
      BY <3>4, <3>5, <3>6, ReadsStill
  <2>9. RecordRead(r, s, c)
    BY <1>1, <2>6, <2>7, <2>8 DEF RecordRead
  <2> QED
    BY <2>6, <2>9 DEF c
<1> QED
  BY <1>2, <1>3

\* A record read as JSON gives every field what it has for it.
LEMMA FromJsonIs ==
    ASSUME NEW r, FineRecord(r), NEW s
    PROVE  RecordRead(r, s, FromJSON(r, s)) /\ FromJSON(r, s).sender = SenderOf(r)
<1> DEFINE read == Fill([NewBuilder EXCEPT !.source = s], JsonOffers(r))
           clouded == ReadCloud(read, r)
           b == ReadSenderTags(clouded, r)
           c == FromJSON(r, s)
<1>1. /\ JsonRead(r, s, read) /\ \A f \in CloudNames : read.e[f] = Empty
      /\ \A d \in read.derived : \E i \in 1 .. 20 : d = <<"invalid", JsonKeys[i]>>
  BY FieldsRead
<1>2. RecordRead(r, s, clouded) /\ clouded.sender = {}
  <2> HIDE DEF read
  <2> QED
    BY <1>1, CloudRead
<1> HIDE DEF clouded
<1>3. /\ FineBuilder(b) /\ b.e = clouded.e /\ b.source = clouded.source /\ b.time = clouded.time
      /\ b.sender = SenderOf(r)
      /\ clouded.derived \subseteq b.derived /\ b.derived \subseteq clouded.derived \cup {<<"invalid", "_tags">>}
  BY <1>2, SenderTagsAre DEF RecordRead
<1> HIDE DEF b
<1>4. RecordRead(r, s, b)
  BY <1>2, <1>3, StillRead
<1>5. c = CASE Has(r, "raw") /\ r["raw"].kind = "object" -> [b EXCEPT !.raw = "sender"]
            [] Has(r, "raw") /\ r["raw"].kind # "object" -> Invalid(b, "raw")
            [] OTHER -> b
  BY DEF FromJSON, b, clouded
<1> HIDE DEF c
<1>6. CASE Has(r, "raw") /\ r["raw"].kind = "object"
  <2>1. c = [b EXCEPT !.raw = "sender"]
    BY <1>5, <1>6
  <2>2. c = [source |-> b.source, e |-> b.e, sender |-> b.sender, derived |-> b.derived,
             raw |-> "sender", time |-> b.time]
    BY <1>3, <2>1 DEF FineBuilder
  <2>3. FineBuilder(c)
    BY <1>3, <2>2 DEF FineBuilder
  <2>4. RecordRead(r, s, c)
    BY <1>4, <2>2, <2>3 DEF RecordRead
  <2> QED
    BY <1>3, <2>2, <2>4 DEF c
<1>7. CASE Has(r, "raw") /\ r["raw"].kind # "object"
  <2>1. c = Invalid(b, "raw")
    BY <1>5, <1>7
  <2>2. /\ FineBuilder(c) /\ SameRest(b, c) /\ c.e = b.e
        /\ c.derived = b.derived \cup {<<"invalid", "raw">>}
    BY <1>3, <2>1, InvalidIs
  <2>3. RecordRead(r, s, c)
    BY <1>4, <2>2, StillRead DEF SameRest
  <2> QED
    BY <1>3, <2>2, <2>3 DEF SameRest, c
<1>8. CASE ~Has(r, "raw")
  <2>1. c = b
    BY <1>5, <1>8
  <2> QED
    BY <1>3, <1>4, <2>1 DEF c
<1> QED
  BY <1>6, <1>7, <1>8

\* The pairs of a line, and what they offer to a field.
PairsOf(r) == ParseKV(ParseSyslog(r["message"]).body)
PairsTo(f, pairs) ==
    {Ranked(i, Scalar(pairs[i].key, f, pairs[i].text)) :
        i \in {j \in DOMAIN pairs : KeyField(pairs[j].key) = f /\ f \in Setters}}

LEMMA PairsToIs ==
    ASSUME NEW pairs, FinePairs(pairs), NEW f
    PROVE  /\ \A x \in PairsTo(f, pairs) :
                /\ x.at \in 1 .. Len(pairs) /\ KeyField(pairs[x.at].key) = f /\ f \in Setters
                /\ x.offer.key = pairs[x.at].key /\ x.offer.scalar /\ x.offer.text = pairs[x.at].text
           /\ \A i \in 1 .. Len(pairs) :
                KeyField(pairs[i].key) = f /\ f \in Setters => \E x \in PairsTo(f, pairs) : x.at = i
<1> DEFINE of == {j \in DOMAIN pairs : KeyField(pairs[j].key) = f /\ f \in Setters}
           R(i) == Ranked(i, Scalar(pairs[i].key, f, pairs[i].text))
<1>1. DOMAIN pairs = 1 .. Len(pairs)
  BY LenProperties DEF FinePairs
<1>2. \A i : /\ R(i).at = i /\ R(i).offer.key = pairs[i].key
             /\ R(i).offer.scalar /\ R(i).offer.text = pairs[i].text
  BY DEF Ranked, Scalar
<1> HIDE DEF R
<1>3. PairsTo(f, pairs) = {R(i) : i \in of}
  BY DEF PairsTo, R
<1>4. ASSUME NEW x \in PairsTo(f, pairs)
      PROVE  /\ x.at \in 1 .. Len(pairs) /\ KeyField(pairs[x.at].key) = f /\ f \in Setters
             /\ x.offer.key = pairs[x.at].key /\ x.offer.scalar /\ x.offer.text = pairs[x.at].text
  BY <1>1, <1>2, <1>3
<1>5. ASSUME NEW i \in 1 .. Len(pairs), KeyField(pairs[i].key) = f, f \in Setters
      PROVE  \E x \in PairsTo(f, pairs) : x.at = i
  BY <1>1, <1>2, <1>3, <1>5
<1> QED
  BY <1>4, <1>5

\* The pairs of a line are offered in their order.
LEMMA PairRanks ==
    ASSUME NEW pairs, FinePairs(pairs), NEW f \in Fields
    PROVE  /\ OneKeyOneField(PairOffers(pairs))
           /\ \E pos : Ranks(PairOffers(pairs), f, PairsTo(f, pairs), pos)
<1> DEFINE os == PairOffers(pairs)
           X == PairsTo(f, pairs)
           pos == [x \in X |-> x.at]
<1>1. /\ Len(os) = Len(pairs) /\ Len(pairs) \in Nat
      /\ \A i \in 1 .. Len(pairs) : /\ os[i].there <=> KeyField(pairs[i].key) \in Setters
                                    /\ os[i].there => /\ os[i].key = pairs[i].key
                                                      /\ os[i].field = KeyField(pairs[i].key)
                                                      /\ os[i].scalar /\ os[i].text = pairs[i].text
  BY PairOffersAre
<1>2. /\ \A x \in X : /\ x.at \in 1 .. Len(pairs) /\ KeyField(pairs[x.at].key) = f /\ f \in Setters
                      /\ x.offer.key = pairs[x.at].key /\ x.offer.scalar /\ x.offer.text = pairs[x.at].text
      /\ \A i \in 1 .. Len(pairs) :
                KeyField(pairs[i].key) = f /\ f \in Setters => \E x \in X : x.at = i
  BY PairsToIs
<1> HIDE DEF os, X
<1>3. \A x \in X : pos[x] = x.at
  OBVIOUS
<1> HIDE DEF pos
<1>4. OneKeyOneField(os)
  BY <1>1 DEF OneKeyOneField
<1>5. ASSUME NEW x \in X
      PROVE  LET o == os[pos[x]]
             IN  /\ pos[x] \in 1 .. Len(os) /\ o.there /\ o.field = f /\ x.offer.key = o.key
                 /\ (x.offer.scalar <=> o.scalar) /\ (o.scalar => x.offer.text = o.text)
  BY <1>1, <1>2, <1>3
<1>6. \A j \in 1 .. Len(os) : os[j].there /\ os[j].field = f => \E x \in X : pos[x] = j
  BY <1>1, <1>2, <1>3
<1>7. \A x \in X, y \in X : (x.at < y.at <=> pos[x] < pos[y]) /\ (x.at <= y.at <=> pos[x] <= pos[y])
  BY <1>3
<1>8. Ranks(os, f, X, pos)
  BY <1>5, <1>6, <1>7 DEF Ranks
<1> QED
  BY <1>4, <1>8 DEF os, X

\* What the pairs of a line give the fields, before its header.
LEMMA PairsRead ==
    ASSUME NEW pairs, FinePairs(pairs)
    PROVE  LET b == Fill(NewBuilder, PairOffers(pairs))
           IN  /\ FineBuilder(b) /\ b.sender = {}
               /\ \A f \in Fields : Reads(f, PairsTo(f, pairs), b.e[f], b.derived)
               /\ <<"invalid", None>> \notin b.derived
<1> DEFINE os == PairOffers(pairs)
           b == Fill(NewBuilder, os)
<1>1. /\ FineBuilder(NewBuilder) /\ NewBuilder.sender = {} /\ NewBuilder.derived = {}
      /\ \A f \in Fields : NewBuilder.e[f] = Empty
  <2>1. [NewBuilder EXCEPT !.source = None] = NewBuilder
    BY DEF NewBuilder
  <2> QED
    BY <2>1, NewIs
<1>2. FineOffers(os)
  BY PairOffersAre
<1>3. Filled(NewBuilder, os, Len(os), b)
  BY <1>1, <1>2, FillIs
<1>4. FineBuilder(b) /\ b.sender = {}
  BY <1>1, <1>3 DEF Filled, SameRest
<1>5. ASSUME NEW f \in Fields PROVE Reads(f, PairsTo(f, pairs), b.e[f], b.derived)
  <2>1. PICK pos : Ranks(os, f, PairsTo(f, pairs), pos)
    BY PairRanks
  <2>2. OneKeyOneField(os)
    BY PairRanks
  <2> HIDE DEF os, b
  <2> QED
    BY <1>1, <1>2, <1>3, <2>1, <2>2, FilledReads
<1>6. <<"invalid", None>> \notin b.derived
  <2>1. SUFFICES ASSUME NEW j \in 1 .. Len(os), RefusedAt(NewBuilder, os, j),
                        <<"invalid", None>> = <<"invalid", os[j].key>>
                 PROVE  FALSE
    BY <1>1, <1>3 DEF Filled
  <2>2. os[j].there /\ os[j].key = None
    BY <2>1 DEF RefusedAt
  <2> QED
    BY <2>2, PairOffersAre
<1> QED
  BY <1>4, <1>5, <1>6

\* Field f of builder b reads the offers X, but for what its source implies.
ReadsOr(f, X, b) ==
    \E v : Reads(f, X, v, b.derived) /\ (b.e[f] = v \/ (v = Empty /\ f \in Implied))

\* A builder that holds what a line says.
LineRead(r, s, b) ==
    /\ FineBuilder(b)
    /\ IF s # None THEN b.source = s ELSE b.source \in {"firewall", "network"}
    /\ b.time = ParseSyslog(r["message"]).time
    /\ b.sender = SenderOf(r)
    /\ \A f \in Fields : ReadsOr(f, LineOffers(f, r), b)

\* No pair of a line is told by a tag of the tags or of the time.
LEMMA KeyOfNoField == \A key \in {"_tags", "timestamp"} : KeyField(key) \notin Setters
<1> SUFFICES ASSUME NEW key \in {"_tags", "timestamp"} PROVE KeyField(key) \notin Setters
  OBVIOUS
<1>1. Apply(LowerOf, key) = key
  BY TableAssumption DEF Apply, OwnWords
<1>2. Apply(KvAliases, key) = key
  BY DEF Apply, KvAliases
<1>3. KeyField(key) = key
  BY <1>1, <1>2 DEF KeyField
<1> QED
  BY <1>3, SettersAre

LEMMA NoneIs == None \notin {"_tags", "timestamp", "firewall", "network"} /\ None \notin Sources
BY Zenon DEF None, Sources

LEMMA LineKeys ==
    ASSUME NEW r, FinePairs(PairsOf(r)), NEW f, NEW x \in LineOffers(f, r)
    PROVE  x.at \in Int /\ x.offer.key \notin {"_tags", "timestamp"}
<1> DEFINE pairs == PairsOf(r)
           m == ParseSyslog(r["message"])
           at == Len(pairs) + 1
<1>1. x \in PairsTo(f, pairs) \/ x \in Header(f, m, r, at)
  BY DEF LineOffers, PairsTo, PairsOf
<1>2. CASE x \in PairsTo(f, pairs)
  <2>1. /\ x.at \in 1 .. Len(pairs) /\ KeyField(pairs[x.at].key) = f /\ f \in Setters
        /\ x.offer.key = pairs[x.at].key
    BY <1>2, PairsToIs
  <2> QED
    BY <2>1, KeyOfNoField
<1>3. CASE x \in Header(f, m, r, at)
  <2>1. Len(pairs) \in Nat
    BY LenProperties DEF FinePairs
  <2>2. x \in {Ranked(at, Scalar(None, f, m.host)), Ranked(at + 1, Scalar(None, f, Extra(r, "peer_ip"))),
               Ranked(at, Scalar(None, f, m.app))}
    BY <1>3 DEF Header
  <2>3. x.at \in {at, at + 1} /\ x.offer.key = None
    BY <2>2 DEF Ranked, Scalar
  <2> QED
    BY <2>1, <2>3, NoneIs
<1> QED
  BY <1>1, <1>2, <1>3

\* Each field reads the pairs, then the header.
LEMMA HeaderRead ==
    ASSUME NEW r, FineRecord(r), FineHeader(ParseSyslog(r["message"])), NEW b,
           FineBuilder(b), <<"invalid", None>> \notin b.derived,
           FinePairs(PairsOf(r)), \A f \in Fields : Reads(f, PairsTo(f, PairsOf(r)), b.e[f], b.derived)
    PROVE  LET m == ParseSyslog(r["message"])
               e == Set(Set(Set(b.e, "host", m.host), "host", Extra(r, "peer_ip")), "process", m.app)
           IN  FineEvent(e) /\ \A f \in Fields : Reads(f, LineOffers(f, r), e[f], b.derived)
<1> DEFINE m == ParseSyslog(r["message"])
           pairs == PairsOf(r)
           at == Len(pairs) + 1
           peer == Extra(r, "peer_ip")
           e1 == Set(b.e, "host", m.host)
           e2 == Set(e1, "host", peer)
           e3 == Set(e2, "process", m.app)
           D == b.derived
           X(f) == PairsTo(f, pairs)
<1>1. m.host \in Texts /\ m.app \in Texts /\ peer \in Texts
  BY OptionalIs, ExtraIs DEF FineHeader
<1>2. "host" \in Fields /\ "process" \in Fields /\ FineEvent(b.e)
  BY SettersAre DEF FineBuilder
<1>3. /\ FineEvent(e1) /\ e1["host"] = After("host", b.e["host"], m.host)
      /\ \A g \in Fields : g # "host" => e1[g] = b.e[g]
  BY <1>1, <1>2, SetGives
<1> HIDE DEF e1
<1>4. /\ FineEvent(e2) /\ e2["host"] = After("host", e1["host"], peer)
      /\ \A g \in Fields : g # "host" => e2[g] = e1[g]
  BY <1>1, <1>2, <1>3, SetGives
<1> HIDE DEF e2
<1>5. /\ FineEvent(e3) /\ e3["process"] = After("process", e2["process"], m.app)
      /\ \A g \in Fields : g # "process" => e3[g] = e2[g]
  BY <1>1, <1>2, <1>4, SetGives
<1> HIDE DEF e3
<1>6. at \in Int /\ at + 1 \in Int /\ at < at + 1
  BY LenProperties DEF FinePairs
<1>7. \A f : \A x \in X(f) : x.at \in Int /\ x.at < at
  <2>1. \A f : \A x \in X(f) : x.at \in 1 .. Len(pairs)
    BY PairsToIs
  <2>2. Len(pairs) \in Nat
    BY LenProperties DEF FinePairs
  <2> QED
    BY <2>1, <2>2
<1>8. \A f : LineOffers(f, r) = X(f) \cup Header(f, m, r, at)
  BY DEF LineOffers, PairsTo, PairsOf
<1> HIDE DEF X, m, peer, at, D
<1>9. ASSUME NEW f \in Fields PROVE Reads(f, X(f), b.e[f], D)
  BY DEF X, D
<1>10. ASSUME NEW f \in Fields, f = "host" PROVE Reads(f, LineOffers(f, r), e3[f], D)
  <2> DEFINE v1 == After(f, b.e[f], m.host)
             v2 == After(f, v1, peer)
             z == Ranked(at, Scalar(None, f, m.host))
             y == Ranked(at + 1, Scalar(None, f, peer))
  <2>1. e3[f] = v2
    BY <1>3, <1>4, <1>5, <1>10
  <2>2. Reads(f, X(f) \cup {z}, v1, D)
    BY <1>1, <1>6, <1>7, <1>9, ReadsMore DEF D
  <2>3. z.at = at
    BY DEF Ranked
  <2>4. \A x \in X(f) \cup {z} : x.at \in Int /\ x.at < at + 1
    BY <1>6, <1>7, <2>3
  <2> HIDE DEF v1, z
  <2>5. Reads(f, (X(f) \cup {z}) \cup {y}, v2, D)
    BY <1>1, <1>6, <2>2, <2>4, ReadsMore DEF D
  <2>6. LineOffers(f, r) = (X(f) \cup {z}) \cup {y}
    BY <1>8, <1>10 DEF Header, z, peer
  <2> QED
    BY <2>1, <2>5, <2>6
<1>11. ASSUME NEW f \in Fields, f = "process" PROVE Reads(f, LineOffers(f, r), e3[f], D)
  <2> DEFINE v1 == After(f, b.e[f], m.app)
             z == Ranked(at, Scalar(None, f, m.app))
  <2>1. e3[f] = v1
    BY <1>3, <1>4, <1>5, <1>11
  <2>2. Reads(f, X(f) \cup {z}, v1, D)
    BY <1>1, <1>6, <1>7, <1>9, ReadsMore DEF D
  <2>3. LineOffers(f, r) = X(f) \cup {z}
    BY <1>8, <1>11 DEF Header
  <2> QED
    BY <2>1, <2>2, <2>3
<1>12. ASSUME NEW f \in Fields, f # "host", f # "process" PROVE Reads(f, LineOffers(f, r), e3[f], D)
  <2>1. Header(f, m, r, at) = {}
    BY <1>12, Zenon DEF Header
  <2>3. LineOffers(f, r) = X(f)
    BY <1>8, <2>1
  <2>2. e3[f] = b.e[f]
    BY <1>3, <1>4, <1>5, <1>12
  <2> QED
    BY <1>9, <2>2, <2>3
<1> QED
  BY <1>5, <1>10, <1>11, <1>12 DEF m, peer, e1, e2, e3, D

LEMMA ReadsOrStill ==
    ASSUME NEW f, NEW X, NEW b, ReadsOr(f, X, b), NEW c, b.derived \subseteq c.derived,
           c.e[f] = b.e[f] \/ (b.e[f] = Empty /\ f \in Implied),
           \A x \in X : <<"invalid", x.offer.key>> \in c.derived => <<"invalid", x.offer.key>> \in b.derived
    PROVE  ReadsOr(f, X, c)
<1>1. PICK v : Reads(f, X, v, b.derived) /\ (b.e[f] = v \/ (v = Empty /\ f \in Implied))
  BY DEF ReadsOr
<1>2. Reads(f, X, v, c.derived)
  BY <1>1, ReadsStill
<1> QED
  BY <1>1, <1>2 DEF ReadsOr

LEMMA LineIs ==
    ASSUME NEW r, FineRecord(r), Has(r, "message"), r["message"].kind = "line"
    PROVE  FineHeader(ParseSyslog(r["message"])) /\ FinePairs(PairsOf(r))
<1>1. FineLine(r["message"])
  BY DEF FineRecord, IsValue, Has, FineLine
<1>2. FineHeader(ParseSyslog(r["message"]))
  BY <1>1, HeaderIs
<1> QED
  BY <1>2, ParseKVIs DEF PairsOf, FineHeader

\* So does a line, with its header after its pairs.
LEMMA FromSyslogIs ==
    ASSUME NEW r, FineRecord(r), Has(r, "message"), r["message"].kind = "line", NEW s
    PROVE  LineRead(r, s, FromSyslog(r, s))
<1> DEFINE m == ParseSyslog(r["message"])
           pairs == PairsOf(r)
           traffic == \E i \in DOMAIN pairs : Apply(LowerOf, pairs[i].key) \in FirewallKeys
           read == Fill(NewBuilder, PairOffers(pairs))
           e == Set(Set(Set(read.e, "host", m.host), "host", Extra(r, "peer_ip")), "process", m.app)
           source == IF s # None THEN s ELSE IF traffic THEN "firewall" ELSE "network"
           rated == IF e["severity"] = Empty /\ m.severity # Empty
                    THEN [e EXCEPT !["severity"] = <<SyslogSeverity[m.severity[1] + 1]>>] ELSE e
           b == [read EXCEPT !.source = source, !.e = rated, !.raw = "message", !.time = m.time]
           c == ReadSenderTags(b, r)
<1>1. FromSyslog(r, s) = c
  BY DEF FromSyslog, PairsOf
<1>2. FineHeader(m) /\ FinePairs(pairs)
  BY LineIs
<1>3. /\ FineBuilder(read) /\ read.sender = {} /\ <<"invalid", None>> \notin read.derived
      /\ \A f \in Fields : Reads(f, PairsTo(f, pairs), read.e[f], read.derived)
  BY <1>2, PairsRead
<1> HIDE DEF read
<1>4. FineEvent(e) /\ \A f \in Fields : Reads(f, LineOffers(f, r), e[f], read.derived)
  BY <1>2, <1>3, HeaderRead
<1> HIDE DEF e
<1>5. /\ FineEvent(rated) /\ \A f \in Fields : f # "severity" => rated[f] = e[f]
      /\ e["severity"] # Empty => rated["severity"] = e["severity"]
  <2>1. CASE e["severity"] = Empty /\ m.severity # Empty
    <3> DEFINE v == <<SyslogSeverity[m.severity[1] + 1]>>
    <3>1. rated = [e EXCEPT !["severity"] = v]
      BY <2>1
    <3>2. PICK n \in 0 .. 7 : m.severity = <<n>>
      BY <1>2, <2>1 DEF FineHeader
    <3>3. v = <<SyslogSeverity[n + 1]>>
      BY <3>2
    <3>4. SyslogSeverity[n + 1] \in 0 .. 10
      <4>1. n = 0 \/ n = 1 \/ n = 2 \/ n = 3 \/ n = 4 \/ n = 5 \/ n = 6 \/ n = 7
        OBVIOUS
      <4> QED
        BY <4>1 DEF SyslogSeverity
    <3>5. FineField("severity", v)
      <4>1. "severity" \in DOMAIN Numbers /\ Numbers["severity"] = 0 .. 10
        BY DEF Numbers
      <4>2. "severity" \notin TextFields
        BY DEF TextFields
      <4>3. v[1] \in 0 .. 10
        BY <3>3, <3>4
      <4> QED
        BY <4>1, <4>2, <4>3 DEF FineField
    <3> HIDE DEF v, rated
    <3>6. /\ e = [f \in Fields |-> e[f]] /\ \A f \in Fields : FineField(f, e[f])
      BY <1>4 DEF FineEvent
    <3>7. "severity" \in Fields
      BY SettersAre
    <3>8. /\ rated = [f \in Fields |-> rated[f]]
          /\ \A f \in Fields : rated[f] = IF f = "severity" THEN v ELSE e[f]
      BY <3>1, <3>6, <3>7
    <3>9. FineEvent(rated)
      BY <3>5, <3>6, <3>8 DEF FineEvent
    <3> QED
      BY <2>1, <3>8, <3>9
  <2>2. CASE ~(e["severity"] = Empty /\ m.severity # Empty)
    <3>1. rated = e
      BY <2>2
    <3> QED
      BY <1>4, <3>1
  <2> QED
    BY <2>1, <2>2
<1> HIDE DEF rated, source, m
<1>6. b = [source |-> source, e |-> rated, sender |-> read.sender, derived |-> read.derived,
           raw |-> "message", time |-> m.time]
  <2>1. read = [source |-> read.source, e |-> read.e, sender |-> read.sender, derived |-> read.derived,
               raw |-> read.raw, time |-> read.time]
    BY <1>3 DEF FineBuilder
  <2>2. b = [read EXCEPT !.source = source, !.e = rated, !.raw = "message", !.time = m.time]
    OBVIOUS
  <2> HIDE DEF b
  <2> QED
    BY <2>1, <2>2
<1> HIDE DEF b
<1>7. FineBuilder(b)
  BY <1>3, <1>5, <1>6 DEF FineBuilder
<1>8. b.e = rated /\ b.derived = read.derived /\ b.sender = {} /\ b.source = source /\ b.time = m.time
  BY <1>3, <1>6
<1>9. ASSUME NEW f \in Fields PROVE ReadsOr(f, LineOffers(f, r), b)
  <2>1. Reads(f, LineOffers(f, r), e[f], b.derived)
    BY <1>4, <1>8
  <2>2. b.e[f] = e[f] \/ (e[f] = Empty /\ f \in Implied)
    BY <1>5, <1>8 DEF Implied
  <2> QED
    BY <2>1, <2>2 DEF ReadsOr
<1>10. /\ FineBuilder(c) /\ c.e = b.e /\ c.source = source /\ c.time = m.time /\ c.sender = SenderOf(r)
       /\ b.derived \subseteq c.derived /\ c.derived \subseteq b.derived \cup {<<"invalid", "_tags">>}
  BY <1>7, <1>8, SenderTagsAre
<1> HIDE DEF c
<1>11. ASSUME NEW f \in Fields PROVE ReadsOr(f, LineOffers(f, r), c)
  <2>1. ASSUME NEW x \in LineOffers(f, r), <<"invalid", x.offer.key>> \in c.derived
        PROVE  <<"invalid", x.offer.key>> \in b.derived
    <3>1. <<"invalid", x.offer.key>> # <<"invalid", "_tags">>
      BY <1>2, LineKeys
    <3> QED
      BY <1>10, <2>1, <3>1
  <2> QED
    BY <1>9, <1>10, <2>1, ReadsOrStill
<1>12. IF s # None THEN source = s ELSE source \in {"firewall", "network"}
  BY DEF source
<1>13. LineRead(r, s, c)
  BY <1>10, <1>11, <1>12 DEF LineRead, m
<1> QED
  BY <1>1, <1>13

-----------------------------------------------------------------------------
(* What a source implies.                                                  *)

LEMMA OwnText == \A w \in OwnWords : <<w>> \in Texts
BY OwnWord DEF Held

LEMMA EmptyText == Empty \in Texts
BY EmptySeq DEF Texts, Empty

LEMMA VendorIs ==
    ASSUME NEW s \in DOMAIN VendorOf
    PROVE  VendorOf[s][1] \in OwnWords /\ VendorOf[s][2] \in OwnWords
<1>1. s \in {"crowdstrike", "aws", "m365", "ad"}
  BY DEF VendorOf
<1>2. /\ VendorOf["crowdstrike"] = <<"crowdstrike", "falcon">> /\ VendorOf["aws"] = <<"aws", "cloudtrail">>
      /\ VendorOf["m365"] = <<"microsoft", "m365">> /\ VendorOf["ad"] = <<"microsoft", "windows">>
  BY DEF VendorOf
<1> QED
  BY <1>1, <1>2 DEF OwnWords

LEMMA LogonTypeIs == \A id : LogonType(id) \in Texts
<1> SUFFICES ASSUME NEW id PROVE LogonType(id) \in Texts
  OBVIOUS
<1>1. CASE \E type \in LogonTypes : id = <<type[1]>>
  <2> DEFINE type == CHOOSE type \in LogonTypes : id = <<type[1]>>
  <2>1. type \in LogonTypes
    BY <1>1
  <2>2. LogonType(id) = <<type[2]>>
    BY <1>1 DEF LogonType
  <2> HIDE DEF type
  <2>3. type[2] \in OwnWords
    BY <2>1 DEF LogonTypes, OwnWords
  <2> QED
    BY <2>2, <2>3, OwnText
<1>2. CASE ~\E type \in LogonTypes : id = <<type[1]>>
  BY <1>2, EmptyText DEF LogonType
<1> QED
  BY <1>1, <1>2

LEMMA ImpliedTypeIs ==
    ASSUME NEW r, FineRecord(r), NEW s
    PROVE  ImpliedType(s, r) \in Texts
<1>1. CloudTrail(r, "eventName") \in Texts
  <2>1. CASE /\ Has(r, "raw") /\ r["raw"].kind = "object"
             /\ Has(r["raw"].members, "eventName") /\ r["raw"].members["eventName"].kind = "string"
    <3>1. IsValue(r["raw"].members["eventName"])
      BY <2>1 DEF FineRecord, Has
    <3>2. r["raw"].members["eventName"].text \in Texts
      BY <2>1, <3>1 DEF IsValue
    <3>3. CloudTrail(r, "eventName") = r["raw"].members["eventName"].text
      BY <2>1 DEF CloudTrail
    <3> QED
      BY <3>2, <3>3
  <2>2. CASE ~(/\ Has(r, "raw") /\ r["raw"].kind = "object"
               /\ Has(r["raw"].members, "eventName") /\ r["raw"].members["eventName"].kind = "string")
    BY <2>2, EmptyText DEF CloudTrail
  <2> QED
    BY <2>1, <2>2
<1>2. ImpliedType(s, r) \in {CloudTrail(r, "eventName"), <<"traffic">>, <<"syslog">>, Empty}
  BY DEF ImpliedType
<1>3. <<"traffic">> \in Texts /\ <<"syslog">> \in Texts
  BY OwnText DEF OwnWords
<1> QED
  BY <1>1, <1>2, <1>3, EmptyText

LEMMA ImpliedActionIs == \A s, type, auth : ImpliedAction(s, type, auth) \in Texts
<1> SUFFICES ASSUME NEW s, NEW type, NEW auth PROVE ImpliedAction(s, type, auth) \in Texts
  OBVIOUS
<1>1. ImpliedAction(s, type, auth) \in {<<"login">>, <<"logout">>, <<"create">>, <<"delete">>, Empty}
  BY DEF ImpliedAction
<1>2. <<"login">> \in Texts /\ <<"logout">> \in Texts /\ <<"create">> \in Texts /\ <<"delete">> \in Texts
  BY OwnText DEF OwnWords
<1> QED
  BY <1>1, <1>2, EmptyText

\* enrich fills only fields that are empty, and only those a source implies.
LEMMA EnrichIs ==
    ASSUME NEW b, FineBuilder(b), NEW r, FineRecord(r)
    PROVE  LET c == Enrich(b, r)
           IN  /\ FineBuilder(c) /\ SameRest(b, c) /\ b.derived \subseteq c.derived
               /\ c.derived \subseteq b.derived \cup {<<"auth", "success">>, <<"auth", "failure">>}
               /\ \A f \in Fields : c.e[f] = b.e[f] \/ (b.e[f] = Empty /\ f \in Implied)
<1> DEFINE vendor == IF b.source \in DOMAIN VendorOf THEN <<VendorOf[b.source][1]>> ELSE Empty
           product == IF b.source \in DOMAIN VendorOf THEN <<VendorOf[b.source][2]>> ELSE Empty
           subtype == IF b.source = "ad" THEN LogonType(Extra(r, "logon_type")) ELSE Empty
           e1 == Set(b.e, "vendor", vendor)
           e2 == Set(e1, "product", product)
           e3 == Set(e2, "event_type", ImpliedType(b.source, r))
           named == Set(e3, "event_subtype", subtype)
           auth == Auth(b.source, named["event_type"], r)
           action == ImpliedAction(b.source, named["event_type"], auth)
           e == Set(named, "action", action)
           derived == IF auth \in {"success", "failure"} THEN b.derived \cup {<<"auth", auth>>} ELSE b.derived
           c == Enrich(b, r)
           Fills(x, y, f) == \A g \in Fields : y[g] = x[g] \/ (x[g] = Empty /\ g = f)
<1>1. vendor \in Texts /\ product \in Texts
  BY VendorIs, OwnText, EmptyText
<1>2. subtype \in Texts
  BY LogonTypeIs, EmptyText
<1>3. ImpliedType(b.source, r) \in Texts /\ action \in Texts
  BY ImpliedTypeIs, ImpliedActionIs
<1>4. ASSUME NEW x, FineEvent(x), NEW f \in Fields, NEW t \in Texts
      PROVE  FineEvent(Set(x, f, t)) /\ Fills(x, Set(x, f, t), f)
  BY <1>4, SetIs
<1>5. {"vendor", "product", "event_type", "event_subtype", "action"} \subseteq Fields
  BY SettersAre
<1>6. c = [b EXCEPT !.e = e, !.derived = derived]
  BY DEF Enrich
<1> HIDE DEF vendor, product, subtype, action, derived, c
<1>7. FineEvent(e1) /\ Fills(b.e, e1, "vendor")
  BY <1>1, <1>4, <1>5 DEF FineBuilder
<1> HIDE DEF e1
<1>8. FineEvent(e2) /\ Fills(e1, e2, "product")
  BY <1>1, <1>4, <1>5, <1>7
<1> HIDE DEF e2
<1>9. FineEvent(e3) /\ Fills(e2, e3, "event_type")
  BY <1>3, <1>4, <1>5, <1>8
<1> HIDE DEF e3
<1>10. FineEvent(named) /\ Fills(e3, named, "event_subtype")
  BY <1>2, <1>4, <1>5, <1>9
<1> HIDE DEF named
<1>11. FineEvent(e) /\ Fills(named, e, "action")
  BY <1>3, <1>4, <1>5, <1>10
<1> HIDE DEF e
<1>12. c = [source |-> b.source, e |-> e, sender |-> b.sender, derived |-> derived,
            raw |-> b.raw, time |-> b.time]
  BY <1>6 DEF FineBuilder
<1>13. /\ b.derived \subseteq derived
       /\ derived \subseteq b.derived \cup {<<"auth", "success">>, <<"auth", "failure">>}
  BY DEF derived
<1>14. FineBuilder(c)
  BY <1>11, <1>12, <1>13 DEF FineBuilder, DerivedTag
<1>15. \A f \in Fields : e[f] = b.e[f] \/ (b.e[f] = Empty /\ f \in Implied)
  BY <1>7, <1>8, <1>9, <1>10, <1>11 DEF Implied
<1> QED
  BY <1>12, <1>13, <1>14, <1>15 DEF SameRest, c

-----------------------------------------------------------------------------
(* Tags and times.                                                         *)

\* Every tag of an event is one of the sender's that can be stored, or derived.
LEMMA TagsAre ==
    ASSUME NEW sender, sender \subseteq Texts, NEW derived
    PROVE  /\ \A t \in AssembleTags(sender, derived) :
                \/ t \in {Clean(x) : x \in sender} /\ t # Empty /\ Held(t) /\ ~TooLong(t)
                \/ t \in derived
                \/ t = <<"invalid", "_tags">>
           /\ derived \subseteq AssembleTags(sender, derived)
<1>1. \A x \in sender : Held(Clean(x))
  BY CleanIs
<1> QED
  BY <1>1 DEF AssembleTags

LEMMA TimesInIs ==
    ASSUME NEW t
    PROVE  TimesIn(t) = Empty \/ \E x : TimesIn(t) = <<x>>
BY DEF TimesIn

LEMMA Few ==
    ASSUME NEW t, t = Empty \/ \E x : t = <<x>>, NEW S, t[1] \in S
    PROVE  t \in Seq(S)
<1>1. CASE t = Empty
  BY <1>1, EmptySeq DEF Empty
<1>2. ASSUME NEW x, t = <<x>> PROVE t \in Seq(S)
  <2>1. t[1] = x
    BY <1>2
  <2> QED
    BY <1>2, <2>1, Word
<1> QED
  BY <1>1, <1>2

LEMMA FirstStays ==
    ASSUME NEW S, NEW s \in Seq(S), NEW t \in Seq(S), s # <<>>
    PROVE  (s \o t)[1] = s[1] /\ s \o t # <<>> /\ s \o t \in Seq(S)
<1>1. Len(s) \in Nat \ {0} /\ Len(t) \in Nat
  BY EmptySeq, LenProperties
<1>2. /\ s \o t \in Seq(S) /\ Len(s \o t) = Len(s) + Len(t)
      /\ \A i \in 1 .. Len(s) + Len(t) : (s \o t)[i] = IF i <= Len(s) THEN s[i] ELSE t[i - Len(s)]
  BY ConcatProperties
<1>3. 1 \in 1 .. Len(s) + Len(t) /\ 1 <= Len(s)
  BY <1>1
<1>4. Len(s \o t) # 0
  BY <1>1, <1>2
<1>5. s \o t # <<>>
  BY <1>4
<1> QED
  BY <1>2, <1>3, <1>5

\* The first time a record states is its own or its header's, if there is one.
LEMMA StatedIs ==
    ASSUME NEW r, NEW line, line = Empty \/ \E x : line = <<x>>,
           TimesIn(Extra(r, "@timestamp")) \o line # <<>>
    PROVE  Stated(r, line)[1] = (TimesIn(Extra(r, "@timestamp")) \o line)[1]
<1> DEFINE own == TimesIn(Extra(r, "@timestamp"))
           received == TimesIn(Extra(r, "received_at"))
           S == {own[1], line[1], received[1], 0}
<1>1. own \in Seq(S) /\ line \in Seq(S) /\ received \in Seq(S)
  <2>1. own = Empty \/ \E x : own = <<x>>
    BY TimesInIs
  <2>2. received = Empty \/ \E x : received = <<x>>
    BY TimesInIs
  <2>3. own[1] \in S /\ line[1] \in S /\ received[1] \in S
    OBVIOUS
  <2> HIDE DEF own, received, S
  <2> QED
    BY <2>1, <2>2, <2>3, Few
<1>2. <<0>> \in Seq(S)
  BY Word
<1>3. Stated(r, line) = ((own \o line) \o received) \o <<0>>
  BY DEF Stated
<1>4. own \o line # <<>>
  OBVIOUS
<1> HIDE DEF own, received, S
<1>5. own \o line \in Seq(S)
  BY <1>1, ConcatProperties
<1> DEFINE s == own \o line
<1>6. /\ (s \o received)[1] = s[1] /\ s \o received # <<>> /\ s \o received \in Seq(S)
  BY <1>1, <1>4, <1>5, FirstStays
<1> HIDE DEF s
<1>7. ((s \o received) \o <<0>>)[1] = (s \o received)[1]
  BY <1>2, <1>6, FirstStays
<1> QED
  BY <1>3, <1>6, <1>7 DEF s, own

-----------------------------------------------------------------------------
(* The event.                                                              *)

OffersOf(in, f) ==
    IF IsSyslog(in.record, SourceName(in)) THEN LineOffers(f, in.record) ELSE RecordOffers(f, in.record)

\* What an event is made of.
MadeOf(in, b) ==
    /\ FineBuilder(b) /\ b.source \in Sources /\ b.sender = SenderOf(in.record)
    /\ b.time = IF IsSyslog(in.record, SourceName(in)) THEN ParseSyslog(in.record["message"]).time ELSE Empty
    /\ b.time = Empty \/ \E x : b.time = <<x>>
    /\ \A f \in Fields : ReadsOr(f, OffersOf(in, f), b)
    /\ Event(in) =
        [code |-> "ok", tenant |-> Tenant(in)[1], source |-> b.source, raw |-> b.raw,
         e |-> [f \in Fields |-> Stored(b.e, f)], ts |-> Timestamp(in.record, b.time),
         tags |-> AssembleTags(b.sender, b.derived \cup TimeTags(in.record, b.time))]

LEMMA OfferKeys ==
    ASSUME NEW r, FineRecord(r), NEW s, NEW f \in Fields,
           NEW x, x \in IF IsSyslog(r, s) THEN LineOffers(f, r) ELSE RecordOffers(f, r)
    PROVE  x.offer.key \notin {"_tags", "timestamp"} /\ x.at \in Int
<1>1. CASE IsSyslog(r, s)
  <2>1. FinePairs(PairsOf(r))
    BY <1>1, LineIs DEF IsSyslog
  <2> QED
    BY <1>1, <2>1, LineKeys
<1>2. CASE ~IsSyslog(r, s)
  <2>1. x \in RecordOffers(f, r)
    BY <1>2
  <2>2. x.offer.key \in Setters \cup {"ip", "cloud.account_id", "cloud.region", "cloud.service"} /\ x.at \in 1 .. 2
    BY <2>1, RecordKeys, SettersAre DEF CloudNames
  <2> QED
    BY <2>2, SettersAre
<1> QED
  BY <1>1, <1>2

\* Every input of a known source has such a builder.
LEMMA EventIs ==
    ASSUME NEW in \in Inputs, SourceKnown(in)
    PROVE  FineRecord(in.record) /\ \E b : MadeOf(in, b)
<1> DEFINE r == in.record
           s == SourceName(in)
           a == IF IsSyslog(r, s) THEN FromSyslog(r, s) ELSE FromJSON(r, s)
           b == Enrich(a, r)
<1>1. FineRecord(r)
  BY InputAssumption DEF FineRecord
<1>2. \/ (Source(in) = Empty /\ s = None /\ IsSyslog(r, s))
      \/ (Source(in) # Empty /\ s \in Sources)
  <2>1. CASE Source(in) = Empty
    BY <2>1 DEF SourceKnown, SourceName
  <2>2. CASE Source(in) # Empty
    BY <2>2 DEF SourceKnown, SourceName, One
  <2> QED
    BY <2>1, <2>2
<1>3. /\ FineBuilder(a) /\ a.source \in Sources /\ a.sender = SenderOf(r)
      /\ a.time = IF IsSyslog(r, s) THEN ParseSyslog(r["message"]).time ELSE Empty
      /\ a.time = Empty \/ \E x : a.time = <<x>>
      /\ \A f \in Fields : ReadsOr(f, OffersOf(in, f), a)
  <2>1. CASE IsSyslog(r, s)
    <3>1. Has(r, "message") /\ r["message"].kind = "line" /\ a = FromSyslog(r, s)
      BY <2>1 DEF IsSyslog
    <3> HIDE DEF a, r, s
    <3>2. LineRead(r, s, a) /\ FineHeader(ParseSyslog(r["message"]))
      BY <1>1, <3>1, FromSyslogIs, LineIs
    <3>3. a.source \in Sources
      <4>1. {"firewall", "network"} \subseteq Sources
        BY DEF Sources
      <4> QED
        BY <1>2, <3>2, <4>1, NoneIs DEF LineRead
    <3>4. a.time = ParseSyslog(r["message"]).time
      BY <3>2 DEF LineRead
    <3>5. \A f \in Fields : OffersOf(in, f) = LineOffers(f, r)
      BY <2>1 DEF OffersOf, r, s
    <3> QED
      BY <2>1, <3>2, <3>3, <3>4, <3>5 DEF LineRead, FineHeader
  <2>2. CASE ~IsSyslog(r, s)
    <3>1. a = FromJSON(r, s)
      BY <2>2
    <3> HIDE DEF a, r, s
    <3>2. RecordRead(r, s, a) /\ a.sender = SenderOf(r)
      BY <1>1, <3>1, FromJsonIs
    <3>3. a.source \in Sources
      BY <1>2, <2>2, <3>2 DEF RecordRead
    <3>4. \A f \in Fields : OffersOf(in, f) = RecordOffers(f, r)
      BY <2>2 DEF OffersOf, r, s
    <3>5. \A f \in Fields : ReadsOr(f, OffersOf(in, f), a)
      BY <3>2, <3>4 DEF RecordRead, ReadsOr
    <3> QED
      BY <2>2, <3>2, <3>3, <3>5 DEF RecordRead
  <2> QED
    BY <2>1, <2>2
<1> HIDE DEF a
<1>4. /\ FineBuilder(b) /\ SameRest(a, b) /\ a.derived \subseteq b.derived
      /\ b.derived \subseteq a.derived \cup {<<"auth", "success">>, <<"auth", "failure">>}
      /\ \A f \in Fields : b.e[f] = a.e[f] \/ (a.e[f] = Empty /\ f \in Implied)
  BY <1>1, <1>3, EnrichIs
<1>5. Event(in) =
        [code |-> "ok", tenant |-> Tenant(in)[1], source |-> b.source, raw |-> b.raw,
         e |-> [f \in Fields |-> Stored(b.e, f)], ts |-> Timestamp(in.record, b.time),
         tags |-> AssembleTags(b.sender, b.derived \cup TimeTags(in.record, b.time))]
  BY DEF Event, a
<1> HIDE DEF b
<1>6. ASSUME NEW f \in Fields PROVE ReadsOr(f, OffersOf(in, f), b)
  <2>1. \A key : <<"invalid", key>> \in b.derived => <<"invalid", key>> \in a.derived
    BY <1>4
  <2> QED
    BY <1>3, <1>4, <2>1, ReadsOrStill
<1>7. MadeOf(in, b)
  <2>1. b.source = a.source /\ b.sender = a.sender /\ b.time = a.time
    BY <1>4 DEF SameRest
  <2> QED
    BY <1>3, <1>4, <1>5, <1>6, <2>1 DEF MadeOf
<1> QED
  BY <1>1, <1>7

-----------------------------------------------------------------------------
(* What becomes of an input.                                               *)

NormalizerInv ==
    /\ input \in Inputs
    /\ outcome \in {Pending, Rejected("invalid_parameter"), Normalize(input)}

\* The input stays, and the outcome is what Normalize makes of it.
LEMMA InputKept == NormalizerSpec => []NormalizerInv
<1>1. NormalizerInit => NormalizerInv
  BY DEF NormalizerInit, NormalizerInv
<1>2. NormalizerInv /\ [NormalizerNext]_normalizerVars => NormalizerInv'
  <2> SUFFICES ASSUME NormalizerInv, [NormalizerNext]_normalizerVars PROVE NormalizerInv'
    OBVIOUS
  <2>1. CASE Refuse
    BY <2>1 DEF Refuse, NormalizerInv
  <2>2. CASE Read
    BY <2>2 DEF Read, NormalizerInv
  <2>3. CASE UNCHANGED normalizerVars
    BY <2>3 DEF normalizerVars, NormalizerInv
  <2> QED
    BY <2>1, <2>2, <2>3 DEF NormalizerNext
<1> QED
  BY <1>1, <1>2, PTL DEF NormalizerSpec

\* What is accepted is the event of a tenant and a source that are known.
LEMMA AcceptedIs ==
    ASSUME NormalizerInv, Accepted
    PROVE  outcome = Event(input) /\ TenantKnown(input) /\ SourceKnown(input)
<1>1. outcome = Normalize(input)
  BY DEF NormalizerInv, Accepted, Pending, Rejected
<1> QED
  BY <1>1 DEF Accepted, Normalize, Rejected

\* What is refused has a tenant or a source that is not known.
LEMMA RefusedIs ==
    ASSUME NormalizerInv, outcome.code \notin {"ok", "pending", "invalid_parameter"}
    PROVE  ~TenantKnown(input) \/ ~SourceKnown(input)
<1>1. outcome = Normalize(input)
  BY DEF NormalizerInv, Pending, Rejected
<1> SUFFICES ASSUME TenantKnown(input), SourceKnown(input) PROVE FALSE
  OBVIOUS
<1>2. Tenant(input) # Empty
  <2>1. Len(Tenant(input)) = 1
    BY DEF TenantKnown, One
  <2>2. Len(Empty) = 0
    BY DEF Empty
  <2> QED
    BY <2>1, <2>2
<1>3. outcome = Event(input)
  BY <1>1, <1>2 DEF Normalize, TenantKnown
<1>4. Event(input).code = "ok"
  BY DEF Event
<1> QED
  BY <1>3, <1>4

\* What an event is made of, by the names the properties give it.
LEMMA EventOf ==
    ASSUME NormalizerInv, Accepted
    PROVE  \E b :
        /\ MadeOf(input, b) /\ FineRecord(input.record)
        /\ outcome.e = [f \in Fields |-> Stored(b.e, f)]
        /\ outcome.tenant \in TenantIds /\ outcome.source \in Sources
        /\ outcome.ts = Timestamp(input.record, b.time)
        /\ outcome.tags = AssembleTags(b.sender, b.derived \cup TimeTags(input.record, b.time))
        /\ b.sender \subseteq Texts /\ SendersTags = {Clean(t) : t \in b.sender}
        /\ \A f : Offers(f) = OffersOf(input, f)
        /\ b.time = IF Syslog THEN ParseSyslog(input.record["message"]).time ELSE Empty
<1>1. input \in Inputs /\ outcome = Event(input) /\ TenantKnown(input) /\ SourceKnown(input)
  BY AcceptedIs DEF NormalizerInv
<1>2. PICK b : MadeOf(input, b) /\ FineRecord(input.record)
  BY <1>1, EventIs
<1>3. Event(input) =
        [code |-> "ok", tenant |-> Tenant(input)[1], source |-> b.source, raw |-> b.raw,
         e |-> [f \in Fields |-> Stored(b.e, f)], ts |-> Timestamp(input.record, b.time),
         tags |-> AssembleTags(b.sender, b.derived \cup TimeTags(input.record, b.time))]
  BY <1>2 DEF MadeOf
<1>4. b.source \in Sources /\ b.sender = SenderOf(input.record)
  BY <1>2 DEF MadeOf
<1>5. b.sender \subseteq Texts
  BY <1>2, <1>4 DEF SenderOf, FineRecord, IsValue, Has
<1>6. SendersTags = {Clean(t) : t \in b.sender}
  BY <1>4 DEF SendersTags, SenderOf
<1>7. \A f : Offers(f) = OffersOf(input, f)
  BY DEF Offers, OffersOf, Syslog
<1>8. b.time = IF Syslog THEN ParseSyslog(input.record["message"]).time ELSE Empty
  BY <1>2 DEF MadeOf, Syslog
<1>9. Tenant(input)[1] \in TenantIds
  BY <1>1 DEF TenantKnown, One
<1>10. /\ outcome.e = [f \in Fields |-> Stored(b.e, f)]
       /\ outcome.tenant = Tenant(input)[1] /\ outcome.source = b.source
       /\ outcome.ts = Timestamp(input.record, b.time)
       /\ outcome.tags = AssembleTags(b.sender, b.derived \cup TimeTags(input.record, b.time))
  BY <1>1, <1>3
<1> QED
  BY <1>2, <1>4, <1>5, <1>6, <1>7, <1>8, <1>9, <1>10

\* Every tag is the sender's, and can be stored, or one of the code's own.
LEMMA TagOfEvent ==
    ASSUME NormalizerInv, Accepted, NEW b, MadeOf(input, b),
           outcome.tags = AssembleTags(b.sender, b.derived \cup TimeTags(input.record, b.time)),
           b.sender \subseteq Texts, SendersTags = {Clean(t) : t \in b.sender}, NEW t \in outcome.tags
    PROVE  \/ t \in SendersTags /\ t # Empty /\ Held(t) /\ ~TooLong(t)
           \/ t \in b.derived /\ (\E key : t = <<"invalid", key>>)
           \/ t \in {<<"auth", "success">>, <<"auth", "failure">>}
           \/ t = <<"invalid", "timestamp">>
           \/ t = <<"rebased", "timestamp">> /\ t \in TimeTags(input.record, b.time)
           \/ t = <<"invalid", "_tags">>
<1> DEFINE D == b.derived \cup TimeTags(input.record, b.time)
<1>1. (t \in SendersTags /\ t # Empty /\ Held(t) /\ ~TooLong(t)) \/ t \in D \/ t = <<"invalid", "_tags">>
  <2> HIDE DEF D
  <2>1. t \in AssembleTags(b.sender, D)
    BY DEF D
  <2> QED
    BY <2>1, TagsAre
<1>2. CASE t \in b.derived
  BY <1>2 DEF MadeOf, FineBuilder, DerivedTag
<1>3. CASE t \in TimeTags(input.record, b.time)
  BY <1>3 DEF TimeTags
<1> QED
  BY <1>1, <1>2, <1>3

-----------------------------------------------------------------------------
(* Nothing is accepted that cannot be stored, and nothing rejected that can. *)

\* An action stays a text that can be held, but perhaps not a short one; every
\* other field is as it was set.
LEMMA StoredIs ==
    ASSUME NEW e, FineEvent(e), NEW f \in Fields
    PROVE  /\ f \in TextFields => Held(Stored(e, f))
           /\ f # "action" => FineField(f, Stored(e, f)) /\ Stored(e, f) = e[f]
<1>1. FineField(f, e[f])
  BY DEF FineEvent
<1>2. CASE f = "action"
  <2>1. f \in TextFields /\ f \notin DOMAIN Numbers
    BY <1>2, Kinds DEF TextFields
  <2> QED
    BY <1>1, <1>2, <2>1, ActionHolds DEF FineField, Stored
<1>3. CASE f # "action"
  BY <1>1, <1>3 DEF FineField, Stored
<1> QED
  BY <1>2, <1>3

\* The fields of an event are within the limits of the table.
LEMMA EventStored ==
    ASSUME NormalizerInv, Accepted
    PROVE  /\ outcome.tenant \in TenantIds /\ outcome.source \in Sources
           /\ \A f \in TextFields : outcome.e[f] = Clean(outcome.e[f])
           /\ \A f \in TextFields \ {"action"} : ~TooLong(outcome.e[f])
           /\ \A f \in DOMAIN Numbers : outcome.e[f] = Empty \/ outcome.e[f][1] \in Numbers[f]
<1>1. PICK b : /\ MadeOf(input, b)
               /\ outcome.e = [f \in Fields |-> Stored(b.e, f)]
               /\ outcome.tenant \in TenantIds /\ outcome.source \in Sources
  BY EventOf
<1>2. FineEvent(b.e)
  BY <1>1 DEF MadeOf, FineBuilder
<1>3. \A f \in Fields : /\ f \in TextFields => Held(outcome.e[f])
                        /\ f # "action" => FineField(f, outcome.e[f])
  BY <1>1, <1>2, StoredIs
<1>4. ASSUME NEW f \in TextFields PROVE outcome.e[f] = Clean(outcome.e[f])
  <2>1. Held(outcome.e[f])
    BY <1>3, Kinds
  <2> QED
    BY <2>1, HeldStays
<1>5. ASSUME NEW f \in TextFields \ {"action"} PROVE ~TooLong(outcome.e[f])
  BY <1>3, Kinds DEF FineField
<1>6. ASSUME NEW f \in DOMAIN Numbers PROVE outcome.e[f] = Empty \/ outcome.e[f][1] \in Numbers[f]
  <2>1. "action" \in TextFields
    BY DEF TextFields
  <2>2. f \in Fields /\ f # "action"
    BY <2>1, Kinds
  <2> QED
    BY <1>3, <2>2 DEF FineField
<1> QED
  BY <1>1, <1>4, <1>5, <1>6

LEMMA TwoWords ==
    ASSUME NEW v, NEW w, v \notin Long, w \notin Long
    PROVE  ~TooLong(<<v, w>>)
BY DEF TooLong

\* Its tags are, but for those that quote a key.
LEMMA TagsStored ==
    ASSUME NormalizerInv, Accepted
    PROVE  \A t \in outcome.tags : t # Empty /\ (t[1] \notin {"invalid"} => ~TooLong(t))
<1> SUFFICES ASSUME NEW t \in outcome.tags PROVE t # Empty /\ (t[1] \notin {"invalid"} => ~TooLong(t))
  OBVIOUS
<1>1. PICK b : /\ MadeOf(input, b) /\ b.sender \subseteq Texts
               /\ outcome.tags = AssembleTags(b.sender, b.derived \cup TimeTags(input.record, b.time))
               /\ SendersTags = {Clean(x) : x \in b.sender}
  BY EventOf
<1>2. \/ t \in SendersTags /\ t # Empty /\ Held(t) /\ ~TooLong(t)
      \/ t \in b.derived /\ (\E key : t = <<"invalid", key>>)
      \/ t \in {<<"auth", "success">>, <<"auth", "failure">>}
      \/ t = <<"invalid", "timestamp">>
      \/ t = <<"rebased", "timestamp">> /\ t \in TimeTags(input.record, b.time)
      \/ t = <<"invalid", "_tags">>
  BY <1>1, TagOfEvent
<1>3. \A v, w : <<v, w>> # Empty /\ <<v, w>>[1] = v
  BY DEF Empty
<1>4. {"auth", "success", "failure", "rebased", "timestamp"} \cap Long = {}
  BY TableAssumption DEF OwnWords
<1>5. ~TooLong(<<"auth", "success">>) /\ ~TooLong(<<"auth", "failure">>) /\ ~TooLong(<<"rebased", "timestamp">>)
  BY <1>4, TwoWords
<1> QED
  BY <1>2, <1>3, <1>5

\* Its time is in a partition that is kept, and is the best its record states.
LEMMA TimeStored ==
    ASSUME NormalizerInv, Accepted
    PROVE  /\ -Retention <= outcome.ts /\ outcome.ts <= FutureSkew
           /\ <<"rebased", "timestamp">> \in outcome.tags \ SendersTags => outcome.ts = 0
           /\ LET own == TimesIn(Extra(input.record, "@timestamp"))
                  line == IF Syslog THEN ParseSyslog(input.record["message"]).time ELSE Empty
                  stated == own \o line
              IN  stated # <<>> => outcome.ts = stated[1] \/ <<"rebased", "timestamp">> \in outcome.tags
<1>1. PICK b : /\ MadeOf(input, b) /\ b.sender \subseteq Texts
               /\ outcome.ts = Timestamp(input.record, b.time)
               /\ outcome.tags = AssembleTags(b.sender, b.derived \cup TimeTags(input.record, b.time))
               /\ SendersTags = {Clean(x) : x \in b.sender}
               /\ b.time = IF Syslog THEN ParseSyslog(input.record["message"]).time ELSE Empty
  BY EventOf
<1> DEFINE t == <<"rebased", "timestamp">>
           best == Stated(input.record, b.time)[1]
<1>2. Retention \in Nat /\ FutureSkew \in Nat
  BY TableAssumption
<1>3. outcome.ts = IF InWindow(best) THEN best ELSE 0
  BY <1>1 DEF Timestamp
<1>4. -Retention <= outcome.ts /\ outcome.ts <= FutureSkew
  BY <1>2, <1>3 DEF InWindow
<1>5. t \in TimeTags(input.record, b.time) <=> ~InWindow(best)
  BY DEF TimeTags
<1>6. b.derived \cup TimeTags(input.record, b.time) \subseteq outcome.tags
  BY <1>1, TagsAre
<1>7. ASSUME t \in outcome.tags \ SendersTags PROVE outcome.ts = 0
  <2>1. t \in TimeTags(input.record, b.time)
    <3>1. t # <<"auth", "success">> /\ t # <<"auth", "failure">> /\ \A key : t # <<"invalid", key>>
      OBVIOUS
    <3> HIDE DEF t
    <3> QED
      BY <1>1, <1>7, <3>1, TagOfEvent
  <2> QED
    BY <1>3, <1>5, <2>1
<1>8. ASSUME TimesIn(Extra(input.record, "@timestamp")) \o b.time # <<>>
      PROVE  outcome.ts = (TimesIn(Extra(input.record, "@timestamp")) \o b.time)[1] \/ t \in outcome.tags
  <2>1. best = (TimesIn(Extra(input.record, "@timestamp")) \o b.time)[1]
    BY <1>1, <1>8, StatedIs DEF MadeOf
  <2> QED
    BY <1>3, <1>5, <1>6, <2>1
<1> QED
  BY <1>1, <1>4, <1>7, <1>8

\* A record is rejected only for its tenant or its source.
LEMMA RefusedStored ==
    ASSUME NormalizerInv, outcome.code \notin {"ok", "pending", "invalid_parameter"}
    PROVE  \/ Foreign(input.record, "tenant") \/ Foreign(input.record, "source")
           \/ ~One(Tenant(input), TenantIds)
           \/ ~One(Source(input), Sources) /\ (Source(input) # Empty \/ ~IsSyslog(input.record, None))
BY RefusedIs DEF TenantKnown, SourceKnown, One, Empty

\* "Only a record that cannot be stored at all is rejected" (normalize.go:6),
\* and the database has no reason to refuse what is accepted: for every record,
\* also one whose action is over maxText in lower case.
THEOREM AcceptedIsStorable == NormalizerSpec => []Storable
<1>1. NormalizerInv => Storable
  BY EventStored, TagsStored, TimeStored, RefusedStored DEF Storable
<1> QED
  BY <1>1, InputKept, PTL

-----------------------------------------------------------------------------
(* A filter spelled as the sender or the table spells it.                  *)

LEMMA MemberText ==
    ASSUME NEW r, \A key \in DOMAIN r : IsValue(r[key]), NEW key, NEW name, NEW at,
           NEW x \in Told(r, key, name, at), x.offer.scalar
    PROVE  x.offer.text \in Texts
<1>1. Has(r, key) /\ x = Ranked(at, IF r[key].kind \in Scalars THEN Scalar(name, name, r[key].text)
                                    ELSE Unusable(name, name))
  BY DEF Told
<1>2. CASE r[key].kind \in Scalars
  <2>1. x.offer.text = r[key].text
    BY <1>1, <1>2 DEF Ranked, Scalar
  <2> QED
    BY <1>1, <1>2, <2>1 DEF Has, IsValue, Scalars
<1>3. CASE r[key].kind \notin Scalars
  BY <1>1, <1>3 DEF Ranked, Unusable
<1> QED
  BY <1>2, <1>3

\* Every value on offer to a field is a text.
LEMMA OfferedText ==
    ASSUME NEW in, FineRecord(in.record), NEW f, NEW x \in OffersOf(in, f), x.offer.scalar
    PROVE  x.offer.text \in Texts
<1> DEFINE r == in.record
<1>1. CASE IsSyslog(r, SourceName(in))
  <2> DEFINE m == ParseSyslog(r["message"])
             at == Len(PairsOf(r)) + 1
  <2>1. FineHeader(m) /\ FinePairs(PairsOf(r))
    BY <1>1, LineIs DEF IsSyslog
  <2>2. x \in LineOffers(f, r)
    BY <1>1 DEF OffersOf
  <2>3. x \in PairsTo(f, PairsOf(r)) \/ x \in Header(f, m, r, at)
    BY <2>2 DEF LineOffers, PairsTo, PairsOf
  <2>4. CASE x \in PairsTo(f, PairsOf(r))
    <3>1. x.at \in 1 .. Len(PairsOf(r)) /\ x.offer.text = PairsOf(r)[x.at].text
      BY <2>1, <2>4, PairsToIs
    <3> QED
      BY <2>1, <3>1, PairOffersAre
  <2>5. CASE x \in Header(f, m, r, at)
    <3>1. m.host \in Texts /\ m.app \in Texts /\ Extra(r, "peer_ip") \in Texts
      BY <2>1, OptionalIs, ExtraIs DEF FineHeader
    <3> HIDE DEF m, at
    <3>2. x \in {Ranked(at, Scalar(None, f, m.host)), Ranked(at + 1, Scalar(None, f, Extra(r, "peer_ip"))),
                 Ranked(at, Scalar(None, f, m.app))}
      BY <2>5 DEF Header
    <3>3. x.offer.text \in {m.host, m.app, Extra(r, "peer_ip")}
      BY <3>2 DEF Ranked, Scalar
    <3> QED
      BY <3>1, <3>3
  <2> QED
    BY <2>3, <2>4, <2>5
<1>2. CASE ~IsSyslog(r, SourceName(in))
  <2>1. x \in RecordOffers(f, r)
    BY <1>2 DEF OffersOf
  <2>2. CASE f \in Setters
    <3>1. x \in Told(r, f, f, 1) \/ x \in Told(r, "ip", "ip", 2)
      BY <2>1, <2>2 DEF RecordOffers
    <3> QED
      BY <3>1, MemberText DEF FineRecord
  <2>3. CASE f \notin Setters
    <3> DEFINE m == CHOOSE y \in DOMAIN CloudFields : CloudFields[y] = f
    <3>1. Has(r, "cloud") /\ r["cloud"].kind = "object" /\ x \in Told(r["cloud"].members, m, CloudKeys[m], 1)
      BY <2>1, <2>3 DEF RecordOffers
    <3> HIDE DEF m
    <3>2. \A key \in DOMAIN r["cloud"].members : IsValue(r["cloud"].members[key])
      BY <3>1 DEF FineRecord, Has
    <3> QED
      BY <3>1, <3>2, MemberText
  <2> QED
    BY <2>2, <2>3
<1> QED
  BY <1>1, <1>2

\* What the table can hold is stored as it is spelt, but for blanks around it.
LEMMA CleanAsSpelt ==
    ASSUME NEW t \in Texts, ~SearchRefuses(t)
    PROVE  Clean(t) = TrimSpace(t)
<1>1. /\ TrimSpace(t) \in Texts
      /\ \A i \in 1 .. Len(TrimSpace(t)) : \E j \in 1 .. Len(t) : TrimSpace(t)[i] = t[j]
  BY TrimIs
<1>2. DOMAIN t = 1 .. Len(t)
  BY LenProperties DEF Texts
<1>3. \A i \in 1 .. Len(TrimSpace(t)) : TrimSpace(t)[i] \notin DOMAIN CleanOf
  BY <1>1, <1>2 DEF SearchRefuses
<1> QED
  BY <1>1, <1>3, EachIs, Tables DEF Clean

\* A filter of what can be held is left as it is, and no search refuses it.
LEMMA HeldNotRefused ==
    ASSUME NEW t, Held(t)
    PROVE  TrimSpace(t) = t /\ ~SearchRefuses(t)
<1>1. DOMAIN t = 1 .. Len(t)
  BY LenProperties DEF Held, Texts
<1> QED
  BY <1>1, TrimmedStays DEF Held, SearchRefuses

\* Filters and stored values of the fields that a search compares.
Filtered == {"event_type", "action", "user", "host"}

LEMMA FilteredIs ==
    ASSUME NEW f \in Filtered
    PROVE  /\ f \in TextFields /\ f \in Fields /\ f \notin AddressFields /\ f \notin DOMAIN Numbers
           /\ f # "protocol" /\ \A t : Value(f, t) = Clean(t)
<1>1. f \in TextFields /\ f # "protocol"
  BY DEF TextFields, Filtered
<1> QED
  BY <1>1, Kinds DEF Value, Text

\* The filter that spells a stored value is that value, and is held.
LEMMA StoredFilter ==
    ASSUME NormalizerInv, Accepted, NEW f \in Filtered
    PROVE  /\ FilterOf(f, outcome.e[f]) = outcome.e[f] /\ ~SearchRefuses(outcome.e[f])
           /\ TooLong(outcome.e[f]) => f = "action"
<1>1. PICK b : MadeOf(input, b) /\ outcome.e = [g \in Fields |-> Stored(b.e, g)]
  BY EventOf
<1>2. FineEvent(b.e)
  BY <1>1 DEF MadeOf, FineBuilder
<1>3. /\ outcome.e[f] = Stored(b.e, f) /\ Held(outcome.e[f])
      /\ TooLong(outcome.e[f]) => f = "action"
  BY <1>1, <1>2, StoredIs, FilteredIs DEF FineField
<1>4. f = "action" => Lower(outcome.e[f]) = outcome.e[f]
  <2>1. Held(b.e[f])
    BY <1>2, FilteredIs DEF FineEvent, FineField
  <2> QED
    BY <1>3, <2>1, ActionHolds DEF Stored
<1> QED
  BY <1>3, <1>4, HeldNotRefused DEF FilterOf

\* "Stored text is trimmed, and source and action are lowercase, so a filter
\* spelled any other way could never match" (search.go:250): for any record, a
\* search that spells what its event holds, or what its sender sent, finds it,
\* and so does a rule, which is refused only for an action over maxText.
THEOREM StoredIsFindable == NormalizerSpec => []Findable
<1>1. ASSUME NormalizerInv PROVE Findable
  <2> SUFFICES ASSUME Accepted
               PROVE  /\ \A f \in Filtered :
                          /\ FilterOf(f, outcome.e[f]) = outcome.e[f] /\ ~SearchRefuses(outcome.e[f])
                          /\ \A x \in Offers(f) : x.offer.scalar =>
                              LET t == x.offer.text
                                  spelt == IF f = "action" THEN Lower(Value(f, t)) ELSE Value(f, t)
                              IN  outcome.e[f] = spelt /\ ~SearchRefuses(t) => FilterOf(f, t) = outcome.e[f]
                      /\ \A f \in {"event_type", "action"} :
                              RuleRefuses(f, outcome.e[f]) => f = "action" /\ TooLong(outcome.e[f])
                      /\ \A t \in outcome.tags : t[1] \notin {"invalid", "rebased", "auth"} =>
                              TrimSpace(t) = t /\ ~RuleRefuses("tags", t)
    BY DEF Findable, Filtered
  <2>1. PICK b : /\ MadeOf(input, b) /\ b.sender \subseteq Texts /\ FineRecord(input.record)
                 /\ outcome.tags = AssembleTags(b.sender, b.derived \cup TimeTags(input.record, b.time))
                 /\ SendersTags = {Clean(x) : x \in b.sender}
                 /\ \A f : Offers(f) = OffersOf(input, f)
    BY <1>1, EventOf
  <2>2. ASSUME NEW f \in Filtered, NEW x \in Offers(f), x.offer.scalar,
               outcome.e[f] = IF f = "action" THEN Lower(Value(f, x.offer.text)) ELSE Value(f, x.offer.text),
               ~SearchRefuses(x.offer.text)
        PROVE  FilterOf(f, x.offer.text) = outcome.e[f]
    <3>1. x.offer.text \in Texts
      BY <2>1, <2>2, OfferedText
    <3>2. Value(f, x.offer.text) = TrimSpace(x.offer.text)
      BY <2>2, <3>1, FilteredIs, CleanAsSpelt
    <3> QED
      BY <2>2, <3>2 DEF FilterOf
  <2>3. ASSUME NEW f \in {"event_type", "action"}, RuleRefuses(f, outcome.e[f])
        PROVE  f = "action" /\ TooLong(outcome.e[f])
    <3>1. f \in Filtered
      BY DEF Filtered
    <3> QED
      BY <1>1, <2>3, <3>1, StoredFilter DEF RuleRefuses
  <2>4. ASSUME NEW t \in outcome.tags, t[1] \notin {"invalid", "rebased", "auth"}
        PROVE  TrimSpace(t) = t /\ ~RuleRefuses("tags", t)
    <3>1. \A v, w : <<v, w>>[1] = v
      OBVIOUS
    <3>2. \/ t \in SendersTags /\ t # Empty /\ Held(t) /\ ~TooLong(t)
          \/ t \in b.derived /\ (\E key : t = <<"invalid", key>>)
          \/ t \in {<<"auth", "success">>, <<"auth", "failure">>}
          \/ t = <<"invalid", "timestamp">>
          \/ t = <<"rebased", "timestamp">> /\ t \in TimeTags(input.record, b.time)
          \/ t = <<"invalid", "_tags">>
      BY <1>1, <2>1, TagOfEvent
    <3>3. Held(t) /\ ~TooLong(t)
      BY <2>4, <3>1, <3>2
    <3> QED
      BY <3>3, HeldNotRefused DEF RuleRefuses, FilterOf
  <2> QED
    BY <1>1, <2>2, <2>3, <2>4, StoredFilter
<1> QED
  BY <1>1, InputKept, PTL

-----------------------------------------------------------------------------
(* Each field holds the first value on offer that fits.                    *)

\* A value is told as invalid in the tags of an event if it was while it was
\* read, or by the sender.
LEMMA TaggedIs ==
    ASSUME NormalizerInv, Accepted, NEW b, MadeOf(input, b),
           outcome.tags = AssembleTags(b.sender, b.derived \cup TimeTags(input.record, b.time)),
           b.sender \subseteq Texts, SendersTags = {Clean(t) : t \in b.sender},
           NEW key, key \notin {"_tags", "timestamp"}
    PROVE  /\ <<"invalid", key>> \in b.derived => Tagged(key)
           /\ Tagged(key) => <<"invalid", key>> \in b.derived \/ <<"invalid", key>> \in SendersTags
<1> DEFINE t == <<"invalid", key>>
<1>1. b.derived \subseteq outcome.tags
  BY TagsAre
<1>2. /\ t # <<"auth", "success">> /\ t # <<"auth", "failure">> /\ t # <<"rebased", "timestamp">>
      /\ t # <<"invalid", "timestamp">> /\ t # <<"invalid", "_tags">>
  OBVIOUS
<1> HIDE DEF t
<1>3. ASSUME t \in outcome.tags PROVE t \in b.derived \/ t \in SendersTags
  BY <1>2, <1>3, TagOfEvent
<1> QED
  BY <1>1, <1>3 DEF t, Tagged

\* "the first source of a value wins" (normalize.go:463), "an explicit src_ip
\* wins" (:203), "a sender's own value always wins" (sources.go:19), and what
\* does not fit is tagged (normalize.go:4): for every record.
THEOREM FirstUsableWins == NormalizerSpec => []FirstUsable
<1>1. ASSUME NormalizerInv PROVE FirstUsable
  <2> SUFFICES ASSUME Accepted, NEW f \in Fields
               PROVE  LET fitting == Fitting(f, Offers(f))
                          refused == RefusedOf(f, Offers(f))
                      IN  /\ \A x \in fitting : (\A y \in fitting : x.at <= y.at) =>
                                outcome.e[f] = Stored([outcome.e EXCEPT ![f] = Value(f, x.offer.text)], f)
                          /\ fitting = {} /\ f \notin Implied => outcome.e[f] = Empty
                          /\ \A x \in refused : x.offer.key # None => Tagged(x.offer.key)
                          /\ \A x \in Offers(f) : Tagged(x.offer.key) =>
                                \/ \E y \in refused : y.offer.key = x.offer.key
                                \/ ~x.offer.scalar
                                \/ <<"invalid", x.offer.key>> \in SendersTags
    BY DEF FirstUsable, Fitting, RefusedOf
  <2>1. PICK b : /\ MadeOf(input, b) /\ b.sender \subseteq Texts /\ FineRecord(input.record)
                 /\ outcome.e = [g \in Fields |-> Stored(b.e, g)]
                 /\ outcome.tags = AssembleTags(b.sender, b.derived \cup TimeTags(input.record, b.time))
                 /\ SendersTags = {Clean(x) : x \in b.sender}
                 /\ \A g : Offers(g) = OffersOf(input, g)
    BY <1>1, EventOf
  <2> DEFINE X == Offers(f)
  <2>2. PICK v : Reads(f, X, v, b.derived) /\ (b.e[f] = v \/ (v = Empty /\ f \in Implied))
    BY <2>1 DEF MadeOf, ReadsOr
  <2>3. \A x \in X : x.offer.key \notin {"_tags", "timestamp"}
    <3>1. \A x \in OffersOf(input, f) : x.offer.key \notin {"_tags", "timestamp"}
      BY <2>1, OfferKeys DEF OffersOf
    <3> QED
      BY <2>1, <3>1
  <2>4. \A x \in X : /\ <<"invalid", x.offer.key>> \in b.derived => Tagged(x.offer.key)
                     /\ Tagged(x.offer.key) => \/ <<"invalid", x.offer.key>> \in b.derived
                                               \/ <<"invalid", x.offer.key>> \in SendersTags
    BY <1>1, <2>1, <2>3, TaggedIs
  <2> HIDE DEF X
  <2>5. ASSUME NEW x \in Fitting(f, X), \A y \in Fitting(f, X) : x.at <= y.at
        PROVE  outcome.e[f] = Stored([outcome.e EXCEPT ![f] = Value(f, x.offer.text)], f)
    <3>1. v = Value(f, x.offer.text) /\ b.e[f] = v
      BY <2>2, <2>5 DEF Reads
    <3> DEFINE e == [outcome.e EXCEPT ![f] = Value(f, x.offer.text)]
    <3>2. e[f] = b.e[f]
      BY <2>1, <3>1
    <3> HIDE DEF e
    <3>3. Stored(e, f) = Stored(b.e, f)
      BY <3>2 DEF Stored
    <3> QED
      BY <2>1, <3>3 DEF e
  <2>6. ASSUME Fitting(f, X) = {}, f \notin Implied PROVE outcome.e[f] = Empty
    <3>1. b.e[f] = Empty /\ f # "action"
      BY <2>2, <2>6 DEF Reads, Implied
    <3> QED
      BY <2>1, <3>1 DEF Stored
  <2>7. ASSUME NEW x \in RefusedOf(f, X), x.offer.key # None PROVE Tagged(x.offer.key)
    BY <2>2, <2>4, <2>7 DEF Reads, RefusedOf
  <2>8. ASSUME NEW x \in X, Tagged(x.offer.key)
        PROVE  \/ \E y \in RefusedOf(f, X) : y.offer.key = x.offer.key
               \/ ~x.offer.scalar
               \/ <<"invalid", x.offer.key>> \in SendersTags
    BY <2>2, <2>4, <2>8 DEF Reads
  <2> QED
    BY <2>5, <2>6, <2>7, <2>8 DEF X
<1> QED
  BY <1>1, InputKept, PTL
=============================================================================
