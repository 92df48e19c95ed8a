--------------------------- MODULE LimiterProofs ---------------------------
(***************************************************************************)
(* What TLAPS proves of the sign-in limiter, for every set of keys and     *)
(* callers, every rate and every delay of a reading short of one token:    *)
(* types, the bound on allowed attempts, what the map holds, that the      *)
(* headers of an answer are true of the next one, and that the limiter     *)
(* implements a token bucket in which a late reading costs less.           *)
(***************************************************************************)
EXTENDS Limiter, TLAPS

-----------------------------------------------------------------------------
(* Arithmetic of the constants.                                            *)

\* What n allowed attempts are charged at the least.
Due(n) == n * Charge

\* A token is a whole number of units and a full bucket is worth at most a
\* minute, because Interval is rounded down (memory.go:31).
LEMMA ConstantTypes ==
    /\ Minute \in Nat /\ PerMinute \in Nat \ {0} /\ Second \in Nat \ {0}
    /\ MaxWait \in Nat /\ MaxNow \in Nat
    /\ Interval \in Nat \ {0}
    /\ Capacity \in Nat
    /\ Capacity <= Minute
    /\ Charge \in Nat \ {0}
    /\ Charge <= Interval
<1>1. /\ Minute \in Nat /\ PerMinute \in Nat \ {0} /\ Second \in Nat \ {0}
      /\ MaxWait \in Nat /\ MaxNow \in Nat
  BY LimiterAssumption
<1>2. Interval \in Int
  BY <1>1 DEF Interval
<1>3. Interval \in Nat \ {0}
  BY <1>1, <1>2, WaitAssumption
<1>4. Burst * Interval <= Minute
  BY <1>1 DEF Interval, Burst
<1>5. Capacity \in Nat
  BY <1>1, <1>3 DEF Capacity, Burst
<1>6. Charge \in Nat \ {0} /\ Charge <= Interval
  BY <1>1, <1>3, WaitAssumption DEF Charge
<1> QED
  BY <1>1, <1>3, <1>4, <1>5, <1>6 DEF Capacity

\* One attempt more costs one charge more.
LEMMA DueNext ==
    ASSUME NEW n \in Int
    PROVE  Due(n) \in Int /\ Due(n + 1) = Due(n) + Charge
BY ConstantTypes DEF Due

-----------------------------------------------------------------------------
(* The inductive invariant.                                                *)

\* When k's bucket is full again, and now at the least.
Potential(k) == IF k \in DOMAIN full THEN Later(full[k], now) ELSE now

\* Every allowed attempt is charged for: what it and those after it were
\* charged is still owed by the bucket, or has been paid by time passing.
Paid ==
    \A k \in Keys : \A i \in 1 .. Len(admitted[k]) :
        /\ admitted[k][i] <= now
        /\ admitted[k][i] + Due(Len(admitted[k]) - i + 1) <= Potential(k)

\* Every entry is later than the last sweep, and was written by its key's
\* last allowed attempt.
Fresh ==
    \A k \in DOMAIN full :
        /\ full[k] > swept
        /\ admitted[k] # <<>>
        /\ full[k] <= admitted[k][Len(admitted[k])] + Capacity

Bounded ==
    \A k \in Keys : \A i, j \in 1 .. Len(admitted[k]) :
        i <= j => Due(j - i + 1) <= Capacity + (admitted[k][j] - admitted[k][i])

IInv == TypeOK /\ Paid /\ Fresh /\ Bounded

\* What one attempt does to the map, stated without the sweep's cases.
LEMMA TakeFacts ==
    ASSUME TypeOK, NEW c \in Callers, Take(c)
    PROVE  LET k == reading[c].key
               t == reading[c].at
           IN  /\ k \in Keys /\ t \in 0 .. now /\ now - t <= MaxWait
               /\ FullAt(k, t) \in Int /\ FullAt(k, t) >= t
               /\ k \in DOMAIN full => FullAt(k, t) = Later(full[k], t)
               /\ k \notin DOMAIN full => FullAt(k, t) = t
               /\ \A x \in DOMAIN full : x \notin Kept(t) => full[x] <= t
               /\ Kept(t) \subseteq DOMAIN full
               /\ swept' \in Int /\ swept <= swept' /\ swept' <= now
               /\ \A x \in Kept(t) : full[x] > swept => full[x] > swept'
<1> DEFINE k == reading[c].key
           t == reading[c].at
<1>1. reading[c] \in [key : Keys, at : Nat] /\ t \in 0 .. now /\ now - t <= MaxWait
  BY DEF Take, TypeOK
<1>2. k \in Keys /\ t \in Nat /\ now \in Nat
  BY <1>1 DEF TypeOK
<1>3. \A x \in DOMAIN full : full[x] \in Int
  BY DEF TypeOK
<1>4. Minute \in Nat \ {0} /\ swept \in Int /\ swept <= now
  BY ConstantTypes, LimiterAssumption DEF TypeOK
<1>5. /\ Kept(t) \subseteq DOMAIN full
      /\ \A x \in DOMAIN full : x \notin Kept(t) => full[x] <= t
  BY <1>2, <1>3 DEF Kept
<1>6. swept' = IF t - swept < Minute THEN swept ELSE t
  BY DEF Take
<1>7. /\ swept' \in Int /\ swept <= swept' /\ swept' <= now
      /\ \A x \in Kept(t) : full[x] > swept => full[x] > swept'
  BY <1>1, <1>2, <1>4, <1>6 DEF Kept
<1>8. /\ FullAt(k, t) \in Int /\ FullAt(k, t) >= t
      /\ k \in DOMAIN full => FullAt(k, t) = Later(full[k], t)
      /\ k \notin DOMAIN full => FullAt(k, t) = t
  BY <1>2, <1>3, <1>5 DEF FullAt, Later
<1> QED
  BY <1>1, <1>2, <1>5, <1>7, <1>8

LEMMA TypeInit == Init => TypeOK
<1> SUFFICES ASSUME Init PROVE TypeOK
  OBVIOUS
<1>1. swept \in Int /\ swept <= now
  BY ConstantTypes DEF Init, LongAgo
<1>2. \A c \in Callers : reading[c] = Idle
  BY DEF Init
<1> QED
  BY <1>1, <1>2 DEF Init, TypeOK

LEMMA TypeStep == TypeOK /\ [Next]_vars => TypeOK'
<1> SUFFICES ASSUME TypeOK, [Next]_vars PROVE TypeOK'
  OBVIOUS
<1>1. CASE Tick
  BY <1>1, ConstantTypes, SMTT(60) DEF Tick, TypeOK
<1>2. ASSUME NEW c \in Callers, NEW k \in Keys, ReadClock(c, k) PROVE TypeOK'
  BY <1>2, ConstantTypes DEF ReadClock, TypeOK
<1>3. ASSUME NEW c \in Callers, Take(c) PROVE TypeOK'
  <2> DEFINE k == reading[c].key
             t == reading[c].at
  <2>1. /\ k \in Keys /\ t \in 0 .. now /\ FullAt(k, t) \in Int
        /\ Kept(t) \subseteq DOMAIN full /\ swept' \in Int /\ swept' <= now
    BY <1>3, TakeFacts
  <2>2. now' = now /\ reading' = [reading EXCEPT ![c] = Idle]
    BY <1>3 DEF Take
  <2>3. /\ DOMAIN full' \subseteq Keys /\ full' \in [DOMAIN full' -> Int]
        /\ \A x \in DOMAIN full' : full'[x] <= now + Capacity
    <3>1. CASE Spare(k, t) >= 0
      <4>1. full' = [x \in Kept(t) \cup {k} |->
                        IF x = k THEN FullAt(k, t) + Interval ELSE full[x]]
        BY <1>3, <3>1 DEF Take
      <4>2. FullAt(k, t) + Interval \in Int /\ FullAt(k, t) + Interval <= now + Capacity
        <5>1. Capacity - (FullAt(k, t) - t) - Interval >= 0
          BY <3>1 DEF Spare
        <5>2. now \in Nat /\ Capacity \in Int /\ Interval \in Int
          BY ConstantTypes DEF TypeOK
        <5> HIDE DEF k, t
        <5> QED
          BY <2>1, <5>1, <5>2
      <4>3. \A x \in Kept(t) : x \in Keys /\ full[x] \in Int /\ full[x] <= now + Capacity
        BY <2>1 DEF TypeOK
      <4> HIDE DEF k, t
      <4> QED
        BY <2>1, <4>1, <4>2, <4>3, <2>2
    <3>2. CASE ~(Spare(k, t) >= 0)
      <4>1. full' = [x \in Kept(t) |-> full[x]]
        BY <1>3, <3>2 DEF Take
      <4>2. \A x \in Kept(t) : x \in Keys /\ full[x] \in Int /\ full[x] <= now + Capacity
        BY <2>1 DEF TypeOK
      <4> HIDE DEF k, t
      <4> QED
        BY <4>1, <4>2, <2>2
    <3> QED
      BY <3>1, <3>2
  <2>4. admitted' \in [Keys -> Seq(Nat)]
    <3>1. admitted' = [admitted EXCEPT ![k] = Append(@, now)] \/ admitted' = admitted
      BY <1>3 DEF Take
    <3>2. Append(admitted[k], now) \in Seq(Nat)
      BY <2>1 DEF TypeOK
    <3> QED
      BY <3>1, <3>2 DEF TypeOK
  <2>5. reading' \in [Callers -> {Idle} \cup [key : Keys, at : Nat]]
    BY <2>2 DEF TypeOK
  <2>6. \A d \in Callers : reading'[d] # Idle =>
            reading'[d].at \in 0 .. now' /\ now' - reading'[d].at <= MaxWait
    BY <2>2 DEF TypeOK
  <2> QED
    BY <2>1, <2>2, <2>3, <2>4, <2>5, <2>6 DEF TypeOK
<1>4. CASE Restart
  <2>1. LongAgo \in Int /\ LongAgo <= now
    BY ConstantTypes DEF LongAgo, TypeOK
  <2>2. \A c \in Callers : reading'[c] = Idle
    BY <1>4 DEF Restart
  <2> QED
    BY <1>4, <2>1, <2>2 DEF Restart, TypeOK
<1>5. CASE UNCHANGED vars
  BY <1>5 DEF vars, TypeOK
<1> QED
  BY <1>1, <1>2, <1>3, <1>4, <1>5 DEF Next

\* Every variable keeps its type, and no entry is further ahead of the clock
\* than a full bucket.
THEOREM TypeCorrect == Spec => []TypeOK
<1> QED
  BY TypeInit, TypeStep, PTL DEF Spec

\* An allowed attempt raises the potential of its key by a charge at least,
\* to no more than a full bucket above the clock, and to a charge above the
\* clock at least.
LEMMA AllowedCharged ==
    ASSUME TypeOK, NEW c \in Callers, Take(c), Spare(reading[c].key, reading[c].at) >= 0
    PROVE  LET k == reading[c].key
           IN  /\ k \in DOMAIN full' /\ full'[k] \in Int
               /\ full'[k] >= Potential(k) + Charge
               /\ full'[k] >= now + Charge
               /\ full'[k] <= now + Capacity
               /\ full'[k] > swept'
<1> DEFINE k == reading[c].key
           t == reading[c].at
<1>1. /\ k \in Keys /\ t \in 0 .. now /\ now - t <= MaxWait
      /\ FullAt(k, t) \in Int /\ FullAt(k, t) >= t
      /\ k \in DOMAIN full => FullAt(k, t) = Later(full[k], t)
      /\ swept' \in Int /\ swept' <= now
  BY TakeFacts
<1>2. k \in DOMAIN full' /\ full'[k] = FullAt(k, t) + Interval
  BY <1>1 DEF Take
<1>3. now \in Nat /\ (k \in DOMAIN full => full[k] \in Int)
  BY DEF TypeOK
<1>4. full'[k] <= now + Capacity
  BY <1>1, <1>2, <1>3, ConstantTypes DEF Spare
<1>5. full'[k] >= now + Charge
  BY <1>1, <1>2, <1>3, ConstantTypes DEF Charge
<1>6. full'[k] > swept'
  BY <1>1, <1>2, <1>3, <1>5, ConstantTypes
<1>7. full'[k] >= Potential(k) + Charge
  <2>1. CASE k \in DOMAIN full /\ full[k] > now
    BY <2>1, <1>1, <1>2, <1>3, ConstantTypes DEF Potential, Later
  <2>2. CASE ~(k \in DOMAIN full /\ full[k] > now)
    <3>1. Potential(k) = now
      BY <2>2, <1>3 DEF Potential, Later
    <3> QED
      BY <3>1, <1>5
  <2> QED
    BY <2>1, <2>2
<1> QED
  BY <1>1, <1>2, <1>3, <1>4, <1>5, <1>6, <1>7, ConstantTypes

\* The potential of a key never falls, whatever an attempt sweeps away.
LEMMA PotentialKept ==
    ASSUME TypeOK, NEW c \in Callers, Take(c), NEW x \in Keys
    PROVE  Potential(x)' >= Potential(x) /\ Potential(x) \in Int /\ Potential(x)' \in Int
<1> DEFINE k == reading[c].key
           t == reading[c].at
<1>1. /\ t \in 0 .. now /\ FullAt(k, t) \in Int
      /\ \A y \in DOMAIN full : y \notin Kept(t) => full[y] <= t
      /\ Kept(t) \subseteq DOMAIN full
  BY TakeFacts
<1>2. now \in Nat /\ now' = now /\ \A y \in DOMAIN full : full[y] \in Int
  BY DEF TypeOK, Take
<1>3. Potential(x) \in Int
  BY <1>2 DEF Potential, Later
<1>4. CASE Spare(k, t) >= 0 /\ x = k
  <2>1. k \in DOMAIN full' /\ full'[k] \in Int /\ full'[k] >= Potential(k) + Charge
    BY <1>4, AllowedCharged
  <2> QED
    BY <1>2, <1>3, <1>4, <2>1, ConstantTypes DEF Potential, Later
<1>5. CASE ~(Spare(k, t) >= 0 /\ x = k)
  <2>1. (x \in Kept(t) <=> x \in DOMAIN full') /\ (x \in Kept(t) => full'[x] = full[x])
    <3>1. CASE Spare(k, t) >= 0
      <4>1. full' = [y \in Kept(t) \cup {k} |->
                        IF y = k THEN FullAt(k, t) + Interval ELSE full[y]]
        BY <3>1 DEF Take
      <4> QED
        BY <4>1, <1>5, <3>1
    <3>2. CASE ~(Spare(k, t) >= 0)
      <4>1. full' = [y \in Kept(t) |-> full[y]]
        BY <3>2 DEF Take
      <4> QED
        BY <4>1
    <3> QED
      BY <3>1, <3>2
  <2>2. CASE x \in Kept(t)
    BY <2>1, <2>2, <1>1, <1>2, <1>3 DEF Potential, Later
  <2>3. CASE x \notin Kept(t)
    <3>1. Potential(x) = now /\ Potential(x)' = now
      BY <2>1, <2>3, <1>1, <1>2 DEF Potential, Later
    <3> QED
      BY <3>1, <1>2
  <2> QED
    BY <2>2, <2>3
<1> QED
  BY <1>4, <1>5

LEMMA PotentialInt ==
    ASSUME TypeOK, NEW k \in Keys
    PROVE  Potential(k) \in Int /\ Potential(k) >= now /\ Potential(k) <= now + Capacity
<1>1. now \in Nat /\ \A y \in DOMAIN full : full[y] \in Int /\ full[y] <= now + Capacity
  BY DEF TypeOK
<1> QED
  BY <1>1, ConstantTypes DEF Potential, Later

\* The histories: an attempt by k either adds the clock to k's, or none.
LEMMA HistoryStep ==
    ASSUME TypeOK, NEW c \in Callers, Take(c), NEW x \in Keys
    PROVE  \/ admitted'[x] = admitted[x]
           \/ /\ x = reading[c].key /\ Spare(x, reading[c].at) >= 0
              /\ admitted'[x] = Append(admitted[x], now)
BY DEF Take, TypeOK

LEMMA PaidStep ==
    ASSUME IInv, NEW c \in Callers, Take(c), NEW x \in Keys, NEW i \in 1 .. Len(admitted'[x])
    PROVE  /\ admitted'[x][i] <= now
           /\ admitted'[x][i] + Due(Len(admitted'[x]) - i + 1) <= Potential(x)'
<1> USE DEF IInv
<1>1. /\ now \in Nat /\ admitted[x] \in Seq(Nat) /\ Len(admitted[x]) \in Nat
  BY DEF TypeOK
<1>2. /\ Potential(x)' >= Potential(x) /\ Potential(x) \in Int /\ Potential(x)' \in Int
  BY PotentialKept
<1>3. CASE admitted'[x] = admitted[x]
  <2>1. /\ admitted[x][i] <= now
        /\ admitted[x][i] + Due(Len(admitted[x]) - i + 1) <= Potential(x)
    BY <1>3 DEF Paid
  <2>2. admitted[x][i] \in Nat
    BY <1>1, <1>3
  <2>3. Len(admitted[x]) - i + 1 \in Int
    BY <1>1
  <2>4. Due(Len(admitted[x]) - i + 1) \in Int
    BY <2>3, DueNext
  <2> QED
    BY <1>2, <1>3, <2>1, <2>2, <2>4
<1>4. CASE /\ x = reading[c].key /\ Spare(x, reading[c].at) >= 0
           /\ admitted'[x] = Append(admitted[x], now)
  <2>1. /\ full'[x] \in Int /\ x \in DOMAIN full' /\ now' = now
        /\ full'[x] >= Potential(x) + Charge /\ full'[x] >= now + Charge
    BY <1>4, AllowedCharged DEF Take
  <2>2. Potential(x)' >= full'[x]
    BY <1>1, <2>1 DEF Potential, Later
  <2>3. Len(admitted'[x]) = Len(admitted[x]) + 1
    BY <1>1, <1>4
  <2>4. CASE i = Len(admitted[x]) + 1
    <3>1. admitted'[x][i] = now
      BY <1>1, <1>4, <2>4
    <3>2. Due(Len(admitted'[x]) - i + 1) = Charge
      BY <1>1, <2>3, <2>4, ConstantTypes DEF Due
    <3>3. Charge \in Int
      BY ConstantTypes
    <3>4. now + Charge <= Potential(x)'
      BY <1>1, <1>2, <2>1, <2>2, <3>3
    <3> QED
      BY <1>1, <3>1, <3>2, <3>4
  <2>5. CASE i # Len(admitted[x]) + 1
    <3>1. i \in 1 .. Len(admitted[x]) /\ admitted'[x][i] = admitted[x][i]
      BY <1>1, <1>4, <2>3, <2>5
    <3>2. /\ admitted[x][i] <= now
          /\ admitted[x][i] + Due(Len(admitted[x]) - i + 1) <= Potential(x)
      BY <3>1 DEF Paid
    <3> DEFINE n == Len(admitted[x]) - i + 1
    <3>3. n \in Int /\ Len(admitted'[x]) - i + 1 = n + 1
      BY <1>1, <2>3, <3>1
    <3>4. Due(n) \in Int /\ Due(n + 1) = Due(n) + Charge
      BY <3>3, DueNext
    <3>5. admitted[x][i] \in Nat
      BY <1>1, <3>1
    <3> HIDE DEF n
    <3>6. Due(Len(admitted'[x]) - i + 1) = Due(n) + Charge
      BY <3>3, <3>4
    <3>7. admitted[x][i] + Due(n) <= Potential(x)
      BY <3>2 DEF n
    <3>8. Charge \in Int
      BY ConstantTypes
    <3>9. Potential(x) + Charge <= Potential(x)'
      BY <1>2, <2>1, <2>2, <3>8
    <3>10. Due(n) \in Int
      BY <3>4
    <3>11. admitted[x][i] + (Due(n) + Charge) <= Potential(x)'
      BY <1>2, <3>5, <3>7, <3>8, <3>9, <3>10
    <3> QED
      BY <3>1, <3>2, <3>6, <3>11
  <2> QED
    BY <2>4, <2>5
<1> QED
  BY <1>3, <1>4, HistoryStep

LEMMA FreshStep ==
    ASSUME IInv, NEW c \in Callers, Take(c), NEW x \in DOMAIN full'
    PROVE  /\ full'[x] > swept'
           /\ admitted'[x] # <<>>
           /\ full'[x] <= admitted'[x][Len(admitted'[x])] + Capacity
<1> USE DEF IInv
<1> DEFINE k == reading[c].key
           t == reading[c].at
<1>1. /\ k \in Keys /\ Kept(t) \subseteq DOMAIN full
      /\ \A y \in Kept(t) : full[y] > swept => full[y] > swept'
  BY TakeFacts
<1>2. DOMAIN full \subseteq Keys /\ now \in Nat
  BY DEF TypeOK
<1>3. CASE x = k /\ Spare(k, t) >= 0
  <2>1. full'[k] \in Int /\ full'[k] <= now + Capacity /\ full'[k] > swept'
    BY <1>3, AllowedCharged
  <2>2. admitted'[k] = Append(admitted[k], now) /\ admitted[k] \in Seq(Nat)
    BY <1>1, <1>3 DEF Take, TypeOK
  <2>3. admitted'[k] # <<>> /\ admitted'[k][Len(admitted'[k])] = now
    BY <2>2, SMTT(60)
  <2> QED
    BY <1>3, <2>1, <2>3
<1>4. CASE ~(x = k /\ Spare(k, t) >= 0)
  <2>1. x \in Kept(t) /\ full'[x] = full[x]
    <3>1. CASE Spare(k, t) >= 0
      <4>1. full' = [y \in Kept(t) \cup {k} |->
                        IF y = k THEN FullAt(k, t) + Interval ELSE full[y]]
        BY <3>1 DEF Take
      <4> QED
        BY <4>1, <1>4, <3>1
    <3>2. CASE ~(Spare(k, t) >= 0)
      <4>1. full' = [y \in Kept(t) |-> full[y]]
        BY <3>2 DEF Take
      <4> QED
        BY <4>1
    <3> QED
      BY <3>1, <3>2
  <2>2. admitted'[x] = admitted[x]
    BY <1>1, <1>2, <1>4, <2>1, HistoryStep
  <2>3. /\ full[x] > swept /\ admitted[x] # <<>>
        /\ full[x] <= admitted[x][Len(admitted[x])] + Capacity
    BY <1>1, <2>1 DEF Fresh
  <2> QED
    BY <1>1, <2>1, <2>2, <2>3
<1> QED
  BY <1>3, <1>4

LEMMA BoundedStep ==
    ASSUME IInv, NEW c \in Callers, Take(c), NEW x \in Keys,
           NEW i \in 1 .. Len(admitted'[x]), NEW j \in 1 .. Len(admitted'[x]), i <= j
    PROVE  Due(j - i + 1) <= Capacity + (admitted'[x][j] - admitted'[x][i])
<1> USE DEF IInv
<1>1. /\ now \in Nat /\ admitted[x] \in Seq(Nat) /\ Len(admitted[x]) \in Nat
  BY DEF TypeOK
<1>2. CASE admitted'[x] = admitted[x]
  BY <1>2 DEF Bounded
<1>3. CASE /\ x = reading[c].key /\ Spare(x, reading[c].at) >= 0
           /\ admitted'[x] = Append(admitted[x], now)
  <2>1. Len(admitted'[x]) = Len(admitted[x]) + 1
    BY <1>1, <1>3
  <2>2. CASE j # Len(admitted'[x])
    <3>1. i \in 1 .. Len(admitted[x]) /\ j \in 1 .. Len(admitted[x])
      BY <1>1, <2>1, <2>2
    <3>2. admitted'[x][i] = admitted[x][i]
      BY <1>1, <1>3, <3>1
    <3>3. admitted'[x][j] = admitted[x][j]
      BY <1>1, <1>3, <3>1
    <3> QED
      BY <3>1, <3>2, <3>3 DEF Bounded
  <2>3. CASE j = Len(admitted'[x])
    <3>1. admitted'[x][j] = now
      BY <1>1, <1>3, <2>1, <2>3
    <3>2. /\ admitted'[x][i] + Due(j - i + 1) <= Potential(x)'
      BY <2>3, PaidStep
    <3>3. admitted'[x] \in Seq(Nat) /\ admitted'[x][i] \in Nat
      BY <1>1, <1>3, <2>1, SMTT(60)
    <3>4. Due(j - i + 1) \in Int
      <4>1. j - i \in Int
        BY <1>1, <2>1
      <4> QED
        BY <4>1, DueNext
    <3>5. Potential(x)' <= now + Capacity /\ Potential(x)' \in Int
      <4>1. /\ x \in DOMAIN full' /\ full'[x] \in Int /\ full'[x] <= now + Capacity
            /\ now' = now
        BY <1>3, AllowedCharged DEF Take
      <4> QED
        BY <1>1, <4>1, ConstantTypes DEF Potential, Later
    <3>6. Capacity \in Int
      BY ConstantTypes
    <3> DEFINE due == Due(j - i + 1)
               first == admitted'[x][i]
               potential == Potential(x)'
    <3>7. /\ first + due <= potential /\ potential <= now + Capacity
          /\ first \in Int /\ due \in Int /\ potential \in Int /\ now \in Int
      BY <1>1, <3>2, <3>3, <3>4, <3>5
    <3> HIDE DEF due, first, potential
    <3>8. due <= Capacity + (now - first)
      BY <3>6, <3>7
    <3> QED
      BY <3>1, <3>8 DEF due, first
  <2> QED
    BY <2>2, <2>3
<1> QED
  BY <1>2, <1>3, HistoryStep

LEMMA IInvInit == Init => IInv
<1> SUFFICES ASSUME Init PROVE IInv
  OBVIOUS
<1>1. TypeOK
  BY TypeInit
<1>2. \A k \in Keys : Len(admitted[k]) = 0
  BY DEF Init
<1>3. DOMAIN full = {}
  BY DEF Init
<1> QED
  BY <1>1, <1>2, <1>3 DEF IInv, Paid, Fresh, Bounded

LEMMA IInvStep == IInv /\ [Next]_vars => IInv'
<1> SUFFICES ASSUME IInv, [Next]_vars PROVE IInv'
  OBVIOUS
<1>1. TypeOK'
  BY TypeStep DEF IInv
<1>2. CASE Tick
  <2>1. /\ full' = full /\ swept' = swept /\ admitted' = admitted /\ now' = now + 1
    BY <1>2 DEF Tick
  <2>2. ASSUME NEW k \in Keys, NEW i \in 1 .. Len(admitted[k])
        PROVE  /\ admitted[k][i] <= now'
               /\ admitted[k][i] + Due(Len(admitted[k]) - i + 1) <= Potential(k)'
    <3>1. /\ admitted[k][i] <= now
          /\ admitted[k][i] + Due(Len(admitted[k]) - i + 1) <= Potential(k)
      BY <2>2 DEF IInv, Paid
    <3>2. now \in Nat /\ admitted[k][i] \in Nat /\ Len(admitted[k]) - i + 1 \in Int
      BY DEF IInv, TypeOK
    <3>3. Due(Len(admitted[k]) - i + 1) \in Int
      BY <3>2, DueNext
    <3>4. Potential(k) <= Potential(k)' /\ Potential(k) \in Int /\ Potential(k)' \in Int
      BY <2>1, <3>2 DEF Potential, Later, IInv, TypeOK
    <3> QED
      BY <2>1, <3>1, <3>2, <3>3, <3>4, SMTT(60)
  <2> QED
    BY <1>1, <2>1, <2>2 DEF IInv, Paid, Fresh, Bounded
<1>3. ASSUME NEW c \in Callers, NEW k \in Keys, ReadClock(c, k) PROVE IInv'
  BY <1>1, <1>3 DEF ReadClock, IInv, Paid, Fresh, Bounded, Potential
<1>4. ASSUME NEW c \in Callers, Take(c) PROVE IInv'
  <2>1. now' = now
    BY <1>4 DEF Take
  <2>2. Paid'
    BY <1>4, <2>1, PaidStep DEF Paid
  <2>3. Fresh'
    BY <1>4, FreshStep DEF Fresh
  <2>4. Bounded'
    BY <1>4, BoundedStep DEF Bounded
  <2> QED
    BY <1>1, <2>2, <2>3, <2>4 DEF IInv
<1>5. CASE Restart
  <2>1. DOMAIN full' = {} /\ \A k \in Keys : Len(admitted'[k]) = 0
    BY <1>5 DEF Restart
  <2> QED
    BY <1>1, <2>1 DEF IInv, Paid, Fresh, Bounded
<1>6. CASE UNCHANGED vars
  BY <1>1, <1>6 DEF vars, IInv, Paid, Fresh, Bounded, Potential
<1> QED
  BY <1>2, <1>3, <1>4, <1>5, <1>6 DEF Next

LEMMA IInvAlways == Spec => []IInv
BY IInvInit, IInvStep, PTL DEF Spec

\* No key is ever allowed more attempts between two moments than a full
\* bucket and what it gained meanwhile pay for, with the sweep, concurrent
\* callers and readings that reach the map late and out of order.
THEOREM AttemptsAlwaysBounded == Spec => []AttemptsBounded
<1>1. IInv => AttemptsBounded
  BY DEF IInv, Bounded, AttemptsBounded, Due
<1> QED
  BY <1>1, IInvAlways, PTL

\* The map never holds a key whose last allowed attempt was a minute or more
\* before the last sweep.
THEOREM MapAlwaysRecent == Spec => []MapHoldsRecentKeys
<1>1. ASSUME IInv PROVE MapHoldsRecentKeys
  <2> SUFFICES ASSUME NEW k \in DOMAIN full
               PROVE  admitted[k] # <<>> /\ admitted[k][Len(admitted[k])] + Minute > swept
    BY DEF MapHoldsRecentKeys
  <2>1. /\ full[k] > swept /\ admitted[k] # <<>>
        /\ full[k] <= admitted[k][Len(admitted[k])] + Capacity
    BY <1>1 DEF IInv, Fresh
  <2>2. full[k] \in Int /\ swept \in Int /\ admitted[k] \in Seq(Nat)
    BY <1>1 DEF IInv, TypeOK
  <2>3. admitted[k][Len(admitted[k])] \in Nat
    BY <2>1, <2>2
  <2> QED
    BY <2>1, <2>2, <2>3, ConstantTypes
<1> QED
  BY <1>1, IInvAlways, PTL

-----------------------------------------------------------------------------
(* The headers: what an answer said is true of the next attempt.           *)

\* What a rounded-down quotient is between.
LEMMA DivBounds ==
    ASSUME NEW x \in Int, NEW m \in Nat \ {0}
    PROVE  /\ x \div m \in Int
           /\ (x \div m) * m <= x /\ x < (x \div m) * m + m
BY SMTT(60)

\* Nothing but the quotient is between those bounds.
LEMMA DivUnique ==
    ASSUME NEW x \in Int, NEW m \in Nat \ {0}, NEW q \in Int, q * m <= x, x < q * m + m
    PROVE  x \div m = q
BY DivBounds, SMTT(60)

LEMMA DivMonotone ==
    ASSUME NEW x \in Int, NEW y \in Int, NEW m \in Nat \ {0}, x <= y
    PROVE  x \div m <= y \div m
BY DivBounds, SMTT(60)

\* A header is never less than the time it stands for: a full bucket is worth
\* at most a minute, and seconds are rounded up.
LEMMA RoundsUp ==
    ASSUME NEW d \in Nat
    PROVE  /\ WholeSeconds((d * Minute) \div (PerMinute * Interval)) \in Int
           /\ WholeSeconds((d * Minute) \div (PerMinute * Interval)) >= d
<1> DEFINE q == (d * Minute) \div (PerMinute * Interval)
           s == (q + Second - 1) \div Second
<1>1. /\ Minute \in Nat /\ Second \in Nat \ {0}
      /\ Capacity \in Nat \ {0} /\ Capacity <= Minute /\ PerMinute * Interval = Capacity
  <2>1. PerMinute * Interval = Capacity
    BY DEF Capacity, Burst
  <2>2. PerMinute * Interval # 0
    BY ConstantTypes, SMTT(60)
  <2> QED
    BY <2>1, <2>2, ConstantTypes
<1>2. d * Minute \in Int /\ d * Capacity <= d * Minute
  BY <1>1, SMTT(60)
<1>3. q \in Int /\ d * Minute < q * Capacity + Capacity
  BY <1>1, <1>2, DivBounds
<1> HIDE DEF q
<1>4. d < q + 1
  <2>1. d * Capacity < q * Capacity + Capacity
    BY <1>1, <1>2, <1>3
  <2> QED
    BY <1>1, <1>3, <2>1, SMTT(60)
<1>5. s \in Int /\ q + Second - 1 < s * Second + Second
  BY <1>1, <1>3, DivBounds
<1> HIDE DEF s
<1>6. s * Second \in Int
  BY <1>1, <1>5
<1>7. s * Second >= d
  BY <1>1, <1>3, <1>4, <1>5, <1>6
<1> QED
  BY <1>6, <1>7 DEF WholeSeconds, q, s

\* A token taken is a token less.
LEMMA OneTokenLess ==
    ASSUME NEW s \in Int
    PROVE  (s - Interval) \div Interval = s \div Interval - 1
<1> DEFINE q == s \div Interval
<1>1. Interval \in Nat \ {0}
  BY ConstantTypes
<1>2. q \in Int /\ q * Interval <= s /\ s < q * Interval + Interval
  BY <1>1, DivBounds
<1> HIDE DEF q
<1>3. (q - 1) * Interval = q * Interval - Interval /\ q * Interval \in Int
  BY <1>1, <1>2, SMTT(60)
<1>4. (q - 1) * Interval <= s - Interval /\ s - Interval < (q - 1) * Interval + Interval
  BY <1>1, <1>2, <1>3
<1>5. (s - Interval) \div Interval = q - 1
  BY <1>1, <1>2, <1>4, DivUnique
<1> QED
  BY <1>5 DEF q

\* What Decision says, a field at a time.
LEMMA DecisionIs ==
    ASSUME NEW t, NEW s
    PROVE  /\ Decision(t, s).at = t
           /\ Decision(t, s).allowed = (s >= 0)
           /\ Decision(t, s).remaining = IF s >= 0 THEN s \div Interval ELSE 0
           /\ Decision(t, s).retryAfter =
                  IF s >= 0 THEN 0
                  ELSE WholeSeconds((-s * Minute) \div (PerMinute * Interval))
           /\ Decision(t, s).resetAfter =
                  WholeSeconds(((Capacity - (IF s >= 0 THEN s ELSE Later(s + Interval, 0)))
                                    * Minute) \div (PerMinute * Interval))
BY DEF Decision

\* The last answer given for k, to a reading that left s of the bucket, still
\* bounds when the bucket is full again.
Told(k, s) ==
    /\ answer[k].at \in Nat
    /\ answer[k] = Decision(answer[k].at, s)
    /\ s <= Capacity - Interval
    /\ k \in DOMAIN full =>
           /\ full[k] <= answer[k].at + Capacity - (IF s >= 0 THEN s ELSE s + Interval)
           /\ full[k] <= answer[k].at + Capacity + MaxWait

Answered == \A k \in Keys : answer[k] = Unanswered \/ \E s \in Int : Told(k, s)

AInv == TypeOK /\ DOMAIN answer = Keys /\ Answered

\* An attempt changes the map and the answer of its own key only, but for
\* the entries the sweep forgets.
LEMMA TakeOthers ==
    ASSUME AInv, NEW c \in Callers, Take(c), NEW x \in Keys, x # reading[c].key
    PROVE  /\ answer'[x] = answer[x]
           /\ x \in DOMAIN full' => x \in DOMAIN full /\ full'[x] = full[x]
<1> DEFINE k == reading[c].key
           t == reading[c].at
<1>1. Kept(t) \subseteq DOMAIN full
  BY TakeFacts DEF AInv
<1>2. answer'[x] = answer[x]
  BY DEF Take, AInv
<1>3. CASE Spare(k, t) >= 0
  <2>1. full' = [y \in Kept(t) \cup {k} |-> IF y = k THEN FullAt(k, t) + Interval ELSE full[y]]
    BY <1>3 DEF Take
  <2> HIDE DEF k, t
  <2> QED
    BY <1>1, <1>2, <2>1 DEF k
<1>4. CASE ~(Spare(k, t) >= 0)
  <2>1. full' = [y \in Kept(t) |-> full[y]]
    BY <1>4 DEF Take
  <2> HIDE DEF k, t
  <2> QED
    BY <1>1, <1>2, <2>1
<1> QED
  BY <1>3, <1>4

\* The answer an attempt gives its own key: the Decision of what it found.
LEMMA TakeTells ==
    ASSUME AInv, NEW c \in Callers, Take(c)
    PROVE  LET k == reading[c].key
               t == reading[c].at
               s == Spare(k, t)
           IN  /\ answer'[k] = Decision(t, s)
               /\ t \in Nat /\ s \in Int /\ s <= Capacity - Interval
               /\ k \in DOMAIN full' =>
                      /\ full'[k] <= t + Capacity - (IF s >= 0 THEN s ELSE s + Interval)
                      /\ full'[k] <= t + Capacity + MaxWait
<1> DEFINE k == reading[c].key
           t == reading[c].at
           f == FullAt(k, t)
           s == Spare(k, t)
<1>1. /\ k \in Keys /\ t \in 0 .. now /\ now - t <= MaxWait /\ f \in Int /\ f >= t
      /\ k \in DOMAIN full => f = Later(full[k], t)
      /\ Kept(t) \subseteq DOMAIN full
  BY TakeFacts DEF AInv
<1>2. /\ now \in Nat /\ now' = now /\ Capacity \in Nat /\ Interval \in Nat /\ MaxWait \in Nat
      /\ \A x \in DOMAIN full : full[x] \in Int /\ full[x] <= now + Capacity
  BY ConstantTypes DEF Take, AInv, TypeOK
<1>3. answer'[k] = Decision(t, s)
  BY <1>1 DEF Take, AInv
<1>4. t \in Nat /\ answer'[k].at = t
  BY <1>1, <1>3, DecisionIs
<1>5. s = Capacity - (f - t) - Interval
  BY DEF Spare
<1>6. k \in DOMAIN full' =>
          full'[k] \in Int /\ full'[k] <= t + Capacity - (IF s >= 0 THEN s ELSE s + Interval)
          /\ full'[k] <= t + Capacity + MaxWait
  <2>1. CASE s >= 0
    <3>1. full' = [y \in Kept(t) \cup {k} |-> IF y = k THEN f + Interval ELSE full[y]]
      BY <2>1 DEF Take
    <3>2. full'[k] = f + Interval
      BY <3>1
    <3> HIDE DEF k, t, f, s
    <3> QED
      BY <1>1, <1>2, <1>4, <1>5, <2>1, <3>2
  <2>2. CASE ~(s >= 0)
    <3>1. full' = [y \in Kept(t) |-> full[y]]
      BY <2>2 DEF Take
    <3> HIDE DEF k, t, f, s
    <3>2. k \in DOMAIN full' => k \in DOMAIN full /\ full'[k] = full[k]
      BY <1>1, <3>1
    <3> DEFINE g == full[k]
    <3>3. k \in DOMAIN full => g \in Int /\ g <= now + Capacity /\ f = Later(g, t)
      BY <1>1, <1>2
    <3> HIDE DEF g
    <3>4. k \in DOMAIN full => g <= f
      BY <1>4, <3>3 DEF Later
    <3>5. k \in DOMAIN full =>
              g <= t + Capacity - (IF s >= 0 THEN s ELSE s + Interval) /\ g <= t + Capacity + MaxWait
      BY <1>1, <1>2, <1>4, <1>5, <2>2, <3>3, <3>4
    <3> QED
      BY <3>2, <3>3, <3>5 DEF g
  <2> QED
    BY <2>1, <2>2
<1>7. s \in Int /\ s <= Capacity - Interval
  <2> HIDE DEF k, t, f, s
  <2> QED
    BY <1>1, <1>2, <1>4, <1>5
<1> QED
  BY <1>3, <1>4, <1>6, <1>7

LEMMA AnsweredStep == AInv /\ TypeOK' /\ [Next]_vars => AInv'
<1> SUFFICES ASSUME AInv, TypeOK', [Next]_vars PROVE AInv'
  OBVIOUS
<1>1. ASSUME answer' = answer, full' = full PROVE AInv'
  BY <1>1 DEF AInv, Answered, Told
<1>2. CASE Tick
  BY <1>1, <1>2 DEF Tick
<1>3. ASSUME NEW c \in Callers, NEW k \in Keys, ReadClock(c, k) PROVE AInv'
  BY <1>1, <1>3 DEF ReadClock
<1>4. ASSUME NEW c \in Callers, Take(c) PROVE AInv'
  <2>1. DOMAIN answer' = Keys
    BY <1>4 DEF Take, AInv
  <2>2. ASSUME NEW x \in Keys
        PROVE  answer'[x] = Unanswered \/ \E s \in Int : Told(x, s)'
    <3>1. CASE x = reading[c].key
      <4> DEFINE t == reading[c].at
                 z == Spare(x, t)
      <4>1. /\ answer'[x] = Decision(t, z)
            /\ t \in Nat /\ z \in Int /\ z <= Capacity - Interval
            /\ x \in DOMAIN full' =>
                   /\ full'[x] <= t + Capacity - (IF z >= 0 THEN z ELSE z + Interval)
                   /\ full'[x] <= t + Capacity + MaxWait
        BY <1>4, <3>1, TakeTells
      <4> HIDE DEF t, z
      <4>2. PICK s \in Int : s = z
        BY <4>1
      <4>3. answer'[x].at = t
        BY <4>1, DecisionIs
      <4>4. Told(x, s)'
        BY <4>1, <4>2, <4>3 DEF Told
      <4> QED
        BY <4>4
    <3>2. CASE x # reading[c].key
      <4>1. /\ answer'[x] = answer[x]
            /\ x \in DOMAIN full' => x \in DOMAIN full /\ full'[x] = full[x]
        BY <1>4, <3>2, TakeOthers
      <4>2. CASE answer[x] = Unanswered
        BY <4>1, <4>2
      <4>3. ASSUME NEW s \in Int, Told(x, s) PROVE Told(x, s)'
        BY <4>1, <4>3 DEF Told
      <4> QED
        BY <4>2, <4>3 DEF AInv, Answered
    <3> QED
      BY <3>1, <3>2
  <2> QED
    BY <2>1, <2>2 DEF AInv, Answered
<1>5. CASE Restart
  BY <1>5 DEF Restart, AInv, Answered
<1>6. CASE UNCHANGED vars
  BY <1>1, <1>6 DEF vars
<1> QED
  BY <1>2, <1>3, <1>4, <1>5, <1>6 DEF Next

LEMMA AInvAlways == Spec => []AInv
<1>1. Init => AInv
  BY TypeInit DEF Init, AInv, Answered
<1>2. TypeOK /\ [Next]_vars => TypeOK'
  BY TypeStep
<1>3. AInv => TypeOK
  BY DEF AInv
<1> QED
  BY <1>1, <1>2, <1>3, AnsweredStep, PTL DEF Spec

\* What the headers of an answer say, of an answer to a reading no earlier.
Honest(old, new) ==
    /\ old.remaining > 0 => new.allowed /\ new.remaining >= old.remaining - 1
    /\ new.at >= old.at + old.retryAfter /\ ~old.allowed => new.allowed
    /\ new.at >= old.at + old.resetAfter + MaxWait =>
           new.allowed /\ new.remaining = Burst - 1

\* Two attempts on one bucket, as arithmetic: the first, read at o, left s of
\* it, which was then full again at g at the latest; the second, read at t,
\* finds it full again at f.
LEMMA HonestDecisions ==
    ASSUME NEW o \in Nat, NEW s \in Int, s <= Capacity - Interval,
           NEW t \in Nat, o <= t, NEW f \in Int, NEW r \in Int, r = Capacity - (f - t) - Interval,
           f = t \/ (/\ f <= o + Capacity - (IF s >= 0 THEN s ELSE s + Interval)
                     /\ f <= o + Capacity + MaxWait /\ f >= t)
    PROVE  Honest(Decision(o, s), Decision(t, r))
<1>1. /\ Capacity \in Nat /\ Interval \in Nat \ {0} /\ MaxWait \in Nat /\ PerMinute \in Nat \ {0}
      /\ Interval <= Capacity
  BY ConstantTypes, LimiterAssumption DEF Capacity, Burst
<1> DEFINE old == Decision(o, s)
           new == Decision(t, r)
<1>2. /\ old.at = o /\ old.allowed = (s >= 0)
      /\ new.at = t /\ new.allowed = (r >= 0)
      /\ r >= 0 => new.remaining = r \div Interval
  BY DecisionIs
<1>3. ASSUME old.remaining > 0 PROVE new.allowed /\ new.remaining >= old.remaining - 1
  <2>1. s >= 0 /\ old.remaining = s \div Interval
    BY <1>3, DecisionIs
  <2>2. s >= Interval
    <3> DEFINE q == s \div Interval
    <3>1. q \in Int /\ q * Interval <= s
      BY <1>1, DivBounds
    <3>2. q >= 1
      BY <1>3, <2>1, <3>1
    <3> HIDE DEF q
    <3>3. q * Interval >= Interval /\ q * Interval \in Int
      BY <1>1, <3>1, <3>2, SMTT(60)
    <3> QED
      BY <1>1, <3>1, <3>3
  <2>3. r >= s - Interval
    BY <1>1, <2>2
  <2>4. r >= 0 /\ s - Interval \in Int
    BY <1>1, <2>2, <2>3
  <2>5. (s - Interval) \div Interval <= r \div Interval
    BY <1>1, <2>3, <2>4, DivMonotone
  <2>6. s \div Interval - 1 <= r \div Interval
    BY <2>5, OneTokenLess
  <2>7. s \div Interval \in Int /\ r \div Interval \in Int
    BY <1>1, DivBounds
  <2> HIDE DEF old, new
  <2> QED
    BY <1>2, <2>1, <2>4, <2>6, <2>7
<1>4. ASSUME new.at >= old.at + old.retryAfter, ~old.allowed PROVE new.allowed
  <2>1. s < 0
    <3>1. ~(s >= 0)
      BY <1>2, <1>4, ZenonT(30)
    <3> QED
      BY <3>1
  <2>2. old.retryAfter = WholeSeconds((-s * Minute) \div (PerMinute * Interval))
    BY <2>1, DecisionIs
  <2> DEFINE d == -s
  <2>3. d \in Nat /\ -s * Minute = d * Minute
    BY <2>1, ConstantTypes
  <2>4. old.retryAfter \in Int /\ old.retryAfter >= d
    BY <2>2, <2>3, RoundsUp
  <2>5. t >= o + old.retryAfter
    BY <1>2, <1>4
  <2> HIDE DEF old, new
  <2>6. t >= o - s
    BY <2>3, <2>4, <2>5
  <2>7. r >= 0
    BY <1>1, <2>1, <2>6
  <2> QED
    BY <1>2, <2>7
<1>5. ASSUME new.at >= old.at + old.resetAfter + MaxWait
      PROVE  new.allowed /\ new.remaining = Burst - 1
  <2> DEFINE d == Capacity - (IF s >= 0 THEN s ELSE Later(s + Interval, 0))
  <2>1. old.resetAfter = WholeSeconds((d * Minute) \div (PerMinute * Interval))
    BY DecisionIs
  <2>2. d \in Nat
    BY <1>1 DEF Later
  <2>3. old.resetAfter \in Int /\ old.resetAfter >= d
    BY <2>1, <2>2, RoundsUp
  <2>4. t >= o + old.resetAfter + MaxWait
    BY <1>2, <1>5
  <2> DEFINE w == old.resetAfter
  <2>5. w \in Int /\ w >= d /\ t >= o + w + MaxWait
    BY <2>3, <2>4
  <2> HIDE DEF old, new, w
  <2>6. f = t
    BY <1>1, <2>5 DEF Later
  <2>7. r = Capacity - Interval /\ r >= 0
    BY <1>1, <2>6
  <2>8. r \div Interval = Burst - 1
    <3>1. Burst \in Nat \ {0} /\ Capacity = Burst * Interval
      BY <1>1 DEF Burst, Capacity
    <3>2. (Burst - 1) * Interval = Burst * Interval - Interval
      BY <1>1, <3>1, SMTT(60)
    <3>3. (Burst - 1) * Interval <= r /\ r < (Burst - 1) * Interval + Interval
      BY <1>1, <2>7, <3>1, <3>2
    <3> QED
      BY <1>1, <3>1, <3>3, DivUnique
  <2> QED
    BY <1>2, <2>7, <2>8
<1> QED
  BY <1>3, <1>4, <1>5 DEF Honest

\* The headers of an answer are true of the next answered attempt: while
\* RateLimit-Remaining is not 0 it is allowed, and after Retry-After it is, and
\* after RateLimit-Reset the whole bucket is there again.
THEOREM HeadersAlwaysHonest == Spec => HeadersHonest
<1>1. ASSUME AInv, [Next]_vars, NEW k \in Keys,
             answer'[k] # answer[k], answer'[k] # Unanswered, answer[k] # Unanswered,
             answer'[k].at >= answer[k].at
      PROVE  Honest(answer[k], answer'[k])
  <2>1. PICK c \in Callers : Take(c)
    BY <1>1 DEF Next, Tick, ReadClock, Restart, vars
  <2>2. k = reading[c].key
    BY <1>1, <2>1, TakeOthers
  <2> DEFINE o == answer[k].at
             t == reading[c].at
             f == FullAt(k, t)
             r == Spare(k, t)
  <2>3. PICK s \in Int : Told(k, s)
    BY <1>1 DEF AInv, Answered
  <2>4. /\ o \in Nat /\ answer[k] = Decision(o, s) /\ s <= Capacity - Interval
        /\ k \in DOMAIN full =>
               /\ full[k] <= o + Capacity - (IF s >= 0 THEN s ELSE s + Interval)
               /\ full[k] <= o + Capacity + MaxWait
    BY <2>3 DEF Told
  <2>5. answer'[k] = Decision(t, r) /\ t \in Nat /\ r \in Int
    BY <1>1, <2>1, <2>2, TakeTells
  <2>6. /\ f \in Int /\ f >= t
        /\ k \in DOMAIN full => f = Later(full[k], t)
        /\ k \notin DOMAIN full => f = t
    BY <1>1, <2>1, <2>2, TakeFacts DEF AInv
  <2>7. r = Capacity - (f - t) - Interval
    BY DEF Spare
  <2>8. o <= t
    <3>1. answer'[k].at = t
      BY <2>5, DecisionIs
    <3> QED
      BY <1>1, <2>4, <2>5, <3>1
  <2>9. f = t \/ (/\ f <= o + Capacity - (IF s >= 0 THEN s ELSE s + Interval)
                  /\ f <= o + Capacity + MaxWait /\ f >= t)
    BY <2>4, <2>6 DEF Later
  <2> HIDE DEF o, t, f, r
  <2>10. Honest(Decision(o, s), Decision(t, r))
    BY <2>4, <2>5, <2>6, <2>7, <2>8, <2>9, HonestDecisions
  <2> QED
    BY <2>4, <2>5, <2>10
<1>2. ASSUME AInv, [Next]_vars
      PROVE  [\A k \in Keys :
                LET old == answer[k]
                    new == answer'[k]
                IN  new # old /\ new # Unanswered /\ old # Unanswered /\ new.at >= old.at =>
                    /\ old.remaining > 0 => new.allowed /\ new.remaining >= old.remaining - 1
                    /\ new.at >= old.at + old.retryAfter /\ ~old.allowed => new.allowed
                    /\ new.at >= old.at + old.resetAfter + MaxWait =>
                           new.allowed /\ new.remaining = Burst - 1]_answer
  BY <1>1, <1>2 DEF Honest
<1> QED
  BY <1>2, AInvAlways, PTL DEF Spec, HeadersHonest

-----------------------------------------------------------------------------
(* The limiter implements the token bucket.                                *)

LEMMA LevelIs ==
    ASSUME TypeOK, NEW k \in Keys
    PROVE  Level(k) = IF k \in DOMAIN full /\ full[k] > now
                      THEN Capacity - (full[k] - now) ELSE Capacity
<1>1. now \in Nat /\ \A x \in DOMAIN full : full[x] \in Int
  BY DEF TypeOK
<1>2. Kept(now) \subseteq DOMAIN full
      /\ \A x \in DOMAIN full : x \notin Kept(now) => full[x] <= now
  BY <1>1 DEF Kept
<1> QED
  BY <1>1, <1>2, ConstantTypes DEF Level, FullAt, Later

LEMMA LevelInt ==
    ASSUME TypeOK, NEW k \in Keys
    PROVE  Level(k) \in Int /\ Level(k) <= Capacity
BY LevelIs, ConstantTypes, SMTT(60) DEF TypeOK

LEMMA BucketInit == Init => Bucket!Init
<1> SUFFICES ASSUME Init PROVE Bucket!Init
  OBVIOUS
<1>1. \A k \in Keys : Level(k) = Capacity
  BY LevelIs, TypeInit, ConstantTypes DEF Init
<1>2. \A k \in Keys : Len(admitted[k]) = 0
  BY DEF Init
<1>3. Levels = [k \in Keys |-> Capacity] /\ Counts = [k \in Keys |-> 0]
  BY <1>1, <1>2 DEF Levels, Counts
<1> QED
  BY <1>3 DEF Init, Bucket!Init, Bucket!Capacity, Capacity

LEMMA BucketStep ==
    ASSUME TypeOK, TypeOK', [Next]_vars
    PROVE  [Bucket!Next]_(Bucket!vars)
<1>1. \A k \in Keys : /\ Level(k) = IF k \in DOMAIN full /\ full[k] > now
                                     THEN Capacity - (full[k] - now) ELSE Capacity
                      /\ Level(k)' = IF k \in DOMAIN full' /\ full'[k] > now'
                                      THEN Capacity - (full'[k] - now') ELSE Capacity
  <2>1. \A k \in Keys : Level(k) = IF k \in DOMAIN full /\ full[k] > now
                                   THEN Capacity - (full[k] - now) ELSE Capacity
    BY LevelIs
  <2>2. \A k \in Keys : Level(k)' = IF k \in DOMAIN full' /\ full'[k] > now'
                                    THEN Capacity - (full'[k] - now') ELSE Capacity
    <3> SUFFICES ASSUME NEW k \in Keys
                 PROVE  Level(k)' = IF k \in DOMAIN full' /\ full'[k] > now'
                                    THEN Capacity - (full'[k] - now') ELSE Capacity
      OBVIOUS
    <3>1. now' \in Nat /\ swept' \in Int /\ \A x \in DOMAIN full' : full'[x] \in Int
      BY DEF TypeOK
    <3>2. Kept(now)' \subseteq DOMAIN full'
          /\ \A x \in DOMAIN full' : x \notin Kept(now)' => full'[x] <= now'
      BY <3>1 DEF Kept
    <3> QED
      BY <3>1, <3>2, ConstantTypes DEF Level, FullAt, Later
  <2> QED
    BY <2>1, <2>2
<1>2. CASE Tick
  <2>1. now < MaxNow /\ now' = now + 1 /\ full' = full /\ admitted' = admitted
    BY <1>2 DEF Tick
  <2>2. \A k \in Keys : Level(k)' = IF Level(k) < Capacity THEN Level(k) + 1 ELSE Capacity
    <3> SUFFICES ASSUME NEW k \in Keys
                 PROVE  Level(k)' = IF Level(k) < Capacity THEN Level(k) + 1 ELSE Capacity
      OBVIOUS
    <3>1. /\ Level(k) = IF k \in DOMAIN full /\ full[k] > now
                        THEN Capacity - (full[k] - now) ELSE Capacity
          /\ Level(k)' = IF k \in DOMAIN full /\ full[k] > now + 1
                         THEN Capacity - (full[k] - (now + 1)) ELSE Capacity
      BY <1>1, <2>1
    <3>2. now \in Nat /\ Capacity \in Nat /\ \A x \in DOMAIN full : full[x] \in Int
      BY ConstantTypes DEF TypeOK
    <3>3. CASE k \in DOMAIN full
      <4> DEFINE f == full[k]
      <4>1. f \in Int
        BY <3>2, <3>3
      <4>2. /\ Level(k) = IF f > now THEN Capacity - (f - now) ELSE Capacity
            /\ Level(k)' = IF f > now + 1 THEN Capacity - (f - (now + 1)) ELSE Capacity
        BY <3>1, <3>3
      <4> HIDE DEF f
      <4> QED
        BY <3>2, <4>1, <4>2
    <3>4. CASE k \notin DOMAIN full
      BY <3>1, <3>2, <3>4
    <3> QED
      BY <3>3, <3>4
  <2>3. Levels' = [k \in Keys |-> IF Levels[k] < Capacity THEN Levels[k] + 1 ELSE Capacity]
    BY <2>2 DEF Levels
  <2>4. Counts' = Counts
    BY <2>1 DEF Counts
  <2> QED
    BY <2>1, <2>3, <2>4 DEF Bucket!Next, Bucket!Refill, Bucket!Capacity, Capacity
<1>3. ASSUME NEW c \in Callers, NEW k \in Keys, ReadClock(c, k) PROVE UNCHANGED Bucket!vars
  <2>1. now' = now /\ full' = full /\ admitted' = admitted
    BY <1>3 DEF ReadClock
  <2>2. \A x \in Keys : Level(x)' = Level(x)
    BY <1>1, <2>1
  <2> QED
    BY <2>1, <2>2 DEF Levels, Counts, Bucket!vars
<1>4. ASSUME NEW c \in Callers, Take(c) PROVE [Bucket!Next]_(Bucket!vars)
  <2> DEFINE t == reading[c].at
             L(x) == IF x \in DOMAIN full /\ full[x] > now THEN Capacity - (full[x] - now)
                     ELSE Capacity
  <2>p. PICK k \in Keys : k = reading[c].key
    BY <1>4, TakeFacts
  <2>1. /\ t \in Nat /\ now \in Nat /\ t <= now /\ now - t <= MaxWait /\ now' = now
        /\ Kept(t) \subseteq DOMAIN full
        /\ \A x \in DOMAIN full : x \notin Kept(t) => full[x] <= t
        /\ \A x \in DOMAIN full : full[x] \in Int
        /\ FullAt(k, t) = IF k \in DOMAIN full THEN Later(full[k], t) ELSE t
    <3>1. /\ t \in 0 .. now /\ now - t <= MaxWait
          /\ Kept(t) \subseteq DOMAIN full
          /\ \A x \in DOMAIN full : x \notin Kept(t) => full[x] <= t
          /\ k \in DOMAIN full => FullAt(k, t) = Later(full[k], t)
          /\ k \notin DOMAIN full => FullAt(k, t) = t
      BY <1>4, <2>p, TakeFacts
    <3>2. now \in Nat /\ \A x \in DOMAIN full : full[x] \in Int
      BY DEF TypeOK
    <3>3. now' = now
      BY <1>4 DEF Take
    <3> HIDE DEF t
    <3> QED
      BY <3>1, <3>2, <3>3
  <2>2. \A x \in Keys : Level(x) = L(x)
    BY <1>1
  <2>3. FullAt(k, t) \in Int /\ FullAt(k, t) >= t
        /\ Level(k) = Capacity - (Later(FullAt(k, t), now) - now)
    <3>1. CASE k \in DOMAIN full
      <4> DEFINE f == full[k]
      <4>1. f \in Int /\ FullAt(k, t) = Later(f, t)
        BY <2>1, <3>1
      <4>2. Level(k) = IF f > now THEN Capacity - (f - now) ELSE Capacity
        BY <2>2, <3>1
      <4> HIDE DEF f, t
      <4> QED
        BY <2>1, <4>1, <4>2, ConstantTypes DEF Later
    <3>2. CASE k \notin DOMAIN full
      BY <2>1, <2>2, <3>2, ConstantTypes DEF Later
    <3> QED
      BY <3>1, <3>2
  <2> HIDE DEF t
  <2>4. CASE Spare(k, t) >= 0
    <3>1. /\ full' = [x \in Kept(t) \cup {k} |->
                         IF x = k THEN FullAt(k, t) + Interval ELSE full[x]]
          /\ admitted' = [admitted EXCEPT ![k] = Append(@, now)]
      BY <1>4, <2>p, <2>4 DEF Take, t
    <3>2. PICK late \in 0 .. MaxWait : Level(k)' = Level(k) - (Interval - late)
      <4> DEFINE f == FullAt(k, t)
      <4>1. k \in DOMAIN full' /\ full'[k] = f + Interval
        BY <3>1
      <4>2. Level(k)' = IF f + Interval > now THEN Capacity - (f + Interval - now) ELSE Capacity
        <5>1. Level(k)' = IF full'[k] > now THEN Capacity - (full'[k] - now) ELSE Capacity
          BY <1>1, <2>1, <4>1
        <5>2. full'[k] = f + Interval
          BY <4>1
        <5>3. f \in Int /\ Interval \in Int /\ now \in Int /\ Capacity \in Int
          BY <2>1, <2>3, ConstantTypes
        <5> HIDE DEF f
        <5> QED
          BY <5>1, <5>2, <5>3
      <4>3. f \in Int /\ f >= t /\ Level(k) = Capacity - (Later(f, now) - now)
        BY <2>3
      <4>4. /\ Capacity \in Int /\ Interval \in Int /\ MaxWait \in Nat /\ now \in Int /\ t \in Int
            /\ MaxWait < Interval /\ now - t <= MaxWait
        BY <2>1, ConstantTypes, WaitAssumption
      <4> HIDE DEF f
      <4>5. f + Interval > now
        BY <4>3, <4>4
      <4>6. CASE f > now
        <5>1. Level(k)' = Level(k) - (Interval - 0)
          BY <4>2, <4>3, <4>4, <4>5, <4>6 DEF Later
        <5> QED
          BY <4>4, <5>1
      <4>7. CASE ~(f > now)
        <5>1. Level(k)' = Level(k) - (Interval - (now - f))
          BY <4>2, <4>3, <4>4, <4>5, <4>7 DEF Later
        <5>2. now - f \in 0 .. MaxWait
          BY <4>3, <4>4, <4>7
        <5> QED
          BY <5>1, <5>2
      <4> QED
        BY <4>6, <4>7
    <3>3. Level(k) >= Interval
      <4> DEFINE f == FullAt(k, t)
      <4>1. f \in Int /\ Level(k) = Capacity - (Later(f, now) - now)
        BY <2>3
      <4>2. Capacity - (f - t) - Interval >= 0
        BY <2>4 DEF Spare
      <4>3. Interval <= Capacity
        BY ConstantTypes, LimiterAssumption DEF Capacity, Burst
      <4> HIDE DEF f
      <4> QED
        BY <2>1, <4>1, <4>2, <4>3, ConstantTypes DEF Later
    <3>4. ASSUME NEW x \in Keys, x # k PROVE Level(x)' = Level(x)
      <4>1. (x \in DOMAIN full' <=> x \in Kept(t)) /\ (x \in Kept(t) => full'[x] = full[x])
        BY <3>1, <3>4
      <4>2. x \in DOMAIN full /\ full[x] > now => x \in Kept(t)
        BY <2>1
      <4>3. (x \in DOMAIN full' /\ full'[x] > now <=> x \in DOMAIN full /\ full[x] > now)
            /\ (x \in DOMAIN full' => full'[x] = full[x])
        BY <2>1, <4>1, <4>2
      <4> QED
        BY <1>1, <2>1, <4>3
    <3>5. Levels' = [Levels EXCEPT ![k] = @ - (Interval - late)]
      BY <2>1, <3>2, <3>4 DEF Levels
    <3>6. Counts' = [Counts EXCEPT ![k] = @ + 1]
      <4>1. \A x \in Keys : admitted[x] \in Seq(Nat)
        BY DEF TypeOK
      <4>2. Len(admitted'[k]) = Len(admitted[k]) + 1
        BY <2>1, <3>1, <4>1 DEF TypeOK
      <4>3. \A x \in Keys : x # k => admitted'[x] = admitted[x]
        BY <3>1 DEF TypeOK
      <4> QED
        BY <2>1, <4>2, <4>3 DEF Counts
    <3>7. Levels[k] >= Interval
      BY <3>3 DEF Levels
    <3> QED
      BY <2>1, <3>2, <3>5, <3>6, <3>7 DEF Bucket!Next, Bucket!Admit
  <2>5. CASE ~(Spare(k, t) >= 0)
    <3>1. full' = [x \in Kept(t) |-> full[x]] /\ admitted' = admitted
      BY <1>4, <2>p, <2>5 DEF Take, t
    <3>2. ASSUME NEW x \in Keys PROVE Level(x)' = Level(x)
      <4>1. (x \in DOMAIN full' <=> x \in Kept(t)) /\ (x \in Kept(t) => full'[x] = full[x])
        BY <3>1
      <4>2. x \in DOMAIN full /\ full[x] > now => x \in Kept(t)
        BY <2>1
      <4>3. (x \in DOMAIN full' /\ full'[x] > now <=> x \in DOMAIN full /\ full[x] > now)
            /\ (x \in DOMAIN full' => full'[x] = full[x])
        BY <2>1, <4>1, <4>2
      <4> QED
        BY <1>1, <2>1, <4>3
    <3> QED
      BY <2>1, <3>1, <3>2 DEF Levels, Counts, Bucket!vars
  <2> QED
    BY <2>4, <2>5
<1>5. CASE Restart
  <2>1. /\ DOMAIN full' = {} /\ now' = now
        /\ \A k \in Keys : Len(admitted'[k]) = 0
    BY <1>5 DEF Restart
  <2>2. \A k \in Keys : Level(k)' = Capacity
    BY <1>1, <2>1
  <2>3. Levels' = [k \in Keys |-> Capacity] /\ Counts' = [k \in Keys |-> 0]
    BY <2>1, <2>2 DEF Levels, Counts
  <2> QED
    BY <2>1, <2>3 DEF Bucket!Next, Bucket!Reset, Bucket!Capacity, Capacity
<1>6. CASE UNCHANGED vars
  <2>1. now' = now /\ full' = full /\ admitted' = admitted
    BY <1>6 DEF vars
  <2>2. \A x \in Keys : Level(x)' = Level(x)
    BY <1>1, <2>1
  <2> QED
    BY <2>1, <2>2 DEF Levels, Counts, Bucket!vars
<1> QED
  BY <1>2, <1>3, <1>4, <1>5, <1>6 DEF Next

\* The map, its sweep and its restarts are a token bucket per key, in which an
\* attempt that reaches the map late costs at most that much less than a token.
THEOREM LimiterIsTokenBucket == Spec => ImplementsTokenBucket
<1>1. TypeOK /\ TypeOK' /\ [Next]_vars => [Bucket!Next]_(Bucket!vars)
  BY BucketStep
<1> QED
  BY <1>1, BucketInit, TypeCorrect, PTL DEF Spec, ImplementsTokenBucket, Bucket!Spec
=============================================================================
