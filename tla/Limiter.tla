------------------------------ MODULE Limiter ------------------------------
(***************************************************************************)
(* The sign-in rate limiter: limiter.Memory and limiter.Limiter, and the   *)
(* headers api/auth.go makes of a Decision.                                *)
(*                                                                         *)
(* An attempt is two steps, because Memory.Take reads the clock before it  *)
(* takes the mutex: readings may reach the map out of order.  Time is      *)
(* counted in units much shorter than Interval; a token is Interval units, *)
(* so the float "remaining" of the code is Spare(...) / Interval here.     *)
(***************************************************************************)
EXTENDS Integers, Sequences

CONSTANTS
    Keys,       \* client addresses
    Callers,    \* goroutines serving sign-in requests
    Minute,     \* units of time in a minute
    Second,     \* units of time in a second
    PerMinute,  \* attempts allowed a minute
    MaxWait,    \* how long a caller may hold a clock reading before it gets the mutex
    MaxNow      \* bound on the clock

Interval == Minute \div PerMinute
Burst == PerMinute
Capacity == Burst * Interval

ASSUME LimiterAssumption ==
    /\ Minute \in Nat /\ Second \in Nat \ {0} /\ MaxWait \in Nat /\ MaxNow \in Nat
    /\ PerMinute \in 1 .. Minute    \* New panics below 1

\* Readings reach the map less than one token late.
ASSUME WaitAssumption == MaxWait < Interval

VARIABLES
    now,       \* the clock
    full,      \* Memory.full: when each key's bucket is full again
    swept,     \* Memory.swept
    reading,   \* reading[c]: the attempt c has read the clock for, or Idle
    admitted,  \* admitted[k]: when each allowed attempt by k took its token
    answer     \* answer[k]: the last Decision given for k, and its reading

vars == <<now, full, swept, reading, admitted, answer>>

Idle == [key |-> "none", at |-> -1]
Unanswered == [at |-> -1, allowed |-> TRUE, remaining |-> 0, retryAfter |-> 0, resetAfter |-> 0]

Later(s, t) == IF s > t THEN s ELSE t

\* The clock the zero time of Memory.swept is read as: over a minute ago.
LongAgo == -Minute

-----------------------------------------------------------------------------
(* Memory.Take and Memory.sweep, as functions of the map and a reading t.  *)

\* Mutants of the definitions below: a sweep that forgets every bucket, one
\* that forgets none, an attempt that is not charged, the earlier of two times
\* taken for the later, and headers that round down.
KeptNone(t) == IF t - swept < Minute THEN DOMAIN full ELSE {}
FullAtEarlier(k, t) == IF k \in DOMAIN full /\ full[k] < t THEN full[k] ELSE t
KeptAll(t) == DOMAIN full
SpareBeforeTaking(k, t) ==
    Capacity - ((IF k \in DOMAIN full THEN Later(full[k], t) ELSE t) - t)
PartSeconds(d) == (d \div Second) * Second

\* sweep: which entries are left for an attempt that reads t.
Kept(t) ==
    IF t - swept < Minute THEN DOMAIN full ELSE {k \in DOMAIN full : full[k] > t}

\* When k's bucket is full again, seen at t: a key with no entry, and one
\* whose entry has passed, is full now.
FullAt(k, t) == IF k \in Kept(t) THEN Later(full[k], t) ELSE t

\* What is left of k's bucket after taking a token at t; below zero when
\* there was no whole token.
Spare(k, t) == Capacity - (FullAt(k, t) - t) - Interval

\* A length of time in whole seconds, rounded up, in units.
WholeSeconds(d) == ((d + Second - 1) \div Second) * Second

\* Limiter.Allow and setRateLimitHeaders, for an attempt with `spare` left.
Decision(t, spare) ==
    [at |-> t,
     allowed |-> spare >= 0,
     remaining |-> IF spare >= 0 THEN spare \div Interval ELSE 0,
     retryAfter |-> IF spare >= 0 THEN 0
                    ELSE WholeSeconds((-spare * Minute) \div (PerMinute * Interval)),
     resetAfter |-> LET left == IF spare >= 0 THEN spare ELSE Later(spare + Interval, 0)
                    IN WholeSeconds(((Capacity - left) * Minute) \div (PerMinute * Interval))]

-----------------------------------------------------------------------------
Init ==
    /\ now = 0
    /\ full = [k \in {} |-> 0]
    /\ swept = LongAgo
    /\ reading = [c \in Callers |-> Idle]
    /\ admitted = [k \in Keys |-> <<>>]
    /\ answer = [k \in Keys |-> Unanswered]

\* Time passes, but no reading gets older than MaxWait.
Tick ==
    /\ now < MaxNow
    /\ \A c \in Callers : reading[c] # Idle => now - reading[c].at < MaxWait
    /\ now' = now + 1
    /\ UNCHANGED <<full, swept, reading, admitted, answer>>

\* A caller reads the clock for an attempt by k.
ReadClock(c, k) ==
    /\ reading[c] = Idle
    /\ reading' = [reading EXCEPT ![c] = [key |-> k, at |-> now]]
    /\ UNCHANGED <<now, full, swept, admitted, answer>>

\* The caller has the mutex: sweep, then take a token if there is a whole one.
Take(c) ==
    LET k == reading[c].key
        t == reading[c].at
        spare == Spare(k, t)
    IN  /\ reading[c] # Idle
        /\ swept' = IF t - swept < Minute THEN swept ELSE t
        /\ IF spare >= 0
           THEN /\ full' = [x \in Kept(t) \cup {k} |->
                               IF x = k THEN FullAt(k, t) + Interval ELSE full[x]]
                /\ admitted' = [admitted EXCEPT ![k] = Append(@, now)]
           ELSE /\ full' = [x \in Kept(t) |-> full[x]]
                /\ UNCHANGED admitted
        /\ answer' = [answer EXCEPT ![k] = Decision(t, spare)]
        /\ reading' = [reading EXCEPT ![c] = Idle]
        /\ UNCHANGED now

\* The process restarts: the map is in memory, so every bucket is full, and
\* attempts in progress are lost.  The histories start again with it.
Restart ==
    /\ full' = [k \in {} |-> 0]
    /\ swept' = LongAgo
    /\ reading' = [c \in Callers |-> Idle]
    /\ admitted' = [k \in Keys |-> <<>>]
    /\ answer' = [k \in Keys |-> Unanswered]
    /\ UNCHANGED now

Next ==
    \/ Tick
    \/ \E c \in Callers, k \in Keys : ReadClock(c, k)
    \/ \E c \in Callers : Take(c)
    \/ Restart

Spec == Init /\ [][Next]_vars

-----------------------------------------------------------------------------
(* Properties.                                                             *)

\* Every variable stays in its domain; an entry is never further ahead of
\* the clock than a whole bucket.
TypeOK ==
    /\ now \in Nat
    /\ DOMAIN full \subseteq Keys
    /\ full \in [DOMAIN full -> Int]
    /\ \A k \in DOMAIN full : full[k] <= now + Capacity
    /\ swept \in Int /\ swept <= now
    /\ reading \in [Callers -> {Idle} \cup [key : Keys, at : Nat]]
    /\ \A c \in Callers : reading[c] # Idle =>
            reading[c].at \in 0 .. now /\ now - reading[c].at <= MaxWait
    /\ admitted \in [Keys -> Seq(Nat)]

\* What each allowed attempt is charged at the least, when readings may be
\* MaxWait old.  With none late it is Interval.
Charge == Interval - MaxWait

\* "New allows each key perMinute attempts a minute, all of them at once if it
\* has been quiet for a minute" (limiter.go:41): between any two allowed
\* attempts i and j of a key, inclusive, no more were allowed than a full
\* bucket and what it gained meanwhile pay for, whatever the sweep forgot in
\* between and in whatever order the readings reached the map.
AttemptsBounded ==
    \A k \in Keys : \A i, j \in 1 .. Len(admitted[k]) :
        i <= j => (j - i + 1) * Charge <= Capacity + (admitted[k][j] - admitted[k][i])

\* Memory.full "holds only keys that took a token in the last minute or so"
\* (memory.go:17): every entry's key was last allowed less than a minute
\* before the last sweep, so an address that stops signing in is forgotten.
MapHoldsRecentKeys ==
    \A k \in DOMAIN full :
        /\ admitted[k] # <<>>
        /\ admitted[k][Len(admitted[k])] + Minute > swept

\* The headers keep their word (auth.go:143-168): an attempt read no earlier
\* than the last answered one is allowed while RateLimit-Remaining said so and
\* leaves at most one fewer, is allowed once Retry-After has passed, and finds
\* a full bucket once RateLimit-Reset has passed (and MaxWait: an answer to a
\* reading that reached the map late says so little too soon).
HeadersHonest ==
    [][\A k \in Keys :
        LET old == answer[k]
            new == answer'[k]
        IN  new # old /\ new # Unanswered /\ old # Unanswered /\ new.at >= old.at =>
            /\ old.remaining > 0 => new.allowed /\ new.remaining >= old.remaining - 1
            /\ new.at >= old.at + old.retryAfter /\ ~old.allowed => new.allowed
            /\ new.at >= old.at + old.resetAfter + MaxWait =>
                   new.allowed /\ new.remaining = Burst - 1
      ]_answer

\* The map as a token bucket per key: what each bucket holds now, and how many
\* tokens it gave.
Level(k) == Capacity - (FullAt(k, now) - now)
Levels == [k \in Keys |-> Level(k)]
Counts == [k \in Keys |-> Len(admitted[k])]
Bucket == INSTANCE TokenBucket WITH level <- Levels, admitted <- Counts, MaxLate <- MaxWait

\* limiter.go:1-3: the limiter behaves as a token bucket per key, in which an
\* attempt that reaches the map late costs at most that much less than a token.
ImplementsTokenBucket == Bucket!Spec
=============================================================================
