---------------------------- MODULE TokenBucket ----------------------------
(***************************************************************************)
(* What package limiter promises (limiter.go, package comment): "a bucket  *)
(* holds up to burst tokens, gains perMinute of them a minute, and each    *)
(* attempt takes one".  A token is worth Interval units of time, and the   *)
(* level of a bucket is counted in those units, so that a bucket gains one *)
(* unit every unit of time.  There is no map, no sweep, no clock reading   *)
(* and no lock here: Limiter.tla shows that those implement this module,   *)
(* when an attempt that reaches the map up to MaxLate after it read the    *)
(* clock is taken to cost that much less than a token.                     *)
(***************************************************************************)
EXTENDS Integers

CONSTANTS
    Keys,      \* what is limited: client addresses
    Interval,  \* how long a bucket takes to gain one token, a positive number
    Burst,     \* how many tokens a full bucket holds, at least one
    MaxLate,   \* how late an attempt may be, less than Interval
    MaxNow     \* bound on the clock

VARIABLES
    now,       \* the clock
    level,     \* level[k]: the tokens in k's bucket, in units of time
    admitted   \* admitted[k]: how many attempts by k were allowed

vars == <<now, level, admitted>>

Capacity == Burst * Interval

Init ==
    /\ now = 0
    /\ level = [k \in Keys |-> Capacity]
    /\ admitted = [k \in Keys |-> 0]

\* Time passes, and every bucket that is not full gains.
Refill ==
    /\ now < MaxNow
    /\ now' = now + 1
    /\ level' = [k \in Keys |-> IF level[k] < Capacity THEN level[k] + 1 ELSE Capacity]
    /\ UNCHANGED admitted

\* An attempt that finds a whole token takes it; one that is late may have
\* missed the gain of a bucket that was full by then, and pays that much less.
\* A refused attempt takes nothing, and is a stuttering step.
Admit(k) ==
    /\ level[k] >= Interval
    /\ \E late \in 0 .. MaxLate : level' = [level EXCEPT ![k] = @ - (Interval - late)]
    /\ admitted' = [admitted EXCEPT ![k] = @ + 1]
    /\ UNCHANGED now

\* The buckets are kept in memory: a restart fills them.
Reset ==
    /\ level' = [k \in Keys |-> Capacity]
    /\ admitted' = [k \in Keys |-> 0]
    /\ UNCHANGED now

Next ==
    \/ Refill
    \/ \E k \in Keys : Admit(k)
    \/ Reset

Spec == Init /\ [][Next]_vars
=============================================================================
