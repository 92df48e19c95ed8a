------------------------------ MODULE Delivery ------------------------------
(***************************************************************************)
(* What the events table and the collector promise each other: "All events *)
(* from one request are stored in one transaction" (architecture.md), and  *)
(* a batch is sent until it is known to be.  There are no requests, no     *)
(* chunks, no savepoints and no crashes here: Ingest.tla shows that those  *)
(* implement this module.                                                  *)
(*                                                                         *)
(* A sender that does not learn what became of a batch is in doubt, and    *)
(* only a doubt pays for one more copy of what is stored already.          *)
(***************************************************************************)
EXTENDS Integers

CONSTANTS
    Batches,
    Items,  \* Items[b]: the records of batch b
    Must,   \* Must[b]: those of them that can always be stored
    May     \* May[b]: those of them that can be stored at times, and Must[b]

VARIABLES
    rows,   \* rows[b][i]: how many rows hold record i of batch b
    done,   \* the batches that the sender need not send again
    doubts  \* doubts[b]: how often the sender did not learn the fate of b

vars == <<rows, done, doubts>>

Init ==
    /\ rows = [b \in Batches |-> [i \in Items[b] |-> 0]]
    /\ done = {}
    /\ doubts = [b \in Batches |-> 0]

\* A batch is stored at once, and whole but for what can't be: a row more of
\* each record of S, of which there were none, or one for each doubt.
\* That it was stored may itself be what the sender does not learn.
Store(b, S) ==
    /\ Must[b] \subseteq S
    /\ doubts' \in {doubts, [doubts EXCEPT ![b] = @ + 1]}
    /\ \A i \in S : rows[b][i] <= doubts'[b]
    /\ rows' = [rows EXCEPT ![b] = [i \in Items[b] |-> IF i \in S THEN @[i] + 1 ELSE @[i]]]
    /\ UNCHANGED done

\* The sender is told that the batch is stored, when it is.
Confirm(b) ==
    /\ \A i \in Must[b] : rows[b][i] > 0
    /\ done' = done \cup {b}
    /\ UNCHANGED <<rows, doubts>>

\* Answers about the batches B are lost; each of them will be sent again.
Doubt(B) ==
    /\ B \cap done = {}
    /\ doubts' = [b \in Batches |-> IF b \in B THEN doubts[b] + 1 ELSE doubts[b]]
    /\ UNCHANGED <<rows, done>>

Next ==
    \/ \E b \in Batches : \E S \in SUBSET May[b] : Store(b, S)
    \/ \E b \in Batches : Confirm(b)
    \/ \E B \in SUBSET Batches : Doubt(B)

Spec == Init /\ [][Next]_vars
=============================================================================
