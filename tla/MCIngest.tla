------------------------------ MODULE MCIngest ------------------------------
(* Small batches of Ingest for TLC.                                        *)
EXTENDS Ingest, TLC

Rec(t, c) == [tenant |-> t, class |-> c]

\* One batch: more records of "demo" than a chunk, one of which the database
\* refuses, one the normalizer refuses, and one of a tenant that comes and goes.
OneBatch ==
    [b \in Batches |-> <<Rec("demo", "good"), Rec("demo", "unstorable"), Rec("prod", "good"),
                         Rec("demo", "bad"), Rec("demo", "good")>>]
=============================================================================
