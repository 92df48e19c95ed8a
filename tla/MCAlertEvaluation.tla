------------------------- MODULE MCAlertEvaluation -------------------------
(* Small rules and events of AlertEvaluation for TLC.                      *)
EXTENDS AlertEvaluation

\* A rule of tenant t that fires on n events in a window of two minutes.
Rule(name, t, n, hook) ==
    [name |-> name, tenant |-> t, kinds |-> {"failure"}, threshold |-> n,
     window |-> 2, cooldown |-> 2, webhook |-> hook]

Event(t, k, at, n) == [tenant |-> t, kind |-> "failure", key |-> k, ts |-> at, copy |-> n]

\* Two groups that are due together, for two evaluators of one rule.
TwoGroupRules == {Rule("one", "demo", 1, TRUE)}
TwoGroupEvents == {Event("demo", 1, 1, 1), Event("demo", 2, 1, 1)}

\* Two tenants' rules; events at both ends of a window, of another tenant,
\* of another kind and of no group.
EdgeRules == {Rule("two", "demo", 2, FALSE), Rule("other", "prod", 1, FALSE)}
EdgeEvents ==
    {Event("demo", 1, 0, 1), Event("demo", 1, 0, 2), Event("demo", 1, 2, 1), Event("demo", 1, 2, 2),
     Event("prod", 1, 3, 1), Event("demo", NoKey, 1, 1),
     [Event("demo", 1, 1, 1) EXCEPT !.kind = "success"]}
=============================================================================
