----------------------------- MODULE MCAlerting -----------------------------
(* Small schedules of Alerting for TLC: a minute is two units.             *)
EXTENDS Alerting

Rule(t, n, minutes, hook) ==
    [tenant |-> t, kinds |-> {"failure"}, threshold |-> n,
     window |-> minutes * Minute, cooldown |-> minutes * Minute, webhook |-> hook]

Event(t, at, n) == [tenant |-> t, kind |-> "failure", key |-> 1, ts |-> at, copy |-> n]

\* A rule of two events in two minutes, and another tenant's of one event.
TwoTenants == {"demo", "prod"}
TwoTenantRules == {Rule("demo", 2, 2, FALSE), Rule("prod", 1, 1, TRUE)}
TwoTenantEvents ==
    {Event("demo", 1, 1), Event("demo", 3, 1), Event("demo", 4, 1), Event("prod", 3, 1)}

\* One burst that straddles the end of a window.
OneTenant == {"demo"}
OneRule == {Rule("demo", 2, 2, FALSE)}
OneBurst == {Event("demo", 1, 1), Event("demo", 1, 2), Event("demo", 3, 1), Event("demo", 3, 2)}
=============================================================================
