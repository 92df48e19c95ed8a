--------------------------- MODULE MCEventSearch ---------------------------
(* Small searches and counts of EventSearch and EventCounts for TLC.       *)
EXTENDS EventCounts

Event(t, k, at, n) == [tenant |-> t, kind |-> k, ts |-> at, copy |-> n]

\* Two events of one time, one between, one ahead and one of another tenant.
FewEvents ==
    {Event("demo", "login", 1, 1), Event("demo", "login", 1, 2),
     Event("demo", "traffic", 2, 1), Event("prod", "login", 2, 1), Event("demo", "login", 3, 1)}

Query(c, t, k, o, f, n) ==
    [caller |-> c, tenant |-> t, kinds |-> k, order |-> o, from |-> f, to |-> Unset, limit |-> n]

All == {"login", "traffic"}
FewQueries ==
    {Query(Admin, AnyTenant, All, "desc", Unset, 1), Query(Admin, AnyTenant, All, "asc", Unset, 2),
     Query(Admin, "demo", All, "desc", Unset, 1), Query("demo", AnyTenant, All, "desc", Unset, 2),
     Query("demo", AnyTenant, All, "desc", 1, 1), Query("demo", "demo", {"login"}, "asc", Unset, 1),
     Query("prod", "demo", All, "desc", Unset, 1)}

\* Counts by widths 1, 2 and 4 over windows that start and end anywhere in them.
Count(c, t, k, f, to, name, field, n) ==
    [query |-> [Query(c, t, k, "desc", f, 1) EXCEPT !.to = to],
     interval |-> name, field |-> field, limit |-> n]
FewCounts ==
    {Count(Admin, AnyTenant, All, 1, 5, 2, "event_type", 1),
     Count(Admin, AnyTenant, All, 0, 4, 1, "event_type", 2),
     Count("demo", AnyTenant, All, Unset, Unset, NoName, "user", 1),
     Count("demo", AnyTenant, {"login"}, 1, 6, NoName, "event_type", 2),
     Count("prod", "demo", All, 0, 4, 1, "user", 1),
     Count(Admin, AnyTenant, All, 0, 9, 3, "user", 2),
     Count(Admin, "demo", All, 3, Unset, 4, "event_type", 2)}
FewWidths == <<1, 2, 4>>
FewValues == [event_type |-> [login |-> 1, traffic |-> 2], user |-> [login |-> 1, traffic |-> NoValue]]
=============================================================================
