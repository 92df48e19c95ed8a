---------------------------- MODULE AccessProofs ----------------------------
(***************************************************************************)
(* For any tenants, accounts and rows: the two layers agree, nobody sees   *)
(* past their tenant, and what a token gives ends.                         *)
(***************************************************************************)
EXTENDS Access, TLAPS

-----------------------------------------------------------------------------
(* What the policies grant.                                                *)

LEMMA Granted ==
    grants = {<<"anonymous", "health", "any", "read">>, <<"*", "health", "any", "read">>,
              <<"anonymous", "sessions", "any", "create">>, <<"*", "sessions", "any", "create">>,
              <<"admin", "events", "any", "read">>, <<"admin", "events", "any", "create">>,
              <<"viewer", "events", "own", "read">>, <<"collector", "events", "any", "create">>,
              <<"admin", "tenants", "any", "read">>, <<"viewer", "tenants", "own", "read">>,
              <<"admin", "alert_rules", "any", "read">>, <<"admin", "alert_rules", "any", "create">>,
              <<"viewer", "alert_rules", "own", "read">>,
              <<"admin", "alerts", "any", "read">>, <<"viewer", "alerts", "own", "read">>}
<1> DEFINE all == {Grant("anonymous", "any", "health", {"read"}),
                   Grant("*", "any", "health", {"read"}),
                   Grant("anonymous", "any", "sessions", {"create"}),
                   Grant("*", "any", "sessions", {"create"}),
                   Grant("admin", "any", "events", {"read", "create"}),
                   Grant("viewer", "own", "events", {"read"}),
                   Grant("collector", "any", "events", {"create"}),
                   Grant("admin", "any", "tenants", {"read"}),
                   Grant("viewer", "own", "tenants", {"read"}),
                   Grant("admin", "any", "alert_rules", {"read", "create"}),
                   Grant("viewer", "own", "alert_rules", {"read"}),
                   Grant("admin", "any", "alerts", {"read"}),
                   Grant("viewer", "own", "alerts", {"read"})}
<1>1. UNION {policies[feature] : feature \in DOMAIN policies} = all
  <2>1. DOMAIN policies = {"health", "sessions", "events", "tenants", "alerts"}
    BY DEF policies
  <2>2. UNION {policies[feature] : feature \in DOMAIN policies} =
        policies["health"] \cup policies["sessions"] \cup policies["events"]
            \cup policies["tenants"] \cup policies["alerts"]
    BY <2>1
  <2>3. QED
    BY <2>2 DEF policies
<1>2. grants = UNION {{<<p.role, p.resource, p.scope, a>> : a \in p.actions} : p \in all}
  BY <1>1 DEF grants
<1>3. QED
  BY <1>2 DEF Grant

\* Who may do what to any tenant, and who to their own.
LEMMA Rights ==
    ASSUME NEW c, c.role \in Roles, NEW resource \in Resources, NEW action \in Actions
    PROVE  /\ Allows(c, resource, "any", action) <=>
                \/ resource = "health" /\ action = "read"
                \/ resource = "sessions" /\ action = "create"
                \/ resource = "events" /\ action = "read" /\ c.role = "admin"
                \/ resource = "events" /\ action = "create" /\ c.role \in {"admin", "collector"}
                \/ resource = "alert_rules" /\ c.role = "admin"
                \/ resource \in {"alerts", "tenants"} /\ action = "read" /\ c.role = "admin"
           /\ Allows(c, resource, "own", action) <=>
                /\ c.role = "viewer" /\ action = "read"
                /\ resource \in {"events", "tenants", "alert_rules", "alerts"}
BY Granted DEF Allows, Authenticated, Roles, UserRoles, Resources, Actions

-----------------------------------------------------------------------------
(* What the two layers let through, for a caller there may be.             *)

\* An account's role and tenant go together.
UserOk(c) == \/ c.role = "admin" /\ c.tenant = ""
             \/ c.role = "viewer" /\ c.tenant \in Tenants
CallerOk(c) == c \in {Anonymous, Collector} \/ (c.user \in Emails /\ UserOk(c))

Rows == {r \in [table : Tables, tenant : Tenants, hook : BOOLEAN] : r.hook => r.table = "alert_rules"}

LEMMA CallerRole ==
    ASSUME NEW c, CallerOk(c)
    PROVE  /\ c.role \in Roles
           /\ c.role = "viewer" => c.tenant \in Tenants /\ c.tenant \in TenantIds /\ c.tenant # ""
           /\ c.role # "viewer" => c.tenant = ""
<1>1. CASE c = Anonymous
  BY <1>1 DEF Anonymous, Roles
<1>2. CASE c = Collector
  BY <1>2 DEF Collector, Roles
<1>3. CASE UserOk(c)
  <2>1. Tenants \subseteq TenantIds /\ "" \notin TenantIds
    BY AccessAssumption, TextAssumption
  <2>2. QED
    BY <1>3, <2>1 DEF UserOk, Roles, UserRoles
<1>4. QED
  BY <1>1, <1>2, <1>3 DEF CallerOk

LEMMA RangesAgree ==
    Windows \subseteq WindowsChecked /\ Cooldowns \subseteq CooldownsChecked /\ Windows \subseteq CooldownsChecked
<1>1. ASSUME NEW x \in Windows PROVE x \in WindowsChecked
  BY <1>1, SMT DEF Windows, WindowsChecked
<1>2. ASSUME NEW x \in Windows PROVE x \in CooldownsChecked
  BY <1>2, SMT DEF Windows, CooldownsChecked
<1>3. ASSUME NEW x \in Cooldowns PROVE x \in CooldownsChecked
  BY <1>3, SMT DEF Cooldowns, CooldownsChecked
<1>4. QED
  BY <1>1, <1>2, <1>3

\* A rule that passes the validation of its body passes the CHECKs.
LEMMA DecodedIsChecked ==
    ASSUME NEW b, Decodes(b), NEW r, r = NewRule(b)
    PROVE  Checked(r) /\ r.tenant = Text(b, "tenant")
<1>1. \A f \in RuleFields : Usable(b, f)
  BY DEF Decodes, Problems
<1>2. /\ r.tenant = Text(b, "tenant") /\ r.name = Text(b, "name")
      /\ r.source = RuleLower(Text(b, "source")) /\ r.event_type = Text(b, "event_type")
      /\ r.action = RuleLower(Text(b, "action")) /\ r.tags = Texts(b, "tags") \ {""}
      /\ r.webhook_url = Text(b, "webhook_url") /\ r.group_by = Text(b, "group_by")
  BY DEF NewRule
<1>3. /\ r.severity_min = IF Given(b, "severity_min") THEN {b["severity_min"].int} ELSE {}
      /\ r.threshold = b["threshold"].int /\ r.window_minutes = b["window_minutes"].int
      /\ r.cooldown_minutes = IF Given(b, "cooldown_minutes") THEN b["cooldown_minutes"].int
                              ELSE b["window_minutes"].int
  BY DEF NewRule
<1>4. r.tenant \in TenantIds
  <2>1. Usable(b, "tenant")
    BY <1>1 DEF RuleFields, RequiredRuleFields
  <2>2. QED
    BY <1>2, <2>1 DEF Usable
<1>5. r.name # "" /\ r.name \notin NulTexts
  <2>1. Usable(b, "name")
    BY <1>1 DEF RuleFields, RequiredRuleFields
  <2>2. QED
    BY <1>2, <2>1 DEF Usable
<1>6. r.source = "" \/ r.source \in RuleSources
  <2>1. Usable(b, "source")
    BY <1>1 DEF RuleFields
  <2>2. CASE Given(b, "source")
    BY <1>2, <2>1, <2>2 DEF Usable
  <2>3. CASE ~Given(b, "source")
    BY <1>2, <2>3, TextAssumption DEF Text, RuleLower
  <2>4. QED
    BY <2>2, <2>3
<1>7. r.event_type \notin NulTexts /\ r.action \notin NulTexts
  <2>1. Usable(b, "event_type") /\ Usable(b, "action")
    BY <1>1 DEF RuleFields
  <2>2. RuleText(Text(b, "event_type")) /\ RuleText(RuleLower(Text(b, "action")))
    BY <2>1 DEF Usable
  <2>3. QED
    BY <1>2, <2>2 DEF RuleText
<1>8. r.tags \cap NulTexts = {}
  <2>1. Usable(b, "tags")
    BY <1>1 DEF RuleFields
  <2>2. \A t \in Texts(b, "tags") : RuleText(t)
    BY <2>1 DEF Usable
  <2>3. QED
    BY <1>2, <2>2 DEF RuleText
<1>9. r.webhook_url \notin NulTexts
  <2>1. Usable(b, "webhook_url")
    BY <1>1 DEF RuleFields, RequiredRuleFields
  <2>2. QED
    BY <1>2, <2>1, TextAssumption DEF Usable
<1>10. r.group_by \in GroupBy
  <2>1. Usable(b, "group_by")
    BY <1>1 DEF RuleFields, RequiredRuleFields
  <2>2. QED
    BY <1>2, <2>1 DEF Usable
<1>11. r.severity_min \subseteq 0 .. 10
  <2>1. Usable(b, "severity_min")
    BY <1>1 DEF RuleFields, RequiredRuleFields
  <2>2. QED
    BY <1>3, <2>1 DEF Usable
<1>12. r.threshold >= 1
  <2>1. Usable(b, "threshold")
    BY <1>1 DEF RuleFields, RequiredRuleFields
  <2>2. QED
    BY <1>3, <2>1 DEF Usable
<1>13. r.window_minutes \in Windows
  <2>1. Usable(b, "window_minutes")
    BY <1>1 DEF RuleFields, RequiredRuleFields
  <2>2. QED
    BY <1>3, <2>1 DEF Usable
<1>14. r.cooldown_minutes \in CooldownsChecked
  <2>1. Usable(b, "cooldown_minutes")
    BY <1>1 DEF RuleFields
  <2>2. Given(b, "cooldown_minutes") => b["cooldown_minutes"].int \in Cooldowns
    BY <2>1 DEF Usable
  <2>3. QED
    BY <1>3, <1>13, <2>2, RangesAgree
<1>15. ({r.tenant, r.name, r.event_type, r.action, r.webhook_url} \cup r.tags) \cap NulTexts = {}
  BY <1>4, <1>5, <1>7, <1>8, <1>9, TextAssumption, ZenonT(60)
<1>16. Checked(r)
  BY <1>5, <1>6, <1>10, <1>11, <1>12, <1>13, <1>14, <1>15, RangesAgree DEF Checked
<1>17. QED
  BY <1>2, <1>16

\* The parts of an answer.
LEMMA Fields ==
    /\ \A rows : Stores(rows).code = "ok" /\ Stores(rows).stored = rows
    /\ \A code : Rejects(code).code = code /\ Rejects(code).stored = {}
    /\ \A rows : Answered(rows).code = "ok" /\ Answered(rows).shown = rows
    /\ \A code : Refused(code).code = code /\ Refused(code).shown = {}
BY DEF Stores, Rejects, Answered, Refused

LEMMA CreateAgrees ==
    ASSUME NEW c, CallerOk(c), NEW rows, NEW body
    PROVE  LET result == CreateAlertRule(rows, c, body) IN
           /\ result.code # "internal_error"
           /\ \A r \in result.stored : Can(c, "alert_rules", "create", r.tenant)
<1> DEFINE result == CreateAlertRule(rows, c, body)
<1>1. c.role \in Roles /\ "alert_rules" \in Resources /\ "create" \in Actions
  BY CallerRole DEF Resources, Actions
<1>2. CASE Empty(Scopes(c, "alert_rules", "create")) \/ ~Decodes(body)
           \/ ~Can(c, "alert_rules", "create", Text(body, "tenant"))
  BY <1>2 DEF CreateAlertRule, Rejects, Deny
<1>3. CASE /\ ~Empty(Scopes(c, "alert_rules", "create")) /\ Decodes(body)
           /\ Can(c, "alert_rules", "create", Text(body, "tenant"))
  <2>1. result = InsertRule(rows, ScopeOf(c), NewRule(body))
    BY <1>3 DEF CreateAlertRule
  <2>2. c.role = "admin"
    BY <1>1, <1>3, Rights DEF Can
  <2>3. Isolation(ScopeOf(c), NewRule(body).tenant) /\ Checked(NewRule(body))
    BY <1>3, <2>2, DecodedIsChecked DEF Isolation, ScopeOf
  <2>4. PICK row : /\ row.tenant = Text(body, "tenant")
                   /\ result = Rejects("unknown_tenant") \/ result = Stores({row})
    <3>1. \/ result = Rejects("unknown_tenant")
          \/ result = Stores({Row("alert_rules", Text(body, "tenant"), NewRule(body).webhook_url # "")})
      BY <1>3, <2>1, <2>3, DecodedIsChecked DEF InsertRule
    <3>2. Row("alert_rules", Text(body, "tenant"), NewRule(body).webhook_url # "").tenant = Text(body, "tenant")
      BY DEF Row
    <3>3. WITNESS Row("alert_rules", Text(body, "tenant"), NewRule(body).webhook_url # "")
    <3>4. QED
      BY <3>1, <3>2
  <2>5. \A r \in result.stored : r.tenant = Text(body, "tenant")
    BY <2>4, Fields
  <2>6. result.code # "internal_error"
    BY <2>4, Fields
  <2>7. QED
    BY <1>3, <2>5, <2>6
<1>4. QED
  BY <1>2, <1>3

LEMMA WhatIsSeen ==
    ASSUME NEW c, NEW r \in Rows
    PROVE  Seen(c, r) = Unhooked(c, r) /\ (r.table # "alert_rules" => Seen(c, r) = r)
<1>1. r.hook \in BOOLEAN /\ r = [r EXCEPT !.hook = r.hook]
  BY DEF Rows
<1>2. CASE Can(c, "alert_rules", "create", r.tenant)
  <2>1. (r.hook /\ Can(c, "alert_rules", "create", r.tenant)) = r.hook
    BY <1>1, <1>2
  <2>2. QED
    BY <1>1, <1>2, <2>1 DEF Seen, Unhooked
<1>3. CASE ~Can(c, "alert_rules", "create", r.tenant)
  <2>1. (r.hook /\ Can(c, "alert_rules", "create", r.tenant)) = FALSE
    BY <1>3
  <2>2. Seen(c, r) = [r EXCEPT !.hook = FALSE] /\ Unhooked(c, r) = [r EXCEPT !.hook = FALSE]
    BY <1>3, <2>1 DEF Seen, Unhooked
  <2>3. r.table # "alert_rules" => r.hook = FALSE
    BY <1>1 DEF Rows
  <2>4. QED
    BY <1>1, <2>2, <2>3
<1>4. QED
  BY <1>2, <1>3

LEMMA ListTables ==
    /\ DOMAIN Lists = {"search", "rules", "alerts", "tenants"}
    /\ Lists["search"] = "events" /\ Lists["rules"] = "alert_rules"
    /\ Lists["alerts"] = "alerts" /\ Lists["tenants"] = "tenants"
BY DEF Lists

\* A list shows the rows of the tenants its caller can read.
\* A list shows the rows Can lets the caller read, and else nothing.
ListAgrees(c, rows, op, asked) ==
    LET table == Lists[op]
        answer == Answer(rows, c, op, asked)
        reach == {t \in TenantIds : Can(c, table, "read", t)}
        seen == {r \in rows : r.table = table /\ r.tenant \in reach /\ asked \in {"", r.tenant}}
    IN  /\ answer.code = "ok" => answer.shown = {Seen(c, r) : r \in seen}
        /\ answer.code # "ok" => answer.shown = {}
        /\ answer.code = "ok" <=>
             /\ reach # {}
             /\ \/ asked \in {""} \cup reach
                \/ op = "search" /\ Can(c, table, "read", "") /\ asked \notin NulTexts

LEMMA ListsAgree ==
    ASSUME NEW c, CallerOk(c), NEW rows \in SUBSET Rows, NEW op \in DOMAIN Lists, NEW asked,
           asked # "" => op \in {"search", "rules", "alerts"}
    PROVE  ListAgrees(c, rows, op, asked)
<1> DEFINE table == Lists[op]
           answer == Answer(rows, c, op, asked)
           reach == {t \in TenantIds : Can(c, table, "read", t)}
           seen == {r \in rows : r.table = table /\ r.tenant \in reach /\ asked \in {"", r.tenant}}
           readable == Scopes(c, table, "read")
           found == Select(rows, ScopeOf(c), table, IF asked = "" THEN readable.one ELSE asked)
<1>1. /\ c.role \in Roles
      /\ c.role = "viewer" => c.tenant \in Tenants /\ c.tenant \in TenantIds /\ c.tenant # ""
      /\ c.role # "viewer" => c.tenant = ""
  BY CallerRole
<1>2. table \in {"events", "alert_rules", "alerts", "tenants"}
  BY ListTables
<1>3. /\ Allows(c, table, "any", "read") <=> c.role = "admin"
      /\ Allows(c, table, "own", "read") <=> c.role = "viewer"
  <2>1. table \in Resources /\ "read" \in Actions
    BY <1>2 DEF Resources, Actions
  <2>2. QED
    BY <1>1, <1>2, <2>1, Rights, ZenonT(60)
<1> HIDE DEF table
<1>4. /\ \A t \in TenantIds : t # ""
      /\ \A r \in rows : r.tenant \in TenantIds
      /\ TenantIds # {} /\ TenantIds \cap NulTexts = {} /\ "" \notin NulTexts
  BY TextAssumption, AccessAssumption DEF Rows
<1>5. /\ c.role = "admin" => readable.all /\ readable.one = "" /\ reach = TenantIds
      /\ c.role = "viewer" => ~readable.all /\ readable.one = c.tenant /\ reach = {c.tenant}
      /\ c.role \notin {"admin", "viewer"} => ~readable.all /\ readable.one = "" /\ reach = {}
  <2>1. CASE c.role = "admin"
    BY <1>1, <1>3, <2>1 DEF Scopes, Can
  <2>2. CASE c.role = "viewer"
    <3>1. reach = {c.tenant}
      BY <1>1, <1>3, <1>4, <2>2 DEF Can
    <3>2. QED
      BY <1>1, <1>3, <2>2, <3>1 DEF Scopes
  <2>3. CASE c.role \notin {"admin", "viewer"}
    BY <1>1, <1>3, <1>4, <2>3 DEF Scopes, Can
  <2>4. QED
    BY <2>1, <2>2, <2>3
<1>6. Can(c, table, "read", "") <=> c.role = "admin"
  BY <1>3 DEF Can
<1>7. c.role \in {"admin", "viewer"} /\ asked \in {""} \cup reach => found = seen
  BY <1>1, <1>4, <1>5 DEF Select, Isolation, ScopeOf
<1>8. c.role = "admin" /\ asked \notin {""} \cup reach => seen = {} /\ found = {}
  BY <1>4, <1>5 DEF Select
<1>9. ASSUME c.role \notin {"admin", "viewer"} PROVE answer = Refused(Deny(c)) /\ Deny(c) # "ok"
  <2>1. Empty(readable)
    BY <1>5, <1>9 DEF Empty
  <2>2. answer = Refused(Deny(c))
    BY <2>1, ListTables DEF Answer, Search, ListOf, ListTenants, table
  <2>3. Deny(c) # "ok"
    BY DEF Deny
  <2>4. QED
    BY <2>2, <2>3
<1>10. ASSUME c.role \in {"admin", "viewer"}, op # "tenants"
       PROVE  answer = IF asked # "" /\ ~Contains(readable, asked) THEN Refused("tenant_not_permitted")
                       ELSE IF asked # "" /\ asked \notin (IF op = "search" THEN {asked} \ NulTexts ELSE TenantIds)
                            THEN Refused("invalid_parameter")
                       ELSE Answered(IF op = "rules" THEN {Unhooked(c, r) : r \in found} ELSE found)
  <2>1. ~Empty(readable)
    BY <1>1, <1>5, <1>10 DEF Empty
  <2>2. CASE op = "search"
    BY <1>4, <2>1, <2>2, ListTables DEF Answer, Search, table
  <2>3. CASE op = "rules"
    BY <2>1, <2>3, ListTables DEF Answer, ListOf, table
  <2>4. CASE op = "alerts"
    BY <2>1, <2>4, ListTables DEF Answer, ListOf, table
  <2>5. QED
    BY <1>10, <2>2, <2>3, <2>4, ListTables
<1>11. ASSUME c.role \in {"admin", "viewer"}, op = "tenants"
       PROVE  answer = Answered(found)
  <2>1. ~Empty(readable)
    BY <1>1, <1>5, <1>11 DEF Empty
  <2>2. QED
    BY <1>11, <2>1, ListTables DEF Answer, ListTenants, table
<1>12. /\ op = "rules" => {Unhooked(c, r) : r \in seen} = {Seen(c, r) : r \in seen}
       /\ op # "rules" => seen = {Seen(c, r) : r \in seen}
  <2>1. \A r \in seen : r \in Rows /\ r.table = table
    OBVIOUS
  <2>2. op # "rules" => table # "alert_rules"
    BY ListTables DEF table
  <2>3. \A r \in seen : Seen(c, r) = Unhooked(c, r) /\ (op # "rules" => Seen(c, r) = r)
    BY <2>1, <2>2, WhatIsSeen
  <2>4. QED
    BY <2>3
<1>13. Contains(readable, asked) <=> c.role = "admin" \/ (c.role = "viewer" /\ asked = c.tenant)
  BY <1>1, <1>5 DEF Contains
<1> HIDE DEF answer, reach, seen, readable, found
<1>14. ASSUME c.role \in {"admin", "viewer"}, asked \in {""} \cup reach
       PROVE  answer = Answered({Seen(c, r) : r \in seen})
  <2>1. found = seen
    BY <1>7, <1>14
  <2>2. asked # "" => Contains(readable, asked) /\ asked \in TenantIds /\ asked \notin NulTexts
    BY <1>1, <1>4, <1>5, <1>13, <1>14
  <2>3. CASE op = "tenants"
    BY <1>11, <1>12, <1>14, <2>1, <2>3
  <2>4. CASE op # "tenants"
    BY <1>10, <1>12, <1>14, <2>1, <2>2, <2>4
  <2>5. QED
    BY <2>3, <2>4
<1>15. ASSUME c.role = "admin", asked \notin {""} \cup reach
       PROVE  /\ op = "search" /\ asked \notin NulTexts => answer = Answered({Seen(c, r) : r \in seen})
              /\ ~(op = "search" /\ asked \notin NulTexts) => answer = Refused("invalid_parameter")
  <2>1. found = {} /\ seen = {} /\ op # "tenants" /\ asked # "" /\ asked \notin TenantIds
    BY <1>5, <1>8, <1>15, ListTables
  <2>2. Contains(readable, asked)
    BY <1>13, <1>15
  <2>3. op # "rules" => answer = IF asked \notin (IF op = "search" THEN {asked} \ NulTexts ELSE TenantIds)
                                THEN Refused("invalid_parameter") ELSE Answered(found)
    BY <1>10, <1>15, <2>1, <2>2
  <2>4. op = "rules" => answer = Refused("invalid_parameter")
    BY <1>10, <1>15, <2>1, <2>2
  <2>5. {Seen(c, r) : r \in seen} = found
    BY <2>1
  <2>6. QED
    BY <2>1, <2>3, <2>4, <2>5
<1>16. ASSUME c.role = "viewer", asked \notin {""} \cup reach PROVE answer = Refused("tenant_not_permitted")
  <2>1. asked # "" /\ op # "tenants" /\ ~Contains(readable, asked)
    BY <1>1, <1>5, <1>13, <1>16, ListTables
  <2>2. QED
    BY <1>10, <1>16, <2>1
<1>17. reach # {} <=> c.role \in {"admin", "viewer"}
  BY <1>4, <1>5
<1>18. /\ answer.code = "ok" => answer.shown = {Seen(c, r) : r \in seen}
       /\ answer.code # "ok" => answer.shown = {}
       /\ answer.code = "ok" <=>
            /\ reach # {}
            /\ \/ asked \in {""} \cup reach
               \/ op = "search" /\ Can(c, table, "read", "") /\ asked \notin NulTexts
  <2>1. CASE c.role \notin {"admin", "viewer"}
    BY <1>9, <1>17, <2>1, Fields
  <2>2. CASE c.role \in {"admin", "viewer"} /\ asked \in {""} \cup reach
    BY <1>14, <1>17, <2>2, Fields, ZenonT(60)
  <2>3. CASE c.role = "admin" /\ asked \notin {""} \cup reach
    <3>1. CASE op = "search" /\ asked \notin NulTexts
      <4>1. answer = Answered({Seen(c, r) : r \in seen})
        BY <1>15, <2>3, <3>1
      <4>2. answer.code = "ok" /\ answer.shown = {Seen(c, r) : r \in seen}
        BY <4>1, Fields
      <4>3. Can(c, table, "read", "")
        BY <1>6, <2>3
      <4>4. QED
        BY <1>17, <2>3, <3>1, <4>2, <4>3
    <3>2. CASE ~(op = "search" /\ asked \notin NulTexts)
      <4>1. answer.code # "ok" /\ answer.shown = {}
        <5>1. answer = Refused("invalid_parameter")
          BY <1>15, <2>3, <3>2
        <5>2. Refused("invalid_parameter").code = "invalid_parameter" /\ Refused("invalid_parameter").shown = {}
          BY Fields
        <5>3. QED
          BY <5>1, <5>2
      <4>2. QED
        BY <2>3, <3>2, <4>1
    <3>3. QED
      BY <3>1, <3>2
  <2>4. CASE c.role = "viewer" /\ asked \notin {""} \cup reach
    <3>1. answer.code # "ok" /\ answer.shown = {}
      <4>1. answer = Refused("tenant_not_permitted")
        BY <1>16, <2>4
      <4>2. /\ Refused("tenant_not_permitted").code = "tenant_not_permitted"
            /\ Refused("tenant_not_permitted").shown = {}
        BY Fields
      <4>3. QED
        BY <4>1, <4>2
    <3>2. ~Can(c, table, "read", "")
      BY <1>6, <2>4
    <3>3. QED
      BY <2>4, <3>1, <3>2
  <2>5. QED
    BY <2>1, <2>2, <2>3, <2>4
<1>19. QED
  BY <1>18 DEF table, answer, reach, seen, ListAgrees

\* To a viewer or to nobody the other tenants might as well not be there.
LEMMA AnswersIsolated ==
    ASSUME NEW c, CallerOk(c), c.role \in {"viewer", "anonymous"}, NEW rows,
           NEW op \in {"health"} \cup DOMAIN Lists, NEW asked
    PROVE  Answer(rows, c, op, asked) = Answer(Own(rows, c.tenant), c, op, asked)
<1>1. /\ c.role \in Roles
      /\ c.role = "viewer" => c.tenant # ""
  BY CallerRole
<1>2. op \in {"health", "search", "rules", "alerts", "tenants"}
  BY ListTables
<1>3. ASSUME NEW table \in {"events", "alert_rules", "alerts", "tenants"}
      PROVE  LET readable == Scopes(c, table, "read") IN
             /\ c.role = "viewer" => ~readable.all /\ readable.one = c.tenant
             /\ c.role = "anonymous" => Empty(readable)
  <2>1. table \in Resources /\ "read" \in Actions
    BY DEF Resources, Actions
  <2>2. /\ ~Allows(c, table, "any", "read")
        /\ Allows(c, table, "own", "read") <=> c.role = "viewer"
    BY <1>1, <2>1, Rights
  <2>3. QED
    BY <2>2 DEF Scopes, Empty
<1>4. CASE c.role = "anonymous"
  BY <1>2, <1>3, <1>4 DEF Answer, Health, Search, ListOf, ListTenants
<1>5. CASE c.role = "viewer"
  <2>1. ASSUME NEW table
        PROVE  Select(rows, ScopeOf(c), table, c.tenant) = Select(Own(rows, c.tenant), ScopeOf(c), table, c.tenant)
    BY <1>1, <1>5 DEF Select, Own
  <2>2. ASSUME NEW table \in {"events", "alert_rules", "alerts", "tenants"}
        PROVE  Contains(Scopes(c, table, "read"), asked) => asked = c.tenant
    BY <1>3, <1>5 DEF Contains
  <2>3. CASE op = "health"
    BY <2>3 DEF Answer, Health
  <2>4. CASE op = "search"
    <3>1. Search(rows, c, asked) = Search(Own(rows, c.tenant), c, asked)
      BY <1>3, <1>5, <2>1, <2>2 DEF Search
    <3>2. QED
      BY <2>4, <3>1 DEF Answer
  <2>5. ASSUME NEW table \in {"alert_rules", "alerts"}
        PROVE  ListOf(rows, c, table, asked) = ListOf(Own(rows, c.tenant), c, table, asked)
    BY <1>3, <1>5, <2>1, <2>2 DEF ListOf
  <2>6. CASE op = "rules"
    BY <2>5, <2>6 DEF Answer
  <2>7. CASE op = "alerts"
    BY <2>5, <2>7 DEF Answer
  <2>8. CASE op = "tenants"
    <3>1. ListTenants(rows, c) = ListTenants(Own(rows, c.tenant), c)
      BY <1>3, <1>5, <2>1 DEF ListTenants
    <3>2. QED
      BY <2>8, <3>1 DEF Answer
  <2>9. QED
    BY <1>2, <2>3, <2>4, <2>6, <2>7, <2>8
<1>6. QED
  BY <1>4, <1>5

LEMMA WritesIsolated ==
    ASSUME NEW c, CallerOk(c), c.role \in {"viewer", "anonymous"}, NEW rows, NEW body, NEW batch
    PROVE  /\ CreateAlertRule(rows, c, body) = CreateAlertRule(Own(rows, c.tenant), c, body)
           /\ Ingest(rows, c, batch) = Ingest(Own(rows, c.tenant), c, batch)
<1>1. c.role \in Roles /\ {"events", "alert_rules"} \subseteq Resources /\ "create" \in Actions
  BY CallerRole DEF Resources, Actions
<1>2. \A resource \in {"events", "alert_rules"} :
        ~Allows(c, resource, "any", "create") /\ ~Allows(c, resource, "own", "create")
  BY <1>1, Rights
<1>3. Empty(Scopes(c, "alert_rules", "create")) /\ Empty(Scopes(c, "events", "create"))
  BY <1>2 DEF Empty, Scopes
<1>4. QED
  BY <1>3 DEF CreateAlertRule, Ingest

-----------------------------------------------------------------------------
(* The invariant: who a token and a request stand for, and since when.     *)

TokenOk ==
    token = NoToken \/
        /\ token.user \in Emails /\ UserOk(token) /\ token.exp \in Int
        /\ token.exp <= now + TokenTTL
        /\ token.exp <= held[Id(token)] + TokenTTL + SignInWait

\* A caller with an account.
Named(c) == c.user # ""

AskedOk ==
    request.phase = "open" => request.asked = "" \/ request.op \in {"search", "rules", "alerts"}

OpenOk ==
    request.phase = "open" =>
        /\ request.op \in Operations
        /\ CallerOk(request.caller)
        /\ now - request.since <= RequestWait
        /\ Named(request.caller) => request.since < held[Id(request.caller)] + TokenTTL + SignInWait

FoundOk ==
    request.phase = "found" =>
        /\ request.caller.user \in Emails /\ UserOk(request.caller)
        /\ now - request.since <= SignInWait
        /\ request.since <= held[Id(request.caller)]

RequestOk ==
    request = Idle \/
        /\ request.phase \in {"open", "found"} /\ request.since \in 0 .. now
        /\ AskedOk /\ OpenOk /\ FoundOk

DataOk ==
    /\ now \in 0 .. MaxTime
    /\ users \in [Emails -> Users \cup {Gone}]
    /\ db \subseteq Storable

HeldOk == held \in [InUse(token, request) -> 0 .. now]

IInv == DataOk /\ HeldOk /\ TokenOk /\ RequestOk

LEMMA Numbers ==
    /\ TokenTTL \in Nat \ {0} /\ SignInWait \in Nat /\ RequestWait \in Nat /\ MaxTime \in Nat
BY AccessAssumption

LEMMA NobodyUnnamed == "" \notin Emails
BY AccessAssumption

LEMMA UsersFields ==
    /\ Admin.role = "admin" /\ Admin.tenant = ""
    /\ \A t : Viewer(t).role = "viewer" /\ Viewer(t).tenant = t
BY DEF Admin, Viewer

LEMMA InUseIs ==
    ASSUME NEW t, NEW r, NEW a
    PROVE  a \in InUse(t, r) <=> \/ t # NoToken /\ Named(t) /\ a = Id(t)
                                 \/ r # Idle /\ Named(r.caller) /\ a = Id(r.caller)
<1> DEFINE callers == (IF t = NoToken THEN {} ELSE {t}) \cup (IF r = Idle THEN {} ELSE {r.caller})
<1>1. \A x : x \in callers <=> (t # NoToken /\ x = t) \/ (r # Idle /\ x = r.caller)
  OBVIOUS
<1> HIDE DEF callers
<1>2. InUse(t, r) = {Id(c) : c \in {x \in callers : Named(x)}}
  BY DEF InUse, callers, Named
<1>3. a \in InUse(t, r) <=> \E c : c \in callers /\ Named(c) /\ a = Id(c)
  BY <1>2
<1>4. QED
  BY <1>1, <1>3

LEMMA NowIsNumber == ASSUME IInv PROVE now \in Nat
<1>1. now \in 0 .. MaxTime
  BY DEF IInv, DataOk
<1>2. QED
  BY <1>1, Numbers

\* What a step does to the history.
LEMMA Remembered ==
    ASSUME IInv, Remember, now' \in Nat, now <= now',
           \A a \in InUse(token', request') : a \in InUse(token, request) \/ users'[a[1]] = a[2]
    PROVE  /\ HeldOk'
           /\ \A a \in InUse(token', request') :
                /\ held'[a] \in 0 .. now'
                /\ a \in InUse(token, request) => held[a] \in 0 .. now /\ held[a] <= held'[a]
                /\ users'[a[1]] = a[2] => held'[a] = now'
<1>1. now \in Nat
  BY NowIsNumber, Numbers
<1>2. \A a \in InUse(token, request) : held[a] \in 0 .. now
  BY DEF IInv, HeldOk
<1>3. \A a \in InUse(token', request') :
        /\ users'[a[1]] = a[2] => held'[a] = now'
        /\ users'[a[1]] # a[2] => held'[a] = held[a]
  <2>1. held' = [a \in InUse(token', request') |-> IF users'[a[1]] = a[2] THEN now' ELSE held[a]]
    BY DEF Remember
  <2> DEFINE D == InUse(token', request')
             Same(a) == users'[a[1]] = a[2]
  <2> HIDE DEF D, Same
  <2>2. held' = [a \in D |-> IF Same(a) THEN now' ELSE held[a]]
    BY <2>1 DEF D, Same
  <2>3. \A a \in D : (Same(a) => held'[a] = now') /\ (~Same(a) => held'[a] = held[a])
    BY <2>2
  <2>4. QED
    BY <2>3 DEF D, Same
<1>4. \A a \in InUse(token', request') : held'[a] \in 0 .. now'
  BY <1>1, <1>2, <1>3
<1>5. HeldOk'
  BY <1>4 DEF HeldOk, Remember
<1>6. QED
  BY <1>1, <1>2, <1>3, <1>4, <1>5

\* A token that stays keeps its time.
LEMMA TokenStays ==
    ASSUME IInv, Remember, token' = token, now' \in Nat, now <= now',
           \A a \in InUse(token', request') : a \in InUse(token, request) \/ users'[a[1]] = a[2]
    PROVE  TokenOk'
<1>1. CASE token = NoToken
  BY <1>1 DEF TokenOk
<1>2. CASE token # NoToken
  <2>1. token.user \in Emails /\ Named(token)
    BY <1>2, NobodyUnnamed DEF IInv, TokenOk, Named
  <2>2. \A r : Id(token) \in InUse(token, r)
    BY <1>2, <2>1, InUseIs
  <2>3. held[Id(token)] <= held'[Id(token)] /\ held[Id(token)] \in Int /\ held'[Id(token)] \in Int
    BY <2>2, Remembered
  <2>4. now \in Int /\ TokenTTL \in Int /\ SignInWait \in Int
    BY NowIsNumber, Numbers
  <2>5. /\ token.exp \in Int /\ token.exp <= now + TokenTTL
        /\ token.exp <= held[Id(token)] + TokenTTL + SignInWait /\ UserOk(token)
    BY <1>2 DEF IInv, TokenOk
  <2>6. token.exp <= now' + TokenTTL /\ token.exp <= held'[Id(token)] + TokenTTL + SignInWait
    BY <2>3, <2>4, <2>5
  <2>7. Id(token)' = Id(token) /\ (UserOk(token) => UserOk(token)')
    BY DEF Id, UserOk
  <2>8. QED
    BY <2>1, <2>5, <2>6, <2>7 DEF TokenOk
<1>3. QED
  BY <1>1, <1>2

LEMMA RequestStays ==
    ASSUME IInv, Remember, token' = token, request' = request,
           now' = now \/ (now' = now + 1 /\ Waited(request))
    PROVE  RequestOk'
<1> DEFINE a == Id(request.caller)
<1>1. now \in Nat /\ now' \in Nat /\ now <= now'
  BY NowIsNumber
<1>2. CASE request = Idle
  BY <1>2 DEF RequestOk
<1>3. CASE request # Idle
  <2>1. /\ request.phase \in {"open", "found"} /\ request.since \in 0 .. now
        /\ AskedOk /\ OpenOk /\ FoundOk
    BY <1>3 DEF IInv, RequestOk
  <2>2. Named(request.caller) => held[a] \in 0 .. now /\ held'[a] \in 0 .. now' /\ held[a] <= held'[a]
    BY <1>1, <1>3, InUseIs, Remembered
  <2>3. request.since \in 0 .. now' /\ request.since \in Int /\ now \in Int /\ now' \in Int
    BY <1>1, <2>1
  <2>4. a' = a /\ (CallerOk(request.caller) => CallerOk(request.caller)')
        /\ (UserOk(request.caller) => UserOk(request.caller)')
    BY DEF Id, CallerOk, UserOk
  <2>5. request.phase = "open" => now' - request.since <= RequestWait
    BY <2>1, <2>3, Numbers DEF OpenOk, Waited
  <2>6. ASSUME request.phase = "open", Named(request.caller)
        PROVE  request.since < held'[a] + TokenTTL + SignInWait
    <3>1. request.since < held[a] + TokenTTL + SignInWait
      BY <2>1, <2>6 DEF OpenOk
    <3>2. held[a] \in Int /\ held'[a] \in Int /\ held[a] <= held'[a]
      BY <2>2, <2>6
    <3>3. QED
      BY <2>3, <3>1, <3>2, Numbers
  <2>7. OpenOk' /\ AskedOk'
    BY <2>1, <2>4, <2>5, <2>6 DEF OpenOk, AskedOk, Named
  <2>8. request.phase = "found" => now' - request.since <= SignInWait
    BY <2>1, <2>3, Numbers DEF FoundOk, Waited
  <2>9. ASSUME request.phase = "found" PROVE request.since <= held'[a]
    <3>1. Named(request.caller) /\ request.since <= held[a]
      BY <2>1, <2>9, NobodyUnnamed DEF FoundOk, Named
    <3>2. held[a] \in Int /\ held'[a] \in Int /\ held[a] <= held'[a]
      BY <2>2, <3>1
    <3>3. QED
      BY <2>3, <3>1, <3>2
  <2>10. FoundOk'
    BY <2>1, <2>4, <2>8, <2>9 DEF FoundOk
  <2>11. QED
    BY <2>1, <2>3, <2>7, <2>10 DEF RequestOk
<1>4. QED
  BY <1>2, <1>3

\* The clock, and what others do to the tables.
LEMMA AroundKeepsIInv ==
    ASSUME IInv, Remember,
           Tick \/ Seed \/ (\E m \in Emails : ChangeUser(m)) \/ \E t \in Tenants : Fire(t)
    PROVE  IInv'
<1>1. token' = token /\ request' = request
  BY DEF Tick, Seed, ChangeUser, Fire
<1>2. now' = now \/ (now' = now + 1 /\ Waited(request))
  BY DEF Tick, Seed, ChangeUser, Fire
<1>3. now' \in Nat /\ now <= now'
  BY <1>2, NowIsNumber
<1>4. TokenOk' /\ RequestOk' /\ HeldOk'
  BY <1>1, <1>2, <1>3, TokenStays, RequestStays, Remembered
<1>5. DataOk'
  <2>1. CASE Tick
    BY <2>1, NowIsNumber, Numbers DEF Tick, IInv, DataOk
  <2>2. CASE Seed
    <3>1. \A m \in DOMAIN DemoUsers : DemoUsers[m] \in Users
      <4>1. \A m \in DOMAIN DemoUsers : DemoUsers[m] \in {Admin} \cup {Viewer(t) : t \in DemoTenants}
        BY AccessAssumption
      <4>2. DemoTenants \subseteq Tenants
        BY AccessAssumption
      <4>3. QED
        BY <4>1, <4>2 DEF Users
    <3>2. users' \in [Emails -> Users \cup {Gone}]
      BY <2>2, <3>1 DEF Seed, IInv, DataOk
    <3>3. QED
      BY <2>2, <3>2 DEF Seed, IInv, DataOk
  <2>3. ASSUME NEW m \in Emails, ChangeUser(m) PROVE DataOk'
    BY <2>3 DEF ChangeUser, IInv, DataOk
  <2>4. ASSUME NEW t \in Tenants, Fire(t) PROVE DataOk'
    BY <2>4 DEF Fire, IInv, DataOk
  <2>5. QED
    BY <2>1, <2>2, <2>3, <2>4
<1>6. QED
  BY <1>4, <1>5 DEF IInv

\* A request ends; a handler may have stored rows.
LEMMA EndKeepsIInv ==
    ASSUME IInv, Remember, Finish \/ HandleCreate \/ HandleIngest PROVE IInv'
<1>1. /\ token' = token /\ request' = Idle /\ now' = now /\ users' = users
      /\ db' = db \/ db' \subseteq Storable
  BY DEF Finish, HandleCreate, HandleIngest, Store
<1>2. now' \in Nat /\ now <= now'
  BY <1>1, NowIsNumber
<1>3. \A a \in InUse(token', request') : a \in InUse(token, request)
  BY <1>1, InUseIs
<1>4. TokenOk' /\ HeldOk'
  BY <1>1, <1>2, <1>3, TokenStays, Remembered
<1>5. RequestOk'
  BY <1>1 DEF RequestOk
<1>6. DataOk'
  BY <1>1 DEF IInv, DataOk
<1>7. QED
  BY <1>4, <1>5, <1>6 DEF IInv

\* A request begins: a token that parses stands for its user a while longer.
LEMMA AuthenticateKeepsIInv ==
    ASSUME IInv, Remember, NEW op \in Operations, NEW cred \in Credentials, NEW asked \in AskedTenants,
           Authenticate(op, cred, asked)
    PROVE  IInv'
<1>1. /\ token' = token /\ now' = now /\ users' = users /\ db' = db /\ request = Idle /\ Known(cred)
      /\ request' = [phase |-> "open", op |-> op, asked |-> asked, caller |-> CallerOf(cred), since |-> now]
  BY DEF Authenticate
<1>2. asked = "" \/ op \in {"search", "rules", "alerts"}
  BY DEF Authenticate
<1>3. /\ request'.phase = "open" /\ request'.op = op /\ request'.asked = asked
      /\ request'.caller = CallerOf(cred) /\ request'.since = now
  BY <1>1
<1>4. now \in Nat /\ now' \in Nat /\ now <= now'
  BY <1>1, NowIsNumber
<1>5. \/ CallerOf(cred) \in {Anonymous, Collector} /\ ~Named(CallerOf(cred))
      \/ /\ token # NoToken /\ now < token.exp /\ CallerOf(cred) = Caller(token, token.user)
         /\ Named(CallerOf(cred)) /\ CallerOk(CallerOf(cred)) /\ Id(CallerOf(cred)) = Id(token) /\ Named(token)
  <2>1. CASE cred = "none"
    BY <2>1 DEF CallerOf, Anonymous, Named
  <2>2. CASE cred = "key"
    BY <2>2 DEF CallerOf, Collector, Named
  <2>3. CASE cred = "token"
    <3>1. token # NoToken /\ now < token.exp /\ CallerOf(cred) = Caller(token, token.user)
      BY <1>1, <2>3 DEF Known, Parses, CallerOf
    <3>2. token.user \in Emails /\ UserOk(token)
      BY <3>1 DEF IInv, TokenOk
    <3>3. /\ Caller(token, token.user).user = token.user /\ Caller(token, token.user).role = token.role
          /\ Caller(token, token.user).tenant = token.tenant
      BY DEF Caller
    <3>4. QED
      BY <3>1, <3>2, <3>3, NobodyUnnamed DEF Named, CallerOk, UserOk, Id
  <2>4. CASE cred = "junk"
    BY <1>1, <2>4 DEF Known
  <2>5. QED
    BY <2>1, <2>2, <2>3, <2>4 DEF Credentials
<1>6. \A a \in InUse(token', request') : a \in InUse(token, request)
  BY <1>1, <1>3, <1>5, InUseIs
<1>7. TokenOk' /\ HeldOk'
  BY <1>1, <1>4, <1>6, TokenStays, Remembered
<1>8. AskedOk'
  BY <1>2, <1>3 DEF AskedOk
<1>9. FoundOk'
  BY <1>3 DEF FoundOk
<1>10. CallerOk(CallerOf(cred))
  BY <1>5 DEF CallerOk
<1>11. Named(CallerOf(cred)) => now < held'[Id(CallerOf(cred))] + TokenTTL + SignInWait
  <2> SUFFICES ASSUME Named(CallerOf(cred)) PROVE now < held'[Id(token)] + TokenTTL + SignInWait
    BY <1>5
  <2>1. token # NoToken /\ now < token.exp /\ Named(token)
    BY <1>5
  <2>2. token.exp \in Int /\ token.exp <= held'[Id(token)] + TokenTTL + SignInWait
    BY <1>1, <1>7, <2>1 DEF TokenOk, Id
  <2>3. held'[Id(token)] \in Int
    BY <1>1, <1>4, <1>6, <2>1, InUseIs, Remembered
  <2>4. QED
    BY <1>4, <2>1, <2>2, <2>3, Numbers
<1>12. OpenOk'
  <2>1. now' - request'.since <= RequestWait
    BY <1>1, <1>3, <1>4, Numbers
  <2>2. QED
    BY <1>3, <1>10, <1>11, <2>1 DEF OpenOk, CallerOk, UserOk, Named, Id
<1>13. RequestOk'
  BY <1>1, <1>3, <1>4, <1>8, <1>9, <1>12 DEF RequestOk
<1>14. DataOk'
  BY <1>1 DEF IInv, DataOk
<1>15. QED
  BY <1>7, <1>13, <1>14 DEF IInv

\* Login reads the user, who is what they are at this moment.
LEMMA FindUserKeepsIInv ==
    ASSUME IInv, Remember, NEW m \in Emails, FindUser(m) PROVE IInv'
<1> DEFINE c == Caller(users[m], m)
<1>1. /\ token' = token /\ now' = now /\ users' = users /\ db' = db /\ users[m] # Gone
      /\ request' = [phase |-> "found", caller |-> c, since |-> now]
  BY DEF FindUser
<1>2. users[m] \in Users
  BY <1>1 DEF IInv, DataOk
<1>3. /\ c.user = m /\ UserOk(c) /\ Id(c) = <<m, users[m]>>
  <2>1. c.user = m /\ c.role = users[m].role /\ c.tenant = users[m].tenant
    BY DEF Caller
  <2>2. users[m] = Admin \/ \E t \in Tenants : users[m] = Viewer(t)
    BY <1>2 DEF Users
  <2>3. \E x, y : users[m] = [role |-> x, tenant |-> y]
    BY <2>2, Zenon DEF Admin, Viewer
  <2>4. users[m] = [role |-> users[m].role, tenant |-> users[m].tenant]
    BY <2>3
  <2>5. Id(c) = <<m, users[m]>>
    BY <2>1, <2>4 DEF Id
  <2>6. CASE users[m] = Admin
    <3>1. users[m].role = "admin" /\ users[m].tenant = ""
      BY <2>6, UsersFields
    <3>2. UserOk(c)
      BY <2>1, <3>1, Zenon DEF UserOk
    <3>3. QED
      BY <2>1, <2>5, <3>2
  <2>7. ASSUME NEW t \in Tenants, users[m] = Viewer(t) PROVE UserOk(c)
    <3>1. users[m].role = "viewer" /\ users[m].tenant = t
      BY <2>7, UsersFields
    <3>2. QED
      BY <2>1, <3>1, Zenon DEF UserOk
  <2>8. QED
    BY <2>1, <2>2, <2>5, <2>6, <2>7
<1>4. Named(c)
  BY <1>3, NobodyUnnamed DEF Named
<1> HIDE DEF c
<1>5. request'.phase = "found" /\ request'.caller = c /\ request'.since = now
  BY <1>1
<1>6. now \in Nat /\ now' \in Nat /\ now <= now' /\ now \in 0 .. now'
  BY <1>1, NowIsNumber
<1>7. users'[Id(c)[1]] = Id(c)[2]
  BY <1>1, <1>3
<1>8. \A a \in InUse(token', request') : a \in InUse(token, request) \/ users'[a[1]] = a[2]
  <2>1. \A a \in InUse(token', request') : a \in InUse(token, request) \/ a = Id(c)
    BY <1>1, <1>5, InUseIs
  <2>2. QED
    BY <1>7, <2>1
<1>9. TokenOk' /\ HeldOk'
  BY <1>1, <1>6, <1>8, TokenStays, Remembered
<1>10. held'[Id(c)] = now'
  <2>1. request' # Idle
    BY <1>5 DEF Idle
  <2>2. Id(c) \in InUse(token', request')
    BY <1>4, <1>5, <2>1, InUseIs
  <2>3. QED
    BY <1>6, <1>7, <1>8, <2>2, Remembered
<1>11. FoundOk'
  <2>1. now' - now <= SignInWait /\ now <= now'
    BY <1>1, <1>6, Numbers
  <2>2. QED
    BY <1>3, <1>5, <1>10, <2>1 DEF FoundOk, UserOk, Id
<1>12. RequestOk'
  BY <1>5, <1>6, <1>11 DEF RequestOk, AskedOk, OpenOk
<1>13. DataOk'
  BY <1>1 DEF IInv, DataOk
<1>14. QED
  BY <1>9, <1>12, <1>13 DEF IInv

\* Login issues a token to who the user was a moment ago.
LEMMA IssueKeepsIInv ==
    ASSUME IInv, Remember, Issue PROVE IInv'
<1> DEFINE c == request.caller
           a == Id(request.caller)
<1>1. /\ now' = now /\ users' = users /\ db' = db /\ request' = Idle
      /\ token' = Issued(c) /\ request.phase = "found"
  BY DEF Issue
<1>2. request # Idle
  BY <1>1 DEF Idle
<1>3. /\ request.since \in 0 .. now
      /\ c.user \in Emails /\ UserOk(c)
      /\ now - request.since <= SignInWait /\ request.since <= held[a]
  BY <1>1, <1>2 DEF IInv, RequestOk, FoundOk
<1>4. /\ Issued(c).user = c.user /\ Issued(c).role = c.role /\ Issued(c).tenant = c.tenant
      /\ Issued(c).exp = now + TokenTTL
  BY DEF Issued
<1>5. now \in Nat /\ now' \in Nat /\ now <= now'
  BY <1>1, NowIsNumber
<1>6. Named(c) /\ Named(Issued(c)) /\ Id(Issued(c)) = a
  BY <1>3, <1>4, NobodyUnnamed DEF Named, Id
<1>7. a \in InUse(token, request)
  BY <1>2, <1>6, InUseIs
<1>8. \A x \in InUse(token', request') : x = a
  BY <1>1, <1>6, InUseIs
<1>9. a \in InUse(token', request')
  <2>1. token' # NoToken
    BY <1>1, <1>4 DEF NoToken, Issued
  <2>2. QED
    BY <1>1, <1>6, <2>1, InUseIs
<1>10. /\ HeldOk' /\ held[a] \in 0 .. now /\ held'[a] \in 0 .. now' /\ held[a] <= held'[a]
  BY <1>5, <1>7, <1>8, <1>9, Remembered
<1>11. /\ now + TokenTTL \in Int /\ now + TokenTTL <= now' + TokenTTL
       /\ now + TokenTTL <= held'[a] + TokenTTL + SignInWait
  BY <1>1, <1>3, <1>5, <1>10, Numbers
<1>12. TokenOk'
  <2>1. token'.user \in Emails /\ token'.exp = now + TokenTTL /\ Id(token)' = a
    BY <1>1, <1>3, <1>4, <1>6 DEF Id
  <2>2. UserOk(token)'
    BY <1>1, <1>3, <1>4 DEF UserOk
  <2>3. QED
    BY <1>11, <2>1, <2>2 DEF TokenOk
<1>13. RequestOk' /\ DataOk'
  BY <1>1 DEF RequestOk, IInv, DataOk
<1>14. QED
  BY <1>10, <1>12, <1>13 DEF IInv

-----------------------------------------------------------------------------
(* The theorems.                                                           *)

LEMMA InitIInv == Init => IInv
<1> SUFFICES ASSUME Init PROVE IInv
  OBVIOUS
<1>1. token = NoToken /\ request = Idle /\ held = <<>> /\ now = 0
  BY DEF Init
<1>2. InUse(token, request) = {}
  BY <1>1, InUseIs
<1>3. HeldOk
  BY <1>1, <1>2 DEF HeldOk
<1>4. DataOk
  BY <1>1, Numbers DEF Init, DataOk
<1>5. QED
  BY <1>1, <1>3, <1>4 DEF IInv, TokenOk, RequestOk

LEMMA NextKeepsIInv == IInv /\ [Next]_vars => IInv'
<1> SUFFICES ASSUME IInv, [Next]_vars PROVE IInv'
  OBVIOUS
<1>1. CASE UNCHANGED vars
  BY <1>1 DEF vars, IInv, DataOk, HeldOk, TokenOk, RequestOk, AskedOk, OpenOk, FoundOk,
              InUse, Id, Named, UserOk, CallerOk
<1>2. ASSUME Step, Remember PROVE IInv'
  <2>1. CASE Tick \/ Seed \/ (\E m \in Emails : ChangeUser(m)) \/ \E t \in Tenants : Fire(t)
    BY <1>2, <2>1, AroundKeepsIInv
  <2>2. CASE Finish \/ HandleCreate \/ HandleIngest
    BY <1>2, <2>2, EndKeepsIInv
  <2>3. ASSUME NEW op \in Operations, NEW cred \in Credentials, NEW asked \in AskedTenants,
               Authenticate(op, cred, asked)
        PROVE  IInv'
    BY <1>2, <2>3, AuthenticateKeepsIInv
  <2>4. ASSUME NEW m \in Emails, FindUser(m) PROVE IInv'
    BY <1>2, <2>4, FindUserKeepsIInv
  <2>5. CASE Issue
    BY <1>2, <2>5, IssueKeepsIInv
  <2>6. QED
    BY <1>2, <2>1, <2>2, <2>3, <2>4, <2>5 DEF Step
<1>3. QED
  BY <1>1, <1>2 DEF Next

LEMMA Inductive == Spec => []IInv
BY InitIInv, NextKeepsIInv, PTL DEF Spec

\* A request in a handler's hands is one authentication let through.
LEMMA InHand ==
    ASSUME IInv, request.phase = "open"
    PROVE  /\ request # Idle /\ request.since \in 0 .. now
           /\ request.op \in Operations /\ CallerOk(request.caller)
           /\ request.asked = "" \/ request.op \in {"search", "rules", "alerts"}
<1>1. request # Idle
  BY DEF Idle
<1>2. QED
  BY <1>1 DEF IInv, RequestOk, OpenOk, AskedOk

\* Users, rows, the token and the request are well formed in every state, and
\* no caller is one the policies do not know or checkUser would refuse.
THEOREM TypeCorrect == Spec => []TypeOK
<1>1. IInv => TypeOK
  <2> SUFFICES ASSUME IInv PROVE TypeOK
    OBVIOUS
  <2>1. \A c : UserOk(c) => CheckUser(c)
    <3>1. \A t \in Tenants : t # ""
      BY AccessAssumption, TextAssumption
    <3>2. QED
      BY <3>1 DEF UserOk, CheckUser
  <2>2. db \in SUBSET [table : Tables, tenant : Tenants, hook : BOOLEAN]
    BY AccessAssumption DEF IInv, DataOk
  <2>3. now \in 0 .. MaxTime /\ users \in [Emails -> Users \cup {Gone}]
    BY DEF IInv, DataOk
  <2>4. held \in [InUse(token, request) -> 0 .. now]
    BY DEF IInv, HeldOk
  <2>5. token # NoToken => token.user \in Emails /\ CheckUser(token) /\ token.exp <= now + TokenTTL
    BY <2>1 DEF IInv, TokenOk
  <2>6. CASE request = Idle
    <3>1. request.phase = "idle"
      BY <2>6 DEF Idle
    <3>2. QED
      BY <2>2, <2>3, <2>4, <2>5, <2>6, <3>1 DEF TypeOK
  <2>7. CASE request # Idle
    <3>1. request.phase \in {"open", "found"} /\ request.since \in 0 .. now /\ OpenOk /\ FoundOk
      BY <2>7 DEF IInv, RequestOk
    <3>2. \/ request.caller \in {Anonymous, Collector}
          \/ request.caller.user \in Emails /\ CheckUser(request.caller)
      BY <2>1, <3>1 DEF OpenOk, FoundOk, CallerOk
    <3>3. QED
      BY <2>2, <2>3, <2>4, <2>5, <3>1, <3>2 DEF TypeOK
  <2>8. QED
    BY <2>6, <2>7
<1>2. QED
  BY <1>1, Inductive, PTL

\* However sign-ins, requests and changes of an account interleave, what a
\* request acts on was true of its user less than a token's life ago, but for
\* the time the sign-in and the request themselves took.
THEOREM AccessAlwaysExpires == Spec => []ReachExpires
<1>1. IInv => ReachExpires
  <2> SUFFICES ASSUME IInv, request.phase = "open", NEW a \in InUse(NoToken, request)
               PROVE  now < held[a] + TokenTTL + SignInWait + RequestWait
    BY DEF ReachExpires
  <2>1. Named(request.caller) /\ a = Id(request.caller)
    BY InUseIs
  <2>2. now - request.since <= RequestWait /\ request.since < held[a] + TokenTTL + SignInWait
    BY <2>1, InHand DEF IInv, RequestOk, OpenOk
  <2>3. request.since \in Int /\ now \in Int
    <3>1. request.since \in 0 .. now
      BY InHand
    <3>2. QED
      BY <3>1, NowIsNumber
  <2>4. held[a] \in Int
    <3>1. a \in InUse(token, request)
      BY <2>1, InHand, InUseIs
    <3>2. QED
      BY <3>1 DEF IInv, HeldOk
  <2>5. QED
    BY <2>2, <2>3, <2>4, Numbers
<1>2. QED
  BY <1>1, Inductive, PTL

\* The policies, row-level security, the CHECKs and the validation of a body
\* never disagree about who may read or create what.
THEOREM LayersAlwaysAgree == Spec => []LayersAgree
<1>1. IInv => LayersAgree
  <2> SUFFICES ASSUME IInv, request.phase = "open" PROVE LayersAgree
    BY DEF LayersAgree, Open
  <2>1. CallerOk(request.caller)
    BY InHand
  <2>2. db \in SUBSET Rows
    BY AccessAssumption DEF IInv, DataOk, Rows
  <2>3. request.asked # "" => request.op \in {"search", "rules", "alerts"}
    BY InHand
  <2>4. \A body \in Bodies :
            LET result == CreateAlertRule(db, request.caller, body)
            IN  /\ result.code # "internal_error"
                /\ \A r \in result.stored : Can(request.caller, "alert_rules", "create", r.tenant)
    BY <2>1, CreateAgrees
  <2>5. ASSUME request.op \in DOMAIN Lists
        PROVE  ListAgrees(request.caller, db, request.op, request.asked)
    BY <2>1, <2>2, <2>3, <2>5, ListsAgree
  <2>6. QED
    BY <2>4, <2>5 DEF LayersAgree, Open, ListAgrees
<1>2. QED
  BY <1>1, Inductive, PTL

\* Whatever the rows of other tenants, a viewer and a caller without a token
\* get the answers they would get if there were none.
THEOREM AlwaysIsolated == Spec => []Isolated
<1>1. IInv => Isolated
  <2> SUFFICES ASSUME IInv, request.phase = "open", request.caller.role \in {"viewer", "anonymous"}
               PROVE  Isolated
    BY DEF Isolated
  <2> DEFINE c == request.caller
             own == Own(db, c.tenant)
  <2>1. CallerOk(c)
    BY InHand
  <2>2. ASSUME request.op \in {"health"} \cup DOMAIN Lists
        PROVE  Answer(db, c, request.op, request.asked) = Answer(own, c, request.op, request.asked)
    BY <2>1, <2>2, AnswersIsolated
  <2>3. \A body \in Bodies : CreateAlertRule(db, c, body) = CreateAlertRule(own, c, body)
    BY <2>1, WritesIsolated
  <2>4. \A batch \in Batches : Ingest(db, c, batch) = Ingest(own, c, batch)
    BY <2>1, WritesIsolated
  <2>5. QED
    BY <2>2, <2>3, <2>4 DEF Isolated, Open
<1>2. QED
  BY <1>1, Inductive, PTL
=============================================================================
