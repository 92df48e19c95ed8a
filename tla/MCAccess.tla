------------------------------ MODULE MCAccess ------------------------------
(* One account and two tenants.  Bodies of a rule differ in one field from *)
(* one that is good.                                                       *)
EXTENDS Access

Name(w) == [kind |-> "text", text |-> w]
Num(n) == [kind |-> "int", int |-> n]
Null == [kind |-> "null"]
Other == [kind |-> "other"]

FewIds == {"A", "B", "C"}
FewTenants == {"A", "B"}
FewDemoTenants == {"A"}
FewEmails == {"v@a"}
FewDemoUsers == [m \in {"v@a"} |-> Viewer("A")]
FewAsked == {"", "A", "B", "no id", "nul"}
FewBatches == {{"A"}, {"A", "B", "C"}}
FewStorable == {Row("tenants", "A", FALSE), Row("tenants", "B", FALSE), Row("events", "B", FALSE),
                Row("alert_rules", "A", TRUE), Row("alert_rules", "B", TRUE), Row("alerts", "B", FALSE)}
FewLowerCase == [w \in {"AWS", "Deny"} |-> IF w = "AWS" THEN "aws" ELSE "deny"]

Good == [f \in {"tenant", "name", "group_by", "threshold", "window_minutes", "webhook_url"} |->
    CASE f = "tenant" -> Name("A") [] f = "name" -> Name("rule") [] f = "group_by" -> Name("user")
      [] f = "threshold" -> Num(1) [] f = "window_minutes" -> Num(1440)
      [] f = "webhook_url" -> Name("https://x")]

Variants == [f \in RuleFields \cup {"typo"} |->
    CASE f = "tenant" -> {Name("B"), Name("C"), Name("no id"), Name(""), Null, Other}
      [] f = "name" -> {Name(""), Name("long"), Name("nul"), Null}
      [] f = "source" -> {Name("AWS"), Name("aws"), Name("dns"), Name(""), Null}
      [] f \in {"event_type", "action"} -> {Name("Deny"), Name(""), Name("nul"), Name("long")}
      [] f = "severity_min" -> {Num(-1), Num(0), Num(10), Num(11), Null, Other}
      [] f = "tags" -> {[kind |-> "texts", texts |-> {"", "x"}], [kind |-> "texts", texts |-> {"nul", "x"}]}
      [] f = "group_by" -> {Name("vendor"), Name("src_ip"), Name("")}
      [] f = "threshold" -> {Num(0), Num(2), Other}
      [] f = "window_minutes" -> {Num(0), Num(1), Num(1441), Null}
      [] f = "cooldown_minutes" -> {Num(-1), Num(0), Num(10080), Num(10081), Null}
      [] f = "webhook_url" -> {Name(""), Name("ftp://x"), Null}
      [] f = "typo" -> {Name("x")}]

With(b, f, v) == [g \in DOMAIN b \cup {f} |-> IF g = f THEN v ELSE b[g]]
Singly == {Good} \cup UNION {{With(Good, f, v) : v \in Variants[f]} : f \in DOMAIN Variants}
FewBodies == Singly
=============================================================================
