----------------------------- MODULE AlertRules -----------------------------
(***************************************************************************)
(* The body of a request for a new alert rule, and the table's row.        *)
(*                                                                         *)
(* A body is a function from the keys it has to values: [kind |-> "null"], *)
(* [kind |-> "int", int |-> ...], [kind |-> "text", text |-> ...],         *)
(* [kind |-> "texts", texts |-> ...], or [kind |-> "other"], which stands  *)
(* for a value its field's Go type does not decode, as an integer beyond   *)
(* 32 bits.  A text stands for all that are trimmed to it; what the code   *)
(* asks of its characters is given by the constants.                       *)
(***************************************************************************)
EXTENDS Integers

CONSTANTS
    TenantIds,    \* texts that are valid tenant ids
    LongNames,    \* texts over maxRuleName bytes
    LongTexts,    \* texts over maxRuleText bytes
    NulTexts,     \* texts with a NUL character
    LowerCase,    \* texts with capitals, to their lower case
    Urls          \* texts validWebhookURL accepts

ASSUME TextAssumption ==
    /\ "" \notin TenantIds \cup LongNames \cup LongTexts \cup NulTexts \cup Urls
    /\ TenantIds # {} /\ "" \notin DOMAIN LowerCase
    /\ LongTexts \subseteq LongNames
    /\ TenantIds \cap NulTexts = {} /\ Urls \cap NulTexts = {}

RequiredRuleFields == {"tenant", "name", "group_by", "threshold", "window_minutes"}
RuleFields == RequiredRuleFields \cup
    {"source", "event_type", "action", "severity_min", "tags", "cooldown_minutes", "webhook_url"}

RuleSources == {"firewall", "network", "crowdstrike", "aws", "m365", "ad", "api"}
GroupBy == {"src_ip", "dst_ip", "user", "host"}
KindOf == [f \in RuleFields |->
    CASE f \in {"threshold", "window_minutes", "severity_min", "cooldown_minutes"} -> "int"
      [] f = "tags" -> "texts"
      [] OTHER -> "text"]

Given(b, f) == f \in DOMAIN b /\ b[f].kind # "null"
Text(b, f) == IF Given(b, f) THEN b[f].text ELSE ""
RuleLower(t) == IF t \in DOMAIN LowerCase THEN LowerCase[t] ELSE t
Texts(b, f) == IF Given(b, f) THEN b[f].texts ELSE {}

\* The fields the decoder stops at; the first in the body is reported alone.
Undecodable(b) == {f \in DOMAIN b : f \notin RuleFields \/ b[f].kind \notin {KindOf[f], "null"}}

RuleText(t) == t \notin LongTexts \cup NulTexts

\* The numbers the validation of a body lets through.
Windows == 1 .. 1440
Cooldowns == 0 .. 10080

\* Whether the value of a field that is there, or may be left out, is usable.
Usable(b, f) ==
    \/ f = "tenant" /\ Text(b, f) \in TenantIds
    \/ f = "name" /\ Text(b, f) \notin {""} \cup LongNames \cup NulTexts
    \/ f = "source" /\ (Given(b, f) => RuleLower(Text(b, f)) \in RuleSources)
    \/ f = "event_type" /\ RuleText(Text(b, f))
    \/ f = "action" /\ RuleText(RuleLower(Text(b, f)))
    \/ f = "tags" /\ (\A t \in Texts(b, f) : RuleText(t))
    \/ f = "severity_min" /\ (Given(b, f) => b[f].int \in 0 .. 10)
    \/ f = "group_by" /\ Text(b, f) \in GroupBy
    \/ f = "threshold" /\ b[f].int >= 1
    \/ f = "window_minutes" /\ b[f].int \in Windows
    \/ f = "cooldown_minutes" /\ (Given(b, f) => b[f].int \in Cooldowns)
    \/ f = "webhook_url" /\ Text(b, f) \in {""} \cup Urls

\* Otherwise every unusable field is reported at once.
Problems(b) == {f \in RuleFields : IF f \in RequiredRuleFields /\ ~Given(b, f) THEN TRUE
                                   ELSE ~Usable(b, f)}

Decodes(b) == Undecodable(b) = {} /\ Problems(b) = {}

\* The rule a body that decodes asks for; "" and {} do not filter.
NewRule(b) ==
    [tenant |-> Text(b, "tenant"), name |-> Text(b, "name"),
     source |-> RuleLower(Text(b, "source")), event_type |-> Text(b, "event_type"),
     action |-> RuleLower(Text(b, "action")), tags |-> Texts(b, "tags") \ {""},
     severity_min |-> IF Given(b, "severity_min") THEN {b["severity_min"].int} ELSE {},
     group_by |-> Text(b, "group_by"), threshold |-> b["threshold"].int,
     window_minutes |-> b["window_minutes"].int,
     cooldown_minutes |-> IF Given(b, "cooldown_minutes") THEN b["cooldown_minutes"].int
                          ELSE b["window_minutes"].int,
     webhook_url |-> Text(b, "webhook_url")]

\* The numbers the CHECKs let through.
WindowsChecked == 1 .. 1440
CooldownsChecked == 0 .. 10080

\* The CHECKs of alert_rules, and that Postgres holds no NUL in a text.
Checked(r) ==
    /\ r.name # "" /\ r.threshold >= 1
    /\ r.source = "" \/ r.source \in RuleSources
    /\ r.severity_min \subseteq 0 .. 10
    /\ r.group_by \in GroupBy
    /\ r.window_minutes \in WindowsChecked /\ r.cooldown_minutes \in CooldownsChecked
    /\ ({r.tenant, r.name, r.event_type, r.action, r.webhook_url} \cup r.tags) \cap NulTexts = {}
=============================================================================
