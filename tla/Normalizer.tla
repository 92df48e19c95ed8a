----------------------------- MODULE Normalizer -----------------------------
(***************************************************************************)
(* Package ingest: how one record of a vendor becomes a row of events.     *)
(*                                                                         *)
(* A text is a sequence of words, <<>> the empty one.  What the code does  *)
(* with the characters of a word (trimming, case, parsing an address, a    *)
(* number or a time, a regular expression) is a table over the few words   *)
(* an instance uses, given by the constants below.  A record is a function *)
(* from the keys it has, but for those that are null, to values:           *)
(*   [kind |-> "string" or "number", text |-> ...]   a scalar              *)
(*   [kind |-> "line", pri |-> ..., tokens |-> ...]  a message to parse    *)
(*   [kind |-> "object", members |-> ...]            cloud, raw            *)
(*   [kind |-> "array", texts |-> ...]               _tags                 *)
(*   [kind |-> "other"]                              any other JSON value  *)
(* A token of a line is a word, and a pair if it starts with `key=`:       *)
(*   [word |-> ..., key |-> "" or ..., text |-> ..., quoted |-> ...].      *)
(* Times are counted from the time of receipt.  Tags are a set: no query   *)
(* tells their order.                                                      *)
(***************************************************************************)
EXTENDS Integers, Sequences, FiniteSetsExt

CONSTANTS
    Inputs,        \* [record, defaults]: what a caller may hand in
    TenantIds,     \* words that are valid tenant ids
    Blank,         \* words of blanks only
    Long,          \* words over maxText bytes
    CleanOf,       \* words Postgres cannot hold, to what replaces them
    LowerOf,       \* words with capitals, to their lower case
    AddressOf,     \* words that are addresses, to their unmapped form
    IntOf,         \* words that are integers, to their value
    TimeOf,        \* words that are RFC 3339 times, to the time
    Stamps,        \* words that are RFC 3164 times
    TagOf,         \* words that are RFC 3164 tags, to the application
    Elements,      \* words that are RFC 5424 structured data
    Logins, Logouts, Failures, Creates, Deletes,  \* words that name such events
    Retention, FutureSkew

\* The empty string: a token of no pair, a record of no source.
None == ""

Texts == Seq(STRING)
Tokens == [word : STRING, key : STRING, text : Texts, quoted : BOOLEAN]

\* What a value of a record is, by its kind.
IsValue(v) ==
    /\ v.kind \in {"string", "number"} => v.text \in Texts
    /\ v.kind = "line" => v.pri \in Int /\ v.tokens \in Seq(Tokens)
    /\ v.kind = "array" => v.texts \subseteq Texts

ASSUME InputAssumption ==
    \A in \in Inputs :
        /\ in.defaults.tenant \in Texts /\ in.defaults.source \in Texts
        /\ \A key \in DOMAIN in.record :
            /\ IsValue(in.record[key])
            /\ in.record[key].kind = "object" =>
                \A m \in DOMAIN in.record[key].members : IsValue(in.record[key].members[m])

\* The words the code itself stores or tags with.
OwnWords == {"deny", "allow", "login", "logout", "create", "delete", "traffic", "syslog",
             "crowdstrike", "falcon", "aws", "cloudtrail", "microsoft", "m365", "windows",
             "interactive", "network", "batch", "service", "unlock", "network_cleartext",
             "new_credentials", "remote_interactive", "cached_interactive",
             "invalid", "rebased", "timestamp", "_tags", "auth", "success", "failure"}

\* Lower case is its own lower case, no blank, and can be held when that can be
\* that it is made from; but it may be longer: ToLower makes the three bytes of
\* U+2C65 out of the two of U+023A.  What replaces a word that cannot be held
\* can be, and is no blank.  The code's own words are in lower case and can be
\* held.
ASSUME TableAssumption ==
    /\ LowerOf \in [DOMAIN LowerOf -> STRING] /\ CleanOf \in [DOMAIN CleanOf -> STRING]
    /\ AddressOf \in [DOMAIN AddressOf -> STRING] /\ TagOf \in [DOMAIN TagOf -> STRING]
    /\ IntOf \in [DOMAIN IntOf -> Int] /\ TimeOf \in [DOMAIN TimeOf -> Int]
    /\ \A w \in DOMAIN LowerOf : /\ LowerOf[w] \notin DOMAIN LowerOf
                                 /\ LowerOf[w] \notin Blank
                                 /\ LowerOf[w] \in DOMAIN CleanOf => w \in DOMAIN CleanOf
    /\ \A w \in DOMAIN CleanOf : CleanOf[w] \notin DOMAIN CleanOf \cup Blank
    /\ OwnWords \subseteq STRING
    /\ OwnWords \cap (Blank \cup Long \cup DOMAIN CleanOf \cup DOMAIN LowerOf) = {}
    /\ Retention \in Nat /\ FutureSkew \in Nat

VARIABLES
    input,    \* the record and the defaults being normalized
    outcome   \* what became of it: [code |-> ...], with the event when "ok"

normalizerVars == <<input, outcome>>

Pending == [code |-> "pending"]
Empty == <<>>

-----------------------------------------------------------------------------
(* Texts.                                                                  *)

Apply(table, w) == IF w \in DOMAIN table THEN table[w] ELSE w
Each(table, t) == [i \in DOMAIN t |-> Apply(table, t[i])]
Lower(t) == Each(LowerOf, t)

\* What is between the first and the last word that is not blank.
TrimSpace(t) ==
    LET words == {i \in DOMAIN t : t[i] \notin Blank}
    IN  IF words = {} THEN Empty ELSE SubSeq(t, Min(words), Max(words))

\* cleanText: the form every text value is stored in.
Clean(t) == Each(CleanOf, TrimSpace(t))

TooLong(t) == \E i \in DOMAIN t : t[i] \in Long

One(t, words) == Len(t) = 1 /\ t[1] \in words

-----------------------------------------------------------------------------
(* The fields of the schema, and the setters.                              *)

TextFields == {"vendor", "product", "event_type", "event_subtype", "action", "protocol", "user",
               "host", "process", "url", "http_method", "rule_name", "rule_id",
               "cloud_account_id", "cloud_region", "cloud_service"}
AddressFields == {"src_ip", "dst_ip"}
Numbers == [severity |-> 0 .. 10, src_port |-> 0 .. 65535, dst_port |-> 0 .. 65535,
            status_code |-> 0 .. 999]
Fields == TextFields \cup AddressFields \cup DOMAIN Numbers
CloudFields == [account_id |-> "cloud_account_id", region |-> "cloud_region",
                service |-> "cloud_service"]
CloudKeys == [account_id |-> "cloud.account_id", region |-> "cloud.region",
              service |-> "cloud.service"]

\* The fields that have a setter of their name.
Setters == Fields \ {CloudFields[m] : m \in DOMAIN CloudFields}

\* What setText stores.
Text(f, t) == Clean(IF f = "protocol" THEN Lower(t) ELSE t)

\* Whether a setter can store a text that is not blank, and what it stores.
Usable(f, t) ==
    CASE f \in AddressFields -> One(TrimSpace(t), DOMAIN AddressOf)
      [] f \in DOMAIN Numbers -> /\ One(TrimSpace(t), DOMAIN IntOf)
                                 /\ IntOf[TrimSpace(t)[1]] \in Numbers[f]
      [] OTHER -> ~TooLong(Text(f, t))

Value(f, t) ==
    CASE f \in AddressFields -> <<AddressOf[TrimSpace(t)[1]]>>
      [] f \in DOMAIN Numbers -> <<IntOf[TrimSpace(t)[1]]>>
      [] OTHER -> Text(f, t)

\* Mutant: a later value of a field replaces the one it has.
SkipsNothing(e, f, t) == TrimSpace(t) = Empty

\* A setter leaves a field that is set alone, and does nothing with a blank.
Skips(e, f, t) == e[f] # Empty \/ TrimSpace(t) = Empty

Set(e, f, t) == IF Skips(e, f, t) \/ ~Usable(f, t) THEN e ELSE [e EXCEPT ![f] = Value(f, t)]

\* A setter whose refusal is tagged.
Put(b, key, f, t) ==
    [b EXCEPT !.e = Set(@, f, t),
              !.derived = IF Skips(b.e, f, t) \/ Usable(f, t) THEN @ ELSE @ \cup {<<"invalid", key>>}]

Invalid(b, key) == [b EXCEPT !.derived = @ \cup {<<"invalid", key>>}]

\* A value that a key offers to a field; one that is no scalar has no text.
NoOffer == [there |-> FALSE]
Scalar(key, f, t) == [there |-> TRUE, key |-> key, field |-> f, scalar |-> TRUE, text |-> t]
Unusable(key, f) == [there |-> TRUE, key |-> key, field |-> f, scalar |-> FALSE]

Take(b, o) ==
    IF ~o.there THEN b
    ELSE IF o.scalar THEN Put(b, o.key, o.field, o.text) ELSE Invalid(b, o.key)

\* The loops of fromJSON and fromSyslog: each offer in its turn.
Fill(b, offers) ==
    LET filled[i \in 0 .. Len(offers)] == IF i = 0 THEN b ELSE Take(filled[i - 1], offers[i])
    IN  filled[Len(offers)]

-----------------------------------------------------------------------------
(* Records.                                                                *)

Scalars == {"string", "number"}
Has(r, key) == key \in DOMAIN r

\* builder.extra: a scalar as trimmed text, or nothing.
Extra(r, key) == IF Has(r, key) /\ r[key].kind \in Scalars THEN TrimSpace(r[key].text) ELSE Empty

\* identity: the record's own tenant or source, else the default.
Foreign(r, key) == Has(r, key) /\ r[key].kind # "string"
Identity(r, key, default) ==
    IF Has(r, key) /\ TrimSpace(r[key].text) # Empty THEN TrimSpace(r[key].text) ELSE default

Sources == {"firewall", "network", "crowdstrike", "aws", "m365", "ad", "api"}

-----------------------------------------------------------------------------
(* Syslog lines: syslog.go and kv.go.                                      *)

Nil(w) == IF w = "-" THEN Empty ELSE <<w>>

Is5424(ts) ==
    /\ Len(ts) >= 7 /\ ts[1].word = "1"
    /\ ts[2].word = "-" \/ ts[2].word \in DOMAIN TimeOf
    /\ ts[7].word = "-" \/ ts[7].word \in Elements

Is3164(ts) == Len(ts) >= 2 /\ ts[1].word \in Stamps

\* What is left of an RFC 3164 line after its time, and after its hostname,
\* which is there unless a tag is.
AfterStamp(ts) == Tail(ts)
AfterHost(ts) == IF AfterStamp(ts)[1].word \in DOMAIN TagOf THEN AfterStamp(ts)
                 ELSE Tail(AfterStamp(ts))
HasTag(ts) == AfterHost(ts) # <<>> /\ AfterHost(ts)[1].word \in DOMAIN TagOf

\* parseSyslog: the header's severity, time, host and application, if any,
\* each as a sequence of at most one, and the body.
ParseSyslog(line) ==
    LET ts == line.tokens
        plain == [severity |-> Empty, time |-> Empty, host |-> Empty, app |-> Empty, body |-> ts]
        headed == [plain EXCEPT !.severity = <<line.pri % 8>>]
    IN  CASE line.pri \notin 0 .. 191 -> plain
          [] line.pri \in 0 .. 191 /\ Is5424(ts) ->
                [headed EXCEPT !.time = IF ts[2].word = "-" THEN Empty ELSE <<TimeOf[ts[2].word]>>,
                               !.host = Nil(ts[3].word), !.app = Nil(ts[4].word),
                               !.body = SubSeq(ts, 8, Len(ts))]
          [] line.pri \in 0 .. 191 /\ ~Is5424(ts) /\ Is3164(ts) ->
                [headed EXCEPT !.host = IF AfterHost(ts) = AfterStamp(ts) THEN Empty ELSE <<ts[2].word>>,
                               !.app = IF HasTag(ts) THEN <<TagOf[AfterHost(ts)[1].word]>> ELSE Empty,
                               !.body = IF HasTag(ts) THEN Tail(AfterHost(ts)) ELSE AfterHost(ts)]
          [] OTHER -> headed

\* parseKV: a token that starts no pair continues the value of the last one,
\* unless that was quoted.
Continue(pairs, token) ==
    LET n == Len(pairs)
    IN  CASE token.key # None -> Append(pairs, token)
          [] token.key = None /\ n > 0 /\ ~pairs[n].quoted ->
                [pairs EXCEPT ![n].text = Append(@, token.word)]
          [] OTHER -> pairs
ParseKV(tokens) ==
    LET pairs[i \in 0 .. Len(tokens)] == IF i = 0 THEN <<>> ELSE Continue(pairs[i - 1], tokens[i])
    IN  pairs[Len(tokens)]

KvAliases == [src |-> "src_ip", dst |-> "dst_ip", spt |-> "src_port", sport |-> "src_port",
              dpt |-> "dst_port", dport |-> "dst_port", proto |-> "protocol",
              policy |-> "rule_name", event |-> "event_type", reason |-> "event_subtype"]
FirewallKeys == {"action", "src", "dst", "spt", "dpt", "proto", "policy", "src_ip", "dst_ip"}
KeyField(key) == Apply(KvAliases, Apply(LowerOf, key))

\* syslog's 0 emergency .. 7 debug on the scale 0 .. 10.
SyslogSeverity == <<10, 9, 8, 7, 5, 3, 2, 0>>

IsSyslog(r, source) ==
    /\ source = None \/ source \in {"firewall", "network"}
    /\ Has(r, "message") /\ r["message"].kind = "line"

-----------------------------------------------------------------------------
(* The two ways a record is read.                                          *)

NewBuilder == [source |-> None, e |-> [f \in Fields |-> Empty], sender |-> {}, derived |-> {},
               raw |-> "record", time |-> Empty]

ReadSenderTags(b, r) ==
    IF ~Has(r, "_tags") THEN b
    ELSE IF r["_tags"].kind = "array" THEN [b EXCEPT !.sender = r["_tags"].texts]
    ELSE Invalid(b, "_tags")

\* Of two keys of one field, the one that is read first comes first.
JsonKeys == <<"vendor", "product", "event_type", "event_subtype", "severity", "action",
              "src_ip", "ip", "src_port", "dst_ip", "dst_port", "protocol", "user", "host",
              "process", "url", "http_method", "status_code", "rule_name", "rule_id">>
JsonField(key) == IF key = "ip" THEN "src_ip" ELSE key

Member(r, key, name, f) ==
    CASE ~Has(r, key) -> NoOffer
      [] Has(r, key) /\ r[key].kind \in Scalars -> Scalar(name, f, r[key].text)
      [] OTHER -> Unusable(name, f)

JsonOffers(r) == [i \in 1 .. Len(JsonKeys) |-> Member(r, JsonKeys[i], JsonKeys[i], JsonField(JsonKeys[i]))]
CloudOffers(members) ==
    LET Of(m) == Member(members, m, CloudKeys[m], CloudFields[m])
    IN  <<Of("account_id"), Of("region"), Of("service")>>

ReadCloud(b, r) ==
    IF ~Has(r, "cloud") THEN b
    ELSE IF r["cloud"].kind # "object" THEN Invalid(b, "cloud")
    ELSE Fill(b, CloudOffers(r["cloud"].members))

FromJSON(r, source) ==
    LET read == Fill([NewBuilder EXCEPT !.source = source], JsonOffers(r))
        b == ReadSenderTags(ReadCloud(read, r), r)
    IN  CASE Has(r, "raw") /\ r["raw"].kind = "object" -> [b EXCEPT !.raw = "sender"]
          [] Has(r, "raw") /\ r["raw"].kind # "object" -> Invalid(b, "raw")
          [] OTHER -> b

Pair(p) == IF KeyField(p.key) \in Setters THEN Scalar(p.key, KeyField(p.key), p.text) ELSE NoOffer
PairOffers(pairs) == [i \in 1 .. Len(pairs) |-> Pair(pairs[i])]

FromSyslog(r, source) ==
    LET m == ParseSyslog(r["message"])
        pairs == ParseKV(m.body)
        traffic == \E i \in DOMAIN pairs : Apply(LowerOf, pairs[i].key) \in FirewallKeys
        set == Fill(NewBuilder, PairOffers(pairs))
        e == Set(Set(Set(set.e, "host", m.host), "host", Extra(r, "peer_ip")), "process", m.app)
    IN  ReadSenderTags(
            [set EXCEPT
                !.source = IF source # None THEN source ELSE IF traffic THEN "firewall" ELSE "network",
                !.e = IF e["severity"] = Empty /\ m.severity # Empty
                      THEN [e EXCEPT !["severity"] = <<SyslogSeverity[m.severity[1] + 1]>>] ELSE e,
                !.raw = "message", !.time = m.time], r)

-----------------------------------------------------------------------------
(* What a source implies: sources.go.                                      *)

Success == {"success", "succeeded"}
Failed == {"failed", "failure"}

\* withOutcome: the first status that says so decides how a login went.
WithOutcome(auth, statuses) ==
    LET said == SelectSeq(statuses, LAMBDA s : One(Lower(s), Success \cup Failed))
    IN  IF auth \notin {"success", "failure"} \/ said = <<>> THEN auth
        ELSE IF One(Lower(said[1]), Success) THEN "success" ELSE "failure"

Names(type, words) == \E i \in DOMAIN type : type[i] \in words
GuessAuth(type) ==
    CASE Names(type, Logouts) -> "logout"
      [] ~Names(type, Logouts) /\ Names(type, Logins) ->
            IF Names(type, Failures) THEN "failure" ELSE "success"
      [] OTHER -> "none"

LogonTypes == {<<"2", "interactive">>, <<"3", "network">>, <<"4", "batch">>, <<"5", "service">>,
               <<"7", "unlock">>, <<"8", "network_cleartext">>, <<"9", "new_credentials">>,
               <<"10", "remote_interactive">>, <<"11", "cached_interactive">>}
LogonType(id) ==
    IF \E type \in LogonTypes : id = <<type[1]>>
    THEN <<(CHOOSE type \in LogonTypes : id = <<type[1]>>)[2]>> ELSE Empty

\* A string of the CloudTrail record in raw; those inside its objects are
\* members of raw here.
CloudTrail(r, name) ==
    IF /\ Has(r, "raw") /\ r["raw"].kind = "object"
       /\ Has(r["raw"].members, name) /\ r["raw"].members[name].kind = "string"
    THEN r["raw"].members[name].text ELSE Empty

VendorOf == [crowdstrike |-> <<"crowdstrike", "falcon">>, aws |-> <<"aws", "cloudtrail">>,
             m365 |-> <<"microsoft", "m365">>, ad |-> <<"microsoft", "windows">>]

ImpliedType(source, r) ==
    CASE source = "aws" -> CloudTrail(r, "eventName")
      [] source = "firewall" -> <<"traffic">>
      [] source = "network" -> <<"syslog">>
      [] OTHER -> Empty

\* Whether the event is a login, and how it went.
Auth(source, type, r) ==
    CASE source = "aws" -> IF type # <<"ConsoleLogin">> THEN "none"
                           ELSE IF CloudTrail(r, "ConsoleLogin") = <<"Failure">> THEN "failure" ELSE "success"
      [] source = "m365" -> WithOutcome(IF type = <<"UserLoggedIn">> THEN "success"
                                        ELSE IF type = <<"UserLoginFailed">> THEN "failure" ELSE "none",
                                        <<Extra(r, "status")>>)
      [] source = "ad" -> LET id == Extra(r, "event_id")
                          IN  IF id = <<"4624">> THEN "success" ELSE IF id = <<"4625">> THEN "failure"
                              ELSE IF One(id, {"4634", "4647"}) THEN "logout" ELSE "none"
      [] source = "api" -> WithOutcome(GuessAuth(type), <<Extra(r, "status"), Extra(r, "outcome")>>)
      [] OTHER -> "none"

ImpliedAction(source, type, auth) ==
    CASE auth \in {"success", "failure"} -> <<"login">>
      [] auth = "logout" -> <<"logout">>
      [] source = "aws" /\ auth = "none" /\ type # Empty /\ type[1] \in Creates -> <<"create">>
      [] source = "aws" /\ auth = "none" /\ type # Empty /\ type[1] \in Deletes -> <<"delete">>
      [] OTHER -> Empty

Enrich(b, r) ==
    LET vendor == IF b.source \in DOMAIN VendorOf THEN <<VendorOf[b.source][1]>> ELSE Empty
        product == IF b.source \in DOMAIN VendorOf THEN <<VendorOf[b.source][2]>> ELSE Empty
        subtype == IF b.source = "ad" THEN LogonType(Extra(r, "logon_type")) ELSE Empty
        named == Set(Set(Set(Set(b.e, "vendor", vendor), "product", product),
                         "event_type", ImpliedType(b.source, r)), "event_subtype", subtype)
        auth == Auth(b.source, named["event_type"], r)
    IN  [b EXCEPT !.e = Set(named, "action", ImpliedAction(b.source, named["event_type"], auth)),
                  !.derived = IF auth \in {"success", "failure"} THEN @ \cup {<<"auth", auth>>} ELSE @]

Denied == {"drop", "dropped", "block", "blocked", "reject", "rejected", "denied"}
Allowed == {"accept", "accepted", "permit", "permitted", "pass", "allowed"}

\* normalizeAction: lower case, and one word for each of its synonyms.
NormalAction(t) ==
    LET a == Lower(t)
    IN  CASE One(a, Denied) -> <<"deny">>
          [] One(a, Allowed) -> <<"allow">>
          [] One(a, {"logon"}) -> <<"login">>
          [] One(a, {"logoff"}) -> <<"logout">>
          [] OTHER -> a

-----------------------------------------------------------------------------
(* Time and tags.                                                          *)

TimesIn(t) == IF One(t, DOMAIN TimeOf) THEN <<TimeOf[t[1]]>> ELSE Empty

\* Mutant: the time of receipt by the collector before the header's.
StatedReceivedFirst(r, header) ==
    TimesIn(Extra(r, "@timestamp")) \o TimesIn(Extra(r, "received_at")) \o header \o <<0>>

\* The times a record states, the one to believe first, and now at the end.
Stated(r, header) ==
    TimesIn(Extra(r, "@timestamp")) \o header \o TimesIn(Extra(r, "received_at")) \o <<0>>

InWindow(t) == -Retention <= t /\ t <= FutureSkew

TimeTags(r, header) ==
    (IF Has(r, "@timestamp") /\ TimesIn(Extra(r, "@timestamp")) = Empty
     THEN {<<"invalid", "timestamp">>} ELSE {})
    \cup (IF InWindow(Stated(r, header)[1]) THEN {} ELSE {<<"rebased", "timestamp">>})

Timestamp(r, header) == IF InWindow(Stated(r, header)[1]) THEN Stated(r, header)[1] ELSE 0

\* assembleTags: each tag once, clean, without those that are too long.
AssembleTags(sender, derived) ==
    LET clean == {Clean(t) : t \in sender} \ {Empty}
        kept == {t \in clean : ~TooLong(t)}
    IN  kept \cup derived \cup (IF kept = clean THEN {} ELSE {<<"invalid", "_tags">>})

-----------------------------------------------------------------------------
(* Normalizer.Normalize.                                                   *)

Rejected(code) == [code |-> code]

Tenant(in) == Identity(in.record, "tenant", in.defaults.tenant)
Source(in) == Lower(Identity(in.record, "source", in.defaults.source))
SourceName(in) == IF Source(in) = Empty THEN None ELSE Source(in)[1]

\* Mutant: an action is left as the sender spells it.
StoredAsSpelled(e, f) == e[f]

\* How the value of a field is stored in the end.
Stored(e, f) == IF f = "action" THEN NormalAction(e[f]) ELSE e[f]

Event(in) ==
    LET r == in.record
        syslog == IsSyslog(r, SourceName(in))
        b == Enrich(IF syslog THEN FromSyslog(r, SourceName(in)) ELSE FromJSON(r, SourceName(in)), r)
    IN  [code |-> "ok", tenant |-> Tenant(in)[1], source |-> b.source, raw |-> b.raw,
         e |-> [f \in Fields |-> Stored(b.e, f)], ts |-> Timestamp(r, b.time),
         tags |-> AssembleTags(b.sender, b.derived \cup TimeTags(r, b.time))]

TenantKnown(in) == ~Foreign(in.record, "tenant") /\ One(Tenant(in), TenantIds)
SourceKnown(in) ==
    /\ ~Foreign(in.record, "source")
    /\ IF Source(in) = Empty THEN IsSyslog(in.record, None) ELSE One(Source(in), Sources)

Normalize(in) ==
    IF Foreign(in.record, "tenant") THEN Rejected("invalid_tenant")
    ELSE IF Tenant(in) = Empty THEN Rejected("missing_tenant")
    ELSE IF ~TenantKnown(in) THEN Rejected("invalid_tenant")
    ELSE IF SourceKnown(in) THEN Event(in)
    ELSE IF ~Foreign(in.record, "source") /\ Source(in) = Empty THEN Rejected("missing_source")
    ELSE Rejected("unknown_source")

\* Defaults.Validate, before any record of a request is read.
DefaultsValid(d) ==
    /\ d.tenant # Empty => One(d.tenant, TenantIds)
    /\ d.source # Empty => One(Lower(d.source), Sources)

NormalizerInit == input \in Inputs /\ outcome = Pending

Refuse ==
    /\ outcome = Pending /\ ~DefaultsValid(input.defaults)
    /\ outcome' = Rejected("invalid_parameter")
    /\ UNCHANGED input

Read ==
    /\ outcome = Pending /\ DefaultsValid(input.defaults)
    /\ outcome' = Normalize(input)
    /\ UNCHANGED input

NormalizerNext == Refuse \/ Read

NormalizerSpec == NormalizerInit /\ [][NormalizerNext]_normalizerVars

-----------------------------------------------------------------------------
(* Properties.                                                             *)

Accepted == outcome.code = "ok"
Syslog == IsSyslog(input.record, SourceName(input))

\* What a record offers for field f, the most specific first: in a line its
\* pairs in their order, then its header, then the sender's address; in JSON
\* the field itself, then its alias.
Ranked(at, offer) == [at |-> at, offer |-> offer]
Told(r, key, name, at) ==
    IF ~Has(r, key) THEN {}
    ELSE {Ranked(at, IF r[key].kind \in Scalars THEN Scalar(name, name, r[key].text) ELSE Unusable(name, name))}
Header(f, m, r, at) ==
    CASE f = "host" -> {Ranked(at, Scalar(None, f, m.host)), Ranked(at + 1, Scalar(None, f, Extra(r, "peer_ip")))}
      [] f = "process" -> {Ranked(at, Scalar(None, f, m.app))}
      [] OTHER -> {}
LineOffers(f, r) ==
    LET m == ParseSyslog(r["message"])
        pairs == ParseKV(m.body)
        of == {i \in DOMAIN pairs : KeyField(pairs[i].key) = f /\ f \in Setters}
    IN  {Ranked(i, Scalar(pairs[i].key, f, pairs[i].text)) : i \in of} \cup Header(f, m, r, Len(pairs) + 1)
RecordOffers(f, r) ==
    IF f \in Setters THEN Told(r, f, f, 1) \cup (IF f = "src_ip" THEN Told(r, "ip", "ip", 2) ELSE {})
    ELSE LET m == CHOOSE x \in DOMAIN CloudFields : CloudFields[x] = f
         IN  IF Has(r, "cloud") /\ r["cloud"].kind = "object"
             THEN Told(r["cloud"].members, m, CloudKeys[m], 1) ELSE {}
Offers(f) == IF Syslog THEN LineOffers(f, input.record) ELSE RecordOffers(f, input.record)

Says(o) == o.scalar => TrimSpace(o.text) # Empty
Fits(f, o) == o.scalar /\ TrimSpace(o.text) # Empty /\ Usable(f, o.text)

\* The tags the sender put there itself.
SendersTags ==
    IF Has(input.record, "_tags") /\ input.record["_tags"].kind = "array"
    THEN {Clean(t) : t \in input.record["_tags"].texts} ELSE {}
Tagged(key) == <<"invalid", key>> \in outcome.tags

\* The fields enrich fills, and severity, which the header of a line gives.
Implied == {"vendor", "product", "event_type", "event_subtype", "action", "severity"}

\* "leaves a field that is already set alone, so the first source of a value
\* wins" (normalize.go:463), "an explicit src_ip wins" (:203), "a sender's own
\* value always wins" (sources.go:19), and "a value that cannot be normalized
\* is left empty, the event is tagged `invalid:<key>`" (normalize.go:4): each
\* field holds the first value on offer that fits, nothing if none does, unless
\* the source implies one; and the values tagged are those that were refused
\* before it, and those that are no scalar.  What a header says has no key, and
\* is dropped without a tag.
FirstUsable ==
    Accepted => \A f \in Fields :
        LET fitting == {x \in Offers(f) : Fits(f, x.offer)}
            refused == {x \in Offers(f) : Says(x.offer) /\ \A y \in fitting : x.at < y.at}
        IN  /\ \A x \in fitting : (\A y \in fitting : x.at <= y.at) =>
                    outcome.e[f] = Stored([outcome.e EXCEPT ![f] = Value(f, x.offer.text)], f)
            /\ fitting = {} /\ f \notin Implied => outcome.e[f] = Empty
            /\ \A x \in refused : x.offer.key # None => Tagged(x.offer.key)
            /\ \A x \in Offers(f) : Tagged(x.offer.key) =>
                    \/ \E y \in refused : y.offer.key = x.offer.key
                    \/ ~x.offer.scalar
                    \/ <<"invalid", x.offer.key>> \in SendersTags

\* "Only a record that cannot be stored at all is rejected" (normalize.go:6),
\* and what is accepted is within the CHECKs of the table, the limits of its
\* indexes, and the days that have partitions and are not purged: the database
\* has no reason to refuse it, and the record's own time is kept if it can be.
\* No index holds an action, which is the one text that may be stored over
\* maxText: see NoLongerText.
Storable ==
    /\ Accepted =>
        /\ outcome.tenant \in TenantIds /\ outcome.source \in Sources
        /\ \A f \in TextFields : outcome.e[f] = Clean(outcome.e[f])
        /\ \A f \in TextFields \ {"action"} : ~TooLong(outcome.e[f])
        /\ \A f \in DOMAIN Numbers : outcome.e[f] = Empty \/ outcome.e[f][1] \in Numbers[f]
        /\ \A t \in outcome.tags : t # Empty /\ (t[1] \notin {"invalid"} => ~TooLong(t))
        /\ -Retention <= outcome.ts /\ outcome.ts <= FutureSkew
        /\ <<"rebased", "timestamp">> \in outcome.tags \ SendersTags => outcome.ts = 0
        /\ LET own == TimesIn(Extra(input.record, "@timestamp"))
               line == IF Syslog THEN ParseSyslog(input.record["message"]).time ELSE Empty
               stated == own \o line
           IN  stated # <<>> => outcome.ts = stated[1] \/ <<"rebased", "timestamp">> \in outcome.tags
    /\ outcome.code \notin {"ok", "pending", "invalid_parameter"} =>
        \/ Foreign(input.record, "tenant") \/ Foreign(input.record, "source")
        \/ ~One(Tenant(input), TenantIds)
        \/ ~One(Source(input), Sources) /\ (Source(input) # Empty \/ ~IsSyslog(input.record, None))

\* maxText is "the longest text value a field or tag takes" (normalize.go:44),
\* and "Events hold no longer text (see internal/ingest), so a longer one could
\* never match" (api/alerts.go:27).  setText measures an action before
\* normalizeAction puts it in lower case, so this is not an invariant: the
\* records of MCNormalizer refute it, and Storable and Findable except actions.
NoLongerText == Accepted => \A f \in TextFields : ~TooLong(outcome.e[f])

\* How search.go's resolveFilter and alerts.go's ruleText spell the filter of a
\* field: trimmed, and an action in lower case.
FilterOf(f, t) == IF f = "action" THEN Lower(TrimSpace(t)) ELSE TrimSpace(t)

\* A search is refused for what the table cannot hold, a rule for that and for
\* what is over maxRuleText, the same as maxText, once it is mapped.
SearchRefuses(t) == \E i \in DOMAIN t : t[i] \in DOMAIN CleanOf
RuleRefuses(f, t) == SearchRefuses(FilterOf(f, t)) \/ TooLong(FilterOf(f, t))

\* "Stored text is trimmed, and source and action are lowercase, so a filter
\* spelled any other way could never match" (search.go:250): a search that
\* names what an event holds is accepted as it is and finds that event, and one
\* that names a value as its sender spelt it finds it too, but for an action's
\* synonyms and what the table cannot hold.  A rule is accepted as well, but
\* for one that names an action that is stored over maxText.
Findable ==
    Accepted =>
        /\ \A f \in {"event_type", "action", "user", "host"} :
            /\ FilterOf(f, outcome.e[f]) = outcome.e[f] /\ ~SearchRefuses(outcome.e[f])
            /\ \A x \in Offers(f) : x.offer.scalar =>
                LET t == x.offer.text
                    spelt == IF f = "action" THEN Lower(Value(f, t)) ELSE Value(f, t)
                IN  outcome.e[f] = spelt /\ ~SearchRefuses(t) => FilterOf(f, t) = outcome.e[f]
        /\ \A f \in {"event_type", "action"} :
            RuleRefuses(f, outcome.e[f]) => f = "action" /\ TooLong(outcome.e[f])
        /\ \A t \in outcome.tags : t[1] \notin {"invalid", "rebased", "auth"} =>
                TrimSpace(t) = t /\ ~RuleRefuses("tags", t)
=============================================================================
