---------------------------- MODULE MCNormalizer ----------------------------
(* Records for Normalizer: families that vary the keys that meet in the    *)
(* code, and the tables of the words they use.                             *)
EXTENDS Normalizer, TLC

S(w) == [kind |-> "string", text |-> <<w>>]
N(w) == [kind |-> "number", text |-> <<w>>]
Spaced == [kind |-> "string", text |-> <<" ", "al", " ", "b", " ">>]
Two == [kind |-> "string", text |-> <<"firewall", "x">>]
Other == [kind |-> "other"]
Object(f) == [kind |-> "object", members |-> f]
Tags(words) == [kind |-> "array", texts |-> {<<w>> : w \in words}]

\* The records with or without one key, and with keys of two families.
Nothing == {[k \in {} |-> Other]}
Maybe(key, values) == Nothing \cup {key :> v : v \in values}
With(A, B) == {a @@ b : a \in A, b \in B}

NoDefaults == [tenant |-> Empty, source |-> Empty]
Plain(R) == [record : With({"tenant" :> S("demo")}, R), defaults : {NoDefaults}]

W(w) == [word |-> w, key |-> "", text |-> Empty, quoted |-> FALSE]
P(key, w) == [word |-> key \o "=" \o w, key |-> key, text |-> <<w>>, quoted |-> FALSE]
Q(key, w) == [word |-> key \o "=" \o w, key |-> key, text |-> <<w>>, quoted |-> TRUE]
Line(pri, tokens) == [kind |-> "line", pri |-> pri, tokens |-> tokens]

Heads == {<<>>, <<W("1"), W("T-1"), W("h1"), W("app"), W("-"), W("-"), W("-")>>,
          <<W("1"), W("-"), W("-"), W("-"), W("-"), W("-"), W("[sd]")>>,
          <<W("1"), W("T+9"), W("h1"), W("app"), W("-"), W("-"), W("-")>>,
          <<W("1"), W("bad"), W("h1"), W("app"), W("-"), W("-"), W("-")>>,
          <<W("1"), W("-"), W("long"), W("app"), W("-"), W("-"), W("bad")>>,
          <<W("stamp"), W("h1"), W("sshd:")>>, <<W("stamp"), W("sshd:")>>, <<W("stamp"), W("long")>>}
Bodies == {<<W("text")>>, <<P("SRC", "10.0.0.1"), P("policy", "a"), W("b")>>,
           <<P("src", "bad"), P("src_ip", "10.0.0.1"), P("severity", "99"), P("severity", "8.0")>>,
           <<W("text"), Q("msg", "a"), W("b"), P("host", " "), P("host", "long"), P("host", "h2"),
             P("proto", "Wide"), P("action", "Wide")>>,
           <<P("proto", "TCP"), P("action", "Block"), W("now"), P("event", "ConsoleLogin"), P("process", "p")>>}
Lines ==
    With({"message" :> Line(pri, h \o b) : pri \in {-1, 34, 192}, h \in Heads, b \in Bodies},
         With(Maybe("source", {S("firewall"), S("network"), Two}), Maybe("peer_ip", {S("10.9.9.9")})))

Identities ==
    [record : With(Maybe("tenant", {S("demo"), S("a b"), S(" "), N("8")}),
              With(Maybe("source", {S("AWS"), S("api"), S("bogus"), S(" "), Other}),
                   Maybe("message", {Line(-1, <<W("text")>>), Other}))),
     defaults : [tenant : {Empty, <<"prod">>, <<"a b">>}, source : {Empty, <<"network">>, <<"bogus">>}]]

Addresses ==
    With({"source" :> S("api")},
    With(Maybe("src_ip", {S("10.0.0.1"), S("mapped"), S("bad"), S(" "), Other}),
    With(Maybe("ip", {S("10.0.0.1"), S("bad"), Other}),
    With(Maybe("user", {S("al"), Spaced, S("nul"), S("long"), N("8")}),
         Maybe("cloud", {Other, Object("account_id" :> N("8") @@ "region" :> Other),
                         Object("region" :> S("long") @@ "service" :> S("ec2"))})))))

Vendors ==
    With(Maybe("vendor", {S("acme")}),
    With(Maybe("event_type", {S("UserLoggedIn"), S("UserLoginFailed"), S("ConsoleLogin"), S("login"),
                              S("login_failed"), S("logout"), S("CreateUser")}),
    With(Maybe("action", {S("Block"), S("DENY"), S("logon"), S("long"), S("Wide")}),
         With({"source" :> S("aws")},
              Maybe("raw", {Object("eventName" :> S("ConsoleLogin") @@ "ConsoleLogin" :> S("Failure")),
                            Object("eventName" :> S("DeleteUser")),
                            Object("eventName" :> N("8") @@ "ConsoleLogin" :> S("Failure")), S("text")}))
         \cup With({"source" :> s : s \in {S("m365"), S("api")}},
                   With(Maybe("status", {S("failed"), S("Success"), S("8")}), Maybe("outcome", {S("failure")})))
         \cup With({"source" :> S("ad")},
                   With(Maybe("event_id", {N("4624"), S("4625"), N("4634")}), Maybe("logon_type", {N("3"), N("8")})))
         \cup {"source" :> s : s \in {S("crowdstrike"), S("firewall"), S("network")}})))

Times ==
    With({"source" :> S("api")} \cup
         {"message" :> Line(34, <<W("1"), W(t), W("h1"), W("app"), W("-"), W("-"), W("-")>>)
            : t \in {"-", "T-1", "T-9", "T+9"}},
    With(Maybe("@timestamp", {S("T-1"), S("T-2"), S("T-9"), S("T+1"), S("T+9"), S("bad"), S(" "), Other}),
    With(Maybe("received_at", {S("T-2"), S("bad")}),
    With(Maybe("_tags", {Tags({"x"}), Tags({" ", "nul", "long"}), Other}),
         Maybe("severity", {N("8.0"), N("11"), S("bad")})))))

Records == Identities \cup Plain(Lines) \cup Plain(Addresses) \cup Plain(Vendors) \cup Plain(Times)

MCClean == "nul" :> "n?"
MCLower == "AWS" :> "aws" @@ "SRC" :> "src" @@ "TCP" :> "tcp" @@ "Block" :> "block" @@ "DENY" :> "deny"
           @@ "Success" :> "success" @@ "Wide" :> "wide"
MCAddress == "10.0.0.1" :> "10.0.0.1" @@ "mapped" :> "10.0.0.1" @@ "10.9.9.9" :> "10.9.9.9"
MCInt == "8" :> 8 @@ "8.0" :> 8 @@ "11" :> 11 @@ "99" :> 99
MCTime == "T-1" :> -1 @@ "T-2" :> -2 @@ "T-9" :> -9 @@ "T+1" :> 1 @@ "T+9" :> 9
MCTag == "sshd:" :> "sshd"
=============================================================================
