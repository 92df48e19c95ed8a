------------------------------- MODULE Access -------------------------------
(***************************************************************************)
(* Who is calling, and what an answer lets them see: packages auth, authz  *)
(* and api over the tables and their row-level security.  A client signs   *)
(* in, holds one token, and makes one request at a time; users, tenants    *)
(* and rows change under it.                                               *)
(*                                                                         *)
(* A row is [table, tenant, hook], hook telling whether it has a webhook   *)
(* URL; rows that differ in anything else are one.  The body of a request  *)
(* is chosen when its handler reads it.  The clock only moves forward.     *)
(***************************************************************************)
EXTENDS Authz, AlertRules

CONSTANTS
    Tenants,       \* the tenants there may be
    DemoTenants,   \* those seed creates
    Emails,        \* the accounts there may be
    DemoUsers,     \* those seed creates, to the user
    AskedTenants,  \* what a tenant parameter may hold, "" none
    Bodies,        \* bodies of a new rule that are JSON objects
    Batches,       \* sets of tenants the records of a batch name
    Storable,      \* bound: the rows there may be
    TokenTTL,      \* how long a token is accepted
    SignInWait,    \* bound: from reading the user to issuing the token
    RequestWait,   \* bound: from authenticating a request to its answer
    MaxTime        \* bound: the clock

Admin == [role |-> "admin", tenant |-> ""]
Viewer(t) == [role |-> "viewer", tenant |-> t]

\* What the users table holds: an admin has no tenant, a viewer has one.
Users == {Admin} \cup {Viewer(t) : t \in Tenants}
Gone == [role |-> "gone", tenant |-> ""]

Tables == {"tenants", "events", "alert_rules", "alerts"}

ASSUME AccessAssumption ==
    /\ Storable \subseteq {r \in [table : Tables, tenant : Tenants, hook : BOOLEAN] :
                                r.hook => r.table = "alert_rules"}
    /\ Tenants \subseteq TenantIds /\ DemoTenants \subseteq Tenants
    /\ DOMAIN DemoUsers \subseteq Emails /\ "" \notin Emails
    /\ \A m \in DOMAIN DemoUsers : DemoUsers[m] \in {Admin} \cup {Viewer(t) : t \in DemoTenants}
    /\ \A batch \in Batches : batch \subseteq TenantIds
    /\ TokenTTL \in Nat \ {0} /\ SignInWait \in Nat /\ RequestWait \in Nat /\ MaxTime \in Nat

VARIABLES
    now,       \* the clock
    users,     \* the user behind each email, or Gone
    db,        \* the rows of tenants, events, alert_rules and alerts
    token,     \* the token the client holds, or NoToken
    request,   \* the request that is being handled, or Idle
    held       \* history: when those the client acts as last were who they were

vars == <<now, users, db, token, request, held>>

Row(table, tenant, hook) == [table |-> table, tenant |-> tenant, hook |-> hook]
Exists(t, rows) == Row("tenants", t, FALSE) \in rows
HasRule(t, rows) == \E r \in rows : r.table = "alert_rules" /\ r.tenant = t

NoToken == [user |-> ""]
Idle == [phase |-> "idle"]

Anonymous == [role |-> "anonymous", tenant |-> "", user |-> ""]
Collector == [role |-> "collector", tenant |-> "", user |-> ""]
Caller(u, m) == [role |-> u.role, tenant |-> u.tenant, user |-> m]

Operations == {"health", "login", "search", "rules", "alerts", "tenants", "create", "ingest"}
Lists == [search |-> "events", rules |-> "alert_rules", alerts |-> "alerts", tenants |-> "tenants"]

-----------------------------------------------------------------------------
(* Tokens.                                                                 *)

\* checkUser.
CheckUser(c) == \/ c.role = "admin" /\ c.tenant = ""
                \/ c.role = "viewer" /\ c.tenant # ""

\* Mutant: the expiry is a whole second late.
IssuedLonger(c) == [user |-> c.user, role |-> c.role, tenant |-> c.tenant, exp |-> now + TokenTTL + 1]

\* Tokens.Issue: what the user was when it was looked up.
Issued(c) == [user |-> c.user, role |-> c.role, tenant |-> c.tenant, exp |-> now + TokenTTL]

\* Mutant: a token is still accepted the moment it expires.
ParsesLate(t) == t # NoToken /\ now <= t.exp

\* Tokens.Parse: signed by this backend, and not expired.
Parses(t) == t # NoToken /\ now < t.exp

\* Authenticate: whether a credential is valid, and whose it is.
Credentials == {"none", "key", "token", "junk"}
Known(cred) == cred \in {"none", "key"} \/ (cred = "token" /\ Parses(token))
CallerOf(cred) ==
    CASE cred = "none" -> Anonymous
      [] cred = "key" -> Collector
      [] cred = "token" -> Caller(token, token.user)

-----------------------------------------------------------------------------
(* Rows, and the context of a query.                                       *)

\* Mutant: nobody's queries read every tenant.
ScopeOfTenant(c) == [tenant |-> c.tenant, admin |-> FALSE]

ScopeOf(c) == [tenant |-> c.tenant, admin |-> c.role = "admin"]

\* tenant_isolation, the policy of every table but tenants.
Isolation(scope, tenant) == scope.admin \/ tenant = scope.tenant

\* The rows of a table a query finds, of one tenant unless it is "".
Select(rows, scope, table, tenant) ==
    {r \in rows : /\ r.table = table
                  /\ table = "tenants" \/ Isolation(scope, r.tenant)
                  /\ tenant = "" \/ r.tenant = tenant}

Refused(code) == [code |-> code, shown |-> {}]
Answered(rows) == [code |-> "ok", shown |-> rows]

-----------------------------------------------------------------------------
(* Handlers that only read: the answer, if the tables hold rows.           *)

Health(c) ==
    IF Can(c, "health", "read", "") THEN Answered({}) ELSE Refused(Deny(c))

\* eventFilter and EventRepo.Search; Top and Timeline narrow the same way.
Search(rows, c, asked) ==
    LET readable == Scopes(c, "events", "read") IN
    IF Empty(readable) THEN Refused(Deny(c))
    ELSE IF asked # "" /\ ~Contains(readable, asked) THEN Refused("tenant_not_permitted")
    ELSE IF asked \in NulTexts THEN Refused("invalid_parameter")
    ELSE Answered(Select(rows, ScopeOf(c), "events", IF asked = "" THEN readable.one ELSE asked))

\* A rule as the caller may see it.
Unhooked(c, r) ==
    IF Can(c, "alert_rules", "create", r.tenant) THEN r ELSE [r EXCEPT !.hook = FALSE]

\* listTenant, and then the list.
ListOf(rows, c, table, asked) ==
    LET readable == Scopes(c, table, "read")
        found == Select(rows, ScopeOf(c), table, IF asked = "" THEN readable.one ELSE asked)
    IN
    IF Empty(readable) THEN Refused(Deny(c))
    ELSE IF asked # "" /\ ~Contains(readable, asked) THEN Refused("tenant_not_permitted")
    ELSE IF asked # "" /\ asked \notin TenantIds THEN Refused("invalid_parameter")
    ELSE Answered(IF table = "alert_rules" THEN {Unhooked(c, r) : r \in found} ELSE found)

\* Mutant: the list of tenants relies on row-level security, which it has not.
ListTenantsAll(rows, c) ==
    IF Empty(Scopes(c, "tenants", "read")) THEN Refused(Deny(c))
    ELSE Answered(Select(rows, ScopeOf(c), "tenants", ""))

ListTenants(rows, c) ==
    LET readable == Scopes(c, "tenants", "read")
    IN  IF Empty(readable) THEN Refused(Deny(c))
        ELSE Answered(Select(rows, ScopeOf(c), "tenants", readable.one))

Answer(rows, c, op, asked) ==
    CASE op = "health" -> Health(c)
      [] op = "search" -> Search(rows, c, asked)
      [] op = "rules" -> ListOf(rows, c, "alert_rules", asked)
      [] op = "alerts" -> ListOf(rows, c, "alerts", asked)
      [] op = "tenants" -> ListTenants(rows, c)

-----------------------------------------------------------------------------
(* Handlers that write: the code of the answer, and the rows stored.       *)

Stores(rows) == [code |-> "ok", stored |-> rows]
Rejects(code) == [code |-> code, stored |-> {}]

\* AlertRepo.CreateRule under the caller's scope: row-level security and the
\* CHECKs, which are an internal error, then the foreign key.
InsertRule(rows, scope, rule) ==
    IF ~Isolation(scope, rule.tenant) \/ ~Checked(rule) THEN Rejects("internal_error")
    ELSE IF ~Exists(rule.tenant, rows) THEN Rejects("unknown_tenant")
    ELSE Stores({Row("alert_rules", rule.tenant, rule.webhook_url # "")})

CreateAlertRule(rows, c, body) ==
    IF Empty(Scopes(c, "alert_rules", "create")) THEN Rejects(Deny(c))
    ELSE IF ~Decodes(body) THEN Rejects("invalid_request")
    ELSE IF ~Can(c, "alert_rules", "create", Text(body, "tenant")) THEN Rejects("tenant_not_permitted")
    ELSE InsertRule(rows, ScopeOf(c), NewRule(body))

\* startBatch, and EventRepo.Insert under the scope of each tenant in turn; a
\* record of another tenant is rejected in a 200.
Ingest(rows, c, batch) ==
    IF Empty(Scopes(c, "events", "create")) THEN Rejects(Deny(c))
    ELSE Stores({Row("events", t, FALSE) : t \in {x \in batch :
            Can(c, "events", "create", x) /\ Exists(x, rows)}})

-----------------------------------------------------------------------------
(* Steps.                                                                  *)

\* The user a token or a caller names, and what it was.
Id(c) == <<c.user, [role |-> c.role, tenant |-> c.tenant]>>

\* The users the client holds a token of, or has a request handled as.
InUse(t, r) ==
    LET callers == (IF t = NoToken THEN {} ELSE {t}) \cup (IF r = Idle THEN {} ELSE {r.caller})
    IN  {Id(c) : c \in {x \in callers : x.user # ""}}

Remember ==
    held' = [a \in InUse(token', request') |-> IF users'[a[1]] = a[2] THEN now' ELSE held[a]]

Init ==
    /\ now = 0
    /\ users \in [Emails -> Users \cup {Gone}]
    /\ db \in SUBSET Storable
    /\ \A r \in db : /\ Exists(r.tenant, db)
                      /\ r.table = "alerts" => HasRule(r.tenant, db)
    /\ \A m \in Emails : users[m].role = "viewer" => Exists(users[m].tenant, db)
    /\ token = NoToken /\ request = Idle /\ held = <<>>

Waited(r) == IF r.phase = "open" THEN now - r.since < RequestWait
             ELSE r.phase = "found" => now - r.since < SignInWait

Tick ==
    /\ now < MaxTime /\ Waited(request)
    /\ now' = now + 1
    /\ UNCHANGED <<users, db, token, request>>

\* An operator changes or removes an account: no endpoint does.
ChangeUser(m) ==
    \E u \in Users \cup {Gone} :
        /\ u.role = "viewer" => Exists(u.tenant, db)
        /\ users' = [users EXCEPT ![m] = u]
        /\ UNCHANGED <<now, db, token, request>>

\* Seed: tenants and users that are missing, in one transaction.
Seed ==
    /\ db' = db \cup {Row("tenants", t, FALSE) : t \in DemoTenants}
    /\ db' \subseteq Storable
    /\ users' = [m \in Emails |-> IF users[m] = Gone /\ m \in DOMAIN DemoUsers
                                  THEN DemoUsers[m] ELSE users[m]]
    /\ UNCHANGED <<now, token, request>>

\* The evaluator runs as the tenant of one of the rules.
Fire(t) ==
    /\ HasRule(t, db)
    /\ db' = db \cup {Row("alerts", t, FALSE)}
    /\ db' \subseteq Storable
    /\ UNCHANGED <<now, users, token, request>>

\* The middleware: a request whose credential is not valid goes no further.
Authenticate(op, cred, asked) ==
    /\ request = Idle /\ Known(cred)
    /\ asked = "" \/ op \in {"search", "rules", "alerts"}
    /\ request' = [phase |-> "open", op |-> op, asked |-> asked, caller |-> CallerOf(cred), since |-> now]
    /\ UNCHANGED <<now, users, db, token>>

\* A request that only reads is answered, and any other may fail.
Finish ==
    /\ request # Idle
    /\ request' = Idle
    /\ UNCHANGED <<now, users, db, token>>

Store(result) ==
    /\ result.stored # {}
    /\ db' = db \cup result.stored
    /\ db' \subseteq Storable
    /\ request' = Idle
    /\ UNCHANGED <<now, users, token>>

HandleCreate ==
    /\ request.phase = "open" /\ request.op = "create"
    /\ \E body \in Bodies : Store(CreateAlertRule(db, request.caller, body))

HandleIngest ==
    /\ request.phase = "open" /\ request.op = "ingest"
    /\ \E batch \in Batches : Store(Ingest(db, request.caller, batch))

\* Login: the user is read, and then its password is checked.
FindUser(m) ==
    /\ request.phase = "open" /\ request.op = "login"
    /\ Can(request.caller, "sessions", "create", "")
    /\ users[m] # Gone
    /\ request' = [phase |-> "found", caller |-> Caller(users[m], m), since |-> now]
    /\ UNCHANGED <<now, users, db, token>>

Issue ==
    /\ request.phase = "found" /\ CheckUser(request.caller)
    /\ token' = Issued(request.caller)
    /\ request' = Idle
    /\ UNCHANGED <<now, users, db>>

Step ==
    \/ Tick \/ Seed \/ Finish \/ HandleCreate \/ HandleIngest \/ Issue
    \/ \E m \in Emails : ChangeUser(m) \/ FindUser(m)
    \/ \E t \in Tenants : Fire(t)
    \/ \E op \in Operations, cred \in Credentials, asked \in AskedTenants : Authenticate(op, cred, asked)

Next == Step /\ Remember

Spec == Init /\ [][Next]_vars

-----------------------------------------------------------------------------
(* Properties.                                                             *)

Open(ops) == request.phase = "open" /\ request.op \in ops

\* Every caller is one the policies know, and holds what checkUser asks.
TypeOK ==
    /\ now \in 0 .. MaxTime
    /\ users \in [Emails -> Users \cup {Gone}]
    /\ db \in SUBSET [table : Tables, tenant : Tenants, hook : BOOLEAN]
    /\ held \in [InUse(token, request) -> 0 .. now]
    /\ token # NoToken => token.user \in Emails /\ CheckUser(token) /\ token.exp <= now + TokenTTL
    /\ request.phase \in {"idle", "open", "found"}
    /\ request # Idle => /\ request.since \in 0 .. now
                         /\ \/ request.caller \in {Anonymous, Collector}
                            \/ request.caller.user \in Emails /\ CheckUser(request.caller)

\* "A JWT can't be revoked before it expires. A disabled or demoted user keeps
\* their old access for up to 12 hours" (ADR 0009): whatever a request may read
\* or change now, its user was entitled to less than TokenTTL ago, but for what
\* the sign-in and the request themselves took.
ReachExpires ==
    request.phase = "open" =>
        \A a \in InUse(NoToken, request) : now < held[a] + TokenTTL + SignInWait + RequestWait

\* What a caller may see of a row.
Seen(c, r) == [r EXCEPT !.hook = r.hook /\ Can(c, "alert_rules", "create", r.tenant)]

\* "Two layers have to agree about tenancy" (ADR 0009): a list shows exactly
\* the rows Can lets the caller read, within the tenant asked for, and a webhook
\* to exactly those who could have set it; and row-level security and the CHECKs
\* refuse nothing that the policies and the validation of a body let through.
LayersAgree ==
    /\ Open(DOMAIN Lists) =>
        LET c == request.caller
            table == Lists[request.op]
            answer == Answer(db, c, request.op, request.asked)
            reach == {t \in TenantIds : Can(c, table, "read", t)}
            seen == {r \in db : /\ r.table = table /\ r.tenant \in reach
                                /\ request.asked \in {"", r.tenant}}
        IN  /\ answer.code = "ok" => answer.shown = {Seen(c, r) : r \in seen}
            /\ answer.code # "ok" => answer.shown = {}
            /\ answer.code = "ok" <=>
                    /\ reach # {}
                    /\ \/ request.asked \in {""} \cup reach
                       \/ request.op = "search" /\ Can(c, table, "read", "") /\ request.asked \notin NulTexts
    /\ Open({"create"}) => \A body \in Bodies :
        LET result == CreateAlertRule(db, request.caller, body)
        IN  /\ result.code # "internal_error"
            /\ \A r \in result.stored : Can(request.caller, "alert_rules", "create", r.tenant)

\* Everything of one tenant.
Own(rows, t) == {r \in rows : r.tenant = t}

\* A viewer's or an anonymous caller's answers are what they would be if no
\* other tenant existed, whatever tenant is asked for: not even a refusal tells
\* "a tenant outside it" (ADR 0009) that exists from one that does not.
Isolated ==
    request.phase = "open" /\ request.caller.role \in {"viewer", "anonymous"} =>
        LET c == request.caller
            own == Own(db, c.tenant)
        IN  /\ Open({"health"} \cup DOMAIN Lists) =>
                Answer(db, c, request.op, request.asked) = Answer(own, c, request.op, request.asked)
            /\ Open({"create"}) => \A body \in Bodies :
                CreateAlertRule(db, c, body) = CreateAlertRule(own, c, body)
            /\ Open({"ingest"}) => \A batch \in Batches :
                Ingest(db, c, batch) = Ingest(own, c, batch)
=============================================================================
