------------------------------- MODULE Authz -------------------------------
(***************************************************************************)
(* Package authz, and the policies package api builds its enforcer from:   *)
(* what a caller may do to which tenants (ADR 0009).                       *)
(*                                                                         *)
(* A caller is [role, tenant, user].  A tenant is its id, and "" is none.  *)
(***************************************************************************)
EXTENDS Integers

UserRoles == {"admin", "viewer"}
Roles == UserRoles \cup {"anonymous", "collector"}
Resources == {"health", "sessions", "events", "alert_rules", "alerts", "tenants"}
Actions == {"read", "create"}
Scoping == {"own", "any"}

Grant(role, scope, resource, actions) ==
    [role |-> role, scope |-> scope, resource |-> resource, actions |-> actions]

\* One set per feature.
policies ==
    [health   |-> {Grant("anonymous", "any", "health", {"read"}),
                   Grant("*", "any", "health", {"read"})},
     sessions |-> {Grant("anonymous", "any", "sessions", {"create"}),
                   Grant("*", "any", "sessions", {"create"})},
     events   |-> {Grant("admin", "any", "events", {"read", "create"}),
                   Grant("viewer", "own", "events", {"read"}),
                   Grant("collector", "any", "events", {"create"})},
     tenants  |-> {Grant("admin", "any", "tenants", {"read"}),
                   Grant("viewer", "own", "tenants", {"read"})},
     alerts   |-> {Grant("admin", "any", "alert_rules", {"read", "create"}),
                   Grant("viewer", "own", "alert_rules", {"read"}),
                   Grant("admin", "any", "alerts", {"read"}),
                   Grant("viewer", "own", "alerts", {"read"})}]

\* Policy.validate.
Valid(p) ==
    /\ p.role \in Roles \cup {"*"} /\ p.scope \in Scoping /\ p.resource \in Resources
    /\ p.actions # {} /\ p.actions \subseteq Actions \cup {"*"}
    /\ ~(p.role = "anonymous" /\ p.scope = "own")

\* New: the server does not start with a set that is empty or a policy that
\* is not valid.
ASSUME PoliciesValid ==
    \A feature \in DOMAIN policies :
        policies[feature] # {} /\ \A p \in policies[feature] : Valid(p)

grants == UNION {{<<p.role, p.resource, p.scope, a>> : a \in p.actions} :
                    p \in UNION {policies[feature] : feature \in DOMAIN policies}}

Authenticated(c) == c.role # "anonymous"

\* The exact grant and its wildcards.
Allows(c, resource, scope, action) ==
    \E a \in {action, "*"} :
        \/ <<c.role, resource, scope, a>> \in grants
        \/ Authenticated(c) /\ <<"*", resource, scope, a>> \in grants

Can(c, resource, action, tenant) ==
    \/ tenant # "" /\ tenant = c.tenant /\ Allows(c, resource, "own", action)
    \/ Allows(c, resource, "any", action)

\* The tenants a caller may act under: all of them, at most one, or none.
Scopes(c, resource, action) ==
    [all |-> Allows(c, resource, "any", action),
     one |-> IF ~Allows(c, resource, "any", action) /\ Allows(c, resource, "own", action)
             THEN c.tenant ELSE ""]

Empty(ts) == ~ts.all /\ ts.one = ""
Contains(ts, tenant) == ts.all \/ (tenant # "" /\ tenant = ts.one)

\* Deny, and the status its kind gets.
Deny(c) == IF Authenticated(c) THEN "permission_denied" ELSE "authentication_required"
=============================================================================
