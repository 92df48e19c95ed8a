---------------------------- MODULE EventSearch ----------------------------
(***************************************************************************)
(* Paging through the events of a search while events arrive and expire:   *)
(* EventRepo.Search, with the part of the search handler that decides      *)
(* which tenant is asked for.  A page is one query, so it is one step; a   *)
(* client may change its parameters, and the user who asks, between two    *)
(* pages.                                                                  *)
(*                                                                         *)
(* Of a filter, the tenant and the window are kept apart, and `kinds` is   *)
(* the events everything else in it lets through.  The hash in a cursor is *)
(* taken to be different for different filters.                            *)
(***************************************************************************)
EXTENDS Integers, Sequences

CONSTANTS
    Tenants,
    Events,     \* the events that may arrive: when they happened, tenant and kind
    Queries,    \* the parameters a client may ask with
    Span,       \* defaultSearchWindow
    Ahead,      \* searchAhead, and how far ahead of the clock an event may be
    Retention,  \* how long an event is kept at the least
    MaxId,      \* bound on the identity column
    MaxNow      \* bound on the clock

Admin == "admin"
AnyTenant == "any"   \* no tenant is named
Unset == -1          \* no end of the window is named

ASSUME SearchAssumption ==
    /\ Span \in Nat /\ Ahead \in Nat /\ Retention \in Nat /\ MaxId \in Nat /\ MaxNow \in Nat
    /\ Tenants \cap {Admin, AnyTenant} = {}
    /\ \A v \in Events : v.ts \in Int /\ v.tenant \in Tenants
    /\ \A p \in Queries : /\ p.caller \in Tenants \cup {Admin}
                          /\ p.tenant \in Tenants \cup {AnyTenant}
                          /\ p.order \in {"asc", "desc"}
                          /\ p.from \in Nat \cup {Unset} /\ p.to \in Nat \cup {Unset}
                          /\ p.limit \in Nat \ {0}

VARIABLES
    now,     \* the clock
    nextId,  \* the identity column's next value
    open,    \* rows inserted by transactions that are still open
    rows,    \* rows that are visible
    cursor,  \* the cursor of the last page, or NoCursor
    first,   \* what the first page was asked for and its window, or NoSearch
    seen,    \* the rows of the pages so far
    stable   \* rows that were visible at the first page and are still

vars == <<now, nextId, open, rows, cursor, first, seen, stable>>

NoCursor == [after |-> "none"]
NoSearch == [order |-> "none"]

Row(v, n) == [id |-> n, event |-> v]

-----------------------------------------------------------------------------
(* One query.                                                              *)

\* eventFilter: a caller may name no tenant but one it may read.
Permitted(p) == p.tenant = AnyTenant \/ p.caller = Admin \/ p.tenant = p.caller

\* The tenant asked for: a viewer's is its own when it names none.
Tenant(p) == IF p.tenant = AnyTenant /\ p.caller # Admin THEN p.caller ELSE p.tenant

\* Mutant: a hash that leaves out the order.
HashNoOrder(p) == <<Tenant(p), p.kinds>>

\* filterHash: what a cursor must be reused with, but for the window.
Hash(p) == <<p.order, Tenant(p), p.kinds>>

\* setWindow: an end of the window that is not named is that of w.
Window(p, w) ==
    [from |-> IF p.from = Unset THEN w.from ELSE p.from,
     to |-> IF p.to = Unset THEN w.to ELSE p.to]

DefaultWindow == [from |-> now - Span, to |-> now + Ahead]

\* A cursor's hash is p's, and so are the ends of its window p names.
Accepts(p, c) ==
    /\ c.hash = Hash(p)
    /\ p.from \in {Unset, c.window.from}
    /\ p.to \in {Unset, c.window.to}

\* Row r comes before row s: ORDER BY ts, id, either way.
Before(order, r, s) ==
    LET Less(x, y) == \/ x.event.ts < y.event.ts
                      \/ x.event.ts = y.event.ts /\ x.id < y.id
    IN  IF order = "asc" THEN Less(r, s) ELSE Less(s, r)

\* The rows a filter lets through, of those the caller's scope shows.
Matches(r, p, w) ==
    /\ p.caller \in {Admin, r.event.tenant}
    /\ Tenant(p) \in {AnyTenant, r.event.tenant}
    /\ r.event.kind \in p.kinds
    /\ w.from <= r.event.ts /\ r.event.ts < w.to

\* The first `limit` rows of S, in order.
IsPage(page, S, p) ==
    LET taken == {page[i] : i \in DOMAIN page}
    IN  /\ \A i, j \in DOMAIN page : i < j => Before(p.order, page[i], page[j])
        /\ \A r \in S \ taken : \A i \in DOMAIN page : Before(p.order, page[i], r)
        /\ Len(page) = p.limit \/ taken = S

\* Mutant: the cursor skips the row that showed there are more.
CursorPastNext(page, S, p, w) ==
    LET left == {r \in S : \A i \in DOMAIN page : r # page[i]}
    IN  IF left = {} THEN NoCursor
        ELSE [after |-> CHOOSE r \in left : \A s \in left \ {r} : Before(p.order, r, s),
              window |-> w, hash |-> Hash(p)]

\* cursorAfter: the cursor of a page of S, if there are more rows.
CursorAfter(page, S, p, w) ==
    IF \A r \in S : \E i \in DOMAIN page : r = page[i] THEN NoCursor
    ELSE [after |-> page[Len(page)], window |-> w, hash |-> Hash(p)]

\* Pages there may be: sequences of no more than p.limit rows of S.
Pages(S, p) == UNION {[1 .. n -> S] : n \in 0 .. p.limit}

-----------------------------------------------------------------------------
Init ==
    /\ now = 0
    /\ nextId = 1
    /\ open = {}
    /\ rows = {}
    /\ cursor = NoCursor
    /\ first = NoSearch
    /\ seen = <<>>
    /\ stable = {}

Tick ==
    /\ now < MaxNow
    /\ now' = now + 1
    /\ UNCHANGED <<nextId, open, rows, cursor, first, seen, stable>>

\* The normalizer replaces a time outside of the retention, or too far ahead.
Accepted(ts) == ts \in now - Retention .. now + Ahead

\* A row is inserted in some transaction, with the next id.
Insert(v) ==
    /\ nextId <= MaxId
    /\ Accepted(v.ts)
    /\ \A r \in open \cup rows : r.event # v
    /\ open' = open \cup {Row(v, nextId)}
    /\ nextId' = nextId + 1
    /\ UNCHANGED <<now, rows, cursor, first, seen, stable>>

\* A transaction ends, in any order: its rows S become visible, or are gone.
Commit(S) ==
    /\ open' = open \ S
    /\ rows' = rows \cup S
    /\ UNCHANGED <<now, nextId, cursor, first, seen, stable>>
Abort(S) ==
    /\ open' = open \ S
    /\ UNCHANGED <<now, nextId, rows, cursor, first, seen, stable>>

\* Maintenance drops every row from before t.
Expire(t) ==
    /\ t <= now - Retention
    /\ rows' = {r \in rows : r.event.ts >= t}
    /\ stable' = stable \cap rows'
    /\ UNCHANGED <<now, nextId, open, cursor, first, seen>>

\* A search with no cursor.
FirstPage(p) ==
    LET w == Window(p, DefaultWindow)
        S == {r \in rows : Matches(r, p, w)}
    IN  /\ Permitted(p)
        /\ w.from < w.to
        /\ \E page \in Pages(S, p) :
            /\ IsPage(page, S, p)
            /\ cursor' = CursorAfter(page, S, p, w)
            /\ seen' = page
        /\ first' = [order |-> p.order, tenant |-> Tenant(p), kinds |-> p.kinds, window |-> w]
        /\ stable' = rows
        /\ UNCHANGED <<now, nextId, open, rows>>

\* Mutant: the window of a later page is worked out anew.
NextPageDrifting(p) ==
    LET w == Window(p, DefaultWindow)
        S == {r \in rows : Matches(r, p, w) /\ Before(p.order, cursor.after, r)}
    IN  /\ cursor # NoCursor
        /\ Permitted(p) /\ Accepts(p, cursor)
        /\ \E page \in Pages(S, p) :
            /\ IsPage(page, S, p)
            /\ cursor' = CursorAfter(page, S, p, w)
            /\ seen' = seen \o page
        /\ UNCHANGED <<now, nextId, open, rows, first, stable>>

\* A search with the last page's cursor.
NextPage(p) ==
    LET w == Window(p, cursor.window)
        S == {r \in rows : Matches(r, p, w) /\ Before(p.order, cursor.after, r)}
    IN  /\ cursor # NoCursor
        /\ Permitted(p) /\ Accepts(p, cursor)
        /\ \E page \in Pages(S, p) :
            /\ IsPage(page, S, p)
            /\ cursor' = CursorAfter(page, S, p, w)
            /\ seen' = seen \o page
        /\ UNCHANGED <<now, nextId, open, rows, first, stable>>

Next ==
    \/ Tick
    \/ \E v \in Events : Insert(v)
    \/ \E S \in SUBSET open \ {{}} : Commit(S) \/ Abort(S)
    \/ \E t \in 1 .. MaxNow : Expire(t)
    \/ \E p \in Queries : FirstPage(p) \/ NextPage(p)

Spec == Init /\ [][Next]_vars

-----------------------------------------------------------------------------
(* Properties.                                                             *)

\* What the first page asked for.
Wanted(r) ==
    /\ first.tenant \in {AnyTenant, r.event.tenant}
    /\ r.event.kind \in first.kinds
    /\ first.window.from <= r.event.ts /\ r.event.ts < first.window.to

\* Every variable stays in its domain, and a row's id is its own.
TypeOK ==
    /\ now \in 0 .. MaxNow
    /\ nextId \in 1 .. MaxId + 1
    /\ open \cup rows \subseteq [id : 1 .. nextId - 1, event : Events]
    /\ \A r, s \in open \cup rows : r.id = s.id => r = s
    /\ stable \subseteq rows
    /\ seen \in Seq([id : 1 .. nextId - 1, event : Events])
    /\ cursor = NoCursor \/ cursor.after = seen[Len(seen)]

\* "pages are ordered by (ts, id) and resume after the last row of the
\* previous page, so events that arrive in between don't shift them"
\* (architecture.md): the pages together are one result in order, so that no
\* row comes twice.
OneResult ==
    \A i, j \in DOMAIN seen : i < j => Before(first.order, seen[i], seen[j])

\* "a cursor reused with different filters is rejected", and "later pages keep
\* the first page's window ... so paging never drifts" (search_test.go):
\* whatever is asked with the cursor, all rows are of the first page's search.
NothingElse == \A i \in DOMAIN seen : Wanted(seen[i])

\* A client that has the last page has every row of its search that was there
\* from the first page on, however much arrived and expired meanwhile.
NoneSkipped ==
    first # NoSearch /\ cursor = NoCursor =>
        \A r \in stable : Wanted(r) => \E i \in DOMAIN seen : seen[i] = r
=============================================================================
