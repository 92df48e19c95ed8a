------------------------- MODULE EventSearchProofs -------------------------
(***************************************************************************)
(* For any tenants, events and queries: the pages of a search are one      *)
(* result, of one question, with every row that stayed from its start; and *)
(* the dashboard's timelines and top values count what a search finds, for *)
(* any window, widths and limits.                                          *)
(***************************************************************************)
EXTENDS EventCounts, SequenceTheorems, FiniteSetTheorems, TLAPS

Known == [id : 1 .. nextId - 1, event : Events]

\* What a search asks for, as its first page recorded it.
Questions == [order : {"asc", "desc"}, tenant : Tenants \cup {Admin, AnyTenant},
              kinds : {p.kinds : p \in Queries}, window : [from : Int, to : Int]]

\* A cursor stands at the end of what was seen, and for the same question.
CursorOfSearch ==
    /\ first # NoSearch => first \in Questions
    /\ first = NoSearch => seen = <<>> /\ cursor = NoCursor
    /\ cursor # NoCursor =>
        /\ seen # <<>> /\ cursor.after = seen[Len(seen)]
        /\ cursor.window = first.window
        /\ cursor.hash = <<first.order, first.tenant, first.kinds>>

\* What was wanted and is not on the pages comes after the cursor.
RestAhead ==
    first # NoSearch => \A r \in stable : Wanted(r) =>
        \/ \E i \in DOMAIN seen : seen[i] = r
        \/ cursor # NoCursor /\ Before(first.order, cursor.after, r)

IInv == TypeOK /\ CursorOfSearch /\ OneResult /\ NothingElse /\ RestAhead

-----------------------------------------------------------------------------
(* The order, a filter, and one page.                                      *)

LEMMA BeforeTransitive ==
    ASSUME NEW order, NEW x \in [id : Int, event : Events], NEW y \in [id : Int, event : Events],
           NEW z \in [id : Int, event : Events], Before(order, x, y), Before(order, y, z)
    PROVE  Before(order, x, z)
<1>1. x.event.ts \in Int /\ y.event.ts \in Int /\ z.event.ts \in Int
  BY SearchAssumption
<1>2. x.id \in Int /\ y.id \in Int /\ z.id \in Int
  OBVIOUS
<1>3. QED
  BY <1>1, <1>2 DEF Before

\* The scope hides nothing that a permitted filter lets through.
LEMMA ScopeAgrees ==
    ASSUME NEW p \in Queries, NEW r, NEW w, Permitted(p)
    PROVE  Matches(r, p, w) <=> /\ Tenant(p) \in {AnyTenant, r.event.tenant}
                                /\ r.event.kind \in p.kinds
                                /\ w.from <= r.event.ts /\ r.event.ts < w.to
<1>1. p.caller \in Tenants \cup {Admin} /\ p.tenant \in Tenants \cup {AnyTenant}
      /\ Tenants \cap {Admin, AnyTenant} = {}
  BY SearchAssumption
<1>2. QED
  BY <1>1 DEF Matches, Tenant, Permitted, Admin, AnyTenant

LEMMA CursorsDiffer ==
    ASSUME NEW a, NEW w, NEW h PROVE [after |-> a, window |-> w, hash |-> h] # NoCursor
<1>1. "window" \in DOMAIN [after |-> a, window |-> w, hash |-> h]
  OBVIOUS
<1>2. "window" \notin DOMAIN NoCursor
  BY DEF NoCursor
<1>3. QED
  BY <1>1, <1>2

\* A page is in order, and what it leaves out comes after its cursor.
LEMMA PageAndRest ==
    ASSUME NEW p \in Queries, NEW S, NEW w, NEW page \in Pages(S, p), IsPage(page, S, p)
    PROVE  LET c == CursorAfter(page, S, p, w) IN
           /\ page \in Seq(S)
           /\ \A i, j \in DOMAIN page : i < j => Before(p.order, page[i], page[j])
           /\ c = NoCursor => \A r \in S : \E i \in DOMAIN page : page[i] = r
           /\ c # NoCursor =>
                /\ page # <<>>
                /\ c = [after |-> page[Len(page)], window |-> w, hash |-> Hash(p)]
                /\ \A r \in S : \/ \E i \in DOMAIN page : page[i] = r
                                \/ Before(p.order, page[Len(page)], r)
<1>1. PICK n \in 0 .. p.limit : page \in [1 .. n -> S]
  BY DEF Pages
<1>2. n \in Nat /\ p.limit \in Nat \ {0}
  BY SearchAssumption
<1>3. page \in Seq(S)
  BY <1>1, <1>2, SeqDef
<1>4. Len(page) \in Nat /\ DOMAIN page = 1 .. Len(page)
  BY <1>3, LenProperties
<1>5. CASE \A r \in S : \E i \in DOMAIN page : r = page[i]
  BY <1>3, <1>5 DEF IsPage, CursorAfter
<1>6. CASE ~\A r \in S : \E i \in DOMAIN page : r = page[i]
  <2>1. {page[i] : i \in DOMAIN page} # S
    BY <1>6
  <2>2. Len(page) = p.limit
    BY <2>1 DEF IsPage
  <2>3. Len(page) \in DOMAIN page /\ page # <<>>
    BY <1>2, <1>3, <1>4, <2>2, EmptySeq
  <2>4. CursorAfter(page, S, p, w) = [after |-> page[Len(page)], window |-> w, hash |-> Hash(p)]
    BY <1>6 DEF CursorAfter
  <2>5. ASSUME NEW r \in S, \A i \in DOMAIN page : page[i] # r
        PROVE  Before(p.order, page[Len(page)], r)
    <3>1. r \in S \ {page[i] : i \in DOMAIN page}
      BY <2>5
    <3>2. QED
      BY <2>3, <3>1 DEF IsPage
  <2>6. QED
    BY <1>3, <2>3, <2>4, <2>5, CursorsDiffer DEF IsPage
<1>7. QED
  BY <1>5, <1>6

-----------------------------------------------------------------------------
(* Steps.                                                                  *)

LEMMA KnownRows ==
    ASSUME TypeOK PROVE Known \subseteq [id : Int, event : Events]
BY DEF TypeOK, Known

LEMMA Unchanging ==
    ASSUME IInv, UNCHANGED <<cursor, first, seen>>, stable' \subseteq stable, TypeOK'
    PROVE  IInv'
BY DEF IInv, CursorOfSearch, OneResult, NothingElse, RestAhead, Wanted

LEMMA InitIInv == Init => IInv
<1> SUFFICES ASSUME Init PROVE IInv
  OBVIOUS
<1>1. seen \in Seq(Known) /\ DOMAIN seen = {}
  BY EmptySeq DEF Init
<1>2. TypeOK
  BY <1>1, SearchAssumption DEF Init, TypeOK, Known
<1>3. NoSearch \notin Questions
  BY DEF NoSearch, Questions
<1>4. QED
  BY <1>1, <1>2 DEF Init, IInv, CursorOfSearch, OneResult, NothingElse, RestAhead

\* What happens to the table leaves the pages alone.
LEMMA TableKeepsIInv ==
    ASSUME IInv,
           \/ Tick \/ \E v \in Events : Insert(v)
           \/ \E S \in SUBSET open \ {{}} : Commit(S) \/ Abort(S)
           \/ \E t \in 1 .. MaxNow : Expire(t)
    PROVE  IInv'
<1> USE SearchAssumption
<1>1. TypeOK
  BY DEF IInv
<1>2. CASE Tick
  BY <1>1, <1>2, Unchanging DEF Tick, TypeOK
<1>3. ASSUME NEW v \in Events, Insert(v) PROVE IInv'
  <2>1. nextId' = nextId + 1 /\ nextId \in 1 .. MaxId
    BY <1>1, <1>3 DEF Insert, TypeOK
  <2>2. [id : 1 .. nextId - 1, event : Events] \subseteq [id : 1 .. nextId' - 1, event : Events]
    BY <2>1
  <2>3. seen' \in Seq([id : 1 .. nextId' - 1, event : Events])
    <3>1. seen' = seen /\ seen \in Seq([id : 1 .. nextId - 1, event : Events])
      BY <1>1, <1>3 DEF Insert, TypeOK
    <3>2. QED
      BY <2>2, <3>1, SeqMonotonic
  <2>4. open' \cup rows' \subseteq [id : 1 .. nextId' - 1, event : Events]
    BY <1>1, <1>3, <2>1, <2>2 DEF Insert, TypeOK, Row
  <2>5. \A r, q \in open' \cup rows' : r.id = q.id => r = q
    BY <1>1, <1>3, <2>1 DEF Insert, TypeOK, Row
  <2>6. TypeOK'
    BY <1>1, <1>3, <2>1, <2>3, <2>4, <2>5 DEF Insert, TypeOK
  <2>7. QED
    BY <1>3, <2>6, Unchanging DEF Insert
<1>4. ASSUME NEW S \in SUBSET open, Commit(S) \/ Abort(S) PROVE IInv'
  <2>1. TypeOK'
    BY <1>1, <1>4 DEF Commit, Abort, TypeOK
  <2>2. QED
    BY <1>4, <2>1, Unchanging DEF Commit, Abort
<1>5. ASSUME NEW t \in 1 .. MaxNow, Expire(t) PROVE IInv'
  <2>1. TypeOK'
    BY <1>1, <1>5 DEF Expire, TypeOK
  <2>2. QED
    BY <1>5, <2>1, Unchanging DEF Expire
<1>6. QED
  BY <1>2, <1>3, <1>4, <1>5

\* What a search finds is what its question wants.
LEMMA FirstPageKeepsIInv == ASSUME IInv, NEW p \in Queries, FirstPage(p) PROVE IInv'
<1> DEFINE w == Window(p, DefaultWindow)
           S == {r \in rows : Matches(r, p, w)}
<1>1. PICK page \in Pages(S, p) :
        IsPage(page, S, p) /\ cursor' = CursorAfter(page, S, p, w) /\ seen' = page
  BY DEF FirstPage
<1> HIDE DEF w, S
<1>2. /\ page \in Seq(S)
      /\ \A i, j \in DOMAIN page : i < j => Before(p.order, page[i], page[j])
      /\ cursor' = NoCursor => \A r \in S : \E i \in DOMAIN page : page[i] = r
      /\ cursor' # NoCursor =>
            /\ page # <<>>
            /\ cursor' = [after |-> page[Len(page)], window |-> w, hash |-> Hash(p)]
            /\ \A r \in S : \/ \E i \in DOMAIN page : page[i] = r
                            \/ Before(p.order, page[Len(page)], r)
  BY <1>1, PageAndRest
<1>3. /\ first' = [order |-> p.order, tenant |-> Tenant(p), kinds |-> p.kinds, window |-> w]
      /\ stable' = rows /\ Permitted(p) /\ UNCHANGED <<now, nextId, open, rows>>
  BY DEF w, FirstPage
<1>4. first' \in Questions /\ first' # NoSearch
  <2>1. p.from \in Int /\ p.to \in Int /\ now \in Int /\ Span \in Int /\ Ahead \in Int
    BY SearchAssumption DEF IInv, TypeOK, Unset
  <2>2. w \in [from : Int, to : Int]
    BY <2>1 DEF w, Window, DefaultWindow
  <2>3. first' \in Questions
    BY <1>3, <2>2, SearchAssumption DEF Questions, Tenant
  <2>4. NoSearch \notin Questions
    BY DEF NoSearch, Questions
  <2>5. QED
    BY <2>3, <2>4
<1>5. S \subseteq Known /\ S \subseteq rows /\ \A r \in rows : r \in S <=> Wanted(r)'
  BY <1>3, ScopeAgrees DEF S, Wanted, IInv, TypeOK, Known
<1>6. page \in Seq(Known) /\ \A i \in DOMAIN page : page[i] \in S
  BY <1>2, <1>5, SeqMonotonic, LenProperties
<1>7. TypeOK'
  BY <1>1, <1>2, <1>3, <1>6 DEF IInv, TypeOK, Known
<1>8. CursorOfSearch'
  BY <1>1, <1>2, <1>3, <1>4 DEF CursorOfSearch, Hash
<1>9. OneResult' /\ NothingElse'
  <2>1. \A r \in S : Wanted(r)'
    BY <1>5
  <2>2. QED
    BY <1>1, <1>2, <1>3, <1>6, <2>1 DEF OneResult, NothingElse
<1>10. RestAhead'
  BY <1>1, <1>2, <1>3, <1>5 DEF RestAhead
<1>11. QED
  BY <1>7, <1>8, <1>9, <1>10 DEF IInv

\* A cursor pins the question, so the next page goes on with the same one.
LEMMA NextPageKeepsIInv == ASSUME IInv, NEW p \in Queries, NextPage(p) PROVE IInv'
<1> DEFINE w == Window(p, cursor.window)
           S == {r \in rows : Matches(r, p, w) /\ Before(p.order, cursor.after, r)}
<1>1. PICK page \in Pages(S, p) :
        IsPage(page, S, p) /\ cursor' = CursorAfter(page, S, p, w) /\ seen' = seen \o page
  BY DEF NextPage
<1> HIDE DEF w, S
<1>2. /\ page \in Seq(S)
      /\ \A i, j \in DOMAIN page : i < j => Before(p.order, page[i], page[j])
      /\ cursor' = NoCursor => \A r \in S : \E i \in DOMAIN page : page[i] = r
      /\ cursor' # NoCursor =>
            /\ page # <<>>
            /\ cursor' = [after |-> page[Len(page)], window |-> w, hash |-> Hash(p)]
            /\ \A r \in S : \/ \E i \in DOMAIN page : page[i] = r
                            \/ Before(p.order, page[Len(page)], r)
  BY <1>1, PageAndRest
<1>3. /\ cursor # NoCursor /\ Permitted(p) /\ Accepts(p, cursor)
      /\ UNCHANGED <<now, nextId, open, rows, first, stable>>
  BY DEF NextPage
<1>4. /\ first # NoSearch /\ first \in Questions /\ seen # <<>> /\ cursor.after = seen[Len(seen)]
      /\ first.order = p.order /\ first.tenant = Tenant(p) /\ first.kinds = p.kinds
      /\ w = first.window
  <2>1. /\ first # NoSearch /\ first \in Questions /\ seen # <<>> /\ cursor.after = seen[Len(seen)]
        /\ cursor.window = first.window /\ cursor.hash = <<first.order, first.tenant, first.kinds>>
    BY <1>3 DEF IInv, CursorOfSearch
  <2>2. cursor.window \in [from : Int, to : Int]
    BY <2>1 DEF Questions
  <2>3. w = cursor.window
    BY <1>3, <2>2 DEF w, Accepts, Window
  <2>4. QED
    BY <1>3, <2>1, <2>3 DEF Accepts, Hash
<1>5. /\ S \subseteq Known /\ S \subseteq rows
      /\ \A r \in rows : r \in S <=> Wanted(r) /\ Before(first.order, cursor.after, r)
  BY <1>3, <1>4, ScopeAgrees DEF S, Wanted, IInv, TypeOK, Known
<1>6. page \in Seq(Known) /\ \A i \in DOMAIN page : page[i] \in S
  BY <1>2, <1>5, SeqMonotonic, LenProperties
<1>7. seen \in Seq(Known)
  BY DEF IInv, TypeOK, Known
<1>8. /\ Len(seen) \in Nat \ {0} /\ Len(page) \in Nat
      /\ DOMAIN seen = 1 .. Len(seen) /\ DOMAIN page = 1 .. Len(page)
      /\ seen' \in Seq(Known) /\ Len(seen') = Len(seen) + Len(page)
      /\ DOMAIN seen' = 1 .. Len(seen) + Len(page)
      /\ \A i \in 1 .. Len(seen) : seen'[i] = seen[i]
      /\ \A i \in 1 .. Len(page) : seen'[Len(seen) + i] = page[i]
  <2>1. Len(seen) \in Nat \ {0} /\ Len(page) \in Nat
    BY <1>4, <1>6, <1>7, EmptySeq, LenProperties
  <2>2. DOMAIN seen = 1 .. Len(seen) /\ DOMAIN page = 1 .. Len(page)
    BY <1>6, <1>7, LenProperties
  <2>3. /\ seen' \in Seq(Known) /\ Len(seen') = Len(seen) + Len(page)
        /\ \A i \in 1 .. Len(seen) + Len(page) :
                seen'[i] = IF i <= Len(seen) THEN seen[i] ELSE page[i - Len(seen)]
    BY <1>1, <1>6, <1>7, ConcatProperties
  <2>4. DOMAIN seen' = 1 .. Len(seen')
    BY <2>3, LenProperties
  <2>5. \A i \in 1 .. Len(seen) : seen'[i] = seen[i]
    BY <2>1, <2>3
  <2>6. ASSUME NEW i \in 1 .. Len(page) PROVE seen'[Len(seen) + i] = page[i]
    <3>1. Len(seen) + i \in 1 .. Len(seen) + Len(page) /\ ~(Len(seen) + i <= Len(seen))
          /\ (Len(seen) + i) - Len(seen) = i
      BY <2>1
    <3>2. QED
      BY <2>3, <3>1
  <2>7. QED
    BY <2>1, <2>2, <2>3, <2>4, <2>5, <2>6
<1>9. \A i \in DOMAIN seen' : \/ i \in DOMAIN seen /\ seen'[i] = seen[i]
                              \/ \E k \in DOMAIN page : i = Len(seen) + k /\ seen'[i] = page[k]
  <2> SUFFICES ASSUME NEW i \in 1 .. Len(seen) + Len(page), i \notin 1 .. Len(seen)
               PROVE  \E k \in 1 .. Len(page) : i = Len(seen) + k /\ seen'[i] = page[k]
    <3>1. \A i \in 1 .. Len(seen) : seen'[i] = seen[i]
      BY <1>8
    <3>2. QED
      BY <1>8, <3>1
  <2>1. i - Len(seen) \in 1 .. Len(page) /\ i = Len(seen) + (i - Len(seen))
    BY <1>8
  <2>2. QED
    BY <1>8, <2>1
<1>10. TypeOK'
  <2>1. cursor' = NoCursor \/ cursor'.after = seen'[Len(seen')]
    BY <1>2, <1>6, <1>8, EmptySeq, SMTT(60)
  <2>2. QED
    BY <1>3, <1>8, <2>1 DEF IInv, TypeOK, Known
<1>11. CursorOfSearch'
  <2>1. cursor' # NoCursor => seen' # <<>> /\ cursor'.after = seen'[Len(seen')]
    BY <1>2, <1>6, <1>8, EmptySeq
  <2>2. QED
    BY <1>2, <1>3, <1>4, <2>1 DEF CursorOfSearch, Hash
<1>12. OneResult'
  <2> SUFFICES ASSUME NEW i \in DOMAIN seen', NEW j \in DOMAIN seen', i < j
               PROVE  Before(first.order, seen'[i], seen'[j])
    BY <1>3 DEF OneResult
  <2>1. CASE j \in DOMAIN seen
    BY <1>8, <2>1 DEF IInv, OneResult
  <2>2. CASE i \notin DOMAIN seen /\ j \notin DOMAIN seen
    <3>1. PICK k \in DOMAIN page, l \in DOMAIN page :
            i = Len(seen) + k /\ j = Len(seen) + l /\ seen'[i] = page[k] /\ seen'[j] = page[l]
      BY <1>9, <2>2
    <3>2. k < l
      BY <1>8, <3>1
    <3>3. QED
      BY <1>2, <1>4, <3>1, <3>2
  <2>3. CASE i \in DOMAIN seen /\ j \notin DOMAIN seen
    <3>1. PICK l \in DOMAIN page : seen'[j] = page[l]
      BY <1>9, <2>3
    <3>2. Before(first.order, seen[Len(seen)], page[l]) /\ page[l] \in Known
      BY <1>4, <1>5, <1>6
    <3>3. i = Len(seen) \/ Before(first.order, seen[i], seen[Len(seen)])
      BY <1>8, <2>3 DEF IInv, OneResult
    <3>4. seen[i] \in Known /\ seen[Len(seen)] \in Known
      BY <1>7, <1>8, <2>3, ElementOfSeq
    <3>5. Known \subseteq [id : Int, event : Events]
      BY KnownRows DEF IInv
    <3>6. Before(first.order, seen[i], page[l])
      BY <3>2, <3>3, <3>4, <3>5, BeforeTransitive
    <3>7. QED
      BY <1>8, <2>3, <3>1, <3>6
  <2>4. QED
    BY <1>8, <2>1, <2>2, <2>3
<1>13. NothingElse'
  <2>1. \A i \in DOMAIN page : Wanted(page[i])
    BY <1>5, <1>6
  <2>2. \A i \in DOMAIN seen : Wanted(seen[i])
    BY DEF IInv, NothingElse
  <2>3. QED
    BY <1>3, <1>9, <2>1, <2>2 DEF NothingElse, Wanted
<1>14. RestAhead'
  <2> SUFFICES ASSUME NEW r \in stable, Wanted(r), \A i \in DOMAIN seen' : seen'[i] # r
               PROVE  cursor' # NoCursor /\ Before(first.order, cursor'.after, r)
    BY <1>3 DEF RestAhead, Wanted
  <2>1. \A i \in DOMAIN seen : seen[i] # r
    <3>1. ASSUME NEW i \in DOMAIN seen PROVE i \in DOMAIN seen' /\ seen'[i] = seen[i]
      BY <1>8, <3>1
    <3>2. QED
      BY <3>1
  <2>2. \A i \in DOMAIN page : page[i] # r
    <3>1. ASSUME NEW i \in DOMAIN page
          PROVE  Len(seen) + i \in DOMAIN seen' /\ seen'[Len(seen) + i] = page[i]
      BY <1>8, <3>1
    <3>2. QED
      BY <3>1
  <2>3. r \in S
    BY <1>4, <1>5, <2>1 DEF IInv, RestAhead, TypeOK
  <2>4. QED
    BY <1>2, <1>4, <2>2, <2>3
<1>15. QED
  BY <1>10, <1>11, <1>12, <1>13, <1>14 DEF IInv

LEMMA NextKeepsIInv == IInv /\ [Next]_vars => IInv'
<1> SUFFICES ASSUME IInv, [Next]_vars PROVE IInv'
  OBVIOUS
<1>1. CASE UNCHANGED vars
  BY <1>1, Unchanging DEF vars, IInv, TypeOK
<1>2. CASE \E p \in Queries : FirstPage(p) \/ NextPage(p)
  BY <1>2, FirstPageKeepsIInv, NextPageKeepsIInv
<1>3. QED
  BY <1>1, <1>2, TableKeepsIInv DEF Next

LEMMA Inductive == Spec => []IInv
BY InitIInv, NextKeepsIInv, PTL DEF Spec

-----------------------------------------------------------------------------
(* Theorems.                                                               *)

\* Every variable stays in its domain, and a row's id is its own.
THEOREM TypeCorrect == Spec => []TypeOK
BY Inductive, PTL DEF IInv

\* The pages of EventRepo.Search are one result in order, with no row twice,
\* whatever is stored and dropped between two of them.
THEOREM AlwaysOneResult == Spec => []OneResult
BY Inductive, PTL DEF IInv

\* A cursor is accepted for the question of its first page only, by whoever
\* may ask it, so no page has a row of another.
THEOREM NeverAnythingElse == Spec => []NothingElse
BY Inductive, PTL DEF IInv

\* A search that is paged to its end has shown every row of its question that
\* was there all along.
THEOREM NeverSkips == Spec => []NoneSkipped
<1>1. IInv => NoneSkipped
  BY DEF IInv, RestAhead, NoneSkipped
<1>2. QED
  BY <1>1, Inductive, PTL

-----------------------------------------------------------------------------
(* Counts: division, and the numbering of a finite set in an order.        *)

LEMMA DivBounds ==
    ASSUME NEW x \in Int, NEW m \in Nat \ {0}
    PROVE  /\ x \div m \in Int
           /\ (x \div m) * m <= x /\ x < (x \div m) * m + m
BY SMTT(60)

LEMMA DivUnique ==
    ASSUME NEW x \in Int, NEW m \in Nat \ {0}, NEW q \in Int, q * m <= x, x < q * m + m
    PROVE  x \div m = q
BY DivBounds, SMTT(60)

LEMMA DivMonotone ==
    ASSUME NEW x \in Int, NEW y \in Int, NEW m \in Nat \ {0}, x <= y
    PROVE  x \div m <= y \div m
BY DivBounds, SMTT(60)

\* Time.Truncate: the start of the interval t is in, a whole multiple of its
\* width.
LEMMA TruncateIs ==
    ASSUME NEW t \in Int, NEW m \in Nat \ {0}
    PROVE  /\ Truncate(t, m) = (t \div m) * m /\ Truncate(t, m) \in Int
           /\ Truncate(t, m) <= t /\ t < Truncate(t, m) + m
<1>1. t % m = t - m * (t \div m)
  BY Z3T(30)
<1>2. t \div m \in Int /\ (t \div m) * m <= t /\ t < (t \div m) * m + m
  BY DivBounds
<1>3. m * (t \div m) = (t \div m) * m /\ (t \div m) * m \in Int
  BY <1>2, SMTT(60)
<1>4. Truncate(t, m) = (t \div m) * m
  BY <1>1, <1>2, <1>3 DEF Truncate
<1> QED
  BY <1>2, <1>3, <1>4

LEMMA WholeMultiple ==
    ASSUME NEW q \in Int, NEW m \in Nat \ {0}
    PROVE  (q * m) % m = 0
BY SMTT(60)

\* One interval more.
LEMMA OneWidthMore ==
    ASSUME NEW q \in Int, NEW m \in Nat \ {0}
    PROVE  /\ q * m \in Int /\ (q - 1) * m \in Int
           /\ q * m = (q - 1) * m + m
BY SMTT(60)

LEMMA Distributes ==
    ASSUME NEW p \in Int, NEW q \in Int, NEW m \in Nat \ {0}
    PROVE  (p + q) * m = p * m + q * m
BY SMTT(60)

LEMMA Scaled ==
    ASSUME NEW p \in Int, NEW q \in Int, NEW m \in Nat \ {0}, p <= q
    PROVE  p * m <= q * m /\ p * m \in Int /\ q * m \in Int
BY SMTT(60)

\* date_bin: t is in the bin that starts k widths after the origin exactly when
\* it is no earlier and less than a width later.
LEMMA BinIs ==
    ASSUME NEW m \in Nat \ {0}, NEW t \in Int, NEW origin \in Int, NEW k \in Int
    PROVE  DateBin(m, t, origin) = origin + k * m
               <=> origin + k * m <= t /\ t < origin + k * m + m
<1> DEFINE q == (t - origin) \div m
<1>1. q \in Int /\ q * m <= t - origin /\ t - origin < q * m + m
  BY DivBounds
<1>2. DateBin(m, t, origin) = origin + m * q
  BY DEF DateBin
<1>3. CASE q = k
  BY <1>1, <1>2, <1>3, OneWidthMore
<1>4. CASE q < k
  <2>1. k * m >= q * m + m
    <3>1. q * m <= (k - 1) * m
      BY <1>1, <1>4, Scaled
    <3> QED
      BY <1>1, <3>1, OneWidthMore
  <2> QED
    BY <1>1, <1>2, <2>1, OneWidthMore
<1>5. CASE q > k
  <2>1. q * m >= k * m + m
    <3>1. k * m <= (q - 1) * m
      BY <1>1, <1>5, Scaled
    <3> QED
      BY <1>1, <3>1, OneWidthMore
  <2> QED
    BY <1>1, <1>2, <2>1, OneWidthMore
<1> QED
  BY <1>1, <1>3, <1>4, <1>5

\* R orders S: of two members one is before the other, and none before itself.
Orders(R, S) ==
    /\ \A x \in S : <<x, x>> \notin R
    /\ \A x, y \in S : x = y \/ <<x, y>> \in R \/ <<y, x>> \in R
    /\ \A x, y, z \in S : <<x, y>> \in R /\ <<y, z>> \in R => <<x, z>> \in R

Below(R, S, x) == {y \in S : <<y, x>> \in R}

LEMMA BelowFinite ==
    ASSUME NEW S, IsFiniteSet(S), NEW R, Orders(R, S), NEW x \in S
    PROVE  /\ IsFiniteSet(Below(R, S, x)) /\ Cardinality(Below(R, S, x)) \in Nat
           /\ Cardinality(Below(R, S, x)) < Cardinality(S)
<1>1. Below(R, S, x) \in SUBSET S /\ x \notin Below(R, S, x)
  BY DEF Below, Orders
<1>2. /\ IsFiniteSet(Below(R, S, x)) /\ Cardinality(Below(R, S, x)) <= Cardinality(S)
      /\ Cardinality(S) = Cardinality(Below(R, S, x)) => S = Below(R, S, x)
  BY <1>1, FS_Subset
<1>3. Cardinality(Below(R, S, x)) \in Nat /\ Cardinality(S) \in Nat
  BY <1>2, FS_CardinalityType
<1> QED
  BY <1>1, <1>2, <1>3

LEMMA BelowGrows ==
    ASSUME NEW S, IsFiniteSet(S), NEW R, Orders(R, S), NEW x \in S, NEW y \in S, <<x, y>> \in R
    PROVE  Cardinality(Below(R, S, x)) < Cardinality(Below(R, S, y))
<1>1. Below(R, S, x) \in SUBSET Below(R, S, y)
  BY DEF Below, Orders
<1>2. x \in Below(R, S, y) /\ x \notin Below(R, S, x)
  BY DEF Below, Orders
<1>3. /\ IsFiniteSet(Below(R, S, y)) /\ Cardinality(Below(R, S, y)) \in Nat
      /\ Cardinality(Below(R, S, x)) \in Nat
  BY BelowFinite
<1>4. /\ Cardinality(Below(R, S, x)) <= Cardinality(Below(R, S, y))
      /\ Cardinality(Below(R, S, y)) = Cardinality(Below(R, S, x)) => Below(R, S, y) = Below(R, S, x)
  BY <1>1, <1>3, FS_Subset
<1> QED
  BY <1>2, <1>3, <1>4

\* How many members are before one numbers them all from 1, in order: no two
\* have the same number, and no number is missing.
LEMMA Numbered ==
    ASSUME NEW S, IsFiniteSet(S), NEW R, Orders(R, S)
    PROVE  /\ Cardinality(S) \in Nat
           /\ \A x \in S : Cardinality(Below(R, S, x)) + 1 \in 1 .. Cardinality(S)
           /\ \A x, y \in S : <<x, y>> \in R <=>
                  Cardinality(Below(R, S, x)) + 1 < Cardinality(Below(R, S, y)) + 1
           /\ \A i \in 1 .. Cardinality(S) : \E x \in S : Cardinality(Below(R, S, x)) + 1 = i
<1> DEFINE n == Cardinality(S)
           T == 1 .. n
           rank == [x \in S |-> Cardinality(Below(R, S, x)) + 1]
<1>1. n \in Nat
  BY FS_CardinalityType
<1>2. IsFiniteSet(T) /\ Cardinality(T) = n
  BY <1>1, FS_Interval
<1>3. \A x \in S : Cardinality(Below(R, S, x)) \in Nat /\ Cardinality(Below(R, S, x)) < n
  BY BelowFinite
<1>4. \A x \in S : rank[x] \in T
  BY <1>1, <1>3
<1>5. \A x, y \in S : <<x, y>> \in R => rank[x] < rank[y]
  BY <1>3, BelowGrows
<1>6. \A x, y \in S : rank[x] < rank[y] => <<x, y>> \in R
  <2>1. \A x \in S : rank[x] \in Int
    BY <1>3
  <2> HIDE DEF rank
  <2>2. \A x, y \in S : x = y \/ <<x, y>> \in R \/ <<y, x>> \in R
    BY DEF Orders
  <2>3. ASSUME NEW x \in S, NEW y \in S, rank[x] < rank[y] PROVE <<x, y>> \in R
    <3>1. x # y
      BY <2>1, <2>3
    <3>2. ~(rank[y] < rank[x])
      BY <2>1, <2>3
    <3> QED
      BY <1>5, <2>2, <3>1, <3>2
  <2> QED
    BY <2>3
<1>7. rank \in Injection(S, T)
  <2>1. rank \in [S -> T] /\ DOMAIN rank = S
    BY <1>4
  <2>2. \A x \in S : rank[x] \in Int
    BY <1>3
  <2> HIDE DEF rank, T
  <2>3. \A x, y \in S : x = y \/ <<x, y>> \in R \/ <<y, x>> \in R
    BY DEF Orders
  <2>4. ASSUME NEW x \in S, NEW y \in S, rank[x] = rank[y] PROVE x = y
    <3>1. ~(rank[x] < rank[y]) /\ ~(rank[y] < rank[x])
      BY <2>2, <2>4
    <3> QED
      BY <1>5, <2>3, <3>1
  <2> QED
    BY <2>1, <2>4 DEF Injection, IsInjective
<1>8. rank \in Surjection(S, T)
  BY <1>2, <1>7, FS_Injection
<1>9. \A i \in T : \E x \in S : rank[x] = i
  <2> HIDE DEF rank, T
  <2> QED
    BY <1>8 DEF Surjection
<1> QED
  BY <1>1, <1>4, <1>5, <1>6, <1>9

\* A set of numbers that is not empty and finite has a least.
LEMMA Least ==
    ASSUME NEW S \in SUBSET Int, IsFiniteSet(S), S # {}
    PROVE  \E m \in S : \A k \in S : m <= k
<1> DEFINE R == {p \in S \X S : p[1] < p[2]}
<1>1. \A x, y \in S : <<x, y>> \in R <=> x < y
  OBVIOUS
<1>2. \A x \in S : x \in Int
  OBVIOUS
<1> HIDE DEF R
<1>3. Orders(R, S)
  <2>1. \A x \in S : <<x, x>> \notin R
    BY <1>1, <1>2
  <2>2. \A x, y \in S : x = y \/ <<x, y>> \in R \/ <<y, x>> \in R
    <3>1. \A x, y \in S : x = y \/ x < y \/ y < x
      BY <1>2
    <3> QED
      BY <1>1, <3>1, Zenon
  <2>3. \A x, y, z \in S : <<x, y>> \in R /\ <<y, z>> \in R => <<x, z>> \in R
    BY <1>1, <1>2
  <2> QED
    BY <2>1, <2>2, <2>3 DEF Orders
<1>4. Cardinality(S) # 0 /\ Cardinality(S) \in Nat
  BY FS_EmptySet, FS_CardinalityType
<1>5. 1 \in 1 .. Cardinality(S)
  BY <1>4
<1>6. PICK m \in S : Cardinality(Below(R, S, m)) + 1 = 1
  BY <1>3, <1>5, Numbered
<1>7. Cardinality(Below(R, S, m)) \in Nat /\ IsFiniteSet(Below(R, S, m))
  BY <1>3, BelowFinite
<1>8. Below(R, S, m) = {}
  BY <1>6, <1>7, FS_EmptySet
<1>9. \A k \in S : ~(k < m)
  BY <1>1, <1>8 DEF Below
<1> QED
  BY <1>2, <1>9

-----------------------------------------------------------------------------
(* A timeline.                                                             *)

\* The buckets of a window end with the one its last moment is in, and are no
\* more than the intervals of the window and one.
LEMMA BucketsAre ==
    ASSUME NEW w, w.from \in Int, w.to \in Int, w.from < w.to, NEW m \in Nat \ {0}
    PROVE  LET n == Buckets(w, m)
               s == Truncate(w.from, m)
           IN  /\ n \in Nat \ {0}
               /\ (n - 1) * m <= w.to - s - 1 /\ w.to - s - 1 < n * m
               /\ Parts(w, m) \in Int /\ n <= Parts(w, m) + 1
<1> DEFINE s == Truncate(w.from, m)
           x == w.to - s - 1
           q == x \div m
           y == w.to - w.from - 1
           r == y \div m
<1>1. s \in Int /\ s <= w.from /\ w.from < s + m
  BY TruncateIs
<1> HIDE DEF s
<1>2. x \in Int /\ x >= 0 /\ y \in Int /\ x < y + m
  BY <1>1
<1> HIDE DEF x, y
<1>3. q \in Int /\ q * m <= x /\ x < q * m + m
  BY <1>2, DivBounds
<1>4. r \in Int /\ r * m <= y /\ y < r * m + m
  BY <1>2, DivBounds
<1> HIDE DEF q, r
<1>5. q >= 0
  <2> SUFFICES ASSUME q < 0 PROVE FALSE
    BY <1>3
  <2>1. (q + 1) * m <= 0 * m /\ (q + 1) * m = q * m + m
    BY <1>3, Scaled, OneWidthMore
  <2> QED
    BY <1>2, <1>3, <2>1
<1>6. q <= r + 1
  <2> SUFFICES ASSUME r + 2 <= q PROVE FALSE
    BY <1>3, <1>4
  <2>1. (r + 2) * m <= q * m /\ q * m \in Int
    BY <1>3, <1>4, Scaled
  <2>2. /\ (r + 1) * m = r * m + m /\ (r + 2) * m = (r + 1) * m + m /\ r * m \in Int
    BY <1>4, SMTT(60)
  <2> QED
    BY <1>2, <1>3, <1>4, <2>1, <2>2
<1>7. (q + 1) * m = q * m + m /\ q * m \in Int
  BY <1>3, SMTT(60)
<1>8. Buckets(w, m) = q + 1 /\ Parts(w, m) = r + 1
  BY DEF Buckets, Parts, q, r, x, y, s
<1>9. q + 1 - 1 = q
  BY <1>3
<1> QED
  BY <1>3, <1>4, <1>5, <1>6, <1>7, <1>8, <1>9 DEF x, s

\* pickInterval: a width a timeline is not refused for is one of Widths, with
\* few enough intervals when it was not named and is not the longest.
LEMMA WidthIs ==
    ASSUME NEW w, w.from \in Int, w.to \in Int, w.from < w.to, NEW name \in Nat,
           ~TimelineRefused(w, name)
    PROVE  /\ Width(w, name) \in Nat \ {0}
           /\ Parts(w, Width(w, name)) <= MaxParts
           /\ name = NoName /\ Width(w, name) # Widths[Len(Widths)] =>
                  Parts(w, Width(w, name)) <= AutoParts
<1>1. /\ Widths \in Seq(Nat \ {0}) /\ Len(Widths) \in Nat /\ Len(Widths) # 0
      /\ DOMAIN Widths = 1 .. Len(Widths)
  BY CountAssumption, EmptySeq
<1>2. \A i \in DOMAIN Widths : Widths[i] \in Nat \ {0}
  BY <1>1
<1>3. MaxParts \in Nat
  BY CountAssumption
<1> DEFINE width == Width(w, name)
<1>4. ~(Parts(w, width) > MaxParts)
  BY DEF TimelineRefused
<1>5. CASE name # NoName
  <2>1. width = name
    BY <1>5 DEF Width
  <2>2. PICK i \in DOMAIN Widths : Widths[i] = name
    BY <1>5 DEF TimelineRefused
  <2>3. width \in Nat \ {0}
    BY <1>2, <2>1, <2>2
  <2>4. Parts(w, width) \in Int
    BY <2>3, BucketsAre
  <2> HIDE DEF width
  <2> QED
    BY <1>3, <1>4, <1>5, <2>3, <2>4 DEF width
<1>6. CASE name = NoName
  <2> DEFINE few == {i \in DOMAIN Widths : Parts(w, Widths[i]) <= AutoParts}
  <2>1. CASE few = {}
    <3>1. width = Widths[Len(Widths)]
      BY <1>6, <2>1 DEF Width
    <3>2. width \in Nat \ {0}
      BY <1>1, <1>2, <3>1
    <3>3. Parts(w, width) \in Int
      BY <3>2, BucketsAre
    <3> HIDE DEF width
    <3> QED
      BY <1>3, <1>4, <3>1, <3>2, <3>3 DEF width
  <2>2. CASE few # {}
    <3> DEFINE i == CHOOSE i \in few : \A j \in few : i <= j
    <3>1. width = Widths[i]
      BY <1>6, <2>2 DEF Width
    <3>2. few \in SUBSET Int /\ IsFiniteSet(few)
      <4>1. IsFiniteSet(DOMAIN Widths) /\ DOMAIN Widths \in SUBSET Int
        BY <1>1, FS_Interval
      <4>2. few \in SUBSET DOMAIN Widths
        OBVIOUS
      <4> HIDE DEF few
      <4> QED
        BY <4>1, <4>2, FS_Subset
    <3>3. i \in few
      <4> HIDE DEF few
      <4> QED
        BY <2>2, <3>2, Least
    <3>4. i \in DOMAIN Widths /\ Parts(w, Widths[i]) <= AutoParts
      BY <3>3
    <3> HIDE DEF i, few
    <3>5. width \in Nat \ {0}
      BY <1>2, <3>1, <3>4
    <3>6. Parts(w, width) \in Int /\ Parts(w, width) <= AutoParts
      BY <3>1, <3>4, <3>5, BucketsAre
    <3> HIDE DEF width
    <3> QED
      BY <1>3, <1>4, <3>5, <3>6 DEF width
  <2> QED
    BY <2>1, <2>2
<1> QED
  BY <1>5, <1>6

\* The rows are finitely many, because no two have one id; and the window of a
\* count is in whole units of time.
LEMMA RowsFinite == ASSUME TypeOK PROVE IsFiniteSet(rows)
<1> DEFINE T == 1 .. nextId - 1
           f == [r \in rows |-> r.id]
<1>1. nextId \in Int
  BY SearchAssumption DEF TypeOK
<1>2. IsFiniteSet(T)
  BY <1>1, FS_Interval
<1>3. f \in [rows -> T] /\ \A r, s \in rows : f[r] = f[s] => r = s
  BY DEF TypeOK
<1>4. f \in Injection(rows, T)
  <2>1. DOMAIN f = rows
    OBVIOUS
  <2> HIDE DEF f, T
  <2> QED
    BY <1>3, <2>1 DEF Injection, IsInjective
<1> QED
  BY <1>2, <1>4, FS_Injection

LEMMA CountWindowIs ==
    ASSUME TypeOK, NEW c \in Counts
    PROVE  CountWindow(c.query).from \in Int /\ CountWindow(c.query).to \in Int
<1>1. now \in Int /\ Span \in Int /\ Ahead \in Int
  BY SearchAssumption DEF TypeOK
<1>2. c.query.from \in Nat \cup {Unset} /\ c.query.to \in Nat \cup {Unset}
  BY CountAssumption
<1>3. DefaultWindow.from \in Int /\ DefaultWindow.to \in Int
  BY <1>1 DEF DefaultWindow
<1> HIDE DEF DefaultWindow
<1> QED
  BY <1>2, <1>3 DEF CountWindow, Window

\* A count counts what a search would find: the scope of the caller hides
\* nothing that a permitted filter lets through.
LEMMA CountedIsFound ==
    ASSUME TypeOK, NEW p, CountWindow(p).from \in Int, CountWindow(p).to \in Int
    PROVE  Counted(p) = FoundBySearch(p)
<1> DEFINE w == CountWindow(p)
<1>1. \A r \in rows : r.event.ts \in Int
  BY SearchAssumption DEF TypeOK
<1>2. ASSUME NEW r \in rows
      PROVE  w.from <= r.event.ts /\ r.event.ts < w.to <=> r.event.ts \in w.from .. w.to - 1
  <2> HIDE DEF w
  <2> QED
    BY <1>1 DEF w
<1>3. ASSUME NEW r \in rows
      PROVE  p.caller \in {Admin, r.event.tenant} =>
                 (Tenant(p) \in {AnyTenant, r.event.tenant} <=> p.tenant \in {AnyTenant, r.event.tenant})
  BY DEF Tenant
<1> HIDE DEF w
<1> QED
  BY <1>2, <1>3 DEF Counted, FoundBySearch, Matches, w

\* Where the buckets of a timeline start, what each counts, and that they cover
\* the window and nothing else, as arithmetic.
LEMMA BucketBounds ==
    ASSUME NEW w, w.from \in Int, w.to \in Int, w.from < w.to, NEW m \in Nat \ {0},
           NEW i \in 1 .. Buckets(w, m)
    PROVE  LET s == Truncate(w.from, m)
               at == s + (i - 1) * m
           IN  /\ at \in Int /\ at % m = 0
               /\ at < w.to /\ w.from < at + m
               /\ i > 1 => at = s + (i - 1 - 1) * m + m
<1> DEFINE s == Truncate(w.from, m)
           n == Buckets(w, m)
           a == (i - 1) * m
<1>1. /\ s \in Int /\ s <= w.from /\ w.from < s + m /\ s = (w.from \div m) * m
      /\ w.from \div m \in Int
  BY TruncateIs, DivBounds
<1>2. n \in Nat \ {0} /\ (n - 1) * m <= w.to - s - 1
  BY BucketsAre
<1>3. i \in Int /\ 1 <= i /\ i <= n
  BY <1>2
<1>4. a \in Int /\ 0 <= a /\ a <= (n - 1) * m /\ (n - 1) * m \in Int
  <2> HIDE DEF n
  <2>1. 0 * m <= a /\ a <= (n - 1) * m /\ a \in Int /\ (n - 1) * m \in Int
    BY <1>2, <1>3, Scaled
  <2>2. 0 * m = 0
    OBVIOUS
  <2> HIDE DEF a
  <2> QED
    BY <2>1, <2>2
<1>5. (s + a) % m = 0
  <2> DEFINE q == w.from \div m
  <2>1. q \in Int /\ i - 1 \in Int
    BY <1>1, <1>3
  <2>2. q + (i - 1) \in Int /\ s + a = (q + (i - 1)) * m
    <3>1. s = q * m
      BY <1>1
    <3> HIDE DEF q, n, s
    <3> QED
      BY <2>1, <3>1, Distributes
  <2> HIDE DEF q, s, a, n
  <2> QED
    BY <2>2, WholeMultiple
<1>6. a = (i - 1 - 1) * m + m
  BY <1>3, OneWidthMore
<1> HIDE DEF s, n, a
<1>7. s + a \in Int /\ s + a < w.to /\ w.from < s + a + m
  BY <1>1, <1>2, <1>4
<1>8. (i - 1 - 1) * m \in Int
  BY <1>3, OneWidthMore
<1>9. i > 1 => s + a = s + (i - 1 - 1) * m + m
  BY <1>1, <1>4, <1>6, <1>8
<1> QED
  BY <1>5, <1>7, <1>9 DEF s, a

LEMMA BucketsCover ==
    ASSUME NEW w, w.from \in Int, w.to \in Int, w.from < w.to, NEW m \in Nat \ {0},
           NEW t \in w.from .. w.to - 1
    PROVE  LET s == Truncate(w.from, m)
           IN  \E i \in 1 .. Buckets(w, m) : s + (i - 1) * m <= t /\ t < s + (i - 1) * m + m
<1> DEFINE s == Truncate(w.from, m)
           n == Buckets(w, m)
           q == (t - s) \div m
<1>1. s \in Int /\ s <= w.from
  BY TruncateIs
<1>2. n \in Nat \ {0} /\ w.to - s - 1 < n * m
  BY BucketsAre
<1> HIDE DEF s, n
<1>3. t \in Int /\ w.from <= t /\ t <= w.to - 1
  OBVIOUS
<1>4. q \in Int /\ q * m <= t - s /\ t - s < q * m + m
  BY <1>1, <1>3, DivBounds
<1> HIDE DEF q
<1>5. q >= 0
  <2> SUFFICES ASSUME q + 1 <= 0 PROVE FALSE
    BY <1>4
  <2>1. (q + 1) * m <= 0 * m /\ (q + 1) * m = q * m + m /\ q * m \in Int
    BY <1>4, Scaled, OneWidthMore, SMTT(60)
  <2> QED
    BY <1>1, <1>3, <1>4, <2>1
<1>6. q < n
  <2> SUFFICES ASSUME n <= q PROVE FALSE
    BY <1>2, <1>4
  <2>1. n * m <= q * m /\ n * m \in Int /\ q * m \in Int
    BY <1>2, <1>4, Scaled
  <2> QED
    BY <1>1, <1>2, <1>3, <1>4, <2>1
<1>7. q + 1 \in 1 .. n /\ q + 1 - 1 = q
  BY <1>2, <1>4, <1>5, <1>6
<1>8. s + q * m <= t /\ t < s + q * m + m
  <2>1. q * m \in Int
    BY <1>4, OneWidthMore
  <2> QED
    BY <1>1, <1>3, <1>4, <2>1
<1>9. \E i \in 1 .. n : s + (i - 1) * m <= t /\ t < s + (i - 1) * m + m
  <2>1. PICK i \in 1 .. n : i = q + 1
    BY <1>7
  <2>2. i - 1 = q
    BY <1>4, <2>1
  <2>3. s + (i - 1) * m <= t /\ t < s + (i - 1) * m + m
    BY <1>8, <2>2
  <2> QED
    BY <2>3
<1> QED
  BY <1>9 DEF s, n

LEMMA TimelineIsExact ==
    ASSUME TypeOK, NEW c \in Counts, Countable(c.query),
           ~TimelineRefused(CountWindow(c.query), c.interval)
    PROVE  TimelineExact(c.query, c.interval)
<1> DEFINE p == c.query
           w == CountWindow(p)
           m == Width(w, c.interval)
           s == Truncate(w.from, m)
           n == Buckets(w, m)
           at(i) == s + (i - 1) * m
           line == Timeline(p, c.interval)
           In(i) == {r \in FoundBySearch(p) : line[i].start <= r.event.ts
                                              /\ r.event.ts < line[i].start + m}
<1>1. w.from \in Int /\ w.to \in Int /\ w.from < w.to
  BY CountWindowIs DEF Countable
<1>2. /\ m \in Nat \ {0} /\ Parts(w, m) <= MaxParts
      /\ c.interval = NoName /\ m # Widths[Len(Widths)] => Parts(w, m) <= AutoParts
  <2>1. c.interval \in Nat
    BY CountAssumption
  <2> QED
    BY <1>1, <2>1, WidthIs
<1>3. /\ n \in Nat \ {0} /\ n <= Parts(w, m) + 1 /\ Parts(w, m) \in Int
      /\ MaxParts \in Nat /\ AutoParts \in Nat
  <2>1. MaxParts \in Nat /\ AutoParts \in Nat
    BY CountAssumption
  <2> QED
    BY <1>1, <1>2, <2>1, BucketsAre
<1>4. s \in Int
  BY <1>1, <1>2, TruncateIs
<1>5. line = [i \in 1 .. n |->
                [start |-> at(i),
                 count |-> Cardinality({r \in Counted(p) : DateBin(m, r.event.ts, s) = at(i)})]]
  BY DEF Timeline
<1>6. Counted(p) = FoundBySearch(p)
  BY <1>1, CountedIsFound
<1>7. \A r \in FoundBySearch(p) : r.event.ts \in Int
  <2>1. \A r \in rows : r.event.ts \in Int
    BY SearchAssumption DEF TypeOK
  <2> QED
    BY <2>1 DEF FoundBySearch
<1>8. \A i \in 1 .. n : i \in Int /\ at(i) \in Int /\ at(i) % m = 0
                        /\ at(i) < w.to /\ w.from < at(i) + m
                        /\ (i > 1 => at(i) = at(i - 1) + m)
  BY <1>1, <1>2, <1>3, BucketBounds
<1>9. \A t \in w.from .. w.to - 1 : \E i \in 1 .. n : at(i) <= t /\ t < at(i) + m
  BY <1>1, <1>2, BucketsCover
<1> HIDE DEF w, m, s, n
<1>10. /\ DOMAIN line = 1 .. n /\ Len(line) = n
       /\ \A i \in 1 .. n : line[i].start = at(i)
  BY <1>3, <1>5
<1>11. \A i \in 1 .. n : line[i].count = Cardinality(In(i))
  <2> SUFFICES ASSUME NEW i \in 1 .. n PROVE line[i].count = Cardinality(In(i))
    OBVIOUS
  <2>1. \A r \in FoundBySearch(p) : DateBin(m, r.event.ts, s) = at(i)
                                    <=> at(i) <= r.event.ts /\ r.event.ts < at(i) + m
    <3>1. i - 1 \in Int
      BY <1>8
    <3> QED
      BY <1>2, <1>4, <1>7, <3>1, BinIs
  <2>2. line[i].count = Cardinality({r \in FoundBySearch(p) : DateBin(m, r.event.ts, s) = at(i)})
    BY <1>5, <1>6
  <2>3. In(i) = {r \in FoundBySearch(p) : at(i) <= r.event.ts /\ r.event.ts < at(i) + m}
    BY <1>10
  <2>4. In(i) = {r \in FoundBySearch(p) : DateBin(m, r.event.ts, s) = at(i)}
    <3> HIDE DEF at, In
    <3> QED
      BY <2>1, <2>3
  <2> QED
    BY <2>2, <2>4
<1> HIDE DEF at, line
<1>12. \A i \in DOMAIN line : line[i].start % m = 0 /\ line[i].count = Cardinality(In(i))
  BY <1>8, <1>10, <1>11
<1>13. \A i \in DOMAIN line : i > 1 => line[i].start = line[i - 1].start + m
  <2> SUFFICES ASSUME NEW i \in 1 .. n, i > 1 PROVE line[i].start = line[i - 1].start + m
    BY <1>10
  <2>1. i - 1 \in 1 .. n
    BY <1>3
  <2> QED
    BY <1>8, <1>10, <2>1
<1>14. \A t \in w.from .. w.to - 1 :
           \E i \in DOMAIN line : line[i].start <= t /\ t < line[i].start + m
  <2> SUFFICES ASSUME NEW t \in w.from .. w.to - 1
               PROVE  \E i \in DOMAIN line : line[i].start <= t /\ t < line[i].start + m
    OBVIOUS
  <2>1. PICK i \in 1 .. n : at(i) <= t /\ t < at(i) + m
    BY <1>9
  <2> QED
    BY <1>10, <2>1
<1>15. \A i \in DOMAIN line : line[i].start < w.to /\ w.from < line[i].start + m
  BY <1>8, <1>10
<1>16. /\ Len(line) <= MaxParts + 1
       /\ c.interval = NoName /\ m # Widths[Len(Widths)] => Len(line) <= AutoParts + 1
  BY <1>2, <1>3, <1>10
<1> QED
  BY <1>12, <1>13, <1>14, <1>15, <1>16 DEF TimelineExact, w, m, line

-----------------------------------------------------------------------------
(* Top values.                                                             *)

LEMMA TopIsExact ==
    ASSUME TypeOK, NEW c \in Counts, Countable(c.query)
    PROVE  TopExact(c.query, c.field, c.limit)
<1> DEFINE p == c.query
           field == c.field
           limit == c.limit
           found == FoundBySearch(p)
           val(r) == ValueOf[field][r.event.kind]
           valued == {r \in found : val(r) # NoValue}
           With(v) == Cardinality({r \in found : val(r) = v})
           all == {val(r) : r \in found} \ {NoValue}
           group(v) == [value |-> v, count |-> With(v)]
           groups == {group(v) : v \in all}
           R == {x \in groups \X groups : MoreFrequent(x[1], x[2])}
           n == Cardinality(groups)
           size == IF n < limit THEN n ELSE limit
           rank(g) == Cardinality(Below(R, groups, g)) + 1
           top == Top(p, field, limit)
           there == {top[i].value : i \in DOMAIN top}
<1>1. Counted(p) = found
  BY CountWindowIs, CountedIsFound
<1>2. IsFiniteSet(found) /\ found \in SUBSET rows
  <2>1. found \in SUBSET rows
    BY DEF FoundBySearch
  <2> HIDE DEF found
  <2> QED
    BY <2>1, RowsFinite, FS_Subset
\* The groups of the query: a count with each value that a search finds.
<1>3. Groups(p, field) = groups
  <2>1. {r \in Counted(p) : ValueOf[field][r.event.kind] # NoValue} = valued
    BY <1>1
  <2> HIDE DEF found
  <2>2. {val(r) : r \in valued} = all
    OBVIOUS
  <2>3. \A v \in all : {r \in valued : val(r) = v} = {r \in found : val(r) = v}
    OBVIOUS
  <2>4. Groups(p, field) = {[value |-> v, count |-> Cardinality({r \in valued : val(r) = v})]
                              : v \in {val(r) : r \in valued}}
    BY <2>1 DEF Groups
  <2> HIDE DEF valued, all, val
  <2>5. {[value |-> v, count |-> Cardinality({r \in valued : val(r) = v})] : v \in all} = groups
    BY <2>3
  <2> QED
    BY <2>2, <2>4, <2>5
<1>4. \A v \in all : v \in Int /\ With(v) \in Nat
  <2>1. \A r \in found : val(r) \in Int
    BY <1>2, CountAssumption DEF TypeOK, NoValue
  <2>2. ASSUME NEW v PROVE With(v) \in Nat
    <3>1. {r \in found : val(r) = v} \in SUBSET found
      OBVIOUS
    <3> HIDE DEF found
    <3> QED
      BY <1>2, <3>1, FS_Subset, FS_CardinalityType
  <2> HIDE DEF found, With, val
  <2> QED
    BY <2>1, <2>2
<1>5. IsFiniteSet(groups)
  <2> DEFINE f == [r \in valued |-> group(val(r))]
  <2>1. IsFiniteSet(valued)
    <3>1. valued \in SUBSET found
      OBVIOUS
    <3> HIDE DEF valued, found
    <3> QED
      BY <1>2, <3>1, FS_Subset
  <2>2. \A v \in all : \E r \in valued : val(r) = v
    <3> HIDE DEF found, val
    <3> QED
      OBVIOUS
  <2>3. \A r \in valued : val(r) \in all
    <3> HIDE DEF found, val
    <3> QED
      OBVIOUS
  <2> HIDE DEF valued, all, val, group
  <2>4. f \in [valued -> groups]
    BY <2>3
  <2>5. \A g \in groups : \E r \in valued : f[r] = g
    BY <2>2
  <2> HIDE DEF f, groups
  <2>6. f \in Surjection(valued, groups)
    BY <2>4, <2>5 DEF Surjection
  <2> QED
    BY <2>1, <2>6, FS_Surjection
<1>6. \A g \in groups : /\ g.value \in all /\ g = group(g.value)
                        /\ g.value \in Int /\ g.count \in Nat /\ g.count = With(g.value)
  <2> HIDE DEF all, With
  <2> QED
    BY <1>4
<1>7. \A v \in all : group(v) \in groups /\ group(v).value = v
  <2> HIDE DEF all, With
  <2> QED
    OBVIOUS
<1> HIDE DEF found, val, valued, all, With, group, groups
<1>8. \A g, h \in groups : <<g, h>> \in R <=> MoreFrequent(g, h)
  OBVIOUS
<1> HIDE DEF R
<1>9. Orders(R, groups)
  <2>1. \A g \in groups : ~MoreFrequent(g, g)
    BY <1>6 DEF MoreFrequent
  <2>2. \A g, h \in groups : g = h \/ MoreFrequent(g, h) \/ MoreFrequent(h, g)
    <3> SUFFICES ASSUME NEW g \in groups, NEW h \in groups, g # h
                 PROVE  MoreFrequent(g, h) \/ MoreFrequent(h, g)
      OBVIOUS
    <3>1. g.value # h.value
      BY <1>6
    <3> QED
      BY <1>6, <3>1 DEF MoreFrequent
  <2>3. \A g, h, k \in groups : MoreFrequent(g, h) /\ MoreFrequent(h, k) => MoreFrequent(g, k)
    BY <1>6 DEF MoreFrequent
  <2> QED
    BY <1>8, <2>1, <2>2, <2>3 DEF Orders
<1>10. /\ n \in Nat
       /\ \A g \in groups : rank(g) \in 1 .. n
       /\ \A g, h \in groups : MoreFrequent(g, h) <=> rank(g) < rank(h)
       /\ \A i \in 1 .. n : \E g \in groups : rank(g) = i
  <2>1. n \in Nat
    BY <1>5, FS_CardinalityType
  <2>2. \A g \in groups : rank(g) \in 1 .. n
    BY <1>5, <1>9, Numbered
  <2>3. ASSUME NEW g \in groups, NEW h \in groups
        PROVE  MoreFrequent(g, h) <=> rank(g) < rank(h)
    <3>1. <<g, h>> \in R <=> rank(g) < rank(h)
      BY <1>5, <1>9, Numbered
    <3> QED
      BY <1>8, <3>1, Zenon
  <2>4. \A i \in 1 .. n : \E g \in groups : rank(g) = i
    BY <1>5, <1>9, Numbered
  <2> HIDE DEF n, rank
  <2> QED
    BY <2>1, <2>2, <2>3, <2>4
<1>11. limit \in Nat \ {0}
  BY CountAssumption
<1>12. size \in Nat /\ size <= n /\ size <= limit /\ (size < limit => size = n)
  BY <1>10, <1>11
<1>13. top = [i \in 1 .. size |-> CHOOSE g \in groups : rank(g) = i]
  <2>1. top = [i \in 1 .. size |-> CHOOSE g \in groups :
                  Cardinality({h \in groups : MoreFrequent(h, g)}) + 1 = i]
    BY <1>3 DEF Top
  <2>2. \A g \in groups : {h \in groups : MoreFrequent(h, g)} = Below(R, groups, g)
    BY <1>8 DEF Below
  <2>3. ASSUME NEW i
        PROVE  (CHOOSE g \in groups : Cardinality({h \in groups : MoreFrequent(h, g)}) + 1 = i)
                   = (CHOOSE g \in groups : rank(g) = i)
    <3>1. \A g \in groups : Cardinality({h \in groups : MoreFrequent(h, g)}) + 1 = i
                            <=> rank(g) = i
      BY <2>2
    <3> QED
      BY <3>1
  <2> QED
    BY <2>1, <2>3
<1> HIDE DEF n, size, rank, top
<1>14. /\ DOMAIN top = 1 .. size /\ Len(top) = size
       /\ \A i \in 1 .. size : top[i] \in groups /\ rank(top[i]) = i
  <2>1. \A i \in 1 .. size : \E g \in groups : rank(g) = i
    BY <1>10, <1>12
  <2>2. DOMAIN top = 1 .. size /\ Len(top) = size
    BY <1>12, <1>13
  <2>3. \A i \in 1 .. size : top[i] = CHOOSE g \in groups : rank(g) = i
    BY <1>13
  <2> QED
    BY <2>1, <2>2, <2>3
<1>15. \A g \in groups : rank(g) <= size => top[rank(g)] = g
  <2> SUFFICES ASSUME NEW g \in groups, rank(g) <= size PROVE top[rank(g)] = g
    OBVIOUS
  <2>1. rank(g) \in 1 .. size
    BY <1>10, <1>12
  <2> DEFINE h == top[rank(g)]
  <2>2. h \in groups /\ rank(h) = rank(g)
    BY <1>14, <2>1
  <2> HIDE DEF h
  <2>3. ~MoreFrequent(g, h) /\ ~MoreFrequent(h, g)
    BY <1>10, <2>1, <2>2
  <2>4. g = h
    BY <1>8, <1>9, <2>2, <2>3 DEF Orders
  <2> QED
    BY <2>4 DEF h
<1>16. there \subseteq all /\ \A i \in DOMAIN top : top[i].count = With(top[i].value)
  BY <1>6, <1>14
<1>17. Len(top) = Cardinality(there)
  <2> DEFINE f == [i \in 1 .. size |-> top[i].value]
  <2>1. IsFiniteSet(1 .. size) /\ Cardinality(1 .. size) = size
    BY <1>12, FS_Interval
  <2>2. \A i, j \in 1 .. size : f[i] = f[j] => i = j
    BY <1>6, <1>14
  <2>3. f \in [1 .. size -> there] /\ \A v \in there : \E i \in 1 .. size : f[i] = v
    BY <1>14
  <2>4. f \in Bijection(1 .. size, there)
    <3>1. DOMAIN f = 1 .. size
      OBVIOUS
    <3> HIDE DEF f, there
    <3> QED
      BY <2>2, <2>3, <3>1 DEF Bijection, Injection, Surjection, IsInjective
  <2> HIDE DEF f, there
  <2> QED
    BY <1>14, <2>1, <2>4, FS_Bijection DEF ExistsBijection
<1>18. Len(top) <= limit /\ (Len(top) < limit => there = all)
  <2>1. ASSUME size = n, NEW v \in all PROVE v \in there
    <3>1. group(v) \in groups /\ group(v).value = v
      BY <1>7
    <3>2. rank(group(v)) \in 1 .. size
      BY <1>10, <2>1, <3>1
    <3>3. top[rank(group(v))] = group(v)
      BY <1>12, <1>15, <3>1, <3>2
    <3> QED
      BY <1>14, <3>1, <3>2, <3>3
  <2> QED
    BY <1>12, <1>14, <1>16, <2>1
<1>19. \A i, j \in DOMAIN top : i < j => MoreFrequent(top[i], top[j])
  BY <1>10, <1>14
<1>20. \A v \in all \ there, i \in DOMAIN top : MoreFrequent(top[i], [value |-> v, count |-> With(v)])
  <2> SUFFICES ASSUME NEW v \in all \ there, NEW i \in 1 .. size
               PROVE  MoreFrequent(top[i], group(v))
    BY <1>14 DEF group
  <2>1. group(v) \in groups /\ group(v).value = v
    BY <1>7
  <2>2. ~(rank(group(v)) <= size)
    <3> SUFFICES ASSUME rank(group(v)) <= size PROVE FALSE
      OBVIOUS
    <3>1. rank(group(v)) \in 1 .. size
      BY <1>10, <1>12, <2>1
    <3>2. top[rank(group(v))].value = v
      BY <1>15, <2>1
    <3> QED
      BY <1>14, <3>1, <3>2
  <2>3. rank(top[i]) = i /\ top[i] \in groups /\ rank(group(v)) \in Int
    BY <1>10, <1>14, <2>1
  <2>4. rank(top[i]) < rank(group(v))
    BY <1>12, <2>2, <2>3
  <2> QED
    BY <1>10, <2>1, <2>3, <2>4
<1> QED
  BY <1>16, <1>17, <1>18, <1>19, <1>20 DEF TopExact, top, all, With, found, val

\* The dashboard counts what a search would find: each event of the window in
\* the one bucket of the timeline it falls in, and the most frequent values,
\* most frequent first, with none left out that is more frequent.
THEOREM CountsAlwaysAgree == Spec => []CountsAgree
<1>1. IInv => CountsAgree
  BY TimelineIsExact, TopIsExact DEF IInv, CountsAgree
<1> QED
  BY <1>1, Inductive, PTL
=============================================================================
