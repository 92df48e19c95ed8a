---------------------------- MODULE EventCounts ----------------------------
(***************************************************************************)
(* The dashboard's counts: EventRepo.Top and EventRepo.Timeline, over the  *)
(* rows and with the filters of EventSearch.  Each is one query that       *)
(* changes nothing, so it is an operator on the state, and what is said of *)
(* it is an invariant.                                                     *)
(***************************************************************************)
EXTENDS EventSearch, FiniteSets

CONSTANTS
    Counts,     \* what may be counted: [query, interval, field, limit]
    Widths,     \* intervals, shortest first
    AutoParts,  \* autoIntervals
    MaxParts,   \* maxIntervals
    ValueOf     \* for each of TopFields, the value of each kind of event, a
                \* number that keeps the byte order, or NoValue

NoValue == -1   \* NULL
NoName == 0     \* no interval is named

ASSUME CountAssumption ==
    /\ Widths # <<>> /\ Widths \in Seq(Nat \ {0})
    /\ \A i, j \in DOMAIN Widths : i < j => Widths[i] < Widths[j] /\ Widths[j] % Widths[i] = 0
    /\ AutoParts \in Nat /\ MaxParts \in Nat /\ AutoParts <= MaxParts
    /\ \A c \in Counts :
        /\ c.interval \in Nat /\ c.limit \in Nat \ {0} /\ c.field \in DOMAIN ValueOf
        /\ c.query.from \in Nat \cup {Unset} /\ c.query.to \in Nat \cup {Unset}
    /\ \A field \in DOMAIN ValueOf, v \in Events : ValueOf[field][v.kind] \in Nat \cup {NoValue}

-----------------------------------------------------------------------------
(* What both count.                                                        *)

\* resolveCount, after eventFilter: the window of a count, which defaults to a
\* search's, and the events counted.
CountWindow(p) == Window(p, DefaultWindow)
Countable(p) == Permitted(p) /\ CountWindow(p).from < CountWindow(p).to
Counted(p) == {r \in rows : Matches(r, p, CountWindow(p))}

-----------------------------------------------------------------------------
(* Timelines.                                                              *)

\* The intervals of a width that a window holds, the last perhaps not whole.
Parts(w, width) == (w.to - w.from - 1) \div width + 1

\* pickInterval: the width named, or the shortest of which the window has few
\* enough, or the longest.
Width(w, name) ==
    LET few == {i \in DOMAIN Widths : Parts(w, Widths[i]) <= AutoParts}
    IN  IF name # NoName THEN name
        ELSE IF few = {} THEN Widths[Len(Widths)]
        ELSE Widths[CHOOSE i \in few : \A j \in few : i <= j]

TimelineRefused(w, name) ==
    \/ name # NoName /\ \A i \in DOMAIN Widths : Widths[i] # name
    \/ Parts(w, Width(w, name)) > MaxParts

\* Time.Truncate: the multiple of a width that is not after t.
Truncate(t, width) == t - (t % width)

\* Mutant: as many buckets as the window has intervals.
BucketsOfWindow(w, width) == Parts(w, width)

\* How many buckets there are, from the first one's start to the window's end.
Buckets(w, width) == (w.to - Truncate(w.from, width) - 1) \div width + 1

\* date_bin: the start of the bin of t, with the bins counted from origin.
DateBin(width, t, origin) == origin + width * ((t - origin) \div width)

\* EventRepo.Timeline: the bins that have events, in buckets that cover the
\* window.
Timeline(p, name) ==
    LET w == CountWindow(p)
        width == Width(w, name)
        start == Truncate(w.from, width)
    IN  [i \in 1 .. Buckets(w, width) |->
            LET at == start + (i - 1) * width
            IN  [start |-> at,
                 count |-> Cardinality({r \in Counted(p) : DateBin(width, r.event.ts, start) = at})]]

-----------------------------------------------------------------------------
(* Top values.                                                             *)

\* GROUP BY the field, without the events that have no value.
Groups(p, field) ==
    LET valued == {r \in Counted(p) : ValueOf[field][r.event.kind] # NoValue}
    IN  {[value |-> v, count |-> Cardinality({r \in valued : ValueOf[field][r.event.kind] = v})]
            : v \in {ValueOf[field][r.event.kind] : r \in valued}}

\* ORDER BY count(*) DESC, the value.
MoreFrequent(g, h) == g.count > h.count \/ (g.count = h.count /\ g.value < h.value)

\* EventRepo.Top: the first `limit` groups, in order.
Top(p, field, limit) ==
    LET groups == Groups(p, field)
        Rank(g) == Cardinality({h \in groups : MoreFrequent(h, g)}) + 1
        size == IF Cardinality(groups) < limit THEN Cardinality(groups) ELSE limit
    IN  [i \in 1 .. size |-> CHOOSE g \in groups : Rank(g) = i]

-----------------------------------------------------------------------------
(* Properties.                                                             *)

\* "The dashboard's counts. They count what SearchEvents would return"
\* (api/counts.go:3).
FoundBySearch(p) ==
    LET w == CountWindow(p)
    IN  {r \in rows : /\ p.caller \in {Admin, r.event.tenant}
                      /\ p.tenant \in {AnyTenant, r.event.tenant} /\ r.event.kind \in p.kinds
                      /\ r.event.ts \in w.from .. w.to - 1}

\* "Buckets cover the window in order, empty ones included. They start on whole
\* multiples of the interval since the Unix epoch ... but they count only events
\* within the window. There can be one more of them than the window has
\* intervals" (counts.go:135): whatever the window and the interval, each event
\* of the search is counted in the one bucket it falls in, no bucket is useless,
\* and the answer has a bounded size.
TimelineExact(p, name) ==
    LET w == CountWindow(p)
        line == Timeline(p, name)
        width == Width(w, name)
        In(i) == {r \in FoundBySearch(p) : line[i].start <= r.event.ts /\ r.event.ts < line[i].start + width}
    IN  /\ \A i \in DOMAIN line : line[i].start % width = 0 /\ line[i].count = Cardinality(In(i))
        /\ \A i \in DOMAIN line : i > 1 => line[i].start = line[i - 1].start + width
        /\ \A t \in w.from .. w.to - 1 :
                \E i \in DOMAIN line : line[i].start <= t /\ t < line[i].start + width
        /\ \A i \in DOMAIN line : line[i].start < w.to /\ w.from < line[i].start + width
        /\ Len(line) <= MaxParts + 1
        /\ name = NoName /\ width # Widths[Len(Widths)] => Len(line) <= AutoParts + 1

\* "the most frequent first, and in byte order when their counts are equal.
\* Events without a value aren't counted" (counts.go:54): no value left out is
\* more frequent than one that is there, and each count is that of a search.
TopExact(p, field, limit) ==
    LET top == Top(p, field, limit)
        With(v) == Cardinality({r \in FoundBySearch(p) : ValueOf[field][r.event.kind] = v})
        all == {ValueOf[field][r.event.kind] : r \in FoundBySearch(p)} \ {NoValue}
        there == {top[i].value : i \in DOMAIN top}
    IN  /\ there \subseteq all /\ Len(top) = Cardinality(there)
        /\ Len(top) <= limit /\ (Len(top) < limit => there = all)
        /\ \A i \in DOMAIN top : top[i].count = With(top[i].value)
        /\ \A i, j \in DOMAIN top : i < j => MoreFrequent(top[i], top[j])
        /\ \A v \in all \ there, i \in DOMAIN top :
                MoreFrequent(top[i], [value |-> v, count |-> With(v)])

CountsAgree ==
    \A c \in Counts : Countable(c.query) =>
        /\ ~TimelineRefused(CountWindow(c.query), c.interval) => TimelineExact(c.query, c.interval)
        /\ TopExact(c.query, c.field, c.limit)
=============================================================================
