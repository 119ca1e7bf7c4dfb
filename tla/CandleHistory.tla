--------------------------- MODULE CandleHistory ---------------------------
(***************************************************************************)
(* Candle history as the charts and the lab read it: the source's rows,    *)
(* the candles built from them, the candle table used as a cache, the      *)
(* write to it that nobody waits for, and the window cache in front.       *)
(* A candle is told apart only by whether it holds all its rows. Time is   *)
(* counted in source rows; candle s opens at s * Width.                    *)
(***************************************************************************)
EXTENDS Integers, FiniteSets, FiniteSetsExt

CONSTANTS
    Width,      \* source rows in a candle: 2 for 30m, 1 for 5m, 1h, 4h and 1d
    MaxNow,     \* bound of the clock
    Lookbacks,  \* lengths of the windows that are asked for
    Ttl,        \* HISTORY_CACHE_TTL_MS, of the table and of the window cache
    PageLimit   \* rows that fit into the pages of one request

HistoryAssumption ==
    /\ {Width, PageLimit} \subseteq Nat \ {0} /\ {MaxNow, Ttl} \subseteq Nat
    /\ Lookbacks \subseteq Nat \ {0}

VARIABLES
    now,      \* the clock; row t is complete once now > t
    table,    \* marketCandle: slot -> candle, or NoCandle
    writes,   \* upsertCandles calls under way
    request,  \* lookback -> the request in flight for it, or NoRequest
    served    \* lookback -> the window in historyCache, or NoWindow

vars == <<now, table, writes, request, served>>

Slots == 0..(MaxNow \div Width)
NoCandle == [whole |-> FALSE, at |-> -1]
Candles == [whole : BOOLEAN, at : 0..MaxNow]
NoRequest == [phase |-> "idle", to |-> 0, had |-> [s \in Slots |-> NoCandle]]
NoWindow == [candles |-> [s \in Slots |-> NoCandle], at |-> -1, to |-> 0, stale |-> FALSE]
Held(candles) == {s \in Slots : candles[s] # NoCandle}
From(l, to) == IF to > l THEN to - l ELSE 0
Earlier(a, b) == IF a < b THEN a ELSE b
Open(s) == s * Width
Close(s) == (s + 1) * Width

Init ==
    /\ now = 0
    /\ table = [s \in Slots |-> NoCandle]
    /\ writes = {}
    /\ request = [l \in Lookbacks |-> NoRequest]
    /\ served = [l \in Lookbacks |-> NoWindow]

-----------------------------------------------------------------------------
(* The source: GeckoTerminalHistoryProvider.getHistory over [from, to]. *)

RowsIn(from, to) == {t \in from..to : t <= now}
TooLong(from, to) == Cardinality(RowsIn(from + 1, to)) >= PageLimit

RowsOf(s, from, to) == {t \in RowsIn(from, to) : Open(s) <= t /\ t < Close(s)}
Built(s, from, to) ==
    [whole |-> RowsOf(s, from, to) = Open(s)..(Close(s) - 1) /\ \A t \in RowsOf(s, from, to) : t < now,
     at |-> now]

ClosedCut(s, from, to) == Close(s) <= Earlier(to, now)
Closed(s, from, to) == Open(s) >= from /\ Close(s) <= Earlier(to, now)

History(from, to) ==
    [s \in Slots |->
        IF RowsOf(s, from, to) # {} /\ Closed(s, from, to) THEN Built(s, from, to) ELSE NoCandle]

-----------------------------------------------------------------------------
(* The table as a cache: CachedCandleHistoryProvider. *)

InWindow(candles, from, to) ==
    [s \in Slots |-> IF from <= Open(s) /\ Open(s) <= to THEN candles[s] ELSE NoCandle]

\* Only the first and the last candle of the window are looked at.
Covered(candles, from, to) ==
    /\ Held(candles) # {}
    /\ Open(Min(Held(candles))) <= from + 2 * Width
    /\ Open(Max(Held(candles))) >= to - 2 * Width

FetchedLast(candles) == Max({candles[s].at : s \in Held(candles)})

RefreshFrom(candles, from, to) ==
    IF Covered(candles, from, to)
    THEN Max({from, Open(Max(Held(candles))) - 3 * Width}) ELSE from

Merged(old, fresh) == [s \in Slots |-> IF fresh[s] # NoCandle THEN fresh[s] ELSE old[s]]

\* createMany skips what is there; the newest three are written over.
NewestThree(fresh) == {s \in Held(fresh) : Cardinality({r \in Held(fresh) : r > s}) < 3}
Written(fresh, over) ==
    [s \in Slots |-> IF s \in Held(fresh) /\ (table[s] = NoCandle \/ s \in over) THEN fresh[s] ELSE table[s]]

-----------------------------------------------------------------------------
(* The window a caller gets: closed candles without a gap, kept for Ttl. *)

Gapless(candles) == \A s \in Min(Held(candles))..Max(Held(candles)) : s \in Held(candles)
Ended(candles, to) == [s \in Slots |-> IF Close(s) <= to THEN candles[s] ELSE NoCandle]

Answer(l, candles, to, stale) ==
    LET ended == Ended(candles, to)
    IN  /\ request' = [request EXCEPT ![l] = NoRequest]
        /\ served' = IF Held(ended) # {} /\ Gapless(ended)
                     THEN [served EXCEPT ![l] = [candles |-> ended, at |-> now, to |-> to, stale |-> stale]]
                     ELSE served

Kept(l) == served[l] # NoWindow /\ now - served[l].at <= Ttl

\* fetchMarketHistoryLookback: a kept window is returned, a request in flight is joined.
Ask(l) ==
    /\ ~Kept(l)
    /\ request[l] = NoRequest
    /\ request' = [request EXCEPT ![l] = [NoRequest EXCEPT !.phase = "reading", !.to = now]]
    /\ UNCHANGED <<now, table, writes, served>>

Read(l) ==
    LET to == request[l].to
        had == InWindow(table, From(l, to), to)
    IN  /\ request[l].phase = "reading"
        /\ IF Covered(had, From(l, to), to) /\ now - FetchedLast(had) <= Ttl
           THEN Answer(l, had, to, FALSE)
           ELSE /\ request' = [request EXCEPT ![l].phase = "asking", ![l].had = had]
                /\ UNCHANGED served
        /\ UNCHANGED <<now, table, writes>>

SourceAnswers(l) ==
    LET to == request[l].to
        had == request[l].had
        from == RefreshFrom(had, From(l, to), to)
        fresh == History(from, to)
    IN  /\ request[l].phase = "asking"
        /\ ~TooLong(from, to)
        /\ Held(fresh) # {}
        /\ writes' = writes \cup {fresh}
        /\ Answer(l, IF Covered(had, From(l, to), to) THEN Merged(had, fresh) ELSE fresh, to, FALSE)
        /\ UNCHANGED <<now, table>>

\* The source is down, has a gap, too many rows or no closed candle.
SourceFails(l) ==
    LET had == request[l].had
    IN  /\ request[l].phase = "asking"
        /\ IF Held(had) # {}
           THEN Answer(l, had, request[l].to, TRUE)
           ELSE request' = [request EXCEPT ![l] = NoRequest] /\ UNCHANGED served
        /\ UNCHANGED <<now, table, writes>>

\* Nobody waits for the write; it may come late, or fail before it writes over anything.
Write(fresh) ==
    /\ writes' = writes \ {fresh}
    /\ table' \in {table, Written(fresh, {}), Written(fresh, NewestThree(fresh))}
    /\ UNCHANGED <<now, request, served>>

Tick ==
    /\ now < MaxNow
    /\ now' = now + 1
    /\ UNCHANGED <<table, writes, request, served>>

Next ==
    \/ \E l \in Lookbacks : Ask(l) \/ Read(l) \/ SourceAnswers(l) \/ SourceFails(l)
    \/ \E fresh \in writes : Write(fresh)
    \/ Tick

Spec == Init /\ [][Next]_vars

-----------------------------------------------------------------------------
Tables == [Slots -> Candles \cup {NoCandle}]

\* Every variable has its type, and only closed candles reach the table.
TypeOK ==
    /\ now \in 0..MaxNow
    /\ table \in Tables /\ \A s \in Held(table) : Close(s) <= table[s].at
    /\ writes \subseteq Tables
    /\ request \in [Lookbacks -> [phase : {"idle", "reading", "asking"}, to : 0..MaxNow, had : Tables]]
    /\ \A l \in Lookbacks : served[l].candles \in Tables

(* Every candle a chart or a replay is given holds all rows of its interval, *)
(* however the window was put together: from the source, from the table, or  *)
(* merged, with writes that come late and in any order. A candle that was    *)
(* once cached half built would be skipped as a duplicate for ever.          *)
ServedIsFinal ==
    \A l \in Lookbacks : \A s \in Held(served[l].candles) : served[l].candles[s].whole

-----------------------------------------------------------------------------
(* What makes the property inductive: a candle is whole wherever it is held, *)
(* in the table, in a write under way, in a request or in a served window.   *)

Windows == [candles : Tables, at : -1..MaxNow, to : 0..MaxNow, stale : BOOLEAN]

Finished(candles) == \A s \in Held(candles) : candles[s].whole /\ Close(s) <= candles[s].at

CandlesInv ==
    /\ TypeOK /\ ServedIsFinal
    /\ served \in [Lookbacks -> Windows]
    /\ Finished(table)
    /\ \A fresh \in writes : Finished(fresh)
    /\ \A l \in Lookbacks : Finished(request[l].had) /\ Finished(served[l].candles)
=============================================================================
