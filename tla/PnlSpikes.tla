------------------------------ MODULE PnlSpikes ------------------------------
(***************************************************************************)
(* Isolated spikes of the portfolio's profit, left by a corrupted amount.  *)
(* The history is charted by the hour, each hour by its newest row, with   *)
(* the spikes left out (apps/web/src/lib/data.ts and                       *)
(* portfolio-history-sanitizer.ts); repair-portfolio-history.ts deletes    *)
(* all rows of the hours it finds to be spikes, in the whole history.  The *)
(* worker goes on recording.                                               *)
(*                                                                         *)
(* A row is its profit, in whole dollars.                                  *)
(***************************************************************************)
EXTENDS Integers, Sequences

CONSTANTS
  Profits,    \* profits a row may have
  MaxHour,    \* bound: hours recorded
  MaxRows     \* bound: rows of an hour
ASSUME SpikesAssumption == Profits \subseteq Int /\ {MaxHour, MaxRows} \subseteq Nat

VARIABLES
  clock,      \* the hour that is being recorded
  rows        \* per hour that has rows, its rows
vars == <<clock, rows>>

Init ==
  /\ clock = 1
  /\ rows = [h \in {} |-> <<>>]

\* DISTINCT ON (bucket) ... ORDER BY "created_at" DESC.
NewestOfHour(h) == rows[h][Len(rows[h])]

Abs(x) == IF x < 0 THEN -x ELSE x
Larger(x, y) == IF x > y THEN x ELSE y

\* Fault: the threshold forgets how large the neighbours are.
SpikeBetweenLarge(a, x, c) ==
  LET gap == Abs(c - a)
      threshold == Larger(500, 16 * gap)
  IN  /\ 4 * gap <= Larger(400, 3 * Larger(Abs(a), Abs(c)))
      /\ 2 * Abs(x - a) > threshold
      /\ 2 * Abs(x - c) > threshold
\* The values before and after are close to each other, and x is far from both.
SpikeBetween(a, x, c) ==
  LET gap == Abs(c - a)
      magnitude == Larger(Larger(Abs(a), Abs(c)), 25)
      threshold == Larger(Larger(500, 5 * magnitude), 16 * gap)   \* twice the code's
  IN  /\ 4 * gap <= Larger(400, 3 * magnitude)
      /\ 2 * Abs(x - a) > threshold
      /\ 2 * Abs(x - c) > threshold

\* i and k are neighbours among the hours H.
Adjacent(H, i, k) == /\ i \in H /\ k \in H /\ i < k
                     /\ \A j \in H : ~ (i < j /\ j < k)

\* findIsolatedPortfolioSpikeIndexes: the first and the last are never spikes.
Spikes(H, value(_)) ==
  {h \in H : \E i, k \in H : /\ Adjacent(H, i, h) /\ Adjacent(H, h, k)
                             /\ SpikeBetween(value(i), value(h), value(k))}

-----------------------------------------------------------------------------
Hours == DOMAIN rows

\* The chart looks back to some hour; its points are the hours since.
Window(from) == {h \in Hours : h >= from}
Hidden(from) == Spikes(Window(from), NewestOfHour)
Shown(from) == Window(from) \ Hidden(from)

Record(p) ==
  /\ rows' = IF clock \in Hours
             THEN [rows EXCEPT ![clock] = Append(@, p)]
             ELSE [h \in Hours \cup {clock} |-> IF h = clock THEN <<p>> ELSE rows[h]]
  /\ clock \in Hours => Len(rows[clock]) < MaxRows
  /\ UNCHANGED clock

NextHour ==
  /\ clock < MaxHour
  /\ clock' = clock + 1
  /\ UNCHANGED rows

\* Fault: an hour is judged by its first row.
First(h) == rows[h][1]
\* latestByHour: later rows of the hour replace the earlier.
Latest(h) == NewestOfHour(h)
ToRepair == Spikes(Hours, Latest)

\* Fault: --apply lists the spikes only.
ApplyDry ==
  /\ ToRepair # {}
  /\ UNCHANGED <<clock, rows>>
\* Without --apply the spikes are only listed.
Apply ==
  /\ ToRepair # {}
  /\ rows' = [h \in Hours \ ToRepair |-> rows[h]]
  /\ UNCHANGED clock

Next == (\E p \in Profits : Record(p)) \/ NextHour \/ Apply

Spec == Init /\ [][Next]_vars

-----------------------------------------------------------------------------
(* Properties.                                                             *)

\* An hour that has a row has at least one, of whole dollars.
TypeOK ==
  /\ clock \in Nat
  /\ Hours \subseteq Nat
  /\ \A h \in Hours : rows[h] \in Seq(Int) /\ rows[h] # <<>>

\* The spikes are judged against the neighbours they have before any is taken
\* out.  That is sound as the neighbours of a spike are always shown: no two
\* adjacent hours are both hidden, whatever the profits are.
NeighboursAreShown ==
  \A from \in 0..MaxHour : \A i, k \in Window(from) :
    Adjacent(Window(from), i, k) => ~ (i \in Hidden(from) /\ k \in Hidden(from))

\* "keeps a sustained portfolio move" (portfolio-history-sanitizer.test.ts:13):
\* two hours in a row at about one level are shown, however far it is from the
\* hours around.
SustainedMovesAreShown ==
  \A from \in 0..MaxHour : \A i, k \in Window(from) :
    (Adjacent(Window(from), i, k) /\ Abs(NewestOfHour(i) - NewestOfHour(k)) <= 250)
      => i \in Shown(from) /\ k \in Shown(from)

\* The chart over any window is sound, whatever the profits were: its rows are
\* of their types, hiding is judged once, and no sustained move is lost.
SpikesHold == TypeOK /\ NeighboursAreShown /\ SustainedMovesAreShown

\* The repair takes away no hour that a chart shows in its inside: chart and
\* repair agree on what a spike is, though one reads in SQL and since a time
\* and the other in code and all there is.
RepairTakesWhatIsHidden ==
  [][\A h \in Hours \ DOMAIN rows' : \A from \in 0..MaxHour :
       (\E i \in Window(from) : i < h) => h \notin Shown(from)]_vars

=============================================================================
