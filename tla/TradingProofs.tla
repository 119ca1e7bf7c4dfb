---------------------------- MODULE TradingProofs ----------------------------
(*****************************************************************************)
(* What is proved of the trading suite: the chart of the profit, and the     *)
(* sale through Jupiter.                                                     *)
(*                                                                           *)
(* The chart: the hours next to a hidden hour are shown, and so are two      *)
(* hours at about one level.  Both are facts of the threshold.  A spike is   *)
(* further from a neighbour than two and a half times that neighbour's size; *)
(* were the neighbour a spike as well, it would be that far from the spike:  *)
(* then both are smaller than half their distance, which is at most their    *)
(* sum.                                                                      *)
(*                                                                           *)
(* The sale: an order that may be executed was prepared from the last amount *)
(* asked for and passed every check, and in a market that stands still the   *)
(* first resizing brings enough.  The amount asked for next is the whole lot *)
(* times what is needed over what the answer guarantees, and the margin kept *)
(* for the slippage is half of the surplus; rounded upwards, it stays below  *)
(* the lot when the lot is worth four atoms more than it cost.               *)
(*****************************************************************************)
EXTENDS TradingParts, TLAPS

-----------------------------------------------------------------------------
\* The chart

\* How far a spike is from its neighbours.
LEMMA SpikeIsFar ==
  ASSUME NEW a \in Int, NEW x \in Int, NEW c \in Int, SpikeBetween(a, x, c)
  PROVE  /\ Abs(x - a) > 250 /\ Abs(x - c) > 250
         /\ 2 * Abs(x - a) > 5 * Abs(a) /\ 2 * Abs(x - c) > 5 * Abs(c)
  <1> DEFINE gap == Abs(c - a)
             magnitude == Larger(Larger(Abs(a), Abs(c)), 25)
             threshold == Larger(Larger(500, 5 * magnitude), 16 * gap)
  <1>1. Abs(a) \in Int /\ Abs(c) \in Int /\ gap \in Int /\ Abs(x - a) \in Int /\ Abs(x - c) \in Int
    BY DEF Abs
  <1>2. magnitude \in Int /\ magnitude >= Abs(a) /\ magnitude >= Abs(c)
    BY <1>1 DEF Larger
  <1>3. threshold \in Int /\ threshold >= 500 /\ threshold >= 5 * magnitude
    BY <1>1, <1>2 DEF Larger
  <1>4. 2 * Abs(x - a) > threshold /\ 2 * Abs(x - c) > threshold
    BY DEF SpikeBetween
  <1> HIDE DEF gap, magnitude, threshold
  <1> QED
    BY <1>1, <1>2, <1>3, <1>4

\* Of two values in a row not both are spikes.
LEMMA NotBothSpikes ==
  ASSUME NEW a \in Int, NEW x \in Int, NEW y \in Int, NEW d \in Int,
         SpikeBetween(a, x, y), SpikeBetween(x, y, d)
  PROVE  FALSE
  <1>1. 2 * Abs(x - y) > 5 * Abs(y)
    BY SpikeIsFar
  <1>2. 2 * Abs(y - x) > 5 * Abs(x)
    BY SpikeIsFar
  <1> QED
    BY <1>1, <1>2 DEF Abs

LEMMA InitTypes == Init => TypeOK
  BY SpikesAssumption DEF SpikesAssumption, Init, TypeOK, Hours

LEMMA NextTypes == TypeOK /\ [Next]_vars => TypeOK'
  <1> SUFFICES ASSUME TypeOK, [Next]_vars PROVE TypeOK'
    OBVIOUS
  <1>1. ASSUME NEW p \in Profits, Record(p) PROVE TypeOK'
    <2>1. p \in Int
      BY SpikesAssumption DEF SpikesAssumption
    <2>2. clock' = clock /\ Hours' = Hours \cup {clock}
      BY <1>1 DEF Record, Hours
    <2>4. \A h \in Hours' : rows'[h] = <<p>> \/ (h \in Hours /\ rows'[h] \in {rows[h], Append(rows[h], p)})
      BY <1>1 DEF Record, Hours
    <2>5. \A h \in Hours : rows[h] \in Seq(Int) /\ rows[h] # <<>>
      BY DEF TypeOK
    <2>6. \A h \in Hours : Append(rows[h], p) \in Seq(Int) /\ Append(rows[h], p) # <<>>
      BY <2>1, <2>5
    <2>7. <<p>> \in Seq(Int) /\ <<p>> # <<>>
      BY <2>1
    <2>8. \A h \in Hours' : rows'[h] \in Seq(Int) /\ rows'[h] # <<>>
      BY <2>4, <2>5, <2>6, <2>7
    <2> QED
      BY <2>2, <2>8 DEF TypeOK
  <1>2. CASE NextHour
    BY <1>2 DEF NextHour, TypeOK, Hours
  <1>3. CASE Apply
    BY <1>3 DEF Apply, TypeOK, Hours
  <1>4. CASE UNCHANGED vars
    BY <1>4 DEF vars, TypeOK, Hours
  <1> QED
    BY <1>1, <1>2, <1>3, <1>4 DEF Next

\* Every hour of the history has rows of whole dollars.
THEOREM HoursHaveRows == Spec => []TypeOK
  <1> QED
    BY InitTypes, NextTypes, PTL DEF Spec

\* The value of an hour is one.
LEMMA HourHasValue ==
  ASSUME TypeOK, NEW h \in Hours
  PROVE  NewestOfHour(h) \in Int
  <1>1. rows[h] \in Seq(Int) /\ rows[h] # <<>>
    BY DEF TypeOK
  <1>2. Len(rows[h]) \in 1..Len(rows[h])
    BY <1>1
  <1> QED
    BY <1>1, <1>2 DEF NewestOfHour

\* A hidden hour is a spike between some neighbours of it.
LEMMA HiddenIsSpike ==
  ASSUME NEW from, NEW h \in Hidden(from)
  PROVE  \E i, k \in Window(from) :
           /\ Adjacent(Window(from), i, h) /\ Adjacent(Window(from), h, k)
           /\ SpikeBetween(NewestOfHour(i), NewestOfHour(h), NewestOfHour(k))
  BY DEF Hidden, Spikes

\* An hour has one neighbour on each side.
LEMMA OneNeighbour ==
  ASSUME NEW H \in SUBSET Nat, NEW i \in H, NEW j \in H, NEW k \in H
  PROVE  /\ Adjacent(H, i, k) /\ Adjacent(H, j, k) => i = j
         /\ Adjacent(H, k, i) /\ Adjacent(H, k, j) => i = j
  <1>1. i \in Nat /\ j \in Nat /\ k \in Nat
    OBVIOUS
  <1>2. i = j \/ i < j \/ j < i
    BY <1>1
  <1> QED
    BY <1>1, <1>2 DEF Adjacent

LEMMA NeighboursFollow == TypeOK => NeighboursAreShown
  <1> SUFFICES ASSUME TypeOK, NEW from \in 0..MaxHour, NEW i \in Window(from), NEW k \in Window(from),
                      Adjacent(Window(from), i, k), i \in Hidden(from), k \in Hidden(from)
               PROVE  FALSE
    BY DEF NeighboursAreShown
  <1>1. Window(from) \subseteq Hours /\ Window(from) \in SUBSET Nat
    BY DEF Window, TypeOK
  <1>2. PICK a, y \in Window(from) :
           /\ Adjacent(Window(from), a, i) /\ Adjacent(Window(from), i, y)
           /\ SpikeBetween(NewestOfHour(a), NewestOfHour(i), NewestOfHour(y))
    BY HiddenIsSpike
  <1>3. PICK x, d \in Window(from) :
           /\ Adjacent(Window(from), x, k) /\ Adjacent(Window(from), k, d)
           /\ SpikeBetween(NewestOfHour(x), NewestOfHour(k), NewestOfHour(d))
    BY HiddenIsSpike
  <1>4. y = k /\ x = i
    BY <1>1, <1>2, <1>3, OneNeighbour
  <1>5. /\ NewestOfHour(a) \in Int /\ NewestOfHour(i) \in Int
        /\ NewestOfHour(k) \in Int /\ NewestOfHour(d) \in Int
    BY <1>1, HourHasValue
  <1> QED
    BY <1>2, <1>3, <1>4, <1>5, NotBothSpikes

\* No two adjacent hours of a chart are both hidden (portfolio-history-sanitizer.ts):
\* a spike is judged against values that are shown.
THEOREM SpikesHaveShownNeighbours == Spec => []NeighboursAreShown
  <1> QED
    BY HoursHaveRows, NeighboursFollow, PTL

LEMMA SustainedFollows == TypeOK => SustainedMovesAreShown
  <1> SUFFICES ASSUME TypeOK, NEW from \in 0..MaxHour, NEW i \in Window(from), NEW k \in Window(from),
                      Adjacent(Window(from), i, k), Abs(NewestOfHour(i) - NewestOfHour(k)) <= 250
               PROVE  i \notin Hidden(from) /\ k \notin Hidden(from)
    BY DEF SustainedMovesAreShown, Shown
  <1>1. Window(from) \subseteq Hours /\ Window(from) \in SUBSET Nat
    BY DEF Window, TypeOK
  <1>2. ASSUME i \in Hidden(from) PROVE FALSE
    <2>1. PICK a, y \in Window(from) :
             /\ Adjacent(Window(from), a, i) /\ Adjacent(Window(from), i, y)
             /\ SpikeBetween(NewestOfHour(a), NewestOfHour(i), NewestOfHour(y))
      BY <1>2, HiddenIsSpike
    <2>2. y = k
      BY <1>1, <2>1, OneNeighbour
    <2>3. NewestOfHour(a) \in Int /\ NewestOfHour(i) \in Int /\ NewestOfHour(k) \in Int
      BY <1>1, HourHasValue
    <2>4. Abs(NewestOfHour(i) - NewestOfHour(k)) > 250
      BY <2>1, <2>2, <2>3, SpikeIsFar
    <2>5. Abs(NewestOfHour(i) - NewestOfHour(k)) \in Int
      BY <2>3 DEF Abs
    <2> QED
      BY <2>4, <2>5
  <1>3. ASSUME k \in Hidden(from) PROVE FALSE
    <2>1. PICK x, d \in Window(from) :
             /\ Adjacent(Window(from), x, k) /\ Adjacent(Window(from), k, d)
             /\ SpikeBetween(NewestOfHour(x), NewestOfHour(k), NewestOfHour(d))
      BY <1>3, HiddenIsSpike
    <2>2. x = i
      BY <1>1, <2>1, OneNeighbour
    <2>3. NewestOfHour(i) \in Int /\ NewestOfHour(k) \in Int /\ NewestOfHour(d) \in Int
      BY <1>1, HourHasValue
    <2>4. Abs(NewestOfHour(k) - NewestOfHour(i)) > 250
      BY <2>1, <2>2, <2>3, SpikeIsFar
    <2>5. Abs(NewestOfHour(k) - NewestOfHour(i)) = Abs(NewestOfHour(i) - NewestOfHour(k))
      BY <2>3 DEF Abs
    <2>6. Abs(NewestOfHour(i) - NewestOfHour(k)) \in Int
      BY <2>3 DEF Abs
    <2> QED
      BY <2>4, <2>5, <2>6
  <1> QED
    BY <1>2, <1>3

\* Two hours in a row at about one level are shown, however far the level is
\* from the hours around.
THEOREM SustainedMovesStay == Spec => []SustainedMovesAreShown
  <1> QED
    BY HoursHaveRows, SustainedFollows, PTL

\* The chart is sound over every window.
THEOREM SpikesAlwaysHold == Spec => []SpikesHold
  <1>1. TypeOK /\ NeighboursAreShown /\ SustainedMovesAreShown => SpikesHold
    BY DEF SpikesHold
  <1> QED
    BY <1>1, HoursHaveRows, SpikesHaveShownNeighbours, SustainedMovesStay, PTL

-----------------------------------------------------------------------------
(* Chart and repair.                                                       *)

\* A spike of the whole history is one of every window that reaches further
\* back: its neighbour before it is in the window too.
LEMMA RepairedIsHidden ==
  ASSUME TypeOK, NEW from \in 0..MaxHour, NEW h \in ToRepair, NEW j \in Window(from), j < h
  PROVE  h \in Hidden(from)
  <1>1. Hours \in SUBSET Nat /\ from \in Nat
    BY SpikesAssumption DEF TypeOK
  <1>2. PICK i, k \in Hours :
          /\ Adjacent(Hours, i, h) /\ Adjacent(Hours, h, k)
          /\ SpikeBetween(NewestOfHour(i), NewestOfHour(h), NewestOfHour(k))
    BY DEF ToRepair, Spikes, Latest
  <1>3. /\ h \in Nat /\ i \in Nat /\ k \in Nat /\ j \in Nat
        /\ i < h /\ h < k /\ j \in Hours /\ j >= from
    BY <1>1, <1>2 DEF Adjacent, Window
  <1>4. ~ (i < j /\ j < h)
    BY <1>2, <1>3 DEF Adjacent
  <1>5. i >= from /\ h >= from /\ k >= from
    BY <1>1, <1>3, <1>4
  <1>6. i \in Window(from) /\ h \in Window(from) /\ k \in Window(from)
    BY <1>2, <1>5 DEF Window, Adjacent
  <1>7. Adjacent(Window(from), i, h) /\ Adjacent(Window(from), h, k)
    BY <1>2, <1>6 DEF Adjacent, Window
  <1> QED
    BY <1>2, <1>6, <1>7 DEF Hidden, Spikes

\* repair-portfolio-history.ts deletes no hour that a chart shows with an
\* earlier hour beside it, from whatever time the chart begins.
THEOREM RepairTakesHidden == Spec => RepairTakesWhatIsHidden
  <1>1. ASSUME TypeOK, [Next]_vars, NEW h \in Hours \ DOMAIN rows', NEW from \in 0..MaxHour,
               NEW j \in Window(from), j < h
        PROVE  h \notin Shown(from)
    <2>1. CASE Apply
      <3>1. h \in ToRepair
        BY <1>1, <2>1 DEF Apply
      <3> QED
        BY <1>1, <3>1, RepairedIsHidden DEF Shown
    <2>2. CASE (\E p \in Profits : Record(p)) \/ NextHour \/ UNCHANGED vars
      BY <1>1, <2>2 DEF Record, NextHour, vars, Hours
    <2> QED
      BY <1>1, <2>1, <2>2 DEF Next
  <1>2. TypeOK /\ [Next]_vars =>
          [\A h \in Hours \ DOMAIN rows' : \A from \in 0..MaxHour :
             (\E i \in Window(from) : i < h) => h \notin Shown(from)]_vars
    BY <1>1
  <1> QED
    BY <1>2, HoursHaveRows, PTL DEF Spec, RepairTakesWhatIsHidden

-----------------------------------------------------------------------------
\* The sale.  Its variables are the suite's, in the order of JupiterSale: x1 is
\* lot, x2 whole, x3 asked, x4 order, x5 tries, x6 verdict, x7 wallet, x8 fill
\* and x9 market.

LEMMA DivFacts ==
  ASSUME NEW a \in Int, NEW d \in Nat \ {0}
  PROVE  /\ a \div d \in Int /\ (a \div d) * d <= a /\ a < (a \div d) * d + d
         /\ a \in Nat => a \div d \in Nat
  OBVIOUS

LEMMA DivExact ==
  ASSUME NEW a \in Int, NEW d \in Nat \ {0}
  PROVE  (a * d) \div d = a
  <1> DEFINE q == (a * d) \div d
  <1>1. q \in Int /\ q * d <= a * d /\ a * d < q * d + d
    OBVIOUS
  <1>2. (q - a) * d <= 0 /\ 0 < (q - a + 1) * d
    BY <1>1
  <1> QED
    BY <1>1, <1>2

LEMMA DivAtLeast ==
  ASSUME NEW a \in Int, NEW d \in Nat \ {0}, NEW n \in Int, n * d <= a
  PROVE  a \div d >= n
  <1> DEFINE q == a \div d
  <1>1. q \in Int /\ a < q * d + d
    BY DivFacts
  <1>2. n * d < (q + 1) * d
    BY <1>1
  <1>3. n < q + 1
    BY <1>1, <1>2
  <1> QED
    BY <1>1, <1>3

LEMMA UpwardsFacts ==
  ASSUME NEW n \in Nat, NEW d \in Nat \ {0}
  PROVE  /\ Sale!Upwards(n, d) \in Nat
         /\ Sale!Upwards(n, d) * d >= n /\ (Sale!Upwards(n, d) - 1) * d < n
         /\ n > 0 => Sale!Upwards(n, d) > 0
  <1> DEFINE u == (n + d - 1) \div d
  <1>1. u \in Nat /\ u * d <= n + d - 1 /\ n + d - 1 < u * d + d
    BY DivFacts
  <1>2. n > 0 => u > 0
    BY <1>1
  <1>3. (u - 1) * d = u * d - d
    BY <1>1
  <1> QED
    BY <1>1, <1>2, <1>3 DEF Sale!Upwards

\* The margin is at most half of what the order brings.
LEMMA HalfMargin ==
  ASSUME NEW out \in Nat \ {0}, NEW n \in Nat \ {0}
  PROVE  /\ Sale!Larger(0, ((out - n) * 100) \div (2 * out)) \in 0 .. 50
         /\ n <= out => Sale!Larger(0, ((out - n) * 100) \div (2 * out)) * 2 * out <= (out - n) * 100
  <1> DEFINE q == ((out - n) * 100) \div (2 * out)
  <1>1. q \in Int /\ q * (2 * out) <= (out - n) * 100
    <2>1. 2 * out \in Nat \ {0} /\ (out - n) * 100 \in Int
      OBVIOUS
    <2> QED
      BY <2>1, DivFacts
  <1>2. q * (2 * out) <= 50 * (2 * out)
    BY <1>1
  <1>3. q <= 50
    BY <1>1, <1>2
  <1>4. n <= out => q >= 0
    <2>1. n <= out => (out - n) * 100 \in Nat
      OBVIOUS
    <2> QED
      BY <2>1, DivFacts
  <1> HIDE DEF q
  <1>5. Sale!Larger(0, q) \in 0 .. 50 /\ (n <= out => Sale!Larger(0, q) = q)
    BY <1>1, <1>3, <1>4 DEF Sale!Larger
  <1>6. q * 2 * out = q * (2 * out)
    BY <1>1
  <1> QED
    BY <1>1, <1>5, <1>6 DEF q

\* One resizing is enough for a lot that is worth four atoms more than it cost: the
\* amount is a part of it, and what it brings at the rate less the slippage s.
LEMMA SmallerThanLot ==
  ASSUME NEW r \in Nat \ {0}, NEW B \in Nat \ {0}, NEW n \in Nat \ {0}, NEW M \in 0 .. 50, NEW A \in Nat,
         n <= r * (B - 4), M * 2 * (r * B) <= (r * B - n) * 100,
         (A - 1) * ((r * B) * (100 - M)) < n * B * 100
  PROVE  A < B
  <1> DEFINE out == r * B
             w == out * (100 - M)
  <1>0. out \in Nat \ {0} /\ w \in Nat \ {0}
    OBVIOUS
  <1>1. 50 * (out + n) <= w
    <2>1. M * 2 * out = 2 * (M * out) /\ w = 100 * out - M * out /\ M * out \in Nat
      BY <1>0
    <2> HIDE DEF out, w
    <2> QED
      BY <1>0, <2>1 DEF out
  <1>2. B > 4
    OBVIOUS
  <1>3. SUFFICES ASSUME A >= B PROVE FALSE
    OBVIOUS
  <1>4. (B - 1) * w <= (A - 1) * w
    <2> HIDE DEF w, out
    <2> QED
      BY <1>0, <1>2, <1>3
  <1>5. (B - 1) * (50 * (out + n)) <= (B - 1) * w
    <2> HIDE DEF w, out
    <2> QED
      BY <1>0, <1>1, <1>2
  <1>6. (B - 1) * (50 * (out + n)) < n * B * 100
    <2>1. (A - 1) * w < n * B * 100
      OBVIOUS
    <2>2. (B - 1) * (50 * (out + n)) \in Int /\ (B - 1) * w \in Int /\ (A - 1) * w \in Int /\ n * B * 100 \in Int
      BY <1>0
    <2> QED
      BY <1>4, <1>5, <2>1, <2>2
  <1>7. B * out - out < n * (B + 1)
    <2>1. (B - 1) * (50 * (out + n)) = 50 * (B * out - out + n * B - n)
      <3> HIDE DEF out
      <3> QED
        BY <1>0
    <2>2. n * B * 100 = 50 * (2 * (n * B)) /\ n * (B + 1) = n * B + n
      OBVIOUS
    <2> HIDE DEF out
    <2>3. n * B \in Nat /\ B * out \in Nat
      BY <1>0
    <2> QED
      BY <1>0, <1>6, <2>1, <2>2, <2>3
  <1>8. n * (B + 1) <= (r * (B - 4)) * (B + 1)
    BY <1>2
  <1>9. (r * (B - 4)) * (B + 1) = B * out - 3 * out - 4 * r
    OBVIOUS
  <1> HIDE DEF out
  <1> QED
    BY <1>0, <1>7, <1>8, <1>9

LEMMA BringsEnough ==
  ASSUME NEW r \in Nat \ {0}, NEW B \in Nat \ {0}, NEW n \in Nat \ {0}, NEW k \in 0 .. 100, NEW A \in Nat,
         n * B * 100 <= A * ((r * B) * k)
  PROVE  ((r * A) * k) \div 100 >= n
  <1>1. (n * 100) * B <= ((r * A) * k) * B
    OBVIOUS
  <1>2. n * 100 <= (r * A) * k
    <2> DEFINE p == (r * A) * k
    <2>1. p \in Nat /\ n * 100 \in Nat
      OBVIOUS
    <2>2. (n * 100) * B <= p * B
      BY <1>1
    <2> HIDE DEF p
    <2>3. n * 100 <= p
      BY <2>1, <2>2
    <2> QED
      BY <2>3 DEF p
  <1> QED
    BY <1>2, DivAtLeast

\* The fee of an order that keeps its input is its rate times the fee.
LEMMA OrderFacts ==
  ASSUME Sale!SaleAssumption, Sale!TypeOK, Sale!SizesWholeLots, NEW a \in SaleAnswers
  PROVE  /\ Sale!OrderOf(a) \in [input : Nat, out : Nat, min : Nat, fee : Nat]
         /\ Sale!OrderOf(a).out = a.rate * x3.amount /\ Sale!OrderOf(a).out > 0
         /\ Sale!Slippage(a) \in 0 .. 100
         /\ Sale!OrderOf(a).min = (Sale!OrderOf(a).out * (100 - Sale!Slippage(a))) \div 100
         /\ Sale!OrderOf(a).min <= Sale!OrderOf(a).out
         /\ Sale!OrderOf(a).input = x3.amount => Sale!FeeQuote(Sale!OrderOf(a)) = Sale!OrderOf(a).fee * a.rate
  <1> DEFINE out == a.rate * x3.amount
             s == Sale!Slippage(a)
             fee == IF a.sponsored THEN 0 ELSE a.fee + a.priority
             input == IF a.honest THEN x3.amount ELSE x3.amount - 1
  <1>1. /\ a.rate \in Nat \ {0} /\ a.slip \in 0 .. 100 /\ a.fee \in Nat /\ a.priority \in Nat
        /\ a.sponsored \in BOOLEAN /\ a.honest \in BOOLEAN
        /\ x3.amount \in Nat \ {0} /\ x3.bound \in 0 .. 101
    BY DEF Sale!SaleAssumption, Sale!SizesWholeLots, Sale!Auto, Sale!Scale
  <1>2. out \in Nat \ {0}
    BY <1>1
  <1>3. s \in 0 .. 100
    BY <1>1 DEF Sale!Slippage
  <1>4. fee \in Nat /\ input \in Nat
    BY <1>1
  <1> DEFINE m == (out * (100 - s)) \div 100
  <1>5. m \in Nat /\ m <= out
    <2>1. out * (100 - s) \in Nat /\ out * (100 - s) <= out * 100
      BY <1>2, <1>3
    <2>2. m \in Nat /\ m * 100 <= out * (100 - s)
      BY <2>1, DivFacts
    <2> HIDE DEF m, out
    <2> QED
      BY <1>2, <2>1, <2>2
  <1>6. Sale!OrderOf(a) = [input |-> input, out |-> out, min |-> m, fee |-> fee]
    BY DEF Sale!OrderOf, Sale!Scale
  <1>7. input = x3.amount => fee * (out \div input) = fee * a.rate
    <2>1. out \div x3.amount = a.rate
      BY <1>1, DivExact
    <2> QED
      BY <2>1
  <1> HIDE DEF out, s, fee, input, m
  <1>8. Sale!FeeQuote(Sale!OrderOf(a)) = fee * (out \div input)
    BY <1>6 DEF Sale!FeeQuote
  <1> QED
    BY <1>2, <1>3, <1>4, <1>5, <1>6, <1>7, <1>8 DEF out, s, m

LEMMA CostTyped ==
  ASSUME Sale!SaleAssumption, Sale!TypeOK
  PROVE  /\ Sale!Cost \in Nat /\ (x2 => Sale!Cost = x1.cost /\ x1.cost > 0)
         /\ x1.base \in Nat \ {0} /\ x1.cost \in Nat \ {0}
  BY DEF Sale!SaleAssumption, Sale!TypeOK, Sale!Cost

\* What a resizing asks for is an amount, with half of the margin or no bound.
LEMMA ResizedTyped ==
  ASSUME Sale!SaleAssumption, Sale!TypeOK, Sale!SizesWholeLots, NEW a \in SaleAnswers, Sale!Prepared(a),
         NEW t \in Nat
  PROVE  /\ Sale!Needed(Sale!OrderOf(a)) = Sale!Cost + Sale!OrderOf(a).fee * a.rate + 1
         /\ Sale!Needed(Sale!OrderOf(a)) \in Nat \ {0}
         /\ Sale!Margin(Sale!OrderOf(a)) \in 0 .. 50
         /\ Sale!Needed(Sale!OrderOf(a)) <= Sale!OrderOf(a).out =>
              Sale!Margin(Sale!OrderOf(a)) * 2 * Sale!OrderOf(a).out
                <= (Sale!OrderOf(a).out - Sale!Needed(Sale!OrderOf(a))) * 100
         /\ Sale!Resized(Sale!OrderOf(a), t) \in [amount : Nat \ {0}, bound : 0 .. Sale!Auto]
  <1> DEFINE o == Sale!OrderOf(a)
             n == Sale!Needed(o)
             m == Sale!Margin(o)
  <1>1. o.input = x3.amount /\ o.min > 0 /\ x3.amount \in Nat \ {0}
    BY DEF Sale!Prepared, Sale!SizesWholeLots
  <1>2. o \in [input : Nat, out : Nat, min : Nat, fee : Nat] /\ o.out > 0 /\ Sale!FeeQuote(o) = o.fee * a.rate
    BY <1>1, OrderFacts
  <1>3. a.rate \in Nat \ {0}
    BY DEF Sale!SaleAssumption
  <1> HIDE DEF o
  <1>4. n = Sale!Cost + o.fee * a.rate + 1 /\ n \in Nat \ {0}
    <2>1. o.fee * a.rate \in Nat
      BY <1>2, <1>3
    <2> QED
      BY <1>2, <2>1, CostTyped DEF Sale!Needed
  <1>5. m = Sale!Larger(0, ((o.out - n) * 100) \div (2 * o.out))
    <2>1. o.out - Sale!FeeQuote(o) - Sale!Cost - 1 = o.out - n
      BY <1>2, <1>3, <1>4, CostTyped
    <2> QED
      BY <2>1 DEF Sale!Margin, Sale!Scale
  <1> HIDE DEF n, m
  <1>6. o.out \in Nat \ {0}
    BY <1>2
  <1>7. m \in 0 .. 50 /\ (n <= o.out => m * 2 * o.out <= (o.out - n) * 100)
    BY <1>4, <1>5, <1>6, HalfMargin
  <1>8. Sale!Resized(o, t) \in [amount : Nat \ {0}, bound : 0 .. Sale!Auto]
    <2>1. CASE Sale!Bounded(o, t)
      <3>1. Sale!Resized(o, t) = [amount |-> Sale!Upwards(n * o.input * 100, o.out * (100 - m)), bound |-> m]
        BY <2>1 DEF Sale!Resized, Sale!Scale, n, m
      <3>2. n * o.input * 100 \in Nat \ {0} /\ o.out * (100 - m) \in Nat \ {0}
        <4>1. o.input \in Nat \ {0} /\ 100 - m \in Nat \ {0}
          BY <1>1, <1>7
        <4>2. n * o.input \in Nat \ {0}
          BY <1>4, <4>1
        <4> QED
          BY <1>6, <4>1, <4>2
      <3>3. Sale!Upwards(n * o.input * 100, o.out * (100 - m)) \in Nat \ {0}
        <4> DEFINE p == n * o.input * 100
                   q == o.out * (100 - m)
        <4>1. p \in Nat /\ p > 0 /\ q \in Nat \ {0}
          BY <3>2
        <4> HIDE DEF p, q
        <4>2. Sale!Upwards(p, q) \in Nat /\ Sale!Upwards(p, q) > 0
          BY <4>1, UpwardsFacts
        <4>3. Sale!Upwards(p, q) \in Nat \ {0}
          BY <4>2
        <4> QED
          BY <4>3 DEF p, q
      <3> QED
        BY <1>7, <3>1, <3>3 DEF Sale!Auto, Sale!Scale
    <2>2. CASE ~Sale!Bounded(o, t)
      <3>1. Sale!Resized(o, t) = [amount |-> Sale!Upwards(n * o.input, o.min), bound |-> Sale!Auto]
        BY <2>2 DEF Sale!Resized, n
      <3>2. n * o.input \in Nat \ {0} /\ o.min \in Nat \ {0}
        BY <1>1, <1>2, <1>4
      <3>3. Sale!Upwards(n * o.input, o.min) \in Nat \ {0}
        <4> DEFINE p == n * o.input
                   q == o.min
        <4>1. p \in Nat /\ p > 0 /\ q \in Nat \ {0}
          BY <3>2
        <4> HIDE DEF p, q
        <4>2. Sale!Upwards(p, q) \in Nat /\ Sale!Upwards(p, q) > 0
          BY <4>1, UpwardsFacts
        <4>3. Sale!Upwards(p, q) \in Nat \ {0}
          BY <4>2
        <4> QED
          BY <4>3 DEF p, q
      <3> QED
        BY <3>1, <3>3 DEF Sale!Auto, Sale!Scale
    <2> QED
      BY <2>1, <2>2
  <1> QED
    BY <1>4, <1>7, <1>8 DEF o, n, m

\* The least an order brings that is asked for as ask says.
LeastFor(a, ask) ==
  ((a.rate * ask.amount) * (100 - (IF a.slip > ask.bound THEN ask.bound ELSE a.slip))) \div 100

\* A lot worth four atoms more than its cost, of which the whole is asked: the next
\* amount is a part of it, and covers it when the market answers the same.
LEMMA OneResizingIsEnough ==
  ASSUME Sale!SaleAssumption, Sale!TypeOK, Sale!SizesWholeLots, NEW a \in SaleAnswers, Sale!Prepared(a),
         x3 = [amount |-> x1.base, bound |-> Sale!Auto], x2, Sale!WorthFour(a)
  PROVE  /\ Sale!LotCovered(Sale!OrderOf(a))
         /\ Sale!Resized(Sale!OrderOf(a), 2).amount < x1.base
         /\ LeastFor(a, Sale!Resized(Sale!OrderOf(a), 2)) - Sale!OrderOf(a).fee * a.rate >= Sale!Cost
  <1> DEFINE o == Sale!OrderOf(a)
             n == Sale!Needed(o)
             m == Sale!Margin(o)
             A == Sale!Resized(o, 2).amount
             r == a.rate
             B == x1.base
             s == Sale!Slippage(a)
             bound == Sale!Resized(o, 2).bound
             after == IF a.slip > bound THEN bound ELSE a.slip
  <1>1. o.input = B /\ o.min > 0 /\ o.out = r * B /\ o.fee \in Nat /\ o.min \in Nat
        /\ Sale!FeeQuote(o) = o.fee * r /\ s \in 0 .. 100 /\ o.min = ((r * B) * (100 - s)) \div 100
    BY OrderFacts DEF Sale!Prepared
  <1>2. r \in Nat \ {0} /\ B \in Nat \ {0} /\ Sale!Cost \in Nat \ {0} /\ Sale!Cost = x1.cost
        /\ a.slip \in 0 .. 100
    BY CostTyped DEF Sale!SaleAssumption, Sale!Scale
  <1>3. /\ n = Sale!Cost + o.fee * r + 1 /\ n \in Nat \ {0} /\ m \in 0 .. 50
        /\ n <= r * B => m * 2 * (r * B) <= (r * B - n) * 100
        /\ A \in Nat \ {0}
    <2>1. 2 \in Nat
      OBVIOUS
    <2> QED
      BY <1>1, <2>1, ResizedTyped
  <1>4. n <= r * (B - 4) /\ n <= r * B
    <2>1. n <= r * (B - 4)
      BY <1>1, <1>2, <1>3 DEF Sale!WorthFour
    <2>2. r * (B - 4) = r * B - 4 * r /\ r * B \in Nat
      BY <1>2
    <2> QED
      BY <1>2, <1>3, <2>1, <2>2
  <1>5. s = a.slip
    BY <1>2 DEF Sale!Slippage, Sale!Auto, Sale!Scale
  <1> HIDE DEF o, n, m, A, r, B, s
  <1> DEFINE w == (r * B) * (100 - m)
  <1>6. r * B \in Nat \ {0} /\ w \in Nat \ {0}
    <2>1. r * B \in Nat \ {0} /\ 100 - m \in Nat \ {0}
      BY <1>2, <1>3
    <2> QED
      BY <2>1
  <1>7. Sale!LotCovered(o)
    <2>1. r * B - o.fee * r - Sale!Cost > 0
      BY <1>1, <1>2, <1>3, <1>4, <1>6
    <2> QED
      BY <1>1, <1>2, <2>1 DEF Sale!LotCovered
  <1>8. (A - 1) * w < n * B * 100 /\ n * B \in Nat /\ A \in Nat
    <2>0. n * B \in Nat \ {0}
      BY <1>2, <1>3
    <2>1. CASE Sale!Bounded(o, 2)
      <3>1. A = Sale!Upwards(n * B * 100, w)
        BY <1>1, <2>1 DEF Sale!Resized, Sale!Scale, n, m, A
      <3>2. n * B * 100 \in Nat
        BY <2>0
      <3> QED
        BY <1>3, <1>6, <2>0, <3>1, <3>2, UpwardsFacts
    <2>2. CASE ~Sale!Bounded(o, 2)
      <3>1. A = Sale!Upwards(n * B, o.min)
        BY <1>1, <2>2 DEF Sale!Resized, n, A
      <3>2. (A - 1) * o.min < n * B
        BY <1>1, <2>0, <3>1, UpwardsFacts
      <3>3. w <= o.min * 100
        <4> DEFINE u == Sale!Upwards((r * B - o.min) * 100, r * B)
        <4>2. o.min <= r * B
          BY <1>1, OrderFacts DEF o
        <4>3. u \in Nat /\ u * (r * B) >= (r * B - o.min) * 100
          <5>1. (r * B - o.min) * 100 \in Nat
            BY <1>1, <1>6, <4>2
          <5> QED
            BY <1>6, <5>1, UpwardsFacts
        <4>1. u <= m
          <5>1. ~(u > m)
            BY <1>1, <2>2 DEF Sale!Bounded, Sale!Scale, m
          <5> QED
            BY <1>3, <4>3, <5>1
        <4> HIDE DEF u
        <4>4. u * (r * B) <= m * (r * B)
          <5> DEFINE p == r * B
          <5>1. p \in Nat
            BY <1>6
          <5> HIDE DEF p
          <5>2. u * p <= m * p
            BY <1>3, <4>1, <4>3, <5>1
          <5> QED
            BY <5>2 DEF p
        <4>5. w = 100 * (r * B) - m * (r * B) /\ m * (r * B) \in Nat
          BY <1>3, <1>6
        <4> QED
          BY <1>1, <1>6, <4>3, <4>4, <4>5
      <3>4. (A - 1) * w <= (A - 1) * (o.min * 100)
        <4> HIDE DEF w
        <4> QED
          BY <1>1, <1>3, <1>6, <3>3
      <3>5. (A - 1) * (o.min * 100) = ((A - 1) * o.min) * 100
        BY <1>1, <1>3
      <3> HIDE DEF w
      <3>6. (A - 1) * w \in Int /\ (A - 1) * o.min \in Int
        BY <1>1, <1>3, <1>6
      <3> QED
        BY <1>3, <2>0, <3>2, <3>4, <3>5, <3>6
    <2> QED
      BY <2>1, <2>2
  <1>9. A < B
    BY <1>2, <1>3, <1>4, <1>8, SmallerThanLot
  <1>10. LeastFor(a, Sale!Resized(o, 2)) - o.fee * r >= Sale!Cost
    <2>5. after \in 0 .. 100 /\ n * B * 100 <= A * ((r * B) * (100 - after))
      <3>0. n * B \in Nat \ {0}
        BY <1>2, <1>3
      <3>1. CASE Sale!Bounded(o, 2)
        <4>1. A = Sale!Upwards(n * B * 100, w) /\ bound = m
          BY <1>1, <3>1 DEF Sale!Resized, Sale!Scale, n, m, A
        <4>2. n * B * 100 <= A * w
          <5>1. n * B * 100 \in Nat
            BY <3>0
          <5> QED
            BY <1>6, <4>1, <5>1, UpwardsFacts
        <4>3. after \in 0 .. 100 /\ after <= m
          BY <4>1, <1>2, <1>3
        <4>4. A * w <= A * ((r * B) * (100 - after))
          <5> DEFINE v == (r * B) * (100 - after)
          <5>1. w <= v /\ v \in Nat
            <6> DEFINE p == r * B
            <6>1. p \in Nat
              BY <1>6
            <6> HIDE DEF p
            <6>2. p * (100 - m) <= p * (100 - after) /\ p * (100 - after) \in Nat
              BY <1>3, <4>3, <6>1
            <6> QED
              BY <6>2 DEF p
          <5> HIDE DEF v, w
          <5>2. A * w <= A * v
            BY <1>3, <1>6, <5>1
          <5> QED
            BY <5>2 DEF v
        <4> HIDE DEF w
        <4>5. A * w \in Nat /\ A * ((r * B) * (100 - after)) \in Int
          BY <1>3, <1>6, <4>3
        <4> QED
          BY <3>0, <4>2, <4>3, <4>4, <4>5
      <3>2. CASE ~Sale!Bounded(o, 2)
        <4>1. A = Sale!Upwards(n * B, o.min) /\ bound = 101
          BY <1>1, <3>2 DEF Sale!Resized, Sale!Auto, Sale!Scale, n, A
        <4>2. n * B <= A * o.min
          BY <1>1, <3>0, <4>1, UpwardsFacts
        <4>3. after = s /\ after \in 0 .. 100
          BY <4>1, <1>2, <1>5
        <4>4. o.min * 100 <= (r * B) * (100 - s)
          <5>1. (r * B) * (100 - s) \in Nat
            BY <1>1, <1>6
          <5> QED
            BY <1>1, <5>1, DivFacts
        <4>5. A * (o.min * 100) <= A * ((r * B) * (100 - s))
          <5> DEFINE v == (r * B) * (100 - s)
          <5>1. v \in Nat
            BY <1>1, <1>6
          <5> HIDE DEF v
          <5>2. o.min * 100 <= v
            BY <4>4 DEF v
          <5>3. A * (o.min * 100) <= A * v
            BY <1>1, <1>3, <5>1, <5>2
          <5> QED
            BY <5>3 DEF v
        <4>6. A * (o.min * 100) = (A * o.min) * 100 /\ A * o.min \in Nat
          BY <1>1, <1>3
        <4>7. A * ((r * B) * (100 - s)) \in Int
          BY <1>1, <1>3, <1>6
        <4> QED
          BY <3>0, <4>2, <4>3, <4>5, <4>6, <4>7
      <3> QED
        BY <3>1, <3>2
    <2>6. LeastFor(a, Sale!Resized(o, 2)) = ((r * A) * (100 - after)) \div 100
      BY DEF LeastFor, A, r
    <2> HIDE DEF after
    <2>7. ((r * A) * (100 - after)) \div 100 >= n
      <3>1. 100 - after \in 0 .. 100
        BY <2>5
      <3> QED
        BY <1>2, <1>3, <2>5, <3>1, BringsEnough
    <2>8. ((r * A) * (100 - after)) \div 100 \in Int
      <3>1. (r * A) * (100 - after) \in Int
        BY <1>2, <1>3, <2>5
      <3> QED
        BY <3>1, DivFacts
    <2>9. o.fee * r \in Nat
      BY <1>1, <1>2
    <2> QED
      BY <1>2, <1>3, <2>6, <2>7, <2>8, <2>9
  <1> QED
    BY <1>7, <1>9, <1>10 DEF o, A, B, r

\* What a preparation comes to, by its verdict.
LEMMA PrepareOutcome ==
  ASSUME Sale!SaleAssumption, Sale!SaleInv, NEW a \in SaleAnswers, Sale!Prepare(a)
  PROVE  /\ x6' \in {"sizing", "held", "allowed"}
         /\ x6' # "sizing" => x3' = x3
         /\ x6' = "sizing" =>
              /\ x5' < 3 /\ x2 /\ Sale!Prepared(a) /\ x3' = Sale!Resized(Sale!OrderOf(a), x5 + 2)
              /\ x5 > 0 => ~Sale!Covers(Sale!OrderOf(a))
         /\ x6' = "allowed" => x5 > 0 /\ Sale!Prepared(a) /\ Sale!Covers(Sale!OrderOf(a))
         /\ x6' = "held" /\ Sale!Prepared(a) /\ Sale!InDrift(a) =>
              IF x5 = 0 THEN ~Sale!LotCovered(Sale!OrderOf(a)) \/ ~Sale!Sizable(Sale!OrderOf(a), 2)
              ELSE ~Sale!Covers(Sale!OrderOf(a))
  <1> DEFINE o == Sale!OrderOf(a)
  <1>1. x5 \in 0 .. 3 /\ x5' = x5 + 1 /\ x6 = "sizing" /\ (x5 > 0 => x2)
    BY DEF Sale!Prepare, Sale!SaleInv, Sale!TypeOK, Sale!SizesWholeLots
  <1>2. CASE Sale!FullQuote(a)
    <2>1. x5 = 0 /\ x5' + 1 = 2
      BY <1>1, <1>2 DEF Sale!FullQuote
    <2>2. Sale!LotCovered(o) => x2
      BY CostTyped DEF Sale!LotCovered, Sale!Cost
    <2>3. CASE Sale!Prepared(a) /\ Sale!InDrift(a) /\ Sale!LotCovered(o)
      <3>1. Sale!AskAgain(o)
        BY <1>2, <2>3 DEF Sale!FullQuote
      <3> HIDE DEF o
      <3>2. CASE Sale!Sizable(o, 2)
        BY <1>1, <2>1, <2>2, <2>3, <3>1, <3>2 DEF Sale!AskAgain, o
      <3>3. CASE ~Sale!Sizable(o, 2)
        BY <1>1, <2>1, <2>3, <3>1, <3>3 DEF Sale!AskAgain, o
      <3> QED
        BY <3>2, <3>3
    <2>4. CASE ~(Sale!Prepared(a) /\ Sale!InDrift(a) /\ Sale!LotCovered(o))
      BY <1>2, <2>1, <2>4 DEF Sale!FullQuote, Sale!Hold
    <2> QED
      BY <2>3, <2>4
  <1>3. CASE Sale!SizedQuote(a)
    <2>1. x5 > 0
      BY <1>3 DEF Sale!SizedQuote
    <2> HIDE DEF o
    <2>2. CASE ~Sale!Prepared(a) \/ ~Sale!InDrift(a)
      BY <1>3, <2>1, <2>2 DEF Sale!SizedQuote, Sale!Hold
    <2>3. CASE Sale!Prepared(a) /\ Sale!InDrift(a) /\ Sale!Covers(o)
      <3>1. x6' = "allowed" /\ x3' = x3
        BY <1>3, <2>3 DEF Sale!SizedQuote, o
      <3> QED
        BY <2>1, <2>3, <3>1 DEF o
    <2>4. CASE Sale!Prepared(a) /\ Sale!InDrift(a) /\ ~Sale!Covers(o)
      <3>1. Sale!AskAgain(o)
        BY <1>3, <2>4 DEF Sale!SizedQuote, o
      <3> QED
        BY <1>1, <2>1, <2>4, <3>1 DEF Sale!AskAgain, o
    <2> QED
      BY <2>2, <2>3, <2>4
  <1> QED
    BY <1>2, <1>3 DEF Sale!Prepare

LEMMA PrepareTypes ==
  ASSUME Sale!SaleAssumption, Sale!SaleInv, NEW a \in SaleAnswers, Sale!Prepare(a)
  PROVE  Sale!TypeOK' /\ Sale!SizesWholeLots' /\ Sale!AllowedIsChecked' /\ x9' # {}
  <1> DEFINE o == Sale!OrderOf(a)
  <1>1. Sale!TypeOK /\ Sale!SizesWholeLots /\ x6 = "sizing" /\ x8 = Sale!NoFill
    BY DEF Sale!Prepare, Sale!SaleInv, Sale!AllowedIsChecked
  <1>2. /\ x5' = x5 + 1 /\ x4' = o /\ x9' = x9 \cup {a} /\ x8' = x8
        /\ x1' = x1 /\ x2' = x2 /\ x7' = x7
    BY DEF Sale!Prepare
  <1>3. o \in [input : Nat, out : Nat, min : Nat, fee : Nat] /\ o.min <= o.out
    BY <1>1, OrderFacts
  <1> HIDE DEF o
  <1>4. x5 \in 0 .. 2 /\ x5' \in 1 .. 3
    BY <1>1, <1>2 DEF Sale!TypeOK, Sale!SizesWholeLots
  <1>5. x3' \in [amount : Nat \ {0}, bound : 0 .. Sale!Auto]
    <2>1. CASE x6' = "sizing"
      <3>1. x5 + 2 \in Nat
        BY <1>4
      <3>2. Sale!Prepared(a)
        BY <2>1, PrepareOutcome
      <3>3. x3' = Sale!Resized(o, x5 + 2)
        BY <2>1, PrepareOutcome DEF o
      <3> QED
        BY <1>1, <3>1, <3>2, <3>3, ResizedTyped DEF o
    <2>2. CASE x6' # "sizing"
      BY <1>1, <2>2, PrepareOutcome DEF Sale!SizesWholeLots
    <2> QED
      BY <2>1, <2>2
  <1>6. x6' \in {"sizing", "held", "allowed"}
    BY PrepareOutcome
  <1>7. Sale!TypeOK'
    BY <1>1, <1>2, <1>3, <1>4, <1>5, <1>6 DEF Sale!TypeOK
  <1>8. Sale!SizesWholeLots'
    <2>1. x6' # "held" => x2
      BY <1>1, <1>4, <1>6, PrepareOutcome DEF Sale!SizesWholeLots
    <2>2. x6' = "sizing" => x5' < 3
      BY PrepareOutcome
    <2> QED
      BY <1>2, <1>4, <1>5, <2>1, <2>2 DEF Sale!SizesWholeLots
  <1>9. Sale!AllowedIsChecked'
    <2>1. x8' = Sale!NoFill /\ x6' # "filled"
      BY <1>1, <1>2, <1>6
    <2>2. ASSUME x6' = "allowed"
          PROVE  /\ x4'.input = x3'.amount /\ x4'.min <= x4'.out /\ Sale!Covers(o)
                 /\ x7'.native >= x4'.input + x4'.fee + Protected
      <3>1. Sale!Prepared(a) /\ Sale!Covers(o) /\ x3' = x3
        BY <2>2, PrepareOutcome DEF o
      <3>2. o.input = x3.amount /\ x7.native >= x3.amount + o.fee + Protected
        BY <3>1 DEF Sale!Prepared, Sale!Affordable, o
      <3> QED
        BY <1>2, <1>3, <3>1, <3>2
    <2>3. Sale!NoFill' = Sale!NoFill
      BY DEF Sale!NoFill
    <2>4. x6' = "allowed" =>
            x4'.min - Sale!FeeQuote(o) >= Sale!Cost /\ x1.base - x4'.input >= 1
      BY <1>2, <2>2 DEF Sale!Covers
    <2> QED
      BY <1>2, <1>4, <2>1, <2>2, <2>3, <2>4 DEF Sale!AllowedIsChecked, Sale!Covers, Sale!FeeQuote, Sale!Cost
  <1> QED
    BY <1>2, <1>7, <1>8, <1>9

\* In a market that stands still the lot worth four atoms more is sized at the first
\* answer, and its second order is the one that is allowed.
LEMMA StillAnswer ==
  ASSUME Sale!SaleAssumption, Sale!SaleInv, NEW a \in SaleAnswers, Sale!Prepare(a), Sale!Still', x2,
         Sale!WorthFour(a), Sale!Prepared(a)
  PROVE  /\ x5 = 0 => /\ Sale!InDrift(a) => x6' = "sizing"
                      /\ LeastFor(a, Sale!Resized(Sale!OrderOf(a), 2)) - Sale!OrderOf(a).fee * a.rate >= Sale!Cost
                      /\ Sale!Resized(Sale!OrderOf(a), 2).amount < x1.base
         /\ x5 > 0 => Sale!Covers(Sale!OrderOf(a))
  <1>1. Sale!TypeOK /\ Sale!SizesWholeLots /\ x6 = "sizing" /\ x9' = x9 \cup {a} /\ (x5 > 0 => x9 # {})
        /\ Sale!StillNeedsOne
    BY DEF Sale!Prepare, Sale!SaleInv
  <1>2. ASSUME x5 = 0
        PROVE  /\ Sale!InDrift(a) => x6' = "sizing"
               /\ LeastFor(a, Sale!Resized(Sale!OrderOf(a), 2)) - Sale!OrderOf(a).fee * a.rate >= Sale!Cost
               /\ Sale!Resized(Sale!OrderOf(a), 2).amount < x1.base
    <2> DEFINE o == Sale!OrderOf(a)
    <2>1. x3 = [amount |-> x1.base, bound |-> Sale!Auto]
      BY <1>1, <1>2 DEF Sale!SizesWholeLots
    <2>2. /\ Sale!LotCovered(o) /\ Sale!Resized(o, 2).amount < x1.base
          /\ LeastFor(a, Sale!Resized(o, 2)) - o.fee * a.rate >= Sale!Cost
      BY <1>1, <2>1, OneResizingIsEnough
    <2>3. Sale!Resized(o, 2).amount # x3.amount
      <3>1. 2 \in Nat
        OBVIOUS
      <3>2. Sale!Resized(o, 2).amount \in Nat
        BY <1>1, <3>1, ResizedTyped
      <3> HIDE DEF o
      <3> QED
        BY <2>1, <2>2, <3>2, CostTyped, <1>1
    <2>4. Sale!Sizable(o, 2)
      BY <2>2, <2>3 DEF Sale!Sizable
    <2>5. x6' \in {"sizing", "held", "allowed"} /\ x6' # "allowed" /\ (Sale!InDrift(a) => x6' # "held")
      BY <1>2, <2>2, <2>4, PrepareOutcome
    <2> QED
      BY <2>2, <2>5
  <1>3. ASSUME x5 > 0 PROVE Sale!Covers(Sale!OrderOf(a))
    <2>1. \A b \in x9 : b = a
      BY <1>1 DEF Sale!Still
    <2>2. Sale!Still /\ a \in x9
      BY <1>1, <1>3, <2>1 DEF Sale!Still
    <2> QED
      BY <1>1, <1>3, <2>2 DEF Sale!StillNeedsOne
  <1> QED
    BY <1>2, <1>3

LEMMA PrepareSizes ==
  ASSUME Sale!SaleAssumption, Sale!SaleInv, NEW a \in SaleAnswers, Sale!Prepare(a)
  PROVE  Sale!StillNeedsOne'
  <1>1. /\ x1' = x1 /\ x2' = x2 /\ x5' = x5 + 1 /\ x5 \in Nat /\ x9' = x9 \cup {a}
        /\ Sale!TypeOK /\ Sale!SizesWholeLots
    BY DEF Sale!Prepare, Sale!SaleInv, Sale!TypeOK
  <1>2. Sale!OrderOf(a).fee = IF a.sponsored THEN 0 ELSE a.fee + a.priority
    BY DEF Sale!OrderOf
  <1>3. ASSUME x6' = "sizing", Sale!Still', Sale!WorthFour(a)
        PROVE  /\ x5' = 1 /\ a.honest /\ x1.base - x3'.amount >= 1
               /\ (a.rate * x3'.amount) \div x3'.amount = a.rate
               /\ LeastFor(a, x3') - Sale!OrderOf(a).fee * a.rate >= Sale!Cost
    <2>1. /\ x2 /\ Sale!Prepared(a) /\ x3' = Sale!Resized(Sale!OrderOf(a), x5 + 2)
          /\ x5 > 0 => ~Sale!Covers(Sale!OrderOf(a))
      BY <1>3, PrepareOutcome
    <2>2. x5 = 0
      BY <1>1, <1>3, <2>1, StillAnswer
    <2>3. x3' = Sale!Resized(Sale!OrderOf(a), 2)
      BY <2>1, <2>2
    <2>4. x3' \in [amount : Nat \ {0}, bound : 0 .. Sale!Auto]
      BY PrepareTypes DEF Sale!SizesWholeLots
    <2>5. a.rate \in Nat \ {0} /\ x1.base \in Nat /\ x3.amount \in Nat
      BY <1>1, CostTyped DEF Sale!SaleAssumption, Sale!SizesWholeLots
    <2>6. a.honest
      BY <2>1, <2>5 DEF Sale!Prepared, Sale!OrderOf
    <2>7. (a.rate * x3'.amount) \div x3'.amount = a.rate
      BY <2>4, <2>5, DivExact
    <2>8. /\ LeastFor(a, Sale!Resized(Sale!OrderOf(a), 2)) - Sale!OrderOf(a).fee * a.rate >= Sale!Cost
          /\ Sale!Resized(Sale!OrderOf(a), 2).amount < x1.base
      BY <1>3, <2>1, <2>2, StillAnswer
    <2>9. x1.base - x3'.amount >= 1
      BY <2>3, <2>4, <2>5, <2>8
    <2> QED
      BY <1>1, <2>2, <2>3, <2>6, <2>7, <2>8, <2>9
  <1>4. SUFFICES ASSUME x6' = "sizing", Sale!Still', Sale!WorthFour(a)
                 PROVE  x5' = 1 /\ Sale!Covers(Sale!OrderOf(a))'
    <2>1. Sale!Still' => \A b \in x9' : b = a
      <3>1. a \in x9'
        BY <1>1
      <3> QED
        BY <3>1 DEF Sale!Still
    <2> QED
      BY <1>1, <1>2, <2>1 DEF Sale!StillNeedsOne, Sale!WorthFour, Sale!OrderOf, Sale!Covers, Sale!FeeQuote,
                               Sale!Slippage, Sale!Cost
  <1> QED
    BY <1>1, <1>2, <1>3, <1>4
    DEF Sale!Covers, Sale!FeeQuote, Sale!OrderOf, Sale!Slippage, Sale!Cost, Sale!Scale, LeastFor

LEMMA PrepareHolds ==
  ASSUME Sale!SaleAssumption, Sale!SaleInv, NEW a \in SaleAnswers, Sale!Prepare(a)
  PROVE  Sale!SellsInStillMarket'
  <1>1. x1' = x1 /\ x2' = x2 /\ x7' = x7 /\ x9' = x9 \cup {a} /\ x5 \in 0 .. 3
    BY DEF Sale!Prepare, Sale!SaleInv, Sale!TypeOK
  <1>2. ASSUME x6' = "held", x2, Sale!Still' PROVE ~Sale!Sellable(a)
    <2>1. SUFFICES ASSUME Sale!Prepared(a), Sale!InDrift(a), Sale!WorthFour(a) PROVE FALSE
      BY DEF Sale!Sellable, Sale!WorthFour
    <2>2. CASE x5 = 0
      BY <1>2, <2>1, <2>2, StillAnswer
    <2>3. CASE x5 > 0
      <3>1. Sale!Covers(Sale!OrderOf(a))
        BY <1>2, <2>1, <2>3, StillAnswer
      <3>2. ~Sale!Covers(Sale!OrderOf(a))
        BY <1>2, <2>1, <2>3, PrepareOutcome
      <3> QED
        BY <3>1, <3>2
    <2> QED
      BY <1>1, <2>2, <2>3
  <1>3. x6' = "held" => x3' = x3
    BY PrepareOutcome
  <1>4. Sale!Still' => \A b \in x9' : b = a
    <2>1. a \in x9'
      BY <1>1
    <2> QED
      BY <2>1 DEF Sale!Still
  <1> QED
    BY <1>1, <1>2, <1>3, <1>4
    DEF Sale!SellsInStillMarket, Sale!Sellable, Sale!Prepared, Sale!Affordable, Sale!OrderOf, Sale!Slippage,
        Sale!InDrift

LEMMA PrepareStep ==
  ASSUME Sale!SaleAssumption, Sale!SaleInv, NEW a \in SaleAnswers, Sale!Prepare(a)
  PROVE  Sale!SaleInv'
  <1>1. x6' # "filled" /\ x8' = Sale!NoFill
    BY PrepareOutcome DEF Sale!Prepare, Sale!SaleInv, Sale!AllowedIsChecked
  <1>2. Sale!SaleCoversLot' /\ Sale!ReserveKept' /\ Sale!NativeCostIsExact'
    BY <1>1 DEF Sale!SaleCoversLot, Sale!ReserveKept, Sale!NativeCostIsExact, Sale!NoFill
  <1> QED
    BY <1>2, PrepareTypes, PrepareSizes, PrepareHolds DEF Sale!SaleInv

\* The execution: the wallet pays what was sized, and the report reads it back.
LEMMA FillStep ==
  ASSUME Sale!SaleAssumption, Sale!SaleInv, Sale!Fill
  PROVE  Sale!SaleInv'
  <1>1. /\ Sale!TypeOK /\ Sale!SizesWholeLots /\ Sale!AllowedIsChecked /\ (x5 > 0 => x9 # {})
    BY DEF Sale!SaleInv
  <1>2. /\ x6 = "allowed" /\ x6' = "filled"
        /\ x1' = x1 /\ x2' = x2 /\ x3' = x3 /\ x4' = x4 /\ x5' = x5 /\ x9' = x9
    BY DEF Sale!Fill
  <1>3. /\ x4.input \in Nat /\ x4.out \in Nat /\ x4.min \in Nat /\ x4.fee \in Nat
        /\ x7.native \in Nat /\ x7.wrapped \in Nat /\ x7 = [native |-> x7.native, wrapped |-> x7.wrapped]
        /\ Protected \in Nat
    BY <1>1 DEF Sale!TypeOK, Sale!SaleAssumption
  <1>4. /\ x5 > 0 /\ x4.input = x3.amount /\ x4.min <= x4.out /\ Sale!Covers(x4)
        /\ x7.native >= x4.input + x4.fee + Protected /\ x2
    BY <1>1, <1>2 DEF Sale!AllowedIsChecked, Sale!SizesWholeLots
  <1>5. PICK out \in {x4.min, x4.out}, paid \in {x4.fee, x4.fee \div 2}, wrapped \in BOOLEAN :
          /\ wrapped => x7.wrapped >= x4.input
          /\ x7' = IF wrapped THEN [native |-> x7.native - paid, wrapped |-> x7.wrapped - x4.input]
                   ELSE [x7 EXCEPT !.native = @ - x4.input - paid]
          /\ x8' = [sold |-> x4.input, out |-> out, paid |-> paid, cost |-> Sale!WalletCost(x7, x7', x4.input)]
    BY DEF Sale!Fill
  <1>6. paid \in Nat /\ paid <= x4.fee /\ out \in Nat /\ out >= x4.min
    BY <1>3, <1>4
  <1>7. /\ x7' \in [native : Nat, wrapped : Nat] /\ x7'.native >= Protected
        /\ Sale!WalletCost(x7, x7', x4.input) = paid
    <2>1. CASE wrapped
      <3>1. x7' = [native |-> x7.native - paid, wrapped |-> x7.wrapped - x4.input] /\ x7.wrapped >= x4.input
        BY <1>5, <2>1
      <3>2. x7.native - paid \in Nat /\ x7.native - paid >= Protected /\ x7.wrapped - x4.input \in Nat
        BY <1>3, <1>4, <1>6, <3>1
      <3> QED
        BY <1>3, <1>6, <3>1, <3>2 DEF Sale!WalletCost, Sale!Larger
    <2>2. CASE ~wrapped
      <3>1. x7' = [native |-> x7.native - x4.input - paid, wrapped |-> x7.wrapped]
        BY <1>3, <1>5, <2>2
      <3>2. x7.native - x4.input - paid \in Nat /\ x7.native - x4.input - paid >= Protected
        BY <1>3, <1>4, <1>6
      <3> QED
        BY <1>3, <1>6, <3>1, <3>2 DEF Sale!WalletCost, Sale!Larger
    <2> QED
      BY <2>1, <2>2
  <1>8. x8' = [sold |-> x4.input, out |-> out, cost |-> paid, paid |-> paid]
    BY <1>5, <1>7
  <1>9. Sale!TypeOK'
    <2>1. x8' \in [sold : Nat, out : Nat, cost : Nat, paid : Nat]
      BY <1>3, <1>6, <1>8
    <2> QED
      BY <1>1, <1>2, <1>7, <2>1 DEF Sale!TypeOK
  <1>10. Sale!SizesWholeLots' /\ (x5' > 0 => x9' # {})
    BY <1>1, <1>2 DEF Sale!SizesWholeLots
  <1>11. Sale!AllowedIsChecked'
    BY <1>2, <1>4 DEF Sale!AllowedIsChecked, Sale!Covers, Sale!FeeQuote, Sale!Cost
  <1>12. Sale!SaleCoversLot'
    <2>1. x4.min - Sale!FeeQuote(x4) >= x1.cost /\ x1.base - x4.input >= 1 /\ x1.base \in Nat /\ x1.cost \in Nat
      BY <1>1, <1>4, CostTyped DEF Sale!Covers
    <2>2. Sale!FeeQuote(x4) \in Int
      <3>1. x4.input \in Nat \ {0}
        BY <1>1, <1>4 DEF Sale!SizesWholeLots
      <3> DEFINE o == x4.out
                 i == x4.input
                 rate == o \div i
      <3>a. o \in Int /\ i \in Nat \ {0}
        BY <1>3, <3>1
      <3>2. rate \in Int
        <4> HIDE DEF o, i
        <4> QED
          BY <3>a, DivFacts
      <3> HIDE DEF rate
      <3>3. x4.fee * rate \in Int
        BY <1>3, <3>2
      <3>4. Sale!FeeQuote(x4) = x4.fee * rate
        BY DEF Sale!FeeQuote, rate
      <3> QED
        BY <3>3, <3>4
    <2>3. out - Sale!FeeQuote(x4) >= x1.cost /\ x4.input < x1.base
      BY <1>3, <1>6, <2>1, <2>2
    <2> QED
      BY <1>2, <1>4, <1>8, <2>3 DEF Sale!SaleCoversLot, Sale!FeeQuote
  <1>13. Sale!StillNeedsOne' /\ Sale!SellsInStillMarket'
    BY <1>2 DEF Sale!StillNeedsOne, Sale!SellsInStillMarket
  <1>14. Sale!ReserveKept' /\ Sale!NativeCostIsExact'
    BY <1>7, <1>8 DEF Sale!ReserveKept, Sale!NativeCostIsExact
  <1> QED
    BY <1>9, <1>10, <1>11, <1>12, <1>13, <1>14 DEF Sale!SaleInv

LEMMA SaleInit ==
  ASSUME Sale!SaleAssumption, Sale!Init
  PROVE  Sale!SaleInv
  <1>1. /\ x1 \in SaleLots /\ x2 \in BOOLEAN /\ x3 = [amount |-> x1.base, bound |-> Sale!Auto]
        /\ x4 = Sale!NoOrder /\ x5 = 0 /\ x6 = "sizing" /\ x8 = Sale!NoFill /\ x9 = {}
    BY DEF Sale!Init
  <1>2. x1.base \in Nat \ {0} /\ Sale!Auto \in 0 .. Sale!Auto
    BY <1>1 DEF Sale!SaleAssumption, Sale!Auto, Sale!Scale
  <1>3. x7 \in [native : Nat, wrapped : Nat]
    BY <1>2 DEF Sale!Init, Sale!SaleAssumption
  <1>4. Sale!TypeOK
    BY <1>1, <1>2, <1>3 DEF Sale!TypeOK, Sale!NoOrder, Sale!NoFill
  <1>5. Sale!SizesWholeLots /\ Sale!AllowedIsChecked /\ Sale!StillNeedsOne
    BY <1>1, <1>2 DEF Sale!SizesWholeLots, Sale!AllowedIsChecked, Sale!StillNeedsOne
  <1>6. Sale!SaleCoversLot /\ Sale!SellsInStillMarket /\ Sale!ReserveKept /\ Sale!NativeCostIsExact
    BY <1>1 DEF Sale!SaleCoversLot, Sale!SellsInStillMarket, Sale!ReserveKept, Sale!NativeCostIsExact, Sale!NoFill
  <1> QED
    BY <1>1, <1>4, <1>5, <1>6 DEF Sale!SaleInv

LEMMA SaleStays ==
  ASSUME Sale!SaleInv, UNCHANGED <<x1, x2, x3, x4, x5, x6, x7, x8, x9>>
  PROVE  Sale!SaleInv'
  BY DEF Sale!SaleInv, Sale!TypeOK, Sale!SizesWholeLots, Sale!AllowedIsChecked, Sale!StillNeedsOne,
         Sale!SaleCoversLot, Sale!SellsInStillMarket, Sale!ReserveKept, Sale!NativeCostIsExact,
         Sale!Covers, Sale!FeeQuote, Sale!Cost, Sale!Still, Sale!WorthFour, Sale!OrderOf, Sale!Slippage,
         Sale!Sellable, Sale!Prepared, Sale!Affordable, Sale!InDrift

\* For every lot, market and wallet, and every way in which the provider answers:
\* whichever order is executed pays for the lot and the fees, the native balance
\* kept for the protection is there, the report is what the wallet paid, and a
\* market that stands still and meets the rail is sold in.
THEOREM SalesAlwaysHold == Sale!Spec => []SaleHolds
  <1>1. Sale!SaleAssumption
    BY TradingAssumption
  <1>2. Sale!Init => Sale!SaleInv
    BY <1>1, SaleInit
  <1>3. Sale!SaleInv /\ [Sale!Next]_Sale!vars => Sale!SaleInv'
    <2> SUFFICES ASSUME Sale!SaleInv, [Sale!Next]_Sale!vars PROVE Sale!SaleInv'
      OBVIOUS
    <2>1. CASE \E a \in SaleAnswers : Sale!Prepare(a)
      BY <1>1, <2>1, PrepareStep
    <2>2. CASE Sale!Fill
      BY <1>1, <2>2, FillStep
    <2>3. CASE UNCHANGED Sale!vars
      BY <2>3, SaleStays DEF Sale!vars
    <2> QED
      BY <2>1, <2>2, <2>3 DEF Sale!Next
  <1>4. Sale!SaleInv => SaleHolds
    BY DEF Sale!SaleInv, SaleHolds
  <1> QED
    BY <1>2, <1>3, <1>4, PTL DEF Sale!Spec
=============================================================================
