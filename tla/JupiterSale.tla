------------------------------ MODULE JupiterSale ------------------------------
(***************************************************************************)
(* One live sell of an accumulate-base bot on SOL: the quote-sized         *)
(* preparation (prepareQuoteSizedAccumulateBaseSell), which asks for up to *)
(* three orders until one recovers the whole lot's cost from a part of its *)
(* base, on top of the checks of the Jupiter adapter, and the reading of   *)
(* the confirmed transaction into the fill that is accounted.              *)
(*                                                                         *)
(* Amounts are atoms; prices are quote atoms per base atom, so that a fee  *)
(* of lamports has an exact price; slippage counts hundredths, not basis   *)
(* points.  The durable protocol around the order is DurableExecution's.   *)
(***************************************************************************)
EXTENDS Integers

CONSTANTS
  Lots,      \* [base, cost]: lots the sell may be matched to
  Answers,   \* what the provider may answer: [rate, slip, fee, priority, sponsored, honest]
  Target, Limit,         \* the rail's price, the adverse drift allowed
  Budget, Protected,     \* native fee budget, native balance that must stay
  PriorityCap,           \* JUPITER_PRIORITY_FEE_LAMPORTS
  Natives                \* native balances the wallet may have

Scale == 100

SaleAssumption ==
  /\ Lots \subseteq [base : Nat \ {0}, cost : Nat \ {0}]
  /\ Answers \subseteq [rate : Nat \ {0}, slip : 0 .. Scale, fee : Nat, priority : Nat,
                        sponsored : BOOLEAN, honest : BOOLEAN]
  /\ {Target, Limit, Budget, Protected, PriorityCap} \subseteq Nat /\ Natives \subseteq Nat

VARIABLES
  lot, whole,  \* the matched lot, and whether the order asks for all of it
  asked,       \* what the last order was asked for: amount, manual slippage bound or none
  order,       \* the last order the provider gave
  tries,       \* preparations so far
  verdict,     \* "sizing", "allowed", "held" or "filled"
  wallet,      \* native and wrapped SOL of the execution wallet
  fill,        \* what the report says: sold, out, native cost; and what the wallet paid
  market       \* history: what the provider answered each time

vars == <<lot, whole, asked, order, tries, verdict, wallet, fill, market>>

Auto == Scale + 1     \* provider_auto: no bound on the slippage
NoOrder == [input |-> 0, out |-> 0, min |-> 0, fee |-> 0]
NoFill == [sold |-> 0, out |-> 0, cost |-> 0, paid |-> 0]

TypeOK ==
  /\ lot \in Lots /\ whole \in BOOLEAN /\ tries \in 0 .. 3
  /\ asked.amount \in Nat \ {0} /\ asked.bound \in 0 .. Auto
  /\ order \in [input : Nat, out : Nat, min : Nat, fee : Nat]
  /\ verdict \in {"sizing", "allowed", "held", "filled"}
  /\ wallet \in [native : Nat, wrapped : Nat] /\ fill \in [sold : Nat, out : Nat, cost : Nat, paid : Nat]
  /\ market \subseteq Answers

Init ==
  /\ lot \in Lots /\ whole \in BOOLEAN
  /\ asked = [amount |-> lot.base, bound |-> Auto]
  /\ order = NoOrder /\ tries = 0 /\ verdict = "sizing" /\ fill = NoFill /\ market = {}
  /\ \E n \in Natives : wallet \in {[native |-> n, wrapped |-> 0], [native |-> n, wrapped |-> lot.base]}
-----------------------------------------------------------------------------
\* The adapter's prepareExecution

Upwards(n, d) == (n + d - 1) \div d
Larger(a, b) == IF a > b THEN a ELSE b

\* The provider's order for what was asked; a bounded order keeps its bound.
Slippage(a) == IF a.slip > asked.bound THEN asked.bound ELSE a.slip
OrderOf(a) ==
  LET out == a.rate * asked.amount
  IN [input |-> IF a.honest THEN asked.amount ELSE asked.amount - 1, out |-> out,
      min |-> (out * (Scale - Slippage(a))) \div Scale, fee |-> IF a.sponsored THEN 0 ELSE a.fee + a.priority]

\* fetchOrder and assertNativeFeeCapacity.
Affordable(a) ==
  /\ OrderOf(a).fee <= Budget
  /\ wallet.native >= asked.amount + OrderOf(a).fee + Protected
Prepared(a) ==
  /\ OrderOf(a).input = asked.amount /\ OrderOf(a).min > 0
  /\ a.priority <= PriorityCap
  /\ Affordable(a)
-----------------------------------------------------------------------------
\* prepareQuoteSizedAccumulateBaseSell

\* validateExecutionQuote, validatePreparedQuoteDrift
InDrift(a) == (Target - a.rate) * Scale <= Limit * Target

\* getWholeMatchedTradingLot, estimateQuoteFeeAmount: the fee at the quote's price
Cost == IF whole THEN lot.cost ELSE 0
FeeQuote(o) == o.fee * (o.out \div o.input)
LotCovered(o) == Cost > 0 /\ o.out - FeeQuote(o) - Cost > 0

\* The next amount: what the whole cost and fee need at the protected rate, which
\* is the provider's floor or, when that eats the margin, half the margin as bound.
Margin(o) == Larger(0, ((o.out - FeeQuote(o) - Cost - 1) * Scale) \div (2 * o.out))
Bounded(o, try) == try = 3 \/ Upwards((o.out - o.min) * Scale, o.out) > Margin(o)
Needed(o) == Cost + FeeQuote(o) + 1
Resized(o, try) ==
  IF Bounded(o, try)
  THEN [amount |-> Upwards(Needed(o) * o.input * Scale, o.out * (Scale - Margin(o))), bound |-> Margin(o)]
  ELSE [amount |-> Upwards(Needed(o) * o.input, o.min), bound |-> Auto]

\* The loop's exits: nothing left to retain, or the amount the order before was
\* sized to (for the first of the sized orders, which has none before it, what
\* was asked is the whole lot and the first exit says as much).
Sizable(o, try) ==
  /\ Resized(o, try).amount < lot.base
  /\ Resized(o, try).amount # asked.amount

\* (Faulty form: the fees are forgotten.)  The last order is the one submitted.
CoversGross(o) == o.min >= Cost /\ lot.base - o.input >= 1
Covers(o) == o.min - FeeQuote(o) >= Cost /\ lot.base - o.input >= 1

AskAgain(o) ==
  IF tries' < 3 /\ Sizable(o, tries' + 1)
  THEN asked' = Resized(o, tries' + 1) /\ verdict' = "sizing"
  ELSE verdict' = "held" /\ UNCHANGED asked

Hold == verdict' = "held" /\ UNCHANGED asked
FullQuote(a) ==
  /\ tries = 0
  /\ IF Prepared(a) /\ InDrift(a) /\ LotCovered(OrderOf(a))
     THEN AskAgain(OrderOf(a)) ELSE Hold
SizedQuote(a) ==
  /\ tries > 0
  /\ CASE ~Prepared(a) \/ ~InDrift(a) -> Hold
       [] Prepared(a) /\ InDrift(a) /\ Covers(OrderOf(a)) -> verdict' = "allowed" /\ UNCHANGED asked
       [] OTHER -> AskAgain(OrderOf(a))

Prepare(a) ==
  /\ verdict = "sizing"
  /\ tries' = tries + 1 /\ order' = OrderOf(a) /\ market' = market \cup {a}
  /\ FullQuote(a) \/ SizedQuote(a)
  /\ UNCHANGED <<lot, whole, wallet, fill>>
-----------------------------------------------------------------------------
\* The chain executes the order, and getActualNetworkFee reads its transaction

\* The wallet's native loss less what was unwrapped or spent as the principal.
WalletCost(before, after, sold) ==
  Larger(0, before.native - after.native - (after.wrapped - before.wrapped) - sold)

\* The principal leaves as native SOL or from a wrapped account; the fees paid
\* are at most the order's, and rent may come back.
Fill ==
  /\ verdict = "allowed" /\ verdict' = "filled"
  /\ \E out \in {order.min, order.out}, paid \in {order.fee, order.fee \div 2}, wrapped \in BOOLEAN :
       /\ wrapped => wallet.wrapped >= order.input
       /\ wallet' = IF wrapped THEN [native |-> wallet.native - paid, wrapped |-> wallet.wrapped - order.input]
                    ELSE [wallet EXCEPT !.native = @ - order.input - paid]
       /\ fill' = [sold |-> order.input, out |-> out, paid |-> paid,
                   cost |-> WalletCost(wallet, wallet', order.input)]
  /\ UNCHANGED <<lot, whole, asked, order, tries, market>>

Next == (\E a \in Answers : Prepare(a)) \/ Fill
Spec == Init /\ [][Next]_vars
-----------------------------------------------------------------------------
\* Properties

\* What is sold recovers the whole lot's cost and the fees at the worst fill the
\* order admits, whatever the quotes did between the preparations, and leaves
\* base to keep ("covers the complete lot cost and fees while retaining base").
SaleCoversLot ==
  verdict = "filled" =>
    /\ fill.sold = asked.amount /\ fill.sold < lot.base
    /\ fill.out - FeeQuote(order) >= lot.cost

\* Three preparations are enough when the market stands still: a lot whose margin
\* is worth four atoms of base is sold ("within three preparations").
Still == \A a, b \in market : a = b
Sellable(a) ==
  Prepared(a) /\ InDrift(a) /\ a.rate * (lot.base - 4) >= lot.cost + OrderOf(a).fee * a.rate + 1
SellsInStillMarket == verdict = "held" /\ whole /\ Still => \A a \in market : ~Sellable(a)

\* The swap, its fees and rent never take the native balance below what is
\* protected.
ReserveKept == verdict = "filled" => wallet.native >= Protected

\* The native cost that is charged to the lot is what the wallet paid, whether
\* the principal was native or wrapped SOL.
NativeCostIsExact == fill.cost = fill.paid
\* Between two steps: the first order asks for the whole lot; only a whole lot is
\* sized again; what was allowed is what was asked last, with its checks.
SizesWholeLots ==
  /\ asked \in [amount : Nat \ {0}, bound : 0 .. Auto]
  /\ tries = 0 => asked = [amount |-> lot.base, bound |-> Auto] /\ verdict = "sizing" /\ market = {}
  /\ tries > 0 /\ verdict # "held" => whole
  /\ verdict = "sizing" => tries < 3
AllowedIsChecked ==
  /\ verdict \in {"allowed", "filled"} =>
       /\ tries > 0 /\ order.input = asked.amount /\ order.min <= order.out /\ Covers(order)
  /\ verdict = "allowed" => wallet.native >= order.input + order.fee + Protected
  /\ verdict # "filled" => fill = NoFill

\* A lot worth four atoms of base more than its cost is sized once: the amount that
\* is asked for second covers it as long as the market answers the same.
WorthFour(a) == a.rate * (lot.base - 4) >= lot.cost + OrderOf(a).fee * a.rate + 1
StillNeedsOne ==
  verdict = "sizing" /\ tries > 0 /\ Still =>
    \A a \in market : WorthFour(a) => tries = 1 /\ Covers(OrderOf(a))

SaleInv ==
  /\ TypeOK /\ SizesWholeLots /\ AllowedIsChecked /\ StillNeedsOne
  /\ tries > 0 => market # {}
  /\ SaleCoversLot /\ SellsInStillMarket /\ ReserveKept /\ NativeCostIsExact
=============================================================================
