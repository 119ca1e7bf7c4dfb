---------------------------- MODULE TradingParts ----------------------------
(*****************************************************************************)
(* The state that the parts of the trading suite share, and the part that is *)
(* proved about: the sale through Jupiter, beside the chart of the profit.   *)
(* TradingMC adds the other parts and the suite's specification.             *)
(*****************************************************************************)
EXTENDS PnlSpikes

CONSTANTS
  SaleLots, SaleAnswers, SaleTarget, Limit, Budget, Protected, PriorityCap, Natives   \* of the sale

VARIABLES
  part,   \* the component at work
  x1, x2, x3, x4, x5, x6, x7, x8, x9   \* its variables, in the order of its module

\* A sale whose provider answers up to three times.
Sale == INSTANCE JupiterSale WITH
  Lots <- SaleLots, Answers <- SaleAnswers, Target <- SaleTarget,
  lot <- x1, whole <- x2, asked <- x3, order <- x4, tries <- x5, verdict <- x6, wallet <- x7,
  fill <- x8, market <- x9

ASSUME TradingAssumption == Sale!SaleAssumption
-----------------------------------------------------------------------------
\* A live sale pays for its lot after slippage and fees in a market that still
\* meets the rail, keeps the protected native balance, and reports the native
\* cost the wallet really had, whichever of its orders it executes.
SaleHolds ==
  part = "sale" =>
    /\ Sale!TypeOK /\ Sale!SaleCoversLot /\ Sale!SellsInStillMarket
    /\ Sale!ReserveKept /\ Sale!NativeCostIsExact
=============================================================================
