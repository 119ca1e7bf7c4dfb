------------------------- MODULE PortfolioCapitalMC -------------------------
(* Small instances of PortfolioCapital for TLC. *)
EXTENDS PortfolioCapital, TLC

CONSTANTS btc, sol, b1, b2, b3, e1, e2, e3

FirstBands == btc :> b1 @@ sol :> b2

\* Execution rows are interchangeable.
Rows == Permutations({e1, e2, e3})
=============================================================================
