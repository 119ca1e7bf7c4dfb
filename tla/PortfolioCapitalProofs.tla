----------------------- MODULE PortfolioCapitalProofs -----------------------
(***************************************************************************)
(* For every portfolio, paper or live, with any number of bands, zones and *)
(* executions: every invariant of PortfolioCapital holds.                  *)
(*                                                                         *)
(* Those that need no sums form one inductive invariant, Inv, with two     *)
(* parts of its own.  Linked ties an unsettled attempt to its row and      *)
(* band: without it a second attempt could own the same reservation, or a  *)
(* commit could return cash to a closed band.  OneLiveExecution is what    *)
(* keeps the fee envelope sufficient: settling the only execution leaves   *)
(* none to pay for.                                                        *)
(*                                                                         *)
(* The conservation of capital needs sums.  SumInv states them over all    *)
(* bands and all executions, so that the index sets never change and one   *)
(* operation changes one term; SumProofs says what that does to the sum.   *)
(* The sums the code takes, over open bands, the bands of an asset or the  *)
(* open lots of a band, follow: the other terms are zero.                  *)
(*                                                                         *)
(* One lemma per operation.  Each first states what the operation does to  *)
(* the rows it touches, then takes the invariant conjunct by conjunct.     *)
(***************************************************************************)
EXTENDS PortfolioCapital, SumProofs

\* Unsettled attempts belong to open bands, one execution each, and report no
\* fee beyond the estimate; inventory belongs to open bands.
Linked ==
    /\ \A b \in Busy : /\ b \in OpenBands
                       /\ attempt[b].exec \in executions
                       /\ attempt[b].fee <= attempt[b].estimate
    /\ \A b, c \in Busy : attempt[b].exec = attempt[c].exec => b = c
    /\ \A e \in OpenLots : lot[e].band \in OpenBands

\* At most one live execution is unsettled.
OneLiveExecution == Live => \A b, c \in Busy : b = c

Inv ==
    /\ TypeOK
    /\ Linked
    /\ ReservedForPendingBuy
    /\ BooksMatchBand
    /\ BandAccounts
    /\ OneEntryPerZone
    /\ OneLiveExecution
    /\ FeeIsFunded
    /\ ClosedIsEmpty

USE DEF Busy, Buying, OpenBands, OpenLots, LotsOf, AssetOfLot

\* Changing the amounts of a row after a buy leaves a row.
LEMMA RowAfterBuy ==
    ASSUME NEW r \in BandRows, NEW x \in Nat, NEW y \in Nat, NEW z \in Nat
    PROVE  [r EXCEPT !.available = x, !.reserved = y, !.deployed = z] \in BandRows
  BY DEF BandRows

\* The same of a row after a sell.
LEMMA RowAfterSell ==
    ASSUME NEW r \in BandRows, NEW x \in Nat, NEW y \in Nat, NEW z \in Nat
    PROVE  [r EXCEPT !.available = x, !.deployed = y, !.loss = z] \in BandRows
  BY DEF BandRows

\* The same of its status.
LEMMA RowWithStatus ==
    ASSUME NEW r \in BandRows, NEW s \in BandStatuses
    PROVE  [r EXCEPT !.status = s] \in BandRows
  BY DEF BandRows

\* The same of a row that is closed.
LEMMA RowArchived ==
    ASSUME NEW r \in BandRows, NEW x \in Nat
    PROVE  [r EXCEPT !.status = "CLOSED", !.available = 0, !.allocated = x] \in BandRows
  BY DEF BandRows, BandStatuses

\* createPaperPortfolio and stageLivePortfolio leave consistent accounts.
LEMMA InitInv == Init => Inv
<1> SUFFICES ASSUME Init PROVE Inv
  OBVIOUS
<1> USE AssetsAssumption, AmountsAssumption, FeesAssumption, InputsAssumption, ModeAssumption
<1>1. TypeOK
  BY DEF Init, TypeOK, BandRows, FundedBand, NoRow, NoLot, BandStatuses, BotStatuses, ReservationStatuses
<1>2. QED
  BY <1>1 DEF Init, Inv, Linked, ReservedForPendingBuy, BooksMatchBand, BandAccounts, OneEntryPerZone,
     OneLiveExecution, FeeIsFunded, ClosedIsEmpty, NoLot, FundedBand, NoRow, Pending

\* Parking or reactivating a band moves no money.
LEMMA SetBandInv ==
    ASSUME Inv, NEW b \in Bands, NEW s \in {"ACTIVE", "PARKED_BELOW"}, SetBand(b, s)
    PROVE  Inv'
<1>1. /\ b \in OpenBands /\ band' = [band EXCEPT ![b] = [band[b] EXCEPT !.status = s]]
      /\ UNCHANGED <<portfolio, funded, bot, books, attempt, executions, reservation, lot, wallet, topUps>>
  BY Zenon DEF SetBand, Manageable, Inv, TypeOK
<1>2. [band[b] EXCEPT !.status = s] \in BandRows
  BY RowWithStatus DEF Inv, TypeOK, BandStatuses
<1>3. /\ band' \in [Bands -> BandRows] /\ band'[b] = [band[b] EXCEPT !.status = s]
      /\ \A c \in Bands : c # b => band'[c] = band[c]
  BY <1>1, <1>2, Zenon DEF Inv, TypeOK
<1>4. \A c \in Bands :
        /\ band'[c].status = IF c = b THEN s ELSE band[c].status
        /\ band'[c].asset = band[c].asset /\ band'[c].reserved = band[c].reserved
        /\ band'[c].available = band[c].available /\ band'[c].allocated = band[c].allocated
        /\ band'[c].deployed = band[c].deployed /\ band'[c].loss = band[c].loss
  BY <1>3 DEF Inv, TypeOK, BandRows
<1>5. TypeOK'
  BY <1>1, <1>3 DEF Inv, TypeOK
<1>6. Linked'
  BY <1>1, <1>4 DEF Inv, Linked
<1>7. ReservedForPendingBuy'
  BY <1>1, <1>4 DEF Inv, ReservedForPendingBuy
<1>8. BooksMatchBand' /\ BandAccounts'
  BY <1>1, <1>4 DEF Inv, BooksMatchBand, BandAccounts
<1>9. OneEntryPerZone'
  BY <1>1, <1>4 DEF Inv, OneEntryPerZone, Linked
<1>10. OneLiveExecution' /\ FeeIsFunded' /\ ClosedIsEmpty'
  BY <1>1, <1>4 DEF Inv, OneLiveExecution, FeeIsFunded, ClosedIsEmpty
<1>11. QED
  BY <1>5, <1>6, <1>7, <1>8, <1>9, <1>10 DEF Inv

\* Settling a buy.
LEMMA CommitBuyInv ==
    ASSUME Inv, NEW b \in Bands, CommitBuy(b)
    PROVE  Inv'
<1> USE DEF CommitBuy, Settled, Charged, Monus, AfterBuy, LotCost
<1>0. /\ attempt[b] \in Attempts /\ b \in Buying
      /\ band[b].reserved = attempt[b].quote /\ band[b].reserved <= band[b].available
      /\ attempt[b].moved <= attempt[b].quote
      /\ books[b] = band[b].available
  BY DEF Inv, TypeOK, BandRows, ReservedForPendingBuy, BooksMatchBand
<1>1. TypeOK'
  <2>1. /\ band[b] \in BandRows
        /\ band[b].available - attempt[b].moved \in Nat
        /\ band[b].reserved - attempt[b].quote \in Nat
        /\ band[b].deployed + (attempt[b].moved + attempt[b].fee) \in Nat
    BY <1>0 DEF Inv, TypeOK, Attempts, BandRows
  <2>2. AfterBuy(b, attempt[b]) \in BandRows
    BY <2>1, RowAfterBuy, Zenon
  <2>8. band' \in [Bands -> BandRows]
    BY <2>2, Zenon DEF Inv, TypeOK
  <2>3. Charged(attempt[b].fee, 0) \in [free : Nat, fees : Nat, auto : BOOLEAN]
    BY <1>0, ModeAssumption DEF Inv, TypeOK, Attempts
  <2>4. reservation' \in [Execs -> ReservationStatuses]
    BY DEF Inv, TypeOK, ReservationStatuses
  <2>5. lot' \in [Execs -> [band : Bands \cup {NoBand}, zone : Zones, cost : Nat]]
    BY <1>0 DEF Inv, TypeOK, Attempts
  <2>6. books' \in [Bands -> Nat]
    BY <1>0 DEF Inv, TypeOK, Attempts
  <2>7. QED
    BY <2>8, <2>3, <2>4, <2>5, <2>6 DEF Inv, TypeOK
<1>2. Linked'
  BY DEF Inv, TypeOK, BandRows, Linked, Attempts
<1>3. ReservedForPendingBuy'
  BY DEF Inv, TypeOK, BandRows, ReservedForPendingBuy, Linked, Attempts, Pending
<1>4. BooksMatchBand' /\ BandAccounts'
  BY FeesAssumption, ModeAssumption DEF Inv, TypeOK, BandRows, BooksMatchBand, BandAccounts, Linked, Attempts
<1>5. OneEntryPerZone'
  BY DEF Inv, TypeOK, BandRows, OneEntryPerZone, Linked, Attempts
<1>6. OneLiveExecution' /\ FeeIsFunded' /\ ClosedIsEmpty'
  BY DEF Inv, TypeOK, BandRows, OneLiveExecution, FeeIsFunded, ClosedIsEmpty, Linked, Attempts
<1>7. QED
  BY <1>1, <1>2, <1>3, <1>4, <1>5, <1>6 DEF Inv

\* A further band takes its cash from the free pool.
LEMMA CreateBandInv ==
    ASSUME Inv, NEW b \in Bands, NEW new \in Bands, NEW q \in Requests, CreateBand(b, new, q)
    PROVE  Inv'
<1>1. /\ q \in Nat /\ b # new /\ b \in OpenBands /\ b \notin Busy /\ band[new].status = "none"
      /\ UNCHANGED <<attempt, executions, reservation, lot, wallet, topUps>>
      /\ MayExpand(band[b].asset, q)
      /\ portfolio' = [portfolio EXCEPT !.free = @ - q]
      /\ funded' = [funded EXCEPT ![band[b].asset] = @ + q]
      /\ bot' = [bot EXCEPT ![new] = "active"]
      /\ books' = [books EXCEPT ![new] = q]
  BY AmountsAssumption DEF CreateBand, Manageable
<1>2. /\ band'[new] = FundedBand(band[b].asset, q)
      /\ band'[b] = [band[b] EXCEPT !.status = "PARKED_BELOW"]
      /\ \A c \in Bands \ {b, new} : band'[c] = band[c]
      /\ band' \in [Bands -> BandRows]
  <2>1. FundedBand(band[b].asset, q) \in BandRows
    BY <1>1 DEF Inv, TypeOK, BandRows, BandStatuses, FundedBand
  <2>2. [band[b] EXCEPT !.status = "PARKED_BELOW"] \in BandRows
    BY RowWithStatus DEF Inv, TypeOK, BandStatuses
  <2>3. band' = [[band EXCEPT ![new] = FundedBand(band[b].asset, q)]
                     EXCEPT ![b] = [band[b] EXCEPT !.status = "PARKED_BELOW"]]
    BY <1>1, Zenon DEF CreateBand, Inv, TypeOK
  <2>4. QED
    BY <1>1, <2>1, <2>2, <2>3, Zenon DEF Inv, TypeOK
<1>3. \A c \in Bands :
        /\ band'[c].status = IF c = new THEN "ACTIVE" ELSE IF c = b THEN "PARKED_BELOW" ELSE band[c].status
        /\ c = new => /\ band'[c].reserved = 0 /\ band'[c].available = q /\ band'[c].allocated = q
                      /\ band'[c].deployed = 0 /\ band'[c].loss = 0
        /\ c # new => /\ band'[c].asset = band[c].asset /\ band'[c].reserved = band[c].reserved
                      /\ band'[c].available = band[c].available
                      /\ band'[c].allocated = band[c].allocated
                      /\ band'[c].deployed = band[c].deployed /\ band'[c].loss = band[c].loss
  BY <1>1, <1>2 DEF Inv, TypeOK, BandRows, FundedBand
<1>4. /\ \A c \in Busy : c # new
      /\ \A e \in OpenLots : lot[e].band # new /\ lot[e].band \in Bands
  BY <1>1 DEF Inv, Linked
<1>5. TypeOK'
  <2>1. portfolio.free >= q
    BY <1>1 DEF MayExpand
  <2>2. portfolio' \in [free : Nat, fees : Nat, auto : BOOLEAN]
    BY <1>1, <2>1 DEF Inv, TypeOK
  <2>3. funded' \in [Assets -> Int]
    <3>1. CASE band[b].asset \in Assets
      BY <1>1, <3>1 DEF Inv, TypeOK
    <3>2. CASE band[b].asset \notin Assets
      <4>1. funded' = funded
        BY <1>1, <3>2, Zenon DEF Inv, TypeOK
      <4>2. QED
        BY <4>1 DEF Inv, TypeOK
    <3>3. QED
      BY <3>1, <3>2
  <2>4. bot' \in [Bands -> BotStatuses] /\ books' \in [Bands -> Nat]
    BY <1>1 DEF Inv, TypeOK, BotStatuses
  <2>5. QED
    BY <1>1, <1>2, <2>2, <2>3, <2>4 DEF Inv, TypeOK
<1>6. Linked'
  BY <1>1, <1>3, <1>4 DEF Inv, Linked
<1>7. ReservedForPendingBuy'
  BY <1>1, <1>3, <1>4 DEF Inv, ReservedForPendingBuy
<1>8. BooksMatchBand' /\ BandAccounts'
  BY <1>1, <1>3 DEF Inv, TypeOK, BandRows, BooksMatchBand, BandAccounts
<1>9. OneEntryPerZone'
  BY <1>1, <1>3, <1>4 DEF Inv, OneEntryPerZone
<1>10. OneLiveExecution' /\ FeeIsFunded' /\ ClosedIsEmpty'
  <2>1. OneLiveExecution'
    BY <1>1 DEF Inv, OneLiveExecution
  <2>2. FeeIsFunded'
    BY <1>1 DEF Inv, TypeOK, FeeIsFunded
  <2>3. ClosedIsEmpty'
    BY <1>1, <1>3 DEF Inv, ClosedIsEmpty
  <2>4. QED
    BY <2>1, <2>2, <2>3
<1>11. QED
  BY <1>5, <1>6, <1>7, <1>8, <1>9, <1>10 DEF Inv

\* Preparing a buy reserves its cash in a zone that is free.
LEMMA PrepareBuyInv ==
    ASSUME Inv, NEW b \in Bands, NEW e \in Execs, NEW q \in Quotes, NEW z \in Zones,
           NEW f \in FeeEstimates, PrepareBuy(b, e, q, z, f)
    PROVE  Inv'
<1> USE DEF PrepareBuy, MayTrade, Automated
<1>1. q \in Nat /\ f \in Nat /\ b \notin Busy
  BY AmountsAssumption
<1>2. attempt'[b] \in Attempts /\ attempt'[b] # NoAttempt
  BY <1>1, NoAttemptAssumption DEF Inv, TypeOK, Attempts
<1>3. TypeOK'
  <2>1. band' \in [Bands -> BandRows]
    <3>1. band' = [band EXCEPT ![b] = [band[b] EXCEPT !.reserved = band[b].reserved + q]]
      BY Zenon DEF Inv, TypeOK
    <3>2. band[b] \in BandRows
      BY DEF Inv, TypeOK
    <3>3. [band[b] EXCEPT !.reserved = band[b].reserved + q] \in BandRows
      BY <1>1, <3>2 DEF BandRows
    <3>4. QED
      BY <3>1, <3>3, Zenon DEF Inv, TypeOK
  <2>2. attempt' \in [Bands -> Attempts \cup {NoAttempt}]
    BY <1>2 DEF Inv, TypeOK
  <2>3. reservation' \in [Execs -> ReservationStatuses] /\ executions' \subseteq Execs
    BY DEF Inv, TypeOK, ReservationStatuses, Pending
  <2>4. QED
    BY <2>1, <2>2, <2>3 DEF Inv, TypeOK
<1>4. Linked'
  BY <1>1, <1>2 DEF Inv, TypeOK, BandRows, Linked, Attempts
<1>5. ReservedForPendingBuy'
  BY <1>1, <1>2 DEF Inv, TypeOK, BandRows, ReservedForPendingBuy, Linked, Pending
<1>6. BooksMatchBand' /\ BandAccounts'
  BY <1>1 DEF Inv, TypeOK, BandRows, BooksMatchBand, BandAccounts
<1>7. OneEntryPerZone'
  BY <1>1, <1>2 DEF Inv, TypeOK, BandRows, OneEntryPerZone, Linked, ZoneFree
<1>8. OneLiveExecution' /\ FeeIsFunded' /\ ClosedIsEmpty'
  BY <1>1, <1>2 DEF Inv, TypeOK, BandRows, OneLiveExecution, FeeIsFunded, ClosedIsEmpty
<1>9. QED
  BY <1>3, <1>4, <1>5, <1>6, <1>7, <1>8 DEF Inv

\* Preparing a sell reserves nothing.
LEMMA PrepareSellInv ==
    ASSUME Inv, NEW b \in Bands, NEW e \in Execs, NEW l \in Execs, NEW f \in FeeEstimates,
           PrepareSell(b, e, l, f)
    PROVE  Inv'
<1> USE DEF PrepareSell, MayTrade, Automated, accounts
<1>1. f \in Nat /\ b \notin Busy
  BY AmountsAssumption
<1>2. attempt'[b] \in Attempts /\ attempt'[b] # NoAttempt
  BY <1>1, NoAttemptAssumption DEF Inv, TypeOK, Attempts
<1>3. TypeOK'
  BY <1>1, <1>2 DEF Inv, TypeOK
<1>4. Linked'
  BY <1>1, <1>2 DEF Inv, TypeOK, BandRows, Linked, Attempts
<1>5. ReservedForPendingBuy'
  BY <1>1, <1>2 DEF Inv, TypeOK, ReservedForPendingBuy
<1>6. BooksMatchBand' /\ BandAccounts'
  BY DEF Inv, BooksMatchBand, BandAccounts
<1>7. OneEntryPerZone'
  BY <1>1, <1>2 DEF Inv, TypeOK, OneEntryPerZone
<1>8. OneLiveExecution' /\ FeeIsFunded' /\ ClosedIsEmpty'
  BY <1>1, <1>2 DEF Inv, TypeOK, OneLiveExecution, FeeIsFunded, ClosedIsEmpty
<1>9. QED
  BY <1>3, <1>4, <1>5, <1>6, <1>7, <1>8 DEF Inv

\* Steps that keep the accounts and what is known of each attempt keep the rest.
LEMMA SameExecutions ==
    ASSUME Inv, UNCHANGED <<portfolio, band, books, reservation, lot>>,
           \A c \in Bands : /\ c \in Busy' <=> c \in Busy
                            /\ c \in Buying' <=> c \in Buying
                            /\ attempt'[c].exec = attempt[c].exec /\ attempt'[c].quote = attempt[c].quote
                            /\ attempt'[c].zone = attempt[c].zone
                            /\ attempt'[c].estimate = attempt[c].estimate
    PROVE  /\ ReservedForPendingBuy' /\ BooksMatchBand' /\ BandAccounts' /\ OneEntryPerZone'
           /\ OneLiveExecution' /\ FeeIsFunded' /\ ClosedIsEmpty'
<1>1. ReservedForPendingBuy'
  BY DEF Inv, ReservedForPendingBuy
<1>2. BooksMatchBand' /\ BandAccounts'
  BY DEF Inv, BooksMatchBand, BandAccounts
<1>3. OneEntryPerZone'
  BY DEF Inv, OneEntryPerZone
<1>4. OneLiveExecution'
  BY DEF Inv, OneLiveExecution
<1>5. FeeIsFunded'
  BY DEF Inv, FeeIsFunded
<1>6. ClosedIsEmpty'
  BY DEF Inv, ClosedIsEmpty
<1>7. QED
  BY <1>1, <1>2, <1>3, <1>4, <1>5, <1>6

\* Marking the outcome unknown blocks the portfolio until the attempt settles.
LEMMA MarkUnknownInv ==
    ASSUME Inv, NEW b \in Bands, MarkUnknown(b)
    PROVE  Inv'
<1> USE DEF MarkUnknown, accounts
<1>1. attempt[b] \in Attempts /\ attempt'[b] \in Attempts /\ attempt'[b] # NoAttempt
  BY NoAttemptAssumption DEF Inv, TypeOK, Attempts
<1>2. TypeOK'
  BY <1>1 DEF Inv, TypeOK, ReservationStatuses, Pending
<1>3. Linked'
  BY <1>1 DEF Inv, TypeOK, Linked, Attempts
<1>4. ReservedForPendingBuy'
  BY <1>1 DEF Inv, TypeOK, ReservedForPendingBuy, Attempts, Pending
<1>5. BooksMatchBand' /\ BandAccounts'
  BY DEF Inv, BooksMatchBand, BandAccounts
<1>6. OneEntryPerZone'
  BY <1>1 DEF Inv, TypeOK, OneEntryPerZone, Attempts
<1>7. OneLiveExecution' /\ FeeIsFunded' /\ ClosedIsEmpty'
  BY <1>1 DEF Inv, TypeOK, OneLiveExecution, FeeIsFunded, ClosedIsEmpty, Attempts
<1>8. QED
  BY <1>2, <1>3, <1>4, <1>5, <1>6, <1>7 DEF Inv

\* A report leaves an attempt.
LEMMA ReportedRow ==
    ASSUME NEW t \in Attempts, NEW r \in {"filled", "failed"}, NEW m \in Nat, NEW f \in Nat
    PROVE  [t EXCEPT !.result = r, !.moved = m, !.fee = f] \in Attempts
  BY DEF Attempts

\* Saving a report changes the attempt only.
LEMMA ReportInv ==
    ASSUME Inv, NEW b \in Bands, NEW r \in {"filled", "failed"}, NEW m \in Nat, NEW f \in Nat,
           Report(b, r, m, f), wallet' \in Int
    PROVE  Inv'
<1>1. /\ b \in Busy /\ attempt[b] \in Attempts /\ f <= attempt[b].estimate
      /\ UNCHANGED <<portfolio, funded, band, bot, books, executions, reservation, lot, topUps>>
  BY DEF Inv, TypeOK, Report, accounts
<1>2. attempt'[b] = [attempt[b] EXCEPT !.result = r, !.moved = m, !.fee = f]
  BY Zenon DEF Inv, TypeOK, Report
<1>3. \A c \in Bands : c # b => attempt'[c] = attempt[c]
  BY Zenon DEF Inv, TypeOK, Report
<1>4. /\ attempt'[b] \in Attempts
      /\ attempt'[b].exec = attempt[b].exec /\ attempt'[b].side = attempt[b].side
      /\ attempt'[b].quote = attempt[b].quote /\ attempt'[b].zone = attempt[b].zone
      /\ attempt'[b].estimate = attempt[b].estimate /\ attempt'[b].fee = f
  <2>1. [attempt[b] EXCEPT !.result = r, !.moved = m, !.fee = f] \in Attempts
    BY <1>1, ReportedRow, Zenon
  <2>2. attempt'[b] \in Attempts
    BY <1>2, <2>1, Zenon
  <2>3. QED
    BY <1>1, <1>2, <2>2 DEF Attempts
<1>5. attempt' \in [Bands -> Attempts \cup {NoAttempt}]
  <2>1. attempt' = [c \in Bands |-> IF c = b THEN attempt'[b] ELSE attempt[c]]
    BY Zenon DEF Inv, TypeOK, Report
  <2>2. QED
    BY <1>4, <2>1, Zenon DEF Inv, TypeOK
<1>6. \A c \in Bands : /\ c \in Busy' <=> c \in Busy
                       /\ c \in Buying' <=> c \in Buying
                       /\ attempt'[c].exec = attempt[c].exec /\ attempt'[c].quote = attempt[c].quote
                       /\ attempt'[c].zone = attempt[c].zone
                       /\ attempt'[c].estimate = attempt[c].estimate
  <2>1. attempt'[b] # NoAttempt /\ attempt[b] # NoAttempt
    BY <1>1, <1>4, NoAttemptAssumption
  <2> TAKE c \in Bands
  <2>2. CASE c = b
    BY <1>4, <2>1, <2>2
  <2>3. CASE c # b
    BY <1>3, <2>3
  <2>4. QED
    BY <2>2, <2>3
<1>7. TypeOK'
  BY <1>1, <1>5 DEF Inv, TypeOK
<1>8. Linked'
  BY <1>1, <1>3, <1>4, <1>6 DEF Inv, Linked
<1>9. /\ ReservedForPendingBuy' /\ BooksMatchBand' /\ BandAccounts' /\ OneEntryPerZone'
      /\ OneLiveExecution' /\ FeeIsFunded' /\ ClosedIsEmpty'
  <2>1. UNCHANGED <<portfolio, band, books, reservation, lot>>
    BY <1>1
  <2>2. QED
    BY <1>6, <2>1, SameExecutions
<1>10. QED
  BY <1>7, <1>8, <1>9 DEF Inv

\* Nothing of the proceeds is lost by the split, and without a fee the principal
\* and the loss make up the released cost.
LEMMA SplitParts ==
    ASSUME NEW net \in Nat, NEW released \in Nat, NEW fee \in Nat
    PROVE  LET s == Split(net, released, fee) IN
           /\ s.principal \in Nat /\ s.feeAllowance \in Nat /\ s.profit \in Nat /\ s.loss \in Nat
           /\ s.principal + s.feeAllowance + s.profit = net
           /\ s.principal + s.loss = released
           /\ fee = 0 => s.feeAllowance = 0
  BY DEF Split, Monus

\* Settling a sell: released cost leaves, principal returns, profit is swept.
LEMMA CommitSellInv ==
    ASSUME Inv, NEW b \in Bands, b \in Busy, NEW released \in Released(b), CommitSell(b, released)
    PROVE  Inv'
<1> DEFINE t == attempt[b]
           s == Split(t.moved, released, t.fee)
<1>1. /\ b \in Busy /\ t.side = "sell" /\ t.lot \in LotsOf(b)
      /\ band' = [band EXCEPT ![b] = AfterSell(b, released, s)]
      /\ lot' = [lot EXCEPT ![t.lot].cost = @ - released]
      /\ books' = [books EXCEPT ![b] = books[b] + t.moved - s.profit]
      /\ portfolio' = Charged(t.fee, s.profit)
      /\ attempt' = [attempt EXCEPT ![b] = NoAttempt]
      /\ UNCHANGED <<funded, bot, executions, reservation, wallet, topUps>>
  BY DEF CommitSell, Settled, BooksAfterSell
<1>2. t \in Attempts /\ t.moved \in Nat /\ t.fee \in Nat /\ t.lot \in Execs /\ t.fee <= t.estimate
  BY <1>1 DEF Inv, TypeOK, Attempts, Linked
<1>3. /\ released \in Nat /\ released <= lot[t.lot].cost /\ released <= band[b].deployed
      /\ band[b] \in BandRows /\ band[b].deployed \in Nat
  BY <1>1, <1>2 DEF Inv, TypeOK, BandRows, Released, CommitSell
<1>4. /\ s.principal \in Nat /\ s.feeAllowance \in Nat /\ s.profit \in Nat /\ s.loss \in Nat
      /\ s.principal + s.feeAllowance + s.profit = t.moved
      /\ s.principal + s.loss = released
      /\ t.fee = 0 => s.feeAllowance = 0
  BY <1>2, <1>3, SplitParts
<1> HIDE DEF s
<1>5. /\ AfterSell(b, released, s) \in BandRows
      /\ AfterSell(b, released, s).available = band[b].available + s.principal + s.feeAllowance
      /\ AfterSell(b, released, s).deployed = band[b].deployed - released
      /\ AfterSell(b, released, s).loss = band[b].loss + s.loss
      /\ AfterSell(b, released, s).asset = band[b].asset
      /\ AfterSell(b, released, s).status = band[b].status
      /\ AfterSell(b, released, s).reserved = band[b].reserved
      /\ AfterSell(b, released, s).allocated = band[b].allocated
  <2>1. /\ band[b].available + s.principal + s.feeAllowance \in Nat
        /\ band[b].deployed - released \in Nat
        /\ band[b].loss + s.loss \in Nat
    BY <1>3, <1>4 DEF BandRows
  <2>2. AfterSell(b, released, s) \in BandRows
    BY <1>3, <2>1, RowAfterSell, Zenon DEF AfterSell
  <2>3. QED
    BY <1>3, <2>2 DEF AfterSell, BandRows
<1>6. /\ band' \in [Bands -> BandRows] /\ band'[b] = AfterSell(b, released, s)
      /\ \A c \in Bands : c # b => band'[c] = band[c]
  BY <1>1, <1>5, Zenon DEF Inv, TypeOK
<1>7. /\ lot' \in [Execs -> [band : Bands \cup {NoBand}, zone : Zones, cost : Nat]]
      /\ \A e \in Execs : /\ lot'[e].band = lot[e].band /\ lot'[e].zone = lot[e].zone
                          /\ lot'[e].cost <= lot[e].cost
  BY <1>1, <1>2, <1>3 DEF Inv, TypeOK
<1>8. \A c \in Bands : /\ c \in Busy' <=> (c \in Busy /\ c # b)
                       /\ c \in Buying' <=> c \in Buying
                       /\ c # b => attempt'[c] = attempt[c]
  BY <1>1 DEF Inv, TypeOK
<1>9. OpenLots' \subseteq OpenLots
  BY <1>7 DEF Inv, TypeOK
<1> HIDE DEF t, Busy, Buying, OpenLots
<1>10. TypeOK'
  <2>1. portfolio' \in [free : Nat, fees : Nat, auto : BOOLEAN]
    BY <1>1, <1>2, <1>4, ModeAssumption DEF Inv, TypeOK, Charged, Monus
  <2>2. attempt' \in [Bands -> Attempts \cup {NoAttempt}]
    BY <1>1 DEF Inv, TypeOK
  <2>3. books' \in [Bands -> Nat]
    BY <1>1, <1>2, <1>4 DEF Inv, TypeOK
  <2>4. QED
    BY <1>1, <1>6, <1>7, <2>1, <2>2, <2>3 DEF Inv, TypeOK
<1>11. Linked'
  BY <1>1, <1>5, <1>6, <1>7, <1>8, <1>9 DEF Inv, Linked, Busy, OpenLots
<1>12. ReservedForPendingBuy'
  BY <1>1, <1>4, <1>5, <1>6, <1>8 DEF Inv, TypeOK, BandRows, ReservedForPendingBuy, Buying, Busy
<1>13. BooksMatchBand'
  BY <1>1, <1>4, <1>5, <1>6 DEF Inv, TypeOK, BandRows, BooksMatchBand
<1>14. BandAccounts'
  <2>1. /\ band[b].available \in Nat /\ band[b].loss \in Nat /\ band[b].allocated \in Nat
        /\ band'[b].available = band[b].available + s.principal + s.feeAllowance
        /\ band'[b].deployed = band[b].deployed - released
        /\ band'[b].loss = band[b].loss + s.loss /\ band'[b].allocated = band[b].allocated
    BY <1>3, <1>5, <1>6 DEF BandRows
  <2>2. LET accounted == band[b].available + band[b].deployed + band[b].loss
            left == band'[b].available + band'[b].deployed + band'[b].loss
        IN left = accounted + s.feeAllowance
    BY <1>3, <1>4, <2>1
  <2>3. ~Live => s.feeAllowance = 0
    <3>1. t.estimate \in FeeEstimates
      BY <1>2 DEF Attempts
    <3>2. ~Live => t.fee = 0
      BY <1>2, <3>1, FeesAssumption
    <3>3. QED
      BY <1>4, <3>2
  <2>4. BandAccounts
    BY DEF Inv
  <2>5. SUFFICES ASSUME NEW c \in Bands
                 PROVE  LET accounted == band'[c].available + band'[c].deployed + band'[c].loss IN
                        /\ accounted >= band'[c].allocated
                        /\ ~Live => accounted = band'[c].allocated
    BY DEF BandAccounts
  <2>6. CASE c = b
    <3>1. LET accounted == band[b].available + band[b].deployed + band[b].loss IN
          /\ accounted \in Nat /\ accounted >= band[b].allocated
          /\ ~Live => accounted = band[b].allocated
      BY <1>3, <2>1, <2>4 DEF BandAccounts
    <3>2. QED
      BY <1>4, <2>1, <2>2, <2>3, <2>6, <3>1
  <2>7. CASE c # b
    BY <1>6, <2>4, <2>7 DEF BandAccounts
  <2>8. QED
    BY <2>6, <2>7
<1>15. OneEntryPerZone'
  BY <1>1, <1>5, <1>6, <1>7, <1>8, <1>9 DEF Inv, OneEntryPerZone, Linked, Buying, Busy, OpenLots
<1>16. OneLiveExecution' /\ FeeIsFunded'
  BY <1>1, <1>8 DEF Inv, OneLiveExecution, FeeIsFunded, Busy
<1>17. ClosedIsEmpty'
  BY <1>1, <1>5, <1>6, <1>7, <1>8, <1>9 DEF Inv, ClosedIsEmpty, Linked, Busy, OpenLots
<1>18. QED
  BY <1>10, <1>11, <1>12, <1>13, <1>14, <1>15, <1>16, <1>17 DEF Inv

\* Settling a failure releases the reservation of a buy.
LEMMA CommitFailedInv ==
    ASSUME Inv, NEW b \in Bands, CommitFailed(b)
    PROVE  Inv'
<1> DEFINE t == attempt[b]
<1>1. /\ b \in Busy
      /\ portfolio' = Charged(t.fee, 0)
      /\ attempt' = [attempt EXCEPT ![b] = NoAttempt]
      /\ UNCHANGED <<funded, bot, books, executions, lot, wallet, topUps>>
  BY DEF CommitFailed, Settled
<1>2. t \in Attempts /\ t.exec \in Execs /\ t.quote \in Nat /\ t.fee \in Nat /\ band[b] \in BandRows
  BY <1>1 DEF Inv, TypeOK, Attempts
<1>3. /\ b \in Buying => /\ band' = [band EXCEPT ![b].reserved = @ - t.quote]
                         /\ reservation' = [reservation EXCEPT ![t.exec] = "RELEASED"]
      /\ b \notin Buying => UNCHANGED <<band, reservation>>
  BY <1>1 DEF CommitFailed, Release
<1>4. b \in Buying => band[b].reserved = t.quote
  BY DEF Inv, ReservedForPendingBuy
<1>5. /\ band' \in [Bands -> BandRows] /\ reservation' \in [Execs -> ReservationStatuses]
      /\ \A c \in Bands : /\ band'[c].asset = band[c].asset /\ band'[c].status = band[c].status
                          /\ band'[c].allocated = band[c].allocated
                          /\ band'[c].available = band[c].available
                          /\ band'[c].deployed = band[c].deployed /\ band'[c].loss = band[c].loss
                          /\ c # b => band'[c].reserved = band[c].reserved
      /\ band'[b].reserved = 0
  <2>1. CASE b \in Buying
    <3>1. band' = [band EXCEPT ![b] = [band[b] EXCEPT !.reserved = band[b].reserved - t.quote]]
      BY <1>3, <2>1, Zenon DEF Inv, TypeOK
    <3>2. band[b].reserved - t.quote = 0
      BY <1>2, <1>4, <2>1
    <3>3. [band[b] EXCEPT !.reserved = 0] \in BandRows
      BY <1>2 DEF BandRows
    <3>4. /\ band' \in [Bands -> BandRows] /\ band'[b] = [band[b] EXCEPT !.reserved = 0]
          /\ \A c \in Bands : c # b => band'[c] = band[c]
      BY <3>1, <3>2, <3>3, Zenon DEF Inv, TypeOK
    <3>5. reservation' \in [Execs -> ReservationStatuses]
      BY <1>3, <2>1 DEF Inv, TypeOK, ReservationStatuses
    <3>6. QED
      BY <1>2, <3>4, <3>5 DEF BandRows
  <2>2. CASE b \notin Buying
    BY <1>3, <2>2 DEF Inv, TypeOK, ReservedForPendingBuy
  <2>3. QED
    BY <2>1, <2>2
<1>6. \A c \in Bands : /\ c \in Busy' <=> (c \in Busy /\ c # b)
                       /\ c \in Buying' <=> (c \in Buying /\ c # b)
                       /\ c # b => attempt'[c] = attempt[c]
  BY <1>1 DEF Inv, TypeOK
<1> HIDE DEF t
<1>7. TypeOK'
  <2>1. portfolio' \in [free : Nat, fees : Nat, auto : BOOLEAN]
    BY <1>1, <1>2, ModeAssumption DEF Inv, TypeOK, Charged, Monus
  <2>2. attempt' \in [Bands -> Attempts \cup {NoAttempt}]
    BY <1>1 DEF Inv, TypeOK
  <2>3. QED
    BY <1>1, <1>5, <2>1, <2>2 DEF Inv, TypeOK
<1>8. Linked'
  BY <1>1, <1>5, <1>6 DEF Inv, Linked
<1>9. ReservedForPendingBuy'
  <2>1. \A c \in Bands : /\ band'[c].reserved = IF c \in Buying' THEN attempt'[c].quote ELSE 0
                         /\ band'[c].reserved <= band'[c].available
    <3> TAKE c \in Bands
    <3>1. band'[c].available \in Nat
      BY <1>5 DEF BandRows
    <3>2. CASE c = b
      BY <1>5, <1>6, <3>1, <3>2
    <3>3. CASE c # b
      BY <1>5, <1>6, <3>3 DEF Inv, ReservedForPendingBuy
    <3>4. QED
      BY <3>2, <3>3
  <2>2. \A e \in Execs : reservation'[e] \in Pending <=> \E c \in Buying' : attempt'[c].exec = e
    <3>1. CASE b \in Buying
      <4> TAKE e \in Execs
      <4>1. reservation'[e] = IF e = t.exec THEN "RELEASED" ELSE reservation[e]
        BY <1>3, <3>1 DEF Inv, TypeOK
      <4>2. \A c \in Buying : attempt[c].exec = t.exec => c = b
        BY <3>1 DEF Inv, Linked, t
      <4>3. CASE e = t.exec
        BY <1>6, <4>1, <4>2, <4>3 DEF Pending
      <4>4. CASE e # t.exec
        BY <1>6, <4>1, <4>4 DEF Inv, ReservedForPendingBuy, t
      <4>5. QED
        BY <4>3, <4>4
    <3>2. CASE b \notin Buying
      BY <1>3, <1>6, <3>2 DEF Inv, ReservedForPendingBuy
    <3>3. QED
      BY <3>1, <3>2
  <2>3. QED
    BY <2>1, <2>2 DEF ReservedForPendingBuy
<1>10. BooksMatchBand' /\ BandAccounts'
  BY <1>1, <1>5 DEF Inv, BooksMatchBand, BandAccounts
<1>11. OneEntryPerZone'
  BY <1>1, <1>5, <1>6 DEF Inv, OneEntryPerZone, Linked
<1>12. OneLiveExecution' /\ FeeIsFunded'
  BY <1>1, <1>6 DEF Inv, OneLiveExecution, FeeIsFunded
<1>13. ClosedIsEmpty'
  BY <1>1, <1>5, <1>6 DEF Inv, ClosedIsEmpty
<1>14. QED
  BY <1>7, <1>8, <1>9, <1>10, <1>11, <1>12, <1>13 DEF Inv

\* The operator halts or resumes a bot.
LEMMA HaltResumeInv ==
    ASSUME Inv, NEW b \in Bands, \/ \E s \in Halts : Halt(b, s)
                                \/ Resume(b)
    PROVE  Inv'
<1>1. UNCHANGED <<portfolio, funded, band, books, attempt, executions, reservation, lot, wallet, topUps>>
  BY DEF Halt, Resume, accounts
<1>2. bot' \in [Bands -> BotStatuses]
  BY InputsAssumption DEF Inv, TypeOK, Halt, Resume, BotStatuses
<1>3. TypeOK' /\ Linked'
  BY <1>1, <1>2 DEF Inv, TypeOK, Linked
<1>4. QED
  BY <1>1, <1>3, SameExecutions DEF Inv

\* Closing an empty paper band returns its cash.
LEMMA ArchiveInv ==
    ASSUME Inv, NEW b \in Bands, Archive(b)
    PROVE  Inv'
<1> DEFINE cash == band[b].available
<1>1. /\ b \notin Busy /\ b \in OpenBands /\ LotsOf(b) = {} /\ cash <= band[b].allocated
      /\ portfolio' = [portfolio EXCEPT !.free = @ + cash]
      /\ funded' = [funded EXCEPT ![band[b].asset] = @ - cash]
      /\ books' = [books EXCEPT ![b] = 0]
      /\ UNCHANGED <<bot, attempt, executions, reservation, lot, wallet, topUps>>
  BY DEF Archive, MayArchive, ReturnCash
<1>2. band[b] \in BandRows /\ cash \in Nat /\ band[b].allocated - cash \in Nat
  BY <1>1 DEF Inv, TypeOK, BandRows
<1>3. /\ band'[b] = [band[b] EXCEPT !.status = "CLOSED", !.available = 0, !.allocated = band[b].allocated - cash]
      /\ band' \in [Bands -> BandRows]
      /\ \A c \in Bands : c # b => band'[c] = band[c]
  <2>1. [band[b] EXCEPT !.status = "CLOSED", !.available = 0, !.allocated = band[b].allocated - cash] \in BandRows
    BY <1>2, RowArchived, Zenon
  <2>2. band' = [band EXCEPT ![b] = [band[b] EXCEPT !.status = "CLOSED", !.available = 0,
                                                    !.allocated = band[b].allocated - cash]]
    BY Zenon DEF Archive, ReturnCash, Inv, TypeOK
  <2>3. QED
    BY <2>1, <2>2, Zenon DEF Inv, TypeOK
<1>4. /\ band'[b].status = "CLOSED" /\ band'[b].available = 0
      /\ band'[b].allocated = band[b].allocated - cash /\ band'[b].asset = band[b].asset
      /\ band'[b].reserved = band[b].reserved /\ band'[b].deployed = band[b].deployed
      /\ band'[b].loss = band[b].loss
  BY <1>2, <1>3 DEF BandRows
<1>5. band[b].reserved = 0
  BY <1>1 DEF Inv, ReservedForPendingBuy
<1>6. TypeOK'
  <2>1. portfolio' \in [free : Nat, fees : Nat, auto : BOOLEAN]
    BY <1>1, <1>2 DEF Inv, TypeOK
  <2>2. funded' \in [Assets -> Int]
    <3>1. CASE band[b].asset \in Assets
      BY <1>1, <1>2, <3>1 DEF Inv, TypeOK
    <3>2. CASE band[b].asset \notin Assets
      <4>1. funded' = funded
        BY <1>1, <3>2, Zenon DEF Inv, TypeOK
      <4>2. QED
        BY <4>1 DEF Inv, TypeOK
    <3>3. QED
      BY <3>1, <3>2
  <2>3. books' \in [Bands -> Nat]
    BY <1>1 DEF Inv, TypeOK
  <2>4. QED
    BY <1>1, <1>3, <2>1, <2>2, <2>3 DEF Inv, TypeOK
<1>7. Linked'
  BY <1>1, <1>3, <1>4 DEF Inv, Linked
<1>8. ReservedForPendingBuy'
  <2>1. \A c \in Bands : /\ band'[c].reserved = IF c \in Buying' THEN attempt'[c].quote ELSE 0
                         /\ band'[c].reserved <= band'[c].available
    <3> TAKE c \in Bands
    <3>1. CASE c = b
      BY <1>1, <1>4, <1>5, <3>1
    <3>2. CASE c # b
      BY <1>1, <1>3, <3>2 DEF Inv, ReservedForPendingBuy
    <3>3. QED
      BY <3>1, <3>2
  <2>2. \A e \in Execs : reservation'[e] \in Pending <=> \E c \in Buying' : attempt'[c].exec = e
    BY <1>1 DEF Inv, ReservedForPendingBuy
  <2>3. QED
    BY <2>1, <2>2 DEF ReservedForPendingBuy
<1>9. BooksMatchBand'
  <2>1. \A c \in Bands : books'[c] = IF c = b THEN 0 ELSE books[c]
    BY <1>1 DEF Inv, TypeOK
  <2>2. QED
    BY <1>3, <1>4, <2>1 DEF Inv, BooksMatchBand
<1>10. BandAccounts'
  <2>1. LET accounted == band[b].available + band[b].deployed + band[b].loss
            left == band'[b].available + band'[b].deployed + band'[b].loss
        IN left = accounted - cash
    BY <1>2, <1>4 DEF BandRows
  <2>2. band[b].available + band[b].deployed + band[b].loss \in Nat /\ band[b].allocated \in Nat
    BY <1>2 DEF BandRows
  <2>3. BandAccounts
    BY DEF Inv
  <2>4. SUFFICES ASSUME NEW c \in Bands
                 PROVE  LET accounted == band'[c].available + band'[c].deployed + band'[c].loss IN
                        /\ accounted >= band'[c].allocated
                        /\ ~Live => accounted = band'[c].allocated
    BY DEF BandAccounts
  <2>5. CASE c = b
    BY <1>2, <1>4, <2>1, <2>2, <2>3, <2>5 DEF BandAccounts
  <2>6. CASE c # b
    BY <1>3, <2>3, <2>6 DEF BandAccounts
  <2>7. QED
    BY <2>5, <2>6
<1>11. OneEntryPerZone'
  BY <1>1, <1>3, <1>4 DEF Inv, OneEntryPerZone, Linked
<1>12. OneLiveExecution'
  BY <1>1 DEF Inv, OneLiveExecution
<1>13. FeeIsFunded'
  BY <1>1 DEF Inv, TypeOK, FeeIsFunded
<1>14. ClosedIsEmpty'
  <2>1. attempt[b] = NoAttempt /\ attempt' = attempt /\ lot' = lot /\ LotsOf(b) = {}
    BY <1>1
  <2>2. \A c \in Bands : c # b => band'[c] = band[c]
    BY <1>3
  <2>3. ClosedIsEmpty
    BY DEF Inv
  <2>4. QED
    BY <1>4, <2>1, <2>2, <2>3 DEF ClosedIsEmpty
<1>15. QED
  BY <1>6, <1>7, <1>8, <1>9, <1>10, <1>11, <1>12, <1>13, <1>14 DEF Inv

\* Funding the fee envelope.
LEMMA TopUpFeesInv ==
    ASSUME Inv, TopUpFees
    PROVE  Inv'
<1>1. /\ portfolio' = [portfolio EXCEPT !.fees = @ + 1]
      /\ topUps' = topUps + 1 /\ topUps < MaxTopUps
      /\ UNCHANGED <<funded, band, bot, books, attempt, executions, reservation, lot, wallet>>
  BY DEF TopUpFees
<1>2. TypeOK'
  BY <1>1, AmountsAssumption DEF Inv, TypeOK
<1>3. Linked' /\ ReservedForPendingBuy' /\ BooksMatchBand' /\ BandAccounts'
  BY <1>1 DEF Inv, Linked, ReservedForPendingBuy, BooksMatchBand, BandAccounts
<1>4. OneEntryPerZone' /\ OneLiveExecution' /\ ClosedIsEmpty'
  BY <1>1 DEF Inv, OneEntryPerZone, OneLiveExecution, ClosedIsEmpty
<1>5. FeeIsFunded'
  <2>1. /\ portfolio.fees \in Nat /\ portfolio'.fees = portfolio.fees + 1
        /\ portfolio'.auto = portfolio.auto
    BY <1>1 DEF Inv, TypeOK
  <2>2. ASSUME NEW c \in Busy PROVE attempt[c].estimate \in Nat
    BY AmountsAssumption DEF Inv, TypeOK, Attempts
  <2>3. QED
    BY <1>1, <2>1, <2>2 DEF Inv, FeeIsFunded
<1>6. QED
  BY <1>2, <1>3, <1>4, <1>5 DEF Inv

\* Starting a staged live portfolio.
LEMMA ActivateInv ==
    ASSUME Inv, Activate
    PROVE  Inv'
<1>1. /\ portfolio' = [portfolio EXCEPT !.auto = TRUE]
      /\ UNCHANGED <<funded, band, books, attempt, executions, reservation, lot, wallet, topUps>>
  BY DEF Activate
<1>2. bot' \in [Bands -> BotStatuses]
  BY DEF Activate, Inv, TypeOK, BotStatuses
<1>3. TypeOK'
  BY <1>1, <1>2 DEF Inv, TypeOK
<1>4. Linked' /\ ReservedForPendingBuy' /\ BooksMatchBand' /\ BandAccounts'
  BY <1>1 DEF Inv, Linked, ReservedForPendingBuy, BooksMatchBand, BandAccounts
<1>5. OneEntryPerZone' /\ OneLiveExecution' /\ ClosedIsEmpty'
  BY <1>1 DEF Inv, OneEntryPerZone, OneLiveExecution, ClosedIsEmpty
<1>6. FeeIsFunded'
  BY <1>1 DEF Inv, TypeOK, FeeIsFunded
<1>7. QED
  BY <1>3, <1>4, <1>5, <1>6 DEF Inv

\* Every step of an execution keeps the invariant.
LEMMA ExecuteInv ==
    ASSUME Inv, NEW b \in Bands, Execute(b)
    PROVE  Inv'
<1>1. CASE \E e \in Execs, q \in Quotes, z \in Zones, f \in FeeEstimates : PrepareBuy(b, e, q, z, f)
  BY <1>1, PrepareBuyInv
<1>2. CASE \E e, l \in Execs, f \in FeeEstimates : PrepareSell(b, e, l, f)
  BY <1>2, PrepareSellInv
<1>3. CASE MarkUnknown(b)
  BY <1>3, MarkUnknownInv
<1>4. ASSUME NEW f \in 0..attempt[b].estimate, NEW m \in 1..attempt[b].quote, b \in Busy, ReportBuy(b, m, f)
      PROVE  Inv'
  <2>1. m \in Nat /\ f \in Nat /\ wallet' \in Int
    BY <1>4, AmountsAssumption DEF Inv, TypeOK, Attempts, ReportBuy
  <2>2. Report(b, "filled", m, f)
    BY <1>4 DEF ReportBuy
  <2>3. QED
    BY <2>1, <2>2, ReportInv
<1>5. ASSUME NEW f \in 0..attempt[b].estimate, NEW m \in 1..(lot[attempt[b].lot].cost + MaxGain),
             b \in Busy, ReportSell(b, m, f)
      PROVE  Inv'
  <2>1. m \in Nat /\ f \in Nat /\ wallet' \in Int
    BY <1>5, AmountsAssumption DEF Inv, TypeOK, Attempts, ReportSell
  <2>2. Report(b, "filled", m, f)
    BY <1>5 DEF ReportSell
  <2>3. QED
    BY <2>1, <2>2, ReportInv
<1>6. ASSUME NEW f \in 0..attempt[b].estimate, b \in Busy, ReportFailure(b, f)
      PROVE  Inv'
  <2>1. f \in Nat /\ wallet' \in Int
    BY <1>6, AmountsAssumption DEF Inv, TypeOK, Attempts, ReportFailure
  <2>2. Report(b, "failed", 0, f)
    BY <1>6 DEF ReportFailure
  <2>3. QED
    BY <2>1, <2>2, ReportInv
<1>7. CASE CommitBuy(b)
  BY <1>7, CommitBuyInv
<1>8. CASE b \in Busy /\ \E r \in Released(b) : CommitSell(b, r)
  BY <1>8, CommitSellInv
<1>9. CASE CommitFailed(b)
  BY <1>9, CommitFailedInv
<1> HIDE DEF Busy, Buying
<1>10. QED
  BY <1>1, <1>2, <1>3, <1>4, <1>5, <1>6, <1>7, <1>8, <1>9 DEF Execute

\* Every step keeps the invariant.
LEMMA NextInv == Inv /\ [Next]_vars => Inv'
<1> SUFFICES ASSUME Inv, [Next]_vars PROVE Inv'
  OBVIOUS
<1>1. ASSUME NEW b \in Bands, Manage(b) PROVE Inv'
  BY <1>1, SetBandInv, CreateBandInv DEF Manage, Park, Reactivate
<1>2. ASSUME NEW b \in Bands, Execute(b) PROVE Inv'
  BY <1>2, ExecuteInv
<1>3. ASSUME NEW b \in Bands, Operate(b) PROVE Inv'
  BY <1>3, HaltResumeInv, ArchiveInv DEF Operate
<1>4. CASE TopUpFees
  BY <1>4, TopUpFeesInv
<1>5. CASE Activate
  BY <1>5, ActivateInv
<1>6. CASE UNCHANGED vars
  <2>1. UNCHANGED <<portfolio, funded, band, bot, books, attempt, executions, reservation, lot, wallet, topUps>>
    BY <1>6 DEF vars, accounts
  <2>2. TypeOK' /\ Linked'
    BY <2>1 DEF Inv, TypeOK, Linked
  <2>3. QED
    BY <2>1, <2>2, SameExecutions DEF Inv
<1>7. QED
  BY <1>1, <1>2, <1>3, <1>4, <1>5, <1>6 DEF Next

-----------------------------------------------------------------------------
(* The sums.                                                               *)

HIDE DEF Busy, Buying, OpenBands, OpenLots, LotsOf, AssetOfLot

\* A row that was never created is empty; any other belongs to an asset.
RowsTell ==
    \A b \in Bands :
       /\ band[b].status = "none" => band[b] = NoRow
       /\ band[b].status # "none" => band[b].asset \in Assets
\* An execution that does not exist, or still buys, has no inventory yet.
LotsTell ==
    /\ \A e \in Execs \ executions : lot[e].cost = 0
    /\ \A b \in Buying : lot[attempt[b].exec].cost = 0

\* The cash a band has coming: what it holds, and what an unsettled swap earned
\* or paid.  Summed over all bands with the pool it is the wallet.
Due(b) == band[b].available + Earned(b) - Paid(b)
Dues == [b \in Bands |-> Due(b)]
DuesMatchWallet == portfolio.free + SumFunctionOnSet(Dues, Bands) = wallet

\* What band b counts for the funding of asset a.
Share(a, b) == IF band[b].asset = a THEN band[b].allocated ELSE 0
Shares(a) == [b \in Bands |-> Share(a, b)]
SharesMatchFunding == \A a \in Assets : funded[a] = SumFunctionOnSet(Shares(a), Bands)

\* What the lot of execution e costs, if it is one of band b.
CostIn(b, e) == IF lot[e].band = b THEN lot[e].cost ELSE 0
CostsIn(b) == [e \in Execs |-> CostIn(b, e)]
CostsMatchDeployed == \A b \in Bands : band[b].deployed = SumFunctionOnSet(CostsIn(b), Execs)

\* All of these are integers, so that their sums are.
AmountsOK ==
    /\ wallet \in Int /\ portfolio.free \in Int /\ \A a \in Assets : funded[a] \in Int
    /\ \A b \in Bands : /\ band[b].available \in Int /\ band[b].allocated \in Int
                        /\ band[b].deployed \in Int
                        /\ Earned(b) \in Int /\ Paid(b) \in Int /\ Due(b) \in Int
    /\ \A a : \A b \in Bands : Share(a, b) \in Int
    /\ \A b : \A e \in Execs : CostIn(b, e) \in Int

\* Typed rows hold integers, in this state and the next.
LEMMA Amounts == TypeOK => AmountsOK
  <1> SUFFICES ASSUME TypeOK PROVE AmountsOK
    OBVIOUS
  <1>1. wallet \in Int /\ portfolio.free \in Int /\ \A a \in Assets : funded[a] \in Int
    BY DEF TypeOK
  <1>2. \A b \in Bands : band[b].available \in Nat /\ band[b].allocated \in Nat /\ band[b].deployed \in Nat
    BY DEF TypeOK, BandRows
  <1>3. \A b \in Bands : Earned(b) \in Int /\ Paid(b) \in Int
    BY DEF TypeOK, Earned, Paid, Busy, Buying, Attempts
  <1>4. \A b \in Bands : Due(b) \in Int
    BY <1>2, <1>3 DEF Due
  <1>5. \A b : \A e \in Execs : CostIn(b, e) \in Int
    BY DEF TypeOK, CostIn
  <1> QED
    BY <1>1, <1>2, <1>3, <1>4, <1>5 DEF AmountsOK, Share

\* The same of the next state.
LEMMA AmountsNext == TypeOK' => AmountsOK'
  BY Amounts, PTL

\* A step that changes what one band has due, and the pool and the wallet by as
\* much, keeps the wallet covered exactly.
LEMMA OneDueChanges ==
    ASSUME TypeOK, TypeOK', DuesMatchWallet, NEW b \in Bands,
           \A c \in Bands \ {b} : Due(c)' = Due(c),
           portfolio'.free + Due(b)' - wallet' = portfolio.free + Due(b) - wallet
    PROVE  DuesMatchWallet'
  <1>1. AmountsOK /\ AmountsOK'
    BY Amounts, AmountsNext
  <1>2. \A c \in Bands : /\ Due(c) \in Int /\ Due(c)' \in Int
                         /\ Dues[c] = Due(c) /\ Dues'[c] = Due(c)'
    BY <1>1 DEF Dues, AmountsOK
  <1>3. SumFunctionOnSet(Dues', Bands) = SumFunctionOnSet(Dues, Bands) - Dues[b] + Dues'[b]
    BY <1>2, SumOfChange, RowsAssumption
  <1>4. SumFunctionOnSet(Dues, Bands) \in Int
    BY <1>2, SumIsInt, RowsAssumption
  <1>5. /\ portfolio.free \in Int /\ portfolio'.free \in Int /\ wallet \in Int /\ wallet' \in Int
    BY <1>1 DEF AmountsOK
  <1>6. portfolio'.free + SumFunctionOnSet(Dues', Bands) = wallet'
    <2>1. Dues[b] \in Int /\ Dues'[b] \in Int /\ Dues[b] = Due(b) /\ Dues'[b] = Due(b)'
      BY <1>2
    <2> QED
      BY <1>3, <1>4, <1>5, <2>1 DEF DuesMatchWallet
  <1> QED
    BY <1>6 DEF DuesMatchWallet

\* Funding that nobody touches stays the sum of its bands.
LEMMA SharesStay ==
    ASSUME TypeOK, TypeOK', SharesMatchFunding, funded' = funded,
           \A a \in Assets : \A c \in Bands : Share(a, c)' = Share(a, c)
    PROVE  SharesMatchFunding'
  <1> SUFFICES ASSUME NEW a \in Assets
               PROVE  funded'[a] = SumFunctionOnSet(Shares(a)', Bands)
    BY DEF SharesMatchFunding
  <1>1. \A c \in Bands : Shares(a)[c] = Shares(a)'[c]
    BY DEF Shares
  <1>2. SumFunctionOnSet(Shares(a), Bands) = SumFunctionOnSet(Shares(a)', Bands)
    BY <1>1, SumsAgree, RowsAssumption
  <1> QED
    BY <1>2 DEF SharesMatchFunding

\* Funding that changes with one band stays the sum of its bands.
LEMMA OneShareChanges ==
    ASSUME TypeOK, TypeOK', SharesMatchFunding, NEW b \in Bands,
           \A a \in Assets : /\ \A c \in Bands \ {b} : Share(a, c)' = Share(a, c)
                             /\ funded'[a] - Share(a, b)' = funded[a] - Share(a, b)
    PROVE  SharesMatchFunding'
  <1> SUFFICES ASSUME NEW a \in Assets
               PROVE  funded'[a] = SumFunctionOnSet(Shares(a)', Bands)
    BY DEF SharesMatchFunding
  <1>1. AmountsOK /\ AmountsOK'
    BY Amounts, AmountsNext
  <1>2. \A c \in Bands : /\ Share(a, c) \in Int /\ Share(a, c)' \in Int
                         /\ Shares(a)[c] = Share(a, c) /\ Shares(a)'[c] = Share(a, c)'
    BY <1>1 DEF Shares, AmountsOK
  <1>3. SumFunctionOnSet(Shares(a)', Bands)
            = SumFunctionOnSet(Shares(a), Bands) - Shares(a)[b] + Shares(a)'[b]
    BY <1>2, SumOfChange, RowsAssumption
  <1>4. SumFunctionOnSet(Shares(a), Bands) \in Int
    BY <1>2, SumIsInt, RowsAssumption
  <1>5. funded[a] = SumFunctionOnSet(Shares(a), Bands) /\ funded[a] \in Int /\ funded'[a] \in Int
    BY <1>1 DEF AmountsOK, SharesMatchFunding
  <1>6. /\ Share(a, b) \in Int /\ Share(a, b)' \in Int
        /\ Shares(a)[b] = Share(a, b) /\ Shares(a)'[b] = Share(a, b)'
    BY <1>2
  <1> QED
    BY <1>3, <1>4, <1>5, <1>6

\* Inventory that nobody touches stays the deployed cost.
LEMMA CostsStay ==
    ASSUME TypeOK, TypeOK', CostsMatchDeployed, lot' = lot,
           \A c \in Bands : band'[c].deployed = band[c].deployed
    PROVE  CostsMatchDeployed'
  <1> SUFFICES ASSUME NEW c \in Bands
               PROVE  band'[c].deployed = SumFunctionOnSet(CostsIn(c)', Execs)
    BY DEF CostsMatchDeployed
  <1>1. CostsIn(c)' = CostsIn(c)
    BY DEF CostsIn, CostIn
  <1> QED
    BY <1>1 DEF CostsMatchDeployed

\* A lot that changes with the deployed cost of its band keeps them equal.
LEMMA OneCostChanges ==
    ASSUME TypeOK, TypeOK', CostsMatchDeployed, NEW l \in Execs,
           \A c \in Bands : /\ \A e \in Execs \ {l} : CostIn(c, e)' = CostIn(c, e)
                            /\ band'[c].deployed - CostIn(c, l)' = band[c].deployed - CostIn(c, l)
    PROVE  CostsMatchDeployed'
  <1> SUFFICES ASSUME NEW c \in Bands
               PROVE  band'[c].deployed = SumFunctionOnSet(CostsIn(c)', Execs)
    BY DEF CostsMatchDeployed
  <1>1. AmountsOK /\ AmountsOK'
    BY Amounts, AmountsNext
  <1>2. \A e \in Execs : /\ CostIn(c, e) \in Int /\ CostIn(c, e)' \in Int
                         /\ CostsIn(c)[e] = CostIn(c, e) /\ CostsIn(c)'[e] = CostIn(c, e)'
    BY <1>1 DEF CostsIn, AmountsOK
  <1>3. SumFunctionOnSet(CostsIn(c)', Execs)
            = SumFunctionOnSet(CostsIn(c), Execs) - CostsIn(c)[l] + CostsIn(c)'[l]
    BY <1>2, SumOfChange, RowsAssumption
  <1>4. SumFunctionOnSet(CostsIn(c), Execs) \in Int
    BY <1>2, SumIsInt, RowsAssumption
  <1>5. /\ band[c].deployed = SumFunctionOnSet(CostsIn(c), Execs)
        /\ band[c].deployed \in Int /\ band'[c].deployed \in Int
    BY <1>1 DEF AmountsOK, CostsMatchDeployed
  <1>6. /\ CostIn(c, l) \in Int /\ CostIn(c, l)' \in Int
        /\ CostsIn(c)[l] = CostIn(c, l) /\ CostsIn(c)'[l] = CostIn(c, l)'
    BY <1>2
  <1> QED
    BY <1>3, <1>4, <1>5, <1>6

\* What the invariants say of the sums the code and its rules speak of.
LEMMA ClaimsFollow ==
    ASSUME TypeOK, RowsTell, ClosedIsEmpty, DuesMatchWallet
    PROVE  ClaimsMatchWallet
  <1> DEFINE cash == [b \in Bands |-> band[b].available]
             earned == [b \in Bands |-> Earned(b)]
             paid == [b \in Bands |-> Paid(b)]
             held == [b \in Bands |-> band[b].available + Earned(b)]
             inOpen == [b \in Bands |-> IF b \in OpenBands THEN cash[b] ELSE 0]
  <1>1. AmountsOK
    BY Amounts
  <1>2. \A b \in Bands : /\ cash[b] \in Int /\ earned[b] \in Int /\ paid[b] \in Int
                         /\ Dues[b] \in Int /\ held[b] = cash[b] + earned[b]
                         /\ held[b] = Dues[b] + paid[b] /\ held[b] \in Int
    BY <1>1 DEF AmountsOK, Dues, Due
  <1>3. \A b \in Bands : cash[b] = IF b \in OpenBands THEN cash[b] ELSE 0
    <2> SUFFICES ASSUME NEW b \in Bands, b \notin OpenBands PROVE band[b].available = 0
      OBVIOUS
    <2>1. band[b].status \in {"none", "CLOSED"}
      BY DEF TypeOK, BandRows, BandStatuses, OpenBands
    <2> QED
      BY <2>1 DEF RowsTell, ClosedIsEmpty, NoRow
  <1>4. IsFiniteSet(Bands) /\ OpenBands \subseteq Bands
    BY RowsAssumption DEF OpenBands
  <1> HIDE DEF cash, earned, paid, held
  <1>5. SumFunctionOnSet(cash, OpenBands) = SumFunctionOnSet(cash, Bands)
    BY <1>2, <1>3, <1>4, SumOfPart
  <1>6. /\ SumFunctionOnSet(held, Bands) = SumFunctionOnSet(cash, Bands) + SumFunctionOnSet(earned, Bands)
        /\ SumFunctionOnSet(held, Bands) = SumFunctionOnSet(Dues, Bands) + SumFunctionOnSet(paid, Bands)
    BY <1>2, <1>4, SumOfBoth
  <1>7. /\ SumFunctionOnSet(cash, Bands) \in Int /\ SumFunctionOnSet(earned, Bands) \in Int
        /\ SumFunctionOnSet(Dues, Bands) \in Int /\ SumFunctionOnSet(paid, Bands) \in Int
    BY <1>2, <1>4, SumIsInt
  <1>8. portfolio.free \in Int /\ wallet \in Int
    BY <1>1 DEF AmountsOK
  <1>9. portfolio.free + SumFunctionOnSet(Dues, Bands) = wallet
    BY DEF DuesMatchWallet
  <1>10. (portfolio.free + SumFunctionOnSet(cash, OpenBands)) + SumFunctionOnSet(earned, Bands)
            = wallet + SumFunctionOnSet(paid, Bands)
    BY <1>5, <1>6, <1>7, <1>8, <1>9
  <1>11. SumFunction(earned) = SumFunctionOnSet(earned, Bands) /\ SumFunction(paid) = SumFunctionOnSet(paid, Bands)
    BY DEF SumFunction, earned, paid
  <1> QED
    BY <1>10, <1>11 DEF ClaimsMatchWallet, Claims, cash, earned, paid

\* The sum over the bands of an asset is the sum of the shares of all bands.
LEMMA FundingFollows ==
    ASSUME TypeOK, SharesMatchFunding
    PROVE  FundingMatchesBands
  <1> SUFFICES ASSUME NEW a \in Assets
               PROVE  funded[a] = SumFunctionOnSet([b \in Bands |-> band[b].allocated], BandsOf(a))
    BY DEF FundingMatchesBands
  <1> DEFINE allocated == [b \in Bands |-> band[b].allocated]
  <1>1. \A b \in Bands : allocated[b] \in Int
    BY Amounts DEF AmountsOK
  <1>2. \A b \in Bands : Shares(a)[b] = IF b \in BandsOf(a) THEN allocated[b] ELSE 0
    BY DEF Shares, Share, BandsOf
  <1>3. BandsOf(a) \subseteq Bands
    BY DEF BandsOf
  <1> HIDE DEF allocated
  <1>4. SumFunctionOnSet(allocated, BandsOf(a)) = SumFunctionOnSet(Shares(a), Bands)
    BY <1>1, <1>2, <1>3, SumOfPart, RowsAssumption
  <1> QED
    BY <1>4 DEF SharesMatchFunding, allocated

\* The sum over the open lots of a band is the sum over all lots.
LEMMA DeployedFollows ==
    ASSUME TypeOK, CostsMatchDeployed
    PROVE  DeployedIsOpenLots
  <1> SUFFICES ASSUME NEW b \in Bands
               PROVE  band[b].deployed = SumFunctionOnSet([e \in Execs |-> lot[e].cost], LotsOf(b))
    BY DEF DeployedIsOpenLots
  <1> DEFINE cost == [e \in Execs |-> lot[e].cost]
  <1>1. \A e \in Execs : cost[e] \in Int
    BY DEF TypeOK
  <1>2. \A e \in Execs : CostsIn(b)[e] = IF e \in LotsOf(b) THEN cost[e] ELSE 0
    BY DEF TypeOK, CostsIn, CostIn, LotsOf, OpenLots
  <1>3. LotsOf(b) \subseteq Execs
    BY DEF LotsOf, OpenLots
  <1> HIDE DEF cost
  <1>4. SumFunctionOnSet(cost, LotsOf(b)) = SumFunctionOnSet(CostsIn(b), Execs)
    BY <1>1, <1>2, <1>3, SumOfPart, RowsAssumption
  <1> QED
    BY <1>4 DEF CostsMatchDeployed, cost

\* What has to be added to Inv to conserve capital: each sum holds by the terms
\* one operation changes, and RowsTell and LotsTell say that terms which appear
\* were zero before.
SumInv ==
    /\ RowsTell
    /\ LotsTell
    /\ DuesMatchWallet
    /\ SharesMatchFunding
    /\ CostsMatchDeployed

\* A step that moves no money and opens no lot keeps the sums.
LEMMA QuietStep ==
    ASSUME TypeOK, TypeOK', SumInv, UNCHANGED <<funded, lot, wallet>>, portfolio'.free = portfolio.free,
           executions \subseteq executions',
           \A c \in Bands : /\ band'[c].asset = band[c].asset
                            /\ band'[c].allocated = band[c].allocated
                            /\ band'[c].available = band[c].available
                            /\ band'[c].deployed = band[c].deployed
                            /\ band'[c].status = "none" <=> band[c].status = "none"
                            /\ band[c].status = "none" => band'[c] = band[c]
                            /\ Earned(c)' = Earned(c) /\ Paid(c)' = Paid(c),
           \A c \in Buying' : lot[attempt'[c].exec].cost = 0
    PROVE  SumInv'
  <1>1. RowsTell'
    BY DEF SumInv, RowsTell
  <1>2. LotsTell'
    BY DEF SumInv, LotsTell
  <1>3. DuesMatchWallet'
    <2>1. \A c \in Bands : Due(c)' = Due(c)
      BY DEF Due
    <2>2. Dues' = Dues
      BY <2>1 DEF Dues
    <2> QED
      BY <2>2 DEF SumInv, DuesMatchWallet
  <1>4. SharesMatchFunding'
    <2>1. \A a \in Assets : \A c \in Bands : Share(a, c)' = Share(a, c)
      BY DEF Share
    <2> QED
      BY <2>1, SharesStay DEF SumInv
  <1>5. CostsMatchDeployed'
    BY CostsStay DEF SumInv
  <1> QED
    BY <1>1, <1>2, <1>3, <1>4, <1>5 DEF SumInv

\* Parking or reactivating a band moves no money.
LEMMA SetBandSums ==
    ASSUME Inv, Inv', SumInv, NEW b \in Bands, NEW s \in {"ACTIVE", "PARKED_BELOW"}, SetBand(b, s)
    PROVE  SumInv'
  <1>1. /\ UNCHANGED <<portfolio, funded, bot, books, attempt, executions, reservation, lot, wallet, topUps>>
        /\ band[b].status # "none" /\ band' = [band EXCEPT ![b].status = s]
    BY DEF SetBand, Manageable, OpenBands
  <1>2. \A c \in Bands : /\ band'[c].asset = band[c].asset
                         /\ band'[c].allocated = band[c].allocated
                         /\ band'[c].available = band[c].available
                         /\ band'[c].deployed = band[c].deployed
                         /\ band'[c].status = IF c = b THEN s ELSE band[c].status
                         /\ c # b => band'[c] = band[c]
    BY <1>1 DEF Inv, TypeOK, BandRows
  <1>3. \A c \in Bands : Earned(c)' = Earned(c) /\ Paid(c)' = Paid(c)
    BY <1>1 DEF Earned, Paid, Settled, Busy, Buying
  <1>4. \A c \in Buying' : lot[attempt'[c].exec].cost = 0
    BY <1>1 DEF SumInv, LotsTell, Busy, Buying
  <1>5. TypeOK /\ TypeOK'
    BY DEF Inv
  <1> QED
    BY <1>1, <1>2, <1>3, <1>4, <1>5, QuietStep

\* Steps that change no band, no lot and no report.
LEMMA SameRowsSums ==
    ASSUME Inv, Inv', SumInv, UNCHANGED <<funded, band, attempt, executions, lot, wallet>>,
           portfolio'.free = portfolio.free
    PROVE  SumInv'
  <1>1. \A c \in Bands : Earned(c)' = Earned(c) /\ Paid(c)' = Paid(c)
    BY DEF Earned, Paid, Settled, Busy, Buying
  <1>2. \A c \in Buying' : lot[attempt'[c].exec].cost = 0
    BY DEF SumInv, LotsTell, Busy, Buying
  <1>3. TypeOK /\ TypeOK'
    BY DEF Inv
  <1> QED
    BY <1>1, <1>2, <1>3, QuietStep

\* A prepared or failed attempt has moved nothing.
LEMMA OneAttemptSums ==
    ASSUME Inv, Inv', SumInv, NEW b \in Bands, UNCHANGED <<funded, lot, wallet>>,
           portfolio'.free = portfolio.free, executions \subseteq executions',
           \A c \in Bands : /\ band'[c].asset = band[c].asset
                            /\ band'[c].allocated = band[c].allocated
                            /\ band'[c].available = band[c].available
                            /\ band'[c].deployed = band[c].deployed
                            /\ band'[c].status = band[c].status
                            /\ band[c].status = "none" => band'[c] = band[c],
           \A c \in Bands \ {b} : attempt'[c] = attempt[c],
           ~ Settled(b, "filled"), ~ Settled(b, "filled")',
           b \in Buying' => lot[attempt'[b].exec].cost = 0
    PROVE  SumInv'
  <1>1. \A c \in Bands : Earned(c)' = Earned(c) /\ Paid(c)' = Paid(c)
    BY DEF Earned, Paid, Settled, Busy, Buying
  <1>2. \A c \in Buying' : lot[attempt'[c].exec].cost = 0
    BY DEF SumInv, LotsTell, Busy, Buying
  <1>3. TypeOK /\ TypeOK'
    BY DEF Inv
  <1> QED
    BY <1>1, <1>2, <1>3, QuietStep

\* Reserving cash leaves it in the band.
LEMMA PrepareBuySums ==
    ASSUME Inv, Inv', SumInv, NEW b \in Bands, NEW e \in Execs, NEW q \in Quotes, NEW z \in Zones,
           NEW f \in FeeEstimates, PrepareBuy(b, e, q, z, f)
    PROVE  SumInv'
  <1>1. /\ UNCHANGED <<portfolio, funded, bot, books, lot, wallet, topUps>>
        /\ attempt[b] = NoAttempt /\ e \notin executions /\ executions' = executions \cup {e}
        /\ band[b].status = "ACTIVE" /\ band' = [band EXCEPT ![b].reserved = @ + q]
        /\ attempt'[b].exec = e /\ attempt'[b].result = "none"
        /\ \A c \in Bands \ {b} : attempt'[c] = attempt[c]
    BY DEF PrepareBuy, MayTrade, Inv, TypeOK
  <1>2. \A c \in Bands : /\ band'[c].asset = band[c].asset
                         /\ band'[c].allocated = band[c].allocated
                         /\ band'[c].available = band[c].available
                         /\ band'[c].deployed = band[c].deployed
                         /\ band'[c].status = band[c].status
                         /\ band[c].status = "none" => band'[c] = band[c]
    BY <1>1 DEF Inv, TypeOK, BandRows
  <1>3. ~ Settled(b, "filled") /\ ~ Settled(b, "filled")'
    BY <1>1 DEF Settled, Busy
  <1>4. lot[attempt'[b].exec].cost = 0
    BY <1>1 DEF SumInv, LotsTell
  <1> QED
    BY <1>1, <1>2, <1>3, <1>4, OneAttemptSums

\* Preparing a sell leaves its lot where it is.
LEMMA PrepareSellSums ==
    ASSUME Inv, Inv', SumInv, NEW b \in Bands, NEW e \in Execs, NEW l \in Execs,
           NEW f \in FeeEstimates, PrepareSell(b, e, l, f)
    PROVE  SumInv'
  <1>1. /\ UNCHANGED <<portfolio, funded, band, bot, books, lot, wallet, topUps>>
        /\ attempt[b] = NoAttempt /\ executions' = executions \cup {e}
        /\ attempt'[b].side = "sell" /\ attempt'[b].result = "none"
        /\ \A c \in Bands \ {b} : attempt'[c] = attempt[c]
    BY DEF PrepareSell, MayTrade, Inv, TypeOK, accounts
  <1>2. ~ Settled(b, "filled") /\ ~ Settled(b, "filled")' /\ b \notin Buying'
    BY <1>1 DEF Settled, Busy, Buying
  <1> QED
    BY <1>1, <1>2, OneAttemptSums

\* Marking an outcome unknown moves nothing.
LEMMA MarkUnknownSums ==
    ASSUME Inv, Inv', SumInv, NEW b \in Bands, MarkUnknown(b)
    PROVE  SumInv'
  <1>1. /\ UNCHANGED <<portfolio, funded, band, bot, books, executions, lot, wallet, topUps>>
        /\ b \in Busy /\ attempt[b].result = "none"
        /\ attempt' = [attempt EXCEPT ![b].result = "unknown"]
    BY DEF MarkUnknown, accounts
  <1>2. attempt[b] \in Attempts
    BY <1>1 DEF Inv, TypeOK, Busy
  <1>3. /\ attempt'[b].result = "unknown" /\ attempt'[b].side = attempt[b].side
        /\ attempt'[b].exec = attempt[b].exec
        /\ \A c \in Bands \ {b} : attempt'[c] = attempt[c]
    BY <1>1, <1>2 DEF Inv, TypeOK, Attempts
  <1>4. ~ Settled(b, "filled") /\ ~ Settled(b, "filled")'
    BY <1>1, <1>3 DEF Settled
  <1>5. b \in Buying' => lot[attempt'[b].exec].cost = 0
    BY <1>1, <1>3 DEF SumInv, LotsTell, Buying
  <1> QED
    BY <1>1, <1>3, <1>4, <1>5, OneAttemptSums

\* A failed swap moved nothing; its reservation ends.
LEMMA CommitFailedSums ==
    ASSUME Inv, Inv', SumInv, NEW b \in Bands, CommitFailed(b)
    PROVE  SumInv'
  <1>1. /\ UNCHANGED <<funded, bot, books, executions, lot, wallet, topUps>>
        /\ b \in Busy /\ attempt[b].result = "failed"
        /\ attempt' = [attempt EXCEPT ![b] = NoAttempt]
        /\ portfolio' = Charged(attempt[b].fee, 0)
        /\ band' = band \/ band' = [band EXCEPT ![b].reserved = @ - attempt[b].quote]
    BY DEF CommitFailed, Settled, Release
  <1>2. portfolio'.free = portfolio.free
    BY <1>1 DEF Inv, TypeOK, Charged
  <1>3. \A c \in Bands : /\ band'[c].asset = band[c].asset
                         /\ band'[c].allocated = band[c].allocated
                         /\ band'[c].available = band[c].available
                         /\ band'[c].deployed = band[c].deployed
                         /\ band'[c].status = band[c].status
                         /\ c # b => band'[c] = band[c]
    BY <1>1 DEF Inv, TypeOK, BandRows
  <1>4. band[b].status # "none"
    BY <1>1 DEF Inv, Linked, OpenBands
  <1>5. /\ attempt'[b] = NoAttempt /\ \A c \in Bands \ {b} : attempt'[c] = attempt[c]
        /\ ~ Settled(b, "filled") /\ ~ Settled(b, "filled")' /\ b \notin Buying'
    BY <1>1 DEF Inv, TypeOK, Settled, Busy, Buying
  <1> QED
    BY <1>1, <1>2, <1>3, <1>4, <1>5, OneAttemptSums

\* A swap that filled is due until it is booked; what it moved, the wallet knows.
LEMMA ReportSums ==
    ASSUME Inv, Inv', SumInv, NEW b \in Bands, NEW m \in Nat, NEW f \in Nat,
           \/ ReportBuy(b, m, f)
           \/ ReportSell(b, m, f)
           \/ ReportFailure(b, f)
    PROVE  SumInv'
  <1>1. /\ UNCHANGED <<portfolio, funded, band, bot, books, executions, reservation, lot, topUps>>
        /\ b \in Busy /\ attempt[b].result = "unknown"
        /\ \E x \in {"filled", "failed"}, y \in Nat :
              attempt' = [attempt EXCEPT ![b] = [attempt[b] EXCEPT !.result = x, !.moved = y, !.fee = f]]
    BY DEF ReportBuy, ReportSell, ReportFailure, Report, accounts, Inv, TypeOK
  <1>2. attempt[b] \in Attempts /\ attempt'[b] \in Attempts /\ attempt'[b] # NoAttempt
    <2>1. attempt[b] \in Attempts
      BY <1>1 DEF Inv, TypeOK, Busy
    <2>2. PICK x \in {"filled", "failed"}, y \in Nat :
             attempt' = [attempt EXCEPT ![b] = [attempt[b] EXCEPT !.result = x, !.moved = y, !.fee = f]]
      BY <1>1
    <2>3. attempt'[b] = [attempt[b] EXCEPT !.result = x, !.moved = y, !.fee = f]
      BY <2>2, Zenon DEF Inv, TypeOK
    <2>4. [attempt[b] EXCEPT !.result = x, !.moved = y, !.fee = f] \in Attempts
      BY <2>1, ReportedRow, Zenon
    <2> QED
      BY <2>1, <2>3, <2>4, NoAttemptAssumption
  <1>3. /\ attempt'[b].side = attempt[b].side /\ attempt'[b].exec = attempt[b].exec
        /\ \A c \in Bands \ {b} : attempt'[c] = attempt[c]
    BY <1>1, <1>2 DEF Inv, TypeOK, Attempts
  <1>4. \A c \in Bands \ {b} : Due(c)' = Due(c)
    BY <1>1, <1>3 DEF Due, Earned, Paid, Settled, Busy, Buying
  <1>5. Due(b) = band[b].available
    <2>1. Earned(b) = 0 /\ Paid(b) = 0 /\ band[b].available \in Int
      BY <1>1 DEF Earned, Paid, Settled, Inv, TypeOK, BandRows
    <2> QED
      BY <2>1 DEF Due
  <1>6. portfolio'.free + Due(b)' - wallet' = portfolio.free + Due(b) - wallet
    <2>1. band[b].available \in Int /\ wallet \in Int /\ portfolio.free \in Int
      BY DEF Inv, TypeOK, BandRows
    <2>2. CASE ReportBuy(b, m, f)
      <3>1. /\ attempt'[b].result = "filled" /\ attempt'[b].moved = m /\ wallet' = wallet - m
            /\ b \in Buying
        <4>1. /\ b \in Buying /\ wallet' = wallet - m
              /\ attempt' = [attempt EXCEPT ![b] = [attempt[b] EXCEPT !.result = "filled", !.moved = m, !.fee = f]]
          BY <2>2, Zenon DEF ReportBuy, Report
        <4>2. attempt'[b] = [attempt[b] EXCEPT !.result = "filled", !.moved = m, !.fee = f]
          BY <4>1, Zenon DEF Inv, TypeOK
        <4> QED
          BY <4>1, <4>2, <1>2 DEF Attempts
      <3>2. Earned(b)' = 0 /\ Paid(b)' = m
        BY <3>1, <1>2, <1>3 DEF Earned, Paid, Settled, Busy, Buying
      <3> QED
        BY <1>1, <1>5, <2>1, <3>1, <3>2 DEF Due
    <2>3. CASE ReportSell(b, m, f)
      <3>1. /\ attempt'[b].result = "filled" /\ attempt'[b].moved = m /\ wallet' = wallet + m
            /\ b \notin Buying
        <4>1. /\ b \notin Buying /\ wallet' = wallet + m
              /\ attempt' = [attempt EXCEPT ![b] = [attempt[b] EXCEPT !.result = "filled", !.moved = m, !.fee = f]]
          BY <2>3, Zenon DEF ReportSell, Report
        <4>2. attempt'[b] = [attempt[b] EXCEPT !.result = "filled", !.moved = m, !.fee = f]
          BY <4>1, Zenon DEF Inv, TypeOK
        <4> QED
          BY <4>1, <4>2, <1>2 DEF Attempts
      <3>2. Earned(b)' = m /\ Paid(b)' = 0
        BY <3>1, <1>1, <1>2, <1>3 DEF Earned, Paid, Settled, Busy, Buying
      <3> QED
        BY <1>1, <1>5, <2>1, <3>1, <3>2 DEF Due
    <2>4. CASE ReportFailure(b, f)
      <3>1. attempt'[b].result = "failed" /\ wallet' = wallet
        <4>1. /\ wallet' = wallet
              /\ attempt' = [attempt EXCEPT ![b] = [attempt[b] EXCEPT !.result = "failed", !.moved = 0, !.fee = f]]
          BY <2>4, Zenon DEF ReportFailure, Report
        <4>2. attempt'[b] = [attempt[b] EXCEPT !.result = "failed", !.moved = 0, !.fee = f]
          BY <4>1, Zenon DEF Inv, TypeOK
        <4> QED
          BY <4>1, <4>2, <1>2 DEF Attempts
      <3>2. Earned(b)' = 0 /\ Paid(b)' = 0
        BY <3>1 DEF Earned, Paid, Settled
      <3> QED
        BY <1>1, <1>5, <2>1, <3>1, <3>2 DEF Due
    <2> QED
      BY <2>2, <2>3, <2>4
  <1>7. TypeOK /\ TypeOK'
    BY DEF Inv
  <1>8. DuesMatchWallet'
    BY <1>4, <1>6, <1>7, OneDueChanges DEF SumInv
  <1>9. RowsTell' /\ LotsTell'
    BY <1>1, <1>2, <1>3 DEF SumInv, RowsTell, LotsTell, Busy, Buying
  <1>10. SharesMatchFunding'
    BY <1>1, <1>7, SharesStay DEF SumInv, Share
  <1>11. CostsMatchDeployed'
    BY <1>1, <1>7, CostsStay DEF SumInv
  <1> QED
    BY <1>8, <1>9, <1>10, <1>11 DEF SumInv

\* Booking a buy takes what it paid from the band and puts its cost into a lot
\* that had none.
LEMMA CommitBuySums ==
    ASSUME Inv, Inv', SumInv, NEW b \in Bands, CommitBuy(b)
    PROVE  SumInv'
  <1> DEFINE t == attempt[b]
  <1>1. /\ b \in Buying /\ t.result = "filled"
        /\ band' = [band EXCEPT ![b] = AfterBuy(b, t)]
        /\ lot' = [lot EXCEPT ![t.exec] = [band |-> b, zone |-> t.zone, cost |-> LotCost(t)]]
        /\ portfolio' = Charged(t.fee, 0)
        /\ attempt' = [attempt EXCEPT ![b] = NoAttempt]
        /\ UNCHANGED <<funded, bot, executions, wallet, topUps>>
    BY DEF CommitBuy, Settled, Busy, Buying
  <1>2. t \in Attempts /\ t.exec \in executions /\ t.exec \in Execs /\ lot[t.exec].cost = 0 /\ band[b].status # "none"
    BY <1>1 DEF Inv, TypeOK, Linked, SumInv, LotsTell, OpenBands, Busy, Buying
  <1>3. /\ t.moved \in Int /\ t.fee \in Int /\ band[b] \in BandRows
        /\ band[b].available \in Int /\ band[b].deployed \in Int
    BY <1>2 DEF Inv, TypeOK, Attempts, BandRows
  <1>4. /\ band'[b] = AfterBuy(b, t)
        /\ \A c \in Bands \ {b} : band'[c] = band[c]
        /\ \A c \in Bands \ {b} : attempt'[c] = attempt[c]
        /\ attempt'[b] = NoAttempt
    BY <1>1, Zenon DEF Inv, TypeOK
  <1>5. /\ band'[b].available = band[b].available - t.moved
        /\ band'[b].deployed = band[b].deployed + LotCost(t)
        /\ band'[b].asset = band[b].asset /\ band'[b].allocated = band[b].allocated
        /\ band'[b].status = band[b].status
    BY <1>3, <1>4 DEF AfterBuy, BandRows
  <1>6. TypeOK /\ TypeOK'
    BY DEF Inv
  <1>7. portfolio'.free = portfolio.free /\ portfolio.free \in Int /\ wallet \in Int
    BY <1>1 DEF Inv, TypeOK, Charged
  <1>8. DuesMatchWallet'
    <2>1. Earned(b) = 0 /\ Paid(b) = t.moved /\ Earned(b)' = 0 /\ Paid(b)' = 0
      BY <1>1, <1>4 DEF Earned, Paid, Settled, Busy, Buying
    <2>2. \A c \in Bands \ {b} : Due(c)' = Due(c)
      BY <1>4 DEF Due, Earned, Paid, Settled, Busy, Buying
    <2>3. Due(b)' = Due(b)
      BY <1>3, <1>5, <2>1 DEF Due
    <2>4. portfolio'.free + Due(b)' - wallet' = portfolio.free + Due(b) - wallet
      BY <1>1, <1>7, <2>3
    <2> QED
      BY <1>6, <2>2, <2>4, OneDueChanges DEF SumInv
  <1>9. RowsTell'
    BY <1>2, <1>4, <1>5 DEF SumInv, RowsTell
  <1>10. LotsTell'
    <2>1. \A e \in Execs \ {t.exec} : lot'[e] = lot[e]
      BY <1>1 DEF Inv, TypeOK
    <2>2. \A c \in Buying' : c \in Buying /\ c # b /\ attempt'[c].exec = attempt[c].exec
      BY <1>4 DEF Busy, Buying
    <2>3. \A c \in Buying' : attempt'[c].exec # t.exec /\ attempt'[c].exec \in Execs
      BY <1>1, <2>2 DEF Inv, TypeOK, Linked, Busy, Buying
    <2> QED
      BY <1>1, <1>2, <2>1, <2>2, <2>3 DEF SumInv, LotsTell
  <1>11. SharesMatchFunding'
    <2>1. \A a \in Assets : \A c \in Bands : Share(a, c)' = Share(a, c)
      BY <1>4, <1>5 DEF Share
    <2> QED
      BY <1>1, <1>6, <2>1, SharesStay DEF SumInv
  <1>12. CostsMatchDeployed'
    <2>0. PICK l \in Execs : l = t.exec
      BY <1>2
    <2>1. /\ \A e \in Execs \ {l} : lot'[e] = lot[e]
          /\ lot'[l].band = b /\ lot'[l].cost = LotCost(t)
      BY <1>1, <2>0 DEF Inv, TypeOK
    <2>2. LotCost(t) \in Int
      BY <1>3 DEF LotCost
    <2>3. ASSUME NEW c \in Bands
          PROVE  /\ \A e \in Execs \ {l} : CostIn(c, e)' = CostIn(c, e)
                 /\ band'[c].deployed - CostIn(c, l)' = band[c].deployed - CostIn(c, l)
      <3>1. \A e \in Execs \ {l} : CostIn(c, e)' = CostIn(c, e)
        BY <2>1 DEF CostIn
      <3>2. CostIn(c, l) = 0
        BY <1>2, <2>0 DEF CostIn
      <3>3. CASE c = b
        <4>1. (IF lot'[l].band = c THEN lot'[l].cost ELSE 0) = LotCost(t)
          BY <2>1, <3>3
        <4> QED
          BY <1>3, <1>5, <2>2, <3>1, <3>2, <3>3, <4>1 DEF CostIn
      <3>4. CASE c # b
        <4>1. (IF lot'[l].band = c THEN lot'[l].cost ELSE 0) = 0
          BY <2>1, <3>4
        <4> QED
          BY <1>3, <1>4, <3>1, <3>2, <3>4, <4>1 DEF CostIn, Inv, TypeOK, BandRows
      <3> QED
        BY <3>3, <3>4
    <2> QED
      BY <1>6, <2>3, OneCostChanges DEF SumInv
  <1> QED
    BY <1>8, <1>9, <1>10, <1>11, <1>12 DEF SumInv

\* Booking a sell: what the swap earned is split between the band and the pool,
\* and the released cost leaves the lot and the band alike.
LEMMA CommitSellSums ==
    ASSUME Inv, Inv', SumInv, NEW b \in Bands, b \in Busy, NEW released \in Released(b), CommitSell(b, released)
    PROVE  SumInv'
  <1> DEFINE t == attempt[b]
             s == Split(t.moved, released, t.fee)
  <1>1. /\ b \in Busy /\ b \notin Buying /\ t.result = "filled" /\ t.lot \in LotsOf(b)
        /\ released <= band[b].deployed
        /\ band' = [band EXCEPT ![b] = AfterSell(b, released, s)]
        /\ lot' = [lot EXCEPT ![t.lot].cost = @ - released]
        /\ portfolio' = Charged(t.fee, s.profit)
        /\ attempt' = [attempt EXCEPT ![b] = NoAttempt]
        /\ UNCHANGED <<funded, bot, executions, reservation, wallet, topUps>>
    BY DEF CommitSell, Settled, Buying
  <1>2. /\ t.moved \in Nat /\ t.fee \in Nat /\ t.lot \in Execs
        /\ lot[t.lot].band = b /\ lot[t.lot].cost \in Nat /\ lot[t.lot].cost > 0
    BY <1>1 DEF Inv, TypeOK, Attempts, LotsOf, OpenLots, Busy
  <1>3. released \in Nat /\ released <= lot[t.lot].cost /\ band[b] \in BandRows
    BY <1>1, <1>2 DEF Inv, TypeOK, Released
  <1>4. /\ s.principal \in Nat /\ s.feeAllowance \in Nat /\ s.profit \in Nat /\ s.loss \in Nat
        /\ s.principal + s.feeAllowance + s.profit = t.moved
    <2> DEFINE x == t.moved
               y == t.fee
    <2>1. x \in Nat /\ y \in Nat /\ s = Split(x, released, y)
      BY <1>2
    <2> HIDE DEF t, x, y, s
    <2>2. /\ s.principal \in Nat /\ s.feeAllowance \in Nat /\ s.profit \in Nat /\ s.loss \in Nat
          /\ s.principal + s.feeAllowance + s.profit = x
      BY <1>3, <2>1 DEF Split, Monus
    <2> QED
      BY <2>2 DEF x
  <1> HIDE DEF s
  <1>5. band[b].available \in Nat /\ band[b].deployed \in Nat /\ band[b].status # "none"
    BY <1>1, <1>3 DEF Inv, Linked, OpenBands, BandRows
  <1>6. /\ band'[b] = AfterSell(b, released, s)
        /\ \A c \in Bands \ {b} : band'[c] = band[c] /\ attempt'[c] = attempt[c]
        /\ attempt'[b] = NoAttempt
    BY <1>1, Zenon DEF Inv, TypeOK
  <1>7. /\ band'[b].available = band[b].available + s.principal + s.feeAllowance
        /\ band'[b].deployed = band[b].deployed - released
        /\ band'[b].asset = band[b].asset /\ band'[b].allocated = band[b].allocated
        /\ band'[b].status = band[b].status
    BY <1>3, <1>6 DEF AfterSell, BandRows
  <1>8. TypeOK /\ TypeOK'
    BY DEF Inv
  <1>9. portfolio'.free = portfolio.free + s.profit /\ portfolio.free \in Int /\ wallet \in Int
    BY <1>1, <1>4 DEF Inv, TypeOK, Charged
  <1>10. DuesMatchWallet'
    <2>1. Earned(b) = t.moved /\ Paid(b) = 0 /\ Earned(b)' = 0 /\ Paid(b)' = 0
      BY <1>1, <1>6 DEF Earned, Paid, Settled, Busy, Buying
    <2>2. \A c \in Bands \ {b} : Due(c)' = Due(c)
      BY <1>6 DEF Due, Earned, Paid, Settled, Busy, Buying
    <2>3. Due(b) = band[b].available + t.moved /\ Due(b)' = band'[b].available
      BY <1>2, <1>4, <1>5, <1>7, <2>1 DEF Due
    <2>4. portfolio'.free + Due(b)' - wallet' = portfolio.free + Due(b) - wallet
      BY <1>1, <1>2, <1>4, <1>5, <1>7, <1>9, <2>3
    <2> QED
      BY <1>8, <2>2, <2>4, OneDueChanges DEF SumInv
  <1>11. RowsTell'
    BY <1>5, <1>6, <1>7 DEF SumInv, RowsTell
  <1>12. \A e \in Execs : /\ lot'[e].band = lot[e].band
                          /\ lot'[e].cost = IF e = t.lot THEN lot[e].cost - released ELSE lot[e].cost
    BY <1>1, <1>2 DEF Inv, TypeOK
  <1>13. LotsTell'
    <2>1. \A e \in Execs : lot[e].cost = 0 => e # t.lot
      BY <1>2
    <2>2. \A c \in Buying' : c \in Buying /\ attempt'[c].exec = attempt[c].exec /\ attempt[c].exec \in Execs
      BY <1>6 DEF Inv, TypeOK, Attempts, Busy, Buying
    <2> QED
      BY <1>1, <1>12, <2>1, <2>2 DEF SumInv, LotsTell
  <1>14. SharesMatchFunding'
    <2>1. \A a \in Assets : \A c \in Bands : Share(a, c)' = Share(a, c)
      BY <1>6, <1>7 DEF Share
    <2> QED
      BY <1>1, <1>8, <2>1, SharesStay DEF SumInv
  <1>15. CostsMatchDeployed'
    <2>1. PICK l \in Execs : l = t.lot
      BY <1>2
    <2>2. ASSUME NEW c \in Bands
          PROVE  /\ \A e \in Execs \ {l} : CostIn(c, e)' = CostIn(c, e)
                 /\ band'[c].deployed - CostIn(c, l)' = band[c].deployed - CostIn(c, l)
      <3>1. \A e \in Execs \ {l} : CostIn(c, e)' = CostIn(c, e)
        BY <1>12, <2>1 DEF CostIn
      <3>2. CASE c = b
        <4>1. CostIn(c, l) = lot[l].cost /\ CostIn(c, l)' = lot[l].cost - released
          BY <1>2, <1>12, <2>1, <3>2 DEF CostIn
        <4> QED
          BY <1>2, <1>3, <1>5, <1>7, <2>1, <3>1, <3>2, <4>1
      <3>3. CASE c # b
        <4>1. CostIn(c, l) = 0 /\ CostIn(c, l)' = 0
          BY <1>2, <1>12, <2>1, <3>3 DEF CostIn
        <4> QED
          BY <1>6, <3>1, <3>3, <4>1
      <3> QED
        BY <3>2, <3>3
    <2> QED
      BY <1>8, <2>2, OneCostChanges DEF SumInv
  <1> QED
    BY <1>10, <1>11, <1>13, <1>14, <1>15 DEF SumInv

\* A new band takes its capital from the pool and is funded with it.
LEMMA CreateBandSums ==
    ASSUME Inv, Inv', SumInv, NEW b \in Bands, NEW new \in Bands, NEW q \in Requests, CreateBand(b, new, q)
    PROVE  SumInv'
  <1>1. /\ q \in Nat /\ b # new /\ band[b].status # "none" /\ band[new].status = "none"
        /\ UNCHANGED <<attempt, executions, reservation, lot, wallet, topUps>>
        /\ portfolio' = [portfolio EXCEPT !.free = @ - q]
        /\ funded' = [funded EXCEPT ![band[b].asset] = @ + q]
        /\ band' = [band EXCEPT ![new] = FundedBand(band[b].asset, q), ![b].status = "PARKED_BELOW"]
    BY AmountsAssumption DEF CreateBand, Manageable, OpenBands
  <1>2. band[b].asset \in Assets /\ band[new] = NoRow
    BY <1>1 DEF SumInv, RowsTell
  <1>3. attempt[new] = NoAttempt
    BY <1>1 DEF Inv, Linked, Busy, OpenBands
  <1>4. /\ band'[new] = FundedBand(band[b].asset, q)
        /\ band'[b] = [band[b] EXCEPT !.status = "PARKED_BELOW"]
        /\ \A c \in Bands \ {b, new} : band'[c] = band[c]
    <2>1. band' = [[band EXCEPT ![new] = FundedBand(band[b].asset, q)]
                       EXCEPT ![b] = [band[b] EXCEPT !.status = "PARKED_BELOW"]]
      BY <1>1, Zenon DEF Inv, TypeOK
    <2> QED
      BY <1>1, <2>1, Zenon DEF Inv, TypeOK
  <1>5. /\ band'[b].available = band[b].available /\ band'[b].deployed = band[b].deployed
        /\ band'[b].asset = band[b].asset /\ band'[b].allocated = band[b].allocated
        /\ band'[b].status = "PARKED_BELOW"
    BY <1>4 DEF Inv, TypeOK, BandRows
  <1>6. /\ band'[new].available = q /\ band'[new].deployed = 0 /\ band'[new].asset = band[b].asset
        /\ band'[new].allocated = q /\ band'[new].status = "ACTIVE"
        /\ band[new].available = 0 /\ band[new].deployed = 0 /\ band[new].asset = NoAsset
    BY <1>2, <1>4 DEF FundedBand, NoRow
  <1>7. TypeOK /\ TypeOK'
    BY DEF Inv
  <1>8. DuesMatchWallet'
    <2>1. \A c \in Bands : /\ Earned(c)' = Earned(c) /\ Paid(c)' = Paid(c)
                           /\ c = new => Earned(c) = 0 /\ Paid(c) = 0
      BY <1>1, <1>3 DEF Earned, Paid, Settled, Busy, Buying
    <2>2. \A c \in Bands \ {new} : Due(c)' = Due(c)
      BY <1>4, <1>5, <2>1 DEF Due
    <2>3. Due(new) = 0 /\ Due(new)' = q
      BY <1>1, <1>6, <2>1 DEF Due
    <2>4. /\ portfolio'.free = portfolio.free - q /\ wallet' = wallet
          /\ portfolio.free \in Int /\ wallet \in Int
      BY <1>1 DEF Inv, TypeOK
    <2>5. portfolio'.free + Due(new)' - wallet' = portfolio.free + Due(new) - wallet
      BY <1>1, <2>3, <2>4
    <2> QED
      BY <1>7, <2>2, <2>5, OneDueChanges DEF SumInv
  <1>9. RowsTell'
    <2> SUFFICES ASSUME NEW c \in Bands
                 PROVE  /\ band'[c].status = "none" => band'[c] = NoRow
                        /\ band'[c].status # "none" => band'[c].asset \in Assets
      BY DEF RowsTell
    <2>1. CASE c \in {b, new}
      BY <1>2, <1>5, <1>6, <2>1
    <2>2. CASE c \notin {b, new}
      BY <1>4, <2>2 DEF SumInv, RowsTell
    <2> QED
      BY <2>1, <2>2
  <1>10. LotsTell'
    BY <1>1 DEF SumInv, LotsTell, Busy, Buying
  <1>11. SharesMatchFunding'
    <2>1. ASSUME NEW a \in Assets
          PROVE  /\ \A c \in Bands \ {new} : Share(a, c)' = Share(a, c)
                 /\ funded'[a] - Share(a, new)' = funded[a] - Share(a, new)
      <3>1. \A c \in Bands \ {new} : Share(a, c)' = Share(a, c)
        BY <1>4, <1>5 DEF Share
      <3>2. Share(a, new) = 0
        BY <1>6, AssetsAssumption DEF Share
      <3>3. Share(a, new)' = IF band[b].asset = a THEN q ELSE 0
        BY <1>6 DEF Share
      <3>4. funded'[a] = (IF band[b].asset = a THEN funded[a] + q ELSE funded[a]) /\ funded[a] \in Int
        BY <1>1, <1>2 DEF Inv, TypeOK
      <3> QED
        BY <1>1, <3>1, <3>2, <3>3, <3>4
    <2> QED
      BY <1>7, <2>1, OneShareChanges DEF SumInv
  <1>12. CostsMatchDeployed'
    <2>1. \A c \in Bands : band'[c].deployed = band[c].deployed
      BY <1>4, <1>5, <1>6
    <2> QED
      BY <1>1, <1>7, <2>1, CostsStay DEF SumInv
  <1> QED
    BY <1>8, <1>9, <1>10, <1>11, <1>12 DEF SumInv

\* Closing a band returns its cash to the pool and takes it off the funding.
LEMMA ArchiveSums ==
    ASSUME Inv, Inv', SumInv, NEW b \in Bands, Archive(b)
    PROVE  SumInv'
  <1> DEFINE cash == band[b].available
  <1>1. /\ attempt[b] = NoAttempt /\ band[b].status # "none"
        /\ portfolio' = [portfolio EXCEPT !.free = @ + cash]
        /\ funded' = [funded EXCEPT ![band[b].asset] = @ - cash]
        /\ band' = [band EXCEPT ![b] = [band[b] EXCEPT !.status = "CLOSED", !.available = 0,
                                                       !.allocated = band[b].allocated - cash]]
        /\ UNCHANGED <<bot, attempt, executions, reservation, lot, wallet, topUps>>
    BY Zenon DEF Archive, MayArchive, ReturnCash, OpenBands, Inv, TypeOK
  <1>2. band[b].asset \in Assets
    BY <1>1 DEF SumInv, RowsTell
  <1>3. band[b] \in BandRows /\ cash \in Int /\ band[b].allocated \in Int
    BY DEF Inv, TypeOK, BandRows
  <1>4. /\ band'[b] = [band[b] EXCEPT !.status = "CLOSED", !.available = 0,
                                      !.allocated = band[b].allocated - cash]
        /\ \A c \in Bands \ {b} : band'[c] = band[c]
    BY <1>1, Zenon DEF Inv, TypeOK
  <1>5. /\ band'[b].available = 0 /\ band'[b].deployed = band[b].deployed
        /\ band'[b].asset = band[b].asset /\ band'[b].allocated = band[b].allocated - cash
        /\ band'[b].status = "CLOSED"
    BY <1>3, <1>4 DEF BandRows
  <1>6. TypeOK /\ TypeOK'
    BY DEF Inv
  <1>7. DuesMatchWallet'
    <2>1. \A c \in Bands : /\ Earned(c)' = Earned(c) /\ Paid(c)' = Paid(c)
                           /\ c = b => Earned(c) = 0 /\ Paid(c) = 0
      BY <1>1 DEF Earned, Paid, Settled, Busy, Buying
    <2>2. \A c \in Bands \ {b} : Due(c)' = Due(c)
      BY <1>4, <2>1 DEF Due
    <2>3. Due(b) = cash /\ Due(b)' = 0
      BY <1>3, <1>5, <2>1 DEF Due
    <2>4. /\ portfolio'.free = portfolio.free + cash /\ wallet' = wallet
          /\ portfolio.free \in Int /\ wallet \in Int
      BY <1>1 DEF Inv, TypeOK
    <2>5. portfolio'.free + Due(b)' - wallet' = portfolio.free + Due(b) - wallet
      BY <1>3, <2>3, <2>4
    <2> QED
      BY <1>6, <2>2, <2>5, OneDueChanges DEF SumInv
  <1>8. RowsTell'
    BY <1>2, <1>4, <1>5 DEF SumInv, RowsTell
  <1>9. LotsTell'
    BY <1>1 DEF SumInv, LotsTell, Busy, Buying
  <1>10. SharesMatchFunding'
    <2>1. ASSUME NEW a \in Assets
          PROVE  /\ \A c \in Bands \ {b} : Share(a, c)' = Share(a, c)
                 /\ funded'[a] - Share(a, b)' = funded[a] - Share(a, b)
      <3>1. \A c \in Bands \ {b} : Share(a, c)' = Share(a, c)
        BY <1>4 DEF Share
      <3>2. /\ Share(a, b) = IF band[b].asset = a THEN band[b].allocated ELSE 0
            /\ Share(a, b)' = IF band[b].asset = a THEN band[b].allocated - cash ELSE 0
        BY <1>5 DEF Share
      <3>3. funded'[a] = (IF band[b].asset = a THEN funded[a] - cash ELSE funded[a]) /\ funded[a] \in Int
        BY <1>1, <1>2 DEF Inv, TypeOK
      <3> QED
        BY <1>3, <3>1, <3>2, <3>3
    <2> QED
      BY <1>6, <2>1, OneShareChanges DEF SumInv
  <1>11. CostsMatchDeployed'
    <2>1. \A c \in Bands : band'[c].deployed = band[c].deployed
      BY <1>4, <1>5
    <2> QED
      BY <1>1, <1>6, <2>1, CostsStay DEF SumInv
  <1> QED
    BY <1>7, <1>8, <1>9, <1>10, <1>11 DEF SumInv

\* The two first bands split the funding with the pool; every other row is empty.
LEMMA InitSums == Init => SumInv
  <1> SUFFICES ASSUME Init PROVE SumInv
    OBVIOUS
  <1> DEFINE First == {FirstBand[a] : a \in Assets}
  <1>1. \A b \in Bands :
           /\ b \notin First => band[b] = NoRow
           /\ \A a \in Assets : FirstBand[a] = b => band[b] = FundedBand(a, BaseAllocation)
    BY AssetsAssumption DEF Init
  <1>2. TypeOK
    BY InitInv DEF Inv
  <1>3. RowsTell
    <2> SUFFICES ASSUME NEW b \in Bands
                 PROVE  /\ band[b].status = "none" => band[b] = NoRow
                        /\ band[b].status # "none" => band[b].asset \in Assets
      BY DEF RowsTell
    <2>1. CASE b \in First
      <3>1. PICK a \in Assets : FirstBand[a] = b
        BY <2>1
      <3>2. band[b] = FundedBand(a, BaseAllocation)
        BY <1>1, <3>1
      <3>3. band[b].status = "ACTIVE" /\ band[b].asset = a
        BY <3>2 DEF FundedBand
      <3> QED
        BY <3>3
    <2>2. CASE b \notin First
      BY <1>1, <2>2 DEF NoRow
    <2> QED
      BY <2>1, <2>2
  <1>4. LotsTell
    BY DEF Init, LotsTell, NoLot, Busy, Buying
  <1>5. \A b \in Bands : /\ band[b].available = IF b \in First THEN BaseAllocation ELSE 0
                         /\ band[b].deployed = 0
                         /\ Earned(b) = 0 /\ Paid(b) = 0
    BY <1>1 DEF Init, FundedBand, NoRow, Earned, Paid, Settled, Busy, Buying
  <1>6. BaseAllocation \in Nat /\ Funding \in Nat
    BY AmountsAssumption
  <1>7. PICK x, y : x # y /\ Assets = {x, y}
    <2>1. IsFiniteSet(Assets) /\ Cardinality(Assets) = 2
      BY AssetsAssumption
    <2> QED
      BY <2>1, TwoMembers
  <1>8. /\ FirstBand[x] \in Bands /\ FirstBand[y] \in Bands \ {FirstBand[x]}
        /\ First = {FirstBand[x], FirstBand[y]}
    BY <1>7, AssetsAssumption
  <1>9. DuesMatchWallet
    <2>1. \A b \in Bands : /\ Dues[b] = IF b \in First THEN BaseAllocation ELSE 0
                           /\ Dues[b] \in Int
      BY <1>5, <1>6 DEF Dues, Due
    <2>2. PICK p \in Bands, q \in Bands : p # q /\ First = {p, q}
      BY <1>8
    <2>3. /\ \A b \in Bands : Dues[b] \in Int
          /\ \A b \in Bands \ {p, q} : Dues[b] = 0
          /\ Dues[p] = BaseAllocation /\ Dues[q] = BaseAllocation
      BY <2>1, <2>2
    <2> HIDE DEF First
    <2>4. SumFunctionOnSet(Dues, Bands) = Dues[p] + Dues[q]
      BY <2>2, <2>3, SumOfTwo, RowsAssumption
    <2>5. portfolio.free = Funding - 2 * BaseAllocation /\ wallet = Funding
      BY DEF Init
    <2> QED
      BY <1>6, <2>3, <2>4, <2>5 DEF DuesMatchWallet
  <1>10. SharesMatchFunding
    <2> SUFFICES ASSUME NEW a \in Assets
                 PROVE  funded[a] = SumFunctionOnSet(Shares(a), Bands)
      BY DEF SharesMatchFunding
    <2>1. FirstBand[a] \in Bands
      BY AssetsAssumption
    <2>2. \A b \in Bands : Shares(a)[b] = IF b = FirstBand[a] THEN BaseAllocation ELSE 0
      <3> TAKE b \in Bands
      <3>1. Shares(a)[b] = IF band[b].asset = a THEN band[b].allocated ELSE 0
        BY DEF Shares, Share
      <3>2. CASE b \in First
        <4>1. PICK c \in Assets : FirstBand[c] = b
          BY <3>2
        <4>2. band[b] = FundedBand(c, BaseAllocation)
          BY <1>1, <4>1
        <4>3. band[b].asset = c /\ band[b].allocated = BaseAllocation
          BY <4>2 DEF FundedBand
        <4> QED
          BY <3>1, <4>1, <4>3, AssetsAssumption
      <3>3. CASE b \notin First
        BY <1>1, <3>1, <3>3, AssetsAssumption DEF NoRow
      <3> QED
        BY <3>2, <3>3
    <2>3. SumFunctionOnSet(Shares(a), Bands) = BaseAllocation
      BY <1>6, <2>1, <2>2, SumOfOnly, RowsAssumption
    <2> QED
      BY <2>3 DEF Init
  <1>11. CostsMatchDeployed
    <2> SUFFICES ASSUME NEW b \in Bands
                 PROVE  band[b].deployed = SumFunctionOnSet(CostsIn(b), Execs)
      BY DEF CostsMatchDeployed
    <2>1. \A e \in Execs : CostsIn(b)[e] = 0
      BY DEF Init, CostsIn, CostIn, NoLot
    <2>2. SumFunctionOnSet(CostsIn(b), Execs) = 0
      BY <2>1, SumOfZeros, RowsAssumption
    <2> QED
      BY <1>5, <2>2
  <1> QED
    BY <1>3, <1>4, <1>9, <1>10, <1>11 DEF SumInv

\* Every step of an execution keeps the sums.
LEMMA ExecuteSums ==
    ASSUME Inv, Inv', SumInv, NEW b \in Bands, Execute(b)
    PROVE  SumInv'
  <1>1. CASE \E e \in Execs, q \in Quotes, z \in Zones, f \in FeeEstimates : PrepareBuy(b, e, q, z, f)
    BY <1>1, PrepareBuySums
  <1>2. CASE \E e, l \in Execs, f \in FeeEstimates : PrepareSell(b, e, l, f)
    BY <1>2, PrepareSellSums
  <1>3. CASE MarkUnknown(b)
    BY <1>3, MarkUnknownSums
  <1>4. ASSUME NEW f \in 0..attempt[b].estimate, NEW m \in 1..attempt[b].quote, b \in Busy, ReportBuy(b, m, f)
        PROVE  SumInv'
    <2>1. m \in Nat /\ f \in Nat
      BY <1>4, AmountsAssumption DEF Inv, TypeOK, Attempts, Busy
    <2> QED
      BY <1>4, <2>1, ReportSums
  <1>5. ASSUME NEW f \in 0..attempt[b].estimate, NEW m \in 1..(lot[attempt[b].lot].cost + MaxGain),
               b \in Busy, ReportSell(b, m, f)
        PROVE  SumInv'
    <2>1. m \in Nat /\ f \in Nat
      BY <1>5, AmountsAssumption DEF Inv, TypeOK, Attempts, Busy
    <2> QED
      BY <1>5, <2>1, ReportSums
  <1>6. ASSUME NEW f \in 0..attempt[b].estimate, b \in Busy, ReportFailure(b, f)
        PROVE  SumInv'
    <2>1. 0 \in Nat /\ f \in Nat
      BY <1>6, AmountsAssumption DEF Inv, TypeOK, Attempts, Busy
    <2> QED
      BY <1>6, <2>1, ReportSums
  <1>7. CASE CommitBuy(b)
    BY <1>7, CommitBuySums
  <1>8. CASE b \in Busy /\ \E r \in Released(b) : CommitSell(b, r)
    BY <1>8, CommitSellSums
  <1>9. CASE CommitFailed(b)
    BY <1>9, CommitFailedSums
  <1> QED
    BY <1>1, <1>2, <1>3, <1>4, <1>5, <1>6, <1>7, <1>8, <1>9 DEF Execute

\* Every step of the operator on a band keeps the sums.
LEMMA OperateSums ==
    ASSUME Inv, Inv', SumInv, NEW b \in Bands, Operate(b)
    PROVE  SumInv'
  <1>1. ASSUME NEW s, Halt(b, s) PROVE SumInv'
    BY <1>1, SameRowsSums DEF Halt, accounts
  <1>2. CASE Resume(b)
    BY <1>2, SameRowsSums DEF Resume, accounts
  <1>3. CASE Archive(b)
    BY <1>3, ArchiveSums
  <1> QED
    BY <1>1, <1>2, <1>3 DEF Operate

\* Every step keeps the sums, given the invariant before and after it.
LEMMA NextSums == Inv /\ Inv' /\ SumInv /\ [Next]_vars => SumInv'
  <1> SUFFICES ASSUME Inv, Inv', SumInv, [Next]_vars PROVE SumInv'
    OBVIOUS
  <1>1. ASSUME NEW b \in Bands, Manage(b) PROVE SumInv'
    BY <1>1, SetBandSums, CreateBandSums DEF Manage, Park, Reactivate
  <1>2. ASSUME NEW b \in Bands, Execute(b) PROVE SumInv'
    BY <1>2, ExecuteSums
  <1>3. ASSUME NEW b \in Bands, Operate(b) PROVE SumInv'
    BY <1>3, OperateSums
  <1>4. CASE TopUpFees
    <2>1. portfolio'.free = portfolio.free
      BY <1>4 DEF TopUpFees, Inv, TypeOK
    <2> QED
      BY <1>4, <2>1, SameRowsSums DEF TopUpFees
  <1>5. CASE Activate
    <2>1. portfolio'.free = portfolio.free
      BY <1>5 DEF Activate, Inv, TypeOK
    <2> QED
      BY <1>5, <2>1, SameRowsSums DEF Activate
  <1>6. CASE UNCHANGED vars
    BY <1>6, SameRowsSums DEF vars, accounts
  <1> QED
    BY <1>1, <1>2, <1>3, <1>4, <1>5, <1>6 DEF Next

-----------------------------------------------------------------------------

\* Whatever the portfolio does, its accounts satisfy the inductive invariant.
THEOREM InvHolds == Spec => []Inv
  BY InitInv, NextInv, PTL DEF Spec

\* No amount in the database goes negative: not the free pool, not a band's
\* cash, reservation or deployed cost, not the fee envelope.
THEOREM CapitalTypeCorrect == Spec => []TypeOK
<1>1. Inv => TypeOK
  BY DEF Inv
<1>2. QED
  BY <1>1, InvHolds, PTL

\* Cash is reserved for the pending buy of the band and nothing else, the band
\* holds it, and a reservation that blocks the portfolio has an attempt whose
\* settlement ends it.
THEOREM ReservationsAreExact == Spec => []ReservedForPendingBuy
<1>1. Inv => ReservedForPendingBuy
  BY DEF Inv
<1>2. QED
  BY <1>1, InvHolds, PTL

\* The balance in a bot's snapshots is always the cash of its band, although
\* they are written by different code: the run's plan, settlePortfolioExecution
\* and archivePaperPortfolioBand.
THEOREM BooksAlwaysMatchBand == Spec => []BooksMatchBand
<1>1. Inv => BooksMatchBand
  BY DEF Inv
<1>2. QED
  BY <1>1, InvHolds, PTL

\* Assigned capital is accounted for as cash, deployed cost or recorded loss;
\* exactly so on paper, with the fee allowances on top when live.
THEOREM BandsAlwaysAccount == Spec => []BandAccounts
<1>1. Inv => BandAccounts
  BY DEF Inv
<1>2. QED
  BY <1>1, InvHolds, PTL

\* No price zone of an asset is ever entered twice, by whatever bands and
\* however their buys overlap.
THEOREM OneEntryPerZoneHolds == Spec => []OneEntryPerZone
<1>1. Inv => OneEntryPerZone
  BY DEF Inv
<1>2. QED
  BY <1>1, InvHolds, PTL

\* The envelope always holds the fee of what is executing on a live portfolio.
THEOREM FeesAreFunded == Spec => []FeeIsFunded
<1>1. Inv => FeeIsFunded
  BY DEF Inv
<1>2. QED
  BY <1>1, InvHolds, PTL

\* A band that was closed stays without cash, inventory and attempts.
THEOREM ClosedBandsAreEmpty == Spec => []ClosedIsEmpty
<1>1. Inv => ClosedIsEmpty
  BY DEF Inv
<1>2. QED
  BY <1>1, InvHolds, PTL

\* The rows of a band agree: its snapshots with its cash, its zones with those
\* of its asset's other bands, a closed status with an empty band.
THEOREM BandsStayConsistent == Spec => []BandsAreConsistent
<1>1. BooksMatchBand /\ OneEntryPerZone /\ ClosedIsEmpty => BandsAreConsistent
  BY DEF BandsAreConsistent
<1>2. QED
  BY <1>1, BooksAlwaysMatchBand, OneEntryPerZoneHolds, ClosedBandsAreEmpty, PTL

\* The sums hold in every history of a portfolio.
THEOREM SumsHold == Spec => [](Inv /\ SumInv)
<1>1. Init => Inv /\ SumInv
  BY InitInv, InitSums
<1>2. Inv /\ SumInv /\ [Next]_vars => (Inv /\ SumInv)'
  BY NextInv, NextSums
<1>3. QED
  BY <1>1, <1>2, PTL DEF Spec

\* Capital is conserved: the free pool and the cash of the open bands are exactly
\* the USDC there is, but for swaps still to be booked.  Creating and closing
\* bands, spending less than was reserved, losing swaps and sweeping profits
\* neither lose nor duplicate a unit, so what assertLiveWalletCapital adds up
\* never exceeds the wallet by more than the swaps it refuses to run beside.
THEOREM ClaimsAlwaysMatchWallet == Spec => []ClaimsMatchWallet
<1>1. Inv /\ SumInv => ClaimsMatchWallet
  BY ClaimsFollow DEF Inv, SumInv
<1>2. QED
  BY <1>1, SumsHold, PTL

\* The funding by which the manager compares assets, and caps their exposure, is
\* what their bands were given and have not returned.
THEOREM FundingAlwaysMatchesBands == Spec => []FundingMatchesBands
<1>1. Inv /\ SumInv => FundingMatchesBands
  BY FundingFollows DEF Inv, SumInv
<1>2. QED
  BY <1>1, SumsHold, PTL

\* The deployed cost of a band is always the cost of its open lots, so no sell is
\* ever refused because it releases more than is deployed.
THEOREM DeployedAlwaysIsOpenLots == Spec => []DeployedIsOpenLots
<1>1. Inv /\ SumInv => DeployedIsOpenLots
  BY DeployedFollows DEF Inv, SumInv
<1>2. QED
  BY <1>1, SumsHold, PTL
=============================================================================
