--------------------------- MODULE ShadowDecisions ---------------------------
(***************************************************************************)
(* The counterfactual choices frozen with a shadow observation: which grid *)
(* geometries and which new exit targets an outside judge may compare with *)
(* what the policy decided.  Three pure steps: candidates under the        *)
(* policy's own assumptions, the merge with experiments priced from the    *)
(* costs observed, and the exits of the lots that are open.                *)
(*                                                                         *)
(* A geometry [low, high, count] has evenly spaced rails, so a spacing is  *)
(* the fraction (high - low) / (count - 1) and is never divided out.       *)
(* Prices are whole, targets hundredths of a price, costs whole percents.  *)
(* Channel, EMA and volatility only propose a geometry: any is tried.      *)
(***************************************************************************)
EXTENDS Integers, Sequences, FiniteSets, FiniteSetsExt, SequencesExt

CONSTANTS
  Geometries,     \* what bands, proposals and indicators may propose
  Reserve,        \* the one geometry of a reserve-funded band, by rail count
  MaxLevels, MinWidth, MaxWidth,   \* parameters of the policy, widths in percent
  MinUseful,      \* minUsefulOrderUsd
  MaxBands, Total, MaxExposure,
  Bucket,         \* [min, max): notionals the cost profile was observed for
  Policies,       \* inputs of one observation: the policy's side
  Assumed,        \* the policy's cost estimate, [slip, fee] in percent
  Profiles,       \* observed costs, [slip, fee, native]
  LotSets,        \* the open lots and their commitments
  Clamps,         \* how far an exit may move, in percent, 0 when unknown
  MinGain, MinRetained,
  NoProfile, None

MaxCandidates == 6
ShadowAssumption ==
  /\ MaxLevels \in Nat \ {0, 1} /\ MinUseful \in Nat \ {0} /\ Total \in Nat \ {0}
  /\ \A g \in Geometries : 0 < g.low /\ g.low < g.high /\ g.count \in 2..MaxLevels
  /\ None \notin Geometries /\ NoProfile \notin Profiles

VARIABLES
  policy,      \* policyInput, proposedDecision and options
  profile,     \* the observed cost profile, or NoProfile
  lots,        \* the captured lots
  stage,       \* how far the set is built
  candidates,  \* grid.candidates, in their order
  named,       \* policyCandidateId
  exits        \* exit.candidates besides "keep": kind -> updates

vars == <<policy, profile, lots, stage, candidates, named, exits>>

Width(g) == g.high - g.low
Gaps(g) == g.count - 1

\* A round trip at slip and fee per side, plus a quarter of a percent, as the fraction CostNum / CostDen.
CostDen(c) == 400 * (100 - c.slip) * (100 - c.fee)
CostNum(c) == 80000 * (c.slip + c.fee) + (100 - c.slip) * (100 - c.fee)
CoversCosts(g, c) == Width(g) * CostDen(c) >= CostNum(c) * Gaps(g) * g.high

\* |rail - entry| is within half of the wider of the two spacings.
Blocks(entry, g, i, band) ==
  LET off == g.low * Gaps(g) + i * Width(g) - entry * Gaps(g)
      far == IF off < 0 THEN -off ELSE off
  IN \/ 2 * far <= Width(g)
     \/ 2 * far * Gaps(band) <= Width(band) * Gaps(g)
HasFreeRail(g) ==
  \E i \in 0..(g.count - 2) : \A e \in policy.entries : ~Blocks(e, g, i, policy.band)

RequestedCapital(action, g) == IF action = "create_band" THEN MinUseful * Gaps(g) ELSE 0
WithinExposure(capital) == (policy.attributed + capital) * 100 <= MaxExposure * Total

HoldsPrice(g) == g.low <= policy.price /\ policy.price <= g.high
FitsWidth(g, least) ==
  /\ Width(g) * 200 >= least * (g.low + g.high)
  /\ Width(g) * 200 <= MaxWidth * (g.low + g.high)
Fundable(capital) ==
  /\ policy.bands < MaxBands
  /\ policy.cash >= capital
  /\ WithinExposure(capital)
  /\ ~policy.unknown
  /\ policy.leastFunded

\* validateCandidate: no reason to reject.  least and cost are minWidthPct and the costs assumed.
Validates(c, least, cost) ==
  /\ c.action = "revise" /\ c.kind # "policy" => c.grid # policy.band
  /\ FitsWidth(c.grid, least)
  /\ CoversCosts(c.grid, cost)
  /\ c.action \in {"revise", "create_band"} => HoldsPrice(c.grid) /\ HasFreeRail(c.grid)
  /\ c.action = "revise" => policy.idle >= MinUseful
  /\ c.action = "create_band" => Fundable(c.capital)

Candidate(kind, action, g) ==
  [kind |-> kind, action |-> action, grid |-> g, capital |-> RequestedCapital(action, g),
   valid |-> FALSE, eligible |-> FALSE]

Decided == policy.decision
Keep == Candidate("keep", "keep", policy.band)
Proposal == Candidate("policy", Decided.action,
                      IF Decided.action \in {"park", "reactivate"} THEN policy.band ELSE Decided.grid)

Eligible(c) == c.kind = "policy" \/ (c.kind = "keep" /\ Decided.action = "wait")
SameKey(c, d) == c.action = d.action /\ c.grid = d.grid

\* add(candidate, retainBaseline) on top of the list so far.
Add(list, c, retain, least, cost) ==
  LET ok == Validates(c, least, cost)
      put == [c EXCEPT !.valid = ok, !.eligible = Eligible(c)]
  IN IF \/ Len(list) >= MaxCandidates
        \/ \E i \in DOMAIN list : SameKey(list[i], c)
        \/ ~ok /\ ~retain
     THEN list ELSE Append(list, put)

\* KEEP, the proposal, then the three experiments around the proposal or around the band.
Baselines(least, cost) ==
  LET kept == Add(<<>>, Keep, TRUE, least, cost)
  IN IF Decided.action = "wait" THEN kept
     ELSE Add(kept, Proposal, Decided.action \in {"park", "reactivate"}, least, cost)
VariantAction == IF Decided.action = "create_band" THEN "create_band" ELSE "revise"
Variants(list, shapes, least, cost) ==
  IF Decided.action \in {"park", "reactivate"} THEN list
  ELSE FoldLeft(LAMBDA acc, v : IF v[2] = None THEN acc
                                ELSE Add(acc, Candidate(v[1], VariantAction, v[2]), FALSE, least, cost),
                list, <<<<"donchian", shapes[1]>>, <<"drift", shapes[2]>>, <<"density", shapes[3]>>>>)

\* The channel and the EMA are fitted around the price first; the density keeps the anchor's rails.
Anchor == IF Decided.action \in {"revise", "create_band"} THEN Decided.grid ELSE policy.band
Fitted(least) == {g \in Geometries : FitsWidth(g, least) /\ HoldsPrice(g)}
Dense == {g \in Geometries : g.low = Anchor.low /\ g.high = Anchor.high}
Shapes(least) == (Fitted(least) \cup {None}) \X (Fitted(least) \cup {None}) \X (Dense \cup {None})

Init ==
  /\ policy \in Policies /\ profile \in Profiles \cup {NoProfile} /\ lots \in LotSets
  /\ stage = "capture" /\ candidates = <<>> /\ named = None /\ exits = << >>

Listed(list, kind) == \E i \in DOMAIN list : list[i].kind = kind

\* A proposal the shadow's own admission rejects is put back, right after KEEP.
Retain(list) ==
  IF Decided.action = "wait" \/ Listed(list, "policy") THEN list
  ELSE SubSeq(InsertAt(list, 2, [Proposal EXCEPT !.eligible = TRUE]), 1,
              Min({MaxCandidates, Len(list) + 1}))

BuildLegacy ==
  /\ stage = "capture" /\ stage' = "legacy"
  /\ \E shapes \in Shapes(MinWidth) :
       candidates' = Retain(Variants(Baselines(MinWidth, Assumed), shapes, MinWidth, Assumed))
  /\ named' = IF Decided.action = "wait" THEN "keep" ELSE "policy"
  /\ UNCHANGED <<policy, profile, lots, exits>>

\* isShadowCostProfileUsable: a complete, causal profile of this bot, and its lots were captured.
Usable == profile # NoProfile /\ policy.captured
MinOrder == Max({MinUseful, Bucket.min})
InBucket(amount, orders) == Bucket.min * orders <= amount /\ amount < Bucket.max * orders
Exact == SelectSeq(candidates, LAMBDA c : c.kind \in {"keep", "policy"})
ShadowMinWidth == 2
\* The native fee is spread over the smallest order, so it raises the fee an experiment has to pay.
Observed == [slip |-> profile.slip, fee |-> profile.fee + (profile.native * 100) \div MinOrder]
IsExperiment(c) ==
  /\ c.kind \notin {"keep", "policy"}
  /\ \A i \in DOMAIN Exact : Exact[i].grid # c.grid
  /\ InBucket(IF c.action = "create_band" THEN c.capital ELSE policy.allocated, Gaps(c.grid))
Experiments(shapes) ==
  SelectSeq(Variants(Baselines(ShadowMinWidth, Observed), shapes, ShadowMinWidth, Observed), IsExperiment)

FundingBudget == Min({policy.cash, Max({0, (Total * MaxExposure) \div 100 - policy.attributed})})
CoveredLevels(g) == (Width(g) * CostDen(Observed)) \div (CostNum(Observed) * g.high) + 1
ReserveLevels ==
  Max({2, Min({MaxLevels, FundingBudget \div MinOrder + 1, CoveredLevels(Reserve[2])})})
WantsReserve(list) ==
  /\ policy.idle < MinOrder /\ policy.cash >= 2 * MinOrder
  /\ policy.bands < MaxBands /\ ~policy.unknown /\ policy.leastFunded
  /\ Len(list) < MaxCandidates
ReserveBand ==
  LET g == Reserve[ReserveLevels]
  IN [Candidate("reserve", "create_band", g) EXCEPT !.capital = MinOrder * Gaps(g), !.valid = TRUE]
WithReserve(list) ==
  IF /\ WantsReserve(list)
     /\ ReserveBand.capital <= FundingBudget
     /\ WithinExposure(ReserveBand.capital)
     /\ ReserveBand.grid # policy.band
  THEN Append(list, ReserveBand) ELSE list

\* A V4 set: the exact baselines, the experiments, and a band the idle reserve could fund.
Merge ==
  /\ stage = "legacy" /\ stage' = "grid"
  /\ IF Usable
     THEN \E shapes \in Shapes(ShadowMinWidth) :
            LET all == Exact \o Experiments(shapes)
            IN candidates' = WithReserve(SubSeq(all, 1, Min({MaxCandidates, Len(all)})))
     ELSE UNCHANGED candidates
  /\ UNCHANGED <<policy, profile, lots, named, exits>>

CeilDiv(a, b) == -((-a) \div b)
NetOf(c) == (100 - c.slip) * (100 - c.fee)   \* of 10,000
LeastGain(l) == IF l.rule = "accumulate_usdc" THEN Max({MinGain, l.cost \div 1000}) ELSE 0
LeastKept(l) == IF l.rule = "accumulate_base" THEN Max({MinRetained, CeilDiv(l.qty, 1000)}) ELSE 0
Saleable(l) == l.qty - LeastKept(l)
FloorTarget(l) == CeilDiv((l.cost + profile.native + LeastGain(l)) * 1000000, Saleable(l) * NetOf(profile))
Desired(l, kind, clamp) == l.target * (IF kind = "closer" THEN 100 - clamp ELSE 100 + clamp)
\* Fault: the floor of the costs is forgotten.
NextTargetUnpaid(l, kind, clamp) == Desired(l, kind, clamp)
NextTarget(l, kind, clamp) == Max({FloorTarget(l), Desired(l, kind, clamp)})
Distance(l, next) == IF next < l.target * 100 THEN l.target * 100 - next ELSE next - l.target * 100
Moves(l, kind, clamp) ==
  LET next == NextTarget(l, kind, clamp)
  IN /\ Distance(l, next) <= clamp * l.target
     /\ kind = "closer" => next < l.target * 100
Known(l) == l.status = "KNOWN" /\ l.rule \in {"accumulate_base", "accumulate_usdc"}
Notional(l, kind, clamp) ==
  IF l.rule = "accumulate_base" THEN l.cost * 100 ELSE l.qty * NextTarget(l, kind, clamp)
Priced(l, kind, clamp) ==
  /\ Saleable(l) > 0
  /\ Bucket.min * 100 <= Notional(l, kind, clamp) /\ Notional(l, kind, clamp) < Bucket.max * 100
\* One lot that cannot be judged rejects the whole candidate.
Updates(kind, clamp) ==
  IF \A l \in lots : Known(l) /\ Priced(l, kind, clamp)
  THEN {[lot |-> l, next |-> NextTarget(l, kind, clamp)] : l \in {m \in lots : Moves(m, kind, clamp)}}
  ELSE {}

BuildExits ==
  /\ stage = "grid" /\ stage' = "done"
  /\ \E clamp \in Clamps :
       exits' = IF Usable /\ clamp > 0
                THEN [kind \in {k \in {"closer", "farther"} : Updates(k, clamp) # {}} |->
                        [clamp |-> clamp, updates |-> Updates(kind, clamp)]]
                ELSE << >>
  /\ UNCHANGED <<policy, profile, lots, candidates, named>>

Next == BuildLegacy \/ Merge \/ BuildExits
Spec == Init /\ [][Next]_vars

-----------------------------------------------------------------------------
Kinds == {"keep", "policy", "donchian", "drift", "density", "reserve"}
\* The variables stay in their domains.
TypeOK ==
  /\ stage \in {"capture", "legacy", "grid", "done"} /\ named \in {"keep", "policy", None}
  /\ \A i \in DOMAIN candidates :
       /\ candidates[i].kind \in Kinds /\ candidates[i].capital \in Nat
       /\ {candidates[i].valid, candidates[i].eligible} \subseteq BOOLEAN
  /\ DOMAIN exits \subseteq {"closer", "farther"}

Built == stage \in {"legacy", "grid", "done"}
List == {candidates[i] : i \in DOMAIN candidates}
Admitted == {c \in List : c.valid}

\* What the policy really decided is always among the choices, exactly as it was proposed, and it is the only one
\* the live policy would take -- also when the shadow's own admission rejects it and the experiments are merged in.
ProposalIsCompared ==
  Built => \E c \in List :
    /\ c.kind = named /\ c.action = (IF named = "keep" THEN "keep" ELSE Decided.action)
    /\ c.grid = IF named = "policy" THEN Proposal.grid ELSE policy.band
    /\ {d \in List : d.eligible} = {c}

\* An experiment is priced with the costs that were observed, not with the policy's estimate: its rails pay for a
\* round trip, it holds the price, and its orders have the size the costs were observed for.
ExperimentsCoverCosts ==
  Usable /\ stage \in {"grid", "done"} => \A c \in List : c.kind \in {"donchian", "drift", "density"} =>
    /\ CoversCosts(c.grid, Observed) /\ HoldsPrice(c.grid)
    /\ InBucket(IF c.action = "create_band" THEN c.capital ELSE policy.allocated, Gaps(c.grid))
    /\ \A d \in List \ {c} : d.kind # "reserve" => d.grid # c.grid

\* A new band that is admitted, the reserve's too, can be paid from the cash there is, stays under the asset's
\* exposure and the number of bands, and is not offered over an exit nobody knows or another asset's turn.
BandsAreFundable ==
  \A c \in Admitted : c.action = "create_band" => Fundable(c.capital) /\ c.capital >= MinUseful * Gaps(c.grid)

\* A target that is moved still pays for the lot, the native fee and the least gain, or leaves the least base, after
\* slippage and fees; "closer" only comes closer, "farther" goes farther, and neither by more than the clamp.
ExitsStayPaid ==
  \A k \in DOMAIN exits : \A u \in exits[k].updates :
    /\ (u.next * Saleable(u.lot)) * NetOf(profile) >= (u.lot.cost + profile.native + LeastGain(u.lot)) * 1000000
    /\ k = "closer" => u.next < u.lot.target * 100
    /\ k = "farther" => u.next > u.lot.target * 100
    /\ Distance(u.lot, u.next) <= exits[k].clamp * u.lot.target

\* No exit candidate is offered while one open lot's commitment is unknown or outside of what was observed.
ExitsAreJudgedWhole ==
  DOMAIN exits # {} => Usable /\ \A l \in lots : l.status = "KNOWN" /\ l.qty > LeastKept(l)

=============================================================================
