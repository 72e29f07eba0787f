--------------------------- MODULE PortfolioPlan ---------------------------
(***************************************************************************)
(* PortfolioRiskEngine.build_plan: which of the ranked picks get capital,  *)
(* and how much.  The picks are looked at one by one; what the earlier     *)
(* ones took (capital, sector exposure, correlated positions) decides      *)
(* about the later ones.  Money is whole, shares of the capital are whole  *)
(* percentages, divisions round down as the code's floor does.             *)
(***************************************************************************)
EXTENDS Integers, Sequences, FiniteSets, Folds

CONSTANTS Picks,         \* every pick that may be planned
          PlanConfigs,   \* PortfolioPlanningConfig
          Drawdowns,     \* [daily, rolling], percentages
          Unlabelled, NoAtr \* a sector or cluster, an ATR, that is missing

Natural(x) == x \in Nat
Percent(x) == x \in 0 .. 100

\* What __post_init__ of the trade plan and of the configuration enforces.
PickOK(p) ==
  /\ Natural(p.entry) /\ Natural(p.stop) /\ p.stop < p.entry
  /\ p.atr = NoAtr \/ (Natural(p.atr) /\ p.atr > 0)
  /\ Natural(p.conviction)

ConfigOK(c) ==
  /\ Natural(c.capital)
  /\ Percent(c.reserve) /\ Percent(c.deployed) /\ Percent(c.perPosition)
  /\ Percent(c.tradeRisk) /\ Percent(c.riskPerTrade) /\ Percent(c.sector)
  /\ Percent(c.fixedFraction) /\ Percent(c.reduceRisk)
  /\ Natural(c.maxPositions) /\ Natural(c.maxCorrelated)
  /\ c.maxPositions > 0 /\ c.maxCorrelated > 0

ASSUME PlanAssumption ==
  /\ \A p \in Picks : PickOK(p)
  /\ \A c \in PlanConfigs : ConfigOK(c)

VARIABLES cfg, drawdown,     \* the arguments of the engine
          plan               \* the local variables and the result of build_plan

planVars == <<cfg, drawdown, plan>>

PickedSymbols == {p.symbol : p \in Picks}
Sectors == {p.sector : p \in Picks}

\* Picks without a cluster are taken to move with those of the same strategy
\* and horizon.
CorrelationBucket(p) ==
  IF p.cluster # Unlabelled THEN <<p.cluster>> ELSE <<p.strategy, p.horizon>>
Buckets == {CorrelationBucket(p) : p \in Picks}

Least(x, y) == IF x < y THEN x ELSE y
Part(amount, pct) == (amount * pct) \div 100

-----------------------------------------------------------------------------
(* Drawdown mode and budgets                                               *)

DrawdownMode ==
  IF drawdown.daily >= cfg.maxDaily \/ drawdown.rolling >= cfg.maxRolling
  THEN IF cfg.pause THEN "no_new_risk" ELSE "reduced_risk"
  ELSE IF drawdown.daily >= cfg.reduceDaily \/ drawdown.rolling >= cfg.reduceRolling
  THEN "reduced_risk" ELSE "normal"

RiskMultiplier == IF DrawdownMode = "reduced_risk" THEN cfg.reduceRisk ELSE 100

MaxDeploy ==
  Part(Least(Part(cfg.capital, 100 - cfg.reserve), Part(cfg.capital, cfg.deployed)),
       RiskMultiplier)

PositionCap == Part(cfg.capital, cfg.perPosition)
SectorCap == Part(cfg.capital, cfg.sector)
TradeRiskCap == Part(Part(cfg.capital, cfg.tradeRisk), RiskMultiplier)
RiskBudget == Part(Part(cfg.capital, cfg.riskPerTrade), RiskMultiplier)

-----------------------------------------------------------------------------
(* Weights: one per symbol; of two picks of a symbol the later one counts  *)

RawWeight(p) ==
  LET volatility == IF p.atr # NoAtr THEN p.atr ELSE p.entry - p.stop
  IN  IF cfg.allocation = "equal_weight" THEN 1
      ELSE IF cfg.allocation = "conviction_weighted"
      THEN IF p.conviction > 1 THEN p.conviction ELSE 1
      ELSE (100 * p.entry) \div volatility

\* What the weight of a pick is of the capital that may be deployed; equal shares
\* should the weights vanish.
Share(p) ==
  IF plan.total > 0 THEN (MaxDeploy * plan.weights[p.symbol]) \div plan.total
  ELSE MaxDeploy \div plan.picked

-----------------------------------------------------------------------------
(* Sizing of one pick                                                      *)

Remaining == MaxDeploy - plan.deployed

\* Broken variant: what the sector has taken is not looked at.
SectorRoom_Whole(p) == SectorCap
SectorRoom(p) == SectorCap - plan.exposure[p.sector]

Target(p) == Least(SectorRoom(p), Least(PositionCap, Least(Remaining, Share(p))))

ByAtr(p) == cfg.sizing = "atr_based" /\ p.atr # NoAtr
RiskPerUnit(p) == IF ByAtr(p) THEN p.atr ELSE p.entry - p.stop

WholeUnits(p) == Target(p) \div p.entry

SizedUnits(p) ==
  Least(WholeUnits(p),
        IF cfg.sizing = "fixed_fractional"
        THEN Part(Target(p), cfg.fixedFraction) \div p.entry
        ELSE RiskBudget \div RiskPerUnit(p))

\* The position after the cap on the risk of one trade.
Quantity(p) ==
  IF SizedUnits(p) * RiskPerUnit(p) > TradeRiskCap
  THEN TradeRiskCap \div RiskPerUnit(p) ELSE SizedUnits(p)

\* Why the pick is turned down, in the order of the checks; "none" if it fits.
RejectionReason(p) ==
  IF Len(plan.items) >= cfg.maxPositions THEN "max_positions_reached"
  ELSE IF Remaining <= 0 THEN "max_capital_deployed_reached"
  ELSE IF SectorRoom(p) <= 0 THEN "max_sector_exposure_reached"
  ELSE IF Target(p) <= 0 THEN "zero_target_allocation"
  ELSE IF plan.bucketCounts[CorrelationBucket(p)] >= cfg.maxCorrelated
  THEN "max_correlated_exposure_reached"
  ELSE IF WholeUnits(p) < 1 THEN "allocation_too_small_for_one_unit"
  ELSE IF SizedUnits(p) < 1 THEN "invalid_position_size"
  ELSE IF Quantity(p) < 1 THEN "max_per_trade_risk_rejection"
  ELSE "none"

Item(p) == [pick |-> p, quantity |-> Quantity(p), notional |-> Quantity(p) * p.entry,
            risk |-> Quantity(p) * RiskPerUnit(p)]

-----------------------------------------------------------------------------

NoPlan == [phase |-> "idle", toWeigh |-> <<>>, queue |-> <<>>, picked |-> 0,
           weights |-> [s \in PickedSymbols |-> 0], total |-> 0,
           items |-> <<>>, rejected |-> {}, deployed |-> 0,
           exposure |-> [s \in Sectors |-> 0],
           bucketCounts |-> [b \in Buckets |-> 0]]

\* ps is sorted by priority rank: the picks come ranked from the pick engine.
StartPlan(ps) ==
  /\ plan.phase = "idle"
  /\ IF DrawdownMode = "no_new_risk"
     THEN plan' = [plan EXCEPT !.phase = "planned",
                     !.rejected = {[pick |-> ps[i],
                                    reason |-> "drawdown_pause_no_new_risk"] :
                                     i \in DOMAIN ps}]
     ELSE plan' = [plan EXCEPT !.phase = IF ps = <<>> THEN "planned" ELSE "weighing",
                               !.toWeigh = ps, !.queue = ps, !.picked = Len(ps)]
  /\ UNCHANGED <<cfg, drawdown>>

\* The dictionary of raw weights and their sum.
WeighPick(p) ==
  plan' = [plan EXCEPT !.toWeigh = Tail(@), !.weights[p.symbol] = RawWeight(p),
                       !.total = (@ - plan.weights[p.symbol]) + RawWeight(p)]

\* Broken variant: the totals get the position as it was before
\* the cap on the risk of one trade.
SelectPick_CountsUncapped(p) ==
  /\ RejectionReason(p) = "none"
  /\ plan' = [plan EXCEPT !.queue = Tail(@), !.items = Append(@, Item(p)),
                          !.deployed = @ + SizedUnits(p) * p.entry,
                          !.exposure[p.sector] = @ + SizedUnits(p) * p.entry,
                          !.bucketCounts[CorrelationBucket(p)] = @ + 1]
SelectPick(p) ==
  /\ RejectionReason(p) = "none"
  /\ plan' = [plan EXCEPT !.queue = Tail(@), !.items = Append(@, Item(p)),
                          !.deployed = @ + Item(p).notional,
                          !.exposure[p.sector] = @ + Item(p).notional,
                          !.bucketCounts[CorrelationBucket(p)] = @ + 1]

RejectPick(p) ==
  /\ RejectionReason(p) # "none"
  /\ plan' = [plan EXCEPT !.queue = Tail(@),
                          !.rejected = @ \cup {[pick |-> p,
                                                reason |-> RejectionReason(p)]}]

PlanNext ==
  /\ UNCHANGED <<cfg, drawdown>>
  /\ \/ /\ plan.phase = "weighing" /\ plan.toWeigh # <<>>
        /\ WeighPick(Head(plan.toWeigh))
     \/ /\ plan.phase = "weighing" /\ plan.toWeigh = <<>>
        /\ plan' = [plan EXCEPT !.phase = "planning"]
     \/ /\ plan.phase = "planning" /\ plan.queue # <<>>
        /\ SelectPick(Head(plan.queue)) \/ RejectPick(Head(plan.queue))
     \/ /\ plan.phase = "planning" /\ plan.queue = <<>>
        /\ plan' = [plan EXCEPT !.phase = "planned"]

PlanInit == cfg \in PlanConfigs /\ drawdown \in Drawdowns /\ plan = NoPlan

PlanSpec ==
  PlanInit /\ [][(\E ps \in Seq(Picks) : StartPlan(ps)) \/ PlanNext]_planVars

-----------------------------------------------------------------------------
(* Properties                                                              *)

\* What the loop has handed out never exceeds a budget: the capital that may
\* be deployed in this drawdown mode (the cash reserve stays untouched), each
\* sector's share of the capital, the correlated positions.
BudgetsHold ==
  /\ plan.deployed <= MaxDeploy
  /\ \A s \in Sectors : plan.exposure[s] <= SectorCap
  /\ \A b \in Buckets : plan.bucketCounts[b] <= cfg.maxCorrelated
  /\ Len(plan.items) <= cfg.maxPositions
  /\ DrawdownMode = "no_new_risk" => plan.items = <<>>

\* The running totals the loop decides by are those of the positions it chose,
\* each of which respects the caps on one position and on one trade - and, had
\* it been sized by the distance to its stop, loses no more than that there.
ItemsMatchTotals ==
  LET items == plan.items
      Invested(in) == MapThenFoldSet(LAMBDA x, y : x + y, 0,
                                     LAMBDA i : items[i].notional,
                                     LAMBDA S : CHOOSE i \in S : TRUE, in)
      Of(P(_)) == {i \in DOMAIN items : P(items[i].pick)}
  IN  /\ plan.deployed = Invested(DOMAIN items)
      /\ \A s \in Sectors : plan.exposure[s] = Invested(Of(LAMBDA p : p.sector = s))
      /\ \A b \in Buckets :
           plan.bucketCounts[b] = Cardinality(Of(LAMBDA p : CorrelationBucket(p) = b))
      /\ \A i \in DOMAIN items :
           LET it == items[i]
           IN  /\ it.quantity > 0 /\ it.notional <= PositionCap
               /\ it.risk <= TradeRiskCap
               /\ ~ByAtr(it.pick) =>
                    it.quantity * (it.pick.entry - it.pick.stop) <= TradeRiskCap
=============================================================================
