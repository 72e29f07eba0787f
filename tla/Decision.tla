------------------------------ MODULE Decision ------------------------------
(***************************************************************************)
(* scripts/run_decision.py: the scan of the monitor, or the one a caller   *)
(* hands over, goes through the pick engine and the portfolio planner, and *)
(* is written down for the paper runner.  The planner knows its positions  *)
(* by symbol only, and so does the hand-off.                               *)
(***************************************************************************)
EXTENDS PickEngine, PortfolioPlan

CONSTANTS GivenScans   \* sets of opportunities a caller may hand over

ASSUME GivenScansAssumption == \A given \in GivenScans : IsScan(given)

VARIABLE handoff       \* rows of paper_handoff_candidates.csv

decisionVars == <<scanVars, pickVars, planVars, handoff>>

\* The planner reads sector, cluster and ATR from the metadata of the setup.
PlannedPick(c) ==
  [symbol |-> c.setup.symbol, strategy |-> c.setup.strategy, horizon |-> c.horizon,
   sector |-> c.setup.sector, cluster |-> c.setup.cluster,
   entry |-> c.setup.entry, stop |-> c.setup.stop,
   atr |-> IF "atr" \in DOMAIN c.setup THEN c.setup.atr ELSE NoAtr,
   conviction |-> c.conviction]

PlannedPicks == [i \in DOMAIN picks.selected |-> PlannedPick(picks.selected[i])]

\* Every selected pick gets a row, with what portfolio_by_symbol has for it: the
\* last planned position of its symbol, or nothing.
Row(p) ==
  LET items == {plan.items[i] : i \in {j \in DOMAIN plan.items :
                                        /\ plan.items[j].pick.symbol = p.symbol
                                        /\ \A k \in DOMAIN plan.items :
                                             plan.items[k].pick.symbol = p.symbol
                                               => k <= j}}
  IN  [pick |-> p, quantity |-> {it.quantity : it \in items},
       allocation |-> {it.notional : it \in items}]

WriteHandoff ==
  /\ plan.phase = "planned" /\ handoff = <<>>
  /\ handoff' = [i \in DOMAIN PlannedPicks |-> Row(PlannedPicks[i])]
  /\ UNCHANGED <<scanVars, pickVars, planVars>>

DecisionInit == ScanInit /\ PickInit /\ PlanInit /\ handoff = <<>>

DecisionNext ==
  \/ /\ picks.phase = "idle"
     /\ ScanNext /\ UNCHANGED <<pickVars, planVars, handoff>>
  \/ /\ scan.phase = "done"
     /\ StartPicking(scan.found) /\ UNCHANGED <<scanVars, planVars, handoff>>
  \/ /\ scan = ScanOf(Watchlist)
     /\ \E given \in GivenScans : StartPicking(given)
     /\ UNCHANGED <<scanVars, planVars, handoff>>
  \/ PickNext /\ UNCHANGED <<scanVars, planVars, handoff>>
  \/ /\ picks.phase = "picked"
     /\ StartPlan(PlannedPicks) /\ UNCHANGED <<scanVars, pickVars, handoff>>
  \/ PlanNext /\ UNCHANGED <<scanVars, pickVars, handoff>>
  \/ WriteHandoff

DecisionSpec == DecisionInit /\ [][DecisionNext]_decisionVars

-----------------------------------------------------------------------------
(* Properties                                                              *)

\* The hand-off to the paper runner says of each pick what the plan says of that
\* very pick, though both are looked up by symbol: the quantity and allocation
\* of its own position if it has one and none if it was turned down, and every
\* planned position is handed over once.
HandoffAgreesWithPlan ==
  handoff # <<>> =>
    /\ \A i \in DOMAIN handoff :
         LET own == {j \in DOMAIN plan.items : plan.items[j].pick = handoff[i].pick}
         IN  /\ handoff[i].quantity = {plan.items[j].quantity : j \in own}
             /\ handoff[i].allocation = {plan.items[j].notional : j \in own}
    /\ \A j \in DOMAIN plan.items :
         Cardinality({i \in DOMAIN handoff : handoff[i].pick = plan.items[j].pick}) = 1
=============================================================================
