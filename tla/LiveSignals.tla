----------------------------- MODULE LiveSignals -----------------------------
(***************************************************************************)
(* LiveSignalPipeline.run (live/signals_pipeline.py) with the portfolio    *)
(* risk manager and the session store (live/market_session.py): a session  *)
(* loads a watch-list, ranks it, and decides symbol by symbol against an   *)
(* estimate of what its own signals would commit.  Money is in whole       *)
(* units, limits in percent of the equity.                                 *)
(***************************************************************************)
EXTENDS RegimePolicy

CONSTANTS
  Watchlists,      \* what the watch-list may resolve to: sequences of symbols
  LiveStrategies,  \* the keys of the strategy registry, in its order
  LivePolicies,    \* the regime policies loaded, NoPolicy among them
  LiveRegimes,     \* what detection may say; UNKNOWN when it fails
  UNKNOWN,
  Equity,          \* risk_context_portfolio_equity
  LiveConfigs,     \* [enabled, precheck, handoff, topN, drawdown, open, deployed]
  MaxDrawdown, MaxOpen, MaxExposure,   \* PortfolioRiskConfig
  Overrides,       \* regime_risk_overrides: limits by regime
  SizePct,         \* the position sizer's share of its slot
  MaxSessions      \* bound: sessions in one output directory

ASSUME LiveAssumption ==
  /\ Equity \in Nat /\ Equity > 0 /\ MaxOpen \in Nat /\ MaxOpen > 0
  /\ MaxExposure \in Nat /\ MaxDrawdown \in Nat /\ SizePct \in Nat
  /\ \A c \in LiveConfigs : c.open \in Int /\ c.deployed \in Int
  /\ \A r \in DOMAIN Overrides : Overrides[r].open \in Int /\ Overrides[r].exposure \in Int

VARIABLES live,      \* the session: its configuration, report and estimates
          liveDisk   \* the session that wrote the report, the rows of the hand-off

liveVars == <<live, liveDisk>>

NewSession(number, config, policy) ==
  [pc |-> "start", session |-> number, config |-> config, policy |-> policy,
   watchlist |-> <<>>, frames |-> {}, ranked |-> <<>>, regimes |-> <<>>,
   open |-> config.open, deployed |-> config.deployed, decisions |-> {}]

LiveInit ==
  /\ \E c \in LiveConfigs, p \in LivePolicies : live = NewSession(1, c, p)
  /\ liveDisk = [report |-> 0, handoff |-> {}]

\* Disabled, a provider without the capability, no watch-list: nothing is written.
Begin ==
  /\ live.pc = "start"
  /\ \/ live' = [live EXCEPT !.pc = "ended"]
     \/ /\ live.config.enabled
        /\ \E list \in Watchlists : live' = [live EXCEPT !.pc = "load", !.watchlist = list]
  /\ UNCHANGED liveDisk

\* A symbol that cannot be loaded, or has fewer than two bars, is left out.
LoadLatestData ==
  /\ live.pc = "load"
  /\ \E loaded \in SUBSET ToSet(live.watchlist) :
       live' = [live EXCEPT !.frames = loaded, !.pc = IF loaded = {} THEN "ended" ELSE "rank"]
  /\ UNCHANGED liveDisk

\* Sorted by relative strength, or by name when there is one symbol or it fails;
\* the ranking may leave symbols out.
RankSymbols ==
  /\ live.pc = "rank"
  /\ \E kept \in SUBSET live.frames \ {{}} : \E ranked \in SetToSeqs(kept) :
       LET n == live.config.topN
       IN  live' = [live EXCEPT !.pc = "regimes",
                      !.ranked = IF n > 0 /\ n < Len(ranked) THEN SubSeq(ranked, 1, n) ELSE ranked]
  /\ UNCHANGED liveDisk

ComputeRegimes ==
  /\ live.pc = "regimes"
  /\ \E regimes \in [DOMAIN live.ranked -> LiveRegimes \cup {UNKNOWN}] :
       live' = [live EXCEPT !.pc = "decide", !.regimes = regimes]
  /\ UNCHANGED liveDisk

-----------------------------------------------------------------------------
(* Decisions                                                               *)

LiveDrawdownMode ==
  IF live.config.drawdown >= MaxDrawdown THEN "no_new_risk"
  ELSE IF 10 * live.config.drawdown >= 7 * MaxDrawdown THEN "reduced_risk"
  ELSE "normal"

SlotCapital ==
  (Equity \div (IF MaxOpen > 1 THEN MaxOpen ELSE 1)) \div
    (IF LiveDrawdownMode = "reduced_risk" THEN 2 ELSE 1)

Notional == (SlotCapital * SizePct) \div 100

\* The strategy for a regime, and whether to trade in it at all.
SelectLive(regime) ==
  IF live.policy = NoPolicy
  THEN [strategy |-> LiveStrategies[1], trade |-> TRUE]
  ELSE LET d == SelectForRegime(live.policy, regime, ToSet(LiveStrategies))
       IN  [strategy |-> IF d.preferred = NoStrategy THEN LiveStrategies[1] ELSE d.preferred,
            trade |-> d.shouldTrade]

LimitsIn(regime) ==
  IF regime \in DOMAIN Overrides THEN Overrides[regime]
  ELSE [open |-> MaxOpen, exposure |-> MaxExposure]

\* PortfolioRiskManager.check_entry on the estimates so far.
\* Broken variant: on the portfolio as it was when the session began.
CheckLiveEntry_OnContext(regime) ==
  /\ live.config.drawdown <= MaxDrawdown
  /\ live.config.open < LimitsIn(regime).open
  /\ 100 * live.config.deployed < LimitsIn(regime).exposure * Equity
CheckLiveEntry(regime) ==
  /\ live.config.drawdown <= MaxDrawdown
  /\ live.open < LimitsIn(regime).open
  /\ 100 * live.deployed < LimitsIn(regime).exposure * Equity

\* With the precheck, its answer replaces that of the drawdown overlay.
RiskAllows(regime) ==
  IF live.config.precheck THEN CheckLiveEntry(regime) ELSE LiveDrawdownMode # "no_new_risk"

Decided(decision) ==
  [live EXCEPT !.decisions = @ \cup {decision}, !.ranked = Tail(@), !.regimes = Tail(@)]

\* One symbol: no trade in its regime, no BUY, a rejection, or a signal that
\* the next symbols are judged by.
GenerateDecision ==
  /\ live.pc = "decide" /\ live.ranked # <<>>
  /\ LET regime == Head(live.regimes)
         choice == SelectLive(regime)
         Decision(type) == [symbol |-> Head(live.ranked), regime |-> regime, type |-> type]
     IN  \/ live' = Decided(Decision("no_trade"))
         \/ /\ choice.trade /\ ~RiskAllows(regime)
            /\ live' = Decided(Decision("risk_rejected"))
         \/ /\ choice.trade /\ RiskAllows(regime)
            /\ live' = [Decided(Decision("actionable_signal")) EXCEPT
                          !.open = @ + 1, !.deployed = @ + Notional]
  /\ UNCHANGED liveDisk

\* A strategy that answers nonsense or raises ends the session without a report.
StrategyRaises ==
  /\ live.pc = "decide" /\ live.ranked # <<>> /\ SelectLive(Head(live.regimes)).trade
  /\ live' = [live EXCEPT !.pc = "ended"]
  /\ UNCHANGED liveDisk

Actionable == {d \in live.decisions : d.type = "actionable_signal"}

\* The hand-off is written only when asked for: otherwise that of an earlier
\* session stays beside the report.
ExportSession ==
  /\ live.pc = "decide" /\ live.ranked = <<>>
  /\ live' = [live EXCEPT !.pc = "ended"]
  /\ liveDisk' = [report |-> live.session,
                  handoff |-> IF live.config.handoff
                              THEN {[session |-> live.session, symbol |-> d.symbol] : d \in Actionable}
                              ELSE liveDisk.handoff]

NextSession ==
  /\ live.pc = "ended" /\ live.session < MaxSessions
  /\ \E c \in LiveConfigs, p \in LivePolicies : live' = NewSession(live.session + 1, c, p)
  /\ UNCHANGED liveDisk

LiveNext ==
  \/ Begin \/ LoadLatestData \/ RankSymbols \/ ComputeRegimes \/ GenerateDecision
  \/ StrategyRaises \/ ExportSession \/ NextSession

LiveSpec == LiveInit /\ [][LiveNext]_liveVars

-----------------------------------------------------------------------------
(* The signals of one session taken together stay within the limits each of
   them was checked against: the last one accepted found a free position
   and exposure below its cap, so that all of them exceed the cap by less
   than one slot, and none is in a regime the policy would not trade
   (signals_pipeline.py: the estimates that grow with every signal).       *)
SignalsFitTogether ==
  (live.config.precheck /\ Actionable # {}) =>
    /\ live.config.drawdown <= MaxDrawdown
    /\ \E d \in Actionable :
         /\ live.open <= LimitsIn(d.regime).open
         /\ 100 * (live.deployed - Notional) < LimitsIn(d.regime).exposure * Equity
    /\ \A d \in Actionable : SelectLive(d.regime).trade
=============================================================================
