----------------------------- MODULE PickEngine -----------------------------
(***************************************************************************)
(* PickEngine.run: the opportunities of a scan pass the thresholds of      *)
(* their horizon and the market regime, get a conviction score, are ranked *)
(* by it and taken greedily under the caps of the selector.  Scores and    *)
(* convictions are whole points, ratios tenths, relative strength whole    *)
(* percentages.                                                            *)
(***************************************************************************)
EXTENDS Integers, Sequences, FiniteSets, Scanner

CONSTANTS DecisionConfigs,  \* DecisionConfig
          Regimes,          \* RegimeState of the assessment, or NoRegime
          Strengths,        \* functions from some symbols to a relative strength
          NoRegime

Horizons == {"intraday", "swing", "positional"}
Timeframes == {"15m", "1D", "1h", "1m", "5m"}

\* What __post_init__ of the thresholds and of the regime policy enforces.
DecisionConfigOK(d) ==
  /\ \A h \in Horizons : d.maxPicks[h] \in Nat
  /\ d.maxPerSector \in Nat /\ d.maxCorrelated \in Nat
  /\ d.mismatchPenalty \in Nat /\ d.highVolatilityPenalty \in Nat
  /\ d.bearishPenalty \in Nat

ASSUME PickAssumption ==
  /\ \A d \in DecisionConfigs : DecisionConfigOK(d)
  /\ \A s \in Strengths : \A x \in DOMAIN s : s[x] \in Int

\* What a scan finds: numbers, and one setup for each symbol of the universe
\* (which is resolved without duplicates), strategy and timeframe.
SetupOK(o) ==
  /\ o.timeframe \in Timeframes
  /\ o.symbol \in Int /\ o.strategy \in Int /\ o.rr \in Int /\ o.score \in Int
  /\ o.quality \in Int /\ o.liquidity \in Int /\ o.freshness \in Int

SameJob(o, q) ==
  o.symbol = q.symbol /\ o.timeframe = q.timeframe /\ o.strategy = q.strategy

IsScan(found) ==
  /\ IsFiniteSet(found)
  /\ \A o \in found : SetupOK(o)
  /\ \A o, q \in found : SameJob(o, q) => o = q

VARIABLES decisionCfg, regime, strengths,  \* the arguments of run
          picks                            \* its local variables and result

pickVars == <<decisionCfg, regime, strengths, picks>>

-----------------------------------------------------------------------------
(* Filters                                                                 *)

\* Mismatches are blocked, or else cost points, as do the two rough regimes.
Mismatch(o) ==
  regime # NoRegime /\ regime \notin decisionCfg.allowed[Horizon(o.timeframe)]

Penalty(o) ==
  Clamp((IF Mismatch(o) THEN decisionCfg.mismatchPenalty ELSE 0)
        + (IF regime = "high_volatility" THEN decisionCfg.highVolatilityPenalty ELSE 0)
        + (IF regime = "bearish" THEN decisionCfg.bearishPenalty ELSE 0))

\* Why an opportunity does not become a candidate; "none" if it does.
Rejection(o) ==
  LET h == Horizon(o.timeframe)
  IN  IF o.stop >= o.entry \/ o.target <= o.entry THEN "other"
      ELSE IF o.score < decisionCfg.minScore[h] THEN "below_min_score"
      ELSE IF o.rr < decisionCfg.minRr[h] THEN "below_min_rr"
      ELSE IF Mismatch(o) /\ decisionCfg.hardBlock THEN "regime_blocked"
      ELSE "none"

-----------------------------------------------------------------------------
(* Conviction and rank                                                     *)

HasStrength(o) == o.symbol \in DOMAIN strengths
StrengthScore(o) == IF HasStrength(o) THEN Clamp(50 + 2 * strengths[o.symbol]) ELSE 50

Conviction(o) ==
  (35 * Clamp(o.score) + 20 * o.quality + 20 * Clamp((10 * o.rr) \div 3)
     + 10 * (100 - Penalty(o)) + 10 * StrengthScore(o)
     + 3 * o.liquidity + 2 * o.freshness) \div 100

Candidate(o) ==
  [setup |-> o, conviction |-> Conviction(o), horizon |-> Horizon(o.timeframe)]

\* Timeframes in the order of their names as text.
NameOrder == [t \in Timeframes |->
                CASE t = "15m" -> 1 [] t = "1D" -> 2 [] t = "1h" -> 3
                  [] t = "1m" -> 4 [] t = "5m" -> 5]

SortKey(c) ==
  LET o == c.setup
  IN  <<-c.conviction, -o.rr,
        IF HasStrength(o) THEN -strengths[o.symbol] ELSE 1000000,
        -o.score, o.symbol, NameOrder[o.timeframe], o.strategy>>

Before(c, d) ==
  \E i \in 1 .. 7 : /\ SortKey(c)[i] < SortKey(d)[i]
                    /\ \A j \in 1 .. i - 1 : SortKey(c)[j] = SortKey(d)[j]

Ranked(cs) ==
  [i \in 1 .. Cardinality(cs) |->
     CHOOSE c \in cs : Cardinality({d \in cs : Before(d, c)}) = i - 1]

-----------------------------------------------------------------------------
(* Selection                                                               *)

Count(counts, key) == IF key \in DOMAIN counts THEN counts[key] ELSE 0
Counted(counts, key) ==
  [k \in DOMAIN counts \cup {key} |-> Count(counts, k) + IF k = key THEN 1 ELSE 0]

\* Broken variant: a symbol is taken once per setup.
SelectorRejection_PerSetup(c) ==
  LET o == c.setup
  IN  IF Count(picks.horizons, c.horizon) >= decisionCfg.maxPicks[c.horizon]
      THEN "horizon_cap_reached"
      ELSE IF <<o.symbol, o.timeframe, o.strategy>> \in picks.setups
      THEN "duplicate_setup" ELSE "none"

\* Why the selector turns a candidate down; "none" if it takes it.
SelectorRejection(c) ==
  LET o == c.setup
  IN  IF Count(picks.horizons, c.horizon) >= decisionCfg.maxPicks[c.horizon]
      THEN "horizon_cap_reached"
      ELSE IF o.sector # NoLabel
              /\ Count(picks.sectors, o.sector) >= decisionCfg.maxPerSector
      THEN "sector_cap_reached"
      ELSE IF decisionCfg.uniqueSymbol /\ Count(picks.symbols, o.symbol) > 0
      THEN "duplicate_symbol"
      ELSE IF decisionCfg.uniqueSetup
              /\ <<o.symbol, o.timeframe, o.strategy>> \in picks.setups
      THEN "duplicate_setup"
      ELSE IF o.cluster # NoLabel
              /\ Count(picks.clusters, o.cluster) >= decisionCfg.maxCorrelated
      THEN "other"
      ELSE "none"

NoPicks == [phase |-> "idle", queue |-> <<>>, selected |-> <<>>, rejected |-> {},
            horizons |-> <<>>, sectors |-> <<>>, symbols |-> <<>>,
            clusters |-> <<>>, setups |-> {}]

StartPicking(opportunities) ==
  /\ picks.phase = "idle"
  /\ picks' = [picks EXCEPT
       !.phase = "selecting",
       !.queue = Ranked({Candidate(o) : o \in {q \in opportunities :
                                                 Rejection(q) = "none"}}),
       !.rejected = {[setup |-> o, reason |-> Rejection(o)] :
                       o \in {q \in opportunities : Rejection(q) # "none"}}]
  /\ UNCHANGED <<decisionCfg, regime, strengths>>

Select(c) ==
  LET o == c.setup
  IN  /\ SelectorRejection(c) = "none"
      /\ picks' = [picks EXCEPT
           !.queue = Tail(@), !.selected = Append(@, c),
           !.horizons = Counted(@, c.horizon),
           !.symbols = Counted(@, o.symbol),
           !.setups = @ \cup {<<o.symbol, o.timeframe, o.strategy>>},
           !.sectors = IF o.sector = NoLabel THEN @ ELSE Counted(@, o.sector),
           !.clusters = IF o.cluster = NoLabel THEN @ ELSE Counted(@, o.cluster)]

\* Broken variant: a candidate that is turned down uses up a
\* place of its horizon.
Reject_Counts(c) ==
  /\ SelectorRejection(c) # "none"
  /\ picks' = [picks EXCEPT
       !.queue = Tail(@), !.horizons = Counted(@, c.horizon),
       !.rejected = @ \cup {[setup |-> c.setup, reason |-> SelectorRejection(c)]}]
Reject(c) ==
  /\ SelectorRejection(c) # "none"
  /\ picks' = [picks EXCEPT
       !.queue = Tail(@),
       !.rejected = @ \cup {[setup |-> c.setup, reason |-> SelectorRejection(c)]}]

PickNext ==
  /\ picks.phase = "selecting"
  /\ UNCHANGED <<decisionCfg, regime, strengths>>
  /\ \/ picks.queue # <<>> /\ (Select(Head(picks.queue)) \/ Reject(Head(picks.queue)))
     \/ picks.queue = <<>> /\ picks' = [picks EXCEPT !.phase = "picked"]

PickInit == /\ decisionCfg \in DecisionConfigs /\ regime \in Regimes
            /\ strengths \in Strengths
            /\ picks = NoPicks

\* A run of the pick engine over any scan.
PickStep == PickNext \/ \E found : IsScan(found) /\ StartPicking(found)
PickSpec == PickInit /\ [][PickStep]_pickVars

-----------------------------------------------------------------------------
(* Properties                                                              *)

\* When the selection is over, every candidate that was left out (each continue
\* in select) would still break a cap that is filled by picks ranked before it:
\* no counter was raised by a candidate that was not taken, and of a symbol the
\* best candidate the caps let through is the one taken.
NothingIsLeftOutForNothing ==
  picks.phase = "picked" =>
    \A r \in picks.rejected :
      LET taken == {picks.selected[i] : i \in DOMAIN picks.selected}
          o == r.setup
          ahead == {c \in taken : Before(c, Candidate(o))}
      IN  Rejection(o) = "none" =>
            \/ Cardinality({c \in ahead : c.horizon = Horizon(o.timeframe)})
                 >= decisionCfg.maxPicks[Horizon(o.timeframe)]
            \/ /\ o.sector # NoLabel
               /\ Cardinality({c \in ahead : c.setup.sector = o.sector})
                    >= decisionCfg.maxPerSector
            \/ /\ decisionCfg.uniqueSymbol
               /\ \E c \in ahead : c.setup.symbol = o.symbol
            \/ /\ decisionCfg.uniqueSetup
               /\ \E c \in ahead : /\ c.setup.symbol = o.symbol
                                   /\ c.setup.timeframe = o.timeframe
                                   /\ c.setup.strategy = o.strategy
            \/ /\ o.cluster # NoLabel
               /\ Cardinality({c \in ahead : c.setup.cluster = o.cluster})
                    >= decisionCfg.maxCorrelated
=============================================================================
