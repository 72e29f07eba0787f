-------------------------- MODULE MCResearchRunner --------------------------
(* Model-checking instances of ResearchRunner.                             *)
EXTENDS ResearchRunner

CONSTANTS rel, tcs, sma, gap

TwoSymbols == <<rel, tcs>>
AnyData == {{rel, tcs}, {}}
OneSymbol == {{rel, tcs}, {tcs}}
AllOrNoPhase == {{}, {"policy", "portfolio"}}
NoPhase == {{}}
GapRaises == {<<rel, gap>>}

Plain ==
  [config |-> "daily", resume |-> FALSE, filter |-> FALSE, limit |-> 2,
   parallel |-> FALSE, prefetch |-> TRUE, walk |-> FALSE, portfolio |-> FALSE, policy |-> FALSE,
   strength |-> FALSE, risk |-> FALSE, costs |-> FALSE, csv |-> TRUE]

Resumed == [Plain EXCEPT !.resume = TRUE]
Phased == [Resumed EXCEPT !.filter = TRUE, !.walk = TRUE, !.portfolio = TRUE, !.policy = TRUE,
             !.strength = TRUE, !.risk = TRUE, !.costs = TRUE, !.csv = FALSE]

\* Fresh and resumed runs, of one configuration and of another, serial and with
\* workers, with every phase and the regime filter and with none.
AllSettings ==
  {Plain, [Plain EXCEPT !.parallel = TRUE, !.prefetch = FALSE],
   [Resumed EXCEPT !.parallel = TRUE],
   [Resumed EXCEPT !.config = "hourly", !.limit = 1], Phased}

\* Runs that differ in nothing but what the hash sees.
HashedSettings ==
  {Plain, Resumed, [Resumed EXCEPT !.config = "hourly"]}
=============================================================================
