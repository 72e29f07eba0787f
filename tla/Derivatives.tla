---------------------------- MODULE Derivatives ----------------------------
(***************************************************************************)
(* Options and futures (src/analysis/derivatives): the builder of option   *)
(* chains, what the analyzer makes of one, and the futures contracts of an *)
(* underlying with their roll schedule and stitched series.  The formula   *)
(* of the option price enters only as one that rises with the volatility.  *)
(***************************************************************************)
EXTENDS Integers, Sequences, FiniteSets, SequencesExt

CONSTANTS OptionRows,       \* [strike, side, ltp, oi, iv, delta]
          Spots, MaxRows,
          SigmaTop,         \* the volatility bisection starts from, in steps of the grid
          MaxIterations,
          Calm,             \* the premium of an option at volatility s is s * s \div Calm
          LadderSteps,
          NoValue,
          Computed,         \* a greek that is not the provider's
          Expiries,         \* days, counted from 0; months have MonthDays
          MonthDays, RollDays, RollThresholds, LastDay

ASSUME DerivativesAssumption ==
  /\ {MaxRows, SigmaTop, MaxIterations, Calm, MonthDays} \subseteq Nat \ {0}
  /\ SigmaTop % 2 ^ MaxIterations = 0
  /\ RollDays \subseteq Nat /\ RollThresholds \subseteq Nat /\ Expiries \subseteq Nat

VARIABLES dv,   \* [feed, spot, rows, chain, enriched]
          fv    \* [today, contracts, method, rollDays, threshold]

Distance(a, b) == IF a > b THEN a - b ELSE b - a
Positive(a) == IF a > 0 THEN a ELSE 0
FirstOnes(s, n) == SubSeq(s, 1, IF n < Len(s) THEN n ELSE Len(s))
FirstIndex(s, Test(_)) == CHOOSE i \in DOMAIN s : Test(s[i]) /\ \A j \in 1 .. i - 1 : ~Test(s[j])

-----------------------------------------------------------------------------
(* The chain                                                               *)

NoQuote == [source |-> "unknown", ltp |-> NoValue, oi |-> NoValue, iv |-> NoValue, delta |-> NoValue]

\* What the feed says of one side; Dhan's zeros are no values, the registry has
\* contracts and no quotes.
Quote(feed, row) ==
  LET OrNone(x) == IF feed = "dhan" /\ x = 0 THEN NoValue ELSE x
  IN  IF feed = "registry" THEN [NoQuote EXCEPT !.source = feed]
      ELSE [source |-> feed, ltp |-> row.ltp, oi |-> row.oi, iv |-> OrNone(row.iv),
            delta |-> OrNone(row.delta)]

\* The side a row fills; the registry takes all but calls for puts, a row of an
\* unknown type makes a strike without a quote.
FilledSide(feed, row) == IF feed = "registry" /\ row.side # "ce" THEN "pe" ELSE row.side

MergeRow(chain, feed, row) ==
  LET known == {i \in DOMAIN chain : chain[i].strike = row.strike}
      side == FilledSide(feed, row)
      Filled(s) == IF side \in {"ce", "pe"} THEN [s EXCEPT ![side] = Quote(feed, row)] ELSE s
  IN  IF known = {} THEN Append(chain, Filled([strike |-> row.strike, ce |-> NoQuote, pe |-> NoQuote]))
      ELSE [i \in DOMAIN chain |-> IF i \in known THEN Filled(chain[i]) ELSE chain[i]]

Sorted(chain) == SortSeq(chain, LAMBDA s, t : s.strike < t.strike)

-----------------------------------------------------------------------------
(* Implied volatility                                                      *)

Intrinsic(spot, strike, side) == Positive(IF side = "ce" THEN spot - strike ELSE strike - spot)
Theoretical(spot, strike, side, sigma) == Intrinsic(spot, strike, side) + (sigma * sigma) \div Calm

\* Bisection; a price out of reach ends at the bound it ran into.
ImpliedVolatility(price, spot, strike, side) ==
  LET Halve(b, i) ==
        LET mid == (b.lo + b.hi) \div 2
            model == Theoretical(spot, strike, side, mid)
        IN  IF b.found # NoValue THEN b
            ELSE IF model = price THEN [b EXCEPT !.found = mid]
            ELSE IF model > price THEN [b EXCEPT !.hi = mid]
            ELSE [b EXCEPT !.lo = mid]
      end == FoldLeft(Halve, [lo |-> 0, hi |-> SigmaTop, found |-> NoValue], [i \in 1 .. MaxIterations |-> i])
  IN  IF price <= 0 \/ price < Intrinsic(spot, strike, side) THEN NoValue
      ELSE IF end.found # NoValue THEN end.found
      ELSE (end.lo + end.hi) \div 2

\* A side with a price and no volatility gets one, and the greeks it lacks.
EnrichSide(q, spot, strike, side) ==
  LET iv == IF q.ltp = NoValue \/ q.iv # NoValue THEN NoValue
            ELSE ImpliedVolatility(q.ltp, spot, strike, side)
  IN  IF iv = NoValue THEN q
      ELSE [q EXCEPT !.iv = iv, !.delta = IF @ = NoValue THEN Computed ELSE @]

EnrichGreeks(chain, spot) ==
  [i \in DOMAIN chain |->
     LET s == chain[i]
     IN  IF spot = NoValue \/ s.strike <= 0 THEN s
         ELSE [s EXCEPT !.ce = EnrichSide(@, spot, s.strike, "ce"), !.pe = EnrichSide(@, spot, s.strike, "pe")]]

-----------------------------------------------------------------------------
(* Analytics                                                               *)

OpenInterest(q) == IF q.oi = NoValue THEN 0 ELSE q.oi
OiTotal(chain, side) == FoldLeft(LAMBDA sum, s : sum + OpenInterest(s[side]), 0, chain)

AtmStrike(chain, spot) ==
  IF spot = NoValue \/ chain = <<>> THEN NoValue
  ELSE chain[FirstIndex(chain, LAMBDA s : \A t \in ToSet(chain) :
               Distance(s.strike, spot) <= Distance(t.strike, spot))].strike

AroundAtm(chain, spot, n) ==
  LET s == Sorted(chain)
      atm == AtmStrike(chain, spot)
      at == FirstIndex(s, LAMBDA x : x.strike = atm)
  IN  IF atm = NoValue THEN FirstOnes(s, 2 * n + 1)
      ELSE SubSeq(s, IF at > n THEN at - n ELSE 1, IF at + n < Len(s) THEN at + n ELSE Len(s))

\* What _compute_max_pain adds up for a settlement at k.
Pain(chain, k) ==
  FoldLeft(LAMBDA sum, s : sum + OpenInterest(s.ce) * Positive(s.strike - k)
                               + OpenInterest(s.pe) * Positive(k - s.strike), 0, chain)

MaxPain(chain) ==
  LET held == SelectSeq(chain, LAMBDA s : OpenInterest(s.ce) + OpenInterest(s.pe) > 0)
  IN  IF held = <<>> THEN NoValue
      ELSE held[FirstIndex(held, LAMBDA s : \A t \in ToSet(held) :
                  Pain(held, s.strike) <= Pain(held, t.strike))].strike

\* The strike with most calls is the resistance, with most puts the support.
Heaviest(chain, side) ==
  LET held == SelectSeq(chain, LAMBDA s : OpenInterest(s[side]) > 0)
  IN  IF held = <<>> THEN NoValue
      ELSE held[FirstIndex(held, LAMBDA s : \A t \in ToSet(held) :
                  OpenInterest(t[side]) <= OpenInterest(s[side]))].strike

\* The skew compares the first put below and the first call above the money that
\* have a volatility.
SkewLegs(chain, spot) ==
  LET atm == AtmStrike(chain, spot)
      puts == {s \in ToSet(chain) : s.strike < atm /\ s.pe.iv # NoValue}
      calls == {s \in ToSet(chain) : s.strike > atm /\ s.ce.iv # NoValue}
  IN  IF atm = NoValue THEN {}
      ELSE {[put |-> p, call |-> c] :
              p \in {s \in puts : \A t \in puts : t.strike <= s.strike},
              c \in {s \in calls : \A t \in calls : s.strike <= t.strike}}

IvSkew(chain, spot) ==
  LET legs == SkewLegs(chain, spot)
      pair == CHOOSE l \in legs : TRUE
  IN  IF legs = {} THEN NoValue ELSE pair.put.pe.iv - pair.call.ce.iv

Moneyness(spot, strike, side, pct) ==
  IF spot <= 0 THEN "UNKNOWN"
  ELSE IF 100 * Distance(strike, spot) <= pct * spot THEN "ATM"
  ELSE IF (side = "ce") = (strike < spot) THEN "ITM" ELSE "OTM"

\* round() goes to the even neighbour of a half.
RoundHalfEven(a, b) ==
  LET q == a \div b
      r == a % b
  IN  IF 2 * r > b \/ (2 * r = b /\ q % 2 = 1) THEN q + 1 ELSE q

\* The median of the gaps between the strikes, unless a step is given.
LadderStep(chain, step) ==
  LET s == Sorted(chain)
      gaps == SortSeq([i \in 1 .. Len(s) - 1 |-> s[i + 1].strike - s[i].strike], LAMBDA a, b : a < b)
  IN  IF step # NoValue \/ Len(s) <= 1 THEN step ELSE gaps[Len(gaps) \div 2 + 1]

StrikeLadder(chain, spot, n, given) ==
  LET step == LadderStep(chain, given)
      s == Sorted(chain)
  IN  IF chain = <<>> THEN <<>>
      ELSE IF step = NoValue \/ step <= 0
      THEN [i \in DOMAIN FirstOnes(s, 2 * n + 1) |-> s[i].strike]
      ELSE [i \in 1 .. 2 * n + 1 |-> (RoundHalfEven(spot, step) + i - n - 1) * step]

-----------------------------------------------------------------------------
OptionsInit ==
  dv \in [feed : {"dhan", "generic", "registry"}, spot : Spots, rows : {<<>>}, chain : {<<>>},
          enriched : {FALSE}]

\* The rows of a response, one after the other: Dhan's calls before its puts, and
\* none of another type.
BuildChain(row) ==
  /\ ~dv.enriched /\ Len(dv.rows) < MaxRows
  /\ dv.feed = "dhan" =>
       /\ row.side \in {"ce", "pe"}
       /\ row.side = "ce" => \A i \in DOMAIN dv.rows : dv.rows[i].side = "ce"
  /\ dv' = [dv EXCEPT !.rows = Append(@, row), !.chain = MergeRow(@, dv.feed, row)]

Enrich ==
  /\ dv.chain # <<>>
  /\ dv' = [dv EXCEPT !.chain = EnrichGreeks(@, dv.spot), !.enriched = TRUE]

OptionsNext == (\E row \in OptionRows : BuildChain(row)) \/ Enrich

-----------------------------------------------------------------------------
(* Futures                                                                 *)

\* Contracts are sorted by expiry; the family is that of the next three to expire.
Family(today) ==
  FirstOnes(SelectSeq(fv.contracts, LAMBDA e : e >= today), 3)

DaysToExpiry(expiry, today) == Positive(expiry - today)
IsRollImminent(expiry, today) == DaysToExpiry(expiry, today) <= fv.threshold

\* The signal of a family is the property of the family, whose five days are fixed,
\* shown with the threshold of the resolver.
RollSignal(today) ==
  LET family == Family(today)
  IN  IF family = <<>> THEN [action |-> "no_front_contract", front |-> NoValue, next |-> NoValue]
      ELSE [action |-> IF family[1] - today <= 5 THEN "roll_to_next" ELSE "hold_front",
            front |-> family[1],
            next |-> IF Len(family) > 1 THEN family[2] ELSE NoValue]

\* dte_roll counts back inside the month of the expiry.
RollDate(expiry) ==
  LET monthStart == expiry - (expiry % MonthDays)
      back == expiry - fv.rollDays
  IN  IF fv.method # "dte_roll" THEN expiry ELSE IF back > monthStart THEN back ELSE monthStart

\* Each contract from the expiry of the one before, the first from today.
RollSchedule ==
  [i \in DOMAIN fv.contracts |->
     [contract |-> fv.contracts[i], from |-> IF i = 1 THEN fv.today ELSE fv.contracts[i - 1],
      to |-> RollDate(fv.contracts[i])]]

\* The rows of the stitched series, each contract trading until it expires.
Stitch ==
  UNION {{[day |-> d, contract |-> span.contract] :
            d \in {x \in 0 .. span.contract : span.from <= x /\ x <= span.to}} :
           span \in ToSet(RollSchedule)}

FuturesInit ==
  fv \in [today : {0}, contracts : {<<>>}, method : {"dte_roll", "calendar_roll"},
          rollDays : RollDays, threshold : RollThresholds]

Advance ==
  /\ fv.today < LastDay
  /\ fv' = [fv EXCEPT !.today = @ + 1]

ListContract(expiry) ==
  /\ expiry > fv.today /\ \A i \in DOMAIN fv.contracts : fv.contracts[i] < expiry
  /\ fv' = [fv EXCEPT !.contracts = Append(@, expiry)]

FuturesNext == Advance \/ \E e \in Expiries : ListContract(e)

DvSpec == OptionsInit /\ FuturesInit /\ [][(OptionsNext /\ UNCHANGED fv) \/ (FuturesNext /\ UNCHANGED dv)]_<<dv, fv>>

-----------------------------------------------------------------------------
(* Properties                                                              *)

\* In whatever order rows arrive and repeat, the chain has every strike once and on
\* each side the last quote for it; enrichment replaces no value of the provider,
\* and to enrich twice is to enrich once.
ChainHoldsLastQuotes ==
  LET LastRows(k, side) ==
        {i \in DOMAIN dv.rows : dv.rows[i].strike = k /\ FilledSide(dv.feed, dv.rows[i]) = side}
      Told(k, side) ==
        LET given == LastRows(k, side)
        IN  IF given = {} THEN NoQuote
            ELSE Quote(dv.feed, dv.rows[CHOOSE i \in given : \A j \in given : j <= i])
  IN  /\ {dv.rows[i].strike : i \in DOMAIN dv.rows} = {s.strike : s \in ToSet(dv.chain)}
      /\ \A i, j \in DOMAIN dv.chain : dv.chain[i].strike = dv.chain[j].strike => i = j
      /\ \A s \in ToSet(dv.chain), side \in {"ce", "pe"} :
           LET told == Told(s.strike, side)
           IN  \A f \in DOMAIN told :
                 s[side][f] # told[f] => dv.enriched /\ f \in {"iv", "delta"} /\ told[f] = NoValue
      /\ dv.enriched => EnrichGreeks(dv.chain, dv.spot) = dv.chain

\* The volatility found for a price the model can reach brackets it; for one beyond
\* reach it is the bound of the search, passed off as a volatility.
VolatilityBracketsPrice ==
  LET width == SigmaTop \div 2 ^ MaxIterations
  IN  \A s \in ToSet(dv.chain), side \in {"ce", "pe"} :
        (dv.enriched /\ s[side].ltp # NoValue /\ dv.spot # NoValue /\ s.strike > 0) =>
          LET iv == ImpliedVolatility(s[side].ltp, dv.spot, s.strike, side)
              Price(sigma) == Theoretical(dv.spot, s.strike, side, sigma)
          IN  IF iv = NoValue THEN s[side].ltp <= 0 \/ s[side].ltp < Price(0)
              ELSE IF s[side].ltp > Price(SigmaTop) THEN iv >= SigmaTop - width
              ELSE Price(iv - width) <= s[side].ltp /\ s[side].ltp <= Price(iv + width)

\* The analysis depends on the order of arrival in ties alone, the skew compares two
\* options that are not in the money, and the strikes around the money hold it.
AnalysisIsSound ==
  LET chain == dv.chain
      sorted == Sorted(chain)
      atm == AtmStrike(chain, dv.spot)
      around == AroundAtm(chain, dv.spot, 1)
  IN  /\ atm # NoValue =>
           /\ Distance(atm, dv.spot) = Distance(AtmStrike(sorted, dv.spot), dv.spot)
           /\ \E s \in ToSet(around) : s.strike = atm
           /\ \A s, t \in ToSet(around), u \in ToSet(chain) \ ToSet(around) :
                ~(s.strike < u.strike /\ u.strike < t.strike)
      /\ MaxPain(chain) # NoValue => Pain(chain, MaxPain(chain)) = Pain(chain, MaxPain(sorted))
      /\ \A legs \in SkewLegs(chain, dv.spot) :
           /\ Moneyness(dv.spot, legs.put.strike, "pe", 0) # "ITM"
           /\ Moneyness(dv.spot, legs.call.strike, "ce", 0) # "ITM"
      /\ \A side \in {"ce", "pe"} : Heaviest(chain, side) = NoValue <=> OiTotal(chain, side) = 0

\* A ladder with a step has as many even rungs below as above the middle one, which
\* is within half a step of the spot, however the strikes lie.
LadderSurroundsSpot ==
  dv.spot # NoValue =>
    \A n \in {0, 2}, given \in LadderSteps :
      LET ladder == StrikeLadder(dv.chain, dv.spot, n, given)
          step == LadderStep(dv.chain, given)
      IN  (dv.chain # <<>> /\ step # NoValue) =>
            /\ Len(ladder) = 2 * n + 1
            /\ \A i \in 1 .. 2 * n : ladder[i + 1] - ladder[i] = step
            /\ 2 * Distance(ladder[n + 1], dv.spot) <= step

\* The stitched series is, on every day from today, that of the contract the family
\* puts in front, until its roll date, and of the next one on the day it expires:
\* between a roll date and the expiry the series has no row at all, and a roll on
\* the expiry has two.
SeriesFollowsFront ==
  LET days == fv.today .. LastDay
      InFront(d) == ToSet(FirstOnes(Family(d), 1))
  IN  \A d \in days :
        {r.contract : r \in {x \in Stitch : x.day = d}} =
          {e \in InFront(d) : d <= RollDate(e)} \cup
          {e \in ToSet(FirstOnes(Family(d), 2)) \ InFront(d) : d \in InFront(d) /\ d <= RollDate(e)}

\* A signal to roll comes no later than the resolver's own test, and both agree but
\* between five days and the configured threshold; the contract to roll to expires
\* after the one in front.
SignalsAgree ==
  LET signal == RollSignal(fv.today)
      low == IF fv.threshold < 5 THEN fv.threshold ELSE 5
      high == IF fv.threshold < 5 THEN 5 ELSE fv.threshold
  IN  signal.front # NoValue =>
        /\ (signal.action = "roll_to_next") # IsRollImminent(signal.front, fv.today) =>
             signal.front - fv.today \in low + 1 .. high
        /\ signal.next # NoValue => signal.next > signal.front

OptionsHold == ChainHoldsLastQuotes /\ VolatilityBracketsPrice /\ AnalysisIsSound /\ LadderSurroundsSpot
FuturesHold == SeriesFollowsFront /\ SignalsAgree

-----------------------------------------------------------------------------
(* What comments say and the code does not do                              *)

\* What all holders of the options are paid when the underlying settles at k.
Payout(chain, k) ==
  FoldLeft(LAMBDA sum, s : sum + OpenInterest(s.ce) * Positive(k - s.strike)
                               + OpenInterest(s.pe) * Positive(s.strike - k), 0, chain)

\* _compute_max_pain: the "strike that causes maximum loss to option buyers".
MaxPainHurtsBuyersMost ==
  MaxPain(dv.chain) # NoValue =>
    \A s \in ToSet(dv.chain) : Payout(dv.chain, MaxPain(dv.chain)) <= Payout(dv.chain, s.strike)
=============================================================================
