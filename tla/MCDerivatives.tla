--------------------------- MODULE MCDerivatives ---------------------------
(* Model-checking instances of Derivatives.                                *)
EXTENDS Derivatives

Option(strike, side, ltp, oi, iv, delta) ==
  [strike |-> strike, side |-> side, ltp |-> ltp, oi |-> oi, iv |-> iv, delta |-> delta]

\* Uneven strikes; quotes repeated with other values, without a price, a volatility
\* or open interest, beyond what the model can price; a row without a strike, one of
\* a type the builder does not know.
MCOptionRows ==
  {Option(90, "ce", 12, 2, 8, NoValue), Option(90, "pe", 3, 4, NoValue, 50),
   Option(100, "ce", 5, 5, 0, 0), Option(100, "ce", NoValue, 1, NoValue, NoValue),
   Option(100, "pe", 70, 6, 12, NoValue), Option(106, "ce", 1, 3, NoValue, NoValue),
   Option(106, "ce", 90, NoValue, NoValue, 50), Option(106, "pe", 7, 0, NoValue, 0),
   Option(0, "pe", 4, 1, NoValue, NoValue), Option(106, "fut", 100, 9, NoValue, NoValue)}
MCSpots == {NoValue, 97, 103}
MCLadderSteps == {NoValue, 5, 7}
=============================================================================
