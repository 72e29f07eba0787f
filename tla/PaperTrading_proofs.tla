------------------------ MODULE PaperTrading_proofs ------------------------
(***************************************************************************)
(* What holds of the paper account for every market, every set of symbols, *)
(* every configuration and any number of sessions: realized profit, cash   *)
(* and queue agree with the positions, trades happen at real prices, and   *)
(* the portfolio implements TradingAccount.                                *)
(*                                                                         *)
(* The invariant says where the walk over the symbols is, that every       *)
(* position can be marked, that the books balance, and that at most one    *)
(* order of a symbol waits, for what the symbol has.  The sums of          *)
(* the books run over the positions in an order CHOOSE picks; what can be  *)
(* said of them is in SetSums.                                             *)
(*                                                                         *)
(* The second half is about the pick engine, whose picks the paper account *)
(* trades: for every scan, every thresholds and any regime, a setup that   *)
(* is left out has an excuse in the picks ranked before it.  Its invariant *)
(* says that the queue is in the order of the ranks and that the counters  *)
(* of the selector count the picks that were taken.  The last part follows *)
(* these picks through the planner into the hand-off file: each row has    *)
(* the position of its own pick.                                           *)
(***************************************************************************)
EXTENDS PaperTrading, Decision, SetSums, FiniteSetTheorems, WellFoundedInduction, TLAPS

-----------------------------------------------------------------------------
(* The sums of the model                                                   *)

FeeOf == [p \in Pos |-> p.entryFees]
CostOf == [p \in Pos |-> Value(p.entryPrice, p.quantity)]
WorthOf == [p \in Pos |-> Value(Mark(p), p.quantity)]

\* The three sums of the model, over any set of positions.
FeesOf(S) == MapThenSumSet(LAMBDA p : p.entryFees, S)
CostsOf(S) == MapThenSumSet(LAMBDA p : Value(p.entryPrice, p.quantity), S)
Worth(S) == MapThenSumSet(LAMBDA p : Value(Mark(p), p.quantity), S)

\* The entry fees of the positions are such a sum.
LEMMA FeesOfIsTotal ==
  ASSUME NEW S \in SUBSET Pos, Weighs(FeeOf, S)
  PROVE  FeesOf(S) = Total(FeeOf, S)
<1> DEFINE c(s) == CHOOSE x \in s : TRUE
           it == CHOOSE g : g = [s \in SUBSET S |->
                     IF s = {} THEN 0
                     ELSE c(s).entryFees + g[s \ {c(s)}]]
<1>1. FeesOf(S) = it[S]
  BY DEF FeesOf, MapThenSumSet, MapThenFoldSet
<1>2. \A s \in SUBSET S : s # {} => FeeOf[c(s)] = c(s).entryFees
  BY DEF FeeOf
<1>3. PICK f : Sums(FeeOf, S, f)
  BY SumsExist
<1>4. f = [s \in SUBSET S |-> IF s = {} THEN 0
                              ELSE c(s).entryFees + f[s \ {c(s)}]]
  BY <1>2, <1>3 DEF Sums
<1>5. it = [s \in SUBSET S |-> IF s = {} THEN 0
                               ELSE c(s).entryFees + it[s \ {c(s)}]]
  BY <1>4
<1> HIDE DEF it
<1>6. it[{}] = 0
  BY <1>5
<1>7. \A s \in SUBSET S : s # {} => it[s] = FeeOf[c(s)] + it[s \ {c(s)}]
  BY <1>2, <1>5
<1>8. Recurs(FeeOf, S, it)
  BY <1>6, <1>7 DEF Recurs
<1> QED
  BY <1>1, <1>8, SumIsTotal

\* So is what they cost.
LEMMA CostsOfIsTotal ==
  ASSUME NEW S \in SUBSET Pos, Weighs(CostOf, S)
  PROVE  CostsOf(S) = Total(CostOf, S)
<1> DEFINE c(s) == CHOOSE x \in s : TRUE
           it == CHOOSE g : g = [s \in SUBSET S |->
                     IF s = {} THEN 0
                     ELSE Value(c(s).entryPrice, c(s).quantity) + g[s \ {c(s)}]]
<1>1. CostsOf(S) = it[S]
  BY DEF CostsOf, MapThenSumSet, MapThenFoldSet
<1>2. \A s \in SUBSET S : s # {} =>
        CostOf[c(s)] = Value(c(s).entryPrice, c(s).quantity)
  BY DEF CostOf
<1>3. PICK f : Sums(CostOf, S, f)
  BY SumsExist
<1>4. f = [s \in SUBSET S |-> IF s = {} THEN 0
                  ELSE Value(c(s).entryPrice, c(s).quantity) + f[s \ {c(s)}]]
  BY <1>2, <1>3 DEF Sums
<1>5. it = [s \in SUBSET S |-> IF s = {} THEN 0
                   ELSE Value(c(s).entryPrice, c(s).quantity) + it[s \ {c(s)}]]
  BY <1>4
<1> HIDE DEF it
<1>6. it[{}] = 0
  BY <1>5
<1>7. \A s \in SUBSET S : s # {} => it[s] = CostOf[c(s)] + it[s \ {c(s)}]
  BY <1>2, <1>5
<1>8. Recurs(CostOf, S, it)
  BY <1>6, <1>7 DEF Recurs
<1> QED
  BY <1>1, <1>8, SumIsTotal

\* So is what they are worth.
LEMMA WorthIsTotal ==
  ASSUME NEW S \in SUBSET Pos, Weighs(WorthOf, S)
  PROVE  Worth(S) = Total(WorthOf, S)
<1> DEFINE c(s) == CHOOSE x \in s : TRUE
           it == CHOOSE g : g = [s \in SUBSET S |->
                     IF s = {} THEN 0
                     ELSE Value(Mark(c(s)), c(s).quantity) + g[s \ {c(s)}]]
<1>1. Worth(S) = it[S]
  BY DEF Worth, MapThenSumSet, MapThenFoldSet
<1>2. \A s \in SUBSET S : s # {} => WorthOf[c(s)] = Value(Mark(c(s)), c(s).quantity)
  BY DEF WorthOf
<1>3. PICK f : Sums(WorthOf, S, f)
  BY SumsExist
<1>4. f = [s \in SUBSET S |-> IF s = {} THEN 0
                  ELSE Value(Mark(c(s)), c(s).quantity) + f[s \ {c(s)}]]
  BY <1>2, <1>3 DEF Sums
<1>5. it = [s \in SUBSET S |-> IF s = {} THEN 0
                   ELSE Value(Mark(c(s)), c(s).quantity) + it[s \ {c(s)}]]
  BY <1>4
<1> HIDE DEF it
<1>6. it[{}] = 0
  BY <1>5
<1>7. \A s \in SUBSET S : s # {} => it[s] = WorthOf[c(s)] + it[s \ {c(s)}]
  BY <1>2, <1>5
<1>8. Recurs(WorthOf, S, it)
  BY <1>6, <1>7 DEF Recurs
<1> QED
  BY <1>1, <1>8, SumIsTotal

\* The sums in the model, in this step's state and the next.
LEMMA SumsNow ==
  /\ EntryFees = FeesOf(open)
  /\ EntryFees' = FeesOf(open')
  /\ Book = FeesOf(open) + CostsOf(open)
  /\ Book' = FeesOf(open') + CostsOf(open')
  /\ Deployed = Worth(open)
<1>1. EntryFees = FeesOf(open)
  BY DEF EntryFees, FeesOf, MapThenSumSet, MapThenFoldSet
<1>2. EntryFees' = FeesOf(open')
  BY DEF EntryFees, FeesOf, MapThenSumSet, MapThenFoldSet
<1>3. MapThenSumSet(LAMBDA p : Value(p.entryPrice, p.quantity), open) = CostsOf(open)
  BY DEF CostsOf, MapThenSumSet, MapThenFoldSet
<1>4. Book = FeesOf(open) + CostsOf(open)
  BY <1>1, <1>3 DEF Book, CostsOf, MapThenSumSet, MapThenFoldSet
<1>5. Book' = FeesOf(open') + CostsOf(open')
  BY <1>2 DEF Book, CostsOf, Value, MapThenSumSet, MapThenFoldSet
<1>6. Deployed = Worth(open)
  BY DEF Deployed, Worth, MapThenSumSet, MapThenFoldSet
<1> QED
  BY <1>1, <1>2, <1>4, <1>5, <1>6

-----------------------------------------------------------------------------
(* The ends of a set of numbers                                            *)

\* A non-empty set of naturals has its minimum.
LEMMA MinIsMember ==
  ASSUME NEW S \in SUBSET Nat, S # {}
  PROVE  Min(S) \in S
<1>1. PICK x \in S : \A y \in S : ~(<<y, x>> \in OpToRel(<, Nat))
  BY WFMin, NatLessThanWellFounded
<1>2. \A y \in S : ~(y < x)
  BY <1>1 DEF OpToRel
<1>3. \A y \in S : x =< y
  BY <1>2
<1> QED
  BY <1>3 DEF Min

\* A finite set of numbers that is not empty has its least and its greatest member.
LEMMA Extremes ==
  ASSUME NEW S \in SUBSET Int, IsFiniteSet(S), S # {}
  PROVE  Min(S) \in S /\ Max(S) \in S
<1> DEFINE Good == {s \in SUBSET S : s = {} \/ ((\E x \in s : \A y \in s : x =< y)
                                              /\ (\E x \in s : \A y \in s : x >= y))}
<1>1. ASSUME NEW s \in SUBSET S, \A x \in s : s \ {x} \in Good
      PROVE  s \in Good
  <2> SUFFICES ASSUME s # {} PROVE s \in Good
    OBVIOUS
  <2>1. PICK x \in s : TRUE
    OBVIOUS
  <2>2. s \ {x} \in Good
    BY <1>1, <2>1
  <2>3. CASE s \ {x} = {}
    <3>1. s = {x} /\ x \in Int
      BY <2>1, <2>3
    <3> QED
      BY <3>1
  <2>4. CASE s \ {x} # {}
    <3>1. PICK a \in s \ {x} : \A y \in s \ {x} : a =< y
      BY <2>2, <2>4
    <3>2. PICK b \in s \ {x} : \A y \in s \ {x} : b >= y
      BY <2>2, <2>4
    <3>3. \E m \in s : \A y \in s : m =< y
      <4>1. x =< a => \A y \in s : x =< y
        BY <2>1, <3>1
      <4>2. ~(x =< a) => \A y \in s : a =< y
        BY <2>1, <3>1
      <4> QED
        BY <2>1, <3>1, <4>1, <4>2
    <3>4. \E m \in s : \A y \in s : m >= y
      <4>1. x >= b => \A y \in s : x >= y
        BY <2>1, <3>2
      <4>2. ~(x >= b) => \A y \in s : b >= y
        BY <2>1, <3>2
      <4> QED
        BY <2>1, <3>2, <4>1, <4>2
    <3> QED
      BY <3>3, <3>4
  <2> QED
    BY <2>3, <2>4
<1> HIDE DEF Good
<1>2. \A s \in SUBSET S : s \in Good
  BY <1>1, SetInduction
<1>3. (\E x \in S : \A y \in S : x =< y) /\ (\E x \in S : \A y \in S : x >= y)
  BY <1>2 DEF Good
<1> QED
  BY <1>3 DEF Min, Max

-----------------------------------------------------------------------------
(* Prices and money                                                        *)

\* The rates.
LEMMA Rates ==
  /\ Den \in Nat \ {0} /\ CommissionRate \in Nat /\ SlippageRate \in Nat
  /\ CommissionRate + 2 * SlippageRate <= Den
  BY ConfigAssumption

\* A quoted price in units.
LEMMA PxPositive ==
  ASSUME NEW x \in Nat
  PROVE  Px(x) \in Nat /\ (x > 0 => Px(x) > 0)
  BY Rates DEF Px

\* Units keep the order of prices.
LEMMA PxMonotone ==
  ASSUME NEW x \in Nat, NEW y \in Nat, x <= y
  PROVE  Px(x) <= Px(y)
<1>1. Den * Den * Den \in Nat
  BY Rates
<1>2. \A d \in Nat : x * d <= y * d
  OBVIOUS
<1>3. Px(x) = x * (Den * Den * Den) /\ Px(y) = y * (Den * Den * Den)
  BY Rates DEF Px
<1> QED
  BY <1>1, <1>2, <1>3

\* The value of a quantity is a number with the sign of its price.
LEMMA ValueType ==
  ASSUME NEW x \in Int, NEW q \in Nat \ {0}
  PROVE  /\ Value(x, q) \in Int
         /\ x >= 0 => Value(x, q) >= 0
         /\ x > 0 => Value(x, q) > 0
  BY Rates DEF Value

\* Value is additive in the price.
LEMMA ValueSum ==
  ASSUME NEW x \in Int, NEW y \in Int, NEW q \in Nat
  PROVE  /\ Value(x + y, q) = Value(x, q) + Value(y, q)
         /\ Value(x - y, q) = Value(x, q) - Value(y, q)
  BY Rates DEF Value

\* The slippage is the price times the rate, rounded down.
LEMMA SlipBounds ==
  ASSUME NEW raw \in Nat
  PROVE  LET slip == (raw * SlippageRate) \div Den
         IN  /\ slip \in 0..raw
             /\ slip * Den <= raw * SlippageRate
             /\ raw * SlippageRate < slip * Den + Den
<1> DEFINE top == raw * SlippageRate
           slip == top \div Den
<1>1. top \in Nat /\ top <= raw * Den
  BY Rates
<1>2. raw * Den \in Nat
  BY Rates
<1> HIDE DEF top
<1>3. slip \in Nat /\ slip * Den <= top /\ top < slip * Den + Den
  BY <1>1, Rates
<1>4. slip <= raw
  <2> HIDE DEF slip
  <2> QED
    BY <1>1, <1>2, <1>3, Rates
<1> QED
  BY <1>3, <1>4 DEF top

\* A purchase costs more than nothing; what is bought is booked at its price.
LEMMA BuyMoney ==
  ASSUME NEW raw \in Nat \ {0}, NEW q \in Nat \ {0}
  PROVE  /\ FillPrice("buy", raw) \in Nat \ {0}
         /\ TotalCost("buy", raw, q) \in Nat
         /\ Value(FillPrice("buy", raw), q) \in Nat \ {0}
         /\ CashNeeded(raw, q) = Value(FillPrice("buy", raw), q) + TotalCost("buy", raw, q)
<1> DEFINE slip == (raw * SlippageRate) \div Den
<1>1. slip \in 0..raw
  BY SlipBounds
<1>2. FillPrice("buy", raw) = raw + slip
  BY DEF FillPrice
<1>3. TotalCost("buy", raw, q) = raw * q * CommissionRate + Value((raw + slip) - raw, q)
  BY <1>2 DEF TotalCost
<1> HIDE DEF slip
<1>4. (raw + slip) - raw = slip
  BY <1>1
<1>5. Value(slip, q) \in Nat /\ raw * q * CommissionRate \in Nat
  BY <1>1, Rates, ValueType
<1>6. Value(raw + slip, q) \in Nat \ {0}
  <2> DEFINE x == raw + slip
  <2>1. x \in Int /\ x > 0
    BY <1>1
  <2> HIDE DEF x
  <2>2. Value(x, q) \in Int /\ Value(x, q) > 0
    BY <2>1, ValueType
  <2> QED
    BY <2>2 DEF x
<1>7. CashNeeded(raw, q) = Value(FillPrice("buy", raw), q) + TotalCost("buy", raw, q)
  BY DEF CashNeeded
<1>8. TotalCost("buy", raw, q) \in Nat
  BY <1>3, <1>4, <1>5
<1>9. FillPrice("buy", raw) \in Nat \ {0}
  BY <1>1, <1>2
<1> QED
  BY <1>2, <1>6, <1>7, <1>8, <1>9

\* What a sale brings in, over the price of one unit.
PerUnit(raw) == raw * Den - 2 * (((raw * SlippageRate) \div Den) * Den) - raw * CommissionRate

\* A sale brings in something, never less than nothing, and so much per unit.
LEMMA SellMoney ==
  ASSUME NEW raw \in Nat \ {0}, NEW q \in Nat \ {0}
  PROVE  /\ FillPrice("sell", raw) \in Nat
         /\ TotalCost("sell", raw, q) \in Nat
         /\ PerUnit(raw) \in Nat
         /\ Proceeds(raw, q) = q * PerUnit(raw)
         /\ Proceeds(raw, q) \in Nat
<1> DEFINE slip == (raw * SlippageRate) \div Den
<1>1. slip \in 0..raw /\ slip * Den <= raw * SlippageRate
  BY SlipBounds
<1>2. FillPrice("sell", raw) = raw - slip
  BY DEF FillPrice
<1>3. TotalCost("sell", raw, q) = raw * q * CommissionRate + Value(raw - (raw - slip), q)
  BY <1>2 DEF TotalCost
<1>4. PerUnit(raw) = raw * Den - 2 * (slip * Den) - raw * CommissionRate
  BY DEF PerUnit
<1> HIDE DEF slip
<1>5. raw - (raw - slip) = slip
  BY <1>1
<1>6. Value(slip, q) \in Nat /\ raw * q * CommissionRate \in Nat
  BY <1>1, Rates, ValueType
<1>7. PerUnit(raw) \in Nat
  <2>1. raw * (CommissionRate + 2 * SlippageRate) <= raw * Den
    BY Rates
  <2>2. raw * (CommissionRate + 2 * SlippageRate)
          = raw * CommissionRate + 2 * (raw * SlippageRate)
    BY Rates
  <2>3. /\ raw * CommissionRate \in Int /\ raw * SlippageRate \in Int
        /\ raw * Den \in Int /\ slip * Den \in Int
    BY <1>1, Rates
  <2> QED
    BY <1>1, <1>4, <2>1, <2>2, <2>3
<1>8. Proceeds(raw, q) = q * PerUnit(raw)
  <2>1. Proceeds(raw, q) = Value(raw - slip, q) - (raw * q * CommissionRate + Value(slip, q))
    BY <1>2, <1>3, <1>5 DEF Proceeds
  <2>2. Value(raw - slip, q) = Value(raw, q) - Value(slip, q)
    BY <1>1, ValueSum
  <2>3. Value(raw, q) = q * (raw * Den) /\ Value(slip, q) = q * (slip * Den)
    BY <1>1, Rates DEF Value
  <2>4. raw * q * CommissionRate = q * (raw * CommissionRate)
    BY Rates
  <2>5. /\ raw * CommissionRate \in Int /\ raw * Den \in Int /\ slip * Den \in Int
    BY <1>1, Rates
  <2> DEFINE x == raw * Den
             y == slip * Den
             z == raw * CommissionRate
  <2>6. \A a, b, c \in Int : (q * a - q * b) - (q * c + q * b) = q * (a - 2 * b - c)
    OBVIOUS
  <2> QED
    BY <1>4, <2>1, <2>2, <2>3, <2>4, <2>5, <2>6
<1> QED
  BY <1>1, <1>2, <1>3, <1>5, <1>6, <1>7, <1>8

\* At a quoted price the slippage is exact: Px has more decimals than the rate.
LEMMA QuotedSlip ==
  ASSUME NEW x \in Nat
  PROVE  ((Px(x) * SlippageRate) \div Den) * Den = Px(x) * SlippageRate
<1> DEFINE whole == x * Den * Den * SlippageRate
           slip == (Px(x) * SlippageRate) \div Den
<1>1. whole \in Nat /\ Px(x) * SlippageRate = whole * Den
  BY Rates DEF Px
<1>2. slip \in Nat /\ slip * Den <= whole * Den /\ whole * Den < slip * Den + Den
  BY <1>1, PxPositive, SlipBounds
<1>3. \A a, b \in Nat : \A d \in Nat \ {0} : a < b => a * d + d <= b * d
  <2> SUFFICES ASSUME NEW a \in Nat, NEW b \in Nat, NEW d \in Nat \ {0}, a < b
               PROVE  a * d + d <= b * d
    OBVIOUS
  <2>1. (a + 1) * d <= b * d
    OBVIOUS
  <2>2. (a + 1) * d = a * d + d
    OBVIOUS
  <2> QED
    BY <2>1, <2>2
<1>4. whole * Den \in Int /\ slip * Den \in Int
  BY <1>1, <1>2, Rates
<1> HIDE DEF whole, slip
<1>5. ~(slip < whole) /\ ~(whole < slip)
  <2>1. slip < whole => slip * Den + Den <= whole * Den
    BY <1>1, <1>2, <1>3, Rates
  <2>2. whole < slip => whole * Den + Den <= slip * Den
    BY <1>1, <1>2, <1>3, Rates
  <2> QED
    BY <1>2, <1>4, <2>1, <2>2, Rates
<1>6. slip = whole
  BY <1>1, <1>2, <1>5
<1> QED
  BY <1>1, <1>6 DEF slip

\* A sale within the bar brings in what a sale at its low would, at least, and what
\* a sale at its high would, at most, but for the rounding of the slippage.
LEMMA SaleWithinBar ==
  ASSUME NEW low \in Nat \ {0}, NEW high \in Nat \ {0}, NEW raw \in Nat \ {0},
         NEW q \in Nat \ {0}, Px(low) <= raw, raw <= Px(high)
  PROVE  Proceeds(raw, q) \in Proceeds(Px(low), q) .. (Proceeds(Px(high), q) + Value(2, q))
<1> DEFINE net == Den - CommissionRate - 2 * SlippageRate
           l == Px(low)
           h == Px(high)
<1>1. net \in Nat /\ l \in Nat \ {0} /\ h \in Nat \ {0}
  BY Rates, PxPositive
<1>2. \A y \in Nat : y * net = y * Den - y * CommissionRate - 2 * (y * SlippageRate)
  BY Rates
<1>3. PerUnit(l) = l * net /\ PerUnit(h) = h * net
  <2>1. ((l * SlippageRate) \div Den) * Den = l * SlippageRate
    BY QuotedSlip
  <2>2. ((h * SlippageRate) \div Den) * Den = h * SlippageRate
    BY QuotedSlip
  <2>3. /\ l * net = l * Den - l * CommissionRate - 2 * (l * SlippageRate)
        /\ h * net = h * Den - h * CommissionRate - 2 * (h * SlippageRate)
    BY <1>1, <1>2
  <2>4. /\ PerUnit(l) = l * Den - 2 * (l * SlippageRate) - l * CommissionRate
        /\ PerUnit(h) = h * Den - 2 * (h * SlippageRate) - h * CommissionRate
    BY <2>1, <2>2 DEF PerUnit
  <2>5. /\ l * Den \in Int /\ l * CommissionRate \in Int /\ l * SlippageRate \in Int
        /\ h * Den \in Int /\ h * CommissionRate \in Int /\ h * SlippageRate \in Int
    BY <1>1, Rates
  <2> HIDE DEF net, l, h
  <2> QED
    BY <2>3, <2>4, <2>5
<1>4. raw * net <= PerUnit(raw) /\ PerUnit(raw) <= raw * net + 2 * Den
  <2> DEFINE f == ((raw * SlippageRate) \div Den) * Den
  <2>1. f \in Int /\ f <= raw * SlippageRate /\ raw * SlippageRate < f + Den
    BY SlipBounds, Rates
  <2>2. PerUnit(raw) = raw * Den - 2 * f - raw * CommissionRate
    BY DEF PerUnit
  <2>3. raw * net = raw * Den - raw * CommissionRate - 2 * (raw * SlippageRate)
    BY <1>2
  <2>4. raw * Den \in Int /\ raw * CommissionRate \in Int /\ raw * SlippageRate \in Int
    BY Rates
  <2> HIDE DEF f, net
  <2> QED
    BY <2>1, <2>2, <2>3, <2>4, Rates
<1>5. l * net <= raw * net /\ raw * net <= h * net
  <2> HIDE DEF net
  <2>1. \A a, b, c \in Nat : a <= b => a * c <= b * c
    OBVIOUS
  <2> QED
    BY <1>1, <2>1
<1>6. PerUnit(l) <= PerUnit(raw) /\ PerUnit(raw) <= PerUnit(h) + 2 * Den
  <2>1. l * net \in Int /\ raw * net \in Int /\ h * net \in Int /\ 2 * Den \in Int
    BY <1>1, Rates
  <2>2. PerUnit(raw) \in Nat
    BY SellMoney
  <2> HIDE DEF net, l, h
  <2> QED
    BY <1>3, <1>4, <1>5, <2>1, <2>2
<1>7. /\ Proceeds(l, q) = q * PerUnit(l) /\ Proceeds(h, q) = q * PerUnit(h)
      /\ Proceeds(raw, q) = q * PerUnit(raw)
      /\ PerUnit(l) \in Nat /\ PerUnit(h) \in Nat /\ PerUnit(raw) \in Nat
  BY <1>1, SellMoney
<1>8. Value(2, q) = q * (2 * Den) /\ 2 * Den \in Nat
  BY Rates DEF Value
<1> HIDE DEF l, h
<1>9. \A a, b, c, d \in Nat :
        a <= b /\ b <= c + d => q * b \in (q * a) .. (q * c + q * d)
  <2> SUFFICES ASSUME NEW a \in Nat, NEW b \in Nat, NEW c \in Nat, NEW d \in Nat,
                      a <= b, b <= c + d
               PROVE  q * b \in (q * a) .. (q * c + q * d)
    OBVIOUS
  <2>1. q * a <= q * b
    OBVIOUS
  <2>2. q * b <= q * (c + d) /\ q * (c + d) = q * c + q * d
    OBVIOUS
  <2> QED
    BY <2>1, <2>2
<1>10. q * PerUnit(raw) \in (q * PerUnit(l)) .. (q * PerUnit(h) + q * (2 * Den))
  BY <1>6, <1>7, <1>8, <1>9
<1> QED
  BY <1>7, <1>8, <1>10 DEF l, h

-----------------------------------------------------------------------------
(* The books                                                               *)

\* The money and the positions, and how they agree.
Books ==
  /\ open \in SUBSET Pos /\ IsFiniteSet(open)
  /\ cash \in Nat /\ realized \in Int /\ closedPnl \in Int
  /\ RealizedMatchesPositions

\* The position that a purchase adds: it is worth what was paid for it.
Bought(p) ==
  /\ open' = open \union {p} /\ p \notin open /\ p \in Pos
  /\ cash' = cash - (Value(p.entryPrice, p.quantity) + p.entryFees)
  /\ cash' >= 0
  /\ realized' = realized - p.entryFees
  /\ closedPnl' = closedPnl

\* The sale of a position: it takes in more than nothing, and its result is what
\* it takes in less what was paid for it.
Sold(p) ==
  \E in \in Nat :
    LET pnl == in - (Value(p.entryPrice, p.quantity) + p.entryFees)
    IN  /\ p \in open /\ open' = open \ {p}
        /\ cash' = cash + in
        /\ realized' = realized + pnl + p.entryFees
        /\ closedPnl' = closedPnl + pnl

\* Positions that are marked: what was bought, and for how much, stays.
Kept(h) ==
  /\ \A p \in open : /\ h[p] \in Pos
                     /\ h[p].symbol = p.symbol /\ h[p].quantity = p.quantity
                     /\ h[p].entryPrice = p.entryPrice /\ h[p].entryFees = p.entryFees
                     /\ h[p].entryBar = p.entryBar
  /\ open' = {h[p] : p \in open}
  /\ UNCHANGED <<cash, realized, closedPnl>>

\* No symbol has two positions.
OnePosition == \A p, q \in open : p.symbol = q.symbol => p = q

\* The fields of a position, and what it costs.
LEMMA PosFields ==
  ASSUME NEW p \in Pos
  PROVE  /\ p.symbol \in Symbols /\ p.entryPrice \in Nat \ {0} /\ p.quantity \in Nat \ {0}
         /\ p.entryFees \in Nat /\ p.highest \in Nat /\ p.entryBar \in 1..NumBars
         /\ p.stop \in Int \union {NONE} /\ p.take \in Int \union {NONE}
         /\ Value(p.entryPrice, p.quantity) \in Nat \ {0}
         /\ FeeOf[p] = p.entryFees /\ CostOf[p] = Value(p.entryPrice, p.quantity)
<1>1. /\ p.symbol \in Symbols /\ p.entryPrice \in Nat \ {0} /\ p.quantity \in Nat \ {0}
      /\ p.entryFees \in Nat /\ p.highest \in Nat /\ p.entryBar \in 1..NumBars
      /\ p.stop \in Int \union {NONE} /\ p.take \in Int \union {NONE}
  BY DEF Pos
<1>2. Value(p.entryPrice, p.quantity) \in Nat \ {0}
  <2>1. p.entryPrice \in Int /\ p.entryPrice > 0
    BY <1>1
  <2>2. Value(p.entryPrice, p.quantity) \in Int /\ Value(p.entryPrice, p.quantity) > 0
    BY <1>1, <2>1, ValueType
  <2> QED
    BY <2>2
<1>3. FeeOf[p] = p.entryFees /\ CostOf[p] = Value(p.entryPrice, p.quantity)
  BY DEF FeeOf, CostOf
<1> QED
  BY <1>1, <1>2, <1>3

\* The sums over a finite set of positions are well defined.
LEMMA WeighPositions ==
  ASSUME NEW S \in SUBSET Pos, IsFiniteSet(S)
  PROVE  /\ Weighs(FeeOf, S) /\ Weighs(CostOf, S)
         /\ FeesOf(S) = Total(FeeOf, S) /\ CostsOf(S) = Total(CostOf, S)
         /\ FeesOf(S) \in Nat /\ CostsOf(S) \in Nat
<1>1. \A p \in S : FeeOf[p] \in Nat /\ CostOf[p] \in Nat
  BY PosFields
<1>2. Weighs(FeeOf, S) /\ Weighs(CostOf, S)
  BY <1>1 DEF Weighs
<1>3. FeesOf(S) = Total(FeeOf, S) /\ CostsOf(S) = Total(CostOf, S)
  BY <1>2, FeesOfIsTotal, CostsOfIsTotal
<1>4. Total(FeeOf, S) \in Int /\ Total(CostOf, S) \in Int
  BY <1>2, TotalFacts
<1>5. Total(FeeOf, S) >= 0 /\ Total(CostOf, S) >= 0
  <2>1. (\A p \in S : FeeOf[p] >= 0) /\ (\A p \in S : CostOf[p] >= 0)
    BY <1>1
  <2> QED
    BY <1>2, <2>1, TotalNat
<1> QED
  BY <1>2, <1>3, <1>4, <1>5

\* Adding a position adds its entry fees and its price to the book.
LEMMA AddPosition ==
  ASSUME NEW S \in SUBSET Pos, IsFiniteSet(S), NEW p \in Pos, p \notin S
  PROVE  /\ IsFiniteSet(S \union {p})
         /\ FeesOf(S \union {p}) = p.entryFees + FeesOf(S)
         /\ CostsOf(S \union {p}) = Value(p.entryPrice, p.quantity) + CostsOf(S)
<1> DEFINE T == S \union {p}
<1>1. T \in SUBSET Pos /\ IsFiniteSet(T) /\ p \in T /\ T \ {p} = S
  BY FS_AddElement
<1> HIDE DEF T
<1>2. /\ Total(FeeOf, T) = FeeOf[p] + Total(FeeOf, T \ {p})
      /\ Total(CostOf, T) = CostOf[p] + Total(CostOf, T \ {p})
  <2>1. Weighs(FeeOf, T) /\ Weighs(CostOf, T)
    BY <1>1, WeighPositions
  <2> QED
    BY <1>1, <2>1, TotalFacts
<1>3. /\ FeesOf(T) = p.entryFees + FeesOf(S)
      /\ CostsOf(T) = Value(p.entryPrice, p.quantity) + CostsOf(S)
  BY <1>1, <1>2, WeighPositions, PosFields
<1> QED
  BY <1>1, <1>3 DEF T

\* Removing one takes them away again.
LEMMA RemovePosition ==
  ASSUME NEW S \in SUBSET Pos, IsFiniteSet(S), NEW p \in S
  PROVE  /\ IsFiniteSet(S \ {p})
         /\ FeesOf(S) = p.entryFees + FeesOf(S \ {p})
         /\ CostsOf(S) = Value(p.entryPrice, p.quantity) + CostsOf(S \ {p})
<1> DEFINE T == S \ {p}
<1>1. T \in SUBSET Pos /\ IsFiniteSet(T) /\ p \in Pos /\ p \notin T /\ T \union {p} = S
  BY FS_RemoveElement
<1> HIDE DEF T
<1>2. /\ FeesOf(T \union {p}) = p.entryFees + FeesOf(T)
      /\ CostsOf(T \union {p}) = Value(p.entryPrice, p.quantity) + CostsOf(T)
  BY <1>1, AddPosition
<1> QED
  BY <1>1, <1>2 DEF T

\* What was paid and charged, the book and the result realized so far stay.
LEMMA BoughtKeepsBooks ==
  ASSUME Books, NEW p, Bought(p)
  PROVE  Books' /\ Account!Buy
<1>1. /\ open \in SUBSET Pos /\ IsFiniteSet(open) /\ cash \in Nat /\ realized \in Int
      /\ closedPnl \in Int /\ realized = closedPnl - FeesOf(open)
  BY SumsNow DEF Books, RealizedMatchesPositions
<1>2. /\ p \in Pos /\ p \notin open /\ open' = open \union {p}
      /\ cash' = cash - (Value(p.entryPrice, p.quantity) + p.entryFees)
      /\ cash' >= 0 /\ realized' = realized - p.entryFees /\ closedPnl' = closedPnl
  BY DEF Bought
<1>3. p.entryFees \in Nat /\ Value(p.entryPrice, p.quantity) \in Nat \ {0}
  BY <1>2, PosFields
<1>4. /\ IsFiniteSet(open')
      /\ FeesOf(open') = p.entryFees + FeesOf(open)
      /\ CostsOf(open') = Value(p.entryPrice, p.quantity) + CostsOf(open)
  BY <1>1, <1>2, AddPosition
<1>5. FeesOf(open) \in Nat /\ CostsOf(open) \in Nat
  BY <1>1, WeighPositions
<1>6. cash' \in Nat /\ cash' < cash /\ realized' \in Int
  BY <1>1, <1>2, <1>3
<1>7. realized' = closedPnl' - FeesOf(open')
  BY <1>1, <1>2, <1>3, <1>4, <1>5
<1>8. Book' = Book + (cash - cash')
  <2>1. Book = FeesOf(open) + CostsOf(open) /\ Book' = FeesOf(open') + CostsOf(open')
    BY SumsNow
  <2> QED
    BY <1>1, <1>2, <1>3, <1>4, <1>5, <2>1
<1>9. Books'
  BY <1>1, <1>2, <1>4, <1>6, <1>7, SumsNow DEF Books, RealizedMatchesPositions
<1> QED
  BY <1>2, <1>6, <1>8, <1>9 DEF Account!Buy

\* The entry fees leave the book as they are charged to the result of the trade.
LEMMA SoldKeepsBooks ==
  ASSUME Books, NEW p, Sold(p)
  PROVE  Books' /\ Account!Sell
<1>1. /\ open \in SUBSET Pos /\ IsFiniteSet(open) /\ cash \in Nat /\ realized \in Int
      /\ closedPnl \in Int /\ realized = closedPnl - FeesOf(open)
  BY SumsNow DEF Books, RealizedMatchesPositions
<1> DEFINE paid == Value(p.entryPrice, p.quantity) + p.entryFees
<1>2. PICK in \in Nat :
        /\ p \in open /\ open' = open \ {p}
        /\ cash' = cash + in
        /\ realized' = realized + (in - paid) + p.entryFees
        /\ closedPnl' = closedPnl + (in - paid)
  BY DEF Sold
<1>3. p \in Pos /\ p.entryFees \in Nat /\ Value(p.entryPrice, p.quantity) \in Nat \ {0}
  BY <1>1, <1>2, PosFields
<1>4. paid \in Nat \ {0}
  BY <1>3
<1>5. /\ IsFiniteSet(open')
      /\ FeesOf(open) = p.entryFees + FeesOf(open')
      /\ CostsOf(open) = Value(p.entryPrice, p.quantity) + CostsOf(open')
  BY <1>1, <1>2, RemovePosition
<1>6. open' \in SUBSET Pos
  BY <1>1, <1>2
<1>7. FeesOf(open') \in Nat /\ CostsOf(open') \in Nat
  BY <1>5, <1>6, WeighPositions
<1>8. Book = FeesOf(open) + CostsOf(open) /\ Book' = FeesOf(open') + CostsOf(open')
  BY SumsNow
<1>9. Book - Book' = paid
  BY <1>3, <1>5, <1>7, <1>8
<1>10. Book' \in Nat /\ Book \in Nat
  BY <1>3, <1>5, <1>7, <1>8
<1> HIDE DEF paid
<1>11. Book' < Book
  <2>1. \A b, c \in Nat : \A d \in Nat \ {0} : b - c = d => c < b
    OBVIOUS
  <2> QED
    BY <1>4, <1>9, <1>10, <2>1
<1>12. cash' \in Nat /\ cash' >= cash /\ realized' \in Int /\ closedPnl' \in Int
  BY <1>1, <1>2, <1>3, <1>4
<1>13. realized' = closedPnl' - FeesOf(open')
  <2>1. \A r, c, f, g, e, x \in Int : r = c - f /\ f = e + g => r + x + e = (c + x) - g
    OBVIOUS
  <2>2. in - paid \in Int /\ FeesOf(open) \in Int
    BY <1>3, <1>4, <1>5, <1>7
  <2> QED
    BY <1>1, <1>2, <1>3, <1>5, <1>7, <2>1, <2>2
<1>14. closedPnl' = closedPnl + (cash' - cash) - (Book - Book')
  BY <1>1, <1>2, <1>4, <1>9
<1>15. Books'
  BY <1>5, <1>6, <1>12, <1>13, SumsNow DEF Books, RealizedMatchesPositions
<1> QED
  BY <1>10, <1>11, <1>12, <1>14, <1>15 DEF Account!Sell

\* Marking changes neither the price paid nor the fees of a position.
LEMMA KeptKeepsBooks ==
  ASSUME Books, OnePosition, NEW h, Kept(h)
  PROVE  Books' /\ UNCHANGED Account!account
<1>1. /\ open \in SUBSET Pos /\ IsFiniteSet(open) /\ cash \in Nat /\ realized \in Int
      /\ closedPnl \in Int /\ realized = closedPnl - FeesOf(open)
  BY SumsNow DEF Books, RealizedMatchesPositions
<1>2. /\ open' = {h[p] : p \in open} /\ open' \in SUBSET Pos
      /\ UNCHANGED <<cash, realized, closedPnl>>
  BY DEF Kept
<1>3. IsFiniteSet(open')
  <2> DEFINE f == [p \in open |-> h[p]]
  <2>1. f \in Surjection(open, open')
    BY <1>2 DEF Surjection
  <2> QED
    BY <1>1, <2>1, FS_Surjection
<1>4. \A p, q \in open : h[p] = h[q] => p = q
  BY DEF Kept, OnePosition
<1>5. \A p \in open : /\ h[p] \in open'
                      /\ FeeOf[h[p]] = FeeOf[p] /\ CostOf[h[p]] = CostOf[p]
  <2> SUFFICES ASSUME NEW p \in open
               PROVE  /\ h[p] \in open'
                      /\ FeeOf[h[p]] = FeeOf[p] /\ CostOf[h[p]] = CostOf[p]
    OBVIOUS
  <2>1. /\ h[p] \in Pos /\ p \in Pos /\ h[p].quantity = p.quantity
        /\ h[p].entryPrice = p.entryPrice /\ h[p].entryFees = p.entryFees
    BY <1>1 DEF Kept
  <2> QED
    BY <1>2, <2>1 DEF FeeOf, CostOf
<1>6. Weighs(FeeOf, open) /\ Weighs(CostOf, open) /\ Weighs(FeeOf, open') /\ Weighs(CostOf, open')
  BY <1>1, <1>2, <1>3, WeighPositions
<1>7. Total(FeeOf, open) = Total(FeeOf, open')
  BY <1>2, <1>4, <1>5, <1>6, TotalRenamed
<1>8. Total(CostOf, open) = Total(CostOf, open')
  BY <1>2, <1>4, <1>5, <1>6, TotalRenamed
<1>9. FeesOf(open') = FeesOf(open) /\ CostsOf(open') = CostsOf(open)
  BY <1>1, <1>2, <1>3, <1>7, <1>8, WeighPositions
<1>10. Book' = Book
  BY <1>9, SumsNow
<1>11. Books'
  BY <1>1, <1>2, <1>3, <1>9, SumsNow DEF Books, RealizedMatchesPositions
<1> QED
  BY <1>2, <1>10, <1>11 DEF Account!account

-----------------------------------------------------------------------------
(* The inductive invariant                                                 *)

InWalk == {"fill", "exit", "evaluate", "mark"}

\* Where the walk is: on a timestamp of the session, at a symbol it ranks.
Walking ==
  /\ feed \in Feeds /\ last \in 0..NumBars
  /\ pc \in InWalk \union {"idle", "close"}
  /\ pc # "idle" => /\ mode \in Modes /\ now \in Timeline(last)
                    /\ rank \in Seq(Frames(last)) /\ k \in 1..Len(rank)
  /\ pc = "close" => mode.closeAtEnd

\* What is held can be marked: its symbol has a last price, or will get one at the
\* end of this walk.
Priced ==
  /\ lastPrice \in [Symbols -> Nat \union {NONE}]
  /\ \A p \in open :
       \/ lastPrice[p.symbol] # NONE
       \/ pc \in InWalk /\ Has(p.symbol) /\ p.symbol \in Frames(last)

\* QueueAgreesWithPositions, without the counting.
Matched ==
  /\ OnePosition
  /\ pending \in SUBSET Order
  /\ \A a, b \in pending : a.symbol = b.symbol => a = b
  /\ \A o \in pending : o.side = "buy" => \A p \in open : p.symbol # o.symbol
  /\ \A o \in pending : o.side = "sell" =>
       /\ \A p \in open : p.symbol = o.symbol => p.quantity = o.quantity
       /\ (\E p \in open : p.symbol = o.symbol) \/ \E m \in Modes : m.closeAtEnd

IInv == Walking /\ Books /\ Priced /\ Matched

-----------------------------------------------------------------------------
(* Bars, levels and orders                                                 *)

\* The symbols and the timestamps of a session are among those of the feed.
LEMMA FramesAndTimeline ==
  /\ \A l : Frames(l) \subseteq Symbols
  /\ \A l \in 0..NumBars : Timeline(l) \subseteq 1..l /\ Timeline(l) \subseteq 1..NumBars
  BY ConfigAssumption DEF Frames, Timeline

\* At work, the engine is at a symbol of the session on a bar of the feed.
LEMMA AtWork ==
  ASSUME Walking, pc # "idle"
  PROVE  /\ rank[k] \in Frames(last) /\ rank[k] \in Symbols
         /\ now \in 1..NumBars /\ mode \in Modes
<1>1. rank[k] \in Frames(last) /\ now \in Timeline(last) /\ mode \in Modes
  BY DEF Walking
<1>2. last \in 0..NumBars
  BY DEF Walking
<1> QED
  BY <1>1, <1>2, FramesAndTimeline

\* The prices of a bar.
LEMMA BarPrices ==
  ASSUME feed \in Feeds, NEW t \in 1..NumBars, NEW s \in Symbols, feed[t][s] # NONE
  PROVE  LET b == feed[t][s]
         IN  /\ b.open \in Nat \ {0} /\ b.low \in Nat \ {0}
             /\ b.high \in Nat \ {0} /\ b.close \in Nat \ {0}
             /\ Px(b.open) \in Nat \ {0} /\ Px(b.low) \in Nat \ {0}
             /\ Px(b.high) \in Nat \ {0} /\ Px(b.close) \in Nat \ {0}
             /\ Px(b.low) <= Px(b.open) /\ Px(b.open) <= Px(b.high)
             /\ Px(b.low) <= Px(b.high)
<1> DEFINE b == feed[t][s]
<1>1. b \in SoundBar
  BY FeedAssumption
<1> HIDE DEF b
<1>2. /\ b.open \in Nat \ {0} /\ b.low \in Nat \ {0}
      /\ b.high \in Nat \ {0} /\ b.close \in Nat \ {0}
      /\ b.low <= b.open /\ b.open <= b.high /\ b.low <= b.high
  BY <1>1 DEF SoundBar
<1>3. /\ Px(b.open) \in Nat \ {0} /\ Px(b.low) \in Nat \ {0}
      /\ Px(b.high) \in Nat \ {0} /\ Px(b.close) \in Nat \ {0}
  <2>1. \A x \in Nat \ {0} : Px(x) \in Nat \ {0}
    BY PxPositive
  <2> QED
    BY <1>2, <2>1
<1>4. /\ Px(b.low) <= Px(b.open) /\ Px(b.open) <= Px(b.high)
      /\ Px(b.low) <= Px(b.high)
  BY <1>2, PxMonotone
<1> QED
  BY <1>2, <1>3, <1>4 DEF b

\* The levels of an order; the trailing stop.
LEMMA LevelTypes ==
  ASSUME NEW x \in Nat
  PROVE  Stop(x) \in Int \union {NONE} /\ Take(x) \in Int \union {NONE}
<1>1. \A r \in Nat : \A y \in Nat : (y * (Den - r)) \div Den \in Int
                                     /\ (y * (Den + r)) \div Den \in Int
  BY Rates
<1>2. /\ StopLossPct # NONE => StopLossPct \in Nat
      /\ TakeProfitPct # NONE => TakeProfitPct \in Nat
  BY ConfigAssumption
<1>3. Px(x) \in Nat
  BY PxPositive
<1> QED
  BY <1>1, <1>2, <1>3 DEF Stop, Take

\* Marking moves the levels of a position and nothing else.
LEMMA MarkedKeeps ==
  ASSUME NEW p \in Pos, NEW price \in Nat
  PROVE  LET m == Marked(p, price)
         IN  /\ m \in Pos
             /\ m.symbol = p.symbol /\ m.quantity = p.quantity
             /\ m.entryPrice = p.entryPrice /\ m.entryFees = p.entryFees
             /\ m.entryBar = p.entryBar /\ m.take = p.take
<1> DEFINE top == IF price > p.highest THEN price ELSE p.highest
           trail == (top * (Den - TrailingStopPct)) \div Den
<1>1. top \in Nat
  BY PosFields
<1>2. CASE TrailingStopPct = NONE
  <2>1. Marked(p, price) = [p EXCEPT !.highest = top]
    BY <1>2 DEF Marked
  <2> HIDE DEF top
  <2> QED
    BY <1>1, <2>1 DEF Pos
<1>3. CASE TrailingStopPct # NONE
  <2>1. TrailingStopPct \in Nat
    BY <1>3, ConfigAssumption
  <2>2. \A y \in Nat : (y * (Den - TrailingStopPct)) \div Den \in Int
    BY <2>1, Rates
  <2>3. trail \in Int
    BY <1>1, <2>2
  <2>4. Marked(p, price) = [p EXCEPT !.highest = top,
                                     !.stop = IF p.stop = NONE \/ trail > p.stop
                                              THEN trail ELSE p.stop]
    BY <1>3 DEF Marked
  <2> HIDE DEF top, trail
  <2> QED
    BY <1>1, <2>3, <2>4 DEF Pos
<1> QED
  BY <1>2, <1>3

\* A protective exit is at a price of the bar.
LEMMA ExitPriceInBar ==
  ASSUME NEW p \in Pos, NEW b \in SoundBar, ExitPrice(p, b) # NONE
  PROVE  /\ ExitPrice(p, b) \in Nat \ {0}
         /\ Px(b.low) <= ExitPrice(p, b) /\ ExitPrice(p, b) <= Px(b.high)
<1>1. /\ b.open \in Nat \ {0} /\ b.low \in Nat \ {0} /\ b.high \in Nat \ {0}
      /\ b.low <= b.open /\ b.open <= b.high /\ b.low <= b.high
  BY DEF SoundBar
<1>2. /\ Px(b.low) \in Nat \ {0} /\ Px(b.open) \in Nat \ {0} /\ Px(b.high) \in Nat \ {0}
      /\ Px(b.low) <= Px(b.open) /\ Px(b.open) <= Px(b.high)
  BY <1>1, PxPositive, PxMonotone
<1>3. p.stop \in Int \union {NONE} /\ p.take \in Int \union {NONE}
  BY PosFields
<1> DEFINE l == Px(b.low)
           o == Px(b.open)
           h == Px(b.high)
<1>4. ExitPrice(p, b) = IF p.stop # NONE /\ o <= p.stop THEN o
                        ELSE IF p.stop # NONE /\ l <= p.stop THEN p.stop
                        ELSE IF p.take # NONE /\ o >= p.take THEN o
                        ELSE IF p.take # NONE /\ h >= p.take THEN p.take
                        ELSE NONE
  BY DEF ExitPrice
<1>5. l \in Nat \ {0} /\ o \in Nat \ {0} /\ h \in Nat \ {0} /\ l <= o /\ o <= h
  BY <1>2
<1> HIDE DEF l, o, h
<1>6. /\ ExitPrice(p, b) \in Nat \ {0}
      /\ l <= ExitPrice(p, b) /\ ExitPrice(p, b) <= h
  <2>1. CASE p.stop # NONE /\ o <= p.stop
    BY <1>4, <1>5, <2>1
  <2>2. CASE ~(p.stop # NONE /\ o <= p.stop) /\ p.stop # NONE /\ l <= p.stop
    <3>1. ExitPrice(p, b) = p.stop /\ p.stop \in Int
      BY <1>3, <1>4, <2>2
    <3> QED
      BY <1>5, <2>2, <3>1
  <2>3. CASE /\ ~(p.stop # NONE /\ o <= p.stop) /\ ~(p.stop # NONE /\ l <= p.stop)
             /\ p.take # NONE /\ o >= p.take
    BY <1>4, <1>5, <2>3
  <2>4. CASE /\ ~(p.stop # NONE /\ o <= p.stop) /\ ~(p.stop # NONE /\ l <= p.stop)
             /\ ~(p.take # NONE /\ o >= p.take) /\ p.take # NONE /\ h >= p.take
    <3>1. ExitPrice(p, b) = p.take /\ p.take \in Int
      BY <1>3, <1>4, <2>4
    <3> QED
      BY <1>5, <2>4, <3>1
  <2>5. CASE /\ ~(p.stop # NONE /\ o <= p.stop) /\ ~(p.stop # NONE /\ l <= p.stop)
             /\ ~(p.take # NONE /\ o >= p.take) /\ ~(p.take # NONE /\ h >= p.take)
    BY <1>4, <2>5
  <2> QED
    BY <2>1, <2>2, <2>3, <2>4, <2>5
<1> QED
  BY <1>6 DEF l, h

-----------------------------------------------------------------------------
(* Purchases and sales                                                     *)

\* Closing a position is a sale of the account.
LEMMA ClosePositionSells ==
  ASSUME Books, NEW p \in open, NEW raw \in Nat \ {0}, ClosePosition(p, raw)
  PROVE  Sold(p)
<1>1. p \in Pos
  BY DEF Books
<1>2. /\ p.quantity \in Nat \ {0} /\ p.entryPrice \in Nat \ {0} /\ p.entryFees \in Nat
      /\ Value(p.entryPrice, p.quantity) \in Nat
  BY <1>1, PosFields
<1> DEFINE fill == FillPrice("sell", raw)
           cost == TotalCost("sell", raw, p.quantity)
           paid == Value(p.entryPrice, p.quantity) + p.entryFees
<1>3. fill \in Nat /\ cost \in Nat /\ Proceeds(raw, p.quantity) \in Nat
  BY <1>2, SellMoney
<1>4. Proceeds(raw, p.quantity) = Value(fill, p.quantity) - cost
  BY DEF Proceeds
<1>5. TradePnl(p, raw) = Value(fill - p.entryPrice, p.quantity) - p.entryFees - cost
  BY DEF TradePnl, Gross
<1> HIDE DEF fill, cost
<1>6. Value(fill - p.entryPrice, p.quantity)
        = Value(fill, p.quantity) - Value(p.entryPrice, p.quantity)
  <2>1. fill \in Int /\ p.entryPrice \in Int /\ p.quantity \in Nat
    BY <1>2, <1>3
  <2> QED
    BY <2>1, ValueSum
<1>7. Value(fill, p.quantity) \in Int
  <2>1. fill \in Int /\ p.quantity \in Nat \ {0}
    BY <1>2, <1>3
  <2> QED
    BY <2>1, ValueType
<1>8. TradePnl(p, raw) = Proceeds(raw, p.quantity) - paid
  <2>1. \A v, e, f, c \in Int : (v - e) - f - c = (v - c) - (e + f)
    OBVIOUS
  <2> QED
    BY <1>2, <1>3, <1>4, <1>5, <1>6, <1>7, <2>1
<1> DEFINE in == Proceeds(raw, p.quantity)
<1>9. /\ cash' = cash + in /\ open' = open \ {p}
      /\ realized' = realized + (in - paid) + p.entryFees
      /\ closedPnl' = closedPnl + (in - paid)
  BY <1>8 DEF ClosePosition
<1>10. in \in Nat
  BY <1>3
<1> HIDE DEF in
<1> QED
  BY <1>9, <1>10 DEF Sold

\* Opening one is a purchase.
LEMMA OpenPositionBuys ==
  ASSUME Books, NEW o \in Order, NEW raw \in Nat \ {0}, now \in 1..NumBars,
         CashNeeded(raw, o.quantity) <= cash, OpenPosition(o, raw),
         \A p \in open : p.symbol # o.symbol
  PROVE  \E p \in Pos : Bought(p) /\ p.symbol = o.symbol
<1> DEFINE fill == FillPrice("buy", raw)
           cost == TotalCost("buy", raw, o.quantity)
           p == [symbol |-> o.symbol, entryPrice |-> fill, quantity |-> o.quantity,
                 entryFees |-> cost, entryBar |-> now,
                 highest |-> fill, stop |-> o.stop, take |-> o.take]
<1>1. /\ o.symbol \in Symbols /\ o.quantity \in Nat \ {0}
      /\ o.stop \in Int \union {NONE} /\ o.take \in Int \union {NONE}
  BY DEF Order
<1>2. /\ fill \in Nat \ {0} /\ cost \in Nat /\ Value(fill, o.quantity) \in Nat \ {0}
      /\ CashNeeded(raw, o.quantity) = Value(fill, o.quantity) + cost
  BY <1>1, BuyMoney
<1>3. /\ cash' = cash - CashNeeded(raw, o.quantity) /\ realized' = realized - cost
      /\ open' = open \union {p} /\ closedPnl' = closedPnl
  BY DEF OpenPosition
<1> HIDE DEF fill, cost
<1>4. p \in Pos
  BY <1>1, <1>2 DEF Pos
<1>5. p \notin open
  BY <1>4
<1>6. cash' >= 0
  BY <1>2, <1>3 DEF Books
<1>7. Bought(p)
  BY <1>2, <1>3, <1>4, <1>5, <1>6 DEF Bought
<1> QED
  BY <1>4, <1>7

\* What becomes of an order: nothing, a position of its symbol, or none any more.
LEMMA ExecuteDoes ==
  ASSUME Books, NEW o \in Order, NEW raw \in Nat \ {0}, now \in 1..NumBars,
         Execute(o, raw), o.side = "buy" => \A p \in open : p.symbol # o.symbol
  PROVE  \/ UNCHANGED account
         \/ \E p \in Pos : Bought(p) /\ p.symbol = o.symbol /\ \A q \in open : q.symbol # o.symbol
         \/ \E p \in open : Sold(p) /\ p.symbol = o.symbol
<1>1. CASE o.side = "buy"
  <2>1. CASE CashNeeded(raw, o.quantity) > cash
    BY <1>1, <2>1 DEF Execute, ExecuteBuy
  <2>2. CASE ~(CashNeeded(raw, o.quantity) > cash)
    <3>1. OpenPosition(o, raw)
      BY <1>1, <2>2 DEF Execute, ExecuteBuy
    <3>2. CashNeeded(raw, o.quantity) <= cash
      <4>1. o.quantity \in Nat \ {0}
        BY DEF Order
      <4>2. CashNeeded(raw, o.quantity) \in Int
        <5>1. /\ TotalCost("buy", raw, o.quantity) \in Nat
              /\ Value(FillPrice("buy", raw), o.quantity) \in Nat
              /\ CashNeeded(raw, o.quantity)
                   = Value(FillPrice("buy", raw), o.quantity) + TotalCost("buy", raw, o.quantity)
          BY <4>1, BuyMoney
        <5> QED
          BY <5>1
      <4> QED
        BY <2>2, <4>2 DEF Books
    <3> QED
      BY <1>1, <3>1, <3>2, OpenPositionBuys
  <2> QED
    BY <2>1, <2>2
<1>2. CASE o.side # "buy"
  <2>1. CASE OpenOf(o.symbol) = {}
    BY <1>2, <2>1 DEF Execute, ExecuteSell
  <2>2. CASE OpenOf(o.symbol) # {}
    <3>1. ClosePosition(Position(o.symbol), raw)
      BY <1>2, <2>2 DEF Execute, ExecuteSell
    <3>2. Position(o.symbol) \in open /\ Position(o.symbol).symbol = o.symbol
      BY <2>2 DEF OpenOf, Position
    <3> QED
      BY <3>1, <3>2, ClosePositionSells
  <2> QED
    BY <2>1, <2>2
<1> QED
  BY <1>1, <1>2

-----------------------------------------------------------------------------
(* What a step of the account does to the rest of the invariant            *)

\* A trade in the symbol s: all that happens to the positions.
Traded(s) ==
  \/ UNCHANGED account
  \/ \E p \in Pos : Bought(p) /\ p.symbol = s /\ \A q \in open : q.symbol # s
  \/ \E p \in open : Sold(p) /\ p.symbol = s

\* A trade keeps the books and is a step of TradingAccount, or none.
LEMMA TradedKeepsBooks ==
  ASSUME Books, NEW s, Traded(s)
  PROVE  Books' /\ [Account!Next]_(Account!account)
<1>1. CASE UNCHANGED account
  <2>1. Book' = Book
    BY <1>1, SumsNow DEF account
  <2>2. Books'
    BY <1>1, SumsNow DEF account, Books, RealizedMatchesPositions
  <2> QED
    BY <1>1, <2>1, <2>2 DEF account, Account!account
<1>2. CASE \E p \in Pos : Bought(p)
  BY <1>2, BoughtKeepsBooks DEF Account!Next
<1>3. CASE \E p \in open : Sold(p)
  BY <1>3, SoldKeepsBooks DEF Account!Next
<1> QED
  BY <1>1, <1>2, <1>3 DEF Traded

\* A trade in a symbol for which no order waits afterwards.
LEMMA TradedKeepsMatched ==
  ASSUME Matched, NEW s, Traded(s), pending' \in SUBSET pending,
         \A o \in pending' : o.symbol # s
  PROVE  Matched'
<1>1. /\ OnePosition /\ pending \in SUBSET Order
      /\ \A a, b \in pending : a.symbol = b.symbol => a = b
      /\ \A o \in pending : o.side = "buy" => \A p \in open : p.symbol # o.symbol
      /\ \A o \in pending : o.side = "sell" =>
           /\ \A p \in open : p.symbol = o.symbol => p.quantity = o.quantity
           /\ (\E p \in open : p.symbol = o.symbol) \/ \E m \in Modes : m.closeAtEnd
  BY DEF Matched
<1>2. CASE UNCHANGED account
  <2>1. open' = open
    BY <1>2 DEF account
  <2> QED
    BY <1>1, <2>1 DEF Matched, OnePosition
<1>3. ASSUME NEW p \in Pos, Bought(p), p.symbol = s, \A q \in open : q.symbol # s
      PROVE  Matched'
  <2>1. open' = open \union {p}
    BY <1>3 DEF Bought
  <2>2. OnePosition'
    BY <1>1, <1>3, <2>1 DEF OnePosition
  <2>3. \A o \in pending' : o.side = "buy" => \A q \in open' : q.symbol # o.symbol
    BY <1>1, <1>3, <2>1
  <2>4. \A o \in pending' : o.side = "sell" =>
          /\ \A q \in open' : q.symbol = o.symbol => q.quantity = o.quantity
          /\ (\E q \in open' : q.symbol = o.symbol) \/ \E m \in Modes : m.closeAtEnd
    BY <1>1, <1>3, <2>1
  <2> QED
    BY <1>1, <2>2, <2>3, <2>4 DEF Matched
<1>4. ASSUME NEW p \in open, Sold(p), p.symbol = s
      PROVE  Matched'
  <2>1. open' = open \ {p}
    BY <1>4 DEF Sold
  <2>2. OnePosition'
    BY <1>1, <2>1 DEF OnePosition
  <2>3. \A o \in pending' : o.side = "buy" => \A q \in open' : q.symbol # o.symbol
    BY <1>1, <2>1
  <2>4. \A o \in pending' : o.side = "sell" =>
          /\ \A q \in open' : q.symbol = o.symbol => q.quantity = o.quantity
          /\ (\E q \in open' : q.symbol = o.symbol) \/ \E m \in Modes : m.closeAtEnd
    BY <1>1, <1>4, <2>1
  <2> QED
    BY <1>1, <2>2, <2>3, <2>4 DEF Matched
<1> QED
  BY <1>2, <1>3, <1>4 DEF Traded

\* A trade on a bar of the walk, and marking in the walk, keep everything marked.
LEMMA TradedKeepsPriced ==
  ASSUME Priced, NEW s, Traded(s), UNCHANGED <<feed, last, now, lastPrice>>,
         \/ pc \in InWalk /\ pc' \in InWalk /\ Has(s) /\ s \in Frames(last)
         \/ pc' = pc /\ ~\E p \in Pos : Bought(p)
  PROVE  Priced'
<1>1. \A p \in open' : p \in open \/ (p.symbol = s /\ Bought(p) /\ p \in Pos)
  <2>1. CASE UNCHANGED account
    BY <2>1 DEF account
  <2>2. ASSUME NEW p \in Pos, Bought(p), p.symbol = s
        PROVE  \A q \in open' : q \in open \/ (q.symbol = s /\ Bought(q) /\ q \in Pos)
    BY <2>2 DEF Bought
  <2>3. CASE \E p \in open : Sold(p)
    BY <2>3 DEF Sold
  <2> QED
    BY <2>1, <2>2, <2>3 DEF Traded
<1>2. \A t : Has(t)' <=> Has(t)
  BY DEF Has
<1>3. Frames(last)' = Frames(last)
  BY DEF Frames
<1>4. ASSUME NEW p \in open'
      PROVE  lastPrice[p.symbol] # NONE
               \/ (pc' \in InWalk /\ Has(p.symbol) /\ p.symbol \in Frames(last))
  BY <1>1 DEF Priced
<1> QED
  BY <1>2, <1>3, <1>4 DEF Priced

\* The walk moves on over the same data.
LEMMA AdvanceKeeps ==
  ASSUME Walking, NEW next \in InWalk, pc \in InWalk, Advance(next)
  PROVE  /\ Walking' /\ pc' \in InWalk
         /\ UNCHANGED <<feed, session, mode, last, rank, now>>
<1>1. /\ UNCHANGED <<feed, session, mode, last, rank, now>>
      /\ pc' \in InWalk
      /\ IF k < Len(rank) THEN k' = k + 1 ELSE k' = 1
  BY DEF Advance
<1>2. pc # "idle" /\ pc # "close" /\ pc' # "idle" /\ pc' # "close"
  BY <1>1 DEF InWalk
<1>3. k \in 1..Len(rank) /\ rank \in Seq(Frames(last))
  BY <1>2 DEF Walking
<1>4. k' \in 1..Len(rank)
  <2>1. Len(rank) \in Nat
    BY <1>3
  <2> QED
    BY <1>1, <1>3, <2>1
<1>5. Frames(last)' = Frames(last) /\ Timeline(last)' = Timeline(last)
  BY <1>1 DEF Frames, Timeline
<1> QED
  BY <1>1, <1>2, <1>4, <1>5 DEF Walking

\* The walk that stands still stays where it is.
LEMMA StandingKeeps ==
  ASSUME Walking, UNCHANGED <<feed, walk>>
  PROVE  Walking'
<1>1. UNCHANGED <<feed, session, mode, last, rank, now, pc, k>>
  BY DEF walk
<1>2. Frames(last)' = Frames(last) /\ Timeline(last)' = Timeline(last)
  BY <1>1 DEF Frames, Timeline
<1> QED
  BY <1>1, <1>2 DEF Walking

\* Marking keeps what is said of positions and orders.
LEMMA KeptKeepsMatched ==
  ASSUME Matched, NEW h, Kept(h), pending' = pending
  PROVE  Matched'
<1>1. /\ open' = {h[p] : p \in open}
      /\ \A p \in open : h[p].symbol = p.symbol /\ h[p].quantity = p.quantity
  BY DEF Kept
<1>2. OnePosition'
  BY <1>1 DEF Matched, OnePosition
<1>3. \A o \in pending : o.side = "buy" => \A q \in open' : q.symbol # o.symbol
  BY <1>1 DEF Matched
<1>4. ASSUME NEW o \in pending, o.side = "sell"
      PROVE  /\ \A q \in open' : q.symbol = o.symbol => q.quantity = o.quantity
             /\ (\E q \in open' : q.symbol = o.symbol) \/ \E m \in Modes : m.closeAtEnd
  <2>1. \A q \in open' : q.symbol = o.symbol => q.quantity = o.quantity
    BY <1>1, <1>4 DEF Matched
  <2>2. CASE \E p \in open : p.symbol = o.symbol
    <3>1. PICK p \in open : p.symbol = o.symbol
      BY <2>2
    <3>2. h[p] \in open' /\ h[p].symbol = o.symbol
      BY <1>1, <3>1
    <3> QED
      BY <2>1, <3>2
  <2>3. CASE ~\E p \in open : p.symbol = o.symbol
    BY <1>4, <2>1, <2>3 DEF Matched
  <2> QED
    BY <2>2, <2>3
<1> QED
  BY <1>2, <1>3, <1>4 DEF Matched

-----------------------------------------------------------------------------
(* One lemma per action                                                    *)

\* What every step does: it keeps the invariant and is one of the account's.
Keeps == IInv' /\ [Account!Next]_(Account!account)

\* The first state is one of the invariant and of the account.
LEMMA InitEstablishes == Init => IInv /\ Account!Init
<1> SUFFICES ASSUME Init PROVE IInv /\ Account!Init
  OBVIOUS
<1>1. /\ feed \in Feeds /\ last = 0 /\ pc = "idle" /\ open = {} /\ pending = {}
      /\ cash = InitialCapital * Den * Den * Den * Den /\ realized = 0 /\ closedPnl = 0
      /\ lastPrice = [s \in Symbols |-> NONE]
  BY DEF Init
<1>2. IsFiniteSet({}) /\ FeesOf({}) = 0 /\ CostsOf({}) = 0
  <2>1. IsFiniteSet({})
    BY FS_EmptySet
  <2>2. /\ Weighs(FeeOf, {}) /\ Weighs(CostOf, {})
        /\ FeesOf({}) = Total(FeeOf, {}) /\ CostsOf({}) = Total(CostOf, {})
    BY <2>1, WeighPositions
  <2> QED
    BY <2>1, <2>2, TotalFacts
<1>3. cash \in Nat
  <2>1. InitialCapital \in Nat
    BY ConfigAssumption
  <2> QED
    BY <1>1, <2>1, Rates
<1>4. Books
  <2>1. EntryFees = FeesOf(open)
    BY SumsNow
  <2> QED
    BY <1>1, <1>2, <1>3, <2>1 DEF Books, RealizedMatchesPositions
<1>5. Walking
  BY <1>1, ConfigAssumption DEF Walking
<1>6. Priced /\ Matched
  BY <1>1 DEF Priced, Matched, OnePosition
<1>7. Account!Init
  <2>1. Book = 0
    BY <1>1, <1>2, SumsNow
  <2> QED
    BY <1>1, <2>1 DEF Account!Init
<1> QED
  BY <1>4, <1>5, <1>6, <1>7 DEF IInv

\* A session starts at the first bar of its data, over the state it finds.
LEMMA StartSessionKeeps == IInv /\ StartSession => Keeps
<1> SUFFICES ASSUME IInv, StartSession PROVE Keeps
  OBVIOUS
<1>1. PICK l \in 2..NumBars : /\ Frames(l) # {} /\ last' = l /\ now' = Min(Timeline(l))
                              /\ \E r \in Rankings(Frames(l)) : rank' = r
  BY DEF StartSession
<1>2. /\ pc = "idle" /\ pc' = "fill" /\ k' = 1 /\ mode' \in Modes
      /\ UNCHANGED <<feed, account, pending, history>>
  BY DEF StartSession
<1>3. /\ UNCHANGED <<cash, realized, open, closedPnl, lastPrice, pending, feed>>
      /\ UNCHANGED account
  BY <1>2 DEF account, history
<1>4. l \in 0..NumBars /\ l \in Nat
  BY ConfigAssumption
<1>5. Timeline(l) # {}
  <2>1. PICK s \in Frames(l) : TRUE
    BY <1>1
  <2> DEFINE T == {t \in 1..l : feed[t][s] # NONE}
  <2>2. Cardinality(T) >= 2
    BY <2>1 DEF Frames
  <2>3. T # {}
    <3> SUFFICES ASSUME T = {} PROVE FALSE
      OBVIOUS
    <3>1. Cardinality(T) = 0
      BY FS_EmptySet
    <3> HIDE DEF T
    <3> QED
      BY <2>2, <3>1
  <2>4. PICK t \in T : TRUE
    BY <2>3
  <2>5. t \in Timeline(l)
    BY <2>1, <2>4 DEF Timeline
  <2> QED
    BY <2>5
<1>6. now' \in Timeline(l)
  <2>1. Timeline(l) \in SUBSET Nat
    BY <1>4, FramesAndTimeline
  <2> QED
    BY <1>1, <1>5, <2>1, MinIsMember
<1>7. rank' \in Seq(Frames(l)) /\ k' \in 1..Len(rank')
  <2> DEFINE n == Cardinality(Frames(l))
  <2>1. IsFiniteSet(Frames(l))
    BY FramesAndTimeline, FeedAssumption, FS_Subset
  <2>2. n \in Nat
    BY <2>1, FS_CardinalityType
  <2>3. n # 0
    BY <1>1, <2>1, FS_EmptySet
  <2> HIDE DEF n
  <2>4. rank' \in [1..n -> Frames(l)]
    BY <1>1 DEF Rankings, n
  <2>5. rank' \in Seq(Frames(l)) /\ Len(rank') = n
    BY <2>2, <2>4
  <2> QED
    BY <1>2, <2>2, <2>3, <2>5
<1>8. Timeline(last)' = Timeline(l) /\ Frames(last)' = Frames(l)
  BY <1>1, <1>3 DEF Timeline, Frames
<1>9. Walking'
  <2>1. feed' \in Feeds /\ last' \in 0..NumBars
    BY <1>1, <1>3, <1>4 DEF IInv, Walking
  <2> QED
    BY <1>2, <1>6, <1>7, <1>8, <2>1 DEF Walking, InWalk
<1>10. Traded(NONE)
  BY <1>3 DEF Traded
<1>11. Books' /\ [Account!Next]_(Account!account)
  BY <1>10, TradedKeepsBooks DEF IInv
<1>12. Priced'
  <2>1. \A p \in open : lastPrice[p.symbol] # NONE
    BY <1>2 DEF IInv, Priced, InWalk
  <2> QED
    BY <1>3, <2>1 DEF IInv, Priced
<1>13. Matched'
  BY <1>3 DEF IInv, Matched, OnePosition
<1> QED
  BY <1>9, <1>11, <1>12, <1>13 DEF Keeps, IInv

\* A step of the walk that trades in the symbol s, for which no order waits then.
LEMMA TradeStepKeeps ==
  ASSUME IInv, NEW s, Traded(s), Walking',
         pending' \in SUBSET pending, \A o \in pending' : o.symbol # s,
         UNCHANGED <<feed, last, now, lastPrice>>,
         pc \in InWalk /\ pc' \in InWalk /\ Has(s) /\ s \in Frames(last)
  PROVE  Keeps
<1>1. Books' /\ [Account!Next]_(Account!account)
  BY TradedKeepsBooks DEF IInv
<1>2. Matched'
  BY TradedKeepsMatched DEF IInv
<1>3. Priced'
  BY TradedKeepsPriced DEF IInv
<1> QED
  BY <1>1, <1>2, <1>3 DEF Keeps, IInv

\* A step that neither trades nor marks.
LEMMA IdleStepKeeps ==
  ASSUME IInv, Walking', UNCHANGED <<account, pending>>, UNCHANGED <<feed, last, now, lastPrice>>,
         pc \in InWalk /\ pc' \in InWalk
  PROVE  Keeps
<1>1. Traded(NONE) /\ UNCHANGED <<open, pending>>
  BY DEF Traded, account
<1>2. Books' /\ [Account!Next]_(Account!account)
  BY <1>1, TradedKeepsBooks DEF IInv
<1>3. Matched'
  BY <1>1 DEF IInv, Matched, OnePosition
<1>4. Priced'
  <2>1. (\A s : Has(s)' <=> Has(s)) /\ Frames(last)' = Frames(last)
    BY DEF Has, Frames
  <2> QED
    BY <1>1, <2>1 DEF IInv, Priced
<1> QED
  BY <1>2, <1>3, <1>4 DEF Keeps, IInv

\* A fill leaves no order of its symbol waiting.
LEMMA FillPendingKeeps == IInv /\ FillPending => Keeps
<1> SUFFICES ASSUME IInv, FillPending PROVE Keeps
  OBVIOUS
<1>1. pc = "fill" /\ UNCHANGED <<feed, walk, history, orderCount>>
  BY DEF FillPending
<1>2. PICK o \in Fillable(rank[k]) :
        /\ Execute(o, Px(BarOf(o.symbol).open))
        /\ pending' = pending \ {o}
  BY DEF FillPending
<1>3. /\ rank[k] \in Frames(last) /\ rank[k] \in Symbols /\ now \in 1..NumBars
  BY <1>1, AtWork DEF IInv
<1>4. /\ o \in pending /\ o \in Order /\ o.symbol = rank[k] /\ Has(rank[k])
  BY <1>2 DEF Fillable, PendingOf, IInv, Matched
<1>5. Px(BarOf(o.symbol).open) \in Nat \ {0}
  <2>1. feed \in Feeds /\ feed[now][rank[k]] # NONE
    BY <1>4 DEF Has, IInv, Walking
  <2> QED
    BY <1>3, <1>4, <2>1, BarPrices DEF BarOf
<1>6. Traded(rank[k])
  <2>1. o.side = "buy" => \A p \in open : p.symbol # o.symbol
    BY <1>4 DEF IInv, Matched
  <2> QED
    BY <1>2, <1>3, <1>4, <1>5, <2>1, ExecuteDoes DEF IInv, Traded
<1>7. \A a \in pending' : a.symbol # rank[k]
  BY <1>2, <1>4 DEF IInv, Matched
<1>8. Walking'
  BY <1>1, StandingKeeps DEF IInv
<1>9. UNCHANGED <<feed, last, now, lastPrice, pc>>
  BY <1>1 DEF walk, history
<1>10. pc \in InWalk /\ pc' \in InWalk
  BY <1>1, <1>9 DEF InWalk
<1>11. pending' \in SUBSET pending
  BY <1>2
<1> QED
  BY <1>3, <1>4, <1>6, <1>7, <1>8, <1>9, <1>10, <1>11, TradeStepKeeps

\* The steps that only move on.
LEMMA WalkOnKeeps ==
  ASSUME IInv, NothingToFill \/ Unprotected \/ NoOrder
  PROVE  Keeps
<1>1. PICK next \in InWalk : Advance(next)
  BY DEF NothingToFill, Unprotected, NoOrder, InWalk
<1>2. /\ pc \in InWalk /\ UNCHANGED <<account, pending, history>>
  BY DEF NothingToFill, Unprotected, NoOrder, InWalk
<1>3. /\ Walking' /\ pc' \in InWalk /\ UNCHANGED <<feed, last, now>>
  BY <1>1, <1>2, AdvanceKeeps DEF IInv
<1>4. lastPrice' = lastPrice
  BY <1>2 DEF history
<1> QED
  BY <1>2, <1>3, <1>4, IdleStepKeeps

\* Marking in the walk: the account stays, what is held is of the same trades.
LEMMA MarkStepKeeps ==
  ASSUME IInv, NEW h, Kept(h), Walking', UNCHANGED <<feed, last, now, lastPrice, pending>>,
         pc \in InWalk /\ pc' \in InWalk
  PROVE  Keeps
<1>1. Books' /\ UNCHANGED Account!account
  BY KeptKeepsBooks DEF IInv, Matched
<1>2. Matched'
  BY KeptKeepsMatched DEF IInv
<1>3. Priced'
  <2>1. (\A s : Has(s)' <=> Has(s)) /\ Frames(last)' = Frames(last)
    BY DEF Has, Frames
  <2>2. open' = {h[p] : p \in open} /\ \A p \in open : h[p].symbol = p.symbol
    BY DEF Kept
  <2> QED
    BY <2>1, <2>2 DEF IInv, Priced
<1> QED
  BY <1>1, <1>2, <1>3 DEF Keeps, IInv

\* What is deployed and held is a number, and so is what a slot of it buys.
LEMMA EquityType ==
  ASSUME Books, Priced
  PROVE  CurrentEquity \in Int
<1>1. open \in SUBSET Pos /\ IsFiniteSet(open) /\ cash \in Nat
  BY DEF Books
<1>2. ASSUME NEW p \in open
      PROVE  WorthOf[p] \in Int
  <2>1. p \in Pos /\ p.quantity \in Nat \ {0} /\ p.entryPrice \in Nat /\ p.symbol \in Symbols
    BY <1>1, PosFields
  <2>2. Mark(p) \in Int
    <3>1. lastPrice[p.symbol] \in Nat \union {NONE}
      BY <2>1 DEF Priced
    <3> QED
      BY <2>1, <3>1, PxPositive DEF Mark
  <2>3. Value(Mark(p), p.quantity) \in Int
    BY <2>1, <2>2, ValueType
  <2> QED
    BY <2>1, <2>3 DEF WorthOf
<1>3. Weighs(WorthOf, open)
  BY <1>1, <1>2 DEF Weighs
<1>4. Total(WorthOf, open) \in Int
  BY <1>3, TotalFacts
<1>5. Deployed \in Int
  BY <1>1, <1>3, <1>4, WorthIsTotal, SumsNow
<1> QED
  BY <1>1, <1>5 DEF CurrentEquity

\* The size of a purchase is a number, which the guard of the signal makes positive.
LEMMA SizedType ==
  ASSUME Books, Priced, NEW c \in Nat \ {0}, NEW lim \in Limits, lim.positions > 0
  PROVE  Sized(c, lim) \in Int
<1> DEFINE lot      == Value(Px(c), 1)
           share    == CurrentEquity \div lim.positions
           slot     == IF cash < share THEN cash ELSE share
           straight == (slot * PositionSizePct) \div (Den * lot)
           risked   == (CurrentEquity * MaxRiskPerTradePct) \div (StopLossPct * lot)
           S == {straight} \union (IF StopLossPct = NONE THEN {} ELSE {risked})
                  \union (IF OverrideQuantity = NONE THEN {} ELSE {OverrideQuantity})
<1>1. CurrentEquity \in Int /\ cash \in Nat
  BY EquityType DEF Books
<1>2. lot \in Nat \ {0}
  <2> DEFINE x == Px(c)
  <2>1. x \in Int /\ x > 0
    BY PxPositive
  <2> HIDE DEF x
  <2>2. Value(x, 1) \in Int /\ Value(x, 1) > 0
    BY <2>1, ValueType
  <2> QED
    BY <2>2 DEF x
<1>3. lim.positions \in Nat \ {0}
  BY ConfigAssumption
<1>4. /\ PositionSizePct \in Nat /\ MaxRiskPerTradePct \in Nat
      /\ StopLossPct # NONE => StopLossPct \in Nat \ {0}
      /\ OverrideQuantity # NONE => OverrideQuantity \in Nat
  BY ConfigAssumption
<1>5. Sized(c, lim) = Min(S)
  BY DEF Sized
<1>6. slot \in Int
  BY <1>1, <1>3
<1> HIDE DEF lot, slot
<1>7. Den * lot \in Nat \ {0} /\ (StopLossPct # NONE => StopLossPct * lot \in Nat \ {0})
  BY <1>2, <1>4, Rates
<1>8. straight \in Int
  <2>1. slot * PositionSizePct \in Int
    BY <1>4, <1>6
  <2>2. \A a \in Int : \A b \in Nat \ {0} : a \div b \in Int
    OBVIOUS
  <2> QED
    BY <1>7, <2>1, <2>2
<1>9. StopLossPct # NONE => risked \in Int
  <2>1. CurrentEquity * MaxRiskPerTradePct \in Int
    BY <1>1, <1>4
  <2>2. \A a \in Int : \A b \in Nat \ {0} : a \div b \in Int
    OBVIOUS
  <2> QED
    BY <1>7, <2>1, <2>2
<1> HIDE DEF straight, risked
<1>10. S \in SUBSET Int /\ S # {}
  BY <1>4, <1>8, <1>9
<1>11. IsFiniteSet(S)
  <2>1. S \in SUBSET {straight, risked, OverrideQuantity}
    OBVIOUS
  <2>2. IsFiniteSet({straight, risked, OverrideQuantity})
    <3>1. IsFiniteSet({straight})
      BY FS_Singleton
    <3>2. IsFiniteSet({straight} \union {risked})
      BY <3>1, FS_AddElement
    <3>3. IsFiniteSet(({straight} \union {risked}) \union {OverrideQuantity})
      BY <3>2, FS_AddElement
    <3>4. {straight, risked, OverrideQuantity}
            = ({straight} \union {risked}) \union {OverrideQuantity}
      OBVIOUS
    <3> QED
      BY <3>3, <3>4
  <2> HIDE DEF S
  <2> QED
    BY <2>1, <2>2, FS_Subset
<1> HIDE DEF S
<1>12. Min(S) \in S
  BY <1>10, <1>11, Extremes
<1> QED
  BY <1>5, <1>10, <1>12

\* An order that joins the queue: the only one of its symbol.
LEMMA QueuedKeepsMatched ==
  ASSUME Matched, NEW o \in Order, PendingOf(o.symbol) = {},
         UNCHANGED open, pending' = pending \union {o},
         o.side = "buy" => \A p \in open : p.symbol # o.symbol,
         o.side = "sell" => /\ \E p \in open : p.symbol = o.symbol
                            /\ \A p \in open : p.symbol = o.symbol => p.quantity = o.quantity
  PROVE  Matched'
<1>1. \A a \in pending : a.symbol # o.symbol
  BY DEF PendingOf
<1>2. OnePosition' /\ pending' \in SUBSET Order
  BY DEF Matched, OnePosition
<1>3. \A a, b \in pending' : a.symbol = b.symbol => a = b
  BY <1>1 DEF Matched
<1>4. \A a \in pending' : a.side = "buy" => \A p \in open : p.symbol # a.symbol
  BY DEF Matched
<1>5. \A a \in pending' : a.side = "sell" =>
        /\ \A p \in open : p.symbol = a.symbol => p.quantity = a.quantity
        /\ (\E p \in open : p.symbol = a.symbol) \/ \E m \in Modes : m.closeAtEnd
  BY DEF Matched
<1> QED
  BY <1>2, <1>3, <1>4, <1>5 DEF Matched

\* A signal that is turned into an order, which waits or trades at once.
LEMMA SubmitKeeps ==
  ASSUME IInv, pc = "evaluate", NEW o \in Order, o.symbol = rank[k], CanSignal(o.symbol),
         Submit(o, BarOf(o.symbol).close), Advance("mark"), UNCHANGED history,
         o.side = "buy" => \A p \in open : p.symbol # o.symbol,
         o.side = "sell" => /\ \E p \in open : p.symbol = o.symbol
                            /\ \A p \in open : p.symbol = o.symbol => p.quantity = o.quantity
  PROVE  Keeps
<1>1. pc \in InWalk /\ "mark" \in InWalk
  BY DEF InWalk
<1>2. /\ Walking' /\ pc' \in InWalk /\ UNCHANGED <<feed, last, now>>
  BY <1>1, AdvanceKeeps DEF IInv
<1>3. lastPrice' = lastPrice
  BY DEF history
<1>4. PendingOf(o.symbol) = {} /\ Has(o.symbol)
  BY DEF CanSignal
<1>5. /\ o.symbol \in Frames(last) /\ o.symbol \in Symbols /\ now \in 1..NumBars
  BY AtWork DEF IInv
<1>6. CASE mode.nextBar
  <2>1. pending' = pending \union {o} /\ UNCHANGED account
    BY <1>6 DEF Submit
  <2>2. UNCHANGED open /\ Traded(NONE)
    BY <2>1 DEF account, Traded
  <2>3. Matched'
    BY <1>4, <2>1, <2>2, QueuedKeepsMatched DEF IInv
  <2>4. Books' /\ [Account!Next]_(Account!account)
    BY <2>2, TradedKeepsBooks DEF IInv
  <2>5. Priced'
    <3>1. (\A s : Has(s)' <=> Has(s)) /\ Frames(last)' = Frames(last)
      BY <1>2 DEF Has, Frames
    <3> QED
      BY <1>2, <1>3, <2>2, <3>1 DEF IInv, Priced
  <2> QED
    BY <1>2, <2>3, <2>4, <2>5 DEF Keeps, IInv
<1>7. CASE ~mode.nextBar
  <2>1. Execute(o, Px(BarOf(o.symbol).close)) /\ pending' = pending
    BY <1>7 DEF Submit
  <2>2. Px(BarOf(o.symbol).close) \in Nat \ {0}
    <3>1. feed \in Feeds /\ feed[now][o.symbol] # NONE
      BY <1>4 DEF Has, IInv, Walking
    <3> QED
      BY <1>5, <3>1, BarPrices DEF BarOf
  <2>3. Traded(o.symbol)
    BY <1>5, <2>1, <2>2, ExecuteDoes DEF IInv, Traded
  <2>4. pending' \in SUBSET pending /\ \A a \in pending' : a.symbol # o.symbol
    BY <1>4, <2>1 DEF PendingOf
  <2> QED
    BY <1>1, <1>2, <1>3, <1>4, <1>5, <2>3, <2>4, TradeStepKeeps
<1> QED
  BY <1>6, <1>7

\* A purchase is asked for a symbol without a position or an order.
LEMMA BuySignalKeeps == IInv /\ BuySignal(rank[k]) => Keeps
<1> SUFFICES ASSUME IInv, BuySignal(rank[k]) PROVE Keeps
  OBVIOUS
<1> DEFINE s == rank[k]
           c == BarOf(s).close
<1>1. /\ CanSignal(s) /\ OpenOf(s) = {} /\ Advance("mark") /\ UNCHANGED history
      /\ pc = "evaluate"
  BY DEF BuySignal, CanSignal
<1>2. PICK lim \in Limits : CheckEntry(lim) /\ Sized(c, lim) > 0 /\ Submit(Buy(s, c, lim), c)
  BY DEF BuySignal
<1>3. s \in Symbols /\ now \in 1..NumBars
  BY <1>1, AtWork DEF IInv
<1>4. c \in Nat \ {0}
  <2>1. feed \in Feeds /\ feed[now][s] # NONE
    BY <1>1 DEF CanSignal, Has, IInv, Walking
  <2> QED
    BY <1>3, <2>1, BarPrices DEF BarOf
<1>5. lim.positions > 0
  <2>1. Cardinality(open) \in Nat /\ Cardinality(open) < lim.positions
    BY <1>2, FS_CardinalityType DEF CheckEntry, IInv, Books
  <2>2. lim.positions \in Nat
    BY ConfigAssumption
  <2> QED
    BY <2>1, <2>2
<1>6. Sized(c, lim) \in Nat \ {0}
  <2> HIDE DEF c
  <2>1. Sized(c, lim) \in Int
    BY <1>4, <1>5, SizedType DEF IInv
  <2> QED
    BY <1>2, <2>1
<1> DEFINE o == Buy(s, c, lim)
<1>7. o \in Order /\ o.symbol = s /\ o.side = "buy"
  <2>1. Stop(c) \in Int \union {NONE} /\ Take(c) \in Int \union {NONE}
    BY <1>4, LevelTypes
  <2> HIDE DEF s, c
  <2> QED
    BY <1>3, <1>6, <2>1 DEF Buy, Order
<1>8. \A p \in open : p.symbol # s
  BY <1>1 DEF OpenOf
<1> HIDE DEF o
<1>9. Submit(o, BarOf(o.symbol).close)
  BY <1>2, <1>7 DEF o
<1> QED
  BY <1>1, <1>7, <1>8, <1>9, SubmitKeeps

\* A sale is asked for the whole position, of a symbol without an order.
LEMMA SellSignalKeeps == IInv /\ SellSignal(rank[k]) => Keeps
<1> SUFFICES ASSUME IInv, SellSignal(rank[k]) PROVE Keeps
  OBVIOUS
<1> DEFINE s == rank[k]
           o == [symbol |-> s, side |-> "sell", timestamp |-> now,
                 quantity |-> Position(s).quantity, stop |-> NONE, take |-> NONE]
<1>1. /\ CanSignal(s) /\ OpenOf(s) # {} /\ Advance("mark") /\ UNCHANGED history
      /\ pc = "evaluate" /\ Submit(o, BarOf(s).close)
  BY DEF SellSignal, CanSignal
<1>2. Position(s) \in open /\ Position(s).symbol = s
  BY <1>1 DEF OpenOf, Position
<1>3. s \in Symbols /\ now \in 1..NumBars
  BY <1>1, AtWork DEF IInv
<1>4. Position(s).quantity \in Nat \ {0}
  BY <1>2, PosFields DEF IInv, Books
<1>5. o \in Order /\ o.symbol = s /\ o.side = "sell" /\ o.quantity = Position(s).quantity
  <2> HIDE DEF s
  <2> QED
    BY <1>3, <1>4 DEF Order
<1>6. /\ \E p \in open : p.symbol = s
      /\ \A p \in open : p.symbol = s => p.quantity = o.quantity
  BY <1>2, <1>5 DEF IInv, Matched, OnePosition
<1> HIDE DEF o
<1> QED
  BY <1>1, <1>5, <1>6, SubmitKeeps

\* A protective exit sells what no order waits for, or raises its levels.
LEMMA ProtectiveExitKeeps == IInv /\ ProtectiveExit => Keeps
<1> SUFFICES ASSUME IInv, ProtectiveExit PROVE Keeps
  OBVIOUS
<1> DEFINE s   == rank[k]
           p   == Position(s)
           b   == BarOf(s)
           q   == Marked(p, Px(b.high))
           raw == ExitPrice(q, b)
<1>1. /\ pc = "exit" /\ Protected(s) /\ Advance("evaluate") /\ UNCHANGED <<pending, history, orderCount>>
      /\ IF raw # NONE THEN ClosePosition(p, raw)
         ELSE /\ open' = (open \ {p}) \union {q}
              /\ UNCHANGED <<cash, realized, closedPnl>>
  BY DEF ProtectiveExit
<1>2. pc \in InWalk /\ "evaluate" \in InWalk
  BY <1>1 DEF InWalk
<1>3. /\ Walking' /\ pc' \in InWalk /\ UNCHANGED <<feed, last, now>>
  BY <1>1, <1>2, AdvanceKeeps DEF IInv
<1>4. lastPrice' = lastPrice /\ pending' = pending
  BY <1>1 DEF history
<1>5. Has(s) /\ OpenOf(s) # {} /\ PendingSells(s) = {}
  BY <1>1 DEF Protected
<1>6. s \in Frames(last) /\ s \in Symbols /\ now \in 1..NumBars
  BY <1>1, AtWork DEF IInv
<1>7. p \in open /\ p.symbol = s
  BY <1>5 DEF OpenOf, Position
<1>8. b \in SoundBar /\ Px(b.high) \in Nat
  <2>1. feed \in Feeds /\ feed[now][s] # NONE
    BY <1>5 DEF Has, IInv, Walking
  <2>2. b \in SoundBar
    BY <1>6, <2>1, FeedAssumption DEF BarOf
  <2>3. Px(b.high) \in Nat
    BY <1>6, <2>1, BarPrices DEF BarOf
  <2> QED
    BY <2>2, <2>3
<1>9. p \in Pos
  BY <1>7 DEF IInv, Books
<1>10. /\ q \in Pos
       /\ q.symbol = p.symbol /\ q.quantity = p.quantity
       /\ q.entryPrice = p.entryPrice /\ q.entryFees = p.entryFees
       /\ q.entryBar = p.entryBar
  BY <1>8, <1>9, MarkedKeeps
<1>11. CASE raw # NONE
  <2>1. raw \in Nat \ {0}
    BY <1>8, <1>10, <1>11, ExitPriceInBar
  <2>2. Sold(p)
    BY <1>1, <1>7, <1>11, <2>1, ClosePositionSells DEF IInv
  <2>3. Traded(s)
    BY <1>7, <2>2 DEF Traded
  <2>4. \A o \in pending' : o.symbol # s
    <3> SUFFICES ASSUME NEW o \in pending, o.symbol = s PROVE FALSE
      BY <1>4
    <3>1. o.side # "sell"
      BY <1>5 DEF PendingSells, PendingOf
    <3>2. o.side = "buy"
      BY <3>1 DEF IInv, Matched, Order
    <3> QED
      BY <1>7, <3>2 DEF IInv, Matched
  <2>5. pending' \in SUBSET pending
    BY <1>4
  <2> QED
    BY <1>2, <1>3, <1>4, <1>5, <1>6, <2>3, <2>4, <2>5, TradeStepKeeps
<1>12. CASE raw = NONE
  <2> DEFINE h == [x \in open |-> IF x = p THEN q ELSE x]
  <2> HIDE DEF raw, q, p
  <2>1. open' = {h[x] : x \in open}
    BY <1>1, <1>7, <1>12
  <2>2. \A x \in open : /\ h[x] \in Pos
                        /\ h[x].symbol = x.symbol /\ h[x].quantity = x.quantity
                        /\ h[x].entryPrice = x.entryPrice /\ h[x].entryFees = x.entryFees
                        /\ h[x].entryBar = x.entryBar
    BY <1>10 DEF IInv, Books
  <2>3. Kept(h)
    BY <1>1, <1>12, <2>1, <2>2 DEF Kept
  <2> HIDE DEF h
  <2> QED
    BY <1>2, <1>3, <1>4, <2>3, MarkStepKeeps
<1> QED
  BY <1>11, <1>12

\* Marking gives every position of the walk a last price.
LEMMA MarkToMarketKeeps == IInv /\ MarkToMarket => Keeps
<1> SUFFICES ASSUME IInv, MarkToMarket PROVE Keeps
  OBVIOUS
<1> DEFINE prices == [s \in Symbols |-> IF s \in Frames(last) /\ Has(s)
                                        THEN BarOf(s).close ELSE lastPrice[s]]
           later  == {t \in Timeline(last) : t > now}
           h      == [p \in open |-> Marked(p, Px(prices[p.symbol]))]
<1>1. /\ pc = "mark" /\ k' = 1 /\ lastPrice' = prices
      /\ open' = {Marked(p, Px(prices[p.symbol])) : p \in open}
      /\ IF later # {} THEN now' = Min(later) /\ pc' = "fill"
         ELSE now' = now /\ pc' = (IF mode.closeAtEnd THEN "close" ELSE "idle")
      /\ UNCHANGED <<feed, session, mode, last, rank, cash, realized, closedPnl, pending>>
  BY DEF MarkToMarket
<1>2. /\ feed \in Feeds /\ last \in 0..NumBars /\ mode \in Modes /\ now \in Timeline(last)
      /\ rank \in Seq(Frames(last)) /\ k \in 1..Len(rank)
  BY <1>1 DEF IInv, Walking
<1>3. now \in 1..NumBars /\ Timeline(last) \in SUBSET Nat /\ IsFiniteSet(Timeline(last))
  <2>1. now \in 1..NumBars /\ Timeline(last) \in SUBSET (1..last) /\ last \in Int
    BY <1>2, FramesAndTimeline
  <2>2. IsFiniteSet(1..last)
    BY <2>1, FS_Interval
  <2> QED
    BY <2>1, <2>2, FS_Subset
<1>4. prices \in [Symbols -> Nat \union {NONE}]
  <2>1. ASSUME NEW s \in Symbols, Has(s) PROVE BarOf(s).close \in Nat
    <3>1. feed[now][s] # NONE
      BY <2>1 DEF Has
    <3> QED
      BY <1>2, <1>3, <3>1, BarPrices DEF BarOf
  <2> QED
    BY <2>1 DEF IInv, Priced
<1>5. ASSUME NEW p \in open
      PROVE  prices[p.symbol] \in Nat
  <2>1. p.symbol \in Symbols
    BY PosFields DEF IInv, Books
  <2>2. prices[p.symbol] # NONE
    <3>1. CASE p.symbol \in Frames(last) /\ Has(p.symbol)
      <4>1. feed[now][p.symbol] # NONE
        BY <3>1 DEF Has
      <4>2. BarOf(p.symbol).close \in Nat
        BY <1>2, <1>3, <2>1, <4>1, BarPrices DEF BarOf
      <4> QED
        BY <2>1, <3>1, <4>2, FeedAssumption
    <3>2. CASE ~(p.symbol \in Frames(last) /\ Has(p.symbol))
      BY <2>1, <3>2 DEF IInv, Priced
    <3> QED
      BY <3>1, <3>2
  <2> HIDE DEF prices
  <2> QED
    BY <1>4, <2>1, <2>2
<1> HIDE DEF prices
<1>6. \A p \in open : /\ h[p] \in Pos
                      /\ h[p].symbol = p.symbol /\ h[p].quantity = p.quantity
                      /\ h[p].entryPrice = p.entryPrice /\ h[p].entryFees = p.entryFees
                      /\ h[p].entryBar = p.entryBar
  <2> SUFFICES ASSUME NEW p \in open
               PROVE  LET m == Marked(p, Px(prices[p.symbol]))
                      IN  /\ m \in Pos
                          /\ m.symbol = p.symbol /\ m.quantity = p.quantity
                          /\ m.entryPrice = p.entryPrice /\ m.entryFees = p.entryFees
                          /\ m.entryBar = p.entryBar
    OBVIOUS
  <2>1. p \in Pos /\ Px(prices[p.symbol]) \in Nat
    BY <1>5, PxPositive DEF IInv, Books
  <2> QED
    BY <2>1, MarkedKeeps
<1>7. open' = {h[p] : p \in open}
  BY <1>1
<1> HIDE DEF h
<1>8. Kept(h)
  BY <1>1, <1>6, <1>7 DEF Kept
<1>9. Books' /\ UNCHANGED Account!account
  BY <1>8, KeptKeepsBooks DEF IInv, Matched
<1>10. Matched'
  BY <1>1, <1>8, KeptKeepsMatched DEF IInv
<1>11. Priced'
  <2>1. \A p \in open' : prices[p.symbol] # NONE
    <3> SUFFICES ASSUME NEW p \in open
                 PROVE  prices[h[p].symbol] # NONE
      BY <1>7
    <3> QED
      BY <1>5, <1>6, FeedAssumption
  <2> QED
    BY <1>1, <1>4, <2>1 DEF Priced
<1>12. Walking'
  <2>1. Frames(last)' = Frames(last) /\ Timeline(last)' = Timeline(last)
    BY <1>1 DEF Frames, Timeline
  <2>2. k' \in 1..Len(rank')
    <3>1. Len(rank) \in Nat
      BY <1>2
    <3> QED
      BY <1>1, <1>2, <3>1
  <2>3. CASE later # {}
    <3>1. later \in SUBSET Int /\ IsFiniteSet(later)
      BY <1>3, FS_Subset
    <3>2. Min(later) \in later
      BY <2>3, <3>1, Extremes
    <3> QED
      BY <1>1, <1>2, <2>1, <2>2, <2>3, <3>2 DEF Walking, InWalk
  <2>4. CASE later = {}
    <3> HIDE DEF later
    <3>1. now' = now /\ pc' = (IF mode.closeAtEnd THEN "close" ELSE "idle")
      BY <1>1, <2>4
    <3> QED
      BY <1>1, <1>2, <2>1, <2>2, <3>1 DEF Walking, InWalk
  <2> QED
    BY <2>3, <2>4
<1> QED
  BY <1>9, <1>10, <1>11, <1>12 DEF Keeps, IInv

\* The forced close may leave a pending sale without its position, never with another.
LEMMA CloseAtSessionEndKeeps == IInv /\ CloseAtSessionEnd => Keeps
<1> SUFFICES ASSUME IInv, CloseAtSessionEnd PROVE Keeps
  OBVIOUS
<1>1. pc = "close" /\ UNCHANGED <<feed, walk, pending, history, orderCount>>
  BY DEF CloseAtSessionEnd
<1>2. PICK p \in open : p.symbol \in Frames(last) /\ ClosePosition(p, Px(LastClose(p.symbol)))
  BY DEF CloseAtSessionEnd
<1>3. /\ UNCHANGED <<feed, last, now, lastPrice, pc, pending>>
  BY <1>1 DEF walk, history
<1>4. feed \in Feeds /\ last \in 0..NumBars /\ mode \in Modes /\ mode.closeAtEnd
  BY <1>1 DEF IInv, Walking
<1>5. Px(LastClose(p.symbol)) \in Nat \ {0}
  <2> DEFINE T == {u \in 1..last : feed[u][p.symbol] # NONE}
  <2>1. p.symbol \in Symbols
    BY <1>2, FramesAndTimeline
  <2>2. Cardinality(T) >= 2
    BY <1>2 DEF Frames
  <2>3. T # {}
    <3> SUFFICES ASSUME T = {} PROVE FALSE
      OBVIOUS
    <3>1. Cardinality(T) = 0
      BY FS_EmptySet
    <3> HIDE DEF T
    <3> QED
      BY <2>2, <3>1
  <2>4. T \in SUBSET Int /\ IsFiniteSet(T)
    <3>1. IsFiniteSet(1..last)
      BY <1>4, FS_Interval
    <3>2. T \in SUBSET (1..last) /\ 1..last \in SUBSET Int
      BY <1>4
    <3> HIDE DEF T
    <3> QED
      BY <3>1, <3>2, FS_Subset
  <2>5. Max(T) \in T
    BY <2>3, <2>4, Extremes
  <2>6. Max(T) \in 1..NumBars
    BY <1>4, <2>5, ConfigAssumption
  <2> QED
    BY <1>4, <2>1, <2>5, <2>6, BarPrices DEF LastClose
<1>6. Sold(p)
  BY <1>2, <1>5, ClosePositionSells DEF IInv
<1>7. open' = open \ {p}
  BY <1>6 DEF Sold
<1>8. Traded(p.symbol) /\ Traded(p.symbol)
  BY <1>6 DEF Traded
<1>9. Books' /\ [Account!Next]_(Account!account)
  BY <1>8, TradedKeepsBooks DEF IInv
<1>10. Priced'
  <2>1. \A q \in open' : lastPrice[q.symbol] # NONE
    BY <1>1, <1>7 DEF IInv, Priced, InWalk
  <2> QED
    BY <1>3, <2>1 DEF IInv, Priced
<1>11. Matched'
  BY <1>3, <1>4, <1>7 DEF IInv, Matched, OnePosition
<1>12. Walking'
  BY <1>1, StandingKeeps DEF IInv
<1> QED
  BY <1>9, <1>10, <1>11, <1>12 DEF Keeps, IInv

\* The last snapshot only looks.
LEMMA EndSessionKeeps == IInv /\ EndSession => Keeps
<1> SUFFICES ASSUME IInv, EndSession PROVE Keeps
  OBVIOUS
<1>1. /\ pc = "close" /\ pc' = "idle"
      /\ UNCHANGED <<feed, last, account, pending, lastPrice>>
  BY DEF EndSession
<1>2. Traded(NONE) /\ UNCHANGED open
  BY <1>1 DEF Traded, account
<1>3. Books' /\ [Account!Next]_(Account!account)
  BY <1>2, TradedKeepsBooks DEF IInv
<1>4. Priced' /\ Matched'
  BY <1>1, <1>2 DEF IInv, Priced, Matched, OnePosition, InWalk
<1>5. Walking'
  BY <1>1 DEF IInv, Walking
<1> QED
  BY <1>3, <1>4, <1>5 DEF Keeps, IInv

\* Every step keeps the invariant and is one of the account's, or none.
LEMMA StepKeeps == IInv /\ [Next]_vars => Keeps
<1> SUFFICES ASSUME IInv, [Next]_vars PROVE Keeps
  OBVIOUS
<1>1. CASE UNCHANGED vars
  <2>1. UNCHANGED <<feed, walk, account, pending, lastPrice>>
    BY <1>1 DEF vars, history
  <2>2. Traded(NONE) /\ UNCHANGED <<open, pc, now, last>>
    BY <2>1 DEF Traded, account, walk
  <2>3. Books' /\ [Account!Next]_(Account!account)
    BY <2>2, TradedKeepsBooks DEF IInv
  <2>4. (\A s : Has(s)' <=> Has(s)) /\ Frames(last)' = Frames(last)
    BY <2>1, <2>2 DEF Has, Frames
  <2>5. Priced' /\ Matched'
    BY <2>1, <2>2, <2>4 DEF IInv, Priced, Matched, OnePosition
  <2>6. Walking'
    BY <2>1, StandingKeeps DEF IInv
  <2> QED
    BY <2>3, <2>5, <2>6 DEF Keeps, IInv
<1>2. CASE Next
  BY <1>2, StartSessionKeeps, FillPendingKeeps, WalkOnKeeps, ProtectiveExitKeeps,
     BuySignalKeeps, SellSignalKeeps, MarkToMarketKeeps, CloseAtSessionEndKeeps,
     EndSessionKeeps DEF Next
<1> QED
  BY <1>1, <1>2

\* What a step does to the cash is one of the trades TradesAreReal allows.
LEMMA StepIsReal ==
  IInv /\ [Next]_vars =>
    (cash' # cash =>
       \/ pc = "close"
       \/ pc = "evaluate" /\ ~mode.nextBar
       \/ pc = "fill" /\ \E o \in pending \ pending' : o.timestamp < now
       \/ /\ pc = "exit"
          /\ LET p == Position(rank[k])
                 b == BarOf(rank[k])
             IN  cash' - cash \in Proceeds(Px(b.low), p.quantity)
                                    .. Proceeds(Px(b.high), p.quantity)
                                         + Value(2, p.quantity))
<1> SUFFICES ASSUME IInv, [Next]_vars, cash' # cash
             PROVE  \/ pc = "close"
                    \/ pc = "evaluate" /\ ~mode.nextBar
                    \/ pc = "fill" /\ \E o \in pending \ pending' : o.timestamp < now
                    \/ /\ pc = "exit"
                       /\ LET p == Position(rank[k])
                              b == BarOf(rank[k])
                          IN  cash' - cash \in Proceeds(Px(b.low), p.quantity)
                                                 .. Proceeds(Px(b.high), p.quantity)
                                                      + Value(2, p.quantity)
  OBVIOUS
<1>1. CASE UNCHANGED vars
  BY <1>1 DEF vars, account
<1>2. CASE StartSession \/ NothingToFill \/ Unprotected \/ NoOrder \/ MarkToMarket \/ EndSession
  BY <1>2 DEF StartSession, NothingToFill, Unprotected, NoOrder, MarkToMarket, EndSession,
              account
<1>3. CASE FillPending
  <2>1. PICK o \in Fillable(rank[k]) : pending' = pending \ {o}
    BY <1>3 DEF FillPending
  <2>2. o \in pending /\ now > o.timestamp
    BY <2>1 DEF Fillable, PendingOf
  <2>3. o.timestamp < now
    <3>1. o.timestamp \in Int
      BY <2>2 DEF IInv, Matched, Order
    <3>2. pc = "fill"
      BY <1>3 DEF FillPending
    <3>3. now \in Int
      BY <3>2, AtWork DEF IInv
    <3> QED
      BY <2>2, <3>1, <3>3
  <2>4. pc = "fill" /\ o \in pending \ pending'
    BY <1>3, <2>1, <2>2 DEF FillPending
  <2> QED
    BY <2>3, <2>4
<1>4. CASE BuySignal(rank[k]) \/ SellSignal(rank[k])
  <2>1. pc = "evaluate" /\ (mode.nextBar => cash' = cash)
    BY <1>4 DEF BuySignal, SellSignal, CanSignal, Submit, account
  <2>2. ~mode.nextBar
    BY <2>1
  <2> QED
    BY <2>1, <2>2
<1>5. CASE CloseAtSessionEnd
  BY <1>5 DEF CloseAtSessionEnd
<1>6. CASE ProtectiveExit
  <2> DEFINE s   == rank[k]
             p   == Position(s)
             b   == BarOf(s)
             q   == Marked(p, Px(b.high))
             raw == ExitPrice(q, b)
  <2>1. /\ pc = "exit" /\ Has(s) /\ OpenOf(s) # {}
        /\ IF raw # NONE THEN ClosePosition(p, raw) ELSE cash' = cash
    BY <1>6 DEF ProtectiveExit, Protected
  <2>2. s \in Symbols /\ now \in 1..NumBars
    BY <2>1, AtWork DEF IInv
  <2>3. p \in open /\ p \in Pos
    <3>1. p \in open
      BY <2>1 DEF OpenOf, Position
    <3> QED
      BY <3>1 DEF IInv, Books
  <2>4. b \in SoundBar /\ Px(b.high) \in Nat /\ b.low \in Nat \ {0} /\ b.high \in Nat \ {0}
    <3>1. feed \in Feeds /\ feed[now][s] # NONE
      BY <2>1 DEF Has, IInv, Walking
    <3>2. b \in SoundBar
      BY <2>2, <3>1, FeedAssumption DEF BarOf
    <3>3. Px(b.high) \in Nat /\ b.low \in Nat \ {0} /\ b.high \in Nat \ {0}
      BY <2>2, <3>1, BarPrices DEF BarOf
    <3> QED
      BY <3>2, <3>3
  <2>5. q \in Pos
    BY <2>3, <2>4, MarkedKeeps
  <2>6. raw # NONE /\ cash' = cash + Proceeds(raw, p.quantity)
    BY <2>1 DEF ClosePosition
  <2>7. raw \in Nat \ {0} /\ Px(b.low) <= raw /\ raw <= Px(b.high)
    BY <2>4, <2>5, <2>6, ExitPriceInBar
  <2>8. p.quantity \in Nat \ {0}
    BY <2>3, PosFields
  <2> DEFINE in == Proceeds(raw, p.quantity)
  <2> HIDE DEF raw, q
  <2>9. in \in Proceeds(Px(b.low), p.quantity)
                 .. (Proceeds(Px(b.high), p.quantity) + Value(2, p.quantity))
    BY <2>4, <2>7, <2>8, SaleWithinBar
  <2>10. in \in Nat /\ cash \in Nat
    BY <2>7, <2>8, SellMoney DEF IInv, Books
  <2>11. cash' - cash = in
    <3> HIDE DEF in
    <3>1. cash' = cash + in
      BY <2>6 DEF in
    <3> QED
      BY <2>10, <3>1
  <2> HIDE DEF in
  <2> QED
    BY <2>1, <2>9, <2>11
<1> QED
  BY <1>1, <1>2, <1>3, <1>4, <1>5, <1>6 DEF Next

-----------------------------------------------------------------------------
(* The theorems                                                            *)

\* The walk, the books, the prices and the queue fit together at every step.
THEOREM Invariance == Spec => []IInv
<1>1. Init => IInv
  BY InitEstablishes
<1>2. IInv /\ [Next]_vars => IInv'
  BY StepKeeps DEF Keeps
<1> QED
  BY <1>1, <1>2, PTL DEF Spec

\* Whatever is filled, rejected, stopped out or closed by force in however many
\* sessions of the paper engine, realized_pnl is what the closed positions made less
\* the entry costs of the open ones.
THEOREM PaperLedger == Spec => []RealizedMatchesPositions
<1>1. IInv => RealizedMatchesPositions
  BY DEF IInv, Books
<1> QED
  BY <1>1, Invariance, PTL

\* The invariant says of every symbol what QueueAgreesWithPositions counts.
LEMMA MatchedAgrees == IInv => QueueAgreesWithPositions
<1> SUFFICES ASSUME IInv, NEW s \in Symbols
             PROVE  /\ Cardinality(OpenOf(s)) <= 1 /\ Cardinality(PendingOf(s)) <= 1
                    /\ \A o \in PendingOf(s) :
                         IF o.side = "buy" THEN OpenOf(s) = {}
                         ELSE /\ \A p \in OpenOf(s) : p.quantity = o.quantity
                              /\ OpenOf(s) # {} \/ \E m \in Modes : m.closeAtEnd
  BY DEF QueueAgreesWithPositions
<1>1. ASSUME NEW S, \A x, y \in S : x = y
      PROVE  Cardinality(S) <= 1
  <2>1. CASE S = {}
    BY <2>1, FS_EmptySet
  <2>2. CASE S # {}
    <3>1. PICK x \in S : TRUE
      BY <2>2
    <3>2. S = {x}
      BY <1>1, <3>1
    <3>3. Cardinality({x}) = 1
      BY FS_Singleton
    <3> QED
      BY <3>2, <3>3
  <2> QED
    BY <2>1, <2>2
<1>2. Cardinality(OpenOf(s)) <= 1 /\ Cardinality(PendingOf(s)) <= 1
  <2>1. \A x, y \in OpenOf(s) : x = y
    BY DEF IInv, Matched, OnePosition, OpenOf
  <2>2. \A x, y \in PendingOf(s) : x = y
    BY DEF IInv, Matched, PendingOf
  <2> QED
    BY <1>1, <2>1, <2>2
<1>3. ASSUME NEW o \in PendingOf(s)
      PROVE  IF o.side = "buy" THEN OpenOf(s) = {}
             ELSE /\ \A p \in OpenOf(s) : p.quantity = o.quantity
                  /\ OpenOf(s) # {} \/ \E m \in Modes : m.closeAtEnd
  <2>1. o \in pending /\ o.symbol = s /\ o.side \in {"buy", "sell"}
    BY DEF PendingOf, IInv, Matched, Order
  <2> QED
    BY <2>1 DEF IInv, Matched, OpenOf
<1> QED
  BY <1>2, <1>3

\* The pending orders and the positions of the paper portfolio agree at every step:
\* at most one of each per symbol, a BUY only where nothing is held, a SELL for the
\* whole position.
THEOREM PaperQueue == Spec => []QueueAgreesWithPositions
  BY MatchedAgrees, Invariance, PTL

\* _execute_order rejects what the cash does not pay for, so the paper account is
\* never overdrawn, however many symbols size their orders with the same cash.
THEOREM PaperCashNeverNegative == Spec => []NeverOverdrawn
<1>1. IInv => NeverOverdrawn
  BY DEF IInv, Books, NeverOverdrawn
<1> QED
  BY <1>1, Invariance, PTL

\* The paper portfolio moves money only by purchases and sales: what it does is a
\* behaviour of TradingAccount.
THEOREM PaperImplementsAccount == Spec => ImplementsAccount
<1>1. Init => Account!Init
  BY InitEstablishes
<1>2. IInv /\ [Next]_vars => [Account!Next]_(Account!account)
  BY StepKeeps DEF Keeps
<1> QED
  BY <1>1, <1>2, Invariance, PTL DEF Spec, ImplementsAccount, Account!Spec

\* Money changes hands only at the forced close, in same-bar mode, for an order older
\* than the bar, or at a price of the bar the protective exit happens on.
THEOREM PaperTradesAreReal == Spec => TradesAreReal
<1>1. IInv /\ [Next]_vars => [cash' # cash =>
       \/ pc = "close"
       \/ pc = "evaluate" /\ ~mode.nextBar
       \/ pc = "fill" /\ \E o \in pending \ pending' : o.timestamp < now
       \/ /\ pc = "exit"
          /\ LET p == Position(rank[k])
                 b == BarOf(rank[k])
             IN  cash' - cash \in Proceeds(Px(b.low), p.quantity)
                                    .. Proceeds(Px(b.high), p.quantity)
                                         + Value(2, p.quantity)]_vars
  BY StepIsReal
<1> QED
  BY <1>1, Invariance, PTL DEF Spec, TradesAreReal

-----------------------------------------------------------------------------
(* The order of the candidates                                             *)

LexLess(s, t) ==
  \E i \in 1 .. 7 : s[i] < t[i] /\ \A j \in 1 .. i - 1 : s[j] = t[j]
Key7(s) == \A i \in 1 .. 7 : s[i] \in Int

\* Keys of seven numbers are compared from the left; no two are each before the
\* other.
LEMMA LexIsStrict ==
  ASSUME NEW s, NEW t, Key7(s), Key7(t), LexLess(s, t)
  PROVE  ~LexLess(t, s)
<1>1. PICK i \in 1 .. 7 : s[i] < t[i] /\ \A j \in 1 .. i - 1 : s[j] = t[j]
  BY DEF LexLess
<1>2. SUFFICES ASSUME NEW m \in 1 .. 7, t[m] < s[m], \A j \in 1 .. m - 1 : t[j] = s[j]
               PROVE FALSE
  BY DEF LexLess
<1>3. s[i] \in Int /\ t[i] \in Int /\ s[m] \in Int /\ t[m] \in Int
  BY DEF Key7
<1>4. CASE i < m
  BY <1>1, <1>2, <1>3, <1>4
<1>5. CASE i = m
  BY <1>1, <1>2, <1>3, <1>5
<1>6. CASE m < i
  BY <1>1, <1>2, <1>3, <1>6
<1> QED
  BY <1>4, <1>5, <1>6

\* The comparison is transitive.
LEMMA LexIsTransitive ==
  ASSUME NEW s, NEW t, NEW u, Key7(s), Key7(t), Key7(u), LexLess(s, t), LexLess(t, u)
  PROVE  LexLess(s, u)
<1>1. PICK i \in 1 .. 7 : s[i] < t[i] /\ \A j \in 1 .. i - 1 : s[j] = t[j]
  BY DEF LexLess
<1>2. PICK m \in 1 .. 7 : t[m] < u[m] /\ \A j \in 1 .. m - 1 : t[j] = u[j]
  BY DEF LexLess
<1>3. /\ s[i] \in Int /\ t[i] \in Int /\ u[i] \in Int
      /\ s[m] \in Int /\ t[m] \in Int /\ u[m] \in Int
  BY DEF Key7
<1>4. CASE i < m
  <2>1. s[i] < u[i]
    BY <1>1, <1>2, <1>3, <1>4
  <2>2. \A j \in 1 .. i - 1 : s[j] = u[j]
    BY <1>1, <1>2, <1>4
  <2> QED
    BY <2>1, <2>2 DEF LexLess
<1>5. CASE m <= i
  <2>1. s[m] < u[m]
    BY <1>1, <1>2, <1>3, <1>5
  <2>2. \A j \in 1 .. m - 1 : s[j] = u[j]
    BY <1>1, <1>2, <1>5
  <2> QED
    BY <2>1, <2>2 DEF LexLess
<1> QED
  BY <1>4, <1>5

\* Of two keys that differ somewhere, one comes first.
LEMMA LexIsTotal ==
  ASSUME NEW s, NEW t, Key7(s), Key7(t), \E i \in 1 .. 7 : s[i] # t[i]
  PROVE  LexLess(s, t) \/ LexLess(t, s)
<1>1. \A i \in 1 .. 7 : s[i] \in Int /\ t[i] \in Int
  BY DEF Key7
<1>2. ASSUME NEW i \in 1 .. 7, s[i] # t[i], \A j \in 1 .. i - 1 : s[j] = t[j]
      PROVE  LexLess(s, t) \/ LexLess(t, s)
  <2>1. s[i] < t[i] \/ t[i] < s[i]
    BY <1>1, <1>2
  <2>2. CASE s[i] < t[i]
    BY <1>2, <2>2 DEF LexLess
  <2>3. CASE t[i] < s[i]
    <3>1. \A j \in 1 .. i - 1 : t[j] = s[j]
      BY <1>2
    <3> QED
      BY <2>3, <3>1 DEF LexLess
  <2> QED
    BY <2>1, <2>2, <2>3
<1>3. \E i \in 1 .. 7 : s[i] # t[i] /\ \A j \in 1 .. i - 1 : s[j] = t[j]
  <2>1. ASSUME \A i \in 1 .. 7 : (\A j \in 1 .. i - 1 : s[j] = t[j]) => s[i] = t[i]
        PROVE  FALSE
    <3>1. s[1] = t[1]
      BY <2>1
    <3>2. s[2] = t[2]
      BY <2>1, <3>1
    <3>3. s[3] = t[3]
      BY <2>1, <3>1, <3>2
    <3>4. s[4] = t[4]
      BY <2>1, <3>1, <3>2, <3>3
    <3>5. s[5] = t[5]
      BY <2>1, <3>1, <3>2, <3>3, <3>4
    <3>6. s[6] = t[6]
      BY <2>1, <3>1, <3>2, <3>3, <3>4, <3>5
    <3>7. s[7] = t[7]
      BY <2>1, <3>1, <3>2, <3>3, <3>4, <3>5, <3>6
    <3> QED
      BY <3>1, <3>2, <3>3, <3>4, <3>5, <3>6, <3>7
  <2> QED
    BY <2>1
<1> QED
  BY <1>2, <1>3

\* A candidate the engine made of a sound setup.
CandidateOK(c) == SetupOK(c.setup) /\ c = Candidate(c.setup)

\* The ranking compares the sort keys.
LEMMA BeforeIsLex ==
  \A c, d : Before(c, d) <=> LexLess(SortKey(c), SortKey(d))
BY DEF Before, LexLess

\* A number cut to 0 .. 100 is a number.
LEMMA ClampIsInt == \A x \in Int : Clamp(x) \in Int
BY DEF Clamp

\* Every entry of the sort key of a candidate is a number.
LEMMA KeysAreNumbers ==
  ASSUME decisionCfg \in DecisionConfigs, strengths \in Strengths,
         NEW c, CandidateOK(c)
  PROVE  Key7(SortKey(c))
<1> DEFINE o == c.setup
<1>1. SetupOK(o) /\ c = Candidate(o)
  BY DEF CandidateOK
<1>2. DecisionConfigOK(decisionCfg) /\ \A x \in DOMAIN strengths : strengths[x] \in Int
  BY PickAssumption
<1>3. Penalty(o) \in Int
  BY <1>2, ClampIsInt DEF Penalty, DecisionConfigOK
<1>4. StrengthScore(o) \in Int
  <2>1. CASE HasStrength(o)
    BY <1>2, <2>1, ClampIsInt DEF HasStrength, StrengthScore
  <2>2. CASE ~HasStrength(o)
    BY <2>2 DEF StrengthScore
  <2> QED
    BY <2>1, <2>2
<1>5. Clamp(o.score) \in Int /\ Clamp((10 * o.rr) \div 3) \in Int
  BY <1>1, ClampIsInt DEF SetupOK
<1>6. o.quality \in Int /\ o.liquidity \in Int /\ o.freshness \in Int
  BY <1>1 DEF SetupOK
<1> HIDE DEF o
<1>7. Conviction(o) \in Int
  BY <1>3, <1>4, <1>5, <1>6 DEF Conviction
<1>8. c.conviction = Conviction(o)
  BY <1>1 DEF Candidate
<1>9. NameOrder[o.timeframe] \in Int
  BY <1>1 DEF SetupOK, NameOrder, Timeframes
<1>10. HasStrength(o) => -strengths[o.symbol] \in Int
  BY <1>2 DEF HasStrength
<1> DEFINE m == SortKey(c)
<1>11. /\ m[1] = -c.conviction /\ m[2] = -o.rr
       /\ m[3] = IF HasStrength(o) THEN -strengths[o.symbol] ELSE 1000000
       /\ m[4] = -o.score /\ m[5] = o.symbol /\ m[6] = NameOrder[o.timeframe]
       /\ m[7] = o.strategy
  BY DEF SortKey, o
<1> HIDE DEF m
<1>12. /\ m[1] \in Int /\ m[2] \in Int /\ m[4] \in Int /\ m[5] \in Int
       /\ m[6] \in Int /\ m[7] \in Int
  BY <1>1, <1>7, <1>8, <1>9, <1>11 DEF SetupOK
<1>13. m[3] \in Int
  BY <1>10, <1>11
<1>14. \A i \in 1 .. 7 : m[i] \in Int
  BY <1>12, <1>13
<1> QED
  BY <1>14 DEF Key7, m

\* Two candidates of different jobs have different keys.
LEMMA KeysTellJobsApart ==
  ASSUME NEW c, NEW d, CandidateOK(c), CandidateOK(d),
         ~SameJob(c.setup, d.setup)
  PROVE  \E i \in 1 .. 7 : SortKey(c)[i] # SortKey(d)[i]
<1>1. /\ SortKey(c)[5] = c.setup.symbol /\ SortKey(d)[5] = d.setup.symbol
      /\ SortKey(c)[6] = NameOrder[c.setup.timeframe]
      /\ SortKey(d)[6] = NameOrder[d.setup.timeframe]
      /\ SortKey(c)[7] = c.setup.strategy /\ SortKey(d)[7] = d.setup.strategy
  BY DEF SortKey
<1>2. NameOrder[c.setup.timeframe] = NameOrder[d.setup.timeframe]
        => c.setup.timeframe = d.setup.timeframe
  BY DEF CandidateOK, SetupOK, NameOrder, Timeframes
<1> QED
  BY <1>1, <1>2 DEF SameJob

-----------------------------------------------------------------------------
(* The ranking                                                             *)

\* Candidates of one scan.
Rankable(cs) ==
  /\ IsFiniteSet(cs)
  /\ \A c \in cs : CandidateOK(c)
  /\ \A c, d \in cs : SameJob(c.setup, d.setup) => c = d

Below(cs, c) == {d \in cs : Before(d, c)}

\* Among the candidates of one scan, the ranking is a strict total order.
LEMMA BeforeIsOrder ==
  ASSUME decisionCfg \in DecisionConfigs, strengths \in Strengths,
         NEW cs, Rankable(cs), NEW c \in cs, NEW d \in cs
  PROVE  /\ ~Before(c, c)
         /\ Before(c, d) => ~Before(d, c)
         /\ c # d => Before(c, d) \/ Before(d, c)
         /\ \A e \in cs : Before(c, d) /\ Before(d, e) => Before(c, e)
<1>1. \A e \in cs : Key7(SortKey(e))
  BY KeysAreNumbers DEF Rankable
<1>2. Before(c, d) => ~Before(d, c)
  BY <1>1, BeforeIsLex, LexIsStrict
<1>3. ~Before(c, c)
  BY <1>1, BeforeIsLex, LexIsStrict
<1>4. ASSUME c # d PROVE Before(c, d) \/ Before(d, c)
  <2>1. ~SameJob(c.setup, d.setup) /\ CandidateOK(c) /\ CandidateOK(d)
    BY <1>4 DEF Rankable
  <2>2. \E i \in 1 .. 7 : SortKey(c)[i] # SortKey(d)[i]
    BY <2>1, KeysTellJobsApart
  <2>3. Key7(SortKey(c)) /\ Key7(SortKey(d))
    BY <1>1
  <2>4. LexLess(SortKey(c), SortKey(d)) \/ LexLess(SortKey(d), SortKey(c))
    BY <2>2, <2>3, LexIsTotal
  <2> QED
    BY <2>4, BeforeIsLex
<1>5. ASSUME NEW e \in cs, Before(c, d), Before(d, e) PROVE Before(c, e)
  BY <1>1, <1>5, BeforeIsLex, LexIsTransitive
<1> QED
  BY <1>2, <1>3, <1>4, <1>5

\* The ranking lists candidates, each after every one that goes before it.
LEMMA RankedIsSorted ==
  ASSUME decisionCfg \in DecisionConfigs, strengths \in Strengths,
         NEW cs, Rankable(cs)
  PROVE  /\ Ranked(cs) \in Seq(cs)
         /\ \A i, j \in DOMAIN Ranked(cs) : i < j => Before(Ranked(cs)[i], Ranked(cs)[j])
<1> DEFINE n == Cardinality(cs)
           place == [c \in cs |-> Cardinality(Below(cs, c))]
<1>1. IsFiniteSet(cs) /\ n \in Nat
  BY FS_CardinalityType DEF Rankable
<1>2. ASSUME NEW c \in cs
      PROVE  IsFiniteSet(Below(cs, c)) /\ Cardinality(Below(cs, c)) \in 0 .. n - 1
  <2>1. IsFiniteSet(cs \ {c}) /\ Cardinality(cs \ {c}) = n - 1
    BY <1>1, FS_RemoveElement
  <2>2. Below(cs, c) \in SUBSET (cs \ {c})
    BY BeforeIsOrder DEF Below
  <2>3. IsFiniteSet(Below(cs, c)) /\ Cardinality(Below(cs, c)) <= n - 1
    BY <2>1, <2>2, FS_Subset
  <2>4. Cardinality(Below(cs, c)) \in Nat
    BY <2>3, FS_CardinalityType
  <2> QED
    BY <1>1, <2>3, <2>4
<1>3. ASSUME NEW c \in cs, NEW d \in cs, Before(c, d)
      PROVE  place[c] < place[d]
  <2>1. IsFiniteSet(Below(cs, d)) /\ Cardinality(Below(cs, d)) \in Nat
    BY <1>1, <1>2
  <2>2. Below(cs, c) \in SUBSET (Below(cs, d) \ {c})
    BY <1>3, BeforeIsOrder DEF Below
  <2>3. c \in Below(cs, d)
    BY <1>3 DEF Below
  <2>4. /\ IsFiniteSet(Below(cs, d) \ {c})
        /\ Cardinality(Below(cs, d) \ {c}) = Cardinality(Below(cs, d)) - 1
    BY <2>1, <2>3, FS_RemoveElement
  <2>5. Cardinality(Below(cs, c)) <= Cardinality(Below(cs, d)) - 1
    BY <2>2, <2>4, FS_Subset
  <2>6. Cardinality(Below(cs, c)) \in Nat
    BY <1>1, <1>2
  <2> QED
    BY <2>1, <2>5, <2>6
<1>4. place \in [cs -> 0 .. n - 1]
  BY <1>2
<1> HIDE DEF place
<1>5. ASSUME NEW c \in cs, NEW d \in cs, place[c] = place[d] PROVE c = d
  <2>1. place[c] \in Int
    BY <1>1, <1>4
  <2>2. ~(place[c] < place[d]) /\ ~(place[d] < place[c])
    BY <1>5, <2>1
  <2> QED
    BY <1>3, <2>2, BeforeIsOrder
<1>6. place \in Injection(cs, 0 .. n - 1)
  BY <1>4, <1>5 DEF Injection, IsInjective
<1>7. IsFiniteSet(0 .. n - 1) /\ Cardinality(0 .. n - 1) = n
  <2>1. 0 \in Int /\ n - 1 \in Int
    BY <1>1
  <2>2. /\ IsFiniteSet(0 .. n - 1)
        /\ Cardinality(0 .. n - 1) = IF 0 > n - 1 THEN 0 ELSE n - 1 - 0 + 1
    BY <2>1, FS_Interval
  <2> QED
    BY <1>1, <2>2
<1>8. place \in Surjection(cs, 0 .. n - 1)
  BY <1>6, <1>7, FS_Injection
<1>9. ASSUME NEW i \in 1 .. n
      PROVE  Ranked(cs)[i] \in cs /\ place[Ranked(cs)[i]] = i - 1
  <2>1. i - 1 \in 0 .. n - 1
    BY <1>1
  <2>2. \E c \in cs : place[c] = i - 1
    BY <1>8, <2>1 DEF Surjection
  <2>3. \E c \in cs : Cardinality({d \in cs : Before(d, c)}) = i - 1
    BY <2>2 DEF place, Below
  <2>4. Ranked(cs)[i] = CHOOSE c \in cs : Cardinality({d \in cs : Before(d, c)}) = i - 1
    BY DEF Ranked
  <2>5. /\ Ranked(cs)[i] \in cs
        /\ Cardinality({d \in cs : Before(d, Ranked(cs)[i])}) = i - 1
    BY <2>3, <2>4
  <2> QED
    BY <2>5 DEF place, Below
<1>10. Ranked(cs) \in Seq(cs) /\ DOMAIN Ranked(cs) = 1 .. n
  <2>1. Ranked(cs) = [i \in 1 .. n |->
                        CHOOSE c \in cs : Cardinality({d \in cs : Before(d, c)}) = i - 1]
    BY DEF Ranked
  <2>2. Ranked(cs) \in [1 .. n -> cs]
    BY <1>9, <2>1
  <2> QED
    BY <1>1, <2>2
<1>11. ASSUME NEW i \in 1 .. n, NEW j \in 1 .. n, i < j
       PROVE  Before(Ranked(cs)[i], Ranked(cs)[j])
  <2> DEFINE c == Ranked(cs)[i]
             d == Ranked(cs)[j]
  <2>1. c \in cs /\ d \in cs /\ place[c] = i - 1 /\ place[d] = j - 1
    BY <1>9
  <2> HIDE DEF c, d
  <2>2. place[c] # place[d] /\ ~(place[d] < place[c])
    BY <1>1, <1>11, <2>1
  <2>3. c # d /\ ~Before(d, c)
    BY <1>3, <2>1, <2>2
  <2>4. Before(c, d)
    BY <2>1, <2>3, BeforeIsOrder
  <2> QED
    BY <2>4 DEF c, d
<1> QED
  BY <1>10, <1>11

-----------------------------------------------------------------------------
(* The selection                                                           *)

Taken == Range(picks.selected)
Ahead(o) == {c \in Taken : Before(c, Candidate(o))}

\* A cap that setup o breaks, filled by the picks in ahead.
Excuse(o, ahead) ==
  \/ Cardinality({c \in ahead : c.horizon = Horizon(o.timeframe)})
       >= decisionCfg.maxPicks[Horizon(o.timeframe)]
  \/ /\ o.sector # NoLabel
     /\ Cardinality({c \in ahead : c.setup.sector = o.sector})
          >= decisionCfg.maxPerSector
  \/ /\ decisionCfg.uniqueSymbol
     /\ \E c \in ahead : c.setup.symbol = o.symbol
  \/ /\ decisionCfg.uniqueSetup
     /\ \E c \in ahead : /\ c.setup.symbol = o.symbol
                         /\ c.setup.timeframe = o.timeframe
                         /\ c.setup.strategy = o.strategy
  \/ /\ o.cluster # NoLabel
     /\ Cardinality({c \in ahead : c.setup.cluster = o.cluster})
          >= decisionCfg.maxCorrelated

PickTypeOK ==
  /\ decisionCfg \in DecisionConfigs /\ strengths \in Strengths
  /\ DOMAIN picks = {"phase", "queue", "selected", "rejected", "horizons",
                     "sectors", "symbols", "clusters", "setups"}
  /\ picks.phase = "idle" => picks = NoPicks

\* The picks and the queue are candidates of one scan, in the order of their
\* ranks.
InOrder(cs) ==
  /\ Rankable(cs)
  /\ picks.queue \in Seq(cs) /\ picks.selected \in Seq(cs)
  /\ \A i, j \in DOMAIN picks.queue : i < j => Before(picks.queue[i], picks.queue[j])
  /\ \A c \in Taken, j \in DOMAIN picks.queue : Before(c, picks.queue[j])

\* The counters count the picks that were taken, and nothing else.
CountersOK ==
  /\ \A h : Count(picks.horizons, h) = Cardinality({c \in Taken : c.horizon = h})
  /\ \A x : x # NoLabel => Count(picks.sectors, x)
                             = Cardinality({c \in Taken : c.setup.sector = x})
  /\ \A x : x # NoLabel => Count(picks.clusters, x)
                             = Cardinality({c \in Taken : c.setup.cluster = x})
  /\ \A x : Count(picks.symbols, x) = Cardinality({c \in Taken : c.setup.symbol = x})
  /\ \A s \in picks.setups : \E c \in Taken :
       s = <<c.setup.symbol, c.setup.timeframe, c.setup.strategy>>

RejectionsOK ==
  \A r \in picks.rejected :
    /\ SetupOK(r.setup)
    /\ Rejection(r.setup) = "none" => Excuse(r.setup, Ahead(r.setup))

PickInv == PickTypeOK /\ (\E cs : InOrder(cs)) /\ CountersOK /\ RejectionsOK

\* The arguments of a run decide the order and the filters.
LEMMA SameArguments ==
  ASSUME UNCHANGED <<decisionCfg, regime, strengths>>
  PROVE  /\ \A c, d : Before(c, d)' <=> Before(c, d)
         /\ \A o : Candidate(o)' = Candidate(o)
         /\ \A o : Rejection(o)' = Rejection(o)
         /\ \A cs : Rankable(cs)' <=> Rankable(cs)
<1>1. \A o : HasStrength(o)' <=> HasStrength(o)
  BY DEF HasStrength
<1>2. \A o : Mismatch(o)' <=> Mismatch(o)
  BY DEF Mismatch
<1>3. \A o : Penalty(o)' = Penalty(o)
  BY <1>2 DEF Penalty
<1>4. \A o : StrengthScore(o)' = StrengthScore(o)
  BY <1>1 DEF StrengthScore
<1>5. \A o : Conviction(o)' = Conviction(o)
  BY <1>3, <1>4 DEF Conviction
<1>6. \A o : Candidate(o)' = Candidate(o)
  BY <1>5 DEF Candidate
<1>7. \A o : Rejection(o)' = Rejection(o)
  BY <1>2 DEF Rejection
<1>8. \A c : SortKey(c)' = SortKey(c)
  BY <1>1 DEF SortKey
<1>9. \A c, d : Before(c, d)' <=> Before(c, d)
  BY <1>8 DEF Before
<1>10. \A cs : Rankable(cs)' <=> Rankable(cs)
  BY <1>6 DEF Rankable, CandidateOK
<1> QED
  BY <1>6, <1>7, <1>9, <1>10

\* More picks taken before a setup excuse it as well.
LEMMA ExcuseStays ==
  ASSUME decisionCfg \in DecisionConfigs,
         NEW o, o.timeframe \in Timeframes,
         NEW T, IsFiniteSet(T), NEW S \in SUBSET T, Excuse(o, S)
  PROVE  Excuse(o, T)
<1>1. Horizon(o.timeframe) \in Horizons
  BY DEF Horizon, Horizons, Timeframes
<1>2. /\ decisionCfg.maxPicks[Horizon(o.timeframe)] \in Int
      /\ decisionCfg.maxPerSector \in Int /\ decisionCfg.maxCorrelated \in Int
  BY <1>1, PickAssumption DEF DecisionConfigOK
<1>3. ASSUME NEW A \in SUBSET T, NEW B \in SUBSET A, NEW m \in Int, Cardinality(B) >= m
      PROVE  Cardinality(A) >= m
  <2>1. IsFiniteSet(A)
    BY FS_Subset
  <2>2. Cardinality(B) <= Cardinality(A) /\ IsFiniteSet(B)
    BY <2>1, FS_Subset
  <2>3. Cardinality(B) \in Int /\ Cardinality(A) \in Int
    BY <2>1, <2>2, FS_CardinalityType
  <2> QED
    BY <1>3, <2>2, <2>3
<1>4. CASE Cardinality({c \in S : c.horizon = Horizon(o.timeframe)})
             >= decisionCfg.maxPicks[Horizon(o.timeframe)]
  <2>1. Cardinality({c \in T : c.horizon = Horizon(o.timeframe)})
          >= decisionCfg.maxPicks[Horizon(o.timeframe)]
    BY <1>2, <1>3, <1>4
  <2> QED
    BY <2>1 DEF Excuse
<1>5. CASE /\ o.sector # NoLabel
           /\ Cardinality({c \in S : c.setup.sector = o.sector})
                >= decisionCfg.maxPerSector
  <2>1. Cardinality({c \in T : c.setup.sector = o.sector}) >= decisionCfg.maxPerSector
    BY <1>2, <1>3, <1>5
  <2> QED
    BY <1>5, <2>1 DEF Excuse
<1>6. CASE /\ o.cluster # NoLabel
           /\ Cardinality({c \in S : c.setup.cluster = o.cluster})
                >= decisionCfg.maxCorrelated
  <2>1. Cardinality({c \in T : c.setup.cluster = o.cluster}) >= decisionCfg.maxCorrelated
    BY <1>2, <1>3, <1>6
  <2> QED
    BY <1>6, <2>1 DEF Excuse
<1>7. CASE decisionCfg.uniqueSymbol /\ \E c \in S : c.setup.symbol = o.symbol
  BY <1>7 DEF Excuse
<1>8. CASE /\ decisionCfg.uniqueSetup
           /\ \E c \in S : /\ c.setup.symbol = o.symbol
                           /\ c.setup.timeframe = o.timeframe
                           /\ c.setup.strategy = o.strategy
  BY <1>8 DEF Excuse
<1> QED
  BY <1>4, <1>5, <1>6, <1>7, <1>8 DEF Excuse

\* The picks are finitely many, and the next in the queue is not one of them.
LEMMA TakenFacts ==
  ASSUME PickTypeOK, NEW cs, InOrder(cs)
  PROVE  /\ IsFiniteSet(Taken) /\ Taken \subseteq cs
         /\ picks.queue # <<>> => /\ Head(picks.queue) \in cs
                                  /\ Head(picks.queue) \notin Taken
                                  /\ \A c \in Taken : Before(c, Head(picks.queue))
<1>1. picks.selected \in Seq(cs) /\ picks.queue \in Seq(cs) /\ Rankable(cs)
  BY DEF InOrder
<1>2. Taken \in SUBSET cs
  BY <1>1 DEF Taken, Range
<1>3. IsFiniteSet(Taken)
  BY <1>1, <1>2, FS_Subset DEF Rankable
<1>4. ASSUME picks.queue # <<>>
      PROVE  /\ Head(picks.queue) \in cs
             /\ \A c \in Taken : Before(c, Head(picks.queue))
  <2>1. 1 \in DOMAIN picks.queue /\ Head(picks.queue) = picks.queue[1]
    BY <1>1, <1>4
  <2> QED
    BY <1>1, <2>1 DEF InOrder
<1>5. ASSUME picks.queue # <<>> PROVE Head(picks.queue) \notin Taken
  BY <1>1, <1>2, <1>4, <1>5, BeforeIsOrder DEF PickTypeOK
<1> QED
  BY <1>2, <1>3, <1>4, <1>5

\* A sequence without its head.
LEMMA WithoutHead ==
  ASSUME NEW S, NEW q \in Seq(S), q # <<>>
  PROVE  /\ Tail(q) \in Seq(S) /\ Head(q) = q[1] /\ 1 \in DOMAIN q
         /\ \A i \in DOMAIN Tail(q) : /\ i \in Int /\ i >= 1 /\ i + 1 \in DOMAIN q
                                      /\ Tail(q)[i] = q[i + 1]
OBVIOUS

\* A sequence with one more entry.
LEMMA WithLast ==
  ASSUME NEW S, NEW q \in Seq(S), NEW x \in S
  PROVE  /\ Append(q, x) \in Seq(S)
         /\ Range(Append(q, x)) = Range(q) \cup {x}
<1>1. Append(q, x) \in Seq(S)
  OBVIOUS
<1>2. /\ DOMAIN Append(q, x) = 1 .. Len(q) + 1 /\ DOMAIN q = 1 .. Len(q)
      /\ Len(q) \in Nat /\ Append(q, x)[Len(q) + 1] = x
      /\ \A i \in 1 .. Len(q) : Append(q, x)[i] = q[i]
  OBVIOUS
<1>3. ASSUME NEW y PROVE y \in Range(Append(q, x)) <=> y \in Range(q) \cup {x}
  <2>1. \A i \in 1 .. Len(q) + 1 : i \in 1 .. Len(q) \/ i = Len(q) + 1
    BY <1>2
  <2>2. \A i \in 1 .. Len(q) : i \in 1 .. Len(q) + 1
    BY <1>2
  <2>3. Len(q) + 1 \in 1 .. Len(q) + 1
    BY <1>2
  <2> QED
    BY <1>2, <2>1, <2>2, <2>3 DEF Range
<1> QED
  BY <1>1, <1>3

\* Without its head the queue is still in order, whether the head was taken or not.
LEMMA QueueStaysInOrder ==
  ASSUME PickTypeOK, NEW cs, InOrder(cs), picks.queue # <<>>,
         UNCHANGED <<decisionCfg, regime, strengths>>,
         picks'.queue = Tail(picks.queue),
         \/ picks'.selected = picks.selected
         \/ picks'.selected = Append(picks.selected, Head(picks.queue))
  PROVE  InOrder(cs)'
<1>1. /\ picks.selected \in Seq(cs) /\ picks.queue \in Seq(cs)
      /\ Rankable(cs)' /\ Head(picks.queue) \in cs
  BY SameArguments, TakenFacts DEF InOrder
<1>2. picks'.queue \in Seq(cs) /\ picks'.selected \in Seq(cs)
  BY <1>1, WithoutHead, WithLast
<1>3. /\ 1 \in DOMAIN picks.queue
      /\ \A i \in DOMAIN picks'.queue :
           /\ i \in Int /\ i >= 1 /\ i + 1 \in DOMAIN picks.queue
           /\ picks'.queue[i] = picks.queue[i + 1]
  BY <1>1, WithoutHead
<1>4. ASSUME NEW i \in DOMAIN picks'.queue, NEW j \in DOMAIN picks'.queue, i < j
      PROVE  Before(picks.queue[i], picks.queue[j])'
  <2>1. /\ i + 1 \in DOMAIN picks.queue /\ j + 1 \in DOMAIN picks.queue /\ i + 1 < j + 1
        /\ picks'.queue[i] = picks.queue[i + 1] /\ picks'.queue[j] = picks.queue[j + 1]
    BY <1>3, <1>4
  <2>2. Before(picks'.queue[i], picks'.queue[j])
    BY <2>1 DEF InOrder
  <2> QED
    BY <2>2, SameArguments
<1>5. ASSUME NEW c \in Taken', NEW j \in DOMAIN picks'.queue
      PROVE  Before(c, picks.queue[j])'
  <2>1. /\ j + 1 \in DOMAIN picks.queue /\ 1 \in DOMAIN picks.queue /\ 1 < j + 1
        /\ picks'.queue[j] = picks.queue[j + 1]
    BY <1>3
  <2>2. c \in Taken \/ c = picks.queue[1]
    <3>1. CASE picks'.selected = picks.selected
      BY <3>1 DEF Taken
    <3>2. CASE picks'.selected = Append(picks.selected, Head(picks.queue))
      <4>1. Range(picks'.selected) = Range(picks.selected) \cup {Head(picks.queue)}
        BY <1>1, <3>2, WithLast
      <4>2. Taken' = Taken \cup {Head(picks.queue)}
        BY <4>1 DEF Taken
      <4>3. Head(picks.queue) = picks.queue[1]
        BY <1>1, WithoutHead
      <4> QED
        BY <4>2, <4>3
    <3> QED
      BY <3>1, <3>2
  <2>3. Before(c, picks'.queue[j])
    BY <2>1, <2>2 DEF InOrder
  <2> QED
    BY <2>3, SameArguments
<1> QED
  BY <1>1, <1>2, <1>4, <1>5 DEF InOrder

\* What was excused stays excused, as picks are only added.
LEMMA ExcusesStay ==
  ASSUME PickTypeOK, UNCHANGED <<decisionCfg, regime, strengths>>,
         IsFiniteSet(Taken'), Taken \subseteq Taken',
         NEW o, o.timeframe \in Timeframes, Excuse(o, Ahead(o))
  PROVE  Excuse(o, Ahead(o))'
<1>1. Ahead(o)' = {c \in Taken' : Before(c, Candidate(o))}
  BY SameArguments DEF Ahead
<1>2. Ahead(o) \in SUBSET (Ahead(o)')
  BY <1>1 DEF Ahead
<1>3. IsFiniteSet(Ahead(o)')
  BY <1>1, FS_Subset
<1>4. Excuse(o, Ahead(o)')
  BY <1>2, <1>3, ExcuseStays DEF PickTypeOK
<1> QED
  BY <1>4 DEF Excuse

\* A counter that is raised for one key.
LEMMA CountedAddsOne ==
  ASSUME NEW f, NEW key
  PROVE  \A m : Count(Counted(f, key), m) = Count(f, m) + IF m = key THEN 1 ELSE 0
BY DEF Count, Counted

\* One more pick is one more in its class.
LEMMA OneMoreTaken ==
  ASSUME NEW T, IsFiniteSet(T), NEW c, c \notin T, NEW In, In \subseteq T \cup {c}
  PROVE  Cardinality(In) = Cardinality(In \ {c}) + IF c \in In THEN 1 ELSE 0
<1>1. IsFiniteSet(T \cup {c})
  BY FS_AddElement
<1>2. IsFiniteSet(In) /\ Cardinality(In) \in Nat
  BY <1>1, FS_Subset, FS_CardinalityType
<1>3. CASE c \in In
  <2>1. Cardinality(In \ {c}) = Cardinality(In) - 1
    BY <1>2, <1>3, FS_RemoveElement
  <2>2. \A x, y \in Int : y = x - 1 => x = y + 1 /\ y \in Int
    OBVIOUS
  <2>3. Cardinality(In) = Cardinality(In \ {c}) + 1
    BY <1>2, <2>1, <2>2
  <2> QED
    BY <1>3, <2>3
<1>4. CASE c \notin In
  <2>1. In \ {c} = In
    BY <1>4
  <2>2. Cardinality(In) = Cardinality(In) + 0
    BY <1>2
  <2> QED
    BY <1>4, <2>1, <2>2
<1> QED
  BY <1>3, <1>4

\* The counters after a candidate was taken.
LEMMA CountersStay ==
  ASSUME PickTypeOK, NEW cs, InOrder(cs), CountersOK, picks.queue # <<>>,
         Select(Head(picks.queue))
  PROVE  CountersOK' /\ Taken' = Taken \cup {Head(picks.queue)}
<1> DEFINE c == Head(picks.queue)
           o == c.setup
<1>1. IsFiniteSet(Taken) /\ c \in cs /\ c \notin Taken
  BY TakenFacts
<1>2. /\ picks'.selected = Append(picks.selected, c)
      /\ picks'.horizons = Counted(picks.horizons, c.horizon)
      /\ picks'.symbols = Counted(picks.symbols, o.symbol)
      /\ picks'.setups = picks.setups \cup {<<o.symbol, o.timeframe, o.strategy>>}
      /\ picks'.sectors = IF o.sector = NoLabel THEN picks.sectors
                          ELSE Counted(picks.sectors, o.sector)
      /\ picks'.clusters = IF o.cluster = NoLabel THEN picks.clusters
                           ELSE Counted(picks.clusters, o.cluster)
  BY DEF Select, PickTypeOK
<1> HIDE DEF c
<1>3. Taken' = Taken \cup {c}
  <2>1. picks.selected \in Seq(cs)
    BY DEF InOrder
  <2>2. Range(picks'.selected) = Range(picks.selected) \cup {c}
    BY <1>1, <1>2, <2>1, WithLast
  <2> QED
    BY <2>2 DEF Taken
<1>4. ASSUME NEW h
      PROVE  Count(picks'.horizons, h) = Cardinality({d \in Taken' : d.horizon = h})
  <2> DEFINE more == {d \in Taken' : d.horizon = h}
  <2>1. more \subseteq Taken \cup {c} /\ more \ {c} = {d \in Taken : d.horizon = h}
    BY <1>1, <1>3
  <2>2. Cardinality(more) = Cardinality(more \ {c}) + IF c \in more THEN 1 ELSE 0
    BY <1>1, <2>1, OneMoreTaken
  <2>3. c \in more <=> h = c.horizon
    BY <1>3
  <2>4. Count(picks'.horizons, h)
          = Count(picks.horizons, h) + IF h = c.horizon THEN 1 ELSE 0
    BY <1>2, CountedAddsOne
  <2>5. Count(picks.horizons, h) = Cardinality(more \ {c})
    BY <2>1 DEF CountersOK
  <2> QED
    BY <2>2, <2>3, <2>4, <2>5
<1>5. ASSUME NEW x
      PROVE  Count(picks'.symbols, x) = Cardinality({d \in Taken' : d.setup.symbol = x})
  <2> DEFINE more == {d \in Taken' : d.setup.symbol = x}
  <2>1. more \subseteq Taken \cup {c} /\ more \ {c} = {d \in Taken : d.setup.symbol = x}
    BY <1>1, <1>3
  <2>2. Cardinality(more) = Cardinality(more \ {c}) + IF c \in more THEN 1 ELSE 0
    BY <1>1, <2>1, OneMoreTaken
  <2>3. c \in more <=> x = o.symbol
    BY <1>3
  <2>4. Count(picks'.symbols, x)
          = Count(picks.symbols, x) + IF x = o.symbol THEN 1 ELSE 0
    BY <1>2, CountedAddsOne
  <2>5. Count(picks.symbols, x) = Cardinality(more \ {c})
    BY <2>1 DEF CountersOK
  <2> QED
    BY <2>2, <2>3, <2>4, <2>5
<1>6. ASSUME NEW x, x # NoLabel
      PROVE  Count(picks'.sectors, x) = Cardinality({d \in Taken' : d.setup.sector = x})
  <2> DEFINE more == {d \in Taken' : d.setup.sector = x}
  <2>1. more \subseteq Taken \cup {c} /\ more \ {c} = {d \in Taken : d.setup.sector = x}
    BY <1>1, <1>3
  <2>2. Cardinality(more) = Cardinality(more \ {c}) + IF c \in more THEN 1 ELSE 0
    BY <1>1, <2>1, OneMoreTaken
  <2>3. c \in more <=> x = o.sector
    BY <1>3
  <2>5. Count(picks.sectors, x) = Cardinality(more \ {c})
    BY <1>6, <2>1 DEF CountersOK
  <2>6. Cardinality(more \ {c}) \in Nat
    BY <1>1, <2>1, FS_Subset, FS_CardinalityType
  <2>4. Count(picks'.sectors, x)
          = Count(picks.sectors, x) + IF x = o.sector THEN 1 ELSE 0
    <3>1. CASE o.sector = NoLabel
      BY <1>2, <1>6, <2>5, <2>6, <3>1
    <3>2. CASE o.sector # NoLabel
      BY <1>2, <3>2, CountedAddsOne
    <3> QED
      BY <3>1, <3>2
  <2> QED
    BY <2>2, <2>3, <2>4, <2>5
<1>7. ASSUME NEW x, x # NoLabel
      PROVE  Count(picks'.clusters, x) = Cardinality({d \in Taken' : d.setup.cluster = x})
  <2> DEFINE more == {d \in Taken' : d.setup.cluster = x}
  <2>1. more \subseteq Taken \cup {c} /\ more \ {c} = {d \in Taken : d.setup.cluster = x}
    BY <1>1, <1>3
  <2>2. Cardinality(more) = Cardinality(more \ {c}) + IF c \in more THEN 1 ELSE 0
    BY <1>1, <2>1, OneMoreTaken
  <2>3. c \in more <=> x = o.cluster
    BY <1>3
  <2>5. Count(picks.clusters, x) = Cardinality(more \ {c})
    BY <1>7, <2>1 DEF CountersOK
  <2>6. Cardinality(more \ {c}) \in Nat
    BY <1>1, <2>1, FS_Subset, FS_CardinalityType
  <2>4. Count(picks'.clusters, x)
          = Count(picks.clusters, x) + IF x = o.cluster THEN 1 ELSE 0
    <3>1. CASE o.cluster = NoLabel
      BY <1>2, <1>7, <2>5, <2>6, <3>1
    <3>2. CASE o.cluster # NoLabel
      BY <1>2, <3>2, CountedAddsOne
    <3> QED
      BY <3>1, <3>2
  <2> QED
    BY <2>2, <2>3, <2>4, <2>5
<1>8. \A t \in picks'.setups : \E d \in Taken' :
        t = <<d.setup.symbol, d.setup.timeframe, d.setup.strategy>>
  BY <1>2, <1>3 DEF CountersOK
<1>9. CountersOK'
  BY <1>4, <1>5, <1>6, <1>7, <1>8 DEF CountersOK
<1> QED
  BY <1>3, <1>9 DEF c

\* What the selector turns down breaks a cap the picks so far have filled.
LEMMA RejectedIsExcused ==
  ASSUME PickTypeOK, NEW cs, InOrder(cs), CountersOK, picks.queue # <<>>,
         NEW h, h = Head(picks.queue), NEW o, o = h.setup,
         SelectorRejection(h) # "none"
  PROVE  SetupOK(o) /\ Excuse(o, Ahead(o))
<1>1. /\ IsFiniteSet(Taken) /\ h \in cs
      /\ \A d \in Taken : Before(d, h)
  BY TakenFacts
<1>2. SetupOK(o) /\ h = Candidate(o)
  BY <1>1 DEF InOrder, Rankable, CandidateOK
<1>3. Ahead(o) = Taken
  BY <1>1, <1>2 DEF Ahead
<1>4. h.horizon = Horizon(o.timeframe)
  BY <1>2 DEF Candidate
<1>5. SUFFICES Excuse(o, Taken)
  BY <1>2, <1>3
<1>6. CASE Count(picks.horizons, h.horizon) >= decisionCfg.maxPicks[h.horizon]
  <2>1. Count(picks.horizons, h.horizon)
          = Cardinality({d \in Taken : d.horizon = h.horizon})
    BY DEF CountersOK
  <2>2. Cardinality({d \in Taken : d.horizon = Horizon(o.timeframe)})
          >= decisionCfg.maxPicks[Horizon(o.timeframe)]
    BY <1>4, <1>6, <2>1
  <2> QED
    BY <2>2 DEF Excuse
<1>7. CASE /\ o.sector # NoLabel
           /\ Count(picks.sectors, o.sector) >= decisionCfg.maxPerSector
  <2>1. Count(picks.sectors, o.sector)
          = Cardinality({d \in Taken : d.setup.sector = o.sector})
    BY <1>7 DEF CountersOK
  <2>2. Cardinality({d \in Taken : d.setup.sector = o.sector})
          >= decisionCfg.maxPerSector
    BY <1>7, <2>1
  <2> QED
    BY <1>7, <2>2 DEF Excuse
<1>8. CASE decisionCfg.uniqueSymbol /\ Count(picks.symbols, o.symbol) > 0
  <2> DEFINE same == {d \in Taken : d.setup.symbol = o.symbol}
  <2>1. Cardinality(same) > 0
    BY <1>8 DEF CountersOK
  <2>2. same # {}
    <3>1. Cardinality({}) = 0
      BY FS_EmptySet
    <3> HIDE DEF same
    <3> QED
      BY <2>1, <3>1
  <2>3. \E d \in Taken : d.setup.symbol = o.symbol
    BY <2>2
  <2> QED
    BY <1>8, <2>3 DEF Excuse
<1>9. CASE /\ decisionCfg.uniqueSetup
           /\ <<o.symbol, o.timeframe, o.strategy>> \in picks.setups
  <2>1. PICK d \in Taken : <<o.symbol, o.timeframe, o.strategy>>
                             = <<d.setup.symbol, d.setup.timeframe, d.setup.strategy>>
    BY <1>9 DEF CountersOK
  <2>2. /\ d.setup.symbol = o.symbol /\ d.setup.timeframe = o.timeframe
        /\ d.setup.strategy = o.strategy
    BY <2>1
  <2>3. \E e \in Taken : /\ e.setup.symbol = o.symbol
                         /\ e.setup.timeframe = o.timeframe
                         /\ e.setup.strategy = o.strategy
    BY <2>2
  <2> QED
    BY <1>9, <2>3 DEF Excuse
<1>10. CASE /\ o.cluster # NoLabel
            /\ Count(picks.clusters, o.cluster) >= decisionCfg.maxCorrelated
  <2>1. Count(picks.clusters, o.cluster)
          = Cardinality({d \in Taken : d.setup.cluster = o.cluster})
    BY <1>10 DEF CountersOK
  <2>2. Cardinality({d \in Taken : d.setup.cluster = o.cluster})
          >= decisionCfg.maxCorrelated
    BY <1>10, <2>1
  <2> QED
    BY <1>10, <2>2 DEF Excuse
<1>11. \/ Count(picks.horizons, h.horizon) >= decisionCfg.maxPicks[h.horizon]
       \/ /\ o.sector # NoLabel
          /\ Count(picks.sectors, o.sector) >= decisionCfg.maxPerSector
       \/ decisionCfg.uniqueSymbol /\ Count(picks.symbols, o.symbol) > 0
       \/ /\ decisionCfg.uniqueSetup
          /\ <<o.symbol, o.timeframe, o.strategy>> \in picks.setups
       \/ /\ o.cluster # NoLabel
          /\ Count(picks.clusters, o.cluster) >= decisionCfg.maxCorrelated
  BY DEF SelectorRejection
<1> QED
  BY <1>6, <1>7, <1>8, <1>9, <1>10, <1>11

\* The invariant at the start of a run.
LEMMA PickInvInit == PickInit => PickInv
<1> SUFFICES ASSUME PickInit PROVE PickInv
  OBVIOUS
<1>1. PickTypeOK
  BY DEF PickInit, PickTypeOK, NoPicks
<1>2. picks.queue = <<>> /\ picks.selected = <<>> /\ picks.rejected = {}
  BY DEF PickInit, NoPicks
<1>3. Taken = {}
  BY <1>2 DEF Taken, Range
<1>4. InOrder({})
  BY <1>2, <1>3, FS_EmptySet DEF InOrder, Rankable
<1>5. CountersOK
  <2>1. Cardinality({}) = 0
    BY FS_EmptySet
  <2>2. \A m : Count(<<>>, m) = 0
    BY DEF Count
  <2>3. /\ picks.horizons = <<>> /\ picks.sectors = <<>> /\ picks.clusters = <<>>
        /\ picks.symbols = <<>> /\ picks.setups = {}
    BY DEF PickInit, NoPicks
  <2>4. /\ \A h : {c \in {} : c.horizon = h} = {}
        /\ \A x : {c \in {} : c.setup.sector = x} = {}
        /\ \A x : {c \in {} : c.setup.cluster = x} = {}
        /\ \A x : {c \in {} : c.setup.symbol = x} = {}
    OBVIOUS
  <2> QED
    BY <1>3, <2>1, <2>2, <2>3, <2>4 DEF CountersOK
<1>6. RejectionsOK
  BY <1>2 DEF RejectionsOK
<1> QED
  BY <1>1, <1>4, <1>5, <1>6 DEF PickInv

\* The start of a selection: the queue is ranked, what the filters turned down is
\* no candidate.
LEMMA StartPickingKeeps ==
  ASSUME PickInv, NEW found, IsScan(found), StartPicking(found)
  PROVE  PickInv'
<1> DEFINE good == {q \in found : Rejection(q) = "none"}
           cs == {Candidate(o) : o \in good}
           bad == {q \in found : Rejection(q) # "none"}
<1>1. picks = NoPicks /\ PickTypeOK /\ CountersOK
  BY DEF PickInv, StartPicking, PickTypeOK
<1>2. /\ UNCHANGED <<decisionCfg, regime, strengths>>
      /\ picks'.phase = "selecting"
      /\ picks'.queue = Ranked(cs)
      /\ picks'.rejected = {[setup |-> o, reason |-> Rejection(o)] : o \in bad}
      /\ picks'.selected = picks.selected /\ picks'.horizons = picks.horizons
      /\ picks'.sectors = picks.sectors /\ picks'.symbols = picks.symbols
      /\ picks'.clusters = picks.clusters /\ picks'.setups = picks.setups
      /\ DOMAIN picks' = DOMAIN picks
  BY <1>1 DEF StartPicking, PickTypeOK
<1>3. Rankable(cs)
  <2>1. IsFiniteSet(good)
    BY FS_Subset DEF IsScan
  <2>2. IsFiniteSet(cs)
    <3> DEFINE f == [o \in good |-> Candidate(o)]
    <3>1. f \in Surjection(good, cs)
      BY DEF Surjection
    <3> QED
      BY <2>1, <3>1, FS_Surjection
  <2>3. \A o \in good : SetupOK(o) /\ Candidate(o).setup = o
    BY DEF IsScan, Candidate
  <2>4. \A c \in cs : CandidateOK(c)
    BY <2>3 DEF CandidateOK
  <2>5. \A c, d \in cs : SameJob(c.setup, d.setup) => c = d
    BY <2>3 DEF IsScan
  <2> QED
    BY <2>2, <2>4, <2>5 DEF Rankable
<1>4. /\ Ranked(cs) \in Seq(cs)
      /\ \A i, j \in DOMAIN Ranked(cs) : i < j => Before(Ranked(cs)[i], Ranked(cs)[j])
  BY <1>1, <1>3, RankedIsSorted DEF PickTypeOK
<1>10. PICK ks : ks = cs
  OBVIOUS
<1> HIDE DEF cs
<1>5. PickTypeOK'
  BY <1>1, <1>2 DEF PickTypeOK
<1>6. Taken = {} /\ Taken' = {} /\ picks.selected = <<>>
  BY <1>1, <1>2 DEF Taken, Range, NoPicks
<1>7. InOrder(ks)'
  <2>1. Rankable(ks)'
    BY <1>2, <1>3, <1>10, SameArguments
  <2>2. picks'.queue \in Seq(ks) /\ picks'.selected \in Seq(ks)
    BY <1>2, <1>4, <1>6, <1>10
  <2>3. ASSUME NEW i \in DOMAIN picks'.queue, NEW j \in DOMAIN picks'.queue, i < j
        PROVE  Before(picks.queue[i], picks.queue[j])'
    <3>1. Before(picks'.queue[i], picks'.queue[j])
      BY <1>2, <1>4, <2>3
    <3> QED
      BY <1>2, <3>1, SameArguments
  <2> QED
    BY <1>6, <2>1, <2>2, <2>3 DEF InOrder
<1>8. CountersOK'
  BY <1>1, <1>2, <1>6 DEF CountersOK
<1>9. RejectionsOK'
  <2>1. \A o : Rejection(o)' = Rejection(o)
    BY <1>2, SameArguments
  <2>2. ASSUME NEW r \in picks'.rejected
        PROVE  SetupOK(r.setup) /\ Rejection(r.setup) # "none"
    <3>1. PICK o \in bad : r = [setup |-> o, reason |-> Rejection(o)]
      BY <1>2, <2>2
    <3> QED
      BY <3>1 DEF IsScan
  <2> QED
    BY <2>1, <2>2 DEF RejectionsOK
<1> QED
  BY <1>5, <1>7, <1>8, <1>9 DEF PickInv

\* Taking the head of the queue.
LEMMA SelectKeeps ==
  ASSUME PickInv, picks.phase = "selecting", picks.queue # <<>>,
         UNCHANGED <<decisionCfg, regime, strengths>>, Select(Head(picks.queue))
  PROVE  PickInv'
<1>1. PICK cs : InOrder(cs)
  BY DEF PickInv
<1>2. PickTypeOK /\ CountersOK /\ RejectionsOK
  BY DEF PickInv
<1>3. CountersOK' /\ Taken' = Taken \cup {Head(picks.queue)}
  BY <1>1, <1>2, CountersStay
<1>4. /\ picks'.queue = Tail(picks.queue) /\ picks'.phase = picks.phase
      /\ picks'.selected = Append(picks.selected, Head(picks.queue))
      /\ picks'.rejected = picks.rejected /\ DOMAIN picks' = DOMAIN picks
  BY <1>2 DEF Select, PickTypeOK
<1>5. InOrder(cs)'
  BY <1>1, <1>2, <1>4, QueueStaysInOrder
<1>6. PickTypeOK'
  BY <1>2, <1>4 DEF PickTypeOK
<1>7. RejectionsOK'
  <2>1. IsFiniteSet(Taken') /\ Taken \subseteq Taken'
    BY <1>1, <1>2, <1>3, TakenFacts, FS_AddElement
  <2>2. ASSUME NEW r \in picks'.rejected, Rejection(r.setup)' = "none"
        PROVE  Excuse(r.setup, Ahead(r.setup))'
    <3>1. Rejection(r.setup) = "none"
      BY <2>2, SameArguments
    <3>2. Excuse(r.setup, Ahead(r.setup)) /\ r.setup.timeframe \in Timeframes
      BY <1>2, <1>4, <3>1 DEF RejectionsOK, SetupOK
    <3> QED
      BY <1>2, <2>1, <3>2, ExcusesStay
  <2>3. \A r \in picks'.rejected : SetupOK(r.setup)
    BY <1>2, <1>4 DEF RejectionsOK
  <2> QED
    BY <2>2, <2>3 DEF RejectionsOK
<1> QED
  BY <1>3, <1>5, <1>6, <1>7 DEF PickInv

\* Turning the head of the queue down.
LEMMA RejectKeeps ==
  ASSUME PickInv, picks.phase = "selecting", picks.queue # <<>>,
         UNCHANGED <<decisionCfg, regime, strengths>>, Reject(Head(picks.queue))
  PROVE  PickInv'
<1> DEFINE h == Head(picks.queue)
<1>1. PICK cs : InOrder(cs)
  BY DEF PickInv
<1>2. PickTypeOK /\ CountersOK /\ RejectionsOK
  BY DEF PickInv
<1>3. /\ picks'.queue = Tail(picks.queue) /\ picks'.phase = picks.phase
      /\ picks'.rejected = picks.rejected
           \cup {[setup |-> h.setup, reason |-> SelectorRejection(h)]}
      /\ picks'.selected = picks.selected /\ picks'.horizons = picks.horizons
      /\ picks'.sectors = picks.sectors /\ picks'.symbols = picks.symbols
      /\ picks'.clusters = picks.clusters /\ picks'.setups = picks.setups
      /\ DOMAIN picks' = DOMAIN picks
  BY <1>2 DEF Reject, PickTypeOK
<1>4. InOrder(cs)'
  BY <1>1, <1>2, <1>3, QueueStaysInOrder
<1>5. PickTypeOK'
  BY <1>2, <1>3 DEF PickTypeOK
<1>6. Taken' = Taken
  BY <1>3 DEF Taken
<1>7. CountersOK'
  BY <1>2, <1>3, <1>6 DEF CountersOK
<1>8. SetupOK(h.setup) /\ Excuse(h.setup, Ahead(h.setup))
  BY <1>1, <1>2, RejectedIsExcused DEF Reject
<1>9. RejectionsOK'
  <2>1. IsFiniteSet(Taken') /\ Taken \subseteq Taken'
    BY <1>1, <1>2, <1>6, TakenFacts
  <2>2. ASSUME NEW r \in picks'.rejected
        PROVE  /\ SetupOK(r.setup)
               /\ Rejection(r.setup) = "none" => Excuse(r.setup, Ahead(r.setup))
    <3>1. CASE r \in picks.rejected
      BY <1>2, <3>1 DEF RejectionsOK
    <3>2. CASE r.setup = h.setup
      BY <1>8, <3>2
    <3>3. r \in picks.rejected \/ r.setup = h.setup
      BY <1>3, <2>2
    <3> QED
      BY <3>1, <3>2, <3>3
  <2>3. ASSUME NEW r \in picks'.rejected, Rejection(r.setup)' = "none"
        PROVE  Excuse(r.setup, Ahead(r.setup))'
    <3>1. Rejection(r.setup) = "none"
      BY <2>3, SameArguments
    <3>2. Excuse(r.setup, Ahead(r.setup)) /\ r.setup.timeframe \in Timeframes
      BY <2>2, <3>1 DEF SetupOK
    <3> QED
      BY <1>2, <2>1, <3>2, ExcusesStay
  <2> QED
    BY <2>2, <2>3 DEF RejectionsOK
<1> QED
  BY <1>4, <1>5, <1>7, <1>9 DEF PickInv

\* The end of the selection, and a step of someone else, change no part of it.
LEMMA NothingElseMoves ==
  ASSUME PickInv, UNCHANGED <<decisionCfg, regime, strengths>>,
         picks' = picks \/ picks'.phase = "picked",
         picks'.queue = picks.queue, picks'.selected = picks.selected,
         picks'.rejected = picks.rejected, picks'.horizons = picks.horizons,
         picks'.sectors = picks.sectors, picks'.symbols = picks.symbols,
         picks'.clusters = picks.clusters, picks'.setups = picks.setups,
         DOMAIN picks' = DOMAIN picks
  PROVE  PickInv'
<1>1. PICK cs : InOrder(cs)
  BY DEF PickInv
<1>2. PickTypeOK /\ CountersOK /\ RejectionsOK
  BY DEF PickInv
<1>3. PickTypeOK'
  BY <1>2 DEF PickTypeOK
<1>4. Taken' = Taken
  BY DEF Taken
<1>5. InOrder(cs)'
  <2>1. Rankable(cs)' /\ picks'.queue \in Seq(cs) /\ picks'.selected \in Seq(cs)
    BY <1>1, SameArguments DEF InOrder
  <2>2. ASSUME NEW i \in DOMAIN picks'.queue, NEW j \in DOMAIN picks'.queue, i < j
        PROVE  Before(picks.queue[i], picks.queue[j])'
    BY <1>1, <2>2, SameArguments DEF InOrder
  <2>3. ASSUME NEW c \in Taken', NEW j \in DOMAIN picks'.queue
        PROVE  Before(c, picks.queue[j])'
    BY <1>1, <1>4, SameArguments DEF InOrder
  <2> QED
    BY <2>1, <2>2, <2>3 DEF InOrder
<1>6. CountersOK'
  BY <1>2, <1>4 DEF CountersOK
<1>7. RejectionsOK'
  <2>1. IsFiniteSet(Taken') /\ Taken \subseteq Taken'
    BY <1>1, <1>2, <1>4, TakenFacts
  <2>2. ASSUME NEW r \in picks'.rejected, Rejection(r.setup)' = "none"
        PROVE  Excuse(r.setup, Ahead(r.setup))'
    <3>1. Rejection(r.setup) = "none"
      BY <2>2, SameArguments
    <3>2. Excuse(r.setup, Ahead(r.setup)) /\ r.setup.timeframe \in Timeframes
      BY <1>2, <3>1 DEF RejectionsOK, SetupOK
    <3> QED
      BY <1>2, <2>1, <3>2, ExcusesStay
  <2>3. \A r \in picks'.rejected : SetupOK(r.setup)
    BY <1>2 DEF RejectionsOK
  <2> QED
    BY <2>2, <2>3 DEF RejectionsOK
<1> QED
  BY <1>3, <1>5, <1>6, <1>7 DEF PickInv

\* Every step of a run keeps the invariant.
LEMMA PickInvStays == PickInv /\ [PickStep]_pickVars => PickInv'
<1> SUFFICES ASSUME PickInv, [PickStep]_pickVars PROVE PickInv'
  OBVIOUS
<1>1. CASE \E found : IsScan(found) /\ StartPicking(found)
  BY <1>1, StartPickingKeeps
<1>2. CASE /\ picks.phase = "selecting" /\ picks.queue # <<>>
           /\ UNCHANGED <<decisionCfg, regime, strengths>>
           /\ Select(Head(picks.queue))
  BY <1>2, SelectKeeps
<1>3. CASE /\ picks.phase = "selecting" /\ picks.queue # <<>>
           /\ UNCHANGED <<decisionCfg, regime, strengths>>
           /\ Reject(Head(picks.queue))
  BY <1>3, RejectKeeps
<1>4. CASE /\ picks.phase = "selecting"
           /\ UNCHANGED <<decisionCfg, regime, strengths>>
           /\ picks' = [picks EXCEPT !.phase = "picked"]
  <2>1. PICK cs : InOrder(cs)
    BY DEF PickInv
  <2>2. PickTypeOK /\ CountersOK /\ RejectionsOK
    BY DEF PickInv
  <2>3. /\ picks'.queue = picks.queue /\ picks'.phase = "picked"
        /\ picks'.rejected = picks.rejected
        /\ picks'.selected = picks.selected /\ picks'.horizons = picks.horizons
        /\ picks'.sectors = picks.sectors /\ picks'.symbols = picks.symbols
        /\ picks'.clusters = picks.clusters /\ picks'.setups = picks.setups
        /\ DOMAIN picks' = DOMAIN picks
    BY <1>4, <2>2 DEF PickTypeOK
  <2> QED
    BY <1>4, <2>1, <2>2, <2>3, NothingElseMoves
<1>5. CASE UNCHANGED pickVars
  <2>1. picks' = picks /\ UNCHANGED <<decisionCfg, regime, strengths>>
    BY <1>5 DEF pickVars
  <2> QED
    BY <2>1, NothingElseMoves
<1> QED
  BY <1>1, <1>2, <1>3, <1>4, <1>5 DEF PickStep, PickNext

\* Whatever the scan, the thresholds, the regime and the strengths: a candidate
\* that PortfolioCandidateSelector.select leaves out breaks a cap of its horizon,
\* sector or cluster, or repeats a symbol or setup, counting only the picks that
\* are ranked before it.
THEOREM PickSafety == PickSpec => []NothingIsLeftOutForNothing
<1>1. PickInit => PickInv
  BY PickInvInit
<1>2. PickInv /\ [PickStep]_pickVars => PickInv'
  BY PickInvStays
<1>3. PickInv => NothingIsLeftOutForNothing
  <2> SUFFICES ASSUME PickInv, NEW r \in picks.rejected, Rejection(r.setup) = "none"
               PROVE  Excuse(r.setup, Ahead(r.setup))
    BY DEF NothingIsLeftOutForNothing, Excuse, Ahead, Taken, Range
  <2> QED
    BY DEF PickInv, RejectionsOK
<1> QED
  BY <1>1, <1>2, <1>3, PTL DEF PickSpec

-----------------------------------------------------------------------------
(* The hand-off of a decision run                                          *)

\* The selector's counter knows every symbol that was taken, and none was twice.
PicksOK ==
  /\ decisionCfg \in DecisionConfigs
  /\ DOMAIN picks = {"phase", "queue", "selected", "rejected", "horizons",
                     "sectors", "symbols", "clusters", "setups"}
  /\ \E S : picks.selected \in Seq(S)
  /\ \A x : Count(picks.symbols, x) \in Nat
  /\ \A i \in DOMAIN picks.selected :
       Count(picks.symbols, picks.selected[i].setup.symbol) > 0
  /\ \A i, j \in DOMAIN picks.selected :
       picks.selected[i].setup.symbol = picks.selected[j].setup.symbol => i = j

\* The planner has looked at n picks: the others wait in their order, and the
\* positions are of some of the n.
LookedAt(n) ==
  /\ n \in Nat /\ n + Len(plan.queue) = Len(picks.selected)
  /\ \A i \in DOMAIN plan.queue : plan.queue[i] = PlannedPick(picks.selected[n + i])
  /\ \A j \in DOMAIN plan.items : \E i \in 1 .. n :
       plan.items[j].pick = PlannedPick(picks.selected[i])

PlannedOK ==
  /\ DOMAIN plan = {"phase", "toWeigh", "queue", "picked", "weights", "total", "items",
                    "rejected", "deployed", "exposure", "bucketCounts"}
  /\ plan.phase = "idle" => plan.items = <<>>
  /\ plan.phase # "idle" => picks.phase = "picked"
  /\ \E S : plan.items \in Seq(S)
  /\ \A j \in DOMAIN plan.items : \E i \in DOMAIN picks.selected :
       plan.items[j].pick = PlannedPick(picks.selected[i])
  /\ \A i, j \in DOMAIN plan.items :
       plan.items[i].pick.symbol = plan.items[j].pick.symbol => i = j
  /\ plan.phase \in {"weighing", "planning"} =>
       (\E S : plan.queue \in Seq(S)) /\ \E n : LookedAt(n)

HandoffOK ==
  handoff # <<>> => /\ plan.phase = "planned"
                    /\ handoff = [i \in DOMAIN PlannedPicks |-> Row(PlannedPicks[i])]

DecisionInv == PicksOK /\ PlannedOK /\ HandoffOK

\* A decision run starts with nothing picked, planned or written.
LEMMA DecisionInvInit == DecisionInit => DecisionInv
<1> SUFFICES ASSUME DecisionInit PROVE DecisionInv
  OBVIOUS
<1>1. picks = NoPicks /\ plan = NoPlan /\ handoff = <<>> /\ decisionCfg \in DecisionConfigs
  BY DEF DecisionInit, PickInit, PlanInit
<1>2. PicksOK
  <2>1. \A x : Count(<<>>, x) = 0
    BY DEF Count
  <2>2. picks.selected = <<>> /\ picks.symbols = <<>>
    BY <1>1 DEF NoPicks
  <2>3. <<>> \in Seq({}) /\ DOMAIN <<>> = {}
    OBVIOUS
  <2>4. DOMAIN picks = {"phase", "queue", "selected", "rejected", "horizons",
                        "sectors", "symbols", "clusters", "setups"}
    BY <1>1 DEF NoPicks
  <2> QED
    BY <1>1, <2>1, <2>2, <2>3, <2>4 DEF PicksOK
<1>3. PlannedOK
  <2>1. plan.phase = "idle" /\ plan.items = <<>>
    BY <1>1 DEF NoPlan
  <2>2. <<>> \in Seq({}) /\ DOMAIN <<>> = {}
    OBVIOUS
  <2>3. DOMAIN plan = {"phase", "toWeigh", "queue", "picked", "weights", "total", "items",
                       "rejected", "deployed", "exposure", "bucketCounts"}
    BY <1>1 DEF NoPlan
  <2> QED
    BY <2>1, <2>2, <2>3 DEF PlannedOK
<1> QED
  BY <1>1, <1>2, <1>3 DEF DecisionInv, HandoffOK

\* The selector takes no symbol its counter knows.
LEMMA SelectTakesNewSymbol ==
  ASSUME \A d \in DecisionConfigs : d.uniqueSymbol,
         PicksOK, UNCHANGED decisionCfg, NEW c, Select(c)
  PROVE  PicksOK'
<1> DEFINE x == c.setup.symbol
<1>1. decisionCfg.uniqueSymbol
  BY DEF PicksOK
<1>2. ~(Count(picks.symbols, x) > 0)
  BY <1>1 DEF Select, SelectorRejection
<1>3. /\ picks'.selected = Append(picks.selected, c)
      /\ picks'.symbols = Counted(picks.symbols, x)
      /\ DOMAIN picks' = DOMAIN picks
  BY DEF Select, PicksOK
<1>4. PICK S : picks.selected \in Seq(S)
  BY DEF PicksOK
<1> DEFINE s == picks.selected
           t == picks'.selected
<1>5. /\ t \in Seq(S \cup {c}) /\ DOMAIN t = DOMAIN s \cup {Len(s) + 1}
      /\ Len(s) + 1 \notin DOMAIN s
      /\ t[Len(s) + 1] = c /\ \A i \in DOMAIN s : t[i] = s[i]
  BY <1>3, <1>4
<1>6. \A y : /\ Count(picks'.symbols, y) \in Nat
             /\ Count(picks'.symbols, y) >= Count(picks.symbols, y)
             /\ y = x => Count(picks'.symbols, y) > 0
  <2>1. \A y : Count(picks.symbols, y) \in Nat
    BY DEF PicksOK
  <2>2. \A y : Count(picks'.symbols, y) = Count(picks.symbols, y) + IF y = x THEN 1 ELSE 0
    BY <1>3, CountedAddsOne
  <2> QED
    BY <2>1, <2>2
<1>7. \A i \in DOMAIN s : Count(picks.symbols, s[i].setup.symbol) > 0
  BY DEF PicksOK
<1>8. \A i \in DOMAIN s : s[i].setup.symbol # x
  BY <1>2, <1>7
<1>9. \A i, j \in DOMAIN s : s[i].setup.symbol = s[j].setup.symbol => i = j
  BY DEF PicksOK
<1>10. ASSUME NEW i \in DOMAIN t PROVE Count(picks'.symbols, t[i].setup.symbol) > 0
  <2>1. CASE i = Len(s) + 1
    BY <1>5, <1>6, <2>1
  <2>2. CASE i \in DOMAIN s
    <3>1. \A u, v \in Nat : u > 0 /\ v >= u => v > 0
      OBVIOUS
    <3>2. Count(picks.symbols, s[i].setup.symbol) \in Nat
      BY DEF PicksOK
    <3> QED
      BY <1>5, <1>6, <1>7, <2>2, <3>1, <3>2
  <2> QED
    BY <1>5, <2>1, <2>2
<1>11. \A i, j \in DOMAIN t : t[i].setup.symbol = t[j].setup.symbol => i = j
  <2> HIDE DEF s, t, x
  <2>1. t[Len(s) + 1].setup.symbol = x
    BY <1>5 DEF x
  <2> QED
    BY <1>5, <1>8, <1>9, <2>1
<1>12. decisionCfg' \in DecisionConfigs
  BY DEF PicksOK
<1> QED
  BY <1>3, <1>5, <1>6, <1>10, <1>11, <1>12 DEF PicksOK

\* No other step of a run touches the picks or their counter.
LEMMA PicksStay ==
  ASSUME \A d \in DecisionConfigs : d.uniqueSymbol, DecisionInv, [DecisionNext]_decisionVars
  PROVE  PicksOK'
<1>1. PicksOK
  BY DEF DecisionInv
<1>2. ASSUME UNCHANGED decisionCfg, picks'.selected = picks.selected,
             picks'.symbols = picks.symbols, DOMAIN picks' = DOMAIN picks
      PROVE  PicksOK'
  BY <1>1, <1>2 DEF PicksOK
<1>3. CASE UNCHANGED pickVars
  BY <1>2, <1>3 DEF pickVars
<1>4. ASSUME NEW found, StartPicking(found) PROVE PicksOK'
  BY <1>1, <1>2, <1>4 DEF StartPicking, PicksOK
<1>5. CASE PickNext
  <2>1. CASE Select(Head(picks.queue))
    BY <1>1, <1>5, <2>1, SelectTakesNewSymbol DEF PickNext
  <2>2. CASE Reject(Head(picks.queue))
    BY <1>1, <1>2, <1>5, <2>2 DEF PickNext, Reject, PicksOK
  <2>3. CASE picks' = [picks EXCEPT !.phase = "picked"]
    BY <1>1, <1>2, <1>5, <2>3 DEF PickNext, PicksOK
  <2> QED
    BY <1>5, <2>1, <2>2, <2>3 DEF PickNext
<1> QED
  BY <1>3, <1>4, <1>5 DEF DecisionNext, WriteHandoff, decisionVars

\* While the scan and the selection go on there is no plan yet.
LEMMA NoPlanYet ==
  ASSUME DecisionInv, picks.phase # "picked", UNCHANGED <<planVars, handoff>>,
         PicksOK'
  PROVE  DecisionInv'
<1>1. plan.phase = "idle" /\ plan.items = <<>> /\ plan' = plan
  BY DEF DecisionInv, PlannedOK, planVars
<1>2. handoff' = <<>>
  BY <1>1 DEF DecisionInv, HandoffOK
<1>3. <<>> \in Seq({}) /\ DOMAIN <<>> = {}
  OBVIOUS
<1>4. PlannedOK'
  BY <1>1, <1>3 DEF DecisionInv, PlannedOK
<1> QED
  BY <1>2, <1>4 DEF DecisionInv, HandoffOK

\* The picks as the planner gets them.
LEMMA PlannedPicksAreThePicks ==
  ASSUME PicksOK
  PROVE  /\ \E S : PlannedPicks \in Seq(S)
         /\ Len(PlannedPicks) = Len(picks.selected) /\ Len(picks.selected) \in Nat
         /\ DOMAIN PlannedPicks = DOMAIN picks.selected
         /\ DOMAIN picks.selected = 1 .. Len(picks.selected)
         /\ \A i \in DOMAIN picks.selected :
              PlannedPicks[i] = PlannedPick(picks.selected[i])
<1>1. PICK S : picks.selected \in Seq(S)
  BY DEF PicksOK
<1>2. Len(picks.selected) \in Nat /\ DOMAIN picks.selected = 1 .. Len(picks.selected)
  BY <1>1
<1> DEFINE T == {PlannedPick(picks.selected[i]) : i \in DOMAIN picks.selected}
<1>3. PlannedPicks = [i \in 1 .. Len(picks.selected) |-> PlannedPick(picks.selected[i])]
  BY <1>2 DEF PlannedPicks
<1>4. \A i \in 1 .. Len(picks.selected) : PlannedPick(picks.selected[i]) \in T
  BY <1>2
<1>5. PlannedPicks \in Seq(T) /\ Len(PlannedPicks) = Len(picks.selected)
  <2> HIDE DEF T
  <2> QED
    BY <1>2, <1>3, <1>4
<1> QED
  BY <1>2, <1>3, <1>5

\* The start of the planner.
LEMMA StartPlanKeeps ==
  ASSUME DecisionInv, picks.phase = "picked", StartPlan(PlannedPicks),
         UNCHANGED <<pickVars, handoff>>, PicksOK'
  PROVE  DecisionInv'
<1>1. /\ plan.phase = "idle" /\ plan.items = <<>> /\ plan'.items = <<>>
      /\ DOMAIN plan' = DOMAIN plan /\ plan'.phase \in {"planned", "weighing"}
      /\ plan'.phase = "weighing" => plan'.queue = PlannedPicks
  BY DEF DecisionInv, PlannedOK, StartPlan
<1>2. picks' = picks /\ handoff' = handoff /\ handoff = <<>>
  <2>1. plan.phase # "planned"
    BY <1>1
  <2>2. handoff = <<>>
    BY <2>1 DEF DecisionInv, HandoffOK
  <2> QED
    BY <2>2 DEF pickVars
<1>3. <<>> \in Seq({}) /\ DOMAIN <<>> = {}
  OBVIOUS
<1>4. ASSUME plan'.phase = "weighing" PROVE (\E S : plan'.queue \in Seq(S)) /\ LookedAt(0)'
  <2>1. /\ \E S : PlannedPicks \in Seq(S)
        /\ Len(PlannedPicks) = Len(picks.selected) /\ Len(picks.selected) \in Nat
        /\ DOMAIN PlannedPicks = DOMAIN picks.selected
        /\ DOMAIN picks.selected = 1 .. Len(picks.selected)
        /\ \A i \in DOMAIN picks.selected :
             PlannedPicks[i] = PlannedPick(picks.selected[i])
    BY PlannedPicksAreThePicks DEF DecisionInv
  <2>2. \A i \in DOMAIN picks.selected : 0 + i = i
    BY <2>1
  <2>3. 0 + Len(PlannedPicks) = Len(picks.selected) /\ 0 \in Nat
    BY <2>1
  <2>4. \A i \in DOMAIN PlannedPicks :
          PlannedPicks[i] = PlannedPick(picks.selected[0 + i])
    BY <2>1, <2>2
  <2>5. plan'.queue = PlannedPicks
    BY <1>1, <1>4
  <2>6. LookedAt(0)'
    BY <1>1, <1>2, <1>3, <2>3, <2>4, <2>5 DEF LookedAt
  <2> QED
    BY <2>1, <2>5, <2>6
<1>5. PlannedOK'
  <2>1. plan'.phase \in {"weighing", "planning"} =>
          (\E S : plan'.queue \in Seq(S)) /\ \E n : LookedAt(n)'
    BY <1>1, <1>4
  <2>2. plan'.phase # "idle" /\ picks'.phase = "picked"
    BY <1>1, <1>2
  <2>3. DOMAIN plan' = {"phase", "toWeigh", "queue", "picked", "weights", "total",
                        "items", "rejected", "deployed", "exposure", "bucketCounts"}
    BY <1>1 DEF DecisionInv, PlannedOK
  <2> QED
    BY <1>1, <1>3, <2>1, <2>2, <2>3 DEF PlannedOK
<1> QED
  BY <1>2, <1>5 DEF DecisionInv, HandoffOK

\* A look at the head of the queue is a look at one pick more.
LEMMA LookedAtOneMore ==
  ASSUME PicksOK, PlannedOK, plan.phase \in {"weighing", "planning"}, plan.queue # <<>>
  PROVE  \E n \in Nat :
           /\ LookedAt(n) /\ n + 1 \in DOMAIN picks.selected
           /\ Head(plan.queue) = PlannedPick(picks.selected[n + 1])
           /\ \E S : Tail(plan.queue) \in Seq(S)
           /\ n + 1 + Len(Tail(plan.queue)) = Len(picks.selected)
           /\ \A i \in DOMAIN Tail(plan.queue) :
                Tail(plan.queue)[i] = PlannedPick(picks.selected[n + 1 + i])
<1>1. PICK n : LookedAt(n)
  BY DEF PlannedOK
<1>2. PICK S : plan.queue \in Seq(S)
  BY DEF PlannedOK
<1>3. PICK U : picks.selected \in Seq(U)
  BY DEF PicksOK
<1> DEFINE q == plan.queue
<1>4. /\ n \in Nat /\ n + Len(q) = Len(picks.selected)
      /\ \A i \in DOMAIN q : q[i] = PlannedPick(picks.selected[n + i])
  BY <1>1 DEF LookedAt
<1>5. /\ Len(q) \in Nat \ {0} /\ Head(q) = q[1] /\ 1 \in DOMAIN q
      /\ Tail(q) \in Seq(S) /\ Len(Tail(q)) = Len(q) - 1
      /\ \A i \in DOMAIN Tail(q) : i \in Nat /\ i + 1 \in DOMAIN q /\ Tail(q)[i] = q[i + 1]
  BY <1>2
<1>6. Len(picks.selected) \in Nat /\ DOMAIN picks.selected = 1 .. Len(picks.selected)
  BY <1>3
<1> HIDE DEF q
<1>7. n + 1 \in DOMAIN picks.selected /\ n + 1 + Len(Tail(q)) = Len(picks.selected)
  <2>1. \A u \in Nat \ {0}, v \in Nat :
          v + u \in Nat => v + 1 \in 1 .. v + u /\ v + 1 + (u - 1) = v + u
    OBVIOUS
  <2> QED
    BY <1>4, <1>5, <1>6, <2>1
<1>8. ASSUME NEW i \in DOMAIN Tail(q)
      PROVE  Tail(q)[i] = PlannedPick(picks.selected[n + 1 + i])
  <2>1. n + (i + 1) = n + 1 + i
    BY <1>4, <1>5
  <2>2. Tail(q)[i] = PlannedPick(picks.selected[n + (i + 1)])
    BY <1>4, <1>5
  <2> QED
    BY <2>1, <2>2
<1>9. Head(q) = PlannedPick(picks.selected[n + 1])
  BY <1>4, <1>5
<1> QED
  BY <1>1, <1>4, <1>5, <1>7, <1>8, <1>9 DEF q

\* A pick that gets no position leaves the others as they are.
LEMMA RejectPickKeeps ==
  ASSUME DecisionInv, plan.phase = "planning", plan.queue # <<>>,
         RejectPick(Head(plan.queue)), UNCHANGED <<pickVars, handoff>>, PicksOK'
  PROVE  DecisionInv'
<1>1. PicksOK /\ PlannedOK /\ handoff = <<>> /\ handoff' = <<>> /\ picks' = picks
  BY DEF DecisionInv, HandoffOK, pickVars
<1>2. /\ plan'.queue = Tail(plan.queue) /\ plan'.items = plan.items
      /\ plan'.phase = "planning" /\ DOMAIN plan' = DOMAIN plan
  BY <1>1 DEF RejectPick, PlannedOK
<1>3. PICK n \in Nat :
        /\ LookedAt(n) /\ n + 1 \in DOMAIN picks.selected
        /\ Head(plan.queue) = PlannedPick(picks.selected[n + 1])
        /\ \E S : Tail(plan.queue) \in Seq(S)
        /\ n + 1 + Len(Tail(plan.queue)) = Len(picks.selected)
        /\ \A i \in DOMAIN Tail(plan.queue) :
             Tail(plan.queue)[i] = PlannedPick(picks.selected[n + 1 + i])
  BY <1>1, LookedAtOneMore
<1>4. LookedAt(n + 1)'
  <2>1. \A i \in 1 .. n : i \in 1 .. n + 1
    OBVIOUS
  <2>2. \A j \in DOMAIN plan.items : \E i \in 1 .. n :
          plan.items[j].pick = PlannedPick(picks.selected[i])
    BY <1>3 DEF LookedAt
  <2>3. \A j \in DOMAIN plan.items : \E i \in 1 .. n + 1 :
          plan.items[j].pick = PlannedPick(picks.selected[i])
    BY <2>1, <2>2
  <2>4. n + 1 \in Nat
    OBVIOUS
  <2> QED
    BY <1>1, <1>2, <1>3, <2>3, <2>4 DEF LookedAt
<1>5. PlannedOK'
  BY <1>1, <1>2, <1>3, <1>4 DEF PlannedOK
<1> QED
  BY <1>1, <1>5 DEF DecisionInv, HandoffOK

\* A pick that gets a position is the first of its symbol to get one.
LEMMA SelectPickKeeps ==
  ASSUME DecisionInv, plan.phase = "planning", plan.queue # <<>>,
         SelectPick(Head(plan.queue)), UNCHANGED <<pickVars, handoff>>, PicksOK'
  PROVE  DecisionInv'
<1> DEFINE p == Head(plan.queue)
           s == plan.items
           t == plan'.items
           m == Len(plan.items) + 1
<1>1. PicksOK /\ PlannedOK /\ handoff = <<>> /\ handoff' = <<>> /\ picks' = picks
  BY DEF DecisionInv, HandoffOK, pickVars
<1>2. /\ plan'.queue = Tail(plan.queue) /\ plan'.items = Append(plan.items, Item(p))
      /\ plan'.phase = "planning" /\ DOMAIN plan' = DOMAIN plan
  BY <1>1 DEF SelectPick, PlannedOK
<1>3. PICK n \in Nat :
        /\ LookedAt(n) /\ n + 1 \in DOMAIN picks.selected
        /\ p = PlannedPick(picks.selected[n + 1])
        /\ \E S : Tail(plan.queue) \in Seq(S)
        /\ n + 1 + Len(Tail(plan.queue)) = Len(picks.selected)
        /\ \A i \in DOMAIN Tail(plan.queue) :
             Tail(plan.queue)[i] = PlannedPick(picks.selected[n + 1 + i])
  BY <1>1, LookedAtOneMore
<1>4. Item(p).pick = p
  BY DEF Item
<1>5. PICK S : plan.items \in Seq(S)
  BY <1>1 DEF PlannedOK
<1> HIDE DEF p
<1>6. /\ t \in Seq(S \cup {Item(p)}) /\ DOMAIN t = DOMAIN s \cup {m} /\ m \notin DOMAIN s
      /\ t[m].pick = p /\ \A j \in DOMAIN s : t[j] = s[j]
  BY <1>2, <1>4, <1>5
<1>7. \A j \in DOMAIN s : \E i \in 1 .. n : s[j].pick = PlannedPick(picks.selected[i])
  BY <1>3 DEF LookedAt
<1>8. /\ DOMAIN picks.selected = 1 .. Len(picks.selected) /\ Len(picks.selected) \in Nat
      /\ \A i, j \in DOMAIN picks.selected :
           picks.selected[i].setup.symbol = picks.selected[j].setup.symbol => i = j
  BY <1>1, PlannedPicksAreThePicks DEF PicksOK
<1>9. \A c : PlannedPick(c).symbol = c.setup.symbol
  BY DEF PlannedPick
<1>10. \A i \in 1 .. n : i \in DOMAIN picks.selected /\ i # n + 1
  BY <1>3, <1>8
<1>11. \A j \in DOMAIN s : s[j].pick.symbol # p.symbol
  <2> SUFFICES ASSUME NEW j \in DOMAIN s PROVE s[j].pick.symbol # p.symbol
    OBVIOUS
  <2>1. PICK i \in 1 .. n : s[j].pick = PlannedPick(picks.selected[i])
    BY <1>7
  <2>2. /\ s[j].pick.symbol = picks.selected[i].setup.symbol
        /\ p.symbol = picks.selected[n + 1].setup.symbol
    BY <1>3, <1>9, <2>1
  <2>3. i \in DOMAIN picks.selected /\ i # n + 1
    BY <1>10
  <2> QED
    BY <1>3, <1>8, <2>2, <2>3
<1>12. \A j \in DOMAIN t : \E i \in 1 .. n + 1 : t[j].pick = PlannedPick(picks.selected[i])
  <2>1. n + 1 \in 1 .. n + 1 /\ \A i \in 1 .. n : i \in 1 .. n + 1
    OBVIOUS
  <2> HIDE DEF s, t, m
  <2> QED
    BY <1>3, <1>6, <1>7, <2>1
<1>13. LookedAt(n + 1)'
  <2>1. n + 1 \in Nat
    OBVIOUS
  <2> QED
    BY <1>1, <1>2, <1>3, <1>12, <2>1 DEF LookedAt
<1>14. \A i, j \in DOMAIN t : t[i].pick.symbol = t[j].pick.symbol => i = j
  <2>1. \A i, j \in DOMAIN s : s[i].pick.symbol = s[j].pick.symbol => i = j
    BY <1>1 DEF PlannedOK
  <2> HIDE DEF s, t, m
  <2> QED
    BY <1>6, <1>11, <2>1
<1>15. \A j \in DOMAIN t : \E i \in DOMAIN picks.selected :
         t[j].pick = PlannedPick(picks.selected[i])
  <2>1. \A i \in 1 .. n + 1 : i \in DOMAIN picks.selected
    BY <1>3, <1>8
  <2> QED
    BY <1>12, <2>1
<1>16. PlannedOK'
  BY <1>1, <1>2, <1>3, <1>6, <1>13, <1>14, <1>15 DEF PlannedOK
<1> QED
  BY <1>1, <1>16 DEF DecisionInv, HandoffOK

\* The other steps of the planner: a weight, the end of the weights, the end.
LEMMA OtherPlanStepKeeps ==
  ASSUME DecisionInv, plan.phase \in {"weighing", "planning"},
         plan'.phase \in {"weighing", "planning", "planned"},
         plan'.queue = plan.queue, plan'.items = plan.items, DOMAIN plan' = DOMAIN plan,
         UNCHANGED <<pickVars, handoff>>, PicksOK'
  PROVE  DecisionInv'
<1>1. PlannedOK /\ handoff = <<>> /\ handoff' = <<>> /\ picks' = picks
  BY DEF DecisionInv, HandoffOK, pickVars
<1>2. PICK n : LookedAt(n)
  BY <1>1 DEF PlannedOK
<1>3. LookedAt(n)'
  BY <1>1, <1>2 DEF LookedAt
<1>4. PlannedOK'
  BY <1>1, <1>3 DEF PlannedOK
<1> QED
  BY <1>1, <1>4 DEF DecisionInv, HandoffOK

LEMMA PlanNextKeeps ==
  ASSUME DecisionInv, PlanNext, UNCHANGED <<pickVars, handoff>>, PicksOK'
  PROVE  DecisionInv'
<1>1. PlannedOK
  BY DEF DecisionInv
<1>2. ASSUME plan.phase = "weighing", WeighPick(Head(plan.toWeigh)) PROVE DecisionInv'
  BY <1>1, <1>2, OtherPlanStepKeeps DEF WeighPick, PlannedOK
<1>3. ASSUME plan.phase = "weighing", plan' = [plan EXCEPT !.phase = "planning"]
      PROVE  DecisionInv'
  BY <1>1, <1>3, OtherPlanStepKeeps DEF PlannedOK
<1>4. ASSUME plan.phase = "planning", plan' = [plan EXCEPT !.phase = "planned"]
      PROVE  DecisionInv'
  BY <1>1, <1>4, OtherPlanStepKeeps DEF PlannedOK
<1>5. ASSUME plan.phase = "planning", plan.queue # <<>>,
             SelectPick(Head(plan.queue)) \/ RejectPick(Head(plan.queue))
      PROVE  DecisionInv'
  BY <1>5, SelectPickKeeps, RejectPickKeeps
<1> QED
  BY <1>2, <1>3, <1>4, <1>5 DEF PlanNext

\* The rows are of the picks and the plan, which move no more.
LEMMA WrittenStays ==
  ASSUME DecisionInv, UNCHANGED <<picks, plan>>, PicksOK',
         \/ handoff' = handoff
         \/ /\ plan.phase = "planned"
            /\ handoff' = [i \in DOMAIN PlannedPicks |-> Row(PlannedPicks[i])]
  PROVE  DecisionInv'
<1>1. PlannedPicks' = PlannedPicks
  BY DEF PlannedPicks
<1>2. \A p : Row(p)' = Row(p)
  BY DEF Row
<1>3. HandoffOK'
  BY <1>1, <1>2 DEF DecisionInv, HandoffOK
<1>4. \A n : LookedAt(n)' <=> LookedAt(n)
  BY DEF LookedAt
<1>5. PlannedOK'
  BY <1>4 DEF DecisionInv, PlannedOK
<1> QED
  BY <1>3, <1>5 DEF DecisionInv

LEMMA DecisionInvStays ==
  ASSUME \A d \in DecisionConfigs : d.uniqueSymbol, DecisionInv, [DecisionNext]_decisionVars
  PROVE  DecisionInv'
<1>1. PicksOK'
  BY PicksStay
<1>2. CASE picks.phase = "idle" /\ UNCHANGED <<planVars, handoff>>
  BY <1>1, <1>2, NoPlanYet
<1>3. ASSUME NEW found, StartPicking(found), UNCHANGED <<planVars, handoff>>
      PROVE  DecisionInv'
  BY <1>1, <1>3, NoPlanYet DEF StartPicking
<1>4. CASE PickNext /\ UNCHANGED <<planVars, handoff>>
  BY <1>1, <1>4, NoPlanYet DEF PickNext
<1>5. CASE /\ picks.phase = "picked" /\ StartPlan(PlannedPicks)
           /\ UNCHANGED <<pickVars, handoff>>
  BY <1>1, <1>5, StartPlanKeeps
<1>6. CASE PlanNext /\ UNCHANGED <<pickVars, handoff>>
  BY <1>1, <1>6, PlanNextKeeps
<1>7. CASE WriteHandoff
  BY <1>1, <1>7, WrittenStays DEF WriteHandoff, pickVars, planVars
<1>8. CASE UNCHANGED decisionVars
  BY <1>1, <1>8, WrittenStays DEF decisionVars, pickVars, planVars
<1> QED
  BY <1>2, <1>3, <1>4, <1>5, <1>6, <1>7, <1>8 DEF DecisionNext

\* With one pick of a symbol, the positions of a symbol are those of the pick.
LEMMA DecisionInvAgrees == DecisionInv => HandoffAgreesWithPlan
<1> SUFFICES ASSUME DecisionInv, handoff # <<>>
             PROVE  /\ \A i \in DOMAIN handoff :
                         LET own == {j \in DOMAIN plan.items :
                                       plan.items[j].pick = handoff[i].pick}
                         IN  /\ handoff[i].quantity = {plan.items[j].quantity : j \in own}
                             /\ handoff[i].allocation = {plan.items[j].notional : j \in own}
                    /\ \A j \in DOMAIN plan.items :
                         Cardinality({i \in DOMAIN handoff :
                                        handoff[i].pick = plan.items[j].pick}) = 1
  BY DEF HandoffAgreesWithPlan
<1>1. /\ handoff = [i \in DOMAIN PlannedPicks |-> Row(PlannedPicks[i])]
      /\ PicksOK /\ PlannedOK
  BY DEF DecisionInv, HandoffOK
<1>2. /\ DOMAIN handoff = DOMAIN picks.selected
      /\ \A i \in DOMAIN handoff : handoff[i] = Row(PlannedPick(picks.selected[i]))
  <2>1. /\ DOMAIN PlannedPicks = DOMAIN picks.selected
        /\ \A i \in DOMAIN picks.selected :
             PlannedPicks[i] = PlannedPick(picks.selected[i])
    BY <1>1, PlannedPicksAreThePicks
  <2>2. /\ DOMAIN handoff = DOMAIN PlannedPicks
        /\ \A i \in DOMAIN PlannedPicks : handoff[i] = Row(PlannedPicks[i])
    BY <1>1
  <2> QED
    BY <2>1, <2>2
<1>3. \A i \in DOMAIN handoff : handoff[i].pick = PlannedPick(picks.selected[i])
  <2>1. \A p : Row(p).pick = p
    BY DEF Row
  <2> QED
    BY <1>2, <2>1
<1>4. \A c : PlannedPick(c).symbol = c.setup.symbol
  BY DEF PlannedPick
<1>5. \A i, j \in DOMAIN handoff :
        handoff[i].pick.symbol = handoff[j].pick.symbol => i = j
  BY <1>1, <1>2, <1>3, <1>4 DEF PicksOK
<1>6. \A j \in DOMAIN plan.items : \E i \in DOMAIN handoff :
        plan.items[j].pick = handoff[i].pick
  BY <1>1, <1>2, <1>3 DEF PlannedOK
<1>7. ASSUME NEW i \in DOMAIN handoff, NEW own,
             own = {j \in DOMAIN plan.items : plan.items[j].pick = handoff[i].pick}
      PROVE  /\ handoff[i].quantity = {plan.items[j].quantity : j \in own}
             /\ handoff[i].allocation = {plan.items[j].notional : j \in own}
  <2> DEFINE p == handoff[i].pick
             latest == {j \in DOMAIN plan.items :
                        /\ plan.items[j].pick.symbol = p.symbol
                        /\ \A m \in DOMAIN plan.items :
                             plan.items[m].pick.symbol = p.symbol => m <= j}
             items == {plan.items[j] : j \in latest}
  <2>1. p = PlannedPick(picks.selected[i])
    BY <1>3
  <2>2. /\ handoff[i].quantity = {it.quantity : it \in items}
        /\ handoff[i].allocation = {it.notional : it \in items}
    <3>1. handoff[i] = Row(p)
      BY <1>2, <2>1
    <3> HIDE DEF p
    <3>2. /\ Row(p).quantity = {it.quantity : it \in items}
          /\ Row(p).allocation = {it.notional : it \in items}
      BY DEF Row
    <3> QED
      BY <3>1, <3>2
  <2>3. \A j \in DOMAIN plan.items : plan.items[j].pick.symbol = p.symbol <=> j \in own
    BY <1>5, <1>6, <1>7
  <2>4. \A j \in own : \A m \in own : m = j
    BY <1>1, <1>7 DEF PlannedOK
  <2>5. DOMAIN plan.items \subseteq Int
    BY <1>1 DEF PlannedOK
  <2>6. \A j \in DOMAIN plan.items : j <= j
    BY <2>5
  <2>7. latest = own
    <3>1. own \subseteq DOMAIN plan.items
      BY <1>7
    <3> HIDE DEF p
    <3> QED
      BY <2>3, <2>4, <2>6, <3>1
  <2> HIDE DEF p, latest
  <2> QED
    BY <2>2, <2>7
<1>8. ASSUME NEW j \in DOMAIN plan.items
      PROVE  Cardinality({i \in DOMAIN handoff : handoff[i].pick = plan.items[j].pick}) = 1
  <2>1. PICK i \in DOMAIN handoff : plan.items[j].pick = handoff[i].pick
    BY <1>6
  <2>2. {m \in DOMAIN handoff : handoff[m].pick = plan.items[j].pick} = {i}
    BY <1>5, <2>1
  <2> QED
    BY <2>2, FS_Singleton
<1> QED
  BY <1>7, <1>8

\* Whatever the scan, the thresholds, the budgets and the drawdown: as long as the
\* selection policy takes a symbol once (enforce_unique_symbol, a default that no
\* runner or profile changes), run_decision's look-ups by symbol give every row of
\* the hand-off the quantity and allocation of its own pick.
THEOREM HandoffIsOfThePlan ==
  ASSUME \A d \in DecisionConfigs : d.uniqueSymbol
  PROVE  DecisionSpec => []HandoffAgreesWithPlan
<1>1. DecisionInit => DecisionInv
  BY DecisionInvInit
<1>2. DecisionInv /\ [DecisionNext]_decisionVars => DecisionInv'
  BY DecisionInvStays
<1>3. DecisionInv => HandoffAgreesWithPlan
  BY DecisionInvAgrees
<1> QED
  BY <1>1, <1>2, <1>3, PTL DEF DecisionSpec
=============================================================================
