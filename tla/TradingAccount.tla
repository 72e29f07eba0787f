--------------------------- MODULE TradingAccount ---------------------------
(***************************************************************************)
(* What every simulated account of the platform promises, whatever decides *)
(* the trades: money moves between cash and the book value of open         *)
(* positions, a purchase never spends more than the cash at hand, and      *)
(* profit is realized only when book value is taken off the books.         *)
(*                                                                         *)
(* The backtest portfolio (src/core/portfolio.py) and the paper portfolio  *)
(* (src/paper_trading) are shown to implement this specification through   *)
(* the refinement mappings at the end of their modules.                    *)
(***************************************************************************)
EXTENDS Integers

CONSTANT Initial    \* the opening balance

VARIABLES
  cash,       \* spendable balance
  book,       \* cost of the open positions, entry fees included
  realized    \* net profit of everything sold so far

account == <<cash, book, realized>>

-----------------------------------------------------------------------------

Init ==
  /\ cash = Initial
  /\ book = 0
  /\ realized = 0

\* Cash becomes book value; no profit or loss is made by buying.
Buy ==
  /\ cash' < cash
  /\ cash' >= 0
  /\ book' = book + (cash - cash')
  /\ UNCHANGED realized

\* Book value leaves the books; what comes in above it is realized.
Sell ==
  /\ book' < book
  /\ book' >= 0
  /\ cash' >= cash
  /\ realized' = realized + (cash' - cash) - (book - book')

Next == Buy \/ Sell

Spec == Init /\ [][Next]_account

-----------------------------------------------------------------------------

\* Money is neither created nor lost: what is in cash and on the books is
\* the opening balance plus the profit realized so far.
Balanced == cash + book = Initial + realized

\* The account never borrows.
NeverOverdrawn == cash >= 0
=============================================================================
