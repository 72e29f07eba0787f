----------------------------- MODULE MarketDay -----------------------------
(***************************************************************************)
(* The clock of an intraday data set: every trading day has the same grid  *)
(* of bars, and the studies below look at one bar after the other.  Times  *)
(* are minutes of the exchange's day (IST), as the "HH:MM" strings the     *)
(* strategies compare.                                                     *)
(***************************************************************************)
EXTENDS Integers, FiniteSets

CONSTANTS BarTimes,   \* the times of a day's bars
          Days        \* the number of days in the data set

ASSUME GridAssumption ==
  /\ BarTimes \subseteq 1 .. 1439 /\ BarTimes # {} /\ IsFiniteSet(BarTimes)
  /\ Days \in Nat \ {0}

VARIABLES day, clock  \* of the bar looked at last; clock = 0 before the first

clockVars == <<day, clock>>

Earliest(times) == CHOOSE t \in times : \A u \in times : t <= u

ClockInit == day = 1 /\ clock = 0

NextBar ==
  LET later == {t \in BarTimes : t > clock}
  IN  \/ /\ later # {}
         /\ clock' = Earliest(later)
         /\ UNCHANGED day
      \/ /\ later = {} /\ day < Days
         /\ clock' = Earliest(BarTimes)
         /\ day' = day + 1

NewDay == day' # day
=============================================================================
