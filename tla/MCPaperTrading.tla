--------------------------- MODULE MCPaperTrading ---------------------------
(* Model-checking instances of PaperTrading: two symbols, small feeds.     *)
EXTENDS PaperTrading

CONSTANTS A, B

Bar(o, h, l, c) == [open |-> o, high |-> h, low |-> l, close |-> c]

Flat == Bar(10, 11, 9, 10)
Rally == Bar(10, 15, 10, 14)
Crash == Bar(5, 6, 4, 5)

\* A trades on every bar and opens flat; B stays flat and may miss bar 2, with
\* which a session of two bars has too few of it.
MCFeeds == {f \in [1..NumBars -> [{A, B} -> {Flat, Rally, Crash, NONE}]] :
              /\ f[1][A] = Flat
              /\ \A n \in 1..NumBars : /\ f[n][A] # NONE
                                       /\ f[n][B] \in (IF n = 2 THEN {Flat, NONE}
                                                       ELSE {Flat})}

AllModes == [nextBar : BOOLEAN, closeAtEnd : BOOLEAN]
TwoLimits == {[positions |-> 2, exposure |-> 9], [positions |-> 1, exposure |-> 5]}
=============================================================================
