--------------------------- MODULE MCTradingSystem ---------------------------
(* Values for the constants of TradingSystem that a .cfg cannot write.      *)
EXTENDS TradingSystem

CONSTANTS p1, p2, p3, a1, b1

NoPositions == <<>>

\* Positions bought before the start and older than the maximal duration.
RestoredPosition(p) ==
    [pair |-> p, signer |-> a1, bot |-> b1, is_paper |-> FALSE,
     age |-> HOLD_MAX_DURATION + 1]

OnePosition == <<RestoredPosition(p1)>>

\* A loss no run reaches, and one that a failed sell at the least amount does.
NoHardStop == -100000
TightHardStop == -90

Symmetry == Permutations(Pairs)
NewPairs == Permutations(Pairs \ {p1})
=============================================================================
