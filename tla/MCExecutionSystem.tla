-------------------------- MODULE MCExecutionSystem --------------------------
(* Values for the constants of ExecutionSystem that a .cfg cannot write.    *)
EXTENDS ExecutionSystem

CONSTANTS a1, a2, b1, p1

OneKey == <<a1>>
TwoKeys == <<a1, a2>>

NoRows == <<>>
OneRow == <<NewBot(b1, a1)>>

NoOpenPositions == {}

\* A position of the account a1.
OwnPosition ==
    {[pair |-> p1, signer |-> a1, bot |-> b1, is_paper |-> FALSE, age |-> 0]}

Symmetry == Permutations(Pairs) \cup Permutations(Bots)
=============================================================================
