------------------------------ MODULE MCRecovery ------------------------------
(* Values for the constants of Recovery that a .cfg cannot write.           *)
EXTENDS Recovery

CONSTANTS p1, p2, c1, c2

\* Two pairs of two creators.
TwoCreators == p1 :> c1 @@ p2 :> c2
OneCreator == p1 :> c1

\* A pair is exchanged together with its creator.
Symmetry ==
    {f \in Permutations(Pairs \cup Creators) :
        \A p \in Pairs : f[p] \in Pairs /\ f[CreatorOf[p]] = CreatorOf[f[p]]}

NoPositions == <<>>

\* A loss no run reaches.
NoHardStop == -100000
=============================================================================
