------------------------------ MODULE MCDiscovery ------------------------------
(* Values for the constants of Discovery that a .cfg cannot write.          *)
EXTENDS Discovery

CONSTANTS p1, p2, c1

OneCreator == [p \in Pairs |-> c1]

\* The balances of a token are in the first slot of its storage.
FirstSlot == [p \in Pairs |-> 0]

\* No liquidity yet, a deep pool that trades, the same pool with sells blocked,
\* and a pool whose token is so coarse that a round trip costs too much.  (The
\* products of AmountOut have to stay below 2^31, the integers of TLC.)
EmptyPool == [native |-> 0, token |-> 0, trade |-> "closed"]
DeepPool == [native |-> 20000, token |-> 21000, trade |-> "open"]
TrapPool == [native |-> 20000, token |-> 21000, trade |-> "buy only"]
CoarsePool == [native |-> 20000, token |-> 1000, trade |-> "open"]
AllPools == {EmptyPool, DeepPool, TrapPool, CoarsePool}
=============================================================================
