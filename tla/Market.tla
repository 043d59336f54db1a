-------------------------------- MODULE Market --------------------------------
(***************************************************************************)
(* The chain as the watcher and the inspector see it: for every block, the *)
(* state of each pool at its end and the call to its token that the block  *)
(* contains.  External: what the code in src/ reads through the node and   *)
(* the explorer, never what it does.                                       *)
(***************************************************************************)
EXTENDS Integers, Sequences, FiniteSets

CONSTANTS
    Pairs,
    None,
    Creators,       \* the deployers of the pairs
    Pools,          \* the states a pool may be in, a set of Pool
    MaxHeight,      \* bound of the model: the last block
    LastCreation,   \* bound of the model: the last block with a creation
    MaxEvents       \* bound of the model: changes of pools and calls to tokens

\* The wei of a pair that was created, and how its token can be traded.
Pool == [native: Nat, token: Nat, trade: {"closed", "buy only", "open"}]

\* The methods the inspector tells apart: the transfers and the abnormal ones.
\* (approve and renounceOwnership are neither; they only fill its page, as a
\* transfer does.)
Calls == {"none", "transfer", "abnormal"}

ASSUME MarketAssumption ==
    /\ Pools \subseteq Pool
    /\ None \notin Pools /\ None \notin Creators
    /\ MaxHeight \in Nat /\ LastCreation \in Nat /\ MaxEvents \in Nat

VARIABLE blocks     \* block n is blocks[n], from 1

Height == Len(blocks)

PairState == [pool: Pools \cup {None}, call: Calls]

MarketTypeOK ==
    /\ blocks \in Seq([Pairs -> PairState])
    /\ Height <= MaxHeight

\* The pool of p at the end of block n, None before the pair was created.
PoolAt(p, n) == IF n = 0 THEN None ELSE blocks[n][p].pool

Exists(p, n) == PoolAt(p, n) # None

CreatedIn(p, n) == Exists(p, n) /\ ~ Exists(p, n - 1)

\* A Sync event: the reserves changed in block n.
Syncs(p, n) ==
    /\ Exists(p, n) /\ Exists(p, n - 1)
    /\ \/ PoolAt(p, n).native # PoolAt(p, n - 1).native
       \/ PoolAt(p, n).token # PoolAt(p, n - 1).token

\* What eth_call answers at 'latest'.
Latest(p) == PoolAt(p, Height)

\* How much happened: a creation is not counted.
Events(chain) ==
    LET Before(n) == IF n = 1 THEN [p \in Pairs |-> [pool |-> None]] ELSE chain[n - 1] IN
    Cardinality({e \in Pairs \X DOMAIN chain :
                    /\ Before(e[2])[e[1]].pool # None
                    /\ chain[e[2]][e[1]].pool # Before(e[2])[e[1]].pool})
      + Cardinality({e \in Pairs \X DOMAIN chain : chain[e[2]][e[1]].call # "none"})

Mine ==
    /\ Height < MaxHeight
    /\ \E next \in [Pairs -> PairState] :
          /\ \A p \in Pairs :
                IF Exists(p, Height) THEN next[p].pool # None
                ELSE next[p].pool # None => Height < LastCreation
          /\ blocks' = Append(blocks, next)
    /\ Events(blocks') <= MaxEvents
=============================================================================
