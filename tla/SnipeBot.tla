------------------------------- MODULE SnipeBot -------------------------------
(***************************************************************************)
(* contracts/src/SnipeBot.sol and AbstractBot.sol: what a call of buy or   *)
(* sell by the owner of the bot returns.  The router's swap is UniswapV2's *)
(* formula with its fee of 0.3%.  Amounts are wei; no intermediate product *)
(* overflows 256 bits for the amounts that exist.                          *)
(***************************************************************************)
EXTENDS Market

\* UniswapV2Library.getAmountOut.
AmountOut(in, reserve_in, reserve_out) ==
    (in * 997 * reserve_out) \div (reserve_in * 1000 + in * 997)

\* buy: what the swap would give without a fee, and 90% of that as its minimum.
AmountTokenOut(pool, value) ==
    pool.token - (pool.token * pool.native) \div (pool.native + value)
AmountTokenMin(pool, value) == (AmountTokenOut(pool, value) * 90) \div 100

HasLiquidity(pool) == pool # None /\ pool.native > 0 /\ pool.token > 0

TokensBought(pool, value) == AmountOut(value, pool.native, pool.token)
NativeSold(pool, amount) == AmountOut(amount, pool.token, pool.native)

BuySucceeds(pool, value) ==
    /\ HasLiquidity(pool)
    /\ pool.trade # "closed"
    /\ TokensBought(pool, value) > 0
    /\ TokensBought(pool, value) >= AmountTokenMin(pool, value)

\* sell: the whole balance, with no minimum.
SellSucceeds(pool, amount) ==
    /\ HasLiquidity(pool)
    /\ pool.trade = "open"
    /\ amount > 0
    /\ NativeSold(pool, amount) > 0

\* The pool after a buy.
AfterBuy(pool, value) ==
    [pool EXCEPT !.native = @ + value, !.token = @ - TokensBought(pool, value)]

\* What is left of value when it is spent on tokens that are sold at once.
RoundTrip(pool, value) == NativeSold(AfterBuy(pool, value), TokensBought(pool, value))
=============================================================================
