---------------------------- MODULE MCCw1Subkeys ----------------------------
(***************************************************************************)
(* Four addresses and a string that is none; two denominations; lists of  *)
(* admins in every order and with every repetition.                        *)
(***************************************************************************)
EXTENDS Cw1Subkeys

CONSTANT MaxList

Valid == 1..4
Named == 1..5
MCLists == BoundedSeq(Valid, MaxList) \cup {<<1, 5>>}

Coin(d, n) == [denom |-> d, amount |-> n]
MCCoins == {Coin("atom", 0), Coin("atom", 1), Coin("osmo", 1)}
MCPermissions == {{"withdraw"}}

Send(coins) == [kind |-> "send", coins |-> coins]
Other(kind) == [kind |-> kind, coins |-> <<>>]
MCMessages == {Send(<<>>), Send(<<Coin("atom", 1)>>), Send(<<Coin("atom", 1), Coin("atom", 1)>>),
               Send(<<Coin("osmo", 1), Coin("atom", 0)>>)} \cup
              {Other(kind) : kind \in {"delegate", "set_withdraw_address", "fund_community_pool", "wasm"}}

\* Who called last and how it ended do not bear on what can happen next.
WithoutCall == <<whitelist, keys, height, given>>
=============================================================================
