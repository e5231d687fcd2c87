----------------------------- MODULE MCCw20Base -----------------------------
(***************************************************************************)
(* Three accounts, amounts 0..MaxUint, allowances to one spender that      *)
(* never expire or expire at block 1, tokens instantiated in every way or  *)
(* left by other code: with one holder and one allowance, which is listed  *)
(* by spender, listed with an amount that is out of date, or not listed.   *)
(***************************************************************************)
EXTENDS Cw20Base, TLC

Row(a, n) == [address |-> a, amount |-> n]
MCRows == {<<>>}
  \cup {<<Row(a, n)>> : a \in Accounts, n \in Amount}
  \cup {<<Row(a, m), Row(b, n)>> : a, b \in Accounts, m, n \in 1..MaxUint}

\* `last` is only read by action properties, in the state a call leads to: states
\* that differ in nothing else are explored once.
WithoutLast == <<version, token, grants, height>>

MCExpirations == {{}, {1}}

LegacyMint == {{}, {[minter |-> "alice", cap |-> {}]}, {[minter |-> "bob", cap |-> {2}]}}
Given(n, e) == [allowance |-> n, expires |-> e]

MCLegacy ==
  UNION {{[version |-> v, balances |-> a :> n, mint |-> m, allowances |-> <<a, s>> :> g,
           allowances_spender |-> listed] :
            listed \in {<<>>, <<s, a>> :> g, <<s, a>> :> Given(0, {})}} :
           v \in {"older", "newer", "foreign"}, a \in Accounts \ Spenders, s \in Spenders,
           n \in 1..MaxUint, m \in LegacyMint, g \in {Given(1, {}), Given(2, {1})}}
=============================================================================
