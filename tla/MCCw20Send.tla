----------------------------- MODULE MCCw20Send -----------------------------
(***************************************************************************)
(* Two users, one of which may spend for the other, the vault and the      *)
(* relay, a supply of up to MaxUint: what is interesting happens between   *)
(* the messages of one transaction.                                        *)
(***************************************************************************)
EXTENDS Cw20Send

Row(a, n) == [address |-> a, amount |-> n]
MCRows == {<<Row("alice", n), Row("bob", MaxUint - n)>> : n \in 0..MaxUint}

MCExpirations == {}
MCLegacy == {}

\* Nothing reads the last call, and the signer only matters during its transaction.
WithoutLast == <<version, token, grants, book, tx, pending, executed, saved,
                 IF tx = "idle" THEN "none" ELSE origin>>
=============================================================================
