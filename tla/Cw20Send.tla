------------------------------ MODULE Cw20Send ------------------------------
(***************************************************************************)
(* A send between the token of Cw20Base and contracts that receive it.     *)
(* The token moves the amount, then asks the chain to execute a message on *)
(* the recipient (`Cw20ReceiveMsg`), which may fail, keep the tokens, or   *)
(* call the token again from its handler.                                  *)
(*                                                                         *)
(* External: the chain, which executes the messages of a response depth    *)
(* first before those that were waiting and, when one of them fails,       *)
(* takes the whole transaction back; and two recipients.  The vault keeps  *)
(* a book of what it owes to the senders it was notified of, and pays out; *)
(* the relay keeps what it gets or sends it on to the vault.               *)
(***************************************************************************)
EXTENDS Cw20Base

CONSTANTS
  Users,        \* the accounts that sign transactions
  Vault, Relay, \* the contracts
  MaxMessages   \* bound: messages the gas of a transaction suffices for

ASSUME PartiesAssumption == /\ Users \cup {Vault, Relay} \subseteq Accounts
                            /\ Vault \notin Users /\ Relay \notin Users /\ Vault # Relay
\* An address is a string of bounded length.
ASSUME FiniteAssumption == IsFiniteSet(Accounts)

VARIABLES
  book,     \* the vault's: account |-> the amount it can take out
  tx,       \* "idle", "running" or "failed"
  pending,  \* the messages of the transaction that are still to be executed
  origin,   \* who signed it
  executed, \* how many of its messages have been executed
  saved     \* the state a failure brings back: one during a transaction

storage == [balances |-> balances, total_supply |-> total_supply, mint |-> mint,
            allowances |-> allowances, allowances_spender |-> allowances_spender, book |-> book]
chain == <<tx, pending, origin, executed, saved>>
svars == <<vars, book, chain>>

Contracts == {Vault, Relay}
Owed == Sum(book)
-----------------------------------------------------------------------------
\* The message of a call the token answered with `last`.
Notifications ==
  {[kind |-> "receive", to |-> r, sender |-> last'.sender, amount |-> last'.amount] : r \in last'.notify}
\* A response asks for one message at most; it comes before those that wait.
InOrder(messages) == [k \in 1..Cardinality(messages) |-> CHOOSE m \in messages : TRUE]
Execute(messages) == pending' = InOrder(messages) \o Tail(pending)
TokenCall(sender, to, n) == [kind |-> "token", sender |-> sender, to |-> to, amount |-> n]

Begin(s) == /\ tx = "idle"
            /\ tx' = "running" /\ origin' = s /\ executed' = 0
            /\ saved' = {storage}

\* A user calls the token; a refused call is a transaction of its own.
Sign(s) ==
  /\ Begin(s)
  /\ \E n \in Amount : Call(s, n)
  /\ pending' = InOrder(Notifications)
  /\ UNCHANGED book

\* A user takes tokens out of the vault, to itself or to the relay.
Withdraw(s) ==
  /\ Begin(s)
  /\ \E n \in 1..book[s], r \in {s, Relay} :
       /\ book' = [book EXCEPT ![s] = @ - n]
       /\ pending' = <<TokenCall(Vault, r, n)>>
  /\ UNCHANGED vars
-----------------------------------------------------------------------------
NextMessage(kind) ==
  /\ tx = "running" /\ pending # <<>> /\ Head(pending).kind = kind
  /\ executed < MaxMessages
  /\ executed' = executed + 1
  /\ UNCHANGED <<origin, saved>>
Fails == tx' = "failed" /\ UNCHANGED <<pending, book>>

\* The token, called by a contract: a transfer to a user, a send to a contract.
TokenMessage ==
  /\ NextMessage("token")
  /\ LET m == Head(pending) IN Transfer(m.sender, m.to, m.amount, {m.to} \cap Contracts)
  /\ IF last'.result = "Ok"
     THEN Execute(Notifications) /\ UNCHANGED <<tx, book>>
     ELSE Fails

\* A recipient that is no contract, or that returns an error.
ReceiveFails ==
  /\ NextMessage("receive")
  /\ Fails /\ UNCHANGED vars

\* The vault books the amount and may pay a part of it back at once.
VaultReceives ==
  /\ NextMessage("receive") /\ Head(pending).to = Vault
  /\ LET m == Head(pending) IN
     \E back \in 0..m.amount :
       /\ book' = [book EXCEPT ![m.sender] = @ + m.amount - back]
       /\ Execute({TokenCall(Vault, m.sender, back) : n \in {back} \ {0}})
  /\ UNCHANGED <<vars, tx>>

RelayReceives ==
  /\ NextMessage("receive") /\ Head(pending).to = Relay
  /\ \E forward \in SUBSET {TokenCall(Relay, Vault, Head(pending).amount)} : Execute(forward)
  /\ UNCHANGED <<vars, tx, book>>

OutOfGas == /\ tx = "running" /\ pending # <<>> /\ executed = MaxMessages
            /\ Fails
            /\ UNCHANGED <<vars, origin, executed, saved>>

Finish == /\ tx' = "idle" /\ pending' = <<>> /\ saved' = {} /\ executed' = 0
          /\ UNCHANGED <<version, height, last, origin>>
Commit == /\ tx = "running" /\ pending = <<>>
          /\ Finish
          /\ UNCHANGED <<token, grants, book>>
Rollback == /\ tx = "failed"
            /\ Finish
            /\ \E s \in saved :
                 /\ balances' = s.balances /\ total_supply' = s.total_supply /\ mint' = s.mint
                 /\ allowances' = s.allowances /\ allowances_spender' = s.allowances_spender
                 /\ book' = s.book

Deploy == /\ \E rows \in InitialRows : Instantiate(rows, {})
          /\ UNCHANGED <<book, chain>>

SendInit == /\ Init
            /\ book = [a \in Accounts |-> 0]
            /\ tx = "idle" /\ pending = <<>> /\ origin \in Users /\ executed = 0 /\ saved = {}

SendNext == \/ Deploy
            \/ \E s \in Users : Live /\ (Sign(s) \/ Withdraw(s))
            \/ TokenMessage \/ ReceiveFails \/ VaultReceives \/ RelayReceives
            \/ OutOfGas \/ Commit \/ Rollback

SendSpec == SendInit /\ [][SendNext]_svars
-----------------------------------------------------------------------------
\* What the pending messages that tell a contract of tokens, or that it has sent to
\* the token, name in all.
Concerns(m, c) == IF m.kind = "receive" THEN m.to = c ELSE m.sender = c
Due(c) == Sum([k \in DOMAIN pending |-> IF Concerns(pending[k], c) THEN pending[k].amount ELSE 0])

\* A recipient holds what it has been notified of: in the middle of a transaction,
\* with payouts and notifications under way and other contracts having called the
\* token since, the vault owns enough for its whole book, and the relay for what
\* it is about to be told of or has told the token to send on.
Solvent == /\ Owed + Due(Vault) <= Balance(Vault)
           /\ Due(Relay) <= Balance(Relay)

\* The sender of a notification is who called the token: a user is credited in its
\* own transactions only, also when a spender sends the tokens of another.
CreditsSender == [][\A u \in Users : book'[u] > book[u] => origin' = u]_svars

\* Whatever recipients do in their handlers, or if they fail there, a transaction
\* takes nothing, neither tokens nor what the vault owes, from a user who has not
\* signed it, but for what this user has allowed the signer to take.
BalanceIn(s, u) == IF u \in DOMAIN s.balances THEN s.balances[u] ELSE 0
OthersKeepTheirs ==
  \A u \in Users \ {origin}, s \in saved :
    tx = "running" =>
      Balance(u) + book[u] + Grant(s.allowances, <<u, origin>>).allowance
        >= BalanceIn(s, u) + s.book[u]
=============================================================================
