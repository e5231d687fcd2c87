----------------------------- MODULE Cw1Subkeys -----------------------------
(***************************************************************************)
(* examples/contracts/cw1-subkeys: a whitelist whose admins let others     *)
(* send tokens (allowances that expire) and stake (permissions) for the    *)
(* contract.  Executing a message uses up nothing: an allowance bounds     *)
(* every single message, not their sum.                                    *)
(*                                                                         *)
(* NativeBalance (cw_utils) is external: a function from denominations to  *)
(* amounts.  An Option is a set of at most one element.                    *)
(***************************************************************************)
EXTENDS Cw1Whitelist, Functions

CONSTANTS
  Denoms,
  MaxUint,      \* Uint128::MAX
  Coins,        \* bound: the `amount` arguments, [denom, amount]
  Expirations,  \* {} is Never, {h} is AtHeight(h)
  Permissions,  \* bound: the `permissions` arguments, sets of permitted actions
  Spenders,     \* bound: the `spender` arguments
  Messages,     \* CosmosMsgs: [kind, coins]
  MaxMessages,  \* bound: messages of one execute
  MaxHeight     \* bound: the last block considered

ASSUME MaxUintAssumption == MaxUint \in Nat
ASSUME CoinsAssumption == Coins \subseteq [denom : Denoms, amount : 0..MaxUint]
ASSUME ExpirationsAssumption == \A e \in Expirations : e \subseteq Nat
ASSUME MessagesAssumption ==
  \A m \in Messages : m.coins \in Seq([denom : Denoms, amount : 0..MaxUint])
ASSUME MaxHeightAssumption == MaxHeight \in Nat
ASSUME SpendersAssumption == Spenders \subseteq Strings

VARIABLES
  permissions,  \* address |-> set of permitted actions
  allowances,   \* address |-> [balance, expires]
  height,
  given,        \* history: what admins have left each address since its allowance last expired
  sent          \* the messages of the last call, dispatched in the contract's name

keys == <<permissions, allowances>>
vars == <<whitelist, by, answer, keys, height, given, sent>>

Option(S) == {{}} \cup {{x} : x \in S}
Put(f, k, v) == [x \in DOMAIN f \cup {k} |-> IF x = k THEN v ELSE f[x]]
Without(f, k) == Restrict(f, DOMAIN f \ {k})

Expired(expires) == \E h \in expires : height >= h
NoAllowance == [balance |-> <<>>, expires |-> {}]
Stored(a) == IF a \in DOMAIN allowances THEN allowances[a] ELSE NoAllowance

\* External: NativeBalance.  A coin of amount zero can be held, but is no balance.
Held(balance, d) == IF d \in DOMAIN balance THEN balance[d] ELSE 0
Plus(balance, c) == Put(balance, c.denom, Held(balance, c.denom) + c.amount)
Minus(balance, c) == IF Held(balance, c.denom) = c.amount THEN Without(balance, c.denom)
                     ELSE Put(balance, c.denom, balance[c.denom] - c.amount)
Saturating(balance, c) ==
  IF Held(balance, c.denom) <= c.amount THEN Without(balance, c.denom) ELSE Minus(balance, c)
IsEmpty(balance) == \A d \in DOMAIN balance : balance[d] = 0

\* balance - coins is_ok(): coin by coin, an emptied denomination is gone; the rest is a
\* set of at most one balance.
Covers(balance, coins) ==
  LET rest[k \in 0..Len(coins)] ==
        IF k = 0 THEN {balance}
        ELSE {Minus(b, coins[k]) : b \in {r \in rest[k - 1] : /\ coins[k].denom \in DOMAIN r
                                                             /\ coins[k].amount <= r[coins[k].denom]}}
  IN rest[Len(coins)] # {}
Total(coins, d) ==
  LET sum[k \in 0..Len(coins)] ==
        IF k = 0 THEN 0 ELSE sum[k - 1] + IF coins[k].denom = d THEN coins[k].amount ELSE 0
  IN sum[Len(coins)]
-----------------------------------------------------------------------------
Call(s) == sent' = <<>> /\ UNCHANGED height
Ok(s) == Done(s) /\ Call(s) /\ UNCHANGED whitelist
Refuse(s, error) == Refused(s, error) /\ Call(s) /\ UNCHANGED <<keys, given>>

\* The checks every grant begins with, and the call that passes them.
Grants(s, spender) == IsAdmin(s) /\ spender \in Addresses /\ spender # s
RefusedGrant(s, spender) ==
  \/ ~IsAdmin(s) /\ Refuse(s, "Unauthorized")
  \/ IsAdmin(s) /\ spender \notin Addresses /\ Refuse(s, "InvalidAddress")
  \/ IsAdmin(s) /\ spender = s /\ spender \in Addresses /\ Refuse(s, "CannotSetOwnAccount")

Until(a, expires) == IF expires = {} THEN a.expires ELSE UNION expires

\* Fault: what an expired allowance held is kept.
RenewedStale(a, expires) == [a EXCEPT !.expires = Until(a, expires)]

\* What an increase starts from; an expired allowance counts for nothing.
Renewed(a, expires) ==
  LET live == IF Expired(a.expires) THEN NoAllowance ELSE a
  IN [live EXCEPT !.expires = Until(live, expires)]

IncreaseAllowance(s, spender, c, expires) ==
  LET a == Stored(spender)
      renewed == Renewed(a, expires)
      invalid == IF expires = {} THEN Expired(a.expires) ELSE \E e \in expires : Expired(e)
      fits == Held(renewed.balance, c.denom) + c.amount <= MaxUint
  IN
  \/ RefusedGrant(s, spender)
  \/ Grants(s, spender) /\ invalid /\ Refuse(s, "SettingExpiredAllowance")
  \/ Grants(s, spender) /\ ~invalid /\ ~fits /\ Refuse(s, "Overflow")
  \/ /\ Grants(s, spender) /\ ~invalid /\ fits
     /\ allowances' = Put(allowances, spender,
                          [renewed EXCEPT !.balance = Plus(renewed.balance, c)])
     /\ given' = [given EXCEPT ![spender][c.denom] = @ + c.amount]
     /\ Ok(s)
     /\ UNCHANGED permissions

\* The entry is stored, then removed again if nothing is left of it.
DecreaseAllowance(s, spender, c, expires) ==
  LET a == Stored(spender)
      known == spender \in DOMAIN allowances /\ ~Expired(a.expires)
      invalid == \E e \in expires : Expired(e)
      left == Saturating(a.balance, c)
  IN
  \/ RefusedGrant(s, spender)
  \/ Grants(s, spender) /\ ~known /\ Refuse(s, "NoAllowance")
  \/ Grants(s, spender) /\ known /\ invalid /\ Refuse(s, "SettingExpiredAllowance")
  \/ /\ Grants(s, spender) /\ known /\ ~invalid /\ c.denom \notin DOMAIN a.balance
     /\ Refuse(s, "Overflow")
  \/ /\ Grants(s, spender) /\ known /\ ~invalid /\ c.denom \in DOMAIN a.balance
     /\ allowances' = IF IsEmpty(left) THEN Without(allowances, spender)
                      ELSE Put(allowances, spender,
                               [balance |-> left, expires |-> Until(a, expires)])
     /\ given' = [given EXCEPT ![spender][c.denom] = IF @ <= c.amount THEN 0 ELSE @ - c.amount]
     /\ Ok(s)
     /\ UNCHANGED permissions

SetPermissions(s, spender, p) ==
  \/ RefusedGrant(s, spender)
  \/ /\ Grants(s, spender)
     /\ permissions' = Put(permissions, spender, p)
     /\ Ok(s)
     /\ UNCHANGED <<allowances, given>>
-----------------------------------------------------------------------------
\* The permission a staking or distribution message asks for.
Asks(m) == IF m.kind \in {"set_withdraw_address", "withdraw_delegator_reward"} THEN "withdraw"
           ELSE m.kind

\* Fault: the expiration is not looked at.
IsAuthorizedExpired(s, m) ==
  \/ IsAdmin(s)
  \/ m.kind = "send" /\ s \in DOMAIN allowances /\ Covers(Stored(s).balance, m.coins)
  \/ m.kind # "send" /\ s \in DOMAIN permissions /\ Asks(m) \in permissions[s]

IsAuthorized(s, m) ==
  \/ IsAdmin(s)
  \/ /\ m.kind = "send" /\ s \in DOMAIN allowances
     /\ ~Expired(Stored(s).expires) /\ Covers(Stored(s).balance, m.coins)
  \/ m.kind # "send" /\ s \in DOMAIN permissions /\ Asks(m) \in permissions[s]

Execute(s, msgs) ==
  \/ (\E k \in DOMAIN msgs : ~IsAuthorized(s, msgs[k])) /\ Refuse(s, "Unauthorized")
  \/ /\ \A k \in DOMAIN msgs : IsAuthorized(s, msgs[k])
     /\ sent' = msgs
     /\ Done(s)
     /\ UNCHANGED <<whitelist, keys, height, given>>

\* Whitelist::freeze and update_admins are those of the whitelist.
Delegated(s) ==
  /\ Freeze(s) \/ \E list \in Lists : UpdateAdmins(s, list)
  /\ Call(s)
  /\ UNCHANGED <<keys, given>>

\* External: the chain.  What an address was given counts until it expires.
NewBlock ==
  /\ height < MaxHeight
  /\ height' = height + 1
  /\ given' = [a \in Addresses |-> [d \in Denoms |->
                 IF \E h \in Stored(a).expires : height' >= h THEN 0 ELSE given[a][d]]]
  /\ sent' = <<>>
  /\ UNCHANGED <<whitelist, by, answer, keys>>

Init == /\ \E list \in Lists, m \in BOOLEAN : Instantiated(list, m)
        /\ by \in Addresses /\ answer = "Ok"
        /\ permissions = <<>> /\ allowances = <<>>
        /\ height = 0
        /\ given = [a \in Addresses |-> [d \in Denoms |-> 0]]
        /\ sent = <<>>

Granting(s) ==
  \E spender \in Spenders :
    \/ \E c \in Coins, e \in Option(Expirations) :
         IncreaseAllowance(s, spender, c, e) \/ DecreaseAllowance(s, spender, c, e)
    \/ \E p \in Permissions : SetPermissions(s, spender, p)

Next == \/ \E s \in Addresses :
             Delegated(s) \/ Granting(s) \/ \E msgs \in BoundedSeq(Messages, MaxMessages) : Execute(s, msgs)
        \/ NewBlock

Spec == Init /\ [][Next]_vars
-----------------------------------------------------------------------------
Balances == UNION {[held -> 0..MaxUint] : held \in SUBSET Denoms}
Maps(f, values) == DOMAIN f \subseteq Addresses /\ f \in [DOMAIN f -> values]

TypeOK == /\ WhitelistTypeOK
          /\ Maps(permissions, Permissions)
          /\ Maps(allowances, [balance : Balances, expires : SUBSET Nat])
          /\ height \in 0..MaxHeight

\* What an address may send of a denomination now is what admins added and have not
\* taken back since its allowance last expired: nothing that expired ever counts
\* again, and nothing granted is lost, however increases, decreases, new expirations
\* and blocks follow on each other.
NetOfGrants ==
  \A a \in Addresses, d \in Denoms :
    given[a][d] = IF Expired(Stored(a).expires) THEN 0 ELSE Held(Stored(a).balance, d)

\* Whoever is not an admin only makes the contract dispatch messages that are each
\* covered by what admins have left this address, or by its permissions; one message
\* that is not stops all of them.
OnlyGranted ==
  [][\A k \in DOMAIN sent' : LET m == sent'[k] IN
       \/ IsAdmin(by')
       \/ m.kind = "send" /\ \A d \in Denoms : Total(m.coins, d) <= given[by'][d]
       \/ by' \in DOMAIN permissions /\ Asks(m) \in permissions[by']]_vars
=============================================================================
