------------------------------ MODULE Cw20Base ------------------------------
(***************************************************************************)
(* The token contract of examples/contracts/cw20-base: balances, supply,   *)
(* minter, allowances kept twice (by owner and by spender), the block      *)
(* height that allowances expire at, and the migration, also from the      *)
(* versions that kept them once.                                           *)
(*                                                                         *)
(* A call is one step: the chain drops whatever a failed or panicking call *)
(* has written, so a refused call changes nothing but `last`.  An Option   *)
(* is a set of at most one element.                                        *)
(***************************************************************************)
EXTENDS Naturals, Sequences, FiniteSets, Functions

CONSTANTS
  Accounts,
  MaxUint,       \* Uint128::MAX
  MaxHeight,     \* bound: the last block considered
  Expirations,   \* the Expiration arguments: {} is Never, {h} is AtHeight(h)
  Spenders,      \* bound: the accounts allowances are given to
  Minters, Caps, \* bound: the minters and caps of `mint` arguments
  InitialRows,   \* the initial_balances arguments: sequences of [address, amount]
  LegacyTokens   \* tokens that run other code:
                 \* [version, balances, mint, allowances, allowances_spender]

Amount == 0..MaxUint
Option(S) == {{}} \cup {{x} : x \in S}
MinterData == [minter : Minters, cap : Option(Caps)]

ASSUME MaxUintAssumption == MaxUint \in Nat
ASSUME MaxHeightAssumption == MaxHeight \in Nat
ASSUME AccountsAssumption == Spenders \subseteq Accounts /\ Minters \subseteq Accounts
ASSUME CapsAssumption == Caps \subseteq Amount
ASSUME ExpirationsAssumption == \A e \in Expirations : e \subseteq Nat

VARIABLES
  version,             \* "none", "current" once this code runs the token, else what
                       \* other code has stored for cw2: "older" for a version up to
                       \* 0.5.0, "newer" for a later one, "foreign" for another name
  balances,            \* account |-> amount, for the keys in storage
  total_supply, mint,  \* token_info
  allowances,          \* <<owner, spender>> |-> [allowance, expires]
  allowances_spender,  \* <<spender, owner>> |-> [allowance, expires]
  height,              \* block height
  last                 \* the last call: [sender, amount, result, notify]

token == <<balances, total_supply, mint>>
grants == <<allowances, allowances_spender>>
vars == <<version, token, grants, height, last>>

Expired(expires) == \E h \in expires : height >= h

Put(f, k, v) == [x \in DOMAIN f \cup {k} |-> IF x = k THEN v ELSE f[x]]
Remove(f, k) == [x \in DOMAIN f \ {k} |-> f[x]]
Balance(a) == IF a \in DOMAIN balances THEN balances[a] ELSE 0
NoGrant == [allowance |-> 0, expires |-> {}]
Grant(map, k) == IF k \in DOMAIN map THEN map[k] ELSE NoGrant

Sum(f) == FoldFunction(LAMBDA x, y : x + y, 0, f)

IsBalanceMap(map) == /\ DOMAIN map \subseteq Accounts
                     /\ \A a \in DOMAIN map : map[a] \in Amount
GrantType == [allowance : Amount, expires : SUBSET Nat]
IsGrantMap(map) == /\ DOMAIN map \subseteq Accounts \X Accounts
                   /\ \A k \in DOMAIN map : map[k] \in GrantType

ASSUME RowsAssumption == InitialRows \subseteq Seq([address : Accounts, amount : Amount])

\* The keys under which the other map has the entries of this one.
Turned(map) == {<<k[2], k[1]>> : k \in DOMAIN map}

\* Other code kept the books, too; what it listed by spender, if anything, it listed
\* by owner.
ASSUME LegacyAssumption ==
  \A t \in LegacyTokens :
    /\ t.version \in {"older", "newer", "foreign"}
    /\ IsBalanceMap(t.balances) /\ IsFiniteSet(DOMAIN t.balances)
    /\ Sum(t.balances) \in Amount
    /\ t.mint \in Option(MinterData)
    /\ \A d \in t.mint : \A limit \in d.cap : Sum(t.balances) <= limit
    /\ IsGrantMap(t.allowances) /\ IsGrantMap(t.allowances_spender)
    /\ \A a \in Accounts : <<a, a>> \notin DOMAIN t.allowances
    /\ Turned(t.allowances_spender) \subseteq DOMAIN t.allowances
-----------------------------------------------------------------------------
\* How a call ends.  A refused one has no effect, a granted one may ask the chain
\* to notify a contract (Cw20ReceiveMsg).
Answer(s, n, result, notify) ==
  last' = [sender |-> s, amount |-> n, result |-> result, notify |-> notify]
Ok(s, n) == Answer(s, n, "Ok", {})
Refuse(s, n, error) == /\ Answer(s, n, error, {})
                       /\ UNCHANGED <<version, token, grants, height>>

\* Fault: the subtraction is not checked.
CanMoveUnchecked(o, r, n) == o = r \/ Balance(r) + n <= MaxUint

\* balances.update(owner, checked_sub), then balances.update(recipient, + amount)
CanMove(o, r, n) == /\ n <= Balance(o)
                    /\ o = r \/ Balance(r) + n <= MaxUint

\* Fault: the recipient is not credited.
MovedDebitOnly(o, r, n) == Put(balances, o, Balance(o) - n)

\* Fault: both balances are read before either is written.
MovedAfterReads(o, r, n) == Put(Put(balances, o, Balance(o) - n), r, Balance(r) + n)

Moved(o, r, n) ==
  LET debited == Put(balances, o, Balance(o) - n)
  IN Put(debited, r, n + IF r \in DOMAIN debited THEN debited[r] ELSE 0)

CanBurn(o, n) == n <= Balance(o) /\ n <= total_supply
Burned(o, n) == /\ balances' = Put(balances, o, Balance(o) - n)
                /\ total_supply' = total_supply - n
                /\ UNCHANGED mint

\* Fault: owner and spender change places.
StoreSwapped(o, s, entry, reverse) ==
  /\ allowances' = Put(allowances, <<s, o>>, entry)
  /\ allowances_spender' = Put(allowances_spender, <<o, s>>, reverse)

Store(o, s, entry, reverse) ==
  /\ allowances' = Put(allowances, <<o, s>>, entry)
  /\ allowances_spender' = Put(allowances_spender, <<s, o>>, reverse)

\* deduct_allowance updates the two maps, each from its own entry.
Both(o, s) == {Grant(allowances, <<o, s>>), Grant(allowances_spender, <<s, o>>)}
Granted(o, s) == <<o, s>> \in DOMAIN allowances /\ <<s, o>> \in DOMAIN allowances_spender

\* Fault: an expired allowance can be spent.
CanDeductExpired(o, s, n) == Granted(o, s) /\ \A a \in Both(o, s) : n <= a.allowance

\* Fault: the amount is not compared with the allowance.
CanDeductAny(o, s, n) == Granted(o, s) /\ \A a \in Both(o, s) : ~Expired(a.expires)

CanDeduct(o, s, n) == /\ Granted(o, s)
                      /\ \A a \in Both(o, s) : ~Expired(a.expires) /\ n <= a.allowance
DeductError(o, s) == IF ~Granted(o, s) THEN "NoAllowance"
                     ELSE IF \E a \in Both(o, s) : Expired(a.expires) THEN "Expired"
                     ELSE "Overflow"
Lowered(a, n) == [a EXCEPT !.allowance = @ - n]
Deducted(o, s, n) == Store(o, s, Lowered(allowances[<<o, s>>], n),
                                 Lowered(allowances_spender[<<s, o>>], n))
-----------------------------------------------------------------------------
NoToken == /\ balances = <<>> /\ total_supply = 0 /\ mint = {}
           /\ allowances = <<>> /\ allowances_spender = <<>>

Init == /\ \/ version = "none" /\ NoToken
           \/ \E t \in LegacyTokens :
                /\ version = t.version
                /\ balances = t.balances /\ total_supply = Sum(t.balances) /\ mint = t.mint
                /\ allowances = t.allowances /\ allowances_spender = t.allowances_spender
        /\ height = 0
        /\ last = [sender |-> {}, amount |-> 0, result |-> "Ok", notify |-> {}]

Live == version = "current"

\* validate_accounts; the sum must fit into a Uint128 and under the cap.
Addresses(rows) == {rows[k].address : k \in DOMAIN rows}
Distinct(rows) == \A j, k \in DOMAIN rows : rows[j].address = rows[k].address => j = k
Supply(rows) == Sum([k \in DOMAIN rows |-> rows[k].amount])

Instantiate(rows, m) ==
  /\ version = "none"
  /\ Distinct(rows)
  /\ Supply(rows) \in Amount
  /\ \A d \in m : \A limit \in d.cap : Supply(rows) <= limit
  /\ version' = "current"
  /\ balances' = [a \in Addresses(rows) |->
                    rows[CHOOSE k \in DOMAIN rows : rows[k].address = a].amount]
  /\ total_supply' = Supply(rows)
  /\ mint' = m
  /\ UNCHANGED <<grants, height, last>>

\* The entries by owner, saved over what there is by spender.
\* Fault: saved with the keys they have by owner.
WithUnreversed == [k \in DOMAIN allowances_spender \cup DOMAIN allowances |->
                     IF k \in DOMAIN allowances THEN allowances[k] ELSE allowances_spender[k]]

WithReversed == [k \in DOMAIN allowances_spender \cup Turned(allowances) |->
                   IF k \in Turned(allowances) THEN allowances[<<k[2], k[1]>>]
                   ELSE allowances_spender[k]]

\* External: ensure_from_older_version of cw2.  It refuses a token of another name and
\* one of a version after CONTRACT_VERSION, 0.5.0, and stores CONTRACT_VERSION.
VersionError == CASE version = "foreign" -> {"Cannot migrate from another contract"}
                  [] version = "newer" -> {"Cannot migrate from a newer version"}
                  [] OTHER -> {}

\* A version that is not refused is before 0.14.0, so every migration that succeeds
\* builds the map by spender, of a token that has it, too.  The chain lets the admin
\* of the contract migrate it, who may be anybody.
Migrate(s) ==
  /\ version # "none"
  /\ \/ \E error \in VersionError : Refuse(s, 0, error)
     \/ /\ VersionError = {}
        /\ version' = "current"
        /\ allowances_spender' = WithReversed
        /\ Ok(s, 0)
        /\ UNCHANGED <<token, allowances, height>>

\* transfer and send differ in the message to the recipient.
Transfer(s, r, n, notify) ==
  /\ Live
  /\ \/ n = 0 /\ Refuse(s, n, "InvalidZeroAmount")
     \/ n # 0 /\ ~CanMove(s, r, n) /\ Refuse(s, n, "Overflow")
     \/ /\ n # 0 /\ CanMove(s, r, n)
        /\ balances' = Moved(s, r, n)
        /\ Answer(s, n, "Ok", notify)
        /\ UNCHANGED <<version, total_supply, mint, grants, height>>

Burn(s, n) ==
  /\ Live
  /\ \/ n = 0 /\ Refuse(s, n, "InvalidZeroAmount")
     \/ n # 0 /\ ~CanBurn(s, n) /\ Refuse(s, n, "Overflow")
     \/ /\ n # 0 /\ CanBurn(s, n)
        /\ Burned(s, n)
        /\ Ok(s, n)
        /\ UNCHANGED <<version, grants, height>>

\* Fault: the cap is compared with the amount alone.
UnderCapAmount(n) == \A d \in mint : \A limit \in d.cap : n <= limit

UnderCap(n) == \A d \in mint : \A limit \in d.cap : total_supply + n <= limit

IsMinter(s) == \E d \in mint : d.minter = s

Mint(s, r, n) ==
  LET overflow == \/ total_supply + n > MaxUint
                  \/ UnderCap(n) /\ Balance(r) + n > MaxUint
  IN
  /\ Live
  /\ \/ n = 0 /\ Refuse(s, n, "InvalidZeroAmount")
     \/ n # 0 /\ ~IsMinter(s) /\ Refuse(s, n, "Unauthorized")
     \/ n # 0 /\ IsMinter(s) /\ overflow /\ Refuse(s, n, "Overflow")
     \/ n # 0 /\ IsMinter(s) /\ ~overflow /\ ~UnderCap(n) /\ Refuse(s, n, "CannotExceedCap")
     \/ /\ n # 0 /\ IsMinter(s) /\ ~overflow /\ UnderCap(n)
        /\ total_supply' = total_supply + n
        /\ balances' = Put(balances, r, Balance(r) + n)
        /\ Ok(s, n)
        /\ UNCHANGED <<version, mint, grants, height>>

\* Fault: a new minter starts without a cap.
MinterWithoutCap(minter) == {[minter |-> a, cap |-> {}] : a \in minter}

NewMinter(minter) == UNION {{[minter |-> a, cap |-> d.cap] : a \in minter} : d \in mint}

UpdateMinter(s, minter) ==
  /\ Live
  /\ \/ ~IsMinter(s) /\ Refuse(s, 0, "Unauthorized")
     \/ /\ IsMinter(s)
        /\ mint' = NewMinter(minter)
        /\ Ok(s, 0)
        /\ UNCHANGED <<version, balances, total_supply, grants, height>>
-----------------------------------------------------------------------------
Until(a, expires) == IF expires = {} THEN a.expires ELSE UNION expires

\* increase_allowance's update_fn
Raised(a, n, expires) ==
  [allowance |-> a.allowance + n, expires |-> Until(a, expires)]

IncreaseAllowance(o, s, n, expires) ==
  LET invalid == \E e \in expires : Expired(e)
      fits == \A a \in Both(o, s) : a.allowance + n <= MaxUint
  IN
  /\ Live
  /\ \/ s = o /\ Refuse(o, n, "CannotSetOwnAccount")
     \/ s # o /\ ~fits /\ Refuse(o, n, "Overflow")
     \/ s # o /\ fits /\ invalid /\ Refuse(o, n, "InvalidExpiration")
     \/ /\ s # o /\ fits /\ ~invalid
        /\ Store(o, s, Raised(Grant(allowances, <<o, s>>), n, expires),
                       Raised(Grant(allowances_spender, <<s, o>>), n, expires))
        /\ Ok(o, n)
        /\ UNCHANGED <<version, token, height>>

\* The new entry is computed from the owner's map and stored in both; the
\* expiration is looked at only when something is left.
DecreaseAllowance(o, s, n, expires) ==
  LET known == <<o, s>> \in DOMAIN allowances
      a == Grant(allowances, <<o, s>>)
      lowered == [allowance |-> a.allowance - n, expires |-> Until(a, expires)]
      invalid == \E e \in expires : Expired(e)
  IN
  /\ Live
  /\ \/ s = o /\ Refuse(o, n, "CannotSetOwnAccount")
     \/ s # o /\ ~known /\ Refuse(o, n, "NotFound")
     \/ s # o /\ known /\ n < a.allowance /\ invalid /\ Refuse(o, n, "InvalidExpiration")
     \/ /\ s # o /\ known
        /\ \/ n < a.allowance /\ ~invalid /\ Store(o, s, lowered, lowered)
           \/ /\ n >= a.allowance
              /\ allowances' = Remove(allowances, <<o, s>>)
              /\ allowances_spender' = Remove(allowances_spender, <<s, o>>)
        /\ Ok(o, n)
        /\ UNCHANGED <<version, token, height>>

\* A transfer of an account to itself is not looked at; the owner needs no allowance.
TransferFrom(s, o, r, n) ==
  /\ Live
  /\ \/ o = r /\ Ok(s, n) /\ UNCHANGED <<version, token, grants, height>>
     \/ o # r /\ s # o /\ ~CanDeduct(o, s, n) /\ Refuse(s, n, DeductError(o, s))
     \/ o # r /\ (s # o => CanDeduct(o, s, n)) /\ ~CanMove(o, r, n) /\ Refuse(s, n, "Overflow")
     \/ /\ o # r /\ (s # o => CanDeduct(o, s, n)) /\ CanMove(o, r, n)
        /\ IF s # o THEN Deducted(o, s, n) ELSE UNCHANGED grants
        /\ balances' = Moved(o, r, n)
        /\ Ok(s, n)
        /\ UNCHANGED <<version, total_supply, mint, height>>

\* Fault: the recipient is told of the owner.
SendFromAsOwner(s, o, r, n) ==
  /\ Live /\ CanDeduct(o, s, n) /\ CanMove(o, r, n)
  /\ Deducted(o, s, n)
  /\ balances' = Moved(o, r, n)
  /\ Answer(o, n, "Ok", {r})
  /\ UNCHANGED <<version, total_supply, mint, height>>

SendFrom(s, o, r, n) ==
  /\ Live
  /\ \/ ~CanDeduct(o, s, n) /\ Refuse(s, n, DeductError(o, s))
     \/ CanDeduct(o, s, n) /\ ~CanMove(o, r, n) /\ Refuse(s, n, "Overflow")
     \/ /\ CanDeduct(o, s, n) /\ CanMove(o, r, n)
        /\ Deducted(o, s, n)
        /\ balances' = Moved(o, r, n)
        /\ Answer(s, n, "Ok", {r})
        /\ UNCHANGED <<version, total_supply, mint, height>>

BurnFrom(s, o, n) ==
  /\ Live
  /\ \/ ~CanDeduct(o, s, n) /\ Refuse(s, n, DeductError(o, s))
     \/ CanDeduct(o, s, n) /\ ~CanBurn(o, n) /\ Refuse(s, n, "Overflow")
     \/ /\ CanDeduct(o, s, n) /\ CanBurn(o, n)
        /\ Deducted(o, s, n)
        /\ Burned(o, n)
        /\ Ok(s, n)
        /\ UNCHANGED <<version, height>>

\* External: the chain.
NewBlock == /\ height < MaxHeight
            /\ height' = height + 1
            /\ UNCHANGED <<version, token, grants, last>>

Call(s, n) ==
  \/ Burn(s, n)
  \/ \E r \in Accounts : Transfer(s, r, n, {}) \/ Transfer(s, r, n, {r}) \/ Mint(s, r, n)
  \/ \E p \in Spenders, e \in Option(Expirations) :
        IncreaseAllowance(s, p, n, e) \/ DecreaseAllowance(s, p, n, e)
  \/ \E o \in Accounts : BurnFrom(s, o, n)
  \/ \E o, r \in Accounts : TransferFrom(s, o, r, n) \/ SendFrom(s, o, r, n)

Next == \/ \E rows \in InitialRows, m \in Option(MinterData) : Instantiate(rows, m)
        \/ \E s \in Accounts : Migrate(s)
        \/ \E s \in Accounts, n \in Amount : Call(s, n)
        \/ \E s \in Accounts, minter \in Option(Minters) : UpdateMinter(s, minter)
        \/ NewBlock

Spec == Init /\ [][Next]_vars
-----------------------------------------------------------------------------
TypeOK ==
  /\ version \in {"none", "older", "newer", "foreign", "current"}
  /\ IsBalanceMap(balances)
  /\ total_supply \in Amount
  /\ mint \in Option(MinterData)
  /\ IsGrantMap(allowances) /\ IsGrantMap(allowances_spender)
  /\ height \in 0..MaxHeight

\* The supply the token reports is the sum of the balances, whatever transfers an
\* account to itself, mints, burns or spends for another.
Conserved == total_supply = Sum(balances)

\* Once this code runs a token, an allowance is listed under its spender exactly
\* as under its owner, and nobody has an allowance on the own account: after any calls,
\* the migration of a token of other code, and those of a token in use.
Mirrored ==
  Live =>
    /\ \A o, s \in Accounts :
         /\ <<o, s>> \in DOMAIN allowances <=> <<s, o>> \in DOMAIN allowances_spender
         /\ <<o, s>> \in DOMAIN allowances =>
              allowances_spender[<<s, o>>] = allowances[<<o, s>>]
    /\ \A a \in Accounts : <<a, a>> \notin DOMAIN allowances

\* While there is a minter with a cap the supply stays under it.
CapHolds == \A d \in mint : \A limit \in d.cap : total_supply <= limit

\* Tokens leave an account only in a call of its owner, or in a call of a spender
\* whose allowance had not expired and shrinks by the same amount; new tokens
\* appear only in a call of the minter.
Authorised ==
  [][version = "current" =>
       /\ \A o \in DOMAIN balances :
            Balance(o)' < balances[o] /\ last'.sender # o =>
              LET k == <<o, last'.sender>>
              IN /\ k \in DOMAIN allowances
                 /\ ~Expired(allowances[k].expires)
                 /\ allowances'[k].allowance + balances[o]
                      = allowances[k].allowance + Balance(o)'
       /\ total_supply' > total_supply => IsMinter(last'.sender)]_vars

Spendable(o, s) == LET a == Grant(allowances, <<o, s>>)
                   IN IF Expired(a.expires) THEN 0 ELSE a.allowance

\* What a spender can take grows only in a call of the owner: not by waiting, by a
\* migration, or by anything the spender does.
GrownByOwner ==
  [][\A o, s \in Accounts : Spendable(o, s)' > Spendable(o, s) => last'.sender = o]_vars

\* Only the minter hands the right to mint on, with the same cap; given up, nobody
\* has it again.
MinterRights ==
  [][version = "current" /\ mint' # mint =>
       /\ IsMinter(last'.sender)
       /\ \A d \in mint, f \in mint' : f.cap = d.cap]_vars
=============================================================================
