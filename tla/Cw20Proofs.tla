----------------------------- MODULE Cw20Proofs -----------------------------
(***************************************************************************)
(* Proofs about cw20-base for any accounts, amounts, caps and expirations:  *)
(* of Cw20Base its books, then that what a call may do depends on who      *)
(* makes it; of Cw20Send what recipients hold in the middle of a           *)
(* transaction, and what a transaction may cost.                           *)
(***************************************************************************)
EXTENDS Cw20Send, NaturalLemmas

\* Not even a token of other code has an allowance on the own account, or one that is
\* listed by spender only.
Legacy == /\ \A a \in Accounts : <<a, a>> \notin DOMAIN allowances
          /\ ~Live => Turned(allowances_spender) \subseteq DOMAIN allowances
          /\ version = "none" => mint = {} /\ allowances = <<>> /\ allowances_spender = <<>>

IInv == TypeOK /\ CapHolds /\ Mirrored /\ Legacy

-----------------------------------------------------------------------------
\* The storage operations: save and remove of a key of a Map.
LEMMA PutBalance ==
  ASSUME NEW map, IsBalanceMap(map), NEW a \in Accounts, NEW n \in Amount
  PROVE  IsBalanceMap(Put(map, a, n))
BY DEF Put, IsBalanceMap

LEMMA PutGrant ==
  ASSUME NEW map, IsGrantMap(map), NEW k \in Accounts \X Accounts, NEW g \in GrantType
  PROVE  IsGrantMap(Put(map, k, g))
BY DEF Put, IsGrantMap

LEMMA RemoveGrant ==
  ASSUME NEW map, IsGrantMap(map), NEW k
  PROVE  IsGrantMap(Remove(map, k))
BY DEF Remove, IsGrantMap

\* A missing entry counts as the default.
LEMMA GrantTyped ==
  ASSUME NEW map, IsGrantMap(map), NEW k
  PROVE  Grant(map, k) \in GrantType
BY MaxUintAssumption DEF Grant, NoGrant, IsGrantMap, GrantType, Amount

LEMMA BalanceTyped ==
  ASSUME TypeOK, NEW a
  PROVE  Balance(a) \in Amount
BY MaxUintAssumption DEF Balance, TypeOK, IsBalanceMap, Amount

-----------------------------------------------------------------------------
\* A checked move of tokens leaves every balance in range.
LEMMA MovedTyped ==
  ASSUME TypeOK, NEW o \in Accounts, NEW r \in Accounts, NEW n \in Amount, CanMove(o, r, n)
  PROVE  IsBalanceMap(Moved(o, r, n))
<1> DEFINE debited == Put(balances, o, Balance(o) - n)
           before == IF r \in DOMAIN debited THEN debited[r] ELSE 0
<1>1. Balance(o) \in Amount /\ Balance(r) \in Amount
  BY BalanceTyped
<1>2. Balance(o) - n \in Amount
  BY <1>1, MaxUintAssumption DEF CanMove, Amount
<1>3. IsBalanceMap(debited)
  BY <1>2, PutBalance DEF TypeOK
<1>4. before = IF r = o THEN Balance(o) - n ELSE Balance(r)
  BY DEF Balance, Put
<1>5. n + before \in Amount
  BY <1>1, <1>2, <1>4, MaxUintAssumption DEF CanMove, Amount
<1>6. IsBalanceMap(Put(debited, r, n + before))
  BY <1>3, <1>5, PutBalance
<1>7. QED
  BY <1>6 DEF Moved

LEMMA BurnedTyped ==
  ASSUME TypeOK, NEW o \in Accounts, NEW n \in Amount, CanBurn(o, n), Burned(o, n)
  PROVE  /\ IsBalanceMap(balances')
         /\ total_supply' \in Amount
         /\ total_supply' <= total_supply
<1>1. Balance(o) \in Amount
  BY BalanceTyped
<1>2. Balance(o) - n \in Amount
  BY <1>1, MaxUintAssumption DEF CanBurn, Amount
<1>3. IsBalanceMap(balances')
  BY <1>2, PutBalance DEF Burned, TypeOK
<1>4. total_supply' \in Amount /\ total_supply' <= total_supply
  BY MaxUintAssumption DEF Burned, CanBurn, TypeOK, Amount
<1>5. QED
  BY <1>3, <1>4

\* Storing one grant in both maps keeps them each other's mirror.
LEMMA StoreMirrors ==
  ASSUME TypeOK, Mirrored, Live, NEW o \in Accounts, NEW s \in Accounts, o # s,
         NEW g \in GrantType, Store(o, s, g, g), version' = version
  PROVE  IsGrantMap(allowances)' /\ IsGrantMap(allowances_spender)' /\ Mirrored'
<1>1. IsGrantMap(allowances)' /\ IsGrantMap(allowances_spender)'
  BY PutGrant DEF Store, TypeOK
<1>2. ASSUME NEW a \in Accounts
      PROVE  <<a, a>> \notin DOMAIN allowances'
  BY DEF Put, Store, Mirrored
<1>3. ASSUME NEW a \in Accounts, NEW b \in Accounts
      PROVE  /\ <<a, b>> \in DOMAIN allowances' <=> <<b, a>> \in DOMAIN allowances_spender'
             /\ <<a, b>> \in DOMAIN allowances' =>
                  allowances_spender'[<<b, a>>] = allowances'[<<a, b>>]
  <2>1. CASE a = o /\ b = s
    BY <2>1 DEF Put, Store
  <2>2. CASE ~(a = o /\ b = s)
    <3>1. <<a, b>> # <<o, s>> /\ <<b, a>> # <<s, o>>
      BY <2>2
    <3>2. QED
      BY <3>1 DEF Put, Store, Mirrored
  <2>3. QED
    BY <2>1, <2>2
<1>4. QED
  BY <1>1, <1>2, <1>3 DEF Mirrored

\* In mirrored books both lookups of a grant agree.
LEMMA SameGrant ==
  ASSUME Mirrored, Live, NEW o \in Accounts, NEW s \in Accounts
  PROVE  Grant(allowances, <<o, s>>) = Grant(allowances_spender, <<s, o>>)
BY DEF Mirrored, Grant

\* deduct_allowance lowers both entries alike.
LEMMA DeductedMirrors ==
  ASSUME TypeOK, Mirrored, Live, NEW o \in Accounts, NEW s \in Accounts, NEW n \in Amount,
         CanDeduct(o, s, n), Deducted(o, s, n), version' = version
  PROVE  IsGrantMap(allowances)' /\ IsGrantMap(allowances_spender)' /\ Mirrored'
<1> DEFINE g == Lowered(allowances[<<o, s>>], n)
<1>1. <<o, s>> \in DOMAIN allowances /\ <<s, o>> \in DOMAIN allowances_spender
  BY DEF CanDeduct, Granted
<1>2. o # s
  BY <1>1 DEF Mirrored
<1>3. allowances_spender[<<s, o>>] = allowances[<<o, s>>]
  BY <1>1 DEF Mirrored
<1>4. allowances[<<o, s>>] \in GrantType
  BY <1>1 DEF TypeOK, IsGrantMap
<1>5. n <= allowances[<<o, s>>].allowance
  BY <1>1 DEF CanDeduct, Both, Grant
<1>6. g \in GrantType
  BY <1>4, <1>5, MaxUintAssumption DEF Lowered, GrantType, Amount
<1>7. Store(o, s, g, g)
  BY <1>3 DEF Deducted
<1>8. QED
  BY <1>2, <1>6, <1>7, StoreMirrors

-----------------------------------------------------------------------------
\* A call that is refused, and a new block, leave the token as it is.
LEMMA Kept ==
  ASSUME IInv, UNCHANGED <<version, token, grants>>, height' \in 0..MaxHeight
  PROVE  IInv'
BY DEF IInv, TypeOK, CapHolds, Mirrored, Legacy, token, grants, Live

\* What a call to a running token has to show.
LEMMA LiveStep ==
  ASSUME IInv, Live, UNCHANGED <<version, height>>,
         IsBalanceMap(balances)', total_supply' \in Amount,
         mint' \in Option(MinterData), CapHolds',
         IsGrantMap(allowances)', IsGrantMap(allowances_spender)', Mirrored'
  PROVE  IInv'
BY DEF IInv, TypeOK, Legacy, Mirrored, Live

LEMMA CapKept ==
  ASSUME TypeOK, CapHolds, UNCHANGED mint, total_supply' \in Amount,
         total_supply' <= total_supply
  PROVE  CapHolds'
<1> SUFFICES ASSUME NEW d \in mint, NEW limit \in d.cap
             PROVE  total_supply' <= limit
  BY DEF CapHolds
<1>1. d \in MinterData
  BY DEF TypeOK, Option
<1>2. limit \in Amount
  BY <1>1, CapsAssumption DEF MinterData, Option
<1>3. total_supply <= limit
  BY DEF CapHolds
<1>4. QED
  BY <1>2, <1>3, MaxUintAssumption DEF TypeOK, Amount

LEMMA GrantsKept ==
  ASSUME TypeOK, Mirrored, UNCHANGED <<version, grants>>
  PROVE  IsGrantMap(allowances)' /\ IsGrantMap(allowances_spender)' /\ Mirrored'
BY DEF TypeOK, Mirrored, Live, grants

\* A new or lowered grant is one.
LEMMA RaisedTyped ==
  ASSUME NEW g \in GrantType, NEW n \in Amount, NEW e \in Option(Expirations),
         g.allowance + n <= MaxUint
  PROVE  Raised(g, n, e) \in GrantType
<1>1. Until(g, e) \in SUBSET Nat
  BY ExpirationsAssumption DEF Until, Option, GrantType
<1>2. g.allowance + n \in Amount
  BY MaxUintAssumption DEF GrantType, Amount
<1>3. QED
  BY <1>1, <1>2 DEF Raised, GrantType
-----------------------------------------------------------------------------
\* The messages that move tokens and leave the supply alone.
LEMMA TransferPreserves ==
  ASSUME IInv, NEW s \in Accounts, NEW r \in Accounts, NEW n \in Amount,
         NEW notify, Transfer(s, r, n, notify)
  PROVE  IInv'
<1>1. Live /\ TypeOK /\ CapHolds /\ Mirrored
  BY DEF Transfer, IInv
<1>2. ASSUME NEW error, Refuse(s, n, error)
      PROVE  IInv'
  BY <1>2, Kept DEF Refuse, IInv, TypeOK
<1>3. ASSUME CanMove(s, r, n), balances' = Moved(s, r, n),
             UNCHANGED <<version, total_supply, mint, grants, height>>
      PROVE  IInv'
  <2>1. IsBalanceMap(balances)'
    BY <1>1, <1>3, MovedTyped
  <2>2. CapHolds' /\ total_supply' \in Amount /\ mint' \in Option(MinterData)
    BY <1>1, <1>3 DEF CapHolds, TypeOK
  <2>3. QED
    BY <1>1, <1>3, <2>1, <2>2, GrantsKept, LiveStep DEF Live
<1>4. QED
  BY <1>2, <1>3 DEF Transfer

LEMMA BurnPreserves ==
  ASSUME IInv, NEW s \in Accounts, NEW n \in Amount, Burn(s, n)
  PROVE  IInv'
<1>1. Live /\ TypeOK /\ CapHolds /\ Mirrored
  BY DEF Burn, IInv
<1>2. ASSUME NEW error, Refuse(s, n, error)
      PROVE  IInv'
  BY <1>2, Kept DEF Refuse, IInv, TypeOK
<1>3. ASSUME CanBurn(s, n), Burned(s, n), UNCHANGED <<version, grants, height>>
      PROVE  IInv'
  <2>1. IsBalanceMap(balances)' /\ total_supply' \in Amount /\ total_supply' <= total_supply
    BY <1>1, <1>3, BurnedTyped
  <2>2. CapHolds' /\ mint' \in Option(MinterData)
    BY <1>1, <1>3, <2>1, CapKept DEF Burned, TypeOK
  <2>3. QED
    BY <1>1, <1>3, <2>1, <2>2, GrantsKept, LiveStep DEF Live
<1>4. QED
  BY <1>2, <1>3 DEF Burn

\* Minting checks the cap with the new supply.
LEMMA MintPreserves ==
  ASSUME IInv, NEW s \in Accounts, NEW r \in Accounts, NEW n \in Amount, Mint(s, r, n)
  PROVE  IInv'
<1>1. Live /\ TypeOK /\ CapHolds /\ Mirrored
  BY DEF Mint, IInv
<1>2. ASSUME NEW error, Refuse(s, n, error)
      PROVE  IInv'
  BY <1>2, Kept DEF Refuse, IInv, TypeOK
<1>3. ASSUME total_supply + n <= MaxUint, UnderCap(n), total_supply' = total_supply + n,
             Balance(r) + n <= MaxUint,
             balances' = Put(balances, r, Balance(r) + n),
             UNCHANGED <<version, mint, grants, height>>
      PROVE  IInv'
  <2>1. total_supply' \in Amount
    BY <1>1, <1>3, MaxUintAssumption DEF TypeOK, Amount
  <2>2. Balance(r) + n \in Amount
    BY <1>1, <1>3, BalanceTyped, MaxUintAssumption DEF Amount
  <2>3. IsBalanceMap(balances)'
    BY <1>1, <1>3, <2>2, PutBalance DEF TypeOK
  <2>4. CapHolds' /\ mint' \in Option(MinterData)
    BY <1>1, <1>3 DEF CapHolds, UnderCap, TypeOK
  <2>5. QED
    BY <1>1, <1>3, <2>1, <2>3, <2>4, GrantsKept, LiveStep DEF Live
<1>4. total_supply \in Amount /\ Balance(r) \in Amount
  BY <1>1, BalanceTyped DEF TypeOK
<1>5. QED
  BY <1>2, <1>3, <1>4, MaxUintAssumption DEF Mint, Amount

\* A new minter inherits the cap.
LEMMA UpdateMinterPreserves ==
  ASSUME IInv, NEW s \in Accounts, NEW minter \in Option(Minters), UpdateMinter(s, minter)
  PROVE  IInv'
<1>1. Live /\ TypeOK /\ CapHolds /\ Mirrored
  BY DEF UpdateMinter, IInv
<1>2. ASSUME Refuse(s, 0, "Unauthorized")
      PROVE  IInv'
  BY <1>2, Kept DEF Refuse, IInv, TypeOK
<1>3. ASSUME mint' = NewMinter(minter),
             UNCHANGED <<version, balances, total_supply, grants, height>>
      PROVE  IInv'
  <2>1. ASSUME NEW d \in mint, NEW a \in minter
        PROVE  NewMinter(minter) = {[minter |-> a, cap |-> d.cap]}
    <3>1. mint = {d} /\ minter = {a}
      BY <1>1 DEF TypeOK, Option
    <3>2. QED
      BY <3>1 DEF NewMinter
  <2>2. NewMinter(minter) = {} \/ \E d \in mint, a \in minter : TRUE
    BY DEF NewMinter
  <2>3. mint' \in Option(MinterData) /\ CapHolds'
    <3>1. CASE NewMinter(minter) = {}
      BY <1>3, <3>1 DEF Option, CapHolds
    <3>2. ASSUME NEW d \in mint, NEW a \in minter
          PROVE  mint' \in Option(MinterData) /\ CapHolds'
      <4>1. mint' = {[minter |-> a, cap |-> d.cap]}
        BY <1>3, <2>1
      <4>2. d \in MinterData /\ a \in Minters
        BY <1>1 DEF TypeOK, Option
      <4>3. [minter |-> a, cap |-> d.cap] \in MinterData
        BY <4>2 DEF MinterData
      <4>4. CapHolds'
        BY <1>1, <1>3, <4>1 DEF CapHolds
      <4>5. QED
        BY <4>1, <4>3, <4>4 DEF Option
    <3>3. QED
      BY <2>2, <3>1, <3>2
  <2>4. IsBalanceMap(balances)' /\ total_supply' \in Amount
    BY <1>1, <1>3 DEF TypeOK
  <2>5. QED
    BY <1>1, <1>3, <2>3, <2>4, GrantsKept, LiveStep DEF Live
<1>4. QED
  BY <1>2, <1>3 DEF UpdateMinter
-----------------------------------------------------------------------------
\* The messages that write allowances.
LEMMA GrantStep ==
  ASSUME IInv, Live, UNCHANGED <<version, token, height>>,
         IsGrantMap(allowances)', IsGrantMap(allowances_spender)', Mirrored'
  PROVE  IInv'
<1>1. CapHolds' /\ IsBalanceMap(balances)' /\ total_supply' \in Amount
                /\ mint' \in Option(MinterData)
  BY DEF IInv, TypeOK, CapHolds, token
<1>2. QED
  BY <1>1, LiveStep

LEMMA IncreasePreserves ==
  ASSUME IInv, NEW o \in Accounts, NEW s \in Spenders, NEW n \in Amount,
         NEW e \in Option(Expirations), IncreaseAllowance(o, s, n, e)
  PROVE  IInv'
<1> DEFINE a == Grant(allowances, <<o, s>>)
           b == Grant(allowances_spender, <<s, o>>)
<1>1. Live /\ TypeOK /\ Mirrored /\ s \in Accounts
  BY AccountsAssumption DEF IncreaseAllowance, IInv
<1>2. ASSUME NEW error, Refuse(o, n, error)
      PROVE  IInv'
  BY <1>2, Kept DEF Refuse, IInv, TypeOK
<1>3. ASSUME s # o, \A g \in Both(o, s) : g.allowance + n <= MaxUint,
             Store(o, s, Raised(a, n, e), Raised(b, n, e)),
             UNCHANGED <<version, token, height>>
      PROVE  IInv'
  <2>1. a = b /\ a \in GrantType /\ a \in Both(o, s)
    BY <1>1, SameGrant, GrantTyped DEF Both, TypeOK
  <2>2. Raised(a, n, e) \in GrantType
    BY <1>3, <2>1, RaisedTyped
  <2>3. IsGrantMap(allowances)' /\ IsGrantMap(allowances_spender)' /\ Mirrored'
    BY <1>1, <1>3, <2>1, <2>2, StoreMirrors
  <2>4. QED
    BY <1>1, <1>3, <2>3, GrantStep
<1>4. QED
  BY <1>2, <1>3 DEF IncreaseAllowance

LEMMA DecreasePreserves ==
  ASSUME IInv, NEW o \in Accounts, NEW s \in Spenders, NEW n \in Amount,
         NEW e \in Option(Expirations), DecreaseAllowance(o, s, n, e)
  PROVE  IInv'
<1> DEFINE a == Grant(allowances, <<o, s>>)
           lowered == [allowance |-> a.allowance - n, expires |-> Until(a, e)]
<1>1. Live /\ TypeOK /\ Mirrored /\ s \in Accounts
  BY AccountsAssumption DEF DecreaseAllowance, IInv
<1>2. ASSUME NEW error, Refuse(o, n, error)
      PROVE  IInv'
  BY <1>2, Kept DEF Refuse, IInv, TypeOK
<1>3. ASSUME s # o, n < a.allowance, Store(o, s, lowered, lowered),
             UNCHANGED <<version, token, height>>
      PROVE  IInv'
  <2>1. a \in GrantType
    BY <1>1, GrantTyped DEF TypeOK
  <2>2. Until(a, e) \in SUBSET Nat
    BY <2>1, ExpirationsAssumption DEF Until, Option, GrantType
  <2>3. a.allowance - n \in Amount
    BY <1>3, <2>1, MaxUintAssumption DEF GrantType, Amount
  <2>4. lowered \in GrantType
    BY <2>2, <2>3 DEF GrantType
  <2>5. QED
    BY <1>1, <1>3, <2>4, StoreMirrors, GrantStep
<1>4. ASSUME allowances' = Remove(allowances, <<o, s>>),
             allowances_spender' = Remove(allowances_spender, <<s, o>>),
             UNCHANGED <<version, token, height>>
      PROVE  IInv'
  <2>1. IsGrantMap(allowances)' /\ IsGrantMap(allowances_spender)'
    BY <1>1, <1>4, RemoveGrant DEF TypeOK
  <2>2. ASSUME NEW p \in Accounts, NEW q \in Accounts
        PROVE  /\ <<p, q>> \in DOMAIN allowances' <=> <<q, p>> \in DOMAIN allowances_spender'
               /\ <<p, q>> \in DOMAIN allowances' =>
                    allowances_spender'[<<q, p>>] = allowances'[<<p, q>>]
    <3>1. <<p, q>> = <<o, s>> <=> <<q, p>> = <<s, o>>
      OBVIOUS
    <3>2. QED
      BY <1>1, <1>4, <3>1 DEF Remove, Mirrored
  <2>3. \A p \in Accounts : <<p, p>> \notin DOMAIN allowances'
    BY <1>1, <1>4 DEF Remove, Mirrored
  <2>4. QED
    BY <1>1, <1>4, <2>1, <2>2, <2>3, GrantStep DEF Mirrored
<1>5. QED
  BY <1>2, <1>3, <1>4 DEF DecreaseAllowance
-----------------------------------------------------------------------------
\* The messages that spend an allowance.
LEMMA TransferFromPreserves ==
  ASSUME IInv, NEW s \in Accounts, NEW o \in Accounts, NEW r \in Accounts,
         NEW n \in Amount, TransferFrom(s, o, r, n)
  PROVE  IInv'
<1>1. Live /\ TypeOK /\ CapHolds /\ Mirrored
  BY DEF TransferFrom, IInv
<1>2. ASSUME UNCHANGED <<version, token, grants, height>>
      PROVE  IInv'
  BY <1>2, Kept DEF IInv, TypeOK
<1>3. ASSUME s # o => CanDeduct(o, s, n), CanMove(o, r, n),
             IF s # o THEN Deducted(o, s, n) ELSE UNCHANGED grants,
             balances' = Moved(o, r, n), UNCHANGED <<version, total_supply, mint, height>>
      PROVE  IInv'
  <2>1. IsGrantMap(allowances)' /\ IsGrantMap(allowances_spender)' /\ Mirrored'
    <3>1. CASE s # o
      BY <1>1, <1>3, <3>1, DeductedMirrors
    <3>2. CASE s = o
      BY <1>1, <1>3, <3>2, GrantsKept
    <3>3. QED
      BY <3>1, <3>2
  <2>2. IsBalanceMap(balances)'
    BY <1>1, <1>3, MovedTyped
  <2>3. CapHolds' /\ total_supply' \in Amount /\ mint' \in Option(MinterData)
    BY <1>1, <1>3 DEF CapHolds, TypeOK
  <2>4. QED
    BY <1>1, <1>3, <2>1, <2>2, <2>3, LiveStep
<1>4. QED
  BY <1>2, <1>3 DEF TransferFrom, Refuse

LEMMA SendFromPreserves ==
  ASSUME IInv, NEW s \in Accounts, NEW o \in Accounts, NEW r \in Accounts,
         NEW n \in Amount, SendFrom(s, o, r, n)
  PROVE  IInv'
<1>1. Live /\ TypeOK /\ CapHolds /\ Mirrored
  BY DEF SendFrom, IInv
<1>2. ASSUME UNCHANGED <<version, token, grants, height>>
      PROVE  IInv'
  BY <1>2, Kept DEF IInv, TypeOK
<1>3. ASSUME CanDeduct(o, s, n), CanMove(o, r, n), Deducted(o, s, n),
             balances' = Moved(o, r, n), UNCHANGED <<version, total_supply, mint, height>>
      PROVE  IInv'
  <2>1. IsGrantMap(allowances)' /\ IsGrantMap(allowances_spender)' /\ Mirrored'
    BY <1>1, <1>3, DeductedMirrors
  <2>2. IsBalanceMap(balances)'
    BY <1>1, <1>3, MovedTyped
  <2>3. CapHolds' /\ total_supply' \in Amount /\ mint' \in Option(MinterData)
    BY <1>1, <1>3 DEF CapHolds, TypeOK
  <2>4. QED
    BY <1>1, <1>3, <2>1, <2>2, <2>3, LiveStep
<1>4. QED
  BY <1>2, <1>3 DEF SendFrom, Refuse

LEMMA BurnFromPreserves ==
  ASSUME IInv, NEW s \in Accounts, NEW o \in Accounts, NEW n \in Amount, BurnFrom(s, o, n)
  PROVE  IInv'
<1>1. Live /\ TypeOK /\ CapHolds /\ Mirrored
  BY DEF BurnFrom, IInv
<1>2. ASSUME UNCHANGED <<version, token, grants, height>>
      PROVE  IInv'
  BY <1>2, Kept DEF IInv, TypeOK
<1>3. ASSUME CanDeduct(o, s, n), CanBurn(o, n), Deducted(o, s, n), Burned(o, n),
             UNCHANGED <<version, height>>
      PROVE  IInv'
  <2>1. IsGrantMap(allowances)' /\ IsGrantMap(allowances_spender)' /\ Mirrored'
    BY <1>1, <1>3, DeductedMirrors
  <2>2. IsBalanceMap(balances)' /\ total_supply' \in Amount /\ total_supply' <= total_supply
    BY <1>1, <1>3, BurnedTyped
  <2>3. CapHolds' /\ mint' \in Option(MinterData)
    BY <1>1, <1>3, <2>2, CapKept DEF Burned, TypeOK
  <2>4. QED
    BY <1>1, <1>3, <2>1, <2>2, <2>3, LiveStep
<1>4. QED
  BY <1>2, <1>3 DEF BurnFrom, Refuse
-----------------------------------------------------------------------------
\* A token comes to life by an instantiation, or, of other code, by its migration.
LEMMA InitEstablishes ==
  ASSUME Init
  PROVE  IInv
<1>1. IsBalanceMap(<<>>) /\ IsGrantMap(<<>>)
  BY DEF IsBalanceMap, IsGrantMap
<1>2. 0 \in Amount /\ height \in 0..MaxHeight /\ {} \in Option(MinterData)
  BY MaxUintAssumption, MaxHeightAssumption DEF Init, Amount, Option
<1>3. CASE version = "none" /\ NoToken
  BY <1>1, <1>2, <1>3 DEF NoToken, IInv, TypeOK, CapHolds, Mirrored, Legacy, Live, Turned
<1>4. ASSUME NEW t \in LegacyTokens,
             version = t.version, balances = t.balances, total_supply = Sum(t.balances),
             mint = t.mint, allowances = t.allowances, allowances_spender = t.allowances_spender
      PROVE  IInv
  <2>1. version \in {"older", "newer", "foreign"}
    BY <1>4, LegacyAssumption
  <2>2. TypeOK
    BY <1>2, <1>4, <2>1, LegacyAssumption DEF TypeOK
  <2>3. CapHolds
    BY <1>4, LegacyAssumption DEF CapHolds
  <2>4. Legacy
    BY <1>4, <2>1, LegacyAssumption DEF Legacy
  <2>5. ~Live
    BY <2>1 DEF Live
  <2>6. QED
    BY <2>2, <2>3, <2>4, <2>5 DEF IInv, Mirrored
<1>5. QED
  BY <1>3, <1>4 DEF Init

LEMMA RowsTyped ==
  ASSUME NEW rows \in InitialRows
  PROVE  /\ Len(rows) \in Nat /\ DOMAIN rows = 1..Len(rows)
         /\ \A k \in DOMAIN rows : rows[k].address \in Accounts /\ rows[k].amount \in Amount
<1> DEFINE Row == [address : Accounts, amount : Amount]
<1>1. rows \in Seq(Row)
  BY RowsAssumption
<1>2. Len(rows) \in Nat /\ DOMAIN rows = 1..Len(rows) /\ \A k \in DOMAIN rows : rows[k] \in Row
  <2> HIDE DEF Row
  <2>1. QED
    BY <1>1
<1>3. QED
  BY <1>2

LEMMA InstantiatePreserves ==
  ASSUME IInv, NEW rows \in InitialRows, NEW m \in Option(MinterData), Instantiate(rows, m)
  PROVE  IInv'
<1>1. IsBalanceMap(balances)'
  <2>1. ASSUME NEW a \in Addresses(rows)
        PROVE  a \in Accounts /\ rows[CHOOSE k \in DOMAIN rows : rows[k].address = a].amount \in Amount
    <3>1. \E k \in DOMAIN rows : rows[k].address = a
      BY DEF Addresses
    <3>2. \A k \in DOMAIN rows : rows[k].address \in Accounts /\ rows[k].amount \in Amount
      BY RowsTyped
    <3>3. QED
      BY <3>1, <3>2
  <2>2. QED
    BY <2>1 DEF Instantiate, IsBalanceMap
<1>2. total_supply' \in Amount /\ mint' \in Option(MinterData) /\ CapHolds'
  BY DEF Instantiate, CapHolds
<1>3. UNCHANGED <<grants, height>> /\ version = "none" /\ version' = "current"
  BY DEF Instantiate
<1>4. allowances_spender = <<>> /\ TypeOK /\ Legacy
  BY <1>3 DEF IInv, Legacy
<1>5. allowances = <<>>
  BY <1>3 DEF IInv, Legacy
<1>6. QED
  BY <1>1, <1>2, <1>3, <1>4, <1>5 DEF IInv, TypeOK, Mirrored, Legacy, Live, grants

\* The keys of one map in the other, and what the migration looks up under them.
LEMMA TurnedKeys ==
  ASSUME NEW map, IsGrantMap(map)
  PROVE  /\ \A o, s \in Accounts : <<s, o>> \in Turned(map) <=> <<o, s>> \in DOMAIN map
         /\ \A k \in Turned(map) : k \in Accounts \X Accounts /\ <<k[2], k[1]>> \in DOMAIN map
<1>1. DOMAIN map \subseteq Accounts \X Accounts
  BY DEF IsGrantMap
<1>2. ASSUME NEW k \in Turned(map)
      PROVE  k \in Accounts \X Accounts /\ <<k[2], k[1]>> \in DOMAIN map
  <2>1. PICK p \in DOMAIN map : k = <<p[2], p[1]>>
    BY DEF Turned
  <2>2. p \in Accounts \X Accounts
    BY <1>1
  <2>3. <<k[2], k[1]>> = p
    BY <2>1, <2>2
  <2>4. QED
    BY <2>1, <2>2, <2>3
<1>3. ASSUME NEW o \in Accounts, NEW s \in Accounts
      PROVE  <<s, o>> \in Turned(map) <=> <<o, s>> \in DOMAIN map
  <2>1. <<s, o>> \in Turned(map) => <<o, s>> \in DOMAIN map
    BY <1>2
  <2>2. ASSUME <<o, s>> \in DOMAIN map
        PROVE  <<s, o>> \in Turned(map)
    BY <2>2 DEF Turned
  <2>3. QED
    BY <2>1, <2>2
<1>4. QED
  BY <1>2, <1>3

\* Nothing is listed by spender only, in a token in use as in one of other code.
LEMMA NoneBySpenderOnly ==
  ASSUME IInv, NEW o \in Accounts, NEW s \in Accounts, <<s, o>> \in DOMAIN allowances_spender
  PROVE  <<o, s>> \in DOMAIN allowances
<1>1. CASE Live
  BY <1>1 DEF IInv, Mirrored
<1>2. CASE ~Live
  <2>1. <<o, s>> \in Turned(allowances_spender)
    BY TurnedKeys DEF IInv, TypeOK
  <2>2. QED
    BY <1>2, <2>1 DEF IInv, Legacy
<1>3. QED
  BY <1>1, <1>2

\* A migration makes the map by spender the mirror of the one by owner, whatever it
\* finds there.
LEMMA MigratePreserves ==
  ASSUME IInv, NEW p \in Accounts, Migrate(p)
  PROVE  IInv'
<1> DEFINE turned == Turned(allowances)
<1>1. TypeOK /\ CapHolds /\ Legacy
  BY DEF IInv
<1>2. CASE UNCHANGED <<version, token, grants, height>>
  BY <1>1, <1>2, Kept DEF TypeOK
<1>3. ASSUME VersionError = {}, version' = "current", allowances_spender' = WithReversed,
             UNCHANGED <<token, allowances, height>>
      PROVE  IInv'
  <2>1. /\ DOMAIN allowances_spender' = DOMAIN allowances_spender \cup turned
        /\ \A k \in DOMAIN allowances_spender' :
             allowances_spender'[k] = IF k \in turned THEN allowances[<<k[2], k[1]>>]
                                      ELSE allowances_spender[k]
    BY <1>3 DEF WithReversed
  <2>2. /\ \A o, s \in Accounts : <<s, o>> \in turned <=> <<o, s>> \in DOMAIN allowances
        /\ \A k \in turned : k \in Accounts \X Accounts /\ <<k[2], k[1]>> \in DOMAIN allowances
    BY <1>1, TurnedKeys DEF TypeOK
  <2>3. IsGrantMap(allowances) /\ IsGrantMap(allowances_spender)
    BY <1>1 DEF TypeOK
  <2> HIDE DEF turned
  <2>4. IsGrantMap(allowances_spender)'
    BY <2>1, <2>2, <2>3 DEF IsGrantMap
  <2>5. ASSUME NEW o \in Accounts, NEW s \in Accounts
        PROVE  /\ <<o, s>> \in DOMAIN allowances <=> <<s, o>> \in DOMAIN allowances_spender'
               /\ <<o, s>> \in DOMAIN allowances =>
                    allowances_spender'[<<s, o>>] = allowances[<<o, s>>]
    <3>1. <<s, o>> \in DOMAIN allowances_spender' <=> <<o, s>> \in DOMAIN allowances
      BY <2>1, <2>2, NoneBySpenderOnly
    <3>2. ASSUME <<o, s>> \in DOMAIN allowances
          PROVE  allowances_spender'[<<s, o>>] = allowances[<<o, s>>]
      <4>1. <<s, o>> \in turned /\ <<s, o>> \in DOMAIN allowances_spender'
        BY <2>2, <3>1, <3>2
      <4>2. <<s, o>>[2] = o /\ <<s, o>>[1] = s
        OBVIOUS
      <4>3. QED
        BY <2>1, <4>1, <4>2
    <3>3. QED
      BY <3>1, <3>2
  <2>6. Mirrored'
    <3>1. \A a \in Accounts : <<a, a>> \notin DOMAIN allowances'
      BY <1>1, <1>3 DEF Legacy
    <3>2. \A o, s \in Accounts :
            /\ <<o, s>> \in DOMAIN allowances' <=> <<s, o>> \in DOMAIN allowances_spender'
            /\ <<o, s>> \in DOMAIN allowances' => allowances_spender'[<<s, o>>] = allowances'[<<o, s>>]
      BY <1>3, <2>5
    <3>3. QED
      BY <3>1, <3>2 DEF Mirrored
  <2>7. TypeOK'
    BY <1>1, <1>3, <2>4 DEF TypeOK, token
  <2>8. CapHolds' /\ Legacy'
    BY <1>1, <1>3 DEF CapHolds, Legacy, Live, token
  <2>9. QED
    BY <2>6, <2>7, <2>8 DEF IInv
<1>4. QED
  BY <1>2, <1>3 DEF Migrate, Refuse

LEMMA NewBlockPreserves ==
  ASSUME IInv, NewBlock
  PROVE  IInv'
<1>1. height' \in 0..MaxHeight
  BY MaxHeightAssumption DEF NewBlock, IInv, TypeOK
<1>2. QED
  BY <1>1, Kept DEF NewBlock
-----------------------------------------------------------------------------
\* Every step of the token keeps its books.
LEMMA StepPreserves == IInv /\ [Next]_vars => IInv'
<1> SUFFICES ASSUME IInv, [Next]_vars
             PROVE  IInv'
  OBVIOUS
<1>1. ASSUME NEW rows \in InitialRows, NEW m \in Option(MinterData), Instantiate(rows, m)
      PROVE  IInv'
  BY <1>1, InstantiatePreserves
<1>2. ASSUME NEW s \in Accounts, Migrate(s)
      PROVE  IInv'
  BY <1>2, MigratePreserves
<1>3. ASSUME NEW s \in Accounts, NEW n \in Amount, Call(s, n)
      PROVE  IInv'
  <2>1. CASE Burn(s, n)
    BY <2>1, BurnPreserves
  <2>2. CASE \E r \in Accounts : Transfer(s, r, n, {}) \/ Transfer(s, r, n, {r}) \/ Mint(s, r, n)
    BY <2>2, TransferPreserves, MintPreserves
  <2>3. CASE \E p \in Spenders, e \in Option(Expirations) :
               IncreaseAllowance(s, p, n, e) \/ DecreaseAllowance(s, p, n, e)
    BY <2>3, IncreasePreserves, DecreasePreserves
  <2>4. CASE \E o \in Accounts : BurnFrom(s, o, n)
    BY <2>4, BurnFromPreserves
  <2>5. CASE \E o, r \in Accounts : TransferFrom(s, o, r, n) \/ SendFrom(s, o, r, n)
    BY <2>5, TransferFromPreserves, SendFromPreserves
  <2>6. QED
    BY <1>3, <2>1, <2>2, <2>3, <2>4, <2>5 DEF Call
<1>4. ASSUME NEW s \in Accounts, NEW minter \in Option(Minters), UpdateMinter(s, minter)
      PROVE  IInv'
  BY <1>4, UpdateMinterPreserves
<1>5. ASSUME NewBlock
      PROVE  IInv'
  BY <1>5, NewBlockPreserves
<1>6. ASSUME UNCHANGED vars
      PROVE  IInv'
  BY <1>6, Kept DEF vars, IInv, TypeOK
<1>7. QED
  BY <1>1, <1>2, <1>3, <1>4, <1>5, <1>6 DEF Next

LEMMA Invariance == Spec => []IInv
BY InitEstablishes, StepPreserves, PTL DEF Spec

\* Storage only holds amounts a Uint128 can hold, of accounts that exist.
THEOREM TypeCorrect == Spec => []TypeOK
BY Invariance, PTL DEF IInv

\* The two maps of allowances of a token that this code runs always say the same, and
\* nobody has an allowance on the own account: also after the migration of a token of
\* other code, whatever part of its allowances it had listed by spender and with
\* whatever amounts, and after migrations of a token in use.
THEOREM MirrorCorrect == Spec => []Mirrored
BY Invariance, PTL DEF IInv

\* The supply never exceeds the cap of the minter in office.
THEOREM CapCorrect == Spec => []CapHolds
BY Invariance, PTL DEF IInv
-----------------------------------------------------------------------------
\* The supply is the sum of the balances, which are finitely many.
Books == IsFiniteSet(DOMAIN balances) /\ Conserved

\* Sum is what NaturalLemmas reasons about.
LEMMA SumAdds ==
  ASSUME NEW f, IsFiniteSet(DOMAIN f), \A x \in DOMAIN f : f[x] \in Nat
  PROVE  \E g : Adds(g, f) /\ Sum(f) = g[DOMAIN f]
<1> DEFINE D == DOMAIN f
           Def(iter) == iter = [s \in SUBSET D |-> IF s = {} THEN 0
                                   ELSE f[CHOOSE x \in s : TRUE] + iter[s \ {CHOOSE x \in s : TRUE}]]
           iter == CHOOSE g : Def(g)
<1>1. PICK g : Adds(g, f)
  BY SumExists
<1>2. Def(g)
  BY <1>1 DEF Adds, Unfolds, Member
<1>3. Def(iter)
  <2> HIDE DEF Def
  <2>1. QED
    BY <1>2
<1>4. Sum(f) = iter[D]
  BY DEF Sum, FoldFunction, FoldFunctionOnSet, MapThenFoldSet
<1>5. Unfolds(iter, f)
  BY <1>3 DEF Unfolds, Member
<1> HIDE DEF iter
<1>6. Adds(iter, f)
  BY <1>5, OfNaturals
<1>7. QED
  BY <1>4, <1>6

LEMMA SumNat ==
  ASSUME NEW f, IsFiniteSet(DOMAIN f), \A x \in DOMAIN f : f[x] \in Nat
  PROVE  Sum(f) \in Nat
<1>1. PICK g : Adds(g, f) /\ Sum(f) = g[DOMAIN f]
  BY SumAdds
<1>2. DOMAIN f \in SUBSET DOMAIN f
  OBVIOUS
<1>3. QED
  BY <1>1, <1>2 DEF Adds

\* Storing a value changes the sum by its difference to the old one.
LEMMA SumPut ==
  ASSUME NEW f, IsFiniteSet(DOMAIN f), \A x \in DOMAIN f : f[x] \in Nat, NEW a, NEW n \in Nat
  PROVE  /\ IsFiniteSet(DOMAIN Put(f, a, n))
         /\ Sum(f) \in Nat /\ Sum(Put(f, a, n)) \in Nat
         /\ Sum(Put(f, a, n)) + (IF a \in DOMAIN f THEN f[a] ELSE 0) = Sum(f) + n
<1> DEFINE D == DOMAIN f
           h == Put(f, a, n)
           E == DOMAIN h
           s == D \ {a}
<1>1. E = D \cup {a} /\ h[a] = n /\ \A x \in s : h[x] = f[x]
  BY DEF Put
<1>2. IsFiniteSet(E)
  BY <1>1, FS_AddElement
<1>3. \A x \in E : h[x] \in Nat
  BY <1>1
<1> HIDE DEF h
<1>4. PICK g : Adds(g, f) /\ Sum(f) = g[D]
  BY SumAdds
<1>5. PICK k : Adds(k, h) /\ Sum(h) = k[E]
  BY <1>2, <1>3, SumAdds
<1>6. k[E] = n + k[s]
  <2>1. a \in E /\ E \ {a} = s
    BY <1>1
  <2>2. k[E] = h[a] + k[E \ {a}]
    BY <1>2, <1>3, <1>5, <2>1, AnyMember
  <2>3. QED
    BY <1>1, <2>1, <2>2
<1>7. k[s] = g[s]
  <2> DEFINE b == [x \in D |-> x]
  <2>1. b \in [D -> E] /\ \A x \in D : b[x] = x
    BY <1>1
  <2>2. s \in SUBSET D /\ {b[x] : x \in s} = s
    OBVIOUS
  <2> HIDE DEF b, E, D, s
  <2>3. \A x \in s : h[b[x]] = f[x]
    BY <1>1, <2>1, <2>2
  <2>4. k[{b[x] : x \in s}] = g[s]
    BY <1>2, <1>3, <1>4, <1>5, <2>1, <2>2, <2>3, SumsAgree DEF D, E
  <2>5. QED
    BY <2>2, <2>4
<1>8. g[s] \in Nat /\ g[D] \in Nat
  BY <1>4 DEF Adds
<1>9. g[D] = (IF a \in D THEN f[a] ELSE 0) + g[s]
  <2>1. CASE a \in D
    BY <1>4, <2>1, AnyMember
  <2>2. CASE a \notin D
    <3>1. s = D
      BY <2>2
    <3>2. QED
      BY <1>8, <2>2, <3>1
  <2>3. QED
    BY <2>1, <2>2
<1>10. (IF a \in D THEN f[a] ELSE 0) \in Nat
  OBVIOUS
<1>11. /\ Sum(f) \in Nat /\ Sum(h) \in Nat
       /\ Sum(h) + (IF a \in D THEN f[a] ELSE 0) = Sum(f) + n
  <2> HIDE DEF D, E, s
  <2>1. QED
    BY <1>4, <1>5, <1>6, <1>7, <1>8, <1>9, <1>10
<1>12. QED
  BY <1>2, <1>11 DEF h

LEMMA BalancesSummable ==
  ASSUME TypeOK
  PROVE  \A a \in DOMAIN balances : balances[a] \in Nat
BY MaxUintAssumption DEF TypeOK, IsBalanceMap, Amount

\* A move debits and credits alike, also from an account to itself.
LEMMA MovedSum ==
  ASSUME TypeOK, IsFiniteSet(DOMAIN balances),
         NEW o \in Accounts, NEW r \in Accounts, NEW n \in Amount, CanMove(o, r, n)
  PROVE  IsFiniteSet(DOMAIN Moved(o, r, n)) /\ Sum(Moved(o, r, n)) = Sum(balances)
<1> DEFINE debited == Put(balances, o, Balance(o) - n)
           before == IF r \in DOMAIN debited THEN debited[r] ELSE 0
<1>1. Balance(o) \in Amount /\ Balance(o) - n \in Amount /\ n \in Nat
  BY BalanceTyped, MaxUintAssumption DEF CanMove, Amount
<1>2. IsBalanceMap(debited)
  BY <1>1, PutBalance DEF TypeOK
<1>3. Balance(o) \in Nat /\ Balance(o) - n \in Nat
  BY <1>1, MaxUintAssumption DEF Amount
<1>4. /\ IsFiniteSet(DOMAIN debited) /\ Sum(balances) \in Nat /\ Sum(debited) \in Nat
      /\ Sum(debited) + Balance(o) = Sum(balances) + (Balance(o) - n)
  BY <1>3, BalancesSummable, SumPut DEF Balance
<1>5. \A x \in DOMAIN debited : debited[x] \in Nat
  BY <1>2, MaxUintAssumption DEF IsBalanceMap, Amount
<1> HIDE DEF debited
<1>6. before \in Nat
  BY <1>5
<1>7. /\ IsFiniteSet(DOMAIN Put(debited, r, n + before)) /\ Sum(Put(debited, r, n + before)) \in Nat
      /\ Sum(Put(debited, r, n + before)) + before = Sum(debited) + (n + before)
  BY <1>1, <1>4, <1>5, <1>6, SumPut
<1>8. Moved(o, r, n) = Put(debited, r, n + before)
  BY DEF Moved, debited
<1> HIDE DEF before
<1>9. QED
  BY <1>1, <1>3, <1>4, <1>6, <1>7, <1>8

LEMMA BurnedSum ==
  ASSUME TypeOK, Books, NEW o \in Accounts, NEW n \in Amount, CanBurn(o, n), Burned(o, n)
  PROVE  Books'
<1>1. Balance(o) \in Nat /\ n \in Nat /\ total_supply \in Nat /\ n <= Balance(o) /\ n <= total_supply
  BY BalanceTyped, MaxUintAssumption DEF CanBurn, Amount, TypeOK
<1>2. Balance(o) - n \in Nat
  BY <1>1
<1>3. /\ IsFiniteSet(DOMAIN Put(balances, o, Balance(o) - n)) /\ Sum(Put(balances, o, Balance(o) - n)) \in Nat
      /\ Sum(Put(balances, o, Balance(o) - n)) + Balance(o) = Sum(balances) + (Balance(o) - n)
  BY <1>2, BalancesSummable, SumPut DEF Balance, Books
<1>4. balances' = Put(balances, o, Balance(o) - n) /\ total_supply' = total_supply - n
  BY DEF Burned
<1>5. IsFiniteSet(DOMAIN balances') /\ total_supply' = Sum(balances')
  <2>1. total_supply = Sum(balances)
    BY DEF Books, Conserved
  <2> DEFINE sum == Sum(Put(balances, o, Balance(o) - n))
  <2>2. sum \in Nat /\ sum + Balance(o) = total_supply + (Balance(o) - n)
    BY <1>3, <2>1
  <2> HIDE DEF sum
  <2>3. sum = total_supply - n
    BY <1>1, <2>2
  <2>4. QED
    BY <1>3, <1>4, <2>3 DEF sum
<1>6. QED
  BY <1>5 DEF Books, Conserved

LEMMA BooksKept ==
  ASSUME Books, UNCHANGED <<balances, total_supply>>
  PROVE  Books'
BY DEF Books, Conserved

LEMMA MovedBooks ==
  ASSUME TypeOK, Books, NEW o \in Accounts, NEW r \in Accounts, NEW n \in Amount,
         CanMove(o, r, n), balances' = Moved(o, r, n), UNCHANGED total_supply
  PROVE  Books'
<1>1. IsFiniteSet(DOMAIN balances') /\ total_supply' = Sum(balances')
  BY MovedSum DEF Books, Conserved
<1>2. QED
  BY <1>1 DEF Books, Conserved

LEMMA MintBooks ==
  ASSUME TypeOK, Books, NEW s \in Accounts, NEW r \in Accounts, NEW n \in Amount, Mint(s, r, n)
  PROVE  Books'
<1>1. CASE \E error : Refuse(s, n, error)
  BY <1>1, BooksKept DEF Refuse, token
<1>2. CASE balances' = Put(balances, r, Balance(r) + n) /\ total_supply' = total_supply + n
  <2>1. Balance(r) \in Nat /\ n \in Nat /\ total_supply \in Nat /\ Balance(r) + n \in Nat
    BY BalanceTyped, MaxUintAssumption DEF Amount, TypeOK
  <2>2. /\ IsFiniteSet(DOMAIN Put(balances, r, Balance(r) + n)) /\ Sum(Put(balances, r, Balance(r) + n)) \in Nat
        /\ Sum(Put(balances, r, Balance(r) + n)) + Balance(r) = Sum(balances) + (Balance(r) + n)
    BY <2>1, BalancesSummable, SumPut DEF Balance, Books
  <2>3. IsFiniteSet(DOMAIN balances') /\ total_supply' = Sum(balances')
    BY <1>2, <2>1, <2>2 DEF Books, Conserved
  <2>4. QED
    BY <2>3 DEF Books, Conserved
<1>3. QED
  BY <1>1, <1>2 DEF Mint

\* Every account has one row, so its rows and its balances have one sum.
LEMMA InstantiateBooks ==
  ASSUME NEW rows \in InitialRows, NEW m, Instantiate(rows, m)
  PROVE  Books'
<1> DEFINE f == [k \in DOMAIN rows |-> rows[k].amount]
           b == [k \in DOMAIN rows |-> rows[k].address]
           E == Addresses(rows)
           h == [a \in E |-> rows[CHOOSE k \in DOMAIN rows : rows[k].address = a].amount]
<1>1. DOMAIN rows = 1..Len(rows) /\ Len(rows) \in Nat
      /\ \A k \in DOMAIN rows : rows[k].address \in Accounts /\ rows[k].amount \in Nat
  BY RowsTyped, MaxUintAssumption DEF Amount
<1>2. IsFiniteSet(DOMAIN rows)
  BY <1>1, FS_Interval
<1>3. b \in [DOMAIN rows -> E] /\ \A k \in DOMAIN rows : b[k] = rows[k].address
  BY DEF Addresses
<1>4. E = {b[k] : k \in DOMAIN rows}
  BY DEF Addresses
<1>5. \A j, k \in DOMAIN rows : b[j] = b[k] => j = k
  BY <1>3 DEF Instantiate, Distinct
<1>6. IsFiniteSet(E)
  <2>1. b \in Surjection(DOMAIN rows, E)
    BY <1>3, <1>4 DEF Surjection
  <2> HIDE DEF b, E
  <2>2. QED
    BY <1>2, <2>1, FS_Surjection
<1>7. \A k \in DOMAIN rows : h[b[k]] = f[k]
  <2> SUFFICES ASSUME NEW k \in DOMAIN rows PROVE h[b[k]] = f[k]
    OBVIOUS
  <2>1. b[k] \in E /\ rows[k].address = b[k]
    BY <1>3
  <2> DEFINE j == CHOOSE i \in DOMAIN rows : rows[i].address = b[k]
  <2>2. j \in DOMAIN rows /\ rows[j].address = b[k]
    BY <2>1
  <2>3. j = k
    BY <1>3, <1>5, <2>1, <2>2
  <2>4. h[b[k]] = rows[j].amount
    BY <2>1
  <2>5. QED
    BY <2>3, <2>4
<1>8. \A a \in E : h[a] \in Nat
  <2> SUFFICES ASSUME NEW a \in E PROVE h[a] \in Nat
    OBVIOUS
  <2>1. PICK k \in DOMAIN rows : a = b[k]
    BY <1>4
  <2>2. QED
    BY <1>1, <1>7, <2>1
<1>9. DOMAIN f = DOMAIN rows /\ DOMAIN h = E /\ \A k \in DOMAIN rows : f[k] \in Nat
  BY <1>1
<1>10. /\ balances' = h /\ total_supply' = Sum(f)
  BY DEF Instantiate, Supply
<1> HIDE DEF f, b, E, h
<1>11. PICK g : Adds(g, f) /\ Sum(f) = g[DOMAIN rows]
  BY <1>2, <1>9, SumAdds
<1>12. PICK k : Adds(k, h) /\ Sum(h) = k[E]
  BY <1>6, <1>8, <1>9, SumAdds
<1>13. k[{b[x] : x \in DOMAIN rows}] = g[DOMAIN rows]
  BY <1>2, <1>3, <1>5, <1>6, <1>7, <1>8, <1>9, <1>11, <1>12, SumsAgree
<1>14. IsFiniteSet(DOMAIN balances') /\ total_supply' = Sum(balances')
  BY <1>4, <1>6, <1>9, <1>10, <1>11, <1>12, <1>13
<1>15. QED
  BY <1>14 DEF Books, Conserved

LEMMA InitBooks ==
  ASSUME Init
  PROVE  Books
<1>1. CASE NoToken
  <2> DEFINE f == <<>>
  <2>1. DOMAIN f = {} /\ IsFiniteSet({})
    BY FS_EmptySet
  <2> HIDE DEF f
  <2>2. PICK g : Adds(g, f) /\ Sum(f) = g[{}]
    BY <2>1, SumAdds
  <2>3. {} \in SUBSET DOMAIN f
    OBVIOUS
  <2>4. g[{}] = 0
    BY <2>2, <2>3 DEF Adds, Unfolds
  <2>5. balances = f /\ total_supply = 0
    BY <1>1 DEF NoToken, f
  <2>6. QED
    BY <2>1, <2>2, <2>4, <2>5 DEF Books, Conserved
<1>2. CASE \E t \in LegacyTokens : balances = t.balances /\ total_supply = Sum(t.balances)
  BY <1>2, LegacyAssumption DEF Books, Conserved
<1>3. QED
  BY <1>1, <1>2 DEF Init

LEMMA StepBooks ==
  ASSUME IInv, Books, [Next]_vars
  PROVE  Books'
<1>1. TypeOK
  BY DEF IInv
<1>2. CASE UNCHANGED <<balances, total_supply>>
  BY <1>2, BooksKept
<1>3. ASSUME NEW rows \in InitialRows, NEW m \in Option(MinterData), Instantiate(rows, m)
      PROVE  Books'
  BY <1>3, InstantiateBooks
<1>4. ASSUME NEW s \in Accounts, NEW n \in Amount, Call(s, n)
      PROVE  Books'
  <2>1. CASE Burn(s, n)
    BY <1>1, <1>2, <2>1, BurnedSum DEF Burn, Refuse, token
  <2>2. ASSUME NEW r \in Accounts, Transfer(s, r, n, {}) \/ Transfer(s, r, n, {r})
        PROVE  Books'
    BY <1>1, <1>2, <2>2, MovedBooks DEF Transfer, Refuse, token
  <2>3. ASSUME NEW r \in Accounts, Mint(s, r, n)
        PROVE  Books'
    BY <1>1, <2>3, MintBooks
  <2>4. ASSUME NEW p \in Spenders, NEW e \in Option(Expirations),
               IncreaseAllowance(s, p, n, e) \/ DecreaseAllowance(s, p, n, e)
        PROVE  Books'
    BY <1>2, <2>4 DEF IncreaseAllowance, DecreaseAllowance, Refuse, token
  <2>5. ASSUME NEW o \in Accounts, BurnFrom(s, o, n)
        PROVE  Books'
    BY <1>1, <1>2, <2>5, BurnedSum DEF BurnFrom, Refuse, token
  <2>6. ASSUME NEW o \in Accounts, NEW r \in Accounts, TransferFrom(s, o, r, n) \/ SendFrom(s, o, r, n)
        PROVE  Books'
    BY <1>1, <1>2, <2>6, MovedBooks DEF TransferFrom, SendFrom, Refuse, token
  <2>7. QED
    BY <1>4, <2>1, <2>2, <2>3, <2>4, <2>5, <2>6 DEF Call
<1>5. CASE (\E s \in Accounts : Migrate(s)) \/ NewBlock \/ UNCHANGED vars
  BY <1>2, <1>5 DEF Migrate, Refuse, NewBlock, vars, token
<1>6. ASSUME NEW s \in Accounts, NEW minter \in Option(Minters), UpdateMinter(s, minter)
      PROVE  Books'
  BY <1>2, <1>6 DEF UpdateMinter, Refuse, token
<1>7. QED
  BY <1>3, <1>4, <1>5, <1>6 DEF Next

\* Whoever transfers, mints, burns or spends, and whatever is migrated, the supply the
\* token reports is the sum of the balances it stores.
THEOREM SupplyConserved == Spec => []Conserved
<1>1. Init => Books
  BY InitBooks
<1>2. IInv /\ Books /\ [Next]_vars => Books'
  BY StepBooks
<1>3. Books => Conserved
  BY DEF Books
<1>4. QED
  BY <1>1, <1>2, <1>3, Invariance, PTL DEF Spec
-----------------------------------------------------------------------------
\* The grants of the owner's map that a write of another entry leaves alone.
LEMMA OtherGrant ==
  ASSUME NEW map, NEW k, NEW g, NEW l, l # k
  PROVE  /\ Grant(Put(map, k, g), l) = Grant(map, l)
         /\ Grant(Remove(map, k), l) = Grant(map, l)
BY DEF Grant, Put, Remove

LEMMA SpendableTyped ==
  ASSUME TypeOK, NEW o, NEW s
  PROVE  Spendable(o, s) \in Amount
<1>1. Grant(allowances, <<o, s>>) \in GrantType
  BY GrantTyped DEF TypeOK
<1>2. QED
  BY <1>1, MaxUintAssumption DEF Spendable, GrantType, Amount

\* Calls that leave the owner's map alone grant nothing.
LEMMA SpendableKept ==
  ASSUME TypeOK, NEW o, NEW s, UNCHANGED <<allowances, height>>
  PROVE  ~(Spendable(o, s)' > Spendable(o, s))
<1>1. Spendable(o, s)' = Spendable(o, s)
  BY DEF Spendable, Expired, Grant
<1>2. QED
  BY <1>1, SpendableTyped, MaxUintAssumption DEF Amount

\* A deduction takes from one entry, a block can only let entries expire.
LEMMA DeductedShrinks ==
  ASSUME TypeOK, NEW o \in Accounts, NEW s \in Accounts, NEW p \in Accounts, NEW q \in Accounts,
         NEW n \in Amount, CanDeduct(p, q, n), Deducted(p, q, n), UNCHANGED height
  PROVE  ~(Spendable(o, s)' > Spendable(o, s))
<1> DEFINE a == allowances[<<p, q>>]
<1>1. <<p, q>> \in DOMAIN allowances
  BY DEF CanDeduct, Granted
<1>2. a \in GrantType
  BY <1>1 DEF TypeOK, IsGrantMap
<1>3. allowances' = Put(allowances, <<p, q>>, Lowered(a, n))
  BY DEF Deducted, Store
<1>4. CASE <<o, s>> = <<p, q>>
  <2>1. Grant(allowances, <<o, s>>) = a
    BY <1>1, <1>4 DEF Grant
  <2>2. Grant(allowances, <<o, s>>)' = Lowered(a, n)
    BY <1>3, <1>4 DEF Grant, Put
  <2>3. Lowered(a, n).expires = a.expires /\ Lowered(a, n).allowance = a.allowance - n
    BY <1>2 DEF Lowered, GrantType
  <2>4. ~Expired(a.expires) /\ n <= a.allowance
    BY <1>1 DEF CanDeduct, Both, Grant
  <2>5. Grant(allowances, <<o, s>>)'.expires = a.expires
    BY <2>2, <2>3
  <2>6. ~Expired(Grant(allowances, <<o, s>>)'.expires)
    BY <2>4, <2>5 DEF Expired
  <2>7. Spendable(o, s) = a.allowance
    BY <2>1, <2>4 DEF Spendable
  <2>8. Spendable(o, s)' = a.allowance - n \/ Spendable(o, s)' = 0
    BY <2>2, <2>3 DEF Spendable
  <2>9. QED
    BY <1>2, <2>4, <2>7, <2>8, MaxUintAssumption DEF GrantType, Amount
<1>5. CASE <<o, s>> # <<p, q>>
  <2>1. Grant(allowances, <<o, s>>)' = Grant(allowances, <<o, s>>)
    BY <1>3, <1>5, OtherGrant DEF Grant
  <2>2. Spendable(o, s)' = Spendable(o, s)
    BY <2>1 DEF Spendable, Expired
  <2>3. QED
    BY <2>2, SpendableTyped, MaxUintAssumption DEF Amount
<1>6. QED
  BY <1>4, <1>5

LEMMA BlockShrinks ==
  ASSUME TypeOK, NewBlock, NEW o, NEW s
  PROVE  ~(Spendable(o, s)' > Spendable(o, s))
<1> DEFINE a == Grant(allowances, <<o, s>>)
<1>1. a' = a /\ a \in GrantType
  BY GrantTyped DEF NewBlock, grants, TypeOK, Grant
<1>2. Expired(a.expires) => Expired(a.expires)'
  <2>1. height \in Nat /\ height' = height + 1 /\ a.expires \subseteq Nat
    BY <1>1, MaxHeightAssumption DEF NewBlock, TypeOK, GrantType
  <2>2. QED
    BY <1>1, <2>1 DEF Expired
<1>3. Spendable(o, s)' = Spendable(o, s) \/ Spendable(o, s)' = 0
  BY <1>1, <1>2 DEF Spendable
<1>4. QED
  BY <1>3, SpendableTyped, MaxUintAssumption DEF Amount

\* A write of one entry gives nothing to other spenders, or from other owners.
LEMMA OthersKept ==
  ASSUME TypeOK, NEW o, NEW s, NEW k, <<o, s>> # k, NEW g, UNCHANGED height,
         \/ allowances' = Put(allowances, k, g)
         \/ allowances' = Remove(allowances, k)
  PROVE  ~(Spendable(o, s)' > Spendable(o, s))
<1>1. Grant(allowances', <<o, s>>) = Grant(allowances, <<o, s>>)
  BY OtherGrant
<1>2. Grant(allowances, <<o, s>>)' = Grant(allowances, <<o, s>>)
  BY <1>1 DEF Grant
<1>3. Spendable(o, s)' = Spendable(o, s)
  BY <1>2 DEF Spendable, Expired
<1>4. QED
  BY <1>3, SpendableTyped, MaxUintAssumption DEF Amount

\* The calls that can enlarge an allowance are the owner's.
LEMMA IncreaseGrown ==
  ASSUME TypeOK, NEW p \in Accounts, NEW q \in Accounts, NEW n, NEW e,
         IncreaseAllowance(p, q, n, e), NEW o, NEW s, Spendable(o, s)' > Spendable(o, s)
  PROVE  last'.sender = o
<1> DEFINE g == Raised(Grant(allowances, <<p, q>>), n, e)
<1>1. height' = height /\ last'.sender = p
  BY DEF IncreaseAllowance, Refuse, Answer, Ok
<1>2. allowances' = allowances \/ allowances' = Put(allowances, <<p, q>>, g)
  BY DEF IncreaseAllowance, Refuse, Store, grants
<1>3. CASE allowances' = allowances
  BY <1>1, <1>3, SpendableKept
<1>4. CASE allowances' = Put(allowances, <<p, q>>, g) /\ <<o, s>> # <<p, q>>
  BY <1>1, <1>4, OthersKept
<1>5. QED
  BY <1>1, <1>2, <1>3, <1>4

LEMMA DecreaseGrown ==
  ASSUME TypeOK, NEW p \in Accounts, NEW q \in Accounts, NEW n, NEW e,
         DecreaseAllowance(p, q, n, e), NEW o, NEW s, Spendable(o, s)' > Spendable(o, s)
  PROVE  last'.sender = o
<1> DEFINE a == Grant(allowances, <<p, q>>)
           g == [allowance |-> a.allowance - n, expires |-> Until(a, e)]
<1>1. height' = height /\ last'.sender = p
  BY DEF DecreaseAllowance, Refuse, Answer, Ok
<1>2. \/ allowances' = allowances
      \/ allowances' = Put(allowances, <<p, q>>, g)
      \/ allowances' = Remove(allowances, <<p, q>>)
  BY DEF DecreaseAllowance, Refuse, Store, grants
<1>3. CASE allowances' = allowances
  BY <1>1, <1>3, SpendableKept
<1>4. CASE allowances' = Put(allowances, <<p, q>>, g) /\ <<o, s>> # <<p, q>>
  BY <1>1, <1>4, OthersKept
<1>5. CASE allowances' = Remove(allowances, <<p, q>>) /\ <<o, s>> # <<p, q>>
  BY <1>1, <1>5, OthersKept
<1>6. QED
  BY <1>1, <1>2, <1>3, <1>4, <1>5

\* A call on behalf of an owner spends an allowance or leaves it.
LEMMA ForOwnerShrinks ==
  ASSUME TypeOK, NEW p \in Accounts, NEW q \in Accounts, NEW r \in Accounts, NEW n \in Amount,
         TransferFrom(p, q, r, n) \/ SendFrom(p, q, r, n) \/ BurnFrom(p, q, n),
         NEW o \in Accounts, NEW s \in Accounts
  PROVE  ~(Spendable(o, s)' > Spendable(o, s))
<1>1. height' = height
  BY DEF TransferFrom, SendFrom, BurnFrom, Refuse
<1>2. allowances' = allowances \/ (CanDeduct(q, p, n) /\ Deducted(q, p, n))
  BY DEF TransferFrom, SendFrom, BurnFrom, Refuse, grants
<1>3. CASE allowances' = allowances
  BY <1>1, <1>3, SpendableKept
<1>4. CASE CanDeduct(q, p, n) /\ Deducted(q, p, n)
  BY <1>1, <1>4, DeductedShrinks
<1>5. QED
  BY <1>2, <1>3, <1>4

-----------------------------------------------------------------------------
\* What a spender can take grows only in a call of the owner.
THEOREM GrownByOwnerCorrect == Spec => GrownByOwner
<1> DEFINE Grown == \A o, s \in Accounts :
                      Spendable(o, s)' > Spendable(o, s) => last'.sender = o
<1>1. ASSUME IInv, [Next]_vars, NEW o \in Accounts, NEW s \in Accounts,
             Spendable(o, s)' > Spendable(o, s)
      PROVE  last'.sender = o
  <2>1. TypeOK
    BY <1>1 DEF IInv
  <2>2. ~(allowances' = allowances /\ height' = height)
    BY <1>1, <2>1, SpendableKept
  <2>3. ~NewBlock
    BY <1>1, <2>1, BlockShrinks
  <2>4. PICK p \in Accounts, n \in Amount : Call(p, n)
    BY <1>1, <2>2, <2>3 DEF Next, vars, grants, Instantiate, Migrate, UpdateMinter, Refuse
  <2>5. ~Burn(p, n)
    BY <2>2 DEF Burn, Refuse, grants
  <2>6. ASSUME NEW r \in Accounts
        PROVE  ~Transfer(p, r, n, {}) /\ ~Transfer(p, r, n, {r}) /\ ~Mint(p, r, n)
    BY <2>2 DEF Transfer, Mint, Refuse, grants
  <2>7. ASSUME NEW q \in Accounts, NEW r \in Accounts
        PROVE  ~TransferFrom(p, q, r, n) /\ ~SendFrom(p, q, r, n) /\ ~BurnFrom(p, q, n)
    BY <1>1, <2>1, <2>7, ForOwnerShrinks
  <2>8. PICK q \in Spenders, e \in Option(Expirations) :
             IncreaseAllowance(p, q, n, e) \/ DecreaseAllowance(p, q, n, e)
    BY <2>4, <2>5, <2>6, <2>7 DEF Call
  <2>9. q \in Accounts
    BY AccountsAssumption
  <2>10. QED
    BY <1>1, <2>1, <2>8, <2>9, IncreaseGrown, DecreaseGrown
<1>2. Spec => []IInv
  BY Invariance
<1>3. IInv /\ [Next]_vars => Grown
  BY <1>1
<1>4. QED
  BY <1>2, <1>3, PTL DEF Spec, GrownByOwner

\* Only the minter hands the right to mint on, and with it the cap.
THEOREM MinterRightsCorrect == Spec => MinterRights
<1> DEFINE Handed == version = "current" /\ mint' # mint =>
                       /\ IsMinter(last'.sender)
                       /\ \A d \in mint, f \in mint' : f.cap = d.cap
<1>1. ASSUME IInv, [Next]_vars, version = "current", mint' # mint
      PROVE  /\ IsMinter(last'.sender)
             /\ \A d \in mint, f \in mint' : f.cap = d.cap
  <2>1. PICK p \in Accounts, minter \in Option(Minters) : UpdateMinter(p, minter)
    <3>1. ASSUME NEW p \in Accounts, NEW n \in Amount, Call(p, n)
          PROVE  mint' = mint
      BY <3>1 DEF Call, Burn, Burned, Transfer, Mint, IncreaseAllowance, DecreaseAllowance,
                  TransferFrom, SendFrom, BurnFrom, Refuse, token
    <3>2. QED
      BY <1>1, <3>1 DEF Next, vars, token, Instantiate, Migrate, Refuse, NewBlock
  <2>2. IsMinter(p) /\ mint' = NewMinter(minter) /\ last'.sender = p
    BY <1>1, <2>1 DEF UpdateMinter, Refuse, Answer, Ok, token
  <2>3. mint \in Option(MinterData)
    BY <1>1 DEF IInv, TypeOK
  <2>4. \A d \in mint, f \in mint' : f.cap = d.cap
    BY <2>2, <2>3 DEF NewMinter, Option
  <2>5. QED
    BY <2>2, <2>4
<1>2. Spec => []IInv
  BY Invariance
<1>3. IInv /\ [Next]_vars => Handed
  BY <1>1
<1>4. QED
  BY <1>2, <1>3, PTL DEF Spec, MinterRights

-----------------------------------------------------------------------------
\* A move takes from its owner alone, and what it says.
LEMMA MovedFrom ==
  ASSUME TypeOK, NEW p \in Accounts, NEW r \in Accounts, NEW n \in Amount, CanMove(p, r, n),
         balances' = Moved(p, r, n), NEW o, Balance(o)' < Balance(o)
  PROVE  o = p /\ Balance(o)' = Balance(o) - n
<1>1. Balance(p) \in Amount /\ Balance(r) \in Amount /\ Balance(o) \in Amount
  BY BalanceTyped
<1>2. Balance(o)' = IF o = r
                    THEN IF p = r THEN n + (Balance(p) - n) ELSE n + Balance(r)
                    ELSE IF o = p THEN Balance(p) - n ELSE Balance(o)
  BY DEF Moved, Put, Balance
<1>3. o # r
  BY <1>1, <1>2, MaxUintAssumption DEF Amount
<1>4. QED
  BY <1>1, <1>2, <1>3, MaxUintAssumption DEF Amount

LEMMA BurnedFrom ==
  ASSUME TypeOK, NEW p \in Accounts, NEW n \in Amount, CanBurn(p, n), Burned(p, n),
         NEW o, Balance(o)' < Balance(o)
  PROVE  o = p /\ Balance(o)' = Balance(o) - n
<1>1. Balance(o) \in Amount
  BY BalanceTyped
<1>2. Balance(o)' = IF o = p THEN Balance(p) - n ELSE Balance(o)
  BY DEF Burned, Put, Balance
<1>3. QED
  BY <1>1, <1>2, MaxUintAssumption DEF Amount

LEMMA MintedTo ==
  ASSUME TypeOK, NEW r \in Accounts, NEW n \in Amount,
         balances' = Put(balances, r, Balance(r) + n), NEW o
  PROVE  ~(Balance(o)' < Balance(o))
<1>1. Balance(o) \in Amount
  BY BalanceTyped
<1>2. Balance(o)' = IF o = r THEN Balance(o) + n ELSE Balance(o)
  BY DEF Put, Balance
<1>3. QED
  BY <1>1, <1>2, MaxUintAssumption DEF Amount

\* What the allowance of a spender says before and after a call that takes n.
Spent(o, s, n) == /\ <<o, s>> \in DOMAIN allowances
                  /\ ~Expired(allowances[<<o, s>>].expires)
                  /\ allowances[<<o, s>>].allowance \in Amount
                  /\ n <= allowances[<<o, s>>].allowance
                  /\ allowances'[<<o, s>>].allowance = allowances[<<o, s>>].allowance - n

LEMMA DeductedSpent ==
  ASSUME TypeOK, NEW o \in Accounts, NEW s \in Accounts, NEW n \in Amount,
         CanDeduct(o, s, n), Deducted(o, s, n)
  PROVE  Spent(o, s, n)
<1>1. <<o, s>> \in DOMAIN allowances
  BY DEF CanDeduct, Granted
<1>2. allowances[<<o, s>>] \in GrantType
  BY <1>1 DEF TypeOK, IsGrantMap
<1>3. ~Expired(allowances[<<o, s>>].expires) /\ n <= allowances[<<o, s>>].allowance
  BY <1>1 DEF CanDeduct, Both, Grant
<1>4. allowances'[<<o, s>>] = Lowered(allowances[<<o, s>>], n)
  BY DEF Deducted, Store, Put
<1>5. QED
  BY <1>1, <1>2, <1>3, <1>4 DEF Spent, Lowered, GrantType

\* A call that takes tokens from an account is the owner's, or spends an allowance.
LEMMA CallTakes ==
  ASSUME TypeOK, NEW s \in Accounts, NEW n \in Amount, Call(s, n),
         NEW o, Balance(o)' < Balance(o), last'.sender # o
  PROVE  Spent(o, last'.sender, n) /\ Balance(o)' = Balance(o) - n
<1>1. Balance(o) \in Amount
  BY BalanceTyped
<1>2. balances' # balances
  BY <1>1, MaxUintAssumption DEF Balance, Amount
<1>3. ~Burn(s, n)
  BY <1>2, BurnedFrom DEF Burn, Refuse, Ok, Answer, token
<1>4. ASSUME NEW r \in Accounts
      PROVE  ~Transfer(s, r, n, {}) /\ ~Transfer(s, r, n, {r}) /\ ~Mint(s, r, n)
  BY <1>2, MovedFrom, MintedTo DEF Transfer, Mint, Refuse, Ok, Answer, token
<1>5. ASSUME NEW p \in Accounts, NEW e
      PROVE  ~IncreaseAllowance(s, p, n, e) /\ ~DecreaseAllowance(s, p, n, e)
  BY <1>2 DEF IncreaseAllowance, DecreaseAllowance, Refuse, token
<1>6. ASSUME NEW p \in Accounts, BurnFrom(s, p, n)
      PROVE  Spent(o, last'.sender, n) /\ Balance(o)' = Balance(o) - n
  <2>1. CanDeduct(p, s, n) /\ CanBurn(p, n) /\ Deducted(p, s, n) /\ Burned(p, n)
    BY <1>2, <1>6 DEF BurnFrom, Refuse, token
  <2>2. last'.sender = s
    BY <1>6 DEF BurnFrom, Refuse, Ok, Answer
  <2>3. QED
    BY <2>1, <2>2, BurnedFrom, DeductedSpent
<1>7. ASSUME NEW p \in Accounts, NEW r \in Accounts, SendFrom(s, p, r, n)
      PROVE  Spent(o, last'.sender, n) /\ Balance(o)' = Balance(o) - n
  <2>1. CanDeduct(p, s, n) /\ CanMove(p, r, n) /\ Deducted(p, s, n) /\ balances' = Moved(p, r, n)
    BY <1>2, <1>7 DEF SendFrom, Refuse, token
  <2>2. last'.sender = s
    BY <1>7 DEF SendFrom, Refuse, Answer
  <2>3. QED
    BY <2>1, <2>2, MovedFrom, DeductedSpent
<1>8. ASSUME NEW p \in Accounts, NEW r \in Accounts, TransferFrom(s, p, r, n)
      PROVE  Spent(o, last'.sender, n) /\ Balance(o)' = Balance(o) - n
  <2>1. /\ s # p => CanDeduct(p, s, n) /\ Deducted(p, s, n)
        /\ CanMove(p, r, n) /\ balances' = Moved(p, r, n)
    BY <1>2, <1>8 DEF TransferFrom, Refuse, token
  <2>2. last'.sender = s
    BY <1>8 DEF TransferFrom, Refuse, Ok, Answer
  <2>3. QED
    BY <2>1, <2>2, MovedFrom, DeductedSpent
<1>9. QED
  BY <1>3, <1>4, <1>5, <1>6, <1>7, <1>8, AccountsAssumption DEF Call

\* A call that makes tokens is the minter's.
LEMMA CallMints ==
  ASSUME TypeOK, NEW s \in Accounts, NEW n \in Amount, Call(s, n), total_supply' > total_supply
  PROVE  IsMinter(last'.sender)
<1>1. total_supply \in Amount
  BY DEF TypeOK
<1>2. total_supply' # total_supply /\ total_supply' # total_supply - n
  BY <1>1, MaxUintAssumption DEF Amount
<1>3. ~Burn(s, n)
  BY <1>2 DEF Burn, Burned, Refuse, token
<1>4. ASSUME NEW r \in Accounts
      PROVE  ~Transfer(s, r, n, {}) /\ ~Transfer(s, r, n, {r})
  BY <1>2 DEF Transfer, Refuse, token
<1>5. ASSUME NEW p \in Accounts, NEW e
      PROVE  ~IncreaseAllowance(s, p, n, e) /\ ~DecreaseAllowance(s, p, n, e)
  BY <1>2 DEF IncreaseAllowance, DecreaseAllowance, Refuse, token
<1>6. ASSUME NEW p \in Accounts, NEW r \in Accounts
      PROVE  ~BurnFrom(s, p, n) /\ ~SendFrom(s, p, r, n) /\ ~TransferFrom(s, p, r, n)
  BY <1>2 DEF BurnFrom, Burned, SendFrom, TransferFrom, Refuse, token
<1>7. PICK r \in Accounts : Mint(s, r, n)
  BY <1>3, <1>4, <1>5, <1>6, AccountsAssumption DEF Call
<1>8. QED
  BY <1>2, <1>7 DEF Mint, Refuse, Ok, Answer, token

\* Tokens leave an account only for its owner or against an allowance that has not
\* expired and shrinks by as much; new tokens are made by the minter.
THEOREM AuthorisedCorrect == Spec => Authorised
<1> DEFINE Taken == \A o \in DOMAIN balances :
                      Balance(o)' < balances[o] /\ last'.sender # o =>
                        LET k == <<o, last'.sender>>
                        IN /\ k \in DOMAIN allowances
                           /\ ~Expired(allowances[k].expires)
                           /\ allowances'[k].allowance + balances[o]
                                = allowances[k].allowance + Balance(o)'
           Made == total_supply' > total_supply => IsMinter(last'.sender)
<1>1. ASSUME IInv, [Next]_vars, version = "current"
      PROVE  Taken /\ Made
  <2>1. TypeOK
    BY <1>1 DEF IInv
  <2>2. \/ balances' = balances /\ total_supply' = total_supply
        \/ \E s \in Accounts, n \in Amount : Call(s, n)
    BY <1>1 DEF Next, vars, token, Instantiate, Migrate, UpdateMinter, NewBlock, Refuse
  <2>3. ASSUME NEW o \in DOMAIN balances, Balance(o)' < balances[o], last'.sender # o
        PROVE  LET k == <<o, last'.sender>>
               IN /\ k \in DOMAIN allowances
                  /\ ~Expired(allowances[k].expires)
                  /\ allowances'[k].allowance + balances[o]
                       = allowances[k].allowance + Balance(o)'
    <3>1. Balance(o) = balances[o] /\ Balance(o) \in Amount
      BY <2>1, BalanceTyped DEF Balance
    <3>2. balances' # balances
      BY <2>3, <3>1, MaxUintAssumption DEF Balance, Amount
    <3>3. PICK s \in Accounts, n \in Amount : Call(s, n)
      BY <2>2, <3>2
    <3>4. Spent(o, last'.sender, n) /\ Balance(o)' = Balance(o) - n
      BY <2>1, <2>3, <3>1, <3>3, CallTakes
    <3>5. QED
      BY <3>1, <3>4, MaxUintAssumption DEF Spent, Amount
  <2>4. ASSUME total_supply' > total_supply
        PROVE  IsMinter(last'.sender)
    <3>1. total_supply' # total_supply
      BY <2>1, <2>4, MaxUintAssumption DEF TypeOK, Amount
    <3>2. QED
      BY <2>1, <2>2, <2>4, <3>1, CallMints
  <2>5. QED
    BY <2>3, <2>4
<1>2. Spec => []IInv
  BY Invariance
<1>3. IInv /\ [Next]_vars /\ version = "current" => Taken /\ Made
  BY <1>1
<1>4. QED
  BY <1>2, <1>3, PTL DEF Spec, Authorised
-----------------------------------------------------------------------------
\* Cw20Send.  The messages of a transaction: a contract sends its own tokens on, and a
\* user is named as the sender of tokens only in its own transactions.
IsMessage(m, signer) ==
  /\ m \in [kind : {"token", "receive"}, sender : Accounts, to : Accounts, amount : Amount]
  /\ m.kind = "token" => m.sender \in Contracts
  /\ m.sender \in Users => m.sender = signer
Messages(signer) ==
  {m \in [kind : {"token", "receive"}, sender : Accounts, to : Accounts, amount : Amount] :
     IsMessage(m, signer)}

\* What a message counts for a contract, and what a sequence of them does.
Weight(m, c) == IF Concerns(m, c) THEN m.amount ELSE 0
Weights(s, c) == [k \in DOMAIN s |-> Weight(s[k], c)]
Weigh(s, c) == Sum(Weights(s, c))

LEMMA DueWeighs == \A c : Due(c) = Weigh(pending, c) /\ Due(c)' = Weigh(pending', c)
BY DEF Due, Weigh, Weights, Weight

LEMMA WeightsTyped ==
  ASSUME NEW signer, NEW s \in Seq(Messages(signer)), NEW c
  PROVE  /\ DOMAIN s = 1..Len(s) /\ Len(s) \in Nat /\ IsFiniteSet(1..Len(s))
         /\ \A k \in 1..Len(s) : s[k] \in Messages(signer)
         /\ \A k \in 1..Len(s) : s[k].amount \in Amount /\ Weight(s[k], c) \in Nat
         /\ DOMAIN Weights(s, c) = 1..Len(s)
         /\ \A k \in 1..Len(s) : Weights(s, c)[k] = Weight(s[k], c)
<1>1. DOMAIN s = 1..Len(s) /\ Len(s) \in Nat /\ \A k \in 1..Len(s) : s[k] \in Messages(signer)
  <2> HIDE DEF Messages
  <2> QED OBVIOUS
<1>2. \A k \in 1..Len(s) : s[k].amount \in Amount /\ Weight(s[k], c) \in Nat
  BY <1>1, MaxUintAssumption DEF Messages, Amount, Weight
<1> QED BY <1>1, <1>2, FS_Interval DEF Weights

\* What waits counts as its first message and the others do.
LEMMA WeighFirst ==
  ASSUME NEW signer, NEW s \in Seq(Messages(signer)), s # <<>>, NEW c
  PROVE  /\ Weigh(Tail(s), c) \in Nat /\ Weight(Head(s), c) \in Nat
         /\ Weigh(s, c) = Weight(Head(s), c) + Weigh(Tail(s), c)
<1> DEFINE n == Len(s)
           D == 1..(n - 1)
           E == 1..n
           t == Tail(s)
           f == Weights(t, c)
           h == Weights(s, c)
           b == [k \in D |-> k + 1]
<1>1. t \in Seq(Messages(signer)) /\ Len(t) = n - 1 /\ n \in Nat \ {0}
      /\ \A k \in D : t[k] = s[k + 1]
  <2> HIDE DEF Messages
  <2> QED OBVIOUS
<1>2. /\ DOMAIN h = E /\ IsFiniteSet(E) /\ \A k \in E : h[k] = Weight(s[k], c) /\ h[k] \in Nat
  BY WeightsTyped
<1>3. /\ DOMAIN f = D /\ IsFiniteSet(D) /\ \A k \in D : f[k] = Weight(t[k], c) /\ f[k] \in Nat
  <2>1. D = 1..Len(t)
    BY <1>1
  <2>2. /\ DOMAIN f = 1..Len(t) /\ IsFiniteSet(1..Len(t))
        /\ \A k \in 1..Len(t) : f[k] = Weight(t[k], c) /\ f[k] \in Nat
    <3> HIDE DEF t
    <3> QED BY <1>1, WeightsTyped
  <2> HIDE DEF D, f, t
  <2> QED BY <2>1, <2>2
<1>4. PICK g : Adds(g, f) /\ Sum(f) = g[D]
  <2> HIDE DEF f, D
  <2> QED BY <1>3, SumAdds
<1>5. PICK k : Adds(k, h) /\ Sum(h) = k[E]
  <2> HIDE DEF h, E
  <2> QED BY <1>2, SumAdds
<1>6. b \in [D -> E] /\ (\A x, y \in D : b[x] = b[y] => x = y) /\ \A x \in D : h[b[x]] = f[x]
  <2>1. \A x \in D : x + 1 \in E
    BY <1>1
  <2>2. \A x \in D : b[x] = x + 1
    OBVIOUS
  <2> HIDE DEF f, h
  <2> QED BY <1>1, <1>2, <1>3, <2>1, <2>2
<1>7. {b[x] : x \in D} = E \ {1} /\ 1 \in E
  <2>1. ASSUME NEW y \in E \ {1} PROVE y - 1 \in D /\ b[y - 1] = y
    BY <1>1
  <2>2. ASSUME NEW x \in D PROVE b[x] \in E \ {1}
    BY <1>1
  <2> QED BY <1>1, <2>1, <2>2, SMTT(30)
<1> HIDE DEF f, h, b, D, E
<1>8. k[{b[x] : x \in D}] = g[D]
  <2>1. (\A x \in D : f[x] \in Nat) /\ (\A x \in E : h[x] \in Nat)
    BY <1>2, <1>3
  <2>2. D \in SUBSET D
    OBVIOUS
  <2> QED BY <1>2, <1>3, <1>4, <1>5, <1>6, <2>1, <2>2, SumsAgree, SMTT(30)
<1>9. k[E] = h[1] + k[E \ {1}]
  <2>1. E \in SUBSET E /\ \A x \in E : h[x] \in Nat
    BY <1>2
  <2> QED BY <1>2, <1>5, <1>7, <2>1, AnyMember
<1>10. h[1] = Weight(Head(s), c) /\ h[1] \in Nat
  BY <1>1, <1>2, <1>7
<1>11. g[D] \in Nat
  BY <1>3, <1>4 DEF Adds
<1> QED BY <1>4, <1>5, <1>7, <1>8, <1>9, <1>10, <1>11 DEF Weigh, f, h, t, D, E

LEMMA WeighNone == \A c : Weigh(<<>>, c) = 0
<1> SUFFICES ASSUME NEW c PROVE Weigh(<<>>, c) = 0
  OBVIOUS
<1> DEFINE f == Weights(<<>>, c)
<1>1. DOMAIN f = {} /\ IsFiniteSet({})
  BY FS_EmptySet DEF Weights
<1>2. PICK g : Adds(g, f) /\ Sum(f) = g[{}]
  <2> HIDE DEF f
  <2> QED BY <1>1, SumAdds
<1>3. g[{}] = 0
  <2> HIDE DEF f
  <2> QED BY <1>1, <1>2 DEF Adds, Unfolds
<1> QED BY <1>2, <1>3 DEF Weigh

LEMMA WeighNat ==
  ASSUME NEW signer, NEW s \in Seq(Messages(signer)), NEW c
  PROVE  Weigh(s, c) \in Nat
BY WeighFirst, WeighNone

\* The messages of a response come first.
LEMMA OneFirst == \A m : InOrder({m}) = <<m>>
<1> SUFFICES ASSUME NEW m PROVE InOrder({m}) = <<m>>
  OBVIOUS
<1>1. Cardinality({m}) = 1
  BY FS_Singleton
<1>2. InOrder({m}) = [k \in 1..1 |-> m]
  BY <1>1 DEF InOrder
<1> QED BY <1>2

LEMMA NoneFirst == InOrder({}) = <<>>
<1>1. Cardinality({}) = 0
  BY FS_EmptySet
<1> QED BY <1>1 DEF InOrder

LEMMA Pushed ==
  ASSUME NEW signer, NEW s \in Seq(Messages(signer)), NEW m \in Messages(signer)
  PROVE  /\ <<m>> \o s \in Seq(Messages(signer))
         /\ \A c : Weigh(<<m>> \o s, c) = Weight(m, c) + Weigh(s, c)
<1> DEFINE more == <<m>> \o s
<1>1. more \in Seq(Messages(signer)) /\ more # <<>> /\ Head(more) = m /\ Tail(more) = s
  <2> HIDE DEF Messages
  <2> QED OBVIOUS
<1> HIDE DEF more
<1>2. \A c : Weigh(more, c) = Weight(m, c) + Weigh(s, c)
  BY <1>1, WeighFirst
<1> QED BY <1>1, <1>2 DEF more
-----------------------------------------------------------------------------
\* The book of the vault.
LEMMA BookUpdate ==
  ASSUME NEW f \in [Accounts -> Nat], NEW a \in Accounts, NEW v \in Nat
  PROVE  /\ Put(f, a, v) \in [Accounts -> Nat] /\ Put(f, a, v) = [f EXCEPT ![a] = v]
         /\ Sum(f) \in Nat /\ Sum(Put(f, a, v)) \in Nat
         /\ Sum(Put(f, a, v)) + f[a] = Sum(f) + v
<1>1. Put(f, a, v) \in [Accounts -> Nat] /\ Put(f, a, v) = [f EXCEPT ![a] = v]
  BY DEF Put
<1>2. IsFiniteSet(DOMAIN f) /\ a \in DOMAIN f /\ \A x \in DOMAIN f : f[x] \in Nat
  BY FiniteAssumption
<1>3. /\ Sum(f) \in Nat /\ Sum(Put(f, a, v)) \in Nat
      /\ Sum(Put(f, a, v)) + (IF a \in DOMAIN f THEN f[a] ELSE 0) = Sum(f) + v
  BY <1>2, SumPut
<1> QED BY <1>1, <1>2, <1>3

LEMMA BookPut ==
  ASSUME NEW f \in [Accounts -> Nat], NEW a \in Accounts, NEW v \in Nat, NEW w, w = f[a]
  PROVE  /\ Put(f, a, v) \in [Accounts -> Nat]
         /\ Sum(f) \in Nat /\ Sum(Put(f, a, v)) \in Nat
         /\ Sum(Put(f, a, v)) + w = Sum(f) + v
BY BookUpdate

\* What the vault writes into it.
Debited(f, a, n) == [f EXCEPT ![a] = @ - n]
Credited(f, a, n, back) == [f EXCEPT ![a] = @ + n - back]

LEMMA DebitedSum ==
  ASSUME NEW f \in [Accounts -> Nat], NEW a \in Accounts, NEW n \in Nat, n <= f[a]
  PROVE  /\ Debited(f, a, n) \in [Accounts -> Nat]
         /\ \A x \in Accounts \ {a} : Debited(f, a, n)[x] = f[x]
         /\ Sum(f) \in Nat /\ Sum(Debited(f, a, n)) \in Nat
         /\ Sum(Debited(f, a, n)) + n = Sum(f)
<1> DEFINE v == f[a] - n
           w == f[a]
<1>1. v \in Nat /\ w \in Nat /\ w = f[a] /\ v + n = w
  OBVIOUS
<1>2. Debited(f, a, n) = Put(f, a, v) /\ \A x \in Accounts \ {a} : Put(f, a, v)[x] = f[x]
  BY DEF Debited, Put
<1> HIDE DEF v, w
<1>3. /\ Put(f, a, v) \in [Accounts -> Nat]
      /\ Sum(f) \in Nat /\ Sum(Put(f, a, v)) \in Nat
      /\ Sum(Put(f, a, v)) + w = Sum(f) + v
  BY <1>1, BookPut
<1>4. Sum(Put(f, a, v)) + n = Sum(f)
  BY <1>1, <1>3
<1> QED BY <1>2, <1>3, <1>4

LEMMA CreditedSum ==
  ASSUME NEW f \in [Accounts -> Nat], NEW a \in Accounts, NEW n \in Nat, NEW back \in Nat, back <= n
  PROVE  /\ Credited(f, a, n, back) \in [Accounts -> Nat]
         /\ \A x \in Accounts : Credited(f, a, n, back)[x] >= f[x]
         /\ \A x \in Accounts \ {a} : Credited(f, a, n, back)[x] = f[x]
         /\ Sum(f) \in Nat /\ Sum(Credited(f, a, n, back)) \in Nat
         /\ Sum(Credited(f, a, n, back)) + back = Sum(f) + n
<1> DEFINE v == f[a] + n - back
           w == f[a]
<1>1. v \in Nat /\ w \in Nat /\ w = f[a] /\ v + back = w + n /\ v >= w
  OBVIOUS
<1>2. /\ Credited(f, a, n, back) = Put(f, a, v)
      /\ \A x \in Accounts : Put(f, a, v)[x] = IF x = a THEN v ELSE f[x]
  BY DEF Credited, Put
<1>3. \A x \in Accounts : f[x] \in Nat /\ (x = a => f[x] = w)
  OBVIOUS
<1> HIDE DEF v, w
<1>4. /\ Put(f, a, v) \in [Accounts -> Nat]
      /\ Sum(f) \in Nat /\ Sum(Put(f, a, v)) \in Nat
      /\ Sum(Put(f, a, v)) + w = Sum(f) + v
  BY <1>1, BookPut
<1>5. Sum(Put(f, a, v)) + back = Sum(f) + n
  BY <1>1, <1>4
<1>6. \A x \in Accounts : Put(f, a, v)[x] >= f[x]
  BY <1>1, <1>2, <1>3
<1> QED BY <1>2, <1>4, <1>5, <1>6

LEMMA EmptyBook == Sum([a \in Accounts |-> 0]) = 0
<1> DEFINE f == [a \in Accounts |-> 0]
           k == [s \in SUBSET Accounts |-> 0]
           b == [a \in Accounts |-> a]
<1>1. DOMAIN f = Accounts /\ (\A x \in Accounts : f[x] = 0) /\ IsFiniteSet(Accounts)
  BY FiniteAssumption
<1>2. PICK g : Adds(g, f) /\ Sum(f) = g[Accounts]
  <2> HIDE DEF f
  <2> QED BY <1>1, SumAdds
<1>3. Adds(k, f)
  <2>1. \A s \in SUBSET Accounts : s # {} => Member(s) \in Accounts /\ s \ {Member(s)} \in SUBSET Accounts
    BY MemberIn
  <2>2. k = [s \in SUBSET DOMAIN f |-> IF s = {} THEN 0 ELSE f[Member(s)] + k[s \ {Member(s)}]]
    BY <2>1
  <2>3. k \in [SUBSET DOMAIN f -> Nat]
    OBVIOUS
  <2> HIDE DEF f, k
  <2> QED BY <2>2, <2>3 DEF Adds, Unfolds
<1>4. b \in [Accounts -> Accounts] /\ (\A x \in Accounts : b[x] = x) /\ {b[x] : x \in Accounts} = Accounts
  OBVIOUS
<1>5. k[Accounts] = 0
  OBVIOUS
<1> HIDE DEF f, k, b
<1>6. g[{b[x] : x \in Accounts}] = k[Accounts]
  BY <1>1, <1>2, <1>3, <1>4, SumsAgree
<1> QED BY <1>2, <1>4, <1>5, <1>6 DEF f
-----------------------------------------------------------------------------
\* What a failure brings back: the books as they were, in order.
Restorable(s) ==
  /\ IsBalanceMap(s.balances) /\ s.total_supply \in Amount /\ s.mint \in Option(MinterData)
  /\ IsGrantMap(s.allowances) /\ IsGrantMap(s.allowances_spender)
  /\ \A d \in s.mint : \A limit \in d.cap : s.total_supply <= limit
  /\ \A o, p \in Accounts :
       /\ <<o, p>> \in DOMAIN s.allowances <=> <<p, o>> \in DOMAIN s.allowances_spender
       /\ <<o, p>> \in DOMAIN s.allowances => s.allowances_spender[<<p, o>>] = s.allowances[<<o, p>>]
  /\ \A a \in Accounts : <<a, a>> \notin DOMAIN s.allowances
  /\ \A c \in Contracts, p \in Accounts : <<c, p>> \notin DOMAIN s.allowances
  /\ s.book \in [Accounts -> Nat]
  /\ Sum(s.book) <= BalanceIn(s, Vault)

\* The contracts let nobody spend for them.
NoneByContracts == \A c \in Contracts, p \in Accounts : <<c, p>> \notin DOMAIN allowances

NoBooks == [a \in Accounts |-> 0]

\* Between transactions nothing waits, before the token is deployed there are none, and
\* during one the books before it are kept, in which nobody but the signer had more
\* in the vault than now.
Underway ==
  /\ book \in [Accounts -> Nat] /\ origin \in Users /\ tx \in {"idle", "running", "failed"}
  /\ pending \in Seq(Messages(origin))
  /\ tx = "idle" => pending = <<>> /\ saved = {}
  /\ ~Live => tx = "idle" /\ book = NoBooks
  /\ Live => NoneByContracts
  /\ \A s \in saved : Restorable(s) /\ \A u \in Users \ {origin} : s.book[u] <= book[u]

SInv == IInv /\ Underway /\ Solvent /\ OthersKeepTheirs

LEMMA SentNats ==
  ASSUME SInv
  PROVE  /\ \A a : Balance(a) \in Nat
         /\ \A c : Due(c) \in Nat
         /\ Owed \in Nat
<1>1. \A a : Balance(a) \in Amount
  BY BalanceTyped DEF SInv, IInv
<1>2. \A c : Due(c) \in Nat
  BY DueWeighs, WeighNat DEF SInv, Underway
<1>3. Owed \in Nat
  <2>1. Vault \in Accounts /\ book[Vault] \in Nat
    BY PartiesAssumption DEF SInv, Underway
  <2> QED BY <2>1, BookUpdate DEF Owed, SInv, Underway
<1> QED BY <1>1, <1>2, <1>3, MaxUintAssumption DEF Amount

LEMMA StorageRestorable ==
  ASSUME SInv, Live
  PROVE  /\ Restorable(storage)
         /\ storage.book = book /\ storage.allowances = allowances
         /\ \A a : BalanceIn(storage, a) = Balance(a)
<1>1. /\ storage.balances = balances /\ storage.total_supply = total_supply /\ storage.mint = mint
      /\ storage.allowances = allowances /\ storage.allowances_spender = allowances_spender
      /\ storage.book = book
  BY DEF storage
<1>2. \A a : BalanceIn(storage, a) = Balance(a)
  BY <1>1 DEF BalanceIn, Balance
<1>3. Sum(book) <= Balance(Vault)
  BY SentNats DEF SInv, Solvent, Owed
<1>4. TypeOK /\ CapHolds /\ Mirrored /\ Underway
  BY DEF SInv, IInv
<1> HIDE DEF storage
<1> QED BY <1>1, <1>2, <1>3, <1>4 DEF Restorable, TypeOK, CapHolds, Mirrored, Underway, NoneByContracts
-----------------------------------------------------------------------------
\* What a move of tokens does to every balance.
LEMMA MovedBalance ==
  ASSUME TypeOK, NEW o \in Accounts, NEW r \in Accounts, NEW n \in Amount, CanMove(o, r, n),
         balances' = Moved(o, r, n), NEW a
  PROVE  Balance(a)' = IF o = r THEN Balance(a)
                       ELSE IF a = o THEN Balance(a) - n
                       ELSE IF a = r THEN Balance(a) + n ELSE Balance(a)
<1>1. Balance(o) \in Amount /\ Balance(r) \in Amount /\ Balance(a) \in Amount
  BY BalanceTyped
<1>2. Balance(a)' = IF a = r
                    THEN IF o = r THEN n + (Balance(o) - n) ELSE n + Balance(r)
                    ELSE IF a = o THEN Balance(o) - n ELSE Balance(a)
  BY DEF Moved, Put, Balance
<1> QED BY <1>1, <1>2, MaxUintAssumption DEF Amount

\* A deduction changes no more than the entry of its owner and spender.
LEMMA DeductedKeys ==
  ASSUME NEW o, NEW s, NEW n, Deducted(o, s, n), <<o, s>> \in DOMAIN allowances
  PROVE  DOMAIN allowances' = DOMAIN allowances
BY DEF Deducted, Store, Put

\* What a call of an account that is no contract does for contracts: they get at least
\* what they are to be told of.
Told(c, n) == IF c \in last'.notify THEN n ELSE 0
LEMMA CallForContracts ==
  ASSUME TypeOK, NoneByContracts, NEW s \in Accounts \ Contracts, NEW n \in Amount, Call(s, n)
  PROVE  /\ last'.sender = s /\ last'.amount = n
         /\ last'.notify = {} \/ \E r \in Accounts : last'.notify = {r}
         /\ NoneByContracts'
         /\ \A c \in Contracts : Balance(c)' >= Balance(c) + Told(c, n)
<1> DEFINE Goal == /\ last'.sender = s /\ last'.amount = n
                   /\ last'.notify = {} \/ \E r \in Accounts : last'.notify = {r}
                   /\ NoneByContracts'
                   /\ \A c \in Contracts : Balance(c)' >= Balance(c) + Told(c, n)
<1>0. /\ \A a : Balance(a) \in Nat
      /\ n \in Nat /\ Contracts \subseteq Accounts
  <2>1. \A a : Balance(a) \in Amount
    BY BalanceTyped
  <2> QED BY <2>1, MaxUintAssumption, PartiesAssumption DEF Amount, Contracts
<1>1. ASSUME last' = [sender |-> s, amount |-> n, result |-> last'.result, notify |-> {}],
             UNCHANGED balances, NoneByContracts'
      PROVE  Goal
  BY <1>0, <1>1 DEF Told, Balance
<1>2. ASSUME NEW error, Refuse(s, n, error) PROVE Goal
  BY <1>1, <1>2 DEF Refuse, Answer, token, grants, NoneByContracts
<1>3. ASSUME Burn(s, n) PROVE Goal
  <2>1. CASE Burned(s, n) /\ CanBurn(s, n) /\ Ok(s, n) /\ UNCHANGED grants
    <3>1. \A c \in Contracts : Balance(c)' = Balance(c)
      BY <2>1 DEF Burned, Put, Balance
    <3> QED BY <1>0, <2>1, <3>1 DEF Ok, Answer, Told, NoneByContracts, grants
  <2> QED BY <1>2, <1>3, <2>1 DEF Burn
<1>4. ASSUME NEW r \in Accounts, NEW told, told \subseteq {r}, Transfer(s, r, n, told) PROVE Goal
  <2>1. CASE CanMove(s, r, n) /\ balances' = Moved(s, r, n) /\ Answer(s, n, "Ok", told) /\ UNCHANGED grants
    <3>1. last' = [sender |-> s, amount |-> n, result |-> "Ok", notify |-> told] /\ (told = {} \/ told = {r})
      BY <1>4, <2>1 DEF Answer
    <3>2. ASSUME NEW c \in Contracts PROVE Balance(c)' >= Balance(c) + Told(c, n)
      <4>1. Balance(c)' = IF c = r THEN Balance(c) + n ELSE Balance(c)
        BY <2>1, MovedBalance
      <4>2. Told(c, n) = IF c = r /\ told = {r} THEN n ELSE 0
        BY <3>1 DEF Told
      <4> QED BY <1>0, <4>1, <4>2
    <3> QED BY <2>1, <3>1, <3>2 DEF NoneByContracts, grants
  <2> QED BY <1>2, <1>4, <2>1 DEF Transfer
<1>5. ASSUME NEW r \in Accounts, Mint(s, r, n) PROVE Goal
  <2>1. CASE balances' = Put(balances, r, Balance(r) + n) /\ Ok(s, n) /\ UNCHANGED grants
    <3>1. \A c \in Contracts : Balance(c)' >= Balance(c)
      BY <1>0, <2>1 DEF Put, Balance
    <3> QED BY <1>0, <2>1, <3>1 DEF Ok, Answer, Told, NoneByContracts, grants
  <2> QED BY <1>2, <1>5, <2>1 DEF Mint
<1>6. ASSUME NEW p \in Spenders, NEW e, IncreaseAllowance(s, p, n, e) PROVE Goal
  <2>1. ASSUME NEW g, NEW h, Store(s, p, g, h) PROVE NoneByContracts'
    BY <2>1 DEF Store, Put, NoneByContracts
  <2> QED BY <1>1, <1>2, <1>6, <2>1 DEF IncreaseAllowance, Ok, Answer, token
<1>7. ASSUME NEW p \in Spenders, NEW e, DecreaseAllowance(s, p, n, e) PROVE Goal
  <2>1. ASSUME NEW g, NEW h, Store(s, p, g, h) PROVE NoneByContracts'
    BY <2>1 DEF Store, Put, NoneByContracts
  <2>2. ASSUME allowances' = Remove(allowances, <<s, p>>) PROVE NoneByContracts'
    BY <2>2 DEF Remove, NoneByContracts
  <2> QED BY <1>1, <1>2, <1>7, <2>1, <2>2 DEF DecreaseAllowance, Ok, Answer, token
<1>8. ASSUME NEW o \in Accounts, CanDeduct(o, s, n), Deducted(o, s, n)
      PROVE  NoneByContracts' /\ o \notin Contracts
  <2>1. <<o, s>> \in DOMAIN allowances
    BY <1>8 DEF CanDeduct, Granted
  <2> QED BY <1>8, <2>1, DeductedKeys DEF NoneByContracts
<1>9. ASSUME NEW o \in Accounts, BurnFrom(s, o, n) PROVE Goal
  <2>1. CASE CanDeduct(o, s, n) /\ Deducted(o, s, n) /\ Burned(o, n) /\ Ok(s, n)
    <3>1. \A c \in Contracts : Balance(c)' = Balance(c)
      BY <1>8, <2>1 DEF Burned, Put, Balance
    <3> QED BY <1>0, <1>8, <2>1, <3>1 DEF Ok, Answer, Told
  <2> QED BY <1>2, <1>9, <2>1 DEF BurnFrom
<1>10. ASSUME NEW o \in Accounts \ Contracts, NEW r \in Accounts, NEW told, told \subseteq {r},
              CanMove(o, r, n), balances' = Moved(o, r, n), Answer(s, n, "Ok", told), NoneByContracts'
       PROVE  Goal
  <2>1. last' = [sender |-> s, amount |-> n, result |-> "Ok", notify |-> told] /\ (told = {} \/ told = {r})
    BY <1>10 DEF Answer
  <2>2. ASSUME NEW c \in Contracts PROVE Balance(c)' >= Balance(c) + Told(c, n)
    <3>1. Balance(c)' = IF c = r THEN Balance(c) + n ELSE Balance(c)
      BY <1>10, MovedBalance
    <3>2. Told(c, n) = IF c = r /\ told = {r} THEN n ELSE 0
      BY <2>1 DEF Told
    <3> QED BY <1>0, <3>1, <3>2
  <2> QED BY <1>10, <2>1, <2>2
<1>11. ASSUME NEW o \in Accounts, NEW r \in Accounts, TransferFrom(s, o, r, n) PROVE Goal
  <2>1. CASE o = r /\ Ok(s, n) /\ UNCHANGED <<token, grants>>
    BY <1>1, <2>1 DEF Ok, Answer, token, grants, NoneByContracts
  <2>2. CASE /\ s # o => CanDeduct(o, s, n) /\ Deducted(o, s, n)
             /\ s = o => UNCHANGED grants
             /\ CanMove(o, r, n) /\ balances' = Moved(o, r, n) /\ Ok(s, n)
    <3>1. NoneByContracts' /\ o \notin Contracts
      BY <1>8, <2>2 DEF NoneByContracts, grants
    <3> QED BY <1>10, <2>2, <3>1 DEF Ok
  <2> QED BY <1>2, <1>11, <2>1, <2>2 DEF TransferFrom
<1>12. ASSUME NEW o \in Accounts, NEW r \in Accounts, SendFrom(s, o, r, n) PROVE Goal
  <2>1. CASE /\ CanDeduct(o, s, n) /\ Deducted(o, s, n)
             /\ CanMove(o, r, n) /\ balances' = Moved(o, r, n) /\ Answer(s, n, "Ok", {r})
    <3>1. NoneByContracts' /\ o \notin Contracts
      BY <1>8, <2>1
    <3> QED BY <1>10, <2>1, <3>1
  <2> QED BY <1>2, <1>12, <2>1 DEF SendFrom
<1> QED
  <2>1. ASSUME NEW r \in Accounts, Transfer(s, r, n, {}) \/ Transfer(s, r, n, {r}) PROVE Goal
    <3>1. {} \subseteq {r} /\ {r} \subseteq {r}
      OBVIOUS
    <3> HIDE DEF Goal
    <3> QED BY <1>4, <2>1, <3>1
  <2> HIDE DEF Goal
  <2>2. Goal
    BY <1>3, <1>5, <1>6, <1>7, <1>9, <1>11, <1>12, <2>1 DEF Call
  <2> QED BY <2>2 DEF Goal

\* What it may cost another account: no more than this lets it spend.
LEMMA CallCosts ==
  ASSUME TypeOK, TypeOK', NEW s \in Accounts, NEW n \in Amount, Call(s, n), last'.sender = s, NEW u, u # s
  PROVE  Balance(u) <= Balance(u)' + Grant(allowances, <<u, s>>).allowance
<1> DEFINE g == Grant(allowances, <<u, s>>).allowance
<1> SUFFICES Balance(u) <= Balance(u)' + g
  OBVIOUS
<1>1. Balance(u) \in Nat /\ g \in Nat
  <2>1. Balance(u) \in Amount /\ Grant(allowances, <<u, s>>) \in GrantType
    BY BalanceTyped, GrantTyped DEF TypeOK
  <2> QED BY <2>1, MaxUintAssumption DEF Amount, GrantType
<1>2. CASE Balance(u)' < Balance(u)
  <2>1. Spent(u, s, n) /\ Balance(u)' = Balance(u) - n
    BY <1>2, CallTakes
  <2>2. n <= g
    BY <2>1 DEF Spent, Grant
  <2> HIDE DEF g
  <2> QED BY <1>1, <2>1, <2>2, MaxUintAssumption DEF Amount
<1>3. CASE ~(Balance(u)' < Balance(u))
  <2>1. Balance(u)' \in Nat
    <3>1. IsBalanceMap(balances')
      BY DEF TypeOK
    <3> QED BY <3>1, MaxUintAssumption DEF IsBalanceMap, Balance, Amount
  <2> HIDE DEF g
  <2> QED BY <1>1, <1>3, <2>1
<1> QED BY <1>2, <1>3
-----------------------------------------------------------------------------
\* The steps.  Users are no contracts.
LEMMA Sorts == Users \subseteq Accounts /\ Contracts \subseteq Accounts /\ Users \cap Contracts = {}
BY PartiesAssumption DEF Contracts

\* A user signs a call of the token.
LEMMA SignPreserves ==
  ASSUME SInv, Live, NEW s \in Users, Sign(s)
  PROVE  SInv'
<1>1. PICK n \in Amount : Call(s, n)
  BY DEF Sign
<1>2. /\ tx = "idle" /\ pending = <<>> /\ tx' = "running" /\ origin' = s /\ saved' = {storage}
      /\ book' = book /\ book \in [Accounts -> Nat] /\ pending' = InOrder(Notifications)
      /\ NoneByContracts /\ TypeOK /\ IInv /\ Solvent
  BY DEF Sign, Begin, SInv, Underway, IInv
<1>3. s \in Accounts \ Contracts /\ Contracts \subseteq Accounts
  BY Sorts
<1>4. IInv'
  BY <1>1, <1>2, <1>3, StepPreserves DEF Next
<1>5. /\ last'.sender = s /\ last'.amount = n /\ NoneByContracts'
      /\ last'.notify = {} \/ \E r \in Accounts : last'.notify = {r}
      /\ \A c \in Contracts : Balance(c)' >= Balance(c) + Told(c, n)
  BY <1>1, <1>2, <1>3, CallForContracts
<1>6. version' = version
  BY <1>1 DEF Call, Burn, Transfer, Mint, IncreaseAllowance, DecreaseAllowance, BurnFrom, TransferFrom,
     SendFrom, Refuse
<1>7. /\ pending' \in Seq(Messages(s))
      /\ \A c \in Contracts : Weigh(pending', c) = Told(c, n)
  <2>1. CASE last'.notify = {}
    <3>1. pending' = <<>>
      BY <1>2, <2>1, NoneFirst DEF Notifications
    <3> QED BY <2>1, <3>1, WeighNone DEF Told
  <2>2. ASSUME NEW r \in Accounts, last'.notify = {r}
        PROVE  /\ pending' \in Seq(Messages(s))
               /\ \A c \in Contracts : Weigh(pending', c) = Told(c, n)
    <3> DEFINE m == [kind |-> "receive", to |-> r, sender |-> s, amount |-> n]
    <3>1. Notifications = {m}
      BY <1>5, <2>2 DEF Notifications
    <3>2. m \in Messages(s)
      BY <1>3 DEF Messages, IsMessage
    <3>3. \A c : Weight(m, c) = IF c = r THEN n ELSE 0
      BY DEF Weight, Concerns
    <3> HIDE DEF m
    <3>4. pending' = <<m>> \o <<>> /\ <<>> \in Seq(Messages(s))
      <4>1. pending' = <<m>>
        BY <1>2, <3>1, OneFirst
      <4>2. <<m>> = <<m>> \o <<>> /\ <<>> \in Seq(Messages(s))
        OBVIOUS
      <4> QED BY <4>1, <4>2
    <3>5. pending' \in Seq(Messages(s)) /\ \A c : Weigh(pending', c) = Weight(m, c) + Weigh(<<>>, c)
      BY <3>2, <3>4, Pushed
    <3>6. \A c \in Contracts : Weigh(pending', c) = (IF c = r THEN n ELSE 0) + 0
      BY <3>3, <3>5, WeighNone
    <3> QED BY <2>2, <3>5, <3>6, MaxUintAssumption DEF Told, Amount
  <2> QED BY <1>5, <2>1, <2>2
<1>8. \A c \in Contracts : Due(c) = 0 /\ Due(c)' = Told(c, n) /\ Told(c, n) \in Nat
  BY <1>2, <1>7, DueWeighs, WeighNone, MaxUintAssumption DEF Told, Amount
<1>9. /\ Vault \in Contracts /\ Relay \in Contracts /\ Owed' = Owed
      /\ \A c \in Contracts : Balance(c) \in Nat /\ Balance(c)' \in Nat /\ Owed \in Nat
  <2>1. \A c \in Contracts : Balance(c)' \in Nat
    <3>1. IsBalanceMap(balances')
      BY <1>4 DEF IInv, TypeOK
    <3> QED BY <3>1, MaxUintAssumption DEF IsBalanceMap, Balance, Amount
  <2> QED BY <1>2, <2>1, SentNats DEF Contracts, Owed
<1>10. Solvent'
  BY <1>2, <1>5, <1>8, <1>9 DEF Solvent
<1>11. Restorable(storage) /\ storage.book = book /\ storage.allowances = allowances
       /\ \A a : BalanceIn(storage, a) = Balance(a)
  BY StorageRestorable
<1>12. Underway'
  <2>1. \A z \in saved' : Restorable(z) /\ \A u \in Users \ {s} : z.book[u] <= book[u]
    BY <1>2, <1>3, <1>11, Sorts
  <2> QED BY <1>2, <1>5, <1>6, <1>7, <2>1 DEF Underway, Live
<1>13. OthersKeepTheirs'
  <2> SUFFICES ASSUME NEW u \in Users \ {s}
               PROVE  Balance(u)' + book[u] + Grant(allowances, <<u, s>>).allowance >= Balance(u) + book[u]
    BY <1>2, <1>11 DEF OthersKeepTheirs
  <2> DEFINE g == Grant(allowances, <<u, s>>).allowance
  <2>1. Balance(u) <= Balance(u)' + g
    BY <1>1, <1>2, <1>3, <1>4, <1>5, CallCosts DEF IInv
  <2>2. Balance(u) \in Nat /\ Balance(u)' \in Nat /\ book[u] \in Nat /\ g \in Nat
    <3>1. IsBalanceMap(balances') /\ Grant(allowances, <<u, s>>) \in GrantType
      BY <1>2, <1>4, GrantTyped DEF IInv, TypeOK
    <3> QED BY <1>2, <3>1, SentNats, Sorts, MaxUintAssumption DEF IsBalanceMap, Balance, Amount, GrantType
  <2> SUFFICES Balance(u)' + book[u] + g >= Balance(u) + book[u]
    OBVIOUS
  <2> HIDE DEF g
  <2> QED BY <2>1, <2>2
<1> QED BY <1>4, <1>10, <1>12, <1>13 DEF SInv

\* A user takes tokens out of the vault.
LEMMA WithdrawPreserves ==
  ASSUME SInv, Live, NEW s \in Users, Withdraw(s)
  PROVE  SInv'
<1>0. book \in [Accounts -> Nat] /\ s \in Accounts /\ book[s] \in Nat
  BY Sorts DEF SInv, Underway
<1>1. PICK n \in Nat, r \in {s, Relay} :
        /\ n <= book[s]
        /\ book' = [book EXCEPT ![s] = @ - n]
        /\ pending' = <<TokenCall(Vault, r, n)>>
  <2>1. PICK n \in 1..book[s], r \in {s, Relay} :
          /\ book' = [book EXCEPT ![s] = @ - n]
          /\ pending' = <<TokenCall(Vault, r, n)>>
    BY DEF Withdraw
  <2>2. n \in Nat /\ n <= book[s]
    BY <1>0, <2>1
  <2> QED BY <2>1, <2>2
<1>2. /\ tx = "idle" /\ pending = <<>> /\ tx' = "running" /\ origin' = s /\ saved' = {storage}
      /\ book \in [Accounts -> Nat] /\ NoneByContracts /\ IInv /\ Solvent /\ UNCHANGED vars
  BY DEF Withdraw, Begin, SInv, Underway, IInv
<1>3. s \in Accounts \ Contracts /\ Contracts \subseteq Accounts /\ Relay \in Accounts
  BY Sorts DEF Contracts
<1>4. IInv'
  BY <1>2, StepPreserves
<1>5. /\ book[s] \in Nat /\ n \in Nat /\ n <= book[s] /\ book[s] - n \in Nat
  BY <1>1, <1>2, <1>3
<1>6. /\ book' \in [Accounts -> Nat] /\ Owed \in Nat /\ Owed' \in Nat /\ Owed' + n = Owed
  <2>1. book' = Debited(book, s, n)
    BY <1>1 DEF Debited
  <2>2. book \in [Accounts -> Nat] /\ s \in Accounts /\ n \in Nat /\ n <= book[s]
    BY <1>2, <1>3, <1>5
  <2>3. /\ Debited(book, s, n) \in [Accounts -> Nat] /\ Sum(book) \in Nat
        /\ Sum(Debited(book, s, n)) \in Nat /\ Sum(Debited(book, s, n)) + n = Sum(book)
    BY <2>2, DebitedSum
  <2> QED BY <2>1, <2>3 DEF Owed
<1>7. /\ UNCHANGED <<version, balances, allowances>> /\ \A a : Balance(a)' = Balance(a) /\ Balance(a) \in Nat
  BY <1>2, SentNats DEF vars, token, grants, Balance
<1>8. Vault \in Contracts /\ Relay \in Contracts /\ Vault # Relay /\ n \in Amount
  <2>1. Balance(Vault) \in Amount /\ Due(Vault) \in Nat /\ Owed + Due(Vault) <= Balance(Vault)
    BY <1>2, BalanceTyped, SentNats DEF IInv, Solvent
  <2>2. n <= MaxUint
    <3>1. Owed \in Nat /\ Owed' \in Nat /\ Owed' + n = Owed /\ n \in Nat
      BY <1>5, <1>6
    <3>2. Balance(Vault) \in Nat /\ Balance(Vault) <= MaxUint /\ MaxUint \in Nat
      BY <2>1, MaxUintAssumption DEF Amount
    <3> DEFINE o == Owed
               p == Owed'
               b == Balance(Vault)
               d == Due(Vault)
    <3>3. /\ o \in Nat /\ p \in Nat /\ b \in Nat /\ d \in Nat
          /\ p + n = o /\ o + d <= b /\ b <= MaxUint
      BY <2>1, <3>1, <3>2
    <3> HIDE DEF o, p, b, d
    <3> QED BY <3>2, <3>3
  <2>3. n \in Amount
    BY <1>5, <2>2, MaxUintAssumption DEF Amount
  <2> QED BY <2>3, PartiesAssumption DEF Contracts
<1>9. /\ pending' \in Seq(Messages(s))
      /\ \A c : Weigh(pending', c) = IF c = Vault THEN n ELSE 0
  <2> DEFINE m == TokenCall(Vault, r, n)
  <2>1. m \in Messages(s)
    BY <1>1, <1>3, <1>8, Sorts DEF Messages, IsMessage, TokenCall
  <2>2. \A c : Weight(m, c) = IF c = Vault THEN n ELSE 0
    BY DEF Weight, Concerns, TokenCall
  <2> HIDE DEF m
  <2>3. pending' = <<m>> \o <<>> /\ <<>> \in Seq(Messages(s))
    <3>1. pending' = <<m>>
      BY <1>1 DEF m
    <3>2. <<m>> = <<m>> \o <<>> /\ <<>> \in Seq(Messages(s))
      OBVIOUS
    <3> QED BY <3>1, <3>2
  <2>4. pending' \in Seq(Messages(s)) /\ \A c : Weigh(pending', c) = Weight(m, c) + Weigh(<<>>, c)
    BY <2>1, <2>3, Pushed
  <2>5. \A c : Weigh(pending', c) = (IF c = Vault THEN n ELSE 0) + 0
    BY <2>2, <2>4, WeighNone
  <2> QED BY <1>5, <2>4, <2>5
<1>10. /\ Due(Vault) = 0 /\ Due(Vault)' = n
       /\ Due(Relay) = 0 /\ Due(Relay)' = 0
  BY <1>2, <1>8, <1>9, DueWeighs, WeighNone
<1>11. Solvent'
  <2>1. Owed + Due(Vault) <= Balance(Vault) /\ Due(Relay) <= Balance(Relay)
    BY <1>2 DEF Solvent
  <2>2. Balance(Vault)' = Balance(Vault) /\ Balance(Relay)' = Balance(Relay)
    BY <1>7
  <2>3. Owed' + Due(Vault)' <= Balance(Vault)' /\ Due(Relay)' <= Balance(Relay)'
    <3>1. /\ Owed \in Nat /\ Owed' \in Nat /\ Owed' + n = Owed /\ n \in Nat
          /\ Balance(Vault) \in Nat /\ Balance(Relay) \in Nat
      BY <1>5, <1>6, <1>7
    <3> DEFINE o == Owed
               p == Owed'
               b == Balance(Vault)
               c == Balance(Relay)
    <3>2. /\ o \in Nat /\ p \in Nat /\ b \in Nat /\ c \in Nat
          /\ p + n = o /\ o + 0 <= b /\ 0 <= c
      BY <1>10, <2>1, <3>1
    <3>3. Due(Vault)' = n /\ Due(Relay)' = 0 /\ Balance(Vault)' = b /\ Balance(Relay)' = c
      BY <1>10, <2>2
    <3> SUFFICES p + Due(Vault)' <= Balance(Vault)' /\ Due(Relay)' <= Balance(Relay)'
      OBVIOUS
    <3> HIDE DEF o, p, b, c
    <3> QED BY <3>2, <3>3
  <2> QED BY <2>3 DEF Solvent
<1>12. Restorable(storage) /\ storage.book = book /\ storage.allowances = allowances
       /\ \A a : BalanceIn(storage, a) = Balance(a)
  BY StorageRestorable
<1>13. \A u \in Users \ {s} : u \in Accounts /\ book'[u] = book[u] /\ book[u] \in Nat
  BY <1>1, <1>2, Sorts
<1>14. Underway'
  <2>1. \A z \in saved' : Restorable(z) /\ \A u \in Users \ {s} : z.book[u] <= book'[u]
    BY <1>2, <1>12, <1>13
  <2> QED BY <1>2, <1>6, <1>7, <1>9, <2>1 DEF Underway, Live, NoneByContracts
<1>15. OthersKeepTheirs'
  <2> SUFFICES ASSUME NEW u \in Users \ {s}
               PROVE  Balance(u)' + book'[u] + Grant(allowances, <<u, s>>).allowance >= Balance(u) + book[u]
    BY <1>2, <1>12 DEF OthersKeepTheirs
  <2> DEFINE g == Grant(allowances, <<u, s>>).allowance
  <2>1. g \in Nat
    <3>1. Grant(allowances, <<u, s>>) \in GrantType
      BY <1>2, GrantTyped DEF IInv, TypeOK
    <3> QED BY <3>1, MaxUintAssumption DEF Amount, GrantType
  <2> SUFFICES Balance(u)' + book'[u] + g >= Balance(u) + book[u]
    OBVIOUS
  <2> HIDE DEF g
  <2> QED BY <1>7, <1>13, <2>1
<1> QED BY <1>4, <1>11, <1>14, <1>15 DEF SInv
-----------------------------------------------------------------------------
\* While a transaction runs, without a failure: the books kept are the same, the users
\* have at least what they had, and what the contracts hold is checked.
LEMMA RunningPreserves ==
  ASSUME SInv, tx = "running", UNCHANGED <<tx, version, origin, saved>>, IInv', NoneByContracts',
         book' \in [Accounts -> Nat], pending' \in Seq(Messages(origin)), Solvent',
         \A u \in Users : Balance(u)' >= Balance(u) /\ book'[u] >= book[u]
  PROVE  SInv'
<1>1. Live /\ Underway /\ OthersKeepTheirs /\ IInv
  BY DEF SInv, Underway
<1>2. ASSUME NEW z \in saved, NEW u \in Users \ {origin}
      PROVE  /\ book[u] \in Nat /\ book'[u] \in Nat /\ Balance(u) \in Nat /\ Balance(u)' \in Nat
             /\ z.book[u] \in Nat /\ BalanceIn(z, u) \in Nat
             /\ Grant(z.allowances, <<u, origin>>).allowance \in Nat
  <2>1. /\ IsBalanceMap(balances') /\ IsBalanceMap(z.balances) /\ z.book \in [Accounts -> Nat]
        /\ Grant(z.allowances, <<u, origin>>) \in GrantType
    BY <1>1, GrantTyped DEF IInv, TypeOK, Underway, Restorable
  <2>2. BalanceIn(z, u) \in Nat /\ Balance(u)' \in Nat
    BY <2>1, MaxUintAssumption DEF IsBalanceMap, Amount, BalanceIn, Balance
  <2> QED BY <1>1, <2>1, <2>2, SentNats, Sorts, MaxUintAssumption DEF Underway, GrantType, Amount
<1>3. Underway'
  <2>1. \A z \in saved : Restorable(z) /\ \A u \in Users \ {origin} : z.book[u] <= book'[u]
    <3> SUFFICES ASSUME NEW z \in saved, NEW u \in Users \ {origin} PROVE z.book[u] <= book'[u]
      BY <1>1 DEF Underway
    <3> DEFINE a == z.book[u]
               b == book[u]
               c == book'[u]
    <3>1. a <= b /\ c >= b /\ a \in Nat /\ b \in Nat /\ c \in Nat
      BY <1>1, <1>2 DEF Underway
    <3> SUFFICES a <= c
      OBVIOUS
    <3> HIDE DEF a, b, c
    <3> QED BY <3>1
  <2> QED BY <1>1, <2>1 DEF Underway, Live
<1>4. OthersKeepTheirs'
  <2> SUFFICES ASSUME NEW u \in Users \ {origin}, NEW z \in saved
               PROVE  Balance(u)' + book'[u] + Grant(z.allowances, <<u, origin>>).allowance
                        >= BalanceIn(z, u) + z.book[u]
    BY DEF OthersKeepTheirs
  <2> DEFINE g == Grant(z.allowances, <<u, origin>>).allowance
  <2>1. Balance(u) + book[u] + g >= BalanceIn(z, u) + z.book[u]
    BY <1>1 DEF OthersKeepTheirs
  <2>2. Balance(u)' >= Balance(u) /\ book'[u] >= book[u]
    OBVIOUS
  <2> DEFINE a == z.book[u]
             b == book[u]
             c == book'[u]
  <2>3. g \in Nat /\ a \in Nat /\ b \in Nat /\ c \in Nat
        /\ Balance(u) \in Nat /\ Balance(u)' \in Nat /\ BalanceIn(z, u) \in Nat
    BY <1>2
  <2>4. Balance(u) + b + g >= BalanceIn(z, u) + a /\ Balance(u)' >= Balance(u) /\ c >= b
    BY <2>1, <2>2
  <2> SUFFICES Balance(u)' + c + g >= BalanceIn(z, u) + a
    OBVIOUS
  <2> HIDE DEF g, a, b, c
  <2> QED BY <2>3, <2>4
<1> QED BY <1>3, <1>4 DEF SInv

\* A message that fails changes nothing; what waits is dropped later.
LEMMA FailurePreserves ==
  ASSUME SInv, tx = "running", tx' = "failed", IInv',
         UNCHANGED <<version, balances, allowances, origin, saved, pending, book>>
  PROVE  SInv'
<1>1. Underway'
  BY DEF SInv, Underway, Live, NoneByContracts
<1>2. Solvent'
  BY DEF SInv, Solvent, Owed, Due, Balance
<1>3. OthersKeepTheirs'
  BY DEF OthersKeepTheirs
<1> QED BY <1>1, <1>2, <1>3 DEF SInv
-----------------------------------------------------------------------------
\* The message at the head: it is one of this transaction, the others still are, and
\* what waited is what it counts for and the rest.
LEMMA HeadMessage ==
  ASSUME SInv, NEW kind, NextMessage(kind), NEW m, m = Head(pending), NEW rest, rest = Tail(pending)
  PROVE  /\ tx = "running" /\ Live /\ m.kind = kind /\ UNCHANGED <<origin, saved>>
         /\ m \in Messages(origin) /\ rest \in Seq(Messages(origin))
         /\ m.sender \in Accounts /\ m.to \in Accounts /\ m.amount \in Amount /\ m.amount \in Nat
         /\ kind = "token" => m.sender \in Contracts
         /\ m.sender \in Users => m.sender = origin
         /\ \A c : Due(c) = Weight(m, c) + Weigh(rest, c) /\ Weight(m, c) \in Nat /\ Weigh(rest, c) \in Nat
<1>1. /\ tx = "running" /\ Live /\ pending # <<>> /\ m.kind = kind /\ UNCHANGED <<origin, saved>>
      /\ pending \in Seq(Messages(origin))
  BY DEF NextMessage, SInv, Underway
<1>2. m \in Messages(origin) /\ rest \in Seq(Messages(origin))
  <2> HIDE DEF Messages
  <2> QED BY <1>1
<1>3. /\ m.sender \in Accounts /\ m.to \in Accounts /\ m.amount \in Amount
      /\ m.kind = "token" => m.sender \in Contracts
      /\ m.sender \in Users => m.sender = origin
  BY <1>2 DEF Messages, IsMessage
<1>4. \A c : Due(c) = Weight(m, c) + Weigh(rest, c) /\ Weight(m, c) \in Nat /\ Weigh(rest, c) \in Nat
  BY <1>1, DueWeighs, WeighFirst
<1> QED BY <1>1, <1>2, <1>3, <1>4, MaxUintAssumption DEF Amount

\* A response to it: no message, or one.
LEMMA ResponseNone ==
  ASSUME NEW rest, pending' = InOrder({}) \o rest, NEW signer, rest \in Seq(Messages(signer))
  PROVE  pending' = rest /\ \A c : Due(c)' = Weigh(rest, c)
<1>1. pending' = <<>> \o rest
  BY NoneFirst
<1>2. <<>> \o rest = rest
  <2> HIDE DEF Messages
  <2> QED OBVIOUS
<1> QED BY <1>1, <1>2, DueWeighs

LEMMA ResponseOne ==
  ASSUME NEW rest, NEW m, pending' = InOrder({m}) \o rest,
         NEW signer, rest \in Seq(Messages(signer)), m \in Messages(signer)
  PROVE  pending' \in Seq(Messages(signer)) /\ \A c : Due(c)' = Weight(m, c) + Weigh(rest, c)
<1>1. pending' = <<m>> \o rest
  BY OneFirst
<1> QED BY <1>1, Pushed, DueWeighs

\* A contract sends tokens on.
LEMMA TokenMessagePreserves ==
  ASSUME SInv, TokenMessage
  PROVE  SInv'
<1> DEFINE m == Head(pending)
           rest == Tail(pending)
           s == m.sender
           r == m.to
           n == m.amount
           told == {r} \cap Contracts
<1>1. NextMessage("token") /\ Transfer(s, r, n, told)
  BY DEF TokenMessage
<1>2. /\ tx = "running" /\ Live /\ UNCHANGED <<origin, saved>>
      /\ rest \in Seq(Messages(origin)) /\ s \in Contracts /\ r \in Accounts /\ n \in Amount /\ n \in Nat
      /\ \A c : Due(c) = Weight(m, c) + Weigh(rest, c) /\ Weight(m, c) \in Nat /\ Weigh(rest, c) \in Nat
      /\ m.kind = "token"
  BY <1>1, HeadMessage
<1>3. s \in Accounts /\ s \notin Users /\ IInv /\ TypeOK /\ NoneByContracts /\ Solvent
  BY <1>2, Sorts DEF SInv, IInv, Underway
<1>4. IInv'
  BY <1>1, <1>2, <1>3, TransferPreserves
<1>5. version' = version /\ allowances' = allowances
  BY <1>1 DEF Transfer, Refuse, grants
<1>6. last'.result = "Ok" => CanMove(s, r, n) /\ balances' = Moved(s, r, n)
                             /\ last'.sender = s /\ last'.amount = n /\ last'.notify = told
  BY <1>1 DEF Transfer, Refuse, Answer
<1>7. last'.result # "Ok" => balances' = balances
  BY <1>1 DEF Transfer, Refuse, Answer, token
<1>8. CASE last'.result # "Ok"
  <2>1. Fails
    BY <1>8 DEF TokenMessage
  <2> QED BY <1>2, <1>4, <1>5, <1>7, <1>8, <2>1, FailurePreserves DEF Fails
<1>9. CASE last'.result = "Ok"
  <2>1. pending' = InOrder(Notifications) \o rest /\ UNCHANGED <<tx, book>>
    BY <1>9 DEF TokenMessage, Execute
  <2> DEFINE w == [kind |-> "receive", to |-> r, sender |-> s, amount |-> n]
  <2>2. w \in Messages(origin) /\ \A c : Weight(w, c) = IF c = r THEN n ELSE 0
    BY <1>2, <1>3 DEF Messages, IsMessage, Weight, Concerns
  <2>3. \A c : Weight(m, c) = IF c = s THEN n ELSE 0
    BY <1>2 DEF Weight, Concerns
  <2>4. Notifications = IF r \in Contracts THEN {w} ELSE {}
    BY <1>6, <1>9 DEF Notifications
  <2>5. \A a : Balance(a)' = IF s = r THEN Balance(a)
                             ELSE IF a = s THEN Balance(a) - n
                             ELSE IF a = r THEN Balance(a) + n ELSE Balance(a)
    BY <1>2, <1>3, <1>6, <1>9, MovedBalance
  <2>6. CanMove(s, r, n) /\ n <= Balance(s) /\ \A a : Balance(a) \in Nat
    BY <1>6, <1>9, SentNats DEF CanMove
  <2> HIDE DEF m, rest, s, r, n, w
  <2>7. /\ pending' \in Seq(Messages(origin))
        /\ \A c \in Contracts : Due(c)' = (IF c = r THEN n ELSE 0) + Weigh(rest, c)
    <3>1. CASE r \in Contracts
      <4>1. pending' = InOrder({w}) \o rest
        BY <2>1, <2>4, <3>1
      <4> QED BY <1>2, <2>2, <4>1, ResponseOne
    <3>2. CASE r \notin Contracts
      <4>1. pending' = InOrder({}) \o rest
        BY <2>1, <2>4, <3>2
      <4>2. pending' = rest /\ \A c : Due(c)' = Weigh(rest, c)
        BY <1>2, <4>1, ResponseNone
      <4>3. \A c \in Contracts : (IF c = r THEN n ELSE 0) + Weigh(rest, c) = Weigh(rest, c)
        BY <1>2, <3>2
      <4> QED BY <1>2, <4>2, <4>3
    <3> QED BY <3>1, <3>2
  <2>8. ASSUME NEW c \in Contracts PROVE Due(c)' + Balance(c) = Due(c) + Balance(c)'
    <3> DEFINE x == Weigh(rest, c)
               y == Balance(c)
               z == Balance(c)'
    <3>1. Due(c)' = (IF c = r THEN n ELSE 0) + x /\ Due(c) = (IF c = s THEN n ELSE 0) + x /\ x \in Nat
      BY <1>2, <2>3, <2>7
    <3>2. z = IF s = r THEN y ELSE IF c = s THEN y - n ELSE IF c = r THEN y + n ELSE y
      BY <2>5
    <3>3. y \in Nat /\ (c = s => n <= y)
      BY <2>6
    <3> SUFFICES Due(c)' + y = Due(c) + z
      OBVIOUS
    <3> HIDE DEF x, y, z
    <3> QED BY <1>2, <3>1, <3>2, <3>3
  <2>9. /\ Vault \in Contracts /\ Relay \in Contracts /\ Owed' = Owed /\ Owed \in Nat
        /\ \A c \in Contracts : Due(c) \in Nat /\ Due(c)' \in Nat /\ Balance(c) \in Nat /\ Balance(c)' \in Nat
    <3>1. \A c \in Contracts : Due(c)' \in Nat
      BY <2>7, <1>2
    <3>2. IsBalanceMap(balances')
      BY <1>4 DEF IInv, TypeOK
    <3>3. \A c \in Contracts : Balance(c)' \in Nat
      BY <3>2, MaxUintAssumption DEF IsBalanceMap, Balance, Amount
    <3> QED BY <2>1, <3>1, <3>3, SentNats DEF Contracts, Owed
  <2>10. Solvent'
    BY <1>3, <2>8, <2>9 DEF Solvent
  <2>11. \A u \in Users : Balance(u)' >= Balance(u) /\ book'[u] >= book[u]
    <3> SUFFICES ASSUME NEW u \in Users PROVE Balance(u)' >= Balance(u) /\ book[u] >= book[u]
      BY <2>1
    <3>1. Balance(u)' = IF s # r /\ u = r THEN Balance(u) + n ELSE Balance(u)
      BY <1>3, <2>5
    <3>2. u \in Accounts /\ book[u] \in Nat
      BY Sorts DEF SInv, Underway
    <3> QED BY <1>2, <2>6, <3>1, <3>2
  <2>12. book' \in [Accounts -> Nat] /\ NoneByContracts'
    BY <1>3, <1>5, <2>1 DEF SInv, Underway, NoneByContracts
  <2> QED BY <1>2, <1>4, <1>5, <2>1, <2>7, <2>10, <2>11, <2>12, RunningPreserves
<1> QED BY <1>8, <1>9

\* A recipient returns an error, or there is no gas left.
LEMMA ReceiveFailsPreserves ==
  ASSUME SInv, ReceiveFails \/ OutOfGas
  PROVE  SInv'
<1>1. UNCHANGED vars /\ UNCHANGED <<origin, saved>> /\ Fails /\ tx = "running"
  BY DEF ReceiveFails, OutOfGas, NextMessage
<1>2. IInv'
  BY <1>1, StepPreserves DEF SInv
<1> QED BY <1>1, <1>2, FailurePreserves DEF Fails, vars, token, grants

\* The vault books what it got and may pay some of it back.
LEMMA VaultReceivesPreserves ==
  ASSUME SInv, VaultReceives
  PROVE  SInv'
<1> DEFINE m == Head(pending)
           rest == Tail(pending)
           n == m.amount
<1>1. NextMessage("receive") /\ m.to = Vault /\ UNCHANGED <<vars, tx>>
  BY DEF VaultReceives
<1>2. PICK back \in 0..n : /\ book' = Credited(book, m.sender, n, back)
                           /\ Execute({TokenCall(Vault, m.sender, back) : k \in {back} \ {0}})
  BY DEF VaultReceives, Credited
<1>3. /\ tx = "running" /\ Live /\ UNCHANGED <<origin, saved>> /\ m.kind = "receive"
      /\ rest \in Seq(Messages(origin)) /\ m.sender \in Accounts /\ n \in Amount /\ n \in Nat
      /\ \A c : Due(c) = Weight(m, c) + Weigh(rest, c) /\ Weight(m, c) \in Nat /\ Weigh(rest, c) \in Nat
  BY <1>1, HeadMessage
<1>4. /\ IInv /\ IInv' /\ NoneByContracts /\ NoneByContracts' /\ Solvent /\ book \in [Accounts -> Nat]
      /\ UNCHANGED <<version, balances>>
  BY <1>1, <1>3, StepPreserves DEF SInv, Underway, vars, token, grants, NoneByContracts
<1>5. /\ back \in Nat /\ back <= n /\ back \in Amount
  <2> HIDE DEF n
  <2> QED BY <1>3, MaxUintAssumption DEF Amount
<1>6. /\ book' \in [Accounts -> Nat] /\ \A x \in Accounts : book'[x] >= book[x]
      /\ Owed \in Nat /\ Owed' \in Nat /\ Owed' + back = Owed + n
  <2> DEFINE a == m.sender
  <2>1. a \in Accounts /\ n \in Nat /\ back \in Nat /\ back <= n
    BY <1>3, <1>5
  <2>2. book' = Credited(book, a, n, back) /\ book \in [Accounts -> Nat]
    BY <1>2, <1>4
  <2> HIDE DEF a, n, m
  <2>3. /\ Credited(book, a, n, back) \in [Accounts -> Nat]
        /\ \A x \in Accounts : Credited(book, a, n, back)[x] >= book[x]
        /\ Sum(book) \in Nat /\ Sum(Credited(book, a, n, back)) \in Nat
        /\ Sum(Credited(book, a, n, back)) + back = Sum(book) + n
    BY <2>1, <2>2, CreditedSum, SMTT(30)
  <2> QED BY <2>2, <2>3 DEF Owed
<1> DEFINE w == TokenCall(Vault, m.sender, back)
<1>7. /\ \A c : Weight(m, c) = IF c = Vault THEN n ELSE 0
      /\ \A c : Weight(w, c) = IF c = Vault THEN back ELSE 0
      /\ w \in Messages(origin)
  <2>1. Vault \in Contracts /\ Vault \in Accounts /\ Vault \notin Users
    BY Sorts DEF Contracts
  <2> QED BY <1>1, <1>3, <1>5, <2>1 DEF Weight, Concerns, TokenCall, Messages, IsMessage
<1>8. pending' = InOrder({w : k \in {back} \ {0}}) \o rest
  BY <1>2 DEF Execute
<1> HIDE DEF m, rest, n, w
<1>9. /\ pending' \in Seq(Messages(origin))
      /\ \A c : Due(c)' = (IF c = Vault THEN back ELSE 0) + Weigh(rest, c)
  <2>1. CASE back # 0
    <3>1. {w : k \in {back} \ {0}} = {w}
      BY <2>1
    <3>2. pending' = InOrder({w}) \o rest
      BY <1>8, <3>1
    <3> QED BY <1>3, <1>7, <3>2, ResponseOne
  <2>2. CASE back = 0
    <3>1. {w : k \in {back} \ {0}} = {}
      BY <2>2
    <3>2. pending' = InOrder({}) \o rest
      BY <1>8, <3>1
    <3>3. pending' = rest /\ \A c : Due(c)' = Weigh(rest, c)
      BY <1>3, <3>2, ResponseNone
    <3>4. \A c : (IF c = Vault THEN back ELSE 0) + Weigh(rest, c) = Weigh(rest, c)
      BY <1>3, <2>2
    <3> QED BY <1>3, <3>3, <3>4
  <2> QED BY <2>1, <2>2
<1>10. Solvent'
  <2> DEFINE o == Owed
             p == Owed'
             x == Weigh(rest, Vault)
             y == Weigh(rest, Relay)
             b == Balance(Vault)
             d == Balance(Relay)
  <2>1. Due(Vault) = n + x /\ Due(Relay) = y /\ Due(Vault)' = back + x /\ Due(Relay)' = y
    <3>1. Relay # Vault
      BY PartiesAssumption
    <3>2. Due(Relay) = 0 + y /\ Due(Relay)' = 0 + y /\ y \in Nat
      BY <1>3, <1>7, <1>9, <3>1
    <3> QED BY <1>3, <1>7, <1>9, <3>2
  <2>2. o + Due(Vault) <= b /\ Due(Relay) <= d
    BY <1>4 DEF Solvent
  <2>3. Balance(Vault)' = b /\ Balance(Relay)' = d
    BY <1>4 DEF Balance
  <2>4. o \in Nat /\ p \in Nat /\ x \in Nat /\ y \in Nat /\ b \in Nat /\ d \in Nat /\ p + back = o + n
    BY <1>3, <1>6, SentNats
  <2> SUFFICES p + Due(Vault)' <= Balance(Vault)' /\ Due(Relay)' <= Balance(Relay)'
    BY DEF Solvent
  <2> HIDE DEF o, p, x, y, b, d
  <2> QED BY <1>3, <1>5, <2>1, <2>2, <2>3, <2>4
<1>11. \A u \in Users : Balance(u)' >= Balance(u) /\ book'[u] >= book[u]
  BY <1>4, <1>6, Sorts, SentNats DEF Balance
<1> QED BY <1>1, <1>3, <1>4, <1>6, <1>9, <1>10, <1>11, RunningPreserves

\* The relay keeps what it got or sends it on to the vault.
LEMMA RelayReceivesPreserves ==
  ASSUME SInv, RelayReceives
  PROVE  SInv'
<1> DEFINE m == Head(pending)
           rest == Tail(pending)
           n == m.amount
           w == TokenCall(Relay, Vault, n)
<1>1. NextMessage("receive") /\ m.to = Relay /\ UNCHANGED <<vars, tx, book>>
  BY DEF RelayReceives
<1>2. PICK forward \in SUBSET {w} : pending' = InOrder(forward) \o rest
  BY DEF RelayReceives, Execute
<1>3. /\ tx = "running" /\ Live /\ UNCHANGED <<origin, saved>> /\ m.kind = "receive"
      /\ rest \in Seq(Messages(origin)) /\ m.sender \in Accounts /\ n \in Amount /\ n \in Nat
      /\ \A c : Due(c) = Weight(m, c) + Weigh(rest, c) /\ Weight(m, c) \in Nat /\ Weigh(rest, c) \in Nat
  BY <1>1, HeadMessage
<1>4. /\ IInv /\ IInv' /\ NoneByContracts /\ NoneByContracts' /\ Solvent /\ book \in [Accounts -> Nat]
      /\ UNCHANGED <<version, balances>>
  BY <1>1, <1>3, StepPreserves DEF SInv, Underway, vars, token, grants, NoneByContracts
<1>5. /\ \A c : Weight(m, c) = IF c = Relay THEN n ELSE 0
      /\ \A c : Weight(w, c) = IF c = Relay THEN n ELSE 0
      /\ w \in Messages(origin)
  <2>1. /\ Relay \in Contracts /\ Relay \in Accounts /\ Relay \notin Users
        /\ Vault \in Accounts
    BY Sorts DEF Contracts
  <2> QED BY <1>1, <1>3, <2>1 DEF Weight, Concerns, TokenCall, Messages, IsMessage
<1> HIDE DEF m, rest, n, w
<1>6. /\ pending' \in Seq(Messages(origin))
      /\ \A c : Due(c)' <= Due(c) /\ Due(c) \in Nat /\ Due(c)' \in Nat
  <2>1. CASE forward = {w}
    <3>1. pending' = InOrder({w}) \o rest
      BY <1>2, <2>1
    <3>2. pending' \in Seq(Messages(origin)) /\ \A c : Due(c)' = Weight(w, c) + Weigh(rest, c)
      BY <1>3, <1>5, <3>1, ResponseOne
    <3> QED BY <1>3, <1>5, <3>2
  <2>2. CASE forward = {}
    <3>1. pending' = InOrder({}) \o rest
      BY <1>2, <2>2
    <3>2. pending' = rest /\ \A c : Due(c)' = Weigh(rest, c)
      BY <1>3, <3>1, ResponseNone
    <3> QED BY <1>3, <3>2
  <2> QED BY <2>1, <2>2
<1>7. Solvent'
  <2>1. /\ Owed' = Owed /\ Owed \in Nat /\ Balance(Vault)' = Balance(Vault) /\ Balance(Relay)' = Balance(Relay)
        /\ Balance(Vault) \in Nat /\ Balance(Relay) \in Nat
    BY <1>1, <1>4, SentNats DEF Owed, Balance
  <2> QED BY <1>4, <1>6, <2>1 DEF Solvent
<1>8. \A u \in Users : Balance(u)' >= Balance(u) /\ book'[u] >= book[u]
  BY <1>1, <1>4, Sorts, SentNats DEF Balance
<1> QED BY <1>1, <1>3, <1>4, <1>6, <1>7, <1>8, RunningPreserves
-----------------------------------------------------------------------------
\* A transaction ends: what it did stays, or the books before it come back.
LEMMA CommitPreserves ==
  ASSUME SInv, Commit
  PROVE  SInv'
<1>1. /\ pending = <<>> /\ tx' = "idle" /\ pending' = <<>> /\ saved' = {}
      /\ UNCHANGED <<version, height, origin, token, grants, book>>
  BY DEF Commit, Finish
<1>2. UNCHANGED <<balances, total_supply, mint, allowances, allowances_spender>>
  BY <1>1 DEF token, grants
<1>3. IInv' /\ Solvent'
  BY <1>1, <1>2 DEF SInv, IInv, TypeOK, CapHolds, Mirrored, Legacy, Live, Solvent, Owed, Due, Balance
<1>4. Underway'
  <2>1. <<>> \in Seq(Messages(origin))
    <3> HIDE DEF Messages
    <3> QED OBVIOUS
  <2> QED BY <1>1, <1>2, <2>1 DEF SInv, Underway, Live, NoneByContracts
<1>5. OthersKeepTheirs'
  BY <1>1 DEF OthersKeepTheirs
<1> QED BY <1>3, <1>4, <1>5 DEF SInv

LEMMA RollbackPreserves ==
  ASSUME SInv, Rollback
  PROVE  SInv'
<1>1. PICK s \in saved : /\ balances' = s.balances /\ total_supply' = s.total_supply /\ mint' = s.mint
                         /\ allowances' = s.allowances /\ allowances_spender' = s.allowances_spender
                         /\ book' = s.book
  BY DEF Rollback
<1>2. /\ tx' = "idle" /\ pending' = <<>> /\ saved' = {} /\ UNCHANGED <<version, height, origin>>
      /\ tx = "failed" /\ Underway /\ TypeOK /\ Restorable(s)
  BY DEF Rollback, Finish, SInv, IInv, Underway
<1>3. Live
  BY <1>2 DEF Underway
<1>4. TypeOK'
  BY <1>1, <1>2 DEF Restorable, TypeOK
<1>5. CapHolds' /\ Mirrored' /\ Legacy' /\ NoneByContracts'
  BY <1>1, <1>2, <1>3 DEF Restorable, CapHolds, Mirrored, Legacy, NoneByContracts, Live
<1>6. Underway'
  <2>1. <<>> \in Seq(Messages(origin))
    <3> HIDE DEF Messages
    <3> QED OBVIOUS
  <2> QED BY <1>1, <1>2, <1>3, <1>5, <2>1 DEF Underway, Live, Restorable
<1>7. Solvent'
  <2>1. /\ Sum(s.book) <= BalanceIn(s, Vault) /\ s.book \in [Accounts -> Nat]
        /\ IsBalanceMap(s.balances)
    BY <1>2 DEF Restorable
  <2>2. Sum(s.book) \in Nat
    <3> DEFINE f == s.book
    <3>1. f \in [Accounts -> Nat] /\ Vault \in Accounts /\ f[Vault] \in Nat
      BY <2>1, PartiesAssumption
    <3> HIDE DEF f
    <3>2. Sum(f) \in Nat
      BY <3>1, BookUpdate
    <3> QED BY <3>2 DEF f
  <2>3. Due(Vault)' = 0 /\ Due(Relay)' = 0
    BY <1>2, DueWeighs, WeighNone
  <2>4. Balance(Vault)' = BalanceIn(s, Vault) /\ Owed' = Sum(s.book)
    BY <1>1 DEF Balance, BalanceIn, Owed
  <2>5. Balance(Relay)' \in Nat
    BY <1>1, <2>1, MaxUintAssumption DEF IsBalanceMap, Balance, Amount
  <2> DEFINE o == Sum(s.book)
             b == BalanceIn(s, Vault)
  <2>6. Owed' = o /\ Balance(Vault)' = b /\ o <= b /\ o \in Nat
    BY <2>1, <2>2, <2>4
  <2> HIDE DEF o, b
  <2>7. Owed' + Due(Vault)' <= Balance(Vault)' /\ Due(Relay)' <= Balance(Relay)'
    BY <2>3, <2>5, <2>6
  <2> QED BY <2>7 DEF Solvent
<1>8. OthersKeepTheirs'
  BY <1>2 DEF OthersKeepTheirs
<1> QED BY <1>4, <1>5, <1>6, <1>7, <1>8 DEF SInv, IInv

\* The token is deployed.
LEMMA DeployPreserves ==
  ASSUME SInv, Deploy
  PROVE  SInv'
<1>1. PICK rows \in InitialRows : Instantiate(rows, {})
  BY DEF Deploy
<1>2. /\ version = "none" /\ version' = "current" /\ UNCHANGED <<grants, book, tx, pending, origin, saved>>
      /\ Underway /\ IInv
  BY <1>1 DEF Deploy, Instantiate, chain, SInv
<1>3. IInv'
  <2>1. {} \in Option(MinterData)
    BY DEF Option
  <2> QED BY <1>1, <1>2, <2>1, StepPreserves DEF Next
<1>4. book = NoBooks /\ tx = "idle" /\ pending = <<>> /\ saved = {} /\ allowances = <<>>
  BY <1>2 DEF Underway, Live, IInv, Legacy
<1>5. Underway'
  BY <1>2, <1>4 DEF Underway, Live, NoneByContracts, grants
<1>6. Solvent'
  <2>1. Owed' = 0 /\ Due(Vault)' = 0 /\ Due(Relay)' = 0
    BY <1>2, <1>4, EmptyBook, DueWeighs, WeighNone DEF Owed, NoBooks
  <2>2. Balance(Vault)' \in Nat /\ Balance(Relay)' \in Nat
    <3>1. IsBalanceMap(balances')
      BY <1>3 DEF IInv, TypeOK
    <3> QED BY <3>1, MaxUintAssumption DEF IsBalanceMap, Balance, Amount
  <2>3. Owed' + Due(Vault)' <= Balance(Vault)' /\ Due(Relay)' <= Balance(Relay)'
    BY <2>1, <2>2
  <2> QED BY <2>3 DEF Solvent
<1>7. OthersKeepTheirs'
  BY <1>2, <1>4 DEF OthersKeepTheirs
<1> QED BY <1>3, <1>5, <1>6, <1>7 DEF SInv

LEMMA SendInitEstablishes == SendInit => SInv
<1> SUFFICES ASSUME SendInit PROVE SInv
  OBVIOUS
<1>1. IInv /\ version # "current" /\ book = NoBooks /\ tx = "idle" /\ pending = <<>> /\ saved = {}
      /\ origin \in Users
  <2>1. version # "current"
    BY LegacyAssumption DEF SendInit, Init
  <2> QED BY <2>1, InitEstablishes DEF SendInit, NoBooks
<1>2. Underway
  <2>1. <<>> \in Seq(Messages(origin)) /\ NoBooks \in [Accounts -> Nat]
    <3> HIDE DEF Messages
    <3> QED BY DEF NoBooks
  <2> QED BY <1>1, <2>1 DEF Underway, Live
<1>3. Solvent
  <2>1. Owed = 0 /\ Due(Vault) = 0 /\ Due(Relay) = 0
    BY <1>1, EmptyBook, DueWeighs, WeighNone DEF Owed, NoBooks
  <2>2. Balance(Vault) \in Nat /\ Balance(Relay) \in Nat
    BY <1>1, BalanceTyped, MaxUintAssumption DEF IInv, Amount
  <2>3. Owed + Due(Vault) <= Balance(Vault) /\ Due(Relay) <= Balance(Relay)
    BY <2>1, <2>2
  <2> QED BY <2>3 DEF Solvent
<1>4. OthersKeepTheirs
  BY <1>1 DEF OthersKeepTheirs
<1> QED BY <1>1, <1>2, <1>3, <1>4 DEF SInv

LEMMA SendStepPreserves == SInv /\ [SendNext]_svars => SInv'
<1> SUFFICES ASSUME SInv, [SendNext]_svars PROVE SInv'
  OBVIOUS
<1>1. CASE UNCHANGED svars
  <2>1. /\ UNCHANGED vars
        /\ UNCHANGED <<version, balances, allowances, book, tx, pending, origin, saved>>
    BY <1>1 DEF svars, vars, chain, token, grants
  <2>2. IInv'
    BY <2>1, StepPreserves DEF SInv
  <2>3. Underway' /\ Solvent' /\ OthersKeepTheirs'
    BY <2>1 DEF SInv, Underway, Live, NoneByContracts, Solvent, Owed, Due, Balance, OthersKeepTheirs
  <2> QED BY <2>2, <2>3 DEF SInv
<1>2. CASE Deploy
  BY <1>2, DeployPreserves
<1>3. CASE \E s \in Users : Live /\ (Sign(s) \/ Withdraw(s))
  BY <1>3, SignPreserves, WithdrawPreserves
<1>4. CASE TokenMessage
  BY <1>4, TokenMessagePreserves
<1>5. CASE ReceiveFails \/ OutOfGas
  BY <1>5, ReceiveFailsPreserves
<1>6. CASE VaultReceives
  BY <1>6, VaultReceivesPreserves
<1>7. CASE RelayReceives
  BY <1>7, RelayReceivesPreserves
<1>8. CASE Commit
  BY <1>8, CommitPreserves
<1>9. CASE Rollback
  BY <1>9, RollbackPreserves
<1> QED BY <1>1, <1>2, <1>3, <1>4, <1>5, <1>6, <1>7, <1>8, <1>9 DEF SendNext

LEMMA SendInvariance == SendSpec => []SInv
BY SendInitEstablishes, SendStepPreserves, PTL DEF SendSpec

\* In the middle of a transaction, with payouts and notifications under way, the
\* vault holds enough for its whole book and the relay for what it is about to send.
THEOREM RecipientsHold == SendSpec => []Solvent
<1>1. SInv => Solvent
  BY DEF SInv
<1> QED BY <1>1, SendInvariance, PTL

\* A transaction costs a user who has not signed it no more than the allowance the
\* signer had from this user, whatever recipients do.
THEOREM OthersKeep == SendSpec => []OthersKeepTheirs
<1>1. SInv => OthersKeepTheirs
  BY DEF SInv
<1> QED BY <1>1, SendInvariance, PTL

\* The vault credits a user in this user's own transactions only.
THEOREM SenderCredited == SendSpec => CreditsSender
<1> DEFINE Credits == \A u \in Users : book'[u] > book[u] => origin' = u
<1>1. ASSUME SInv, [SendNext]_svars, NEW u \in Users, u # origin'
      PROVE  ~(book'[u] > book[u])
  <2>1. book \in [Accounts -> Nat] /\ u \in Accounts /\ book[u] \in Nat
    BY <1>1, Sorts DEF SInv, Underway
  <2>2. CASE book' = book
    BY <2>1, <2>2
  <2>3. ASSUME NEW s \in Users, Withdraw(s) PROVE ~(book'[u] > book[u])
    <3>1. origin' = s /\ \E n : book' = [book EXCEPT ![s] = @ - n]
      BY <2>3 DEF Withdraw, Begin
    <3>2. book'[u] = book[u]
      BY <1>1, <2>1, <3>1
    <3> QED BY <2>1, <3>2
  <2>4. CASE VaultReceives
    <3> DEFINE m == Head(pending)
               rest == Tail(pending)
    <3>1. NextMessage("receive") /\ origin' = origin
      BY <2>4 DEF VaultReceives, NextMessage
    <3>2. m \in Messages(origin)
      BY <1>1, <3>1, HeadMessage
    <3>3. m.sender # u
      BY <1>1, <3>1, <3>2 DEF Messages, IsMessage
    <3>4. PICK back : book' = [book EXCEPT ![m.sender] = @ + m.amount - back]
      BY <2>4 DEF VaultReceives
    <3> HIDE DEF m
    <3>5. book'[u] = book[u]
      BY <2>1, <3>3, <3>4
    <3> QED BY <2>1, <3>5
  <2>5. CASE Rollback
    <3>1. PICK s \in saved : book' = s.book
      BY <2>5 DEF Rollback
    <3>2. origin' = origin
      BY <2>5 DEF Rollback, Finish
    <3>3. s.book \in [Accounts -> Nat] /\ s.book[u] <= book[u]
      BY <1>1, <3>1, <3>2 DEF SInv, Underway, Restorable
    <3> DEFINE a == s.book[u]
               b == book[u]
    <3>4. a \in Nat /\ b \in Nat /\ a <= b
      BY <2>1, <3>3
    <3> SUFFICES ~(a > b)
      BY <3>1
    <3> HIDE DEF a, b
    <3> QED BY <3>4
  <2>6. CASE Deploy \/ TokenMessage \/ ReceiveFails \/ RelayReceives \/ OutOfGas \/ Commit \/ UNCHANGED svars
    <3>1. book' = book
      BY <2>6 DEF Deploy, TokenMessage, ReceiveFails, RelayReceives, OutOfGas, Fails, Commit, svars
    <3> QED BY <2>2, <3>1
  <2>7. ASSUME NEW s \in Users, Sign(s) PROVE book' = book
    BY <2>7 DEF Sign
  <2> QED BY <1>1, <2>2, <2>3, <2>4, <2>5, <2>6, <2>7 DEF SendNext
<1>2. SInv /\ [SendNext]_svars => Credits
  BY <1>1
<1> QED BY <1>2, SendInvariance, PTL DEF SendSpec, CreditsSender
=============================================================================
