--------------------------- MODULE Cw1SubkeysProofs ---------------------------
(***************************************************************************)
(* Who administers the whitelist, and what the allowances of cw1-subkeys   *)
(* let their holders send.                                                 *)
(***************************************************************************)
EXTENDS Cw1Subkeys, NaturalLemmas

\* Addresses are numbers: the listing of the stored keys has an order.
LEMMA AddressesOrdered == Addresses \subseteq Nat
BY StringsAssumption

\* low_idx stays within the list, so a key is only kept when the list names it.
LEMMA KeptIsListed ==
  ASSUME admins \subseteq Addresses, NEW list \in Seq(Strings),
         NEW sorted \in Sorted(list), NEW removed \in ToRemove(sorted)
  PROVE  admins \ removed \subseteq ToSet(list)
<1>1. PICK p \in Bijection(DOMAIN list, DOMAIN list) : sorted = [k \in DOMAIN list |-> list[p[k]]]
  BY DEF Sorted
<1>2. p \in [DOMAIN list -> DOMAIN list]
  BY DEF Bijection, Injection
<1>3. DOMAIN list = 1..Len(list) /\ Len(list) \in Nat
  OBVIOUS
<1>4. Len(sorted) = Len(list)
  BY <1>1, <1>3
<1> DEFINE first(key) == \A k \in admins : key <= k
           Low(at, key) == IF first(key) THEN 0 ELSE at[Max({k \in admins : k < key})]
<1>5. PICK at \in [admins -> 0..Len(sorted)] :
             removed = {key \in admins : Missing(sorted, Low(at, key), key)}
  BY DEF ToRemove
<1>6. ASSUME NEW key \in admins, key \notin removed PROVE key \in ToSet(list)
  <2>1. ~Missing(sorted, Low(at, key), key)
    BY <1>5, <1>6
  <2>2. Low(at, key) \in 0..Len(list)
    <3>1. CASE first(key)
      BY <3>1, <1>3
    <3>2. CASE ~first(key)
      <4> DEFINE earlier == {k \in admins : k < key}
      <4>1. earlier \subseteq 0..key /\ earlier # {} /\ key \in Nat
        BY <3>2, AddressesOrdered, SMTT(30)
      <4>2. \E x \in earlier : \A y \in earlier : y <= x
        <5> HIDE DEF earlier
        <5> QED BY <4>1, Largest
      <4>3. \E x \in earlier : \A y \in earlier : x >= y
        BY <4>2, AddressesOrdered
      <4>4. Max(earlier) \in earlier
        <5> HIDE DEF earlier
        <5> QED BY <4>3 DEF Max
      <4> QED BY <1>4, <1>5, <3>2, <4>4
    <3> QED BY <3>1, <3>2
  <2> HIDE DEF Low
  <2>3. PICK j \in Low(at, key) + 1..Len(sorted) : sorted[j] = key
    BY <2>1 DEF Missing, Matches
  <2>4. j \in DOMAIN list /\ sorted[j] = list[p[j]] /\ p[j] \in DOMAIN list
    BY <1>1, <1>2, <1>3, <1>4, <2>2
  <2> QED BY <2>3, <2>4 DEF ToSet
<1> QED BY <1>6

LEMMA AdminsReplaced ==
  ASSUME admins \subseteq Addresses, NEW s, NEW list \in Lists, UpdateAdmins(s, list)
  PROVE  \/ UNCHANGED whitelist
         \/ /\ IsAdmin(s) /\ ~Frozen /\ Validates(list)
            /\ admins' = ToSet(list) /\ listed' = ToSet(list) /\ mutable' = mutable /\ by' = s
<1>1. ASSUME NEW sorted \in Sorted(list), NEW removed \in ToRemove(sorted),
             admins' = (admins \ removed) \cup ToSet(list)
      PROVE  admins' = ToSet(list)
  BY <1>1, KeptIsListed, ListsAssumption
<1> QED BY <1>1 DEF UpdateAdmins, Refused, Done
-----------------------------------------------------------------------------
\* External: NativeBalance and the map of the allowances.
LEMMA PutEntry ==
  ASSUME NEW f, NEW k, NEW v
  PROVE  /\ Put(f, k, v) = [x \in DOMAIN Put(f, k, v) |-> Put(f, k, v)[x]]
         /\ DOMAIN Put(f, k, v) = DOMAIN f \cup {k}
         /\ Put(f, k, v)[k] = v
         /\ \A x \in DOMAIN f : x # k => Put(f, k, v)[x] = f[x]
BY DEF Put

LEMMA WithoutEntry ==
  ASSUME NEW f, NEW k
  PROVE  /\ Without(f, k) = [x \in DOMAIN Without(f, k) |-> Without(f, k)[x]]
         /\ DOMAIN Without(f, k) = DOMAIN f \ {k}
         /\ \A x \in DOMAIN f : x # k => Without(f, k)[x] = f[x]
BY DEF Without, Restrict

LEMMA BalanceForm ==
  ASSUME NEW b
  PROVE  b \in Balances <=> /\ b = [d \in DOMAIN b |-> b[d]] /\ DOMAIN b \subseteq Denoms
                            /\ \A d \in DOMAIN b : b[d] \in 0..MaxUint
BY DEF Balances

LEMMA HeldAmount ==
  ASSUME NEW balance \in Balances, NEW d
  PROVE  Held(balance, d) \in 0..MaxUint
BY MaxUintAssumption, BalanceForm DEF Held

LEMMA PlusHeld ==
  ASSUME NEW balance \in Balances, NEW c \in [denom : Denoms, amount : 0..MaxUint],
         Held(balance, c.denom) + c.amount <= MaxUint
  PROVE  /\ Plus(balance, c) \in Balances
         /\ \A d : Held(Plus(balance, c), d) =
                    Held(balance, d) + IF d = c.denom THEN c.amount ELSE 0
<1>1. c.denom \in Denoms /\ c.amount \in 0..MaxUint
  OBVIOUS
<1>2. \A d : Held(balance, d) \in 0..MaxUint
  BY HeldAmount
<1>3. Held(balance, c.denom) + c.amount \in 0..MaxUint
  BY <1>1, <1>2, MaxUintAssumption
<1> DEFINE plus == Put(balance, c.denom, Held(balance, c.denom) + c.amount)
<1>4. /\ plus = [d \in DOMAIN plus |-> plus[d]]
      /\ DOMAIN plus = DOMAIN balance \cup {c.denom}
      /\ plus[c.denom] = Held(balance, c.denom) + c.amount
      /\ \A d \in DOMAIN balance : d # c.denom => plus[d] = balance[d]
  <2> DEFINE v == Held(balance, c.denom) + c.amount
  <2> HIDE DEF v
  <2> QED BY DEF Put
<1> HIDE DEF plus
<1>5. plus \in Balances
  BY <1>1, <1>3, <1>4, BalanceForm
<1>6. ASSUME NEW d PROVE Held(plus, d) = Held(balance, d) + IF d = c.denom THEN c.amount ELSE 0
  <2>1. CASE d = c.denom
    BY <2>1, <1>4 DEF Held
  <2>2. CASE d # c.denom
    <3>1. Held(plus, d) = Held(balance, d)
      BY <2>2, <1>4 DEF Held
    <3> QED BY <2>2, <3>1, <1>2, MaxUintAssumption
  <2> QED BY <2>1, <2>2
<1> QED BY <1>5, <1>6 DEF plus, Plus

LEMMA MinusHeld ==
  ASSUME NEW balance \in Balances, NEW c \in [denom : Denoms, amount : 0..MaxUint],
         c.denom \in DOMAIN balance, c.amount <= balance[c.denom]
  PROVE  /\ Minus(balance, c) \in Balances
         /\ \A d : Held(Minus(balance, c), d) =
                    Held(balance, d) - IF d = c.denom THEN c.amount ELSE 0
<1>1. c.denom \in Denoms /\ c.amount \in 0..MaxUint
  OBVIOUS
<1>2. \A d : Held(balance, d) \in 0..MaxUint
  BY HeldAmount
<1>3. Held(balance, c.denom) = balance[c.denom]
  BY DEF Held
<1>4. balance[c.denom] - c.amount \in 0..MaxUint
  BY <1>1, <1>2, <1>3, MaxUintAssumption
<1>5. CASE balance[c.denom] = c.amount
  <2> DEFINE minus == Without(balance, c.denom)
  <2>1. Minus(balance, c) = minus
    BY <1>3, <1>5 DEF Minus
  <2>2. /\ minus = [d \in DOMAIN minus |-> minus[d]]
        /\ DOMAIN minus = DOMAIN balance \ {c.denom}
        /\ \A d \in DOMAIN balance : d # c.denom => minus[d] = balance[d]
    BY WithoutEntry
  <2> HIDE DEF minus
  <2>3. minus \in Balances
    BY <2>2, BalanceForm
  <2>4. ASSUME NEW d PROVE Held(minus, d) = Held(balance, d) - IF d = c.denom THEN c.amount ELSE 0
    <3>1. CASE d = c.denom
      <4>1. Held(minus, d) = 0
        BY <3>1, <2>2 DEF Held
      <4> QED BY <4>1, <3>1, <1>1, <1>3, <1>5, MaxUintAssumption
    <3>2. CASE d # c.denom
      <4>1. Held(minus, d) = Held(balance, d)
        BY <3>2, <2>2 DEF Held
      <4> QED BY <3>2, <4>1, <1>2, MaxUintAssumption
    <3> QED BY <3>1, <3>2
  <2> QED BY <2>1, <2>3, <2>4
<1>6. CASE balance[c.denom] # c.amount
  <2> DEFINE less == balance[c.denom] - c.amount
             minus == Put(balance, c.denom, less)
  <2>1. Minus(balance, c) = minus
    BY <1>3, <1>6 DEF Minus
  <2>2. /\ minus = [d \in DOMAIN minus |-> minus[d]]
        /\ DOMAIN minus = DOMAIN balance \cup {c.denom}
        /\ minus[c.denom] = less
        /\ \A d \in DOMAIN balance : d # c.denom => minus[d] = balance[d]
    <3> HIDE DEF less
    <3> QED BY DEF Put
  <2> HIDE DEF minus
  <2>3. minus \in Balances
    BY <1>1, <1>4, <2>2, BalanceForm
  <2>4. ASSUME NEW d PROVE Held(minus, d) = Held(balance, d) - IF d = c.denom THEN c.amount ELSE 0
    <3>1. CASE d = c.denom
      BY <3>1, <2>2, <1>3 DEF Held
    <3>2. CASE d # c.denom
      <4>1. Held(minus, d) = Held(balance, d)
        BY <3>2, <2>2 DEF Held
      <4> QED BY <3>2, <4>1, <1>2, MaxUintAssumption
    <3> QED BY <3>1, <3>2
  <2> QED BY <2>1, <2>3, <2>4
<1> QED BY <1>5, <1>6

LEMMA SaturatingHeld ==
  ASSUME NEW balance \in Balances, NEW c \in [denom : Denoms, amount : 0..MaxUint],
         c.denom \in DOMAIN balance
  PROVE  /\ Saturating(balance, c) \in Balances
         /\ \A d : Held(Saturating(balance, c), d) =
                    IF d # c.denom THEN Held(balance, d)
                    ELSE IF Held(balance, d) <= c.amount THEN 0 ELSE Held(balance, d) - c.amount
<1>1. c.amount \in Nat /\ Held(balance, c.denom) = balance[c.denom] /\ balance[c.denom] \in Nat
  BY MaxUintAssumption, BalanceForm DEF Held
<1>2. \A d : Held(balance, d) \in Nat
  BY HeldAmount, MaxUintAssumption
<1>3. CASE Held(balance, c.denom) <= c.amount
  <2> DEFINE none == Without(balance, c.denom)
  <2>1. /\ none = [d \in DOMAIN none |-> none[d]]
        /\ DOMAIN none = DOMAIN balance \ {c.denom}
        /\ \A d \in DOMAIN balance : d # c.denom => none[d] = balance[d]
    BY WithoutEntry
  <2>2. Saturating(balance, c) = none
    BY <1>3 DEF Saturating
  <2> HIDE DEF none
  <2>3. none \in Balances
    BY <2>1, BalanceForm
  <2>4. \A d : Held(none, d) = IF d = c.denom THEN 0 ELSE Held(balance, d)
    BY <2>1 DEF Held
  <2> QED BY <1>3, <2>2, <2>3, <2>4
<1>4. CASE ~(Held(balance, c.denom) <= c.amount)
  <2>1. c.amount <= balance[c.denom]
    BY <1>1, <1>4
  <2>2. Saturating(balance, c) = Minus(balance, c)
    BY <1>4 DEF Saturating
  <2>3. \A d : d # c.denom => Held(balance, d) - 0 = Held(balance, d)
    BY <1>2
  <2> QED BY <1>4, <2>1, <2>2, <2>3, MinusHeld
<1> QED BY <1>3, <1>4
-----------------------------------------------------------------------------
Record(a) == a \in [balance : Balances, expires : SUBSET Nat]

\* The net of the grants is inductive once the history has its form.
IInv == /\ TypeOK
        /\ given \in [Addresses -> [Denoms -> Nat]]
        /\ NetOfGrants

LEMMA NoAllowanceRecord == Record(NoAllowance) /\ ~Expired(NoAllowance.expires)
<1>1. <<>> \in Balances
  <2>1. DOMAIN <<>> = {} /\ <<>> = [d \in {} |-> <<>>[d]]
    OBVIOUS
  <2> QED BY <2>1, BalanceForm
<1> QED BY <1>1 DEF Record, NoAllowance, Expired

LEMMA StoredRecord == ASSUME IInv, NEW a PROVE Record(Stored(a))
BY NoAllowanceRecord DEF IInv, Stored, TypeOK, Maps, Record

\* A step that leaves all this alone, and one that touches a single address.
LEMMA NothingChanged ==
  ASSUME IInv, UNCHANGED <<admins, mutable, keys, height, given>>
  PROVE  IInv'
BY DEF IInv, TypeOK, WhitelistTypeOK, NetOfGrants, Stored, Expired, keys

LEMMA OneGranted ==
  ASSUME IInv, UNCHANGED <<admins, mutable, permissions, height>>,
         NEW spender \in Addresses, NEW r, Record(r),
         \/ allowances' = Put(allowances, spender, r)
         \/ allowances' = Without(allowances, spender) /\ r = NoAllowance,
         NEW amounts \in [Denoms -> Nat],
         given' = [given EXCEPT ![spender] = amounts],
         \A d \in Denoms : amounts[d] = IF Expired(r.expires) THEN 0 ELSE Held(r.balance, d)
  PROVE  IInv'
<1>1. /\ DOMAIN allowances' \subseteq DOMAIN allowances \cup {spender}
      /\ \A a \in DOMAIN allowances' : allowances'[a] = IF a = spender THEN r ELSE allowances[a]
  BY DEF Put, Without, Restrict
<1>2. ASSUME NEW a PROVE Stored(a)' = IF a = spender THEN r ELSE Stored(a)
  BY DEF Put, Without, Restrict, Stored
<1>3. DOMAIN allowances' \subseteq Addresses
  BY <1>1 DEF IInv, TypeOK, Maps
<1>4. ASSUME NEW a \in DOMAIN allowances' PROVE Record(allowances'[a])
  BY <1>1, <1>4 DEF IInv, TypeOK, Maps, Record
<1>5. allowances' = [a \in DOMAIN allowances' |-> allowances'[a]]
  BY DEF Put, Without, Restrict
<1>6. Maps(allowances, [balance : Balances, expires : SUBSET Nat])'
  BY <1>3, <1>4, <1>5 DEF Record, Maps, Balances
<1>7. TypeOK'
  BY <1>6 DEF IInv, TypeOK, WhitelistTypeOK, Maps
<1>8. given' \in [Addresses -> [Denoms -> Nat]]
  BY DEF IInv
<1>9. ASSUME NEW a \in Addresses, NEW d \in Denoms
      PROVE  given'[a][d] = IF Expired(Stored(a).expires)' THEN 0 ELSE Held(Stored(a).balance, d)'
  <2>1. CASE a = spender
    <3>1. given'[a] = amounts
      BY <2>1 DEF IInv
    <3>2. Stored(a)' = r
      BY <2>1, <1>2
    <3> QED BY <3>1, <3>2 DEF Expired, Held
  <2>2. CASE a # spender
    <3>1. given'[a] = given[a]
      BY <2>2 DEF IInv
    <3>2. Stored(a)' = Stored(a)
      BY <2>2, <1>2
    <3> QED BY <3>1, <3>2 DEF IInv, NetOfGrants, Expired, Held
  <2> QED BY <2>1, <2>2
<1> QED BY <1>7, <1>8, <1>9 DEF IInv, NetOfGrants
LEMMA IncreaseKeeps ==
  ASSUME IInv, NEW s \in Addresses, NEW spender \in Spenders, NEW c \in Coins,
         NEW expires \in Option(Expirations), IncreaseAllowance(s, spender, c, expires)
  PROVE  IInv'
<1> DEFINE a == Stored(spender)
           renewed == Renewed(a, expires)
           invalid == IF expires = {} THEN Expired(a.expires) ELSE \E e \in expires : Expired(e)
           fits == Held(renewed.balance, c.denom) + c.amount <= MaxUint
           amounts == [given[spender] EXCEPT ![c.denom] = @ + c.amount]
           r == [renewed EXCEPT !.balance = Plus(renewed.balance, c)]
<1>1. \/ UNCHANGED <<admins, mutable, keys, height, given>>
      \/ /\ Grants(s, spender) /\ ~invalid /\ fits
         /\ allowances' = Put(allowances, spender, r)
         /\ given' = [given EXCEPT ![spender][c.denom] = @ + c.amount]
         /\ UNCHANGED <<admins, mutable, permissions, height>>
  BY DEF IncreaseAllowance, RefusedGrant, Refuse, Refused, Ok, Call, whitelist
<1>2. CASE UNCHANGED <<admins, mutable, keys, height, given>>
  BY <1>2, NothingChanged
<1>3. CASE /\ Grants(s, spender) /\ ~invalid /\ fits
           /\ allowances' = Put(allowances, spender, r)
           /\ given' = [given EXCEPT ![spender][c.denom] = @ + c.amount]
           /\ UNCHANGED <<admins, mutable, permissions, height>>
  <2>1. Record(a)
    BY StoredRecord
  <2>2. spender \in Addresses
    BY <1>3 DEF Grants
  <2>3. c \in [denom : Denoms, amount : 0..MaxUint] /\ c.amount \in Nat /\ c.denom \in Denoms
    BY CoinsAssumption, MaxUintAssumption
  <2> DEFINE live == IF Expired(a.expires) THEN NoAllowance ELSE a
  <2>4. Record(live) /\ ~Expired(live.expires)
    BY <2>1, NoAllowanceRecord
  <2>5. /\ Until(live, expires) \subseteq Nat
        /\ ~Expired(Until(live, expires))
    <3>1. CASE expires = {}
      BY <3>1, <2>4 DEF Record, Until
    <3>2. CASE expires # {}
      <4>1. PICK e \in Expirations : expires = {e}
        BY <3>2 DEF Option
      <4>2. UNION expires = e /\ ~Expired(e)
        BY <3>2, <4>1, <1>3
      <4> QED BY <3>2, <4>1, <4>2, ExpirationsAssumption DEF Until
    <3> QED BY <3>1, <3>2
  <2>6. renewed = [balance |-> live.balance, expires |-> Until(live, expires)]
    BY <2>4 DEF Renewed, Record
  <2> DEFINE plus == Plus(live.balance, c)
  <2>7. r = [balance |-> plus, expires |-> Until(live, expires)]
    BY <2>6
  <2>8. Held(live.balance, c.denom) + c.amount <= MaxUint
    BY <1>3, <2>6
  <2>9. /\ plus \in Balances
        /\ \A d : Held(plus, d) = Held(live.balance, d) + IF d = c.denom THEN c.amount ELSE 0
    BY <2>3, <2>4, <2>8, PlusHeld DEF Record
  <2>10. given[spender] \in [Denoms -> Nat]
    BY <2>2 DEF IInv
  <2>11. \A d \in Denoms : given[spender][d] = Held(live.balance, d)
    <3>1. \A d \in Denoms : Held(NoAllowance.balance, d) = 0
      BY DEF NoAllowance, Held
    <3> QED BY <2>2, <3>1 DEF IInv, NetOfGrants
  <2> HIDE DEF live, plus
  <2>12. amounts \in [Denoms -> Nat]
    BY <2>3, <2>10
  <2>13. \A d \in Denoms : amounts[d] = Held(plus, d)
    <3>1. \A d \in Denoms : given[spender][d] + 0 = given[spender][d]
      BY <2>10
    <3> QED BY <2>9, <2>10, <2>11, <3>1
  <2>14. Record(r) /\ ~Expired(r.expires) /\ r.balance = plus
    BY <2>5, <2>7, <2>9 DEF Record
  <2>15. given' = [given EXCEPT ![spender] = amounts]
    BY <1>3
  <2>16. allowances' = Put(allowances, spender, r) /\ UNCHANGED <<admins, mutable, permissions, height>>
    BY <1>3
  <2> HIDE DEF amounts, r, a, renewed, invalid, fits
  <2> QED BY <2>16, <2>2, <2>12, <2>13, <2>14, <2>15, OneGranted
<1> QED BY <1>1, <1>2, <1>3

LEMMA DecreaseKeeps ==
  ASSUME IInv, NEW s \in Addresses, NEW spender \in Spenders, NEW c \in Coins,
         NEW expires \in Option(Expirations), DecreaseAllowance(s, spender, c, expires)
  PROVE  IInv'
<1> DEFINE a == Stored(spender)
           left == Saturating(a.balance, c)
           amounts == [given[spender] EXCEPT ![c.denom] = IF @ <= c.amount THEN 0 ELSE @ - c.amount]
           stored == [balance |-> left, expires |-> Until(a, expires)]
           Accepted ==
             /\ Grants(s, spender) /\ ~Expired(a.expires) /\ ~(\E e \in expires : Expired(e))
             /\ c.denom \in DOMAIN a.balance
             /\ allowances' = IF IsEmpty(left) THEN Without(allowances, spender)
                              ELSE Put(allowances, spender, stored)
             /\ given' = [given EXCEPT ![spender][c.denom] = IF @ <= c.amount THEN 0 ELSE @ - c.amount]
             /\ UNCHANGED <<admins, mutable, permissions, height>>
<1>1. UNCHANGED <<admins, mutable, keys, height, given>> \/ Accepted
  BY DEF DecreaseAllowance, RefusedGrant, Refuse, Refused, Ok, Call, whitelist
<1>2. CASE UNCHANGED <<admins, mutable, keys, height, given>>
  BY <1>2, NothingChanged
<1>3. CASE Accepted
  <2>1. Record(a)
    BY StoredRecord
  <2>2. spender \in Addresses
    BY <1>3 DEF Grants
  <2>3. c \in [denom : Denoms, amount : 0..MaxUint] /\ c.amount \in Nat /\ c.denom \in Denoms
    BY CoinsAssumption, MaxUintAssumption
  <2>4. Until(a, expires) \subseteq Nat /\ ~Expired(Until(a, expires))
    <3>1. CASE expires = {}
      BY <3>1, <2>1, <1>3 DEF Record, Until
    <3>2. CASE expires # {}
      <4>1. PICK e \in Expirations : expires = {e}
        BY <3>2 DEF Option
      <4>2. UNION expires = e /\ ~Expired(e)
        BY <3>2, <4>1, <1>3
      <4> QED BY <3>2, <4>1, <4>2, ExpirationsAssumption DEF Until
    <3> QED BY <3>1, <3>2
  <2>5. /\ left \in Balances
        /\ \A d : Held(left, d) = IF d # c.denom THEN Held(a.balance, d)
                                 ELSE IF Held(a.balance, d) <= c.amount THEN 0
                                 ELSE Held(a.balance, d) - c.amount
    BY <1>3, <2>1, <2>3, SaturatingHeld DEF Record
  <2>6. given[spender] \in [Denoms -> Nat]
    BY <2>2 DEF IInv
  <2>7. \A d \in Denoms : given[spender][d] = Held(a.balance, d)
    BY <1>3, <2>2 DEF IInv, NetOfGrants
  <2>8. given' = [given EXCEPT ![spender] = amounts]
    BY <1>3
  <2> HIDE DEF a, left
  <2>9. amounts \in [Denoms -> Nat]
    BY <2>3, <2>6
  <2>10. \A d \in Denoms : amounts[d] = Held(left, d)
    BY <2>5, <2>6, <2>7
  <2>11. Record(stored) /\ ~Expired(stored.expires)
    BY <2>4, <2>5 DEF Record
  <2>12. CASE IsEmpty(left)
    <3>1. \A d \in Denoms : Held(left, d) = Held(NoAllowance.balance, d)
      BY <2>12 DEF IsEmpty, Held, NoAllowance
    <3>2. allowances' = Without(allowances, spender)
      BY <1>3, <2>12
    <3>3. UNCHANGED <<admins, mutable, permissions, height>>
      BY <1>3
    <3> HIDE DEF amounts, stored, Accepted
    <3> QED BY <2>2, <2>8, <2>9, <2>10, <3>1, <3>2, <3>3, NoAllowanceRecord, OneGranted
  <2>13. CASE ~IsEmpty(left)
    <3>1. allowances' = Put(allowances, spender, stored) /\ stored.balance = left
      BY <1>3, <2>13
    <3>3. UNCHANGED <<admins, mutable, permissions, height>>
      BY <1>3
    <3> HIDE DEF amounts, stored, Accepted
    <3> QED BY <2>2, <2>8, <2>9, <2>10, <2>11, <3>1, <3>3, OneGranted
  <2> QED BY <2>12, <2>13
<1> QED BY <1>1, <1>2, <1>3
LEMMA NewBlockKeeps == ASSUME IInv, NewBlock PROVE IInv'
<1>1. /\ height' = height + 1 /\ height \in Nat /\ height' \in 0..MaxHeight
      /\ UNCHANGED <<admins, mutable, permissions, allowances>>
  BY MaxHeightAssumption DEF NewBlock, IInv, TypeOK, keys, whitelist
<1>2. \A a \in Addresses, d \in Denoms :
        given'[a][d] = IF \E h \in Stored(a).expires : height' >= h THEN 0 ELSE given[a][d]
  BY DEF NewBlock
<1>3. given' \in [Addresses -> [Denoms -> Nat]]
  BY DEF NewBlock, IInv
<1>4. ASSUME NEW a PROVE Stored(a)' = Stored(a)
  BY <1>1 DEF Stored
<1>5. ASSUME NEW a \in Addresses, NEW d \in Denoms
      PROVE  given'[a][d] = IF Expired(Stored(a).expires)' THEN 0 ELSE Held(Stored(a).balance, d)'
  <2>1. Expired(Stored(a).expires)' <=> \E h \in Stored(a).expires : height' >= h
    BY <1>4 DEF Expired
  <2>2. Expired(Stored(a).expires) => Expired(Stored(a).expires)'
    <3>1. Stored(a).expires \subseteq Nat
      BY StoredRecord DEF Record
    <3> QED BY <1>1, <2>1, <3>1 DEF Expired
  <2>3. CASE Expired(Stored(a).expires)'
    BY <1>2, <2>1, <2>3
  <2>4. CASE ~Expired(Stored(a).expires)'
    <3>1. given'[a][d] = given[a][d]
      BY <1>2, <2>1, <2>4
    <3>2. given[a][d] = Held(Stored(a).balance, d)
      BY <2>2, <2>4 DEF IInv, NetOfGrants
    <3> QED BY <2>4, <3>1, <3>2, <1>4 DEF Held
  <2> QED BY <2>3, <2>4
<1>6. TypeOK'
  BY <1>1 DEF IInv, TypeOK, WhitelistTypeOK, Maps, Balances
<1> QED BY <1>3, <1>5, <1>6 DEF IInv, NetOfGrants

LEMMA WhitelistKeeps ==
  ASSUME IInv, NEW s \in Addresses, Delegated(s)
  PROVE  IInv'
<1>1. UNCHANGED <<keys, height, given>>
  BY DEF Delegated, Call
<1>2. WhitelistTypeOK'
  <2>1. CASE Freeze(s)
    BY <2>1 DEF Freeze, Refused, IInv, TypeOK, WhitelistTypeOK, whitelist
  <2>2. ASSUME NEW list \in Lists, UpdateAdmins(s, list) PROVE WhitelistTypeOK'
    BY <2>2, AdminsReplaced DEF IInv, TypeOK, WhitelistTypeOK, whitelist, Validates
  <2> QED BY <2>1, <2>2 DEF Delegated
<1> QED BY <1>1, <1>2 DEF IInv, TypeOK, NetOfGrants, Stored, Expired, keys

LEMMA PermissionsKeep ==
  ASSUME IInv, NEW s \in Addresses, NEW spender \in Spenders, NEW p \in Permissions,
         SetPermissions(s, spender, p)
  PROVE  IInv'
<1>1. UNCHANGED <<admins, mutable, allowances, height, given>>
  BY DEF SetPermissions, RefusedGrant, Refuse, Refused, Ok, Call, whitelist, keys
<1>2. Maps(permissions, Permissions)'
  <2>1. CASE UNCHANGED permissions
    BY <2>1 DEF IInv, TypeOK, Maps
  <2>2. CASE spender \in Addresses /\ permissions' = Put(permissions, spender, p)
    BY <2>2 DEF IInv, TypeOK, Maps, Put
  <2> QED BY <2>1, <2>2 DEF SetPermissions, RefusedGrant, Refuse, Grants, keys
<1>3. TypeOK'
  BY <1>1, <1>2 DEF IInv, TypeOK, WhitelistTypeOK, Maps, Balances
<1> QED BY <1>1, <1>3 DEF IInv, NetOfGrants, Stored, Expired

LEMMA InitIInv == Init => IInv
<1> SUFFICES ASSUME Init PROVE IInv
  OBVIOUS
<1>1. DOMAIN allowances = {} /\ DOMAIN permissions = {}
  BY DEF Init
<1>2. TypeOK
  <2>1. ASSUME NEW S PROVE <<>> \in [{} -> S]
    OBVIOUS
  <2>2. Maps(permissions, Permissions) /\ Maps(allowances, [balance : Balances, expires : SUBSET Nat])
    BY <1>1, <2>1 DEF Init, Maps
  <2> QED BY <2>2, MaxHeightAssumption DEF Init, Instantiated, Validates, TypeOK, WhitelistTypeOK
<1>3. \A a : Stored(a) = NoAllowance
  BY <1>1 DEF Stored
<1>4. NetOfGrants
  BY <1>3, NoAllowanceRecord DEF Init, NetOfGrants, NoAllowance, Held
<1> QED BY <1>1, <1>2, <1>4 DEF Init, IInv

LEMMA NextIInv == IInv /\ [Next]_vars => IInv'
<1> SUFFICES ASSUME IInv, [Next]_vars PROVE IInv'
  OBVIOUS
<1>1. ASSUME NEW s \in Addresses, Delegated(s) PROVE IInv'
  BY <1>1, WhitelistKeeps
<1>2. ASSUME NEW s \in Addresses, Granting(s) PROVE IInv'
  BY <1>2, IncreaseKeeps, DecreaseKeeps, PermissionsKeep DEF Granting
<1>3. ASSUME NEW s \in Addresses, NEW msgs \in BoundedSeq(Messages, MaxMessages), Execute(s, msgs)
      PROVE  IInv'
  BY <1>3, NothingChanged DEF Execute, Refuse, Refused, Call, whitelist
<1>4. CASE NewBlock
  BY <1>4, NewBlockKeeps
<1>5. CASE UNCHANGED vars
  BY <1>5, NothingChanged DEF vars, whitelist
<1> QED BY <1>1, <1>2, <1>3, <1>4, <1>5 DEF Next

LEMMA SpecIInv == Spec => []IInv
BY InitIInv, NextIInv, PTL DEF Spec

\* In every state the admins are addresses, and the allowances balances of their owners.
THEOREM TypeCorrect == Spec => []TypeOK
<1>1. IInv => TypeOK
  BY DEF IInv
<1> QED BY <1>1, SpecIInv, PTL

\* What admins gave an address and did not take back since its allowance last expired
\* is what the stored allowance lets it send (increase_allowance, decrease_allowance).
THEOREM AllowanceIsNetOfGrants == Spec => []NetOfGrants
<1>1. IInv => NetOfGrants
  BY DEF IInv
<1> QED BY <1>1, SpecIInv, PTL
-----------------------------------------------------------------------------
\* The admins change in the two operations of the whitelist and nowhere else.
LEMMA OnlyDelegated ==
  ASSUME [Next]_vars, \A s \in Addresses : ~Delegated(s)
  PROVE  UNCHANGED whitelist
<1>1. ASSUME NEW s \in Addresses, NEW spender \in Spenders, NEW c \in Coins, NEW e \in Option(Expirations),
             IncreaseAllowance(s, spender, c, e) \/ DecreaseAllowance(s, spender, c, e)
      PROVE  UNCHANGED whitelist
  BY <1>1 DEF IncreaseAllowance, DecreaseAllowance, RefusedGrant, Refuse, Refused, Ok
<1>2. ASSUME NEW s \in Addresses, NEW spender \in Spenders, NEW p \in Permissions,
             SetPermissions(s, spender, p)
      PROVE  UNCHANGED whitelist
  BY <1>2 DEF SetPermissions, RefusedGrant, Refuse, Refused, Ok
<1>3. ASSUME NEW s \in Addresses, NEW msgs \in BoundedSeq(Messages, MaxMessages), Execute(s, msgs)
      PROVE  UNCHANGED whitelist
  BY <1>3 DEF Execute, Refuse, Refused
<1>4. NewBlock \/ UNCHANGED vars => UNCHANGED whitelist
  BY DEF NewBlock, vars
<1> QED BY <1>1, <1>2, <1>3, <1>4 DEF Next, Granting

\* An accepted update leaves the addresses of its list, no matter how the comparison
\* of the two orders went (Whitelist::update_admins).
THEOREM UpdateLeavesTheList == Spec => []AsListed
<1>1. Init => AsListed
  BY DEF Init, Instantiated, AsListed
<1>2. IInv /\ AsListed /\ [Next]_vars => AsListed'
  <2> SUFFICES ASSUME IInv, AsListed, [Next]_vars PROVE AsListed'
    OBVIOUS
  <2>1. ASSUME NEW s \in Addresses, Delegated(s) PROVE AsListed'
    <3>1. CASE Freeze(s)
      BY <3>1 DEF Freeze, Refused, AsListed, whitelist
    <3>2. ASSUME NEW list \in Lists, UpdateAdmins(s, list) PROVE AsListed'
      BY <3>2, AdminsReplaced DEF IInv, TypeOK, WhitelistTypeOK, AsListed, whitelist
    <3> QED BY <2>1, <3>1, <3>2 DEF Delegated
  <2>2. CASE UNCHANGED whitelist
    BY <2>2 DEF AsListed, whitelist
  <2> QED BY <2>1, <2>2, OnlyDelegated
<1> QED BY <1>1, <1>2, SpecIInv, PTL DEF Spec

\* Only an admin changes the admins, and only until the freeze, which is final.
THEOREM AdminsAdminister == Spec => Administered
<1>1. IInv /\ [Next]_vars =>
        [/\ admins' # admins => mutable /\ IsAdmin(by')
         /\ mutable' # mutable => IsAdmin(by') /\ ~mutable']_<<admins, mutable>>
  <2> SUFFICES ASSUME IInv, [Next]_vars
               PROVE  /\ admins' # admins => mutable /\ IsAdmin(by')
                      /\ mutable' # mutable => IsAdmin(by') /\ ~mutable'
    OBVIOUS
  <2>1. mutable \in BOOLEAN /\ admins \subseteq Addresses
    BY DEF IInv, TypeOK, WhitelistTypeOK
  <2>2. ASSUME NEW s \in Addresses, Delegated(s)
        PROVE  \/ UNCHANGED <<admins, mutable>>
               \/ IsAdmin(s) /\ by' = s /\ UNCHANGED admins /\ mutable' = FALSE
               \/ IsAdmin(s) /\ by' = s /\ mutable /\ UNCHANGED mutable
    <3>1. CASE Freeze(s)
      BY <3>1 DEF Freeze, Refused, Done, whitelist
    <3>2. ASSUME NEW list \in Lists, UpdateAdmins(s, list)
          PROVE  \/ UNCHANGED <<admins, mutable>>
                 \/ IsAdmin(s) /\ by' = s /\ mutable /\ UNCHANGED mutable
      BY <2>1, <3>2, AdminsReplaced DEF Frozen, whitelist
    <3> QED BY <2>2, <3>1, <3>2 DEF Delegated
  <2>3. ASSUME NEW s \in Addresses, Delegated(s)
        PROVE  /\ admins' # admins => mutable /\ IsAdmin(by')
               /\ mutable' # mutable => IsAdmin(by') /\ ~mutable'
    BY <2>2, <2>3
  <2>4. CASE UNCHANGED whitelist
    BY <2>4 DEF whitelist
  <2> QED BY <2>3, <2>4, OnlyDelegated
<1> QED BY <1>1, SpecIInv, PTL DEF Spec, Administered
-----------------------------------------------------------------------------
AnyCoin == [denom : Denoms, amount : 0..MaxUint]

LEMMA CoinAt ==
  ASSUME NEW coins \in Seq(AnyCoin), NEW k \in 1..Len(coins)
  PROVE  coins[k] \in AnyCoin /\ coins[k].amount \in Nat
<1>1. coins[k] \in AnyCoin
  OBVIOUS
<1> QED BY <1>1, MaxUintAssumption DEF AnyCoin

\* The sum of the coins of a denomination, coin by coin.
LEMMA TotalByCoin ==
  ASSUME NEW coins \in Seq(AnyCoin), NEW d
  PROVE  \E sum : /\ sum[0] = 0
                  /\ \A k \in 1..Len(coins) :
                       sum[k] = sum[k - 1] + IF coins[k].denom = d THEN coins[k].amount ELSE 0
                  /\ Total(coins, d) = sum[Len(coins)]
<1> DEFINE n == Len(coins)
           amount(k) == IF coins[k].denom = d THEN coins[k].amount ELSE 0
           step == [k \in 1..n |-> [x \in Nat |-> x + amount(k)]]
           Def(f) == f = [k \in 0..n |-> IF k = 0 THEN 0 ELSE f[k - 1] + amount(k)]
           sum == CHOOSE f : Def(f)
<1>1. n \in Nat /\ 0 \in Nat
  OBVIOUS
<1>2. \A k \in 1..n : amount(k) \in Nat
  BY CoinAt
<1>3. step \in [1..n -> [Nat -> Nat]]
  BY <1>2
<1>4. PICK f : Iterates(f, n, Nat, 0, step)
  <2> HIDE DEF n, step
  <2> QED BY <1>1, <1>3, Recursion
<1> HIDE DEF amount
<1>5. Def(f)
  <2>1. ASSUME NEW k \in 0..n PROVE f[k] = IF k = 0 THEN 0 ELSE f[k - 1] + amount(k)
    <3>1. CASE k = 0
      BY <3>1, <1>4 DEF Iterates
    <3>2. CASE k # 0
      <4>1. k \in 1..n /\ k - 1 \in 0..n
        BY <3>2
      <4> QED BY <1>4, <3>2, <4>1 DEF Iterates
    <3> QED BY <3>1, <3>2
  <2> QED BY <1>4, <2>1 DEF Iterates
<1>6. Def(sum)
  <2> HIDE DEF Def
  <2> QED BY <1>5
<1>7. Total(coins, d) = sum[n]
  BY DEF Total, amount
<1> HIDE DEF sum
<1>8. sum[0] = 0
  BY <1>1, <1>6
<1>9. ASSUME NEW k \in 1..n PROVE sum[k] = sum[k - 1] + amount(k)
  <2>1. k \in 0..n /\ k # 0
    OBVIOUS
  <2> QED BY <1>6, <2>1
<1> QED BY <1>7, <1>8, <1>9 DEF amount

\* What the subtraction of the coins leaves, coin by coin.
LEMMA CoversByCoin ==
  ASSUME NEW balance \in Balances, NEW coins \in Seq(AnyCoin)
  PROVE  \E rest : /\ rest[0] = {balance}
                   /\ \A k \in 1..Len(coins) :
                        rest[k] = {Minus(b, coins[k]) : b \in
                                     {r \in rest[k - 1] : /\ coins[k].denom \in DOMAIN r
                                                          /\ coins[k].amount <= r[coins[k].denom]}}
                   /\ Covers(balance, coins) <=> rest[Len(coins)] # {}
<1> DEFINE n == Len(coins)
           take(k, x) == {Minus(b, coins[k]) : b \in
                            {r \in x : /\ coins[k].denom \in DOMAIN r
                                       /\ coins[k].amount <= r[coins[k].denom]}}
           step == [k \in 1..n |-> [x \in SUBSET Balances |-> take(k, x)]]
           Def(f) == f = [k \in 0..n |-> IF k = 0 THEN {balance} ELSE take(k, f[k - 1])]
           rest == CHOOSE f : Def(f)
<1>1. n \in Nat /\ {balance} \in SUBSET Balances
  OBVIOUS
<1>2. ASSUME NEW k \in 1..n, NEW x \in SUBSET Balances PROVE take(k, x) \in SUBSET Balances
  <2>1. coins[k] \in [denom : Denoms, amount : 0..MaxUint]
    BY CoinAt DEF AnyCoin
  <2> QED BY <2>1, MinusHeld
<1>3. step \in [1..n -> [SUBSET Balances -> SUBSET Balances]]
  <2> HIDE DEF take
  <2> QED BY <1>2
<1>4. PICK f : Iterates(f, n, SUBSET Balances, {balance}, step)
  <2> HIDE DEF n, step
  <2> QED BY <1>1, <1>3, Recursion
<1> HIDE DEF take
<1>5. Def(f)
  <2>1. ASSUME NEW k \in 0..n PROVE f[k] = IF k = 0 THEN {balance} ELSE take(k, f[k - 1])
    <3>1. CASE k = 0
      BY <3>1, <1>4 DEF Iterates
    <3>2. CASE k # 0
      <4>1. k \in 1..n /\ k - 1 \in 0..n
        BY <3>2
      <4> QED BY <1>4, <3>2, <4>1 DEF Iterates
    <3> QED BY <3>1, <3>2
  <2> QED BY <1>4, <2>1 DEF Iterates
<1>6. Def(rest)
  <2> HIDE DEF Def
  <2> QED BY <1>5
<1>7. Covers(balance, coins) <=> rest[n] # {}
  BY DEF Covers, take
<1> HIDE DEF rest
<1>8. rest[0] = {balance}
  BY <1>1, <1>6
<1>9. ASSUME NEW k \in 1..n PROVE rest[k] = take(k, rest[k - 1])
  <2>1. k \in 0..n /\ k # 0
    OBVIOUS
  <2> QED BY <1>6, <2>1
<1> QED BY <1>7, <1>8, <1>9 DEF take

\* A balance that covers coins holds their sum, in whatever order they come.
LEMMA CoversTotal ==
  ASSUME NEW balance \in Balances, NEW coins \in Seq(AnyCoin), Covers(balance, coins), NEW d
  PROVE  Total(coins, d) <= Held(balance, d)
<1> DEFINE n == Len(coins)
<1>1. PICK sum : /\ sum[0] = 0
                 /\ \A k \in 1..n :
                      sum[k] = sum[k - 1] + IF coins[k].denom = d THEN coins[k].amount ELSE 0
                 /\ Total(coins, d) = sum[n]
  BY TotalByCoin
<1>2. PICK rest : /\ rest[0] = {balance}
                  /\ \A k \in 1..n :
                       rest[k] = {Minus(b, coins[k]) : b \in
                                    {r \in rest[k - 1] : /\ coins[k].denom \in DOMAIN r
                                                         /\ coins[k].amount <= r[coins[k].denom]}}
                  /\ Covers(balance, coins) <=> rest[n] # {}
  BY CoversByCoin
<1>3. n \in Nat
  OBVIOUS
<1> DEFINE Left(k) == \A b \in rest[k] : b \in Balances /\ Held(b, d) + sum[k] = Held(balance, d)
           S == {k \in 0..n : sum[k] \in Nat /\ Left(k)}
<1>4. 0 \in S
  <2>1. Held(balance, d) + 0 = Held(balance, d)
    BY HeldAmount
  <2> QED BY <1>1, <1>2, <1>3, <2>1
<1>5. ASSUME NEW k \in 1..n, k - 1 \in S PROVE k \in S
  <2>1. coins[k] \in AnyCoin /\ coins[k].amount \in Nat
    BY CoinAt
  <2>2. sum[k - 1] \in Nat /\ sum[k] = sum[k - 1] + IF coins[k].denom = d THEN coins[k].amount ELSE 0
    BY <1>1, <1>5
  <2>3. sum[k] \in Nat
    BY <2>1, <2>2
  <2>4. ASSUME NEW b \in rest[k] PROVE b \in Balances /\ Held(b, d) + sum[k] = Held(balance, d)
    <3>1. PICK r \in rest[k - 1] : /\ b = Minus(r, coins[k]) /\ coins[k].denom \in DOMAIN r
                                   /\ coins[k].amount <= r[coins[k].denom]
      BY <1>2, <2>4
    <3>2. r \in Balances /\ Held(r, d) + sum[k - 1] = Held(balance, d)
      BY <1>5, <3>1
    <3>3. b \in Balances /\ Held(b, d) = Held(r, d) - IF d = coins[k].denom THEN coins[k].amount ELSE 0
      BY <2>1, <3>1, <3>2, MinusHeld DEF AnyCoin
    <3>4. Held(r, d) \in Nat
      BY <3>2, HeldAmount, MaxUintAssumption
    <3>5. CASE coins[k].denom = d
      BY <2>1, <2>2, <3>2, <3>3, <3>4, <3>5
    <3>6. CASE coins[k].denom # d
      BY <2>1, <2>2, <3>2, <3>3, <3>4, <3>6
    <3> QED BY <3>5, <3>6
  <2> QED BY <2>3, <2>4
<1> HIDE DEF S
<1>6. n \in S
  <2>1. n \in 0..n
    BY <1>3
  <2> HIDE DEF n
  <2> QED BY <1>3, <1>4, <1>5, <2>1, Induction
<1>7. PICK b \in rest[n] : b \in Balances /\ Held(b, d) + sum[n] = Held(balance, d)
  BY <1>2, <1>6 DEF S
<1>8. Held(b, d) \in Nat /\ sum[n] \in Nat
  BY <1>6, <1>7, HeldAmount, MaxUintAssumption DEF S
<1> QED BY <1>1, <1>7, <1>8

\* The contract dispatches for others only what each message's grants cover: no
\* message goes beyond what admins left its sender, or its permissions (Cw1::execute).
THEOREM DispatchesOnlyGranted == Spec => OnlyGranted
<1>1. IInv /\ [Next]_vars =>
        [\A k \in DOMAIN sent' : LET m == sent'[k] IN
           \/ IsAdmin(by')
           \/ m.kind = "send" /\ \A d \in Denoms : Total(m.coins, d) <= given[by'][d]
           \/ by' \in DOMAIN permissions /\ Asks(m) \in permissions[by']]_vars
  <2> SUFFICES ASSUME IInv, Next, NEW k \in DOMAIN sent'
               PROVE  LET m == sent'[k] IN
                        \/ IsAdmin(by')
                        \/ m.kind = "send" /\ \A d \in Denoms : Total(m.coins, d) <= given[by'][d]
                        \/ by' \in DOMAIN permissions /\ Asks(m) \in permissions[by']
    OBVIOUS
  <2>1. sent' # <<>>
    OBVIOUS
  <2>2. PICK s \in Addresses, msgs \in BoundedSeq(Messages, MaxMessages) :
          /\ \A j \in DOMAIN msgs : IsAuthorized(s, msgs[j])
          /\ sent' = msgs /\ by' = s
    <3>1. ASSUME NEW s \in Addresses PROVE ~Delegated(s) /\ ~Granting(s)
      <4>1. ~Call(s) /\ ~Ok(s) /\ \A error : ~Refuse(s, error)
        BY <2>1 DEF Ok, Refuse, Call
      <4>2. \A spender, c, e : ~IncreaseAllowance(s, spender, c, e)
        BY <4>1 DEF IncreaseAllowance, RefusedGrant
      <4>3. \A spender, c, e : ~DecreaseAllowance(s, spender, c, e)
        BY <4>1 DEF DecreaseAllowance, RefusedGrant
      <4>4. \A spender, p : ~SetPermissions(s, spender, p)
        BY <4>1 DEF SetPermissions, RefusedGrant
      <4> QED BY <4>1, <4>2, <4>3, <4>4 DEF Delegated, Granting
    <3>2. ~NewBlock
      BY <2>1 DEF NewBlock
    <3>3. PICK s \in Addresses, msgs \in BoundedSeq(Messages, MaxMessages) : Execute(s, msgs)
      BY <3>1, <3>2 DEF Next
    <3> QED BY <2>1, <3>3 DEF Execute, Refuse, Call, Done
  <2> DEFINE m == msgs[k]
  <2>3. m \in Messages
    BY <2>2 DEF BoundedSeq, SeqOf
  <2>4. m.coins \in Seq(AnyCoin)
    BY <2>3, MessagesAssumption DEF AnyCoin
  <2>5. CASE m.kind = "send" /\ s \in DOMAIN allowances
             /\ ~Expired(Stored(s).expires) /\ Covers(Stored(s).balance, m.coins)
    <3>1. Stored(s).balance \in Balances
      BY StoredRecord DEF Record
    <3>2. \A d \in Denoms : given[s][d] = Held(Stored(s).balance, d)
      BY <2>5 DEF IInv, NetOfGrants
    <3>3. \A d \in Denoms : Total(m.coins, d) <= given[s][d]
      BY <2>4, <2>5, <3>1, <3>2, CoversTotal
    <3> QED BY <2>2, <2>5, <3>3
  <2>6. CASE IsAdmin(s) \/ (s \in DOMAIN permissions /\ Asks(m) \in permissions[s])
    BY <2>2, <2>6
  <2> QED BY <2>2, <2>5, <2>6 DEF IsAuthorized
<1> QED BY <1>1, SpecIInv, PTL DEF Spec, OnlyGranted
=============================================================================
