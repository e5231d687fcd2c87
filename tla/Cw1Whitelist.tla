---------------------------- MODULE Cw1Whitelist ----------------------------
(***************************************************************************)
(* The admins of examples/contracts/cw1-whitelist: who may change them,    *)
(* freezing, and the one-pass comparison of a new list with the stored one.*)
(*                                                                         *)
(* The strings of a call are numbers in their alphabetical order; not all  *)
(* of them are addresses.  The steps of a contract leave `by`, the sender, *)
(* and `answer`, how the call ended; a failed call changes nothing else.   *)
(***************************************************************************)
EXTENDS Naturals, SequencesExt

CONSTANTS
  Strings,    \* what a caller can name
  Addresses,  \* the strings addr_validate accepts
  Lists       \* bound: the `admins` arguments

ASSUME StringsAssumption == Strings \subseteq Nat /\ Addresses \subseteq Strings
ASSUME ListsAssumption == Lists \subseteq Seq(Strings)

VARIABLES
  admins, mutable,  \* the storage of the whitelist
  listed,           \* history: the names of the list accepted last
  by, answer        \* the last call

whitelist == <<admins, mutable, listed>>

IsAdmin(s) == s \in admins
\* Fault: the addresses are taken unchecked.
ValidatesAny(list) == TRUE

Validates(list) == ToSet(list) \subseteq Addresses
\* Fault: the flag is not looked at.
NeverFrozen == FALSE

Frozen == ~mutable
-----------------------------------------------------------------------------
Instantiated(list, m) ==
  /\ Validates(list)
  /\ admins = ToSet(list) /\ listed = ToSet(list)
  /\ mutable = m

Done(s) == by' = s /\ answer' = "Ok"
Refused(s, error) == by' = s /\ answer' = error /\ UNCHANGED whitelist

Freeze(s) ==
  \/ ~IsAdmin(s) /\ Refused(s, "Unauthorized")
  \/ IsAdmin(s) /\ mutable' = FALSE /\ Done(s) /\ UNCHANGED <<admins, listed>>

\* slice::sort_unstable of the list.
Sorted(list) ==
  {q \in {[k \in DOMAIN list |-> list[p[k]]] : p \in Bijection(DOMAIN list, DOMAIN list)} :
     \A j, k \in DOMAIN list : j < k => q[j] <= q[k]}

\* slice::binary_search of key in list[low..], counted from low: any match if there
\* are several, and otherwise the place where the key belongs.
Matches(list, low, key) == {k - low - 1 : k \in {j \in low + 1..Len(list) : list[j] = key}}
Places(list, low, key) ==
  {k \in 0..Len(list) - low : /\ \A j \in low + 1..low + k : list[j] < key
                             /\ \A j \in low + k + 1..Len(list) : list[j] > key}

\* Where the next search starts: the index found is that in the rest of the list, but
\* counts from the start of the list then.
After(list, low, key) ==
  IF low >= Len(list) THEN {low} ELSE Matches(list, low, key) \cup Places(list, low, key)

\* Fault: keys behind the end of the list are kept.
MissingKeepsRest(list, low, key) == low < Len(list) /\ Matches(list, low, key) = {}

Missing(list, low, key) == low >= Len(list) \/ Matches(list, low, key) = {}

\* What the filter over the stored keys, in their order, may collect in to_remove; at
\* says what low_idx was left at by each key.
ToRemove(list) ==
  LET first(key) == \A k \in admins : key <= k
      Low(at, key) == IF first(key) THEN 0 ELSE at[Max({k \in admins : k < key})]
      passes == {at \in [admins -> 0..Len(list)] :
                   \A key \in admins : at[key] \in After(list, Low(at, key), key)}
  IN {{key \in admins : Missing(list, Low(at, key), key)} : at \in passes}

UpdateAdmins(s, list) ==
  \/ ~IsAdmin(s) /\ Refused(s, "Unauthorized")
  \/ IsAdmin(s) /\ Frozen /\ Refused(s, "ContractFrozen")
  \/ IsAdmin(s) /\ ~Frozen /\ ~Validates(list) /\ Refused(s, "InvalidAddress")
  \/ /\ IsAdmin(s) /\ ~Frozen /\ Validates(list)
     /\ \E sorted \in Sorted(list) : \E removed \in ToRemove(sorted) :
          admins' = (admins \ removed) \cup ToSet(list)
     /\ listed' = ToSet(list)
     /\ Done(s)
     /\ UNCHANGED mutable
-----------------------------------------------------------------------------
WhitelistTypeOK == /\ admins \subseteq Addresses
                   /\ mutable \in BOOLEAN

\* An update leaves exactly the addresses of its list, whatever was stored before and
\* in whatever order and however often the list names them.
AsListed == admins = listed

\* Only an admin changes the admins, and only before the contract is frozen; nothing
\* ends the freeze, and nobody comes into office once all have left.
Administered ==
  [][/\ admins' # admins => mutable /\ IsAdmin(by')
     /\ mutable' # mutable => IsAdmin(by') /\ ~mutable']_<<admins, mutable>>
=============================================================================
