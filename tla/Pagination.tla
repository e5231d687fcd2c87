----------------------------- MODULE Pagination -----------------------------
(***************************************************************************)
(* The paginated queries: all_allowances, all_spender_allowances and       *)
(* all_accounts of cw20-base, all_allowances and all_permissions of        *)
(* cw1-subkeys.  Each reads the keys of one map, or of one prefix of it.   *)
(* A client asks for page after page, giving the last key it has seen,     *)
(* while transactions add, renew and remove entries and blocks pass.       *)
(*                                                                         *)
(* A key stands for its place in the ascending order of the raw keys.  Of  *)
(* an entry only the expiration is kept: {} is Never, {h} is AtHeight(h).  *)
(* Balances and permissions are entries that never expire.                 *)
(***************************************************************************)
EXTENDS Naturals, FiniteSets

CONSTANTS
  N,  \* how many keys there can be
  DEFAULT_LIMIT, MAX_LIMIT,  \* 10 and 30 in both contracts
  Limits,       \* the limits a client can ask for
  Expirations,  \* the Expiration arguments
  MaxHeight     \* bound: the last block considered

Keys == 1..N

ASSUME NAssumption == N \in Nat
ASSUME LimitAssumption == DEFAULT_LIMIT \in Nat \ {0} /\ MAX_LIMIT \in Nat \ {0}
ASSUME ExpirationsAssumption == \A e \in Expirations : e \subseteq Nat

\* A client that asks for no entries at all gets none.
ASSUME LimitsAssumption == Limits \subseteq Nat \ {0}

VARIABLES
  filtered,     \* whether the query leaves out what has expired
  entries,      \* key |-> expires, for the keys in storage
  height,       \* block height
  limit,        \* the limit of the client's queries: none or one
  start_after,  \* the last key the client has seen: none or one
  done,         \* the client has got an empty page
  listed,       \* history: how often the client has got a key, up to twice
  stayed        \* history: what the query could show ever since the first page

map == <<entries, height>>
client == <<limit, start_after, done, listed>>
vars == <<filtered, map, client, stayed>>

Option(S) == {{}} \cup {{x} : x \in S}
Expired(expires) == \E h \in expires : height >= h
Visible(k) == k \in DOMAIN entries /\ (filtered => ~Expired(entries[k]))
-----------------------------------------------------------------------------
Init ==
  /\ filtered \in BOOLEAN
  /\ \E stored \in SUBSET Keys : entries \in [stored -> Expirations]
  /\ height = 0
  /\ limit \in Option(Limits) /\ start_after = {} /\ done = FALSE
  /\ listed = [k \in Keys |-> 0]
  /\ stayed = {k \in Keys : Visible(k)}

\* limit.unwrap_or(DEFAULT_LIMIT).min(MAX_LIMIT)
Limit == LET asked == IF limit = {} THEN DEFAULT_LIMIT ELSE CHOOSE n \in limit : TRUE
         IN IF asked < MAX_LIMIT THEN asked ELSE MAX_LIMIT

\* Fault: the bound is inclusive.
AfterInclusive == {k \in DOMAIN entries : \A s \in start_after : k >= s}

\* Bound::ExclusiveRaw; the key itself need not be stored any more.
After == {k \in DOMAIN entries : \A s \in start_after : k > s}

First(n, set) == {k \in set : Cardinality({j \in set : j < k}) < n}

\* Fault: expired entries are left out of a page that has been cut to its length.
PageFilteredLast == {k \in First(Limit, After) : Visible(k)}

\* range(start, None, Ascending).filter(..).take(limit)
Page == First(Limit, {k \in After : Visible(k)})

\* External: the client asks for the next page until it gets an empty one.
AskPage ==
  /\ ~done
  /\ done' = (Page = {})
  /\ start_after' = IF Page = {} THEN start_after ELSE {k \in Page : \A j \in Page : j <= k}
  /\ listed' = [k \in Keys |-> IF k \in Page /\ listed[k] < 2 THEN listed[k] + 1 ELSE listed[k]]
  /\ UNCHANGED <<filtered, map, limit, stayed>>
-----------------------------------------------------------------------------
Staying == stayed' = {k \in stayed : Visible(k)'}

\* An allowance is increased, or lowered to less, with or without a new expiration.
\* cw20-base keeps one that has passed, cw1-subkeys refuses to.
Save(k, expires) ==
  LET kept == IF k \in DOMAIN entries THEN entries[k] ELSE {}
      stored == IF expires = {} THEN kept ELSE UNION expires
  IN /\ \A e \in expires : ~Expired(e)
     /\ filtered => ~Expired(stored)
     /\ entries' = [j \in DOMAIN entries \cup {k} |-> IF j = k THEN stored ELSE entries[j]]
     /\ UNCHANGED <<filtered, height, client>>
     /\ Staying

\* An allowance is lowered to nothing.  Only cw20-base takes from an expired one.
Remove(k) ==
  /\ Visible(k)
  /\ entries' = [j \in DOMAIN entries \ {k} |-> entries[j]]
  /\ UNCHANGED <<filtered, height, client>>
  /\ Staying

\* External: the chain.
NewBlock == /\ height < MaxHeight
            /\ height' = height + 1
            /\ UNCHANGED <<filtered, entries, client>>
            /\ Staying

Next == \/ AskPage
        \/ \E k \in Keys, expires \in Option(Expirations) : Save(k, expires)
        \/ \E k \in Keys : Remove(k)
        \/ NewBlock

\* The client does not give up; nothing is assumed of the transactions.
Spec == Init /\ [][Next]_vars /\ WF_vars(AskPage)
-----------------------------------------------------------------------------
\* A client that has come to an empty page has got every entry that could be shown
\* all the time, once; and none twice, though entries came, expired and went between
\* its pages, the one it went on from included.
Complete == done => /\ \A k \in stayed : listed[k] = 1
                    /\ \A k \in Keys : listed[k] <= 1

\* Nothing that is added can keep a client from coming to the end.
Finishes == <>done
=============================================================================
