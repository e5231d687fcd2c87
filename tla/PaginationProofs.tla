--------------------------- MODULE PaginationProofs ---------------------------
(***************************************************************************)
(* A client that pages through a listing misses nothing that stays.        *)
(***************************************************************************)
EXTENDS Pagination, NaturalLemmas, FiniteSetTheorems

Behind(k) == \E s \in start_after : k <= s

TypeInv == /\ filtered \in BOOLEAN /\ done \in BOOLEAN
           /\ DOMAIN entries \subseteq Keys
           /\ limit \in Option(Limits) /\ start_after \in Option(Keys)
           /\ listed \in [Keys -> 0..2]

\* What the client is past it has got at most once, and once what has stayed; what is
\* ahead it has not got.  It is past everything that has stayed when it stops.
IInv == /\ TypeInv
        /\ \A k \in stayed : k \in Keys /\ Visible(k)
        /\ \A k \in Keys : ~Behind(k) => listed[k] = 0
        /\ \A k \in Keys : Behind(k) => listed[k] <= 1 /\ (k \in stayed => listed[k] = 1)
        /\ done => \A k \in stayed : Behind(k)
-----------------------------------------------------------------------------
LEMMA LimitPositive == ASSUME TypeInv PROVE Limit \in Nat \ {0}
<1>1. limit = {} \/ \E n \in Limits : limit = {n}
  BY DEF TypeInv, Option
<1>2. (CHOOSE n \in limit : TRUE) \in limit \/ limit = {}
  OBVIOUS
<1> QED BY <1>1, <1>2, LimitAssumption, LimitsAssumption DEF Limit

\* A page is the beginning of what lies after the bound, and empty only with it.
Rest == {k \in After : Visible(k)}
LEMMA PageIsFirst ==
  ASSUME TypeInv
  PROVE  /\ Page \subseteq Rest
         /\ Rest # {} => Page # {}
         /\ \A k \in Page, j \in Rest : j < k => j \in Page
<1>1. N \in Nat /\ Rest \subseteq 1..N
  BY NAssumption DEF Keys, Rest, After, TypeInv
<1> Rest \subseteq Nat
  BY <1>1
<1>2. Page = {k \in Rest : Cardinality({j \in Rest : j < k}) < Limit}
  BY DEF Page, First, Rest
<1>3. Limit \in Nat \ {0}
  BY LimitPositive
<1>4. ASSUME Rest # {} PROVE Page # {}
  <2>1. PICK x \in Rest : \A y \in Rest : x <= y
    BY <1>4, Smallest
  <2>2. \A j \in Rest : ~(j < x)
    BY <2>1
  <2>3. {j \in Rest : j < x} = {}
    BY <2>2
  <2> QED BY <1>2, <1>3, <2>3, FS_EmptySet
<1>5. ASSUME NEW k \in Page, NEW j \in Rest, j < k PROVE j \in Page
  <2> DEFINE Below(i) == {m \in Rest : m < i}
  <2>1. IsFiniteSet(1..N)
    BY <1>1, FS_Interval
  <2>2. IsFiniteSet(Rest)
    BY <1>1, <2>1, FS_Subset
  <2>3. IsFiniteSet(Below(k))
    BY <2>2, FS_Subset
  <2>4. k \in Rest
    BY <1>2, <1>5
  <2>5. ASSUME NEW m \in Rest, m < j PROVE m < k
    <3>1. m \in Nat /\ j \in Nat /\ k \in Nat
      BY <2>4
    <3> QED BY <1>5, <2>5, <3>1
  <2>6. Below(j) \subseteq Below(k)
    BY <2>5
  <2>7. Cardinality(Below(j)) <= Cardinality(Below(k))
    BY <2>3, <2>6, FS_Subset
  <2>8. IsFiniteSet(Below(j))
    BY <2>3, <2>6, FS_Subset
  <2>9. Cardinality(Below(j)) \in Nat /\ Cardinality(Below(k)) \in Nat
    BY <2>3, <2>8, FS_CardinalityType
  <2>10. Cardinality(Below(k)) < Limit
    BY <1>2, <1>5
  <2>11. Cardinality(Below(j)) < Limit
    BY <1>3, <2>7, <2>9, <2>10
  <2> QED BY <1>2, <1>5, <2>11
<1> QED BY <1>2, <1>4, <1>5
-----------------------------------------------------------------------------
LEMMA InitEstablishes == Init => IInv
<1> SUFFICES ASSUME Init PROVE IInv
  OBVIOUS
<1>1. PICK stored \in SUBSET Keys : entries \in [stored -> Expirations]
  BY DEF Init
<1>2. DOMAIN entries \subseteq Keys
  BY <1>1
<1>3. listed \in [Keys -> 0..2]
  BY DEF Init
<1>4. done \in BOOLEAN
  BY DEF Init
<1>5. TypeInv
  BY <1>2, <1>3, <1>4 DEF Init, TypeInv, Option
<1> QED BY <1>5 DEF Init, IInv, TypeInv, Behind, Option

\* The next page moves the bound past all it lists.
LEMMA AskPageKeeps == ASSUME IInv, AskPage PROVE IInv'
<1>1. TypeInv /\ UNCHANGED <<filtered, entries, height, limit, stayed>> /\ ~done
  BY DEF IInv, AskPage, map
<1>2. N \in Nat /\ Keys = 1..N
  BY NAssumption DEF Keys
<1>3. Keys \subseteq Nat
  BY <1>2
<1>4. \A k \in Keys : k \in Page => ~Behind(k)
  BY <1>1, <1>2, PageIsFirst DEF Rest, After, Behind, TypeInv, Option
<1>5. Page \subseteq Keys
  BY <1>1, PageIsFirst DEF Rest, After, TypeInv
<1>6. \A k \in Keys : listed'[k] = IF k \in Page THEN 1 ELSE listed[k]
  BY <1>1, <1>4 DEF AskPage, IInv, TypeInv
<1>7. listed' \in [Keys -> 0..2]
  BY <1>1 DEF AskPage, TypeInv
<1>8. \A k \in stayed : Visible(k)'
  BY <1>1 DEF IInv, Visible, Expired
<1>9. ASSUME NEW k \in stayed PROVE Behind(k) \/ k \in Rest
  <2>1. k \in Keys /\ Visible(k) /\ k \in DOMAIN entries
    BY DEF IInv, Visible
  <2>2. start_after = {} \/ \E s \in Keys : start_after = {s}
    BY <1>1 DEF TypeInv, Option
  <2>3. Behind(k) \/ \A s \in start_after : k > s
    <3>1. CASE start_after = {}
      BY <3>1
    <3>2. ASSUME NEW s \in Keys, start_after = {s} PROVE k <= s \/ k > s
      <4>1. k \in Keys
        BY <2>1
      <4>2. k \in Nat /\ s \in Nat
        BY <1>3, <4>1
      <4> QED BY <4>2
    <3> QED BY <2>2, <3>1, <3>2 DEF Behind
  <2> QED BY <2>1, <2>3 DEF Rest, After
<1>10. CASE Page = {}
  <2>1. done' /\ start_after' = start_after
    BY <1>10 DEF AskPage
  <2>2. Rest = {}
    BY <1>1, <1>10, PageIsFirst
  <2> QED BY <1>1, <1>6, <1>7, <1>8, <1>9, <1>10, <2>1, <2>2 DEF IInv, TypeInv, Behind
<1>11. CASE Page # {}
  <2>1. PICK x \in Page : \A y \in Page : y <= x
    <3>1. Keys \subseteq 0..N
      BY <1>2
    <3> QED BY <1>2, <1>5, <1>11, <3>1, Largest
  <2>2. start_after' = {x} /\ done' = FALSE
    <3>1. \A k \in Page : (\A j \in Page : j <= k) <=> k = x
      BY <1>2, <1>5, <2>1
    <3>2. {k \in Page : \A j \in Page : j <= k} = {x}
      BY <2>1, <3>1
    <3>3. done' = FALSE
      BY <1>11 DEF AskPage
    <3> QED BY <1>11, <3>2, <3>3 DEF AskPage
  <2>3. \A k \in Keys : Behind(k)' <=> k <= x
    BY <2>2 DEF Behind
  <2>4. TypeInv'
    BY <1>1, <1>5, <1>7, <2>1, <2>2 DEF TypeInv, Option
  <2>5. \A k \in Keys : Behind(k) => k <= x
    BY <1>1, <1>2, <1>4, <1>5, <2>1 DEF Behind, TypeInv, Option
  <2>6. \A k \in Keys : ~Behind(k)' => listed'[k] = 0
    BY <1>2, <1>6, <2>1, <2>3, <2>5 DEF IInv
  <2>7. ASSUME NEW k \in Keys, Behind(k)'
        PROVE  listed'[k] <= 1 /\ (k \in stayed => listed'[k] = 1)
    <3>1. k <= x
      BY <2>3, <2>7
    <3>2. CASE k \in Page
      BY <1>6, <3>2
    <3>3. CASE k \notin Page /\ Behind(k)
      BY <1>6, <3>3 DEF IInv
    <3>4. CASE k \notin Page /\ ~Behind(k)
      <4>1. k \notin Rest
        BY <1>1, <1>2, <1>5, <2>1, <3>1, <3>4, PageIsFirst
      <4> QED BY <1>6, <1>9, <3>4, <4>1 DEF IInv
    <3> QED BY <3>2, <3>3, <3>4
  <2> QED BY <1>1, <1>8, <2>2, <2>4, <2>6, <2>7 DEF IInv
<1> QED BY <1>10, <1>11

\* A transaction or a block can only make the client's task smaller.
LEMMA StayingKeeps ==
  ASSUME IInv, Staying, UNCHANGED <<filtered, client>>, DOMAIN entries' \subseteq Keys
  PROVE  IInv'
<1>1. UNCHANGED <<filtered, limit, start_after, done, listed>>
  BY DEF client
<1>2. TypeInv'
  BY <1>1 DEF IInv, TypeInv
<1>3. stayed' \subseteq stayed /\ \A k \in stayed' : Visible(k)'
  BY DEF Staying
<1>4. \A k : Behind(k)' <=> Behind(k)
  BY <1>1 DEF Behind
<1> QED BY <1>1, <1>2, <1>3, <1>4 DEF IInv

LEMMA StepKeeps == IInv /\ [Next]_vars => IInv'
<1> SUFFICES ASSUME IInv, [Next]_vars PROVE IInv'
  OBVIOUS
<1>1. CASE AskPage
  BY <1>1, AskPageKeeps
<1>2. ASSUME NEW k \in Keys, NEW expires \in Option(Expirations), Save(k, expires) PROVE IInv'
  BY <1>2, StayingKeeps DEF Save, IInv, TypeInv
<1>3. ASSUME NEW k \in Keys, Remove(k) PROVE IInv'
  BY <1>3, StayingKeeps DEF Remove, IInv, TypeInv
<1>4. CASE NewBlock
  BY <1>4, StayingKeeps DEF NewBlock, IInv, TypeInv
<1>5. CASE UNCHANGED vars
  BY <1>5 DEF vars, map, client, IInv, TypeInv, Behind, Visible, Expired
<1> QED BY <1>1, <1>2, <1>3, <1>4, <1>5 DEF Next

\* A client that has come to an empty page has got every entry that could be shown
\* all the time, once, and none twice: for any limits, any number of entries, and
\* whatever transactions and blocks come between its pages.
THEOREM ListingComplete == Spec => []Complete
<1>1. IInv => Complete
  <2> SUFFICES ASSUME IInv, done PROVE Complete
    BY DEF Complete
  <2>1. \A k \in stayed : k \in Keys /\ Behind(k)
    BY DEF IInv
  <2>2. \A k \in Keys : listed[k] <= 1
    BY DEF IInv, TypeInv
  <2> QED BY <2>1, <2>2 DEF IInv, Complete
<1> QED BY <1>1, InitEstablishes, StepKeeps, PTL DEF Spec
=============================================================================
