--------------------------- MODULE NaturalLemmas ---------------------------
(***************************************************************************)
(* What the proofs need of the natural numbers: least and greatest         *)
(* elements, induction over a set instead of a predicate, the existence of *)
(* functions defined by recursion, sums over a finite domain, and joined   *)
(* sequences.                                                              *)
(***************************************************************************)
EXTENDS Naturals, Sequences, FiniteSetTheorems, WellFoundedInduction, TLAPS

\* A set of natural numbers has a smallest element, a bounded one a largest.
LEMMA Smallest ==
  ASSUME NEW S, S \subseteq Nat, S # {}
  PROVE  \E x \in S : \A y \in S : x <= y
<1>1. PICK x \in S : \A y \in S : ~(<<y, x>> \in OpToRel(<, Nat))
  BY NatLessThanWellFounded, WFMin
<1>2. \A y \in S : ~(y < x)
  BY <1>1 DEF OpToRel
<1> QED BY <1>2

LEMMA Largest ==
  ASSUME NEW n \in Nat, NEW S, S \subseteq 0..n, S # {}
  PROVE  \E x \in S : \A y \in S : y <= x
<1> DEFINE T == {n - y : y \in S}
<1>1. \A y \in S : n - y \in Nat
  OBVIOUS
<1>2. T \subseteq Nat /\ T # {}
  BY <1>1
<1>3. PICK t \in T : \A u \in T : t <= u
  BY <1>2, Smallest
<1>4. PICK x \in S : t = n - x
  OBVIOUS
<1>5. \A y \in S : n - x <= n - y
  BY <1>3, <1>4
<1> QED BY <1>5

\* A set that holds 0, and with every number the next one up to n, holds all up to n.
LEMMA Induction ==
  ASSUME NEW n \in Nat, NEW S, 0 \in S, \A k \in 1..n : k - 1 \in S => k \in S
  PROVE  \A k \in 0..n : k \in S
<1> DEFINE Rest == (0..n) \ S
<1> SUFFICES ASSUME Rest # {} PROVE FALSE
  OBVIOUS
<1>1. PICK m \in Rest : \A y \in Rest : m <= y
  <2>1. Rest \subseteq Nat
    OBVIOUS
  <2> HIDE DEF Rest
  <2> QED BY <2>1, Smallest
<1>2. m \in 1..n
  OBVIOUS
<1>3. m - 1 \in 0..n /\ ~(m <= m - 1)
  BY <1>2
<1>4. m - 1 \in S
  BY <1>1, <1>3
<1> QED BY <1>2, <1>4
-----------------------------------------------------------------------------
\* f[0], f[1], ..., f[n] start from b, each the step from the one before.
Iterates(f, n, T, b, step) ==
  f \in [0..n -> T] /\ f[0] = b /\ \A k \in 1..n : f[k] = step[k][f[k - 1]]

\* What is defined by recursion up to n exists, ...
LEMMA Recursion ==
  ASSUME NEW n \in Nat, NEW T, NEW b \in T, NEW step \in [1..n -> [T -> T]]
  PROVE  \E f : Iterates(f, n, T, b, step)
<1> DEFINE Has(m) == \E f \in [0..m -> T] : f[0] = b /\ \A k \in 1..m : f[k] = step[k][f[k - 1]]
           S == {m \in 0..n : Has(m)}
<1> SUFFICES Has(n)
  BY DEF Iterates
<1>1. Has(0)
  <2>1. [k \in 0..0 |-> b] \in [0..0 -> T] /\ [k \in 0..0 |-> b][0] = b
    OBVIOUS
  <2>2. 1..0 = {}
    OBVIOUS
  <2> QED BY <2>1, <2>2
<1>2. ASSUME NEW m \in 1..n, Has(m - 1) PROVE Has(m)
  <2>1. PICK f \in [0..m - 1 -> T] : f[0] = b /\ \A k \in 1..m - 1 : f[k] = step[k][f[k - 1]]
    BY <1>2
  <2> DEFINE g == [k \in 0..m |-> IF k = m THEN step[m][f[m - 1]] ELSE f[k]]
  <2>2. m - 1 \in 0..m - 1 /\ 0 \in 0..m - 1 /\ m # 0
    OBVIOUS
  <2>3. f[m - 1] \in T /\ step[m][f[m - 1]] \in T
    BY <2>1, <2>2
  <2>4. \A k \in 0..m : k = m \/ k \in 0..m - 1
    OBVIOUS
  <2>5. g \in [0..m -> T]
    BY <2>1, <2>3, <2>4
  <2>6. g[0] = b
    BY <2>1, <2>2
  <2>7. ASSUME NEW k \in 1..m PROVE g[k] = step[k][g[k - 1]]
    <3>1. k \in 0..m /\ k - 1 \in 0..m /\ k - 1 # m /\ k - 1 \in 0..m-1
      OBVIOUS
    <3>2. CASE k = m
      BY <3>1, <3>2
    <3>3. CASE k # m
      <4>1. k \in 1..m - 1
        BY <3>3
      <4> QED BY <3>1, <3>3, <4>1, <2>1
    <3> QED BY <3>2, <3>3
  <2> QED BY <2>5, <2>6, <2>7
<1> HIDE DEF Has
<1>3. 0 \in S
  BY <1>1
<1>4. \A k \in 1..n : k - 1 \in S => k \in S
  BY <1>2
<1> HIDE DEF S
<1>5. n \in S
  <2>1. n \in 0..n
    OBVIOUS
  <2> QED BY <1>3, <1>4, <2>1, Induction
<1> QED BY <1>5 DEF S

\* ... and is the value the definition chooses.
LEMMA Chosen ==
  ASSUME NEW n \in Nat, NEW T, NEW b, NEW step, NEW f, NEW g,
         Iterates(f, n, T, b, step), Iterates(g, n, T, b, step)
  PROVE  f = g
<1> DEFINE S == {k \in 0..n : f[k] = g[k]}
<1>1. 0 \in S
  BY DEF Iterates
<1>2. \A k \in 1..n : k - 1 \in S => k \in S
  BY DEF Iterates
<1> HIDE DEF S
<1>3. \A k \in 0..n : k \in S
  BY <1>1, <1>2, Induction
<1>4. \A k \in 0..n : f[k] = g[k]
  BY <1>3 DEF S
<1> QED BY <1>4 DEF Iterates
-----------------------------------------------------------------------------
\* Sums: g adds up f over every set of places, starting with the place that is chosen.
Member(s) == CHOOSE x \in s : TRUE
Unfolds(g, f) ==
  g = [s \in SUBSET DOMAIN f |-> IF s = {} THEN 0 ELSE f[Member(s)] + g[s \ {Member(s)}]]
Adds(g, f) == g \in [SUBSET DOMAIN f -> Nat] /\ Unfolds(g, f)

\* What is left of a finite set without one of its elements.
LEMMA Less ==
  ASSUME NEW D, IsFiniteSet(D), NEW s \in SUBSET D, NEW x \in s
  PROVE  /\ Cardinality(s) \in 1..Cardinality(D) /\ s \ {x} \in SUBSET D
         /\ Cardinality(s \ {x}) = Cardinality(s) - 1
<1>1. IsFiniteSet(s) /\ Cardinality(s) <= Cardinality(D)
  BY FS_Subset
<1>2. Cardinality(s \ {x}) = Cardinality(s) - 1
  BY <1>1, FS_RemoveElement
<1>3. Cardinality(D) \in Nat /\ Cardinality(s) \in Nat /\ Cardinality(s \ {x}) \in Nat
  BY <1>1, FS_CardinalityType, FS_RemoveElement
<1> QED BY <1>1, <1>2, <1>3

LEMMA MemberIn == \A s : s # {} => Member(s) \in s
BY DEF Member

\* Every function with a finite domain is added up by one.
LEMMA SumExists ==
  ASSUME NEW D, IsFiniteSet(D), NEW f, DOMAIN f = D, \A x \in D : f[x] \in Nat
  PROVE  \E g : Adds(g, f)
<1> DEFINE n == Cardinality(D)
           Upto(m, g) == \A s \in SUBSET D : Cardinality(s) <= m =>
                           g[s] = IF s = {} THEN 0 ELSE f[Member(s)] + g[s \ {Member(s)}]
           Has(m) == \E g \in [SUBSET D -> Nat] : Upto(m, g)
           S == {m \in 0..n : Has(m)}
<1>0. n \in Nat /\ DOMAIN f = D /\ \A s \in SUBSET D : Cardinality(s) \in 0..n
  BY FS_CardinalityType, FS_Subset
<1>1. Has(0)
  <2> DEFINE g == [s \in SUBSET D |-> 0]
  <2>1. ASSUME NEW s \in SUBSET D, Cardinality(s) <= 0 PROVE s = {}
    <3>1. IsFiniteSet(s) /\ Cardinality(s) = 0
      BY <1>0, <2>1, FS_Subset
    <3> QED BY <3>1, FS_EmptySet
  <2>2. g \in [SUBSET D -> Nat] /\ Upto(0, g)
    BY <2>1
  <2> HIDE DEF Upto, g
  <2> QED BY <2>2
<1>2. ASSUME NEW m \in 1..n, Has(m - 1) PROVE Has(m)
  <2>1. PICK g \in [SUBSET D -> Nat] : Upto(m - 1, g)
    BY <1>2
  <2> DEFINE h == [s \in SUBSET D |-> IF Cardinality(s) = m THEN f[Member(s)] + g[s \ {Member(s)}] ELSE g[s]]
  <2>2. ASSUME NEW s \in SUBSET D, s # {}
        PROVE  /\ Member(s) \in s /\ Member(s) \in D /\ s \ {Member(s)} \in SUBSET D
               /\ Cardinality(s \ {Member(s)}) = Cardinality(s) - 1
    BY <2>2, MemberIn, Less
  <2>3. \A s \in SUBSET D : Cardinality(s) = m => s # {}
    <3>1. Cardinality({}) = 0 /\ m # 0
      BY FS_EmptySet
    <3> QED BY <3>1
  <2>4. h \in [SUBSET D -> Nat]
    BY <2>2, <2>3
  <2>5. ASSUME NEW s \in SUBSET D, Cardinality(s) <= m
        PROVE  h[s] = IF s = {} THEN 0 ELSE f[Member(s)] + h[s \ {Member(s)}]
    <3>1. CASE s = {}
      <4>1. Cardinality(s) = 0
        BY <3>1, FS_EmptySet
      <4> QED BY <2>1, <3>1, <4>1
    <3>2. CASE s # {}
      <4>1. /\ s \ {Member(s)} \in SUBSET D
            /\ Cardinality(s \ {Member(s)}) = Cardinality(s) - 1 /\ Cardinality(s) \in 0..n
        BY <1>0, <2>2, <3>2
      <4>2. Cardinality(s \ {Member(s)}) # m
        BY <2>5, <4>1
      <4>3. h[s \ {Member(s)}] = g[s \ {Member(s)}]
        BY <4>1, <4>2
      <4>4. CASE Cardinality(s) = m
        BY <3>2, <4>3, <4>4
      <4>5. CASE Cardinality(s) # m
        <5>1. Cardinality(s) <= m - 1
          BY <2>5, <4>1, <4>5
        <5> QED BY <2>1, <3>2, <4>3, <4>5, <5>1
      <4> QED BY <4>4, <4>5
    <3> QED BY <3>1, <3>2
  <2>6. Upto(m, h)
    BY <2>5
  <2> HIDE DEF Upto, h
  <2> QED BY <2>4, <2>6
<1> HIDE DEF Has
<1>3. 0 \in S /\ \A k \in 1..n : k - 1 \in S => k \in S
  BY <1>0, <1>1, <1>2
<1>4. n \in S
  <2> HIDE DEF S, n
  <2> QED BY <1>0, <1>3, Induction
<1>5. PICK g \in [SUBSET D -> Nat] : Upto(n, g)
  BY <1>4 DEF Has
<1>6. ASSUME NEW s \in SUBSET D
      PROVE  g[s] = IF s = {} THEN 0 ELSE f[Member(s)] + g[s \ {Member(s)}]
  <2>1. Cardinality(s) <= n
    BY <1>0
  <2> QED BY <1>5, <2>1
<1>7. Adds(g, f)
  BY <1>0, <1>6 DEF Adds, Unfolds
<1> QED BY <1>7

\* What adds up natural numbers place by place does so in the natural numbers.
LEMMA OfNaturals ==
  ASSUME NEW D, IsFiniteSet(D), NEW f, DOMAIN f = D, \A x \in D : f[x] \in Nat, NEW g, Unfolds(g, f)
  PROVE  Adds(g, f)
<1> DEFINE n == Cardinality(D)
           S == {m \in 0..n : \A t \in SUBSET D : Cardinality(t) = m => g[t] \in Nat}
<1>0. n \in Nat
  BY FS_CardinalityType
<1>1. 0 \in S
  <2>1. \A t \in SUBSET D : Cardinality(t) = 0 => t = {}
    BY FS_EmptySet, FS_Subset
  <2>2. g[{}] = 0
    BY DEF Unfolds
  <2> QED BY <1>0, <2>1, <2>2
<1>2. ASSUME NEW m \in 1..n, m - 1 \in S PROVE m \in S
  <2> SUFFICES ASSUME NEW t \in SUBSET D, Cardinality(t) = m PROVE g[t] \in Nat
    BY <1>0
  <2>1. t # {}
    <3>1. Cardinality({}) = 0 /\ m # 0
      BY FS_EmptySet
    <3> QED BY <3>1
  <2>2. Member(t) \in t /\ t \ {Member(t)} \in SUBSET D /\ Cardinality(t \ {Member(t)}) = m - 1
    BY <2>1, MemberIn, Less
  <2>3. g[t \ {Member(t)}] \in Nat /\ f[Member(t)] \in Nat
    BY <1>2, <2>2
  <2>4. g[t] = f[Member(t)] + g[t \ {Member(t)}]
    BY <2>1 DEF Unfolds
  <2> QED BY <2>3, <2>4
<1> HIDE DEF S
<1>3. \A k \in 0..n : k \in S
  <2> HIDE DEF n
  <2> QED BY <1>0, <1>1, <1>2, Induction
<1>4. \A s \in SUBSET D : Cardinality(s) \in 0..n
  BY <1>0, FS_CardinalityType, FS_Subset
<1>5. \A s \in SUBSET D : g[s] \in Nat
  BY <1>3, <1>4 DEF S
<1> QED BY <1>5 DEF Adds, Unfolds

\* It does not matter which place comes first.
LEMMA AnyMember ==
  ASSUME NEW D, IsFiniteSet(D), NEW f, DOMAIN f = D, \A x \in D : f[x] \in Nat,
         NEW g, Adds(g, f),
         NEW s \in SUBSET D, NEW x \in s
  PROVE  g[s] = f[x] + g[s \ {x}]
<1> DEFINE n == Cardinality(D)
           Any(t) == \A y \in t : g[t] = f[y] + g[t \ {y}]
           S == {m \in 0..n : \A t \in SUBSET D : Cardinality(t) = m => Any(t)}
<1>0. n \in Nat /\ DOMAIN f = D
  BY FS_CardinalityType
<1>1. 0 \in S
  <2>1. \A t \in SUBSET D : Cardinality(t) = 0 => t = {}
    BY FS_EmptySet, FS_Subset
  <2> QED BY <1>0, <2>1
<1>2. ASSUME NEW m \in 1..n, m - 1 \in S PROVE m \in S
  <2> SUFFICES ASSUME NEW t \in SUBSET D, Cardinality(t) = m, NEW y \in t
               PROVE  g[t] = f[y] + g[t \ {y}]
    OBVIOUS
  <2> DEFINE c == Member(t)
  <2>1. c \in t
    BY MemberIn
  <2>2. g[t] = f[c] + g[t \ {c}]
    BY <1>0 DEF Adds, Unfolds
  <2>3. CASE y = c
    BY <2>2, <2>3
  <2>4. CASE y # c
    <3> HIDE DEF c
    <3>1. /\ t \ {c} \in SUBSET D /\ Cardinality(t \ {c}) = m - 1
          /\ t \ {y} \in SUBSET D /\ Cardinality(t \ {y}) = m - 1
      BY <2>1, Less
    <3>2. y \in t \ {c} /\ c \in t \ {y} /\ (t \ {c}) \ {y} = (t \ {y}) \ {c}
      BY <2>1, <2>4
    <3>3. g[t \ {c}] = f[y] + g[(t \ {c}) \ {y}]
      BY <1>2, <3>1, <3>2
    <3>4. g[t \ {y}] = f[c] + g[(t \ {y}) \ {c}]
      BY <1>2, <3>1, <3>2
    <3>5. f[c] \in Nat /\ f[y] \in Nat /\ g[(t \ {y}) \ {c}] \in Nat
      BY <1>0, <2>1 DEF Adds, Unfolds
    <3>6. g[t \ {c}] = f[y] + g[(t \ {y}) \ {c}]
      BY <3>2, <3>3
    <3> QED BY <2>2, <3>4, <3>5, <3>6
  <2> QED BY <2>3, <2>4
<1> HIDE DEF S
<1>3. \A k \in 0..n : k \in S
  <2> HIDE DEF n
  <2> QED BY <1>0, <1>1, <1>2, Induction
<1>4. Cardinality(s) \in 0..n
  <2>1. IsFiniteSet(s) /\ Cardinality(s) <= n
    BY FS_Subset
  <2>2. Cardinality(s) \in Nat
    BY <2>1, FS_CardinalityType
  <2> QED BY <1>0, <2>1, <2>2
<1> QED BY <1>3, <1>4 DEF S

\* Sums of the same values agree, whatever the places are.
LEMMA SumsAgree ==
  ASSUME NEW D, IsFiniteSet(D), NEW f, DOMAIN f = D, \A x \in D : f[x] \in Nat,
         NEW g, Adds(g, f),
         NEW E, IsFiniteSet(E), NEW h, DOMAIN h = E, \A x \in E : h[x] \in Nat,
         NEW k, Adds(k, h),
         NEW b \in [D -> E], \A x, y \in D : b[x] = b[y] => x = y,
         NEW s \in SUBSET D, \A x \in s : h[b[x]] = f[x]
  PROVE  k[{b[x] : x \in s}] = g[s]
<1> DEFINE n == Cardinality(D)
           Image(t) == {b[x] : x \in t}
           S == {m \in 0..n : \A t \in SUBSET s : Cardinality(t) = m => k[Image(t)] = g[t]}
<1>0. n \in Nat /\ DOMAIN f = D /\ DOMAIN h = E
  BY FS_CardinalityType
<1>1. 0 \in S
  <2>1. \A t \in SUBSET s : Cardinality(t) = 0 => t = {}
    BY FS_EmptySet, FS_Subset
  <2>2. g[{}] = 0 /\ k[{}] = 0
    <3>1. {} \in SUBSET D /\ {} \in SUBSET E
      OBVIOUS
    <3> QED BY <1>0, <3>1 DEF Adds, Unfolds
  <2>3. Image({}) = {}
    OBVIOUS
  <2> HIDE DEF Image
  <2> QED BY <1>0, <2>1, <2>2, <2>3
<1>2. ASSUME NEW m \in 1..n, m - 1 \in S PROVE m \in S
  <2> SUFFICES ASSUME NEW t \in SUBSET s, Cardinality(t) = m PROVE k[Image(t)] = g[t]
    OBVIOUS
  <2>1. t # {}
    BY FS_EmptySet
  <2>2. PICK c : c \in t
    BY <2>1
  <2>3. t \ {c} \in SUBSET s /\ Cardinality(t \ {c}) = m - 1
    BY <2>2, Less
  <2>4. k[Image(t \ {c})] = g[t \ {c}]
    BY <1>2, <2>3
  <2>5. Image(t \ {c}) = Image(t) \ {b[c]}
    BY <2>2
  <2>6. Image(t) \in SUBSET E /\ b[c] \in Image(t)
    BY <2>2
  <2> HIDE DEF Image
  <2>7. k[Image(t)] = h[b[c]] + k[Image(t) \ {b[c]}]
    BY <2>6, AnyMember, SMTT(30)
  <2>8. g[t] = f[c] + g[t \ {c}]
    BY <2>2, AnyMember
  <2> QED BY <2>2, <2>4, <2>5, <2>7, <2>8
<1> HIDE DEF S
<1>3. \A m \in 0..n : m \in S
  <2> HIDE DEF n
  <2> QED BY <1>0, <1>1, <1>2, Induction
<1>4. Cardinality(s) \in 0..n
  <2>1. IsFiniteSet(s) /\ Cardinality(s) <= n
    BY FS_Subset
  <2>2. Cardinality(s) \in Nat
    BY <2>1, FS_CardinalityType
  <2> QED BY <1>0, <2>1, <2>2
<1> QED BY <1>3, <1>4 DEF S
-----------------------------------------------------------------------------
EntriesOf(s) == {s[i] : i \in DOMAIN s}

\* What follows one another in a sequence of sequences.
LEMMA Concatenated ==
  ASSUME NEW S, NEW a \in Seq(S), NEW b \in Seq(S)
  PROVE  a \o b \in Seq(S) /\ EntriesOf(a \o b) = EntriesOf(a) \cup EntriesOf(b)
<1>1. a \o b \in Seq(S) /\ Len(a \o b) = Len(a) + Len(b)
  OBVIOUS
<1>2. \A i \in 1..Len(a) : i \in DOMAIN (a \o b) /\ (a \o b)[i] = a[i]
  OBVIOUS
<1>3. \A i \in 1..Len(b) : Len(a) + i \in DOMAIN (a \o b) /\ (a \o b)[Len(a) + i] = b[i]
  OBVIOUS
<1>4. ASSUME NEW i \in DOMAIN (a \o b) PROVE (a \o b)[i] \in EntriesOf(a) \cup EntriesOf(b)
  <2>1. CASE i <= Len(a)
    <3>1. i \in DOMAIN a /\ (a \o b)[i] = a[i]
      BY <1>1, <1>2, <2>1
    <3> QED BY <3>1 DEF EntriesOf
  <2>2. CASE ~(i <= Len(a))
    <3>1. i - Len(a) \in 1..Len(b) /\ Len(a) + (i - Len(a)) = i
      BY <1>1, <2>2
    <3>2. i - Len(a) \in DOMAIN b /\ (a \o b)[i] = b[i - Len(a)]
      BY <1>3, <3>1
    <3> QED BY <3>2 DEF EntriesOf
  <2> QED BY <2>1, <2>2
<1>5. EntriesOf(a \o b) \subseteq EntriesOf(a) \cup EntriesOf(b)
  BY <1>4 DEF EntriesOf
<1>6. EntriesOf(a) \subseteq EntriesOf(a \o b)
  BY <1>2 DEF EntriesOf
<1>7. EntriesOf(b) \subseteq EntriesOf(a \o b)
  <2>1. \A i \in DOMAIN b : \E k \in DOMAIN (a \o b) : (a \o b)[k] = b[i]
    <3> TAKE i \in DOMAIN b
    <3>1. i \in 1..Len(b)
      OBVIOUS
    <3>2. Len(a) + i \in DOMAIN (a \o b) /\ (a \o b)[Len(a) + i] = b[i]
      BY <1>3, <3>1
    <3> QED BY <3>2
  <2> QED BY <2>1 DEF EntriesOf
<1> QED BY <1>1, <1>5, <1>6, <1>7

\* g joins more and more of a sequence of sequences, as FlattenSeq does; the last one
\* has all their entries.
Joins(g, seqs) == g = [i \in 1..Len(seqs) |-> IF i = 1 THEN seqs[i] ELSE g[i - 1] \o seqs[i]]

LEMMA Joined ==
  ASSUME NEW S, NEW seqs \in Seq(Seq(S)), Len(seqs) # 0
  PROVE  /\ \E g : Joins(g, seqs)
         /\ \A g : Joins(g, seqs) =>
              /\ g[Len(seqs)] \in Seq(S)
              /\ EntriesOf(g[Len(seqs)]) = UNION {EntriesOf(seqs[j]) : j \in DOMAIN seqs}
<1> DEFINE n == Len(seqs)
<1>0. n \in Nat \ {0} /\ DOMAIN seqs = 1..n /\ \A i \in 1..n : seqs[i] \in Seq(S)
  OBVIOUS
<1>1. \E g : Joins(g, seqs)
  <2> DEFINE step == [k \in 1..n |-> [s \in Seq(S) |-> IF k = 1 THEN seqs[k] ELSE s \o seqs[k]]]
  <2>1. <<>> \in Seq(S) /\ step \in [1..n -> [Seq(S) -> Seq(S)]]
    BY <1>0
  <2>2. PICK f : Iterates(f, n, Seq(S), <<>>, step)
    <3> HIDE DEF step, n
    <3> QED BY <1>0, <2>1, Recursion
  <2> DEFINE g == [i \in 1..n |-> f[i]]
  <2>3. ASSUME NEW i \in 1..n PROVE g[i] = IF i = 1 THEN seqs[i] ELSE g[i - 1] \o seqs[i]
    <3>1. f[i - 1] \in Seq(S) /\ f[i] = step[i][f[i - 1]]
      <4> HIDE DEF step, n
      <4> QED BY <2>2, <1>0, SMTT(30) DEF Iterates
    <3>2. f[i] = IF i = 1 THEN seqs[i] ELSE f[i - 1] \o seqs[i]
      BY <3>1
    <3>3. i # 1 => i - 1 \in 1..n
      BY <1>0
    <3> QED BY <3>2, <3>3
  <2>4. Joins(g, seqs)
    BY <2>3 DEF Joins
  <2> QED BY <2>4
<1>2. ASSUME NEW g, Joins(g, seqs)
      PROVE  g[n] \in Seq(S) /\ EntriesOf(g[n]) = UNION {EntriesOf(seqs[j]) : j \in DOMAIN seqs}
  <2> DEFINE Upto(k) == UNION {EntriesOf(seqs[j]) : j \in 1..k}
             T == {k \in 0..n : k = 0 \/ (g[k] \in Seq(S) /\ EntriesOf(g[k]) = Upto(k))}
  <2>3. 0 \in T
    BY <1>0
  <2>4. ASSUME NEW k \in 1..n, k - 1 \in T PROVE k \in T
    <3>1. g[k] = IF k = 1 THEN seqs[k] ELSE g[k - 1] \o seqs[k]
      BY <1>2 DEF Joins
    <3>2. \A j : j \in 1..k <=> j = k \/ j \in 1..k - 1
      BY <1>0
    <3>3. Upto(k) = Upto(k - 1) \cup EntriesOf(seqs[k])
      BY <3>2
    <3>4. CASE k = 1
      <4>1. Upto(0) = {}
        OBVIOUS
      <4>2. Upto(k) = EntriesOf(seqs[k])
        BY <3>3, <3>4, <4>1
      <4> HIDE DEF Upto
      <4> QED BY <3>1, <3>4, <4>2, <1>0
    <3>5. CASE k # 1
      <4>1. g[k - 1] \in Seq(S) /\ EntriesOf(g[k - 1]) = Upto(k - 1)
        BY <2>4, <3>5
      <4> HIDE DEF Upto
      <4>2. g[k] \in Seq(S) /\ EntriesOf(g[k]) = EntriesOf(g[k - 1]) \cup EntriesOf(seqs[k])
        BY <3>1, <3>5, <4>1, <1>0, Concatenated
      <4>3. EntriesOf(g[k]) = Upto(k) /\ k \in 0..n
        BY <3>3, <4>1, <4>2, <1>0
      <4> QED BY <4>2, <4>3
    <3> QED BY <3>4, <3>5
  <2>5. n \in T
    <3>1. n \in 0..n
      BY <1>0
    <3> HIDE DEF T, n
    <3> QED BY <1>0, <2>3, <2>4, <3>1, Induction
  <2> QED BY <1>0, <2>5
<1> QED BY <1>1, <1>2
=============================================================================
