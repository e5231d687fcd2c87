-------------------------- MODULE CompileTimeProofs --------------------------
(***************************************************************************)
(* Proofs about what is decided at compile time, for every input: that the *)
(* merge of assert_no_intersection finds what two lists of names share     *)
(* (NoIntersection), for any number of lists of any length; and what the   *)
(* macros make of an item and leave of it (Expansion), for any item.       *)
(*                                                                         *)
(* Of Expansion: ExpansionIInv says that, as long as no error is reported, *)
(* there is a number n of macros that are done such that the item is the   *)
(* one written without these, without attributes if one of them removes    *)
(* them; the running macro has read a prefix of the attributes of the item *)
(* and its methods, and what it holds is what that prefix says; and what   *)
(* was generated is right for the item as written.                         *)
(***************************************************************************)
EXTENDS NoIntersection, Expansion, NaturalLemmas

\* What the scan knows of the lists it has passed.
BestOf(S) ==
  (\E k \in S : IsOngoing(k))
    => /\ IsOngoing(output_index)
       /\ \A k \in S : IsOngoing(k) => Current(output_index) <= Current(k)

ScanInv == pc = "scan" => /\ i < N
                          /\ \E k \in Index : IsOngoing(k)
                          /\ BestOf(0..i-1)

EndInv == /\ pc = "pass" => ShouldEnd
          /\ pc = "panic" => Collision

IInv == TypeOK /\ ScanInv /\ PicksSmallest /\ MergeOrder /\ ConsumedDisjoint /\ EndInv

-----------------------------------------------------------------------------
\* An ongoing or finished list points at one of its names.
LEMMA CurrentInList ==
  ASSUME TypeOK, NEW k \in Index, states[k].kind # "Empty"
  PROVE  /\ states[k].wi + 1 \in DOMAIN msgs[k]
         /\ Current(k) \in Nat
         /\ msgs[k] \in Seq(Nat)
         /\ Len(msgs[k]) \in Nat
         /\ states[k].wi \in Nat
<1>1. msgs[k] \in Seq(Nat) /\ states[k].wi \in Nat /\ states[k].wi < Len(msgs[k])
  BY ListsAssumption DEF TypeOK
<1>2. Len(msgs[k]) \in Nat /\ DOMAIN msgs[k] = 1..Len(msgs[k])
  BY <1>1
<1>3. states[k].wi + 1 \in DOMAIN msgs[k]
  BY <1>1, <1>2
<1>4. msgs[k][states[k].wi + 1] \in Nat
  BY <1>1, <1>3
<1> QED BY <1>1, <1>2, <1>3, <1>4 DEF Current

\* The names a list has consumed are positions of it.
LEMMA ConsumedInList ==
  ASSUME TypeOK, NEW k \in Index, NEW p \in Consumed(k)
  PROVE  /\ p \in DOMAIN msgs[k]
         /\ msgs[k][p] \in Nat
<1>1. p \in DOMAIN msgs[k] /\ states[k].kind # "Empty"
  BY DEF Consumed, TypeOK
<1>2. QED
  BY <1>1, CurrentInList

\* What advancing the picked list changes: one more name of it is consumed, its
\* new current name is not smaller, and the other lists stay where they are.
LEMMA AdvanceMoves ==
  ASSUME TypeOK, PicksSmallest, Advance,
         NEW o, o = output_index
  PROVE  /\ o \in Index /\ IsOngoing(o)
         /\ Consumed(o)' = Consumed(o) \cup {states[o].wi + 1}
         /\ IsOngoing(o)' => Current(o)' \in Nat /\ Current(o) <= Current(o)'
         /\ \A k \in Index \ {o} : /\ IsOngoing(k)' = IsOngoing(k)
                                   /\ Current(k)' = Current(k)
                                   /\ Consumed(k)' = Consumed(k)
<1>1. o \in Index /\ IsOngoing(o)
  BY DEF PicksSmallest, Advance, TypeOK
<1>2. states[o] \in [kind : {"Ongoing", "Finished", "Empty"}, wi : Nat]
  BY <1>1 DEF TypeOK
<1>3. /\ msgs' = msgs
      /\ states' = [states EXCEPT ![o] = Advanced(o)]
      /\ states'[o] = Advanced(o)
      /\ \A k \in Index \ {o} : states'[k] = states[k]
  BY <1>1 DEF Advance, TypeOK
<1>4. /\ states[o].wi \in Nat /\ Len(msgs[o]) \in Nat /\ msgs[o] \in Seq(Nat)
      /\ states[o].wi + 1 \in DOMAIN msgs[o]
  BY <1>1, CurrentInList DEF IsOngoing
<1>5. CASE Len(msgs[o]) = states[o].wi + 1
  <2>1. states'[o] = Finished(states[o].wi) /\ ~IsOngoing(o)'
    BY <1>3, <1>5 DEF Advanced, Finished, IsOngoing
  <2>2. Consumed(o)' = DOMAIN msgs[o]
    BY <2>1, <1>3 DEF Consumed, Finished
  <2>3. Consumed(o) \cup {states[o].wi + 1} = DOMAIN msgs[o]
    BY <1>1, <1>4, <1>5 DEF Consumed, IsOngoing
  <2>4. QED
    BY <1>1, <1>3, <2>1, <2>2, <2>3 DEF IsOngoing, Current, Consumed
<1>6. CASE Len(msgs[o]) # states[o].wi + 1
  <2>1. states'[o] = Ongoing(states[o].wi + 1) /\ IsOngoing(o)'
    BY <1>3, <1>6 DEF Advanced, Ongoing, IsOngoing
  <2>2. states'[o].kind = "Ongoing" /\ states'[o].wi = states[o].wi + 1
    BY <2>1 DEF Ongoing
  <2>3. states[o].wi + 2 \in DOMAIN msgs[o]
    BY <1>4, <1>6, SMTT(30)
  <2>4. Consumed(o)' = Consumed(o) \cup {states[o].wi + 1}
    BY <1>1, <1>3, <1>4, <2>2, SMTT(30) DEF Consumed, IsOngoing
  <2>5. Current(o)' = msgs[o][states[o].wi + 2]
    BY <1>3, <1>4, <2>2, SMTT(30) DEF Current
  <2>6. Sorted(msgs[o])
    BY <1>1, ListsAssumption DEF TypeOK
  <2>7. /\ msgs[o][states[o].wi + 1] <= msgs[o][states[o].wi + 2]
        /\ msgs[o][states[o].wi + 2] \in Nat
    <3>1. \A p, q \in DOMAIN msgs[o] : p <= q => msgs[o][p] <= msgs[o][q]
      BY <2>6 DEF Sorted
    <3>2. states[o].wi + 1 <= states[o].wi + 2
      BY <1>4
    <3>3. msgs[o][states[o].wi + 1] <= msgs[o][states[o].wi + 2]
      BY <1>4, <2>3, <3>1, <3>2
    <3>4. msgs[o][states[o].wi + 2] \in Nat
      <4> DEFINE l == msgs[o]
                 j == states[o].wi + 2
      <4>1. l \in Seq(Nat) /\ j \in DOMAIN l
        BY <1>4, <2>3
      <4> HIDE DEF l, j
      <4>2. l[j] \in Nat
        BY <4>1
      <4> QED BY <4>2 DEF l, j
    <3>5. QED
      BY <3>3, <3>4
  <2>8. Current(o) <= Current(o)' /\ Current(o)' \in Nat
    BY <2>5, <2>7 DEF Current
  <2>9. QED
    BY <1>1, <1>3, <2>4, <2>8 DEF IsOngoing, Current, Consumed
<1>7. QED
  BY <1>5, <1>6
-----------------------------------------------------------------------------
\* The invariant of the merge holds of the lists passed to it, ...
LEMMA InitIInv == Init => IInv
<1> SUFFICES ASSUME Init PROVE IInv
  OBVIOUS
<1>1. msgs \in [Index -> Lists]
  BY DEF Init
<1>2. \A k \in Index : msgs[k] \in Seq(Nat)
  BY <1>1, ListsAssumption
<1>3. \A k \in Index : states[k] = IF msgs[k] = <<>> THEN Empty ELSE Ongoing(0)
  BY DEF Init, InitStates
<1>4. TypeOK
  <2>1. states \in [Index -> [kind : {"Ongoing", "Finished", "Empty"}, wi : Nat]]
    BY DEF Init, InitStates, Empty, Ongoing
  <2>2. \A k \in Index : IF states[k].kind = "Empty" THEN msgs[k] = <<>>
                                                     ELSE states[k].wi < Len(msgs[k])
    BY <1>2, <1>3 DEF Empty, Ongoing
  <2>3. i \in 0..N /\ output_index \in Index
    BY NAssumption DEF Init, Index
  <2>4. QED
    BY <1>1, <2>1, <2>2, <2>3 DEF Init, TypeOK
<1>5. \A k \in Index : Consumed(k) = {}
  <2> SUFFICES ASSUME NEW k \in Index PROVE Consumed(k) = {}
    OBVIOUS
  <2>1. states[k].kind # "Finished" /\ (states[k].kind = "Ongoing" => states[k].wi = 0)
    BY <1>3 DEF Empty, Ongoing
  <2>2. DOMAIN msgs[k] = 1..Len(msgs[k])
    BY <1>2
  <2>3. QED
    BY <2>1, <2>2 DEF Consumed
<1>6. QED
  BY <1>4, <1>5 DEF Init, IInv, ScanInv, PicksSmallest, MergeOrder, ConsumedDisjoint, EndInv

\* ... and each step of it preserves the invariant.
LEMMA LoopTestIInv == IInv /\ LoopTest => IInv'
<1> SUFFICES ASSUME IInv, LoopTest PROVE IInv'
  OBVIOUS
<1>1. TypeOK'
  BY NAssumption DEF IInv, TypeOK, LoopTest, Index
<1>2. ScanInv'
  <2>1. pc' = "scan" => \E k \in Index : IsOngoing(k)
    BY NAssumption DEF LoopTest, ShouldEnd, Index
  <2>2. 0..(i' - 1) = {}
    BY DEF LoopTest
  <2>3. QED
    BY <2>1, <2>2, NAssumption DEF LoopTest, ScanInv, BestOf, IsOngoing, Index
<1>3. QED
  BY <1>1, <1>2 DEF IInv, LoopTest, PicksSmallest, MergeOrder, ConsumedDisjoint, EndInv,
                    IsOngoing, Current, Consumed, ShouldEnd

LEMMA ScanIInv == IInv /\ Scan => IInv'
<1> SUFFICES ASSUME IInv, Scan PROVE IInv'
  OBVIOUS
<1>1. i \in Index /\ i \in Nat /\ i < N /\ output_index \in Index
  BY NAssumption DEF IInv, TypeOK, ScanInv, Scan, Index
<1>2. TypeOK'
  BY <1>1, NAssumption DEF IInv, TypeOK, Scan, Index
<1>3. \A k \in Index : /\ IsOngoing(k)' = IsOngoing(k)
                       /\ Current(k)' = Current(k)
                       /\ Consumed(k)' = Consumed(k)
  BY DEF Scan, IsOngoing, Current, Consumed
<1>4. \A k \in Index : IsOngoing(k) => Current(k) \in Nat
  BY CurrentInList DEF IInv, IsOngoing
<1>5. output_index' \in Index
  BY <1>1 DEF Scan
<1>6. (\E k \in 0..i : IsOngoing(k))
        => /\ IsOngoing(output_index')
           /\ \A k \in 0..i : IsOngoing(k) => Current(output_index') <= Current(k)
  <2>1. BestOf(0..i-1)
    BY DEF IInv, ScanInv, Scan
  <2>2. 0..i = (0..i-1) \cup {i} /\ \A k \in 0..i : k \in Index
    BY <1>1, NAssumption DEF Index
  <2>3. CASE output_index' = i /\ IsOngoing(i)
    BY <1>1, <1>4, <2>1, <2>2, <2>3 DEF Scan, BestOf
  <2>4. CASE output_index' = output_index /\ ~(IsOngoing(i) /\ output_index # i)
    BY <1>1, <1>4, <2>1, <2>2, <2>4 DEF Scan, BestOf
  <2>5. CASE /\ output_index' = output_index
             /\ IsOngoing(i)
             /\ IsOngoing(output_index)
             /\ ~(Current(output_index) > Current(i))
    BY <1>1, <1>4, <2>1, <2>2, <2>5 DEF BestOf
  <2>6. QED
    BY <2>3, <2>4, <2>5 DEF Scan
<1>7. /\ i' = i + 1 /\ i' - 1 = i /\ states' = states /\ msgs' = msgs
      /\ \E k \in Index : IsOngoing(k)
  BY <1>1 DEF IInv, ScanInv, Scan
<1>8. ScanInv'
  <2>1. pc' = "scan" => i' < N
    BY <1>1, NAssumption DEF Scan
  <2>2. (\E k \in Index : IsOngoing(k))'
    BY <1>7 DEF IsOngoing
  <2>3. BestOf(0..i-1)'
    BY <1>6, <1>7 DEF BestOf, IsOngoing, Current
  <2>4. QED
    BY <2>1, <2>2, <2>3 DEF ScanInv
<1>9. PicksSmallest'
  <2>1. pc' = "verify" => 0..i = Index
    BY <1>1, NAssumption DEF Scan, Index
  <2>2. QED
    BY <1>6, <1>7, <2>1 DEF PicksSmallest, IsOngoing, Current
<1>10. MergeOrder' /\ ConsumedDisjoint'
  BY <1>3 DEF IInv, MergeOrder, ConsumedDisjoint, Scan
<1>11. QED
  BY <1>2, <1>8, <1>9, <1>10 DEF IInv, EndInv, Scan

LEMMA AdvanceIInv == IInv /\ Advance => IInv'
<1> SUFFICES ASSUME IInv, Advance PROVE IInv'
  OBVIOUS
<1>0. PICK o \in Index : o = output_index
  BY DEF IInv, TypeOK
<1>1. /\ o \in Index /\ IsOngoing(o)
      /\ Consumed(o)' = Consumed(o) \cup {states[o].wi + 1}
      /\ IsOngoing(o)' => Current(o)' \in Nat /\ Current(o) <= Current(o)'
      /\ \A k \in Index \ {o} : /\ IsOngoing(k)' = IsOngoing(k)
                                /\ Current(k)' = Current(k)
                                /\ Consumed(k)' = Consumed(k)
  BY <1>0, AdvanceMoves DEF IInv
<1>2. msgs' = msgs /\ pc' = "test"
  BY DEF Advance
<1>3. \A k \in Index : IsOngoing(k) => Current(k) \in Nat
  BY CurrentInList DEF IInv, IsOngoing
<1>4. \A k \in Index : \A p \in Consumed(k) : msgs[k][p] \in Nat
  BY ConsumedInList DEF IInv
<1>5. msgs[o][states[o].wi + 1] = Current(o)
  BY DEF Current
\* The picked name is strictly before the current name of every other list.
<1>6. \A k \in Index \ {o} : IsOngoing(k) => Current(o) < Current(k)
  <2> SUFFICES ASSUME NEW k \in Index \ {o}, IsOngoing(k) PROVE Current(o) < Current(k)
    OBVIOUS
  <2>1. Current(o) <= Current(k)
    BY <1>0 DEF IInv, PicksSmallest, Advance
  <2>2. Current(o) # Current(k)
    BY <1>0, <1>1 DEF Advance, Collision, IsOngoing
  <2>3. QED
    BY <1>1, <1>3, <2>1, <2>2
<1>7. TypeOK'
  <2>1. states[o].wi \in Nat /\ Len(msgs[o]) \in Nat /\ states[o].wi + 1 \in DOMAIN msgs[o]
        /\ msgs[o] \in Seq(Nat)
    BY <1>1, CurrentInList DEF IInv, IsOngoing
  <2>2. /\ Advanced(o) \in [kind : {"Ongoing", "Finished", "Empty"}, wi : Nat]
        /\ Advanced(o).kind # "Empty"
        /\ Advanced(o).wi < Len(msgs[o])
    BY <2>1 DEF Advanced, Finished, Ongoing
  <2>3. states' = [states EXCEPT ![o] = Advanced(o)]
    BY <1>0 DEF Advance
  <2>4. states' \in [Index -> [kind : {"Ongoing", "Finished", "Empty"}, wi : Nat]]
    BY <2>2, <2>3 DEF IInv, TypeOK
  <2>5. \A k \in Index : IF states'[k].kind = "Empty" THEN msgs'[k] = <<>>
                                                      ELSE states'[k].wi < Len(msgs'[k])
    BY <1>1, <1>2, <2>2, <2>3 DEF IInv, TypeOK
  <2>6. QED
    BY <1>2, <2>4, <2>5 DEF IInv, TypeOK, Advance
<1>8. MergeOrder'
  <2> SUFFICES ASSUME NEW j \in Index, NEW k \in Index, j # k, IsOngoing(k)',
                      NEW p \in Consumed(j)'
               PROVE  msgs[j][p] < Current(k)'
    BY <1>2 DEF MergeOrder
  <2>1. CASE k = o
    <3>1. IsOngoing(o)' /\ Current(o) <= Current(o)' /\ Current(o)' \in Nat
      BY <1>1, <2>1
    <3>2. p \in Consumed(j)
      BY <1>1, <2>1
    <3>3. msgs[j][p] < Current(o)
      BY <1>1, <3>2, <2>1 DEF IInv, MergeOrder
    <3>4. QED
      BY <1>1, <1>3, <1>4, <2>1, <3>1, <3>2, <3>3
  <2>2. CASE k # o /\ j # o
    BY <1>1, <2>2 DEF IInv, MergeOrder
  <2>3. CASE k # o /\ j = o
    <3>1. IsOngoing(k) /\ Current(k)' = Current(k)
      BY <1>1, <2>3
    <3>2. CASE p \in Consumed(o)
      BY <1>1, <2>3, <3>1, <3>2 DEF IInv, MergeOrder
    <3>3. CASE p = states[o].wi + 1
      BY <1>5, <1>6, <2>3, <3>1, <3>3
    <3>4. QED
      BY <1>1, <2>3, <3>2, <3>3
  <2>4. QED
    BY <2>1, <2>2, <2>3
<1>9. ConsumedDisjoint'
  \* The one new name is after everything the other lists have consumed.
  <2>1. \A k \in Index \ {o} : \A p \in Consumed(k) : msgs[k][p] < Current(o)
    BY <1>1 DEF IInv, MergeOrder
  <2>2. \A k \in Index \ {o} : \A p \in Consumed(k) : msgs[k][p] # msgs[o][states[o].wi + 1]
    BY <1>1, <1>3, <1>4, <1>5, <2>1
  <2>3. QED
    BY <1>1, <1>2, <2>2 DEF IInv, ConsumedDisjoint
<1>10. QED
  BY <1>2, <1>7, <1>8, <1>9 DEF IInv, ScanInv, PicksSmallest, EndInv

\* The invariant is inductive: one step per action.
LEMMA NextIInv == IInv /\ [Next]_vars => IInv'
<1> SUFFICES ASSUME IInv, [Next]_vars PROVE IInv'
  OBVIOUS
<1>1. CASE LoopTest
  BY <1>1, LoopTestIInv
<1>2. CASE Scan
  BY <1>2, ScanIInv
<1>3. CASE Panic
  <2>1. UNCHANGED <<msgs, states, i, output_index>> /\ pc' = "panic" /\ Collision
    BY <1>3 DEF Panic
  <2>2. output_index \in Index
    BY <2>1, <1>3 DEF IInv, TypeOK, Panic, Collision, Index, PicksSmallest
  <2>3. QED
    BY <2>1, <2>2 DEF IInv, TypeOK, ScanInv, PicksSmallest, MergeOrder, ConsumedDisjoint,
                      EndInv, IsOngoing, Current, Consumed, Collision
<1>4. CASE Advance
  BY <1>4, AdvanceIInv
<1>5. CASE UNCHANGED vars
  BY <1>5 DEF vars, IInv, TypeOK, ScanInv, BestOf, PicksSmallest, MergeOrder,
              ConsumedDisjoint, EndInv, ShouldEnd, IsOngoing, Current, Consumed, Collision
<1>6. QED
  BY <1>1, <1>2, <1>3, <1>4, <1>5 DEF Next, Ended

LEMMA Invariance == Spec => []IInv
<1>1. QED
  BY InitIInv, NextIInv, PTL DEF Spec

\* No index leaves its list and the states stay well formed.
THEOREM TypeCorrect == Spec => []TypeOK
BY Invariance, PTL DEF IInv

\* The scan returns an ongoing list with the smallest current name, so the
\* unreachable!() after it cannot be reached.
THEOREM ScanCorrect == Spec => []PicksSmallest
BY Invariance, PTL DEF IInv

\* The merge visits the names in order.
THEOREM OrderCorrect == Spec => []MergeOrder
BY Invariance, PTL DEF IInv
-----------------------------------------------------------------------------
\* Once every list is exhausted nothing is left uncompared.
LEMMA PassMeansDisjoint ==
  ASSUME IInv, ShouldEnd
  PROVE  ~Verdict!Overlap
<1>1. \A k \in Index : Consumed(k) = DOMAIN msgs[k]
  <2> SUFFICES ASSUME NEW k \in Index PROVE Consumed(k) = DOMAIN msgs[k]
    OBVIOUS
  <2>1. states[k].kind \in {"Finished", "Empty"}
    BY DEF IInv, TypeOK, ShouldEnd, IsOngoing
  <2>2. states[k].kind = "Empty" => DOMAIN msgs[k] = {}
    BY DEF IInv, TypeOK
  <2>3. QED
    BY <2>1, <2>2 DEF Consumed
<1>2. QED
  BY <1>1 DEF IInv, ConsumedDisjoint, Verdict!Overlap

LEMMA CollisionIsOverlap ==
  ASSUME IInv, Collision, output_index \in Index
  PROVE  Verdict!Overlap
<1>1. PICK k \in Index \ {output_index} : /\ states[k].kind # "Empty"
                                          /\ Current(k) = Current(output_index)
  BY DEF Collision
<1>2. /\ states[k].wi + 1 \in DOMAIN msgs[k]
      /\ states[output_index].wi + 1 \in DOMAIN msgs[output_index]
  BY <1>1, CurrentInList DEF IInv, Collision, IsOngoing
<1>3. QED
  BY <1>1, <1>2 DEF Verdict!Overlap, Current

\* The detailed merge implements the one-step verdict (safety part of
\* DecidesOverlap): it never passes overlapping enums and never rejects disjoint
\* ones, for any number of enums with any sorted name lists.
THEOREM ImplementsVerdict == Spec => Verdict!SafeSpec
<1> DEFINE verdict == IF pc \in {"pass", "panic"} THEN pc ELSE "pending"
<1>1. Init => Verdict!Init
  BY DEF Init, Verdict!Init
<1>2. IInv /\ [Next]_vars => [Verdict!Decide]_<<msgs, verdict>>
  <2>1. ASSUME IInv, LoopTest, ShouldEnd PROVE Verdict!Decide
    BY <2>1, PassMeansDisjoint DEF LoopTest, Verdict!Decide
  <2>2. ASSUME IInv, Panic PROVE Verdict!Decide
    <3>1. output_index \in Index
      BY <2>2 DEF IInv, TypeOK, Panic, Collision, Index, EndInv
    <3>2. Verdict!Overlap
      BY <2>2, <3>1, CollisionIsOverlap DEF Panic
    <3> QED BY <2>2, <3>2 DEF Panic, Verdict!Decide
  <2>3. ASSUME (LoopTest /\ ~ShouldEnd) \/ Scan \/ Advance \/ UNCHANGED vars
        PROVE  UNCHANGED <<msgs, verdict>>
    BY <2>3 DEF LoopTest, Scan, Advance, vars
  <2> QED BY <2>1, <2>2, <2>3 DEF Next, Ended
<1>3. QED
  BY <1>1, <1>2, Invariance, PTL DEF Spec, Verdict!SafeSpec
-----------------------------------------------------------------------------
\* Expansion.  Selections of a sequence first.

\* The places of a selection: the n-th one has rank n, and they go up.
LEMMA Ranked ==
  ASSUME NEW top \in Nat, NEW ks, ks \subseteq 1..top
  PROVE  /\ IsFiniteSet(ks) /\ Cardinality(ks) \in Nat
         /\ \A k \in ks : Rank(ks, k) \in 1..Cardinality(ks)
         /\ \A k, l \in ks : k < l => Rank(ks, k) < Rank(ks, l)
<1> DEFINE Upto(k) == {j \in ks : j <= k}
<1>1. IsFiniteSet(ks) /\ Cardinality(ks) \in Nat
  <2>1. IsFiniteSet(1..top) /\ ks \in SUBSET (1..top)
    BY FS_Interval
  <2>2. IsFiniteSet(ks)
    BY <2>1, FS_Subset
  <2> QED BY <2>2, FS_CardinalityType
<1>2. ASSUME NEW k \in ks PROVE IsFiniteSet(Upto(k)) /\ Rank(ks, k) \in 1..Cardinality(ks)
  <2>1. Upto(k) \in SUBSET ks /\ k \in Upto(k)
    OBVIOUS
  <2> HIDE DEF Upto
  <2>2. IsFiniteSet(Upto(k)) /\ Cardinality(Upto(k)) <= Cardinality(ks)
    BY <1>1, <2>1, FS_Subset
  <2>3. Cardinality(Upto(k)) \in Nat /\ Cardinality(Upto(k)) # 0
    BY <2>1, <2>2, FS_CardinalityType, FS_EmptySet
  <2>4. Rank(ks, k) = Cardinality(Upto(k))
    BY DEF Rank, Upto
  <2> QED BY <1>1, <2>2, <2>3, <2>4
<1>3. ASSUME NEW k \in ks, NEW l \in ks, k < l PROVE Rank(ks, k) < Rank(ks, l)
  <2>1. Upto(k) \in SUBSET Upto(l) /\ l \in Upto(l) /\ l \notin Upto(k)
    <3>1. \A j \in ks : j <= k => j <= l
      BY <1>3
    <3>2. l <= l /\ ~(l <= k)
      BY <1>3
    <3> QED BY <3>1, <3>2
  <2>2. Rank(ks, k) = Cardinality(Upto(k)) /\ Rank(ks, l) = Cardinality(Upto(l))
    BY DEF Rank
  <2> HIDE DEF Upto
  <2>3. /\ Cardinality(Upto(k)) <= Cardinality(Upto(l))
        /\ Cardinality(Upto(l)) = Cardinality(Upto(k)) => Upto(l) = Upto(k)
    BY <1>2, <2>1, FS_Subset
  <2>4. Cardinality(Upto(k)) # Cardinality(Upto(l))
    BY <2>1, <2>3
  <2> QED BY <1>2, <2>2, <2>3, <2>4
<1> QED BY <1>1, <1>2, <1>3

\* The places of a selection are numbered without gaps.
LEMMA AscendingPlaces ==
  ASSUME NEW top \in Nat, NEW ks, ks \subseteq 1..top
  PROVE  /\ Cardinality(ks) \in Nat /\ DOMAIN Ascending(ks) = 1..Cardinality(ks)
         /\ \A n \in 1..Cardinality(ks) : Ascending(ks)[n] \in ks /\ Rank(ks, Ascending(ks)[n]) = n
         /\ \A k \in ks : Rank(ks, k) \in 1..Cardinality(ks) /\ Ascending(ks)[Rank(ks, k)] = k
<1> DEFINE c == Cardinality(ks)
           r == [k \in ks |-> Rank(ks, k)]
<1>1. /\ IsFiniteSet(ks) /\ c \in Nat
      /\ \A k \in ks : Rank(ks, k) \in 1..c
      /\ \A k, l \in ks : k < l => Rank(ks, k) < Rank(ks, l)
  BY Ranked
<1>2. \A k, l \in ks : Rank(ks, k) = Rank(ks, l) => k = l
  <2> SUFFICES ASSUME NEW k \in ks, NEW l \in ks, k # l PROVE Rank(ks, k) # Rank(ks, l)
    OBVIOUS
  <2>1. k < l \/ l < k
    OBVIOUS
  <2>2. Rank(ks, k) \in Nat /\ Rank(ks, l) \in Nat
    BY <1>1
  <2> HIDE DEF c
  <2> QED BY <1>1, <2>1, <2>2
<1>3. r \in Injection(ks, 1..c)
  BY <1>1, <1>2 DEF Injection, IsInjective
<1>4. IsFiniteSet(1..c) /\ Cardinality(1..c) = c
  <2> HIDE DEF c
  <2> QED BY <1>1, FS_Interval
<1>5. r \in Surjection(ks, 1..c)
  <2> HIDE DEF r
  <2> QED BY <1>3, <1>4, FS_Injection DEF c
<1>6. \A n \in 1..c : \E k \in ks : Rank(ks, k) = n
  BY <1>5 DEF Surjection
<1>7. \A n \in 1..c : Ascending(ks)[n] \in ks /\ Rank(ks, Ascending(ks)[n]) = n
  BY <1>6 DEF Ascending
<1>8. \A k \in ks : Ascending(ks)[Rank(ks, k)] = k
  BY <1>1, <1>2, <1>7
<1>9. DOMAIN Ascending(ks) = 1..c
  BY DEF Ascending
<1> QED BY <1>1, <1>7, <1>8, <1>9

\* They ascend.
LEMMA Increasing ==
  ASSUME NEW top \in Nat, NEW ks, ks \subseteq 1..top,
         NEW m \in 1..Cardinality(ks), NEW n \in 1..Cardinality(ks), m < n
  PROVE  Ascending(ks)[m] < Ascending(ks)[n]
<1> DEFINE a == Ascending(ks)[m]
           b == Ascending(ks)[n]
<1>1. a \in ks /\ b \in ks /\ Rank(ks, a) = m /\ Rank(ks, b) = n
  BY AscendingPlaces
<1>2. b < a => Rank(ks, b) < Rank(ks, a)
  BY <1>1, Ranked
<1>3. a \in Nat /\ b \in Nat /\ m \in Nat /\ n \in Nat
  <2>1. Cardinality(ks) \in Nat
    BY Ranked
  <2> HIDE DEF a, b
  <2> QED BY <1>1, <2>1
<1> HIDE DEF a, b
<1>4. a < b
  BY <1>1, <1>2, <1>3
<1> QED BY <1>4 DEF a, b

\* A place behind all others comes last.
LEMMA OneMore ==
  ASSUME NEW m \in Nat \ {0}, NEW ks, ks \subseteq 1..m - 1
  PROVE  /\ Cardinality(ks) \in Nat /\ Cardinality(ks \cup {m}) = Cardinality(ks) + 1
         /\ \A n \in 1..Cardinality(ks) : Ascending(ks \cup {m})[n] = Ascending(ks)[n]
         /\ Ascending(ks \cup {m})[Cardinality(ks) + 1] = m
<1> DEFINE c == Cardinality(ks)
           more == ks \cup {m}
<1>1. ks \subseteq 1..m /\ more \subseteq 1..m /\ m \notin ks /\ m - 1 \in Nat
  OBVIOUS
<1>2. IsFiniteSet(ks) /\ c \in Nat
  BY <1>1, Ranked
<1>3. Cardinality(more) = c + 1
  BY <1>1, <1>2, FS_AddElement
<1>4. ASSUME NEW k \in ks PROVE Rank(more, k) = Rank(ks, k)
  <2>1. ~(m <= k)
    BY <1>1
  <2>2. {j \in more : j <= k} = {j \in ks : j <= k}
    BY <2>1
  <2> QED BY <2>2 DEF Rank
<1>5. Rank(more, m) = c + 1
  <2>1. \A j \in more : j <= m
    BY <1>1
  <2>2. {j \in more : j <= m} = more
    BY <2>1
  <2> QED BY <1>3, <2>2 DEF Rank
<1>6. \A k \in more : Ascending(more)[Rank(more, k)] = k
  <2> HIDE DEF more
  <2> QED BY <1>1, AscendingPlaces
<1>7. ASSUME NEW n \in 1..c PROVE Ascending(more)[n] = Ascending(ks)[n]
  <2>1. Ascending(ks)[n] \in ks /\ Rank(ks, Ascending(ks)[n]) = n
    BY <1>1, AscendingPlaces
  <2> QED BY <1>4, <1>6, <2>1
<1>8. Ascending(more)[c + 1] = m
  BY <1>5, <1>6
<1> QED BY <1>2, <1>3, <1>7, <1>8

\* No place.
LEMMA NoPlace == Cardinality({}) = 0 /\ Ascending({}) = <<>>
BY FS_EmptySet DEF Ascending

\* One place.
LEMMA OnePlace ==
  ASSUME NEW s, NEW k \in Nat \ {0}
  PROVE  Cardinality({k}) = 1 /\ Ascending({k}) = <<k>> /\ Selected(s, {k}) = <<s[k]>>
<1>1. Cardinality({k}) = 1 /\ Ascending({k})[1] = k
  <2>1. {} \cup {k} = {k} /\ Cardinality({}) = 0 /\ {} \subseteq 1..k - 1
    BY NoPlace
  <2>2. Cardinality({} \cup {k}) = 0 + 1 /\ Ascending({} \cup {k})[0 + 1] = k
    BY <2>1, OneMore
  <2> QED BY <2>1, <2>2
<1>2. Ascending({k}) = <<k>>
  <2>1. Ascending({k}) = [n \in 1..1 |-> Ascending({k})[n]]
    <3> DEFINE one == {k}
    <3>1. Ascending(one) = [n \in 1..Cardinality(one) |-> Ascending(one)[n]]
      <4> HIDE DEF one
      <4> QED BY DEF Ascending
    <3> QED BY <1>1, <3>1
  <2>2. \A n \in 1..1 : Ascending({k})[n] = k
    BY <1>1
  <2>3. Ascending({k}) = [n \in 1..1 |-> k]
    BY <2>1, <2>2
  <2>4. [n \in 1..1 |-> k] = <<k>>
    OBVIOUS
  <2> QED BY <2>3, <2>4
<1>3. Selected(s, {k}) = <<s[k]>>
  BY <1>1, <1>2 DEF Selected
<1> QED BY <1>1, <1>2, <1>3

\* All places of an interval.
LEMMA AllPlaces ==
  ASSUME NEW a \in Nat, NEW b \in Nat, a <= b
  PROVE  /\ Cardinality(a + 1..b) = b - a
         /\ \A n \in 1..b - a : Ascending(a + 1..b)[n] = a + n
<1> DEFINE ks == a + 1..b
<1>1. ks \subseteq 1..b
  OBVIOUS
<1>2. Cardinality(ks) = b - a
  <2>1. a + 1 \in Int /\ b \in Int
    OBVIOUS
  <2>2. Cardinality(ks) = IF a + 1 > b THEN 0 ELSE b - (a + 1) + 1
    BY <2>1, FS_Interval
  <2> QED BY <2>2
<1>3. ASSUME NEW n \in 1..b - a PROVE Ascending(ks)[n] = a + n
  <2>1. a + n \in ks /\ a + n \in Int /\ a + 1 \in Int
    OBVIOUS
  <2>2. {j \in ks : j <= a + n} = a + 1..a + n
    BY <2>1
  <2>3. Cardinality(a + 1..a + n) = n
    BY <2>1, FS_Interval
  <2>4. Rank(ks, a + n) = n
    BY <2>2, <2>3 DEF Rank
  <2> HIDE DEF ks
  <2> QED BY <1>1, <2>1, <2>4, AscendingPlaces
<1> QED BY <1>2, <1>3

\* What is selected.
LEMMA SelectedEntries ==
  ASSUME NEW s, NEW top \in Nat, NEW ks, ks \subseteq 1..top
  PROVE  /\ Cardinality(ks) \in Nat /\ DOMAIN Selected(s, ks) = 1..Cardinality(ks)
         /\ Len(Selected(s, ks)) = Cardinality(ks)
         /\ ToSet(Selected(s, ks)) = {s[k] : k \in ks}
         /\ \A T : (\A k \in ks : s[k] \in T) => Selected(s, ks) \in Seq(T)
<1> DEFINE c == Cardinality(ks)
<1>1. /\ c \in Nat
      /\ \A n \in 1..c : Ascending(ks)[n] \in ks
      /\ \A k \in ks : \E n \in 1..c : Ascending(ks)[n] = k
  <2>1. c \in Nat /\ \A n \in 1..c : Ascending(ks)[n] \in ks
    BY AscendingPlaces
  <2>2. \A k \in ks : Rank(ks, k) \in 1..c /\ Ascending(ks)[Rank(ks, k)] = k
    BY AscendingPlaces
  <2> QED BY <2>1, <2>2
<1>2. DOMAIN Selected(s, ks) = 1..c /\ \A n \in 1..c : Selected(s, ks)[n] = s[Ascending(ks)[n]]
  BY DEF Selected
<1> HIDE DEF c
<1>3. ToSet(Selected(s, ks)) = {s[k] : k \in ks}
  <2>1. \A n \in 1..c : \E k \in ks : Selected(s, ks)[n] = s[k]
    BY <1>1, <1>2
  <2>2. \A k \in ks : \E n \in 1..c : Selected(s, ks)[n] = s[k]
    BY <1>1, <1>2
  <2>3. ToSet(Selected(s, ks)) = {Selected(s, ks)[n] : n \in 1..c}
    BY <1>2 DEF ToSet
  <2> QED BY <2>1, <2>2, <2>3
<1>4. ASSUME NEW T, \A k \in ks : s[k] \in T PROVE Selected(s, ks) \in Seq(T)
  <2>1. Selected(s, ks) = [n \in 1..c |-> s[Ascending(ks)[n]]]
    BY DEF Selected, c
  <2>2. \A n \in 1..c : s[Ascending(ks)[n]] \in T
    BY <1>1, <1>4
  <2> QED BY <1>1, <2>1, <2>2
<1>5. Len(Selected(s, ks)) = c
  <2>1. Selected(s, ks) = [n \in 1..c |-> s[Ascending(ks)[n]]]
    BY DEF Selected, c
  <2> QED BY <1>1, <2>1
<1> QED BY <1>1, <1>2, <1>3, <1>4, <1>5 DEF c

\* A sequence all of which is selected.
LEMMA SelectedAll ==
  ASSUME NEW T, NEW s \in Seq(T)
  PROVE  Selected(s, DOMAIN s) = s
<1> DEFINE n == Len(s)
<1>1. n \in Nat /\ DOMAIN s = 1..n /\ s = [k \in 1..n |-> s[k]]
  OBVIOUS
<1>2. 0 + 1..n = 1..n /\ n - 0 = n
  BY <1>1
<1>3. Cardinality(1..n) = n /\ \A k \in 1..n : Ascending(1..n)[k] = k
  <2>1. Cardinality(0 + 1..n) = n - 0 /\ \A k \in 1..n - 0 : Ascending(0 + 1..n)[k] = 0 + k
    <3> HIDE DEF n
    <3> QED BY <1>1, AllPlaces
  <2> QED BY <1>1, <1>2, <2>1
<1> HIDE DEF n
<1> QED BY <1>1, <1>3 DEF Selected
-----------------------------------------------------------------------------
\* What has been made of the first p attributes of attrs.
Counted(attrs, p, name) == {n \in 1..p : Counts(attrs[n], name)}
Names == Single \cup Listed \cup Replaced

SingleRead(q, attrs, p, name) ==
  \/ Counted(attrs, p, name) = {} /\ q[name] = <<>>
  \/ \E n \in 1..p : Counted(attrs, p, name) = {n} /\ q[name] = <<Value(attrs[n])>>
ListedRead(q, attrs, p, name) == q[name] = Values(Selected(attrs, Counted(attrs, p, name)))
ReplacedRead(q, attrs, p, name) ==
  \/ Counted(attrs, p, name) = {} /\ q[name] = <<>>
  \/ \E n \in Counted(attrs, p, name) : /\ \A m \in Counted(attrs, p, name) : m <= n
                                        /\ q[name] = <<Value(attrs[n])>>
HasRead(q, attrs, p) ==
  /\ DOMAIN q = Names
  /\ \A name \in Single : SingleRead(q, attrs, p, name)
  /\ \A name \in Listed : ListedRead(q, attrs, p, name)
  /\ \A name \in Replaced : ReplacedRead(q, attrs, p, name)

\* Before the first attribute nothing is read.
LEMMA NothingRead == ASSUME NEW attrs PROVE HasRead(Nothing, attrs, 0)
<1>1. \A name : Counted(attrs, 0, name) = {}
  BY DEF Counted
<1>2. DOMAIN Nothing = Names /\ \A name \in Names : Nothing[name] = <<>>
  BY DEF Nothing, Names
<1>3. \A name : Values(Selected(attrs, Counted(attrs, 0, name))) = <<>>
  <2>1. Selected(attrs, {}) = <<>>
    BY NoPlace DEF Selected
  <2>2. Values(<<>>) = <<>>
    BY DEF Values
  <2> QED BY <1>1, <2>1, <2>2
<1> QED BY <1>1, <1>2, <1>3 DEF HasRead, Names, SingleRead, ListedRead, ReplacedRead

\* One attribute more: it counts for its own name only, if at all.
LEMMA CountedMore ==
  ASSUME NEW attrs, NEW p \in Nat, NEW name
  PROVE  Counted(attrs, p + 1, name) =
           IF Counts(attrs[p + 1], name) THEN Counted(attrs, p, name) \cup {p + 1} ELSE Counted(attrs, p, name)
<1>1. \A n : n \in 1..p + 1 <=> n \in 1..p \/ n = p + 1
  OBVIOUS
<1> QED BY <1>1 DEF Counted

\* A name for which the next attribute does not count keeps its values, ...
LEMMA OthersRead ==
  ASSUME NEW attrs, NEW p \in Nat, NEW q, NEW r, NEW name, r[name] = q[name], ~Counts(attrs[p + 1], name)
  PROVE  /\ SingleRead(q, attrs, p, name) => SingleRead(r, attrs, p + 1, name)
         /\ ListedRead(q, attrs, p, name) => ListedRead(r, attrs, p + 1, name)
         /\ ReplacedRead(q, attrs, p, name) => ReplacedRead(r, attrs, p + 1, name)
<1>1. Counted(attrs, p + 1, name) = Counted(attrs, p, name)
  BY CountedMore
<1>2. \A n \in 1..p : n \in 1..p + 1
  OBVIOUS
<1> QED BY <1>1, <1>2 DEF SingleRead, ListedRead, ReplacedRead

\* ... a list has one value more at its end, ...
LEMMA ListedMore ==
  ASSUME NEW attrs, NEW p \in Nat, NEW q, NEW r, NEW name, ListedRead(q, attrs, p, name),
         Counts(attrs[p + 1], name), r[name] = Append(q[name], Value(attrs[p + 1]))
  PROVE  ListedRead(r, attrs, p + 1, name)
<1> DEFINE ks == Counted(attrs, p, name)
           c == Cardinality(ks)
           more == ks \cup {p + 1}
<1>1. Counted(attrs, p + 1, name) = more /\ ks \subseteq 1..p
  BY CountedMore DEF Counted
<1>2. /\ c \in Nat /\ Cardinality(more) = c + 1
      /\ \A n \in 1..c : Ascending(more)[n] = Ascending(ks)[n]
      /\ Ascending(more)[c + 1] = p + 1
  <2> DEFINE m == p + 1
  <2>1. m \in Nat \ {0} /\ ks \subseteq 1..m - 1 /\ more = ks \cup {m}
    BY <1>1
  <2> HIDE DEF ks, m, more
  <2>2. /\ Cardinality(ks) \in Nat /\ Cardinality(ks \cup {m}) = Cardinality(ks) + 1
        /\ \A n \in 1..Cardinality(ks) : Ascending(ks \cup {m})[n] = Ascending(ks)[n]
        /\ Ascending(ks \cup {m})[Cardinality(ks) + 1] = m
    BY <2>1, OneMore
  <2> QED BY <2>1, <2>2 DEF m
<1>3. \A set : Values(Selected(attrs, set)) = [n \in 1..Cardinality(set) |-> Value(attrs[Ascending(set)[n]])]
  BY DEF Values, Selected
<1> HIDE DEF ks, c, more
<1> DEFINE f == [n \in 1..c |-> Value(attrs[Ascending(ks)[n]])]
           g == [n \in 1..c + 1 |-> Value(attrs[Ascending(more)[n]])]
<1>4. q[name] = f
  BY <1>3 DEF ListedRead, ks, c
<1>5. Values(Selected(attrs, more)) = g
  BY <1>2, <1>3
<1>6. g = Append(f, Value(attrs[p + 1]))
  <2>1. \A n \in 1..c : g[n] = f[n]
    BY <1>2
  <2>2. g[c + 1] = Value(attrs[p + 1])
    BY <1>2
  <2>3. DOMAIN f = 1..c /\ Len(f) = c /\ f = [n \in 1..c |-> f[n]]
    BY <1>2
  <2>4. g = [n \in 1..c + 1 |-> g[n]]
    OBVIOUS
  <2> HIDE DEF f, g
  <2>5. Append(f, Value(attrs[p + 1])) = [n \in 1..c + 1 |-> IF n = c + 1 THEN Value(attrs[p + 1]) ELSE f[n]]
    BY <1>2, <2>3
  <2>6. \A n \in 1..c + 1 : g[n] = IF n = c + 1 THEN Value(attrs[p + 1]) ELSE f[n]
    <3>1. \A n \in 1..c + 1 : n = c + 1 \/ n \in 1..c
      BY <1>2
    <3>2. \A n \in 1..c : n # c + 1
      BY <1>2
    <3> QED BY <2>1, <2>2, <3>1, <3>2
  <2> QED BY <2>4, <2>5, <2>6
<1> QED BY <1>1, <1>4, <1>5, <1>6 DEF ListedRead

\* ... what there can be one of has its first value, ...
LEMMA SingleMore ==
  ASSUME NEW attrs, NEW p \in Nat, NEW q, NEW r, NEW name, SingleRead(q, attrs, p, name),
         Counts(attrs[p + 1], name), q[name] = <<>>, r[name] = <<Value(attrs[p + 1])>>
  PROVE  SingleRead(r, attrs, p + 1, name)
<1>1. Counted(attrs, p, name) = {}
  BY DEF SingleRead
<1>2. Counted(attrs, p + 1, name) = {p + 1}
  BY <1>1, CountedMore
<1>3. p + 1 \in 1..p + 1
  OBVIOUS
<1> QED BY <1>2, <1>3 DEF SingleRead

\* ... and of the rest the last attribute counts.
LEMMA ReplacedMore ==
  ASSUME NEW attrs, NEW p \in Nat, NEW r, NEW name,
         Counts(attrs[p + 1], name), r[name] = <<Value(attrs[p + 1])>>
  PROVE  ReplacedRead(r, attrs, p + 1, name)
<1>1. Counted(attrs, p + 1, name) = Counted(attrs, p, name) \cup {p + 1} /\ Counted(attrs, p, name) \subseteq 1..p
  BY CountedMore DEF Counted
<1>2. \A m \in Counted(attrs, p + 1, name) : m <= p + 1
  BY <1>1
<1> QED BY <1>1, <1>2 DEF ReplacedRead

\* One attribute more, of which no error is reported, is read.
LEMMA OneMoreRead ==
  ASSUME NEW attrs, NEW p \in Nat, NEW q, HasRead(q, attrs, p)
  PROVE  /\ IsSylvia(attrs[p + 1]) /\ attrs[p + 1].list /\ MatchErrors(q, attrs[p + 1]) = {}
              => HasRead(Matched(q, attrs[p + 1]), attrs, p + 1)
         /\ IsSylvia(attrs[p + 1]) /\ ~attrs[p + 1].list /\ attrs[p + 1].args = <<>>
              => HasRead(Bare(q, attrs[p + 1]), attrs, p + 1)
         /\ ~IsSylvia(attrs[p + 1]) => HasRead(q, attrs, p + 1)
<1> DEFINE a == attrs[p + 1]
<1>0. /\ DOMAIN q = Names
      /\ \A name \in Single : SingleRead(q, attrs, p, name)
      /\ \A name \in Listed : ListedRead(q, attrs, p, name)
      /\ \A name \in Replaced : ReplacedRead(q, attrs, p, name)
  BY DEF HasRead
<1>1. ASSUME NEW r, DOMAIN r = Names, \A name \in Names : Counts(a, name) \/ r[name] = q[name],
             \A name \in Single : Counts(a, name) => q[name] = <<>> /\ r[name] = <<Value(a)>>,
             \A name \in Listed : Counts(a, name) => r[name] = Append(q[name], Value(a)),
             \A name \in Replaced : Counts(a, name) => r[name] = <<Value(a)>>
      PROVE  HasRead(r, attrs, p + 1)
  <2>1. ASSUME NEW name \in Single PROVE SingleRead(r, attrs, p + 1, name)
    <3>1. CASE Counts(a, name)
      BY <1>0, <1>1, <3>1, SingleMore
    <3>2. CASE ~Counts(a, name)
      BY <1>0, <1>1, <3>2, OthersRead DEF Names
    <3> QED BY <3>1, <3>2
  <2>2. ASSUME NEW name \in Listed PROVE ListedRead(r, attrs, p + 1, name)
    <3>1. CASE Counts(a, name)
      BY <1>0, <1>1, <3>1, ListedMore
    <3>2. CASE ~Counts(a, name)
      BY <1>0, <1>1, <3>2, OthersRead DEF Names
    <3> QED BY <3>1, <3>2
  <2>3. ASSUME NEW name \in Replaced PROVE ReplacedRead(r, attrs, p + 1, name)
    <3>1. CASE Counts(a, name)
      BY <1>0, <1>1, <3>1, ReplacedMore
    <3>2. CASE ~Counts(a, name)
      BY <1>0, <1>1, <3>2, OthersRead DEF Names
    <3> QED BY <3>1, <3>2
  <2> QED BY <1>1, <2>1, <2>2, <2>3 DEF HasRead
<1> HIDE DEF a
<1>2. ASSUME IsSylvia(a), a.list, MatchErrors(q, a) = {} PROVE HasRead(Matched(q, a), attrs, p + 1)
  <2>1. Parses(a) /\ ~Redefines(q, a)
    BY <1>2 DEF MatchErrors
  <2>2. \A name : Counts(a, name) <=> name = a.name
    BY <1>2 DEF Counts
  <2>3. CASE a.name \in Single
    <3>1. SetsSingle(q, a) /\ q[a.name] = <<>>
      BY <1>2, <2>1, <2>3 DEF Redefines, SetsSingle
    <3>2. Matched(q, a) = [q EXCEPT ![a.name] = <<Value(a)>>]
      BY <2>1, <3>1 DEF Matched
    <3>3. a.name \in Names /\ a.name \notin Listed /\ a.name \notin Replaced
      BY <2>3 DEF Names, Single, Listed, Replaced
    <3> QED BY <1>0, <1>1, <2>2, <3>1, <3>2, <3>3
  <2>4. CASE a.name \in Replaced
    <3>1. a.name \in Names /\ a.name \notin Listed /\ a.name \notin Single
      BY <2>4 DEF Names, Single, Listed, Replaced
    <3>2. Matched(q, a) = [q EXCEPT ![a.name] = <<Value(a)>>]
      <4>1. SetsSingle(q, a) = FALSE
        BY <3>1 DEF SetsSingle
      <4> QED BY <2>1, <2>4, <3>1, <4>1 DEF Matched
    <3> QED BY <1>0, <1>1, <2>2, <3>1, <3>2
  <2>5. CASE a.name \in Listed
    <3>1. a.name \in Names /\ a.name \notin Replaced /\ a.name \notin Single
      BY <2>5 DEF Names, Single, Listed, Replaced
    <3>2. Matched(q, a) = [q EXCEPT ![a.name] = Append(@, Value(a))]
      BY <2>1, <2>5, <3>1 DEF Matched, SetsSingle
    <3> QED BY <1>0, <1>1, <2>2, <3>1, <3>2
  <2> QED BY <1>2, <2>3, <2>4, <2>5 DEF IsSylvia
<1>3. ASSUME IsSylvia(a), ~a.list, a.args = <<>> PROVE HasRead(Bare(q, a), attrs, p + 1)
  <2>1. \A name : Counts(a, name) <=> name = a.name /\ name = "data"
    BY <1>3 DEF Counts
  <2>2. CASE a.name = "data"
    <3>1. Value(a) = {}
      BY <1>3, <2>2 DEF Value, Words
    <3>2. Bare(q, a) = [q EXCEPT !["data"] = <<Value(a)>>]
      BY <2>2, <3>1 DEF Bare
    <3>3. "data" \in Names /\ "data" \notin Listed /\ "data" \notin Single
      BY DEF Names, Single, Listed, Replaced
    <3> DEFINE r == [q EXCEPT !["data"] = <<Value(a)>>]
    <3>4. DOMAIN r = Names /\ r["data"] = <<Value(a)>> /\ \A name \in Names : name = "data" \/ r[name] = q[name]
      BY <1>0, <3>3
    <3> HIDE DEF r
    <3>5. HasRead(r, attrs, p + 1)
      BY <1>1, <2>1, <2>2, <3>3, <3>4
    <3> QED BY <3>2, <3>5 DEF r
  <2>3. CASE a.name # "data"
    BY <1>0, <1>1, <2>1, <2>3 DEF Bare
  <2> QED BY <2>2, <2>3
<1>4. ASSUME ~IsSylvia(a) PROVE HasRead(q, attrs, p + 1)
  <2>1. \A name \in Names : ~Counts(a, name)
    BY <1>4 DEF IsSylvia, Counts, Names
  <2>2. \A name : name \in Single \/ name \in Listed \/ name \in Replaced => name \in Names
    BY DEF Names
  <2> QED BY <1>0, <1>1, <2>1, <2>2
<1> QED BY <1>2, <1>3, <1>4 DEF a

\* No attribute, no value.
LEMMA NoValues == Values(Selected(<<>>, {})) = <<>> /\ \A attrs : Values(Selected(attrs, {})) = <<>>
<1>1. \A attrs : Selected(attrs, {}) = <<>>
  BY NoPlace DEF Selected
<1>2. Values(<<>>) = <<>>
  BY DEF Values
<1> QED BY <1>1, <1>2

\* When all attributes have been read, all have had their effect.
LEMMA AllAreRead ==
  ASSUME NEW T, NEW attrs \in Seq(T), NEW q, HasRead(q, attrs, Len(attrs)), NEW name
  PROVE  /\ name \in Single \cup Listed => q[name] = All(attrs, name)
         /\ name \in Replaced =>
              q[name] = IF All(attrs, name) = <<>> THEN <<>> ELSE <<All(attrs, name)[Len(All(attrs, name))]>>
<1> DEFINE top == Len(attrs)
           ks == Counted(attrs, top, name)
           c == Cardinality(ks)
<1>1. top \in Nat /\ DOMAIN attrs = 1..top /\ ks \subseteq 1..top
  BY DEF Counted
<1>2. All(attrs, name) = Values(Selected(attrs, ks))
  BY <1>1 DEF All, Where, Counted
<1>3. ks = {} => All(attrs, name) = <<>>
  BY <1>2, NoValues
<1>4. CASE name \in Single
  <2>1. SingleRead(q, attrs, top, name) /\ name \notin Replaced
    BY <1>4 DEF HasRead, Single, Replaced
  <2>2. ASSUME NEW n \in 1..top, ks = {n} PROVE All(attrs, name) = <<Value(attrs[n])>>
    <3>1. Selected(attrs, ks) = <<attrs[n]>>
      BY <1>1, <2>2, OnePlace
    <3>2. \A v : Values(<<v>>) = <<Value(v)>>
      BY DEF Values
    <3> QED BY <1>2, <3>1, <3>2
  <2> QED BY <1>3, <2>1, <2>2 DEF SingleRead
<1>5. CASE name \in Listed
  <2>1. ListedRead(q, attrs, top, name) /\ name \notin Replaced
    BY <1>5 DEF HasRead, Listed, Replaced
  <2> QED BY <1>2, <2>1 DEF ListedRead
<1>6. CASE name \in Replaced
  <2>1. ReplacedRead(q, attrs, top, name) /\ name \notin Single /\ name \notin Listed
    BY <1>6 DEF HasRead, Single, Listed, Replaced
  <2>2. ASSUME NEW n \in ks, \A m \in ks : m <= n
        PROVE  All(attrs, name) # <<>> /\ All(attrs, name)[Len(All(attrs, name))] = Value(attrs[n])
    <3> DEFINE r == Rank(ks, n)
    <3> HIDE DEF ks
    <3>1. c \in Nat /\ r \in 1..c /\ Ascending(ks)[r] = n /\ \A m \in 1..c : Ascending(ks)[m] \in ks
      BY <1>1, AscendingPlaces
    <3>2. c \in 1..c /\ r \in 1..c /\ (r = c \/ r < c)
      BY <3>1
    <3>3. r = c
      <4>1. r < c => Ascending(ks)[r] < Ascending(ks)[c]
        <5> SUFFICES ASSUME r < c PROVE Ascending(ks)[r] < Ascending(ks)[c]
          OBVIOUS
        <5> HIDE DEF r, top
        <5> QED BY <1>1, <3>2, Increasing
      <4>2. Ascending(ks)[c] <= n /\ Ascending(ks)[c] \in Nat /\ n \in Nat
        <5> HIDE DEF top, c, r
        <5>1. Ascending(ks)[c] \in ks
          BY <3>1, <3>2
        <5>2. \A m \in ks : m \in Nat
          BY <1>1
        <5> QED BY <2>2, <5>1, <5>2
      <4> HIDE DEF r, c
      <4> QED BY <3>1, <3>2, <4>1, <4>2
    <3>4. All(attrs, name) = [m \in 1..c |-> Value(attrs[Ascending(ks)[m]])]
      BY <1>2 DEF Values, Selected
    <3>5. Len(All(attrs, name)) = c /\ c # 0 /\ c \in 1..c
      BY <3>1, <3>3, <3>4
    <3>6. All(attrs, name)[c] = Value(attrs[n])
      BY <3>1, <3>3, <3>4, <3>5
    <3>7. All(attrs, name) # <<>>
      BY <3>4, <3>5
    <3> QED BY <3>5, <3>6, <3>7
  <2> QED BY <1>3, <2>1, <2>2 DEF ReplacedRead
<1>7. name \notin Single \cup Listed \cup Replaced \/ name \in Single \/ name \in Listed \/ name \in Replaced
  OBVIOUS
<1> QED BY <1>4, <1>5, <1>6, <1>7
-----------------------------------------------------------------------------
\* What is left of a sequence.
Rest(s, n) == [k \in 1..Len(s) - n |-> s[n + k]]

\* What is left gets shorter from its front.
LEMMA Resting ==
  ASSUME NEW T, NEW s \in Seq(T), NEW n \in 0..Len(s)
  PROVE  /\ Rest(s, 0) = s
         /\ Rest(s, n) \in Seq(T) /\ Len(Rest(s, n)) = Len(s) - n
         /\ Rest(s, n) = <<>> <=> n = Len(s)
         /\ n < Len(s) => /\ Head(Rest(s, n)) = s[n + 1] /\ n + 1 \in DOMAIN s
                          /\ Tail(Rest(s, n)) = Rest(s, n + 1)
<1> DEFINE L == Len(s)
<1>1. L \in Nat /\ DOMAIN s = 1..L /\ s = [k \in 1..L |-> s[k]] /\ L - n \in Nat
  OBVIOUS
<1>2. Rest(s, 0) = s
  BY <1>1 DEF Rest
<1>3. \A k \in 1..L - n : n + k \in 1..L /\ s[n + k] \in T
  BY <1>1
<1> DEFINE r == [k \in 1..L - n |-> s[n + k]]
<1>4. r \in Seq(T) /\ Len(r) = L - n
  BY <1>1, <1>3
<1>5. Rest(s, n) = r
  BY DEF Rest
<1>6. r = <<>> <=> n = L
  BY <1>1, <1>4
<1>7. ASSUME n < L PROVE Head(r) = s[n + 1] /\ n + 1 \in DOMAIN s /\ Tail(r) = Rest(s, n + 1)
  <2>1. L - n \in Nat \ {0} /\ 1 \in 1..L - n /\ n + 1 \in 1..L
    BY <1>1, <1>7
  <2>2. Head(r) = s[n + 1]
    <3>1. r[1] = s[n + 1]
      BY <2>1
    <3>2. Head(r) = r[1]
      <4> HIDE DEF r, L
      <4> QED BY <1>4, <2>1
    <3> QED BY <3>1, <3>2
  <2>3. Tail(r) = [k \in 1..L - n - 1 |-> r[k + 1]]
    <3> DEFINE M == L - n
    <3>1. M \in Nat \ {0} /\ Len(r) = M /\ r \in Seq(T)
      BY <1>4, <2>1
    <3> HIDE DEF r, M
    <3>2. Tail(r) = [k \in 1..M - 1 |-> r[k + 1]]
      <4>1. \A t \in Seq(T) : t = [k \in 1..Len(t) |-> t[k]]
        OBVIOUS
      <4>2. Tail(r) \in Seq(T) /\ Len(Tail(r)) = M - 1 /\ \A k \in 1..M - 1 : Tail(r)[k] = r[k + 1]
        BY <3>1
      <4>3. Tail(r) = [k \in 1..M - 1 |-> Tail(r)[k]]
        BY <4>1, <4>2
      <4> QED BY <4>2, <4>3
    <3> QED BY <3>2 DEF M
  <2>4. \A k \in 1..L - n - 1 : r[k + 1] = s[n + 1 + k] /\ L - n - 1 = L - (n + 1)
    BY <1>1, <2>1, SMTT(30)
  <2>5. Rest(s, n + 1) = [k \in 1..L - (n + 1) |-> s[n + 1 + k]]
    BY DEF Rest
  <2>6. L - n - 1 = L - (n + 1)
    BY <1>1
  <2> HIDE DEF r, L
  <2> QED BY <1>1, <2>1, <2>2, <2>3, <2>4, <2>5, <2>6
<1> QED BY <1>2, <1>4, <1>5, <1>6, <1>7
-----------------------------------------------------------------------------
\* The item after the first n macros written on it.
StripsIn(src, n) == \E k \in 1..n : src.macros[k].name # "entry_points"
AttrsIn(it, k) == IF k = 0 THEN it.attrs ELSE it.methods[k].attrs
ItemFields == {"kind", "macros", "attrs", "new", "params", "assoc", "wheres", "methods"}
IsLeft(src, it, n) ==
  /\ n \in 0..Len(src.macros) /\ it.macros = Rest(src.macros, n)
  /\ DOMAIN it = ItemFields /\ it.kind = src.kind
  /\ it.params = src.params /\ it.assoc = src.assoc /\ it.wheres = src.wheres
  /\ IF StripsIn(src, n)
     THEN it.attrs = StripAttrs(src.attrs) /\ it.methods = [k \in DOMAIN src.methods |-> StripMethod(src.methods[k])]
     ELSE it.attrs = src.attrs /\ it.methods = src.methods

\* What the running macro has read of item i.
ReadIn(it, k, left, q) ==
  /\ k \in 0..Len(it.methods) /\ DOMAIN q = 1..k + 1 /\ q \in Seq(ToSet(q))
  /\ \A l \in 0..k - 1 : HasRead(q[l + 1], AttrsIn(it, l), Len(AttrsIn(it, l)))
  /\ \E p \in 0..Len(AttrsIn(it, k)) : left = Rest(AttrsIn(it, k), p) /\ HasRead(q[k + 1], AttrsIn(it, k), p)

\* What has been generated, of an item without errors.
SvFor(src, sv) ==
  /\ Once(src, sv) /\ Resolves(sv)
  /\ ~HiddenUse(src) => \A type \in DOMAIN sv.messages : StandsAlone(src, type, sv.messages[type])
ContractApi(src) ==
  EnumTypes \cup {"instantiate"} \cup {type \in {"migrate"} : \E k \in DOMAIN src.methods : Marked(src.methods[k], type)}
\* What the macros take for overridden: a query is read as instantiate.
ReadOverrides(src) ==
  {IF a.args[1][1] = "query" THEN "instantiate" ELSE a.args[1][1] :
     a \in {b \in ToSet(src.attrs) : b.name = "override_entry_point" /\ b.list}}
EntryPointsFor(src) ==
  {type \in Types : /\ type \in EnumTypes \/ \E k \in DOMAIN src.methods : Marked(src.methods[k], type)
                    /\ type \notin ReadOverrides(src)}
GeneratedFor(src, gen) ==
  /\ DOMAIN gen = {"contract", "interface", "entry_points"}
  /\ \A m \in {"contract", "interface"} : gen[m] # <<>> => SvFor(src, gen[m][1])
  /\ gen["contract"] # <<>> => DOMAIN gen["contract"][1].api = ContractApi(src)
  /\ gen["entry_points"] # <<>> => gen["entry_points"][1].entry_points = EntryPointsFor(src)

Written(src) == \E k \in DOMAIN Items : src \in Items[k]
ExpansionIInv ==
  /\ Written(source)
  /\ errors = {} => \E n \in 0..Len(source.macros) :
                      /\ IsLeft(source, item, n)
                      /\ at = -1 \/ (n < Len(source.macros) /\ ReadIn(item, at, todo, parsed))
                      /\ GeneratedFor(source, generated)

\* The assumption about what is written.
LEMMA WrittenIsItem ==
  ASSUME NEW src, Written(src)
  PROVE  /\ DOMAIN src = ItemFields /\ IsItem(src)
         /\ src.kind \in {"contract", "interface"}
         /\ src.macros \in Seq([name : {"contract", "interface", "entry_points"}, args : Seq(STRING)])
         /\ src.attrs \in Attributes /\ src.methods \in Methods
BY ItemsAssumption DEF Written, IsItem, ItemFields

\* Stripping attributes leaves some of them.
LEMMA StripsAttributes ==
  ASSUME NEW attrs \in Attributes
  PROVE  /\ StripAttrs(attrs) \in Attributes
         /\ ToSet(StripAttrs(attrs)) = {a \in ToSet(attrs) : ~IsSylvia(a)}
<1> DEFINE ks == {k \in DOMAIN attrs : ~IsSylvia(attrs[k])}
           A == [name : STRING, list : BOOLEAN, args : Seq(STRING \X STRING)]
<1>1. attrs \in Seq(A) /\ Len(attrs) \in Nat /\ DOMAIN attrs = 1..Len(attrs)
  BY DEF Attributes
<1>2. ks \subseteq 1..Len(attrs) /\ \A k \in ks : attrs[k] \in A
  <2>1. ks \subseteq DOMAIN attrs
    OBVIOUS
  <2> HIDE DEF ks, A
  <2>2. \A k \in DOMAIN attrs : attrs[k] \in A
    BY <1>1
  <2> QED BY <1>1, <2>1, <2>2
<1>3. StripAttrs(attrs) = Selected(attrs, ks)
  BY DEF StripAttrs, Where
<1>4. ToSet(Selected(attrs, ks)) = {attrs[k] : k \in ks} /\ Selected(attrs, ks) \in Seq(A)
  <2> HIDE DEF ks, A
  <2> QED BY <1>1, <1>2, SelectedEntries
<1>5. {attrs[k] : k \in ks} = {a \in ToSet(attrs) : ~IsSylvia(a)}
  BY DEF ToSet
<1> QED BY <1>3, <1>4, <1>5 DEF Attributes

\* The attributes of an item that is left: none has a value without parentheses, and
\* after a macro that strips them none is of the macros.
LEMMA AttributesLeft ==
  ASSUME NEW src, Written(src), NEW it, NEW n, IsLeft(src, it, n)
  PROVE  /\ Len(it.methods) \in Nat /\ DOMAIN it.methods = 1..Len(it.methods) /\ Len(it.methods) = Len(src.methods)
         /\ \A k \in 0..Len(it.methods) :
              /\ AttrsIn(it, k) \in Attributes
              /\ \A l \in DOMAIN AttrsIn(it, k) : AttrsIn(it, k)[l].list \/ AttrsIn(it, k)[l].args = <<>>
              /\ StripsIn(src, n) => \A l \in DOMAIN AttrsIn(it, k) : ~IsSylvia(AttrsIn(it, k)[l])
<1>1. src.attrs \in Attributes /\ src.methods \in Methods /\ IsItem(src)
  BY WrittenIsItem
<1>2. /\ Len(src.methods) \in Nat /\ DOMAIN src.methods = 1..Len(src.methods)
      /\ \A k \in DOMAIN src.methods : DOMAIN src.methods[k] = {"name", "attrs", "inputs", "ret"}
                                       /\ src.methods[k].attrs \in Attributes
  <2> DEFINE M == [name : STRING, attrs : Attributes, inputs : Inputs, ret : [alias : BOOLEAN, type : Paths]]
  <2>1. \A m \in M : DOMAIN m = {"name", "attrs", "inputs", "ret"} /\ m.attrs \in Attributes
    OBVIOUS
  <2>2. src.methods \in Seq(M)
    BY <1>1 DEF Methods
  <2> HIDE DEF M
  <2> QED BY <2>1, <2>2
<1>3. \A attrs \in {src.attrs} \cup {m.attrs : m \in ToSet(src.methods)} :
        \A a \in ToSet(attrs) : a.list \/ a.args = <<>>
  BY <1>1 DEF IsItem
<1>4. ASSUME NEW k \in 0..Len(src.methods)
      PROVE  /\ AttrsIn(src, k) \in Attributes
             /\ \A a \in ToSet(AttrsIn(src, k)) : a.list \/ a.args = <<>>
  <2>1. CASE k = 0
    BY <1>1, <1>3, <2>1 DEF AttrsIn
  <2>2. CASE k # 0
    <3>1. k \in DOMAIN src.methods /\ src.methods[k] \in ToSet(src.methods) /\ AttrsIn(src, k) = src.methods[k].attrs
      BY <1>2, <2>2 DEF ToSet, AttrsIn
    <3> QED BY <1>2, <1>3, <3>1
  <2> QED BY <2>1, <2>2
<1>5. \A attrs : \A l \in DOMAIN attrs : attrs[l] \in ToSet(attrs)
  BY DEF ToSet
<1>6. CASE ~StripsIn(src, n)
  <2>1. it.attrs = src.attrs /\ it.methods = src.methods
    BY <1>6 DEF IsLeft
  <2>2. \A k : AttrsIn(it, k) = AttrsIn(src, k)
    BY <2>1 DEF AttrsIn
  <2> QED BY <1>2, <1>4, <1>5, <1>6, <2>1, <2>2
<1>7. CASE StripsIn(src, n)
  <2>1. it.attrs = StripAttrs(src.attrs) /\ it.methods = [k \in DOMAIN src.methods |-> StripMethod(src.methods[k])]
    BY <1>7 DEF IsLeft
  <2>2. Len(it.methods) = Len(src.methods) /\ DOMAIN it.methods = 1..Len(src.methods)
    BY <1>2, <2>1
  <2>3. ASSUME NEW k \in 0..Len(src.methods) PROVE AttrsIn(it, k) = StripAttrs(AttrsIn(src, k))
    <3>1. CASE k = 0
      BY <2>1, <3>1 DEF AttrsIn
    <3>2. CASE k # 0
      <4>1. k \in DOMAIN src.methods /\ it.methods[k] = StripMethod(src.methods[k])
        BY <1>2, <2>1, <3>2
      <4>2. StripMethod(src.methods[k]).attrs = StripAttrs(src.methods[k].attrs)
        BY <1>2, <4>1 DEF StripMethod
      <4> QED BY <3>2, <4>1, <4>2 DEF AttrsIn
    <3> QED BY <3>1, <3>2
  <2>4. ASSUME NEW k \in 0..Len(src.methods)
        PROVE  /\ AttrsIn(it, k) \in Attributes
               /\ \A a \in ToSet(AttrsIn(it, k)) : ~IsSylvia(a) /\ (a.list \/ a.args = <<>>)
    BY <1>4, <2>3, StripsAttributes
  <2> QED BY <1>2, <1>5, <2>2, <2>4
<1> QED BY <1>6, <1>7
-----------------------------------------------------------------------------
\* A macro leaves the item without itself, and strips it once at most.
LEMMA HandedOn ==
  ASSUME NEW src, Written(src), NEW it, NEW n, IsLeft(src, it, n), n < Len(src.macros)
  PROVE  /\ it.macros # <<>> /\ Head(it.macros) = src.macros[n + 1] /\ n + 1 \in 0..Len(src.macros)
         /\ n + 1 \in DOMAIN src.macros
         /\ src.macros[n + 1].name = "entry_points" => IsLeft(src, [it EXCEPT !.macros = Tail(@)], n + 1)
         /\ src.macros[n + 1].name # "entry_points" =>
              ~StripsIn(src, n) /\ IsLeft(src, [StripInput(it) EXCEPT !.macros = Tail(@)], n + 1)
<1> DEFINE L == Len(src.macros)
           M == [name : {"contract", "interface", "entry_points"}, args : Seq(STRING)]
<1>1. src.macros \in Seq(M) /\ IsItem(src) /\ src.kind \in {"contract", "interface"}
  BY WrittenIsItem
<1>2. L \in Nat /\ n \in 0..L /\ n < L /\ DOMAIN src.macros = 1..L /\ n + 1 \in 1..L
  BY <1>1 DEF IsLeft
<1>3. it.macros # <<>> /\ Head(it.macros) = src.macros[n + 1] /\ Tail(it.macros) = Rest(src.macros, n + 1)
  <2>1. it.macros = Rest(src.macros, n)
    BY DEF IsLeft
  <2>2. n # L /\ n < L
    BY <1>2
  <2> DEFINE m == src.macros
  <2>3. m \in Seq(M) /\ n \in 0..Len(m) /\ n # Len(m) /\ n < Len(m)
    BY <1>1, <1>2, <2>2
  <2> HIDE DEF M, m
  <2>4. /\ Rest(m, n) = <<>> <=> n = Len(m)
        /\ n < Len(m) => Head(Rest(m, n)) = m[n + 1] /\ Tail(Rest(m, n)) = Rest(m, n + 1)
    BY <2>3, Resting
  <2>5. Rest(m, n) # <<>> /\ Head(Rest(m, n)) = m[n + 1] /\ Tail(Rest(m, n)) = Rest(m, n + 1)
    BY <2>3, <2>4
  <2> QED BY <2>1, <2>5 DEF m
<1>4. StripsIn(src, n + 1) <=> StripsIn(src, n) \/ src.macros[n + 1].name # "entry_points"
  <2>1. \A k : k \in 1..n + 1 <=> k \in 1..n \/ k = n + 1
    BY <1>2
  <2> QED BY <2>1 DEF StripsIn
<1>5. DOMAIN it = ItemFields
  BY DEF IsLeft
<1>6. ASSUME src.macros[n + 1].name = "entry_points" PROVE IsLeft(src, [it EXCEPT !.macros = Tail(@)], n + 1)
  <2> DEFINE j == [it EXCEPT !.macros = Tail(@)]
  <2>1. /\ DOMAIN j = ItemFields /\ j.macros = Tail(it.macros) /\ j.kind = it.kind /\ j.params = it.params
        /\ j.assoc = it.assoc /\ j.wheres = it.wheres /\ j.attrs = it.attrs /\ j.methods = it.methods
    BY <1>5 DEF ItemFields
  <2>2. StripsIn(src, n + 1) <=> StripsIn(src, n)
    BY <1>4, <1>6
  <2>3. n + 1 \in 0..Len(src.macros)
    BY <1>2
  <2> HIDE DEF j
  <2>4. IsLeft(src, j, n + 1)
    BY <1>3, <2>1, <2>2, <2>3 DEF IsLeft
  <2> QED BY <2>4 DEF j
<1>7. ASSUME src.macros[n + 1].name # "entry_points"
      PROVE  ~StripsIn(src, n) /\ IsLeft(src, [StripInput(it) EXCEPT !.macros = Tail(@)], n + 1)
  <2>1. ~StripsIn(src, n)
    <3> SUFFICES ASSUME NEW k \in 1..n, src.macros[k].name # "entry_points" PROVE FALSE
      BY DEF StripsIn
    <3>0. k # n + 1 /\ k \in 1..L /\ L # 1
      <4>1. n \in Nat /\ k \in 1..n /\ n + 1 \in 1..L /\ L \in Nat
        BY <1>2
      <4> HIDE DEF L
      <4> QED BY <4>1
    <3>1. k \in DOMAIN src.macros /\ n + 1 \in DOMAIN src.macros /\ k # n + 1 /\ L # 1
      BY <1>2, <3>0
    <3>2. \A l \in DOMAIN src.macros : src.macros[l].name \in {"contract", "interface", "entry_points"}
      <4>1. \A x \in M : x.name \in {"contract", "interface", "entry_points"}
        OBVIOUS
      <4> HIDE DEF M
      <4> QED BY <1>1, <4>1
    <3>3. CASE src.kind = "interface"
      BY <1>1, <3>1, <3>3 DEF IsItem
    <3>4. CASE src.kind = "contract"
      <4>1. \A l \in DOMAIN src.macros :
              src.macros[l].name # "interface" /\
              \A m \in DOMAIN src.macros : src.macros[m].name = src.macros[l].name => m = l
        BY <1>1, <3>4 DEF IsItem
      <4>2. src.macros[k].name = "contract" /\ src.macros[n + 1].name = "contract"
        BY <1>7, <3>1, <3>2, <4>1
      <4> QED BY <3>1, <4>1, <4>2
    <3> QED BY <1>1, <3>3, <3>4
  <2> DEFINE s == StripInput(it)
             j == [s EXCEPT !.macros = Tail(@)]
  <2>2. it.attrs = src.attrs /\ it.methods = src.methods
    BY <2>1 DEF IsLeft
  <2>3. /\ DOMAIN s = ItemFields /\ s.macros = it.macros /\ s.kind = it.kind /\ s.params = it.params
        /\ s.assoc = it.assoc /\ s.wheres = it.wheres
        /\ s.attrs = StripAttrs(it.attrs) /\ s.methods = [k \in DOMAIN it.methods |-> StripMethod(it.methods[k])]
    BY <1>5 DEF ItemFields, StripInput
  <2> HIDE DEF s
  <2>4. /\ DOMAIN j = ItemFields /\ j.macros = Tail(it.macros) /\ j.kind = it.kind /\ j.params = it.params
        /\ j.assoc = it.assoc /\ j.wheres = it.wheres
        /\ j.attrs = StripAttrs(src.attrs) /\ j.methods = [k \in DOMAIN src.methods |-> StripMethod(src.methods[k])]
    BY <2>2, <2>3 DEF ItemFields
  <2> HIDE DEF j
  <2>5. StripsIn(src, n + 1) /\ n + 1 \in 0..Len(src.macros)
    BY <1>2, <1>4, <1>7
  <2>6. IsLeft(src, j, n + 1)
    BY <1>3, <2>4, <2>5 DEF IsLeft
  <2> QED BY <2>1, <2>6 DEF j, s
<1>8. n + 1 \in 0..Len(src.macros) /\ n + 1 \in DOMAIN src.macros
  BY <1>2
<1> QED BY <1>3, <1>6, <1>7, <1>8

\* A function on an interval from 1 is a sequence of its values.
LEMMA IsSequence ==
  ASSUME NEW n \in Nat, NEW f, f = [k \in 1..n |-> f[k]]
  PROVE  f \in Seq(ToSet(f))
<1>1. DOMAIN f = 1..n /\ \A k \in 1..n : f[k] \in ToSet(f)
  BY DEF ToSet
<1> QED BY <1>1

\* Reading goes on with the next attribute.
LEMMA ReadOn ==
  ASSUME NEW src, Written(src), NEW it, NEW n, IsLeft(src, it, n),
         NEW k, NEW left, NEW q, ReadIn(it, k, left, q), left # <<>>, NEW r,
         \A p \in Nat : /\ p + 1 \in DOMAIN AttrsIn(it, k) /\ AttrsIn(it, k)[p + 1] = Head(left)
                        /\ HasRead(q[k + 1], AttrsIn(it, k), p)
                        => HasRead(r, AttrsIn(it, k), p + 1)
  PROVE  ReadIn(it, k, Tail(left), [q EXCEPT ![k + 1] = r])
<1> DEFINE attrs == AttrsIn(it, k)
           L == Len(attrs)
           A == [name : STRING, list : BOOLEAN, args : Seq(STRING \X STRING)]
           t == [q EXCEPT ![k + 1] = r]
<1>1. k \in 0..Len(it.methods) /\ DOMAIN q = 1..k + 1 /\ Len(it.methods) \in Nat
  BY AttributesLeft DEF ReadIn
<1>2. attrs \in Seq(A) /\ L \in Nat
  BY <1>1, AttributesLeft DEF Attributes
<1>3. PICK p \in 0..L : left = Rest(attrs, p) /\ HasRead(q[k + 1], attrs, p)
  BY DEF ReadIn
<1>4. p < L /\ p \in Nat /\ Head(left) = attrs[p + 1] /\ p + 1 \in DOMAIN attrs /\ Tail(left) = Rest(attrs, p + 1)
  <2>1. p # L
    <3> HIDE DEF A, attrs
    <3> QED BY <1>2, <1>3, Resting
  <2>2. p < L /\ p \in Nat
    BY <1>2, <2>1
  <2> HIDE DEF A, attrs
  <2> QED BY <1>2, <1>3, <2>2, Resting
<1>5. HasRead(r, attrs, p + 1) /\ p + 1 \in 0..L
  BY <1>2, <1>3, <1>4
<1>6. k + 1 \in Nat /\ k + 1 \in DOMAIN q /\ t = [l \in 1..k + 1 |-> t[l]]
  <2>1. k \in Nat /\ k + 1 \in Nat /\ k + 1 \in 1..k + 1
    BY <1>1
  <2>2. t = [l \in DOMAIN q |-> t[l]]
    OBVIOUS
  <2> HIDE DEF t
  <2> QED BY <1>1, <2>1, <2>2
<1>7. t \in Seq(ToSet(t)) /\ DOMAIN t = 1..k + 1 /\ t[k + 1] = r
  <2>1. DOMAIN t = 1..k + 1 /\ t[k + 1] = r
    BY <1>1, <1>6
  <2> HIDE DEF t
  <2> QED BY <1>6, <2>1, IsSequence
<1>8. \A l \in 0..k - 1 : t[l + 1] = q[l + 1]
  BY <1>1
<1>9. \A l \in 0..k - 1 : HasRead(q[l + 1], AttrsIn(it, l), Len(AttrsIn(it, l)))
  BY DEF ReadIn
<1> HIDE DEF t, L, attrs
<1> SUFFICES ReadIn(it, k, Tail(left), t)
  BY DEF t
<1>10. \E m \in 0..L : Tail(left) = Rest(attrs, m) /\ HasRead(t[k + 1], attrs, m)
  BY <1>4, <1>5, <1>7
<1> QED BY <1>1, <1>7, <1>8, <1>9, <1>10 DEF ReadIn, attrs, L

\* Reading starts with the attributes of the item.
LEMMA ReadStarts ==
  ASSUME NEW src, Written(src), NEW it, NEW n, IsLeft(src, it, n)
  PROVE  ReadIn(it, 0, it.attrs, <<Nothing>>)
<1> DEFINE q == <<Nothing>>
<1>1. Len(it.methods) \in Nat /\ AttrsIn(it, 0) \in Attributes
  BY AttributesLeft
<1>2. AttrsIn(it, 0) = it.attrs /\ Len(it.attrs) \in Nat /\ Rest(it.attrs, 0) = it.attrs
  <2>1. AttrsIn(it, 0) = it.attrs
    BY DEF AttrsIn
  <2>2. it.attrs \in Seq([name : STRING, list : BOOLEAN, args : Seq(STRING \X STRING)])
    BY <1>1, <2>1 DEF Attributes
  <2>3. Len(it.attrs) \in Nat /\ 0 \in 0..Len(it.attrs)
    BY <2>2
  <2> QED BY <2>1, <2>2, <2>3, Resting
<1>3. DOMAIN q = 1..0 + 1 /\ q[0 + 1] = Nothing /\ q \in Seq(ToSet(q))
  <2>1. Nothing \in ToSet(q)
    BY DEF ToSet
  <2> QED BY <2>1
<1> HIDE DEF q
<1>4. 0 \in 0..Len(it.methods) /\ 0 \in 0..Len(AttrsIn(it, 0)) /\ 0..0 - 1 = {}
  BY <1>1, <1>2
<1>5. HasRead(q[0 + 1], AttrsIn(it, 0), 0)
  BY <1>3, NothingRead
<1>6. ReadIn(it, 0, it.attrs, q)
  BY <1>2, <1>3, <1>4, <1>5 DEF ReadIn
<1> QED BY <1>6 DEF q

\* With no attribute left, all of them have been read.
LEMMA ReadAll ==
  ASSUME NEW src, Written(src), NEW it, NEW n, IsLeft(src, it, n), NEW k, NEW q, ReadIn(it, k, <<>>, q)
  PROVE  \A l \in 0..k : HasRead(q[l + 1], AttrsIn(it, l), Len(AttrsIn(it, l)))
<1> DEFINE attrs == AttrsIn(it, k)
           A == [name : STRING, list : BOOLEAN, args : Seq(STRING \X STRING)]
<1>1. k \in 0..Len(it.methods) /\ Len(it.methods) \in Nat
  BY AttributesLeft DEF ReadIn
<1>2. attrs \in Seq(A)
  BY <1>1, AttributesLeft DEF Attributes
<1>3. PICK p \in 0..Len(attrs) : <<>> = Rest(attrs, p) /\ HasRead(q[k + 1], attrs, p)
  BY DEF ReadIn
<1>4. p = Len(attrs)
  <2> HIDE DEF A, attrs
  <2> QED BY <1>2, <1>3, Resting
<1>5. \A l \in 0..k - 1 : HasRead(q[l + 1], AttrsIn(it, l), Len(AttrsIn(it, l)))
  BY DEF ReadIn
<1>6. \A l \in 0..k : l = k \/ l \in 0..k - 1
  BY <1>1
<1> QED BY <1>3, <1>4, <1>5, <1>6

\* Reading goes on with the next method.
LEMMA ReadNext ==
  ASSUME NEW src, Written(src), NEW it, NEW n, IsLeft(src, it, n),
         NEW k, NEW q, ReadIn(it, k, <<>>, q), k < Len(it.methods)
  PROVE  ReadIn(it, k + 1, it.methods[k + 1].attrs, Append(q, Nothing))
<1> DEFINE t == Append(q, Nothing)
           S == ToSet(q) \cup {Nothing}
<1>1. k \in 0..Len(it.methods) /\ Len(it.methods) \in Nat /\ DOMAIN q = 1..k + 1 /\ q \in Seq(ToSet(q))
  BY AttributesLeft DEF ReadIn
<1>2. k \in Nat /\ k + 1 \in 0..Len(it.methods) /\ k + 1 # 0
  BY <1>1
<1>3. AttrsIn(it, k + 1) = it.methods[k + 1].attrs /\ AttrsIn(it, k + 1) \in Attributes
  BY <1>2, AttributesLeft DEF AttrsIn
<1>4. /\ Len(AttrsIn(it, k + 1)) \in Nat /\ 0 \in 0..Len(AttrsIn(it, k + 1))
      /\ Rest(AttrsIn(it, k + 1), 0) = AttrsIn(it, k + 1)
  <2> DEFINE attrs == AttrsIn(it, k + 1)
             A == [name : STRING, list : BOOLEAN, args : Seq(STRING \X STRING)]
  <2>1. attrs \in Seq(A)
    BY <1>3 DEF Attributes
  <2> HIDE DEF attrs, A
  <2>2. Len(attrs) \in Nat /\ 0 \in 0..Len(attrs)
    BY <2>1
  <2>3. Rest(attrs, 0) = attrs
    BY <2>1, <2>2, Resting
  <2> QED BY <2>2, <2>3 DEF attrs
<1>5. Len(q) = k + 1
  BY <1>1, <1>2
<1>6. t \in Seq(S) /\ DOMAIN t = 1..k + 2 /\ t[k + 2] = Nothing /\ \A l \in 1..k + 1 : t[l] = q[l]
  <2>1. q \in Seq(S) /\ Nothing \in S
    BY <1>1
  <2> HIDE DEF S
  <2> QED BY <1>2, <1>5, <2>1
<1>7. t \in Seq(ToSet(t))
  <2>1. t = [l \in 1..k + 2 |-> t[l]]
    <3> DEFINE s == t
    <3>1. s \in Seq(S) /\ DOMAIN s = 1..k + 2
      BY <1>6
    <3> HIDE DEF s, S
    <3>2. s = [l \in DOMAIN s |-> s[l]]
      BY <3>1
    <3>3. s = [l \in 1..k + 2 |-> s[l]]
      BY <3>1, <3>2
    <3> QED BY <3>3 DEF s
  <2>2. k + 2 \in Nat
    BY <1>2
  <2> HIDE DEF t
  <2> QED BY <2>1, <2>2, IsSequence
<1>8. HasRead(t[k + 1 + 1], AttrsIn(it, k + 1), 0)
  <2>1. t[k + 1 + 1] = Nothing
    BY <1>2, <1>6
  <2> HIDE DEF t
  <2> QED BY <2>1, NothingRead
<1>9. \A l \in 0..k + 1 - 1 : HasRead(t[l + 1], AttrsIn(it, l), Len(AttrsIn(it, l)))
  <2>1. \A l \in 0..k : HasRead(q[l + 1], AttrsIn(it, l), Len(AttrsIn(it, l)))
    BY ReadAll
  <2>2. \A l \in 0..k + 1 - 1 : l \in 0..k /\ l + 1 \in 1..k + 1
    BY <1>2
  <2> HIDE DEF t
  <2> QED BY <1>6, <2>1, <2>2
<1>10. DOMAIN t = 1..k + 1 + 1
  BY <1>2, <1>6
<1> HIDE DEF t
<1>11. ReadIn(it, k + 1, AttrsIn(it, k + 1), t)
  BY <1>2, <1>4, <1>7, <1>8, <1>9, <1>10 DEF ReadIn
<1> QED BY <1>3, <1>11 DEF t
-----------------------------------------------------------------------------
\* The generics used are those that are a path of their own, each once.
LEMMA UsedAre ==
  ASSUME NEW T, NEW type \in Seq(Seq(T)), NEW generics
  PROVE  /\ ToSet(Used(type, generics)) = {g \in ToSet(generics) : <<g>> \in ToSet(type)}
         /\ Used(type, generics) \in Seq(ToSet(generics))
         /\ \A m, n \in DOMAIN Used(type, generics) :
              Used(type, generics)[m] = Used(type, generics)[n] => m = n
<1> DEFINE top == Len(type)
           us == Uses(type, generics)
           ks == FirstUses(type, generics)
           c == Cardinality(ks)
           u == Used(type, generics)
<1>1. top \in Nat /\ DOMAIN type = 1..top /\ \A k \in 1..top : type[k] \in Seq(T)
  OBVIOUS
<1>2. us \subseteq 1..top /\ ks \subseteq us
  BY <1>1 DEF Uses, FirstUses
<1>3. \A k \in us : type[k] = <<type[k][1]>> /\ type[k][1] \in ToSet(generics)
  <2>1. \A s \in Seq(T) : Len(s) = 1 => s = <<s[1]>>
    OBVIOUS
  <2> QED BY <1>1, <2>1 DEF Uses
<1>4. \A k \in 1..top : \A g \in ToSet(generics) : type[k] = <<g>> => k \in us
  <2>1. \A g : Len(<<g>>) = 1 /\ <<g>>[1] = g
    OBVIOUS
  <2>2. ASSUME NEW k \in 1..top, NEW g \in ToSet(generics), type[k] = <<g>> PROVE k \in us
    <3>1. Len(type[k]) = 1 /\ type[k][1] = g /\ k \in DOMAIN type
      BY <1>1, <2>1, <2>2
    <3> QED BY <3>1 DEF Uses
  <2> QED BY <2>2
<1>5. ASSUME NEW k \in us PROVE \E j \in ks : type[j] = type[k]
  <2> DEFINE S == {j \in us : type[j] = type[k]}
  <2>1. S \subseteq Nat /\ S # {}
    BY <1>1, <1>2
  <2>2. PICK j \in S : \A l \in S : j <= l
    <3> HIDE DEF S
    <3> QED BY <2>1, Smallest
  <2> QED BY <2>2 DEF FirstUses
<1>6. \A j, l \in ks : type[j] = type[l] => j = l
  <2> SUFFICES ASSUME NEW j \in ks, NEW l \in ks, type[j] = type[l] PROVE j = l
    OBVIOUS
  <2>1. j <= l /\ l <= j
    BY <1>2 DEF FirstUses
  <2>2. j \in Nat /\ l \in Nat
    BY <1>1, <1>2
  <2> QED BY <2>1, <2>2
<1>7. DOMAIN u = 1..c /\ \A n \in 1..c : u[n] = type[Ascending(ks)[n]][1]
  BY DEF Used, Selected
<1>8. /\ c \in Nat
      /\ \A n \in 1..c : Ascending(ks)[n] \in ks /\ Rank(ks, Ascending(ks)[n]) = n
      /\ \A k \in ks : Rank(ks, k) \in 1..c /\ Ascending(ks)[Rank(ks, k)] = k
  <2>1. ks \subseteq 1..top
    BY <1>2
  <2> HIDE DEF ks, top
  <2> QED BY <1>1, <2>1, AscendingPlaces
<1>9. u = [n \in 1..c |-> u[n]]
  BY DEF Used, Selected
<1> HIDE DEF us, ks, c, u, top
<1>10. \A n \in 1..c : u[n] \in ToSet(generics) /\ type[Ascending(ks)[n]] = <<u[n]>>
  BY <1>2, <1>3, <1>7, <1>8
<1>11. u \in Seq(ToSet(generics))
  <2>1. [n \in 1..c |-> u[n]] \in Seq(ToSet(generics))
    BY <1>8, <1>10
  <2> QED BY <1>9, <2>1
<1>12. \A m, n \in 1..c : u[m] = u[n] => m = n
  <2> SUFFICES ASSUME NEW m \in 1..c, NEW n \in 1..c, u[m] = u[n] PROVE m = n
    OBVIOUS
  <2>1. type[Ascending(ks)[m]] = type[Ascending(ks)[n]]
    BY <1>10
  <2>2. Ascending(ks)[m] = Ascending(ks)[n]
    BY <1>6, <1>8, <2>1
  <2> QED BY <1>8, <2>2
<1>13. ToSet(u) = {g \in ToSet(generics) : <<g>> \in ToSet(type)}
  <2>1. ASSUME NEW n \in 1..c PROVE u[n] \in ToSet(generics) /\ <<u[n]>> \in ToSet(type)
    <3>1. Ascending(ks)[n] \in DOMAIN type
      BY <1>1, <1>2, <1>8
    <3> QED BY <1>10, <3>1 DEF ToSet
  <2>2. ASSUME NEW g \in ToSet(generics), <<g>> \in ToSet(type) PROVE \E n \in 1..c : u[n] = g
    <3>1. PICK k \in 1..top : type[k] = <<g>>
      BY <1>1, <2>2 DEF ToSet
    <3>2. k \in us
      BY <1>4, <3>1
    <3>3. PICK j \in ks : type[j] = <<g>>
      BY <1>5, <3>1, <3>2
    <3>4. Rank(ks, j) \in 1..c /\ u[Rank(ks, j)] = type[j][1]
      BY <1>7, <1>8
    <3> QED BY <3>3, <3>4
  <2>3. ToSet(u) = {u[n] : n \in 1..c}
    BY <1>7 DEF ToSet
  <2> QED BY <2>1, <2>2, <2>3
<1> QED BY <1>7, <1>11, <1>12, <1>13 DEF u

\* What a part of a sequence holds, and that places and members are as many in one
\* without repetition.
LEMMA Wherever ==
  ASSUME NEW T, NEW s \in Seq(T), NEW ks, ks \subseteq DOMAIN s
  PROVE  /\ Selected(s, ks) \in Seq(T) /\ ToSet(Selected(s, ks)) = {s[k] : k \in ks}
         /\ Len(Selected(s, ks)) = Cardinality(ks) /\ Cardinality(ks) \in Nat
         /\ (\A k, l \in DOMAIN s : s[k] = s[l] => k = l) =>
              \A m, n \in DOMAIN Selected(s, ks) : Selected(s, ks)[m] = Selected(s, ks)[n] => m = n
<1> DEFINE top == Len(s)
<1>1. top \in Nat /\ DOMAIN s = 1..top /\ ks \subseteq 1..top /\ \A k \in ks : s[k] \in T
  OBVIOUS
<1>2. /\ Cardinality(ks) \in Nat /\ DOMAIN Selected(s, ks) = 1..Cardinality(ks)
      /\ Len(Selected(s, ks)) = Cardinality(ks) /\ ToSet(Selected(s, ks)) = {s[k] : k \in ks}
      /\ Selected(s, ks) \in Seq(T)
  <2> HIDE DEF top
  <2> QED BY <1>1, SelectedEntries
<1>3. ASSUME \A k, l \in DOMAIN s : s[k] = s[l] => k = l,
             NEW m \in 1..Cardinality(ks), NEW n \in 1..Cardinality(ks), Selected(s, ks)[m] = Selected(s, ks)[n]
      PROVE  m = n
  <2>1. \A j \in 1..Cardinality(ks) : Ascending(ks)[j] \in ks /\ Rank(ks, Ascending(ks)[j]) = j
    <3> HIDE DEF top
    <3> QED BY <1>1, AscendingPlaces
  <2>2. s[Ascending(ks)[m]] = s[Ascending(ks)[n]]
    BY <1>3 DEF Selected
  <2>3. Ascending(ks)[m] = Ascending(ks)[n]
    BY <1>1, <1>3, <2>1, <2>2
  <2> QED BY <2>1, <2>3
<1> QED BY <1>2, <1>3

\* A sequence without repetition has as many members as places.
LEMMA Different ==
  ASSUME NEW T, NEW s \in Seq(T), \A k, l \in DOMAIN s : s[k] = s[l] => k = l
  PROVE  IsFiniteSet(ToSet(s)) /\ Cardinality(ToSet(s)) = Len(s)
<1> DEFINE top == Len(s)
<1>1. top \in Nat /\ DOMAIN s = 1..top /\ s = [k \in 1..top |-> s[k]]
  OBVIOUS
<1>2. IsFiniteSet(1..top) /\ Cardinality(1..top) = top
  <2> HIDE DEF top
  <2> QED BY <1>1, FS_Interval
<1>3. s \in Surjection(1..top, ToSet(s)) /\ s \in Injection(1..top, ToSet(s))
  <2>1. s \in [1..top -> ToSet(s)]
    BY <1>1 DEF ToSet
  <2>2. \A y \in ToSet(s) : \E k \in 1..top : s[k] = y
    BY <1>1 DEF ToSet
  <2> QED BY <1>1, <2>1, <2>2 DEF Surjection, Injection, IsInjective
<1> HIDE DEF top
<1>4. /\ IsFiniteSet(ToSet(s)) /\ Cardinality(ToSet(s)) <= top
      /\ Cardinality(ToSet(s)) = top <=> s \in Injection(1..top, ToSet(s))
  BY <1>2, <1>3, FS_Surjection
<1> QED BY <1>3, <1>4 DEF top

\* The generics of an item are divided between a message and its dispatch.
LEMMA Divided ==
  ASSUME NEW T, NEW type \in Seq(Seq(T)), NEW U, NEW generics \in Seq(U),
         \A k, l \in DOMAIN generics : generics[k] = generics[l] => k = l
  PROVE  /\ ToSet(Used(type, generics) \o Unused(type, generics)) = ToSet(generics)
         /\ Len(Used(type, generics) \o Unused(type, generics)) = Len(generics)
<1> DEFINE u == Used(type, generics)
           ks == {k \in DOMAIN generics : generics[k] \notin ToSet(u)}
           r == Unused(type, generics)
<1>1. /\ u \in Seq(ToSet(generics)) /\ \A m, n \in DOMAIN u : u[m] = u[n] => m = n
      /\ ToSet(u) = {g \in ToSet(generics) : <<g>> \in ToSet(type)}
  <2> HIDE DEF u
  <2> QED BY UsedAre DEF u
<1>2. r = Selected(generics, ks) /\ ks \subseteq DOMAIN generics
  BY DEF Unused, Where
<1>3. ToSet(r) = ToSet(generics) \ ToSet(u)
  <2> HIDE DEF r, u
  <2>1. ToSet(r) = {generics[k] : k \in ks}
    <3> HIDE DEF ks
    <3> QED BY <1>2, Wherever
  <2> QED BY <2>1 DEF ToSet
<1>4. ToSet(generics) \subseteq U
  BY DEF ToSet
<1>5. r \in Seq(ToSet(generics)) /\ \A m, n \in DOMAIN r : r[m] = r[n] => m = n
  <2> HIDE DEF r, ks
  <2>1. generics \in Seq(ToSet(generics))
    <3>1. Len(generics) \in Nat /\ generics = [k \in 1..Len(generics) |-> generics[k]]
      OBVIOUS
    <3> QED BY <3>1, IsSequence
  <2> QED BY <1>2, <2>1, Wherever, SMTT(30)
<1> HIDE DEF u, r, ks
<1>6. /\ IsFiniteSet(ToSet(u)) /\ Cardinality(ToSet(u)) = Len(u)
      /\ IsFiniteSet(ToSet(r)) /\ Cardinality(ToSet(r)) = Len(r)
      /\ IsFiniteSet(ToSet(generics)) /\ Cardinality(ToSet(generics)) = Len(generics)
  BY <1>1, <1>5, Different
<1>7. ToSet(u) \cup ToSet(r) = ToSet(generics) /\ ToSet(u) \cap ToSet(r) = {}
  BY <1>1, <1>3
<1>8. Cardinality(ToSet(generics)) = Cardinality(ToSet(u)) + Cardinality(ToSet(r))
  <2>1. Cardinality(ToSet(u) \cup ToSet(r))
          = Cardinality(ToSet(u)) + Cardinality(ToSet(r)) - Cardinality(ToSet(u) \cap ToSet(r))
    BY <1>6, FS_Union
  <2>2. Cardinality({}) = 0 /\ Cardinality(ToSet(u)) \in Nat /\ Cardinality(ToSet(r)) \in Nat
    BY <1>6, FS_EmptySet, FS_CardinalityType
  <2> DEFINE a == Cardinality(ToSet(u))
             b == Cardinality(ToSet(r))
  <2>3. Cardinality(ToSet(generics)) = a + b - 0 /\ a \in Nat /\ b \in Nat
    BY <1>7, <2>1, <2>2
  <2> HIDE DEF a, b
  <2>4. Cardinality(ToSet(generics)) = a + b
    BY <2>3
  <2> QED BY <2>4 DEF a, b
<1>9. Len(u \o r) = Len(u) + Len(r)
  BY <1>1, <1>5
<1>10. ToSet(u \o r) = ToSet(u) \cup ToSet(r)
  <2>1. \A s : EntriesOf(s) = ToSet(s)
    BY DEF EntriesOf, ToSet
  <2>2. EntriesOf(u \o r) = EntriesOf(u) \cup EntriesOf(r)
    BY <1>1, <1>5, Concatenated
  <2> QED BY <2>1, <2>2
<1> QED BY <1>6, <1>7, <1>8, <1>9, <1>10 DEF u, r

\* A path without Self is itself when it is stripped.
StrippedPath(path) == Where(path, LAMBDA segment : segment # "Self")

\* Only a path that starts with Self is changed by stripping it.
LEMMA PathStripped ==
  ASSUME NEW path \in Path
  PROVE  /\ StrippedPath(path) \in Seq(STRING)
         /\ \A segment \in ToSet(StrippedPath(path)) : segment # "Self"
         /\ path # <<>> => path[1] = "Self" \/ StrippedPath(path) = path
<1> DEFINE ks == {k \in DOMAIN path : path[k] # "Self"}
<1>1. path \in Seq(STRING) /\ \A k \in DOMAIN path : path[k] = "Self" => k = 1
  BY DEF Path
<1>2. StrippedPath(path) = Selected(path, ks) /\ ks \subseteq DOMAIN path
  BY DEF StrippedPath, Where
<1>3. Selected(path, ks) \in Seq(STRING) /\ ToSet(Selected(path, ks)) = {path[k] : k \in ks}
  <2> HIDE DEF ks
  <2> QED BY <1>1, <1>2, Wherever
<1>4. path # <<>> /\ path[1] # "Self" => ks = DOMAIN path
  BY <1>1
<1>5. Selected(path, DOMAIN path) = path
  BY <1>1, SelectedAll
<1> QED BY <1>2, <1>3, <1>4, <1>5

\* Without Self nothing is stripped, ...
LEMMA NoSelf ==
  ASSUME NEW T, NEW path \in Seq(T), \A segment \in ToSet(path) : segment # "Self"
  PROVE  StrippedPath(path) = path
<1>1. {k \in DOMAIN path : path[k] # "Self"} = DOMAIN path
  BY DEF ToSet
<1>2. StrippedPath(path) = Selected(path, {k \in DOMAIN path : path[k] # "Self"})
  BY DEF StrippedPath, Where
<1> QED BY <1>1, <1>2, SelectedAll

\* ... and of Self alone nothing is left.
LEMMA OnlySelf == StrippedPath(<<"Self">>) = <<>>
<1> DEFINE path == <<"Self">>
<1>1. {k \in DOMAIN path : path[k] # "Self"} = {}
  OBVIOUS
<1>2. StrippedPath(path) = Selected(path, {k \in DOMAIN path : path[k] # "Self"})
  BY DEF StrippedPath, Where
<1>3. Selected(path, {}) = <<>>
  BY NoPlace DEF Selected
<1> QED BY <1>1, <1>2, <1>3

\* The generics a type speaks of are its paths of their own, as no longer one starts
\* with a generic.
LEMMA Mentioned ==
  ASSUME NEW generics, "Self" \notin ToSet(generics), NEW T, NEW type,
         \A path \in ToSet(type) :
           /\ path \in Seq(T) /\ (StrippedPath(path) = path \/ path = <<"Self">>)
           /\ \A g \in ToSet(generics) : Len(path) > 1 => ~Speaks(path, g)
  PROVE  Mentions(generics, type) = {g \in ToSet(generics) : <<g>> \in ToSet(type)}
<1>1. ToSet(Stripped(type)) = {StrippedPath(path) : path \in ToSet(type)}
  BY DEF Stripped, StrippedPath, ToSet
<1>2. ASSUME NEW path \in ToSet(type), NEW g \in ToSet(generics), Speaks(StrippedPath(path), g)
      PROVE  path = <<g>>
  <2>1. path # <<"Self">>
    BY <1>2, OnlySelf DEF Speaks
  <2>2. path \in Seq(T) /\ Speaks(path, g) /\ ~(Len(path) > 1)
    BY <1>2, <2>1
  <2>3. \A p \in Seq(T) : Len(p) = 1 => p = <<p[1]>>
    OBVIOUS
  <2>4. \A p \in Seq(T) : p # <<>> /\ ~(Len(p) > 1) => Len(p) = 1
    <3> SUFFICES ASSUME NEW p \in Seq(T), p # <<>>, ~(Len(p) > 1) PROVE Len(p) = 1
      OBVIOUS
    <3>1. Len(p) \in Nat /\ Len(p) # 0
      OBVIOUS
    <3>2. \A n \in Nat : n # 0 /\ ~(n > 1) => n = 1
      OBVIOUS
    <3> QED BY <3>1, <3>2
  <2> QED BY <2>2, <2>3, <2>4 DEF Speaks
<1>3. ASSUME NEW g \in ToSet(generics), <<g>> \in ToSet(type) PROVE Speaks(StrippedPath(<<g>>), g)
  <2>1. g # "Self" /\ <<g>>[1] = g /\ <<"Self">>[1] = "Self" /\ <<g>> # <<>>
    BY <1>3
  <2>2. StrippedPath(<<g>>) = <<g>>
    BY <1>3, <2>1
  <2> QED BY <2>1, <2>2 DEF Speaks
<1> QED BY <1>1, <1>2, <1>3 DEF Mentions
-----------------------------------------------------------------------------
\* What a flattened sequence of sequences holds.
LEMMA Flat ==
  ASSUME NEW S, NEW seqs \in Seq(Seq(S))
  PROVE  /\ FlattenSeq(seqs) \in Seq(S)
         /\ ToSet(FlattenSeq(seqs)) = UNION {ToSet(seqs[j]) : j \in DOMAIN seqs}
<1> DEFINE n == Len(seqs)
<1>1. CASE n = 0
  <2>1. seqs = <<>> /\ FlattenSeq(seqs) = seqs
    BY <1>1 DEF FlattenSeq
  <2>2. ToSet(seqs) = {} /\ DOMAIN seqs = {}
    BY <2>1 DEF ToSet
  <2>3. UNION {ToSet(seqs[j]) : j \in DOMAIN seqs} = {}
    BY <2>2
  <2>4. seqs \in Seq(S)
    BY <2>1
  <2> QED BY <2>1, <2>2, <2>3, <2>4
<1>2. CASE n # 0
  <2>1. \E g : Joins(g, seqs)
    BY <1>2, Joined
  <2>2. PICK g : FlattenSeq(seqs) = g[n] /\ Joins(g, seqs)
    BY <1>2, <2>1 DEF FlattenSeq, Joins
  <2>3. g[n] \in Seq(S) /\ EntriesOf(g[n]) = UNION {EntriesOf(seqs[j]) : j \in DOMAIN seqs}
    BY <1>2, <2>2, Joined
  <2> QED BY <2>2, <2>3 DEF EntriesOf, ToSet
<1> QED BY <1>1, <1>2

InputRecord == [name : STRING, attrs : Attributes, type : Paths]
MethodRecord == [name : STRING, attrs : Attributes, inputs : Inputs, ret : [alias : BOOLEAN, type : Paths]]

\* A stripped type is stripped already.
LEMMA TypeStripped ==
  ASSUME NEW type \in Paths
  PROVE  /\ Stripped(type) \in Seq(Seq(STRING))
         /\ \A path \in ToSet(Stripped(type)) : path \in Seq(STRING) /\ StrippedPath(path) = path
<1>1. type \in Seq(Path) /\ Len(type) \in Nat /\ DOMAIN type = 1..Len(type)
  BY DEF Paths
<1>2. Stripped(type) = [k \in 1..Len(type) |-> StrippedPath(type[k])]
  BY <1>1 DEF Stripped, StrippedPath
<1>3. ASSUME NEW k \in 1..Len(type)
      PROVE  StrippedPath(type[k]) \in Seq(STRING) /\ StrippedPath(StrippedPath(type[k])) = StrippedPath(type[k])
  <2>1. type[k] \in Path
    BY <1>1
  <2>2. /\ StrippedPath(type[k]) \in Seq(STRING)
        /\ \A segment \in ToSet(StrippedPath(type[k])) : segment # "Self"
    BY <2>1, PathStripped
  <2> QED BY <2>2, NoSelf
<1>4. Stripped(type) \in Seq(Seq(STRING))
  BY <1>1, <1>2, <1>3
<1>5. ToSet(Stripped(type)) = {StrippedPath(type[k]) : k \in 1..Len(type)}
  BY <1>2 DEF ToSet
<1> QED BY <1>3, <1>4, <1>5

\* The fields of a method are parameters of it.
LEMMA FieldsTyped ==
  ASSUME NEW method \in MethodRecord
  PROVE  /\ Fields(method) \in Seq(InputRecord) /\ ToSet(Fields(method)) \subseteq ToSet(method.inputs)
         /\ \A in \in ToSet(method.inputs) : in.type \in Paths
         /\ method.ret.type \in Paths
<1> DEFINE ks == {n \in 3..Len(method.inputs) : method.inputs[n].name # ""}
<1>1. method.inputs \in Seq(InputRecord) /\ method.ret.type \in Paths
  BY DEF MethodRecord, Inputs, InputRecord
<1>2. ks \subseteq DOMAIN method.inputs
  <2>1. DOMAIN method.inputs = 1..Len(method.inputs) /\ Len(method.inputs) \in Nat
    BY <1>1
  <2>2. 3..Len(method.inputs) \subseteq 1..Len(method.inputs)
    BY <2>1
  <2> QED BY <2>1, <2>2
<1>3. Fields(method) = Selected(method.inputs, ks)
  BY DEF Fields
<1>4. Selected(method.inputs, ks) \in Seq(InputRecord) /\ ToSet(Selected(method.inputs, ks)) = {method.inputs[k] : k \in ks}
  <2> HIDE DEF ks
  <2> QED BY <1>1, <1>2, Wherever
<1>5. {method.inputs[k] : k \in ks} \subseteq ToSet(method.inputs)
  BY <1>2 DEF ToSet
<1>6. \A in \in ToSet(method.inputs) : in \in InputRecord
  BY <1>1 DEF ToSet
<1> QED BY <1>1, <1>3, <1>4, <1>5, <1>6 DEF InputRecord

\* What is visited for a method: its fields' types and what it returns.
ReturnsOf(method, msg) == IF msg.type = "query"
                          THEN IF msg.resp # "" THEN <<<<msg.resp>>>> ELSE Stripped(method.ret.type)
                          ELSE <<>>
DataTypes(method, msg) == {Stripped(Fields(method)[k].type) : k \in DOMAIN Fields(method)} \cup {ReturnsOf(method, msg)}

\* What is visited: stripped types of the method, or the response named by its attribute.
LEMMA DataTyped ==
  ASSUME NEW method \in MethodRecord, NEW msg, NEW R, STRING \subseteq R, msg.resp \in R
  PROVE  \A type \in DataTypes(method, msg) :
           /\ type \in Seq(Seq(R))
           /\ \A path \in ToSet(type) : StrippedPath(path) = path \/ path = <<"Self">>
           /\ \/ type = <<<<msg.resp>>>>
              \/ type = <<>>
              \/ \E t \in TypesOf(method) : type = Stripped(t)
<1>1. ASSUME NEW t \in Paths
      PROVE  /\ Stripped(t) \in Seq(Seq(R))
             /\ \A path \in ToSet(Stripped(t)) : StrippedPath(path) = path
  <2>1. Stripped(t) \in Seq(Seq(STRING))
    BY TypeStripped
  <2>2. \A A, B : A \subseteq B => \A s \in Seq(A) : s \in Seq(B)
    <3> SUFFICES ASSUME NEW A, NEW B, A \subseteq B, NEW s \in Seq(A) PROVE s \in Seq(B)
      OBVIOUS
    <3>1. Len(s) \in Nat /\ s = [k \in 1..Len(s) |-> s[k]] /\ \A k \in 1..Len(s) : s[k] \in B
      OBVIOUS
    <3> QED BY <3>1
  <2>3. Seq(STRING) \subseteq Seq(R)
    BY <2>2
  <2>4. Stripped(t) \in Seq(Seq(R))
    BY <2>1, <2>2, <2>3
  <2> QED BY <2>4, TypeStripped
<1>2. ASSUME NEW k \in DOMAIN Fields(method)
      PROVE  Fields(method)[k].type \in Paths /\ Fields(method)[k].type \in TypesOf(method)
  <2>1. Fields(method)[k] \in ToSet(method.inputs)
    BY FieldsTyped DEF ToSet
  <2> QED BY <2>1, FieldsTyped DEF TypesOf
<1>3. /\ <<<<msg.resp>>>> \in Seq(Seq(R)) /\ <<>> \in Seq(Seq(R))
      /\ ToSet(<<<<msg.resp>>>>) = {<<msg.resp>>} /\ ToSet(<<>>) = {}
  BY DEF ToSet
<1>4. StrippedPath(<<msg.resp>>) = <<msg.resp>> \/ <<msg.resp>> = <<"Self">>
  <2>1. CASE msg.resp = "Self"
    BY <2>1
  <2>2. CASE msg.resp # "Self"
    <3>1. <<msg.resp>> \in Seq(R) /\ ToSet(<<msg.resp>>) = {msg.resp}
      BY DEF ToSet
    <3> QED BY <2>2, <3>1, NoSelf
  <2> QED BY <2>1, <2>2
<1>5. method.ret.type \in Paths /\ method.ret.type \in TypesOf(method)
  BY FieldsTyped DEF TypesOf
<1>6. ReturnsOf(method, msg) \in {<<<<msg.resp>>>>, <<>>, Stripped(method.ret.type)}
  BY DEF ReturnsOf
<1>7. \A type \in DataTypes(method, msg) :
        type = <<<<msg.resp>>>> \/ type = <<>> \/ \E t \in TypesOf(method) : t \in Paths /\ type = Stripped(t)
  BY <1>2, <1>5, <1>6 DEF DataTypes
<1> QED BY <1>1, <1>3, <1>4, <1>7

\* What is visited for a method is what its variant holds.
LEMMA VisitedAre ==
  ASSUME NEW method \in MethodRecord, NEW msg, NEW R, STRING \subseteq R, msg.resp \in R
  PROVE  /\ Visited(method, msg) \in Seq(Seq(R))
         /\ ToSet(Visited(method, msg)) = UNION {ToSet(type) : type \in DataTypes(method, msg)}
<1> DEFINE f == Fields(method)
           seqs == [k \in DOMAIN f |-> Stripped(f[k].type)]
           r == ReturnsOf(method, msg)
<1>1. \A type \in DataTypes(method, msg) : type \in Seq(Seq(R))
  BY DataTyped
<1>2. r \in Seq(Seq(R)) /\ \A k \in DOMAIN f : seqs[k] \in Seq(Seq(R))
  BY <1>1 DEF DataTypes
<1>3. DOMAIN f = 1..Len(f) /\ Len(f) \in Nat
  BY FieldsTyped
<1>4. seqs \in Seq(Seq(Seq(R))) /\ DOMAIN seqs = DOMAIN f
  BY <1>2, <1>3
<1>5. Visited(method, msg) = FlattenSeq(seqs) \o r
  <2>1. CASE msg.type = "query" /\ msg.resp # ""
    BY <2>1 DEF Visited, ReturnsOf
  <2>2. CASE msg.type = "query" /\ msg.resp = ""
    BY <2>2 DEF Visited, ReturnsOf
  <2>3. CASE msg.type # "query"
    BY <2>3 DEF Visited, ReturnsOf
  <2> QED BY <2>1, <2>2, <2>3
<1>6. {ToSet(type) : type \in DataTypes(method, msg)} = {ToSet(seqs[k]) : k \in DOMAIN seqs} \cup {ToSet(r)}
  BY <1>4 DEF DataTypes
<1> HIDE DEF seqs, r, f
<1>7. FlattenSeq(seqs) \in Seq(Seq(R)) /\ ToSet(FlattenSeq(seqs)) = UNION {ToSet(seqs[j]) : j \in DOMAIN seqs}
  BY <1>4, Flat
<1>8. \A s : EntriesOf(s) = ToSet(s)
  BY DEF EntriesOf, ToSet
<1>9. /\ FlattenSeq(seqs) \o r \in Seq(Seq(R))
      /\ EntriesOf(FlattenSeq(seqs) \o r) = EntriesOf(FlattenSeq(seqs)) \cup EntriesOf(r)
  BY <1>2, <1>7, Concatenated
<1>10. ToSet(FlattenSeq(seqs) \o r) = (UNION {ToSet(seqs[j]) : j \in DOMAIN seqs}) \cup ToSet(r)
  <2>1. ToSet(FlattenSeq(seqs) \o r) = ToSet(FlattenSeq(seqs)) \cup ToSet(r)
    BY <1>8, <1>9, Zenon
  <2> QED BY <2>1, <1>7
<1>11. UNION {ToSet(type) : type \in DataTypes(method, msg)}
         = (UNION {ToSet(seqs[j]) : j \in DOMAIN seqs}) \cup ToSet(r)
  <2>1. UNION {ToSet(type) : type \in DataTypes(method, msg)}
          = UNION ({ToSet(seqs[j]) : j \in DOMAIN seqs} \cup {ToSet(r)})
    BY <1>6, Zenon
  <2>2. \A S, x : UNION (S \cup {x}) = (UNION S) \cup x
    OBVIOUS
  <2> QED BY <2>1, <2>2, Zenon
<1>12. ToSet(Visited(method, msg)) = ToSet(FlattenSeq(seqs) \o r) /\ Visited(method, msg) \in Seq(Seq(R))
  BY <1>5, <1>9, Zenon
<1> QED BY <1>10, <1>11, <1>12, Zenon
-----------------------------------------------------------------------------
\* What is read of sv::msg and of sv::override_entry_point.
LEMMA MarkRead ==
  ASSUME NEW T, NEW attrs \in Seq(T), NEW q, HasRead(q, attrs, Len(attrs)), NEW type
  PROVE  (q["msg"] # <<>> /\ q["msg"][1].type = type)
           <=> \E a \in ToSet(attrs) : a.name = "msg" /\ a.list /\ a.args[1][1] = type
<1> DEFINE top == Len(attrs)
           ks == Counted(attrs, top, "msg")
<1>1. top \in Nat /\ DOMAIN attrs = 1..top
  OBVIOUS
<1>2. ks = {n \in DOMAIN attrs : attrs[n].name = "msg" /\ attrs[n].list}
  <2>1. \A a : Counts(a, "msg") <=> a.name = "msg" /\ a.list
    BY DEF Counts
  <2> QED BY <1>1, <2>1 DEF Counted
<1>3. SingleRead(q, attrs, top, "msg")
  BY DEF HasRead, Single
<1>4. \A a : a.name = "msg" => Value(a).type = a.args[1][1]
  BY DEF Value, Msg
<1>5. (\E a \in ToSet(attrs) : a.name = "msg" /\ a.list /\ a.args[1][1] = type)
        <=> \E n \in ks : attrs[n].args[1][1] = type
  BY <1>2 DEF ToSet
<1>6. CASE ks = {} /\ q["msg"] = <<>>
  BY <1>5, <1>6
<1>7. ASSUME NEW n \in 1..top, ks = {n}, q["msg"] = <<Value(attrs[n])>>
      PROVE  (q["msg"] # <<>> /\ q["msg"][1].type = type) <=> attrs[n].args[1][1] = type
  <2>1. attrs[n].name = "msg"
    BY <1>2, <1>7
  <2>2. q["msg"] # <<>> /\ q["msg"][1] = Value(attrs[n])
    BY <1>7
  <2> QED BY <1>4, <2>1, <2>2
<1> QED BY <1>3, <1>5, <1>6, <1>7 DEF SingleRead

\* The overridden entry points are those of the attributes.
LEMMA OverridesRead ==
  ASSUME NEW T, NEW attrs \in Seq(T), NEW q, HasRead(q, attrs, Len(attrs))
  PROVE  {q["override_entry_point"][k].msg_type : k \in DOMAIN q["override_entry_point"]}
           = {IF a.args[1][1] = "query" THEN "instantiate" ELSE a.args[1][1] :
                a \in {b \in ToSet(attrs) : b.name = "override_entry_point" /\ b.list}}
<1> DEFINE name == "override_entry_point"
           top == Len(attrs)
           ks == Counted(attrs, top, name)
           s == Selected(attrs, ks)
           Type(a) == IF a.args[1][1] = "query" THEN "instantiate" ELSE a.args[1][1]
<1>1. top \in Nat /\ DOMAIN attrs = 1..top /\ ks \subseteq 1..top
  BY DEF Counted
<1>2. ks = {n \in DOMAIN attrs : attrs[n].name = name /\ attrs[n].list}
  <2>1. \A a : Counts(a, name) <=> a.name = name /\ a.list
    BY DEF Counts
  <2> QED BY <1>1, <2>1 DEF Counted
<1>3. q[name] = Values(s)
  BY DEF HasRead, ListedRead, Listed
<1>4. \A a : a.name = name => Value(a).msg_type = Type(a)
  BY DEF Value, Override
<1>5. ToSet(s) = {attrs[k] : k \in ks}
  <2> HIDE DEF ks, top
  <2> QED BY <1>1, SelectedEntries
<1>6. {attrs[k] : k \in ks} = {b \in ToSet(attrs) : b.name = name /\ b.list}
  BY <1>2 DEF ToSet
<1>7. DOMAIN q[name] = DOMAIN s /\ \A k \in DOMAIN s : q[name][k] = Value(s[k])
  BY <1>3 DEF Values
<1>8. \A k \in DOMAIN s : s[k] \in ToSet(s)
  BY DEF ToSet
<1>9. \A k \in DOMAIN s : q[name][k].msg_type = Type(s[k])
  <2> HIDE DEF s, name, Type
  <2> QED BY <1>4, <1>5, <1>6, <1>7, <1>8
<1>10. {q[name][k].msg_type : k \in DOMAIN q[name]} = {Type(s[k]) : k \in DOMAIN s}
  <2> HIDE DEF s, name, Type
  <2> QED BY <1>7, <1>9
<1>11. {Type(s[k]) : k \in DOMAIN s} = {Type(a) : a \in ToSet(s)}
  BY DEF ToSet
<1> QED BY <1>5, <1>6, <1>10, <1>11
-----------------------------------------------------------------------------
\* A macro is ready to expand an item that is as written.
MarkedIn(src, type) == {k \in DOMAIN src.methods : Marked(src.methods[k], type)}
Ready ==
  /\ Written(source)
  /\ item.kind = source.kind /\ item.attrs = source.attrs /\ item.methods = source.methods
  /\ item.params = source.params /\ item.assoc = source.assoc /\ item.wheres = source.wheres
  /\ \A l \in 0..Len(source.methods) : HasRead(parsed[l + 1], AttrsIn(source, l), Len(AttrsIn(source, l)))

\* When all is read, the item is as written, or no method of it is marked any more.
LEMMA WhenRead ==
  ASSUME Written(source), NEW n, IsLeft(source, item, n), ReadIn(item, Len(item.methods), <<>>, parsed)
  PROVE  /\ ~StripsIn(source, n) => Ready
         /\ StripsIn(source, n) => Variants("instantiate") = <<>>
<1> DEFINE top == Len(item.methods)
<1>1. /\ top \in Nat /\ DOMAIN item.methods = 1..top /\ Len(item.methods) = Len(source.methods)
      /\ \A k \in 0..top :
           /\ AttrsIn(item, k) \in Attributes
           /\ StripsIn(source, n) => \A l \in DOMAIN AttrsIn(item, k) : ~IsSylvia(AttrsIn(item, k)[l])
  BY AttributesLeft
<1>2. \A l \in 0..top : HasRead(parsed[l + 1], AttrsIn(item, l), Len(AttrsIn(item, l)))
  BY ReadAll
<1>3. ASSUME ~StripsIn(source, n) PROVE Ready
  <2>1. /\ item.attrs = source.attrs /\ item.methods = source.methods /\ item.kind = source.kind
        /\ item.params = source.params /\ item.assoc = source.assoc /\ item.wheres = source.wheres
    BY <1>3 DEF IsLeft
  <2>2. \A k : AttrsIn(item, k) = AttrsIn(source, k)
    BY <2>1 DEF AttrsIn
  <2> QED BY <1>1, <1>2, <2>1, <2>2 DEF Ready
<1>4. ASSUME StripsIn(source, n) PROVE Variants("instantiate") = <<>>
  <2>1. ASSUME NEW k \in DOMAIN item.methods PROVE ~(MsgOf(k) # <<>> /\ MsgOf(k)[1].type = "instantiate")
    <3> DEFINE attrs == AttrsIn(item, k)
    <3>1. k \in 0..top /\ attrs \in Seq([name : STRING, list : BOOLEAN, args : Seq(STRING \X STRING)])
      BY <1>1 DEF Attributes
    <3>2. \A a \in ToSet(attrs) : ~IsSylvia(a)
      BY <1>1, <1>4, <3>1 DEF ToSet
    <3>3. \A a : a.name = "msg" => IsSylvia(a)
      BY DEF IsSylvia, Single
    <3>4. HasRead(parsed[k + 1], attrs, Len(attrs))
      BY <1>2, <3>1
    <3> HIDE DEF attrs
    <3> QED BY <3>1, <3>2, <3>3, <3>4, MarkRead DEF MsgOf
  <2>2. {k \in DOMAIN item.methods : MsgOf(k) # <<>> /\ MsgOf(k)[1].type = "instantiate"} = {}
    BY <2>1
  <2> QED BY <2>2, NoPlace DEF Variants
<1> QED BY <1>3, <1>4

\* The methods of an item as written, and what of them is read.
LEMMA WhenReady ==
  ASSUME Ready
  PROVE  /\ IsItem(source) /\ source.methods \in Seq(MethodRecord) /\ Len(source.methods) \in Nat
         /\ \A type : /\ Variants(type) = Ascending(MarkedIn(source, type))
                      /\ MarkedIn(source, type) \subseteq 1..Len(source.methods)
                      /\ Cardinality(MarkedIn(source, type)) \in Nat
                      /\ Len(Variants(type)) = Cardinality(MarkedIn(source, type))
                      /\ DOMAIN Variants(type) = 1..Cardinality(MarkedIn(source, type))
                      /\ \A v \in DOMAIN Variants(type) : Variants(type)[v] \in MarkedIn(source, type)
                      /\ Variants(type) = <<>> <=> MarkedIn(source, type) = {}
         /\ Overridden = ReadOverrides(source)
<1>1. IsItem(source) /\ source.methods \in Seq(MethodRecord) /\ source.attrs \in Attributes
  BY WrittenIsItem DEF Ready, Methods, MethodRecord
<1>2. Len(source.methods) \in Nat /\ DOMAIN source.methods = 1..Len(source.methods)
  BY <1>1
<1>3. \A l \in 0..Len(source.methods) : HasRead(parsed[l + 1], AttrsIn(source, l), Len(AttrsIn(source, l)))
  BY DEF Ready
<1>4. ASSUME NEW type, NEW k \in DOMAIN source.methods
      PROVE  (MsgOf(k) # <<>> /\ MsgOf(k)[1].type = type) <=> Marked(source.methods[k], type)
  <2> DEFINE attrs == source.methods[k].attrs
  <2>1. attrs \in Seq([name : STRING, list : BOOLEAN, args : Seq(STRING \X STRING)])
    <3>1. source.methods[k] \in MethodRecord
      BY <1>1
    <3> QED BY <3>1 DEF MethodRecord, Attributes
  <2>2. HasRead(parsed[k + 1], attrs, Len(attrs))
    <3>1. k \in 0..Len(source.methods) /\ AttrsIn(source, k) = attrs
      BY <1>2 DEF AttrsIn
    <3> QED BY <1>3, <3>1
  <2> DEFINE q == parsed[k + 1]
             T == [name : STRING, list : BOOLEAN, args : Seq(STRING \X STRING)]
  <2>3. attrs \in Seq(T) /\ HasRead(q, attrs, Len(attrs))
    BY <2>1, <2>2
  <2> HIDE DEF attrs, q, T
  <2>4. (q["msg"] # <<>> /\ q["msg"][1].type = type)
          <=> \E a \in ToSet(attrs) : a.name = "msg" /\ a.list /\ a.args[1][1] = type
    BY <2>3, MarkRead
  <2> QED BY <2>4 DEF MsgOf, Marked, attrs, q
<1>5. ASSUME NEW type PROVE Variants(type) = Ascending(MarkedIn(source, type))
  <2>1. {k \in DOMAIN item.methods : MsgOf(k) # <<>> /\ MsgOf(k)[1].type = type} = MarkedIn(source, type)
    BY <1>4 DEF Ready, MarkedIn
  <2> QED BY <2>1 DEF Variants
<1>6. ASSUME NEW type
      PROVE  /\ MarkedIn(source, type) \subseteq 1..Len(source.methods)
             /\ Cardinality(MarkedIn(source, type)) \in Nat
             /\ Len(Ascending(MarkedIn(source, type))) = Cardinality(MarkedIn(source, type))
             /\ DOMAIN Ascending(MarkedIn(source, type)) = 1..Cardinality(MarkedIn(source, type))
             /\ \A v \in DOMAIN Ascending(MarkedIn(source, type)) :
                  Ascending(MarkedIn(source, type))[v] \in MarkedIn(source, type)
             /\ Ascending(MarkedIn(source, type)) = <<>> <=> MarkedIn(source, type) = {}
  <2> DEFINE ks == MarkedIn(source, type)
             a == Ascending(ks)
             c == Cardinality(ks)
  <2>1. ks \subseteq 1..Len(source.methods)
    BY <1>2 DEF MarkedIn
  <2> HIDE DEF ks
  <2>2. /\ c \in Nat /\ DOMAIN a = 1..c /\ \A v \in 1..c : a[v] \in ks
        /\ \A k \in ks : Rank(ks, k) \in 1..c
    BY <1>2, <2>1, AscendingPlaces
  <2>3. Len(a) = c
    BY <2>2
  <2>4. a = <<>> <=> ks = {}
    <3>1. ks = {} => a = <<>>
      BY NoPlace
    <3>2. a = <<>> => c = 0
      BY <2>3
    <3>3. c = 0 => ks = {}
      BY <2>2
    <3> QED BY <3>1, <3>2, <3>3
  <2> HIDE DEF a, c
  <2> QED BY <2>1, <2>2, <2>3, <2>4 DEF ks, a, c
<1>7. Overridden = ReadOverrides(source)
  <2> DEFINE attrs == source.attrs
  <2>1. attrs \in Seq([name : STRING, list : BOOLEAN, args : Seq(STRING \X STRING)])
    BY <1>1 DEF Attributes
  <2>2. HasRead(parsed[1], attrs, Len(attrs))
    <3>1. 0 \in 0..Len(source.methods) /\ AttrsIn(source, 0) = attrs /\ 0 + 1 = 1
      BY <1>2 DEF AttrsIn
    <3> QED BY <1>3, <3>1
  <2> HIDE DEF attrs
  <2> QED BY <2>1, <2>2, OverridesRead DEF Overridden, ReadOverrides, attrs
<1>8. ASSUME NEW type
      PROVE  /\ Variants(type) = Ascending(MarkedIn(source, type))
             /\ MarkedIn(source, type) \subseteq 1..Len(source.methods)
             /\ Cardinality(MarkedIn(source, type)) \in Nat
             /\ Len(Variants(type)) = Cardinality(MarkedIn(source, type))
             /\ DOMAIN Variants(type) = 1..Cardinality(MarkedIn(source, type))
             /\ \A v \in DOMAIN Variants(type) : Variants(type)[v] \in MarkedIn(source, type)
             /\ Variants(type) = <<>> <=> MarkedIn(source, type) = {}
  BY <1>5, <1>6
<1> QED BY ONLY <1>1, <1>2, <1>7, <1>8

\* All but the first two of a sequence.
LEMMA FromThird ==
  ASSUME NEW T, NEW s \in Seq(T)
  PROVE  Selected(s, 3..Len(s)) = [n \in 1..(Len(s) - 2) |-> s[n + 2]]
<1> DEFINE L == Len(s)
           ks == 3..L
<1>1. L \in Nat
  OBVIOUS
<1> HIDE DEF L
<1>2. CASE 2 <= L
  <2>1. Cardinality(2 + 1..L) = L - 2 /\ \A n \in 1..L - 2 : Ascending(2 + 1..L)[n] = 2 + n
    BY <1>1, <1>2, AllPlaces
  <2>2. 2 + 1..L = ks /\ \A n \in 1..L - 2 : 2 + n = n + 2
    BY <1>1
  <2>3. Cardinality(ks) = L - 2 /\ \A n \in 1..L - 2 : Ascending(ks)[n] = n + 2
    BY <2>1, <2>2
  <2> HIDE DEF ks
  <2>4. Selected(s, ks) = [n \in 1..L - 2 |-> s[n + 2]]
    BY <2>3 DEF Selected
  <2> QED BY <2>4 DEF L, ks
<1>3. CASE ~(2 <= L)
  <2>1. ks = {} /\ 1..L - 2 = {}
    BY <1>1, <1>3
  <2>2. Selected(s, {}) = <<>>
    BY NoPlace DEF Selected
  <2>3. [n \in {} |-> s[n + 2]] = <<>>
    OBVIOUS
  <2> HIDE DEF ks
  <2>4. Selected(s, ks) = [n \in 1..L - 2 |-> s[n + 2]]
    BY <2>1, <2>2, <2>3
  <2> QED BY <2>4 DEF L, ks
<1> QED BY <1>2, <1>3

\* Without patterns all parameters after the context are fields.
LEMMA FieldsAll ==
  ASSUME NEW method \in MethodRecord, \A n \in 3..Len(method.inputs) : method.inputs[n].name # ""
  PROVE  Fields(method) = [n \in 1..(Len(method.inputs) - 2) |-> method.inputs[n + 2]]
<1>1. method.inputs \in Seq(InputRecord)
  BY DEF MethodRecord, Inputs, InputRecord
<1>2. Fields(method) = Selected(method.inputs, 3..Len(method.inputs))
  BY DEF Fields
<1> QED BY <1>1, <1>2, FromThird

\* Entry points are made for what is marked.
LEMMA EntryPointsMarked ==
  ASSUME Ready, Variants("instantiate") # <<>>
  PROVE  EntryPoints = EntryPointsFor(source)
<1>1. \A type : Variants(type) # <<>> <=> \E k \in DOMAIN source.methods : Marked(source.methods[k], type)
  BY WhenReady DEF MarkedIn
<1>2. \A type : type \in EnumTypes \cup {"instantiate"} \cup {t \in {"migrate", "reply"} : Variants(t) # <<>>}
                  <=> type \in Types /\ (type \in EnumTypes \/ Variants(type) # <<>>)
  BY DEF Types, EnumTypes
<1>3. Overridden = ReadOverrides(source)
  BY WhenReady
<1> QED BY <1>1, <1>2, <1>3 DEF EntryPoints, EntryPointsFor

\* A message is made of every marked method, of all its parameters.
LEMMA OnceMade ==
  ASSUME Ready,
         \A type \in StructTypes : Variants(type) = <<>> \/ Len(Variants(type)) = 1,
         \A type \in EnumTypes \cup StructTypes : \A k \in ToSet(Variants(type)) : VariantErrors(k) = {}
  PROVE  Once(source, SvModule)
<1> SUFFICES ASSUME NEW type \in Types \ {"reply"}
             PROVE  LET marked == Where(source.methods, LAMBDA method : Marked(method, type))
                        variants == IF type \in DOMAIN SvModule.messages
                                    THEN SvModule.messages[type].variants ELSE <<>>
                    IN /\ Len(variants) = Len(marked)
                       /\ \A v \in DOMAIN marked :
                            /\ variants[v].function = marked[v].name
                            /\ [n \in DOMAIN variants[v].fields |-> NameAndAttrs(variants[v].fields[n])]
                                 = [n \in 1..(Len(marked[v].inputs) - 2) |-> NameAndAttrs(marked[v].inputs[n + 2])]
  BY DEF Once
<1> DEFINE marked == Where(source.methods, LAMBDA method : Marked(method, type))
           variants == IF type \in DOMAIN SvModule.messages THEN SvModule.messages[type].variants ELSE <<>>
           ks == MarkedIn(source, type)
           c == Cardinality(ks)
<1>1. type \in EnumTypes \cup StructTypes
  BY DEF Types, EnumTypes, StructTypes
<1>2. /\ source.methods \in Seq(MethodRecord) /\ c \in Nat /\ Variants(type) = Ascending(ks)
      /\ Len(Variants(type)) = c /\ DOMAIN Variants(type) = 1..c
      /\ \A v \in 1..c : Variants(type)[v] \in ks
      /\ ks \subseteq DOMAIN source.methods
  <2>1. ks \subseteq DOMAIN source.methods
    BY DEF MarkedIn
  <2> QED BY <2>1, WhenReady
<1>3. marked = [v \in 1..c |-> source.methods[Ascending(ks)[v]]]
  BY DEF Where, Selected, MarkedIn
<1>4. variants = [v \in 1..c |-> Variant(Variants(type)[v])]
  <2>1. SvModule.messages = [t \in MessageTypes |-> Message(t)]
    BY DEF SvModule
  <2>2. Message(type).variants = [v \in DOMAIN Variants(type) |-> Variant(Variants(type)[v])]
    BY DEF Message
  <2>3. CASE type \in MessageTypes
    <3>1. variants = Message(type).variants
      BY <2>1, <2>3
    <3> QED BY <1>2, <2>2, <3>1
  <2>4. CASE type \notin MessageTypes
    <3>1. variants = <<>>
      BY <2>1, <2>4
    <3>2. Variants(type) = <<>>
      BY <1>1, <2>4 DEF MessageTypes
    <3>3. c = 0
      BY <1>2, <3>2
    <3>4. [v \in 1..0 |-> Variant(Variants(type)[v])] = <<>>
      OBVIOUS
    <3> HIDE DEF variants, c
    <3> QED BY <3>1, <3>3, <3>4
  <2> QED BY <2>3, <2>4
<1>5. Len(variants) = c /\ Len(marked) = c /\ DOMAIN marked = 1..c
  <2> HIDE DEF variants, marked, c
  <2> QED BY <1>2, <1>3, <1>4
<1>6. ASSUME NEW v \in 1..c
      PROVE  /\ variants[v].function = marked[v].name
             /\ [n \in DOMAIN variants[v].fields |-> NameAndAttrs(variants[v].fields[n])]
                  = [n \in 1..(Len(marked[v].inputs) - 2) |-> NameAndAttrs(marked[v].inputs[n + 2])]
  <2> DEFINE k == Variants(type)[v]
             method == source.methods[k]
  <2>1. variants[v] = Variant(k)
    <3> HIDE DEF variants
    <3> QED BY <1>4
  <2>2. marked[v] = method
    <3> HIDE DEF marked
    <3> QED BY <1>2, <1>3
  <2>3. method \in MethodRecord /\ item.methods[k] = method
    BY <1>2 DEF Ready
  <2>4. \A n \in 3..Len(method.inputs) : method.inputs[n].name # ""
    <3>1. k \in ToSet(Variants(type))
      BY <1>2 DEF ToSet
    <3>2. VariantErrors(k) = {}
      BY <1>1, <3>1
    <3> QED BY <2>3, <3>2 DEF VariantErrors
  <2>5. Fields(method) = [n \in 1..(Len(method.inputs) - 2) |-> method.inputs[n + 2]]
    <3> HIDE DEF method, k
    <3> QED BY <2>3, <2>4, FieldsAll
  <2>6. /\ Variant(k).function = method.name
        /\ Variant(k).fields = [n \in DOMAIN Fields(method) |->
                                 [name |-> Fields(method)[n].name, attrs |-> Fields(method)[n].attrs,
                                  type |-> Stripped(Fields(method)[n].type)]]
    BY <2>3 DEF Variant
  <2> HIDE DEF variants, marked, c, ks, k, method
  <2>7. /\ DOMAIN Variant(k).fields = 1..(Len(method.inputs) - 2)
        /\ \A n \in 1..(Len(method.inputs) - 2) :
             NameAndAttrs(Variant(k).fields[n]) = NameAndAttrs(method.inputs[n + 2])
    <3> DEFINE e == Len(method.inputs) - 2
               F == Fields(method)
               made == Variant(k).fields
    <3>1. DOMAIN F = 1..e /\ \A n \in 1..e : F[n] = method.inputs[n + 2]
      BY <2>5
    <3>2. DOMAIN made = DOMAIN F /\ \A n \in DOMAIN F : made[n].name = F[n].name /\ made[n].attrs = F[n].attrs
      <4> HIDE DEF F
      <4> QED BY <2>6 DEF F
    <3> HIDE DEF e, F, made
    <3>3. DOMAIN made = 1..e /\ \A n \in 1..e : NameAndAttrs(made[n]) = NameAndAttrs(method.inputs[n + 2])
      BY <3>1, <3>2 DEF NameAndAttrs
    <3> QED BY <3>3 DEF e, made
  <2> DEFINE fields == Variant(k).fields
             d == 1..(Len(method.inputs) - 2)
  <2>8. DOMAIN fields = d /\ \A n \in d : NameAndAttrs(fields[n]) = NameAndAttrs(method.inputs[n + 2])
    BY <2>7
  <2> HIDE DEF fields, d
  <2>9. [n \in DOMAIN fields |-> NameAndAttrs(fields[n])] = [n \in d |-> NameAndAttrs(method.inputs[n + 2])]
    BY <2>8
  <2> QED BY <2>1, <2>2, <2>6, <2>9 DEF fields, d
<1> QED BY <1>5, <1>6

\* There is an accessor for every message.
LEMMA ApiMade ==
  ASSUME Ready, source.kind \in {"contract", "interface"},
         source.kind = "interface" => \A type \in StructTypes : Variants(type) = <<>>,
         source.kind = "contract" => /\ Len(Variants("instantiate")) = 1
                                     /\ Variants("migrate") = <<>> \/ Len(Variants("migrate")) = 1
  PROVE  /\ Resolves(SvModule) /\ DOMAIN SvModule.messages = MessageTypes
         /\ \A type \in MessageTypes : SvModule.messages[type] = Message(type)
         /\ source.kind = "contract" => DOMAIN SvModule.api = ContractApi(source)
<1>1. /\ SvModule.messages = [type \in MessageTypes |-> Message(type)]
      /\ SvModule.api = [type \in Accessors |-> Accessor(type)]
  BY DEF SvModule, Api
<1>2. Accessors = MessageTypes
  <2>1. Len(<<>>) # 1
    OBVIOUS
  <2>2. CASE source.kind = "interface"
    BY <2>1, <2>2 DEF Ready, Accessors, MessageTypes
  <2>3. CASE source.kind = "contract"
    BY <2>1, <2>3 DEF Ready, Accessors, MessageTypes, StructTypes
  <2> QED BY <2>2, <2>3
<1>3. \A type : Message(type).declares = Accessor(type)
  BY DEF Message, Accessor
<1>4. ASSUME source.kind = "contract" PROVE Accessors = ContractApi(source)
  <2>1. Variants("migrate") # <<>> <=> \E k \in DOMAIN source.methods : Marked(source.methods[k], "migrate")
    BY WhenReady DEF MarkedIn
  <2> QED BY <1>4, <2>1 DEF Ready, Accessors, ContractApi
<1> QED BY <1>1, <1>2, <1>3, <1>4 DEF Resolves

\* The generics of an item, and its predicates.
LEMMA GenericsTyped ==
  ASSUME NEW it, IsItem(it), it.kind \in {"contract", "interface"}
  PROVE  /\ \E U : Generics(it) \in Seq(U)
         /\ Wheres(it) \in Seq(Paths)
<1> DEFINE A == [name : STRING, bounds : Paths]
           W == WithoutError(it.assoc)
           ks == {k \in DOMAIN it.assoc : it.assoc[k].name # "Error"}
<1>1. it.params \in Seq(STRING) /\ it.assoc \in Seq(A) /\ it.wheres \in Seq(Paths)
  BY DEF IsItem
<1>2. W \in Seq(A)
  <2>1. W = Selected(it.assoc, ks) /\ ks \subseteq DOMAIN it.assoc
    BY DEF WithoutError, Where
  <2> HIDE DEF W, ks, A
  <2> QED BY <1>1, <2>1, Wherever
<1>3. Len(W) \in Nat /\ DOMAIN W = 1..Len(W) /\ \A k \in DOMAIN W : W[k] \in A
  <2> HIDE DEF W, A
  <2> QED BY <1>2
<1>4. \A k \in DOMAIN W : W[k].name \in STRING /\ W[k].bounds \in Paths
  <2>1. \A x \in A : x.name \in STRING /\ x.bounds \in Paths
    OBVIOUS
  <2> HIDE DEF W, A
  <2> QED BY <1>3, <2>1
<1> HIDE DEF W, A, ks
<1>5. CASE it.kind = "contract"
  BY <1>1, <1>5 DEF Generics, Wheres
<1>6. CASE it.kind # "contract"
  <2>1. Generics(it) = [k \in DOMAIN W |-> W[k].name] /\ Wheres(it) = [k \in DOMAIN W |-> <<<<W[k].name>>>> \o W[k].bounds]
    BY <1>6 DEF Generics, Wheres, W
  <2>2. Generics(it) \in Seq(STRING)
    BY <1>3, <1>4, <2>1
  <2>3. ASSUME NEW s \in STRING, NEW p \in Paths PROVE <<<<s>>>> \o p \in Paths
    <3>1. <<s>> \in Path
      BY DEF Path
    <3>2. <<<<s>>>> \in Seq(Path) /\ p \in Seq(Path)
      BY <3>1 DEF Paths
    <3> QED BY <3>2 DEF Paths
  <2>4. Wheres(it) \in Seq(Paths)
    <3> DEFINE f == [k \in 1..Len(W) |-> <<<<W[k].name>>>> \o W[k].bounds]
    <3>1. \A k \in 1..Len(W) : f[k] \in Paths
      BY <1>3, <1>4, <2>3
    <3>2. Wheres(it) = f /\ f = [k \in 1..Len(W) |-> f[k]]
      BY <1>3, <2>1
    <3> HIDE DEF f
    <3>3. [k \in 1..Len(W) |-> f[k]] \in Seq(Paths)
      BY <1>3, <3>1
    <3> QED BY <3>2, <3>3
  <2> QED BY <2>2, <2>4
<1> QED BY <1>5, <1>6

\* Of a predicate no generic is hidden.
LEMMA WhereUsed ==
  ASSUME NEW it, IsItem(it), it.kind \in {"contract", "interface"}, ~HiddenUse(it), NEW w \in ToSet(Wheres(it))
  PROVE  ToSet(Used(w, Generics(it))) = Mentions(Generics(it), w)
<1> DEFINE G == Generics(it)
<1>1. w \in Paths
  BY GenericsTyped DEF ToSet
<1>2. /\ "Self" \notin ToSet(G) /\ ~Hidden(G, Stripped(w))
      /\ \A path \in ToSet(w) : ~(Len(path) > 1 /\ path[1] = "Self")
  BY DEF IsItem, HiddenUse
<1>3. w \in Seq(Seq(STRING)) /\ \A path \in ToSet(w) : path \in Path /\ path \in Seq(STRING)
  <2>1. w \in Seq(Path) /\ \A path \in Path : path \in Seq(STRING)
    BY <1>1 DEF Paths, Path
  <2>2. \A k \in DOMAIN w : w[k] \in Path
    BY <2>1
  <2>3. w \in Seq(Seq(STRING))
    <3>1. Len(w) \in Nat /\ w = [k \in 1..Len(w) |-> w[k]] /\ \A k \in 1..Len(w) : w[k] \in Path
      BY <2>1
    <3>2. \A k \in 1..Len(w) : w[k] \in Seq(STRING)
      BY <2>1, <3>1
    <3> QED BY <3>1, <3>2
  <2> QED BY <2>1, <2>2, <2>3 DEF ToSet
<1> HIDE DEF G
<1>4. ASSUME NEW path \in ToSet(w) PROVE StrippedPath(path) = path \/ path = <<"Self">>
  <2>1. path \in Path /\ path \in Seq(STRING)
    BY <1>3
  <2>2. CASE path = <<>>
    <3>1. ToSet(path) = {}
      BY <2>2 DEF ToSet
    <3> QED BY <2>1, <3>1, NoSelf
  <2>3. CASE path # <<>> /\ path[1] # "Self"
    BY <2>1, <2>3, PathStripped
  <2>4. CASE path # <<>> /\ path[1] = "Self"
    <3>1. Len(path) \in Nat /\ Len(path) # 0 /\ ~(Len(path) > 1)
      BY <1>2, <2>1, <2>4
    <3>2. \A n \in Nat : n # 0 /\ ~(n > 1) => n = 1
      OBVIOUS
    <3>3. Len(path) = 1
      BY <3>1, <3>2
    <3>4. \A p \in Seq(STRING) : Len(p) = 1 => p = <<p[1]>>
      OBVIOUS
    <3> QED BY <2>1, <2>4, <3>3, <3>4
  <2> QED BY <2>2, <2>3, <2>4
<1>5. ASSUME NEW path \in ToSet(w), NEW g \in ToSet(G), Len(path) > 1 PROVE ~Speaks(path, g)
  <2> SUFFICES ASSUME Speaks(path, g) PROVE FALSE
    OBVIOUS
  <2>1. path # <<>> /\ path[1] = g /\ g # "Self"
    BY <1>2 DEF Speaks
  <2>2. StrippedPath(path) = path
    BY <1>3, <2>1, PathStripped
  <2>3. path \in ToSet(Stripped(w))
    BY <2>2 DEF Stripped, StrippedPath, ToSet
  <2> QED BY <1>2, <1>5, <2>3 DEF Hidden
<1>6. Mentions(G, w) = {g \in ToSet(G) : <<g>> \in ToSet(w)}
  BY <1>2, <1>3, <1>4, <1>5, Mentioned
<1>7. ToSet(Used(w, G)) = {g \in ToSet(G) : <<g>> \in ToSet(w)}
  BY <1>3, UsedAre
<1> QED BY <1>6, <1>7 DEF G

\* What a message's fields and responses are, and what is visited for it.
LEMMA DataMade ==
  ASSUME Ready, NEW type
  PROVE  \E R : /\ VisitedBy(type) \in Seq(Seq(R))
                /\ ToSet(VisitedBy(type)) = UNION {ToSet(t) : t \in DataOf(Message(type))}
                /\ \A t \in DataOf(Message(type)) :
                     /\ t \in Seq(Seq(R))
                     /\ \A path \in ToSet(t) : StrippedPath(path) = path \/ path = <<"Self">>
                     /\ \/ \E resp : t = <<<<resp>>>>
                        \/ t = <<>>
                        \/ \E method \in ToSet(source.methods) : \E s \in TypesOf(method) : t = Stripped(s)
<1> DEFINE ms == source.methods
           vs == Variants(type)
           c == Cardinality(MarkedIn(source, type))
           R == STRING \cup {MsgOf(k)[1].resp : k \in DOMAIN ms}
           Method(v) == ms[vs[v]]
           M(v) == MsgOf(vs[v])[1]
           seqs == [v \in DOMAIN vs |-> Visited(Method(v), M(v))]
           D == DataOf(Message(type))
<1>1. ms \in Seq(MethodRecord) /\ c \in Nat /\ DOMAIN vs = 1..c /\ \A v \in 1..c : vs[v] \in DOMAIN ms
  <2>1. \A v \in DOMAIN vs : vs[v] \in MarkedIn(source, type)
    BY WhenReady
  <2>2. MarkedIn(source, type) \subseteq DOMAIN ms
    BY DEF MarkedIn
  <2> QED BY <2>1, <2>2, WhenReady
<1>2. \A v \in 1..c : Method(v) \in MethodRecord /\ Method(v) \in ToSet(ms) /\ STRING \subseteq R /\ M(v).resp \in R
  BY <1>1 DEF ToSet
<1>3. item.methods = ms
  BY DEF Ready
<1>4. VisitedBy(type) = FlattenSeq(seqs)
  BY <1>3 DEF VisitedBy
<1>5. ASSUME NEW v \in 1..c
      PROVE  /\ {field.type : field \in ToSet(Variant(vs[v]).fields)} \cup {Variant(vs[v]).returns}
                  = DataTypes(Method(v), M(v))
  <2> DEFINE k == vs[v]
             f == Fields(ms[k])
             g == Variant(k).fields
  <2>1. g = [n \in DOMAIN f |-> [name |-> f[n].name, attrs |-> f[n].attrs, type |-> Stripped(f[n].type)]]
    BY <1>3 DEF Variant
  <2>2. Variant(k).returns = ReturnsOf(ms[k], MsgOf(k)[1])
    BY <1>3 DEF Variant, ReturnsOf
  <2> HIDE DEF f, g
  <2>3. DOMAIN g = DOMAIN f /\ \A n \in DOMAIN f : g[n].type = Stripped(f[n].type)
    BY <2>1
  <2>4. {field.type : field \in ToSet(g)} = {Stripped(f[n].type) : n \in DOMAIN f}
    BY <2>3 DEF ToSet
  <2> QED BY <2>2, <2>4 DEF DataTypes, f, g
<1>6. D = UNION {DataTypes(Method(v), M(v)) : v \in 1..c}
  <2> DEFINE variants == Message(type).variants
  <2>1. variants = [v \in 1..c |-> Variant(vs[v])]
    BY <1>1 DEF Message
  <2> HIDE DEF variants
  <2>2. ToSet(variants) = {Variant(vs[v]) : v \in 1..c}
    BY <2>1 DEF ToSet
  <2>3. D = UNION {{field.type : field \in ToSet(x.fields)} \cup {x.returns} : x \in ToSet(variants)}
    BY DEF DataOf, variants
  <2> HIDE DEF D, c, vs, Method, M
  <2> QED BY <1>5, <2>2, <2>3
<1>7. ASSUME NEW v \in 1..c
      PROVE  /\ seqs[v] \in Seq(Seq(R))
             /\ ToSet(seqs[v]) = UNION {ToSet(t) : t \in DataTypes(Method(v), M(v))}
  <2> DEFINE method == Method(v)
             msg == M(v)
  <2>1. method \in MethodRecord /\ STRING \subseteq R /\ msg.resp \in R
    BY <1>2
  <2>2. seqs[v] = Visited(method, msg)
    BY <1>1
  <2> HIDE DEF method, msg, R, seqs
  <2>3. Visited(method, msg) \in Seq(Seq(R)) /\ ToSet(Visited(method, msg)) = UNION {ToSet(t) : t \in DataTypes(method, msg)}
    BY <2>1, VisitedAre
  <2> QED BY <2>2, <2>3 DEF method, msg
<1>8. seqs \in Seq(Seq(Seq(R))) /\ DOMAIN seqs = 1..c
  <2>1. seqs = [v \in 1..c |-> seqs[v]]
    BY <1>1
  <2>2. \A v \in 1..c : seqs[v] \in Seq(Seq(R))
    BY <1>7
  <2> HIDE DEF seqs, R, c
  <2>3. [v \in 1..c |-> seqs[v]] \in Seq(Seq(Seq(R)))
    BY <1>1, <2>2
  <2> QED BY <2>1, <2>3
<1>9. FlattenSeq(seqs) \in Seq(Seq(R)) /\ ToSet(FlattenSeq(seqs)) = UNION {ToSet(seqs[v]) : v \in 1..c}
  <2> HIDE DEF seqs, R, c
  <2> QED BY <1>8, Flat
<1>10. UNION {ToSet(seqs[v]) : v \in 1..c} = UNION {ToSet(t) : t \in D}
  <2> HIDE DEF seqs, R, c, D, Method, M
  <2> QED BY <1>6, <1>7
<1>11. ASSUME NEW v \in 1..c, NEW t \in DataTypes(Method(v), M(v))
       PROVE  /\ t \in Seq(Seq(R))
              /\ \A path \in ToSet(t) : StrippedPath(path) = path \/ path = <<"Self">>
              /\ \/ \E resp : t = <<<<resp>>>>
                 \/ t = <<>>
                 \/ \E method \in ToSet(source.methods) : \E s \in TypesOf(method) : t = Stripped(s)
  <2> DEFINE method == Method(v)
             msg == M(v)
  <2>1. /\ method \in MethodRecord /\ method \in ToSet(ms) /\ STRING \subseteq R
        /\ msg.resp \in R /\ t \in DataTypes(method, msg)
    BY <1>2, <1>11
  <2> HIDE DEF method, msg, R
  <2>2. /\ t \in Seq(Seq(R))
        /\ \A path \in ToSet(t) : StrippedPath(path) = path \/ path = <<"Self">>
        /\ t = <<<<msg.resp>>>> \/ t = <<>> \/ \E s \in TypesOf(method) : t = Stripped(s)
    BY <2>1, DataTyped
  <2> QED BY <2>1, <2>2
<1> HIDE DEF seqs, R, c, D, Method, M
<1>12. ASSUME NEW t \in D
       PROVE  /\ t \in Seq(Seq(R))
              /\ \A path \in ToSet(t) : StrippedPath(path) = path \/ path = <<"Self">>
              /\ \/ \E resp : t = <<<<resp>>>>
                 \/ t = <<>>
                 \/ \E method \in ToSet(source.methods) : \E s \in TypesOf(method) : t = Stripped(s)
  <2>1. PICK v \in 1..c : t \in DataTypes(Method(v), M(v))
    BY <1>6, <1>12
  <2> QED BY <1>11, <2>1
<1>13. VisitedBy(type) \in Seq(Seq(R)) /\ ToSet(VisitedBy(type)) = UNION {ToSet(t) : t \in D}
  BY <1>4, <1>9, <1>10
<1> QED BY <1>12, <1>13 DEF D

\* Every message stands alone.
LEMMA AloneMade ==
  ASSUME Ready, NEW type, ~HiddenUse(source)
  PROVE  StandsAlone(source, type, Message(type))
<1> DEFINE G == Generics(source)
           m == Message(type)
           D == DataOf(m)
           visited == VisitedBy(type)
<1>1. /\ IsItem(source) /\ source.kind \in {"contract", "interface"} /\ "Self" \notin ToSet(G)
      /\ \A k, l \in DOMAIN G : G[k] = G[l] => k = l
  BY WrittenIsItem DEF Ready, IsItem
<1>2. Generics(item) = G /\ Wheres(item) = Wheres(source) /\ item.kind = source.kind
  BY DEF Ready, Generics, Wheres, WithoutError
<1>3. PICK R : /\ visited \in Seq(Seq(R)) /\ ToSet(visited) = UNION {ToSet(t) : t \in D}
               /\ \A t \in D : /\ t \in Seq(Seq(R))
                               /\ \A path \in ToSet(t) : StrippedPath(path) = path \/ path = <<"Self">>
                               /\ \/ \E resp : t = <<<<resp>>>>
                                  \/ t = <<>>
                                  \/ \E method \in ToSet(source.methods) : \E s \in TypesOf(method) : t = Stripped(s)
  <2> HIDE DEF m, D, visited, G
  <2>1. visited = VisitedBy(type) /\ D = DataOf(Message(type))
    BY DEF visited, D, m
  <2> QED BY <2>1, DataMade
<1>4. PICK U : G \in Seq(U)
  BY <1>1, GenericsTyped
<1>5. /\ m.declares = Used(visited, G) /\ m.dispatch = Unused(visited, G)
      /\ m.phantom = (type \in EnumTypes /\ m.declares # <<>>)
      /\ m.wheres = IF source.kind = "contract" /\ type \in EnumTypes THEN <<>>
                    ELSE KeptWheres(Wheres(source), G, m.declares)
  BY <1>2 DEF Message, UsedGenerics
<1> HIDE DEF G, m, D, visited
<1>6. ASSUME NEW t \in D PROVE Mentions(G, t) = {g \in ToSet(G) : <<g>> \in ToSet(t)}
  <2>1. ASSUME NEW path \in ToSet(t), NEW g \in ToSet(G), Len(path) > 1 PROVE ~Speaks(path, g)
    <3>1. ASSUME NEW resp, t = <<<<resp>>>> PROVE FALSE
      <4>1. path = <<resp>> /\ Len(<<resp>>) = 1
        BY <3>1 DEF ToSet
      <4>2. ~(1 > 1)
        OBVIOUS
      <4> QED BY <2>1, <4>1, <4>2
    <3>2. t # <<>>
      BY DEF ToSet
    <3>3. ASSUME NEW method \in ToSet(source.methods), NEW s \in TypesOf(method), t = Stripped(s)
          PROVE  ~Speaks(path, g)
      <4>1. ~Hidden(G, Stripped(s))
        BY DEF HiddenUse, G
      <4> QED BY <2>1, <3>3, <4>1 DEF Hidden
    <3> QED BY <1>3, <3>1, <3>2, <3>3
  <2>2. \A path \in ToSet(t) : path \in Seq(R)
    <3>1. t \in Seq(Seq(R))
      BY <1>3
    <3> QED BY <3>1 DEF ToSet
  <2> QED BY <1>1, <1>3, <2>1, <2>2, Mentioned
<1>7. ToSet(m.declares) = {g \in ToSet(G) : <<g>> \in ToSet(visited)}
  BY <1>3, <1>5, UsedAre
<1>8. ToSet(m.declares) = UNION {Mentions(G, t) : t \in D}
  BY <1>3, <1>6, <1>7
<1>9. ToSet(m.declares \o m.dispatch) = ToSet(G) /\ Len(m.declares \o m.dispatch) = Len(G)
  BY <1>1, <1>3, <1>4, <1>5, Divided
<1>10. ASSUME source.kind = "interface" \/ type \in StructTypes, NEW w \in ToSet(Wheres(source))
       PROVE  w \in ToSet(m.wheres) <=> Mentions(G, w) \subseteq ToSet(m.declares)
  <2> DEFINE ws == Wheres(source)
             ks == {k \in DOMAIN ws : ToSet(Used(ws[k], G)) \subseteq ToSet(m.declares)}
  <2>1. m.wheres = KeptWheres(ws, G, m.declares)
    BY <1>5, <1>10 DEF StructTypes, EnumTypes
  <2>2. KeptWheres(ws, G, m.declares) = Selected(ws, ks) /\ ks \subseteq DOMAIN ws
    BY DEF KeptWheres, Where
  <2>3. ws \in Seq(Paths)
    BY <1>1, GenericsTyped
  <2>4. ToSet(Selected(ws, ks)) = {ws[k] : k \in ks}
    <3> HIDE DEF ws, ks
    <3> QED BY <2>2, <2>3, Wherever
  <2>5. w \in {ws[k] : k \in ks} <=> ToSet(Used(w, G)) \subseteq ToSet(m.declares)
    BY <1>10 DEF ToSet
  <2>6. ToSet(Used(w, G)) = Mentions(G, w)
    BY <1>1, WhereUsed DEF G
  <2> QED BY <2>1, <2>2, <2>4, <2>5, <2>6
<1> QED BY <1>5, <1>8, <1>9, <1>10 DEF StandsAlone, G, m, D
-----------------------------------------------------------------------------
\* What is generated for an item in whose expansion no error is found.
LEMMA SvMade ==
  ASSUME Ready, Macro \in {"contract", "interface"}, Macro = source.kind, ExpandErrors = {}
  PROVE  /\ SvFor(source, SvModule)
         /\ source.kind = "contract" => DOMAIN SvModule.api = ContractApi(source)
<1>1. \A type : Len(Variants(type)) \in Nat /\ (Len(Variants(type)) = 0 => Variants(type) = <<>>)
  <2> SUFFICES ASSUME NEW type PROVE Len(Variants(type)) \in Nat /\ (Len(Variants(type)) = 0 => Variants(type) = <<>>)
    OBVIOUS
  <2> DEFINE ks == MarkedIn(source, type)
             c == Cardinality(ks)
  <2>1. c \in Nat /\ Len(Variants(type)) = c /\ Variants(type) = Ascending(ks)
    BY WhenReady
  <2>2. c = 0 => Ascending(ks) = <<>>
    <3> SUFFICES ASSUME c = 0 PROVE Ascending(ks) = <<>>
      OBVIOUS
    <3>1. Ascending(ks) = [n \in 1..0 |-> CHOOSE k \in ks : Rank(ks, k) = n]
      BY DEF Ascending
    <3> HIDE DEF ks
    <3> QED BY <3>1
  <2> HIDE DEF c, ks
  <2> QED BY <2>1, <2>2
<1>2. CASE Macro = "contract"
  <2>1. MissingInstantiate = {} /\ {e \in {"more than one"} : \E type \in StructTypes : Len(Variants(type)) > 1} = {}
    BY <1>2 DEF ExpandErrors, StructErrors
  <2>2. Variants("instantiate") # <<>> /\ \A type \in StructTypes : ~(Len(Variants(type)) > 1)
    BY <2>1 DEF MissingInstantiate
  <2>3. \A n \in Nat : ~(n > 1) => n = 0 \/ n = 1
    OBVIOUS
  <2>4. \A type \in StructTypes : Variants(type) = <<>> \/ Len(Variants(type)) = 1
    BY <1>1, <2>2, <2>3
  <2>5. Len(Variants("instantiate")) = 1 /\ (Variants("migrate") = <<>> \/ Len(Variants("migrate")) = 1)
    BY <2>2, <2>4 DEF StructTypes
  <2>6. EnumTypes \cup StructTypes \subseteq Expanded
    BY <1>2 DEF Expanded
  <2>7. \A type \in EnumTypes \cup StructTypes : \A k \in ToSet(Variants(type)) : VariantErrors(k) = {}
    BY <2>6 DEF ExpandErrors
  <2>8. Once(source, SvModule)
    BY <2>4, <2>7, OnceMade
  <2>9. /\ Resolves(SvModule) /\ DOMAIN SvModule.messages = MessageTypes
        /\ \A type \in MessageTypes : SvModule.messages[type] = Message(type)
        /\ DOMAIN SvModule.api = ContractApi(source)
    BY <1>2, <2>5, ApiMade
  <2> QED BY <2>8, <2>9, AloneMade DEF SvFor
<1>3. CASE Macro = "interface"
  <2>1. {e \in {"struct in interface"} : \E type \in StructTypes : Variants(type) # <<>>} = {}
    BY <1>3 DEF ExpandErrors, StructErrors
  <2>2. \A type \in StructTypes : Variants(type) = <<>>
    BY <2>1
  <2>3. EnumTypes \cup StructTypes \subseteq Expanded
    BY <1>3 DEF Expanded
  <2>4. \A type \in EnumTypes \cup StructTypes : \A k \in ToSet(Variants(type)) : VariantErrors(k) = {}
    BY <2>3 DEF ExpandErrors
  <2>5. Once(source, SvModule)
    BY <2>2, <2>4, OnceMade
  <2>6. source.kind = "interface"
    BY <1>3
  <2>7. /\ Resolves(SvModule) /\ DOMAIN SvModule.messages = MessageTypes
        /\ \A type \in MessageTypes : SvModule.messages[type] = Message(type)
    BY <2>2, <2>6, ApiMade
  <2> QED BY <2>5, <2>6, <2>7, AloneMade DEF SvFor
<1> QED BY <1>2, <1>3

\* Errors are only added, so there were none before if there are none after.
LEMMA ReadingStep ==
  ASSUME ExpansionIInv, ~Idle, Read \/ ReadBare \/ Ignore
  PROVE  ExpansionIInv'
<1>1. /\ source' = source /\ item' = item /\ at' = at /\ generated' = generated
      /\ todo # <<>> /\ todo' = Tail(todo)
  BY DEF Read, ReadBare, Ignore, Take
<1> SUFFICES ASSUME errors' = {}
             PROVE  \E n \in 0..Len(source.macros) :
                      /\ IsLeft(source, item, n)
                      /\ at = -1 \/ (n < Len(source.macros) /\ ReadIn(item, at, Tail(todo), parsed'))
                      /\ GeneratedFor(source, generated)
  BY <1>1 DEF ExpansionIInv
<1>2. errors = {}
  BY DEF Read, ReadBare, Ignore
<1>3. PICK n \in 0..Len(source.macros) :
        /\ IsLeft(source, item, n) /\ at # -1
        /\ n < Len(source.macros) /\ ReadIn(item, at, todo, parsed) /\ GeneratedFor(source, generated)
  BY <1>2 DEF ExpansionIInv, Idle
<1>4. Written(source)
  BY DEF ExpansionIInv
<1> DEFINE attrs == AttrsIn(item, at)
           a == Head(todo)
           q == parsed[at + 1]
<1>5. /\ at \in 0..Len(item.methods) /\ Len(item.methods) \in Nat /\ DOMAIN parsed = 1..at + 1
      /\ \A l \in DOMAIN attrs : attrs[l].list \/ attrs[l].args = <<>>
  BY <1>3, <1>4, AttributesLeft DEF ReadIn
<1>6. at + 1 \in DOMAIN parsed
  <2>1. at \in Nat
    BY <1>5
  <2>2. at + 1 \in 1..at + 1
    BY <2>1
  <2> QED BY <1>5, <2>2
<1>7. ASSUME NEW r, parsed' = [parsed EXCEPT ![at + 1] = r],
             \A p \in Nat : /\ p + 1 \in DOMAIN attrs /\ attrs[p + 1] = a /\ HasRead(q, attrs, p)
                            => HasRead(r, attrs, p + 1)
      PROVE  ReadIn(item, at, Tail(todo), parsed')
  <2>1. ReadIn(item, at, Tail(todo), [parsed EXCEPT ![at + 1] = r])
    BY <1>1, <1>3, <1>4, <1>7, ReadOn
  <2> QED BY <1>7, <2>1
<1> HIDE DEF attrs, a, q
<1>8. CASE Read
  <2>1. /\ IsSylvia(a) /\ a.list /\ parsed' = [parsed EXCEPT ![at + 1] = Matched(q, a)] /\ MatchErrors(q, a) = {}
    BY <1>8, <1>6 DEF Read, a, q
  <2>2. \A p \in Nat : p + 1 \in DOMAIN attrs /\ attrs[p + 1] = a /\ HasRead(q, attrs, p)
                         => HasRead(Matched(q, a), attrs, p + 1)
    BY <2>1, OneMoreRead
  <2>3. ReadIn(item, at, Tail(todo), parsed')
    BY <1>7, <2>1, <2>2
  <2> QED BY <1>3, <2>3
<1>9. CASE ReadBare
  <2>1. /\ IsSylvia(a) /\ ~a.list /\ parsed' = [parsed EXCEPT ![at + 1] = Bare(q, a)]
    BY <1>9, <1>6 DEF ReadBare, a, q
  <2>2. \A p \in Nat : p + 1 \in DOMAIN attrs /\ attrs[p + 1] = a /\ HasRead(q, attrs, p)
                         => HasRead(Bare(q, a), attrs, p + 1)
    <3> SUFFICES ASSUME NEW p \in Nat, p + 1 \in DOMAIN attrs, attrs[p + 1] = a, HasRead(q, attrs, p)
                 PROVE  HasRead(Bare(q, a), attrs, p + 1)
      OBVIOUS
    <3>1. a.args = <<>>
      BY <1>5, <2>1
    <3> QED BY <2>1, <3>1, OneMoreRead
  <2>3. ReadIn(item, at, Tail(todo), parsed')
    BY <1>7, <2>1, <2>2
  <2> QED BY <1>3, <2>3
<1>10. CASE Ignore
  <2>1. ~IsSylvia(a) /\ parsed' = parsed
    BY <1>10 DEF Ignore, a
  <2>2. parsed' = [parsed EXCEPT ![at + 1] = q]
    <3>1. parsed \in Seq(ToSet(parsed))
      BY <1>3 DEF ReadIn
    <3>2. \A T : \A s \in Seq(T) : \A k \in DOMAIN s : s = [s EXCEPT ![k] = s[k]]
      OBVIOUS
    <3>3. parsed = [parsed EXCEPT ![at + 1] = parsed[at + 1]]
      BY <1>6, <3>1, <3>2
    <3> QED BY <2>1, <3>3 DEF q
  <2>3. \A p \in Nat : p + 1 \in DOMAIN attrs /\ attrs[p + 1] = a /\ HasRead(q, attrs, p)
                         => HasRead(q, attrs, p + 1)
    BY <2>1, OneMoreRead
  <2>4. ReadIn(item, at, Tail(todo), parsed')
    BY <1>7, <2>2, <2>3
  <2> QED BY <1>3, <2>4
<1> QED BY <1>8, <1>9, <1>10

\* The invariant of the expansion holds of an item as written, ...
LEMMA ExpansionStarts ==
  ASSUME ExpansionInit
  PROVE  ExpansionIInv
<1>1. Written(source) /\ item = source /\ at = -1
  BY DEF ExpansionInit, Written
<1>2. /\ DOMAIN source = ItemFields
      /\ source.macros \in Seq([name : {"contract", "interface", "entry_points"}, args : Seq(STRING)])
  BY <1>1, WrittenIsItem
<1>3. Len(source.macros) \in Nat /\ 0 \in 0..Len(source.macros) /\ Rest(source.macros, 0) = source.macros
  <2> DEFINE M == [name : {"contract", "interface", "entry_points"}, args : Seq(STRING)]
             m == source.macros
  <2>1. m \in Seq(M)
    BY <1>2
  <2> HIDE DEF M, m
  <2>2. Len(m) \in Nat /\ 0 \in 0..Len(m)
    BY <2>1
  <2>3. Rest(m, 0) = m
    BY <2>1, <2>2, Resting
  <2> QED BY <2>2, <2>3 DEF m
<1>4. ~StripsIn(source, 0)
  <2>1. 1..0 = {}
    OBVIOUS
  <2> QED BY <2>1 DEF StripsIn
<1>5. IsLeft(source, item, 0)
  BY <1>1, <1>2, <1>3, <1>4 DEF IsLeft
<1>6. GeneratedFor(source, generated)
  BY DEF ExpansionInit, GeneratedFor
<1> QED BY <1>1, <1>3, <1>5, <1>6 DEF ExpansionIInv

\* ... of an item handed on, or of which the next method is to be read, ...
LEMMA HandStep ==
  ASSUME ExpansionIInv, Skip \/ Start \/ ReadMethod
  PROVE  ExpansionIInv'
<1>1. source' = source /\ generated' = generated
  BY DEF Skip, Start, ReadMethod
<1> SUFFICES ASSUME errors' = {}
             PROVE  \E n \in 0..Len(source.macros) :
                      /\ IsLeft(source, item', n)
                      /\ at' = -1 \/ (n < Len(source.macros) /\ ReadIn(item', at', todo', parsed'))
                      /\ GeneratedFor(source, generated)
  BY <1>1 DEF ExpansionIInv
<1>2. errors = {}
  BY DEF Skip, Start, ReadMethod
<1>3. PICK n \in 0..Len(source.macros) :
        /\ IsLeft(source, item, n) /\ GeneratedFor(source, generated)
        /\ at = -1 \/ (n < Len(source.macros) /\ ReadIn(item, at, todo, parsed))
  BY <1>2 DEF ExpansionIInv
<1>4. Written(source)
  BY DEF ExpansionIInv
<1>5. ASSUME item.macros # <<>> PROVE n < Len(source.macros)
  <2> DEFINE M == [name : {"contract", "interface", "entry_points"}, args : Seq(STRING)]
             m == source.macros
  <2>1. m \in Seq(M) /\ item.macros = Rest(m, n) /\ n \in 0..Len(m)
    BY <1>3, <1>4, WrittenIsItem DEF IsLeft
  <2> HIDE DEF M, m
  <2>2. n # Len(m) /\ Len(m) \in Nat
    BY <1>5, <2>1, Resting
  <2>3. n < Len(m)
    BY <2>1, <2>2
  <2> QED BY <2>3 DEF m
<1>6. CASE Skip
  <2>1. item.macros # <<>> /\ Macro = "contract" /\ item' = [StripInput(item) EXCEPT !.macros = Tail(@)] /\ at' = -1
    BY <1>6 DEF Skip, Done, HandOn
  <2>2. Macro = source.macros[n + 1].name
    BY <1>3, <1>4, <1>5, <2>1, HandedOn DEF Macro
  <2>3. n + 1 \in 0..Len(source.macros) /\ IsLeft(source, item', n + 1)
    BY <1>3, <1>4, <1>5, <2>1, <2>2, HandedOn
  <2> QED BY <1>3, <2>1, <2>3
<1>7. CASE Start
  <2>1. item.macros # <<>> /\ item' = item /\ at' = 0 /\ todo' = item.attrs /\ parsed' = <<Nothing>>
    BY <1>7 DEF Start, Done
  <2>2. ReadIn(item, 0, item.attrs, <<Nothing>>)
    BY <1>3, <1>4, ReadStarts
  <2> QED BY <1>3, <1>5, <2>1, <2>2
<1>8. CASE ReadMethod
  <2>1. /\ at # -1 /\ todo = <<>> /\ at < Len(item.methods)
        /\ item' = item /\ at' = at + 1 /\ todo' = item.methods[at + 1].attrs /\ parsed' = Append(parsed, Nothing)
    BY <1>8 DEF ReadMethod, AllRead, Idle
  <2>2. ReadIn(item, at, <<>>, parsed) /\ n < Len(source.macros)
    BY <1>3, <2>1
  <2>3. ReadIn(item, at + 1, item.methods[at + 1].attrs, Append(parsed, Nothing))
    BY <1>3, <1>4, <2>1, <2>2, ReadNext
  <2> QED BY <1>3, <2>1, <2>2, <2>3
<1> QED BY <1>6, <1>7, <1>8

\* ... and of what is generated.
LEMMA ExpandStep ==
  ASSUME ExpansionIInv, Expand
  PROVE  ExpansionIInv'
<1>1. /\ source' = source /\ at # -1 /\ todo = <<>> /\ at = Len(item.methods) /\ at' = -1
      /\ item' = [(IF Macro = "entry_points" THEN item ELSE StripInput(item)) EXCEPT !.macros = Tail(@)]
      /\ generated' = [generated EXCEPT ![Macro] =
                         <<IF Macro = "entry_points" THEN [entry_points |-> EntryPoints] ELSE SvModule>>]
  BY DEF Expand, AllRead, Idle, HandOn
<1> SUFFICES ASSUME errors' = {}
             PROVE  \E n \in 0..Len(source.macros) : IsLeft(source, item', n) /\ GeneratedFor(source, generated')
  BY <1>1 DEF ExpansionIInv
<1>2. errors = {} /\ ExpandErrors = {}
  BY DEF Expand
<1>3. PICK n \in 0..Len(source.macros) :
        /\ IsLeft(source, item, n) /\ GeneratedFor(source, generated)
        /\ n < Len(source.macros) /\ ReadIn(item, Len(item.methods), <<>>, parsed)
  BY <1>1, <1>2 DEF ExpansionIInv
<1>4. Written(source)
  BY DEF ExpansionIInv
<1>5. /\ Macro = source.macros[n + 1].name /\ n + 1 \in 0..Len(source.macros) /\ n + 1 \in DOMAIN source.macros
      /\ Macro # "entry_points" => ~StripsIn(source, n)
      /\ IsLeft(source, item', n + 1)
  <2>1. /\ Macro = source.macros[n + 1].name /\ n + 1 \in 0..Len(source.macros) /\ n + 1 \in DOMAIN source.macros
    BY <1>3, <1>4, HandedOn DEF Macro
  <2>2. CASE Macro = "entry_points"
    BY <1>1, <1>3, <1>4, <2>1, <2>2, HandedOn
  <2>3. CASE Macro # "entry_points"
    BY <1>1, <1>3, <1>4, <2>1, <2>3, HandedOn
  <2> QED BY <2>1, <2>2, <2>3
<1>6. Macro \in {"entry_points", source.kind} /\ source.kind \in {"contract", "interface"}
  <2> DEFINE M == [name : {"contract", "interface", "entry_points"}, args : Seq(STRING)]
             m == source.macros
             k == n + 1
  <2>1. m \in Seq(M) /\ IsItem(source) /\ source.kind \in {"contract", "interface"} /\ k \in DOMAIN m
    BY <1>4, <1>5, WrittenIsItem
  <2>2. \A x \in M : x.name \in {"contract", "interface", "entry_points"}
    OBVIOUS
  <2> HIDE DEF M, k
  <2>3. m[k].name \in {"contract", "interface", "entry_points"}
    BY <2>1, <2>2
  <2>4. source.kind = "contract" => m[k].name # "interface"
    BY <2>1 DEF IsItem
  <2>5. source.kind = "interface" => m[k].name = "interface"
    <3> SUFFICES ASSUME source.kind = "interface" PROVE m[k].name = "interface"
      OBVIOUS
    <3>1. Len(m) = 1 /\ m[1].name = "interface"
      BY <2>1 DEF IsItem
    <3>2. k = 1
      BY <2>1, <3>1
    <3> QED BY <3>1, <3>2
  <2>6. Macro = m[k].name
    BY <1>5 DEF k
  <2> QED BY <2>1, <2>3, <2>4, <2>5, <2>6
<1>7. Ready
  <2>1. CASE StripsIn(source, n)
    <3>1. Macro = "entry_points" /\ Variants("instantiate") = <<>>
      BY <1>3, <1>4, <1>5, <2>1, WhenRead
    <3>2. "missing instantiate" \in ExpandErrors
      BY <3>1 DEF ExpandErrors, StructErrors, EntryPointErrors, MissingInstantiate
    <3> QED BY <1>2, <3>2
  <2>2. CASE ~StripsIn(source, n)
    BY <1>3, <1>4, <2>2, WhenRead
  <2> QED BY <2>1, <2>2
<1>8. GeneratedFor(source, generated')
  <2>1. /\ DOMAIN generated = {"contract", "interface", "entry_points"}
        /\ \A m \in {"contract", "interface"} : generated[m] # <<>> => SvFor(source, generated[m][1])
        /\ generated["contract"] # <<>> => DOMAIN generated["contract"][1].api = ContractApi(source)
        /\ generated["entry_points"] # <<>> => generated["entry_points"][1].entry_points = EntryPointsFor(source)
    BY <1>3 DEF GeneratedFor
  <2>2. CASE Macro = "entry_points"
    <3>1. Variants("instantiate") # <<>>
      BY <1>2, <2>2 DEF ExpandErrors, StructErrors, EntryPointErrors, MissingInstantiate
    <3>2. EntryPoints = EntryPointsFor(source)
      BY <1>7, <3>1, EntryPointsMarked
    <3>3. /\ DOMAIN generated' = DOMAIN generated /\ generated'["entry_points"][1].entry_points = EntryPoints
          /\ generated'["contract"] = generated["contract"] /\ generated'["interface"] = generated["interface"]
      BY <1>1, <2>1, <2>2
    <3> QED BY <2>1, <3>2, <3>3 DEF GeneratedFor
  <2>3. CASE Macro = source.kind
    <3>1. Macro \in {"contract", "interface"} /\ Macro # "entry_points"
      BY <1>6, <2>3
    <3>2. /\ SvFor(source, SvModule)
          /\ source.kind = "contract" => DOMAIN SvModule.api = ContractApi(source)
      BY <1>2, <1>7, <2>3, <3>1, SvMade
    <3>3. /\ DOMAIN generated' = DOMAIN generated /\ generated'[Macro][1] = SvModule
          /\ \A m \in DOMAIN generated : m # Macro => generated'[m] = generated[m]
      BY <1>1, <2>1, <3>1
    <3> HIDE DEF Macro
    <3> QED BY <2>1, <2>3, <3>1, <3>2, <3>3 DEF GeneratedFor
  <2> QED BY <1>6, <2>2, <2>3
<1> QED BY <1>5, <1>8
-----------------------------------------------------------------------------
\* Whatever is expanded, the item that is left and what has been read and generated
\* are those of the item as written, as long as no error is reported.
THEOREM ItemsLeft == ExpansionSpec => []ExpansionIInv
<1>1. ExpansionInit => ExpansionIInv
  BY ExpansionStarts
<1>2. ExpansionIInv /\ [ExpansionNext]_evars => ExpansionIInv'
  <2> SUFFICES ASSUME ExpansionIInv, [ExpansionNext]_evars PROVE ExpansionIInv'
    OBVIOUS
  <2>1. CASE Skip \/ Start \/ ReadMethod
    BY <2>1, HandStep
  <2>2. CASE Read \/ ReadBare \/ Ignore
    <3>1. ~Idle
      BY <2>2 DEF Read, ReadBare, Ignore, Take
    <3> QED BY <2>2, <3>1, ReadingStep
  <2>3. CASE Expand
    BY <2>3, ExpandStep
  <2>4. CASE UNCHANGED evars
    BY <2>4 DEF evars, ExpansionIInv
  <2> QED BY <2>1, <2>2, <2>3, <2>4 DEF ExpansionNext
<1> QED BY <1>1, <1>2, PTL DEF ExpansionSpec

\* NothingLost: every attribute a macro knows has its effect or is reported, for every
\* item.
THEOREM NoAttributeLost == ExpansionSpec => []NothingLost
<1>1. ExpansionIInv => NothingLost
  <2> SUFFICES ASSUME ExpansionIInv, AllRead, errors = {}, NEW k \in 0..at
               PROVE  /\ \A name \in Single \cup Listed : parsed[k + 1][name] = All(AttrsOf(k), name)
                      /\ \A name \in Replaced :
                           LET all == All(AttrsOf(k), name)
                           IN parsed[k + 1][name] = IF all = <<>> THEN <<>> ELSE <<all[Len(all)]>>
    BY DEF NothingLost
  <2>1. PICK n \in 0..Len(source.macros) :
          IsLeft(source, item, n) /\ n < Len(source.macros) /\ ReadIn(item, at, <<>>, parsed)
    BY DEF ExpansionIInv, AllRead, Idle
  <2>2. Written(source) /\ at \in 0..Len(item.methods)
    BY <2>1 DEF ExpansionIInv, ReadIn
  <2> DEFINE attrs == AttrsIn(item, k)
             q == parsed[k + 1]
             A == [name : STRING, list : BOOLEAN, args : Seq(STRING \X STRING)]
  <2>3. HasRead(q, attrs, Len(attrs))
    BY <2>1, <2>2, ReadAll
  <2>4. attrs \in Seq(A)
    <3>1. Len(item.methods) \in Nat /\ \A l \in 0..Len(item.methods) : AttrsIn(item, l) \in Attributes
      BY <2>1, <2>2, AttributesLeft
    <3>2. k \in 0..Len(item.methods)
      BY <2>2, <3>1
    <3> QED BY <3>1, <3>2 DEF Attributes
  <2>5. AttrsOf(k) = attrs
    BY DEF AttrsOf, AttrsIn
  <2> HIDE DEF attrs, q, A
  <2>6. \A name \in Single \cup Listed : q[name] = All(attrs, name)
    BY <2>3, <2>4, AllAreRead
  <2>7. \A name \in Replaced :
          q[name] = IF All(attrs, name) = <<>> THEN <<>> ELSE <<All(attrs, name)[Len(All(attrs, name))]>>
    BY <2>3, <2>4, AllAreRead
  <2> QED BY <2>5, <2>6, <2>7 DEF q
<1> QED BY <1>1, ItemsLeft, PTL

\* EveryMessageOnce, for every item: the methods marked with a type are the variants of
\* its message.
THEOREM MessagesOnce == ExpansionSpec => []EveryMessageOnce
<1>1. ExpansionIInv => EveryMessageOnce
  BY DEF ExpansionIInv, EveryMessageOnce, Accepted, SvRan, Ran, Sv, GeneratedFor, SvFor
<1> QED BY <1>1, ItemsLeft, PTL

\* Closed, for every item: what a message declares is what it uses.
THEOREM MessagesClosed == ExpansionSpec => []Closed
<1>1. ExpansionIInv => Closed
  BY DEF ExpansionIInv, Closed, Accepted, SvRan, Ran, Sv, GeneratedFor, SvFor
<1> QED BY <1>1, ItemsLeft, PTL

\* ApiResolves, for every item: the api refers to the messages there are, with the
\* generics they have.
THEOREM AccessorsResolve == ExpansionSpec => []ApiResolves
<1>1. ExpansionIInv => ApiResolves
  <2> SUFFICES ASSUME ExpansionIInv, Accepted PROVE ApiResolves
    BY DEF ApiResolves
  <2>1. GeneratedFor(source, generated)
    BY DEF ExpansionIInv, Accepted
  <2>2. SvRan => Resolves(Sv)
    BY <2>1 DEF SvRan, Ran, Sv, GeneratedFor, SvFor
  <2>3. EntryPointsFor(source) \ {"reply"} \subseteq ContractApi(source)
    BY DEF EntryPointsFor, ContractApi, Types, EnumTypes
  <2>4. Ran("contract") /\ Ran("entry_points") =>
          generated["entry_points"][1].entry_points \ {"reply"} \subseteq DOMAIN Sv.api
    BY <2>1, <2>3 DEF Ran, Sv, GeneratedFor
  <2> QED BY <2>2, <2>4 DEF ApiResolves
<1> QED BY <1>1, ItemsLeft, PTL

\* Only a query is read as another type than the attribute names.
LEMMA ReadAsWritten ==
  ASSUME NEW src
  PROVE  ReadOverrides(src) \ Misread(src) = OverriddenIn(src) \ Misread(src)
<1> DEFINE as == {b \in ToSet(src.attrs) : b.name = "override_entry_point" /\ b.list}
           TakenFor(a) == IF a.args[1][1] = "query" THEN "instantiate" ELSE a.args[1][1]
<1>1. ReadOverrides(src) = {TakenFor(a) : a \in as} /\ OverriddenIn(src) = {a.args[1][1] : a \in as}
  BY DEF ReadOverrides, OverriddenIn
<1> HIDE DEF as
<1>2. CASE "query" \in OverriddenIn(src)
  <2>1. Misread(src) = {"query", "instantiate"}
    BY <1>2 DEF Misread
  <2>2. \A a \in as : TakenFor(a) # a.args[1][1] => TakenFor(a) \in Misread(src) /\ a.args[1][1] \in Misread(src)
    BY <2>1
  <2> HIDE DEF TakenFor
  <2> QED BY <1>1, <2>2
<1>3. CASE "query" \notin OverriddenIn(src)
  <2>1. \A a \in as : TakenFor(a) = a.args[1][1]
    BY <1>1, <1>3
  <2> HIDE DEF TakenFor
  <2> QED BY <1>1, <2>1
<1> QED BY <1>2, <1>3

\* InOrder, for every item: in any order of the macros, the entry points of an accepted
\* contract are those of the types it has messages of and does not override, but for
\* query and instantiate where it overrides query.
THEOREM EntryPointsInOrder == ExpansionSpec => []InOrder
<1>1. ExpansionIInv => InOrder
  <2> SUFFICES ASSUME ExpansionIInv, Accepted, Ran("entry_points")
               PROVE  EntryPointsMade \ Misread(source) = EntryPointsOf(source) \ Misread(source)
    BY DEF InOrder
  <2>1. EntryPointsMade = EntryPointsFor(source)
    BY DEF ExpansionIInv, Accepted, Ran, GeneratedFor, EntryPointsMade
  <2>2. ReadOverrides(source) \ Misread(source) = OverriddenIn(source) \ Misread(source)
    BY ReadAsWritten
  <2> QED BY <2>1, <2>2 DEF EntryPointsFor, EntryPointsOf
<1> QED BY <1>1, ItemsLeft, PTL

\* NoneLeft, for every item: rustc gets the item as written, without what the macros
\* know.
THEOREM NoAttributeLeft == ExpansionSpec => []NoneLeft
<1>1. ExpansionIInv => NoneLeft
  <2> SUFFICES ASSUME ExpansionIInv, Accepted, NEW j \in DOMAIN source.macros, source.macros[j].name # "entry_points"
               PROVE  /\ \A a \in ToSet(item.attrs) : ~IsSylvia(a)
                      /\ item.attrs = Where(source.attrs, LAMBDA a : ~IsSylvia(a))
                      /\ \A k \in DOMAIN item.methods :
                           /\ item.methods[k].attrs = Where(source.methods[k].attrs, LAMBDA a : ~IsSylvia(a))
                           /\ \A n \in DOMAIN item.methods[k].inputs :
                                item.methods[k].inputs[n] = [source.methods[k].inputs[n] EXCEPT !.attrs = <<>>]
    BY DEF NoneLeft
  <2> DEFINE M == [name : {"contract", "interface", "entry_points"}, args : Seq(STRING)]
             m == source.macros
  <2>1. Written(source) /\ item.macros = <<>>
    BY DEF ExpansionIInv, Accepted, Done
  <2>2. PICK n \in 0..Len(m) : IsLeft(source, item, n)
    BY DEF ExpansionIInv, Accepted
  <2>3. m \in Seq(M) /\ item.macros = Rest(m, n) /\ source.attrs \in Attributes
    BY <2>1, <2>2, WrittenIsItem DEF IsLeft
  <2>4. DOMAIN m = 1..Len(m)
    BY <2>3
  <2>5. n = Len(m)
    <3> HIDE DEF m, M
    <3> QED BY <2>1, <2>2, <2>3, Resting
  <2>6. StripsIn(source, n)
    BY <2>4, <2>5 DEF StripsIn
  <2>7. /\ item.attrs = StripAttrs(source.attrs)
        /\ item.methods = [k \in DOMAIN source.methods |-> StripMethod(source.methods[k])]
    BY <2>2, <2>6 DEF IsLeft
  <2>8. \A a \in ToSet(item.attrs) : ~IsSylvia(a)
    BY <2>3, <2>7, StripsAttributes
  <2>9. ASSUME NEW k \in DOMAIN item.methods
        PROVE  /\ item.methods[k].attrs = Where(source.methods[k].attrs, LAMBDA a : ~IsSylvia(a))
               /\ \A l \in DOMAIN item.methods[k].inputs :
                    item.methods[k].inputs[l] = [source.methods[k].inputs[l] EXCEPT !.attrs = <<>>]
    <3> DEFINE method == source.methods[k]
    <3>1. k \in DOMAIN source.methods /\ item.methods[k] = StripMethod(method)
      BY <2>7
    <3>2. DOMAIN method = {"name", "attrs", "inputs", "ret"}
      <4>1. source.methods \in Seq(MethodRecord)
        BY <2>1, WrittenIsItem DEF Methods, MethodRecord
      <4>2. method \in MethodRecord
        BY <3>1, <4>1
      <4> QED BY <4>2 DEF MethodRecord
    <3> HIDE DEF method
    <3>3. /\ StripMethod(method).attrs = StripAttrs(method.attrs)
          /\ StripMethod(method).inputs = [l \in DOMAIN method.inputs |-> [method.inputs[l] EXCEPT !.attrs = <<>>]]
      BY <3>2 DEF StripMethod
    <3> QED BY <3>1, <3>3 DEF StripAttrs, method
  <2> QED BY <2>7, <2>8, <2>9 DEF StripAttrs
<1> QED BY <1>1, ItemsLeft, PTL
=============================================================================
