--------------------------- MODULE NoIntersection ---------------------------
(***************************************************************************)
(* `sylvia::utils::assert_no_intersection`: the constant function every    *)
(* generated contract evaluates at compile time on the sorted name lists   *)
(* `[interface messages ..., contract messages]`.  It merges the lists,    *)
(* always advancing the one whose current name is the smallest, and panics *)
(* when that name is the current name of another list.                     *)
(*                                                                         *)
(* Names are numbers in the order of `konst::cmp_str`; one action is one   *)
(* iteration of a loop of the code.                                        *)
(***************************************************************************)
EXTENDS Naturals, Sequences

CONSTANTS
  N,      \* how many lists are compared
  Lists   \* the lists of names that can occur, each one sorted

Index == 0..N-1

Sorted(l) == \A p, q \in DOMAIN l : p <= q => l[p] <= l[q]

\* GlueMessage passes the interfaces' lists and always the contract's own.
ASSUME NAssumption == N \in Nat \ {0}
ASSUME ListsAssumption == \A l \in Lists : l \in Seq(Nat) /\ Sorted(l)

VARIABLES
  msgs,          \* the argument: msgs[i] is the i-th list
  states,        \* for every list its `State`
  pc,            \* where the function is: "test", "scan", "verify", "pass", "panic"
  i,             \* the loop variable of get_next_alphabetical_index
  output_index   \* its result

vars == <<msgs, states, pc, i, output_index>>

Ongoing(wi)  == [kind |-> "Ongoing",  wi |-> wi]
Finished(wi) == [kind |-> "Finished", wi |-> wi]
Empty        == [kind |-> "Empty",    wi |-> 0]

IsOngoing(k) == states[k].kind = "Ongoing"

\* The name a list points at; `wi` counts from 0, sequences from 1.
Current(k) == msgs[k][states[k].wi + 1]

InitStates(m) == [k \in Index |-> IF m[k] = <<>> THEN Empty ELSE Ongoing(0)]

\* Fault: the loop stops at the first exhausted list.
ShouldEndEarly == \E k \in Index : ~IsOngoing(k)

ShouldEnd == \A k \in Index : ~IsOngoing(k)

\* Fault: only lists that are already exhausted are compared.
CollisionWithFinished ==
  /\ IsOngoing(output_index)
  /\ \E k \in Index \ {output_index} : /\ states[k].kind = "Finished"
                                       /\ Current(k) = Current(output_index)

\* The names of the other lists that verify_no_collissions compares with.
Collision == /\ IsOngoing(output_index)
             /\ \E k \in Index \ {output_index} :
                   /\ states[k].kind # "Empty"
                   /\ Current(k) = Current(output_index)
-----------------------------------------------------------------------------
Init == /\ msgs \in [Index -> Lists]
        /\ states = InitStates(msgs)
        /\ pc = "test"
        /\ i = 0
        /\ output_index = 0

\* while !should_end(&states): leave the loop or start the scan
LoopTest == /\ pc = "test"
            /\ pc' = IF ShouldEnd THEN "pass" ELSE "scan"
            /\ i' = 0
            /\ output_index' = 0
            /\ UNCHANGED <<msgs, states>>

\* Fault: the order of the comparison is swapped.
ScanLargest == /\ pc = "scan"
               /\ output_index' = IF /\ IsOngoing(i)
                                     /\ \/ ~IsOngoing(output_index)
                                        \/ Current(output_index) < Current(i)
                                  THEN i ELSE output_index
               /\ i' = i + 1
               /\ pc' = IF i + 1 = N THEN "verify" ELSE "scan"
               /\ UNCHANGED <<msgs, states>>

\* one iteration of get_next_alphabetical_index
Scan == /\ pc = "scan"
        /\ output_index' = IF /\ IsOngoing(i)
                              /\ \/ ~IsOngoing(output_index)
                                 \/ Current(output_index) > Current(i)
                           THEN i ELSE output_index
        /\ i' = i + 1
        /\ pc' = IF i + 1 = N THEN "verify" ELSE "scan"
        /\ UNCHANGED <<msgs, states>>

\* verify_no_collissions panics
Panic == /\ pc = "verify"
         /\ Collision
         /\ pc' = "panic"
         /\ UNCHANGED <<msgs, states, i, output_index>>

\* Fault: off by one, the last name is passed over.
AdvancedPastTheEnd(k) == LET wi == states[k].wi
                         IN IF Len(msgs[k]) = wi THEN Finished(wi) ELSE Ongoing(wi + 1)

\* it does not, and the list with the smallest name advances
Advanced(k) == LET wi == states[k].wi
               IN IF Len(msgs[k]) = wi + 1 THEN Finished(wi) ELSE Ongoing(wi + 1)

Advance == /\ pc = "verify"
           /\ ~Collision
           /\ IsOngoing(output_index)
           /\ states' = [states EXCEPT ![output_index] = Advanced(output_index)]
           /\ pc' = "test"
           /\ UNCHANGED <<msgs, i, output_index>>

\* The function has returned or the compiler has reported the panic.
Ended == pc \in {"pass", "panic"} /\ UNCHANGED vars

Next == LoopTest \/ Scan \/ Panic \/ Advance \/ Ended

Spec == Init /\ [][Next]_vars /\ WF_vars(Next)
-----------------------------------------------------------------------------
\* Indices stay inside the lists: utils.rs indexes msgs[i][wi] unchecked in a
\* const function, where a bad index is a compile error of the user's crate.
TypeOK ==
  /\ msgs \in [Index -> Lists]
  /\ states \in [Index -> [kind : {"Ongoing", "Finished", "Empty"}, wi : Nat]]
  /\ \A k \in Index : IF states[k].kind = "Empty" THEN msgs[k] = <<>>
                                                  ELSE states[k].wi < Len(msgs[k])
  /\ pc \in {"test", "scan", "verify", "pass", "panic"}
  /\ i \in 0..N
  /\ output_index \in Index

\* "Get index of array with alphabetically smallest value. This will always be
\* one which state is Ongoing": so `_ => unreachable!()` is indeed unreachable.
PicksSmallest ==
  pc = "verify" => /\ IsOngoing(output_index)
                   /\ \A k \in Index : IsOngoing(k) => Current(output_index) <= Current(k)

\* The positions of a list whose names have been compared with the others.
Consumed(k) ==
  {p \in DOMAIN msgs[k] : \/ states[k].kind = "Ongoing" /\ p <= states[k].wi
                          \/ states[k].kind = "Finished"}

\* The merge goes through all lists in alphabetical order: what another list has
\* already consumed is strictly before the current name of a list still going,
\* which is why one comparison per name is enough.
MergeOrder ==
  \A j, k \in Index :
     /\ j # k
     /\ IsOngoing(k)
     => \A p \in Consumed(j) : msgs[j][p] < Current(k)

\* Names already consumed from two lists differ.
ConsumedDisjoint ==
  \A j, k \in Index : j # k =>
     \A p \in Consumed(j), q \in Consumed(k) : msgs[j][p] # msgs[k][q]

\* The assertion decides what it promises: it always ends, it passes only when
\* no name is in two lists and it panics only when one is.
Verdict == INSTANCE OverlapVerdict
             WITH verdict <- IF pc \in {"pass", "panic"} THEN pc ELSE "pending"
DecidesOverlap == Verdict!Spec
=============================================================================
