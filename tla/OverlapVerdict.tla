--------------------------- MODULE OverlapVerdict ---------------------------
(***************************************************************************)
(* What the compile-time assertion `assert_no_intersection` promises to a  *)
(* contract: the messages of the interfaces and of the contract are given, *)
(* one list per enum, and the assertion ends once, passing exactly when no *)
(* message name belongs to two lists.                                      *)
(***************************************************************************)
EXTENDS Naturals, Sequences

CONSTANTS
  Index,   \* the message enums that are compared
  Lists    \* the lists of message names an enum can have

VARIABLES
  msgs,    \* the list of message names of every enum
  verdict  \* "pending", "pass" or "panic"

Overlap == \E i, j \in Index : /\ i # j
                               /\ \E p \in DOMAIN msgs[i], q \in DOMAIN msgs[j] :
                                     msgs[i][p] = msgs[j][q]

Init == msgs \in [Index -> Lists] /\ verdict = "pending"

Decide == /\ verdict = "pending"
          /\ verdict' = IF Overlap THEN "panic" ELSE "pass"
          /\ UNCHANGED msgs

\* The verdict is given once and is the right one ...
SafeSpec == Init /\ [][Decide]_<<msgs, verdict>>

\* ... and it is given.
Spec == SafeSpec /\ WF_<<msgs, verdict>>(Decide)
=============================================================================
