-------------------------- MODULE MultitestAppProofs --------------------------
(***************************************************************************)
(* What a test finds of the App, of the errors and of the messages it      *)
(* sends, whatever contracts, interfaces and handlers there are.           *)
(***************************************************************************)
EXTENDS MultitestApp, NaturalLemmas

Ops == {"exec", "sudo", "migrate", "instantiate"}
Results == {None, "Ok", "own", "std", "generic", "panic"}

\* The borrows of TypeOK, and that no call runs beside a borrow of the test.
Borrowed ==
  /\ refs \in 0..MaxRefs /\ excl \in {"none", "guard", "closure"} /\ (refs = 0 \/ excl = "none")
  /\ cell = IF tx # <<>> \/ excl # "none" THEN -1 ELSE refs
  /\ tx = <<>> => Idles
  /\ tx # <<>> => refs = 0 /\ excl = "none" /\ status = "running"
  /\ status \in {"running", "panicked"} /\ last.result \in Results
-----------------------------------------------------------------------------
\* A transaction goes on without a change outside of it, fails, or returns.
GoesOn == UNCHANGED <<borrows, stored, height, draft, tx, saved, status, last>>
Fails == \E e, by : Fail(e, by) /\ (by # None => e = Code[by].error)

LEMMA TransactionStep ==
  ASSUME Borrowed, Transaction
  PROVE  tx # <<>> /\ (GoesOn \/ Fails \/ Return)
<1>1. CASE React
  BY <1>1 DEF React, Quietly, GoesOn, Fails, Borrowed, Idles
<1>2. ASSUME NEW type, NEW kind, Handle(type, kind)
      PROVE  tx # <<>> /\ (GoesOn \/ Fails)
  BY <1>2 DEF Handle, Running, ChainFails, FailsParsing, Reach, Taken, Quietly, GoesOn, Fails
<1>3. CASE Unfunded
  BY <1>3 DEF Unfunded, Running, ChainFails, Fails
<1>4. CASE Instantiate
  BY <1>4 DEF Instantiate, Running, ChainFails, FailsParsing, Reach, Taken, Quietly, GoesOn, Fails
<1>5. CASE Migrate
  BY <1>5 DEF Migrate, Running, ChainFails, FailsParsing, Reach, Taken, Quietly, GoesOn, Fails
<1>6. CASE ChangeAdmin
  BY <1>6 DEF ChangeAdmin, Running, ChainFails, Taken, Quietly, GoesOn, Fails
<1>7. CASE Return
  BY <1>7 DEF Return
<1> QED BY <1>1, <1>2, <1>3, <1>4, <1>5, <1>6, <1>7 DEF Transaction, Execute, Sudo

\* How a call that fails ends.
LEMMA FailEnds ==
  ASSUME Fails
  PROVE  \E result, by, e :
           /\ End(result, by) /\ result \in Results /\ instances' \in saved
           /\ result = ErrorAnswer(tx[1].op, Code[tx[1].type].error, e)
           /\ by # None => e = Code[by].error
BY DEF Fails, Fail, ErrorAnswer, Results

\* Outside of transactions.
TestStep == Blocks \/ Borrow \/ StoreCode \/ Query \/ DraftOwn \/ DraftInterface \/ DraftInstance \/ Set
CallStep == CallExec \/ CallMigrate \/ CallInstantiate \/ CallSudo

LEMMA StartBorrowed ==
  ASSUME Borrowed, Idle, NEW op, NEW type, NEW message, NEW sender, NEW meant, NEW rest,
         Start(op, type, message, sender, meant, rest)
  PROVE  Borrowed'
<1>1. CASE CanWrite
  BY <1>1 DEF Start, CanWrite, Borrowed, Idle, Quiet, Results, None
<1>2. CASE ~CanWrite
  BY <1>2 DEF Start, Panic, Quiet, Borrowed, Idles, Idle, Results, borrows, running
<1> QED BY <1>1, <1>2

LEMMA TestBorrowed ==
  ASSUME Borrowed, TestStep \/ CallStep
  PROVE  Borrowed'
<1> USE BoundsAssumption DEF Borrowed, Idle, Idles, Results, None
<1>1. ASSUME Idle, NEW op, Panic(op) PROVE Borrowed'
  BY <1>1 DEF Panic, Quiet, borrows, running
<1>2. CASE Blocks
  <2>1. CASE Read
    BY <1>1, <2>1 DEF Read, Answered, Quiet, borrows, running
  <2>2. CASE SetBlock
    BY <1>1, <2>2 DEF SetBlock, Answered, Quiet, borrows, running
  <2>3. CASE UpdateBlock
    BY <1>1, <2>3 DEF UpdateBlock, Quiet, CanWrite, running
  <2>4. CASE EndUpdateBlock
    BY <2>4 DEF EndUpdateBlock, Answered, Quiet, running
  <2> QED BY <1>2, <2>1, <2>2, <2>3, <2>4 DEF Blocks
<1>3. CASE Borrow
  <2>1. CASE HoldRef
    <3>1. CASE CanRead
      <4>1. cell = refs /\ excl = "none" /\ refs + 1 \in 0..MaxRefs
        BY <2>1, <3>1 DEF HoldRef, CanRead
      <4>2. cell' = refs + 1 /\ refs' = refs + 1 /\ UNCHANGED <<excl, running, status>> /\ last'.result = "Ok"
        BY <2>1, <3>1, <4>1 DEF HoldRef, Answered, Quiet
      <4> QED BY <2>1, <4>1, <4>2 DEF HoldRef, running
    <3>2. CASE ~CanRead
      BY <1>1, <2>1, <3>2 DEF HoldRef
    <3> QED BY <3>1, <3>2
  <2>2. CASE HoldRefMut
    BY <1>1, <2>2 DEF HoldRefMut, Answered, Quiet, CanWrite, running
  <2>3. CASE DropRef
    BY <2>3 DEF DropRef, Quiet, running
  <2>4. CASE DropRefMut
    BY <2>4 DEF DropRefMut, Quiet, running
  <2> QED BY <1>3, <2>1, <2>2, <2>3, <2>4 DEF Borrow
<1>4. CASE StoreCode
  BY <1>1, <1>4 DEF StoreCode, Answered, Quiet, borrows, running
<1>5. CASE Query
  <2>1. CASE CanRead
    <3>1. PICK t \in CodeTypes :
            /\ \/ Answered("query")
               \/ last' = [op |-> "query", result |-> "std", by |-> None, type |-> t] /\ UNCHANGED status
            /\ UNCHANGED <<borrows, running>> /\ Idle
      BY <1>5, <2>1 DEF Query
    <3>2. CASE Answered("query")
      BY <3>1, <3>2 DEF Answered, Quiet, borrows, running
    <3>3. CASE last' = [op |-> "query", result |-> "std", by |-> None, type |-> t] /\ UNCHANGED status
      BY <3>1, <3>3 DEF borrows, running
    <3> QED BY <3>1, <3>2, <3>3
  <2>2. CASE ~CanRead
    BY <1>1, <1>5, <2>2 DEF Query
  <2> QED BY <2>1, <2>2
<1>6. CASE DraftOwn \/ DraftInterface \/ DraftInstance \/ Set
  <2>1. ASSUME NEW drafts, Make(drafts) PROVE UNCHANGED <<borrows, running, status>> /\ last' = Quiet
    BY <2>1 DEF Make
  <2>2. UNCHANGED <<borrows, running, status>> /\ last' = Quiet
    BY <1>6, <2>1 DEF DraftOwn, DraftInterface, DraftInstance, Set
  <2> QED BY <2>2 DEF borrows, running, Quiet
<1>7. CASE CallStep
  <2>1. CASE CallExec
    BY <2>1, StartBorrowed DEF CallExec
  <2>2. CASE CallMigrate
    BY <2>2, StartBorrowed DEF CallMigrate
  <2>3. CASE CallInstantiate
    <3>1. CASE NeedsFeature(draft[1])
      BY <2>3, <3>1 DEF CallInstantiate, borrows, running
    <3>2. CASE ~NeedsFeature(draft[1])
      BY <2>3, <3>2, StartBorrowed DEF CallInstantiate
    <3> QED BY <3>1, <3>2
  <2>4. CASE CallSudo
    BY <2>4, StartBorrowed DEF CallSudo
  <2> QED BY <1>7, <2>1, <2>2, <2>3, <2>4 DEF CallStep
<1> QED BY <1>2, <1>3, <1>4, <1>5, <1>6, <1>7 DEF TestStep

LEMMA TransactionBorrowed ==
  ASSUME Borrowed, Transaction
  PROVE  Borrowed'
<1>1. tx # <<>>
  BY TransactionStep
<1>2. CASE GoesOn
  BY <1>1, <1>2 DEF GoesOn, Borrowed, borrows
<1>3. ASSUME NEW result \in Results, NEW by, End(result, by) PROVE Borrowed'
  BY <1>1, <1>3, BoundsAssumption DEF End, Released, Borrowed, Idles
<1>4. CASE Fails
  BY <1>3, <1>4, FailEnds
<1>5. CASE Return
  BY <1>3, <1>5 DEF Return, Results
<1> QED BY <1>2, <1>4, <1>5, TransactionStep

LEMMA NextBorrowed == Borrowed /\ [Next]_avars => Borrowed'
<1> SUFFICES ASSUME Borrowed, [Next]_avars PROVE Borrowed'
  OBVIOUS
<1>1. CASE UNCHANGED avars
  BY <1>1 DEF avars, borrows, running, Borrowed, Idles
<1> QED BY <1>1, TestBorrowed, TransactionBorrowed DEF Next, Calls, TestStep, CallStep

LEMMA InitBorrowed == Init => Borrowed
BY BoundsAssumption DEF Init, Borrowed, Idles, Quiet, Results, None

LEMMA SpecBorrowed == Spec => []Borrowed
BY InitBorrowed, NextBorrowed, PTL DEF Spec
-----------------------------------------------------------------------------
\* While the test holds a Ref, nothing that writes to the chain runs: the writers find
\* the RefCell taken, and no transaction is on the way.
THEOREM ReadersUndisturbed == Spec => ReadersSeeStable
<1>1. ASSUME Borrowed, refs > 0 PROVE ~CanWrite /\ tx = <<>> /\ excl = "none"
  BY <1>1 DEF Borrowed, CanWrite
<1>2. ASSUME Borrowed, Next PROVE refs > 0 => UNCHANGED chain
  <2> SUFFICES ASSUME refs > 0 PROVE UNCHANGED chain
    OBVIOUS
  <2>1. ~CanWrite /\ tx = <<>> /\ excl = "none"
    BY <1>1, <1>2
  <2>2. ASSUME NEW op, Panic(op) PROVE UNCHANGED chain
    BY <2>2 DEF Panic
  <2>3. CASE Blocks \/ Borrow \/ StoreCode
    BY <2>1, <2>2, <2>3 DEF Blocks, Read, SetBlock, UpdateBlock, EndUpdateBlock, Borrow, HoldRef,
       HoldRefMut, DropRef, DropRefMut, StoreCode
  <2>4. CASE Query
    BY <2>2, <2>4 DEF Query
  <2>5. CASE DraftOwn \/ DraftInterface \/ DraftInstance \/ Set
    BY <2>5 DEF DraftOwn, DraftInterface, DraftInstance, Set, Make
  <2>6. CASE CallStep
    BY <2>1, <2>2, <2>6 DEF CallStep, CallExec, CallMigrate, CallInstantiate, CallSudo, Start
  <2>7. ~Transaction
    BY <1>2, <2>1, TransactionStep
  <2> QED BY <1>2, <2>3, <2>4, <2>5, <2>6, <2>7 DEF Next, Calls, CallStep
<1>3. Borrowed /\ [Next]_avars => [refs > 0 => UNCHANGED chain]_avars
  BY <1>2
<1> QED BY <1>3, SpecBorrowed, PTL DEF Spec, ReadersSeeStable
-----------------------------------------------------------------------------
\* A handler of the contract of the proxy that fails hands its error to the test,
\* however deep in the transaction it ran.
THEOREM OwnErrorsCorrect == Spec => []OwnErrorsReturned
<1>1. Init => OwnErrorsReturned
  BY DEF Init, OwnErrorsReturned, Quiet
<1>2. ASSUME Borrowed, OwnErrorsReturned, [Next]_avars PROVE OwnErrorsReturned'
  <2>1. CASE UNCHANGED last
    BY <1>2, <2>1 DEF OwnErrorsReturned
  <2>2. ASSUME NEW op, NEW result, last' = [op |-> op, result |-> result, by |-> None, type |-> None]
        PROVE  OwnErrorsReturned'
    BY <2>2 DEF OwnErrorsReturned
  <2>3. ASSUME last' = Quiet PROVE OwnErrorsReturned'
    BY <2>3 DEF OwnErrorsReturned, Quiet
  <2>4. ASSUME NEW op, Panic(op) \/ Answered(op) PROVE OwnErrorsReturned'
    BY <2>4 DEF OwnErrorsReturned, Panic, Answered, Quiet
  <2>5. ASSUME NEW op, NEW result, NEW type,
               last' = [op |-> op, result |-> result, by |-> None, type |-> type]
        PROVE  OwnErrorsReturned'
    BY <2>5 DEF OwnErrorsReturned
  <2>6. CASE Blocks \/ Borrow \/ StoreCode
    BY <2>1, <2>3, <2>4, <2>6 DEF Blocks, Read, SetBlock, UpdateBlock, EndUpdateBlock, Borrow, HoldRef,
       HoldRefMut, DropRef, DropRefMut, StoreCode
  <2>7. CASE Query
    BY <2>4, <2>5, <2>7 DEF Query
  <2>8. CASE DraftOwn \/ DraftInterface \/ DraftInstance \/ Set
    BY <2>3, <2>8 DEF DraftOwn, DraftInterface, DraftInstance, Set, Make
  <2>9. ASSUME NEW op, NEW type, NEW message, NEW sender, NEW meant, NEW rest,
               Start(op, type, message, sender, meant, rest)
        PROVE  OwnErrorsReturned'
    BY <2>3, <2>4, <2>9 DEF Start
  <2>10. CASE CallStep
    <3>1. CASE CallExec
      BY <2>9, <3>1 DEF CallExec
    <3>2. CASE CallMigrate
      BY <2>9, <3>2 DEF CallMigrate
    <3>3. CASE CallInstantiate
      BY <2>5, <2>9, <3>3 DEF CallInstantiate
    <3>4. CASE CallSudo
      BY <2>9, <3>4 DEF CallSudo
    <3> QED BY <2>10, <3>1, <3>2, <3>3, <3>4 DEF CallStep
  <2>11. CASE Transaction
    <3>1. CASE GoesOn
      BY <2>1, <3>1 DEF GoesOn
    <3>2. CASE Return
      BY <2>5, <3>2 DEF Return, End
    <3>3. CASE Fails
      <4>1. PICK result, by, e : /\ End(result, by)
                                 /\ result = ErrorAnswer(tx[1].op, Code[tx[1].type].error, e)
                                 /\ by # None => e = Code[by].error
        BY <3>3, FailEnds
      <4>2. last' = [op |-> tx[1].op, result |-> result, by |-> by, type |-> tx[1].type]
        BY <4>1 DEF End
      <4>3. ASSUME last'.by = last'.type, last'.type # None PROVE last'.result = "own"
        <5>1. by = tx[1].type /\ by # None
          BY <4>2, <4>3
        <5>2. result = "own"
          BY <4>1, <5>1 DEF ErrorAnswer
        <5> QED BY <4>2, <5>2
      <4> QED BY <4>3 DEF OwnErrorsReturned
    <3> QED BY <1>2, <2>11, <3>1, <3>2, <3>3, TransactionStep
  <2> QED BY <1>2, <2>1, <2>6, <2>7, <2>8, <2>10, <2>11 DEF Next, Calls, CallStep, avars
<1> QED BY <1>1, <1>2, SpecBorrowed, PTL DEF Spec
-----------------------------------------------------------------------------
\* A builder that started as b, once the list of setters has been called on it.
Final(b, set) == [x \in DOMAIN b |-> IF IsSet(set, x) THEN LastSet(set, x) ELSE b[x]]

\* The same for the first k of them.
At(set, k, x) == {j \in 1..k : set[j].field = x}
After(b, set, k) ==
  [x \in DOMAIN b |-> IF At(set, k, x) # {} THEN set[Max(At(set, k, x))].value ELSE b[x]]

LEMMA Greatest ==
  ASSUME NEW n \in Nat, NEW S, S \subseteq 1..n, S # {}
  PROVE  Max(S) \in S /\ \A y \in S : y <= Max(S)
<1>1. S \subseteq 0..n
  OBVIOUS
<1>2. \E x \in S : \A y \in S : y <= x
  BY <1>1, Largest
<1> QED BY <1>2 DEF Max

LEMMA AfterOne ==
  ASSUME NEW b, NEW set, NEW k \in Nat \ {0}
  PROVE  After(b, set, k) = With(After(b, set, k - 1), set[k].field, set[k].value)
<1>1. DOMAIN After(b, set, k) = DOMAIN b /\ DOMAIN After(b, set, k - 1) = DOMAIN b
  BY DEF After
<1>2. ASSUME NEW x \in DOMAIN b
      PROVE  After(b, set, k)[x] = IF x = set[k].field THEN set[k].value ELSE After(b, set, k - 1)[x]
  <2>1. CASE set[k].field = x
    <3>1. k \in At(set, k, x) /\ At(set, k, x) \subseteq 1..k
      BY <2>1 DEF At
    <3>2. Max(At(set, k, x)) \in 1..k /\ k <= Max(At(set, k, x))
      BY <3>1, Greatest
    <3>3. Max(At(set, k, x)) = k
      BY <3>2
    <3> QED BY <2>1, <3>1, <3>3 DEF After
  <2>2. CASE set[k].field # x
    <3>1. At(set, k, x) = At(set, k - 1, x)
      BY <2>2 DEF At
    <3> QED BY <2>2, <3>1 DEF After
  <2> QED BY <2>1, <2>2
<1> QED BY <1>1, <1>2 DEF With, After

LEMMA AfterAll ==
  ASSUME NEW b, NEW S, NEW set \in Seq(S)
  PROVE  After(b, set, Len(set)) = Final(b, set)
<1>1. ASSUME NEW x
      PROVE  At(set, Len(set), x) = {k \in DOMAIN set : set[k].field = x}
  BY DEF At
<1> QED BY <1>1 DEF After, Final, IsSet, LastSet

\* A setter counts from then on; the others keep theirs.
LEMMA FinalAppend ==
  ASSUME NEW b, NEW S, NEW set \in Seq(S), NEW s \in S
  PROVE  With(Final(b, set), s.field, s.value) = Final(b, Append(set, s))
<1> DEFINE n == Len(set)
           more == Append(set, s)
<1>1. n \in Nat /\ more \in Seq(S) /\ Len(more) = n + 1 /\ more[n + 1] = s /\ \A j \in 1..n : more[j] = set[j]
  OBVIOUS
<1> HIDE DEF n, more
<1>2. \A x : At(more, n, x) = At(set, n, x) /\ At(set, n, x) \subseteq 1..n
  BY <1>1 DEF At
<1>3. ASSUME NEW x, At(set, n, x) # {}
      PROVE  more[Max(At(more, n, x))].value = set[Max(At(set, n, x))].value
  <2>1. Max(At(set, n, x)) \in 1..n
    BY <1>1, <1>2, <1>3, Greatest
  <2> QED BY <1>1, <1>2, <2>1
<1>4. After(b, more, n) = After(b, set, n)
  BY <1>2, <1>3 DEF After
<1>5. After(b, more, n + 1) = With(After(b, more, n), s.field, s.value)
  <2>1. n + 1 \in Nat \ {0} /\ (n + 1) - 1 = n
    BY <1>1
  <2> QED BY <1>1, <2>1, AfterOne
<1>6. After(b, set, n) = Final(b, set)
  BY AfterAll DEF n
<1>7. After(b, more, n + 1) = Final(b, more)
  BY <1>1, AfterAll
<1> QED BY <1>4, <1>5, <1>6, <1>7 DEF more

\* Nothing set, nothing changed.
LEMMA FinalNone ==
  ASSUME NEW b, b = [x \in DOMAIN b |-> b[x]]
  PROVE  Final(b, <<>>) = b
BY DEF Final, IsSet

\* The setters of a builder, one after the other.
Chain(b, set) == [k \in 0..Len(set) |-> After(b, set, k)]
IsChain(f, b, set) ==
  f = [k \in 0..Len(set) |-> IF k = 0 THEN b ELSE With(f[k - 1], set[k].field, set[k].value)]

LEMMA ConfiguredFinal ==
  ASSUME NEW b, b = [x \in DOMAIN b |-> b[x]], NEW S, NEW set \in Seq(S)
  PROVE  Configured(b, set) = Final(b, set)
<1>1. After(b, set, 0) = b
  BY DEF After, At
<1>2. Len(set) \in Nat
  OBVIOUS
<1>3. IsChain(Chain(b, set), b, set)
  <2>1. ASSUME NEW k \in 0..Len(set), k # 0
        PROVE  Chain(b, set)[k] = With(Chain(b, set)[k - 1], set[k].field, set[k].value)
    <3>1. k - 1 \in 0..Len(set) /\ k \in Nat \ {0}
      BY <1>2, <2>1
    <3> QED BY <3>1, AfterOne DEF Chain
  <2> QED BY <1>1, <1>2, <2>1 DEF Chain, IsChain
<1>4. PICK f : IsChain(f, b, set) /\ Configured(b, set) = f[Len(set)]
  <2>1. IsChain(CHOOSE f : IsChain(f, b, set), b, set)
    BY <1>3
  <2> QED BY <2>1 DEF Configured, IsChain
<1> DEFINE Same == {k \in 0..Len(set) : f[k] = After(b, set, k)}
<1>5. 0 \in Same
  BY <1>1, <1>2, <1>4 DEF IsChain
<1>6. \A k \in 1..Len(set) : k - 1 \in Same => k \in Same
  BY <1>2, <1>4, AfterOne DEF IsChain
<1>7. Len(set) \in Same
  <2> HIDE DEF Same
  <2>1. Len(set) \in 0..Len(set)
    BY <1>2
  <2> QED BY <1>2, <1>5, <1>6, <2>1, Induction
<1> QED BY <1>4, <1>7, AfterAll
-----------------------------------------------------------------------------
Settings == FundsSetters \cup LabelSetters \cup AdminSetters \cup SaltSetters

\* A proxy of a contract, that carries what has been set on it.
IsDraft(d) ==
  /\ d = [kind |-> d.kind, addr |-> d.addr, type |-> d.type, method |-> d.method, set |-> d.set,
          builder |-> d.builder]
  /\ d.type \in CodeTypes /\ d.set \in Seq(Settings)
  /\ \/ d.kind = "exec" /\ d.method \in Callable(d.type, "exec") /\ d.builder = Final([funds |-> 0], d.set)
     \/ /\ d.kind = "instantiate" /\ d.type \in stored
        /\ d.builder = Final(InstantiateDraft(d.type).builder, d.set)
     \/ d.kind = "migrate"

Typed ==
  /\ draft # <<>> => IsDraft(draft[1])
  /\ tx # <<>> => tx[1].op \in Ops /\ tx[1].type \in CodeTypes
  /\ stored \subseteq CodeTypes

\* What a proxy starts as.
LEMMA NewDrafts ==
  ASSUME NEW t \in CodeTypes, NEW addr
  PROVE  /\ \A method \in Callable(t, "exec") : IsDraft(ExecDraft(addr, t, method))
         /\ IsDraft(MigrateDraft(addr, t))
         /\ t \in stored => IsDraft(InstantiateDraft(t))
<1>1. <<>> \in Seq(Settings)
  OBVIOUS
<1>2. Final([funds |-> 0], <<>>) = [funds |-> 0]
  BY FinalNone
<1>3. Final(InstantiateDraft(t).builder, <<>>) = InstantiateDraft(t).builder
  <2>1. InstantiateDraft(t).builder = [x \in DOMAIN InstantiateDraft(t).builder |-> InstantiateDraft(t).builder[x]]
    BY DEF InstantiateDraft
  <2> QED BY <2>1, FinalNone
<1>4. ASSUME NEW method \in Callable(t, "exec") PROVE IsDraft(ExecDraft(addr, t, method))
  BY <1>1, <1>2, <1>4 DEF IsDraft, ExecDraft
<1>5. IsDraft(MigrateDraft(addr, t))
  BY <1>1 DEF IsDraft, MigrateDraft
<1>6. ASSUME t \in stored PROVE IsDraft(InstantiateDraft(t))
  <2> DEFINE b == [funds |-> 0, label |-> "Contract", admin |-> None, salt |-> None]
  <2>1. InstantiateDraft(t) = [kind |-> "instantiate", addr |-> None, type |-> t, method |-> <<>>, set |-> <<>>,
                               builder |-> b]
    BY DEF InstantiateDraft
  <2>2. Final(b, <<>>) = b
    BY <1>3, <2>1
  <2> HIDE DEF b
  <2> QED BY <1>1, <1>3, <1>6, <2>1, <2>2 DEF IsDraft
<1> QED BY <1>4, <1>5, <1>6

\* What a setter makes of it.
LEMMA SetDraft ==
  ASSUME NEW d, IsDraft(d), NEW s \in Setters[d.kind]
  PROVE  IsDraft([d EXCEPT !.builder = With(@, s.field, s.value), !.set = Append(@, s)])
<1> DEFINE new == [d EXCEPT !.builder = With(@, s.field, s.value), !.set = Append(@, s)]
<1>1. s \in Settings /\ d.kind # "migrate"
  BY SettersAssumption DEF IsDraft, Settings
<1>2. d.set \in Seq(Settings)
  BY DEF IsDraft
<1>3. Append(d.set, s) \in Seq(Settings)
  BY <1>1, <1>2
<1>4. \A b : With(Final(b, d.set), s.field, s.value) = Final(b, Append(d.set, s))
  BY <1>1, <1>2, FinalAppend
<1>5. \E k, a, t, m, set, b :
        d = [kind |-> k, addr |-> a, type |-> t, method |-> m, set |-> set, builder |-> b]
  BY DEF IsDraft
<1>6. PICK k, a, t, m, set, b :
        d = [kind |-> k, addr |-> a, type |-> t, method |-> m, set |-> set, builder |-> b]
  BY <1>5
<1>7. new = [kind |-> k, addr |-> a, type |-> t, method |-> m, set |-> Append(set, s),
             builder |-> With(b, s.field, s.value)]
  <2>1. d.set = set /\ d.builder = b
    BY <1>6
  <2> DEFINE u == Append(set, s)
             w == With(b, s.field, s.value)
  <2>2. new = [d EXCEPT !.builder = w, !.set = u]
    BY <2>1
  <2> HIDE DEF u, w, new
  <2>3. new = [kind |-> k, addr |-> a, type |-> t, method |-> m, set |-> u, builder |-> w]
    BY <1>6, <2>2
  <2> QED BY <2>3 DEF u, w
<1>8. /\ d.kind = k /\ d.addr = a /\ d.type = t /\ d.method = m /\ d.set = set /\ d.builder = b
  BY <1>6
<1> HIDE DEF new
<1>9. /\ new.kind = d.kind /\ new.addr = d.addr /\ new.type = d.type /\ new.method = d.method
      /\ new.set = Append(d.set, s) /\ new.builder = With(d.builder, s.field, s.value)
  BY <1>7, <1>8
<1>10. new = [kind |-> new.kind, addr |-> new.addr, type |-> new.type, method |-> new.method, set |-> new.set,
              builder |-> new.builder]
  BY <1>7
<1>11. IsDraft(new)
  BY <1>1, <1>3, <1>4, <1>9, <1>10 DEF IsDraft
<1> QED BY <1>11 DEF new

LEMMA NextTyped ==
  ASSUME Borrowed, Typed, [Next]_avars
  PROVE  Typed'
<1> USE DEF Typed
<1>0. ASSUME /\ stored \subseteq stored' /\ stored' \subseteq CodeTypes
             /\ draft' # <<>> => IsDraft(draft'[1])
             /\ tx' # <<>> => tx'[1].op \in Ops /\ tx'[1].type \in CodeTypes
      PROVE  Typed'
  BY <1>0 DEF IsDraft
<1>00. draft # <<>> => draft[1].type \in CodeTypes
  BY DEF IsDraft
<1>1. ASSUME UNCHANGED <<stored, draft, tx>> PROVE Typed'
  BY <1>0, <1>1
<1>2. ASSUME NEW op, Panic(op) PROVE Typed'
  BY <1>2 DEF Panic, chain, running
<1>3. CASE Blocks \/ Borrow
  BY <1>1, <1>2, <1>3 DEF Blocks, Read, SetBlock, UpdateBlock, EndUpdateBlock, Borrow, HoldRef, HoldRefMut,
     DropRef, DropRefMut, chain, running
<1>4. CASE StoreCode
  BY <1>0, <1>2, <1>4 DEF StoreCode, running
<1>5. CASE Query
  BY <1>1, <1>2, <1>5 DEF Query, chain, running
<1>6. ASSUME NEW drafts, Make(drafts), \A d \in drafts : IsDraft(d) PROVE Typed'
  BY <1>0, <1>6 DEF Make, chain, running
<1>7. CASE DraftOwn
  <2>1. PICK addr \in Addrs, t \in CodeTypes :
          Make({ExecDraft(addr, t, method) : method \in OwnMethods(t, "exec")}
               \cup {MigrateDraft(a, t) : a \in {a \in {addr} : Code[t].migrates}})
    BY <1>7 DEF DraftOwn
  <2>2. \A method \in OwnMethods(t, "exec") : IsDraft(ExecDraft(addr, t, method))
    BY NewDrafts DEF Callable
  <2>3. \A a : IsDraft(MigrateDraft(a, t))
    BY NewDrafts
  <2> QED BY <1>6, <2>1, <2>2, <2>3
<1>8. CASE DraftInterface
  <2>1. PICK addr \in Addrs, t \in CodeTypes :
          Make({ExecDraft(addr, t, method) : method \in InterfaceMethods(t, "exec")})
    BY <1>8 DEF DraftInterface
  <2>2. \A method \in InterfaceMethods(t, "exec") : IsDraft(ExecDraft(addr, t, method))
    BY NewDrafts DEF Callable
  <2> QED BY <1>6, <2>1, <2>2
<1>9. CASE DraftInstance
  <2>1. \A c \in stored : IsDraft(InstantiateDraft(c))
    BY NewDrafts
  <2> QED BY <1>6, <1>9, <2>1 DEF DraftInstance
<1>10. CASE Set
  <2>1. PICK s \in Setters[draft[1].kind] :
          draft' = <<[draft[1] EXCEPT !.builder = With(@, s.field, s.value), !.set = Append(@, s)]>>
    BY <1>10 DEF Set
  <2>2. draft # <<>> /\ UNCHANGED <<chain, running>>
    BY <1>10 DEF Set
  <2>3. IsDraft(draft'[1])
    <3>1. IsDraft(draft[1])
      BY <2>2
    <3> QED BY <2>1, <3>1, SetDraft
  <2> QED BY <1>0, <2>2, <2>3 DEF chain, running
<1>11. ASSUME NEW op \in Ops, NEW type \in CodeTypes, NEW message, NEW sender, NEW meant,
              Start(op, type, message, sender, meant, <<>>)
       PROVE  Typed'
  <2>1. CASE CanWrite
    BY <1>0, <1>11, <2>1 DEF Start, chain
  <2>2. CASE ~CanWrite
    BY <1>2, <1>11, <2>2 DEF Start
  <2> QED BY <2>1, <2>2
<1>12. CASE CallExec
  BY <1>00, <1>11, <1>12 DEF CallExec, Ops
<1>13. CASE CallMigrate
  BY <1>00, <1>11, <1>13 DEF CallMigrate, Ops
<1>14. CASE CallInstantiate
  <2>1. CASE NeedsFeature(draft[1])
    BY <1>0, <1>14, <2>1 DEF CallInstantiate, chain, running
  <2>2. CASE ~NeedsFeature(draft[1])
    BY <1>00, <1>11, <1>14, <2>2 DEF CallInstantiate, Ops
  <2> QED BY <2>1, <2>2
<1>15. CASE CallSudo
  BY <1>11, <1>15 DEF CallSudo, Ops
<1>16. CASE Transaction
  <2>1. CASE GoesOn
    BY <1>1, <2>1 DEF GoesOn
  <2>2. CASE Fails
    BY <1>0, <2>2, FailEnds DEF End
  <2>3. CASE Return
    BY <1>0, <2>3 DEF Return, End
  <2> QED BY <1>16, <2>1, <2>2, <2>3, TransactionStep
<1>17. CASE UNCHANGED avars
  BY <1>1, <1>17 DEF avars, chain, running
<1> QED BY <1>3, <1>4, <1>5, <1>7, <1>8, <1>9, <1>10, <1>12, <1>13, <1>14, <1>15, <1>16, <1>17
        DEF Next, Calls

LEMMA SpecTyped == Spec => []Typed
<1>1. Init => Typed
  BY DEF Init, Typed
<1> QED BY <1>1, NextTyped, SpecBorrowed, PTL DEF Spec

\* A panic is found either at the borrow of a call, while the test holds one that is in its way, or at
\* the end of a transaction that no handler of the contract of the proxy has failed.
THEOREM PanicsCorrect == Spec => []PanicsExplained
<1>1. Init => PanicsExplained
  BY DEF Init, PanicsExplained
<1>2. ASSUME Borrowed, Typed, PanicsExplained, [Next]_avars PROVE PanicsExplained'
  <2> SUFFICES ASSUME status' = "panicked" PROVE PanicsExplained'
    BY DEF PanicsExplained
  <2>1. CASE UNCHANGED avars
    BY <1>2, <2>1 DEF avars, borrows, PanicsExplained
  <2>2. ASSUME Idle, NEW op, Panic(op), ~CanWrite, op \in {"app", "read", "query"} => ~CanRead
        PROVE  PanicsExplained'
    <3>1. UNCHANGED <<cell, refs, excl>> /\ last'.op = op
      BY <2>2 DEF Panic, borrows, Quiet
    <3>2. ~(refs = 0 /\ excl = "none")
      BY <1>2, <2>2 DEF CanWrite, Borrowed, Idle
    <3>3. ~CanRead => excl # "none"
      BY <1>2, <2>2, BoundsAssumption DEF CanRead, Borrowed, Idle
    <3> QED BY <2>2, <3>1, <3>2, <3>3 DEF PanicsExplained
  <2>3. ~(Idle /\ UNCHANGED status)
    BY DEF Idle
  <2>4. ~CanRead => ~CanWrite
    BY DEF CanRead, CanWrite
  <2>5. CASE Blocks \/ Borrow \/ StoreCode
    BY <2>2, <2>3, <2>4, <2>5 DEF Blocks, Read, SetBlock, UpdateBlock, EndUpdateBlock, Borrow, HoldRef,
       HoldRefMut, DropRef, DropRefMut, StoreCode, Answered
  <2>6. CASE Query
    BY <2>2, <2>3, <2>4, <2>6 DEF Query, Answered
  <2>7. ~(DraftOwn \/ DraftInterface \/ DraftInstance \/ Set)
    BY <2>3 DEF DraftOwn, DraftInterface, DraftInstance, Set, Make
  <2>8. ASSUME Idle, NEW op \in Ops, NEW type, NEW message, NEW sender, NEW meant, NEW rest,
               Start(op, type, message, sender, meant, rest)
        PROVE  PanicsExplained'
    BY <2>2, <2>3, <2>8 DEF Start, Ops
  <2>9. CASE CallExec
    BY <2>8, <2>9 DEF CallExec, Ops
  <2>10. CASE CallMigrate
    BY <2>8, <2>10 DEF CallMigrate, Ops
  <2>11. CASE CallInstantiate
    BY <2>3, <2>8, <2>11 DEF CallInstantiate, Ops
  <2>12. CASE CallSudo
    BY <2>8, <2>12 DEF CallSudo, Ops
  <2>13. CASE Transaction
    <3>1. tx # <<>> /\ (GoesOn \/ Fails \/ Return)
      BY <1>2, <2>13, TransactionStep
    <3>2. status = "running"
      BY <1>2, <3>1 DEF Borrowed
    <3>3. CASE GoesOn
      BY <3>2, <3>3 DEF GoesOn
    <3>4. CASE Return
      BY <3>4 DEF Return, End
    <3>5. CASE Fails
      <4>1. PICK result, by, e : /\ End(result, by)
                                 /\ result = ErrorAnswer(tx[1].op, Code[tx[1].type].error, e)
                                 /\ by # None => e = Code[by].error
        BY <3>5, FailEnds
      <4>2. /\ UNCHANGED <<refs, excl>> /\ result = "panic"
            /\ last' = [op |-> tx[1].op, result |-> result, by |-> by, type |-> tx[1].type]
        BY <4>1 DEF End
      <4>3. tx[1].op # "exec" /\ e # Code[tx[1].type].error
        BY <4>1, <4>2 DEF ErrorAnswer
      <4>4. tx[1].op \in {"sudo", "migrate", "instantiate"}
        BY <1>2, <3>1, <4>3 DEF Typed, Ops
      <4>5. tx[1].type # None
        BY <1>2, <3>1, NoneAssumption DEF Typed, CodeTypes
      <4>6. by # tx[1].type
        BY <4>1, <4>3, <4>5
      <4> QED BY <4>2, <4>4, <4>6 DEF PanicsExplained
    <3> QED BY <3>1, <3>3, <3>4, <3>5
  <2> QED BY <1>2, <2>1, <2>5, <2>6, <2>7, <2>9, <2>10, <2>11, <2>12, <2>13 DEF Next, Calls
<1> QED BY <1>1, <1>2, SpecBorrowed, SpecTyped, PTL DEF Spec
-----------------------------------------------------------------------------
Admins == Addrs \cup Users \cup {None}
IsInstances(f) == f \in [DOMAIN f -> [code : stored, admin : Admins]] /\ DOMAIN f \subseteq Addrs

Fields == {"funds", "label", "admin", "salt"}

\* What AsBuilt and Reached say of one message.
Carries(m, set) ==
  \A field \in DOMAIN m \cap Fields :
    IF IsSet(set, field) THEN m[field] = LastSet(set, field)
    ELSE IF field = "funds" THEN m.funds = 0
    ELSE m[field] \in {None, "", "Contract"}

NamesAgree == \A v \in Variants : CaseName[v] = SerdeName[v]

Recognised(c, method, meant) ==
  /\ SerdeName[method[2]] = SerdeName[meant.method[2]]
  /\ NamesAgree /\ Implements(c, meant.method[1], meant.type) => method = meant.method

\* A message its author has sent: to the handle's address, of one of its methods, with
\* what has been set.
EnumType(kind) == IF kind = "execute" THEN "exec" ELSE kind
Addressed(m, meant, type) ==
  /\ m.contract_addr = meant.addr /\ meant.type \in Compiled
  /\ meant.method \in Callable(meant.type, type) /\ m.msg = Serialized(meant.method[2])

IsSent(p) ==
  /\ p.msg.kind \in {"execute", "sudo"} => Addressed(p.msg, p.meant, EnumType(p.msg.kind))
  /\ p.msg.kind \in {"instantiate", "migrate"} => p.msg.code_id \in stored
  /\ p.msg.kind \in {"instantiate", "admin"} => p.msg.admin \in Admins
  /\ p.msg.kind # "admin" => Carries(p.msg, p.meant.set)

Elements(s) == {s[k] : k \in DOMAIN s}

Sound ==
  /\ IsInstances(instances) /\ \A f \in saved : IsInstances(f)
  /\ pending \in Seq(Elements(pending)) /\ \A p \in Elements(pending) : IsSent(p)
-----------------------------------------------------------------------------
\* What is set last was set.
LEMMA LastIsSet ==
  ASSUME NEW S, NEW set \in Seq(S), NEW x, IsSet(set, x)
  PROVE  \E s \in S : s.field = x /\ LastSet(set, x) = s.value
<1> DEFINE at == {k \in DOMAIN set : set[k].field = x}
<1>1. at \subseteq 1..Len(set) /\ at # {} /\ Len(set) \in Nat
  BY DEF IsSet
<1>2. Max(at) \in at
  <2> HIDE DEF at
  <2> QED BY <1>1, Greatest
<1>3. set[Max(at)] \in S /\ set[Max(at)].field = x
  BY <1>2
<1> QED BY <1>3 DEF LastSet

LEMMA SetAppend ==
  ASSUME NEW S, NEW set \in Seq(S), NEW s \in S, NEW x
  PROVE  /\ IsSet(Append(set, s), x) <=> s.field = x \/ IsSet(set, x)
         /\ IsSet(Append(set, s), x) =>
              LastSet(Append(set, s), x) = IF s.field = x THEN s.value ELSE LastSet(set, x)
<1> DEFINE more == Append(set, s)
           b == [y \in {x} |-> None]
<1>1. Len(set) \in Nat /\ DOMAIN set = 1..Len(set) /\ DOMAIN more = 1..(Len(set) + 1)
      /\ more[Len(set) + 1] = s /\ \A j \in 1..Len(set) : more[j] = set[j]
  OBVIOUS
<1>2. IsSet(more, x) <=> s.field = x \/ IsSet(set, x)
  <2>1. DOMAIN more = DOMAIN set \cup {Len(set) + 1}
    BY <1>1
  <2> HIDE DEF more
  <2> QED BY <1>1, <2>1 DEF IsSet
<1>3. Final(b, more) = With(Final(b, set), s.field, s.value)
  BY FinalAppend
<1>4. DOMAIN Final(b, set) = {x} /\ Final(b, set)[x] = (IF IsSet(set, x) THEN LastSet(set, x) ELSE None)
  BY DEF Final
<1>5. Final(b, more)[x] = IF IsSet(more, x) THEN LastSet(more, x) ELSE None
  BY DEF Final
<1>6. Final(b, more)[x] = IF s.field = x THEN s.value ELSE Final(b, set)[x]
  BY <1>3, <1>4 DEF With
<1> QED BY <1>2, <1>4, <1>5, <1>6

\* A proxy serializes what was set on it.
LEMMA DraftSent ==
  ASSUME Typed, draft # <<>>, draft[1].kind \in {"exec", "instantiate"}, NEW sender
  PROVE  IsSent([msg |-> Drafted(draft[1]), sender |-> sender, meant |-> DraftMeant(draft[1])])
<1> DEFINE d == draft[1]
           m == Drafted(d)
<1>1. IsDraft(d)
  BY DEF Typed
<1> HIDE DEF d
<1>2. DraftMeant(d) = [addr |-> d.addr, type |-> d.type, method |-> d.method, set |-> d.set]
  BY DEF DraftMeant, Meant
<1>3. CASE d.kind = "exec"
  <2>1. d.builder.funds = IF IsSet(d.set, "funds") THEN LastSet(d.set, "funds") ELSE 0
    <3>1. d.builder = Final([funds |-> 0], d.set)
      BY <1>1, <1>3 DEF IsDraft
    <3> QED BY <3>1 DEF Final
  <2>2. m = [kind |-> "execute", contract_addr |-> d.addr, msg |-> Serialized(d.method[2]), funds |-> d.builder.funds]
    BY <1>3 DEF Drafted
  <2> HIDE DEF m
  <2>3. Carries(m, d.set)
    <3>1. DOMAIN m \cap Fields = {"funds"}
      BY <2>2 DEF Fields
    <3>2. m["funds"] = IF IsSet(d.set, "funds") THEN LastSet(d.set, "funds") ELSE 0
      BY <2>1, <2>2
    <3> QED BY <3>1, <3>2 DEF Carries
  <2>4. Addressed(m, DraftMeant(d), "exec")
    BY <1>1, <1>2, <1>3, <2>2 DEF Addressed, IsDraft, CodeTypes
  <2> QED BY <1>2, <2>2, <2>3, <2>4 DEF IsSent, EnumType, d, m
<1>4. CASE d.kind = "instantiate"
  <2> DEFINE b == d.builder
             Is(x, v) == b[x] = IF IsSet(d.set, x) THEN LastSet(d.set, x) ELSE v
  <2>1. /\ Is("funds", 0) /\ Is("label", "Contract") /\ Is("admin", None) /\ Is("salt", None)
        /\ d.type \in stored /\ d.set \in Seq(Settings)
    <3>1. b = Final(InstantiateDraft(d.type).builder, d.set)
      BY <1>1, <1>4 DEF IsDraft
    <3>2. InstantiateDraft(d.type).builder = [funds |-> 0, label |-> "Contract", admin |-> None, salt |-> None]
      BY DEF InstantiateDraft
    <3> QED BY <1>1, <1>4, <3>1, <3>2 DEF IsDraft, Final
  <2>2. m = [kind |-> "instantiate", code_id |-> d.type, msg |-> d.type, admin |-> b.admin,
             label |-> b.label, funds |-> b.funds, salt |-> b.salt]
    BY <1>4 DEF Drafted
  <2>3. b.admin \in Admins
    <3>1. CASE IsSet(d.set, "admin")
      <4>1. PICK s \in Settings : s.field = "admin" /\ LastSet(d.set, "admin") = s.value
        BY <2>1, <3>1, LastIsSet
      <4>2. s.value \in Admins
        BY <4>1 DEF Settings, FundsSetters, LabelSetters, AdminSetters, SaltSetters, Admins
      <4> QED BY <2>1, <3>1, <4>1, <4>2
    <3>2. CASE ~IsSet(d.set, "admin")
      BY <2>1, <3>2 DEF Admins
    <3> QED BY <3>1, <3>2
  <2> HIDE DEF m, b
  <2>4. Carries(m, d.set)
    <3>1. DOMAIN m \cap Fields = Fields
      BY <2>2 DEF Fields
    <3>2. m["funds"] = b["funds"] /\ m["label"] = b["label"] /\ m["admin"] = b["admin"] /\ m["salt"] = b["salt"]
      BY <2>2
    <3> QED BY <2>1, <3>1, <3>2 DEF Carries, Fields
  <2> QED BY <1>2, <2>1, <2>2, <2>3, <2>4 DEF IsSent, d, m
<1> QED BY <1>3, <1>4 DEF d

LEMMA MigrateSent ==
  ASSUME NEW addr, NEW code \in stored, NEW type, NEW sender, NEW meant
  PROVE  IsSent([msg |-> [kind |-> "migrate", contract_addr |-> addr, code_id |-> code, msg |-> type],
                 sender |-> sender, meant |-> meant])
BY DEF IsSent, Carries, Fields

LEMMA SudoSent ==
  ASSUME NEW addr, NEW t \in CodeTypes, NEW method \in Callable(t, "sudo"), NEW sender, NEW set
  PROVE  IsSent([msg |-> [kind |-> "sudo", contract_addr |-> addr, msg |-> Serialized(method[2])],
                 sender |-> sender, meant |-> Meant(addr, t, method, set)])
BY DEF IsSent, Carries, Fields, Addressed, EnumType, Meant, CodeTypes
-----------------------------------------------------------------------------
\* What a handler sends to a Remote carries the funds of its ExecutorBuilder.
LEMMA RemoteCallSent ==
  ASSUME NEW by, NEW a, NEW t \in Compiled, NEW method \in Callable(t, "exec"),
         NEW set \in SetterLists.executor
  PROVE  IsSent(SentBy(by, RemoteCall(a, set, method), Meant(a, t, method, set)))
<1> DEFINE b == Final(ExecutorNew(a), set)
           m == RemoteCall(a, set, method)
<1>1. set \in Seq(FundsSetters)
  BY SettersAssumption
<1>2. ExecutorNew(a) = [x \in DOMAIN ExecutorNew(a) |-> ExecutorNew(a)[x]]
  BY DEF ExecutorNew
<1>3. Configured(ExecutorNew(a), set) = b
  BY <1>1, <1>2, ConfiguredFinal
<1>4. ~IsSet(set, "contract_addr")
  <2>1. ~\E s \in FundsSetters : s.field = "contract_addr"
    BY DEF FundsSetters
  <2> QED BY <1>1, <2>1, LastIsSet
<1>5. b.contract_addr = a /\ b.funds = IF IsSet(set, "funds") THEN LastSet(set, "funds") ELSE 0
  BY <1>4 DEF Final, ExecutorNew
<1> HIDE DEF b
<1>6. m = [kind |-> "execute", contract_addr |-> a, msg |-> Serialized(method[2]), funds |-> b.funds]
  BY <1>3, <1>5 DEF RemoteCall, ExecuteMsg, ExecutorReady
<1> HIDE DEF m
<1>7. Carries(m, set)
  <2>1. DOMAIN m \cap Fields = {"funds"} /\ m["funds"] = b.funds
    BY <1>6 DEF Fields
  <2> QED BY <1>5, <2>1 DEF Carries
<1>8. IsSent([msg |-> m, sender |-> by, meant |-> [addr |-> a, type |-> t, method |-> method, set |-> set]])
  BY <1>6, <1>7 DEF IsSent, EnumType, Addressed
<1> QED BY <1>8 DEF m, SentBy, Meant

\* An InstantiateBuilder carries what was called on it, and the salt of build2.
LEMMA CreationSent ==
  ASSUME NEW by, NEW c, NEW id \in stored, NEW set \in SetterLists.builder, NEW salt \in {None, "salt"}
  PROVE  IsSent(SentBy(by, BuilderCall(c, id, set, salt),
                       Meant(None, c, <<>>, set \o <<[field |-> "salt", value |-> salt]>>)))
<1> DEFINE S == FundsSetters \cup LabelSetters \cup AdminSetters
           new == InstantiateNew(c, id)
           b == Final(new, set)
           m == BuilderCall(c, id, set, salt)
           last_one == [field |-> "salt", value |-> salt]
           all == set \o <<last_one>>
           Is(x, v) == b[x] = IF IsSet(set, x) THEN LastSet(set, x) ELSE v
           More == S \cup {last_one}
<1>1. set \in Seq(S) /\ set \in Seq(More)
  BY SettersAssumption
<1>2. new = [code_id |-> id, msg |-> c, admin |-> None, label |-> None, funds |-> 0]
  BY DEF InstantiateNew
<1>3. new = [x \in DOMAIN new |-> new[x]]
  BY DEF InstantiateNew
<1> HIDE DEF new
<1>4. Configured(new, set) = b
  BY <1>1, <1>3, ConfiguredFinal
<1>5. ASSUME NEW x, IsSet(set, x)
      PROVE  /\ x \in {"funds", "label", "admin"}
             /\ x = "admin" => LastSet(set, x) \in Admins
             /\ x = "label" => LastSet(set, x) # None
  <2>1. PICK s \in S : s.field = x /\ LastSet(set, x) = s.value
    BY <1>1, <1>5, LastIsSet
  <2> QED BY <2>1 DEF FundsSetters, LabelSetters, AdminSetters, Admins
<1>6. b.code_id = id /\ Is("funds", 0) /\ Is("label", None) /\ Is("admin", None)
  BY <1>2, <1>5 DEF Final
<1> HIDE DEF b
<1>7. m = [kind |-> "instantiate", code_id |-> id, msg |-> b.msg, admin |-> b.admin,
           label |-> IF b.label = None THEN "" ELSE b.label, funds |-> b.funds, salt |-> salt]
  BY <1>4, <1>6 DEF BuilderCall, InstantiateMsg, new
<1> HIDE DEF m
<1>8. all = Append(set, last_one) /\ last_one \in More /\ last_one.field = "salt" /\ last_one.value = salt
  <2> HIDE DEF last_one
  <2>1. last_one \in More
    OBVIOUS
  <2> HIDE DEF More
  <2>2. all = Append(set, last_one)
    BY <1>1, <2>1
  <2> QED BY <2>1, <2>2 DEF last_one
<1> HIDE DEF all, last_one, More
<1>9. ASSUME NEW x
      PROVE  /\ IsSet(all, x) <=> x = "salt" \/ IsSet(set, x)
             /\ IsSet(all, x) => LastSet(all, x) = IF x = "salt" THEN salt ELSE LastSet(set, x)
  BY <1>1, <1>8, SetAppend
<1>10. Carries(m, all)
  <2>1. DOMAIN m \cap Fields = Fields
    BY <1>7 DEF Fields
  <2>2. /\ m["funds"] = b["funds"] /\ m["admin"] = b["admin"] /\ m["salt"] = salt
        /\ m["label"] = IF b["label"] = None THEN "" ELSE b["label"]
    BY <1>7
  <2>3. ASSUME NEW field \in Fields
        PROVE  IF IsSet(all, field) THEN m[field] = LastSet(all, field)
               ELSE IF field = "funds" THEN m.funds = 0
               ELSE m[field] \in {None, "", "Contract"}
    <3>1. CASE field = "funds"
      BY <1>6, <1>9, <2>2, <3>1
    <3>2. CASE field = "admin"
      BY <1>6, <1>9, <2>2, <3>2
    <3>3. CASE field = "salt"
      BY <1>9, <2>2, <3>3
    <3>4. CASE field = "label"
      BY <1>5, <1>6, <1>9, <2>2, <3>4
    <3> QED BY <3>1, <3>2, <3>3, <3>4 DEF Fields
  <2> QED BY <2>1, <2>3 DEF Carries
<1>11. m.admin \in Admins
  BY <1>5, <1>6, <1>7 DEF Admins
<1>12. IsSent([msg |-> m, sender |-> by, meant |-> [addr |-> None, type |-> c, method |-> <<>>, set |-> all]])
  BY <1>7, <1>10, <1>11 DEF IsSent
<1> QED BY <1>12 DEF m, all, last_one, SentBy, Meant

LEMMA EmitsSent ==
  ASSUME NEW by, NEW messages \in Emits(by)
  PROVE  messages = <<>> \/ \E p : messages = <<p>> /\ IsSent(p)
<1> SUFFICES ASSUME messages # <<>> PROVE \E p : messages = <<p>> /\ IsSent(p)
  OBVIOUS
<1>1. PICK p \in RemoteCalls(by) \cup Creations(by) \cup AdminChanges(by) : messages = <<p>>
  BY DEF Emits
<1>2. CASE p \in RemoteCalls(by)
  <2>1. PICK h \in UNION {{<<a, t, method>> : method \in Callable(t, "exec")} : a \in Addrs, t \in Compiled},
             set \in SetterLists.executor :
               p = SentBy(by, RemoteCall(h[1], set, h[3]), Meant(h[1], h[2], h[3], set))
    BY <1>2 DEF RemoteCalls
  <2>2. PICK a \in Addrs, t \in Compiled : \E method \in Callable(t, "exec") : h = <<a, t, method>>
    BY <2>1
  <2>3. PICK method \in Callable(t, "exec") : h = <<a, t, method>>
    BY <2>2
  <2>4. p = SentBy(by, RemoteCall(a, set, method), Meant(a, t, method, set))
    BY <2>1, <2>3
  <2> QED BY <1>1, <2>4, RemoteCallSent
<1>3. CASE p \in Creations(by)
  BY <1>1, <1>3, CreationSent DEF Creations
<1>4. CASE p \in AdminChanges(by)
  <2>1. PICK a \in Addrs, new \in Users \cup {None} : p = SentBy(by, AdminMsg(a, new), Meant(a, None, <<>>, <<>>))
    BY <1>4 DEF AdminChanges
  <2>2. IsSent(p)
    BY <2>1 DEF SentBy, AdminMsg, IsSent, Admins
  <2> QED BY <1>1, <2>2
<1> QED BY <1>1, <1>2, <1>3, <1>4
-----------------------------------------------------------------------------
\* What is read from a method's message is a method of the name; where the names agree
\* and the receiver implements the module, the method.
LEMMA ReceivedIsRecognised ==
  ASSUME NEW c \in Compiled, NEW type \in EnumTypes, NEW meant, meant.type \in Compiled,
         meant.method \in Callable(meant.type, type),
         NEW method \in Received(c, type, Serialized(meant.method[2]))
  PROVE  Recognised(c, method, meant)
<1> DEFINE i == meant.method[1]
           v == meant.method[2]
           json == Serialized(v)
           j == Claimant(Code[c], type, json)
           w == method[2]
<1>1. Field(json) = SerdeName[v]
  BY DEF Field, Serialized
<1>2. Claimants(Code[c], type, json) # {} /\ method = <<j, w>> /\ w \in Parsed(Code[c], type, json)
  BY DEF Received
<1>3. SerdeName[w] = SerdeName[v] /\ w \in Code[c].methods[j][type]
  BY <1>1, <1>2 DEF Parsed
<1>4. i \in Modules /\ v \in Code[meant.type].methods[i][type] /\ meant.method = <<i, v>>
  BY NAssumption DEF Callable, OwnMethods, InterfaceMethods, Modules
<1>5. j \in Claimants(Code[c], type, json)
  <2>1. Claimants(Code[c], type, json) \subseteq Nat
    BY NAssumption DEF Claimants, Modules
  <2>2. \E x \in Claimants(Code[c], type, json) : \A y \in Claimants(Code[c], type, json) : x <= y
    BY <1>2, <2>1, Smallest
  <2> QED BY <2>2 DEF Claimant, Min
<1>6. PICK u \in Code[c].methods[j][type] : j \in Modules /\ CaseName[u] = SerdeName[v]
  BY <1>1, <1>5 DEF Claimants, Messages
<1>7. ASSUME NamesAgree, Implements(c, i, meant.type) PROVE method = meant.method
  <2>1. v \in Code[c].methods[i][type] /\ c \in DOMAIN Code
    BY <1>4, <1>7 DEF Implements, Compiled
  <2>2. CaseName[v] = CaseName[u]
    BY <1>4, <1>6, <1>7, <2>1, CodeAssumption DEF NamesAgree
  <2>3. i = j
    BY <1>4, <1>6, <2>1, <2>2, SMTT(30) DEF Compiled, Intersect, Messages
  <2>4. v = w
    BY <1>3, <1>4, <2>1, <2>3, SerdeAssumption
  <2> QED BY <1>2, <1>4, <2>3, <2>4
<1> QED BY <1>3, <1>7 DEF Recognised
-----------------------------------------------------------------------------
\* A method that is reached: Reached and AsBuilt, of one of them.
Well(d) ==
  /\ d.method # <<>> => d.got.contract_addr = d.meant.addr /\ Recognised(d.code, d.method, d.meant)
  /\ Carries(d.got, d.meant.set)

LEMMA AskedWell ==
  ASSUME Typed, Sound, NEW a, NEW t \in Compiled, NEW method \in Callable(t, "query"),
         NEW d \in Asked(RemoteQuery(a, method), Meant(a, t, method, <<>>))
  PROVE  Well(d)
<1> DEFINE q == RemoteQuery(a, method)
           meant == Meant(a, t, method, <<>>)
           c == instances[a].code
<1>1. q = [contract_addr |-> a, msg |-> Serialized(method[2])]
  BY DEF RemoteQuery, Bound
<1>2. meant = [addr |-> a, type |-> t, method |-> method, set |-> <<>>]
  BY DEF Meant
<1>3. a \in DOMAIN instances /\ \E got \in Received(c, "query", Serialized(method[2])) : d = Reaching(c, q, got, meant)
  BY <1>1 DEF Asked
<1>4. PICK got \in Received(c, "query", Serialized(method[2])) : d = Reaching(c, q, got, meant)
  BY <1>3
<1>5. c \in Compiled
  BY <1>3 DEF Sound, IsInstances, Typed, CodeTypes
<1>6. meant.type = t /\ meant.method = method /\ meant.set = <<>> /\ meant.addr = a
  BY <1>2
<1>7. d = [code |-> c, meant |-> meant, got |-> q, method |-> got]
  BY <1>4 DEF Reaching
<1> HIDE DEF meant, c, q
<1>8. Recognised(c, got, meant)
  BY <1>5, <1>6, ReceivedIsRecognised DEF EnumTypes
<1>9. Carries(q, <<>>)
  BY <1>1 DEF Carries, Fields
<1> QED BY <1>1, <1>6, <1>7, <1>8, <1>9 DEF Well

LEMMA HeadIsSent ==
  ASSUME Sound, pending # <<>>
  PROVE  /\ IsSent(Head(pending))
         /\ Tail(pending) \in Seq(Elements(pending))
<1> DEFINE S == Elements(pending)
<1>1. pending \in Seq(S) /\ \A p \in S : IsSent(p)
  BY DEF Sound
<1> HIDE DEF S
<1>2. Head(pending) \in S /\ Tail(pending) \in Seq(S)
  BY <1>1
<1> QED BY <1>1, <1>2 DEF S

\* The messages that stay are as good as they were.
LEMMA SentKept ==
  ASSUME Sound, UNCHANGED stored, NEW S, \A p \in S : IsSent(p), pending' \in Seq(S)
  PROVE  (pending \in Seq(Elements(pending)) /\ \A p \in Elements(pending) : IsSent(p))'
<1>1. \A k \in DOMAIN pending' : pending'[k] \in S
  OBVIOUS
<1>2. pending' \in Seq({pending'[k] : k \in DOMAIN pending'})
  BY <1>1
<1>3. \A p \in {pending'[k] : k \in DOMAIN pending'} : IsSent(p)
  BY <1>1
<1> QED BY <1>2, <1>3 DEF Elements, IsSent

LEMMA StartSound ==
  ASSUME Sound, NEW op, NEW type, NEW m, NEW sender, NEW meant, NEW rest,
         Start(op, type, m, sender, meant, rest),
         IsSent([msg |-> m, sender |-> sender, meant |-> meant])
  PROVE  Sound' /\ handled' = {}
<1> DEFINE p == [msg |-> m, sender |-> sender, meant |-> meant]
<1>1. CASE CanWrite
  <2>1. UNCHANGED chain /\ pending' = <<p>> /\ saved' = {instances} /\ handled' = {}
    BY <1>1 DEF Start
  <2> HIDE DEF p
  <2>2. pending' \in Seq({p})
    BY <2>1
  <2>3. UNCHANGED stored
    BY <2>1 DEF chain
  <2>4. (pending \in Seq(Elements(pending)) /\ \A x \in Elements(pending) : IsSent(x))'
    <3>1. \A x \in {p} : IsSent(x)
      BY DEF p
    <3> QED BY <2>2, <2>3, <3>1, SentKept
  <2> QED BY <2>1, <2>3, <2>4 DEF Sound, chain, IsInstances
<1>2. CASE ~CanWrite
  BY <1>2 DEF Start, Panic, running, chain, Sound, IsInstances, Elements, IsSent
<1> QED BY <1>1, <1>2

\* Before a transaction, and between two.
LEMMA TestSound ==
  ASSUME Borrowed, Typed, Sound, TestStep \/ CallStep
  PROVE  Sound' /\ \A d \in handled' : Well(d)
<1>1. ASSUME UNCHANGED <<instances, saved, pending>>, stored \subseteq stored'
      PROVE  Sound'
  BY <1>1 DEF Sound, IsInstances, Elements, IsSent
<1>2. ASSUME NEW op, Panic(op) PROVE Sound' /\ handled' = {}
  BY <1>1, <1>2 DEF Panic, chain, running
<1>3. CASE Blocks \/ Borrow \/ StoreCode
  BY <1>1, <1>2, <1>3 DEF Blocks, Read, SetBlock, UpdateBlock, EndUpdateBlock, Borrow, HoldRef, HoldRefMut,
     DropRef, DropRefMut, StoreCode, chain, running
<1>4. CASE Query
  <2>1. Sound'
    BY <1>1, <1>2, <1>4 DEF Query, chain, running
  <2>2. CASE CanRead
    <3>1. PICK a \in Addrs, t \in CodeTypes : \E method \in Callable(t, "query") :
                 handled' = Asked(RemoteQuery(a, method), Meant(a, t, method, <<>>))
      BY <1>4, <2>2 DEF Query
    <3>2. PICK method \in Callable(t, "query") :
                 handled' = Asked(RemoteQuery(a, method), Meant(a, t, method, <<>>))
      BY <3>1
    <3>3. t \in Compiled
      BY DEF CodeTypes
    <3> QED BY <2>1, <3>2, <3>3, AskedWell
  <2>3. CASE ~CanRead
    BY <1>2, <1>4, <2>3 DEF Query
  <2> QED BY <2>2, <2>3
<1>5. CASE DraftOwn \/ DraftInterface \/ DraftInstance \/ Set
  <2>1. UNCHANGED <<instances, saved, pending, stored>> /\ handled' = {}
    BY <1>5 DEF DraftOwn, DraftInterface, DraftInstance, Set, Make, chain, running
  <2> QED BY <1>1, <2>1
<1>6. CASE CallExec
  BY <1>6, StartSound, DraftSent DEF CallExec
<1>7. CASE CallMigrate
  <2>1. PICK sender \in Users, code \in stored :
          Start("migrate", draft[1].type,
                [kind |-> "migrate", contract_addr |-> draft[1].addr, code_id |-> code, msg |-> draft[1].type],
                sender, DraftMeant(draft[1]), <<>>)
    BY <1>7 DEF CallMigrate
  <2>2. IsSent([msg |-> [kind |-> "migrate", contract_addr |-> draft[1].addr, code_id |-> code, msg |-> draft[1].type],
                sender |-> sender, meant |-> DraftMeant(draft[1])])
    BY MigrateSent
  <2> QED BY <2>1, <2>2, StartSound
<1>8. CASE CallInstantiate
  <2>1. CASE NeedsFeature(draft[1])
    BY <1>1, <1>8, <2>1 DEF CallInstantiate, chain, running
  <2>2. CASE ~NeedsFeature(draft[1])
    BY <1>8, <2>2, StartSound, DraftSent DEF CallInstantiate
  <2> QED BY <2>1, <2>2
<1>9. CASE CallSudo
  <2>1. PICK a \in Addrs, t \in CodeTypes : \E method \in Callable(t, "sudo") :
          Start("sudo", t, [kind |-> "sudo", contract_addr |-> a, msg |-> Serialized(method[2])],
                None, Meant(a, t, method, <<>>), <<>>)
    BY <1>9 DEF CallSudo
  <2> QED BY <2>1, StartSound, SudoSent
<1> QED BY <1>3, <1>4, <1>5, <1>6, <1>7, <1>8, <1>9 DEF TestStep, CallStep

\* A transaction that fails brings the instances back.
LEMMA FailSound ==
  ASSUME Sound, NEW e, NEW by, Fail(e, by)
  PROVE  Sound'
<1>1. instances' \in saved /\ saved' = {} /\ pending' = <<>> /\ UNCHANGED stored
  BY DEF Fail, End
<1> QED BY <1>1 DEF Sound, IsInstances, Elements

LEMMA TakenSound ==
  ASSUME Sound, pending # <<>>, Taken, IsInstances(instances')
  PROVE  Sound'
<1>1. pending' = Tail(pending) /\ UNCHANGED <<stored, saved>>
  BY DEF Taken, Quietly
<1>2. (pending \in Seq(Elements(pending)) /\ \A p \in Elements(pending) : IsSent(p))'
  <2>1. pending' \in Seq(Elements(pending)) /\ \A p \in Elements(pending) : IsSent(p)
    BY <1>1, HeadIsSent DEF Sound
  <2> QED BY <1>1, <2>1, SentKept
<1> QED BY <1>1, <1>2 DEF Sound, IsInstances

\* A handler that a struct message reaches.
LEMMA StructReached ==
  ASSUME Sound, pending # <<>>, NEW c, NEW a, Reach(c, a, <<>>), Head(pending).msg.kind # "admin"
  PROVE  Taken /\ \A d \in handled' : Well(d)
<1>1. handled' = {[code |-> c, meant |-> Head(pending).meant, got |-> Head(pending).msg, method |-> <<>>]}
  BY DEF Reach, Reaching
<1>2. Carries(Head(pending).msg, Head(pending).meant.set)
  BY HeadIsSent DEF IsSent
<1> QED BY <1>1, <1>2 DEF Reach, Well

LEMMA HandleSound ==
  ASSUME Typed, Sound, NEW type \in EnumTypes, NEW kind \in {"execute", "sudo"}, type = EnumType(kind),
         Handle(type, kind)
  PROVE  Sound' /\ \A d \in handled' : Well(d)
<1> DEFINE p == Head(pending)
           m == p.msg
           c == instances[m.contract_addr].code
<1>1. pending # <<>> /\ m.kind = kind
  BY DEF Handle, Running
<1>2. CASE \E e, by : Fail(e, by) /\ handled' = {}
  BY <1>2, FailSound
<1>3. ASSUME m.contract_addr \in DOMAIN instances, NEW method \in Received(c, type, m.msg),
             Reach(c, m.contract_addr, method), UNCHANGED instances
      PROVE  Sound' /\ \A d \in handled' : Well(d)
  <2>1. IsSent(p)
    BY <1>1, HeadIsSent
  <2>2. Addressed(m, p.meant, type) /\ Carries(m, p.meant.set)
    BY <1>1, <2>1 DEF IsSent
  <2>3. c \in Compiled
    BY <1>3 DEF Sound, IsInstances, Typed, CodeTypes
  <2>4. handled' = {[code |-> c, meant |-> p.meant, got |-> m, method |-> method]} /\ Taken
    BY <1>3 DEF Reach, Reaching
  <2>5. Recognised(c, method, p.meant)
    BY <1>3, <2>2, <2>3, ReceivedIsRecognised DEF Addressed
  <2> HIDE DEF p, m, c
  <2>6. \A d \in handled' : Well(d)
    BY <2>2, <2>4, <2>5 DEF Well, Addressed
  <2>7. Sound'
    <3>1. IsInstances(instances')
      BY <1>3, <2>4 DEF Sound, IsInstances
    <3> QED BY <1>1, <2>4, <3>1, TakenSound DEF p
  <2> QED BY <2>6, <2>7
<1> QED BY <1>2, <1>3 DEF Handle, ChainFails, FailsParsing

LEMMA TransactionSound ==
  ASSUME Borrowed, Typed, Sound, Transaction
  PROVE  Sound' /\ \A d \in handled' : Well(d)
<1>1. ASSUME NEW e, NEW by, Fail(e, by), handled' = {}
      PROVE  Sound' /\ \A d \in handled' : Well(d)
  BY <1>1, FailSound
<1>2. CASE React
  <2> DEFINE h == handling[1]
  <2>1. ASSUME NEW messages \in Emits(h.addr), pending' = messages \o pending, handled' = {},
               UNCHANGED <<instances, stored, saved>>
        PROVE  Sound' /\ \A d \in handled' : Well(d)
    <3>1. messages = <<>> \/ \E p : messages = <<p>> /\ IsSent(p)
      BY <2>1, EmitsSent
    <3>2. \E S : pending' \in Seq(S) /\ \A p \in S : IsSent(p)
      <4>1. CASE messages = <<>>
        BY <2>1, <4>1 DEF Sound
      <4>2. ASSUME NEW p, messages = <<p>>, IsSent(p) PROVE \E S : pending' \in Seq(S) /\ \A q \in S : IsSent(q)
        <5> DEFINE E == Elements(pending)
                   S == E \cup {p}
        <5>1. pending \in Seq(E) /\ \A q \in E : IsSent(q)
          BY DEF Sound
        <5> HIDE DEF E
        <5>2. pending \in Seq(S) /\ <<p>> \in Seq(S)
          BY <5>1
        <5>3. \A q \in S : IsSent(q)
          BY <4>2, <5>1
        <5> HIDE DEF S
        <5>4. pending' \in Seq(S)
          BY <2>1, <4>2, <5>2
        <5> QED BY <5>3, <5>4
      <4> QED BY <3>1, <4>1, <4>2
    <3>3. (pending \in Seq(Elements(pending)) /\ \A p \in Elements(pending) : IsSent(p))'
      BY <2>1, <3>2, SentKept
    <3> QED BY <2>1, <3>3 DEF Sound, IsInstances
  <2>2. ASSUME NEW a, NEW t \in Compiled, NEW method \in Callable(t, "query"),
               handled' = Asked(RemoteQuery(a, method), Meant(a, t, method, <<>>)),
               UNCHANGED <<pending, instances, stored, saved>>
        PROVE  Sound' /\ \A d \in handled' : Well(d)
    <3>1. Sound'
      BY <2>2 DEF Sound, IsInstances, Elements, IsSent
    <3> QED BY <2>2, <3>1, AskedWell
  <2> QED BY <1>1, <1>2, <2>1, <2>2 DEF React, Quietly
<1>3. CASE Execute
  BY <1>3, HandleSound DEF Execute, EnumTypes, EnumType
<1>4. CASE Sudo
  BY <1>4, HandleSound DEF Sudo, EnumTypes, EnumType
<1>5. CASE Unfunded
  BY <1>1, <1>5 DEF Unfunded, ChainFails
<1>6. CASE Instantiate
  <2> DEFINE m == Head(pending).msg
  <2>1. pending # <<>> /\ m.kind = "instantiate"
    BY <1>6 DEF Instantiate, Running
  <2>2. m.code_id \in stored /\ m.admin \in Admins
    BY <2>1, HeadIsSent DEF IsSent
  <2>3. ASSUME NEW a \in Addrs \ DOMAIN instances,
               instances' = [x \in DOMAIN instances \cup {a} |->
                               IF x = a THEN [code |-> m.code_id, admin |-> m.admin] ELSE instances[x]],
               Reach(m.code_id, a, <<>>)
        PROVE  Sound' /\ \A d \in handled' : Well(d)
    <3>1. Taken /\ \A d \in handled' : Well(d)
      BY <2>1, <2>3, StructReached
    <3>2. IsInstances(instances')
      BY <2>2, <2>3 DEF Sound, IsInstances
    <3> QED BY <2>1, <3>1, <3>2, TakenSound
  <2> QED BY <1>1, <1>6, <2>3 DEF Instantiate, FailsParsing, ChainFails
<1>7. CASE Migrate
  <2> DEFINE m == Head(pending).msg
  <2>1. pending # <<>> /\ m.kind = "migrate"
    BY <1>7 DEF Migrate, Running
  <2>2. m.code_id \in stored
    BY <2>1, HeadIsSent DEF IsSent
  <2>3. ASSUME m.contract_addr \in DOMAIN instances,
               instances' = [instances EXCEPT ![m.contract_addr].code = m.code_id],
               Reach(m.code_id, m.contract_addr, <<>>)
        PROVE  Sound' /\ \A d \in handled' : Well(d)
    <3>1. Taken /\ \A d \in handled' : Well(d)
      BY <2>1, <2>3, StructReached
    <3>2. IsInstances(instances')
      <4> HIDE DEF m
      <4> QED BY <2>2, <2>3 DEF Sound, IsInstances
    <3> QED BY <2>1, <3>1, <3>2, TakenSound
  <2> QED BY <1>1, <1>7, <2>3 DEF Migrate, Administers, FailsParsing, ChainFails
<1>8. CASE ChangeAdmin
  <2> DEFINE m == Head(pending).msg
  <2>1. pending # <<>> /\ m.kind = "admin"
    BY <1>8 DEF ChangeAdmin, Running
  <2>2. m.admin \in Admins
    BY <2>1, HeadIsSent DEF IsSent
  <2>3. ASSUME m.contract_addr \in DOMAIN instances,
               instances' = [instances EXCEPT ![m.contract_addr].admin = m.admin], handled' = {}, Taken
        PROVE  Sound' /\ \A d \in handled' : Well(d)
    <3>1. IsInstances(instances')
      <4> HIDE DEF m
      <4> QED BY <2>2, <2>3 DEF Sound, IsInstances
    <3> QED BY <2>1, <2>3, <3>1, TakenSound
  <2> QED BY <1>1, <1>8, <2>3 DEF ChangeAdmin, Administers, ChainFails
<1>9. CASE Return
  <2>1. /\ UNCHANGED <<instances, stored>> /\ saved' = {} /\ pending' = <<>> /\ handled' = {}
    BY <1>9 DEF Return, End
  <2> QED BY <2>1 DEF Sound, IsInstances, Elements
<1> QED BY <1>2, <1>3, <1>4, <1>5, <1>6, <1>7, <1>8, <1>9 DEF Transaction

\* The invariant: what is on its way is as its author meant it, and so is what arrives.
Meaning == Sound /\ \A d \in handled : Well(d)

LEMMA SpecMeaning == Spec => []Meaning
<1>1. Init => Meaning
  BY DEF Init, Meaning, Sound, IsInstances, Elements
<1>2. ASSUME Borrowed, Typed, Meaning, [Next]_avars PROVE Meaning'
  <2>1. CASE UNCHANGED avars
    BY <1>2, <2>1 DEF avars, chain, running, Meaning, Sound, IsInstances, Elements, IsSent, Well
  <2>2. CASE Next
    <3>1. Sound' /\ \A d \in handled' : Well(d)
      BY <1>2, <2>2, TestSound, TransactionSound DEF Next, Calls, TestStep, CallStep, Meaning
    <3> QED BY <3>1 DEF Meaning, Well
  <2> QED BY <1>2, <2>1, <2>2
<1> QED BY <1>1, <1>2, SpecBorrowed, SpecTyped, PTL DEF Spec

\* The borrows are those of the test, and what the chain holds and is sent is well formed.
THEOREM TypeCorrect == Spec => []TypeOK
<1> DEFINE Within == height \in 0..MaxHeight
<1>1. Init => Within
  BY BoundsAssumption DEF Init
<1>2. ASSUME Borrowed, Within, [Next]_avars PROVE Within'
  <2>1. CASE Blocks \/ Borrow \/ StoreCode
    BY <1>2, <2>1 DEF Blocks, Read, SetBlock, UpdateBlock, EndUpdateBlock, Borrow, HoldRef, HoldRefMut,
       DropRef, DropRefMut, StoreCode, chain, Panic
  <2>2. CASE Query
    BY <1>2, <2>2 DEF Query, Panic, chain
  <2>3. CASE DraftOwn \/ DraftInterface \/ DraftInstance \/ Set
    BY <1>2, <2>3 DEF DraftOwn, DraftInterface, DraftInstance, Set, Make, chain
  <2>4. CASE CallStep
    BY <1>2, <2>4 DEF CallStep, CallExec, CallMigrate, CallInstantiate, CallSudo, Start, Panic, chain
  <2>5. CASE Transaction
    BY <1>2, <2>5, TransactionStep, FailEnds DEF GoesOn, End, Return
  <2> QED BY <1>2, <2>1, <2>2, <2>3, <2>4, <2>5 DEF Next, Calls, CallStep, avars, chain
<1>3. Borrowed /\ Typed /\ Meaning /\ Within => TypeOK
  BY DEF Borrowed, Typed, Meaning, Sound, IsInstances, TypeOK, Results, Admins
<1> HIDE DEF Within
<1> QED BY <1>1, <1>2, <1>3, SpecBorrowed, SpecTyped, SpecMeaning, PTL DEF Spec

\* Whatever is set, in whatever order, on an InstantiateBuilder, an ExecutorBuilder or a
\* proxy arrives as it was set last, and nothing else does.
THEOREM AsBuiltCorrect == Spec => []AsBuilt
<1>1. Meaning => AsBuilt
  BY DEF Meaning, Well, Carries, Fields, AsBuilt
<1> QED BY <1>1, SpecMeaning, PTL

\* A message made with a handle reaches the method called on it or, if the instance has
\* come to run other code, one of the same name, provided serde and convert_case name
\* the methods alike.
THEOREM HandlesReach == NamesAgree => (Spec => []Reached)
<1> SUFFICES ASSUME NamesAgree PROVE Spec => []Reached
  OBVIOUS
<1>1. Meaning => Reached
  BY DEF Meaning, Well, Recognised, Reached
<1> QED BY <1>1, SpecMeaning, PTL
=============================================================================
