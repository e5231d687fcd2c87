----------------------------- MODULE MultitestApp -----------------------------
(***************************************************************************)
(* A test that works on `multitest::App` through the helpers the macros    *)
(* generate: CodeId, InstantiateProxy, and the proxies of a contract, over *)
(* contracts that call each other as Remote has it.  The App is one        *)
(* RefCell that every helper borrows; the test may hold a borrow of its    *)
(* own, or be inside the closure of `update_block`.  A proxy gives a       *)
(* failure back as the error type of its contract, or panics.              *)
(*                                                                         *)
(* External: the test; the handlers, which succeed, fail with the error of *)
(* their contract, query, or send messages built as in Remote; and         *)
(* cw_multi_test, which executes the messages of a transaction depth first *)
(* and takes all of it back when one fails, with the error of that one.    *)
(***************************************************************************)
EXTENDS Remote

CONSTANTS
  Addrs, Users,  \* addresses of instances and of the test's accounts
  SetterLists,   \* builder |-> the sequences of [field, value] handlers set on it
  Setters,       \* kind of proxy |-> what a test sets on it
  MaxRefs, MaxHeight, MaxSetters, MaxMessages  \* bounds

ASSUME BoundsAssumption == {MaxRefs, MaxHeight, MaxSetters, MaxMessages} \subseteq Nat
ASSUME NoneAssumption == None \notin Codes

\* The setters of a kind of builder, by the types of what they take.
FundsSetters == [field : {"funds"}, value : Nat]
LabelSetters == [field : {"label"}, value : STRING \ {None}]
AdminSetters == [field : {"admin"}, value : Addrs \cup Users \cup {None}]
SaltSetters == [field : {"salt"}, value : STRING]

ASSUME SettersAssumption ==
  /\ Setters.exec \subseteq FundsSetters /\ Setters.migrate = {}
  /\ Setters.instantiate \subseteq FundsSetters \cup LabelSetters \cup AdminSetters \cup SaltSetters
  /\ SetterLists.executor \subseteq Seq(FundsSetters)
  /\ SetterLists.builder \subseteq Seq(FundsSetters \cup LabelSetters \cup AdminSetters)

VARIABLES
  cell,       \* the RefCell: -1 when borrowed mutably, else the number of Refs
  refs, excl, \* what the test holds: Refs; "none", a RefMut ("guard"), "closure"
  stored,     \* the codes on the chain
  instances,  \* address |-> [code, admin]
  height,     \* block_info
  draft,      \* <<>> or a proxy the test has not called yet
  tx,         \* <<>> or the call whose transaction runs: [op, type]
  pending,    \* its messages, each with its sender and what its author meant
  handling,   \* <<>> or the handler that runs, as [code, addr]
  spent,      \* how many messages have been executed
  saved,      \* the instances a failure brings back: one function during tx
  status,     \* "running" or "panicked"
  last,       \* how the test's last call ended: [op, result, by, type]
  handled,    \* what handlers were reached in the last step: {[code, got, meant]}
  cosmwasm_1_2 \* the cargo feature

borrows == <<cell, refs, excl>>
chain == <<stored, instances, height>>
running == <<tx, pending, handling, spent, saved>>
avars == <<borrows, chain, draft, running, status, last, handled, cosmwasm_1_2>>

Quiet == [op |-> None, result |-> None, by |-> None, type |-> None]
CodeTypes == Compiled \cap Codes
Errors == {"StdError", "anyhow"}  \* what the chain fails with

Idle == status = "running" /\ tx = <<>>
-----------------------------------------------------------------------------
\* RefCell::borrow and borrow_mut.

\* Fault: raw_query borrows mutably.
CanReadAlone == cell = 0

CanRead == cell # -1

\* Fault: only other writers are in the way.
CanWriteBesideRefs == cell # -1

CanWrite == cell = 0

Panic(op) == /\ status' = "panicked"
             /\ last' = [Quiet EXCEPT !.op = op, !.result = "panic"]
             /\ handled' = {}
             /\ draft' = <<>>
             /\ UNCHANGED <<borrows, chain, running, cosmwasm_1_2>>

Answered(op) == last' = [Quiet EXCEPT !.op = op, !.result = "Ok"] /\ UNCHANGED <<status, cosmwasm_1_2>>

\* App::app and app_mut, the guards of the test.
HoldRef == /\ Idle /\ refs < MaxRefs
           /\ IF CanRead
              THEN /\ cell' = cell + 1 /\ refs' = refs + 1
                   /\ Answered("app") /\ handled' = {}
                   /\ UNCHANGED <<excl, chain, draft, running>>
              ELSE Panic("app")

HoldRefMut == /\ Idle
              /\ IF CanWrite
                 THEN /\ cell' = -1 /\ excl' = "guard"
                      /\ Answered("app_mut") /\ handled' = {}
                      /\ UNCHANGED <<refs, chain, draft, running>>
                 ELSE Panic("app_mut")

DropRef == /\ Idle /\ refs > 0
           /\ cell' = cell - 1 /\ refs' = refs - 1
           /\ handled' = {} /\ last' = Quiet
           /\ UNCHANGED <<excl, chain, draft, running, status, cosmwasm_1_2>>

DropRefMut == /\ Idle /\ excl = "guard"
              /\ cell' = 0 /\ excl' = "none"
              /\ handled' = {} /\ last' = Quiet
              /\ UNCHANGED <<refs, chain, draft, running, status, cosmwasm_1_2>>

\* block_info and code_info
Read == /\ Idle
        /\ IF CanRead
           THEN Answered("read") /\ handled' = {} /\ UNCHANGED <<borrows, chain, draft, running>>
           ELSE Panic("read")

SetBlock == /\ Idle
            /\ IF CanWrite
               THEN /\ height' \in 0..MaxHeight
                    /\ Answered("set_block") /\ handled' = {}
                    /\ UNCHANGED <<borrows, stored, instances, draft, running>>
               ELSE Panic("set_block")

\* update_block: the closure of the test runs under the borrow.
UpdateBlock == /\ Idle
               /\ IF CanWrite
                  THEN /\ cell' = -1 /\ excl' = "closure"
                       /\ handled' = {} /\ last' = Quiet
                       /\ UNCHANGED <<refs, chain, draft, running, status, cosmwasm_1_2>>
                  ELSE Panic("update_block")

EndUpdateBlock == /\ Idle /\ excl = "closure"
                  /\ cell' = 0 /\ excl' = "none" /\ height' \in 0..MaxHeight
                  /\ Answered("update_block") /\ handled' = {}
                  /\ UNCHANGED <<refs, stored, instances, draft, running>>

\* CodeId::store_code
StoreCode == /\ Idle
             /\ IF CanWrite
                THEN /\ \E c \in CodeTypes : stored' = stored \cup {c}
                     /\ Answered("store_code") /\ handled' = {}
                     /\ UNCHANGED <<borrows, instances, height, draft, running>>
                ELSE Panic("store_code")
-----------------------------------------------------------------------------
\* What the author of a message meant: a method of a handle, with these setters.
Meant(addr, type, method, setters) ==
  [addr |-> addr, type |-> type, method |-> method, set |-> setters]

\* A handler of code c is reached through the message m.
Reaching(c, m, method, meant) == [code |-> c, meant |-> meant, got |-> m, method |-> method]

\* The smart query of an instance: who is reached, if anyone.
Asked(q, meant) ==
  IF q.contract_addr \notin DOMAIN instances THEN {}
  ELSE LET c == instances[q.contract_addr].code IN
       {Reaching(c, q, method, meant) : method \in Received(c, "query", q.msg)}

\* A query method of a proxy: raw_query borrows; any failure comes as a StdError, which
\* is converted to the error of the contract.
Query == /\ Idle
         /\ IF CanRead
            THEN \E addr \in Addrs, t \in CodeTypes : \E method \in Callable(t, "query") :
                   /\ handled' = Asked(RemoteQuery(addr, method), Meant(addr, t, method, <<>>))
                   /\ \/ /\ handled' # {}
                         /\ Answered("query")
                      \/ /\ last' = [op |-> "query", result |-> "std", by |-> None, type |-> t]
                         /\ UNCHANGED <<status, cosmwasm_1_2>>
                   /\ UNCHANGED <<borrows, chain, draft, running>>
            ELSE Panic("query")
-----------------------------------------------------------------------------
\* ExecProxy::new, MigrateProxy::new and CodeId::instantiate: nothing is borrowed yet.
ExecDraft(addr, t, method) ==
  [kind |-> "exec", addr |-> addr, type |-> t, method |-> method, set |-> <<>>, builder |-> [funds |-> 0]]
MigrateDraft(addr, t) ==
  [kind |-> "migrate", addr |-> addr, type |-> t, method |-> <<>>, set |-> <<>>, builder |-> <<>>]
InstantiateDraft(c) ==
  [kind |-> "instantiate", addr |-> None, type |-> c, method |-> <<>>, set |-> <<>>,
   builder |-> [funds |-> 0, label |-> "Contract", admin |-> None, salt |-> None]]

Make(drafts) == /\ Idle /\ draft = <<>>
                /\ draft' \in {<<d>> : d \in drafts}
                /\ last' = Quiet /\ handled' = {}
                /\ UNCHANGED <<borrows, chain, running, status, cosmwasm_1_2>>

\* The methods of the Proxy traits of the contract and of its interfaces.
DraftOwn == \E addr \in Addrs, t \in CodeTypes :
              Make({ExecDraft(addr, t, method) : method \in OwnMethods(t, "exec")}
                   \cup {MigrateDraft(a, t) : a \in {a \in {addr} : Code[t].migrates}})
DraftInterface == \E addr \in Addrs, t \in CodeTypes :
                    Make({ExecDraft(addr, t, method) : method \in InterfaceMethods(t, "exec")})
DraftInstance == Make({InstantiateDraft(c) : c \in stored})

\* with_funds, with_label, with_admin, with_salt
Set == /\ Idle /\ draft # <<>> /\ Len(draft[1].set) < MaxSetters
       /\ \E s \in Setters[draft[1].kind] :
            draft' = <<[draft[1] EXCEPT !.builder = With(@, s.field, s.value), !.set = Append(@, s)]>>
       /\ last' = Quiet /\ handled' = {}
       /\ UNCHANGED <<borrows, chain, running, status, cosmwasm_1_2>>

\* The borrow of a call, held until it returns; what is left of the draft.
Start(op, type, message, sender, meant, rest) ==
  IF CanWrite
  THEN /\ cell' = -1 /\ draft' = rest
       /\ tx' = <<[op |-> op, type |-> type]>>
       /\ pending' = <<[msg |-> message, sender |-> sender, meant |-> meant]>>
       /\ handling' = <<>> /\ spent' = 0 /\ saved' = {instances}
       /\ last' = Quiet /\ handled' = {}
       /\ UNCHANGED <<refs, excl, chain, status, cosmwasm_1_2>>
  ELSE Panic(op)

\* The message of the draft.
Drafted(d) ==
  CASE d.kind = "exec" ->
         [kind |-> "execute", contract_addr |-> d.addr, msg |-> Serialized(d.method[2]), funds |-> d.builder.funds]
    [] d.kind = "instantiate" ->
         [kind |-> "instantiate", code_id |-> d.type, msg |-> d.type, admin |-> d.builder.admin,
          label |-> d.builder.label, funds |-> d.builder.funds, salt |-> d.builder.salt]

DraftMeant(d) == Meant(d.addr, d.type, d.method, d.set)

CallExec == /\ Idle /\ draft # <<>> /\ draft[1].kind = "exec"
            /\ \E sender \in Users :
                 Start("exec", draft[1].type, Drafted(draft[1]), sender, DraftMeant(draft[1]), <<>>)

\* MigrateProxy::call, to any code.
CallMigrate == /\ Idle /\ draft # <<>> /\ draft[1].kind = "migrate"
               /\ \E sender \in Users, code \in stored :
                    Start("migrate", draft[1].type,
                          [kind |-> "migrate", contract_addr |-> draft[1].addr, code_id |-> code, msg |-> draft[1].type],
                          sender, DraftMeant(draft[1]), <<>>)

\* InstantiateProxy::call.  With a salt it needs the feature, and fails without it.
NeedsFeature(d) == d.builder.salt # None /\ ~cosmwasm_1_2

CallInstantiate ==
  /\ Idle /\ draft # <<>> /\ draft[1].kind = "instantiate"
  /\ IF NeedsFeature(draft[1])
     THEN /\ last' = [op |-> "instantiate", result |-> "std", by |-> None, type |-> draft[1].type]
          /\ handled' = {} /\ draft' = <<>>
          /\ UNCHANGED <<borrows, chain, running, status, cosmwasm_1_2>>
     ELSE \E sender \in Users :
            Start("instantiate", draft[1].type, Drafted(draft[1]), sender, DraftMeant(draft[1]), <<>>)

\* A sudo method of a proxy.  Bound: not between the making and the call of a draft.
CallSudo == /\ Idle /\ draft = <<>>
            /\ \E addr \in Addrs, t \in CodeTypes : \E method \in Callable(t, "sudo") :
                 Start("sudo", t, [kind |-> "sudo", contract_addr |-> addr, msg |-> Serialized(method[2])],
                       None, Meant(addr, t, method, <<>>), <<>>)
-----------------------------------------------------------------------------
\* The end of a call.  ExecProxy converts what is not its contract's error, the other
\* helpers unwrap the downcast.

\* Fault: every error is wrapped in a generic one.
ErrorAnswerGeneric(op, own, e) == IF op = "exec" THEN "generic" ELSE IF e = own THEN "own" ELSE "panic"

ErrorAnswer(op, own, e) == IF e = own THEN "own"
                           ELSE IF op # "exec" THEN "panic"
                           ELSE IF e = "StdError" THEN "std" ELSE "generic"

\* Fault: the guard outlives the call.
Kept == cell' = -1

Released == cell' = 0

End(result, by) == /\ Released
                   /\ tx' = <<>> /\ pending' = <<>> /\ handling' = <<>> /\ saved' = {} /\ spent' = 0
                   /\ last' = [op |-> tx[1].op, result |-> result, by |-> by, type |-> tx[1].type]
                   /\ status' = IF result = "panic" THEN "panicked" ELSE "running"
                   /\ UNCHANGED <<refs, excl, stored, height, draft, cosmwasm_1_2>>

\* The transaction fails with an error of type e, of a handler of code by or of nobody's.
Fail(e, by) == /\ instances' \in saved
               /\ End(ErrorAnswer(tx[1].op, Code[tx[1].type].error, e), by)

Return == /\ tx # <<>> /\ pending = <<>> /\ handling = <<>>
          /\ handled' = {} /\ UNCHANGED instances
          /\ End("Ok", None)

ChainFails == /\ handled' = {}
              /\ \E e \in Errors : Fail(e, None)
-----------------------------------------------------------------------------
\* What a handler of code c at addr does: the messages it adds, built as Remote has it.
SentBy(addr, message, meant) == [msg |-> message, sender |-> addr, meant |-> meant]

RemoteCalls(addr) ==
  {SentBy(addr, RemoteCall(h[1], set, h[3]), Meant(h[1], h[2], h[3], set)) :
     h \in UNION {{<<a, t, method>> : method \in Callable(t, "exec")} : a \in Addrs, t \in Compiled},
     set \in SetterLists.executor}
Creations(addr) ==
  {SentBy(addr, BuilderCall(c, id, set, salt), Meant(None, c, <<>>, set \o <<[field |-> "salt", value |-> salt]>>)) :
     c \in CodeTypes, id \in stored, set \in SetterLists.builder, salt \in {None, "salt"}}
AdminChanges(addr) ==
  {SentBy(addr, AdminMsg(a, new), Meant(a, None, <<>>, <<>>)) : a \in Addrs, new \in Users \cup {None}}

Emits(addr) ==
  IF spent >= MaxMessages THEN {<<>>}
  ELSE {<<>>} \cup {<<m>> : m \in RemoteCalls(addr) \cup Creations(addr) \cup AdminChanges(addr)}

Quietly == UNCHANGED <<borrows, stored, height, draft, tx, saved, status, last, cosmwasm_1_2>>

\* A handler that queries and cannot use the answer fails with an error of its own.
React ==
  /\ handling # <<>>
  /\ LET h == handling[1] IN
     \/ /\ \E messages \in Emits(h.addr) : pending' = messages \o pending
        /\ handling' = <<>> /\ handled' = {}
        /\ UNCHANGED <<spent, instances>> /\ Quietly
     \/ /\ \E a \in Addrs, t \in Compiled : \E method \in Callable(t, "query") :
             handled' = Asked(RemoteQuery(a, method), Meant(a, t, method, <<>>))
        /\ UNCHANGED <<pending, handling, spent, instances>> /\ Quietly
     \/ handled' = {} /\ Fail(Code[h.code].error, h.code)

\* The next message, of this kind, is taken up.
Running(kind) == tx # <<>> /\ handling = <<>> /\ pending # <<>> /\ Head(pending).msg.kind = kind
Taken == pending' = Tail(pending) /\ spent' = spent + 1 /\ Quietly

\* A handler of code c for the instance at addr is called through it.
Reach(c, addr, method) ==
  /\ handling' = <<[code |-> c, addr |-> addr]>>
  /\ handled' = {Reaching(c, Head(pending).msg, method, Head(pending).meant)}
  /\ Taken

FailsParsing == handled' = {} /\ Fail("StdError", None)
-----------------------------------------------------------------------------
\* An execute or a sudo message: from_json, then dispatch.
Handle(type, kind) ==
  /\ Running(kind)
  /\ LET m == Head(pending).msg IN
     IF m.contract_addr \notin DOMAIN instances THEN ChainFails
     ELSE LET c == instances[m.contract_addr].code IN
          \/ Received(c, type, m.msg) = {} /\ FailsParsing
          \/ /\ \E method \in Received(c, type, m.msg) : Reach(c, m.contract_addr, method)
             /\ UNCHANGED instances

Execute == Handle("exec", "execute")
Sudo == Handle("sudo", "sudo")

\* The sender lacks the funds of the message.
Unfunded == /\ Running("execute") \/ Running("instantiate")
            /\ Head(pending).msg.funds > 0
            /\ ChainFails

\* The message of another contract may not be one of this one; the address a salt gives
\* may be taken.
Instantiate ==
  /\ Running("instantiate")
  /\ LET m == Head(pending).msg IN
     \/ m.code_id # m.msg /\ FailsParsing
     \/ \E a \in Addrs \ DOMAIN instances :
          /\ instances' = [x \in DOMAIN instances \cup {a} |->
                             IF x = a THEN [code |-> m.code_id, admin |-> m.admin] ELSE instances[x]]
          /\ Reach(m.code_id, a, <<>>)
     \/ (m.salt # None \/ Addrs = DOMAIN instances) /\ ChainFails

Administers(sender, m) == m.contract_addr \in DOMAIN instances /\ instances[m.contract_addr].admin = sender

\* A contract without a migrate method bails out.
Migrate ==
  /\ Running("migrate")
  /\ LET m == Head(pending).msg IN
     IF ~Administers(Head(pending).sender, m) THEN ChainFails
     ELSE IF ~Code[m.code_id].migrates THEN handled' = {} /\ Fail("anyhow", None)
     ELSE \/ m.code_id # m.msg /\ FailsParsing
          \/ /\ instances' = [instances EXCEPT ![m.contract_addr].code = m.code_id]
             /\ Reach(m.code_id, m.contract_addr, <<>>)

ChangeAdmin ==
  /\ Running("admin")
  /\ LET m == Head(pending).msg IN
     IF ~Administers(Head(pending).sender, m) THEN ChainFails
     ELSE /\ instances' = [instances EXCEPT ![m.contract_addr].admin = m.admin]
          /\ handled' = {} /\ handling' = <<>> /\ Taken
-----------------------------------------------------------------------------
Init == /\ cell = 0 /\ refs = 0 /\ excl = "none"
        /\ stored = {} /\ instances = <<>> /\ height = 0
        /\ draft = <<>> /\ tx = <<>> /\ pending = <<>> /\ handling = <<>> /\ spent = 0 /\ saved = {}
        /\ status = "running" /\ last = Quiet /\ handled = {}
        /\ cosmwasm_1_2 \in BOOLEAN

Borrow == HoldRef \/ HoldRefMut \/ DropRef \/ DropRefMut
Blocks == Read \/ SetBlock \/ UpdateBlock \/ EndUpdateBlock
Calls == StoreCode \/ Query \/ DraftOwn \/ DraftInterface \/ DraftInstance \/ Set \/ CallExec \/ CallMigrate \/ CallInstantiate \/ CallSudo
Transaction == React \/ Execute \/ Sudo \/ Unfunded \/ Instantiate \/ Migrate \/ ChangeAdmin \/ Return
Next == Blocks \/ Borrow \/ Calls \/ Transaction

Spec == Init /\ [][Next]_avars
-----------------------------------------------------------------------------
Idles == pending = <<>> /\ handling = <<>> /\ saved = {} /\ spent = 0

\* The type invariant.  Between calls the RefCell counts exactly the borrows the test
\* holds, so no helper keeps one, and during a call and a closure it is taken.
TypeOK ==
  /\ refs \in 0..MaxRefs /\ excl \in {"none", "guard", "closure"} /\ (refs = 0 \/ excl = "none")
  /\ cell = IF tx # <<>> \/ excl # "none" THEN -1 ELSE refs
  /\ tx = <<>> => Idles
  /\ stored \subseteq CodeTypes /\ height \in 0..MaxHeight
  /\ DOMAIN instances \subseteq Addrs
  /\ \A a \in DOMAIN instances : /\ instances[a].code \in stored
                                 /\ instances[a].admin \in Addrs \cup Users \cup {None}
  /\ status \in {"running", "panicked"} /\ last.result \in {None, "Ok", "own", "std", "generic", "panic"}

\* A message built with a handle reaches the instance of the handle, whatever code runs
\* there by now, in a method of the name that was called; in the very method, when the
\* code implements the module the handle has it from.  Otherwise nobody is reached.
Reached ==
  \A d \in handled : d.method # <<>> =>
    /\ d.got.contract_addr = d.meant.addr
    /\ SerdeName[d.method[2]] = SerdeName[d.meant.method[2]]
    /\ Implements(d.code, d.meant.method[1], d.meant.type) => d.method = d.meant.method

LastSet(set, field) == LET at == {k \in DOMAIN set : set[k].field = field} IN set[Max(at)].value
IsSet(set, field) == \E k \in DOMAIN set : set[k].field = field

\* Every value an author sets last on a builder or on a proxy is that of the message
\* its receiver handles, in whatever order it was set, on either way to instantiate;
\* and nothing is set that the author did not set.
AsBuilt ==
  \A d \in handled : \A field \in DOMAIN d.got \cap {"funds", "label", "admin", "salt"} :
    IF IsSet(d.meant.set, field) THEN d.got[field] = LastSet(d.meant.set, field)
    ELSE IF field = "funds" THEN d.got.funds = 0
    ELSE d.got[field] \in {None, "", "Contract"}

\* The error a handler of the contract of a proxy fails with is the one the test gets:
\* no helper panics on it or wraps it, however deep in the transaction it was raised.
OwnErrorsReturned == last.by = last.type /\ last.type # None => last.result = "own"

\* A test that holds no borrow only panics in a sudo, a migration or an instantiation
\* that fails with an error of somebody else.  Holding Refs, it can still read.
PanicsExplained ==
  status = "panicked" =>
    /\ refs = 0 /\ excl = "none" => last.op \in {"sudo", "migrate", "instantiate"} /\ last.by # last.type
    /\ last.op \in {"app", "read", "query"} => excl # "none"

\* While the test holds a Ref of the App, what it reads there cannot change.
ReadersSeeStable == [][refs > 0 => UNCHANGED chain]_avars
=============================================================================
