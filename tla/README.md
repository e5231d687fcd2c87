# A TLA+ verification of Sylvia

Sylvia generates CosmWasm contracts: a contract is a Rust `impl` block with
attributes, and procedural macros (`src/sylvia-derive`) turn it into message
types, their dispatch, the entry points the chain calls, reply handling, and
helpers for tests. A small runtime (`src/sylvia`) supports the generated code,
and `src/examples` holds contracts written with it, among them a token
(cw20-base) and two proxy contracts (cw1-whitelist, cw1-subkeys).

This directory models the parts of it that decide something, checks them with
TLC on small instances, and proves the most important results with TLAPS for
every instance. `PROJECT.json` lists the components, the runs, one mutant per
checked property, the lines every definition stands for, the disagreements
between code and documentation that were found, the hazards and the theorems.

1. [Inventory](#1-inventory)
2. [Modules](#2-modules)
3. [Runs and bounds](#3-runs-and-bounds)
4. [Fairness and deadlock](#4-fairness-and-deadlock)
5. [Proofs](#5-proofs)
6. [Disagreements found](#6-disagreements-found)
7. [Not modelled](#7-not-modelled)
8. [Plan](#8-plan)

## 1. Inventory

### 1.1 The framework

Expansion runs at compile time and is sequential; what is hard in it is order:
methods, interfaces, attributes and lists of names come in any order the author
chooses, and several passes that are written independently of each other must
agree on the result. The generated code then runs on the chain, one message at
a time, with callbacks (replies) from the chain and several modules of
different authors listening to the same untagged JSON.

| Component | State | Operations | Hard to get right | Correct means |
|---|---|---|---|---|
| Overlap assertion (`sylvia/src/utils.rs`) | a position in each of N sorted lists | one merge step | index arithmetic on empty and finished lists; each name is compared once only | never out of bounds; panics exactly on a shared name; ends |
| Reply table (`contract/communication/reply.rs`, `ReplyVariants`) | table id → one or two methods | enter a method: push, merge, reject | the first method entered decides payload and data of the entry; ids collide when names differ in underscores only | accepts exactly the compatible methods; one arm per declared outcome |
| Reply dispatch (the same file, `Reply`) | submessages in flight, ids, payloads | setters, `dispatch_reply` | an id is built by one expansion and matched by another; payload, data and context share one scope; a method may answer with new submessages | a submessage ends in the declared method with its own payload; no error is swallowed |
| Composed messages (`wrapper_msg.rs`, `types/interfaces.rs`, `enum_msg.rs`, `into_response.rs`) | lists of names per module and type | serialize, deserialize, dispatch, convert a response | the first module that lists a name decides; names come from two libraries | a message reaches the method it was built from and nothing else does |
| Entry points and overrides (`entry_points.rs`, `override_entry_point.rs`, `contract/mt.rs`) | what is generated per message type, for the chain and for tests | expand, call | the chain and the test build are two expansions of one source | every type of message behaves the same in both |
| Attribute parser (`parser/attributes`) | an accumulator over the attributes of an item | one attribute | first, last or only occurrence wins, depending on the attribute; one that does not parse is followed by others | every attribute that is accepted has its effect |
| Generics (`check_generics.rs`, `associated_types.rs`, `fold.rs`, `utils.rs`) | the sets of used parameters and of predicates | visit a type, filter | messages and accessors are derived at two places, in the order of first use | every message declares the parameters it uses, and is referred to with these |
| The macros on an item (`lib.rs`, `contract.rs`, `interface.rs`, `entry_points.rs`) | the item as the previous macro has left it | one macro | `contract` removes the attributes `entry_points` reads | an accepted item has all its messages and entry points, and none of the attributes left |
| Multitest `App` and proxies (`sylvia/src/multitest.rs`, generated proxies) | one `RefCell` around the chain simulation | borrow, execute, query | a borrow held over a call panics | a proxy panics for stated reasons only, keeps no borrow, and gives back the error of its contract |
| Remote, querier, executor, instantiate builder (`sylvia/src/types.rs`, `builder/`) | a message under construction | set a field, build | what is sent must be what the other contract parses | a built message is the method's message |
| Contexts (`ctx.rs`) | none | conversion from tuples | – | the chain's values arrive |

They are connected as follows. The lists of names of the composed messages are
the input of the overlap assertion; the entry points call the dispatch of the
composed messages, of the struct messages and of replies; the reply dispatch
works on the reply table; the multitest helpers implement the same entry points
again, without the code of the entry points.

### 1.2 The example contracts

A contract keeps maps and items in the chain's storage and handles one message
at a time, to the end; a message that fails or panics leaves the storage as it
was. There is no interleaving inside a handler, but any sequence of messages by
any senders, with blocks in between, is possible.

| Component | State | Operations | Hard to get right | Correct means |
|---|---|---|---|---|
| cw20-base token | `balances`, `token_info` (supply, minter, cap), `allowances`, `allowances_spender`, the block height | transfer, burn, send, mint, update minter, increase and decrease allowance, the three calls on behalf of an owner, instantiate, migrate | balances updated one after the other; two maps of the same allowances updated one after the other; expiry; migrations, which build the second map again from the first | supply = sum of balances; the maps agree; the cap holds; only who is entitled takes or makes tokens |
| cw20-base marketing | project, description, marketing account, logo | update, upload logo | who may do it after the account is given up | the logo and its info belong together |
| cw20-base queries | – | allowances by owner, by spender, all accounts, in pages | entries come and go between the pages | an entry that stays is listed |
| cw1-whitelist | `admins`, `mutable` | freeze, update admins, execute | the one-pass comparison of the new list with the stored keys | exactly the listed admins remain; a freeze is final |
| cw1-subkeys | the whitelist, `allowances` with expiration, `permissions` | increase and decrease allowance, set permissions, execute | an expired entry stays in storage | only what admins have left is dispatched |
| Others (`custom`, `entry-points-overriding`, generic contracts) | a counter or nothing | – | – | their routing is an instance of the entry points |

`execute` of cw1-subkeys reads allowances and does not write them: it bounds
every message, not the sum of messages. The module models it as it is, and
`OnlyGranted` speaks about each message.

## 2. Modules

In the modules a comment `Fault:` introduces a mutated form of the definition
that follows it. The mutated form is used by nothing but the mutants of
`PROJECT.json`, which show that a property would notice that fault.

| Module | Models | State ↔ code | Actions ↔ code |
|---|---|---|---|
| `OverlapVerdict` | what the assertion promises | lists, verdict | `Decide` once, rightly |
| `NoIntersection` | `utils::assert_no_intersection` | `msgs`, `states`, `output_index` as in the code; `i` the loop variable; `pc` the place | `LoopTest` the `while`; `Scan` one iteration of `get_next_alphabetical_index`; `Panic` / `Advance` after `verify_no_collissions` |
| `ReplyTable` | `ReplyVariants::as_reply_data` | `methods` the source; `todo` the pairs of method and handler left; `reply_data` the table; `errors` the compile errors | `Push`, `Merge`, `Duplicate`: the arms of the match on the existing entry |
| `ReplyDispatch` | `SubMsgMethods`, `dispatch_reply`, and the chain between them; EXTENDS `ReplyTable` | `subs` the submessages of the transaction; `result` the outcome replied to; `log` what became of each | `Start` a handler's response; `Execute`, `Commit` the chain; `UnknownId`, `ForwardOk`, `ForwardError`, `BadPayload`, `BadData`, `Handle` the ways through a match arm |
| `GlueMessage` | `ContractExecMsg` and its kin, the name lists, `IntoResponse` | operators only: lists, claimant, parsed variant, converted response | – |
| `EntryPoints` | `#[entry_points]`, `override_entry_point`, `mt_helpers`; EXTENDS `GlueMessage` | `built`, `routes`, `outcome` per build ("chain", "mt") | `Build` the expansion; `Send` a client; one action per way a call is answered |
| `Cw20Base` | `contract.rs`, `allowances.rs`, `minting.rs` of cw20-base | the storage of the contract, the height, `version` (what is stored for cw2), `last` the last call | one action per message, refusals included as its disjuncts; `Instantiate`; `Migrate` at any time of any token; `NewBlock` the chain |
| `Cw1Whitelist` | `whitelist.rs` of cw1-whitelist | `admins`, `mutable`; `listed` history | `Freeze`, `UpdateAdmins` |
| `Cw1Subkeys` | cw1-subkeys; EXTENDS `Cw1Whitelist` | `permissions`, `allowances`, the height; `given` history, `sent` the messages of the last call | one action per message; `Delegated` the whitelist's messages; `NewBlock` the chain |
| `SvAttributes` | `parser/attributes`: what each `sv` attribute parses to and what `match_attribute` does with it | operators only: parsed attributes as a record of sequences | – |
| `Expansion` | `#[contract]`, `#[interface]`, `#[entry_points]` on one item; EXTENDS `SvAttributes` | `source` the item as written, `item` as the next macro gets it, `todo` and `parsed` the attributes of `ParsedSylviaAttributes`, `at` the method being read, `generated` what each macro emits, `errors` | `Skip`, `Start` rustc, which takes the macros one by one; `Read`, `ReadBare`, `Ignore`, `ReadMethod` the passes over the attributes; `Expand` the output and the item that is handed on |
| `Cw20Send` | sends of cw20-base and the contracts that receive them; EXTENDS `Cw20Base` | `pending` the messages of the transaction, `saved` what a failure brings back, `book` what a vault owes | one action per message and receiver; `Commit`, `Rollback`, `OutOfGas` the chain |
| `Pagination` | the listings of cw20-base and cw1-subkeys and a client that pages | `entries` one map or prefix, with the expirations; `start_after`, `limit` of the queries; `listed`, `stayed` history | `AskPage` a query; `Save`, `Remove` what the messages do to an entry; `NewBlock` the chain |
| `Remote` | `Remote`, `BoundQuerier`, `ExecutorBuilder`, `InstantiateBuilder`; EXTENDS `GlueMessage` | operators only: builders as records, the messages they make | – |
| `MultitestApp` | `multitest::App`, code ids, proxies; EXTENDS `Remote` | `cell` the `RefCell`; `refs`, `excl` what the test holds; `stored`, `instances` the chain; `draft` a proxy with its setters; `tx`, `pending`, `handling` a call under way | one action per helper, per step of a transaction and per end of a call |
| `MC…` | instances for TLC | – | – |
| `Selection` | the parts of a sequence that a test selects, in order: what `filter` and `filter_map` keep | operators only, without recursion; `SvAttributes` and `Expansion` use them | – |
| `NaturalLemmas` | what several proofs share: extrema, induction over an interval, sums, joined sequences | – | – |
| `…Proofs` | theorems, see 5; `CompileTimeProofs` about `NoIntersection` and `Expansion`, `Cw20Proofs` about `Cw20Base` and `Cw20Send` | – | – |

Common abstractions:

* Names are numbers in alphabetical order or strings of a small set; wording,
  formatting and syntax trees are left out.
* An `Option` is a set, or a sequence, of at most one element.
* A call of a contract is one step. The chain drops everything a failed or
  panicking call has written, so a refused call changes only what records the
  call. Panics of `Uint128` arithmetic are refusals (`"Overflow"`).
* External, modelled from how the code uses them: the chain that executes
  submessages and asks for replies, rustc (only where generated code that does
  not type check is the point), `cw_utils::Expiration` and `NativeBalance`, the
  authors of overriding entry points, and clients.
* A conversion is modelled by what it does: `SerdeName` and `CaseName` are the
  two conversions of a variant's name, `ReplyIdOf` is the upper snake case of
  a handler (not injective: `a1` and `a_1`), `IntoMsg` and `IntoResponse` copy
  a response field by field, and fail where the code does.

## 3. Runs and bounds

Every run below ends with the whole state space explored.

| Run | Question | Bounds, and why they are enough |
|---|---|---|
| `no_intersection` | Does the merge stay in bounds, visit names in order, end, and panic exactly on an overlap? | Every triple of sorted lists of at most three of three names, empty lists and repeated names included (83,309 states). Three lists are needed for a third one to be finished, or to be the smallest, while two others meet. Proved in general but for termination. |
| `reply_table_data` | Does the success arm pass the data its method declares? | The contracts of two and three methods of `reply_dispatch`. Violated, see 6. |
| `reply_dispatch` | Does the one-pass table accept exactly the pairwise compatible reply methods, with one arm per declared outcome, and does a submessage built by a setter end in its declared method, also if methods send more of them? | For the table, every contract of two methods over nine parameter lists and four `handlers` lists, and of three methods over three and two: an entry never holds more than two methods, and a third one is what meets a merged entry. For transactions (`Deployed`), sixteen contracts that cover every scenario, data mode and kind of payload, two of which the macro rejects and one rustc; two submessages, one of which may be sent by a reply; ids 0 and 5 filled in by hand, one known and one not (348,963 states). Proved in general. |
| `entry_points` | Does a message reach its method and nothing else, with the same outcome on the chain and in a test? | Two interfaces and a contract with at most two methods in all, one interface with the chain's custom messages and one without; every number of instantiate, migrate and reply methods up to two, with up to two overrides; JSON with no, one or two fields, well formed or not; responses with no, one or two messages that differ in every field (495,892 states). Two methods are what an ambiguity needs; two interfaces, what an order needs. Proved in general. |
| `entry_points_digits` | The same for a method with a digit in its name. | Violated, see 6. |
| `cw20_base` | Do supply, allowances, cap and rights stay consistent? | Three accounts, of which one has allowances, amounts up to 2 (the largest `Uint128`), two blocks, allowances that never expire or do so at block 1, caps of 1 and 2 or none, tokens instantiated with up to two rows, or left by other code (older, newer, or of another name) with one holder, any minter and cap, and one allowance that is listed by spender, or not, or with another amount; migrations of all of them at any time (22,974 states up to `last`). Two holders and a spender are all a call names; 2 is the smallest maximum with which an addition can overflow from two amounts in range. Proved in general. |
| `cw20_send` | Is what a recipient is notified of there when it handles the notification, and does a transaction cost nobody else? | Two users, one of which may spend for the other, a vault that owes its depositors and a relay that sends on, a supply of 3, up to six messages in a transaction, one block (66,106 states). Six messages let a withdrawal go to the relay, from there to the vault again, and be paid back. Proved in general. |
| `multitest_app` | Do messages reach the method they were built for, errors come back as what they were, and helpers panic for stated causes only? | Two addresses, one user, three codes over one interface of which one must not compile and another lacks the interface but has a method of its name; one Ref held at a time, two setters on a proxy, two messages in a transaction, two blocks (394,476 states). Two addresses and two codes are what a call of another contract, a migration in between and an error of another type need. Proved in general. |
| `expansion` | Has an accepted item every attribute, message, generic, predicate and entry point in its place? | Impl blocks with up to three of eighteen attributes; methods with up to three of sixteen; two generics in five predicate lists and six kinds of mention; the macros in five orders, with and without arguments and overrides of exec, query or migrate; interfaces with up to three associated types (392,957 states). Three attributes are a first, another kind in between and a second. Proved in general. |
| `override_query` | Does an override replace the entry point of the type it names, and of no other? | The items of `expansion`. Violated, see 6. |
| `pagination` | Does a client that pages come to an end with everything that stayed, once? | Four keys, pages of one, of the default two and of the maximum three, entries without expiration or until block 1, any entries at the start, any changes between pages (102,527 states). Three pages of a list of four keys have a first, a middle and a last one. Safety is proved in general. |
| `cw1_subkeys` | Is the list of admins the one asked for, a freeze final, an allowance the net of the grants since it last expired, and only that dispatched? | Four addresses and one string that is none, lists of up to three of the addresses in every order and with repetitions, two denominations, amounts up to 2, three blocks, expirations at blocks 1 and 2, up to two messages in one execute (8,877 states up to the last call, 8.3 million steps). Three keys are needed for the start index of the search to be moved twice. Proved in general. |

`cw20_base`, `cw20_send` and `cw1_subkeys` use a `VIEW` without the record of the last call, `multitest_app` one without the block height, which nothing reads.
No guard reads the record and the invariants do not mention it; action
properties read it in the state a step leads to, and TLC evaluates them on
every step, those to states it has already seen included.

Mutants: each property of a passing run is violated when one definition is
replaced by its `Fault:` form, so no property holds by the shape of the model.

## 4. Fairness and deadlock

`NoIntersection` has weak fairness of `Next`: a constant function runs to its
end or the compiler stops it with an error. Only the liveness part of
`DecidesOverlap` uses it. `Pagination` has weak fairness of `AskPage`: a client
that wants the whole list goes on until it gets an empty page. Nothing is assumed
of the transactions, which may add entries as fast as the client reads. No other
specification states fairness: contracts promise nothing about when they are
called, and expansions are runs of a fixed number of steps whose end is checked
as a state.

Deadlock is checked in every run but `multitest_app`, where a panic ends the
test. Other systems that do stop (an expansion, a transaction, the assertion)
have an explicit stuttering step at their end, with the condition of the end as
its guard, so a stop anywhere else is an error.

## 5. Proofs

All theorems hold for every value of the constants that satisfies the
assumptions named in the modules; TLC evaluates the same assumptions in the runs.

### CompileTimeProofs: the assertion

Assumptions: at least one list (`NAssumption`: a contract always passes its own)
and sorted lists (`ListsAssumption`: `EnumMessage` sorts them).

* `TypeCorrect`: no index leaves its list.
* `ScanCorrect`: the scan settles on an ongoing list with the smallest current
  name, so the `unreachable!()` of the code is unreachable.
* `OrderCorrect`: what has been passed in one list is smaller than what is
  current in any other.
* `ImplementsVerdict`: the merge implements the safety part of `OverlapVerdict`:
  it passes only lists without a shared name and panics only on a shared name.

`PicksSmallest` and `MergeOrder` alone are not inductive. `IInv` adds `ScanInv`
(during the scan, the best list so far is the best of those looked at),
`ConsumedDisjoint` (names already passed in two lists differ, which is what
makes "pass" right at the end) and `EndInv` (what is known once the loop has
ended). The step that matters is `Advance`: the name it passes is the smallest
current one and differs from the current name of every other list, so it is
smaller than the current names of the ongoing ones, and by the order of the
merge not among what the others have passed.

### CompileTimeProofs: the macros

Assumptions: items are what syn parses and rustc takes (`ItemsAssumption`, `IsItem`):
the generics of an item have different names and none is called `Self`, a path has
`Self` at its start only, a trait has `interface` and nothing else, an impl block
none of the other two macros twice, and an attribute that is not a list has no
arguments. Nothing is assumed of the number or the order of attributes, methods,
inputs, generics, predicates and macros, nor that they make sense to Sylvia: an item
the macros refuse is one with `errors`.

* `NoAttributeLost`: what a macro has read of an item or a method is what the
  attributes on it say.
* `MessagesOnce`: the methods marked with a type are the variants of its message.
* `MessagesClosed`: a message declares the generics it speaks of and keeps the
  predicates about these.
* `AccessorsResolve`: accessors name messages that exist, with their generics.
* `EntryPointsInOrder`: the entry points are those of the types the item as written has
  messages of and does not override. Where it overrides query this is false of query
  and instantiate, which the statement leaves out (`Misread`), see 6; `ReadAsWritten` is
  the lemma that no other type is read as something else.
* `NoAttributeLeft`: rustc gets the item back without what Sylvia knows.

All six follow from `ItemsLeft`, the invariant `ExpansionIInv`. The properties speak of
the item as written and of the end; a macro in the middle sees neither. So the
invariant says of every moment without errors how many macros are done (`IsLeft`: the
item is the one written without these, and without attributes if one of them was not
`entry_points`), that the running macro has read a prefix of the attributes of the item
and of each method up to the one it is at (`ReadIn`, `HasRead`), and that what has been
generated is right for the item as written (`GeneratedFor`). Two steps carry it. In
`Expand` the stripped item has no instantiate method, which is an error, so a macro
that reports none has read what was written (`Ready`, `WhenReady`); then `OnceMade`,
`AloneMade` and `ApiMade` say what is made of it. In `Read` the prefix grows by one attribute, and
`OneMoreRead` has a case for each kind: kept once, collected, or replaced.

Where the code filters, the model selects by places (`Selection`), because `SelectSeq`
is defined by recursion over the sequence and what it computes could not be proved.
`Ascending` lists a finite set of places in order: `Ranked` and `AscendingPlaces` say
that it does, `OneMore` what one more place adds, `SelectedEntries` what a selection
holds. `UsedAre` and `Divided` then say of `CheckGenerics` that used and unused
generics share out those of the item, and `TypeStripped` and `VisitedAre` that what is
visited for a message is what its fields and responses speak of.

### NaturalLemmas

Induction over data cannot be cited from the library here, because its theorems
take an operator. Everything inductive therefore goes back to one fact about sets
of naturals that can be cited, that a set of them which is not empty has a least
member. From it `NaturalLemmas` derives the greatest member of a finite set,
induction over an interval (stated with a set in place of a predicate), what a
function defined by recursion over an interval keeps (`Iterates`), and the facts
about sums of a finite function that the cw20 proofs need: a sum may be taken from
any member first, and two functions that correspond member by member have one sum.

### Cw20Proofs: the token

Assumptions: the ranges of the constants, rows of addresses and amounts
(`RowsAssumption`), and about tokens of other code that their storage was well formed,
with a supply in range and under the cap, held no allowance of an account to itself,
and listed by spender only what it listed by owner, if maybe with other amounts
(`LegacyAssumption`). `Cw20Send`, which the
module also is about, adds that there are finitely many accounts
(`FiniteAssumption`: an address is a string of bounded length) and which of them are
users and contracts.

* `TypeCorrect`: amounts stay in the range of a `Uint128`.
* `MirrorCorrect`: `allowances` and `allowances_spender` agree.
* `CapCorrect`: the supply is at most the cap.
* `SupplyConserved`: the supply is the sum of the balances.
* `AuthorisedCorrect`: tokens leave an account in a call of its owner, or of a
  spender whose unexpired allowance shrinks by as much; the minter makes tokens.
* `GrownByOwnerCorrect`: what a spender can take grows only in calls of the
  owner.
* `MinterRightsCorrect`: the right to mint is handed on by the minter only, with
  its cap.

`migrate` compares the version in storage with 0.14.0, and `CONTRACT_VERSION`, which it
must not exceed, is 0.5.0 (`examples/Cargo.toml:26`): whatever it does not refuse is
migrated in full, a token of this code included. The name it compares is that of cw20-base
of cw-plus, so tokens of older versions of that are accepted, and those of 0.6 to 0.13,
which also lack the second map, are refused as newer. `Migrate` saves the entries of the
first map over those of the second. `Mirrored` speaks about tokens this code runs, and
says nothing of one of other code before its migration; `IInv` adds `Legacy`: until then
the second map lists nothing that the first does not, and at no time does an account have
an allowance to itself. With it,
`Migrate` establishes `Mirrored` and keeps it, and `deduct_allowance`, which computes each
map's entry from that map, keeps them equal because they were. The proof has a
lemma per operation on the storage (`PutGrant`, `MovedTyped`, `StoreMirrors`,
`DeductedMirrors`) and per message. The rights follow from the same invariant:
a lemma per kind of write says whose balance or allowance it can change
(`MovedFrom`, `BurnedFrom`, `OthersKept`, `DeductedShrinks`, `BlockShrinks`).
For the supply, `Books` adds that finitely many accounts have an entry, and
`SumPut` says what one `save` does to the sum; a transfer is two of them, in the
order of the code, so that one to oneself comes out even. `InstantiateBooks` is the
one place where the sum is over something else first: the rows of the message,
which have one account each because `validate_accounts` refuses a repeated one.

### Cw20Proofs: sends

* `RecipientsHold`: at every moment of a transaction the vault holds its whole book
  and what is under way to it or from it, and the relay what it is about to
  be told of or has told the token to send on.
* `OthersKeep`: a transaction costs a user who has not signed it no more than the
  signer was allowed to take.
* `SenderCredited`: a recipient credits a user in the user's own transactions only.

The invariant is `SInv`: `IInv` of the token, the two invariants above, and
`Underway`. The latter says that every message on the way is one of this
transaction (the token is only called by contracts, and a user is named as the
sender only if the user is the signer), that no contract has given anybody an
allowance, and that what a failure would bring back is itself in order
(`Restorable`), with a book in which nobody but the signer had more. The messages are
weighed by a sum over a sequence: `WeighFirst` says that it is the first one and
the rest, `Pushed` what a response adds. `TokenMessagePreserves` holds the
argument: between the message that calls the token and the one that notifies the
recipient the amount moves from one balance to another, and with it from one side
of the books to the other.

### Cw1SubkeysProofs

Assumptions: names are numbers in their order, lists are sequences of them, amounts
of coins are in the range of a `Uint128`.

* `TypeCorrect`: admins are addresses, and allowances hold amounts in range.
* `UpdateLeavesTheList`: after an update the admins are the addresses listed. The
  comparison takes one pass over the stored keys, with a binary search in the rest of
  the sorted list, and the standard library does not say which of several equal
  names a search finds. Whatever it finds, the start index stays within the
  list, so a key is kept only if the list names it (`KeptIsListed`); that
  a listed key may have been removed too does no harm, since the list is saved.
* `AdminsAdminister`: only an admin changes the admins, before the freeze, and
  nothing ends it.
* `AllowanceIsNetOfGrants`: an allowance is what was granted and not taken back since
  it last expired. `IInv` needs no more than the form of the history.
* `DispatchesOnlyGranted`: for others than admins no message is dispatched that goes
  beyond that. `execute` subtracts the coins of a message one after the other;
  the proof is by induction over them (`CoversTotal`), so their number, order and
  repetitions do not matter.

### EntryPointsProofs

Assumptions: methods are among the variants, serde keeps the variants of one enum
apart (`SerdeAssumption`: it marks capitals, nothing else), and calls are JSON of the
kind a client can send.

* `OnlyTheNamedMethod`: a method is called with the message that names it only.
* `ChainAndTestsAgree`: what is answered on the chain and in a test is answered alike.
* `ClientsAreDelivered`: what a client builds reaches its method, and the response
  comes back whole.

`IInv` says that what has been built is what the route of the call prescribes, and
that the outcome is one of the answers of that route (`Answers`); the theorems are
then facts about routes. The last theorem has the hypothesis `NamesAgree`, that serde
and convert_case give the variants the same names: it is true of the names in
`entry_points` and false in `entry_points_digits`, where TLC shows that the
conclusion fails as well. `ParsedOnce` is where the overlap assertion is needed: a
contract that shares a name does not compile, so the first module that lists a name
is the only one.

### ReplyDispatchProofs

Assumptions: reply methods are well-formed sequences of records, every handler has
an id. Nothing is assumed of the ids: two handlers may share one.

* `AcceptsExactlyCompatible`: the macro accepts exactly the contracts whose reply
  methods are pairwise compatible.
* `ArmsCorrect`: the arms of an accepted table find what is declared, and the
  submessage asks for it.
* `RepliesReachTheirMethod`: a submessage of a generated method ends in the method
  declared for it, with its payload.
* `ErrorsSurface`: no transaction commits with an error no method was called for.

`AcceptsCompatible` speaks about the finished table; the invariant `Tabled` says of
every prefix of the pairs of method and handler what the table is after it: every
id has one entry, it is that of the first pair with this id, each of its handlers
comes from a pair, no error so far means a compatible prefix, and then nothing has
been left out. A new method is compared with the outcomes of every handler of
the entry but with the payload of the first one only; that decides about all of
them because payloads are compared by equality. `DispatchInv` adds for the transaction that
submessages come from setters or are filled in by hand, and what the log says of each.
What the theorems about transactions take from rustc is stated in the guard
`Compiles` of the model: only contracts whose generated calls type check
are ever executed.

### MultitestAppProofs

Assumptions: the bounds are naturals, setters set fields that exist, and contracts are
as in `EntryPointsProofs`.

* `ReadersUndisturbed`: while a test holds a Ref nothing changes the chain.
* `OwnErrorsCorrect`: an error of the contract of the proxy comes back as such.
* `PanicsCorrect`: the panics are the stated ones.
* `AsBuiltCorrect`: what is set last on a builder arrives, and nothing else.
* `HandlesReach`: a message made with a handle reaches its method (with `NamesAgree`).
* `TypeCorrect`: the `RefCell` counts what the test holds, and the chain is well formed.

There are three invariants, each for the theorems that need no more: `Borrowed` (the
cell is taken exactly while a call runs or the test holds it), `Typed` (drafts carry
what their setters made of them; `Final` and `After` describe a builder by the last
setter of every field, and an induction over the setters shows that the chain of
rebuilt builders ends there), and `Meaning` (every message on the way was sent through
a handle of a type that exists, with what was set, and every one that was handled went
where it was meant to).

### PaginationProofs

Assumptions: finitely many keys, numbered in their order (`NAssumption`), limits
that are not zero (`LimitAssumption`, `LimitsAssumption`: the code's constants,
and a client that asks for something).

* `ListingComplete`: at the empty page the client has got every entry that could
  be shown all the time, once, and none twice.

`Complete` speaks about the end only. `IInv` says of every moment that what is
past the bound has been listed once if it has stayed, and that what is ahead has
not been listed. `PageIsFirst` is the lemma about the query: a page is a
beginning of what lies after the bound, and empty only if nothing does; it rests
on the cardinality of smaller sets and on the smallest element of a set of
naturals, which the library's `WFMin` provides.

### Only model-checked

* That the assertion and the paging of a client end (liveness under fairness).

All other properties of the passing runs are stated by a theorem.

## 6. Disagreements found

Each is a run that must end in a violation; `PROJECT.json` quotes the lines.

| Run | Code | Documentation |
|---|---|---|
| `reply_table_data` | If the error method of an id is declared before its success method, `merge` keeps the first one's absent data and the success method is called without its `#[sv::data]` argument. | The attribute's documentation: the data is deserialized and forwarded. |
| `entry_points_digits` | The name of `set_u128` is `set_u128` in JSON (serde) and `set_u_128` in the list (convert_case): no message can reach the method. | The contract receives all message variants. |
| `override_query` | `override_entry_point(query = …)` is taken for the instantiate type (`override_entry_point.rs:76`): the contract loses its default instantiate entry point and keeps the one of query, which clashes with the author's. | All message types can be overridden (`README.md:508`). |

Seen while modelling, without a run of their own:

* A payload parameter of a reply method named `gas_used` replaces the value the
  chain reported: the payload becomes locals of the scope in which the context
  is built (`reply.rs:443`).
* The test helpers call an overriding `reply` with a message read from bytes;
  `Contract::reply` has none, so such a contract does not compile for tests.
  `TypeChecks` has it so.
* The cap of cw20-base bounds the total supply; `contract.rs:46` says it "is how
  many more tokens can be issued by the minter".
* A generic that is used only inside a longer path, as in `T::Inner`, is not seen
  by `CheckGenerics`: the message does not declare it and does not compile.
  `Closed` excludes such items (`HiddenUse`). So does a bound of an associated
  type that names another one as `Self::T`: predicates are taken over as they are
  (`associated_types.rs:107`), and in the message `Self` is the message.
* Of several `payload`, `data` or `features` attributes the last one counts, of
  several attributes of the other kinds a second one is an error. A bare or
  unknown `sv` attribute and a reply method in an interface are accepted and have
  no effect, and so is a word other than `custom` after the colon of `messages`;
  `#[contract(x)]` is accepted and generates nothing.

## 7. Not modelled

* cw20-base marketing: one account changes project data and logo; no state is
  shared with the token, and every call stands alone.
* Contexts: tuples with names.
* The remaining example contracts: a counter or empty handlers; their routing is
  an instance of `EntryPoints`, their generics of `Expansion`.
* Schemas, constructors, wording and spans of errors.
* The custom message and query types an expansion writes into what it generates. That the
  response of an interface with other ones is converted is part of `GlueMessage`.
* The errors the test helpers report of reply methods when the feature `mt` is on: like
  the helpers they are made by `MsgVariant::new`, of which `VariantErrors` has the errors.
* The generics of executors, queriers and test helpers. They are computed by the
  operators `Expansion` has (`Used`, `KeptWheres`), and their output is not part
  of it.
* Serialization inside a message, gas, IBC, the modules of `cw_multi_test`, and
  what the chain does beyond executing messages and asking for replies. In
  `MultitestApp` contracts do not ask for replies.
* `parser/interface.rs`, which is in no module tree and so never compiled.

## 8. Plan

What is left is to prove more:

1. An abstract `TokenLedger` (balances and allowances without the second map and
   without the order of writes) and that `Cw20Base` implements it.
