-------------------------------- MODULE Remote --------------------------------
(***************************************************************************)
(* What contracts and tests address other contracts with.  A handle names  *)
(* an address and, as a type that is not stored, a contract or an          *)
(* interface: `Remote`, and the `BoundQuerier` and the `ExecutorBuilder`   *)
(* it gives out.  The methods of the traits generated on them build a      *)
(* message of the module that declares the method; `InstantiateBuilder`    *)
(* builds the message that creates an instance.  A message carries only    *)
(* what the chain needs: the type of the handle is gone.                   *)
(***************************************************************************)
EXTENDS GlueMessage

CONSTANTS
  Code,  \* type |-> [methods, custom, ..., error, migrates], see GlueMessage: the
         \* contracts and the interfaces, which have the methods of their module only;
         \* error is the Rust type of a contract's errors
  Codes  \* the types that are contracts

ASSUME CodeAssumption ==
  /\ Codes \subseteq DOMAIN Code
  /\ \A t \in DOMAIN Code, i \in Modules, type \in EnumTypes : Code[t].methods[i][type] \subseteq Variants
  /\ \A t \in DOMAIN Code \ Codes, type \in EnumTypes : Code[t].methods[N][type] = {}
\* serde's rename_all keeps the variants of an enum apart: it only marks their capitals.
ASSUME SerdeAssumption ==
  \A t \in DOMAIN Code, i \in Modules, type \in EnumTypes :
    \A v, w \in Code[t].methods[i][type] : SerdeName[v] = SerdeName[w] => v = w

\* The types a program can mention: the rest do not pass the assertion of dispatch.
Compiled == {t \in DOMAIN Code : ~Intersect(Code[t])}

\* The methods of the traits a handle has: those of the contract itself, generated by
\* `#[contract]`, and those of its interfaces, generated by `#[interface]`, each with the
\* module whose message it builds.
OwnMethods(t, type) == {N} \X Code[t].methods[N][type]
InterfaceMethods(t, type) == UNION {{i} \X Code[t].methods[i][type] : i \in 1..(N - 1)}
Callable(t, type) == OwnMethods(t, type) \cup InterfaceMethods(t, type)

\* A contract implements an interface or has none of its methods.
Implements(c, i, t) == Code[c].methods[i] = Code[t].methods[i]

None == "none"
-----------------------------------------------------------------------------
\* ExecutorBuilder, empty
ExecutorNew(addr) == [contract_addr |-> addr, funds |-> 0, msg |-> None]

\* with_funds, with_label, with_admin, with_salt: the last call of each counts.
With(builder, field, value) == [builder EXCEPT ![field] = value]

Configured(builder, setters) ==
  LET after[k \in 0..Len(setters)] ==
        IF k = 0 THEN builder ELSE With(after[k - 1], setters[k].field, setters[k].value)
  IN after[Len(setters)]

\* Fault: the message gets a builder of its own.
ExecutorReadyNew(builder, v) == [ExecutorNew(builder.contract_addr) EXCEPT !.msg = Serialized(v)]

\* A method of the Executor trait, its arguments serialized: the builder is ready.
ExecutorReady(builder, v) == [contract_addr |-> builder.contract_addr,
                              funds         |-> builder.funds,
                              msg           |-> Serialized(v)]

\* build
ExecuteMsg(builder) == [kind          |-> "execute",
                        contract_addr |-> builder.contract_addr,
                        msg           |-> builder.msg,
                        funds         |-> builder.funds]

\* Remote::executor, the setters, a method <<module, variant>>, build.
RemoteCall(addr, setters, method) ==
  ExecuteMsg(ExecutorReady(Configured(ExecutorNew(addr), setters), method[2]))

\* BoundQuerier, and a method of the Querier trait on it: query_wasm_smart.
Bound(addr) == [contract |-> addr]
RemoteQuery(addr, method) == [contract_addr |-> Bound(addr).contract, msg |-> Serialized(method[2])]

\* update_admin and, with None, clear_admin
AdminMsg(addr, admin) == [kind |-> "admin", contract_addr |-> addr, admin |-> admin]
-----------------------------------------------------------------------------
\* InstantiateBuilder, from the trait generated for contract c: its message, any id.
InstantiateNew(c, code_id) ==
  [code_id |-> code_id, msg |-> c, admin |-> None, label |-> None, funds |-> 0]

\* build and, with a salt, build2
InstantiateMsg(builder, salt) ==
  [kind    |-> "instantiate",
   code_id |-> builder.code_id,
   msg     |-> builder.msg,
   admin   |-> builder.admin,
   label   |-> IF builder.label = None THEN "" ELSE builder.label,
   funds   |-> builder.funds,
   salt    |-> salt]

BuilderCall(c, code_id, setters, salt) ==
  InstantiateMsg(Configured(InstantiateNew(c, code_id), setters), salt)
-----------------------------------------------------------------------------
\* What the receiver makes of a message: the <<module, variant>> its dispatch calls,
\* none when its Deserialize answers with an error.
Received(c, type, json) ==
  IF Claimants(Code[c], type, json) = {} THEN {}
  ELSE {Claimant(Code[c], type, json)} \X Parsed(Code[c], type, json)
=============================================================================
