---------------------------- MODULE MCMultitestApp ----------------------------
(***************************************************************************)
(* Three contracts over one interface.  The counter implements it; plain,  *)
(* a code an instance may be migrated to, does not, but has a method of    *)
(* the same name of its own; clash does both and must not compile.         *)
(***************************************************************************)
EXTENDS MultitestApp, TLC

MCSerdeName == "Freeze" :> "freeze" @@ "OwnFreeze" :> "freeze" @@ "Mint" :> "mint" @@
               "Total" :> "total" @@ "Reset" :> "reset"
MCVariants == DOMAIN MCSerdeName

Declares(exec, query, sudo) == "exec" :> exec @@ "query" :> query @@ "sudo" :> sudo
Interface == Declares({"Freeze"}, {}, {})
Nothing == Declares({}, {}, {})
Type(iface, own, error, migrates) ==
  [methods |-> <<iface, own>>, custom |-> {}, error |-> error, migrates |-> migrates]

MCCode ==
  "dyn" :> Type(Interface, Nothing, None, FALSE) @@
  "counter" :> Type(Interface, Declares({"Mint"}, {"Total"}, {"Reset"}), "CounterError", FALSE) @@
  "plain" :> Type(Nothing, Declares({"OwnFreeze"}, {"Total"}, {}), "StdError", TRUE) @@
  "clash" :> Type(Interface, Declares({"OwnFreeze"}, {}, {}), "StdError", FALSE)

Set2(field, value) == [field |-> field, value |-> value]
MCSetters == [exec |-> {Set2("funds", 1), Set2("funds", 0)},
              migrate |-> {},
              instantiate |-> {Set2("funds", 1), Set2("label", "mine"), Set2("admin", "alice"), Set2("admin", None), Set2("salt", "salt")}]
MCSetterLists == [executor |-> {<<>>, <<Set2("funds", 0), Set2("funds", 1)>>},
                  builder |-> {<<>>, <<Set2("label", "mine"), Set2("admin", "a1")>>}]

\* Nothing reads the block.
WithoutHeight == <<borrows, stored, instances, draft, running, status, last, handled, cosmwasm_1_2>>
=============================================================================
