---------------------------- MODULE MCEntryPoints ----------------------------
EXTENDS EntryPoints, TLC

CONSTANTS RoutedTypes, TypesSent, MaxMethods

\* Without digits and single letters serde and convert_case agree.
PlainNames == "Mint" :> "mint" @@ "Burn" :> "burn"
PlainVariants == DOMAIN PlainNames

\* set_u128 has the variant SetU128, which convert_case calls set_u_128.
DigitSerde == "Mint" :> "mint" @@ "SetU128" :> "set_u128"
DigitCase == "Mint" :> "mint" @@ "SetU128" :> "set_u_128"
DigitVariants == DOMAIN DigitSerde

Declarations ==
  {[type \in EnumTypes |-> {m[1] : m \in {n \in s : n[2] = type}}] :
     s \in UNION {kSubset(n, Variants \X RoutedTypes) : n \in 0..MaxMethods}}

\* Contracts that differ in their methods: the first interface is not custom.
RoutedContracts ==
  {[methods |-> m, custom |-> {1}, structs |-> [instantiate |-> 1, migrate |-> 0],
    replies |-> 0, overrides |-> <<>>] : m \in [Modules -> Declarations]}

\* Contracts that differ in their entry points.
OneMethod == [type \in EnumTypes |-> IF type = "exec" THEN {"Mint"} ELSE {}]
NoMethods == [type \in EnumTypes |-> {}]
OverrideLists == {<<>>} \cup {<<t>> : t \in Types} \cup {<<"exec", "sudo">>, <<"query", "migrate">>}
ExportedContracts ==
  {[methods |-> [i \in Modules |-> IF i = 1 THEN OneMethod ELSE NoMethods], custom |-> {1},
    structs |-> [instantiate |-> n, migrate |-> m], replies |-> r, overrides |-> o] :
     n \in 0..2, m \in 0..2, r \in 0..2, o \in OverrideLists}

AllContracts == RoutedContracts \cup ExportedContracts

Names == {SerdeName[v] : v \in Variants} \cup {CaseName[v] : v \in Variants} \cup {"other"}
Json == {[map |-> FALSE, fields |-> <<>>]} \cup
        {[map |-> TRUE, fields |-> f] :
           f \in UNION {[names -> {"well_formed", "ill_formed"}] :
                          names \in UNION {kSubset(n, Names) : n \in 0..2}}}

Message(id, kind, gas_limit, reply_on, payload) ==
  [id |-> id, kind |-> kind, gas_limit |-> gas_limit, reply_on |-> reply_on, payload |-> payload]
Known  == Message(1, "known", <<>>, "never", "")
Replied == Message(2, "known", <<7>>, "always", "payload")
Reaction(result, messages, data) ==
  [result |-> result, messages |-> messages, data |-> data, events |-> <<"event">>,
   attributes |-> <<"attribute", "attribute">>]
Reactions == {Reaction("Err", <<>>, "none"),
              Reaction("Ok", <<Known, Replied>>, "data"),
              Reaction("Ok", <<Replied, [Known EXCEPT !.kind = "custom"]>>, "none"),
              Reaction("Ok", <<[Replied EXCEPT !.kind = "unknown"]>>, "none")}
AllCalls == [type : TypesSent, json : Json, reaction : Reactions]
=============================================================================
