------------------------------ MODULE Expansion ------------------------------
(***************************************************************************)
(* How rustc expands the macros on an impl block or a trait: one after the *)
(* other, each reads the attributes of the item and of its methods, adds a *)
(* module of its own, and hands the item on, `contract` and `interface`    *)
(* without the attributes and `entry_points` as it is.                     *)
(*                                                                         *)
(* An item is a record                                                     *)
(*   [kind, macros, attrs, new, params, assoc, wheres, methods]            *)
(* of kind "contract" or "interface"; macros are the [name, args] left on  *)
(* it; new says how `new` is defined; params are its generics, assoc the   *)
(* associated types of a trait.  A method is [name, attrs, inputs, ret],   *)
(* an input [name, attrs, type], named "" for a pattern.  A path is the    *)
(* sequence of its segments, and a type, or a where predicate, the         *)
(* sequence of the paths in it, as the visitor of syn meets them.          *)
(*                                                                         *)
(* The multitest helpers, executors and queriers are left out: they are    *)
(* made from the same variants, see Remote and MultitestApp.  So are the   *)
(* custom message and query types, which are written where they are used.  *)
(***************************************************************************)
EXTENDS SvAttributes, SequencesExt

CONSTANT Items  \* the items considered, a sequence of sets

VARIABLES
  source,     \* the item as written
  item,       \* the item as the next macro gets it
  at,         \* -1 between macros, else what is read: 0 the item, k its k-th method
  todo,       \* the attributes of it left to read
  parsed,     \* what the running macro has read, of the item and of its methods
  generated,  \* macro |-> <<>> or what it added
  errors      \* emitted so far

evars == <<source, item, at, todo, parsed, generated, errors>>

Macro == Head(item.macros).name
MacroArgs == Head(item.macros).args

\* The generics of an item: an interface has associated types but Error instead.
WithoutError(assoc) == Where(assoc, LAMBDA t : t.name # "Error")
Generics(i) == IF i.kind = "contract" THEN i.params
               ELSE [k \in DOMAIN WithoutError(i.assoc) |-> WithoutError(i.assoc)[k].name]
Wheres(i) == IF i.kind = "contract" THEN i.wheres
             ELSE [k \in DOMAIN WithoutError(i.assoc) |->
                     <<<<WithoutError(i.assoc)[k].name>>>> \o WithoutError(i.assoc)[k].bounds]

\* Items rustc takes: generics have different names, a path has `Self` at its start only,
\* and no macro is written twice, as what it adds would be there twice (but for
\* `contract` with arguments, which adds nothing and is left out here).
Path == {segments \in Seq(STRING) : \A k \in DOMAIN segments : segments[k] = "Self" => k = 1}
Paths == Seq(Path)
Attributes == Seq([name : STRING, list : BOOLEAN, args : Seq(STRING \X STRING)])
Inputs == Seq([name : STRING, attrs : Attributes, type : Paths])
Methods == Seq([name : STRING, attrs : Attributes, inputs : Inputs, ret : [alias : BOOLEAN, type : Paths]])
IsItem(i) ==
  /\ i.macros \in Seq([name : {"contract", "interface", "entry_points"}, args : Seq(STRING)])
  /\ i.kind = "interface" => Len(i.macros) = 1 /\ i.macros[1].name = "interface"
  /\ i.kind = "contract" => \A k \in DOMAIN i.macros :
       i.macros[k].name # "interface" /\ \A l \in DOMAIN i.macros : i.macros[l].name = i.macros[k].name => l = k
  /\ i.attrs \in Attributes /\ i.methods \in Methods
  /\ i.params \in Seq(STRING) /\ i.assoc \in Seq([name : STRING, bounds : Paths]) /\ i.wheres \in Seq(Paths)
  /\ \A attrs \in {i.attrs} \cup {m.attrs : m \in ToSet(i.methods)} :
       \A a \in ToSet(attrs) : a.list \/ a.args = <<>>
  /\ "Self" \notin ToSet(Generics(i))
  /\ \A k, l \in DOMAIN Generics(i) : Generics(i)[k] = Generics(i)[l] => k = l

ASSUME ItemsAssumption ==
  \A k \in DOMAIN Items : \A i \in Items[k] :
    /\ DOMAIN i = {"kind", "macros", "attrs", "new", "params", "assoc", "wheres", "methods"}
    /\ i.kind \in {"contract", "interface"} /\ i.new \in {"none", "parameters", "plain"} /\ IsItem(i)
-----------------------------------------------------------------------------
\* StripSelfPath
Stripped(type) == [k \in DOMAIN type |-> Where(type[k], LAMBDA segment : segment # "Self")]

\* CheckGenerics: the generics among the paths visited, in the order of first use.
Uses(type, generics) == {k \in DOMAIN type : Len(type[k]) = 1 /\ type[k][1] \in ToSet(generics)}
FirstUses(type, generics) ==
  {k \in Uses(type, generics) : \A j \in Uses(type, generics) : type[j] = type[k] => k <= j}
Used(type, generics) == LET first == Selected(type, FirstUses(type, generics))
                        IN [n \in DOMAIN first |-> first[n][1]]
Unused(type, generics) ==
  Where(generics, LAMBDA g : g \notin ToSet(Used(type, generics)))

\* Fault: a predicate stays if one of its generics is used.
KeptWheresOfAny(wheres, generics, used) ==
  Where(wheres, LAMBDA w : ToSet(Used(w, generics)) \cap ToSet(used) # {})

\* filter_wheres
KeptWheres(wheres, generics, used) ==
  Where(wheres, LAMBDA w : ToSet(Used(w, generics)) \subseteq ToSet(used))

\* Fault: only self is skipped.
FieldsWithContext(method) ==
  Selected(method.inputs, {n \in 2..Len(method.inputs) : method.inputs[n].name # ""})

\* process_fields: self and the context are no fields, and patterns are refused.
Fields(method) == Selected(method.inputs, {n \in 3..Len(method.inputs) : method.inputs[n].name # ""})

\* What is visited for a variant, the response of a query after its fields.
Visited(method, msg) ==
  FlattenSeq([k \in DOMAIN Fields(method) |-> Stripped(Fields(method)[k].type)])
    \o (CASE msg.type = "query" /\ msg.resp # "" -> <<<<msg.resp>>>>
          [] msg.type = "query" /\ msg.resp = "" -> Stripped(method.ret.type)
          [] OTHER -> <<>>)

\* The methods of a message type, in order.
MsgOf(k) == parsed[k + 1]["msg"]
Variants(type) == Ascending({k \in DOMAIN item.methods : MsgOf(k) # <<>> /\ MsgOf(k)[1].type = type})

VisitedBy(type) == FlattenSeq([v \in DOMAIN Variants(type) |->
                      Visited(item.methods[Variants(type)[v]], MsgOf(Variants(type)[v])[1])])
UsedGenerics(type) == Used(VisitedBy(type), Generics(item))

\* MsgVariant and MsgField: the variant emitted for a method.
Variant(k) == [function |-> item.methods[k].name,
               fields |-> [n \in DOMAIN Fields(item.methods[k]) |->
                             [name |-> Fields(item.methods[k])[n].name,
                              attrs |-> Fields(item.methods[k])[n].attrs,
                              type |-> Stripped(Fields(item.methods[k])[n].type)]],
               returns |-> IF MsgOf(k)[1].type = "query"
                           THEN IF MsgOf(k)[1].resp # "" THEN <<<<MsgOf(k)[1].resp>>>>
                                ELSE Stripped(item.methods[k].ret.type)
                           ELSE <<>>,
               forwarded |-> parsed[k + 1]["attr"]]

\* StructMessage and EnumMessage: a message, with the generics it declares, those of
\* its dispatch, and the predicates of its impl block.
Message(type) ==
  [variants |-> [v \in DOMAIN Variants(type) |-> Variant(Variants(type)[v])],
   declares |-> UsedGenerics(type),
   dispatch |-> Unused(VisitedBy(type), Generics(item)),
   phantom |-> type \in EnumTypes /\ UsedGenerics(type) # <<>>,
   wheres |-> IF item.kind = "contract" /\ type \in EnumTypes THEN <<>>
              ELSE KeptWheres(Wheres(item), Generics(item), UsedGenerics(type)),
   forwarded |-> Where(parsed[1]["msg_attr"], LAMBDA f : f.msg_type = type)]

MessageTypes == EnumTypes \cup {type \in StructTypes : Len(Variants(type)) = 1}
-----------------------------------------------------------------------------
\* ContractApi and InterfaceMessagesApi: the message each accessor is, with its
\* arguments; a contract without migrate has Empty for it.

\* Fault: the arguments are in the order of the generics of the contract.
AccessorAsDeclared(type) == Where(Generics(item), LAMBDA g : g \in ToSet(UsedGenerics(type)))

Accessor(type) == UsedGenerics(type)

Accessors == EnumTypes \cup (IF item.kind = "interface" THEN {}
                             ELSE {"instantiate"} \cup {t \in {"migrate"} : Variants(t) # <<>>})
Api == [type \in Accessors |-> Accessor(type)]

\* ContractInput::process and InterfaceInput::process
SvModule == [messages |-> [type \in MessageTypes |-> Message(type)], api |-> Api]

\* EntryPoints::emit: which entry points there are, overridden ones excepted.
Overridden == {parsed[1]["override_entry_point"][k].msg_type :
                 k \in DOMAIN parsed[1]["override_entry_point"]}
EntryPoints == (EnumTypes \cup {"instantiate"} \cup {type \in {"migrate", "reply"} : Variants(type) # <<>>})
                 \ Overridden
-----------------------------------------------------------------------------
\* Errors of the macros before and after the attributes are read.
NewErrors == CASE item.new = "none" -> {"missing new"}
               [] item.new = "parameters" -> {"parameters of new"}
               [] item.new = "plain" -> {}
InterfaceErrors == {e \in {"generics on a trait"} : item.params # <<>>}
                     \cup {e \in {"missing Error"} : \A k \in DOMAIN item.assoc : item.assoc[k].name # "Error"}
ArgsErrors == {e \in {"missing concrete types"} : Len(MacroArgs) # Len(item.params)}

\* Errors of MsgVariant::new: attributes on self or the context, patterns, and a query
\* whose response is hidden in an alias.
VariantErrors(k) ==
  {e \in {"attribute on self or context"} : \E n \in {1, 2} : \E a \in ToSet(item.methods[k].inputs[n].attrs) :
                                              IsSylvia(a)}
    \cup {e \in {"pattern"} : \E n \in 3..Len(item.methods[k].inputs) : item.methods[k].inputs[n].name = ""}
    \cup {e \in {"aliased result"} : /\ MsgOf(k)[1].type = "query" /\ MsgOf(k)[1].resp = ""
                                     /\ item.methods[k].ret.alias}

\* The types whose variants a macro looks at.
Expanded == CASE Macro = "entry_points" -> StructTypes \cup {"reply"}
              [] Macro = "interface" -> EnumTypes \cup StructTypes
              [] Macro = "contract" -> EnumTypes \cup StructTypes
                   \cup {t \in {"reply"} : parsed[1]["features"] # <<>> /\ "replies" \in parsed[1]["features"][1]}

MissingInstantiate == {e \in {"missing instantiate"} : Variants("instantiate") = <<>>}

\* Fault: entry_points does not look for instantiate.
NoEntryPointErrors == {}

EntryPointErrors == MissingInstantiate
StructErrors ==
  CASE Macro = "contract" -> MissingInstantiate
         \cup {e \in {"more than one"} : \E type \in StructTypes : Len(Variants(type)) > 1}
    [] Macro = "entry_points" -> EntryPointErrors
    [] Macro = "interface" -> {e \in {"struct in interface"} : \E type \in StructTypes : Variants(type) # <<>>}

ExpandErrors == StructErrors \cup UNION {VariantErrors(k) : k \in UNION {ToSet(Variants(t)) : t \in Expanded}}
-----------------------------------------------------------------------------
\* StripInput: the item without the attributes of the macros, its methods too; their
\* inputs lose every attribute.
StripAttrs(attrs) == Where(attrs, LAMBDA a : ~IsSylvia(a))

\* Fault: the inputs keep theirs.
StripAttrsOfMethod(method) == [method EXCEPT !.attrs = StripAttrs(@)]

StripMethod(method) == [method EXCEPT !.attrs = StripAttrs(@),
                                      !.inputs = [n \in DOMAIN @ |-> [@[n] EXCEPT !.attrs = <<>>]]]
StripInput(i) == [i EXCEPT !.attrs = StripAttrs(@),
                           !.methods = [k \in DOMAIN @ |-> StripMethod(@[k])]]

Idle == at = -1
HandOn(i) == item' = [i EXCEPT !.macros = Tail(@)] /\ at' = -1 /\ todo' = <<>> /\ parsed' = <<>>

\* With an error proc_macro_error gives rustc the errors for the item.
Done == Idle /\ (item.macros = <<>> \/ errors # {})

\* contract_impl with arguments: nothing is generated, and nothing reported.
Skip == /\ Idle /\ ~Done /\ Macro = "contract" /\ MacroArgs # <<>>
          /\ HandOn(StripInput(item))
          /\ UNCHANGED <<source, generated, errors>>

Start == /\ Idle /\ ~Done /\ ~(Macro = "contract" /\ MacroArgs # <<>>)
         /\ at' = 0 /\ todo' = item.attrs /\ parsed' = <<Nothing>>
         /\ errors' = errors \cup (CASE Macro = "contract" -> NewErrors
                                     [] Macro = "interface" -> InterfaceErrors
                                     [] Macro = "entry_points" -> ArgsErrors)
         /\ UNCHANGED <<source, item, generated>>

\* ParsedSylviaAttributes::new, attribute by attribute.
Take == ~Idle /\ todo # <<>> /\ todo' = Tail(todo) /\ UNCHANGED <<source, item, at, generated>>
Read == /\ Take /\ IsSylvia(Head(todo)) /\ Head(todo).list
        /\ parsed' = [parsed EXCEPT ![at + 1] = Matched(@, Head(todo))]
        /\ errors' = errors \cup MatchErrors(parsed[at + 1], Head(todo))
ReadBare == /\ Take /\ IsSylvia(Head(todo)) /\ ~Head(todo).list
            /\ parsed' = [parsed EXCEPT ![at + 1] = Bare(@, Head(todo))]
            /\ errors' = errors \cup BareErrors(Head(todo))
Ignore == Take /\ ~IsSylvia(Head(todo)) /\ UNCHANGED <<parsed, errors>>

AllRead == ~Idle /\ todo = <<>>

\* as_variants: the attributes of the next method.
ReadMethod == /\ AllRead /\ at < Len(item.methods)
              /\ at' = at + 1 /\ todo' = item.methods[at + 1].attrs /\ parsed' = Append(parsed, Nothing)
              /\ errors' = errors \cup ForwardErrors(parsed[at + 1])
              /\ UNCHANGED <<source, item, generated>>

Expand == /\ AllRead /\ at = Len(item.methods)
          /\ errors' = errors \cup ForwardErrors(parsed[at + 1]) \cup ExpandErrors
          /\ generated' = [generated EXCEPT ![Macro] =
                             <<IF Macro = "entry_points" THEN [entry_points |-> EntryPoints] ELSE SvModule>>]
          /\ HandOn(IF Macro = "entry_points" THEN item ELSE StripInput(item))
          /\ UNCHANGED source

ExpansionInit ==
  /\ (\E k \in DOMAIN Items : source \in Items[k]) /\ item = source
  /\ at = -1 /\ todo = <<>> /\ parsed = <<>>
  /\ generated = [m \in {"contract", "interface", "entry_points"} |-> <<>>]
  /\ errors = {}

ExpansionNext ==
  \/ Skip \/ Start
  \/ Read \/ ReadBare \/ Ignore \/ ReadMethod
  \/ Expand
  \/ Done /\ UNCHANGED evars

ExpansionSpec == ExpansionInit /\ [][ExpansionNext]_evars
-----------------------------------------------------------------------------
Accepted == Done /\ errors = {}
Ran(m) == generated[m] # <<>>
SvRan == Ran("contract") \/ Ran("interface")
Sv == IF Ran("contract") THEN generated["contract"][1] ELSE generated["interface"][1]

AttrsOf(k) == IF k = 0 THEN item.attrs ELSE item.methods[k].attrs
Counts(a, name) == a.name = name /\ (a.list \/ name = "data")
Values(attrs) == [n \in DOMAIN attrs |-> Value(attrs[n])]
All(attrs, name) == Values(Where(attrs, LAMBDA a : Counts(a, name)))

\* As long as no error is reported, every attribute with parentheses has had its
\* effect: the ones of which there can be one are alone, lists are complete and in
\* order, and of the rest the last one counts, whatever other attributes are between
\* them and wherever they are.
NothingLost ==
  AllRead /\ errors = {} =>
    \A k \in 0..at :
      /\ \A name \in Single \cup Listed : parsed[k + 1][name] = All(AttrsOf(k), name)
      /\ \A name \in Replaced :
           LET all == All(AttrsOf(k), name)
           IN parsed[k + 1][name] = IF all = <<>> THEN <<>> ELSE <<all[Len(all)]>>

Marked(method, type) == \E a \in ToSet(method.attrs) : a.name = "msg" /\ a.list /\ a.args[1][1] = type
NameAndAttrs(field) == <<field.name, field.attrs>>

\* In an accepted contract or interface the methods marked with a type are the
\* variants of its message, in order, each with all the parameters after the context
\* and the attributes of these; so no message is lost and none is made of another
\* method.  Replies have no message.
Once(i, sv) ==
  \A type \in Types \ {"reply"} :
    LET marked == Where(i.methods, LAMBDA method : Marked(method, type))
        variants == IF type \in DOMAIN sv.messages THEN sv.messages[type].variants ELSE <<>>
    IN /\ Len(variants) = Len(marked)
       /\ \A v \in DOMAIN marked :
            /\ variants[v].function = marked[v].name
            /\ [n \in DOMAIN variants[v].fields |-> NameAndAttrs(variants[v].fields[n])]
                 = [n \in 1..(Len(marked[v].inputs) - 2) |-> NameAndAttrs(marked[v].inputs[n + 2])]
EveryMessageOnce == Accepted /\ SvRan => Once(source, Sv)

\* The generics a type or predicate speaks of, and whether one is hidden in a longer
\* path, which CheckGenerics does not take for a use: T::Inner, and in a bound, of
\* which Self is not stripped, Self::T.
Speaks(path, g) == path # <<>> /\ path[1] = g
Mentions(generics, type) == {g \in ToSet(generics) : \E path \in ToSet(Stripped(type)) : Speaks(path, g)}
Hidden(generics, type) == \E path \in ToSet(type), g \in ToSet(generics) : Len(path) > 1 /\ Speaks(path, g)
TypesOf(method) == {in.type : in \in ToSet(method.inputs)} \cup {method.ret.type}
HiddenUse(i) ==
  \/ \E w \in ToSet(Wheres(i)) : \/ Hidden(Generics(i), Stripped(w))
                               \/ \E path \in ToSet(w) : Len(path) > 1 /\ path[1] = "Self"
  \/ \E method \in ToSet(i.methods) : \E type \in TypesOf(method) : Hidden(Generics(i), Stripped(type))

DataOf(m) == UNION {{field.type : field \in ToSet(v.fields)} \cup {v.returns} : v \in ToSet(m.variants)}

\* Every generated message can stand on its own: it declares the generics its own
\* fields and responses speak of and no other, its dispatch declares the rest of those
\* of the item, none is declared twice, and the impl block has all predicates about
\* declared generics and no other.
StandsAlone(i, type, m) ==
  /\ ToSet(m.declares) = UNION {Mentions(Generics(i), t) : t \in DataOf(m)}
  /\ ToSet(m.declares \o m.dispatch) = ToSet(Generics(i))
  /\ Len(m.declares \o m.dispatch) = Len(Generics(i))
  /\ m.phantom = (type \in EnumTypes /\ m.declares # <<>>)
  /\ i.kind = "interface" \/ type \in StructTypes =>
       \A w \in ToSet(Wheres(i)) :
         w \in ToSet(m.wheres) <=> Mentions(Generics(i), w) \subseteq ToSet(m.declares)
Closed ==
  Accepted /\ SvRan /\ ~HiddenUse(source) =>
    \A type \in DOMAIN Sv.messages : StandsAlone(source, type, Sv.messages[type])

\* Whatever the contract and the entry points refer to by an accessor of the api is
\* a message that was generated, and gets the generics it declares, one by one, in the
\* order in which it declares them.
Resolves(sv) == /\ DOMAIN sv.api = DOMAIN sv.messages
                /\ \A type \in DOMAIN sv.api : sv.api[type] = sv.messages[type].declares
ApiResolves ==
  Accepted =>
    /\ SvRan => Resolves(Sv)
    /\ Ran("contract") /\ Ran("entry_points") =>
         generated["entry_points"][1].entry_points \ {"reply"} \subseteq DOMAIN Sv.api

OverriddenIn(i) == {a.args[1][1] : a \in {b \in ToSet(i.attrs) : b.name = "override_entry_point" /\ b.list}}
EntryPointsOf(i) ==
  {type \in Types : /\ type \in EnumTypes \/ \E k \in DOMAIN i.methods : Marked(i.methods[k], type)
                    /\ type \notin OverriddenIn(i)}
EntryPointsMade == generated["entry_points"][1].entry_points

\* In whatever order the macros are written, an accepted contract gets an entry point
\* for every type it has messages of and does not override, and no other:
\* `entry_points` must see the attributes that `contract` removes.  That an overridden
\* query is read as instantiate is left to OverridesKept.
Misread(i) == IF "query" \in OverriddenIn(i) THEN {"query", "instantiate"} ELSE {}
InOrder ==
  Accepted /\ Ran("entry_points") => EntryPointsMade \ Misread(source) = EntryPointsOf(source) \ Misread(source)

\* "It is possible to override all message types like that": an override replaces the
\* entry point of the type it names, and of no other.
OverridesKept == Accepted /\ Ran("entry_points") => EntryPointsMade = EntryPointsOf(source)

\* What rustc compiles in the end is the item as written, with the attributes of other
\* tools and without any of the macros, which rustc does not know; an attribute of an
\* input is on the field made of it only.
NoneLeft ==
  Accepted /\ (\E k \in DOMAIN source.macros : source.macros[k].name # "entry_points") =>
    /\ \A a \in ToSet(item.attrs) : ~IsSylvia(a)
    /\ item.attrs = Where(source.attrs, LAMBDA a : ~IsSylvia(a))
    /\ \A k \in DOMAIN item.methods :
         /\ item.methods[k].attrs = Where(source.methods[k].attrs, LAMBDA a : ~IsSylvia(a))
         /\ \A n \in DOMAIN item.methods[k].inputs :
              item.methods[k].inputs[n] = [source.methods[k].inputs[n] EXCEPT !.attrs = <<>>]
=============================================================================
