----------------------------- MODULE ReplyTable -----------------------------
(***************************************************************************)
(* The table of reply ids the `contract` macro builds from the methods     *)
(* marked `sv::msg(reply, ...)` (contract/communication/reply.rs): one     *)
(* entry per reply id with the one or two methods that handle it.          *)
(*                                                                         *)
(* A method is a record                                                    *)
(*   [name, handlers, reply_on, fields]                                    *)
(* whose fields are the parameters after the context, in order:            *)
(*   [name, ty, attr]  with attr "none", "data" or "payload";              *)
(* the type of an `sv::data` field stands for its parameters too.          *)
(***************************************************************************)
EXTENDS Naturals, Sequences, FiniteSets, SequencesExt

CONSTANTS
  Handlers,    \* identifiers: function names and entries of handlers=[...]
  ReplyIdOf,   \* handler |-> UPPER_SNAKE_REPLY_ID, not injective: a1 and a_1
  Contracts    \* the reply methods of the contracts that are considered

ReplyOn == {"success", "error", "always"}

IsMethod(m) == /\ m.name \in Handlers
               /\ m.handlers \in Seq(Handlers)
               /\ m.reply_on \in ReplyOn
               /\ m.fields \in Seq([name : STRING, ty : STRING, attr : {"none", "data", "payload"}])

ASSUME ReplyIdOfAssumption == DOMAIN ReplyIdOf = Handlers
ASSUME ContractsAssumption ==
  \A c \in Contracts : c \in Seq(ToSet(c)) /\ \A m \in ToSet(c) : IsMethod(m)

VARIABLES
  methods,      \* the reply methods of the contract, in source order
  todo,         \* the <<method index, handler>> pairs not yet entered
  reply_data,   \* the table: sequence of entries, the position is the id
  errors        \* the compile errors emitted so far

tvars == <<methods, todo, reply_data, errors>>

\* A method without handlers=[...] handles the id of its own name.
HandlersOf(m) == IF m.handlers = <<>> THEN <<m.name>> ELSE m.handlers

Pairs(ms) == FlattenSeq([k \in DOMAIN ms |->
               [h \in DOMAIN HandlersOf(ms[k]) |-> <<k, HandlersOf(ms[k])[h]>>]])

\* ReplyOn::excludes
Excludes(a, b) == a = b \/ a = "always" \/ b = "always"
-----------------------------------------------------------------------------
\* as_data_field: the first marked field counts, in the success scenario and
\* as the first parameter only; every other use is an error.
DataMarks(m) == {k \in DOMAIN m.fields : m.fields[k].attr = "data"}
FirstMark(m) == CHOOSE k \in DataMarks(m) : \A l \in DataMarks(m) : k <= l
HasData(m) == DataMarks(m) # {} /\ m.reply_on = "success" /\ FirstMark(m) = 1
DataField(m) == IF HasData(m) THEN <<m.fields[1]>> ELSE <<>>
DataErrors(m) == IF DataMarks(m) # {} /\ ~HasData(m) THEN {"wrong_data"} ELSE {}

\* The first parameter is the data, the error or the result; only a success
\* method without data starts with its payload.
PayloadFields(m) == IF HasData(m) \/ m.reply_on # "success"
                    THEN SubSeq(m.fields, 2, Len(m.fields))
                    ELSE m.fields

IsRaw(payload) == \E k \in DOMAIN payload : payload[k].attr = "payload"

PayloadErrors(payload) ==
  (IF payload = <<>> THEN {"missing_payload"} ELSE {})
    \cup (IF Len(payload) # 1 /\ IsRaw(payload) THEN {"redundant_param"} ELSE {})

\* ReplyData::new
NewErrors(m) == DataErrors(m) \cup PayloadErrors(PayloadFields(m))
NewData(k, h) == [reply_id   |-> ReplyIdOf[h],
                  handler_id |-> h,
                  handlers   |-> <<[method |-> k, reply_on |-> methods[k].reply_on]>>,
                  data       |-> DataField(methods[k]),
                  payload    |-> PayloadFields(methods[k])]

Types(payload) == [k \in DOMAIN payload |-> payload[k].ty]

\* Fault: only the number of payload parameters is compared.
MergeErrorsByCount(old, new) ==
  IF Len(old) # Len(new) THEN {"mismatched_quantity"} ELSE {}

\* ReplyData::merge compares counts, and types position by position.
MergeErrors(old, new) ==
  (IF Len(old) # Len(new) THEN {"mismatched_quantity"} ELSE {})
    \cup (IF \E k \in DOMAIN old \cap DOMAIN new : old[k].ty # new[k].ty
          THEN {"mismatched_type"} ELSE {})
-----------------------------------------------------------------------------
TableInit == /\ methods \in Contracts
             /\ todo = Pairs(methods)
             /\ reply_data = <<>>
             /\ errors = {}

Existing(id) == {e \in DOMAIN reply_data : reply_data[e].reply_id = id}

\* None => reply_data.push(ReplyData::new(..))
Push == /\ todo # <<>>
        /\ LET k == Head(todo)[1]
               h == Head(todo)[2]
           IN /\ Existing(ReplyIdOf[h]) = {}
              /\ reply_data' = Append(reply_data, NewData(k, h))
              /\ errors' = errors \cup NewErrors(methods[k])
        /\ todo' = Tail(todo)
        /\ UNCHANGED methods

\* Some(existing) if any handler of it excludes the new one: the new one is dropped
Duplicate == /\ todo # <<>>
             /\ \E e \in Existing(ReplyIdOf[Head(todo)[2]]) :
                  \E k \in DOMAIN reply_data[e].handlers :
                     Excludes(reply_data[e].handlers[k].reply_on, methods[Head(todo)[1]].reply_on)
             /\ errors' = errors \cup {"duplicated"}
             /\ todo' = Tail(todo)
             /\ UNCHANGED <<methods, reply_data>>

\* Some(existing) => existing.merge(handler): data and payload stay the first one's
Merge == /\ todo # <<>>
         /\ \E e \in Existing(ReplyIdOf[Head(todo)[2]]) :
              LET k == Head(todo)[1]
              IN /\ \A l \in DOMAIN reply_data[e].handlers :
                       ~Excludes(reply_data[e].handlers[l].reply_on, methods[k].reply_on)
                 /\ reply_data' = [reply_data EXCEPT ![e].handlers =
                                     Append(@, [method |-> k, reply_on |-> methods[k].reply_on])]
                 /\ errors' = errors
                      \cup NewErrors(methods[k])
                      \cup MergeErrors(reply_data[e].payload, PayloadFields(methods[k]))
         /\ todo' = Tail(todo)
         /\ UNCHANGED methods

Expand == Push \/ Duplicate \/ Merge

Done == todo = <<>> /\ UNCHANGED tvars

TableSpec == TableInit /\ [][Expand \/ Done]_tvars

Built    == todo = <<>>
Accepted == Built /\ errors = {}

\* Fault: a handler for success hides the one for errors.
CwReplyOnSuccessFirst(entry) ==
  LET ons == {entry.handlers[k].reply_on : k \in DOMAIN entry.handlers}
  IN IF "always" \in ons THEN "always"
     ELSE IF "success" \in ons THEN "success" ELSE "error"

\* The submessage asks for a reply on exactly the outcomes that are handled.
CwReplyOn(entry) ==
  LET ons == {entry.handlers[k].reply_on : k \in DOMAIN entry.handlers}
  IN IF "always" \in ons \/ {"success", "error"} \subseteq ons THEN "always"
     ELSE IF "success" \in ons THEN "success" ELSE "error"

\* What the match arm of an outcome ("success" or "error") looks for, and the first it finds.
Handling(entry, outcome) ==
  {k \in DOMAIN entry.handlers : entry.handlers[k].reply_on \in {outcome, "always"}}
Found(entry, outcome) == entry.handlers[Min(Handling(entry, outcome))]
-----------------------------------------------------------------------------
\* What a set of reply methods must be to have an unambiguous table, without
\* the order in which the macro meets them.
WellFormed(m) == NewErrors(m) = {}
SameSignature(a, b) == Types(PayloadFields(a)) = Types(PayloadFields(b))
Compatible(ms) ==
  LET ps == Pairs(ms)
  IN /\ \A p \in DOMAIN ps : WellFormed(ms[ps[p][1]])
     /\ \A p, q \in DOMAIN ps :
          p < q /\ ReplyIdOf[ps[p][2]] = ReplyIdOf[ps[q][2]]
            => /\ ~Excludes(ms[ps[p][1]].reply_on, ms[ps[q][1]].reply_on)
               /\ SameSignature(ms[ps[p][1]], ms[ps[q][1]])

\* The macro accepts a contract exactly when its reply methods are pairwise
\* compatible: the one-pass merge misses no conflict and invents none, whatever
\* the order of the methods ("Validation for duplicates and overlaps should be
\* done in this method").
AcceptsCompatible == Built => (errors = {} <=> Compatible(methods))

\* In an accepted table every reply id is emitted once, every declared handler
\* is the only one its arm can find for every outcome it is declared for, and the submessage
\* of its id asks for a reply on exactly the declared outcomes.
ArmsComplete ==
  Accepted =>
    /\ \A e, f \in DOMAIN reply_data : reply_data[e].reply_id = reply_data[f].reply_id => e = f
    /\ \A e \in DOMAIN reply_data, o \in {"success", "error"} :
         LET arm == Handling(reply_data[e], o)
         IN /\ {reply_data[e].handlers[k].method : k \in arm} =
                 {m \in DOMAIN methods : /\ methods[m].reply_on \in {o, "always"}
                                        /\ \E h \in ToSet(HandlersOf(methods[m])) :
                                             ReplyIdOf[h] = reply_data[e].reply_id}
            /\ \A k, l \in arm : k = l
            /\ arm # {} <=> CwReplyOn(reply_data[e]) \in {o, "always"}

\* "#[sv::data] ... Tries to deserialize data to type defined in the method
\* signature and forwards it": the success arm passes the data its method declares.
DataForwarded ==
  Accepted =>
    \A e \in DOMAIN reply_data : \A k \in DOMAIN reply_data[e].handlers :
       LET d == reply_data[e].handlers[k]
       IN d.reply_on = "success" => reply_data[e].data = DataField(methods[d.method])
=============================================================================
