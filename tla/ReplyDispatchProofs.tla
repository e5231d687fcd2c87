------------------------- MODULE ReplyDispatchProofs -------------------------
(***************************************************************************)
(* The table of reply ids is the one its methods ask for, and a submessage *)
(* ends in the method its id was made for.                                 *)
(***************************************************************************)
EXTENDS ReplyDispatch, NaturalLemmas

\* FlattenSeq has the entries of all the sequences.
LEMMA Flattened ==
  ASSUME NEW S, NEW seqs \in Seq(Seq(S))
  PROVE  /\ FlattenSeq(seqs) \in Seq(S)
         /\ ToSet(FlattenSeq(seqs)) = UNION {ToSet(seqs[j]) : j \in DOMAIN seqs}
<1> DEFINE n == Len(seqs)
<1>1. CASE n = 0
  <2>1. seqs = <<>> /\ FlattenSeq(seqs) = seqs
    BY <1>1 DEF FlattenSeq
  <2>2. ToSet(seqs) = {} /\ DOMAIN seqs = {}
    BY <2>1 DEF ToSet
  <2>3. UNION {ToSet(seqs[j]) : j \in DOMAIN seqs} = {}
    BY <2>2
  <2>4. seqs \in Seq(S)
    BY <2>1
  <2> QED BY <2>1, <2>2, <2>3, <2>4
<1>2. CASE n # 0
  <2>1. \E g : Joins(g, seqs)
    BY <1>2, Joined
  <2>2. PICK g : FlattenSeq(seqs) = g[n] /\ Joins(g, seqs)
    BY <1>2, <2>1 DEF FlattenSeq, Joins
  <2>3. g[n] \in Seq(S) /\ EntriesOf(g[n]) = UNION {EntriesOf(seqs[j]) : j \in DOMAIN seqs}
    BY <1>2, <2>2, Joined
  <2> QED BY <2>2, <2>3 DEF EntriesOf, ToSet
<1> QED BY <1>1, <1>2
-----------------------------------------------------------------------------
\* The source: methods, their parameters, the handlers they are entered for.
Fields == [name : STRING, ty : STRING, attr : {"none", "data", "payload"}]

LEMMA MethodTyped ==
  ASSUME NEW c \in Contracts, NEW k \in DOMAIN c
  PROVE  IsMethod(c[k]) /\ HandlersOf(c[k]) \in Seq(Handlers)
<1>1. IsMethod(c[k])
  BY ContractsAssumption DEF ToSet
<1> QED BY <1>1 DEF IsMethod, HandlersOf

LEMMA FieldsTyped ==
  ASSUME NEW m, IsMethod(m)
  PROVE  PayloadFields(m) \in Seq(Fields) /\ DataField(m) \in Seq(Fields)
<1>1. m.fields \in Seq(Fields) /\ Len(m.fields) \in Nat
  BY DEF IsMethod, Fields
<1>2. PayloadFields(m) \in Seq(Fields)
  <2>1. \A i \in 2..Len(m.fields) : m.fields[i] \in Fields
    BY <1>1
  <2>2. SubSeq(m.fields, 2, Len(m.fields)) \in Seq(Fields)
    BY <1>1, <2>1
  <2> QED BY <1>1, <2>2 DEF PayloadFields
<1>3. DataField(m) \in Seq(Fields)
  <2>1. HasData(m) => 1 \in DOMAIN m.fields
    <3> SUFFICES ASSUME HasData(m) PROVE 1 \in DOMAIN m.fields
      OBVIOUS
    <3>1. DataMarks(m) # {} /\ FirstMark(m) = 1 /\ DataMarks(m) \subseteq Nat
      BY <1>1 DEF HasData, DataMarks
    <3>2. FirstMark(m) \in DataMarks(m)
      BY <3>1, Smallest DEF FirstMark
    <3> QED BY <3>1, <3>2 DEF DataMarks
  <2>2. HasData(m) => m.fields[1] \in Fields
    BY <1>1, <2>1
  <2> QED BY <2>2 DEF DataField
<1> QED BY <1>2, <1>3

LEMMA PairsAre ==
  ASSUME NEW c \in Contracts
  PROVE  /\ Pairs(c) \in Seq((DOMAIN c) \X Handlers)
         /\ \A k \in DOMAIN c : \A h : <<k, h>> \in ToSet(Pairs(c)) <=> h \in ToSet(HandlersOf(c[k]))
<1> DEFINE Of(k) == [h \in DOMAIN HandlersOf(c[k]) |-> <<k, HandlersOf(c[k])[h]>>]
           seqs == [k \in DOMAIN c |-> Of(k)]
           S == (DOMAIN c) \X Handlers
<1>0. DOMAIN c = 1..Len(c) /\ Len(c) \in Nat
  BY ContractsAssumption
<1>1. ASSUME NEW k \in DOMAIN c
      PROVE  Of(k) \in Seq(S) /\ \A h : <<k, h>> \in ToSet(Of(k)) <=> h \in ToSet(HandlersOf(c[k]))
  <2>1. HandlersOf(c[k]) \in Seq(Handlers)
    BY MethodTyped
  <2> QED BY <2>1 DEF ToSet
<1>2. seqs \in Seq(Seq(S))
  <2> HIDE DEF Of, S
  <2> QED BY <1>0, <1>1
<1>3. Pairs(c) = FlattenSeq(seqs)
  BY DEF Pairs
<1>4. Pairs(c) \in Seq(S) /\ ToSet(Pairs(c)) = UNION {ToSet(seqs[j]) : j \in DOMAIN seqs}
  <2> HIDE DEF seqs, S
  <2> QED BY <1>2, <1>3, Flattened
<1>5. ASSUME NEW k \in DOMAIN c, NEW j \in DOMAIN c, NEW h, <<k, h>> \in ToSet(Of(j)) PROVE j = k
  BY <1>5 DEF ToSet
<1>6. ToSet(Pairs(c)) = UNION {ToSet(Of(j)) : j \in DOMAIN c}
  BY <1>4
<1> HIDE DEF Of
<1>7. ASSUME NEW k \in DOMAIN c, NEW h
      PROVE  <<k, h>> \in ToSet(Pairs(c)) <=> h \in ToSet(HandlersOf(c[k]))
  BY <1>1, <1>5, <1>6
<1> QED BY <1>4, <1>7
-----------------------------------------------------------------------------
\* The table after the first n pairs of method and handler.
Who(c, p) == c[Pairs(c)[p][1]]
HandlerIdAt(c, p) == Pairs(c)[p][2]
IdAt(c, p) == ReplyIdOf[HandlerIdAt(c, p)]
HandlerAt(c, p) == [method |-> Pairs(c)[p][1], reply_on |-> Who(c, p).reply_on]
EntryAt(c, p) == [reply_id   |-> IdAt(c, p),
                  handler_id |-> HandlerIdAt(c, p),
                  handlers   |-> <<HandlerAt(c, p)>>,
                  data       |-> DataField(Who(c, p)),
                  payload    |-> PayloadFields(Who(c, p))]

Entries == [reply_id   : {ReplyIdOf[h] : h \in Handlers},
            handler_id : Handlers,
            handlers   : Seq([method : Nat, reply_on : ReplyOn]),
            data       : Seq(Fields),
            payload    : Seq(Fields)]

Agree(c, p, q) ==
  IdAt(c, p) = IdAt(c, q) => /\ ~Excludes(Who(c, p).reply_on, Who(c, q).reply_on)
                             /\ SameSignature(Who(c, p), Who(c, q))

CompatibleUpto(c, n) == /\ \A p \in 1..n : WellFormed(Who(c, p))
                        /\ \A p, q \in 1..n : p < q => Agree(c, p, q)

\* An entry is that of the first pair with its id, and all of its handlers are of
\* pairs with that id.
Sourced(c, n, entry) ==
  /\ entry.handlers # <<>>
  /\ \A k \in DOMAIN entry.handlers :
       \E p \in 1..n : IdAt(c, p) = entry.reply_id /\ entry.handlers[k] = HandlerAt(c, p)
  /\ \A k, l \in DOMAIN entry.handlers :
       k # l => ~Excludes(entry.handlers[k].reply_on, entry.handlers[l].reply_on)
  /\ \E p \in 1..n : /\ HandlerIdAt(c, p) = entry.handler_id /\ IdAt(c, p) = entry.reply_id
                     /\ PayloadFields(Who(c, p)) = entry.payload

OnePerId(t) == \A e, f \in DOMAIN t : t[e].reply_id = t[f].reply_id => e = f

\* Nothing is left out, unless there is an error.
Covers(c, n, t) ==
  \A p \in 1..n, e \in DOMAIN t :
    t[e].reply_id = IdAt(c, p) => \E k \in DOMAIN t[e].handlers : t[e].handlers[k] = HandlerAt(c, p)

Tabled(c, n, t, errs) ==
  /\ t \in Seq(Entries)
  /\ \A p \in 1..n : \E e \in DOMAIN t : t[e].reply_id = IdAt(c, p)
  /\ OnePerId(t)
  /\ \A e \in DOMAIN t : Sourced(c, n, t[e])
  /\ errs = {} <=> CompatibleUpto(c, n)
  /\ errs = {} => Covers(c, n, t)

LEMMA PairTyped ==
  ASSUME NEW c \in Contracts, NEW p \in 1..Len(Pairs(c))
  PROVE  /\ Pairs(c)[p][1] \in DOMAIN c /\ Pairs(c)[p][1] \in Nat
         /\ HandlerIdAt(c, p) \in Handlers
         /\ IsMethod(Who(c, p)) /\ Who(c, p).reply_on \in ReplyOn
         /\ EntryAt(c, p) \in Entries
         /\ HandlerAt(c, p) \in [method : Nat, reply_on : ReplyOn]
<1>0. Pairs(c) \in Seq((DOMAIN c) \X Handlers)
  BY PairsAre
<1>1. Pairs(c)[p] \in (DOMAIN c) \X Handlers
  BY <1>0
<1>2. DOMAIN c \subseteq Nat
  BY ContractsAssumption
<1>3. Pairs(c)[p][1] \in DOMAIN c /\ Pairs(c)[p][1] \in Nat /\ HandlerIdAt(c, p) \in Handlers
  BY <1>1, <1>2 DEF HandlerIdAt
<1>4. IsMethod(Who(c, p))
  BY <1>3, MethodTyped DEF Who
<1>5. Who(c, p).reply_on \in ReplyOn
  BY <1>4 DEF IsMethod
<1>6. HandlerAt(c, p) \in [method : Nat, reply_on : ReplyOn]
  BY <1>3, <1>5 DEF HandlerAt
<1>7. EntryAt(c, p) \in Entries
  BY <1>3, <1>4, <1>6, FieldsTyped DEF EntryAt, Entries, IdAt
<1> QED BY <1>3, <1>4, <1>5, <1>6, <1>7

\* merge finds every difference of two signatures.
LEMMA NothingToMerge ==
  ASSUME NEW old \in Seq(Fields), NEW new \in Seq(Fields)
  PROVE  MergeErrors(old, new) = {} <=> Types(old) = Types(new)
<1>1. /\ DOMAIN old = 1..Len(old) /\ DOMAIN new = 1..Len(new) /\ Len(old) \in Nat /\ Len(new) \in Nat
  OBVIOUS
<1>2. ASSUME MergeErrors(old, new) = {} PROVE Types(old) = Types(new)
  <2>1. Len(old) = Len(new) /\ ~\E k \in DOMAIN old \cap DOMAIN new : old[k].ty # new[k].ty
    BY <1>2 DEF MergeErrors
  <2>2. DOMAIN old = DOMAIN new /\ \A k \in DOMAIN old : old[k].ty = new[k].ty
    BY <1>1, <2>1
  <2> QED BY <2>2 DEF Types
<1>3. ASSUME Types(old) = Types(new) PROVE MergeErrors(old, new) = {}
  <2>1. DOMAIN old = DOMAIN new
    BY <1>3 DEF Types
  <2>2. \A k \in DOMAIN old : Types(old)[k] = old[k].ty /\ Types(new)[k] = new[k].ty
    BY <2>1 DEF Types
  <2>3. Len(old) = Len(new)
    <3>1. \A k \in Nat : k \in 1..Len(old) <=> k \in 1..Len(new)
      BY <1>1, <2>1
    <3>2. Len(old) # 0 => Len(old) <= Len(new)
      BY <1>1, <3>1
    <3>3. Len(new) # 0 => Len(new) <= Len(old)
      BY <1>1, <3>1
    <3>4. Len(old) \in Nat /\ Len(new) \in Nat
      BY <1>1
    <3>5. \A a, b \in Nat : (a # 0 => a <= b) /\ (b # 0 => b <= a) => a = b
      OBVIOUS
    <3> QED BY <3>2, <3>3, <3>4, <3>5
  <2>4. \A k \in DOMAIN old : old[k].ty = new[k].ty
    BY <1>3, <2>2
  <2> QED BY <2>1, <2>3, <2>4 DEF MergeErrors
<1> QED BY <1>2, <1>3

\* One pair more.
LEMMA CompatibleNext ==
  ASSUME NEW c, NEW n \in Nat
  PROVE  CompatibleUpto(c, n + 1) <=> /\ CompatibleUpto(c, n) /\ WellFormed(Who(c, n + 1))
                                      /\ \A p \in 1..n : Agree(c, p, n + 1)
<1>1. \A p \in 1..n : p \in 1..(n + 1) /\ p < n + 1
  OBVIOUS
<1>2. \A p \in 1..(n + 1) : p \in 1..n \/ p = n + 1
  OBVIOUS
<1>3. n + 1 \in 1..(n + 1)
  OBVIOUS
<1>4. \A p \in 1..n : ~(n + 1 < p) /\ ~(n + 1 < n + 1)
  OBVIOUS
<1>5. CompatibleUpto(c, n + 1) => /\ CompatibleUpto(c, n) /\ WellFormed(Who(c, n + 1))
                                  /\ \A p \in 1..n : Agree(c, p, n + 1)
  BY <1>1, <1>3 DEF CompatibleUpto
<1>6. ASSUME CompatibleUpto(c, n), WellFormed(Who(c, n + 1)), \A p \in 1..n : Agree(c, p, n + 1)
      PROVE  CompatibleUpto(c, n + 1)
  <2>1. \A p \in 1..(n + 1) : WellFormed(Who(c, p))
    BY <1>2, <1>6 DEF CompatibleUpto
  <2>2. ASSUME NEW p \in 1..(n + 1), NEW q \in 1..(n + 1), p < q PROVE Agree(c, p, q)
    <3>1. p \in 1..n
      BY <2>2
    <3>2. CASE q = n + 1
      BY <3>1, <3>2, <1>6
    <3>3. CASE q # n + 1
      BY <3>1, <3>3, <2>2, <1>2, <1>6 DEF CompatibleUpto
    <3> QED BY <3>2, <3>3
  <2> QED BY <2>1, <2>2 DEF CompatibleUpto
<1> QED BY <1>5, <1>6
-----------------------------------------------------------------------------
\* A first pair of an id gets an entry of its own.
LEMMA Pushed ==
  ASSUME NEW c \in Contracts, NEW n \in Nat, n + 1 <= Len(Pairs(c)), NEW t, NEW errs,
         Tabled(c, n, t, errs), \A e \in DOMAIN t : t[e].reply_id # IdAt(c, n + 1)
  PROVE  Tabled(c, n + 1, Append(t, EntryAt(c, n + 1)), errs \cup NewErrors(Who(c, n + 1)))
<1> DEFINE q == n + 1
           entry == EntryAt(c, q)
           u == Append(t, entry)
           errs2 == errs \cup NewErrors(Who(c, q))
<1>0. q \in 1..Len(Pairs(c)) /\ entry \in Entries /\ HandlerAt(c, q) \in [method : Nat, reply_on : ReplyOn]
  BY PairTyped
<1>1. /\ t \in Seq(Entries) /\ u \in Seq(Entries) /\ DOMAIN u = DOMAIN t \cup {Len(t) + 1}
      /\ Len(t) + 1 \notin DOMAIN t /\ u[Len(t) + 1] = entry /\ \A e \in DOMAIN t : u[e] = t[e]
  BY <1>0 DEF Tabled
<1>2. entry.reply_id = IdAt(c, q) /\ entry.handlers = <<HandlerAt(c, q)>>
  BY DEF EntryAt
<1>3. \A p \in 1..q : p \in 1..n \/ p = q
  OBVIOUS
<1>4. \A p \in 1..n : p \in 1..q /\ IdAt(c, p) # IdAt(c, q)
  BY DEF Tabled
<1>5. q \in 1..q
  OBVIOUS
<1> HIDE DEF u
<1>6. \A p \in 1..q : \E e \in DOMAIN u : u[e].reply_id = IdAt(c, p)
  BY <1>1, <1>2, <1>3 DEF Tabled
<1>7. OnePerId(u)
  BY <1>1, <1>2 DEF Tabled, OnePerId
<1>8. ASSUME NEW e \in DOMAIN u PROVE Sourced(c, q, u[e])
  <2>1. CASE e \in DOMAIN t
    <3>1. Sourced(c, n, u[e])
      BY <1>1, <2>1 DEF Tabled
    <3> QED BY <3>1, <1>4 DEF Sourced
  <2>2. CASE e = Len(t) + 1
    <3>1. Sourced(c, q, entry)
      <4>1. entry.handlers # <<>> /\ DOMAIN entry.handlers = {1} /\ entry.handlers[1] = HandlerAt(c, q)
        BY <1>2
      <4>2. HandlerIdAt(c, q) = entry.handler_id /\ PayloadFields(Who(c, q)) = entry.payload
        BY DEF EntryAt
      <4> HIDE DEF entry, q
      <4> QED BY <4>1, <4>2, <1>2, <1>5 DEF Sourced
    <3> QED BY <3>1, <2>2, <1>1
  <2> QED BY <1>1, <2>1, <2>2
<1>9. errs2 = {} <=> CompatibleUpto(c, q)
  <2>1. \A p \in 1..n : Agree(c, p, q)
    BY <1>4 DEF Agree
  <2>2. CompatibleUpto(c, q) <=> CompatibleUpto(c, n) /\ WellFormed(Who(c, q))
    BY <2>1, CompatibleNext
  <2> QED BY <2>2 DEF Tabled, WellFormed
<1>10. ASSUME errs2 = {} PROVE Covers(c, q, u)
  <2>1. Covers(c, n, t)
    BY <1>10 DEF Tabled
  <2>2. ASSUME NEW p \in 1..q, NEW e \in DOMAIN u, u[e].reply_id = IdAt(c, p)
        PROVE  \E k \in DOMAIN u[e].handlers : u[e].handlers[k] = HandlerAt(c, p)
    <3>1. CASE e \in DOMAIN t
      <4>1. p \in 1..n /\ u[e] = t[e]
        BY <3>1, <2>2, <1>1, <1>3
      <4> QED BY <4>1, <2>1, <2>2, <3>1 DEF Covers
    <3>2. CASE e = Len(t) + 1
      <4>1. p = q /\ u[e].handlers = <<HandlerAt(c, q)>>
        BY <3>2, <2>2, <1>1, <1>2, <1>3, <1>4
      <4>2. 1 \in DOMAIN u[e].handlers /\ u[e].handlers[1] = HandlerAt(c, p)
        BY <4>1
      <4> QED BY <4>2
    <3> QED BY <1>1, <3>1, <3>2
  <2> HIDE DEF q
  <2> QED BY <2>2 DEF Covers
<1>11. u = Append(t, entry)
  BY DEF u
<1> HIDE DEF q, entry, errs2
<1>12. Tabled(c, q, u, errs2)
  BY <1>1, <1>6, <1>7, <1>8, <1>9, <1>10 DEF Tabled
<1> QED BY <1>11, <1>12 DEF q, entry, errs2

\* A pair that is excluded leaves an error: it was incompatible with an earlier one.
LEMMA Dropped ==
  ASSUME NEW c \in Contracts, NEW n \in Nat, NEW t, NEW errs, Tabled(c, n, t, errs),
         NEW e \in DOMAIN t, t[e].reply_id = IdAt(c, n + 1),
         NEW k \in DOMAIN t[e].handlers, Excludes(t[e].handlers[k].reply_on, Who(c, n + 1).reply_on)
  PROVE  Tabled(c, n + 1, t, errs \cup {"duplicated"})
<1> DEFINE q == n + 1
           errs2 == errs \cup {"duplicated"}
<1>1. \A p \in 1..n : p \in 1..q
  OBVIOUS
<1>2. \A p \in 1..q : p \in 1..n \/ p = q
  OBVIOUS
<1>3. \A p \in 1..q : \E f \in DOMAIN t : t[f].reply_id = IdAt(c, p)
  BY <1>2 DEF Tabled
<1>4. ASSUME NEW f \in DOMAIN t PROVE Sourced(c, q, t[f])
  <2>1. Sourced(c, n, t[f])
    BY DEF Tabled
  <2> QED BY <2>1, <1>1 DEF Sourced
<1>5. ~CompatibleUpto(c, q)
  <2>1. PICK p \in 1..n : IdAt(c, p) = t[e].reply_id /\ t[e].handlers[k] = HandlerAt(c, p)
    BY DEF Tabled, Sourced
  <2>2. ~Agree(c, p, q)
    BY <2>1 DEF Agree, HandlerAt
  <2> QED BY <2>2, CompatibleNext
<1> HIDE DEF q
<1>6. Tabled(c, q, t, errs2)
  BY <1>3, <1>4, <1>5 DEF Tabled
<1> QED BY <1>6 DEF q

\* What one more member changes in a sequence.
LEMMA Appended ==
  ASSUME NEW T, NEW s \in Seq(T), NEW x \in T
  PROVE  /\ Append(s, x) \in Seq(T)
         /\ DOMAIN Append(s, x) = DOMAIN s \cup {Len(s) + 1} /\ Len(s) + 1 \notin DOMAIN s
         /\ Append(s, x)[Len(s) + 1] = x /\ \A k \in DOMAIN s : Append(s, x)[k] = s[k]
<1>1. /\ Append(s, x) \in Seq(T) /\ Len(Append(s, x)) = Len(s) + 1 /\ Len(s) \in Nat
      /\ DOMAIN Append(s, x) = 1..Len(s) + 1 /\ DOMAIN s = 1..Len(s)
  OBVIOUS
<1>2. DOMAIN Append(s, x) = DOMAIN s \cup {Len(s) + 1} /\ Len(s) + 1 \notin DOMAIN s
  BY <1>1
<1>3. Append(s, x)[Len(s) + 1] = x
  OBVIOUS
<1>4. \A k \in DOMAIN s : Append(s, x)[k] = s[k]
  OBVIOUS
<1> QED BY <1>1, <1>2, <1>3, <1>4

\* A pair that is not excluded joins the entry of its id.
LEMMA Merged ==
  ASSUME NEW c \in Contracts, NEW n \in Nat, n + 1 <= Len(Pairs(c)), NEW t, NEW errs,
         Tabled(c, n, t, errs),
         NEW e \in DOMAIN t, t[e].reply_id = IdAt(c, n + 1),
         \A l \in DOMAIN t[e].handlers : ~Excludes(t[e].handlers[l].reply_on, Who(c, n + 1).reply_on)
  PROVE  Tabled(c, n + 1,
                [t EXCEPT ![e].handlers = Append(@, HandlerAt(c, n + 1))],
                errs \cup NewErrors(Who(c, n + 1))
                     \cup MergeErrors(t[e].payload, PayloadFields(Who(c, n + 1))))
<1> DEFINE q == n + 1
           u == [t EXCEPT ![e].handlers = Append(@, HandlerAt(c, q))]
           errs2 == errs \cup NewErrors(Who(c, q)) \cup MergeErrors(t[e].payload, PayloadFields(Who(c, q)))
           old == t[e].handlers
           h == HandlerAt(c, q)
           at == Len(old) + 1
<1>0. q \in 1..Len(Pairs(c)) /\ h \in [method : Nat, reply_on : ReplyOn] /\ IsMethod(Who(c, q))
  BY PairTyped
<1>1. /\ t \in Seq(Entries) /\ t[e] \in Entries
      /\ old \in Seq([method : Nat, reply_on : ReplyOn]) /\ t[e].payload \in Seq(Fields)
  <2>1. t \in Seq(Entries) /\ t[e] \in Entries
    BY DEF Tabled
  <2> QED BY <2>1 DEF Entries
<1>2. /\ Append(old, h) \in Seq([method : Nat, reply_on : ReplyOn])
      /\ DOMAIN Append(old, h) = DOMAIN old \cup {at} /\ at \notin DOMAIN old
      /\ Append(old, h)[at] = h /\ \A k \in DOMAIN old : Append(old, h)[k] = old[k]
  <2> DEFINE T == [method : Nat, reply_on : ReplyOn]
  <2>1. old \in Seq(T) /\ h \in T
    BY <1>0, <1>1
  <2> HIDE DEF T, old, h
  <2>2. /\ Append(old, h) \in Seq(T) /\ DOMAIN Append(old, h) = DOMAIN old \cup {at} /\ at \notin DOMAIN old
        /\ Append(old, h)[at] = h /\ \A k \in DOMAIN old : Append(old, h)[k] = old[k]
    BY <2>1, Appended
  <2> QED BY <2>2 DEF T
<1>3. /\ u \in Seq(Entries) /\ DOMAIN u = DOMAIN t /\ u[e].handlers = Append(old, h)
      /\ u[e].reply_id = t[e].reply_id /\ u[e].handler_id = t[e].handler_id
      /\ u[e].payload = t[e].payload
      /\ \A f \in DOMAIN t : f # e => u[f] = t[f]
  <2>1. [t[e] EXCEPT !.handlers = Append(old, h)] \in Entries
    BY <1>1, <1>2 DEF Entries
  <2>2. /\ [t[e] EXCEPT !.handlers = Append(old, h)].handlers = Append(old, h)
        /\ [t[e] EXCEPT !.handlers = Append(old, h)].reply_id = t[e].reply_id
        /\ [t[e] EXCEPT !.handlers = Append(old, h)].handler_id = t[e].handler_id
        /\ [t[e] EXCEPT !.handlers = Append(old, h)].payload = t[e].payload
    BY <1>1 DEF Entries
  <2>3. /\ u[e] = [t[e] EXCEPT !.handlers = Append(old, h)] /\ DOMAIN u = DOMAIN t
        /\ \A f \in DOMAIN t : f # e => u[f] = t[f]
    OBVIOUS
  <2>4. u \in Seq(Entries)
    BY <1>1, <2>1
  <2> HIDE DEF u, old, h
  <2> QED BY <2>2, <2>3, <2>4
<1>4. u = [t EXCEPT ![e].handlers = Append(@, HandlerAt(c, n + 1))]
  OBVIOUS
<1> HIDE DEF u
<1>5. \A p \in 1..q : p \in 1..n \/ p = q
  OBVIOUS
<1>6. q \in 1..q /\ \A p \in 1..n : p \in 1..q
  OBVIOUS
<1>7. \A f \in DOMAIN t : u[f].reply_id = t[f].reply_id
  BY <1>3
<1>8. Sourced(c, n, t[e])
  BY DEF Tabled
<1>9. \A p \in 1..q : \E f \in DOMAIN u : u[f].reply_id = IdAt(c, p)
  BY <1>3, <1>5, <1>7 DEF Tabled
<1>10. OnePerId(u)
  BY <1>3, <1>7 DEF Tabled, OnePerId
<1>11. Sourced(c, q, u[e])
  <2> HIDE DEF q, at, old, h
  <2>1. u[e].handlers # <<>>
    BY <1>2, <1>3
  <2>2. \A k \in DOMAIN u[e].handlers :
          \E p \in 1..q : IdAt(c, p) = u[e].reply_id /\ u[e].handlers[k] = HandlerAt(c, p)
    <3>1. \A k \in DOMAIN old : \E p \in 1..n : IdAt(c, p) = t[e].reply_id /\ old[k] = HandlerAt(c, p)
      BY <1>8 DEF Sourced, old
    <3>2. IdAt(c, q) = u[e].reply_id /\ u[e].handlers[at] = HandlerAt(c, q)
      BY <1>2, <1>3 DEF h, q
    <3> QED BY <1>2, <1>3, <1>6, <3>1, <3>2, SMTT(30)
  <2>3. \A k, l \in DOMAIN old : k # l => ~Excludes(old[k].reply_on, old[l].reply_on)
    BY <1>8 DEF Sourced, old
  <2>4. \A k \in DOMAIN old : ~Excludes(old[k].reply_on, h.reply_on) /\ ~Excludes(h.reply_on, old[k].reply_on)
    BY DEF Excludes, old, h, HandlerAt, q
  <2>5. \A k, l \in DOMAIN u[e].handlers :
          k # l => ~Excludes(u[e].handlers[k].reply_on, u[e].handlers[l].reply_on)
    <3> SUFFICES ASSUME NEW k \in DOMAIN u[e].handlers, NEW l \in DOMAIN u[e].handlers, k # l
                 PROVE  ~Excludes(u[e].handlers[k].reply_on, u[e].handlers[l].reply_on)
      OBVIOUS
    <3>1. (k \in DOMAIN old /\ u[e].handlers[k] = old[k]) \/ (k = at /\ u[e].handlers[k] = h)
      BY <1>2, <1>3
    <3>2. (l \in DOMAIN old /\ u[e].handlers[l] = old[l]) \/ (l = at /\ u[e].handlers[l] = h)
      BY <1>2, <1>3
    <3> QED BY <2>3, <2>4, <3>1, <3>2
  <2>6. \E p \in 1..q : /\ HandlerIdAt(c, p) = u[e].handler_id /\ IdAt(c, p) = u[e].reply_id
                        /\ PayloadFields(Who(c, p)) = u[e].payload
    BY <1>3, <1>6, <1>8 DEF Sourced
  <2> QED BY <2>1, <2>2, <2>5, <2>6 DEF Sourced
<1>12. ASSUME NEW f \in DOMAIN u PROVE Sourced(c, q, u[f])
  <2>1. CASE f = e
    BY <1>11, <2>1
  <2>2. CASE f # e
    <3>1. Sourced(c, n, u[f])
      BY <1>3, <2>2 DEF Tabled
    <3> QED BY <3>1, <1>6 DEF Sourced
  <2> QED BY <2>1, <2>2
<1>13. MergeErrors(t[e].payload, PayloadFields(Who(c, q))) = {}
         <=> Types(t[e].payload) = Types(PayloadFields(Who(c, q)))
  BY <1>0, <1>1, FieldsTyped, NothingToMerge
<1>14. errs2 = {} <=> CompatibleUpto(c, q)
  <2>1. CASE errs # {}
    BY <2>1, CompatibleNext DEF Tabled
  <2>2. CASE errs = {}
    <3>1. CompatibleUpto(c, n) /\ Covers(c, n, t)
      BY <2>2 DEF Tabled
    <3>2. PICK r \in 1..n : IdAt(c, r) = t[e].reply_id /\ PayloadFields(Who(c, r)) = t[e].payload
      BY <1>8 DEF Sourced
    <3>3. ASSUME NEW p \in 1..n, IdAt(c, p) = IdAt(c, q)
          PROVE  /\ ~Excludes(Who(c, p).reply_on, Who(c, q).reply_on)
                 /\ Types(PayloadFields(Who(c, p))) = Types(t[e].payload)
      <4>1. PICK k \in DOMAIN t[e].handlers : t[e].handlers[k] = HandlerAt(c, p)
        BY <3>1, <3>3 DEF Covers
      <4>2. ~Excludes(Who(c, p).reply_on, Who(c, q).reply_on)
        BY <4>1 DEF HandlerAt
      <4>3. p = r \/ p < r \/ r < p
        OBVIOUS
      <4>4. SameSignature(Who(c, p), Who(c, r)) \/ SameSignature(Who(c, r), Who(c, p)) \/ p = r
        BY <3>1, <3>2, <3>3, <4>3 DEF CompatibleUpto, Agree
      <4> QED BY <3>2, <4>2, <4>4 DEF SameSignature
    <3>4. (\A p \in 1..n : Agree(c, p, q)) <=> Types(t[e].payload) = Types(PayloadFields(Who(c, q)))
      BY <3>2, <3>3 DEF Agree, SameSignature
    <3>5. CompatibleUpto(c, q) <=> WellFormed(Who(c, q)) /\ \A p \in 1..n : Agree(c, p, q)
      BY <3>1, CompatibleNext
    <3> QED BY <2>2, <1>13, <3>4, <3>5 DEF WellFormed
  <2> QED BY <2>1, <2>2
<1>15. ASSUME errs2 = {} PROVE Covers(c, q, u)
  <2>1. Covers(c, n, t)
    BY <1>15 DEF Tabled
  <2>2. ASSUME NEW p \in 1..q, NEW f \in DOMAIN u, u[f].reply_id = IdAt(c, p)
        PROVE  \E k \in DOMAIN u[f].handlers : u[f].handlers[k] = HandlerAt(c, p)
    <3>1. CASE p \in 1..n
      <4>1. PICK k \in DOMAIN t[f].handlers : t[f].handlers[k] = HandlerAt(c, p)
        BY <1>3, <1>7, <2>1, <2>2, <3>1 DEF Covers
      <4>2. k \in DOMAIN u[f].handlers /\ u[f].handlers[k] = t[f].handlers[k]
        BY <1>2, <1>3, <4>1
      <4> QED BY <4>1, <4>2
    <3>2. CASE p = q
      <4>1. f = e
        BY <1>3, <1>7, <2>2, <3>2 DEF Tabled, OnePerId
      <4> QED BY <1>2, <1>3, <3>2, <4>1
    <3> QED BY <1>5, <3>1, <3>2
  <2> HIDE DEF q
  <2> QED BY <2>2 DEF Covers
<1> HIDE DEF q, errs2
<1>16. Tabled(c, q, u, errs2)
  BY <1>3, <1>9, <1>10, <1>12, <1>14, <1>15 DEF Tabled
<1> QED BY <1>4, <1>16 DEF q, errs2
-----------------------------------------------------------------------------
\* What is left of the pairs after the first n.
Rest(c, n, s) == /\ s \in Seq((DOMAIN c) \X Handlers)
                 /\ Len(s) = Len(Pairs(c)) - n
                 /\ \A i \in 1..Len(s) : s[i] = Pairs(c)[n + i]

TableInv == /\ methods \in Contracts
            /\ \E n \in 0..Len(Pairs(methods)) : /\ Rest(methods, n, todo)
                                                 /\ Tabled(methods, n, reply_data, errors)

LEMMA RestNext ==
  ASSUME NEW c \in Contracts, NEW n \in 0..Len(Pairs(c)), NEW s, Rest(c, n, s), s # <<>>
  PROVE  /\ n + 1 \in 0..Len(Pairs(c)) /\ n \in Nat /\ n + 1 <= Len(Pairs(c))
         /\ Head(s) = Pairs(c)[n + 1] /\ Rest(c, n + 1, Tail(s))
<1>0. Len(Pairs(c)) \in Nat
  BY PairsAre
<1>1. s \in Seq((DOMAIN c) \X Handlers) /\ Len(s) = Len(Pairs(c)) - n /\ Len(s) \in Nat /\ Len(s) # 0
  BY DEF Rest
<1>2. n + 1 \in 0..Len(Pairs(c)) /\ n \in Nat /\ n + 1 <= Len(Pairs(c))
  BY <1>0, <1>1
<1>3. Head(s) = s[1] /\ 1 \in 1..Len(s)
  BY <1>1
<1>4. /\ Tail(s) \in Seq((DOMAIN c) \X Handlers) /\ Len(Tail(s)) = Len(s) - 1
      /\ \A i \in 1..Len(Tail(s)) : Tail(s)[i] = s[i + 1] /\ i + 1 \in 1..Len(s)
  BY <1>1
<1>5. ASSUME NEW i \in 1..Len(Tail(s)) PROVE Tail(s)[i] = Pairs(c)[(n + 1) + i]
  <2>1. n + (i + 1) = (n + 1) + i
    BY <1>2, <1>4
  <2> QED BY <2>1, <1>4 DEF Rest
<1>6. Len(Tail(s)) = Len(Pairs(c)) - (n + 1)
  BY <1>0, <1>1, <1>2, <1>4
<1> QED BY <1>2, <1>3, <1>4, <1>5, <1>6 DEF Rest

LEMMA TableInitial == TableInit => TableInv
<1> SUFFICES ASSUME TableInit PROVE TableInv
  OBVIOUS
<1>1. methods \in Contracts /\ todo = Pairs(methods) /\ reply_data = <<>> /\ errors = {}
  BY DEF TableInit
<1>2. Pairs(methods) \in Seq((DOMAIN methods) \X Handlers) /\ Len(Pairs(methods)) \in Nat
  BY <1>1, PairsAre
<1>3. Rest(methods, 0, todo)
  BY <1>1, <1>2 DEF Rest
<1>4. 1..0 = {}
  OBVIOUS
<1>5. CompatibleUpto(methods, 0) /\ Covers(methods, 0, <<>>)
  BY <1>4 DEF CompatibleUpto, Covers
<1>6. <<>> \in Seq(Entries) /\ DOMAIN <<>> = {}
  OBVIOUS
<1>7. Tabled(methods, 0, reply_data, errors)
  BY <1>1, <1>4, <1>5, <1>6 DEF Tabled, OnePerId
<1> QED BY <1>1, <1>2, <1>3, <1>7 DEF TableInv

LEMMA TableNext == TableInv /\ [Expand]_tvars => TableInv'
<1> SUFFICES ASSUME TableInv, Expand PROVE TableInv'
  BY DEF TableInv, tvars
<1> DEFINE c == methods
           q(n) == n + 1
<1>1. PICK n \in 0..Len(Pairs(c)) : Rest(c, n, todo) /\ Tabled(c, n, reply_data, errors)
  BY DEF TableInv
<1>2. c \in Contracts /\ todo # <<>> /\ methods' = methods /\ todo' = Tail(todo)
  BY DEF TableInv, Expand, Push, Duplicate, Merge
<1>3. /\ n + 1 \in 0..Len(Pairs(c)) /\ n \in Nat /\ n + 1 <= Len(Pairs(c))
      /\ Head(todo) = Pairs(c)[n + 1] /\ Rest(c, n + 1, Tail(todo))
  BY <1>1, <1>2, RestNext
<1>4. /\ methods[Head(todo)[1]] = Who(c, n + 1) /\ ReplyIdOf[Head(todo)[2]] = IdAt(c, n + 1)
      /\ [method |-> Head(todo)[1], reply_on |-> methods[Head(todo)[1]].reply_on] = HandlerAt(c, n + 1)
      /\ NewData(Head(todo)[1], Head(todo)[2]) = EntryAt(c, n + 1)
  BY <1>3 DEF Who, IdAt, HandlerIdAt, HandlerAt, NewData, EntryAt
<1>5. CASE Push
  <2>1. /\ Existing(IdAt(c, n + 1)) = {}
        /\ reply_data' = Append(reply_data, EntryAt(c, n + 1))
        /\ errors' = errors \cup NewErrors(Who(c, n + 1))
    BY <1>4, <1>5 DEF Push
  <2>2. \A e \in DOMAIN reply_data : reply_data[e].reply_id # IdAt(c, n + 1)
    BY <2>1 DEF Existing
  <2>3. Tabled(c, n + 1, reply_data', errors')
    BY <1>1, <1>2, <1>3, <2>1, <2>2, Pushed
  <2> QED BY <1>2, <1>3, <2>3 DEF TableInv
<1>6. CASE Duplicate
  <2>1. errors' = errors \cup {"duplicated"} /\ reply_data' = reply_data
    BY <1>6 DEF Duplicate
  <2>2. PICK e \in DOMAIN reply_data :
          /\ reply_data[e].reply_id = IdAt(c, n + 1)
          /\ \E k \in DOMAIN reply_data[e].handlers :
               Excludes(reply_data[e].handlers[k].reply_on, Who(c, n + 1).reply_on)
    BY <1>4, <1>6 DEF Duplicate, Existing
  <2>3. Tabled(c, n + 1, reply_data', errors')
    BY <1>1, <1>2, <1>3, <2>1, <2>2, Dropped
  <2> QED BY <1>2, <1>3, <2>3 DEF TableInv
<1>7. CASE Merge
  <2>1. PICK e \in DOMAIN reply_data :
          /\ reply_data[e].reply_id = IdAt(c, n + 1)
          /\ \A l \in DOMAIN reply_data[e].handlers :
               ~Excludes(reply_data[e].handlers[l].reply_on, Who(c, n + 1).reply_on)
          /\ reply_data' = [reply_data EXCEPT ![e].handlers = Append(@, HandlerAt(c, n + 1))]
          /\ errors' = errors \cup NewErrors(Who(c, n + 1))
                         \cup MergeErrors(reply_data[e].payload, PayloadFields(Who(c, n + 1)))
    BY <1>4, <1>7 DEF Merge, Existing
  <2>2. Tabled(c, n + 1, reply_data', errors')
    BY <1>1, <1>2, <1>3, <2>1, Merged
  <2> QED BY <1>2, <1>3, <2>2 DEF TableInv
<1> QED BY <1>5, <1>6, <1>7 DEF Expand

\* The table changes while it is expanded, and stays what it is in transactions.
LEMMA TableInvariance == Spec => []TableInv
<1>1. [Next]_vars => [Expand]_tvars
  BY DEF Next, Compile, Start, Execute, Commit, Ended, Reply, UnknownId, ForwardOk, ForwardError,
         BadPayload, BadData, Handle, Fail, vars, tvars
<1>2. Init => TableInv
  BY TableInitial DEF Init
<1> QED BY <1>1, <1>2, TableNext, PTL DEF Spec

\* Once everything is entered, the table is that of all pairs.
LEMMA TableEnds ==
  ASSUME TableInv, Built
  PROVE  Tabled(methods, Len(Pairs(methods)), reply_data, errors) /\ methods \in Contracts
<1>1. PICK n \in 0..Len(Pairs(methods)) : Rest(methods, n, todo) /\ Tabled(methods, n, reply_data, errors)
  BY DEF TableInv
<1>2. methods \in Contracts /\ Len(Pairs(methods)) \in Nat
  BY PairsAre DEF TableInv
<1>3. n = Len(Pairs(methods))
  BY <1>1, <1>2 DEF Rest, Built
<1> QED BY <1>1, <1>2, <1>3

\* The macro accepts exactly the contracts with pairwise compatible reply methods, in
\* whatever order it meets them (as_reply_data, merge).
THEOREM AcceptsExactlyCompatible == Spec => []AcceptsCompatible
<1>1. TableInv => AcceptsCompatible
  <2> SUFFICES ASSUME TableInv, Built PROVE errors = {} <=> Compatible(methods)
    BY DEF AcceptsCompatible
  <2> DEFINE n == Len(Pairs(methods))
  <2>1. errors = {} <=> CompatibleUpto(methods, n)
    BY TableEnds DEF Tabled
  <2>2. methods \in Contracts
    BY TableEnds
  <2>3. DOMAIN Pairs(methods) = 1..n
    BY <2>2, PairsAre
  <2>4. CompatibleUpto(methods, n) <=> Compatible(methods)
    BY <2>3 DEF Compatible, CompatibleUpto, Who, Agree, IdAt, HandlerIdAt
  <2> QED BY <2>1, <2>4
<1> QED BY <1>1, TableInvariance, PTL

\* What CwReplyOn makes of the handlers of an entry.
LEMMA AsksForHandled ==
  ASSUME NEW entry, entry.handlers # <<>>, NEW T, entry.handlers \in Seq(T),
         \A k \in DOMAIN entry.handlers : entry.handlers[k].reply_on \in ReplyOn,
         NEW o \in {"success", "error"}
  PROVE  Handling(entry, o) # {} <=> CwReplyOn(entry) \in {o, "always"}
<1> DEFINE ons == {entry.handlers[k].reply_on : k \in DOMAIN entry.handlers}
<1>1. ons \subseteq ReplyOn /\ ons # {}
  <2>1. 1 \in DOMAIN entry.handlers
    <3> DEFINE handlers == entry.handlers
    <3>1. handlers \in Seq(T) /\ handlers # <<>>
      OBVIOUS
    <3> HIDE DEF handlers
    <3>2. 1 \in DOMAIN handlers
      BY <3>1
    <3> QED BY <3>2 DEF handlers
  <2>2. entry.handlers[1].reply_on \in ons
    BY <2>1
  <2>3. ons \subseteq ReplyOn
    OBVIOUS
  <2> QED BY <2>2, <2>3
<1>2. Handling(entry, o) # {} <=> o \in ons \/ "always" \in ons
  BY DEF Handling
<1>3. CwReplyOn(entry) = IF "always" \in ons \/ {"success", "error"} \subseteq ons THEN "always"
                         ELSE IF "success" \in ons THEN "success" ELSE "error"
  BY DEF CwReplyOn
<1> HIDE DEF ons
<1> QED BY <1>1, <1>2, <1>3 DEF ReplyOn

LEMMA ArmsOf ==
  ASSUME TableInv, Accepted
  PROVE  ArmsComplete
<1> DEFINE c == methods
           n == Len(Pairs(methods))
<1>1. Tabled(c, n, reply_data, errors) /\ c \in Contracts /\ errors = {}
  BY TableEnds DEF Accepted
<1>2. Pairs(c) \in Seq((DOMAIN c) \X Handlers) /\ DOMAIN Pairs(c) = 1..n
  BY <1>1, PairsAre
<1>3. OnePerId(reply_data) /\ Covers(c, n, reply_data)
  BY <1>1 DEF Tabled
<1>4. ASSUME NEW e \in DOMAIN reply_data, NEW o \in {"success", "error"}
      PROVE  LET arm == Handling(reply_data[e], o)
             IN /\ {reply_data[e].handlers[k].method : k \in arm} =
                     {m \in DOMAIN methods : /\ methods[m].reply_on \in {o, "always"}
                                            /\ \E h \in ToSet(HandlersOf(methods[m])) :
                                                 ReplyIdOf[h] = reply_data[e].reply_id}
                /\ \A k, l \in arm : k = l
                /\ arm # {} <=> CwReplyOn(reply_data[e]) \in {o, "always"}
  <2> DEFINE entry == reply_data[e]
             arm == Handling(entry, o)
             declared == {m \in DOMAIN c : /\ c[m].reply_on \in {o, "always"}
                                           /\ \E h \in ToSet(HandlersOf(c[m])) : ReplyIdOf[h] = entry.reply_id}
  <2>1. Sourced(c, n, entry) /\ entry \in Entries
    BY <1>1 DEF Tabled
  <2>2. entry.handlers \in Seq([method : Nat, reply_on : ReplyOn])
    BY <2>1 DEF Entries
  <2>3. ASSUME NEW k \in arm PROVE entry.handlers[k].method \in declared
    <3>1. k \in DOMAIN entry.handlers /\ entry.handlers[k].reply_on \in {o, "always"}
      BY DEF Handling
    <3>2. PICK p \in 1..n : IdAt(c, p) = entry.reply_id /\ entry.handlers[k] = HandlerAt(c, p)
      BY <2>1, <3>1 DEF Sourced
    <3>3. Pairs(c)[p] \in (DOMAIN c) \X Handlers /\ Pairs(c)[p] \in ToSet(Pairs(c))
      BY <1>2 DEF ToSet
    <3>4. Pairs(c)[p][2] \in ToSet(HandlersOf(c[Pairs(c)[p][1]]))
      <4>1. Pairs(c)[p] = <<Pairs(c)[p][1], Pairs(c)[p][2]>> /\ Pairs(c)[p][1] \in DOMAIN c
        BY <3>3
      <4> QED BY <1>1, <3>3, <4>1, PairsAre
    <3> HIDE DEF entry
    <3> QED BY <3>1, <3>2, <3>3, <3>4 DEF HandlerAt, Who, IdAt, HandlerIdAt
  <2>4. ASSUME NEW m \in declared PROVE \E k \in arm : entry.handlers[k].method = m
    <3>1. PICK h \in ToSet(HandlersOf(c[m])) : ReplyIdOf[h] = entry.reply_id
      OBVIOUS
    <3>2. <<m, h>> \in ToSet(Pairs(c))
      BY <1>1, <3>1, PairsAre
    <3>3. PICK p \in 1..n : Pairs(c)[p] = <<m, h>>
      BY <1>2, <3>2 DEF ToSet
    <3>4. IdAt(c, p) = entry.reply_id /\ HandlerAt(c, p) = [method |-> m, reply_on |-> c[m].reply_on]
      BY <3>1, <3>3 DEF IdAt, HandlerIdAt, HandlerAt, Who
    <3>5. PICK k \in DOMAIN entry.handlers : entry.handlers[k] = HandlerAt(c, p)
      BY <1>3, <3>4 DEF Covers
    <3>6. k \in arm
      BY <3>4, <3>5 DEF Handling
    <3> QED BY <3>4, <3>5, <3>6
  <2>5. {entry.handlers[k].method : k \in arm} = declared
    <3> HIDE DEF entry, arm, declared
    <3> QED BY <2>3, <2>4
  <2>6. ASSUME NEW k \in arm, NEW l \in arm PROVE k = l
    BY <2>1, <2>6 DEF Sourced, Handling, Excludes
  <2>7. arm # {} <=> CwReplyOn(entry) \in {o, "always"}
    <3>1. entry.handlers # <<>> /\ \A k \in DOMAIN entry.handlers : entry.handlers[k].reply_on \in ReplyOn
      <4>1. entry.handlers # <<>>
        BY <2>1 DEF Sourced
      <4>2. \A k \in DOMAIN entry.handlers : entry.handlers[k].reply_on \in ReplyOn
        <5> DEFINE R == [method : Nat, reply_on : ReplyOn]
                   handlers == entry.handlers
        <5>1. handlers \in Seq(R) /\ \A r \in R : r.reply_on \in ReplyOn
          BY <2>2
        <5> HIDE DEF R, handlers
        <5>2. \A k \in DOMAIN handlers : handlers[k] \in R
          BY <5>1
        <5>3. \A k \in DOMAIN handlers : handlers[k].reply_on \in ReplyOn
          BY <5>1, <5>2
        <5> QED BY <5>3 DEF handlers
      <4> QED BY <4>1, <4>2
    <3> HIDE DEF entry
    <3> QED BY <2>2, <3>1, AsksForHandled
  <2> QED BY <2>5, <2>6, <2>7
<1> QED BY <1>3, <1>4 DEF ArmsComplete, OnePerId

\* In an accepted table every declared handler is what its arms find, and the
\* submessage asks for exactly these (emit_match_arms, emit_cw_reply_on).
THEOREM ArmsCorrect == Spec => []ArmsComplete
<1>1. TableInv => ArmsComplete
  BY ArmsOf DEF ArmsComplete
<1> QED BY <1>1, TableInvariance, PTL
-----------------------------------------------------------------------------
\* What the two properties say of one submessage that is done with.
Declared(c, handler, outcome) ==
  {k \in DOMAIN c : /\ c[k].reply_on \in {outcome, "always"}
                    /\ \E h \in ToSet(HandlersOf(c[k])) : ReplyIdOf[h] = ReplyIdOf[handler]}

AsDeclared(c, d) ==
  d.sub.origin # <<>> =>
    LET handler == d.sub.origin[1]
        declared == Declared(c, handler, d.result.kind)
    IN CASE d.how.via = "chain" -> declared = {}
         [] d.how.via = "bad_data" -> \E m \in declared : HasData(c[m])
         [] d.how.via = "call" -> /\ d.how.method \in declared
                                  /\ d.how.payload = d.sub.origin[2]
                                  /\ d.how.first = "data" <=> HasData(c[d.how.method])
         [] OTHER -> FALSE

NotSwallowed(c, d) ==
  d.result.kind = "error" =>
    d.how.via = "call" /\ c[d.how.method].reply_on \in {"error", "always"}

DispatchInv ==
  /\ TableInv
  /\ tx = "compile" => subs = <<>> /\ log = <<>>
  /\ tx # "compile" => Accepted /\ DataForwarded
  /\ subs \in Seq(Setters \cup ByHand)
  /\ tx = "replying" => /\ subs # <<>> /\ result \in Outcomes
                        /\ Head(subs).reply_on \in {result.kind, "always"}
  /\ log \in Seq(ToSet(log))
  /\ \A d \in ToSet(log) : AsDeclared(methods, d)
  /\ tx # "failed" => \A d \in ToSet(log) : NotSwallowed(methods, d)

\* A submessage of a generated method: its id is the place of its entry.
LEMMA OfSetter ==
  ASSUME TableInv, Accepted, NEW sub \in Setters \cup ByHand, sub.origin # <<>>
  PROVE  \E e \in DOMAIN reply_data : \E args \in Arguments(reply_data[e].payload) :
           /\ sub.id + 1 = e /\ sub.id < Len(reply_data)
           /\ sub.reply_on = CwReplyOn(reply_data[e])
           /\ sub.payload = Serialize(reply_data[e].payload, args)
           /\ sub.origin = <<reply_data[e].handler_id, args>>
<1>1. reply_data \in Seq(Entries)
  BY TableEnds DEF Accepted, Tabled
<1>2. sub \in Setters
  BY DEF ByHand
<1>3. PICK e \in DOMAIN reply_data : \E args \in Arguments(reply_data[e].payload) : sub = BySetter(e, args)
  BY <1>2 DEF Setters
<1>4. e \in 1..Len(reply_data) /\ Len(reply_data) \in Nat
  BY <1>1
<1>5. (e - 1) + 1 = e /\ e - 1 < Len(reply_data)
  BY <1>4
<1> QED BY <1>3, <1>5 DEF BySetter

\* The methods declared for the id of an entry are those its arm looks for.
LEMMA EntryDeclares ==
  ASSUME TableInv, Accepted, NEW e \in DOMAIN reply_data, NEW o \in {"success", "error"}
  PROVE  Declared(methods, reply_data[e].handler_id, o)
           = {reply_data[e].handlers[k].method : k \in Handling(reply_data[e], o)}
<1>1. ArmsComplete
  BY ArmsOf
<1>2. Sourced(methods, Len(Pairs(methods)), reply_data[e])
  BY TableEnds DEF Accepted, Tabled
<1>3. ReplyIdOf[reply_data[e].handler_id] = reply_data[e].reply_id
  BY <1>2 DEF Sourced, IdAt
<1> QED BY <1>1, <1>3 DEF ArmsComplete, Declared

\* What an arm finds is one of the methods, with what it was declared for.
LEMMA FoundIsHandler ==
  ASSUME TableInv, Accepted, NEW e \in DOMAIN reply_data, NEW o \in {"success", "error"},
         Handling(reply_data[e], o) # {}
  PROVE  /\ \E k \in Handling(reply_data[e], o) : Found(reply_data[e], o) = reply_data[e].handlers[k]
         /\ Found(reply_data[e], o).reply_on \in {o, "always"}
         /\ methods[Found(reply_data[e], o).method].reply_on = Found(reply_data[e], o).reply_on
<1> DEFINE S == Handling(reply_data[e], o)
           handlers == reply_data[e].handlers
<1>1. /\ Sourced(methods, Len(Pairs(methods)), reply_data[e]) /\ reply_data[e] \in Entries
  BY TableEnds DEF Accepted, Tabled
<1>2. handlers \in Seq([method : Nat, reply_on : ReplyOn])
  BY <1>1 DEF Entries
<1>3. S \subseteq Nat
  <2>1. DOMAIN handlers \subseteq Nat
    <3> HIDE DEF handlers
    <3> QED BY <1>2
  <2> QED BY <2>1 DEF Handling
<1>4. Min(S) \in S
  <2> HIDE DEF S
  <2>1. \E x \in S : \A y \in S : x <= y
    BY <1>3, Smallest DEF S
  <2> QED BY <2>1 DEF Min
<1>5. Found(reply_data[e], o) = handlers[Min(S)]
  BY DEF Found
<1>6. Min(S) \in DOMAIN handlers /\ handlers[Min(S)].reply_on \in {o, "always"}
  BY <1>4 DEF Handling
<1>7. PICK p \in 1..Len(Pairs(methods)) : handlers[Min(S)] = HandlerAt(methods, p)
  BY <1>1, <1>6 DEF Sourced
<1>8. methods[handlers[Min(S)].method].reply_on = handlers[Min(S)].reply_on
  BY <1>7 DEF HandlerAt, Who
<1> HIDE DEF S, handlers
<1>9. /\ \E k \in S : Found(reply_data[e], o) = handlers[k]
      /\ Found(reply_data[e], o).reply_on \in {o, "always"}
      /\ methods[Found(reply_data[e], o).method].reply_on = Found(reply_data[e], o).reply_on
  BY <1>4, <1>5, <1>6, <1>8
<1> QED BY <1>9 DEF S, handlers

\* The dispatcher reads what the generated method has written.
LEMMA PayloadArrives ==
  ASSUME NEW payload, NEW args \in Arguments(payload)
  PROVE  /\ Deserializes(payload, Serialize(payload, args))
         /\ Deserialize(payload, Serialize(payload, args)) = args
BY DEF Arguments, Deserializes, Deserialize, Serialize

LEMMA Logged ==
  ASSUME NEW s, s \in Seq(ToSet(s)), NEW d
  PROVE  Append(s, d) \in Seq(ToSet(Append(s, d))) /\ ToSet(Append(s, d)) = ToSet(s) \cup {d}
<1> DEFINE U == ToSet(s) \cup {d}
<1>1. s \in Seq(U) /\ d \in U
  <2> HIDE DEF U
  <2>1. ToSet(s) \subseteq U /\ d \in U
    BY DEF U
  <2> QED BY <2>1
<1>2. Append(s, d) = s \o <<d>> /\ <<d>> \in Seq(U) /\ ToSet(<<d>>) = {d}
  BY <1>1 DEF ToSet
<1>3. Append(s, d) \in Seq(U) /\ ToSet(Append(s, d)) = ToSet(s) \cup {d}
  <2> DEFINE one == <<d>>
  <2>1. Append(s, d) = s \o one /\ one \in Seq(U) /\ ToSet(one) = {d}
    BY <1>2
  <2> HIDE DEF U, one
  <2>2. s \o one \in Seq(U) /\ ToSet(s \o one) = ToSet(s) \cup ToSet(one)
    <3>1. s \o one \in Seq(U) /\ EntriesOf(s \o one) = EntriesOf(s) \cup EntriesOf(one)
      BY <1>1, <2>1, Concatenated
    <3>2. \A t : EntriesOf(t) = ToSet(t)
      BY DEF EntriesOf, ToSet
    <3> QED BY <3>1, <3>2
  <2> QED BY <2>1, <2>2
<1> QED BY <1>3
-----------------------------------------------------------------------------
\* After the expansion the table stays.
LEMMA TableStays ==
  ASSUME UNCHANGED tvars
  PROVE  /\ methods' = methods /\ Setters' = Setters
         /\ (TableInv => TableInv') /\ (Accepted => Accepted') /\ (DataForwarded => DataForwarded')
<1>1. methods' = methods /\ todo' = todo /\ reply_data' = reply_data /\ errors' = errors
  BY DEF tvars
<1>2. TableInv => TableInv'
  BY TableNext
<1>3. Accepted => Accepted'
  BY <1>1 DEF Accepted, Built
<1>4. Setters' = Setters
  BY <1>1 DEF Setters, BySetter
<1>5. DataForwarded => DataForwarded'
  BY <1>1, <1>3 DEF DataForwarded, Accepted, Built
<1> QED BY <1>1, <1>2, <1>3, <1>4, <1>5

\* A submessage is done with: what is known of the others stays.
LEMMA DoneWith ==
  ASSUME DispatchInv, tx # "compile", UNCHANGED tvars, tx' \in {"running", "failed"},
         subs' \in Seq(Setters \cup ByHand), NEW how, Record(how), subs # <<>>,
         AsDeclared(methods, [sub |-> Head(subs), result |-> result', how |-> how]),
         tx' # "failed" =>
           tx # "failed" /\ NotSwallowed(methods, [sub |-> Head(subs), result |-> result', how |-> how])
  PROVE  DispatchInv'
<1> DEFINE d == [sub |-> Head(subs), result |-> result', how |-> how]
<1>1. log' = Append(log, d)
  BY DEF Record
<1>2. log' \in Seq(ToSet(log')) /\ ToSet(log') = ToSet(log) \cup {d}
  <2> HIDE DEF d
  <2>1. log \in Seq(ToSet(log))
    BY DEF DispatchInv
  <2> QED BY <1>1, <2>1, Logged
<1>3. \A x \in ToSet(log') : AsDeclared(methods, x)
  BY <1>2 DEF DispatchInv
<1>4. tx' # "failed" => \A x \in ToSet(log') : NotSwallowed(methods, x)
  BY <1>2 DEF DispatchInv
<1>5. methods' = methods /\ Setters' = Setters /\ TableInv' /\ Accepted' /\ DataForwarded' /\ ByHand' = ByHand
  BY TableStays DEF DispatchInv, ByHand
<1>6. (\A x \in ToSet(log) : AsDeclared(methods, x))'
  BY <1>3, <1>5 DEF AsDeclared, Declared
<1>7. (tx # "failed" => \A x \in ToSet(log) : NotSwallowed(methods, x))'
  BY <1>4, <1>5 DEF NotSwallowed
<1>8. (subs \in Seq(Setters \cup ByHand))'
  BY <1>5
<1>9. (log \in Seq(ToSet(log)))'
  BY <1>2
<1> QED BY <1>5, <1>6, <1>7, <1>8, <1>9 DEF DispatchInv

LEMMA ExecuteKeeps ==
  ASSUME DispatchInv, Execute
  PROVE  DispatchInv'
<1> DEFINE sub == Head(subs)
<1>1. /\ tx = "running" /\ subs # <<>> /\ result' \in Outcomes /\ UNCHANGED tvars
      /\ TableInv /\ Accepted /\ DataForwarded
      /\ subs \in Seq(Setters \cup ByHand)
  BY DEF Execute, DispatchInv
<1>2. result'.kind \in {"success", "error"}
  BY <1>1 DEF Outcomes
<1>3. CASE sub.reply_on \in {result'.kind, "always"}
  <2>1. tx' = "replying" /\ subs' = subs /\ log' = log
    BY <1>3 DEF Execute
  <2>2. methods' = methods /\ Setters' = Setters /\ TableInv' /\ Accepted' /\ DataForwarded' /\ ByHand' = ByHand
    BY <1>1, TableStays DEF ByHand
  <2>3. (\A x \in ToSet(log) : AsDeclared(methods, x))'
    BY <2>1, <2>2 DEF DispatchInv, AsDeclared, Declared
  <2>4. (\A x \in ToSet(log) : NotSwallowed(methods, x))'
    BY <1>1, <2>1, <2>2 DEF DispatchInv, NotSwallowed
  <2>5. (subs \in Seq(Setters \cup ByHand))' /\ (log \in Seq(ToSet(log)))'
    BY <2>1, <2>2 DEF DispatchInv
  <2>6. (subs # <<>> /\ result \in Outcomes /\ Head(subs).reply_on \in {result.kind, "always"})'
    BY <1>1, <1>3, <2>1 DEF Outcomes
  <2> QED BY <2>1, <2>2, <2>3, <2>4, <2>5, <2>6 DEF DispatchInv
<1>4. CASE sub.reply_on \notin {result'.kind, "always"}
  <2> DEFINE d == [sub |-> sub, result |-> result', how |-> [via |-> "chain"]]
  <2>1. /\ tx' = (IF result'.kind = "error" THEN "failed" ELSE "running")
        /\ subs' = Tail(subs) /\ Record([via |-> "chain"])
    BY <1>4 DEF Execute
  <2>2. subs' \in Seq(Setters \cup ByHand) /\ sub \in Setters \cup ByHand
    BY <1>1, <2>1
  <2>3. AsDeclared(methods, d)
    <3> SUFFICES ASSUME sub.origin # <<>> PROVE Declared(methods, sub.origin[1], result'.kind) = {}
      BY DEF AsDeclared
    <3> HIDE DEF sub
    <3>1. PICK e \in DOMAIN reply_data : /\ sub.reply_on = CwReplyOn(reply_data[e])
                                         /\ sub.origin[1] = reply_data[e].handler_id
      BY <1>1, <2>2, OfSetter
    <3>2. Handling(reply_data[e], result'.kind) = {}
      BY <1>1, <1>2, <1>4, <3>1, ArmsOf DEF ArmsComplete
    <3> QED BY <1>1, <1>2, <3>1, <3>2, EntryDeclares
  <2>4. tx' # "failed" => NotSwallowed(methods, d)
    BY <2>1 DEF NotSwallowed
  <2>5. tx' \in {"running", "failed"} /\ tx # "compile" /\ tx # "failed"
    BY <1>1, <2>1
  <2> QED BY <1>1, <2>1, <2>2, <2>3, <2>4, <2>5, DoneWith
<1> QED BY <1>3, <1>4

\* The entry an id is matched with, and the method its arm finds.
LEMMA Matched ==
  ASSUME DispatchInv, Replying, Known
  PROVE  /\ Head(subs).id + 1 \in DOMAIN reply_data
         /\ Handlings # {} => /\ \E k \in Handlings : Handler = Entry.handlers[k]
                              /\ methods[Handler.method].reply_on = Handler.reply_on
                              /\ Handler.reply_on \in {result.kind, "always"}
                              /\ PassesData <=> HasData(methods[Handler.method])
<1> DEFINE sub == Head(subs)
           e == sub.id + 1
<1>1. /\ TableInv /\ Accepted /\ DataForwarded /\ subs # <<>> /\ result \in Outcomes
      /\ subs \in Seq(Setters \cup ByHand)
  BY DEF DispatchInv, Replying
<1>2. reply_data \in Seq(Entries)
  BY <1>1, TableEnds DEF Accepted, Tabled
<1>3. result.kind \in {"success", "error"}
  BY <1>1 DEF Outcomes
<1>4. sub.id \in Nat
  <2>1. sub \in Setters \cup ByHand
    BY <1>1
  <2>2. CASE sub \in Setters
    <3>1. PICK f \in DOMAIN reply_data : sub.id = f - 1
      BY <2>2 DEF Setters, BySetter
    <3>2. f \in 1..Len(reply_data)
      BY <1>2
    <3> QED BY <3>1, <3>2
  <2>3. CASE sub \in ByHand
    BY <2>3, ManualIdsAssumption DEF ByHand
  <2> QED BY <2>1, <2>2, <2>3
<1>5. e \in DOMAIN reply_data
  <2>1. sub.id < Len(reply_data) /\ Len(reply_data) \in Nat /\ DOMAIN reply_data = 1..Len(reply_data)
    BY <1>2 DEF Known
  <2> QED BY <1>4, <2>1
<1>6. Handlings = Handling(reply_data[e], result.kind) /\ Handler = Found(reply_data[e], result.kind)
      /\ Entry = reply_data[e]
  BY DEF Handlings, Handler, Entry
<1> HIDE DEF e
<1>7. ASSUME Handlings # {}
      PROVE  /\ \E k \in Handlings : Handler = Entry.handlers[k]
             /\ methods[Handler.method].reply_on = Handler.reply_on
             /\ Handler.reply_on \in {result.kind, "always"}
             /\ PassesData <=> HasData(methods[Handler.method])
  <2>1. /\ \E k \in Handlings : Handler = Entry.handlers[k]
        /\ methods[Handler.method].reply_on = Handler.reply_on
        /\ Handler.reply_on \in {result.kind, "always"}
    BY <1>1, <1>3, <1>5, <1>6, <1>7, FoundIsHandler
  <2>2. Handler.reply_on = "success" => Entry.data = DataField(methods[Handler.method])
    <3>1. PICK k \in DOMAIN Entry.handlers : Handler = Entry.handlers[k]
      BY <1>6, <2>1 DEF Handling
    <3> QED BY <1>1, <1>5, <1>6, <3>1 DEF DataForwarded
  <2>3. DataField(methods[Handler.method]) # <<>> <=> HasData(methods[Handler.method])
    BY DEF DataField
  <2>4. HasData(methods[Handler.method]) => Handler.reply_on = "success"
    BY <2>1 DEF HasData
  <2>5. PassesData <=> Handler.reply_on = "success" /\ Entry.data # <<>>
    BY DEF PassesData
  <2> QED BY <2>1, <2>2, <2>3, <2>4, <2>5
<1> QED BY <1>5, <1>7 DEF e

\* The reply of a generated submessage is dispatched to its arm, and its payload is read.
LEMMA SetterReplied ==
  ASSUME DispatchInv, Replying, Head(subs).origin # <<>>
  PROVE  /\ Known /\ Handlings # {}
         /\ Deserializes(Entry.payload, Head(subs).payload)
         /\ Deserialize(Entry.payload, Head(subs).payload) = Head(subs).origin[2]
         /\ Handler.method \in Declared(methods, Head(subs).origin[1], result.kind)
<1> DEFINE sub == Head(subs)
<1>1. /\ TableInv /\ Accepted /\ subs # <<>> /\ result \in Outcomes
      /\ subs \in Seq(Setters \cup ByHand) /\ sub.reply_on \in {result.kind, "always"}
  BY DEF DispatchInv, Replying
<1>2. result.kind \in {"success", "error"}
  BY <1>1 DEF Outcomes
<1>3. sub \in Setters \cup ByHand
  BY <1>1
<1> HIDE DEF sub
<1>4. PICK e, args :
        /\ e \in DOMAIN reply_data /\ args \in Arguments(reply_data[e].payload)
        /\ sub.id + 1 = e /\ sub.id < Len(reply_data)
        /\ sub.reply_on = CwReplyOn(reply_data[e])
        /\ sub.payload = Serialize(reply_data[e].payload, args)
        /\ sub.origin = <<reply_data[e].handler_id, args>>
  BY <1>1, <1>3, OfSetter DEF sub
<1>5. Entry = reply_data[e] /\ Known /\ Handlings = Handling(reply_data[e], result.kind)
  BY <1>4 DEF Entry, Known, Handlings, sub
<1>6. Handlings # {}
  BY <1>1, <1>2, <1>4, <1>5, ArmsOf DEF ArmsComplete
<1>7. /\ Deserializes(reply_data[e].payload, sub.payload)
      /\ Deserialize(reply_data[e].payload, sub.payload) = args
  BY <1>4, PayloadArrives
<1>8. Handler.method \in Declared(methods, reply_data[e].handler_id, result.kind)
  <2>1. \E k \in Handlings : Handler = Entry.handlers[k]
    BY <1>5, <1>6, Matched
  <2>2. Declared(methods, reply_data[e].handler_id, result.kind)
          = {reply_data[e].handlers[k].method : k \in Handling(reply_data[e], result.kind)}
    BY <1>1, <1>2, <1>4, EntryDeclares
  <2> QED BY <1>5, <2>1, <2>2
<1> QED BY <1>4, <1>5, <1>6, <1>7, <1>8 DEF sub

LEMMA ReplyKeeps ==
  ASSUME DispatchInv, Reply
  PROVE  DispatchInv'
<1> DEFINE sub == Head(subs)
<1>1. /\ Replying /\ tx = "replying" /\ subs # <<>> /\ result \in Outcomes
      /\ subs \in Seq(Setters \cup ByHand) /\ Tail(subs) \in Seq(Setters \cup ByHand)
  BY DEF DispatchInv, Replying, Reply, UnknownId, ForwardOk, ForwardError, BadPayload, BadData, Handle
<1>2. ASSUME NEW why, Fail(why), AsDeclared(methods, [sub |-> sub, result |-> result, how |-> [via |-> why]])
      PROVE  DispatchInv'
  <2>1. /\ tx' = "failed" /\ subs' = Tail(subs) /\ UNCHANGED tvars /\ result' = result
        /\ Record([via |-> why])
    BY <1>2 DEF Fail
  <2> QED BY <1>1, <1>2, <2>1, DoneWith
<1>3. CASE sub.origin = <<>> /\ ~Handle /\ ~ForwardOk
  <2>1. \A how : AsDeclared(methods, [sub |-> sub, result |-> result, how |-> how])
    BY <1>3 DEF AsDeclared
  <2> QED BY <1>2, <1>3, <2>1 DEF Reply, UnknownId, ForwardError, BadPayload, BadData
<1>4. CASE sub.origin # <<>> /\ ~Handle /\ ~ForwardOk
  <2>1. BadData
    BY <1>1, <1>4, SetterReplied DEF Reply, UnknownId, ForwardError, BadPayload
  <2>2. PassesData /\ Fail("bad_data")
    BY <2>1 DEF BadData
  <2>3. /\ Known /\ Handlings # {} /\ Handler.method \in Declared(methods, sub.origin[1], result.kind)
    BY <1>1, <1>4, SetterReplied
  <2>4. HasData(methods[Handler.method])
    BY <1>1, <2>2, <2>3, Matched
  <2>5. AsDeclared(methods, [sub |-> sub, result |-> result, how |-> [via |-> "bad_data"]])
    BY <2>3, <2>4 DEF AsDeclared
  <2> QED BY <1>2, <2>2, <2>5
<1>5. CASE ForwardOk
  <2> DEFINE how == [via |-> "forward", data |-> result.data]
             d == [sub |-> sub, result |-> result, how |-> how]
  <2>1. /\ Handlings = {} /\ result.kind = "success" /\ tx' = "running" /\ subs' = Tail(subs)
        /\ UNCHANGED tvars /\ result' = result /\ Record(how)
    BY <1>5 DEF ForwardOk
  <2>2. sub.origin = <<>>
    BY <1>1, <2>1, SetterReplied
  <2>3. AsDeclared(methods, d) /\ NotSwallowed(methods, d)
    BY <2>1, <2>2 DEF AsDeclared, NotSwallowed
  <2> HIDE DEF how
  <2> QED BY <1>1, <2>1, <2>3, DoneWith
<1>6. CASE Handle
  <2> DEFINE how == Call(Deserialize(Entry.payload, sub.payload))
             d == [sub |-> sub, result |-> result, how |-> how]
  <2>1. /\ Known /\ Handlings # {} /\ UNCHANGED tvars /\ result' = result /\ Record(how)
        /\ tx' \in {"running", "failed"}
    BY <1>6 DEF Handle
  <2>2. subs' \in Seq(Setters \cup ByHand)
    <3>1. CASE subs' = Tail(subs)
      BY <1>1, <3>1
    <3>2. ASSUME NEW s \in Setters, subs' = <<s>> \o Tail(subs) PROVE subs' \in Seq(Setters \cup ByHand)
      BY <1>1, <3>2
    <3> QED BY <1>6, <3>1, <3>2 DEF Handle
  <2>3. /\ methods[Handler.method].reply_on = Handler.reply_on
        /\ Handler.reply_on \in {result.kind, "always"}
        /\ PassesData <=> HasData(methods[Handler.method])
    BY <1>1, <2>1, Matched
  <2>4. /\ how.via = "call" /\ how.method = Handler.method
        /\ how.payload = Deserialize(Entry.payload, sub.payload)
        /\ how.first = "data" <=> Handler.reply_on = "success" /\ PassesData
    <3>1. Handler.reply_on # "data"
      BY <1>1, <2>3 DEF Outcomes
    <3> QED BY <3>1 DEF Call
  <2>5. PassesData => Handler.reply_on = "success"
    BY DEF PassesData
  <2> HIDE DEF how
  <2>6. AsDeclared(methods, d)
    BY <1>1, <2>3, <2>4, <2>5, SetterReplied DEF AsDeclared
  <2>7. NotSwallowed(methods, d)
    BY <2>3, <2>4 DEF NotSwallowed
  <2> QED BY <1>1, <2>1, <2>2, <2>6, <2>7, DoneWith
<1> QED BY <1>3, <1>4, <1>5, <1>6

LEMMA StartKeeps ==
  ASSUME DispatchInv, Start
  PROVE  DispatchInv'
<1>1. /\ tx = "compile" /\ Accepted /\ DataForwarded /\ tx' = "running" /\ log = <<>> /\ log' = log
      /\ UNCHANGED tvars
  BY DEF Start, Compiles, DispatchInv
<1>2. methods' = methods /\ Setters' = Setters /\ TableInv' /\ Accepted' /\ DataForwarded' /\ ByHand' = ByHand
  BY <1>1, TableStays DEF ByHand, DispatchInv
<1>3. PICK n \in 1..MaxSubs : subs' \in [1..n -> Setters \cup ByHand]
  BY DEF Start
<1>4. subs' \in Seq(Setters \cup ByHand)
  <2>1. n \in Nat
    BY ManualIdsAssumption
  <2> QED BY <1>3, <2>1
<1>5. ToSet(<<>>) = {}
  BY DEF ToSet
<1> QED BY <1>1, <1>2, <1>4, <1>5 DEF DispatchInv

LEMMA DispatchNext == DispatchInv /\ [Next]_vars => DispatchInv'
<1> SUFFICES ASSUME DispatchInv, [Next]_vars PROVE DispatchInv'
  OBVIOUS
<1>1. CASE Compile
  <2>1. tx = "compile" /\ subs = <<>> /\ log = <<>> /\ UNCHANGED rvars
    BY <1>1 DEF Compile, DispatchInv
  <2>2. TableInv'
    BY <1>1, TableNext DEF Compile, DispatchInv
  <2>3. ToSet(<<>>) = {}
    BY DEF ToSet
  <2> QED BY <2>1, <2>2, <2>3 DEF DispatchInv, rvars
<1>2. CASE Start
  BY <1>2, StartKeeps
<1>3. CASE Execute
  BY <1>3, ExecuteKeeps
<1>4. CASE Reply
  BY <1>4, ReplyKeeps
<1>5. CASE Commit \/ UNCHANGED vars
  <2>1. /\ UNCHANGED tvars /\ subs' = subs /\ result' = result /\ log' = log
        /\ tx' = tx \/ (tx = "running" /\ tx' = "committed")
    BY <1>5 DEF Commit, vars, rvars
  <2>2. methods' = methods /\ Setters' = Setters /\ TableInv' /\ (Accepted => Accepted')
        /\ (DataForwarded => DataForwarded') /\ ByHand' = ByHand
    BY <2>1, TableStays DEF ByHand, DispatchInv
  <2>3. (\A x \in ToSet(log) : AsDeclared(methods, x))'
    BY <2>1, <2>2 DEF DispatchInv, AsDeclared, Declared
  <2>4. (tx # "failed" => \A x \in ToSet(log) : NotSwallowed(methods, x))'
    BY <2>1, <2>2 DEF DispatchInv, NotSwallowed
  <2>5. (subs \in Seq(Setters \cup ByHand))' /\ (log \in Seq(ToSet(log)))'
    BY <2>1, <2>2 DEF DispatchInv
  <2> QED BY <2>1, <2>2, <2>3, <2>4, <2>5 DEF DispatchInv
<1> QED BY <1>1, <1>2, <1>3, <1>4, <1>5 DEF Next, Ended

LEMMA DispatchInvariance == Spec => []DispatchInv
<1>1. Init => DispatchInv
  <2>1. ToSet(<<>>) = {}
    BY DEF ToSet
  <2> QED BY <2>1, TableInitial DEF Init, DispatchInv
<1> QED BY <1>1, DispatchNext, PTL DEF Spec

\* A submessage of a generated method ends in the method declared for its handler and
\* outcome, with its payload, or with the chain if there is none (dispatch_reply).
THEOREM RepliesReachTheirMethod == Spec => []HandledAsDeclared
<1>1. DispatchInv => HandledAsDeclared
  <2> SUFFICES ASSUME DispatchInv, NEW k \in DOMAIN log PROVE AsDeclared(methods, log[k])
    BY DEF HandledAsDeclared, AsDeclared, Declared, DeclaredFor
  <2>1. log[k] \in ToSet(log)
    BY DEF ToSet
  <2> QED BY <2>1 DEF DispatchInv
<1> QED BY <1>1, DispatchInvariance, PTL

\* No transaction commits with an error that no method has been called for.
THEOREM ErrorsSurface == Spec => []ErrorsNotSwallowed
<1>1. DispatchInv => ErrorsNotSwallowed
  <2> SUFFICES ASSUME DispatchInv, tx = "committed", NEW k \in DOMAIN log PROVE NotSwallowed(methods, log[k])
    BY DEF ErrorsNotSwallowed, NotSwallowed
  <2>1. log[k] \in ToSet(log)
    BY DEF ToSet
  <2> QED BY <2>1 DEF DispatchInv
<1> QED BY <1>1, DispatchInvariance, PTL
=============================================================================
