------------------------ MODULE CommandEngineProofs ------------------------
(***************************************************************************)
(* Proofs about the command engine, for every set of entities, commands    *)
(* and batches and every bound: type correctness, that the mirror loops    *)
(* cannot panic, that memory covers the table between calls; and, where no *)
(* command names a parent, that journal, stacks and table tell one history *)
(* of the project, which is a timeline.                                    *)
(***************************************************************************)
EXTENDS EngineHistory, SequenceTheorems, WellFoundedInduction, TLAPS

-----------------------------------------------------------------------------
(* The graph's operators.                                                  *)

(* A present id has a record.                                              *)
LEMMA PresentRecord ==
  ASSUME NEW g \in Graph, NEW e \in Present(g)
  PROVE  e \in Entity /\ g[e] \in EntityRecord
  BY DEF Graph, Present

(* Applying a delta that applies to a graph gives a graph.                 *)
LEMMA ApplyType ==
  ASSUME NEW g \in Graph, NEW d \in EntityDelta, Applies(g, d)
  PROVE  Apply(g, d) \in Graph
<1>1. CASE d \in CreateDelta
  BY <1>1 DEF CreateDelta, Apply, Graph
<1>2. CASE d \in DeleteDelta
  BY <1>2 DEF DeleteDelta, Apply, Graph
<1>3. CASE d \in UpdateDelta
  <2>1. /\ d.op = "update" /\ d.id \in Entity /\ d.after \in Body
        /\ g[d.id] \in EntityRecord
    BY <1>3 DEF UpdateDelta, Applies, Graph
  <2>2. [g[d.id] EXCEPT !.body = d.after] \in EntityRecord
    BY <2>1 DEF EntityRecord
  <2> QED  BY <2>1, <2>2 DEF Apply, Graph
<1> QED  BY <1>1, <1>2, <1>3 DEF EntityDelta

(* Writing a delta that the table accepts gives a table.                   *)
LEMMA PersistType ==
  ASSUME NEW t \in Graph, NEW d \in EntityDelta, Persists(t, d)
  PROVE  Persist(t, d) \in Graph
  BY ApplyType DEF Persists, Persist, Graph

(* A DELETE removes at least the row it names.                             *)
LEMMA CascadeRoot ==
  ASSUME NEW t, NEW e \in Entity
  PROVE  e \in Cascade(t, e)
  BY DEF Cascade

(* The same delta, applied in memory and written to the table, keeps the   *)
(* memory covering the table: what a DELETE cascades to only ever leaves   *)
(* the table.                                                              *)
LEMMA CoversStep ==
  ASSUME NEW g \in Graph, NEW t \in Graph, NEW d \in EntityDelta,
         Covers(g, t), Applies(g, d), Persists(t, d)
  PROVE  Covers(Apply(g, d), Persist(t, d))
<1>1. CASE d \in CreateDelta
  BY <1>1 DEF CreateDelta, Covers, Present, Apply, Persist, Graph
<1>2. CASE d \in DeleteDelta
  <2>1. d.op = "delete" /\ d.id \in Entity
    BY <1>2 DEF DeleteDelta
  <2>2. d.id \in Cascade(t, d.id)
    BY <2>1, CascadeRoot
  <2> QED  BY <2>1, <2>2 DEF Covers, Present, Apply, Persist, Graph
<1>3. CASE d \in UpdateDelta
  <2>1. d.op = "update" /\ d.id \in Entity
    BY <1>3 DEF UpdateDelta
  <2>2. t[d.id] # Absent /\ g[d.id] = t[d.id]
    BY <2>1 DEF Persists, Applies, Covers, Present
  <2> QED  BY <2>1, <2>2 DEF Covers, Present, Apply, Persist, Graph
<1> QED  BY <1>1, <1>2, <1>3 DEF EntityDelta

-----------------------------------------------------------------------------
(* The engine's operators.                                                 *)

(* A sequence of given length whose elements are in S.                     *)
LEMMA ListOf ==
  ASSUME NEW S, NEW n \in Nat, NEW f \in [1 .. n -> S]
  PROVE  f \in Seq(S) /\ Len(f) = n
  BY IsASeq, LenProperties

(* One-element sequences.                                                  *)
LEMMA Singleton ==
  ASSUME NEW S, NEW x \in S
  PROVE  <<x>> \in Seq(S)
  OBVIOUS

(* The inverse of a delta is a delta.                                      *)
LEMMA InvertType ==
  ASSUME NEW d \in EntityDelta
  PROVE  Invert(d) \in EntityDelta
  BY DEF EntityDelta, CreateDelta, DeleteDelta, UpdateDelta, Invert, Create, Delete, Update

LEMMA InvertAllType ==
  ASSUME NEW ds \in Seq(EntityDelta)
  PROVE  InvertAll(ds) \in Seq(EntityDelta)
<1>1. \A i \in 1 .. Len(ds) : ds[Len(ds) + 1 - i] \in EntityDelta
  OBVIOUS
<1>2. \A i \in 1 .. Len(ds) : Invert(ds[Len(ds) + 1 - i]) \in EntityDelta
  BY <1>1, InvertType
<1>3. InvertAll(ds) \in [1 .. Len(ds) -> EntityDelta]
  BY <1>2 DEF InvertAll
<1> QED  BY <1>3, ListOf

(* What compute_deltas returns for a command it accepts is a list of       *)
(* deltas.                                                                 *)
LEMMA DeltasType ==
  ASSUME NEW g \in Graph, NEW c \in Command, Computes(g, c)
  PROVE  Deltas(g, c) \in Seq(EntityDelta)
<1> DEFINE record(kind, parent) == [kind |-> kind, parent |-> parent, body |-> c.body]
<1>1. c \in TypedCommand /\ {"wall", "door", "primitive"} \subseteq Kind
  BY EngineAssumption
<1>2. CASE c.tool \in {"create", "draw", "copy", "place"}
  <2>1. c.id \in Entity /\ c.body \in Body /\ (c.tool = "place" => c.host \in Host)
    BY <1>1, <1>2 DEF TypedCommand
  <2>2. \A k \in Kind, p \in Host \cup {NoParent} :
          Create(c.id, record(k, p)) \in EntityDelta
    BY <2>1 DEF Create, EntityDelta, CreateDelta, EntityRecord
  <2>3. \E k \in Kind, p \in Host \cup {NoParent} :
          Deltas(g, c) = <<Create(c.id, record(k, p))>>
    <3>1. CASE c.tool = "create"
      BY <3>1, <1>1 DEF Deltas
    <3>2. CASE c.tool = "place"
      BY <3>2, <1>1, <2>1 DEF Deltas
    <3>3. CASE c.tool \in {"draw", "copy"}
      BY <3>3, <1>1 DEF Deltas
    <3> QED  BY <1>2, <3>1, <3>2, <3>3
  <2> QED  BY <2>2, <2>3, Singleton
<1>3. CASE c.tool = "modify"
  <2>1. c.id \in Entity /\ c.body \in Body /\ g[c.id] \in EntityRecord
    BY <1>1, <1>3, PresentRecord DEF TypedCommand, Computes
  <2>2. Update(c.id, g[c.id].body, c.body) \in EntityDelta
    BY <2>1 DEF Update, EntityDelta, UpdateDelta, EntityRecord
  <2>3. Deltas(g, c) = <<Update(c.id, g[c.id].body, c.body)>>
    BY <1>3 DEF Deltas
  <2> QED  BY <2>2, <2>3, Singleton
<1>4. CASE c.tool = "delete"
  <2>1. c.id \in Entity /\ g[c.id] \in EntityRecord
    BY <1>1, <1>4, PresentRecord DEF TypedCommand, Computes
  <2>2. Delete(c.id, g[c.id]) \in EntityDelta
    BY <2>1 DEF Delete, EntityDelta, DeleteDelta
  <2>3. Deltas(g, c) = <<Delete(c.id, g[c.id])>>
    BY <1>4 DEF Deltas
  <2> QED  BY <2>2, <2>3, Singleton
<1>5. CASE c.tool = "edit"
  <2>1. c.ids \in Seq(Entity) /\ c.body \in Body /\ ArePrimitives(g, c.ids)
    BY <1>1, <1>5 DEF TypedCommand, Computes
  <2>2. ASSUME NEW i \in DOMAIN c.ids
        PROVE  Update(c.ids[i], g[c.ids[i]].body, c.body) \in EntityDelta
    <3>1. g[c.ids[i]] \in EntityRecord
      BY <2>1, PresentRecord DEF ArePrimitives
    <3> QED  BY <3>1, <2>1 DEF Update, EntityDelta, UpdateDelta, EntityRecord
  <2>3. DOMAIN c.ids = 1 .. Len(c.ids) /\ Len(c.ids) \in Nat
    BY <2>1
  <2>4. Deltas(g, c) \in [1 .. Len(c.ids) -> EntityDelta]
    BY <1>5, <2>2, <2>3 DEF Deltas
  <2> QED  BY <2>3, <2>4, ListOf
<1>6. CASE c.tool = "set_lighting"
  BY <1>6 DEF Deltas
<1> QED  BY <1>1, <1>2, <1>3, <1>4, <1>5, <1>6 DEF TypedCommand

(* The journal rows after a record, an undo or a redo.                     *)
LEMMA PersistRecordType ==
  ASSUME NEW rs \in Seq(Row), NEW entry \in JournalEntry
  PROVE  PersistRecord(rs, entry) \in Seq(Row)
<1> DEFINE kept == [i \in DOMAIN rs |->
                      IF rs[i].live /\ rs[i].superseded THEN NoRow ELSE rs[i]]
           new == [live |-> TRUE, superseded |-> FALSE, entry |-> entry]
<1>1. kept \in [1 .. Len(rs) -> Row]
  <2>1. NoRow \in Row
    BY DEF Row
  <2>2. \A i \in 1 .. Len(rs) : rs[i] \in Row
    OBVIOUS
  <2> QED  BY <2>1, <2>2
<1>2. kept \in Seq(Row)
  BY <1>1, ListOf
<1>3. new \in Row
  BY DEF Row
<1>4. PersistRecord(rs, entry) = Append(kept, new)
  BY DEF PersistRecord
<1> QED  BY <1>2, <1>3, <1>4

LEMMA PersistFlagType ==
  ASSUME NEW rs \in Seq(Row), NEW cid \in Nat, NEW flag \in BOOLEAN
  PROVE  PersistFlag(rs, cid, flag) \in Seq(Row)
<1>1. ASSUME NEW i \in 1 .. Len(rs), IsMaximum(i, RowsOf(rs, cid, ~flag))
      PROVE  [rs[i] EXCEPT !.superseded = flag] \in Row
  <2>1. rs[i] \in Row /\ rs[i].live
    BY <1>1 DEF IsMaximum, RowsOf
  <2>2. NoRow.live = FALSE
    BY DEF NoRow
  <2>3. rs[i] # NoRow
    BY <2>1, <2>2
  <2>4. rs[i] \in [live: {TRUE}, superseded: BOOLEAN, entry: JournalEntry]
    BY <2>1, <2>3 DEF Row
  <2>5. [rs[i] EXCEPT !.superseded = flag]
          \in [live: {TRUE}, superseded: BOOLEAN, entry: JournalEntry]
    BY <2>4
  <2> QED  BY <2>5 DEF Row
<1>2. PersistFlag(rs, cid, flag) \in [1 .. Len(rs) -> Row]
  <2>1. DOMAIN rs = 1 .. Len(rs) /\ \A i \in 1 .. Len(rs) : rs[i] \in Row
    OBVIOUS
  <2> QED  BY <1>1, <2>1 DEF PersistFlag
<1> QED  BY <1>2, ListOf

(* The locals of a call that starts.                                       *)
LEMMA NewCallType ==
  ASSUME NEW op \in {"record", "undo", "redo"}, NEW cid \in Nat,
         NEW todo \in Seq(Command), NEW pending \in Seq(EntityDelta),
         NEW g \in Graph
  PROVE  NewCall(op, cid, todo, pending, g) \in Calls
<1>1. EmptyGraph \in Graph
  BY DEF EmptyGraph, Graph
<1>2. <<g>> \in Seq(Graph)
  BY Singleton
<1> QED  BY <1>1, <1>2 DEF NewCall, Calls

LEMMA NoCallType == NoCall \in Calls
<1>1. EmptyGraph \in Graph
  BY DEF EmptyGraph, Graph
<1>2. <<>> \in Seq(Command) /\ <<>> \in Seq(EntityDelta)
  BY EmptySeq
<1> QED  BY <1>1, <1>2, NewCallType DEF NoCall

(* Changing the parts of a call that the walk, and the transaction, change. *)
LEMMA WalkedType ==
  ASSUME NEW c \in Calls, NEW pending \in Seq(EntityDelta),
         NEW walked \in Seq(EntityDelta), NEW trail \in Seq(Graph)
  PROVE  [c EXCEPT !.pending = pending, !.walked = walked, !.trail = trail] \in Calls
  BY DEF Calls

LEMMA TransactionType ==
  ASSUME NEW c \in Calls, NEW t \in Graph, NEW rs \in Seq(Row), NEW n \in Nat \ {0}
  PROVE  [c EXCEPT !.txEntities = t, !.txRows = rs, !.pos = n] \in Calls
  BY DEF Calls

LEMMA StatementType ==
  ASSUME NEW c \in Calls, NEW t \in Graph, NEW n \in Nat \ {0}
  PROVE  [c EXCEPT !.txEntities = t, !.pos = n] \in Calls
  BY DEF Calls

(* Moving the loop variable.                                               *)
LEMMA PosType ==
  ASSUME NEW c \in Calls, NEW n \in Nat \ {0}
  PROVE  [c EXCEPT !.pos = n] \in Calls
  BY DEF Calls

(* The journal entry of an execute call.                                   *)
LEMMA NewEntryType == TypeOK => NewEntry \in JournalEntry
<1> SUFFICES ASSUME TypeOK PROVE NewEntry \in JournalEntry
  OBVIOUS
<1>1. call.cid \in Nat /\ scope \in Scope /\ call.walked \in Seq(EntityDelta)
  BY DEF TypeOK, Calls
<1>2. InvertAll(call.walked) \in Seq(EntityDelta)
  BY <1>1, InvertAllType
<1> QED  BY <1>1, <1>2 DEF NewEntry, JournalEntry

-----------------------------------------------------------------------------
(* The inductive invariant.                                                *)

LEMMA InitInvariant == Init => EngineInvariant
<1> SUFFICES ASSUME Init PROVE EngineInvariant
  OBVIOUS
<1>1. EmptyGraph \in Graph
  BY DEF EmptyGraph, Graph
<1>2. TypeOK
  <2>1. <<>> \in Seq(Row) /\ <<>> \in Seq(JournalEntry)
    BY EmptySeq
  <2> QED  BY <1>1, <2>1, NoCallType DEF Init, TypeOK
<1>3. pc = "closed"
  BY DEF Init
<1> QED
  BY <1>2, <1>3 DEF EngineInvariant, TrailIsWalk, TransactionCovered,
     TableCovered, MirrorRetraces, StackHasEntry, MirrorNeverPanics, InCall

(* An error before the commit.                                             *)
LEMMA RefuseInvariant ==
  EngineInvariant /\ pc \in {"walk", "tx", "commit"} /\ Refuse => EngineInvariant'
<1> SUFFICES ASSUME EngineInvariant, pc \in {"walk", "tx", "commit"}, Refuse
             PROVE  EngineInvariant'
  OBVIOUS
<1>1. /\ pc' = "idle" /\ call' = NoCall
      /\ UNCHANGED <<entities, rows, scope, graph, undo, redo, issued, reopens, reordered>>
  BY DEF Refuse, disk, memory, history
<1>2. TypeOK'
  BY <1>1, NoCallType DEF EngineInvariant, TypeOK
<1>3. Covers(graph, entities)'
  BY <1>1 DEF EngineInvariant, TableCovered, Covers, Present
<1> QED
  BY <1>1, <1>2, <1>3 DEF EngineInvariant, TrailIsWalk, TransactionCovered,
     TableCovered, MirrorRetraces, StackHasEntry, MirrorNeverPanics, InCall

(* Opening, dropping and changing the scope of the engine.                 *)
LEMMA SessionInvariant ==
  ASSUME EngineInvariant,
         (\E s \in Scope : Open(s) \/ SetActiveScope(s)) \/ LoadRow \/ Opened \/ Drop
  PROVE  EngineInvariant'
<1> USE DEF disk, memory, history
<1>1. CASE \E s \in Scope : Open(s)
  <2>1. TypeOK'
    BY <1>1, NoCallType DEF Open, EngineInvariant, TypeOK
  <2>2. pc' = "load" /\ graph' = entities'
    BY <1>1 DEF Open
  <2> QED
    BY <2>1, <2>2 DEF EngineInvariant, TrailIsWalk, TransactionCovered,
       TableCovered, MirrorRetraces, StackHasEntry, MirrorNeverPanics, InCall, Covers
<1>2. CASE \E s \in Scope : SetActiveScope(s)
  <2>1. TypeOK'
    BY <1>2 DEF SetActiveScope, EngineInvariant, TypeOK
  <2>2. pc = "idle" /\ pc' = pc /\ graph' = graph /\ entities' = entities
    BY <1>2 DEF SetActiveScope
  <2> QED
    BY <2>1, <2>2 DEF EngineInvariant, TrailIsWalk, TransactionCovered, TableCovered,
       MirrorRetraces, StackHasEntry, MirrorNeverPanics, InCall, Covers, Present
<1>3. CASE LoadRow
  <2>1. pc = "load" /\ pc' = pc /\ graph' = graph /\ entities' = entities
    BY <1>3 DEF LoadRow
  <2>2. /\ call.pos \in 1 .. Len(rows) /\ rows[call.pos] \in Row
        /\ call.pos + 1 \in Nat \ {0}
        /\ undo \in Seq(JournalEntry) /\ redo \in Seq(JournalEntry)
    <3>1. call.pos <= Len(rows)
      BY <1>3 DEF LoadRow
    <3>2. /\ call \in Calls /\ rows \in Seq(Row)
          /\ undo \in Seq(JournalEntry) /\ redo \in Seq(JournalEntry)
      BY DEF EngineInvariant, TypeOK
    <3>3. call.pos \in Nat \ {0}
      BY <3>2 DEF Calls
    <3>4. PICK p \in Nat \ {0}, n \in Nat : p = call.pos /\ n = Len(rows)
      BY <3>2, <3>3, LenProperties
    <3>5. p \in 1 .. n /\ p + 1 \in Nat \ {0}
      BY <3>1, <3>4
    <3>6. rows[p] \in Row
      BY <3>2, <3>4, <3>5, ElementOfSeq
    <3> QED  BY <3>2, <3>4, <3>5, <3>6
  <2>3. undo' \in Seq(JournalEntry) /\ redo' \in Seq(JournalEntry)
    <3> DEFINE row == rows[call.pos]
    <3>0. IF ~row.live
          THEN undo' = undo /\ redo' = redo
          ELSE IF row.superseded
               THEN redo' = Append(redo, row.entry) /\ undo' = undo
               ELSE undo' = Append(undo, row.entry) /\ redo' = redo
      BY <1>3 DEF LoadRow
    <3>1. CASE ~rows[call.pos].live
      BY <2>2, <3>0, <3>1
    <3>2. CASE rows[call.pos].live
      <4>1. NoRow.live = FALSE
        BY DEF NoRow
      <4>2. rows[call.pos] # NoRow
        BY <3>2, <4>1
      <4>3. rows[call.pos].entry \in JournalEntry
        BY <2>2, <4>2 DEF Row
      <4>4. CASE row.superseded
        <5>1. redo' = Append(redo, row.entry) /\ undo' = undo
          BY <3>0, <3>2, <4>4
        <5> QED  BY <2>2, <4>3, <5>1
      <4>5. CASE ~row.superseded
        <5>1. undo' = Append(undo, row.entry) /\ redo' = redo
          BY <3>0, <3>2, <4>5
        <5> QED  BY <2>2, <4>3, <5>1
      <4> QED  BY <4>4, <4>5
    <3> QED  BY <3>1, <3>2
  <2>4. call' \in Calls
    <3>1. call' = [call EXCEPT !.pos = @ + 1] /\ call \in Calls
      BY <1>3 DEF LoadRow, EngineInvariant, TypeOK
    <3> QED  BY <2>2, <3>1, PosType
  <2>5. TypeOK'
    BY <1>3, <2>1, <2>3, <2>4 DEF LoadRow, EngineInvariant, TypeOK
  <2> QED
    BY <2>1, <2>5 DEF EngineInvariant, TrailIsWalk, TransactionCovered, TableCovered,
       MirrorRetraces, StackHasEntry, MirrorNeverPanics, InCall, Covers, Present
<1>4. CASE Opened
  <2>1. pc = "load" /\ pc' = "idle" /\ graph' = graph /\ entities' = entities
    BY <1>4 DEF Opened
  <2>2. TypeOK'
    BY <1>4, NoCallType DEF Opened, EngineInvariant, TypeOK
  <2> QED
    BY <2>1, <2>2 DEF EngineInvariant, TrailIsWalk, TransactionCovered, TableCovered,
       MirrorRetraces, StackHasEntry, MirrorNeverPanics, InCall, Covers, Present
<1>5. CASE Drop
  <2>1. EmptyGraph \in Graph
    BY DEF EmptyGraph, Graph
  <2>2. pc' = "closed" /\ TypeOK'
    BY <1>5, <2>1, NoCallType DEF Drop, EngineInvariant, TypeOK
  <2> QED
    BY <2>2 DEF EngineInvariant, TrailIsWalk, TransactionCovered,
       TableCovered, MirrorRetraces, StackHasEntry, MirrorNeverPanics, InCall
<1> QED  BY <1>1, <1>2, <1>3, <1>4, <1>5

(* A call that starts has walked nothing.                                  *)
LEMMA BeginInvariant ==
  ASSUME EngineInvariant,
         NEW op \in {"record", "undo", "redo"}, NEW cid \in Nat,
         NEW todo \in Seq(Command), NEW pending \in Seq(EntityDelta),
         Begin(NewCall(op, cid, todo, pending, graph)), issued' \in Nat,
         op = "undo" => undo # <<>>, op = "redo" => redo # <<>>
  PROVE  EngineInvariant'
<1>1. /\ pc = "idle" /\ pc' = "walk" /\ call' = NewCall(op, cid, todo, pending, graph)
      /\ UNCHANGED <<entities, rows, scope, graph, undo, redo, reopens, reordered>>
  BY DEF Begin, disk, memory
<1>2. TypeOK'
  BY <1>1, NewCallType DEF EngineInvariant, TypeOK
<1>3. /\ call'.op = op /\ call'.walked = <<>> /\ call'.trail = <<graph>>
      /\ Len(call'.walked) = 0 /\ Len(call'.trail) = 1 /\ call'.trail[1] = graph
  BY <1>1 DEF NewCall
<1>4. TrailIsWalk'
  BY <1>1, <1>3 DEF TrailIsWalk
<1>5. TableCovered'
  BY <1>1 DEF EngineInvariant, TableCovered, Covers, Present
<1>6. StackHasEntry'
  BY <1>1, <1>3 DEF StackHasEntry
<1> QED
  BY <1>1, <1>2, <1>4, <1>5, <1>6 DEF EngineInvariant, TransactionCovered,
     MirrorRetraces, MirrorNeverPanics

(* The four calls that start so.                                           *)
LEMMA StartInvariant ==
  ASSUME EngineInvariant,
         \/ \E c \in Command : ExecutePersistent(c)
         \/ \E cs \in Batch : ExecutePersistentBatch(cs)
         \/ UndoPersistent \/ RedoPersistent
  PROVE  EngineInvariant'
<1>1. /\ issued \in Nat /\ undo \in Seq(JournalEntry) /\ redo \in Seq(JournalEntry)
      /\ <<>> \in Seq(Command) /\ <<>> \in Seq(EntityDelta)
  BY EmptySeq DEF EngineInvariant, TypeOK
<1>2. ASSUME NEW c \in Command, ExecutePersistent(c)
      PROVE  EngineInvariant'
  <2>1. <<c>> \in Seq(Command) /\ issued + 1 \in Nat
    BY <1>1, Singleton
  <2>2. Begin(NewCall("record", issued + 1, <<c>>, <<>>, graph)) /\ issued' = issued + 1
    BY <1>2 DEF ExecutePersistent
  <2> QED  BY <1>1, <2>1, <2>2, BeginInvariant
<1>3. ASSUME NEW cs \in Batch, ExecutePersistentBatch(cs)
      PROVE  EngineInvariant'
  <2>1. cs \in Seq(Command) /\ issued + 1 \in Nat
    BY <1>1, EngineAssumption
  <2>2. Begin(NewCall("record", issued + 1, cs, <<>>, graph)) /\ issued' = issued + 1
    BY <1>3 DEF ExecutePersistentBatch
  <2> QED  BY <1>1, <2>1, <2>2, BeginInvariant
<1>4. CASE UndoPersistent
  <2>1. undo # <<>> /\ Top(undo) \in JournalEntry
    BY <1>1, <1>4 DEF UndoPersistent, Top
  <2>2. Top(undo).cid \in Nat /\ Top(undo).inverse \in Seq(EntityDelta)
    BY <2>1 DEF JournalEntry
  <2>3. /\ Begin(NewCall("undo", Top(undo).cid, <<>>, Top(undo).inverse, graph))
        /\ issued' = issued
    BY <1>4 DEF UndoPersistent
  <2> QED  BY <1>1, <2>1, <2>2, <2>3, BeginInvariant
<1>5. CASE RedoPersistent
  <2>1. redo # <<>> /\ Top(redo) \in JournalEntry
    BY <1>1, <1>5 DEF RedoPersistent, Top
  <2>2. Top(redo).cid \in Nat /\ Top(redo).forward \in Seq(EntityDelta)
    BY <2>1 DEF JournalEntry
  <2>3. /\ Begin(NewCall("redo", Top(redo).cid, <<>>, Top(redo).forward, graph))
        /\ issued' = issued
    BY <1>5 DEF RedoPersistent
  <2> QED  BY <1>1, <2>1, <2>2, <2>3, BeginInvariant
<1> QED  BY <1>2, <1>3, <1>4, <1>5

(* What a walk that is under way satisfies.                                *)
LEMMA WalkFacts ==
  ASSUME EngineInvariant, InCall
  PROVE  /\ call \in Calls /\ call.walked \in Seq(EntityDelta)
         /\ call.pending \in Seq(EntityDelta) /\ call.todo \in Seq(Command)
         /\ call.trail \in Seq(Graph) /\ Len(call.walked) \in Nat
         /\ Len(call.trail) = Len(call.walked) + 1
         /\ Shadow = call.trail[Len(call.walked) + 1] /\ Shadow \in Graph
  BY DEF EngineInvariant, TypeOK, Calls, TrailIsWalk, Shadow, Top

(* Computing the deltas of the next command.                               *)
LEMMA ComputeInvariant ==
  ASSUME EngineInvariant, ComputeDeltas
  PROVE  EngineInvariant'
<1> DEFINE c == Head(call.todo)
           computed == [call EXCEPT !.pending = Deltas(Shadow, c), !.todo = Tail(@)]
<1>1. pc = "walk" /\ call.todo # <<>>
  BY DEF ComputeDeltas
<1>2. /\ call \in Calls /\ Shadow \in Graph
      /\ c \in Command /\ Tail(call.todo) \in Seq(Command)
  BY <1>1, WalkFacts DEF InCall
<1>3. CASE ~Computes(Shadow, c)
  BY <1>1, <1>3, RefuseInvariant DEF ComputeDeltas
<1>4. CASE Computes(Shadow, c)
  <2>1. Proceed("walk", computed)
    BY <1>4 DEF ComputeDeltas
  <2>2. /\ pc' = "walk" /\ call' = computed
        /\ UNCHANGED <<entities, rows, scope, graph, undo, redo, issued, reopens, reordered>>
    BY <2>1 DEF Proceed, disk, memory, history
  <2>3. Deltas(Shadow, c) \in Seq(EntityDelta)
    BY <1>2, <1>4, DeltasType
  <2>4. call' \in Calls
    BY <1>2, <2>2, <2>3 DEF Calls
  <2>5. /\ call'.walked = call.walked /\ call'.trail = call.trail
        /\ call'.pos = call.pos /\ call'.op = call.op
    BY <1>2, <2>2 DEF Calls
  <2>6. TypeOK'
    BY <2>2, <2>4 DEF EngineInvariant, TypeOK
  <2> QED
    BY <1>1, <2>2, <2>5, <2>6 DEF EngineInvariant, TrailIsWalk, TransactionCovered,
       TableCovered, MirrorRetraces, StackHasEntry, MirrorNeverPanics, InCall, Covers, Present
<1> QED  BY <1>3, <1>4

(* Walking one more delta.                                                 *)
LEMMA WalkInvariant ==
  ASSUME EngineInvariant, WalkDelta
  PROVE  EngineInvariant'
<1> DEFINE d == Head(call.pending)
           n == Len(call.walked)
           next == Apply(Shadow, d)
           walkedOn == [call EXCEPT !.pending = Tail(@), !.walked = Append(@, d),
                                    !.trail = Append(@, next)]
<1>1. pc = "walk" /\ call.pending # <<>>
  BY DEF WalkDelta
<1>2. /\ call \in Calls /\ Shadow \in Graph /\ n \in Nat /\ Len(call.trail) = n + 1
      /\ call.walked \in Seq(EntityDelta) /\ call.trail \in Seq(Graph)
      /\ Shadow = call.trail[n + 1]
      /\ d \in EntityDelta /\ Tail(call.pending) \in Seq(EntityDelta)
  BY <1>1, WalkFacts DEF InCall
<1>3. CASE ~Applies(Shadow, d)
  BY <1>1, <1>3, RefuseInvariant DEF WalkDelta
<1>4. CASE Applies(Shadow, d)
  <2>1. Proceed("walk", walkedOn)
    BY <1>4 DEF WalkDelta
  <2>2. /\ pc' = "walk" /\ call' = walkedOn
        /\ UNCHANGED <<entities, rows, scope, graph, undo, redo, issued, reopens, reordered>>
    BY <2>1 DEF Proceed, disk, memory, history
  <2>3. next \in Graph
    BY <1>2, <1>4, ApplyType
  <2>4. call' \in Calls
    <3>1. Append(call.walked, d) \in Seq(EntityDelta) /\ Append(call.trail, next) \in Seq(Graph)
      BY <1>2, <2>3
    <3> QED  BY <1>2, <2>2, <3>1, WalkedType
  <2>5. /\ call'.walked = Append(call.walked, d) /\ call'.trail = Append(call.trail, next)
        /\ call'.op = call.op
    BY <1>2, <2>2 DEF Calls
  <2>6. TypeOK'
    BY <2>2, <2>4 DEF EngineInvariant, TypeOK
  <2>7. TrailIsWalk'
    <3>1. Len(call'.walked) = n + 1 /\ Len(call'.trail) = n + 2
      BY <1>2, <2>3, <2>5
    <3>2. \A k \in 1 .. n : /\ call'.walked[k] = call.walked[k]
                           /\ call'.trail[k] = call.trail[k]
                           /\ call'.trail[k + 1] = call.trail[k + 1]
      BY <1>2, <2>3, <2>5
    <3>3. /\ call'.walked[n + 1] = d /\ call'.trail[n + 1] = Shadow
          /\ call'.trail[n + 2] = next /\ call'.trail[1] = call.trail[1]
      BY <1>2, <2>3, <2>5
    <3>4. ASSUME NEW k \in 1 .. n + 1
          PROVE  /\ Applies(call'.trail[k], call'.walked[k])
                 /\ call'.trail[k + 1] = Apply(call'.trail[k], call'.walked[k])
      <4>1. CASE k = n + 1
        <5>1. n + 1 + 1 = n + 2
          BY <1>2
        <5> QED  BY <1>4, <3>3, <4>1, <5>1
      <4>2. CASE k \in 1 .. n
        <5>1. /\ Applies(call.trail[k], call.walked[k])
              /\ call.trail[k + 1] = Apply(call.trail[k], call.walked[k])
          BY <1>1, <4>2 DEF EngineInvariant, TrailIsWalk, InCall
        <5> QED  BY <3>2, <4>2, <5>1
      <4> QED  BY <1>2, <4>1, <4>2
    <3>5. call.trail[1] = graph
      BY <1>1 DEF EngineInvariant, TrailIsWalk, InCall
    <3>6. n + 2 = n + 1 + 1
      BY <1>2
    <3> QED  BY <2>2, <3>1, <3>3, <3>4, <3>5, <3>6 DEF TrailIsWalk
  <2> QED
    BY <1>1, <2>2, <2>5, <2>6, <2>7 DEF EngineInvariant, TransactionCovered,
       TableCovered, MirrorRetraces, StackHasEntry, MirrorNeverPanics, InCall, Covers, Present
<1> QED  BY <1>3, <1>4

(* The transaction starts from the table, which the graph covers.          *)
LEMMA BeginTransactionInvariant ==
  ASSUME EngineInvariant, BeginTransaction
  PROVE  EngineInvariant'
<1> DEFINE begun == [call EXCEPT !.txEntities = entities, !.txRows = rows, !.pos = 1]
<1>1. /\ pc = "walk" /\ pc' = "tx" /\ call' = begun
      /\ UNCHANGED <<entities, rows, scope, graph, undo, redo, issued, reopens, reordered>>
  BY DEF BeginTransaction, Proceed, disk, memory, history
<1>2. /\ call \in Calls /\ entities \in Graph /\ rows \in Seq(Row)
      /\ Len(call.walked) \in Nat
  BY <1>1, WalkFacts DEF InCall, EngineInvariant, TypeOK
<1>3. call' \in Calls
  <2>1. 1 \in Nat \ {0}
    OBVIOUS
  <2>2. begun \in Calls
    BY <1>2, <2>1, TransactionType
  <2> QED  BY <1>1, <2>2
<1>4. /\ call'.walked = call.walked /\ call'.trail = call.trail /\ call'.op = call.op
      /\ call'.pos = 1 /\ call'.txEntities = entities
  BY <1>1, <1>2 DEF Calls
<1>5. TypeOK'
  BY <1>1, <1>3 DEF EngineInvariant, TypeOK
<1>6. TrailIsWalk' /\ call.trail[1] = graph
  BY <1>1, <1>2, <1>4 DEF EngineInvariant, TrailIsWalk, InCall
<1>7. Covers(graph, entities)
  BY <1>1 DEF EngineInvariant, TableCovered
<1>8. TransactionCovered'
  BY <1>1, <1>4, <1>6, <1>7 DEF TransactionCovered, Covers, Present
<1> QED
  BY <1>1, <1>4, <1>5, <1>6, <1>7, <1>8 DEF EngineInvariant, TableCovered,
     MirrorRetraces, StackHasEntry, MirrorNeverPanics, InCall, Covers, Present

(* One statement of the transaction follows the trail.                     *)
LEMMA PersistDeltaInvariant ==
  ASSUME EngineInvariant, PersistDelta
  PROVE  EngineInvariant'
<1> DEFINE d == call.walked[call.pos]
           written == [call EXCEPT !.txEntities = Persist(@, d), !.pos = @ + 1]
<1>1. pc = "tx" /\ call.pos <= Len(call.walked)
  BY DEF PersistDelta
<1>2. /\ call \in Calls /\ Len(call.walked) \in Nat /\ call.pos \in 1 .. Len(call.walked)
      /\ call.trail \in Seq(Graph) /\ Len(call.trail) = Len(call.walked) + 1
      /\ call.txEntities \in Graph /\ d \in EntityDelta /\ call.trail[call.pos] \in Graph
  BY <1>1, WalkFacts DEF InCall, Calls
<1>3. CASE ~Persists(call.txEntities, d)
  BY <1>1, <1>3, RefuseInvariant DEF PersistDelta
<1>4. CASE Persists(call.txEntities, d)
  <2>1. Proceed("tx", written)
    BY <1>4 DEF PersistDelta
  <2>2. /\ pc' = "tx" /\ call' = written
        /\ UNCHANGED <<entities, rows, scope, graph, undo, redo, issued, reopens, reordered>>
    BY <2>1 DEF Proceed, disk, memory, history
  <2>3. Persist(call.txEntities, d) \in Graph
    BY <1>2, <1>4, PersistType
  <2>4. call' \in Calls
    <3>1. call.pos + 1 \in Nat \ {0}
      BY <1>2
    <3> QED  BY <1>2, <2>2, <2>3, <3>1, StatementType
  <2>5. /\ call'.walked = call.walked /\ call'.trail = call.trail /\ call'.op = call.op
        /\ call'.pos = call.pos + 1 /\ call'.txEntities = Persist(call.txEntities, d)
    BY <1>2, <2>2 DEF Calls
  <2>6. TypeOK'
    BY <2>2, <2>4 DEF EngineInvariant, TypeOK
  <2>7. TrailIsWalk'
    BY <1>1, <1>2, <2>2, <2>5 DEF EngineInvariant, TrailIsWalk, InCall
  <2>8. TransactionCovered'
    <3>1. Covers(call.trail[call.pos], call.txEntities)
      BY <1>1 DEF EngineInvariant, TransactionCovered
    <3>2. /\ Applies(call.trail[call.pos], d)
          /\ call.trail[call.pos + 1] = Apply(call.trail[call.pos], d)
      BY <1>1, <1>2 DEF EngineInvariant, TrailIsWalk, InCall
    <3>3. Covers(call.trail[call.pos + 1], Persist(call.txEntities, d))
      BY <1>2, <1>4, <3>1, <3>2, CoversStep
    <3> QED  BY <2>2, <2>5, <3>3 DEF TransactionCovered, Covers, Present
  <2> QED
    BY <1>1, <2>2, <2>5, <2>6, <2>7, <2>8 DEF EngineInvariant, TableCovered,
       MirrorRetraces, StackHasEntry, MirrorNeverPanics, InCall, Covers, Present
<1> QED  BY <1>3, <1>4

(* Writing the journal row ends the statements of the transaction.         *)
LEMMA PersistJournalInvariant ==
  ASSUME EngineInvariant, PersistJournal
  PROVE  EngineInvariant'
<1>1. pc = "tx" /\ call.pos > Len(call.walked)
  BY DEF PersistJournal
<1>2. /\ call \in Calls /\ Len(call.walked) \in Nat /\ call.pos = Len(call.walked) + 1
      /\ call.trail \in Seq(Graph) /\ Len(call.trail) = Len(call.walked) + 1
      /\ call.txRows \in Seq(Row) /\ call.cid \in Nat
  BY <1>1, WalkFacts DEF InCall, Calls, EngineInvariant, TrailIsWalk
<1>3. CASE Refuse
  BY <1>1, <1>3, RefuseInvariant
<1>4. ASSUME NEW rs \in Seq(Row), Proceed("commit", [call EXCEPT !.txRows = rs])
      PROVE  EngineInvariant'
  <2>1. /\ pc' = "commit" /\ call' = [call EXCEPT !.txRows = rs]
        /\ UNCHANGED <<entities, rows, scope, graph, undo, redo, issued, reopens, reordered>>
    BY <1>4 DEF Proceed, disk, memory, history
  <2>2. call' \in Calls
    BY <1>2, <2>1 DEF Calls
  <2>3. /\ call'.walked = call.walked /\ call'.trail = call.trail /\ call'.op = call.op
        /\ call'.pos = call.pos /\ call'.txEntities = call.txEntities
    BY <1>2, <2>1 DEF Calls
  <2>4. TypeOK'
    BY <2>1, <2>2 DEF EngineInvariant, TypeOK
  <2>5. TrailIsWalk'
    BY <1>1, <1>2, <2>1, <2>3 DEF EngineInvariant, TrailIsWalk, InCall
  <2>6. TransactionCovered'
    BY <1>1, <1>2, <2>1, <2>3 DEF EngineInvariant, TransactionCovered, Shadow, Top,
       Covers, Present
  <2> QED
    BY <1>1, <2>1, <2>3, <2>4, <2>5, <2>6 DEF EngineInvariant, TableCovered,
       MirrorRetraces, StackHasEntry, MirrorNeverPanics, InCall, Covers, Present
<1>5. CASE call.op = "record"
  <2>1. NewEntry \in JournalEntry
    BY NewEntryType DEF EngineInvariant
  <2>2. Proceed("commit", [call EXCEPT !.txRows = PersistRecord(call.txRows, NewEntry)])
    BY <1>5 DEF PersistJournal
  <2>3. PersistRecord(call.txRows, NewEntry) \in Seq(Row)
    BY <1>2, <2>1, PersistRecordType
  <2> QED  BY <1>4, <2>2, <2>3
<1>6. CASE call.op # "record"
  <2> DEFINE flag == (call.op = "undo")
  <2>1. flag \in BOOLEAN
    OBVIOUS
  <2>2. \/ Refuse
        \/ Proceed("commit", [call EXCEPT !.txRows = PersistFlag(call.txRows, call.cid, flag)])
    BY <1>6 DEF PersistJournal
  <2>3. PersistFlag(call.txRows, call.cid, flag) \in Seq(Row)
    BY <1>2, <2>1, PersistFlagType
  <2> QED  BY <1>3, <1>4, <2>2, <2>3
<1> QED  BY <1>5, <1>6

(* The commit installs a table that the end of the trail covers.           *)
LEMMA CommitInvariant ==
  ASSUME EngineInvariant, Commit
  PROVE  EngineInvariant'
<1>1. /\ pc = "commit" /\ pc' = "mirror" /\ call' = [call EXCEPT !.pos = 1]
      /\ entities' = call.txEntities /\ rows' = call.txRows
      /\ UNCHANGED <<scope, graph, undo, redo, issued, reopens, reordered>>
  BY DEF Commit, memory, history
<1>2. /\ call \in Calls /\ Len(call.walked) \in Nat
      /\ call.txEntities \in Graph /\ call.txRows \in Seq(Row)
  BY <1>1, WalkFacts DEF InCall, Calls
<1>3. call' \in Calls
  <2>1. 1 \in Nat \ {0}
    OBVIOUS
  <2> QED  BY <1>1, <1>2, <2>1, PosType
<1>4. /\ call'.walked = call.walked /\ call'.trail = call.trail
      /\ call'.op = call.op /\ call'.pos = 1
  BY <1>1, <1>2 DEF Calls
<1>5. TypeOK'
  BY <1>1, <1>2, <1>3 DEF EngineInvariant, TypeOK
<1>6. TrailIsWalk' /\ call.trail[1] = graph
  BY <1>1, <1>2, <1>4 DEF EngineInvariant, TrailIsWalk, InCall
<1>7. TableCovered'
  BY <1>1, <1>4 DEF EngineInvariant, TransactionCovered, TableCovered, Shadow, Top,
     Covers, Present
<1> QED
  BY <1>1, <1>4, <1>5, <1>6, <1>7 DEF EngineInvariant, TransactionCovered,
     MirrorRetraces, StackHasEntry, MirrorNeverPanics, InCall

(* The mirror loop retraces the trail, so its delta applies.               *)
LEMMA MirrorInvariant ==
  ASSUME EngineInvariant, MirrorDelta
  PROVE  EngineInvariant'
<1> DEFINE d == call.walked[call.pos]
<1>1. pc = "mirror" /\ call.pos <= Len(call.walked)
  BY DEF MirrorDelta
<1>2. /\ call \in Calls /\ Len(call.walked) \in Nat /\ call.pos \in 1 .. Len(call.walked)
      /\ d \in EntityDelta /\ graph \in Graph
  BY <1>1, WalkFacts DEF InCall, Calls, EngineInvariant, TypeOK
<1>3. /\ graph = call.trail[call.pos] /\ Applies(call.trail[call.pos], d)
      /\ call.trail[call.pos + 1] = Apply(call.trail[call.pos], d)
  BY <1>1, <1>2 DEF EngineInvariant, TrailIsWalk, MirrorRetraces, InCall
<1>4. /\ pc' = "mirror" /\ graph' = Apply(graph, d)
      /\ call' = [call EXCEPT !.pos = @ + 1]
      /\ UNCHANGED <<entities, rows, scope, undo, redo, issued, reopens, reordered>>
  BY <1>1, <1>3 DEF MirrorDelta, disk, history
<1>5. call' \in Calls
  <2>1. call.pos + 1 \in Nat \ {0}
    BY <1>2
  <2> QED  BY <1>2, <1>4, <2>1, PosType
<1>6. /\ call'.walked = call.walked /\ call'.trail = call.trail
      /\ call'.op = call.op /\ call'.pos = call.pos + 1
  BY <1>2, <1>4 DEF Calls
<1>7. Apply(graph, d) \in Graph
  BY <1>2, <1>3, ApplyType
<1>8. TypeOK'
  BY <1>1, <1>4, <1>5, <1>7 DEF EngineInvariant, TypeOK
<1>9. TrailIsWalk'
  BY <1>1, <1>2, <1>4, <1>6 DEF EngineInvariant, TrailIsWalk, InCall
<1>10. MirrorRetraces'
  BY <1>3, <1>4, <1>6 DEF MirrorRetraces
<1>11. TableCovered'
  BY <1>1, <1>4, <1>6 DEF EngineInvariant, TableCovered, Shadow, Top, Covers, Present
<1> QED
  BY <1>1, <1>4, <1>6, <1>8, <1>9, <1>10, <1>11 DEF EngineInvariant, TransactionCovered,
     StackHasEntry, MirrorNeverPanics, InCall

(* At the end of the mirror loop the graph is the end of the trail.        *)
LEMMA FinishInvariant ==
  ASSUME EngineInvariant, Finish
  PROVE  EngineInvariant'
<1>1. /\ pc = "mirror" /\ call.pos > Len(call.walked) /\ pc' = "idle" /\ call' = NoCall
      /\ undo' = UndoAfter /\ redo' = RedoAfter
      /\ UNCHANGED <<entities, rows, scope, graph, issued, reopens, reordered>>
  BY DEF Finish, disk, history
<1>2. /\ call \in Calls /\ Len(call.walked) \in Nat
      /\ undo \in Seq(JournalEntry) /\ redo \in Seq(JournalEntry)
      /\ call.pos = Len(call.walked) + 1
      /\ Shadow = call.trail[Len(call.walked) + 1]
  BY <1>1, WalkFacts DEF InCall, Calls, EngineInvariant, TypeOK, TrailIsWalk
<1>3. UndoAfter \in Seq(JournalEntry) /\ RedoAfter \in Seq(JournalEntry)
  <2>1. CASE call.op = "record"
    <3>1. NewEntry \in JournalEntry
      BY NewEntryType DEF EngineInvariant
    <3>2. /\ Append(undo, NewEntry) \in Seq(JournalEntry)
          /\ Append(undo, NewEntry) # <<>>
      BY <1>2, <3>1, AppendProperties
    <3> DEFINE longer == Append(undo, NewEntry)
    <3>3. Tail(longer) \in Seq(JournalEntry)
      BY <3>2
    <3>4. Record(undo, NewEntry) \in {longer, Tail(longer)}
      BY DEF Record
    <3>5. Record(undo, NewEntry) \in Seq(JournalEntry)
      BY <3>2, <3>3, <3>4
    <3> QED  BY <2>1, <3>5, EmptySeq DEF UndoAfter, RedoAfter
  <2>2. CASE call.op = "undo"
    <3>1. undo # <<>>
      BY <1>1, <2>2 DEF EngineInvariant, StackHasEntry, InCall
    <3>2. Top(undo) \in JournalEntry /\ Pop(undo) \in Seq(JournalEntry)
      BY <1>2, <3>1 DEF Top, Pop
    <3> QED  BY <1>2, <2>2, <3>2 DEF UndoAfter, RedoAfter
  <2>3. CASE call.op = "redo"
    <3>1. redo # <<>>
      BY <1>1, <2>3 DEF EngineInvariant, StackHasEntry, InCall
    <3>2. Top(redo) \in JournalEntry /\ Pop(redo) \in Seq(JournalEntry)
      BY <1>2, <3>1 DEF Top, Pop
    <3> QED  BY <1>2, <2>3, <3>2 DEF UndoAfter, RedoAfter
  <2> QED  BY <1>2, <2>1, <2>2, <2>3 DEF Calls
<1>4. TypeOK'
  BY <1>1, <1>3, NoCallType DEF EngineInvariant, TypeOK
<1>5. Covers(graph, entities)
  BY <1>1, <1>2 DEF EngineInvariant, TableCovered, MirrorRetraces
<1>6. TableCovered'
  BY <1>1, <1>5 DEF TableCovered, Covers, Present
<1> QED
  BY <1>1, <1>4, <1>6 DEF EngineInvariant, TrailIsWalk, TransactionCovered,
     MirrorRetraces, StackHasEntry, MirrorNeverPanics, InCall

-----------------------------------------------------------------------------
(* The invariant is inductive.                                             *)
LEMMA NextInvariant == EngineInvariant /\ [Next]_vars => EngineInvariant'
<1> SUFFICES ASSUME EngineInvariant, [Next]_vars PROVE EngineInvariant'
  OBVIOUS
<1>1. CASE (\E s \in Scope : Open(s) \/ SetActiveScope(s)) \/ LoadRow \/ Opened \/ Drop
  BY <1>1, SessionInvariant
<1>2. CASE \/ \E c \in Command : ExecutePersistent(c)
           \/ \E cs \in Batch : ExecutePersistentBatch(cs)
           \/ UndoPersistent \/ RedoPersistent
  BY <1>2, StartInvariant
<1>3. CASE ComputeDeltas
  BY <1>3, ComputeInvariant
<1>4. CASE WalkDelta
  BY <1>4, WalkInvariant
<1>5. CASE BeginTransaction
  BY <1>5, BeginTransactionInvariant
<1>6. CASE PersistDelta
  BY <1>6, PersistDeltaInvariant
<1>7. CASE PersistJournal
  BY <1>7, PersistJournalInvariant
<1>8. CASE SqlError
  BY <1>8, RefuseInvariant DEF SqlError
<1>9. CASE Commit
  BY <1>9, CommitInvariant
<1>10. CASE MirrorDelta
  BY <1>10, MirrorInvariant
<1>11. CASE Finish
  BY <1>11, FinishInvariant
<1>12. CASE UNCHANGED vars
  BY <1>12 DEF vars, disk, memory, history, EngineInvariant, TypeOK, TrailIsWalk,
     TransactionCovered, TableCovered, MirrorRetraces, StackHasEntry,
     MirrorNeverPanics, InCall, Covers, Present, Shadow, Top
<1> QED
  BY <1>1, <1>2, <1>3, <1>4, <1>5, <1>6, <1>7, <1>8, <1>9, <1>10, <1>11, <1>12 DEF Next

(* The inductive invariant holds in every reachable state.                 *)
THEOREM Invariance == Spec => []EngineInvariant
  BY InitInvariant, NextInvariant, PTL DEF Spec

(* Every variable keeps its type.                                          *)
THEOREM TypeCorrect == Spec => []TypeOK
<1>1. EngineInvariant => TypeOK
  BY DEF EngineInvariant
<1> QED  BY <1>1, Invariance, PTL

(* The `.expect` of the mirror loops never fires, for any commands.        *)
THEOREM NoPanic == Spec => []MirrorNeverPanics
<1>1. EngineInvariant => MirrorNeverPanics
  BY DEF EngineInvariant
<1> QED  BY <1>1, Invariance, PTL

(* Memory covers the table between calls, cascades included.               *)
THEOREM MemoryCovers == Spec => []MemoryCoversDisk
<1>1. EngineInvariant => MemoryCoversDisk
  BY DEF EngineInvariant, TableCovered, MemoryCoversDisk
<1> QED  BY <1>1, Invariance, PTL

-----------------------------------------------------------------------------
(* Without hosts.                                                          *)

(* A DELETE cascades to nothing when no record can have a parent.          *)
LEMMA CascadeAlone ==
  ASSUME Host = {}, NEW t \in Graph, NEW e \in Entity
  PROVE  Cascade(t, e) = {e}
<1>1. \A y \in Present(t) : t[y].parent \notin {e}
  <2>1. \A y \in Present(t) : t[y].parent = NoParent
    BY PresentRecord DEF EntityRecord
  <2> QED  BY <2>1, GraphAssumption
<1>2. ASSUME NEW x \in Cascade(t, e) PROVE x \in {e}
  <2>1. {e} \in SUBSET Entity
    OBVIOUS
  <2>2. \A S \in SUBSET Entity :
          e \in S /\ (\A y \in Present(t) : t[y].parent \in S => y \in S) => x \in S
    BY <1>2 DEF Cascade
  <2> QED  BY <1>1, <2>1, <2>2
<1> QED  BY <1>2, CascadeRoot

(* Then the table takes every delta as the memory does.                    *)
LEMMA PersistIsApply ==
  ASSUME Host = {}, NEW t \in Graph, NEW d \in EntityDelta
  PROVE  Persist(t, d) = Apply(t, d)
<1>1. CASE d.op = "delete"
  <2>1. d.id \in Entity
    BY DEF EntityDelta, CreateDelta, DeleteDelta, UpdateDelta
  <2>2. Cascade(t, d.id) = {d.id}
    BY <2>1, CascadeAlone
  <2> QED  BY <1>1, <2>1, <2>2 DEF Persist, Apply, Graph
<1>2. CASE d.op # "delete"
  BY <1>2 DEF Persist
<1> QED  BY <1>1, <1>2

LEMMA MirroredNext ==
  ASSUME Host = {}, EngineInvariant, TableMirrored, [Next]_vars
  PROVE  TableMirrored'
<1> USE DEF TableMirrored, disk, memory, history
<1>1. CASE (\E s \in Scope : Open(s) \/ SetActiveScope(s)) \/ LoadRow \/ Opened \/ Drop
  BY <1>1 DEF Open, SetActiveScope, LoadRow, Opened, Drop
<1>2. CASE \/ \E c \in Command : ExecutePersistent(c)
           \/ \E cs \in Batch : ExecutePersistentBatch(cs)
           \/ UndoPersistent \/ RedoPersistent
  BY <1>2 DEF ExecutePersistent, ExecutePersistentBatch, UndoPersistent,
     RedoPersistent, Begin
<1>3. CASE Refuse /\ pc \in {"walk", "tx", "commit"}
  BY <1>3 DEF Refuse
<1>4. CASE ComputeDeltas \/ WalkDelta
  BY <1>3, <1>4 DEF ComputeDeltas, WalkDelta, Proceed
<1>5. CASE BeginTransaction
  <2>1. /\ pc = "walk" /\ pc' = "tx" /\ graph' = graph /\ entities' = entities
        /\ call' = [call EXCEPT !.txEntities = entities, !.txRows = rows, !.pos = 1]
    BY <1>5 DEF BeginTransaction, Proceed
  <2>2. call'.txEntities = entities /\ call'.trail = call.trail /\ call'.pos = 1
    BY <2>1 DEF EngineInvariant, TypeOK, Calls
  <2>3. call.trail[1] = graph
    BY <2>1 DEF EngineInvariant, TrailIsWalk, InCall
  <2> QED  BY <2>1, <2>2, <2>3
<1>6. CASE PersistDelta
  <2> DEFINE d == call.walked[call.pos]
  <2>1. pc = "tx" /\ call.pos <= Len(call.walked)
    BY <1>6 DEF PersistDelta
  <2>2. CASE ~Persists(call.txEntities, d)
    BY <1>3, <1>6, <2>1, <2>2 DEF PersistDelta
  <2>3. CASE Persists(call.txEntities, d)
    <3>1. /\ pc' = "tx" /\ graph' = graph /\ entities' = entities
          /\ call' = [call EXCEPT !.txEntities = Persist(@, d), !.pos = @ + 1]
      BY <1>6, <2>3 DEF PersistDelta, Proceed
    <3>2. /\ call \in Calls /\ call.pos \in 1 .. Len(call.walked)
          /\ call.txEntities \in Graph /\ d \in EntityDelta
      BY <2>1, WalkFacts DEF InCall, Calls
    <3>3. /\ call'.txEntities = Persist(call.txEntities, d)
          /\ call'.trail = call.trail /\ call'.pos = call.pos + 1
      BY <3>1, <3>2 DEF Calls
    <3>4. call.trail[call.pos + 1] = Apply(call.trail[call.pos], d)
      BY <2>1, <3>2 DEF EngineInvariant, TrailIsWalk, InCall
    <3>5. Persist(call.txEntities, d) = Apply(call.txEntities, d)
      BY <3>2, PersistIsApply
    <3> QED  BY <2>1, <3>1, <3>3, <3>4, <3>5
  <2> QED  BY <2>2, <2>3
<1>7. CASE PersistJournal
  <2>1. pc = "tx" /\ call.pos > Len(call.walked)
    BY <1>7 DEF PersistJournal
  <2>2. /\ call \in Calls /\ call.pos = Len(call.walked) + 1
        /\ Shadow = call.trail[Len(call.walked) + 1]
    BY <2>1, WalkFacts DEF InCall, Calls, EngineInvariant, TrailIsWalk
  <2>3. ASSUME NEW rs, Proceed("commit", [call EXCEPT !.txRows = rs])
        PROVE  TableMirrored'
    <3>1. /\ pc' = "commit" /\ graph' = graph /\ entities' = entities
          /\ call' = [call EXCEPT !.txRows = rs]
      BY <2>3 DEF Proceed
    <3>2. call'.txEntities = call.txEntities /\ call'.trail = call.trail
      BY <2>2, <3>1 DEF Calls
    <3> QED  BY <2>1, <2>2, <3>1, <3>2 DEF Shadow, Top
  <2> QED  BY <1>3, <1>7, <2>1, <2>3 DEF PersistJournal
<1>8. CASE SqlError
  BY <1>3, <1>8 DEF SqlError
<1>9. CASE Commit
  <2>1. /\ pc = "commit" /\ pc' = "mirror" /\ entities' = call.txEntities
        /\ call' = [call EXCEPT !.pos = 1]
    BY <1>9 DEF Commit
  <2>2. call'.trail = call.trail
    BY <2>1 DEF EngineInvariant, TypeOK, Calls
  <2> QED  BY <2>1, <2>2 DEF Shadow, Top
<1>10. CASE MirrorDelta
  <2>1. pc = "mirror" /\ entities' = entities /\ pc' \in {"mirror", "panicked"}
        /\ (call' = [call EXCEPT !.pos = @ + 1] \/ call' = call)
    BY <1>10 DEF MirrorDelta
  <2>2. call'.trail = call.trail
    BY <2>1 DEF EngineInvariant, TypeOK, Calls
  <2> QED  BY <2>1, <2>2 DEF Shadow, Top
<1>11. CASE Finish
  <2>1. /\ pc = "mirror" /\ pc' = "idle" /\ graph' = graph /\ entities' = entities
        /\ call.pos > Len(call.walked)
    BY <1>11 DEF Finish
  <2>2. call.pos = Len(call.walked) + 1 /\ Shadow = call.trail[Len(call.walked) + 1]
    BY <2>1, WalkFacts DEF InCall, Calls, EngineInvariant, TrailIsWalk
  <2>3. graph = Shadow
    BY <2>1, <2>2 DEF EngineInvariant, MirrorRetraces
  <2> QED  BY <2>1, <2>3
<1>12. CASE UNCHANGED vars
  BY <1>12 DEF vars, Shadow, Top
<1> QED
  BY <1>1, <1>2, <1>4, <1>5, <1>6, <1>7, <1>8, <1>9, <1>10, <1>11, <1>12 DEF Next

(* A project whose commands name no parent keeps memory and table equal    *)
(* between calls, across refusals, SQL errors, crashes and reopening.      *)
THEOREM LockStepWithoutHosts == Host = {} => (Spec => []LockStep)
<1> SUFFICES ASSUME Host = {} PROVE Spec => []LockStep
  OBVIOUS
<1>1. Init => TableMirrored
  BY DEF Init, TableMirrored
<1>2. EngineInvariant /\ TableMirrored /\ [Next]_vars => TableMirrored'
  BY MirroredNext
<1>3. TableMirrored => LockStep
  BY DEF TableMirrored, LockStep
<1> QED  BY <1>1, <1>2, <1>3, Invariance, PTL DEF Spec

-----------------------------------------------------------------------------
(* Induction: a set of numbers has a least member, so a claim that fails   *)
(* for some number fails for a first one.                                  *)

LEMMA Least ==
  ASSUME NEW T \in SUBSET Nat, T # {}
  PROVE  \E n \in T : \A m \in T : n <= m
<1> DEFINE R == {ss \in Nat \X Nat : ss[1] < ss[2]}
<1>1. IsWellFoundedOn(R, Nat)
  BY NatLessThanWellFounded DEF OpToRel
<1>2. PICK n \in T : \A m \in T : ~(<<m, n>> \in R)
  BY <1>1, WFMin
<1>3. ASSUME NEW m \in T PROVE n <= m
  <2>1. m \in Nat /\ n \in Nat /\ ~(<<m, n>> \in R)
    BY <1>2
  <2>2. <<m, n>> \in Nat \X Nat /\ <<m, n>>[1] = m /\ <<m, n>>[2] = n
    BY <2>1
  <2> QED  BY <2>1, <2>2
<1> QED  BY <1>3

(* Two lists that start alike and go on alike are one list.                *)
GoOnAlike(f, g, n) == \A k \in 1 .. n : f[k - 1] = g[k - 1] => f[k] = g[k]

LEMMA SameFromStart ==
  ASSUME NEW n \in Nat, NEW f, NEW g, f[0] = g[0], GoOnAlike(f, g, n)
  PROVE  \A k \in 0 .. n : f[k] = g[k]
<1>1. PICK T : T = {k \in 0 .. n : f[k] # g[k]}
  OBVIOUS
<1>2. ASSUME T # {} PROVE FALSE
  <2>1. T \in SUBSET Nat
    BY <1>1
  <2>2. PICK k \in T : \A m \in T : k <= m
    BY <1>2, <2>1, Least
  <2>3. k \in 0 .. n /\ f[k] # g[k]
    BY <1>1, <2>2
  <2>4. k # 0
    BY <2>3
  <2>5. k \in 1 .. n /\ k - 1 \in 0 .. n /\ ~(k <= k - 1)
    BY <2>3, <2>4
  <2>6. k - 1 \notin T
    BY <2>2, <2>5
  <2>7. f[k - 1] = g[k - 1]
    BY <1>1, <2>5, <2>6
  <2> QED  BY <2>3, <2>5, <2>7 DEF GoOnAlike
<1> QED  BY <1>1, <1>2

-----------------------------------------------------------------------------
(* What a list of deltas leads to.                                         *)

\* The graphs before, between and after the deltas.
Path(R, ds) ==
  /\ R \in [1 .. Len(ds) + 1 -> Graph]
  /\ \A k \in 1 .. Len(ds) : Applies(R[k], ds[k]) /\ R[k + 1] = Apply(R[k], ds[k])

Leads(g, ds, h) ==
  \E R \in [1 .. Len(ds) + 1 -> Graph] : Path(R, ds) /\ R[1] = g /\ R[Len(ds) + 1] = h

LEMMA GraphIsNotBroken ==
  ASSUME NEW g \in Graph
  PROVE  g # Broken
<1>1. PICK e : e \in Entity
  BY GraphAssumption
<1>2. e \in DOMAIN g
  BY <1>1 DEF Graph
<1>3. DOMAIN Broken = {}
  BY DEF Broken
<1> QED  BY <1>2, <1>3

LEMMA LeadsNowhere ==
  ASSUME NEW g \in Graph
  PROVE  Leads(g, <<>>, g)
<1>1. PICK R : R = [k \in 1 .. 1 |-> g]
  OBVIOUS
<1>2. Len(<<>>) = 0 /\ 0 + 1 = 1
  OBVIOUS
<1>3. R \in [1 .. Len(<<>>) + 1 -> Graph] /\ R[1] = g
  BY <1>1, <1>2
<1>4. \A k \in 1 .. Len(<<>>) : FALSE
  BY <1>2
<1>5. Path(R, <<>>)
  BY <1>3, <1>4 DEF Path
<1> QED  BY <1>2, <1>3, <1>5 DEF Leads

LEMMA LeadsToGraph ==
  ASSUME NEW g, NEW ds \in Seq(EntityDelta), NEW h, Leads(g, ds, h)
  PROVE  g \in Graph /\ h \in Graph
<1>1. PICK R \in [1 .. Len(ds) + 1 -> Graph] : R[1] = g /\ R[Len(ds) + 1] = h
  BY DEF Leads
<1>2. Len(ds) \in Nat
  BY LenProperties
<1>3. 1 \in 1 .. Len(ds) + 1 /\ Len(ds) + 1 \in 1 .. Len(ds) + 1
  BY <1>2
<1> QED  BY <1>1, <1>3

LEMMA LeadsOn ==
  ASSUME NEW g, NEW ds \in Seq(EntityDelta), NEW h, Leads(g, ds, h),
         NEW es \in Seq(EntityDelta), NEW i, Leads(h, es, i)
  PROVE  Leads(g, ds \o es, i)
<1>1. PICK R \in [1 .. Len(ds) + 1 -> Graph] :
        Path(R, ds) /\ R[1] = g /\ R[Len(ds) + 1] = h
  BY DEF Leads
<1>2. PICK S \in [1 .. Len(es) + 1 -> Graph] :
        Path(S, es) /\ S[1] = h /\ S[Len(es) + 1] = i
  BY DEF Leads
<1>3. PICK m, n : m = Len(ds) /\ n = Len(es)
  OBVIOUS
<1>4. m \in Nat /\ n \in Nat
  BY <1>3, LenProperties
<1>5. PICK T : T = [k \in 1 .. m + n + 1 |-> IF k <= m + 1 THEN R[k] ELSE S[k - m]]
  OBVIOUS
<1>6. /\ Len(ds \o es) = m + n
      /\ \A k \in 1 .. m + n :
           (ds \o es)[k] = IF k <= m THEN ds[k] ELSE es[k - m]
  BY <1>3, ConcatProperties
<1>7. T \in [1 .. m + n + 1 -> Graph]
  <2>1. ASSUME NEW k \in 1 .. m + n + 1 PROVE T[k] \in Graph
    <3>1. CASE k <= m + 1
      <4>1. k \in 1 .. Len(ds) + 1
        BY <1>3, <1>4, <3>1
      <4> QED  BY <1>1, <1>5, <3>1, <4>1
    <3>2. CASE ~(k <= m + 1)
      <4>1. k - m \in 1 .. n + 1
        BY <1>4, <3>2
      <4> QED  BY <1>2, <1>3, <1>5, <3>2, <4>1
    <3> QED  BY <3>1, <3>2
  <2> QED  BY <1>5, <2>1
<1>8. ASSUME NEW k \in 1 .. m + n
      PROVE  Applies(T[k], (ds \o es)[k]) /\ T[k + 1] = Apply(T[k], (ds \o es)[k])
  <2>1. CASE k <= m
    <3>1. k \in 1 .. Len(ds) /\ k <= m + 1 /\ k + 1 <= m + 1 /\ k + 1 \in 1 .. m + n + 1
          /\ k \in 1 .. m + n + 1
      BY <1>3, <1>4, <2>1
    <3>2. T[k] = R[k] /\ T[k + 1] = R[k + 1] /\ (ds \o es)[k] = ds[k]
      BY <1>5, <1>6, <2>1, <3>1
    <3> QED  BY <1>1, <3>1, <3>2 DEF Path
  <2>2. CASE ~(k <= m)
    <3>1. /\ k - m \in 1 .. Len(es) /\ ~(k + 1 <= m + 1) /\ (k + 1) - m = (k - m) + 1
          /\ k + 1 \in 1 .. m + n + 1 /\ k \in 1 .. m + n + 1
      BY <1>3, <1>4, <2>2
    <3>2. T[k + 1] = S[(k - m) + 1] /\ (ds \o es)[k] = es[k - m]
      BY <1>5, <1>6, <2>2, <3>1
    <3>3. T[k] = S[k - m]
      <4>1. CASE k <= m + 1
        <5>1. k = m + 1 /\ k - m = 1
          BY <1>4, <2>2, <4>1
        <5>2. T[k] = R[m + 1]
          BY <1>5, <3>1, <4>1, <5>1
        <5> QED  BY <1>1, <1>2, <1>3, <5>1, <5>2
      <4>2. CASE ~(k <= m + 1)
        BY <1>5, <3>1, <4>2
      <4> QED  BY <4>1, <4>2
    <3> QED  BY <1>2, <3>1, <3>2, <3>3 DEF Path
  <2> QED  BY <2>1, <2>2
<1>9. T[1] = g /\ T[m + n + 1] = i
  <2>1. 1 \in 1 .. m + n + 1 /\ 1 <= m + 1 /\ m + n + 1 \in 1 .. m + n + 1
    BY <1>4
  <2>2. T[1] = g
    BY <1>1, <1>5, <2>1
  <2>3. CASE n = 0
    BY <1>1, <1>2, <1>3, <1>4, <1>5, <2>1, <2>3
  <2>4. CASE n # 0
    <3>1. ~(m + n + 1 <= m + 1) /\ (m + n + 1) - m = n + 1
      BY <1>4, <2>4
    <3> QED  BY <1>2, <1>3, <1>5, <2>1, <2>2, <3>1
  <2> QED  BY <2>2, <2>3, <2>4
<1>10. Path(T, ds \o es)
  BY <1>6, <1>7, <1>8 DEF Path
<1> QED  BY <1>6, <1>7, <1>9, <1>10 DEF Leads

LEMMA LeadsByOne ==
  ASSUME NEW g \in Graph, NEW d \in EntityDelta, Applies(g, d)
  PROVE  Leads(g, <<d>>, Apply(g, d))
<1>1. PICK h : h = Apply(g, d) /\ h \in Graph
  BY ApplyType
<1>2. PICK R : R = [k \in 1 .. 2 |-> IF k = 1 THEN g ELSE h]
  OBVIOUS
<1>3. Len(<<d>>) = 1 /\ <<d>>[1] = d /\ 1 + 1 = 2
  OBVIOUS
<1>4. R \in [1 .. Len(<<d>>) + 1 -> Graph] /\ R[1] = g /\ R[Len(<<d>>) + 1] = h
  BY <1>1, <1>2, <1>3
<1>5. \A k \in 1 .. Len(<<d>>) : k = 1 /\ R[k + 1] = h
  BY <1>2, <1>3
<1>6. Path(R, <<d>>)
  BY <1>1, <1>3, <1>4, <1>5 DEF Path
<1> QED  BY <1>1, <1>4, <1>6 DEF Leads

(* Replaying the deltas follows the path.                                  *)
LEMMA ReplayFollows ==
  ASSUME NEW g, NEW ds \in Seq(EntityDelta), NEW h, Leads(g, ds, h)
  PROVE  Replay(g, ds) = h
<1>1. PICK R \in [1 .. Len(ds) + 1 -> Graph] :
        Path(R, ds) /\ R[1] = g /\ R[Len(ds) + 1] = h
  BY DEF Leads
<1>2. PICK n : n = Len(ds) /\ n \in Nat
  BY LenProperties
<1>3. PICK T : T = [k \in 0 .. n |-> R[k + 1]]
  OBVIOUS
<1>4. ASSUME NEW k \in 1 .. n
      PROVE  ReplayDelta(T[k - 1], ds[k]) = T[k]
  <2>1. k - 1 \in 0 .. n /\ k \in 0 .. n /\ (k - 1) + 1 = k /\ k \in 1 .. Len(ds) + 1
    BY <1>2
  <2>2. T[k - 1] = R[k] /\ T[k] = R[k + 1] /\ R[k] \in Graph
    BY <1>1, <1>3, <2>1
  <2>3. Applies(R[k], ds[k]) /\ R[k + 1] = Apply(R[k], ds[k])
    BY <1>1, <1>2 DEF Path
  <2> QED  BY <2>2, <2>3, GraphIsNotBroken DEF ReplayDelta
<1>5. T[0] = g
  BY <1>1, <1>2, <1>3
<1>6. T = [k \in 0 .. Len(ds) |-> IF k = 0 THEN g ELSE ReplayDelta(T[k - 1], ds[k])]
  <2>1. ASSUME NEW k \in 0 .. n
        PROVE  T[k] = IF k = 0 THEN g ELSE ReplayDelta(T[k - 1], ds[k])
    <3>1. CASE k = 0
      BY <1>5, <3>1
    <3>2. CASE k # 0
      <4>1. k \in 1 .. n
        BY <1>2, <3>2
      <4> QED  BY <1>4, <3>2, <4>1
    <3> QED  BY <3>1, <3>2
  <2>2. DOMAIN T = 0 .. n /\ T = [k \in 0 .. n |-> T[k]]
    BY <1>3
  <2> QED  BY <1>2, <2>1, <2>2
<1> DEFINE U == Successive(ReplayDelta, g, ds)
<1>7. U = [k \in 0 .. Len(ds) |-> IF k = 0 THEN g ELSE ReplayDelta(U[k - 1], ds[k])]
  BY <1>6 DEF Successive
<1>8. U[n] = Replay(g, ds)
  BY <1>2 DEF Replay
<1> HIDE DEF U
<1>9. PICK S : S = U
  OBVIOUS
<1>10. S[0] = T[0]
  BY <1>2, <1>5, <1>7, <1>9
<1>11. ASSUME NEW k \in 1 .. n, S[k - 1] = T[k - 1] PROVE S[k] = T[k]
  <2>1. k \in 0 .. Len(ds) /\ k # 0
    BY <1>2
  <2>2. S[k] = ReplayDelta(S[k - 1], ds[k])
    BY <1>7, <1>9, <2>1
  <2> QED  BY <1>4, <1>11, <2>2
<1>12. \A k \in 0 .. n : S[k] = T[k]
  <2>1. n \in Nat /\ GoOnAlike(S, T, n)
    BY <1>2, <1>11 DEF GoOnAlike
  <2> QED  BY <1>10, <2>1, SameFromStart
<1>13. S[n] = R[n + 1]
  BY <1>2, <1>3, <1>12
<1> QED  BY <1>1, <1>2, <1>8, <1>9, <1>13

(* Where no record can have a parent, so does rewriting the table.         *)
LEMMA RewriteFollows ==
  ASSUME Host = {}, NEW g, NEW ds \in Seq(EntityDelta), NEW h, Leads(g, ds, h)
  PROVE  Rewrite(g, ds) = h
<1>1. PICK R \in [1 .. Len(ds) + 1 -> Graph] :
        Path(R, ds) /\ R[1] = g /\ R[Len(ds) + 1] = h
  BY DEF Leads
<1>2. PICK n : n = Len(ds) /\ n \in Nat
  BY LenProperties
<1>3. PICK T : T = [k \in 0 .. n |-> R[k + 1]]
  OBVIOUS
<1>4. ASSUME NEW k \in 1 .. n
      PROVE  RewriteDelta(T[k - 1], ds[k]) = T[k]
  <2>1. k - 1 \in 0 .. n /\ k \in 0 .. n /\ (k - 1) + 1 = k /\ k \in 1 .. Len(ds) + 1
    BY <1>2
  <2>2. T[k - 1] = R[k] /\ T[k] = R[k + 1] /\ R[k] \in Graph /\ ds[k] \in EntityDelta
    BY <1>1, <1>2, <1>3, <2>1, ElementOfSeq
  <2>3. Applies(R[k], ds[k]) /\ R[k + 1] = Apply(R[k], ds[k])
    BY <1>1, <1>2 DEF Path
  <2>4. ds[k].op = "create" => ds[k].record.parent = NoParent
    BY <2>2 DEF EntityDelta, CreateDelta, DeleteDelta, UpdateDelta, EntityRecord
  <2>5. Persists(R[k], ds[k]) /\ Persist(R[k], ds[k]) = R[k + 1]
    BY <2>2, <2>3, <2>4, PersistIsApply DEF Persists
  <2> QED  BY <2>2, <2>5, GraphIsNotBroken DEF RewriteDelta
<1>5. T[0] = g
  BY <1>1, <1>2, <1>3
<1>6. T = [k \in 0 .. Len(ds) |-> IF k = 0 THEN g ELSE RewriteDelta(T[k - 1], ds[k])]
  <2>1. ASSUME NEW k \in 0 .. n
        PROVE  T[k] = IF k = 0 THEN g ELSE RewriteDelta(T[k - 1], ds[k])
    <3>1. CASE k = 0
      BY <1>5, <3>1
    <3>2. CASE k # 0
      <4>1. k \in 1 .. n
        BY <1>2, <3>2
      <4> QED  BY <1>4, <3>2, <4>1
    <3> QED  BY <3>1, <3>2
  <2>2. DOMAIN T = 0 .. n /\ T = [k \in 0 .. n |-> T[k]]
    BY <1>3
  <2> QED  BY <1>2, <2>1, <2>2
<1> DEFINE U == Successive(RewriteDelta, g, ds)
<1>7. U = [k \in 0 .. Len(ds) |-> IF k = 0 THEN g ELSE RewriteDelta(U[k - 1], ds[k])]
  BY <1>6 DEF Successive
<1>8. U[n] = Rewrite(g, ds)
  BY <1>2 DEF Rewrite
<1> HIDE DEF U
<1>9. PICK S : S = U
  OBVIOUS
<1>10. S[0] = T[0]
  BY <1>2, <1>5, <1>7, <1>9
<1>11. ASSUME NEW k \in 1 .. n, S[k - 1] = T[k - 1] PROVE S[k] = T[k]
  <2>1. k \in 0 .. Len(ds) /\ k # 0
    BY <1>2
  <2>2. S[k] = RewriteDelta(S[k - 1], ds[k])
    BY <1>7, <1>9, <2>1
  <2> QED  BY <1>4, <1>11, <2>2
<1>12. \A k \in 0 .. n : S[k] = T[k]
  <2>1. n \in Nat /\ GoOnAlike(S, T, n)
    BY <1>2, <1>11 DEF GoOnAlike
  <2> QED  BY <1>10, <2>1, SameFromStart
<1>13. S[n] = R[n + 1]
  BY <1>2, <1>3, <1>12
<1> QED  BY <1>1, <1>2, <1>8, <1>9, <1>13

LEMMA LeadsOnce ==
  ASSUME NEW g, NEW ds \in Seq(EntityDelta), NEW h, NEW i, Leads(g, ds, h), Leads(g, ds, i)
  PROVE  h = i
<1>1. Replay(g, ds) = h
  BY ReplayFollows
<1>2. Replay(g, ds) = i
  BY ReplayFollows
<1> QED  BY <1>1, <1>2

LEMMA InvertAllConcat ==
  ASSUME NEW ds \in Seq(EntityDelta), NEW es \in Seq(EntityDelta)
  PROVE  InvertAll(ds \o es) = InvertAll(es) \o InvertAll(ds)
<1>1. PICK m, n : m = Len(ds) /\ n = Len(es)
  OBVIOUS
<1>2. m \in Nat /\ n \in Nat
  BY <1>1, LenProperties
<1>3. /\ ds \o es \in Seq(EntityDelta) /\ Len(ds \o es) = m + n
      /\ \A k \in 1 .. m + n :
           (ds \o es)[k] = IF k <= m THEN ds[k] ELSE es[k - m]
  BY <1>1, ConcatProperties
<1>4. PICK a, b : a = InvertAll(es) /\ b = InvertAll(ds)
  OBVIOUS
<1>5. /\ a \in Seq(EntityDelta) /\ b \in Seq(EntityDelta)
      /\ Len(a) = n /\ Len(b) = m
      /\ \A k \in 1 .. n : a[k] = Invert(es[n + 1 - k])
      /\ \A k \in 1 .. m : b[k] = Invert(ds[m + 1 - k])
  <2>1. /\ a \in Seq(EntityDelta) /\ b \in Seq(EntityDelta)
        /\ a = [k \in 1 .. n |-> Invert(es[n + 1 - k])]
        /\ b = [k \in 1 .. m |-> Invert(ds[m + 1 - k])]
    BY <1>1, <1>4, InvertAllType DEF InvertAll
  <2>2. DOMAIN a = 1 .. n /\ DOMAIN b = 1 .. m
    BY <2>1
  <2>3. PICK u \in Nat, v \in Nat : u = Len(a) /\ v = Len(b)
    BY <2>1, LenProperties
  <2>4. DOMAIN a = 1 .. u /\ DOMAIN b = 1 .. v
    BY <2>1, <2>3, LenProperties
  <2>5. u = n /\ v = m
    BY <1>2, <2>2, <2>4, <2>3
  <2> QED  BY <2>1, <2>3, <2>5
<1>6. /\ Len(a \o b) = n + m /\ a \o b \in Seq(EntityDelta)
      /\ \A k \in 1 .. n + m : (a \o b)[k] = IF k <= n THEN a[k] ELSE b[k - n]
  <2>1. a \in Seq(EntityDelta) /\ b \in Seq(EntityDelta) /\ Len(a) = n /\ Len(b) = m
    BY <1>5
  <2> QED  BY ONLY <2>1, ConcatProperties
<1>7. PICK c : c = InvertAll(ds \o es)
  OBVIOUS
<1>8. /\ c \in Seq(EntityDelta) /\ Len(c) = m + n
      /\ \A k \in 1 .. m + n : c[k] = Invert((ds \o es)[m + n + 1 - k])
  <2>1. c \in Seq(EntityDelta) /\ c = [k \in 1 .. m + n |-> Invert((ds \o es)[m + n + 1 - k])]
    BY <1>3, <1>7, InvertAllType DEF InvertAll
  <2>2. DOMAIN c = 1 .. Len(c) /\ Len(c) \in Nat
    BY <2>1, LenProperties
  <2>3. m + n \in Nat /\ DOMAIN c = 1 .. m + n
    BY <1>2, <2>1
  <2>4. Len(c) = m + n
    BY <2>2, <2>3
  <2> QED  BY <2>1, <2>4
<1>9. ASSUME NEW k \in 1 .. m + n PROVE c[k] = (a \o b)[k]
  <2>1. PICK j : j = m + n + 1 - k
    OBVIOUS
  <2>2. j \in 1 .. m + n /\ c[k] = Invert((ds \o es)[j])
    <3>1. j \in 1 .. m + n
      BY <1>2, <2>1
    <3> QED  BY <1>8, <2>1, <3>1
  <2>3. CASE k <= n
    <3>1. ~(j <= m) /\ j - m = n + 1 - k /\ k \in 1 .. n /\ k \in 1 .. n + m
      BY <1>2, <2>1, <2>3
    <3>2. (ds \o es)[j] = es[n + 1 - k]
      BY <1>3, <2>2, <3>1
    <3> QED  BY <1>5, <1>6, <2>2, <2>3, <3>1, <3>2
  <2>4. CASE ~(k <= n)
    <3>1. j <= m /\ k - n \in 1 .. m /\ m + 1 - (k - n) = j /\ k \in 1 .. n + m
      BY <1>2, <2>1, <2>4
    <3>2. (ds \o es)[j] = ds[j]
      BY <1>3, <2>2, <3>1
    <3>3. b[k - n] = Invert(ds[j])
      BY <1>5, <3>1
    <3> QED  BY <1>6, <2>2, <2>4, <3>1, <3>2, <3>3
  <2> QED  BY <2>3, <2>4
<1>10. c = a \o b
  <2>1. Len(c) = Len(a \o b) /\ \A k \in 1 .. Len(c) : c[k] = (a \o b)[k]
    BY <1>2, <1>6, <1>8, <1>9
  <2> QED  BY <1>6, <1>8, <2>1, SeqEqual
<1> QED  BY <1>4, <1>7, <1>10

\* The delta says what the graph holds.
Exact(g, d) ==
  /\ d.op = "delete" => d.record = g[d.id]
  /\ d.op = "update" => d.before = g[d.id].body

LEMMA InvertUndoes ==
  ASSUME NEW g \in Graph, NEW d \in EntityDelta, Applies(g, d), Exact(g, d)
  PROVE  Applies(Apply(g, d), Invert(d)) /\ Apply(Apply(g, d), Invert(d)) = g
<1>1. PICK h : h = Apply(g, d) /\ h \in Graph
  BY ApplyType
<1>2. CASE d \in CreateDelta
  <2>1. /\ d.op = "create" /\ d.id \in Entity /\ d.record \in EntityRecord
        /\ d.record # Absent
    BY <1>2, GraphAssumption DEF CreateDelta
  <2>2. g[d.id] = Absent /\ h = [g EXCEPT ![d.id] = d.record]
    BY <1>1, <2>1 DEF Applies, Apply
  <2>3. Applies(h, Delete(d.id, d.record)) /\ Apply(h, Delete(d.id, d.record)) = g
    BY <2>1, <2>2 DEF Applies, Apply, Delete, Graph
  <2> QED  BY <1>1, <2>1, <2>3 DEF Invert
<1>3. CASE d \in DeleteDelta
  <2>1. d.op = "delete" /\ d.id \in Entity /\ d.record = g[d.id]
    BY <1>3 DEF DeleteDelta, Exact
  <2>2. h = [g EXCEPT ![d.id] = Absent]
    BY <1>1, <2>1 DEF Apply
  <2>3. Applies(h, Create(d.id, d.record)) /\ Apply(h, Create(d.id, d.record)) = g
    BY <2>1, <2>2 DEF Applies, Apply, Create, Graph
  <2> QED  BY <1>1, <2>1, <2>3 DEF Invert
<1>4. CASE d \in UpdateDelta
  <2>1. /\ d.op = "update" /\ d.id \in Entity /\ d.before = g[d.id].body /\ d.after \in Body
        /\ g[d.id] # Absent
    BY <1>4 DEF UpdateDelta, Exact, Applies
  <2>2. PICK r \in EntityRecord : r = g[d.id]
    BY <2>1 DEF Graph
  <2>3. PICK s : s = [r EXCEPT !.body = d.after]
    OBVIOUS
  <2>4. h = [g EXCEPT ![d.id] = s]
    BY <1>1, <2>1, <2>2, <2>3 DEF Apply
  <2>5. s \in EntityRecord /\ s # Absent /\ [s EXCEPT !.body = r.body] = r
    BY <2>1, <2>2, <2>3, GraphAssumption DEF EntityRecord
  <2>6. h[d.id] = s
    BY <2>1, <2>4 DEF Graph
  <2>7. Applies(h, Update(d.id, d.after, d.before))
    BY <2>5, <2>6 DEF Applies, Update
  <2>8. Apply(h, Update(d.id, d.after, d.before)) = [h EXCEPT ![d.id] = r]
    BY <2>1, <2>2, <2>5, <2>6 DEF Apply, Update
  <2>9. [h EXCEPT ![d.id] = r] = g
    BY <2>1, <2>2, <2>4 DEF Graph
  <2> QED  BY <1>1, <2>1, <2>7, <2>8, <2>9 DEF Invert
<1> QED  BY <1>2, <1>3, <1>4 DEF EntityDelta

LEMMA OneIsUndone ==
  ASSUME NEW g \in Graph, NEW d \in EntityDelta, Exact(g, d), NEW h, Leads(g, <<d>>, h)
  PROVE  Leads(h, InvertAll(<<d>>), g)
<1>1. <<d>> \in Seq(EntityDelta) /\ Len(<<d>>) = 1 /\ <<d>>[1] = d
  OBVIOUS
<1>2. PICK R \in [1 .. Len(<<d>>) + 1 -> Graph] :
        Path(R, <<d>>) /\ R[1] = g /\ R[Len(<<d>>) + 1] = h
  BY DEF Leads
<1>3. Applies(g, d) /\ h = Apply(g, d) /\ h \in Graph
  <2>1. 1 \in 1 .. Len(<<d>>) /\ Len(<<d>>) + 1 = 1 + 1 /\ 1 + 1 \in 1 .. Len(<<d>>) + 1
    BY <1>1
  <2> QED  BY <1>1, <1>2, <2>1 DEF Path
<1>4. Applies(h, Invert(d)) /\ Apply(h, Invert(d)) = g
  BY <1>3, InvertUndoes
<1>5. InvertAll(<<d>>) = <<Invert(d)>>
  BY <1>1 DEF InvertAll
<1> QED  BY <1>3, <1>4, <1>5, InvertType, LeadsByOne

-----------------------------------------------------------------------------
(* An edit of several primitives, of which one may be named twice: each    *)
(* delta gives the body the primitive had before the command.              *)

Edited(g, ids, b, S) ==
  [e \in Entity |-> IF \E i \in S : ids[i] = e THEN [g[e] EXCEPT !.body = b] ELSE g[e]]

EditDeltas(g, ids, b) == [i \in DOMAIN ids |-> Update(ids[i], g[ids[i]].body, b)]

LEMMA EditedType ==
  ASSUME NEW g \in Graph, NEW ids \in Seq(Entity), NEW b \in Body,
         \A i \in DOMAIN ids : g[ids[i]] # Absent, NEW S \in SUBSET DOMAIN ids
  PROVE  Edited(g, ids, b, S) \in Graph
<1>1. ASSUME NEW e \in Entity, NEW i \in S, ids[i] = e
      PROVE  [g[e] EXCEPT !.body = b] \in EntityRecord
  <2>1. g[e] \in EntityRecord
    BY <1>1 DEF Graph
  <2> QED  BY <2>1 DEF EntityRecord
<1>2. \A e \in Entity : g[e] \in EntityRecord \cup {Absent}
  BY DEF Graph
<1> QED  BY <1>1, <1>2 DEF Edited, Graph

(* One delta more, forward or back.                                        *)
LEMMA EditsOne ==
  ASSUME NEW g \in Graph, NEW ids \in Seq(Entity), NEW b \in Body,
         \A i \in DOMAIN ids : g[ids[i]] # Absent, NEW S \in SUBSET DOMAIN ids,
         NEW j \in DOMAIN ids, NEW any
  PROVE  /\ Applies(Edited(g, ids, b, S), Update(ids[j], any, b))
         /\ Apply(Edited(g, ids, b, S), Update(ids[j], any, b))
              = Edited(g, ids, b, S \cup {j})
<1>1. PICK h \in Graph : h = Edited(g, ids, b, S)
  BY EditedType
<1>2. PICK x : x = ids[j]
  OBVIOUS
<1>3. x \in Entity /\ g[x] \in EntityRecord
  BY <1>2, ElementOfSeq DEF Graph
<1>4. h[x] = [g[x] EXCEPT !.body = b] \/ h[x] = g[x]
  BY <1>1, <1>3 DEF Edited
<1>5. h[x] # Absent /\ [h[x] EXCEPT !.body = b] = [g[x] EXCEPT !.body = b]
  BY <1>3, <1>4, GraphAssumption DEF EntityRecord
<1>6. Applies(h, Update(x, any, b))
  BY <1>5 DEF Applies, Update
<1>7. PICK k : k = [h EXCEPT ![x] = [g[x] EXCEPT !.body = b]]
  OBVIOUS
<1>8. Apply(h, Update(x, any, b)) = k
  BY <1>3, <1>5, <1>7 DEF Apply, Update
<1>9. PICK l \in Graph : l = Edited(g, ids, b, S \cup {j})
  BY EditedType
<1>10. ASSUME NEW e \in Entity PROVE k[e] = l[e]
  <2>1. CASE e = x
    <3>1. \E i \in S \cup {j} : ids[i] = e
      BY <1>2, <2>1
    <3>2. l[e] = [g[e] EXCEPT !.body = b]
      BY <1>9, <3>1 DEF Edited
    <3> QED  BY <1>1, <1>7, <2>1, <3>2 DEF Graph
  <2>2. CASE e # x
    <3>1. (\E i \in S \cup {j} : ids[i] = e) <=> (\E i \in S : ids[i] = e)
      BY <1>2, <2>2
    <3>2. l[e] = h[e]
      BY <1>1, <1>9, <3>1 DEF Edited
    <3> QED  BY <1>1, <1>7, <2>2, <3>2 DEF Graph
  <2> QED  BY <2>1, <2>2
<1>11. k = l
  BY <1>1, <1>7, <1>9, <1>10 DEF Graph
<1> QED  BY <1>1, <1>2, <1>6, <1>8, <1>9, <1>11

LEMMA UneditsOne ==
  ASSUME NEW g \in Graph, NEW ids \in Seq(Entity), NEW b \in Body,
         \A i \in DOMAIN ids : g[ids[i]] # Absent, NEW S \in SUBSET DOMAIN ids,
         NEW j \in DOMAIN ids, NEW x, x = ids[j],
         NEW T, T = {i \in S : ids[i] # x}
  PROVE  /\ Applies(Edited(g, ids, b, S), Update(x, b, g[x].body))
         /\ Apply(Edited(g, ids, b, S), Update(x, b, g[x].body)) = Edited(g, ids, b, T)
<1>1. PICK h \in Graph : h = Edited(g, ids, b, S)
  BY EditedType
<1>2. x = ids[j]
  OBVIOUS
<1>3. x \in Entity /\ g[x] \in EntityRecord
  BY <1>2, ElementOfSeq DEF Graph
<1>4. h[x] = [g[x] EXCEPT !.body = b] \/ h[x] = g[x]
  BY <1>1, <1>3 DEF Edited
<1>5. h[x] # Absent /\ [h[x] EXCEPT !.body = g[x].body] = g[x]
  BY <1>3, <1>4, GraphAssumption DEF EntityRecord
<1>6. Applies(h, Update(x, b, g[x].body))
  BY <1>5 DEF Applies, Update
<1>7. PICK k : k = [h EXCEPT ![x] = g[x]]
  OBVIOUS
<1>8. Apply(h, Update(x, b, g[x].body)) = k
  BY <1>3, <1>5, <1>7 DEF Apply, Update
<1>9. T \in SUBSET DOMAIN ids
  OBVIOUS
<1>10. PICK l \in Graph : l = Edited(g, ids, b, T)
  BY <1>9, EditedType
<1>11. ASSUME NEW e \in Entity PROVE k[e] = l[e]
  <2>1. CASE e = x
    <3>1. ~ \E i \in T : ids[i] = e
      BY <1>2, <2>1
    <3>2. l[e] = g[e]
      BY <1>10, <3>1 DEF Edited
    <3> QED  BY <1>1, <1>7, <2>1, <3>2 DEF Graph
  <2>2. CASE e # x
    <3>1. (\E i \in T : ids[i] = e) <=> (\E i \in S : ids[i] = e)
      BY <1>2, <2>2
    <3>2. l[e] = h[e]
      BY <1>1, <1>10, <3>1 DEF Edited
    <3> QED  BY <1>1, <1>7, <2>2, <3>2 DEF Graph
  <2> QED  BY <2>1, <2>2
<1>12. k = l
  BY <1>1, <1>7, <1>10, <1>11 DEF Graph
<1> QED  BY <1>1, <1>2, <1>6, <1>8, <1>10, <1>12

LEMMA EditedNothing ==
  ASSUME NEW g \in Graph, NEW ids, NEW b
  PROVE  Edited(g, ids, b, {}) = g
BY DEF Edited, Graph

LEMMA EditDeltasType ==
  ASSUME NEW g \in Graph, NEW ids \in Seq(Entity), NEW b \in Body,
         \A i \in DOMAIN ids : g[ids[i]] # Absent
  PROVE  /\ EditDeltas(g, ids, b) \in Seq(EntityDelta)
         /\ Len(EditDeltas(g, ids, b)) = Len(ids)
<1>1. ASSUME NEW i \in DOMAIN ids
      PROVE  Update(ids[i], g[ids[i]].body, b) \in EntityDelta
  <2>1. ids[i] \in Entity /\ g[ids[i]] \in EntityRecord
    BY ElementOfSeq, LenProperties DEF Graph
  <2> QED  BY <2>1 DEF Update, EntityDelta, UpdateDelta, EntityRecord
<1>2. DOMAIN ids = 1 .. Len(ids) /\ Len(ids) \in Nat
  BY LenProperties
<1>3. EditDeltas(g, ids, b) \in [1 .. Len(ids) -> EntityDelta]
  BY <1>1, <1>2 DEF EditDeltas
<1> QED  BY <1>2, <1>3, ListOf

LEMMA EditLeads ==
  ASSUME NEW g \in Graph, NEW ids \in Seq(Entity), NEW b \in Body,
         \A i \in DOMAIN ids : g[ids[i]] # Absent
  PROVE  Leads(g, EditDeltas(g, ids, b), Edited(g, ids, b, DOMAIN ids))
<1>1. PICK n : n = Len(ids) /\ n \in Nat /\ DOMAIN ids = 1 .. n
  BY LenProperties
<1>2. PICK ds : ds = EditDeltas(g, ids, b)
  OBVIOUS
<1>3. ds \in Seq(EntityDelta) /\ Len(ds) = n
  BY <1>1, <1>2, EditDeltasType
<1>4. PICK R : R = [k \in 1 .. n + 1 |-> Edited(g, ids, b, 1 .. (k - 1))]
  OBVIOUS
<1>5. ASSUME NEW k \in 1 .. n + 1 PROVE R[k] \in Graph
  <2>1. 1 .. (k - 1) \in SUBSET DOMAIN ids
    BY <1>1
  <2> QED  BY <1>4, <2>1, EditedType
<1>6. ASSUME NEW k \in 1 .. n
      PROVE  Applies(R[k], ds[k]) /\ R[k + 1] = Apply(R[k], ds[k])
  <2>1. /\ 1 .. (k - 1) \in SUBSET DOMAIN ids /\ k \in DOMAIN ids
        /\ k \in 1 .. n + 1 /\ k + 1 \in 1 .. n + 1 /\ (k + 1) - 1 = k
    BY <1>1
  <2>2. PICK S \in SUBSET DOMAIN ids : S = 1 .. (k - 1)
    BY <2>1
  <2>3. S \cup {k} = 1 .. k
    BY <1>1, <2>2
  <2>4. R[k] = Edited(g, ids, b, S) /\ R[k + 1] = Edited(g, ids, b, S \cup {k})
    BY <1>4, <2>1, <2>2, <2>3
  <2>5. PICK any : ds[k] = Update(ids[k], any, b)
    BY <1>2, <2>1 DEF EditDeltas
  <2> QED  BY <2>1, <2>4, <2>5, EditsOne
<1>7. R[1] = g
  <2>1. 1 .. (1 - 1) = {} /\ 1 \in 1 .. n + 1
    BY <1>1
  <2> QED  BY <1>4, <2>1, EditedNothing
<1>8. R[n + 1] = Edited(g, ids, b, DOMAIN ids)
  <2>1. (n + 1) - 1 = n /\ n + 1 \in 1 .. n + 1
    BY <1>1
  <2> QED  BY <1>1, <1>4, <2>1
<1>9. R \in [1 .. Len(ds) + 1 -> Graph]
  BY <1>3, <1>4, <1>5
<1>10. Path(R, ds)
  BY <1>3, <1>6, <1>9 DEF Path
<1> QED  BY <1>2, <1>3, <1>7, <1>8, <1>9, <1>10 DEF Leads

LEMMA EditLeadsBack ==
  ASSUME NEW g \in Graph, NEW ids \in Seq(Entity), NEW b \in Body,
         \A i \in DOMAIN ids : g[ids[i]] # Absent
  PROVE  Leads(Edited(g, ids, b, DOMAIN ids), InvertAll(EditDeltas(g, ids, b)), g)
<1>1. PICK n : n = Len(ids) /\ n \in Nat /\ DOMAIN ids = 1 .. n
  BY LenProperties
<1>2. PICK ds : ds = InvertAll(EditDeltas(g, ids, b))
  OBVIOUS
<1>3. /\ ds \in Seq(EntityDelta) /\ Len(ds) = n
      /\ \A k \in 1 .. n : ds[k] = Update(ids[n + 1 - k], b, g[ids[n + 1 - k]].body)
  <2>1. PICK es : es = EditDeltas(g, ids, b) /\ es \in Seq(EntityDelta) /\ Len(es) = n
    BY <1>1, EditDeltasType
  <2>2. ds \in Seq(EntityDelta) /\ ds = [k \in 1 .. n |-> Invert(es[n + 1 - k])]
    BY <1>2, <2>1, InvertAllType DEF InvertAll
  <2>3. Len(ds) \in Nat /\ DOMAIN ds = 1 .. Len(ds) /\ DOMAIN ds = 1 .. n
    BY <2>2, LenProperties
  <2>4. Len(ds) = n
    BY <1>1, <2>3
  <2>5. ASSUME NEW k \in 1 .. n
        PROVE  ds[k] = Update(ids[n + 1 - k], b, g[ids[n + 1 - k]].body)
    <3>1. PICK j \in DOMAIN ids : j = n + 1 - k
      BY <1>1
    <3>2. es[j] = Update(ids[j], g[ids[j]].body, b)
      BY <2>1 DEF EditDeltas
    <3>3. Invert(es[j]) = Update(ids[j], b, g[ids[j]].body)
      BY <3>2 DEF Invert, Update
    <3> QED  BY <2>2, <3>1, <3>3
  <2> QED  BY <2>2, <2>4, <2>5
<1>4. PICK left : left = [k \in 1 .. n + 1 |->
                            {i \in 1 .. n : \A j \in (n + 2 - k) .. n : ids[j] # ids[i]}]
  OBVIOUS
<1>5. PICK R : R = [k \in 1 .. n + 1 |-> Edited(g, ids, b, left[k])]
  OBVIOUS
<1>6. \A k \in 1 .. n + 1 : left[k] \in SUBSET DOMAIN ids
  BY <1>1, <1>4
<1>7. \A k \in 1 .. n + 1 : R[k] \in Graph
  BY <1>5, <1>6, EditedType
<1>8. ASSUME NEW k \in 1 .. n
      PROVE  Applies(R[k], ds[k]) /\ R[k + 1] = Apply(R[k], ds[k])
  <2>1. PICK j \in DOMAIN ids : j = n + 1 - k
    BY <1>1
  <2>2. k \in 1 .. n + 1 /\ k + 1 \in 1 .. n + 1 /\ n + 2 - (k + 1) = j /\ n + 2 - k = j + 1
    BY <1>1, <2>1
  <2>3. PICK S, T : S = left[k] /\ T = left[k + 1]
    OBVIOUS
  <2>4. /\ S = {i \in 1 .. n : \A m \in (j + 1) .. n : ids[m] # ids[i]}
        /\ T = {i \in 1 .. n : \A m \in j .. n : ids[m] # ids[i]}
    BY <1>4, <2>2, <2>3
  <2>5. \A m \in j .. n : m = j \/ m \in (j + 1) .. n
    BY <1>1, <2>1
  <2>6. j \in j .. n /\ \A m \in (j + 1) .. n : m \in j .. n
    BY <1>1, <2>1
  <2>7. PICK x : x = ids[j]
    OBVIOUS
  <2>8. T = {i \in S : ids[i] # x}
    BY <2>4, <2>5, <2>6, <2>7
  <2>9. S \in SUBSET DOMAIN ids
    BY <1>6, <2>2, <2>3
  <2>10. R[k] = Edited(g, ids, b, S) /\ R[k + 1] = Edited(g, ids, b, T)
    BY <1>5, <2>2, <2>3
  <2>11. ds[k] = Update(x, b, g[x].body)
    BY <1>3, <2>1, <2>7
  <2>12. /\ Applies(Edited(g, ids, b, S), Update(x, b, g[x].body))
         /\ Apply(Edited(g, ids, b, S), Update(x, b, g[x].body)) = Edited(g, ids, b, T)
    <3>1. \A i \in DOMAIN ids : g[ids[i]] # Absent
      OBVIOUS
    <3> QED  BY <2>1, <2>7, <2>8, <2>9, <3>1, UneditsOne
  <2> QED  BY <2>10, <2>11, <2>12
<1>9. R[1] = Edited(g, ids, b, DOMAIN ids)
  <2>1. (n + 2 - 1) .. n = {} /\ 1 \in 1 .. n + 1
    BY <1>1
  <2>2. left[1] = 1 .. n
    BY <1>4, <2>1
  <2> QED  BY <1>1, <1>5, <2>1, <2>2
<1>10. R[n + 1] = g
  <2>1. n + 2 - (n + 1) = 1 /\ n + 1 \in 1 .. n + 1
    BY <1>1
  <2>2. left[n + 1] = {}
    BY <1>4, <2>1
  <2> QED  BY <1>5, <2>1, <2>2, EditedNothing
<1>11. R \in [1 .. Len(ds) + 1 -> Graph]
  BY <1>3, <1>5, <1>7
<1>12. Path(R, ds)
  BY <1>3, <1>8, <1>11 DEF Path
<1> QED  BY <1>2, <1>3, <1>9, <1>10, <1>11, <1>12 DEF Leads

(* The inverse of what a command computes undoes it.                       *)
LEMMA CommandIsUndone ==
  ASSUME NEW g \in Graph, NEW c \in Command, Computes(g, c), NEW h, Leads(g, Deltas(g, c), h)
  PROVE  Leads(h, InvertAll(Deltas(g, c)), g)
<1>1. c \in TypedCommand /\ Deltas(g, c) \in Seq(EntityDelta)
  BY EngineAssumption, DeltasType
<1>2. ASSUME NEW d, Deltas(g, c) = <<d>>, Exact(g, d)
      PROVE  Leads(h, InvertAll(Deltas(g, c)), g)
  <2>1. <<d>> \in Seq(EntityDelta) /\ <<d>>[1] = d /\ Len(<<d>>) = 1
    BY <1>1, <1>2
  <2>2. d \in EntityDelta
    BY <2>1, ElementOfSeq
  <2> QED  BY <1>2, <2>2, OneIsUndone
<1>3. CASE c.tool \in {"create", "draw", "copy", "place"}
  <2>1. \E r : Deltas(g, c) = <<Create(c.id, r)>>
    BY <1>3 DEF Deltas
  <2> QED  BY <1>2, <2>1 DEF Exact, Create
<1>4. CASE c.tool = "modify"
  <2>1. Deltas(g, c) = <<Update(c.id, g[c.id].body, c.body)>>
    BY <1>4 DEF Deltas
  <2> QED  BY <1>2, <2>1 DEF Exact, Update
<1>5. CASE c.tool = "delete"
  <2>1. Deltas(g, c) = <<Delete(c.id, g[c.id])>>
    BY <1>5 DEF Deltas
  <2> QED  BY <1>2, <2>1 DEF Exact, Delete
<1>6. CASE c.tool = "edit"
  <2>1. c.ids \in Seq(Entity) /\ c.body \in Body /\ ArePrimitives(g, c.ids)
    BY <1>1, <1>6 DEF TypedCommand, Computes
  <2>2. \A i \in DOMAIN c.ids : g[c.ids[i]] # Absent
    BY <2>1 DEF ArePrimitives, Present
  <2>3. Deltas(g, c) = EditDeltas(g, c.ids, c.body)
    BY <1>6 DEF Deltas, EditDeltas
  <2>4. PICK l : l = Edited(g, c.ids, c.body, DOMAIN c.ids)
    OBVIOUS
  <2>5. Leads(g, Deltas(g, c), l)
    BY <2>1, <2>2, <2>3, <2>4, EditLeads
  <2>6. h = l
    BY <1>1, <2>5, LeadsOnce
  <2> QED  BY <2>1, <2>2, <2>3, <2>4, <2>6, EditLeadsBack
<1>7. CASE c.tool = "set_lighting"
  <2>1. Deltas(g, c) = <<>>
    BY <1>7 DEF Deltas
  <2>2. Leads(g, <<>>, g) /\ <<>> \in Seq(EntityDelta)
    BY LeadsNowhere
  <2>3. h = g
    BY <2>1, <2>2, LeadsOnce
  <2>4. InvertAll(<<>>) = <<>>
    BY DEF InvertAll
  <2> QED  BY <2>1, <2>2, <2>3, <2>4
<1> QED  BY <1>1, <1>3, <1>4, <1>5, <1>6, <1>7 DEF TypedCommand

-----------------------------------------------------------------------------
(* Which rows of the journal a loop over all of them picks.                *)

\* The members of S in ascending order.
Enumerates(at, S) ==
  /\ at \in Seq(S)
  /\ \A m, n \in 1 .. Len(at) : m < n => at[m] < at[n]
  /\ \A i \in S : \E n \in 1 .. Len(at) : at[n] = i

\* How many of them there are up to each number.
Counts(count, at, S, N) ==
  /\ count \in [0 .. N -> 0 .. Len(at)]
  /\ count[0] = 0 /\ count[N] = Len(at)
  /\ \A k \in 1 .. N :
       /\ k \in S => count[k] = count[k - 1] + 1 /\ at[count[k]] = k
       /\ k \notin S => count[k] = count[k - 1]

LEMMA CountingOn ==
  ASSUME NEW N \in Nat, NEW S \in SUBSET (1 .. N), NEW at, Enumerates(at, S)
  PROVE  \E count : Counts(count, at, S, N)
<1> DEFINE UpTo(k, c) == \A n \in 1 .. Len(at) : at[n] <= k <=> n <= c
<1>1. /\ Len(at) \in Nat
      /\ \A n \in 1 .. Len(at) : at[n] \in S /\ at[n] \in 1 .. N
  BY LenProperties, ElementOfSeq DEF Enumerates
<1>2. ASSUME NEW k \in 0 .. N PROVE \E c \in 0 .. Len(at) : UpTo(k, c)
  <2>1. PICK T : T = {n \in 1 .. Len(at) : k < at[n]}
    OBVIOUS
  <2>2. CASE T = {}
    <3>1. UpTo(k, Len(at))
      BY <1>1, <2>1, <2>2
    <3>2. PICK c \in 0 .. Len(at) : c = Len(at)
      BY <1>1
    <3>3. UpTo(k, c)
      BY <3>1, <3>2
    <3> QED  BY <3>3
  <2>3. CASE T # {}
    <3>1. T \in SUBSET Nat
      BY <2>1
    <3>2. PICK m \in T : \A n \in T : m <= n
      BY <2>3, <3>1, Least
    <3>3. m \in 1 .. Len(at) /\ k < at[m]
      BY <2>1, <3>2
    <3>4. ASSUME NEW n \in 1 .. Len(at) PROVE at[n] <= k <=> n <= m - 1
      <4>1. CASE n < m
        <5>1. n \notin T /\ n <= m - 1
          BY <1>1, <3>2, <3>3, <4>1
        <5> QED  BY <1>1, <2>1, <5>1
      <4>2. CASE n = m
        BY <1>1, <3>3, <4>2
      <4>3. CASE m < n
        <5>1. at[m] < at[n]
          BY <3>3, <4>3 DEF Enumerates
        <5> QED  BY <1>1, <3>3, <4>3, <5>1
      <4> QED  BY <3>3, <4>1, <4>2, <4>3
    <3>5. m - 1 \in 0 .. Len(at)
      BY <1>1, <3>3
    <3> QED  BY <3>4, <3>5
  <2> QED  BY <2>2, <2>3
<1>3. PICK count : count = [k \in 0 .. N |-> CHOOSE c \in 0 .. Len(at) : UpTo(k, c)]
  OBVIOUS
<1>4. \A k \in 0 .. N : count[k] \in 0 .. Len(at) /\ UpTo(k, count[k])
  BY <1>2, <1>3
<1>5. \A k \in 0 .. N : count[k] \in 0 .. Len(at)
                       /\ \A n \in 1 .. Len(at) : at[n] <= k <=> n <= count[k]
  BY <1>4
<1> HIDE DEF UpTo
<1>6. count[0] = 0
  <2>1. 0 \in 0 .. N
    OBVIOUS
  <2>2. CASE count[0] # 0
    <3>1. PICK n \in 1 .. Len(at) : n = count[0]
      BY <1>1, <1>5, <2>1, <2>2
    <3>2. at[n] <= 0
      BY <1>5, <2>1, <3>1
    <3> QED  BY <1>1, <3>2
  <2> QED  BY <2>2
<1>7. count[N] = Len(at)
  <2>1. N \in 0 .. N
    OBVIOUS
  <2>2. CASE count[N] # Len(at)
    <3>1. Len(at) \in 1 .. Len(at) /\ ~(Len(at) <= count[N])
      BY <1>1, <1>5, <2>1, <2>2
    <3> QED  BY <1>1, <1>5, <2>1, <3>1
  <2> QED  BY <2>2
<1>8. ASSUME NEW k \in 1 .. N
      PROVE  /\ k \in S => count[k] = count[k - 1] + 1 /\ at[count[k]] = k
             /\ k \notin S => count[k] = count[k - 1]
  <2>1. PICK c, d : c = count[k - 1] /\ d = count[k]
    OBVIOUS
  <2>2. k - 1 \in 0 .. N /\ k \in 0 .. N
    OBVIOUS
  <2>3. c \in 0 .. Len(at) /\ d \in 0 .. Len(at)
    BY <1>5, <2>1, <2>2
  <2>4. \A n \in 1 .. Len(at) : (at[n] <= k - 1 <=> n <= c) /\ (at[n] <= k <=> n <= d)
    BY <1>5, <2>1, <2>2
  <2>5. CASE k \in S
    <3>1. PICK n \in 1 .. Len(at) : at[n] = k
      BY <2>5 DEF Enumerates
    <3>2. n <= d /\ ~(n <= c)
      BY <2>4, <3>1
    <3>3. n - 1 <= c
      <4>1. CASE n = 1
        BY <2>3, <4>1
      <4>2. CASE n # 1
        <5>1. PICK m \in 1 .. Len(at) : m = n - 1
          BY <1>1, <4>2
        <5>2. at[m] < at[n]
          BY <5>1 DEF Enumerates
        <5>3. at[m] <= k - 1
          BY <1>1, <3>1, <5>2
        <5> QED  BY <2>4, <5>1, <5>3
      <4> QED  BY <4>1, <4>2
    <3>4. ~(n < d)
      <4>1. ASSUME n < d PROVE FALSE
        <5>1. d \in 1 .. Len(at)
          BY <1>1, <2>3, <4>1
        <5>2. at[n] < at[d] /\ at[d] <= k
          BY <2>4, <2>3, <4>1, <5>1 DEF Enumerates
        <5> QED  BY <1>1, <3>1, <5>1, <5>2
      <4> QED  BY <4>1
    <3>5. d = n /\ c = n - 1
      BY <2>3, <3>2, <3>3, <3>4
    <3> QED  BY <2>1, <2>5, <3>1, <3>5
  <2>6. CASE k \notin S
    <3>1. \A n \in 1 .. Len(at) : at[n] # k
      BY <1>1, <2>6
    <3>2. \A n \in 1 .. Len(at) : n <= c <=> n <= d
      BY <1>1, <2>4, <3>1
    <3>3. ~(c < d)
      <4>1. ASSUME c < d PROVE FALSE
        <5>1. d \in 1 .. Len(at)
          BY <1>1, <2>3, <4>1
        <5> QED  BY <2>3, <3>2, <4>1, <5>1
      <4> QED  BY <4>1
    <3>4. ~(d < c)
      <4>1. ASSUME d < c PROVE FALSE
        <5>1. c \in 1 .. Len(at)
          BY <1>1, <2>3, <4>1
        <5> QED  BY <2>3, <3>2, <4>1, <5>1
      <4> QED  BY <4>1
    <3> QED  BY <2>1, <2>3, <2>6, <3>3, <3>4
  <2> QED  BY <2>5, <2>6
<1>9. count \in [0 .. N -> 0 .. Len(at)]
  BY <1>3, <1>5
<1> QED  BY <1>6, <1>7, <1>8, <1>9 DEF Counts

\* The rows that are on the stack that the flag names.
Marked(flag) == {i \in 1 .. Len(rows) : rows[i].live /\ rows[i].superseded = flag}

(* The loop of `load` collects their entries in that order.                *)
LEMMA LoadingFollows ==
  ASSUME rows \in Seq(Row), NEW flag \in BOOLEAN, NEW at, Enumerates(at, Marked(flag))
  PROVE  /\ OnDisk(flag) = [n \in 1 .. Len(at) |-> rows[at[n]].entry]
         /\ Loading(flag)[0] = <<>>
         /\ \A k \in 1 .. Len(rows) :
              Loading(flag)[k] = IF rows[k].live /\ rows[k].superseded = flag
                                 THEN Append(Loading(flag)[k - 1], rows[k].entry)
                                 ELSE Loading(flag)[k - 1]
<1>1. PICK N : N = Len(rows) /\ N \in Nat
  BY LenProperties
<1>2. PICK S \in SUBSET (1 .. N) : S = Marked(flag)
  BY <1>1 DEF Marked
<1>3. PICK count : Counts(count, at, S, N)
  BY <1>1, <1>2, CountingOn
<1>4. Len(at) \in Nat /\ \A n \in 1 .. Len(at) : at[n] \in S
  BY <1>2, LenProperties, ElementOfSeq DEF Enumerates
<1>5. \A i \in S : rows[i].entry \in JournalEntry
  <2>1. ASSUME NEW i \in S PROVE rows[i].entry \in JournalEntry
    <3>1. PICK r \in Row : r = rows[i] /\ r.live
      BY <1>1, <1>2, ElementOfSeq DEF Marked
    <3>2. r # NoRow
      BY <3>1 DEF NoRow
    <3>3. r \in [live: {TRUE}, superseded: BOOLEAN, entry: JournalEntry]
      BY <3>1, <3>2 DEF Row
    <3> QED  BY <3>1, <3>3
  <2> QED  BY <2>1
<1>6. PICK T : T = [k \in 0 .. N |-> [n \in 1 .. count[k] |-> rows[at[n]].entry]]
  OBVIOUS
<1>7. T[0] = <<>>
  <2>1. count[0] = 0 /\ 0 \in 0 .. N
    BY <1>1, <1>3 DEF Counts
  <2>2. T[0] = [n \in 1 .. 0 |-> rows[at[n]].entry]
    BY <1>6, <2>1
  <2> QED  BY <2>2
<1>8. ASSUME NEW k \in 1 .. N
      PROVE  T[k] = IF rows[k].live /\ rows[k].superseded = flag
                    THEN Append(T[k - 1], rows[k].entry) ELSE T[k - 1]
  <2>1. k \in 0 .. N /\ k - 1 \in 0 .. N
    BY <1>1
  <2>2. PICK c \in 0 .. Len(at) : c = count[k - 1]
    BY <1>3, <2>1 DEF Counts
  <2>3. T[k - 1] = [n \in 1 .. c |-> rows[at[n]].entry]
    BY <1>6, <2>1, <2>2
  <2>4. T[k] = [n \in 1 .. count[k] |-> rows[at[n]].entry]
    BY <1>6, <2>1
  <2>5. k \in S <=> rows[k].live /\ rows[k].superseded = flag
    BY <1>1, <1>2 DEF Marked
  <2>6. CASE k \in S
    <3>1. count[k] = c + 1 /\ at[c + 1] = k
      BY <1>3, <2>2, <2>6 DEF Counts
    <3>2. PICK f : f = T[k - 1]
      OBVIOUS
    <3>3. \A n \in 1 .. c : n \in 1 .. Len(at)
      BY <1>4, <2>2
    <3>4. f \in [1 .. c -> JournalEntry] /\ c \in Nat
      <4>1. \A n \in 1 .. c : rows[at[n]].entry \in JournalEntry
        BY <1>4, <1>5, <3>3
      <4> QED  BY <2>2, <2>3, <3>2, <4>1
    <3>5. f \in Seq(JournalEntry) /\ Len(f) = c
      BY <3>4, ListOf
    <3>6. rows[k].entry \in JournalEntry
      BY <1>5, <2>6
    <3>7. PICK h : h = Append(f, rows[k].entry)
      OBVIOUS
    <3>8. /\ h \in Seq(JournalEntry) /\ Len(h) = c + 1
          /\ \A n \in 1 .. c : h[n] = f[n]
          /\ h[c + 1] = rows[k].entry
      BY <3>5, <3>6, <3>7, AppendProperties
    <3>9. DOMAIN h = 1 .. c + 1 /\ h = [n \in 1 .. c + 1 |-> h[n]]
      BY <3>8, LenProperties
    <3>10. \A n \in 1 .. c + 1 : h[n] = rows[at[n]].entry
      <4>1. ASSUME NEW n \in 1 .. c + 1 PROVE h[n] = rows[at[n]].entry
        <5>1. CASE n = c + 1
          BY <3>1, <3>8, <5>1
        <5>2. CASE n # c + 1
          <6>1. n \in 1 .. c
            BY <2>2, <5>2
          <6> QED  BY <2>3, <3>2, <3>8, <6>1
        <5> QED  BY <5>1, <5>2
      <4> QED  BY <4>1
    <3>11. T[k] = h
      BY <2>4, <3>1, <3>9, <3>10
    <3> QED  BY <2>5, <2>6, <3>2, <3>7, <3>11
  <2>7. CASE k \notin S
    <3>1. count[k] = c
      BY <1>3, <2>2, <2>7 DEF Counts
    <3> QED  BY <2>3, <2>4, <2>5, <2>7, <3>1
  <2> QED  BY <2>6, <2>7
<1>9. T = [k \in 0 .. Len(rows) |->
             IF k = 0 THEN <<>>
             ELSE IF rows[k].live /\ rows[k].superseded = flag
                  THEN Append(T[k - 1], rows[k].entry) ELSE T[k - 1]]
  <2>1. ASSUME NEW k \in 0 .. N
        PROVE  T[k] = IF k = 0 THEN <<>>
                      ELSE IF rows[k].live /\ rows[k].superseded = flag
                           THEN Append(T[k - 1], rows[k].entry) ELSE T[k - 1]
    <3>1. CASE k = 0
      BY <1>7, <3>1
    <3>2. CASE k # 0
      <4>1. k \in 1 .. N
        BY <1>1, <3>2
      <4> QED  BY <1>8, <3>2, <4>1
    <3> QED  BY <3>1, <3>2
  <2>2. T = [k \in 0 .. N |-> T[k]]
    BY <1>6
  <2> QED  BY <1>1, <2>1, <2>2
<1> DEFINE U == Loading(flag)
<1>10. U = [k \in 0 .. Len(rows) |->
              IF k = 0 THEN <<>>
              ELSE IF rows[k].live /\ rows[k].superseded = flag
                   THEN Append(U[k - 1], rows[k].entry) ELSE U[k - 1]]
  BY <1>9 DEF Loading, Successive
<1>11. U[N] = OnDisk(flag)
  BY <1>1 DEF OnDisk
<1> HIDE DEF U
<1>12. PICK V : V = U
  OBVIOUS
<1>13. V[0] = <<>>
  BY <1>1, <1>10, <1>12
<1>14. \A k \in 1 .. N :
         V[k] = IF rows[k].live /\ rows[k].superseded = flag
                THEN Append(V[k - 1], rows[k].entry) ELSE V[k - 1]
  <2>1. \A k \in 1 .. N : k \in 0 .. Len(rows) /\ k # 0
    BY <1>1
  <2> QED  BY <1>10, <1>12, <2>1
<1>15. GoOnAlike(V, T, N)
  BY <1>8, <1>14 DEF GoOnAlike
<1>16. \A k \in 0 .. N : V[k] = T[k]
  BY <1>1, <1>7, <1>13, <1>15, SameFromStart
<1>17. V[N] = [n \in 1 .. Len(at) |-> rows[at[n]].entry]
  BY <1>1, <1>3, <1>6, <1>16 DEF Counts
<1> QED  BY <1>1, <1>11, <1>12, <1>13, <1>14, <1>17 DEF U

-----------------------------------------------------------------------------
(* What the journal tells, while no open has loaded two redo rows: the     *)
(* entries on disk lead along the line of the project's states.            *)

Line ==
  [n \in 1 .. Len(past) + 1 + Len(future) |->
     IF n <= Len(past) THEN past[n]
     ELSE IF n = Len(past) + 1 THEN entities ELSE future[n - (Len(past) + 1)]]

EntryAt(at, n) == rows[at[n]].entry

Story(at) ==
  /\ past \in Seq(Graph) /\ future \in Seq(Graph)
  /\ Enumerates(at, {i \in 1 .. Len(rows) : rows[i].live})
  /\ Len(at) = Len(past) + Len(future)
  /\ \A n \in 1 .. Len(at) : rows[at[n]].superseded <=> n > Len(past)
  /\ \A n \in 1 .. Len(at) :
       /\ Leads(Line[n], EntryAt(at, n).forward, Line[n + 1])
       /\ Leads(Line[n + 1], EntryAt(at, n).inverse, Line[n])
  /\ Line[1] = EmptyGraph

\* The ids that entries on disk can have: those of commands before the call.
Minted == IF pc \in {"walk", "tx", "commit"} /\ call.op = "record" THEN issued - 1 ELSE issued

Issuing(at) ==
  /\ Len(at) <= Minted
  /\ \A n \in 1 .. Len(at) : EntryAt(at, n).cid <= Minted
  /\ \A m, n \in 1 .. Len(at) : EntryAt(at, m).cid = EntryAt(at, n).cid => m = n

\* The stacks hold the entries behind and ahead of the present.
Stacks(at, un, re) ==
  /\ un \in Seq(JournalEntry) /\ re \in Seq(JournalEntry)
  /\ Len(un) <= Len(past) /\ Len(past) - Len(un) <= Trimmed
  /\ \A k \in 1 .. Len(un) : un[k] = EntryAt(at, (Len(past) - Len(un)) + k)
  /\ Len(re) = Len(future)
  /\ \A k \in 1 .. Len(re) : re[k] = EntryAt(at, (Len(at) + 1) - k)

LEMMA LiveRows ==
  ASSUME TypeOK, NEW i \in 1 .. Len(rows), rows[i].live
  PROVE  /\ rows[i] \in [live: {TRUE}, superseded: BOOLEAN, entry: JournalEntry]
         /\ rows[i].superseded \in BOOLEAN /\ rows[i].entry \in JournalEntry
         /\ rows[i].entry.forward \in Seq(EntityDelta)
         /\ rows[i].entry.inverse \in Seq(EntityDelta)
         /\ rows[i].entry.cid \in Nat
<1>1. PICK r \in Row : r = rows[i] /\ r.live
  BY ElementOfSeq DEF TypeOK
<1>2. r # NoRow
  BY <1>1 DEF NoRow
<1>3. r \in [live: {TRUE}, superseded: BOOLEAN, entry: JournalEntry]
  BY <1>1, <1>2 DEF Row
<1>4. r.superseded \in BOOLEAN /\ r.entry \in JournalEntry
  BY <1>3
<1>5. /\ r.entry.forward \in Seq(EntityDelta) /\ r.entry.inverse \in Seq(EntityDelta)
      /\ r.entry.cid \in Nat
  BY <1>4 DEF JournalEntry
<1> QED  BY <1>1, <1>3, <1>4, <1>5

\* What Story says of lengths and places.
LEMMA Places ==
  ASSUME TypeOK, NEW at, Story(at)
  PROVE  /\ Len(past) \in Nat /\ Len(future) \in Nat /\ Len(at) \in Nat /\ Len(rows) \in Nat
         /\ Len(at) = Len(past) + Len(future)
         /\ \A n \in 1 .. Len(at) : at[n] \in 1 .. Len(rows) /\ rows[at[n]].live
         /\ \A n \in 1 .. Len(at) : EntryAt(at, n) \in JournalEntry
         /\ \A m, n \in 1 .. Len(at) : m < n => at[m] < at[n]
         /\ \A n \in 1 .. Len(past) + 1 + Len(future) : Line[n] \in Graph
         /\ Line[Len(past) + 1] = entities
<1>1. /\ Len(past) \in Nat /\ Len(future) \in Nat /\ Len(rows) \in Nat
      /\ Len(at) = Len(past) + Len(future)
  BY LenProperties DEF Story, TypeOK
<1>2. Len(at) \in Nat
  BY <1>1
<1>3. \A n \in 1 .. Len(at) : at[n] \in {i \in 1 .. Len(rows) : rows[i].live}
  BY ElementOfSeq DEF Story, Enumerates
<1>4. \A n \in 1 .. Len(at) : EntryAt(at, n) \in JournalEntry
  BY <1>3, LiveRows DEF EntryAt
<1>5. ASSUME NEW n \in 1 .. Len(past) + 1 + Len(future) PROVE Line[n] \in Graph
  <2>1. CASE n <= Len(past)
    <3>1. n \in 1 .. Len(past)
      BY <1>1, <2>1
    <3>2. past[n] \in Graph
      BY <3>1, ElementOfSeq DEF Story
    <3> QED  BY <2>1, <3>2 DEF Line
  <2>2. CASE n = Len(past) + 1
    <3>1. ~(n <= Len(past))
      BY <1>1, <2>2
    <3> QED  BY <2>2, <3>1 DEF Line, TypeOK
  <2>3. CASE ~(n <= Len(past)) /\ n # Len(past) + 1
    <3>1. PICK m \in 1 .. Len(future) : m = n - (Len(past) + 1)
      <4>1. n - (Len(past) + 1) \in 1 .. Len(future)
        BY <1>1, <2>3
      <4> QED  BY <4>1
    <3>2. future[m] \in Graph
      BY ElementOfSeq DEF Story
    <3> QED  BY <2>3, <3>1, <3>2 DEF Line
  <2> QED  BY <2>1, <2>2, <2>3
<1>6. Line[Len(past) + 1] = entities
  <2>1. ~(Len(past) + 1 <= Len(past)) /\ Len(past) + 1 \in 1 .. Len(past) + 1 + Len(future)
    BY <1>1
  <2> QED  BY <2>1 DEF Line
<1>7. \A m, n \in 1 .. Len(at) : m < n => at[m] < at[n]
  BY DEF Story, Enumerates
<1> QED  BY <1>1, <1>2, <1>3, <1>4, <1>5, <1>6, <1>7

\* The undo rows are the first ones, the redo rows the others.
LEMMA UndoRows ==
  ASSUME TypeOK, NEW at, Story(at),
         NEW first, first = [n \in 1 .. Len(past) |-> at[n]]
  PROVE  Enumerates(first, Marked(FALSE)) /\ Len(first) = Len(past)
<1>1. /\ Len(past) \in Nat /\ Len(future) \in Nat /\ Len(at) = Len(past) + Len(future)
      /\ \A n \in 1 .. Len(at) : at[n] \in 1 .. Len(rows) /\ rows[at[n]].live
  BY Places
<1>2. \A n \in 1 .. Len(past) : n \in 1 .. Len(at)
  BY <1>1
<1>3. \A n \in 1 .. Len(at) : rows[at[n]].superseded \in BOOLEAN
  BY <1>1, LiveRows
<1>4. \A n \in 1 .. Len(at) : rows[at[n]].superseded <=> n > Len(past)
  BY DEF Story
<1>5. \A n \in 1 .. Len(past) : first[n] \in Marked(FALSE)
  <2>1. ASSUME NEW n \in 1 .. Len(past) PROVE at[n] \in Marked(FALSE)
    <3>1. n \in 1 .. Len(at) /\ ~(n > Len(past))
      BY <1>1
    <3>2. rows[at[n]].superseded = FALSE
      BY <1>3, <1>4, <3>1
    <3> QED  BY <1>1, <3>1, <3>2 DEF Marked
  <2> QED  BY <2>1
<1>6. first \in Seq(Marked(FALSE)) /\ Len(first) = Len(past)
  <2>1. PICK p \in Nat : p = Len(past)
    BY <1>1
  <2>2. PICK M : M = Marked(FALSE)
    OBVIOUS
  <2>3. first \in [1 .. p -> M]
    BY <1>5, <2>1, <2>2
  <2>4. first \in Seq(M) /\ Len(first) = p
    BY ONLY <2>1, <2>3, ListOf
  <2> QED  BY <2>1, <2>2, <2>4
<1>7. \A m, n \in 1 .. Len(first) : m < n => first[m] < first[n]
  BY <1>2, <1>6, Places
<1>8. ASSUME NEW i \in Marked(FALSE) PROVE \E n \in 1 .. Len(first) : first[n] = i
  <2>1. i \in 1 .. Len(rows) /\ rows[i].live /\ rows[i].superseded = FALSE
    BY DEF Marked
  <2>2. PICK n \in 1 .. Len(at) : at[n] = i
    BY <2>1 DEF Story, Enumerates
  <2>3. ~(n > Len(past))
    BY <1>4, <2>1, <2>2
  <2>4. n \in 1 .. Len(past)
    BY <1>1, <2>3
  <2> QED  BY <1>6, <2>2, <2>4
<1> QED  BY <1>6, <1>7, <1>8 DEF Enumerates

LEMMA RedoRows ==
  ASSUME TypeOK, NEW at, Story(at),
         NEW rest, rest = [n \in 1 .. Len(future) |-> at[Len(past) + n]]
  PROVE  Enumerates(rest, Marked(TRUE)) /\ Len(rest) = Len(future)
<1>1. /\ Len(past) \in Nat /\ Len(future) \in Nat /\ Len(at) = Len(past) + Len(future)
      /\ \A n \in 1 .. Len(at) : at[n] \in 1 .. Len(rows) /\ rows[at[n]].live
  BY Places
<1>2. \A n \in 1 .. Len(future) : Len(past) + n \in 1 .. Len(at)
  BY <1>1
<1>3. \A n \in 1 .. Len(at) : rows[at[n]].superseded \in BOOLEAN
  BY <1>1, LiveRows
<1>4. \A n \in 1 .. Len(at) : rows[at[n]].superseded <=> n > Len(past)
  BY DEF Story
<1>5. \A n \in 1 .. Len(future) : rest[n] \in Marked(TRUE)
  <2>1. ASSUME NEW n \in 1 .. Len(future) PROVE at[Len(past) + n] \in Marked(TRUE)
    <3>1. PICK m \in 1 .. Len(at) : m = Len(past) + n /\ m > Len(past)
      BY <1>1
    <3>2. rows[at[m]].superseded = TRUE
      BY <1>3, <1>4, <3>1
    <3> QED  BY <1>1, <3>1, <3>2 DEF Marked
  <2> QED  BY <2>1
<1>6. rest \in Seq(Marked(TRUE)) /\ Len(rest) = Len(future)
  <2>1. PICK p \in Nat : p = Len(future)
    BY <1>1
  <2>2. PICK M : M = Marked(TRUE)
    OBVIOUS
  <2>3. rest \in [1 .. p -> M]
    BY <1>5, <2>1, <2>2
  <2>4. rest \in Seq(M) /\ Len(rest) = p
    BY ONLY <2>1, <2>3, ListOf
  <2> QED  BY <2>1, <2>2, <2>4
<1>7. \A m, n \in 1 .. Len(rest) : m < n => rest[m] < rest[n]
  <2>1. ASSUME NEW m \in 1 .. Len(rest), NEW n \in 1 .. Len(rest), m < n
        PROVE  rest[m] < rest[n]
    <3>1. PICK k, l : k = Len(past) + m /\ l = Len(past) + n
      OBVIOUS
    <3>2. k \in 1 .. Len(at) /\ l \in 1 .. Len(at) /\ k < l
      BY <1>1, <1>6, <2>1, <3>1
    <3>3. at[k] < at[l]
      BY <3>2, Places
    <3> QED  BY <1>6, <3>1, <3>3
  <2> QED  BY <2>1
<1>8. ASSUME NEW i \in Marked(TRUE) PROVE \E n \in 1 .. Len(rest) : rest[n] = i
  <2>1. i \in 1 .. Len(rows) /\ rows[i].live /\ rows[i].superseded = TRUE
    BY DEF Marked
  <2>2. PICK n \in 1 .. Len(at) : at[n] = i
    BY <2>1 DEF Story, Enumerates
  <2>3. n > Len(past)
    BY <1>4, <2>1, <2>2
  <2>4. PICK m \in 1 .. Len(future) : m = n - Len(past) /\ Len(past) + m = n
    <3>1. n - Len(past) \in 1 .. Len(future) /\ Len(past) + (n - Len(past)) = n
      BY <1>1, <2>2, <2>3
    <3> QED  BY <3>1
  <2> QED  BY <1>6, <2>2, <2>4
<1> QED  BY <1>6, <1>7, <1>8 DEF Enumerates

LEMMA EntriesOnDisk ==
  ASSUME TypeOK, NEW at, Story(at)
  PROVE  /\ OnDisk(FALSE) = [n \in 1 .. Len(past) |-> EntryAt(at, n)]
         /\ OnDisk(TRUE) = [n \in 1 .. Len(future) |-> EntryAt(at, Len(past) + n)]
<1>1. PICK first : first = [n \in 1 .. Len(past) |-> at[n]]
  OBVIOUS
<1>2. PICK rest : rest = [n \in 1 .. Len(future) |-> at[Len(past) + n]]
  OBVIOUS
<1>3. Enumerates(first, Marked(FALSE)) /\ Len(first) = Len(past)
  BY <1>1, UndoRows
<1>4. Enumerates(rest, Marked(TRUE)) /\ Len(rest) = Len(future)
  BY <1>2, RedoRows
<1>5. rows \in Seq(Row)
  BY DEF TypeOK
<1>6. OnDisk(FALSE) = [n \in 1 .. Len(past) |-> rows[first[n]].entry]
  BY <1>3, <1>5, LoadingFollows
<1>7. OnDisk(TRUE) = [n \in 1 .. Len(future) |-> rows[rest[n]].entry]
  BY <1>4, <1>5, LoadingFollows
<1> QED  BY <1>1, <1>2, <1>6, <1>7 DEF EntryAt

(* Replaying the rows that are not superseded leads to the table.          *)
LEMMA RowsExplain ==
  ASSUME TypeOK, NEW at, Story(at)
  PROVE  Successive(ReplayRow, EmptyGraph, rows)[Len(rows)] = entities
<1>1. PICK first : first = [n \in 1 .. Len(past) |-> at[n]]
  OBVIOUS
<1>2. Enumerates(first, Marked(FALSE)) /\ Len(first) = Len(past)
  BY <1>1, UndoRows
<1>3. PICK N : N = Len(rows) /\ N \in Nat
  BY LenProperties DEF TypeOK
<1>4. PICK S \in SUBSET (1 .. N) : S = Marked(FALSE)
  BY <1>3 DEF Marked
<1>5. PICK count : Counts(count, first, S, N)
  BY <1>2, <1>3, <1>4, CountingOn
<1>6. /\ Len(past) \in Nat /\ Len(future) \in Nat /\ Len(at) = Len(past) + Len(future)
      /\ Line[Len(past) + 1] = entities
  BY Places
<1>7. PICK T : T = [k \in 0 .. N |-> Line[count[k] + 1]]
  OBVIOUS
<1>8. T[0] = EmptyGraph
  <2>1. count[0] = 0 /\ 0 \in 0 .. N
    BY <1>3, <1>5 DEF Counts
  <2> QED  BY <1>7, <2>1 DEF Story
<1>9. ASSUME NEW k \in 1 .. N PROVE T[k] = ReplayRow(T[k - 1], rows[k])
  <2>1. k \in 0 .. N /\ k - 1 \in 0 .. N
    BY <1>3
  <2>2. PICK c \in 0 .. Len(past) : c = count[k - 1]
    BY <1>2, <1>5, <2>1 DEF Counts
  <2>3. T[k - 1] = Line[c + 1] /\ T[k] = Line[count[k] + 1]
    BY <1>7, <2>1, <2>2
  <2>4. CASE k \in S
    <3>1. count[k] = c + 1 /\ first[c + 1] = k
      BY <1>5, <2>2, <2>4 DEF Counts
    <3>2. count[k] \in 0 .. Len(past)
      BY <1>2, <1>5, <2>1 DEF Counts
    <3>3. PICK n \in 1 .. Len(past) : n = c + 1
      BY <1>6, <2>2, <3>1, <3>2
    <3>4. n \in 1 .. Len(at) /\ at[n] = k
      BY <1>1, <1>6, <3>1, <3>3
    <3>5. rows[k].live /\ rows[k].superseded = FALSE /\ k \in 1 .. Len(rows)
      BY <1>3, <1>4, <2>4 DEF Marked
    <3>6. Leads(Line[n], rows[k].entry.forward, Line[n + 1])
      BY <3>4 DEF Story, EntryAt
    <3>7. Replay(Line[n], rows[k].entry.forward) = Line[n + 1]
      BY <3>5, <3>6, LiveRows, ReplayFollows
    <3> QED  BY <2>3, <3>1, <3>3, <3>5, <3>7 DEF ReplayRow
  <2>5. CASE k \notin S
    <3>1. count[k] = c
      BY <1>5, <2>2, <2>5 DEF Counts
    <3>2. ~(rows[k].live /\ ~rows[k].superseded)
      <4>1. SUFFICES ASSUME rows[k].live, ~rows[k].superseded PROVE FALSE
        OBVIOUS
      <4>2. k \in 1 .. Len(rows) /\ rows[k].superseded = FALSE
        BY <1>3, <4>1, LiveRows
      <4> QED  BY <1>4, <2>5, <4>1, <4>2 DEF Marked
    <3> QED  BY <2>3, <3>1, <3>2 DEF ReplayRow
  <2> QED  BY <2>4, <2>5
<1>10. T = [k \in 0 .. Len(rows) |-> IF k = 0 THEN EmptyGraph ELSE ReplayRow(T[k - 1], rows[k])]
  <2>1. ASSUME NEW k \in 0 .. N PROVE T[k] = IF k = 0 THEN EmptyGraph ELSE ReplayRow(T[k - 1], rows[k])
    <3>1. CASE k = 0
      BY <1>8, <3>1
    <3>2. CASE k # 0
      <4>1. k \in 1 .. N
        BY <1>3, <3>2
      <4> QED  BY <1>9, <3>2, <4>1
    <3> QED  BY <3>1, <3>2
  <2>2. T = [k \in 0 .. N |-> T[k]]
    BY <1>7
  <2> QED  BY <1>3, <2>1, <2>2
<1> DEFINE U == Successive(ReplayRow, EmptyGraph, rows)
<1>11. PICK V : V = U
  OBVIOUS
<1>12. U = [k \in 0 .. Len(rows) |-> IF k = 0 THEN EmptyGraph ELSE ReplayRow(U[k - 1], rows[k])]
  BY <1>10 DEF Successive
<1> HIDE DEF U
<1>13. V[0] = EmptyGraph /\ \A k \in 1 .. N : V[k] = ReplayRow(V[k - 1], rows[k])
  <2>1. 0 \in 0 .. Len(rows) /\ \A k \in 1 .. N : k \in 0 .. Len(rows) /\ k # 0
    BY <1>3
  <2> QED  BY <1>11, <1>12, <2>1
<1>14. GoOnAlike(V, T, N)
  BY <1>9, <1>13 DEF GoOnAlike
<1>15. \A k \in 0 .. N : V[k] = T[k]
  BY <1>3, <1>8, <1>13, <1>14, SameFromStart
<1>16. count[N] = Len(past) /\ N \in 0 .. N
  BY <1>2, <1>3, <1>5 DEF Counts
<1>17. T[N] = entities
  BY <1>6, <1>7, <1>16
<1> QED  BY <1>3, <1>11, <1>15, <1>16, <1>17 DEF U

LEMMA ReverseList ==
  ASSUME NEW S, NEW s \in Seq(S)
  PROVE  /\ Reverse(s) \in Seq(S) /\ Len(Reverse(s)) = Len(s)
         /\ \A k \in 1 .. Len(s) : Reverse(s)[k] = s[(Len(s) - k) + 1]
<1>1. Len(s) \in Nat
  BY LenProperties
<1>2. \A k \in 1 .. Len(s) : (Len(s) - k) + 1 \in 1 .. Len(s)
  BY <1>1
<1>3. \A k \in 1 .. Len(s) : s[(Len(s) - k) + 1] \in S
  BY <1>2, ElementOfSeq
<1>4. Reverse(s) \in [1 .. Len(s) -> S]
  BY <1>3 DEF Reverse
<1>5. Reverse(s) \in Seq(S) /\ Len(Reverse(s)) = Len(s)
  BY <1>1, <1>4, ListOf
<1> QED  BY <1>5 DEF Reverse

\* The graphs that the deltas of a list of entries lead to one after another.
LeadsAlong(T, list, way, g) ==
  /\ T[0] = g
  /\ \A k \in 1 .. Len(list) :
       Leads(T[k - 1], list[k][way], T[k]) /\ list[k][way] \in Seq(EntityDelta)

(* The undo stack leads back along the line, the redo stack on along it.   *)
LEMMA UndoPath ==
  ASSUME TypeOK, NEW at, Story(at), NEW stack, NEW any, Stacks(at, stack, any)
  PROVE  \E T \in [0 .. Len(stack) -> Graph] : LeadsAlong(T, Reverse(stack), "inverse", entities)
<1>1. PICK list : list = Reverse(stack)
  OBVIOUS
<1>2. /\ Len(past) \in Nat /\ Len(future) \in Nat /\ Len(at) = Len(past) + Len(future)
      /\ Line[Len(past) + 1] = entities
      /\ \A n \in 1 .. Len(at) : EntryAt(at, n) \in JournalEntry
      /\ \A n \in 1 .. Len(past) + 1 + Len(future) : Line[n] \in Graph
  BY Places
<1>3. PICK N : N = Len(list) /\ N \in Nat /\ N = Len(stack) /\ N <= Len(past)
               /\ \A k \in 1 .. N : list[k] = stack[(N - k) + 1]
  <2>1. stack \in Seq(JournalEntry) /\ Len(stack) \in Nat /\ Len(stack) <= Len(past)
    BY <1>2, LenProperties DEF Stacks
  <2> QED  BY <1>1, <2>1, ReverseList
<1>4. ASSUME NEW k \in 1 .. N
      PROVE  \E n \in 1 .. Len(at) : n = (Len(past) + 1) - k /\ list[k] = EntryAt(at, n)
  <2>1. PICK m \in 1 .. Len(stack) : m = (N - k) + 1 /\ list[k] = stack[m]
    <3>1. (N - k) + 1 \in 1 .. Len(stack)
      BY <1>3
    <3> QED  BY <1>3, <3>1
  <2>2. stack[m] = EntryAt(at, (Len(past) - Len(stack)) + m)
    BY DEF Stacks
  <2>3. (Len(past) - Len(stack)) + m = (Len(past) + 1) - k /\ (Len(past) + 1) - k \in 1 .. Len(at)
    <3>1. m = (N - k) + 1 /\ Len(stack) = N /\ N \in Nat /\ N <= Len(past)
      BY <1>3, <2>1
    <3>2. PICK p, f : p = Len(past) /\ f = Len(future)
      OBVIOUS
    <3>3. p \in Nat /\ f \in Nat /\ Len(at) = p + f
      BY <1>2, <3>2
    <3> QED  BY <3>1, <3>2, <3>3
  <2> QED  BY <2>1, <2>2, <2>3
<1>5. \A k \in 0 .. N : (Len(past) + 1) - k \in 1 .. Len(past) + 1 + Len(future)
  BY <1>2, <1>3
<1>7. PICK T : T = [k \in 0 .. N |-> Line[(Len(past) + 1) - k]]
  OBVIOUS
<1>8. T[0] = entities
  <2>1. 0 \in 0 .. N /\ (Len(past) + 1) - 0 = Len(past) + 1
    BY <1>2, <1>3
  <2> QED  BY <1>2, <1>7, <2>1
<1>9. ASSUME NEW k \in 1 .. N
      PROVE  Leads(T[k - 1], list[k].inverse, T[k]) /\ list[k].inverse \in Seq(EntityDelta)
  <2>1. k \in 0 .. N /\ k - 1 \in 0 .. N
    BY <1>3
  <2>2. PICK n \in 1 .. Len(at) : n = (Len(past) + 1) - k /\ list[k] = EntryAt(at, n)
    BY <1>4
  <2>3. (Len(past) + 1) - (k - 1) = n + 1
    BY <1>2, <2>2
  <2>4. T[k - 1] = Line[n + 1] /\ T[k] = Line[n]
    BY <1>7, <2>1, <2>3
  <2>5. Leads(Line[n + 1], EntryAt(at, n).inverse, Line[n])
    BY DEF Story
  <2>6. EntryAt(at, n).inverse \in Seq(EntityDelta)
    BY <1>2 DEF JournalEntry
  <2> QED  BY <2>2, <2>4, <2>5, <2>6
<1>10. T \in [0 .. Len(stack) -> Graph]
  BY <1>2, <1>3, <1>5, <1>7
<1>11. LeadsAlong(T, list, "inverse", entities)
  BY <1>3, <1>8, <1>9 DEF LeadsAlong
<1> QED  BY <1>1, <1>10, <1>11

LEMMA RedoPath ==
  ASSUME TypeOK, NEW at, Story(at), NEW stack, NEW any, Stacks(at, any, stack)
  PROVE  \E T \in [0 .. Len(stack) -> Graph] : LeadsAlong(T, Reverse(stack), "forward", entities)
<1>1. PICK list : list = Reverse(stack)
  OBVIOUS
<1>2. /\ Len(past) \in Nat /\ Len(future) \in Nat /\ Len(at) = Len(past) + Len(future)
      /\ Line[Len(past) + 1] = entities
      /\ \A n \in 1 .. Len(at) : EntryAt(at, n) \in JournalEntry
      /\ \A n \in 1 .. Len(past) + 1 + Len(future) : Line[n] \in Graph
  BY Places
<1>3. PICK N : N = Len(list) /\ N \in Nat /\ N = Len(stack) /\ N = Len(future)
               /\ \A k \in 1 .. N : list[k] = stack[(N - k) + 1]
  <2>1. stack \in Seq(JournalEntry) /\ Len(stack) \in Nat /\ Len(stack) = Len(future)
    BY <1>2, LenProperties DEF Stacks
  <2> QED  BY <1>1, <2>1, ReverseList
<1>4. ASSUME NEW k \in 1 .. N
      PROVE  \E n \in 1 .. Len(at) : n = Len(past) + k /\ list[k] = EntryAt(at, n)
  <2>1. PICK m \in 1 .. Len(stack) : m = (N - k) + 1 /\ list[k] = stack[m]
    <3>1. (N - k) + 1 \in 1 .. Len(stack)
      BY <1>3
    <3> QED  BY <1>3, <3>1
  <2>2. stack[m] = EntryAt(at, (Len(at) + 1) - m)
    BY DEF Stacks
  <2>3. (Len(at) + 1) - m = Len(past) + k /\ Len(past) + k \in 1 .. Len(at)
    <3>1. m = (N - k) + 1 /\ Len(stack) = N /\ N \in Nat /\ N = Len(future)
      BY <1>3, <2>1
    <3>2. PICK p, f : p = Len(past) /\ f = Len(future)
      OBVIOUS
    <3>3. p \in Nat /\ f \in Nat /\ Len(at) = p + f
      BY <1>2, <3>2
    <3> QED  BY <3>1, <3>2, <3>3
  <2> QED  BY <2>1, <2>2, <2>3
<1>5. \A k \in 0 .. N : (Len(past) + 1) + k \in 1 .. Len(past) + 1 + Len(future)
  BY <1>2, <1>3
<1>7. PICK T : T = [k \in 0 .. N |-> Line[(Len(past) + 1) + k]]
  OBVIOUS
<1>8. T[0] = entities
  <2>1. 0 \in 0 .. N /\ (Len(past) + 1) + 0 = Len(past) + 1
    BY <1>2, <1>3
  <2> QED  BY <1>2, <1>7, <2>1
<1>9. ASSUME NEW k \in 1 .. N
      PROVE  Leads(T[k - 1], list[k].forward, T[k]) /\ list[k].forward \in Seq(EntityDelta)
  <2>1. k \in 0 .. N /\ k - 1 \in 0 .. N
    BY <1>3
  <2>2. PICK n \in 1 .. Len(at) : n = Len(past) + k /\ list[k] = EntryAt(at, n)
    BY <1>4
  <2>3. (Len(past) + 1) + (k - 1) = n /\ (Len(past) + 1) + k = n + 1
    BY <1>2, <2>2
  <2>4. T[k - 1] = Line[n] /\ T[k] = Line[n + 1]
    BY <1>7, <2>1, <2>3
  <2>5. Leads(Line[n], EntryAt(at, n).forward, Line[n + 1])
    BY DEF Story
  <2>6. EntryAt(at, n).forward \in Seq(EntityDelta)
    BY <1>2 DEF JournalEntry
  <2> QED  BY <2>2, <2>4, <2>5, <2>6
<1>10. T \in [0 .. Len(stack) -> Graph]
  BY <1>2, <1>3, <1>5, <1>7
<1>11. LeadsAlong(T, list, "forward", entities)
  BY <1>3, <1>8, <1>9 DEF LeadsAlong
<1> QED  BY <1>1, <1>10, <1>11

\* So both drain, in memory and in the table.
LEMMA UndoDrains ==
  ASSUME TypeOK, NEW at, Story(at), NEW stack, NEW any, Stacks(at, stack, any)
  PROVE  Drains(Unwinding(entities, stack))
<1>1. PICK list, N : list = Reverse(stack) /\ N = Len(stack)
  OBVIOUS
<1>2. PICK T \in [0 .. N -> Graph] : LeadsAlong(T, list, "inverse", entities)
  BY <1>1, UndoPath
<1>3. Len(list) = N /\ N \in Nat
  <2>1. stack \in Seq(JournalEntry)
    BY DEF Stacks
  <2> QED  BY <1>1, <2>1, ReverseList, LenProperties
<1>4. T[0] = entities
  BY <1>2 DEF LeadsAlong
<1>5. ASSUME NEW k \in 1 .. N PROVE T[k] = Replay(T[k - 1], list[k].inverse)
  <2>1. Leads(T[k - 1], list[k].inverse, T[k]) /\ list[k].inverse \in Seq(EntityDelta)
    BY <1>2, <1>3 DEF LeadsAlong
  <2> QED  BY <2>1, ReplayFollows
<1>6. T = [k \in 0 .. Len(list) |-> IF k = 0 THEN entities ELSE Replay(T[k - 1], list[k].inverse)]
  <2>1. ASSUME NEW k \in 0 .. N
        PROVE  T[k] = IF k = 0 THEN entities ELSE Replay(T[k - 1], list[k].inverse)
    <3>1. CASE k = 0
      BY <1>4, <3>1
    <3>2. CASE k # 0
      <4>1. k \in 1 .. N
        BY <1>3, <3>2
      <4> QED  BY <1>5, <3>2, <4>1
    <3> QED  BY <3>1, <3>2
  <2>2. T = [k \in 0 .. N |-> T[k]]
    BY <1>2
  <2> QED  BY <1>3, <2>1, <2>2
<1> DEFINE U == Unwinding(entities, stack)
<1>7. PICK V : V = U
  OBVIOUS
<1>8. U = [k \in 0 .. Len(list) |-> IF k = 0 THEN entities ELSE Replay(U[k - 1], list[k].inverse)]
  BY <1>1, <1>6 DEF Successive, Unwinding
<1> HIDE DEF U
<1>9. V[0] = entities /\ \A k \in 1 .. N : V[k] = Replay(V[k - 1], list[k].inverse)
  <2>1. 0 \in 0 .. Len(list) /\ \A k \in 1 .. N : k \in 0 .. Len(list) /\ k # 0
    BY <1>3
  <2> QED  BY <1>7, <1>8, <2>1
<1>10. GoOnAlike(V, T, N)
  BY <1>5, <1>9 DEF GoOnAlike
<1>11. \A k \in 0 .. N : V[k] = T[k]
  BY <1>3, <1>4, <1>9, <1>10, SameFromStart
<1>12. \A k \in 0 .. N : V[k] # Broken
  BY <1>2, <1>11, GraphIsNotBroken
<1>13. DOMAIN V = 0 .. N
  BY <1>3, <1>7, <1>8
<1> QED  BY <1>7, <1>12, <1>13 DEF Drains, U

LEMMA UndoDrainsTable ==
  ASSUME Host = {}, TypeOK, NEW at, Story(at), NEW stack, NEW any, Stacks(at, stack, any)
  PROVE  Drains(UnwindingTable(entities, stack))
<1>1. PICK list, N : list = Reverse(stack) /\ N = Len(stack)
  OBVIOUS
<1>2. PICK T \in [0 .. N -> Graph] : LeadsAlong(T, list, "inverse", entities)
  BY <1>1, UndoPath
<1>3. Len(list) = N /\ N \in Nat
  <2>1. stack \in Seq(JournalEntry)
    BY DEF Stacks
  <2> QED  BY <1>1, <2>1, ReverseList, LenProperties
<1>4. T[0] = entities
  BY <1>2 DEF LeadsAlong
<1>5. ASSUME NEW k \in 1 .. N PROVE T[k] = Rewrite(T[k - 1], list[k].inverse)
  <2>1. Leads(T[k - 1], list[k].inverse, T[k]) /\ list[k].inverse \in Seq(EntityDelta)
    BY <1>2, <1>3 DEF LeadsAlong
  <2> QED  BY <2>1, RewriteFollows
<1>6. T = [k \in 0 .. Len(list) |-> IF k = 0 THEN entities ELSE Rewrite(T[k - 1], list[k].inverse)]
  <2>1. ASSUME NEW k \in 0 .. N
        PROVE  T[k] = IF k = 0 THEN entities ELSE Rewrite(T[k - 1], list[k].inverse)
    <3>1. CASE k = 0
      BY <1>4, <3>1
    <3>2. CASE k # 0
      <4>1. k \in 1 .. N
        BY <1>3, <3>2
      <4> QED  BY <1>5, <3>2, <4>1
    <3> QED  BY <3>1, <3>2
  <2>2. T = [k \in 0 .. N |-> T[k]]
    BY <1>2
  <2> QED  BY <1>3, <2>1, <2>2
<1> DEFINE U == UnwindingTable(entities, stack)
<1>7. PICK V : V = U
  OBVIOUS
<1>8. U = [k \in 0 .. Len(list) |-> IF k = 0 THEN entities ELSE Rewrite(U[k - 1], list[k].inverse)]
  BY <1>1, <1>6 DEF Successive, UnwindingTable
<1> HIDE DEF U
<1>9. V[0] = entities /\ \A k \in 1 .. N : V[k] = Rewrite(V[k - 1], list[k].inverse)
  <2>1. 0 \in 0 .. Len(list) /\ \A k \in 1 .. N : k \in 0 .. Len(list) /\ k # 0
    BY <1>3
  <2> QED  BY <1>7, <1>8, <2>1
<1>10. GoOnAlike(V, T, N)
  BY <1>5, <1>9 DEF GoOnAlike
<1>11. \A k \in 0 .. N : V[k] = T[k]
  BY <1>3, <1>4, <1>9, <1>10, SameFromStart
<1>12. \A k \in 0 .. N : V[k] # Broken
  BY <1>2, <1>11, GraphIsNotBroken
<1>13. DOMAIN V = 0 .. N
  BY <1>3, <1>7, <1>8
<1> QED  BY <1>7, <1>12, <1>13 DEF Drains, U

LEMMA RedoDrains ==
  ASSUME TypeOK, NEW at, Story(at), NEW stack, NEW any, Stacks(at, any, stack)
  PROVE  Drains(Rewinding(entities, stack))
<1>1. PICK list, N : list = Reverse(stack) /\ N = Len(stack)
  OBVIOUS
<1>2. PICK T \in [0 .. N -> Graph] : LeadsAlong(T, list, "forward", entities)
  BY <1>1, RedoPath
<1>3. Len(list) = N /\ N \in Nat
  <2>1. stack \in Seq(JournalEntry)
    BY DEF Stacks
  <2> QED  BY <1>1, <2>1, ReverseList, LenProperties
<1>4. T[0] = entities
  BY <1>2 DEF LeadsAlong
<1>5. ASSUME NEW k \in 1 .. N PROVE T[k] = Replay(T[k - 1], list[k].forward)
  <2>1. Leads(T[k - 1], list[k].forward, T[k]) /\ list[k].forward \in Seq(EntityDelta)
    BY <1>2, <1>3 DEF LeadsAlong
  <2> QED  BY <2>1, ReplayFollows
<1>6. T = [k \in 0 .. Len(list) |-> IF k = 0 THEN entities ELSE Replay(T[k - 1], list[k].forward)]
  <2>1. ASSUME NEW k \in 0 .. N
        PROVE  T[k] = IF k = 0 THEN entities ELSE Replay(T[k - 1], list[k].forward)
    <3>1. CASE k = 0
      BY <1>4, <3>1
    <3>2. CASE k # 0
      <4>1. k \in 1 .. N
        BY <1>3, <3>2
      <4> QED  BY <1>5, <3>2, <4>1
    <3> QED  BY <3>1, <3>2
  <2>2. T = [k \in 0 .. N |-> T[k]]
    BY <1>2
  <2> QED  BY <1>3, <2>1, <2>2
<1> DEFINE U == Rewinding(entities, stack)
<1>7. PICK V : V = U
  OBVIOUS
<1>8. U = [k \in 0 .. Len(list) |-> IF k = 0 THEN entities ELSE Replay(U[k - 1], list[k].forward)]
  BY <1>1, <1>6 DEF Successive, Rewinding
<1> HIDE DEF U
<1>9. V[0] = entities /\ \A k \in 1 .. N : V[k] = Replay(V[k - 1], list[k].forward)
  <2>1. 0 \in 0 .. Len(list) /\ \A k \in 1 .. N : k \in 0 .. Len(list) /\ k # 0
    BY <1>3
  <2> QED  BY <1>7, <1>8, <2>1
<1>10. GoOnAlike(V, T, N)
  BY <1>5, <1>9 DEF GoOnAlike
<1>11. \A k \in 0 .. N : V[k] = T[k]
  BY <1>3, <1>4, <1>9, <1>10, SameFromStart
<1>12. \A k \in 0 .. N : V[k] # Broken
  BY <1>2, <1>11, GraphIsNotBroken
<1>13. DOMAIN V = 0 .. N
  BY <1>3, <1>7, <1>8
<1> QED  BY <1>7, <1>12, <1>13 DEF Drains, U

LEMMA RedoDrainsTable ==
  ASSUME Host = {}, TypeOK, NEW at, Story(at), NEW stack, NEW any, Stacks(at, any, stack)
  PROVE  Drains(RewindingTable(entities, stack))
<1>1. PICK list, N : list = Reverse(stack) /\ N = Len(stack)
  OBVIOUS
<1>2. PICK T \in [0 .. N -> Graph] : LeadsAlong(T, list, "forward", entities)
  BY <1>1, RedoPath
<1>3. Len(list) = N /\ N \in Nat
  <2>1. stack \in Seq(JournalEntry)
    BY DEF Stacks
  <2> QED  BY <1>1, <2>1, ReverseList, LenProperties
<1>4. T[0] = entities
  BY <1>2 DEF LeadsAlong
<1>5. ASSUME NEW k \in 1 .. N PROVE T[k] = Rewrite(T[k - 1], list[k].forward)
  <2>1. Leads(T[k - 1], list[k].forward, T[k]) /\ list[k].forward \in Seq(EntityDelta)
    BY <1>2, <1>3 DEF LeadsAlong
  <2> QED  BY <2>1, RewriteFollows
<1>6. T = [k \in 0 .. Len(list) |-> IF k = 0 THEN entities ELSE Rewrite(T[k - 1], list[k].forward)]
  <2>1. ASSUME NEW k \in 0 .. N
        PROVE  T[k] = IF k = 0 THEN entities ELSE Rewrite(T[k - 1], list[k].forward)
    <3>1. CASE k = 0
      BY <1>4, <3>1
    <3>2. CASE k # 0
      <4>1. k \in 1 .. N
        BY <1>3, <3>2
      <4> QED  BY <1>5, <3>2, <4>1
    <3> QED  BY <3>1, <3>2
  <2>2. T = [k \in 0 .. N |-> T[k]]
    BY <1>2
  <2> QED  BY <1>3, <2>1, <2>2
<1> DEFINE U == RewindingTable(entities, stack)
<1>7. PICK V : V = U
  OBVIOUS
<1>8. U = [k \in 0 .. Len(list) |-> IF k = 0 THEN entities ELSE Rewrite(U[k - 1], list[k].forward)]
  BY <1>1, <1>6 DEF Successive, RewindingTable
<1> HIDE DEF U
<1>9. V[0] = entities /\ \A k \in 1 .. N : V[k] = Rewrite(V[k - 1], list[k].forward)
  <2>1. 0 \in 0 .. Len(list) /\ \A k \in 1 .. N : k \in 0 .. Len(list) /\ k # 0
    BY <1>3
  <2> QED  BY <1>7, <1>8, <2>1
<1>10. GoOnAlike(V, T, N)
  BY <1>5, <1>9 DEF GoOnAlike
<1>11. \A k \in 0 .. N : V[k] = T[k]
  BY <1>3, <1>4, <1>9, <1>10, SameFromStart
<1>12. \A k \in 0 .. N : V[k] # Broken
  BY <1>2, <1>11, GraphIsNotBroken
<1>13. DOMAIN V = 0 .. N
  BY <1>3, <1>7, <1>8
<1> QED  BY <1>7, <1>12, <1>13 DEF Drains, U

LEMMA StacksMatch ==
  ASSUME TypeOK, NEW at, Story(at), Stacks(at, undo, redo)
  PROVE  /\ IsSuffix(undo, OnDisk(FALSE))
         /\ Len(OnDisk(FALSE)) - Len(undo) <= Trimmed
         /\ redo = Reverse(OnDisk(TRUE))
<1>1. PICK p, f : p = Len(past) /\ f = Len(future)
  OBVIOUS
<1>2. /\ p \in Nat /\ f \in Nat /\ Len(at) = p + f
      /\ \A n \in 1 .. Len(at) : EntryAt(at, n) \in JournalEntry
  BY <1>1, Places
<1>3. PICK a : a = OnDisk(FALSE) /\ a = [n \in 1 .. p |-> EntryAt(at, n)]
  BY <1>1, EntriesOnDisk
<1>4. PICK b : b = OnDisk(TRUE) /\ b = [n \in 1 .. f |-> EntryAt(at, p + n)]
  BY <1>1, EntriesOnDisk
<1>5. a \in Seq(JournalEntry) /\ Len(a) = p
  <2>1. \A n \in 1 .. p : EntryAt(at, n) \in JournalEntry
    BY <1>2
  <2>2. a \in [1 .. p -> JournalEntry]
    BY <1>3, <2>1
  <2> QED  BY <1>2, <2>2, ListOf
<1>6. b \in Seq(JournalEntry) /\ Len(b) = f
  <2>1. \A n \in 1 .. f : p + n \in 1 .. Len(at)
    BY <1>2
  <2>2. \A n \in 1 .. f : EntryAt(at, p + n) \in JournalEntry
    BY <1>2, <2>1
  <2>3. b \in [1 .. f -> JournalEntry]
    BY <1>4, <2>2
  <2> QED  BY <1>2, <2>3, ListOf
<1>7. PICK u : u = Len(undo) /\ u \in Nat /\ u <= p /\ p - u <= Trimmed
               /\ undo \in Seq(JournalEntry)
               /\ \A k \in 1 .. u : undo[k] = EntryAt(at, (p - u) + k)
  BY <1>1, LenProperties DEF Stacks
<1>8. IsSuffix(undo, a)
  <2>1. PICK s, t : s = Reverse(undo) /\ t = Reverse(a)
    OBVIOUS
  <2>2. /\ s \in Seq(JournalEntry) /\ Len(s) = u
        /\ \A k \in 1 .. u : s[k] = undo[(u - k) + 1]
    BY <1>7, <2>1, ReverseList
  <2>3. /\ t \in Seq(JournalEntry) /\ Len(t) = p
        /\ \A k \in 1 .. p : t[k] = a[(p - k) + 1]
    BY <1>5, <2>1, ReverseList
  <2>4. ASSUME NEW k \in 1 .. u PROVE s[k] = t[k]
    <3>1. PICK m \in 1 .. u : m = (u - k) + 1
      <4>1. (u - k) + 1 \in 1 .. u
        BY <1>7
      <4> QED  BY <4>1
    <3>2. PICK n \in 1 .. p : n = (p - k) + 1
      <4>1. (p - k) + 1 \in 1 .. p
        BY <1>2, <1>7
      <4> QED  BY <4>1
    <3>3. (p - u) + m = n
      BY <1>2, <1>7, <3>1, <3>2
    <3>4. s[k] = EntryAt(at, n)
      BY <1>7, <2>2, <3>1, <3>3
    <3>5. k \in 1 .. p
      BY <1>2, <1>7
    <3>6. t[k] = EntryAt(at, n)
      BY <1>3, <2>3, <3>2, <3>5
    <3> QED  BY <3>4, <3>6
  <2>5. SubSeq(s, 1, u) = SubSeq(t, 1, u)
    <3>1. PICK x, y : x = SubSeq(s, 1, u) /\ y = SubSeq(t, 1, u)
      OBVIOUS
    <3>2. /\ x = [k \in 1 .. u |-> s[k]] /\ y = [k \in 1 .. u |-> t[k]]
      BY <1>7, <2>2, <2>3, <3>1
    <3> QED  BY <2>4, <3>1, <3>2
  <2> QED  BY <1>2, <1>7, <2>1, <2>2, <2>3, <2>5 DEF IsSuffix, IsPrefix
<1>9. redo = Reverse(b)
  <2>1. redo \in Seq(JournalEntry) /\ Len(redo) = f
        /\ \A k \in 1 .. f : redo[k] = EntryAt(at, (Len(at) + 1) - k)
    BY <1>1 DEF Stacks
  <2>2. PICK t : t = Reverse(b)
    OBVIOUS
  <2>3. /\ t \in Seq(JournalEntry) /\ Len(t) = f
        /\ \A k \in 1 .. f : t[k] = b[(f - k) + 1]
    BY <1>6, <2>2, ReverseList
  <2>4. ASSUME NEW k \in 1 .. f PROVE redo[k] = t[k]
    <3>1. PICK m \in 1 .. f : m = (f - k) + 1
      <4>1. (f - k) + 1 \in 1 .. f
        BY <1>2
      <4> QED  BY <4>1
    <3>2. p + m = (Len(at) + 1) - k
      BY <1>2, <3>1
    <3> QED  BY <1>4, <2>1, <2>3, <3>1, <3>2
  <2> QED  BY <2>1, <2>2, <2>3, <2>4, SeqEqual
<1> QED  BY <1>3, <1>4, <1>5, <1>7, <1>8, <1>9

-----------------------------------------------------------------------------
(* The call in flight: where its deltas come from, and what undoes them.   *)

\* Of a call that records: what earlier commands of its batch did, and what
\* the present one has done so far.
Retraced ==
  \E base \in Graph, done \in Seq(EntityDelta), here \in Seq(EntityDelta) :
    /\ call.walked = done \o here
    /\ Leads(base, here, Shadow) /\ Leads(base, InvertAll(done), graph)
    /\ \/ here \o call.pending = <<>>
       \/ \E c \in Command : Computes(base, c) /\ here \o call.pending = Deltas(base, c)

RowsAfter ==
  IF call.op = "record" THEN PersistRecord(rows, NewEntry)
  ELSE PersistFlag(rows, call.cid, call.op = "undo")

CallOnTrack ==
  InCall =>
    /\ pc # "walk" => call.pending = <<>> /\ call.todo = <<>>
    /\ call.op = "record" =>
         /\ call.cid = issued
         /\ pc = "walk" => Retraced
         /\ pc \in {"tx", "commit"} => Leads(Shadow, InvertAll(call.walked), graph)
    /\ call.op = "undo" =>
         /\ call.cid = Top(undo).cid /\ call.todo = <<>>
         /\ call.walked \o call.pending = Top(undo).inverse
    /\ call.op = "redo" =>
         /\ call.cid = Top(redo).cid /\ call.todo = <<>>
         /\ call.walked \o call.pending = Top(redo).forward
    /\ pc = "tx" => call.txRows = rows
    /\ pc = "commit" => call.txRows = RowsAfter

LEMMA CallTypes ==
  ASSUME TypeOK
  PROVE  /\ call \in Calls /\ call.walked \in Seq(EntityDelta)
         /\ call.pending \in Seq(EntityDelta) /\ call.todo \in Seq(Command)
         /\ call.trail \in Seq(Graph) /\ call.op \in {"record", "undo", "redo"}
         /\ graph \in Graph /\ rows \in Seq(Row) /\ call.cid \in Nat /\ call.pos \in Nat \ {0}
BY DEF TypeOK, Calls

LEMMA TopType ==
  ASSUME NEW stack \in Seq(JournalEntry), stack # <<>>
  PROVE  /\ Top(stack) \in JournalEntry /\ Len(stack) \in Nat /\ Len(stack) # 0
         /\ Top(stack).forward \in Seq(EntityDelta) /\ Top(stack).inverse \in Seq(EntityDelta)
<1>1. Len(stack) \in 1 .. Len(stack) /\ Len(stack) \in Nat
  BY LenProperties, EmptySeq
<1>2. Top(stack) \in JournalEntry
  BY <1>1, ElementOfSeq DEF Top
<1> QED  BY <1>1, <1>2 DEF JournalEntry

(* The walk so far leads from the graph to the shadow copy.                *)
LEMMA WalkLeads ==
  ASSUME EngineInvariant, InCall, pc # "mirror"
  PROVE  Leads(graph, call.walked, Shadow) /\ Shadow \in Graph
<1>1. /\ call.walked \in Seq(EntityDelta) /\ call.trail \in Seq(Graph)
  BY CallTypes DEF EngineInvariant
<1>2. /\ Len(call.trail) = Len(call.walked) + 1 /\ call.trail[1] = graph
      /\ \A k \in 1 .. Len(call.walked) :
           /\ Applies(call.trail[k], call.walked[k])
           /\ call.trail[k + 1] = Apply(call.trail[k], call.walked[k])
  BY DEF EngineInvariant, TrailIsWalk
<1>3. PICK R : R = call.trail
  OBVIOUS
<1>4. R \in [1 .. Len(call.walked) + 1 -> Graph]
  BY <1>1, <1>2, <1>3, LenProperties
<1>5. Path(R, call.walked)
  BY <1>2, <1>3, <1>4 DEF Path
<1>6. R[Len(call.walked) + 1] = Shadow
  BY <1>2, <1>3 DEF Shadow, Top
<1>7. Leads(graph, call.walked, Shadow)
  BY <1>2, <1>3, <1>4, <1>5, <1>6 DEF Leads
<1> QED  BY <1>1, <1>7, LeadsToGraph

(* When a command's deltas are walked, what was walked can be undone.      *)
LEMMA RetracedFully ==
  ASSUME EngineInvariant, pc = "walk", Retraced, call.pending = <<>>
  PROVE  Leads(Shadow, InvertAll(call.walked), graph)
<1>1. PICK base \in Graph, done \in Seq(EntityDelta), here \in Seq(EntityDelta) :
        /\ call.walked = done \o here
        /\ Leads(base, here, Shadow) /\ Leads(base, InvertAll(done), graph)
        /\ \/ here \o call.pending = <<>>
           \/ \E c \in Command : Computes(base, c) /\ here \o call.pending = Deltas(base, c)
  BY DEF Retraced
<1>2. here \o call.pending = here
  BY ConcatEmptySeq
<1>3. Leads(Shadow, InvertAll(here), base)
  <2>1. CASE here = <<>>
    <3>1. Leads(base, <<>>, base) /\ <<>> \in Seq(EntityDelta)
      BY LeadsNowhere
    <3>2. base = Shadow
      BY <1>1, <2>1, <3>1, LeadsOnce
    <3>3. InvertAll(<<>>) = <<>>
      BY DEF InvertAll
    <3> QED  BY <2>1, <3>1, <3>2, <3>3
  <2>2. CASE \E c \in Command : Computes(base, c) /\ here = Deltas(base, c)
    BY <1>1, <2>2, CommandIsUndone
  <2> QED  BY <1>1, <1>2, <2>1, <2>2
<1>4. InvertAll(call.walked) = InvertAll(here) \o InvertAll(done)
  BY <1>1, InvertAllConcat
<1>5. InvertAll(here) \in Seq(EntityDelta) /\ InvertAll(done) \in Seq(EntityDelta)
  BY InvertAllType
<1> QED  BY <1>1, <1>3, <1>4, <1>5, LeadsOn

LEMMA StartOnTrack ==
  ASSUME EngineInvariant, NEW c, ExecutePersistent(c)
         \/ ExecutePersistentBatch(c) \/ UndoPersistent \/ RedoPersistent
  PROVE  CallOnTrack'
<1>1. /\ graph \in Graph /\ undo \in Seq(JournalEntry) /\ redo \in Seq(JournalEntry)
  BY DEF EngineInvariant, TypeOK
<1>2. ASSUME NEW cs, Begin(NewCall("record", issued + 1, cs, <<>>, graph)), issued' = issued + 1
      PROVE  CallOnTrack'
  <2>1. /\ pc' = "walk" /\ graph' = graph
        /\ call' = NewCall("record", issued + 1, cs, <<>>, graph)
    BY <1>2 DEF Begin, memory
  <2>2. /\ call'.op = "record" /\ call'.cid = issued' /\ call'.pending = <<>>
        /\ call'.walked = <<>> /\ call'.trail = <<graph>>
    BY <1>2, <2>1 DEF NewCall
  <2>3. Shadow' = graph
    BY <2>2 DEF Shadow, Top
  <2>4. InvertAll(<<>>) = <<>> /\ <<>> \o <<>> = <<>> /\ <<>> \in Seq(EntityDelta)
    BY DEF InvertAll
  <2>5. Leads(graph, <<>>, graph)
    BY <1>1, LeadsNowhere
  <2>6. Retraced'
    BY <1>1, <2>1, <2>2, <2>3, <2>4, <2>5 DEF Retraced
  <2> QED  BY <2>1, <2>2, <2>6 DEF CallOnTrack
<1>3. CASE ExecutePersistent(c)
  BY <1>2, <1>3 DEF ExecutePersistent
<1>4. CASE ExecutePersistentBatch(c)
  BY <1>2, <1>4 DEF ExecutePersistentBatch
<1>5. CASE UndoPersistent
  <2>1. /\ pc' = "walk" /\ undo' = undo /\ undo # <<>>
        /\ call' = NewCall("undo", Top(undo).cid, <<>>, Top(undo).inverse, graph)
    BY <1>5 DEF UndoPersistent, Begin, memory
  <2>2. /\ call'.op = "undo" /\ call'.cid = Top(undo).cid /\ call'.todo = <<>>
        /\ call'.pending = Top(undo).inverse /\ call'.walked = <<>>
    BY <2>1 DEF NewCall
  <2>3. <<>> \o Top(undo).inverse = Top(undo).inverse
    BY <1>1, <2>1, TopType, ConcatEmptySeq
  <2>4. Top(undo)' = Top(undo)
    BY <2>1 DEF Top
  <2> QED  BY <2>1, <2>2, <2>3, <2>4 DEF CallOnTrack
<1>6. CASE RedoPersistent
  <2>1. /\ pc' = "walk" /\ redo' = redo /\ redo # <<>>
        /\ call' = NewCall("redo", Top(redo).cid, <<>>, Top(redo).forward, graph)
    BY <1>6 DEF RedoPersistent, Begin, memory
  <2>2. /\ call'.op = "redo" /\ call'.cid = Top(redo).cid /\ call'.todo = <<>>
        /\ call'.pending = Top(redo).forward /\ call'.walked = <<>>
    BY <2>1 DEF NewCall
  <2>3. <<>> \o Top(redo).forward = Top(redo).forward
    BY <1>1, <2>1, TopType, ConcatEmptySeq
  <2>4. Top(redo)' = Top(redo)
    BY <2>1 DEF Top
  <2> QED  BY <2>1, <2>2, <2>3, <2>4 DEF CallOnTrack
<1> QED  BY <1>3, <1>4, <1>5, <1>6

LEMMA ComputeOnTrack ==
  ASSUME EngineInvariant, CallOnTrack, ComputeDeltas
  PROVE  CallOnTrack'
<1>1. CASE Refuse
  BY <1>1 DEF Refuse, CallOnTrack, InCall
<1>2. CASE ~Refuse
  <2>1. PICK c : c = Head(call.todo)
    OBVIOUS
  <2>2. /\ pc = "walk" /\ call.pending = <<>> /\ call.todo # <<>>
        /\ Computes(Shadow, c)
        /\ Proceed("walk", [call EXCEPT !.pending = Deltas(Shadow, c), !.todo = Tail(@)])
    BY <1>2, <2>1 DEF ComputeDeltas
  <2>3. call \in Calls /\ call.walked \in Seq(EntityDelta) /\ call.todo \in Seq(Command)
        /\ call.op \in {"record", "undo", "redo"}
    BY CallTypes DEF EngineInvariant
  <2>4. c \in Command
    BY <2>1, <2>2, <2>3, HeadTailProperties
  <2>5. InCall /\ pc # "mirror"
    BY <2>2 DEF InCall
  <2>6. call.op = "record" /\ call.cid = issued /\ Retraced
    BY <2>2, <2>3, <2>5 DEF CallOnTrack
  <2>7. /\ pc' = "walk" /\ graph' = graph /\ issued' = issued
        /\ call'.pending = Deltas(Shadow, c) /\ call'.op = call.op /\ call'.cid = call.cid
        /\ call'.walked = call.walked /\ call'.trail = call.trail
    BY <2>2, <2>3 DEF Proceed, memory, history, Calls
  <2>8. Shadow' = Shadow
    BY <2>7 DEF Shadow, Top
  <2>9. Leads(graph, call.walked, Shadow) /\ Shadow \in Graph
    BY <2>5, WalkLeads
  <2>10. Leads(Shadow, InvertAll(call.walked), graph)
    BY <2>2, <2>6, RetracedFully
  <2>11. Leads(Shadow, <<>>, Shadow) /\ <<>> \in Seq(EntityDelta)
    BY <2>9, LeadsNowhere
  <2>12. PICK g \in Graph : g = Shadow
    BY <2>9
  <2>13. Deltas(Shadow, c) \in Seq(EntityDelta)
    <3>1. Computes(g, c)
      BY <2>2, <2>12
    <3>2. Deltas(g, c) \in Seq(EntityDelta)
      BY <2>4, <3>1, DeltasType
    <3> QED  BY <2>12, <3>2
  <2>14. <<>> \o Deltas(Shadow, c) = Deltas(Shadow, c) /\ call.walked \o <<>> = call.walked
    BY <2>3, <2>13, ConcatEmptySeq
  <2>15. Retraced'
    <3>1. PICK base, done, here : base = Shadow /\ done = call.walked /\ here = <<>>
      OBVIOUS
    <3>2. /\ base \in Graph /\ done \in Seq(EntityDelta) /\ here \in Seq(EntityDelta)
          /\ call'.walked = done \o here
          /\ Leads(base, here, Shadow') /\ Leads(base, InvertAll(done), graph')
          /\ Computes(base, c) /\ here \o call'.pending = Deltas(base, c)
      BY <2>2, <2>3, <2>7, <2>8, <2>9, <2>10, <2>11, <2>14, <3>1
    <3> QED  BY <2>4, <3>2 DEF Retraced
  <2> QED  BY <2>6, <2>7, <2>15 DEF CallOnTrack
<1> QED  BY <1>1, <1>2

LEMMA WalkOnTrack ==
  ASSUME EngineInvariant, CallOnTrack, WalkDelta
  PROVE  CallOnTrack'
<1>1. CASE Refuse
  BY <1>1 DEF Refuse, CallOnTrack, InCall
<1>2. CASE ~Refuse
  <2>1. PICK d : d = Head(call.pending)
    OBVIOUS
  <2>2. /\ pc = "walk" /\ call.pending # <<>> /\ Applies(Shadow, d)
        /\ Proceed("walk", [call EXCEPT !.pending = Tail(@), !.walked = Append(@, d),
                                        !.trail = Append(@, Apply(Shadow, d))])
    BY <1>2, <2>1 DEF WalkDelta
  <2>3. /\ call \in Calls /\ call.walked \in Seq(EntityDelta) /\ call.todo \in Seq(Command)
        /\ call.pending \in Seq(EntityDelta) /\ call.trail \in Seq(Graph)
        /\ call.op \in {"record", "undo", "redo"}
    BY CallTypes DEF EngineInvariant
  <2>4. /\ d \in EntityDelta /\ Tail(call.pending) \in Seq(EntityDelta)
        /\ call.pending = <<d>> \o Tail(call.pending)
    BY <2>1, <2>2, <2>3, HeadTailProperties
  <2>5. /\ pc' = "walk" /\ graph' = graph /\ issued' = issued /\ undo' = undo /\ redo' = redo
        /\ call'.pending = Tail(call.pending) /\ call'.op = call.op /\ call'.cid = call.cid
        /\ call'.todo = call.todo
        /\ call'.walked = Append(call.walked, d)
        /\ call'.trail = Append(call.trail, Apply(Shadow, d))
    BY <2>2, <2>3 DEF Proceed, memory, history, Calls
  <2>6. InCall /\ pc # "mirror"
    BY <2>2 DEF InCall
  <2>7. Shadow \in Graph
    BY <2>6, WalkLeads
  <2>8. PICK next : next = Apply(Shadow, d) /\ next \in Graph
    BY <2>2, <2>4, <2>7, ApplyType
  <2>9. Shadow' = next
    BY <2>3, <2>5, <2>8, AppendProperties, LenProperties DEF Shadow, Top
  <2>10. Leads(Shadow, <<d>>, next) /\ <<d>> \in Seq(EntityDelta)
    BY <2>2, <2>4, <2>7, <2>8, LeadsByOne
  <2>11. ASSUME NEW ds \in Seq(EntityDelta)
         PROVE  /\ Append(ds, d) = ds \o <<d>> /\ Append(ds, d) \in Seq(EntityDelta)
                /\ Append(ds, d) \o Tail(call.pending) = ds \o call.pending
    <3>1. Append(ds, d) = ds \o <<d>> /\ Append(ds, d) \in Seq(EntityDelta)
      BY <2>4, AppendIsConcat, AppendProperties
    <3>2. PICK one, rest : one = <<d>> /\ rest = Tail(call.pending)
      OBVIOUS
    <3>3. one \in Seq(EntityDelta) /\ rest \in Seq(EntityDelta)
      BY <2>4, <2>10, <3>2
    <3>4. (ds \o one) \o rest = ds \o (one \o rest)
      BY <3>3, ConcatAssociative
    <3> QED  BY <2>4, <3>1, <3>2, <3>4
  <2>12. call'.walked \o call'.pending = call.walked \o call.pending
    BY <2>3, <2>5, <2>11
  <2>13. ASSUME call.op = "record" PROVE Retraced'
    <3>1. PICK base \in Graph, done \in Seq(EntityDelta), here \in Seq(EntityDelta) :
            /\ call.walked = done \o here
            /\ Leads(base, here, Shadow) /\ Leads(base, InvertAll(done), graph)
            /\ \/ here \o call.pending = <<>>
               \/ \E c \in Command : Computes(base, c) /\ here \o call.pending = Deltas(base, c)
      BY <2>2, <2>6, <2>13 DEF CallOnTrack, Retraced
    <3>2. here \o call.pending # <<>>
      <4>1. Len(here \o call.pending) = Len(here) + Len(call.pending)
            /\ Len(here) \in Nat /\ Len(call.pending) \in Nat
        BY <2>3, ConcatProperties, LenProperties
      <4>2. Len(call.pending) # 0
        BY <2>2, <2>3, EmptySeq
      <4>3. Len(<<>>) = 0
        OBVIOUS
      <4> QED  BY <4>1, <4>2, <4>3
    <3>3. PICK c \in Command : Computes(base, c) /\ here \o call.pending = Deltas(base, c)
      BY <3>1, <3>2
    <3>4. PICK further : further = Append(here, d)
      OBVIOUS
    <3>5. /\ further \in Seq(EntityDelta) /\ further = here \o <<d>>
          /\ further \o Tail(call.pending) = here \o call.pending
      BY <2>11, <3>4
    <3>6. call'.walked = done \o further
      <4>1. call'.walked = (done \o here) \o <<d>>
        BY <2>3, <2>5, <2>11, <3>1
      <4>2. (done \o here) \o <<d>> = done \o (here \o <<d>>)
        BY <2>10, ConcatAssociative
      <4> QED  BY <3>5, <4>1, <4>2
    <3>7. Leads(base, further, Shadow')
      BY <2>9, <2>10, <3>1, <3>5, LeadsOn
    <3>8. Computes(base, c) /\ further \o call'.pending = Deltas(base, c)
      BY <2>5, <3>3, <3>5
    <3> QED  BY <2>5, <3>1, <3>5, <3>6, <3>7, <3>8 DEF Retraced
  <2>14. Top(undo)' = Top(undo) /\ Top(redo)' = Top(redo)
    BY <2>5 DEF Top
  <2> QED  BY <2>2, <2>3, <2>5, <2>6, <2>12, <2>13, <2>14 DEF CallOnTrack
<1> QED  BY <1>1, <1>2

LEMMA BeginTransactionOnTrack ==
  ASSUME EngineInvariant, CallOnTrack, BeginTransaction
  PROVE  CallOnTrack'
<1>1. /\ pc = "walk" /\ call.pending = <<>> /\ call.todo = <<>>
      /\ Proceed("tx", [call EXCEPT !.txEntities = entities, !.txRows = rows, !.pos = 1])
  BY DEF BeginTransaction
<1>2. call \in Calls
  BY CallTypes DEF EngineInvariant
<1>3. /\ pc' = "tx" /\ graph' = graph /\ issued' = issued /\ undo' = undo /\ redo' = redo
      /\ rows' = rows
      /\ call'.pending = call.pending /\ call'.op = call.op /\ call'.cid = call.cid
      /\ call'.todo = call.todo /\ call'.walked = call.walked /\ call'.trail = call.trail
      /\ call'.txRows = rows
  BY <1>1, <1>2 DEF Proceed, disk, memory, history, Calls
<1>4. Shadow' = Shadow /\ Top(undo)' = Top(undo) /\ Top(redo)' = Top(redo)
  BY <1>3 DEF Shadow, Top
<1>5. call.op = "record" => Leads(Shadow, InvertAll(call.walked), graph)
  BY <1>1, RetracedFully DEF CallOnTrack, InCall
<1> QED  BY <1>1, <1>3, <1>4, <1>5 DEF CallOnTrack, InCall

LEMMA StatementOnTrack ==
  ASSUME EngineInvariant, CallOnTrack, PersistDelta \/ PersistJournal
  PROVE  CallOnTrack'
<1>1. CASE Refuse
  BY <1>1 DEF Refuse, CallOnTrack, InCall
<1>2. call \in Calls
  BY CallTypes DEF EngineInvariant
<1>3. CASE PersistDelta /\ ~Refuse
  <2>1. PICK t : Proceed("tx", [call EXCEPT !.txEntities = t, !.pos = @ + 1]) /\ pc = "tx"
    BY <1>3 DEF PersistDelta
  <2>2. /\ pc' = "tx" /\ graph' = graph /\ issued' = issued /\ undo' = undo /\ redo' = redo
        /\ rows' = rows
        /\ call'.pending = call.pending /\ call'.op = call.op /\ call'.cid = call.cid
        /\ call'.todo = call.todo /\ call'.walked = call.walked /\ call'.trail = call.trail
        /\ call'.txRows = call.txRows
    BY <1>2, <2>1 DEF Proceed, disk, memory, history, Calls
  <2>3. Shadow' = Shadow /\ Top(undo)' = Top(undo) /\ Top(redo)' = Top(redo)
    BY <2>2 DEF Shadow, Top
  <2> QED  BY <2>1, <2>2, <2>3 DEF CallOnTrack, InCall
<1>4. CASE PersistJournal /\ ~Refuse
  <2>1. pc = "tx" /\ call.txRows = rows
    BY <1>4 DEF PersistJournal, CallOnTrack, InCall
  <2>2. PICK rs : Proceed("commit", [call EXCEPT !.txRows = rs])
                  /\ rs = RowsAfter
    BY <1>2, <1>4, <2>1 DEF PersistJournal, RowsAfter, Calls
  <2>3. /\ pc' = "commit" /\ graph' = graph /\ issued' = issued /\ undo' = undo /\ redo' = redo
        /\ rows' = rows /\ scope' = scope
        /\ call'.pending = call.pending /\ call'.op = call.op /\ call'.cid = call.cid
        /\ call'.todo = call.todo /\ call'.walked = call.walked /\ call'.trail = call.trail
        /\ call'.txRows = RowsAfter
    BY <1>2, <2>2 DEF Proceed, disk, memory, history, Calls
  <2>4. Shadow' = Shadow /\ Top(undo)' = Top(undo) /\ Top(redo)' = Top(redo)
        /\ RowsAfter' = RowsAfter
    BY <2>3 DEF Shadow, Top, RowsAfter, NewEntry
  <2> QED  BY <2>1, <2>3, <2>4 DEF CallOnTrack, InCall
<1> QED  BY <1>1, <1>3, <1>4

LEMMA CallKept == EngineInvariant /\ CallOnTrack /\ [Next]_vars => CallOnTrack'
<1> SUFFICES ASSUME EngineInvariant, CallOnTrack, [Next]_vars
             PROVE  CallOnTrack'
  OBVIOUS
<1>1. ASSUME pc' \notin {"walk", "tx", "commit", "mirror"} PROVE CallOnTrack'
  BY <1>1 DEF CallOnTrack, InCall
<1>2. CASE \E s \in Scope : Open(s) \/ SetActiveScope(s)
  BY <1>1, <1>2 DEF Open, SetActiveScope
<1>3. CASE LoadRow \/ Opened \/ Drop
  BY <1>1, <1>3 DEF LoadRow, Opened, Drop
<1>4. CASE \/ \E c \in Command : ExecutePersistent(c)
           \/ \E cs \in Batch : ExecutePersistentBatch(cs)
           \/ UndoPersistent \/ RedoPersistent
  BY <1>4, StartOnTrack
<1>5. CASE ComputeDeltas
  BY <1>5, ComputeOnTrack
<1>6. CASE WalkDelta
  BY <1>6, WalkOnTrack
<1>7. CASE BeginTransaction
  BY <1>7, BeginTransactionOnTrack
<1>8. CASE PersistDelta \/ PersistJournal
  BY <1>8, StatementOnTrack
<1>9. CASE SqlError \/ Finish
  BY <1>1, <1>9 DEF SqlError, Refuse, Finish
<1>10. CASE Commit \/ MirrorDelta
  <2>1. call \in Calls
    BY CallTypes DEF EngineInvariant
  <2>2. CASE pc' = "mirror"
    <3>1. /\ pc \in {"commit", "mirror"} /\ issued' = issued /\ undo' = undo /\ redo' = redo
          /\ call'.pending = call.pending /\ call'.op = call.op /\ call'.cid = call.cid
          /\ call'.todo = call.todo /\ call'.walked = call.walked
      BY <1>10, <2>1, <2>2 DEF Commit, MirrorDelta, memory, history, Calls
    <3>2. Top(undo)' = Top(undo) /\ Top(redo)' = Top(redo)
      BY <3>1 DEF Top
    <3> QED  BY <2>2, <3>1, <3>2 DEF CallOnTrack, InCall
  <2>3. CASE pc' = "panicked"
    BY <1>1, <2>3
  <2> QED  BY <1>10, <2>2, <2>3 DEF Commit, MirrorDelta
<1>11. CASE UNCHANGED vars
  <2>1. /\ pc' = pc /\ call' = call /\ issued' = issued /\ undo' = undo /\ redo' = redo
        /\ graph' = graph /\ rows' = rows /\ scope' = scope
    BY <1>11 DEF vars, disk, memory, history
  <2> QED  BY <2>1 DEF CallOnTrack, InCall, Retraced, RowsAfter, NewEntry, Shadow, Top
<1> QED  BY <1>2, <1>3, <1>4, <1>5, <1>6, <1>7, <1>8, <1>9, <1>10, <1>11 DEF Next

-----------------------------------------------------------------------------
(* A commit moves along the line.                                          *)

\* UPDATE ... SET superseded finds the row of this command and no other.
LEMMA FlagOne ==
  ASSUME TypeOK, NEW at, Story(at), Issuing(at), NEW n \in 1 .. Len(at), NEW flag \in BOOLEAN,
         rows[at[n]].superseded = ~flag,
         NEW rs, rs = PersistFlag(rows, EntryAt(at, n).cid, flag)
  PROVE  /\ Len(rs) = Len(rows)
         /\ \A i \in 1 .. Len(rows) : rs[i].live = rows[i].live
         /\ \A i \in 1 .. Len(rows) : rows[i].live => rs[i].entry = rows[i].entry
         /\ \A k \in 1 .. Len(at) : k # n => rs[at[k]] = rows[at[k]]
         /\ rs[at[n]].superseded = flag
<1>1. /\ Len(at) \in Nat /\ Len(rows) \in Nat
      /\ \A k \in 1 .. Len(at) : at[k] \in 1 .. Len(rows) /\ rows[at[k]].live
      /\ \A k, m \in 1 .. Len(at) : k < m => at[k] < at[m]
  BY Places
<1>2. PICK i \in 1 .. Len(rows) : i = at[n] /\ rows[i].live
  BY <1>1
<1>3. DOMAIN rows = 1 .. Len(rows)
  BY LenProperties DEF TypeOK
<1>4. RowsOf(rows, EntryAt(at, n).cid, ~flag) = {i}
  <2>1. i \in RowsOf(rows, EntryAt(at, n).cid, ~flag)
    BY <1>2, <1>3 DEF RowsOf, EntryAt
  <2>2. ASSUME NEW j \in RowsOf(rows, EntryAt(at, n).cid, ~flag) PROVE j = i
    <3>1. j \in 1 .. Len(rows) /\ rows[j].live /\ rows[j].entry.cid = EntryAt(at, n).cid
      BY <1>3 DEF RowsOf
    <3>2. PICK k \in 1 .. Len(at) : at[k] = j
      BY <3>1 DEF Story, Enumerates
    <3>3. EntryAt(at, k).cid = EntryAt(at, n).cid
      BY <3>1, <3>2 DEF EntryAt
    <3>4. k = n
      BY <3>3 DEF Issuing
    <3> QED  BY <1>2, <3>2, <3>4
  <2> QED  BY <2>1, <2>2
<1>5. \A j : IsMaximum(j, {i}) <=> j = i
  BY <1>2 DEF IsMaximum
<1>6. rs = [j \in 1 .. Len(rows) |-> IF j = i THEN [rows[j] EXCEPT !.superseded = flag] ELSE rows[j]]
  BY <1>3, <1>4, <1>5 DEF PersistFlag
<1>7. Len(rs) = Len(rows)
  <2>1. PICK cid \in Nat : cid = EntryAt(at, n).cid
    BY <1>2, LiveRows DEF EntryAt
  <2>2. rows \in Seq(Row)
    BY DEF TypeOK
  <2>3. PersistFlag(rows, cid, flag) \in Seq(Row)
    BY <2>2, PersistFlagType
  <2>4. DOMAIN rs = 1 .. Len(rows) /\ rs \in Seq(Row)
    BY <1>6, <2>1, <2>3
  <2> QED  BY <1>1, <2>4, LenProperties
<1>8. /\ rs[i].live = rows[i].live /\ rs[i].entry = rows[i].entry /\ rs[i].superseded = flag
  BY <1>2, <1>6, LiveRows
<1>9. \A k \in 1 .. Len(at) : k # n => at[k] # i
  BY <1>1, <1>2
<1>10. \A j \in 1 .. Len(rows) : j # i => rs[j] = rows[j]
  BY <1>6
<1> QED  BY <1>1, <1>2, <1>7, <1>8, <1>9, <1>10

\* The same rows and the same line, with the present elsewhere on it.
LEMMA Moved ==
  ASSUME TypeOK, NEW at, Story(at), Issuing(at),
         past' \in Seq(Graph), future' \in Seq(Graph),
         Len(past') + Len(future') = Len(at),
         \A n \in 1 .. Len(at) + 1 : Line'[n] = Line[n],
         Len(rows') = Len(rows),
         \A i \in 1 .. Len(rows) : rows'[i].live = rows[i].live,
         \A i \in 1 .. Len(rows) : rows[i].live => rows'[i].entry = rows[i].entry,
         \A n \in 1 .. Len(at) : rows'[at[n]].superseded <=> n > Len(past'),
         Minted \in Int, Minted' \in Int, Minted <= Minted'
  PROVE  /\ Story(at)' /\ Issuing(at)'
         /\ \A n \in 1 .. Len(at) : EntryAt(at, n)' = EntryAt(at, n)
<1>1. /\ Len(at) \in Nat
      /\ \A n \in 1 .. Len(at) : at[n] \in 1 .. Len(rows) /\ rows[at[n]].live
      /\ \A n \in 1 .. Len(at) : EntryAt(at, n) \in JournalEntry
  BY Places
<1>2. \A n \in 1 .. Len(at) : EntryAt(at, n)' = EntryAt(at, n)
  BY <1>1 DEF EntryAt
<1>3. {i \in 1 .. Len(rows') : rows'[i].live} = {i \in 1 .. Len(rows) : rows[i].live}
  OBVIOUS
<1>4. \A n \in 1 .. Len(at) : n \in 1 .. Len(at) + 1 /\ n + 1 \in 1 .. Len(at) + 1
  BY <1>1
<1>5. 1 \in 1 .. Len(at) + 1
  BY <1>1
<1>6. \A n \in 1 .. Len(at) : /\ Leads(Line'[n], EntryAt(at, n)'.forward, Line'[n + 1])
                              /\ Leads(Line'[n + 1], EntryAt(at, n)'.inverse, Line'[n])
  BY <1>2, <1>4 DEF Story
<1>7. Line'[1] = EmptyGraph
  BY <1>5 DEF Story
<1>8. Story(at)'
  BY <1>3, <1>6, <1>7 DEF Story
<1>9. Issuing(at)'
  <2>1. \A n \in 1 .. Len(at) : EntryAt(at, n).cid \in Nat
    BY <1>1 DEF JournalEntry
  <2> QED  BY <1>1, <1>2, <2>1 DEF Issuing
<1> QED  BY <1>2, <1>8, <1>9

LEMMA MintedType == TypeOK => Minted \in Int /\ Minted <= issued
BY DEF TypeOK, Minted

\* What a commit finds and leaves.
LEMMA CommitFacts ==
  ASSUME EngineInvariant, TableMirrored, CallOnTrack, Commit
  PROVE  /\ TypeOK /\ call \in Calls /\ call.walked \in Seq(EntityDelta)
         /\ Leads(entities, call.walked, Shadow) /\ entities' = Shadow /\ rows' = RowsAfter
         /\ undo' = undo /\ redo' = redo /\ issued' = issued /\ scope' = scope
         /\ call'.op = call.op /\ call'.cid = call.cid /\ call'.walked = call.walked
         /\ Minted \in Int /\ Minted' = issued /\ Minted <= issued
         /\ UndoAfter' = UndoAfter /\ RedoAfter' = RedoAfter
         /\ Trimmed' = Trimmed
<1>1. pc = "commit" /\ pc' = "mirror" /\ TypeOK /\ InCall
  BY DEF Commit, EngineInvariant, InCall
<1>2. call \in Calls /\ call.walked \in Seq(EntityDelta)
  BY <1>1, CallTypes
<1>3. graph = entities /\ call.txEntities = Shadow
  BY <1>1 DEF TableMirrored
<1>4. Leads(entities, call.walked, Shadow)
  BY <1>1, <1>3, WalkLeads
<1>5. entities' = Shadow /\ rows' = RowsAfter
  BY <1>1, <1>3 DEF Commit, CallOnTrack
<1>6. /\ undo' = undo /\ redo' = redo /\ issued' = issued /\ scope' = scope
      /\ call'.op = call.op /\ call'.cid = call.cid /\ call'.walked = call.walked
  BY <1>2 DEF Commit, memory, history, Calls
<1>7. Minted \in Int /\ Minted' = issued /\ Minted <= issued
  BY <1>1, <1>6, MintedType DEF Minted
<1>8. UndoAfter' = UndoAfter /\ RedoAfter' = RedoAfter
  BY <1>6 DEF UndoAfter, RedoAfter, NewEntry, Record, Pop, Top
<1>9. Trimmed' = Trimmed
  BY <1>6 DEF Trimmed
<1> QED  BY <1>1, <1>2, <1>4, <1>5, <1>6, <1>7, <1>8, <1>9

LEMMA CommitUndoTold ==
  ASSUME EngineInvariant, TableMirrored, CallOnTrack, Commit, Remember, call.op = "undo",
         NEW at, Story(at), Issuing(at), Stacks(at, undo, redo)
  PROVE  /\ Story(at)' /\ Issuing(at)' /\ Stacks(at, UndoAfter, RedoAfter)'
         /\ past # <<>> /\ entities' = past[Len(past)]
<1>1. /\ TypeOK /\ call \in Calls /\ call.walked \in Seq(EntityDelta)
      /\ Leads(entities, call.walked, Shadow) /\ entities' = Shadow /\ rows' = RowsAfter
      /\ Minted \in Int /\ Minted' = issued /\ Minted <= issued /\ issued \in Nat
      /\ UndoAfter' = UndoAfter /\ RedoAfter' = RedoAfter /\ Trimmed' = Trimmed
  BY CommitFacts DEF EngineInvariant, TypeOK
<1>2. PICK p, f, u, r : p = Len(past) /\ f = Len(future) /\ u = Len(undo) /\ r = Len(redo)
  OBVIOUS
<1>3. /\ p \in Nat /\ f \in Nat /\ Len(at) = p + f
      /\ \A n \in 1 .. Len(at) : at[n] \in 1 .. Len(rows) /\ rows[at[n]].live
      /\ \A n \in 1 .. Len(at) : EntryAt(at, n) \in JournalEntry
      /\ \A n \in 1 .. p + 1 + f : Line[n] \in Graph
      /\ Line[p + 1] = entities
  BY <1>1, <1>2, Places
<1>4. /\ undo \in Seq(JournalEntry) /\ redo \in Seq(JournalEntry) /\ undo # <<>>
      /\ call.cid = Top(undo).cid /\ call.walked \o call.pending = Top(undo).inverse
      /\ call.pending = <<>> /\ pc = "commit"
  BY DEF Commit, CallOnTrack, EngineInvariant, TypeOK, StackHasEntry, InCall
<1>5. u \in Nat /\ u # 0 /\ r \in Nat /\ u <= p /\ p - u <= Trimmed /\ r = f
      /\ (\A k \in 1 .. u : undo[k] = EntryAt(at, (p - u) + k))
      /\ \A k \in 1 .. r : redo[k] = EntryAt(at, (Len(at) + 1) - k)
  BY <1>2, <1>4, TopType, LenProperties DEF Stacks
<1>6. PICK n \in 1 .. Len(at) : n = p /\ p \in 1 .. Len(at) /\ Top(undo) = EntryAt(at, n)
  <2>1. p \in 1 .. Len(at) /\ u \in 1 .. u /\ (p - u) + u = p
    BY <1>3, <1>5
  <2> QED  BY <1>2, <1>5, <2>1 DEF Top
<1>7. call.walked = Top(undo).inverse
  BY <1>1, <1>4, ConcatEmptySeq
<1>8. Shadow = Line[p]
  <2>1. Leads(Line[n + 1], EntryAt(at, n).inverse, Line[n])
    BY DEF Story
  <2>2. Leads(entities, call.walked, Line[p])
    BY <1>3, <1>6, <1>7, <2>1
  <2> QED  BY <1>1, <2>2, LeadsOnce
<1>9. /\ past \in Seq(Graph) /\ future \in Seq(Graph) /\ entities \in Graph
  BY <1>1 DEF Story, TypeOK
<1>10. /\ past' = SubSeq(past, 1, p - 1) /\ future' = <<entities>> \o future
  BY <1>2 DEF Remember, Pop
<1>11. /\ past' \in Seq(Graph) /\ Len(past') = p - 1
       /\ \A k \in 1 .. p - 1 : past'[k] = past[k]
  <2>1. PICK s : s = SubSeq(past, 1, p - 1)
    OBVIOUS
  <2>2. /\ 1 \in 1 .. p + 1 /\ p - 1 \in 0 .. p /\ (p - 1) - 1 + 1 = p - 1
        /\ \A k \in 1 .. p - 1 : 1 + k - 1 = k
    <3>1. p \in Nat /\ p # 0
      BY <1>3, <1>6
    <3> QED  BY <3>1
  <2>3. s \in Seq(Graph) /\ Len(s) = p - 1 /\ \A k \in 1 .. p - 1 : s[k] = past[k]
    BY <1>2, <1>9, <2>1, <2>2, SubSeqProperties
  <2> QED  BY <1>10, <2>1, <2>3
<1>12. /\ future' \in Seq(Graph) /\ Len(future') = f + 1 /\ future'[1] = entities
       /\ \A k \in 2 .. f + 1 : future'[k] = future[k - 1]
  <2>1. PICK s, one : s = one \o future /\ one = <<entities>>
    OBVIOUS
  <2>2. one \in Seq(Graph) /\ Len(one) = 1 /\ one[1] = entities
    BY <1>9, <2>1
  <2>3. /\ s \in Seq(Graph) /\ Len(s) = 1 + f
        /\ \A i \in 1 .. 1 + f : s[i] = IF i <= 1 THEN one[i] ELSE future[i - 1]
    BY <1>2, <1>9, <2>1, <2>2, ConcatProperties
  <2>4. \A k \in 2 .. f + 1 : k \in 1 .. 1 + f /\ ~(k <= 1)
    BY <1>3
  <2>5. 1 \in 1 .. 1 + f /\ 1 + f = f + 1
    BY <1>3
  <2> QED  BY <1>10, <2>1, <2>2, <2>3, <2>4, <2>5
<1>13. ASSUME NEW k \in 1 .. Len(at) + 1 PROVE Line'[k] = Line[k]
  <2>1. Line' = [m \in 1 .. (p - 1) + 1 + (f + 1) |->
                   IF m <= p - 1 THEN past'[m]
                   ELSE IF m = (p - 1) + 1 THEN entities' ELSE future'[m - ((p - 1) + 1)]]
    BY <1>11, <1>12 DEF Line
  <2>2. k \in 1 .. (p - 1) + 1 + (f + 1) /\ k \in 1 .. p + 1 + f
    BY <1>3
  <2>3. Line[k] = IF k <= p THEN past[k]
                  ELSE IF k = p + 1 THEN entities ELSE future[k - (p + 1)]
    BY <1>2, <2>2 DEF Line
  <2>4. CASE k <= p - 1
    <3>1. k <= p /\ k \in 1 .. p - 1
      BY <1>3, <2>4
    <3> QED  BY <1>11, <2>1, <2>2, <2>3, <2>4, <3>1
  <2>5. CASE k = p
    <3>1. ~(k <= p - 1) /\ k = (p - 1) + 1
      BY <1>3, <2>5
    <3> QED  BY <1>1, <1>8, <2>1, <2>2, <2>5, <3>1
  <2>6. CASE k = p + 1
    <3>1. ~(k <= p - 1) /\ k # (p - 1) + 1 /\ k - ((p - 1) + 1) = 1 /\ ~(k <= p)
      BY <1>3, <2>6
    <3> QED  BY <1>12, <2>1, <2>2, <2>3, <2>6, <3>1
  <2>7. CASE k > p + 1
    <3>1. PICK m \in 2 .. f + 1 : m = k - p
      <4>1. k - p \in 2 .. f + 1
        BY <1>3, <2>7
      <4> QED  BY <4>1
    <3>2. ~(k <= p - 1) /\ k # (p - 1) + 1 /\ k - ((p - 1) + 1) = m /\ ~(k <= p) /\ k # p + 1
          /\ k - (p + 1) = m - 1
      BY <1>3, <2>7, <3>1
    <3> QED  BY <1>12, <2>1, <2>2, <2>3, <3>1, <3>2
  <2>8. k <= p - 1 \/ k = p \/ k = p + 1 \/ k > p + 1
    BY <1>3
  <2> QED  BY <2>4, <2>5, <2>6, <2>7, <2>8
<1>14. \A m \in 1 .. Len(at) : rows[at[m]].superseded \in BOOLEAN
  BY <1>1, <1>3, LiveRows
<1>15. \A m \in 1 .. Len(at) : rows[at[m]].superseded <=> m > p
  BY <1>2 DEF Story
<1>16. PICK flag \in BOOLEAN : flag = TRUE /\ rows[at[n]].superseded = ~flag
  <2>1. ~(n > p)
    BY <1>6
  <2> QED  BY <1>14, <1>15, <2>1
<1>17. PICK rs : rs = PersistFlag(rows, EntryAt(at, n).cid, flag)
  OBVIOUS
<1>18. rows' = rs
  BY <1>1, <1>4, <1>6, <1>16, <1>17 DEF RowsAfter
<1>19. /\ Len(rs) = Len(rows)
       /\ \A i \in 1 .. Len(rows) : rs[i].live = rows[i].live
       /\ \A i \in 1 .. Len(rows) : rows[i].live => rs[i].entry = rows[i].entry
       /\ \A k \in 1 .. Len(at) : k # n => rs[at[k]] = rows[at[k]]
       /\ rs[at[n]].superseded = flag
  <2>1. TypeOK /\ rows[at[n]].superseded = ~flag
    BY <1>1, <1>16
  <2>2. n \in 1 .. Len(at) /\ flag \in BOOLEAN
    BY <1>6, <1>16
  <2>3. rs = PersistFlag(rows, EntryAt(at, n).cid, flag)
    BY <1>17
  <2> QED  BY ONLY <2>1, <2>2, <2>3, Story(at), Issuing(at), FlagOne
<1>20. \A m \in 1 .. Len(at) : rs[at[m]].superseded <=> m > p - 1
  <2>1. ASSUME NEW m \in 1 .. Len(at) PROVE rs[at[m]].superseded <=> m > p - 1
    <3>1. CASE m = n
      <4>1. m > p - 1
        BY <1>3, <1>6, <3>1
      <4> QED  BY <1>16, <1>19, <3>1, <4>1
    <3>2. CASE m # n
      <4>1. m > p <=> m > p - 1
        BY <1>3, <1>6, <3>2
      <4> QED  BY <1>15, <1>19, <3>2, <4>1
    <3> QED  BY <3>1, <3>2
  <2> QED  BY <2>1
<1>21. Len(past') + Len(future') = Len(at)
  BY <1>3, <1>11, <1>12
<1>22. /\ Story(at)' /\ Issuing(at)'
       /\ \A m \in 1 .. Len(at) : EntryAt(at, m)' = EntryAt(at, m)
  <2>1. \A k \in 1 .. Len(at) + 1 : Line'[k] = Line[k]
    BY <1>13
  <2>2. /\ Len(rows') = Len(rows)
        /\ \A i \in 1 .. Len(rows) : rows'[i].live = rows[i].live
        /\ \A i \in 1 .. Len(rows) : rows[i].live => rows'[i].entry = rows[i].entry
        /\ \A m \in 1 .. Len(at) : rows'[at[m]].superseded <=> m > Len(past')
    BY <1>11, <1>18, <1>19, <1>20
  <2>3. Minted' \in Int /\ Minted <= Minted'
    BY <1>1
  <2> QED  BY <1>1, <1>11, <1>12, <1>21, <2>1, <2>2, <2>3, Moved
<1>23. PICK un, re : un = UndoAfter /\ re = RedoAfter
  OBVIOUS
<1>24. /\ un \in Seq(JournalEntry) /\ Len(un) = u - 1
       /\ \A k \in 1 .. u - 1 : un[k] = undo[k]
  <2>1. un = SubSeq(undo, 1, u - 1)
    BY <1>2, <1>23 DEF UndoAfter, Pop
  <2>2. /\ 1 \in 1 .. u + 1 /\ u - 1 \in 0 .. u /\ (u - 1) - 1 + 1 = u - 1
        /\ \A k \in 1 .. u - 1 : 1 + k - 1 = k
    BY <1>5
  <2> QED  BY <1>2, <1>4, <2>1, <2>2, SubSeqProperties
<1>25. /\ re \in Seq(JournalEntry) /\ Len(re) = f + 1 /\ re[f + 1] = EntryAt(at, n)
       /\ \A k \in 1 .. f : re[k] = redo[k]
  <2>1. PICK e \in JournalEntry : e = EntryAt(at, n)
    BY <1>3
  <2>2. re = Append(redo, e)
    BY <1>6, <1>23, <2>1 DEF RedoAfter
  <2>3. Len(redo) = f
    BY <1>2, <1>5
  <2>4. /\ re \in Seq(JournalEntry) /\ Len(re) = f + 1 /\ re[f + 1] = e
        /\ \A k \in 1 .. f : re[k] = redo[k]
    BY <1>4, <2>2, <2>3, AppendProperties
  <2> QED  BY <2>1, <2>4
<1>26. Stacks(at, un, re)'
  <2>1. ASSUME NEW k \in 1 .. u - 1 PROVE un[k] = EntryAt(at, ((p - 1) - (u - 1)) + k)'
    <3>1. PICK m \in 1 .. Len(at) : m = (p - u) + k /\ m = ((p - 1) - (u - 1)) + k
      <4>1. (p - u) + k \in 1 .. Len(at) /\ (p - u) + k = ((p - 1) - (u - 1)) + k
        BY <1>3, <1>5
      <4> QED  BY <4>1
    <3>2. k \in 1 .. u
      BY <1>5
    <3>3. un[k] = EntryAt(at, m)
      BY <1>5, <1>24, <3>1, <3>2
    <3>4. EntryAt(at, m)' = EntryAt(at, m)
      BY <1>22
    <3> QED  BY <3>1, <3>3, <3>4
  <2>2. ASSUME NEW k \in 1 .. f + 1 PROVE re[k] = EntryAt(at, (Len(at) + 1) - k)'
    <3>1. PICK m \in 1 .. Len(at) : m = (Len(at) + 1) - k
      <4>1. (Len(at) + 1) - k \in 1 .. Len(at)
        BY <1>3, <1>6
      <4> QED  BY <4>1
    <3>2. re[k] = EntryAt(at, m)
      <4>1. CASE k = f + 1
        <5>1. m = n
          BY <1>3, <1>6, <3>1, <4>1
        <5> QED  BY <1>25, <4>1, <5>1
      <4>2. CASE k # f + 1
        <5>1. k \in 1 .. f
          BY <1>3, <4>2
        <5> QED  BY <1>5, <1>25, <3>1, <5>1
      <4> QED  BY <4>1, <4>2
    <3>3. EntryAt(at, m)' = EntryAt(at, m)
      BY <1>22
    <3> QED  BY <3>1, <3>2, <3>3
  <2>3. u - 1 <= p - 1 /\ (p - 1) - (u - 1) <= Trimmed'
    <3>1. (p - 1) - (u - 1) = p - u /\ u - 1 <= p - 1
      BY <1>3, <1>5
    <3> QED  BY <1>1, <1>5, <3>1
  <2> QED  BY <1>11, <1>12, <1>24, <1>25, <2>1, <2>2, <2>3 DEF Stacks
<1>27. UndoAfter' = un /\ RedoAfter' = re
  BY <1>1, <1>23
<1>28. past # <<>> /\ entities' = past[Len(past)]
  <2>1. p # 0 /\ p <= p /\ p \in 1 .. p + 1 + f
    BY <1>3, <1>6
  <2>2. Line[p] = past[p]
    BY <1>2, <2>1 DEF Line
  <2> QED  BY <1>1, <1>2, <1>8, <1>9, <2>1, <2>2, EmptySeq
<1> QED  BY <1>22, <1>26, <1>27, <1>28 DEF Stacks

LEMMA CommitRedoTold ==
  ASSUME EngineInvariant, TableMirrored, CallOnTrack, Commit, Remember, call.op = "redo",
         NEW at, Story(at), Issuing(at), Stacks(at, undo, redo)
  PROVE  /\ Story(at)' /\ Issuing(at)' /\ Stacks(at, UndoAfter, RedoAfter)'
         /\ future # <<>> /\ entities' = Head(future)
<1>1. /\ TypeOK /\ call \in Calls /\ call.walked \in Seq(EntityDelta)
      /\ Leads(entities, call.walked, Shadow) /\ entities' = Shadow /\ rows' = RowsAfter
      /\ Minted \in Int /\ Minted' = issued /\ Minted <= issued /\ issued \in Nat
      /\ UndoAfter' = UndoAfter /\ RedoAfter' = RedoAfter /\ Trimmed' = Trimmed
  BY CommitFacts DEF EngineInvariant, TypeOK
<1>2. PICK p, f, u, r : p = Len(past) /\ f = Len(future) /\ u = Len(undo) /\ r = Len(redo)
  OBVIOUS
<1>3. /\ p \in Nat /\ f \in Nat /\ Len(at) = p + f
      /\ \A n \in 1 .. Len(at) : at[n] \in 1 .. Len(rows) /\ rows[at[n]].live
      /\ \A n \in 1 .. Len(at) : EntryAt(at, n) \in JournalEntry
      /\ \A n \in 1 .. p + 1 + f : Line[n] \in Graph
      /\ Line[p + 1] = entities
  BY <1>1, <1>2, Places
<1>4. /\ undo \in Seq(JournalEntry) /\ redo \in Seq(JournalEntry) /\ redo # <<>>
      /\ call.cid = Top(redo).cid /\ call.walked \o call.pending = Top(redo).forward
      /\ call.pending = <<>> /\ pc = "commit"
  BY DEF Commit, CallOnTrack, EngineInvariant, TypeOK, StackHasEntry, InCall
<1>5. u \in Nat /\ r # 0 /\ r \in Nat /\ u <= p /\ p - u <= Trimmed /\ r = f
      /\ (\A k \in 1 .. u : undo[k] = EntryAt(at, (p - u) + k))
      /\ \A k \in 1 .. r : redo[k] = EntryAt(at, (Len(at) + 1) - k)
  BY <1>2, <1>4, TopType, LenProperties DEF Stacks
<1>6. PICK n \in 1 .. Len(at) : n = p + 1 /\ Top(redo) = EntryAt(at, n)
  <2>1. p + 1 \in 1 .. Len(at) /\ r \in 1 .. r /\ (Len(at) + 1) - r = p + 1
    BY <1>3, <1>5
  <2> QED  BY <1>2, <1>5, <2>1 DEF Top
<1>7. call.walked = Top(redo).forward
  BY <1>1, <1>4, ConcatEmptySeq
<1>8. Shadow = Line[p + 2]
  <2>1. Leads(Line[n], EntryAt(at, n).forward, Line[n + 1])
    BY DEF Story
  <2>2. n + 1 = p + 2
    BY <1>3, <1>6
  <2>3. Leads(entities, call.walked, Line[p + 2])
    BY <1>3, <1>6, <1>7, <2>1, <2>2
  <2> QED  BY <1>1, <2>3, LeadsOnce
<1>9. /\ past \in Seq(Graph) /\ future \in Seq(Graph) /\ entities \in Graph /\ f # 0
  BY <1>1, <1>5 DEF Story, TypeOK
<1>10. /\ past' = Append(past, entities) /\ future' = Tail(future)
  BY DEF Remember
<1>11. /\ past' \in Seq(Graph) /\ Len(past') = p + 1 /\ past'[p + 1] = entities
       /\ \A k \in 1 .. p : past'[k] = past[k]
  BY <1>2, <1>9, <1>10, AppendProperties
<1>12. /\ future' \in Seq(Graph) /\ Len(future') = f - 1
       /\ \A k \in 1 .. f - 1 : future'[k] = future[k + 1]
  <2>1. future # <<>>
    BY <1>2, <1>9, EmptySeq
  <2> QED  BY <1>2, <1>9, <1>10, <2>1, HeadTailProperties
<1>13. ASSUME NEW k \in 1 .. Len(at) + 1 PROVE Line'[k] = Line[k]
  <2>1. Line' = [m \in 1 .. (p + 1) + 1 + (f - 1) |->
                   IF m <= p + 1 THEN past'[m]
                   ELSE IF m = (p + 1) + 1 THEN entities' ELSE future'[m - ((p + 1) + 1)]]
    BY <1>11, <1>12 DEF Line
  <2>2. k \in 1 .. (p + 1) + 1 + (f - 1) /\ k \in 1 .. p + 1 + f
    BY <1>3
  <2>3. Line[k] = IF k <= p THEN past[k]
                  ELSE IF k = p + 1 THEN entities ELSE future[k - (p + 1)]
    BY <1>2, <2>2 DEF Line
  <2>4. CASE k <= p
    <3>1. k <= p + 1 /\ k \in 1 .. p
      BY <1>3, <2>4
    <3> QED  BY <1>11, <2>1, <2>2, <2>3, <2>4, <3>1
  <2>5. CASE k = p + 1
    <3>1. k <= p + 1 /\ ~(k <= p)
      BY <1>3, <2>5
    <3> QED  BY <1>11, <2>1, <2>2, <2>3, <2>5, <3>1
  <2>6. CASE k = p + 2
    <3>1. ~(k <= p + 1) /\ k = (p + 1) + 1
      BY <1>3, <2>6
    <3> QED  BY <1>1, <1>8, <2>1, <2>2, <2>6, <3>1
  <2>7. CASE k > p + 2
    <3>1. PICK m \in 1 .. f - 1 : m = k - (p + 2)
      <4>1. k - (p + 2) \in 1 .. f - 1
        BY <1>3, <2>7
      <4> QED  BY <4>1
    <3>2. ~(k <= p + 1) /\ k # (p + 1) + 1 /\ k - ((p + 1) + 1) = m /\ ~(k <= p) /\ k # p + 1
          /\ k - (p + 1) = m + 1
      BY <1>3, <2>7, <3>1
    <3> QED  BY <1>12, <2>1, <2>2, <2>3, <3>1, <3>2
  <2>8. k <= p \/ k = p + 1 \/ k = p + 2 \/ k > p + 2
    BY <1>3
  <2> QED  BY <2>4, <2>5, <2>6, <2>7, <2>8
<1>14. \A m \in 1 .. Len(at) : rows[at[m]].superseded \in BOOLEAN
  BY <1>1, <1>3, LiveRows
<1>15. \A m \in 1 .. Len(at) : rows[at[m]].superseded <=> m > p
  BY <1>2 DEF Story
<1>16. PICK flag \in BOOLEAN : flag = FALSE /\ rows[at[n]].superseded = ~flag
  <2>1. n > p
    BY <1>3, <1>6
  <2> QED  BY <1>14, <1>15, <2>1
<1>17. PICK rs : rs = PersistFlag(rows, EntryAt(at, n).cid, flag)
  OBVIOUS
<1>18. rows' = rs
  BY <1>1, <1>4, <1>6, <1>16, <1>17 DEF RowsAfter
<1>19. /\ Len(rs) = Len(rows)
       /\ \A i \in 1 .. Len(rows) : rs[i].live = rows[i].live
       /\ \A i \in 1 .. Len(rows) : rows[i].live => rs[i].entry = rows[i].entry
       /\ \A k \in 1 .. Len(at) : k # n => rs[at[k]] = rows[at[k]]
       /\ rs[at[n]].superseded = flag
  <2>1. TypeOK /\ rows[at[n]].superseded = ~flag
    BY <1>1, <1>16
  <2>2. n \in 1 .. Len(at) /\ flag \in BOOLEAN
    BY <1>6, <1>16
  <2>3. rs = PersistFlag(rows, EntryAt(at, n).cid, flag)
    BY <1>17
  <2> QED  BY ONLY <2>1, <2>2, <2>3, Story(at), Issuing(at), FlagOne
<1>20. \A m \in 1 .. Len(at) : rs[at[m]].superseded <=> m > p + 1
  <2>1. ASSUME NEW m \in 1 .. Len(at) PROVE rs[at[m]].superseded <=> m > p + 1
    <3>1. CASE m = n
      <4>1. ~(m > p + 1)
        BY <1>3, <1>6, <3>1
      <4> QED  BY <1>16, <1>19, <3>1, <4>1
    <3>2. CASE m # n
      <4>1. m > p <=> m > p + 1
        BY <1>3, <1>6, <3>2
      <4> QED  BY <1>15, <1>19, <3>2, <4>1
    <3> QED  BY <3>1, <3>2
  <2> QED  BY <2>1
<1>21. Len(past') + Len(future') = Len(at)
  BY <1>3, <1>11, <1>12
<1>22. /\ Story(at)' /\ Issuing(at)'
       /\ \A m \in 1 .. Len(at) : EntryAt(at, m)' = EntryAt(at, m)
  <2>1. \A k \in 1 .. Len(at) + 1 : Line'[k] = Line[k]
    BY <1>13
  <2>2. /\ Len(rows') = Len(rows)
        /\ \A i \in 1 .. Len(rows) : rows'[i].live = rows[i].live
        /\ \A i \in 1 .. Len(rows) : rows[i].live => rows'[i].entry = rows[i].entry
        /\ \A m \in 1 .. Len(at) : rows'[at[m]].superseded <=> m > Len(past')
    BY <1>11, <1>18, <1>19, <1>20
  <2>3. Minted' \in Int /\ Minted <= Minted'
    BY <1>1
  <2> QED  BY <1>1, <1>11, <1>12, <1>21, <2>1, <2>2, <2>3, Moved
<1>23. PICK un, re : un = UndoAfter /\ re = RedoAfter
  OBVIOUS
<1>24. /\ re \in Seq(JournalEntry) /\ Len(re) = f - 1
       /\ \A k \in 1 .. f - 1 : re[k] = redo[k]
  <2>1. re = SubSeq(redo, 1, f - 1)
    BY <1>2, <1>5, <1>23 DEF RedoAfter, Pop
  <2>2. /\ 1 \in 1 .. f + 1 /\ f - 1 \in 0 .. f /\ (f - 1) - 1 + 1 = f - 1
        /\ \A k \in 1 .. f - 1 : 1 + k - 1 = k
    BY <1>3, <1>9
  <2>3. Len(redo) = f
    BY <1>2, <1>5
  <2> QED  BY <1>4, <2>1, <2>2, <2>3, SubSeqProperties
<1>25. /\ un \in Seq(JournalEntry) /\ Len(un) = u + 1 /\ un[u + 1] = EntryAt(at, n)
       /\ \A k \in 1 .. u : un[k] = undo[k]
  <2>1. PICK e \in JournalEntry : e = EntryAt(at, n)
    BY <1>3
  <2>2. un = Append(undo, e)
    BY <1>6, <1>23, <2>1 DEF UndoAfter
  <2>3. /\ un \in Seq(JournalEntry) /\ Len(un) = u + 1 /\ un[u + 1] = e
        /\ \A k \in 1 .. u : un[k] = undo[k]
    BY <1>2, <1>4, <2>2, AppendProperties
  <2> QED  BY <2>1, <2>3
<1>26. Stacks(at, un, re)'
  <2>1. ASSUME NEW k \in 1 .. u + 1 PROVE un[k] = EntryAt(at, ((p + 1) - (u + 1)) + k)'
    <3>1. PICK m \in 1 .. Len(at) : m = (p - u) + k /\ m = ((p + 1) - (u + 1)) + k
      <4>1. (p - u) + k \in 1 .. Len(at) /\ (p - u) + k = ((p + 1) - (u + 1)) + k
        <5>1. p + 1 <= Len(at)
          BY <1>6
        <5> QED  BY <1>3, <1>5, <5>1
      <4> QED  BY <4>1
    <3>2. un[k] = EntryAt(at, m)
      <4>1. CASE k = u + 1
        <5>1. m = n
          BY <1>3, <1>5, <1>6, <3>1, <4>1
        <5> QED  BY <1>25, <4>1, <5>1
      <4>2. CASE k # u + 1
        <5>1. k \in 1 .. u
          BY <1>5, <4>2
        <5> QED  BY <1>5, <1>25, <3>1, <5>1
      <4> QED  BY <4>1, <4>2
    <3>3. EntryAt(at, m)' = EntryAt(at, m)
      BY <1>22
    <3> QED  BY <3>1, <3>2, <3>3
  <2>2. ASSUME NEW k \in 1 .. f - 1 PROVE re[k] = EntryAt(at, (Len(at) + 1) - k)'
    <3>1. PICK m \in 1 .. Len(at) : m = (Len(at) + 1) - k
      <4>1. (Len(at) + 1) - k \in 1 .. Len(at)
        BY <1>3
      <4> QED  BY <4>1
    <3>2. k \in 1 .. r
      BY <1>3, <1>5
    <3>3. re[k] = EntryAt(at, m)
      BY <1>5, <1>24, <3>1, <3>2
    <3>4. EntryAt(at, m)' = EntryAt(at, m)
      BY <1>22
    <3> QED  BY <3>1, <3>3, <3>4
  <2>3. u + 1 <= p + 1 /\ (p + 1) - (u + 1) <= Trimmed'
    <3>1. (p + 1) - (u + 1) = p - u /\ u + 1 <= p + 1
      BY <1>3, <1>5
    <3> QED  BY <1>1, <1>5, <3>1
  <2> QED  BY <1>11, <1>12, <1>24, <1>25, <2>1, <2>2, <2>3 DEF Stacks
<1>27. UndoAfter' = un /\ RedoAfter' = re
  BY <1>1, <1>23
<1>28. future # <<>> /\ entities' = Head(future)
  <2>1. ~(p + 2 <= p) /\ p + 2 # p + 1 /\ (p + 2) - (p + 1) = 1 /\ p + 2 \in 1 .. p + 1 + f
    BY <1>3, <1>9
  <2>2. Line[p + 2] = future[1]
    BY <1>2, <2>1 DEF Line
  <2>3. future # <<>>
    BY <1>2, <1>9, EmptySeq
  <2>4. Head(future) = future[1]
    BY <1>9, <2>3, HeadTailProperties
  <2> QED  BY <1>1, <1>8, <2>2, <2>3, <2>4
<1> QED  BY <1>22, <1>26, <1>27, <1>28 DEF Stacks

LEMMA CommitRecordTold ==
  ASSUME EngineInvariant, TableMirrored, CallOnTrack, Commit, Remember, call.op = "record",
         NEW at, Story(at), Issuing(at), Stacks(at, undo, redo)
  PROVE  \E longer : /\ Story(longer)' /\ Issuing(longer)'
                     /\ Stacks(longer, UndoAfter, RedoAfter)'
<1>1. /\ TypeOK /\ call \in Calls /\ call.walked \in Seq(EntityDelta)
      /\ Leads(entities, call.walked, Shadow) /\ entities' = Shadow /\ rows' = RowsAfter
      /\ Minted' = issued /\ issued \in Nat
      /\ UndoAfter' = UndoAfter /\ RedoAfter' = RedoAfter /\ Trimmed' = Trimmed
  BY CommitFacts DEF EngineInvariant, TypeOK
<1>2. PICK p, f, u, N : p = Len(past) /\ f = Len(future) /\ u = Len(undo) /\ N = Len(rows)
  OBVIOUS
<1>3. /\ p \in Nat /\ f \in Nat /\ N \in Nat /\ Len(at) = p + f
      /\ \A n \in 1 .. Len(at) : at[n] \in 1 .. N /\ rows[at[n]].live
      /\ \A n \in 1 .. Len(at) : EntryAt(at, n) \in JournalEntry
      /\ \A n \in 1 .. p + 1 + f : Line[n] \in Graph
      /\ Line[p + 1] = entities
  BY <1>1, <1>2, Places
<1>4. /\ pc = "commit" /\ call.cid = issued /\ Leads(Shadow, InvertAll(call.walked), graph)
      /\ graph = entities /\ Minted = issued - 1
  BY DEF Commit, CallOnTrack, InCall, TableMirrored, Minted
<1>5. /\ undo \in Seq(JournalEntry) /\ u \in Nat /\ u <= p /\ p - u <= Trimmed
      /\ \A k \in 1 .. u : undo[k] = EntryAt(at, (p - u) + k)
  BY <1>2, LenProperties DEF Stacks
<1>6. PICK e \in JournalEntry : e = NewEntry
  BY <1>1, NewEntryType
<1>7. e.cid = issued /\ e.forward = call.walked /\ e.inverse = InvertAll(call.walked)
  BY <1>4, <1>6 DEF NewEntry
<1>8. /\ past \in Seq(Graph) /\ future \in Seq(Graph) /\ entities \in Graph
  BY <1>1 DEF Story, TypeOK
<1>9. /\ past' \in Seq(Graph) /\ Len(past') = p + 1 /\ past'[p + 1] = entities
      /\ \A k \in 1 .. p : past'[k] = past[k]
  BY <1>2, <1>8, AppendProperties DEF Remember
<1>10. future' = <<>> /\ future' \in Seq(Graph) /\ Len(future') = 0
  BY DEF Remember
<1>11. PICK first : first = [n \in 1 .. p |-> at[n]]
  OBVIOUS
<1>12. Enumerates(first, Marked(FALSE)) /\ Len(first) = p
  BY <1>1, <1>2, <1>11, UndoRows
<1>13. \A i \in 1 .. N : rows[i].live => rows[i].superseded \in BOOLEAN
  BY <1>1, <1>2, LiveRows
<1>14. PICK new : new = [live |-> TRUE, superseded |-> FALSE, entry |-> e]
  OBVIOUS
<1>15. new \in Row /\ new.live = TRUE /\ new.superseded = FALSE /\ new.entry = e
  BY <1>6, <1>14 DEF Row
<1>16. PICK cleared : cleared = [i \in 1 .. N |->
                                   IF rows[i].live /\ rows[i].superseded THEN NoRow ELSE rows[i]]
  OBVIOUS
<1>17. cleared \in Seq(Row) /\ Len(cleared) = N
  <2>1. rows \in Seq(Row)
    BY <1>1 DEF TypeOK
  <2>2. \A i \in 1 .. N : rows[i] \in Row
    BY <1>2, <2>1, ElementOfSeq
  <2>3. cleared \in [1 .. N -> Row]
    BY <1>16, <2>2 DEF Row
  <2> QED  BY <1>3, <2>3, ListOf
<1>18. rows' = Append(cleared, new)
  <2>1. DOMAIN rows = 1 .. N
    BY <1>1, <1>2, LenProperties DEF TypeOK
  <2> QED  BY <1>1, <1>6, <1>14, <1>16, <2>1 DEF RowsAfter, PersistRecord
<1>19. /\ Len(rows') = N + 1 /\ rows'[N + 1] = new
       /\ \A i \in 1 .. N : rows'[i] = cleared[i]
  BY <1>15, <1>17, <1>18, AppendProperties
<1>20. /\ \A i \in Marked(FALSE) : i \in 1 .. N /\ rows'[i] = rows[i]
                                   /\ rows[i].live /\ rows[i].superseded = FALSE
       /\ \A i \in 1 .. N : rows'[i].live => i \in Marked(FALSE)
  <2>1. \A i \in Marked(FALSE) : i \in 1 .. N /\ rows[i].live /\ rows[i].superseded = FALSE
    BY <1>2 DEF Marked
  <2>2. \A i \in Marked(FALSE) : rows'[i] = rows[i]
    BY <1>16, <1>19, <2>1
  <2>3. ASSUME NEW i \in 1 .. N, rows'[i].live PROVE i \in Marked(FALSE)
    <3>1. CASE rows[i].live /\ rows[i].superseded
      BY <1>16, <1>19, <2>3, <3>1 DEF NoRow
    <3>2. CASE ~(rows[i].live /\ rows[i].superseded)
      <4>1. rows'[i] = rows[i]
        BY <1>16, <1>19, <3>2
      <4>2. rows[i].live /\ ~rows[i].superseded
        BY <2>3, <3>2, <4>1
      <4> QED  BY <1>2, <1>13, <4>2 DEF Marked
    <3> QED  BY <3>1, <3>2
  <2> QED  BY <2>1, <2>2, <2>3
<1>21. PICK live : live = {i \in 1 .. N + 1 : rows'[i].live}
  OBVIOUS
<1>22. live = Marked(FALSE) \cup {N + 1}
  <2>1. \A i \in 1 .. N + 1 : i \in 1 .. N \/ i = N + 1
    BY <1>3
  <2>2. N + 1 \in 1 .. N + 1 /\ \A i \in 1 .. N : i \in 1 .. N + 1
    BY <1>3
  <2> QED  BY <1>15, <1>19, <1>20, <1>21, <2>1, <2>2
<1>23. PICK longer : longer = Append(first, N + 1)
  OBVIOUS
<1>24. /\ longer \in Seq(live) /\ Len(longer) = p + 1 /\ longer[p + 1] = N + 1
       /\ \A n \in 1 .. p : longer[n] = at[n] /\ longer[n] \in Marked(FALSE)
  <2>1. first \in Seq(Marked(FALSE))
    BY <1>12 DEF Enumerates
  <2>2. \A n \in 1 .. p : first[n] \in Marked(FALSE)
    BY <1>12, <2>1, ElementOfSeq
  <2>3. first \in [1 .. p -> live]
    BY <1>11, <1>22, <2>2
  <2>4. first \in Seq(live)
    BY <1>3, <2>3, ListOf
  <2>5. PICK last \in live : last = N + 1
    BY <1>22
  <2>6. /\ longer \in Seq(live) /\ Len(longer) = p + 1 /\ longer[p + 1] = N + 1
        /\ \A n \in 1 .. p : longer[n] = first[n]
    BY <1>12, <1>23, <2>4, <2>5, AppendProperties
  <2> QED  BY <1>11, <2>2, <2>6
<1>25. \A n \in 1 .. p + 1 : n \in 1 .. p \/ n = p + 1
  BY <1>3
<1>26. \A n \in 1 .. p : n \in 1 .. Len(at) /\ n \in 1 .. p + 1
  BY <1>3
<1>27. Enumerates(longer, live)
  <2>1. ASSUME NEW m \in 1 .. p + 1, NEW n \in 1 .. p + 1, m < n
        PROVE  longer[m] < longer[n]
    <3>1. m \in 1 .. p
      BY <1>3, <2>1
    <3>2. CASE n = p + 1
      <4>1. longer[m] \in 1 .. N
        BY <1>20, <1>24, <3>1
      <4> QED  BY <1>3, <1>24, <3>2, <4>1
    <3>3. CASE n \in 1 .. p
      <4>1. at[m] < at[n]
        BY <1>1, <1>26, <2>1, <3>1, <3>3, Places
      <4> QED  BY <1>24, <3>1, <3>3, <4>1
    <3> QED  BY <1>25, <3>2, <3>3
  <2>2. ASSUME NEW i \in live PROVE \E n \in 1 .. p + 1 : longer[n] = i
    <3>1. CASE i = N + 1
      <4>1. p + 1 \in 1 .. p + 1
        BY <1>3
      <4> QED  BY <1>24, <3>1, <4>1
    <3>2. CASE i \in Marked(FALSE)
      <4>1. PICK n \in 1 .. p : first[n] = i
        BY <1>12, <3>2 DEF Enumerates
      <4> QED  BY <1>11, <1>24, <1>26, <4>1
    <3> QED  BY <1>22, <3>1, <3>2
  <2> QED  BY <1>24, <2>1, <2>2 DEF Enumerates
<1>28. /\ \A n \in 1 .. p : EntryAt(longer, n)' = EntryAt(at, n)
       /\ EntryAt(longer, p + 1)' = e
  <2>1. \A n \in 1 .. p : rows'[longer[n]] = rows[at[n]]
    BY <1>20, <1>24
  <2> QED  BY <1>15, <1>19, <1>24, <2>1 DEF EntryAt
<1>29. /\ \A k \in 1 .. p + 1 : Line'[k] = Line[k]
       /\ Line'[p + 2] = Shadow
  <2>1. Line' = [m \in 1 .. (p + 1) + 1 + 0 |->
                   IF m <= p + 1 THEN past'[m]
                   ELSE IF m = (p + 1) + 1 THEN entities' ELSE future'[m - ((p + 1) + 1)]]
    BY <1>9, <1>10 DEF Line
  <2>2. ASSUME NEW k \in 1 .. p + 1 PROVE Line'[k] = Line[k]
    <3>1. k <= p + 1 /\ k \in 1 .. (p + 1) + 1 + 0 /\ k \in 1 .. p + 1 + f
      BY <1>3
    <3>2. Line'[k] = past'[k]
      BY <2>1, <3>1
    <3>3. CASE k = p + 1
      BY <1>3, <1>9, <3>2, <3>3
    <3>4. CASE k \in 1 .. p
      <4>1. k <= p
        BY <3>4
      <4>2. Line[k] = past[k]
        BY <1>2, <3>1, <4>1 DEF Line
      <4> QED  BY <1>9, <3>2, <3>4, <4>2
    <3> QED  BY <1>25, <3>3, <3>4
  <2>3. Line'[p + 2] = Shadow
    <3>1. p + 2 \in 1 .. (p + 1) + 1 + 0 /\ ~(p + 2 <= p + 1) /\ p + 2 = (p + 1) + 1
      BY <1>3
    <3> QED  BY <1>1, <2>1, <3>1
  <2> QED  BY <2>2, <2>3
<1>30. Story(longer)'
  <2>1. /\ Len(longer) = Len(past') + Len(future')
        /\ live = {i \in 1 .. Len(rows') : rows'[i].live}
    BY <1>3, <1>9, <1>10, <1>19, <1>21, <1>24
  <2>2. ASSUME NEW n \in 1 .. p + 1 PROVE rows'[longer[n]].superseded <=> n > p + 1
    <3>1. rows'[longer[n]].superseded = FALSE
      <4>1. CASE n = p + 1
        BY <1>15, <1>19, <1>24, <4>1
      <4>2. CASE n \in 1 .. p
        <5>1. PICK i \in Marked(FALSE) : i = longer[n]
          BY <1>24, <4>2
        <5>2. rows'[i] = rows[i] /\ rows[i].superseded = FALSE
          BY <1>20, <5>1
        <5> QED  BY <5>1, <5>2
      <4> QED  BY <1>25, <4>1, <4>2
    <3>2. ~(n > p + 1)
      BY <1>3
    <3> QED  BY <3>1, <3>2
  <2>3. ASSUME NEW n \in 1 .. p + 1
        PROVE  /\ Leads(Line'[n], EntryAt(longer, n)'.forward, Line'[n + 1])
               /\ Leads(Line'[n + 1], EntryAt(longer, n)'.inverse, Line'[n])
    <3>1. CASE n = p + 1
      <4>1. Line'[n] = entities /\ Line'[n + 1] = Shadow
        <5>1. n + 1 = p + 2
          BY <1>3, <3>1
        <5> QED  BY <1>3, <1>29, <3>1, <5>1
      <4> QED  BY <1>1, <1>4, <1>7, <1>28, <3>1, <4>1
    <3>2. CASE n \in 1 .. p
      <4>1. n \in 1 .. Len(at) /\ n + 1 \in 1 .. p + 1
        BY <1>3, <3>2
      <4>2. /\ Leads(Line[n], EntryAt(at, n).forward, Line[n + 1])
            /\ Leads(Line[n + 1], EntryAt(at, n).inverse, Line[n])
        BY <4>1 DEF Story
      <4> QED  BY <1>28, <1>29, <3>2, <4>1, <4>2
    <3> QED  BY <1>25, <3>1, <3>2
  <2>4. Line'[1] = EmptyGraph
    <3>1. 1 \in 1 .. p + 1
      BY <1>3
    <3> QED  BY <1>29, <3>1 DEF Story
  <2> QED  BY <1>9, <1>10, <1>24, <1>27, <2>1, <2>2, <2>3, <2>4 DEF Story
<1>31. /\ p + 1 <= issued
       /\ \A n \in 1 .. Len(at) : EntryAt(at, n).cid <= issued - 1 /\ EntryAt(at, n).cid \in Nat
       /\ \A m, n \in 1 .. Len(at) : EntryAt(at, m).cid = EntryAt(at, n).cid => m = n
  <2>1. Len(at) <= issued - 1
    BY <1>4 DEF Issuing
  <2>2. p + 1 <= issued
    BY <1>1, <1>3, <2>1
  <2>3. \A n \in 1 .. Len(at) : EntryAt(at, n).cid \in Nat
    BY <1>3 DEF JournalEntry
  <2> QED  BY <1>4, <2>2, <2>3 DEF Issuing
<1>32. Issuing(longer)'
  <2>1. ASSUME NEW n \in 1 .. p
        PROVE  EntryAt(longer, n)'.cid <= issued /\ EntryAt(longer, n)'.cid # issued
    <3>1. EntryAt(at, n).cid <= issued - 1 /\ EntryAt(at, n).cid \in Nat
      BY <1>26, <1>31
    <3> QED  BY <1>1, <1>28, <3>1
  <2>2. ASSUME NEW m \in 1 .. p + 1, NEW n \in 1 .. p + 1,
               EntryAt(longer, m)'.cid = EntryAt(longer, n)'.cid
        PROVE  m = n
    <3>1. CASE m \in 1 .. p /\ n \in 1 .. p
      BY <1>26, <1>28, <1>31, <2>2, <3>1
    <3>2. CASE m = p + 1 /\ n \in 1 .. p
      BY <1>7, <1>28, <2>1, <2>2, <3>2
    <3>3. CASE n = p + 1 /\ m \in 1 .. p
      BY <1>7, <1>28, <2>1, <2>2, <3>3
    <3> QED  BY <1>25, <3>1, <3>2, <3>3
  <2>3. \A n \in 1 .. p + 1 : EntryAt(longer, n)'.cid <= issued
    BY <1>1, <1>7, <1>25, <1>28, <2>1
  <2> QED  BY <1>1, <1>24, <1>31, <2>2, <2>3 DEF Issuing
<1>33. PICK un, re : un = UndoAfter /\ re = RedoAfter
  OBVIOUS
<1>34. re = <<>> /\ re \in Seq(JournalEntry) /\ Len(re) = 0
  BY <1>33 DEF RedoAfter
<1>35. PICK more : more = Append(undo, e)
  OBVIOUS
<1>36. /\ more \in Seq(JournalEntry) /\ Len(more) = u + 1 /\ more # <<>>
       /\ \A k \in 1 .. u + 1 : more[k] = EntryAt(longer, (p - u) + k)'
  <2>1. /\ more \in Seq(JournalEntry) /\ Len(more) = u + 1 /\ more[u + 1] = e /\ more # <<>>
        /\ \A k \in 1 .. u : more[k] = undo[k]
    BY <1>2, <1>5, <1>35, AppendProperties
  <2>2. ASSUME NEW k \in 1 .. u + 1 PROVE more[k] = EntryAt(longer, (p - u) + k)'
    <3>1. CASE k = u + 1
      <4>1. (p - u) + k = p + 1
        BY <1>3, <1>5, <3>1
      <4> QED  BY <1>28, <2>1, <3>1, <4>1
    <3>2. CASE k # u + 1
      <4>1. k \in 1 .. u
        BY <1>5, <3>2
      <4>2. PICK m \in 1 .. p : m = (p - u) + k
        <5>1. (p - u) + k \in 1 .. p
          BY <1>3, <1>5, <4>1
        <5> QED  BY <5>1
      <4>3. more[k] = EntryAt(at, m)
        BY <1>5, <2>1, <4>1, <4>2
      <4>4. EntryAt(longer, m)' = EntryAt(at, m)
        BY <1>28
      <4> QED  BY <4>2, <4>3, <4>4
    <3> QED  BY <3>1, <3>2
  <2> QED  BY <2>1, <2>2
<1>37. un = IF Capacity > 0 /\ u + 1 > Capacity THEN Tail(more) ELSE more
  BY <1>6, <1>33, <1>35, <1>36 DEF UndoAfter, Record
<1>38. /\ un \in Seq(JournalEntry) /\ Len(un) <= p + 1 /\ (p + 1) - Len(un) <= Trimmed
       /\ \A k \in 1 .. Len(un) : un[k] = EntryAt(longer, ((p + 1) - Len(un)) + k)'
  <2>1. CASE ~(Capacity > 0 /\ u + 1 > Capacity)
    <3>1. un = more
      BY <1>37, <2>1
    <3>2. (p + 1) - (u + 1) = p - u /\ u + 1 <= p + 1
      BY <1>3, <1>5
    <3> QED  BY <1>5, <1>36, <3>1, <3>2
  <2>2. CASE Capacity > 0 /\ u + 1 > Capacity
    <3>1. un = Tail(more)
      BY <1>37, <2>2
    <3>2. /\ un \in Seq(JournalEntry) /\ Len(un) = u
          /\ \A k \in 1 .. u : un[k] = more[k + 1]
      <4>1. (u + 1) - 1 = u
        BY <1>5
      <4> QED  BY <1>36, <3>1, <4>1, HeadTailProperties
    <3>3. ASSUME NEW k \in 1 .. u PROVE un[k] = EntryAt(longer, ((p + 1) - u) + k)'
      <4>1. PICK m \in 1 .. u + 1 : m = k + 1 /\ (p - u) + m = ((p + 1) - u) + k
        <5>1. k + 1 \in 1 .. u + 1 /\ (p - u) + (k + 1) = ((p + 1) - u) + k
          BY <1>3, <1>5
        <5> QED  BY <5>1
      <4>2. un[k] = more[m]
        BY <3>2, <4>1
      <4>3. more[m] = EntryAt(longer, (p - u) + m)'
        BY <1>36
      <4> QED  BY <4>1, <4>2, <4>3
    <3>4. u <= p + 1 /\ (p + 1) - u <= Trimmed
      <4>1. Capacity \in Nat
        BY EngineAssumption
      <4>2. ~(Capacity = 0 \/ issued < Capacity)
        BY <1>1, <1>3, <1>5, <1>31, <2>2, <4>1
      <4>3. Trimmed = issued - Capacity
        BY <4>2 DEF Trimmed
      <4> QED  BY <1>1, <1>3, <1>5, <1>31, <2>2, <4>1, <4>3
    <3> QED  BY <3>2, <3>3, <3>4
  <2> QED  BY <2>1, <2>2
<1>39. Stacks(longer, un, re)'
  <2>1. \A k \in 1 .. Len(re) : FALSE
    BY <1>34
  <2> QED  BY <1>1, <1>9, <1>10, <1>34, <1>38, <2>1 DEF Stacks
<1>40. UndoAfter' = un /\ RedoAfter' = re
  BY <1>1, <1>33
<1>41. Stacks(longer, UndoAfter, RedoAfter)'
  BY <1>39, <1>40 DEF Stacks
<1> QED  BY <1>30, <1>32, <1>41

-----------------------------------------------------------------------------
(* The invariant of the history: while no open has loaded two redo rows,   *)
(* the rows tell the line of the project's states, and the stacks hold the *)
(* entries on both sides of the present.                                   *)

Tracks(at) ==
  /\ pc \in {"idle", "walk", "tx", "commit"} => Stacks(at, undo, redo)
  /\ pc = "mirror" => Stacks(at, UndoAfter, RedoAfter)
  /\ pc = "load" =>
       /\ call.pos <= Len(rows) + 1
       /\ undo = Loading(FALSE)[call.pos - 1] /\ redo = Loading(TRUE)[call.pos - 1]

Told == ~reordered => \E at : Story(at) /\ Issuing(at) /\ Tracks(at)

HistoryNext == Next /\ IF Committing THEN Remember ELSE UNCHANGED line

HistoryInvariant == EngineInvariant /\ TableMirrored /\ CallOnTrack /\ Told

LEMMA LoadingSame ==
  ASSUME rows' = rows, NEW flag
  PROVE  Loading(flag)' = Loading(flag)
BY DEF Loading, Successive

\* A step that is not a commit leaves the story as it is.
LEMMA QuietStep ==
  ASSUME entities' = entities, rows' = rows, past' = past, future' = future,
         Minted \in Int, Minted' \in Int, Minted <= Minted', TypeOK,
         NEW at, Story(at), Issuing(at)
  PROVE  Story(at)' /\ Issuing(at)'
<1>1. Line' = Line
  BY DEF Line
<1>2. \A n : EntryAt(at, n)' = EntryAt(at, n)
  BY DEF EntryAt
<1>3. Story(at)'
  BY <1>1, <1>2 DEF Story
<1>4. Len(at) \in Nat /\ \A n \in 1 .. Len(at) : EntryAt(at, n).cid \in Nat
  BY Places DEF JournalEntry
<1>5. Issuing(at)'
  BY <1>2, <1>4 DEF Issuing
<1> QED  BY <1>3, <1>5

LEMMA QuietStacks ==
  ASSUME rows' = rows, past' = past, future' = future, TypeOK, issued' \in Nat,
         issued <= issued', NEW at, NEW un, NEW re, Stacks(at, un, re),
         Len(past) \in Nat
  PROVE  Stacks(at, un, re)'
<1>1. \A n : EntryAt(at, n)' = EntryAt(at, n)
  BY DEF EntryAt
<1>2. Trimmed \in Int /\ Trimmed' \in Int /\ Trimmed <= Trimmed'
  <2>1. issued \in Nat /\ Capacity \in Nat
    BY EngineAssumption DEF TypeOK
  <2>2. PICK i, j : i = issued /\ j = issued'
    OBVIOUS
  <2>3. i \in Nat /\ j \in Nat /\ i <= j
    BY <2>1, <2>2
  <2>4. /\ Trimmed = IF Capacity = 0 \/ i < Capacity THEN 0 ELSE i - Capacity
        /\ Trimmed' = IF Capacity = 0 \/ j < Capacity THEN 0 ELSE j - Capacity
    BY <2>2 DEF Trimmed
  <2> QED  BY <2>1, <2>3, <2>4
<1>3. Len(un) \in Nat
  BY LenProperties DEF Stacks
<1> QED  BY <1>1, <1>2, <1>3 DEF Stacks

\* Every step but a commit.
LEMMA Quiet ==
  ASSUME TypeOK, [Next]_vars, ~Committing
  PROVE  /\ entities' = entities /\ rows' = rows /\ issued <= issued' /\ issued' \in Nat
         /\ Minted \in Int /\ Minted' \in Int /\ Minted <= Minted'
<1>1. /\ issued \in Nat /\ call \in Calls
      /\ pc \in {"closed", "load", "idle", "walk", "tx", "commit", "mirror", "panicked"}
  BY DEF TypeOK
<1>2. Minted \in {issued, issued - 1}
  BY DEF Minted
<1>3. ASSUME entities' = entities, rows' = rows, issued' = issued, Minted' = issued
      PROVE  /\ entities' = entities /\ rows' = rows /\ issued <= issued' /\ issued' \in Nat
             /\ Minted \in Int /\ Minted' \in Int /\ Minted <= Minted'
  BY <1>1, <1>2, <1>3
<1>4. ASSUME entities' = entities, rows' = rows, issued' = issued,
             pc \in {"walk", "tx", "commit"} /\ call'.op = call.op
      PROVE  /\ entities' = entities /\ rows' = rows /\ issued <= issued' /\ issued' \in Nat
             /\ Minted \in Int /\ Minted' \in Int /\ Minted <= Minted'
  BY <1>1, <1>4 DEF Minted
<1>5. CASE Refuse
  BY <1>3, <1>5 DEF Refuse, disk, history, Minted
<1>6. CASE \E s \in Scope : Open(s) \/ SetActiveScope(s)
  BY <1>3, <1>6 DEF Open, SetActiveScope, disk, history, Minted
<1>7. CASE LoadRow \/ Opened \/ Drop \/ Finish
  BY <1>3, <1>7 DEF LoadRow, Opened, Drop, Finish, disk, history, Minted
<1>8. ASSUME NEW cs, pc = "idle", issued' = issued + 1,
             Begin(NewCall("record", issued + 1, cs, <<>>, graph))
      PROVE  /\ entities' = entities /\ rows' = rows /\ issued <= issued' /\ issued' \in Nat
             /\ Minted \in Int /\ Minted' \in Int /\ Minted <= Minted'
  <2>1. /\ entities' = entities /\ rows' = rows /\ pc' = "walk" /\ call'.op = "record"
    BY <1>8 DEF Begin, disk, NewCall
  <2>2. Minted = issued /\ Minted' = issued
    BY <1>1, <1>8, <2>1 DEF Minted
  <2> QED  BY <1>1, <1>8, <2>1, <2>2
<1>9. CASE \E c \in Command : ExecutePersistent(c)
  BY <1>8, <1>9 DEF ExecutePersistent, Begin
<1>10. CASE \E cs \in Batch : ExecutePersistentBatch(cs)
  BY <1>8, <1>10 DEF ExecutePersistentBatch, Begin
<1>11. CASE UndoPersistent \/ RedoPersistent
  <2>1. /\ entities' = entities /\ rows' = rows /\ pc' = "walk" /\ call'.op # "record"
        /\ issued' = issued
    BY <1>11 DEF UndoPersistent, RedoPersistent, Begin, disk, NewCall
  <2> QED  BY <1>3, <2>1 DEF Minted
<1>12. CASE ~Refuse /\ (ComputeDeltas \/ WalkDelta \/ BeginTransaction \/ PersistDelta \/ PersistJournal)
  <2>1. /\ entities' = entities /\ rows' = rows /\ issued' = issued
        /\ pc \in {"walk", "tx", "commit"} /\ call'.op = call.op
    BY <1>1, <1>12
       DEF ComputeDeltas, WalkDelta, BeginTransaction, PersistDelta, PersistJournal, Proceed,
           disk, history, Calls
  <2> QED  BY <1>4, <2>1
<1>13. CASE SqlError
  BY <1>5, <1>13 DEF SqlError
<1>14. CASE Commit
  BY <1>14 DEF Commit, Committing
<1>15. CASE MirrorDelta
  <2>1. /\ entities' = entities /\ rows' = rows /\ issued' = issued
        /\ pc' \in {"mirror", "panicked"}
    BY <1>15 DEF MirrorDelta, disk, history
  <2> QED  BY <1>3, <2>1 DEF Minted
<1>16. CASE UNCHANGED vars
  <2>1. /\ entities' = entities /\ rows' = rows /\ issued' = issued /\ pc' = pc /\ call' = call
    BY <1>16 DEF vars, disk, history
  <2>2. Minted' = Minted
    BY <2>1 DEF Minted
  <2> QED  BY <1>1, <1>2, <2>1, <2>2
<1> QED
  BY <1>5, <1>6, <1>7, <1>9, <1>10, <1>11, <1>12, <1>13, <1>14, <1>15, <1>16 DEF Next

LEMMA CommittingIsCommit ==
  ASSUME [HistoryNext]_<<vars, line>>, Committing
  PROVE  Commit /\ Remember
<1>1. ~(UNCHANGED <<vars, line>>)
  BY DEF Committing, vars
<1>2. Next /\ Remember
  BY <1>1 DEF HistoryNext
<1>3. pc = "commit" /\ pc' = "mirror"
  BY DEF Committing
<1>4. Commit
  BY <1>2, <1>3
     DEF Next, Open, SetActiveScope, LoadRow, Opened, Drop, ExecutePersistent,
         ExecutePersistentBatch, UndoPersistent, RedoPersistent, Begin, ComputeDeltas,
         WalkDelta, BeginTransaction, PersistDelta, PersistJournal, SqlError, Refuse, Proceed,
         MirrorDelta, Finish
<1> QED  BY <1>2, <1>4

LEMMA CommitTold ==
  ASSUME HistoryInvariant, [HistoryNext]_<<vars, line>>, Committing
  PROVE  Told' /\ (~reordered => Timeline!TimelineNext)
<1>1. Commit /\ Remember
  BY CommittingIsCommit
<1>2. reordered' = reordered /\ pc' = "mirror" /\ pc = "commit"
  BY <1>1 DEF Commit, history
<1>3. SUFFICES ASSUME ~reordered
               PROVE  /\ \E at : Story(at)' /\ Issuing(at)' /\ Tracks(at)'
                      /\ Timeline!TimelineNext
  BY <1>2 DEF Told
<1>4. PICK at : Story(at) /\ Issuing(at) /\ Stacks(at, undo, redo)
  BY <1>2, <1>3 DEF HistoryInvariant, Told, Tracks
<1>5. call.op \in {"record", "undo", "redo"}
  BY CallTypes DEF HistoryInvariant, EngineInvariant
<1>6. \A x : Stacks(x, UndoAfter, RedoAfter)' => Tracks(x)'
  BY <1>2 DEF Tracks
<1>7. EngineInvariant /\ TableMirrored /\ CallOnTrack
  BY DEF HistoryInvariant
<1>8. CASE call.op = "record"
  <2>1. \E at1 : Story(at1)' /\ Issuing(at1)' /\ Tracks(at1)'
    BY <1>1, <1>4, <1>6, <1>7, <1>8, CommitRecordTold
  <2>2. entities' \in Graph
    <3>1. entities' = Shadow /\ InCall
      BY <1>1, <1>2, <1>7, CommitFacts DEF InCall
    <3> QED  BY <1>2, <1>7, <3>1, WalkLeads
  <2>3. past' = Append(past, entities) /\ future' = <<>>
    BY <1>1, <1>8 DEF Remember
  <2> QED  BY <2>1, <2>2, <2>3 DEF Timeline!TimelineNext, Timeline!Edit
<1>9. CASE call.op = "undo"
  <2>1. /\ Story(at)' /\ Issuing(at)' /\ Stacks(at, UndoAfter, RedoAfter)'
        /\ past # <<>> /\ entities' = past[Len(past)]
    BY <1>1, <1>4, <1>7, <1>9, CommitUndoTold
  <2>2. past' = SubSeq(past, 1, Len(past) - 1) /\ future' = <<entities>> \o future
    BY <1>1, <1>9 DEF Remember, Pop
  <2> QED  BY <1>6, <2>1, <2>2 DEF Timeline!TimelineNext, Timeline!StepBack
<1>10. CASE call.op = "redo"
  <2>1. /\ Story(at)' /\ Issuing(at)' /\ Stacks(at, UndoAfter, RedoAfter)'
        /\ future # <<>> /\ entities' = Head(future)
    BY <1>1, <1>4, <1>7, <1>10, CommitRedoTold
  <2>2. past' = Append(past, entities) /\ future' = Tail(future)
    BY <1>1, <1>10 DEF Remember
  <2> QED  BY <1>6, <2>1, <2>2 DEF Timeline!TimelineNext, Timeline!StepForward
<1> QED  BY <1>5, <1>8, <1>9, <1>10

\* What the loading loop does to the stacks.
LEMMA LoadSteps ==
  ASSUME TypeOK, NEW at, Story(at), NEW flag \in BOOLEAN
  PROVE  /\ Loading(flag)[0] = <<>>
         /\ \A k \in 1 .. Len(rows) :
              Loading(flag)[k] = IF rows[k].live /\ rows[k].superseded = flag
                                 THEN Append(Loading(flag)[k - 1], rows[k].entry)
                                 ELSE Loading(flag)[k - 1]
<1>1. PICK first : first = [n \in 1 .. Len(past) |-> at[n]]
  OBVIOUS
<1>2. PICK rest : rest = [n \in 1 .. Len(future) |-> at[Len(past) + n]]
  OBVIOUS
<1>3. rows \in Seq(Row)
  BY DEF TypeOK
<1>4. CASE flag = FALSE
  <2>1. Enumerates(first, Marked(flag))
    BY <1>1, <1>4, UndoRows
  <2> QED  BY <1>3, <2>1, LoadingFollows
<1>5. CASE flag = TRUE
  <2>1. Enumerates(rest, Marked(flag))
    BY <1>2, <1>5, RedoRows
  <2> QED  BY <1>3, <2>1, LoadingFollows
<1> QED  BY <1>4, <1>5

\* An open that has loaded no two redo rows has both stacks in order.
LEMMA LoadedInOrder ==
  ASSUME TypeOK, NEW at, Story(at), NEW un, NEW re, un = OnDisk(FALSE), re = OnDisk(TRUE),
         ~(Len(re) >= 2)
  PROVE  Stacks(at, un, re)
<1>1. PICK p, f : p = Len(past) /\ f = Len(future)
  OBVIOUS
<1>2. /\ p \in Nat /\ f \in Nat /\ Len(at) = p + f
      /\ \A n \in 1 .. Len(at) : EntryAt(at, n) \in JournalEntry
  BY <1>1, Places
<1>3. un = [n \in 1 .. p |-> EntryAt(at, n)] /\ re = [n \in 1 .. f |-> EntryAt(at, p + n)]
  BY <1>1, EntriesOnDisk
<1>4. un \in Seq(JournalEntry) /\ Len(un) = p
  <2>1. \A n \in 1 .. p : EntryAt(at, n) \in JournalEntry
    BY <1>2
  <2>2. un \in [1 .. p -> JournalEntry]
    BY <1>3, <2>1
  <2> QED  BY <1>2, <2>2, ListOf
<1>5. re \in Seq(JournalEntry) /\ Len(re) = f
  <2>1. \A n \in 1 .. f : p + n \in 1 .. Len(at)
    BY <1>2
  <2>2. \A n \in 1 .. f : EntryAt(at, p + n) \in JournalEntry
    BY <1>2, <2>1
  <2>3. re \in [1 .. f -> JournalEntry]
    BY <1>3, <2>2
  <2> QED  BY <1>2, <2>3, ListOf
<1>6. Trimmed \in Nat
  <2>1. issued \in Nat /\ Capacity \in Nat
    BY EngineAssumption DEF TypeOK
  <2> QED  BY <2>1 DEF Trimmed
<1>7. ASSUME NEW k \in 1 .. p PROVE un[k] = EntryAt(at, (p - p) + k)
  <2>1. (p - p) + k = k
    BY <1>2
  <2> QED  BY <1>3, <2>1
<1>8. ASSUME NEW k \in 1 .. f PROVE re[k] = EntryAt(at, (Len(at) + 1) - k)
  <2>1. f = 0 \/ f = 1
    <3>1. Len(re) = f /\ ~(Len(re) >= 2)
      BY <1>5
    <3>2. ~(f >= 2)
      BY <3>1
    <3> QED  BY <1>2, <3>2
  <2>2. (Len(at) + 1) - k = p + k
    BY <1>2, <2>1
  <2> QED  BY <1>3, <2>2
<1>9. p <= p /\ p - p <= Trimmed
  BY <1>2, <1>6
<1> QED  BY <1>1, <1>4, <1>5, <1>7, <1>8, <1>9 DEF Stacks

LEMMA QuietTold ==
  ASSUME HistoryInvariant, [HistoryNext]_<<vars, line>>, ~Committing
  PROVE  Told'
<1>1. /\ TypeOK /\ [Next]_vars /\ past' = past /\ future' = future
  BY DEF HistoryInvariant, EngineInvariant, HistoryNext, line, vars
<1>2. /\ entities' = entities /\ rows' = rows /\ issued <= issued' /\ issued' \in Nat
      /\ Minted \in Int /\ Minted' \in Int /\ Minted <= Minted'
  BY <1>1, Quiet
<1>3. reordered \in BOOLEAN /\ (~reordered' => ~reordered)
  BY <1>1
     DEF TypeOK, Next, vars, history, Open, SetActiveScope, LoadRow, Opened, Drop,
         ExecutePersistent, ExecutePersistentBatch, UndoPersistent, RedoPersistent, Begin,
         ComputeDeltas, WalkDelta, BeginTransaction, PersistDelta, PersistJournal, SqlError,
         Commit, MirrorDelta, Finish, Refuse, Proceed
<1>4. SUFFICES ASSUME ~reordered'
               PROVE  \E at : Story(at)' /\ Issuing(at)' /\ Tracks(at)'
  BY DEF Told
<1>5. PICK at : Story(at) /\ Issuing(at) /\ Tracks(at)
  BY <1>3, <1>4 DEF HistoryInvariant, Told
<1>6. Story(at)' /\ Issuing(at)'
  BY <1>1, <1>2, <1>5, QuietStep
<1>7. ASSUME NEW un, NEW re, Stacks(at, un, re), undo' = un, redo' = re
      PROVE  Stacks(at, undo, redo)'
  <2>1. Len(past) \in Nat
    BY <1>1, <1>5, Places
  <2>2. Stacks(at, un, re)'
    BY <1>1, <1>2, <1>7, <2>1, QuietStacks
  <2> QED  BY <1>7, <2>2 DEF Stacks
<1>8. call \in Calls /\ rows \in Seq(Row) /\ Len(rows) \in Nat /\ call.pos \in Nat \ {0}
  BY <1>1, CallTypes, LenProperties
<1>9. CASE pc' \notin {"load", "idle", "walk", "tx", "commit", "mirror"}
  BY <1>5, <1>6, <1>9 DEF Tracks
<1>10. ASSUME pc \in {"idle", "walk", "tx", "commit"}, pc' \in {"idle", "walk", "tx", "commit"},
              undo' = undo, redo' = redo
       PROVE  Tracks(at)'
  <2>1. Stacks(at, undo, redo)
    BY <1>5, <1>10 DEF Tracks
  <2>2. Stacks(at, undo, redo)'
    BY <1>7, <1>10, <2>1
  <2> QED  BY <1>10, <2>2 DEF Tracks
<1>11. \A flag \in BOOLEAN :
         /\ Loading(flag)[0] = <<>>
         /\ \A k \in 1 .. Len(rows) :
              Loading(flag)[k] = IF rows[k].live /\ rows[k].superseded = flag
                                 THEN Append(Loading(flag)[k - 1], rows[k].entry)
                                 ELSE Loading(flag)[k - 1]
  BY <1>1, <1>5, LoadSteps
<1>12. \A flag \in BOOLEAN : Loading(flag)' = Loading(flag)
  BY <1>2, LoadingSame
<1>13. CASE \E s \in Scope : Open(s)
  <2>1. pc' = "load" /\ undo' = <<>> /\ redo' = <<>> /\ call'.pos = 1
    BY <1>13 DEF Open, NoCall, NewCall
  <2>2. 1 <= Len(rows) + 1 /\ 1 - 1 = 0
    BY <1>8
  <2>3. Tracks(at)'
    BY <1>2, <1>11, <1>12, <2>1, <2>2 DEF Tracks
  <2> QED  BY <1>6, <2>3
<1>14. CASE LoadRow
  <2>1. PICK k \in 1 .. Len(rows) : k = call.pos
    BY <1>8, <1>14 DEF LoadRow
  <2>2. /\ pc = "load" /\ pc' = "load" /\ call'.pos = k + 1 /\ k + 1 - 1 = k
        /\ k + 1 <= Len(rows) + 1
    BY <1>8, <1>14, <2>1 DEF LoadRow, Calls
  <2>3. undo = Loading(FALSE)[k - 1] /\ redo = Loading(TRUE)[k - 1]
    BY <1>5, <2>1, <2>2 DEF Tracks
  <2>4. rows[k].live => rows[k].superseded \in BOOLEAN
    BY <1>1, LiveRows
  <2>5. undo' = Loading(FALSE)[k] /\ redo' = Loading(TRUE)[k]
    <3>1. CASE ~rows[k].live
      <4>1. undo' = undo /\ redo' = redo
        BY <1>14, <2>1, <3>1 DEF LoadRow
      <4> QED  BY <1>11, <2>3, <3>1, <4>1
    <3>2. CASE rows[k].live /\ rows[k].superseded = TRUE
      <4>1. undo' = undo /\ redo' = Append(redo, rows[k].entry)
        BY <1>14, <2>1, <3>2 DEF LoadRow
      <4> QED  BY <1>11, <2>3, <3>2, <4>1
    <3>3. CASE rows[k].live /\ rows[k].superseded = FALSE
      <4>1. undo' = Append(undo, rows[k].entry) /\ redo' = redo
        BY <1>14, <2>1, <3>3 DEF LoadRow
      <4> QED  BY <1>11, <2>3, <3>3, <4>1
    <3> QED  BY <2>4, <3>1, <3>2, <3>3
  <2>6. call'.pos <= Len(rows') + 1 /\ call'.pos - 1 = k
    BY <1>2, <2>2
  <2>7. Loading(FALSE)' = Loading(FALSE) /\ Loading(TRUE)' = Loading(TRUE)
    BY <1>12
  <2>8. Tracks(at)'
    BY <2>2, <2>5, <2>6, <2>7 DEF Tracks
  <2> QED  BY <1>6, <2>8
<1>15. CASE Opened
  <2>1. /\ pc = "load" /\ call.pos > Len(rows) /\ pc' = "idle" /\ ~(Len(redo) >= 2)
        /\ undo' = undo /\ redo' = redo
    BY <1>4, <1>15 DEF Opened, memory
  <2>2. call.pos - 1 = Len(rows)
    BY <1>5, <1>8, <2>1 DEF Tracks
  <2>3. undo = OnDisk(FALSE) /\ redo = OnDisk(TRUE)
    BY <1>5, <2>1, <2>2 DEF Tracks, OnDisk
  <2>4. Stacks(at, undo, redo)
    BY <1>1, <1>5, <2>1, <2>3, LoadedInOrder
  <2>5. Stacks(at, undo, redo)'
    BY <1>7, <2>1, <2>4
  <2>6. Tracks(at)'
    BY <2>1, <2>5 DEF Tracks
  <2> QED  BY <1>6, <2>6
<1>16. CASE Finish
  <2>1. Stacks(at, UndoAfter, RedoAfter)
    BY <1>5, <1>16 DEF Tracks, Finish
  <2>2. Stacks(at, undo, redo)'
    BY <1>7, <1>16, <2>1 DEF Finish
  <2>3. Tracks(at)'
    BY <1>16, <2>2 DEF Tracks, Finish
  <2> QED  BY <1>6, <2>3
<1>17. CASE MirrorDelta
  <2>1. CASE pc' = "panicked"
    BY <1>9, <2>1
  <2>2. CASE pc' # "panicked"
    <3>1. /\ pc = "mirror" /\ pc' = "mirror" /\ undo' = undo /\ redo' = redo /\ scope' = scope
          /\ call'.op = call.op /\ call'.cid = call.cid /\ call'.walked = call.walked
      BY <1>8, <1>17, <2>2 DEF MirrorDelta, Calls
    <3>2. UndoAfter' = UndoAfter /\ RedoAfter' = RedoAfter
      BY <3>1 DEF UndoAfter, RedoAfter, NewEntry, Record, Pop, Top
    <3>3. PICK un, re : un = UndoAfter /\ re = RedoAfter
      OBVIOUS
    <3>4. Stacks(at, un, re)
      BY <1>5, <3>1, <3>3 DEF Tracks
    <3>5. Len(past) \in Nat
      BY <1>1, <1>5, Places
    <3>6. Stacks(at, un, re)'
      BY <1>1, <1>2, <3>4, <3>5, QuietStacks
    <3>7. Stacks(at, UndoAfter, RedoAfter)'
      BY <3>2, <3>3, <3>6 DEF Stacks
    <3>8. Tracks(at)'
      BY <3>1, <3>7 DEF Tracks
    <3> QED  BY <1>6, <3>8
  <2> QED  BY <2>1, <2>2
<1>18. CASE Refuse /\ pc \in {"walk", "tx", "commit"}
  BY <1>6, <1>10, <1>18 DEF Refuse, memory
<1>19. CASE \E s \in Scope : SetActiveScope(s)
  BY <1>6, <1>10, <1>19 DEF SetActiveScope
<1>20. CASE \/ \E c \in Command : ExecutePersistent(c)
            \/ \E cs \in Batch : ExecutePersistentBatch(cs)
            \/ UndoPersistent \/ RedoPersistent
  BY <1>6, <1>10, <1>20
     DEF ExecutePersistent, ExecutePersistentBatch, UndoPersistent, RedoPersistent, Begin, memory
<1>21. CASE ~Refuse /\ (ComputeDeltas \/ WalkDelta \/ BeginTransaction \/ PersistDelta \/ PersistJournal)
  BY <1>6, <1>10, <1>21
     DEF ComputeDeltas, WalkDelta, BeginTransaction, PersistDelta, PersistJournal, Proceed, memory
<1>22. CASE Drop
  BY <1>9, <1>22 DEF Drop
<1>23. CASE UNCHANGED vars
  <2>1. pc' = pc /\ undo' = undo /\ redo' = redo /\ call' = call /\ scope' = scope
    BY <1>23 DEF vars, memory
  <2>2. CASE pc \in {"idle", "walk", "tx", "commit"}
    BY <1>6, <1>10, <2>1, <2>2
  <2>3. CASE pc = "mirror"
    <3>1. UndoAfter' = UndoAfter /\ RedoAfter' = RedoAfter
      BY <2>1 DEF UndoAfter, RedoAfter, NewEntry, Record, Pop, Top
    <3>2. PICK un, re : un = UndoAfter /\ re = RedoAfter
      OBVIOUS
    <3>3. Stacks(at, un, re)
      BY <1>5, <2>3, <3>2 DEF Tracks
    <3>4. Len(past) \in Nat
      BY <1>1, <1>5, Places
    <3>5. Stacks(at, un, re)'
      BY <1>1, <1>2, <3>3, <3>4, QuietStacks
    <3>6. Stacks(at, UndoAfter, RedoAfter)'
      BY <3>1, <3>2, <3>5 DEF Stacks
    <3>7. Tracks(at)'
      BY <2>1, <2>3, <3>6 DEF Tracks
    <3> QED  BY <1>6, <3>7
  <2>4. CASE pc = "load"
    <3>1. Tracks(at)'
      BY <1>2, <1>5, <1>12, <2>1, <2>4 DEF Tracks
    <3> QED  BY <1>6, <3>1
  <2>5. CASE pc \notin {"load", "idle", "walk", "tx", "commit", "mirror"}
    BY <1>9, <2>1, <2>5
  <2> QED  BY <2>2, <2>3, <2>4, <2>5
<1>24. CASE SqlError
  BY <1>18, <1>24 DEF SqlError
<1>25. CASE Refuse /\ (ComputeDeltas \/ WalkDelta \/ PersistDelta \/ PersistJournal)
  BY <1>18, <1>25 DEF ComputeDeltas, WalkDelta, PersistDelta, PersistJournal
<1>26. CASE Refuse /\ BeginTransaction
  BY <1>26 DEF Refuse, BeginTransaction, Proceed
<1>27. CASE Commit
  BY <1>27 DEF Commit, Committing
<1> QED
  BY <1>1, <1>13, <1>14, <1>15, <1>16, <1>17, <1>19, <1>20, <1>21, <1>22, <1>23, <1>24, <1>25,
     <1>26, <1>27 DEF Next

LEMMA HistoryInit ==
  ASSUME Init, past = <<>>, future = <<>>
  PROVE  HistoryInvariant
<1>1. EngineInvariant
  BY InitInvariant
<1>2. TableMirrored /\ CallOnTrack
  BY DEF Init, TableMirrored, CallOnTrack, InCall
<1>3. entities = EmptyGraph /\ rows = <<>> /\ pc = "closed" /\ issued = 0
  BY DEF Init
<1>4. PICK at : at = <<>>
  OBVIOUS
<1>5. Len(at) = 0 /\ Len(past) = 0 /\ Len(future) = 0 /\ Len(rows) = 0
  BY <1>3, <1>4
<1>6. past \in Seq(Graph) /\ future \in Seq(Graph)
  OBVIOUS
<1>7. \A n \in 1 .. Len(at) : FALSE
  BY <1>5
<1>8. Enumerates(at, {i \in 1 .. Len(rows) : rows[i].live})
  <2>1. {i \in 1 .. Len(rows) : rows[i].live} = {}
    BY <1>5
  <2>2. at \in Seq({})
    BY <1>4
  <2> QED  BY <1>7, <2>1, <2>2 DEF Enumerates
<1>9. Line[1] = EmptyGraph
  <2>1. Line = [n \in 1 .. 0 + 1 + 0 |-> IF n <= 0 THEN past[n]
                                         ELSE IF n = 0 + 1 THEN entities ELSE future[n - (0 + 1)]]
    BY <1>5 DEF Line
  <2>2. 1 \in 1 .. 0 + 1 + 0 /\ ~(1 <= 0) /\ 1 = 0 + 1
    OBVIOUS
  <2> QED  BY <1>3, <2>1, <2>2
<1>10. Len(at) = Len(past) + Len(future)
  BY <1>5
<1>11. Story(at)
  BY <1>6, <1>7, <1>8, <1>9, <1>10 DEF Story
<1>12. Issuing(at)
  BY <1>3, <1>5, <1>7 DEF Issuing, Minted
<1>13. Tracks(at)
  BY <1>3 DEF Tracks
<1> QED  BY <1>1, <1>2, <1>11, <1>12, <1>13 DEF HistoryInvariant, Told

LEMMA HistoryKept ==
  ASSUME Host = {}, HistoryInvariant, [HistoryNext]_<<vars, line>>
  PROVE  HistoryInvariant'
<1>1. EngineInvariant /\ TableMirrored /\ CallOnTrack /\ [Next]_vars
  BY DEF HistoryInvariant, HistoryNext
<1>2. EngineInvariant'
  BY <1>1, NextInvariant
<1>3. TableMirrored'
  BY <1>1, MirroredNext
<1>4. CallOnTrack'
  BY <1>1, CallKept
<1>5. Told'
  BY CommitTold, QuietTold
<1> QED  BY <1>2, <1>3, <1>4, <1>5 DEF HistoryInvariant

LEMMA HistoryHolds ==
  ASSUME Host = {}
  PROVE  HistorySpec => []HistoryInvariant
<1>1. Init /\ past = <<>> /\ future = <<>> => HistoryInvariant
  BY HistoryInit
<1>2. HistoryInvariant /\ [HistoryNext]_<<vars, line>> => HistoryInvariant'
  BY HistoryKept
<1>3. HistorySpec => Init /\ past = <<>> /\ future = <<>> /\ [][HistoryNext]_<<vars, line>>
  BY DEF HistorySpec, HistoryNext
<1> QED  BY <1>1, <1>2, <1>3, PTL

(* In a project whose commands name no parent, replaying the journal rows  *)
(* that are not superseded always gives the `entities` table: between any  *)
(* two steps of a call, after a crash, after an SQL error, in every later  *)
(* session - until an open has loaded two redo rows.                       *)
THEOREM JournalExplains == Host = {} => (HistorySpec => []JournalExplainsDisk)
<1> SUFFICES ASSUME Host = {} PROVE HistorySpec => []JournalExplainsDisk
  OBVIOUS
<1>1. HistoryInvariant => JournalExplainsDisk
  <2> SUFFICES ASSUME HistoryInvariant, ~reordered
               PROVE  Successive(ReplayRow, EmptyGraph, rows)[Len(rows)] = entities
    BY DEF JournalExplainsDisk
  <2>1. TypeOK
    BY DEF HistoryInvariant, EngineInvariant
  <2>2. PICK at : Story(at)
    BY DEF HistoryInvariant, Told
  <2> QED  BY <2>1, <2>2, RowsExplain
<1> QED  BY <1>1, HistoryHolds, PTL

(* There, between calls, the whole undo stack can be undone and the whole  *)
(* redo stack redone, in memory and in the table: no entry that execute,   *)
(* undo, redo or the load at open has put there meets a graph that refuses *)
(* it.                                                                     *)
THEOREM StacksAlwaysDrain == Host = {} => (HistorySpec => []StacksDrain)
<1> SUFFICES ASSUME Host = {} PROVE HistorySpec => []StacksDrain
  OBVIOUS
<1>1. HistoryInvariant => StacksDrain
  <2> SUFFICES ASSUME HistoryInvariant, pc = "idle", ~reordered
               PROVE  UndoStackDrains /\ RedoStackDrains
    BY DEF StacksDrain
  <2>1. TypeOK /\ graph = entities
    BY DEF HistoryInvariant, EngineInvariant, TableMirrored
  <2>2. PICK at : Story(at) /\ Stacks(at, undo, redo)
    BY DEF HistoryInvariant, Told, Tracks
  <2>3. Drains(Unwinding(graph, undo)) /\ Drains(UnwindingTable(entities, undo))
    BY <2>1, <2>2, UndoDrains, UndoDrainsTable
  <2>4. Drains(Rewinding(graph, redo)) /\ Drains(RewindingTable(entities, redo))
    BY <2>1, <2>2, RedoDrains, RedoDrainsTable
  <2> QED  BY <2>3, <2>4 DEF UndoStackDrains, RedoStackDrains
<1> QED  BY <1>1, HistoryHolds, PTL

(* There, between calls, the two stacks in memory are what an open would   *)
(* load from the table: the undo stack short of it by no more than the     *)
(* capacity has dropped, the redo stack in the opposite order.             *)
THEOREM JournalMatches == Host = {} => (HistorySpec => []JournalMatchesDisk)
<1> SUFFICES ASSUME Host = {} PROVE HistorySpec => []JournalMatchesDisk
  OBVIOUS
<1>1. HistoryInvariant => JournalMatchesDisk
  <2> SUFFICES ASSUME HistoryInvariant, pc = "idle", ~reordered
               PROVE  /\ IsSuffix(undo, OnDisk(FALSE))
                      /\ Len(OnDisk(FALSE)) - Len(undo) <= Trimmed
                      /\ redo = Reverse(OnDisk(TRUE))
    BY DEF JournalMatchesDisk
  <2>1. TypeOK
    BY DEF HistoryInvariant, EngineInvariant
  <2>2. PICK at : Story(at) /\ Stacks(at, undo, redo)
    BY DEF HistoryInvariant, Told, Tracks
  <2> QED  BY <2>1, <2>2, StacksMatch
<1> QED  BY <1>1, HistoryHolds, PTL

(* There, the project is a timeline: each commit of an execute, a batch,   *)
(* an undo or a redo is one step along it, and no other step of a call, no *)
(* refusal, error, crash or open moves it.                                 *)
THEOREM EngineIsTimeline == Host = {} => (HistorySpec => ImplementsTimeline)
<1> SUFFICES ASSUME Host = {} PROVE HistorySpec => ImplementsTimeline
  OBVIOUS
<1>1. Init /\ past = <<>> /\ future = <<>> => Timeline!TimelineInit
  <2> SUFFICES ASSUME Init, past = <<>>, future = <<>> PROVE Timeline!TimelineInit
    OBVIOUS
  <2>1. entities \in Graph
    BY InitInvariant DEF EngineInvariant, TypeOK
  <2> QED  BY <2>1 DEF Timeline!TimelineInit
<1>2. HistoryInvariant /\ [HistoryNext]_<<vars, line>>
        => [reordered \/ Timeline!TimelineNext]_(Timeline!timelineVars)
  <2> SUFFICES ASSUME HistoryInvariant, [HistoryNext]_<<vars, line>>, ~reordered
               PROVE  [Timeline!TimelineNext]_(Timeline!timelineVars)
    OBVIOUS
  <2>1. CASE Committing
    BY <2>1, CommitTold
  <2>2. CASE ~Committing
    <3>1. TypeOK /\ [Next]_vars /\ past' = past /\ future' = future
      BY <2>2 DEF HistoryInvariant, EngineInvariant, HistoryNext, line, vars
    <3>2. entities' = entities
      BY <2>2, <3>1, Quiet
    <3> QED  BY <3>1, <3>2 DEF Timeline!timelineVars
  <2> QED  BY <2>1, <2>2
<1>3. HistorySpec => Init /\ past = <<>> /\ future = <<>> /\ [][HistoryNext]_<<vars, line>>
  BY DEF HistorySpec, HistoryNext
<1> QED  BY <1>1, <1>2, <1>3, HistoryHolds, PTL DEF ImplementsTimeline
=============================================================================
