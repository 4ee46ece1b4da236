---------------------------- MODULE CommandEngine ----------------------------
(***************************************************************************)
(* The persistent command engine: crates/aec_command/src/engine.rs (open,  *)
(* execute_persistent, execute_persistent_batch, undo_persistent,          *)
(* redo_persistent), its journal (journal.rs) and the bridge calls that    *)
(* drive it (crates/aec_bridge/src/service.rs, the command_ calls).        *)
(*                                                                         *)
(* Every mutating call has the same pipeline: walk the deltas over a       *)
(* shadow copy of the graph, write them and the journal row in one SQL     *)
(* transaction, commit, mirror them in memory.  A step of the model is one *)
(* iteration of one of those loops, so that an error can end any of them   *)
(* and a crash can fall between any two.  The bridge holds its write lock  *)
(* across a call: at most one call is in flight.                           *)
(*                                                                         *)
(* Assumed: a command comes with an id of its own.  Whoever builds one     *)
(* draws a fresh id (Command::user and Command::ai, newCommandId in the    *)
(* renderer); the bridge takes it without looking for it in the journal.   *)
(*                                                                         *)
(* On disk:   entities, rows.                                              *)
(* In memory: pc, scope, graph, undo, redo, call - lost by a crash.        *)
(***************************************************************************)
EXTENDS ProjectGraph

CONSTANTS
    Scope,          \* the workflow surfaces
    Command,        \* the typed commands callers may send
    Batch,          \* the sequences of commands callers may send as a batch
    Capacity,       \* the journal's capacity; 0 is unbounded
    MaxCommands,    \* bound on the number of execute calls
    MaxReopens      \* bound on the number of times a project is opened again

VARIABLES
    entities,   \* the `entities` table
    rows,       \* the `undo_journal` table: position is seq, see NoRow
    pc,         \* where the engine is
    scope,      \* CommandEngine.active_scope
    graph,      \* CommandEngine.graph
    undo, redo, \* UndoRedoJournal's stacks, top last
    call,       \* the locals of the call in flight
    issued,     \* how many command ids have been minted
    reopens,    \* how many times the project was opened again
    reordered   \* history: some open loaded two redo rows or more

disk == <<entities, rows>>
memory == <<scope, graph, undo, redo>>
history == <<issued, reopens, reordered>>
vars == <<disk, pc, memory, call, history>>

JournalEntry == [cid: Nat, scope: Scope,
                 forward: Seq(EntityDelta), inverse: Seq(EntityDelta)]

\* A deleted row.  `seq` is AUTOINCREMENT: it is never used again, so a row
\* keeps its position in `rows` and a deleted one leaves this mark there.
NoRow == [live |-> FALSE]

Row == {NoRow}
    \cup [live: {TRUE}, superseded: BOOLEAN, entry: JournalEntry]

-----------------------------------------------------------------------------
(* Commands.  A tool stands for the family of commands that produce deltas *)
(* of the same shape; `scope` is the scope the caller wrote in the         *)
(* envelope, ToolScope the one CommandKind::scope computes.                *)

DesignTools == {"create", "place", "modify", "delete", "set_lighting"}

TypedCommand ==
    [tool: {"create", "modify", "draw"}, scope: Scope, id: Entity, body: Body]
    \cup [tool: {"place"}, scope: Scope, id: Entity, body: Body, host: Host]
    \cup [tool: {"copy"}, scope: Scope, id: Entity, body: Body, source: Entity]
    \cup [tool: {"edit"}, scope: Scope, ids: Seq(Entity), body: Body]
    \cup [tool: {"delete"}, scope: Scope, id: Entity]
    \cup [tool: {"set_lighting"}, scope: Scope]

ASSUME EngineAssumption ==
    /\ Command \subseteq TypedCommand
    /\ Batch \subseteq Seq(Command)
    /\ {"wall", "door", "primitive"} \subseteq Kind
    /\ Capacity \in Nat

ToolScope(tool) == IF tool \in DesignTools THEN "Design" ELSE "Draft"

\* load_primitive: every listed entity is there and is a primitive.
ArePrimitives(g, ids) ==
    \A i \in DOMAIN ids : ids[i] \in Present(g) /\ g[ids[i]].kind = "primitive"

\* Whether compute_deltas_against_graph accepts the command.
Computes(g, c) ==
    CASE c.tool \in {"modify", "delete"} -> c.id \in Present(g)
      [] c.tool = "edit" -> ArePrimitives(g, c.ids)
      [] c.tool = "copy" -> ArePrimitives(g, <<c.source>>) /\ g[c.id] = Absent
      [] OTHER -> TRUE

\* The deltas it returns then.
Deltas(g, c) ==
    CASE c.tool = "create" ->
            <<Create(c.id, [kind |-> "wall", parent |-> NoParent, body |-> c.body])>>
      [] c.tool = "place" ->
            <<Create(c.id, [kind |-> "door", parent |-> c.host, body |-> c.body])>>
      [] c.tool \in {"draw", "copy"} ->
            <<Create(c.id, [kind |-> "primitive", parent |-> NoParent, body |-> c.body])>>
      [] c.tool = "modify" -> <<Update(c.id, g[c.id].body, c.body)>>
      [] c.tool = "delete" -> <<Delete(c.id, g[c.id])>>
      [] c.tool = "edit" ->
            [i \in DOMAIN c.ids |-> Update(c.ids[i], g[c.ids[i]].body, c.body)]
      [] c.tool = "set_lighting" -> <<>>

-----------------------------------------------------------------------------
(* The call in flight.                                                     *)
(*   op       what the journal will do: "record", "undo" or "redo"         *)
(*   todo     commands whose deltas are still to be computed               *)
(*   pending  deltas still to be walked over the shadow copy               *)
(*   walked   deltas that were                                             *)
(*   trail    the shadow copy before, between and after them               *)
(*   tx       the transaction's view of the disk                           *)
(*   pos      the loop variable of the row and delta loops                 *)

Calls == [op: {"record", "undo", "redo"}, cid: Nat, todo: Seq(Command),
          pending: Seq(EntityDelta), walked: Seq(EntityDelta),
          trail: Seq(Graph), txEntities: Graph, txRows: Seq(Row), pos: Nat \ {0}]

NewCall(op, cid, todo, pending, g) ==
    [op |-> op, cid |-> cid, todo |-> todo, pending |-> pending,
     walked |-> <<>>, trail |-> <<g>>,
     txEntities |-> EmptyGraph, txRows |-> <<>>, pos |-> 1]

NoCall == NewCall("record", 0, <<>>, <<>>, EmptyGraph)

Top(stack) == stack[Len(stack)]
Pop(stack) == SubSeq(stack, 1, Len(stack) - 1)

Shadow == Top(call.trail)

\* The journal entry an execute call builds.
NewEntry == [cid |-> call.cid, scope |-> scope,
             forward |-> call.walked, inverse |-> InvertAll(call.walked)]

Init ==
    /\ entities = EmptyGraph
    /\ rows = <<>>
    /\ pc = "closed"
    /\ scope \in Scope
    /\ graph = EmptyGraph
    /\ undo = <<>> /\ redo = <<>>
    /\ call = NoCall
    /\ issued = 0
    /\ reopens = 0
    /\ reordered = FALSE

-----------------------------------------------------------------------------
(* Opening.  ProjectGraph::load reads the table, UndoRedoJournal::load     *)
(* walks the rows in the order of seq and pushes each on the stack that    *)
(* its flag names.                                                         *)

Open(s) ==
    /\ pc = "closed"
    /\ pc' = "load"
    /\ scope' = s
    /\ graph' = entities
    /\ undo' = <<>> /\ redo' = <<>>
    /\ call' = NoCall
    /\ UNCHANGED <<disk, history>>

\* Mutant: the loop advances only past rows that exist.
LoadLiveRow ==
    /\ pc = "load"
    /\ call.pos <= Len(rows)
    /\ rows[call.pos].live
    /\ LET row == rows[call.pos] IN
         IF row.superseded
         THEN redo' = Append(redo, row.entry) /\ UNCHANGED undo
         ELSE undo' = Append(undo, row.entry) /\ UNCHANGED redo
    /\ call' = [call EXCEPT !.pos = @ + 1]
    /\ UNCHANGED <<disk, pc, scope, graph, history>>

LoadRow ==
    /\ pc = "load"
    /\ call.pos <= Len(rows)
    /\ LET row == rows[call.pos] IN
         IF ~row.live
         THEN UNCHANGED <<undo, redo>>
         ELSE IF row.superseded
              THEN redo' = Append(redo, row.entry) /\ UNCHANGED undo
              ELSE undo' = Append(undo, row.entry) /\ UNCHANGED redo
    /\ call' = [call EXCEPT !.pos = @ + 1]
    /\ UNCHANGED <<disk, pc, scope, graph, history>>

Opened ==
    /\ pc = "load"
    /\ call.pos > Len(rows)
    /\ pc' = "idle"
    /\ call' = NoCall
    /\ reordered' = (reordered \/ Len(redo) >= 2)
    /\ UNCHANGED <<disk, memory, issued, reopens>>

SetActiveScope(s) ==
    /\ pc = "idle"
    /\ scope' = s
    /\ UNCHANGED <<disk, pc, graph, undo, redo, call, history>>

\* The process dies, or the caller drops the engine; an open transaction is
\* rolled back.  A bridge call ends with this step: the next one opens a new
\* engine.
Drop ==
    /\ pc # "closed"
    /\ reopens < MaxReopens
    /\ pc' = "closed"
    /\ graph' = EmptyGraph
    /\ undo' = <<>> /\ redo' = <<>>
    /\ call' = NoCall
    /\ reopens' = reopens + 1
    /\ UNCHANGED <<disk, scope, issued, reordered>>

-----------------------------------------------------------------------------
(* Starting a call.  A call refused by its guard changes nothing.          *)

Begin(newCall) ==
    /\ pc = "idle"
    /\ pc' = "walk"
    /\ call' = newCall
    /\ UNCHANGED <<disk, memory, reopens, reordered>>

ExecutePersistent(c) ==
    /\ issued < MaxCommands
    /\ ToolScope(c.tool) = scope
    /\ Begin(NewCall("record", issued + 1, <<c>>, <<>>, graph))
    /\ issued' = issued + 1

ExecutePersistentBatch(cs) ==
    /\ issued < MaxCommands
    /\ cs # <<>>
    /\ \A i \in DOMAIN cs : cs[i].scope = scope
    /\ Begin(NewCall("record", issued + 1, cs, <<>>, graph))
    /\ issued' = issued + 1

UndoPersistent ==
    /\ undo # <<>>
    /\ Top(undo).scope = scope
    /\ Begin(NewCall("undo", Top(undo).cid, <<>>, Top(undo).inverse, graph))
    /\ UNCHANGED issued

RedoPersistent ==
    /\ redo # <<>>
    /\ Top(redo).scope = scope
    /\ Begin(NewCall("redo", Top(redo).cid, <<>>, Top(redo).forward, graph))
    /\ UNCHANGED issued

-----------------------------------------------------------------------------
(* Walking the shadow copy: validate_all for one command, an undo or a     *)
(* redo; the staging clone for a batch.                                    *)

\* The call returns an error: the shadow copy, or the transaction, is gone.
Refuse ==
    /\ pc' = "idle"
    /\ call' = NoCall
    /\ UNCHANGED <<disk, memory, history>>

Proceed(label, newCall) ==
    /\ pc' = label
    /\ call' = newCall
    /\ UNCHANGED <<disk, memory, history>>

ComputeDeltas ==
    /\ pc = "walk"
    /\ call.pending = <<>> /\ call.todo # <<>>
    /\ LET c == Head(call.todo) IN
         IF Computes(Shadow, c)
         THEN Proceed("walk", [call EXCEPT !.pending = Deltas(Shadow, c),
                                           !.todo = Tail(@)])
         ELSE Refuse

\* Mutant: a validation that forgets duplicate ids.
WalkDeltaUnlessCreate ==
    /\ pc = "walk"
    /\ call.pending # <<>>
    /\ LET d == Head(call.pending) IN
         IF d.op = "create" \/ Applies(Shadow, d)
         THEN Proceed("walk", [call EXCEPT !.pending = Tail(@),
                                           !.walked = Append(@, d),
                                           !.trail = Append(@, Apply(Shadow, d))])
         ELSE Refuse

WalkDelta ==
    /\ pc = "walk"
    /\ call.pending # <<>>
    /\ LET d == Head(call.pending) IN
         IF Applies(Shadow, d)
         THEN Proceed("walk", [call EXCEPT !.pending = Tail(@),
                                           !.walked = Append(@, d),
                                           !.trail = Append(@, Apply(Shadow, d))])
         ELSE Refuse

-----------------------------------------------------------------------------
(* The transaction.                                                        *)

BeginTransaction ==
    /\ pc = "walk"
    /\ call.pending = <<>> /\ call.todo = <<>>
    /\ Proceed("tx", [call EXCEPT !.txEntities = entities, !.txRows = rows,
                                  !.pos = 1])

\* Mutant: the write goes to the connection, not to the transaction.
PersistDeltaAtOnce ==
    /\ pc = "tx"
    /\ call.pos <= Len(call.walked)
    /\ Persists(entities, call.walked[call.pos])
    /\ entities' = Persist(entities, call.walked[call.pos])
    /\ call' = [call EXCEPT !.txEntities = entities', !.pos = @ + 1]
    /\ UNCHANGED <<rows, pc, memory, history>>

PersistDelta ==
    /\ pc = "tx"
    /\ call.pos <= Len(call.walked)
    /\ LET d == call.walked[call.pos] IN
         IF Persists(call.txEntities, d)
         THEN Proceed("tx", [call EXCEPT !.txEntities = Persist(@, d),
                                         !.pos = @ + 1])
         ELSE Refuse

\* The rows of this command that carry the given flag.
RowsOf(rs, cid, flag) ==
    {i \in DOMAIN rs : /\ rs[i].live
                       /\ rs[i].superseded = flag
                       /\ rs[i].entry.cid = cid}

IsMaximum(i, S) == i \in S /\ \A j \in S : j <= i

\* Mutant: an INSERT only.
PersistRecordOnly(rs, entry) ==
    Append(rs, [live |-> TRUE, superseded |-> FALSE, entry |-> entry])

\* DELETE the redo rows, INSERT the new one.
PersistRecord(rs, entry) ==
    Append([i \in DOMAIN rs |->
                IF rs[i].live /\ rs[i].superseded THEN NoRow ELSE rs[i]],
           [live |-> TRUE, superseded |-> FALSE, entry |-> entry])

\* Mutant: the newest row of the other stack, whatever its command.
PersistNewestFlag(rs, cid, flag) ==
    [i \in DOMAIN rs |->
        IF IsMaximum(i, {j \in DOMAIN rs : rs[j].live /\ rs[j].superseded # flag})
        THEN [rs[i] EXCEPT !.superseded = flag]
        ELSE rs[i]]

\* UPDATE the newest row of this command that is on the other stack.
PersistFlag(rs, cid, flag) ==
    [i \in DOMAIN rs |->
        IF IsMaximum(i, RowsOf(rs, cid, ~flag))
        THEN [rs[i] EXCEPT !.superseded = flag]
        ELSE rs[i]]

PersistJournal ==
    /\ pc = "tx"
    /\ call.pos > Len(call.walked)
    /\ IF call.op = "record"
       THEN Proceed("commit",
                    [call EXCEPT !.txRows = PersistRecord(@, NewEntry)])
       ELSE LET flag == (call.op = "undo") IN
            IF RowsOf(call.txRows, call.cid, ~flag) = {}
            THEN Refuse
            ELSE Proceed("commit",
                    [call EXCEPT !.txRows = PersistFlag(@, call.cid, flag)])

\* Mutant: an early return between the commit and the mirror.
ErrorAfterCommit ==
    /\ pc \in {"tx", "commit", "mirror"}
    /\ Refuse

\* Any statement, or the COMMIT itself, may fail (full disk, I/O error).
SqlError ==
    /\ pc \in {"tx", "commit"}
    /\ Refuse

Commit ==
    /\ pc = "commit"
    /\ entities' = call.txEntities
    /\ rows' = call.txRows
    /\ pc' = "mirror"
    /\ call' = [call EXCEPT !.pos = 1]
    /\ UNCHANGED <<memory, history>>

-----------------------------------------------------------------------------
(* After the commit: `.expect("validated above; apply cannot fail")`, then *)
(* the in-memory stacks.                                                   *)

MirrorDelta ==
    /\ pc = "mirror"
    /\ call.pos <= Len(call.walked)
    /\ LET d == call.walked[call.pos] IN
         IF Applies(graph, d)
         THEN /\ graph' = Apply(graph, d)
              /\ call' = [call EXCEPT !.pos = @ + 1]
              /\ UNCHANGED pc
         ELSE /\ pc' = "panicked"
              /\ UNCHANGED <<graph, call>>
    /\ UNCHANGED <<disk, scope, undo, redo, history>>

\* UndoRedoJournal::record drops the oldest entry beyond the capacity.
Record(stack, entry) ==
    LET longer == Append(stack, entry) IN
    IF Capacity > 0 /\ Len(longer) > Capacity THEN Tail(longer) ELSE longer

\* The stacks after the call: record, or take and commit.
UndoAfter ==
    CASE call.op = "record" -> Record(undo, NewEntry)
      [] call.op = "undo" -> Pop(undo)
      [] call.op = "redo" -> Append(undo, Top(redo))

RedoAfter ==
    CASE call.op = "record" -> <<>>
      [] call.op = "undo" -> Append(redo, Top(undo))
      [] call.op = "redo" -> Pop(redo)

Finish ==
    /\ pc = "mirror"
    /\ call.pos > Len(call.walked)
    /\ undo' = UndoAfter
    /\ redo' = RedoAfter
    /\ pc' = "idle"
    /\ call' = NoCall
    /\ UNCHANGED <<disk, scope, graph, history>>

-----------------------------------------------------------------------------
Next ==
    \/ \E s \in Scope : Open(s) \/ SetActiveScope(s)
    \/ LoadRow \/ Opened \/ Drop
    \/ \E c \in Command : ExecutePersistent(c)
    \/ \E cs \in Batch : ExecutePersistentBatch(cs)
    \/ UndoPersistent \/ RedoPersistent
    \/ ComputeDeltas \/ WalkDelta
    \/ BeginTransaction \/ PersistDelta \/ PersistJournal \/ SqlError \/ Commit
    \/ MirrorDelta \/ Finish

Spec == Init /\ [][Next]_vars

-----------------------------------------------------------------------------
(* The types of the variables.                                             *)
TypeOK ==
    /\ entities \in Graph
    /\ rows \in Seq(Row)
    /\ pc \in {"closed", "load", "idle", "walk", "tx", "commit", "mirror",
               "panicked"}
    /\ scope \in Scope
    /\ graph \in Graph
    /\ undo \in Seq(JournalEntry) /\ redo \in Seq(JournalEntry)
    /\ call \in Calls
    /\ issued \in Nat /\ reopens \in Nat /\ reordered \in BOOLEAN

(* The `.expect("validated above; apply cannot fail")` of the mirror loops *)
(* never fires: the walk over the shadow copy foresees every in-memory     *)
(* apply, whatever the table cascaded in between (engine.rs, step 4 of     *)
(* execute_persistent and its three siblings).                             *)
MirrorNeverPanics == pc # "panicked"

\* g has every record of t.
Covers(g, t) == \A e \in Present(t) : g[e] = t[e]

(* Between calls the in-memory graph holds every row of the table, with    *)
(* the same contents.  It may hold more: the children of a row whose       *)
(* DELETE cascaded stay in memory until the project is opened again.       *)
MemoryCoversDisk ==
    pc = "idle" => Covers(graph, entities)

(* The inductive invariant that MirrorNeverPanics and MemoryCoversDisk     *)
(* rest on: the trail is what applying the walked deltas to the graph      *)
(* gives; the transaction, statement by statement, stays covered by it;    *)
(* the mirror loop retraces it.                                            *)
InCall == pc \in {"walk", "tx", "commit", "mirror"}

TrailIsWalk ==
    InCall =>
        /\ Len(call.trail) = Len(call.walked) + 1
        /\ \A k \in 1 .. Len(call.walked) :
             /\ Applies(call.trail[k], call.walked[k])
             /\ call.trail[k + 1] = Apply(call.trail[k], call.walked[k])
        /\ pc # "mirror" => call.trail[1] = graph
        /\ pc \in {"tx", "mirror"} => call.pos <= Len(call.walked) + 1

TransactionCovered ==
    /\ pc = "tx" => Covers(call.trail[call.pos], call.txEntities)
    /\ pc = "commit" => Covers(Shadow, call.txEntities)

TableCovered ==
    /\ pc \in {"load", "idle", "walk", "tx", "commit"} => Covers(graph, entities)
    /\ pc = "mirror" => Covers(Shadow, entities)

MirrorRetraces == pc = "mirror" => graph = call.trail[call.pos]

StackHasEntry ==
    InCall => (call.op = "undo" => undo # <<>>) /\ (call.op = "redo" => redo # <<>>)

EngineInvariant ==
    /\ TypeOK
    /\ TrailIsWalk
    /\ TransactionCovered
    /\ TableCovered
    /\ MirrorRetraces
    /\ StackHasEntry
    /\ MirrorNeverPanics

\* The same with equality, which holds where nothing can cascade.
TableMirrored ==
    /\ pc \in {"load", "idle", "walk", "tx", "commit"} => graph = entities
    /\ pc = "tx" => call.txEntities = call.trail[call.pos]
    /\ pc = "commit" => call.txEntities = Shadow
    /\ pc = "mirror" => entities = Shadow

(* "the on-disk state and the in-memory state stay in lock-step"           *)
(* (project_graph.rs, module comment).                                     *)
LockStep == pc = "idle" => graph = entities

-----------------------------------------------------------------------------
(* A call that was admitted is a loop in one thread: it keeps running.     *)
CallStep ==
    \/ LoadRow \/ Opened \/ ComputeDeltas \/ WalkDelta \/ BeginTransaction
    \/ PersistDelta \/ PersistJournal \/ Commit \/ MirrorDelta \/ Finish

FairSpec == Spec /\ WF_vars(CallStep)

(* Every call returns, with a result or an error, unless the process dies; *)
(* no loop over deltas, commands or rows runs forever.                     *)
CallsReturn == (pc \notin {"idle", "closed"}) ~> (pc \in {"idle", "closed"})
=============================================================================
