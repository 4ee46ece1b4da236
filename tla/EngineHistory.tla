--------------------------- MODULE EngineHistory ---------------------------
(***************************************************************************)
(* What the journal says about the project: properties of the command      *)
(* engine that replay journal entries over a graph, and the refinement of  *)
(* EditTimeline by the engine, its table and its sessions.                 *)
(***************************************************************************)
EXTENDS CommandEngine, SequencesExt

\* The outcome of a replay that met a delta it could not apply.
Broken == <<>>

ReplayDelta(g, d) == IF g # Broken /\ Applies(g, d) THEN Apply(g, d) ELSE Broken

RewriteDelta(t, d) == IF t # Broken /\ Persists(t, d) THEN Persist(t, d) ELSE Broken

\* The states that taking the elements of a list one after another leads to
\* from `start`; [0] is `start`.
Successive(Step(_, _), start, list) ==
    LET state[k \in 0 .. Len(list)] ==
            IF k = 0 THEN start ELSE Step(state[k - 1], list[k])
    IN  state

\* A list of deltas over a graph in memory, and over the table.
Replay(g, deltas) == Successive(ReplayDelta, g, deltas)[Len(deltas)]
Rewrite(t, deltas) == Successive(RewriteDelta, t, deltas)[Len(deltas)]

\* The entries of a stack one after another, the top first.
Unwinding(g, stack) ==
    Successive(LAMBDA s, en : Replay(s, en.inverse), g, Reverse(stack))
Rewinding(g, stack) ==
    Successive(LAMBDA s, en : Replay(s, en.forward), g, Reverse(stack))
UnwindingTable(t, stack) ==
    Successive(LAMBDA s, en : Rewrite(s, en.inverse), t, Reverse(stack))
RewindingTable(t, stack) ==
    Successive(LAMBDA s, en : Rewrite(s, en.forward), t, Reverse(stack))

Drains(states) == \A k \in DOMAIN states : states[k] # Broken

UndoStackDrains ==
    Drains(Unwinding(graph, undo)) /\ Drains(UnwindingTable(entities, undo))

RedoStackDrains ==
    Drains(Rewinding(graph, redo)) /\ Drains(RewindingTable(entities, redo))

ReplayRow(g, row) ==
    IF row.live /\ ~row.superseded THEN Replay(g, row.entry.forward) ELSE g

(* The rows that are not superseded, replayed in the order of seq over an  *)
(* empty project, give the `entities` table: at every moment, so also      *)
(* after a crash between any two steps (engine.rs, "The pipeline is        *)
(* all-or-nothing").                                                       *)
JournalExplainsDisk ==
    ~reordered => Successive(ReplayRow, EmptyGraph, rows)[Len(rows)] = entities

(* The whole undo stack can be undone and the whole redo stack redone, one *)
(* step after another: no entry is refused because the graph or the table  *)
(* is not what it expects.                                                 *)
StacksDrain == pc = "idle" /\ ~reordered => UndoStackDrains /\ RedoStackDrains

\* The entries of the rows with the given flag, in the order of seq: of the
\* first k rows, and of all.
Loading(flag) ==
    Successive(LAMBDA found, row : IF row.live /\ row.superseded = flag
                                   THEN Append(found, row.entry) ELSE found,
               <<>>, rows)
OnDisk(flag) == Loading(flag)[Len(rows)]

\* How many entries the capacity can have cost the undo stack so far.
Trimmed == IF Capacity = 0 \/ issued < Capacity THEN 0 ELSE issued - Capacity

(* Between calls, memory and table agree on the journal:                   *)
(* the undo stack is the end of the undo rows, short of them only by what  *)
(* the capacity cost, and the redo stack is the redo rows, the oldest on   *)
(* top (journal.rs, "so the journal never drifts out of sync").            *)
JournalMatchesDisk ==
    pc = "idle" /\ ~reordered =>
        /\ IsSuffix(undo, OnDisk(FALSE))
        /\ Len(OnDisk(FALSE)) - Len(undo) <= Trimmed
        /\ redo = Reverse(OnDisk(TRUE))

-----------------------------------------------------------------------------
(* The refinement, with a history variable: the states of the table that   *)
(* the project was in, behind and ahead of the present one.  Each call     *)
(* moves along them at its commit.                                         *)

VARIABLES past, future

line == <<past, future>>

Committing == pc = "commit" /\ pc' = "mirror"

Remember ==
    CASE call.op = "record" -> past' = Append(past, entities) /\ future' = <<>>
      [] call.op = "undo" -> past' = Pop(past) /\ future' = <<entities>> \o future
      [] call.op = "redo" -> past' = Append(past, entities) /\ future' = Tail(future)

HistorySpec ==
    /\ Init /\ past = <<>> /\ future = <<>>
    /\ [][Next /\ IF Committing THEN Remember ELSE UNCHANGED line]_<<vars, line>>

Timeline == INSTANCE EditTimeline WITH State <- Graph, present <- entities

(* A project is a timeline, over all its sessions and crashes: an execute, *)
(* a batch, an undo or a redo is one step along it, taken at its commit,   *)
(* to exactly the state that was there; refusals, SQL errors, the mirror   *)
(* loops, a crash and the next open leave it where it is.  Until a redo    *)
(* stack is loaded in the wrong order.                                     *)
ImplementsTimeline ==
    /\ Timeline!TimelineInit
    /\ [][reordered \/ Timeline!TimelineNext]_(Timeline!timelineVars)
=============================================================================
