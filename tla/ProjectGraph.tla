---------------------------- MODULE ProjectGraph ----------------------------
(***************************************************************************)
(* The project graph and its deltas: crates/aec_command/src/commands/      *)
(* project_graph.rs, and the `entities` table it is mirrored to            *)
(* (crates/aec_core/src/db.rs).                                            *)
(*                                                                         *)
(* A graph, in memory or on disk, maps every possible entity id to its     *)
(* record or to Absent.  The two layers apply the same deltas with         *)
(* different rules: the HashMap checks nothing but the presence of the id, *)
(* the table also enforces the foreign key of parent_id and cascades a     *)
(* DELETE to the children.                                                 *)
(***************************************************************************)
EXTENDS Integers, Sequences

CONSTANTS
    Entity,     \* entity ids
    Host,       \* those that some command names as a parent
    Kind,       \* entity kinds; "primitive" is the one the code tests for
    Body,       \* abstract JSON bodies
    NoParent,   \* EntityRecord.parent = None
    Absent      \* no record under this id

EntityRecord == [kind: Kind, parent: Host \cup {NoParent}, body: Body]

Graph == [Entity -> EntityRecord \cup {Absent}]

EmptyGraph == [e \in Entity |-> Absent]

ASSUME GraphAssumption ==
    /\ Absent \notin EntityRecord
    /\ NoParent \notin Entity
    /\ Host \subseteq Entity
    /\ Entity # {}

CreateDelta == [op: {"create"}, id: Entity, record: EntityRecord]
DeleteDelta == [op: {"delete"}, id: Entity, record: EntityRecord]
UpdateDelta == [op: {"update"}, id: Entity, before: Body, after: Body]

EntityDelta == CreateDelta \cup DeleteDelta \cup UpdateDelta

Create(e, r) == [op |-> "create", id |-> e, record |-> r]
Delete(e, r) == [op |-> "delete", id |-> e, record |-> r]
Update(e, b, a) == [op |-> "update", id |-> e, before |-> b, after |-> a]

Present(g) == {e \in Entity : g[e] # Absent}

-----------------------------------------------------------------------------
Invert(d) ==
    CASE d.op = "create" -> Delete(d.id, d.record)
      [] d.op = "delete" -> Create(d.id, d.record)
      [] d.op = "update" -> Update(d.id, d.after, d.before)

\* Mutant: in the order of the forward deltas.
InvertAllInOrder(ds) == [i \in 1 .. Len(ds) |-> Invert(ds[i])]

\* The inverse of a list of deltas: each one inverted, the last one first.
InvertAll(ds) == [i \in 1 .. Len(ds) |-> Invert(ds[Len(ds) + 1 - i])]

-----------------------------------------------------------------------------
(* The in-memory layer.  An update does not look at d.before, a delete does *)
(* not compare the record it removes.                                      *)

Applies(g, d) == (d.op = "create") <=> (g[d.id] = Absent)

Apply(g, d) ==
    CASE d.op = "create" -> [g EXCEPT ![d.id] = d.record]
      [] d.op = "delete" -> [g EXCEPT ![d.id] = Absent]
      [] d.op = "update" -> [g EXCEPT ![d.id] = [@ EXCEPT !.body = d.after]]

-----------------------------------------------------------------------------
(* The SQL layer, with PRAGMA foreign_keys = ON.                           *)

\* Everything a DELETE of row e removes: the least set that holds e and the
\* children of its members.
Cascade(t, e) ==
    {x \in Entity :
        \A S \in SUBSET Entity :
            /\ e \in S
            /\ \A y \in Present(t) : t[y].parent \in S => y \in S
            => x \in S}

\* An INSERT also needs its parent row (a row may be its own parent: SQLite
\* checks the key when the statement ends).
Persists(t, d) ==
    /\ Applies(t, d)
    /\ d.op = "create" =>
         d.record.parent \in Present(t) \cup {NoParent, d.id}

Persist(t, d) ==
    IF d.op = "delete"
    THEN [x \in Entity |-> IF x \in Cascade(t, d.id) THEN Absent ELSE t[x]]
    ELSE Apply(t, d)
=============================================================================
