---------------------------- MODULE ProjectStore ----------------------------
(***************************************************************************)
(* One project package on disk and the bridge calls that touch it:         *)
(* crates/aec_core/src/package.rs, db.rs and migrations/mod.rs, the        *)
(* project calls of crates/aec_bridge/src/service.rs with their side of    *)
(* the service's lock (napi_api.rs), and engine_status_cache.rs.           *)
(*                                                                         *)
(* A call is a sequence of steps on the files; the process may die between *)
(* any two.  What a step finds is what is on disk then: another call under *)
(* the read lock may be at the same package.                               *)
(***************************************************************************)
EXTENDS Integers

CONSTANTS
    Thread,
    Legacy,     \* version a project of an older release has
    Schema,     \* SCHEMA_VERSION
    MaxCalls,   \* bound on the calls
    MaxFaults   \* bound on I/O errors and deaths of the process

ASSUME StoreAssumption ==
    /\ Legacy \in Nat /\ Schema \in Nat /\ 1 <= Legacy /\ Legacy < Schema
    /\ MaxCalls \in Nat /\ MaxFaults \in Nat

VARIABLES
    dir,        \* the package directory with its subdirectories and nonce
    manifest,   \* manifest.json
    db,         \* project.sqlite: recorded version, tables, main file, WAL
    backup,     \* project.sqlite.bak.v{from}-to-v{to}
    recents,    \* recents.json: readable, and whether the project is in it
    up,         \* the bridge runs
    call,       \* what each thread is doing
    cache,      \* the status cache's connection: to which file, 0 for none
    calls, faults, \* bounds
    raced,      \* history: two calls overlapped on a project not yet migrated
    cut,        \* history: the writing of a manifest ended half-way
    ioError     \* history: a call was ended by an error of the file system

disk == <<dir, manifest, db, backup, recents>>
history == <<raced, cut, ioError>>
vars == <<disk, up, call, cache, calls, faults, history>>

Version == 0 .. Schema

\* "torn": truncated and not yet, or not completely, written.
NoManifest == [state |-> "none", version |-> 0]
TornManifest == [state |-> "torn", version |-> 0]
Manifest(v) == [state |-> "whole", version |-> v]

\* A file is named by the call that made it.
LegacyFile == MaxCalls + 1

\* "main" is the version in the main file; "tail": commits only in the WAL.
NoDb == [file |-> 0, version |-> 0, tables |-> 0, main |-> 0, tail |-> FALSE]
NoBackup == [v \in Legacy .. Schema - 1 |-> [state |-> "none", version |-> 0]]

Op == {"create", "open", "save", "status", "list"}
\* Mutant: a save only reads the service.
WritesButSave(op) == op \in {"create", "open"}

Writes(op) == op \in {"create", "open", "save"}

Idle == [op |-> "none", pc |-> "idle", connected |-> FALSE, seen |-> 0,
         manifest |-> 0]

Busy(t) == call[t].op # "none"
Connected(t) == call[t].connected
At(t, pc) == up /\ Busy(t) /\ call[t].pc = pc

\* Nobody but t has a connection to the database.
LastConnection(t) == cache # db.file /\ \A s \in Thread \ {t} : ~Connected(s)

NeedsUpgrade == db.version < Schema \/ manifest.version < Schema

\* Nothing, or a project of an older release that may have been left in a hurry.
Init ==
    /\ \/ /\ dir = FALSE /\ manifest = NoManifest /\ db = NoDb
          /\ recents = [whole |-> TRUE, listed |-> FALSE]
       \/ /\ dir = TRUE /\ manifest = Manifest(Legacy)
          /\ \E tail \in BOOLEAN :
                db = [file |-> LegacyFile, version |-> Legacy, tables |-> Legacy,
                      main |-> Legacy, tail |-> tail]
          /\ recents = [whole |-> TRUE, listed |-> TRUE]
    /\ backup = NoBackup
    /\ up = TRUE
    /\ call = [t \in Thread |-> Idle]
    /\ cache = 0
    /\ calls = 0 /\ faults = 0
    /\ raced = FALSE /\ cut = FALSE /\ ioError = FALSE

-----------------------------------------------------------------------------
(* The lock, and the steps that are common to the calls. *)

FirstStep(op) ==
    CASE op = "create" -> "directories"
      [] op = "status" -> "lookup"
      [] OTHER -> "package"

\* create, open and save take the write lock, status and list the read lock.
Start(t, op) ==
    /\ up /\ ~Busy(t) /\ calls < MaxCalls
    /\ \A s \in Thread : Busy(s) => ~Writes(op) /\ ~Writes(call[s].op)
    /\ calls' = calls + 1
    /\ call' = [call EXCEPT ![t] = [Idle EXCEPT !.op = op, !.pc = FirstStep(op)]]
    /\ raced' = (raced \/ (NeedsUpgrade /\ \E s \in Thread : Busy(s)))
    /\ UNCHANGED <<disk, up, cache, faults, cut, ioError>>

Go(t, pc) == call' = [call EXCEPT ![t].pc = pc]
GoConnected(t, pc, seen) ==
    call' = [call EXCEPT ![t].pc = pc, ![t].connected = TRUE, ![t].seen = seen]
GoDisconnected(t, pc) == call' = [call EXCEPT ![t].pc = pc, ![t].connected = FALSE]

\* The last connection to close writes the WAL back into the main file.
Checkpointed == [db EXCEPT !.main = db.version, !.tail = FALSE]
AfterClosing(t) == IF Connected(t) /\ LastConnection(t) THEN Checkpointed ELSE db

\* Every way a call ends, with or without a result: locals are dropped.
End(t) ==
    /\ call' = [call EXCEPT ![t] = Idle]
    /\ db' = AfterClosing(t)

Fail(t) ==
    /\ End(t)
    /\ UNCHANGED <<dir, manifest, backup, recents, up, cache, calls, faults, history>>

-----------------------------------------------------------------------------
(* ProjectPackage::create, and what the bridge does around it. *)

Directories(t) ==
    /\ At(t, "directories")
    /\ IF dir THEN Fail(t)
       ELSE /\ dir' = TRUE
            /\ Go(t, "database")
            /\ UNCHANGED <<manifest, db, backup, recents, up, cache, calls,
                           faults, history>>

\* A new file at version 1, which the migrations bring up to date at once.
Database(t) ==
    /\ At(t, "database")
    /\ db' = [file |-> calls, version |-> 1, tables |-> 1, main |-> 1, tail |-> FALSE]
    /\ GoConnected(t, "migrate", 1)
    /\ UNCHANGED <<dir, manifest, backup, recents, up, cache, calls, faults, history>>

\* apply_template_outcome refuses the template: the directory is removed again.
RollBack(t) ==
    /\ At(t, "template")
    /\ dir' = FALSE /\ manifest' = NoManifest /\ db' = NoDb /\ backup' = NoBackup
    /\ call' = [call EXCEPT ![t] = Idle]
    /\ UNCHANGED <<recents, up, cache, calls, faults, history>>

Template(t) ==
    /\ At(t, "template")
    /\ Go(t, "invalidate")
    /\ UNCHANGED <<disk, up, cache, calls, faults, history>>

-----------------------------------------------------------------------------
(* ProjectPackage::open, open_encrypted and run_pending. *)

\* Mutant: the manifest is brought up to date before the database.
PackageUpgraded(t) ==
    /\ At(t, "package")
    /\ IF manifest.state = "whole"
       THEN /\ manifest' = Manifest(Schema)
            /\ call' = [call EXCEPT ![t].pc = "attach", ![t].manifest = Schema]
            /\ UNCHANGED <<dir, db, backup, recents, up, cache, calls, faults, history>>
       ELSE Fail(t)

Package(t) ==
    /\ At(t, "package")
    /\ IF manifest.state = "whole"
       THEN /\ call' = [call EXCEPT ![t].pc = "attach",
                                    ![t].manifest = manifest.version]
            /\ UNCHANGED <<disk, up, cache, calls, faults, history>>
       ELSE Fail(t)

Attach(t) ==
    /\ At(t, "attach")
    /\ GoConnected(t, IF db.version < Schema THEN "detach" ELSE "migrate", db.version)
    /\ UNCHANGED <<disk, up, cache, calls, faults, history>>

\* Mutant: the connection stays open while the file is copied.
DetachLater(t) ==
    /\ At(t, "detach")
    /\ Go(t, "copy")
    /\ UNCHANGED <<disk, up, cache, calls, faults, history>>

\* drop(conn), so that what is copied next is the whole database.
Detach(t) ==
    /\ At(t, "detach")
    /\ GoDisconnected(t, "copy")
    /\ db' = AfterClosing(t)
    /\ UNCHANGED <<dir, manifest, backup, recents, up, cache, calls, faults, history>>

BeginCopy(t) ==
    /\ At(t, "copy")
    /\ backup' = [backup EXCEPT ![call[t].seen] = [state |-> "torn", version |-> 0]]
    /\ Go(t, "copying")
    /\ UNCHANGED <<dir, manifest, db, recents, up, cache, calls, faults, history>>

\* The main file alone: what is only in the WAL is not in the copy.
EndCopy(t) ==
    /\ At(t, "copying")
    /\ backup' = [backup EXCEPT ![call[t].seen] =
                      [state |-> IF db.tail THEN "partial" ELSE "whole",
                       version |-> db.main]]
    /\ Go(t, "reattach")
    /\ UNCHANGED <<dir, manifest, db, recents, up, cache, calls, faults, history>>

AttachAgain(t) ==
    /\ At(t, "reattach")
    /\ GoConnected(t, "migrate", db.version)
    /\ UNCHANGED <<disk, up, cache, calls, faults, history>>

\* Mutant: the version is recorded once, after the last migration.
RecordedVersion(v) == IF v = Schema THEN v ELSE db.version

\* Each migration records its version in its own transaction.
VersionAfter(v) == v

\* One migration creates its tables, which must not be there.
Migrate(t) ==
    LET v == call[t].seen + 1 IN
    /\ At(t, "migrate") /\ call[t].seen < Schema
    /\ IF db.tables >= v THEN Fail(t)
       ELSE /\ db' = [db EXCEPT !.version = VersionAfter(v), !.tables = v, !.tail = TRUE]
            /\ call' = [call EXCEPT ![t].seen = v]
            /\ UNCHANGED <<dir, manifest, backup, recents, up, cache, calls,
                           faults, history>>

\* The connection is ready.  create keeps it until its manifest is written,
\* status puts it into the cache.
Migrated(t) ==
    /\ At(t, "migrate") /\ call[t].seen = Schema
    /\ Go(t, CASE call[t].op = "create" -> "truncate"
               [] call[t].op = "status" -> "insert"
               [] OTHER -> "upgrade")
    /\ UNCHANGED <<disk, up, cache, calls, faults, history>>

\* open_with_master_key: the manifest of an older release is written again.
Upgrade(t) ==
    /\ At(t, "upgrade")
    /\ Go(t, IF call[t].manifest < Schema THEN "truncate" ELSE "close")
    /\ UNCHANGED <<disk, up, cache, calls, faults, history>>

\* The connection is dropped.  list only reads from here on.
Close(t) ==
    /\ At(t, "close")
    /\ db' = AfterClosing(t)
    /\ GoDisconnected(t, CASE call[t].op = "create" -> "template"
                           [] call[t].op = "save" -> "touch"
                           [] call[t].op = "open" -> "invalidate"
                           [] OTHER -> "end")
    /\ UNCHANGED <<dir, manifest, backup, recents, up, cache, calls, faults, history>>

\* write_manifest: File::create empties the file, write_all fills it.
Truncate(t) ==
    /\ \/ At(t, "truncate") /\ Go(t, "write")
       \/ At(t, "touch") /\ Go(t, "write")
    /\ manifest' = TornManifest
    /\ UNCHANGED <<dir, db, backup, recents, up, cache, calls, faults, history>>

\* After an upgrade, and in create, the connection is still to be dropped; save
\* writes the manifest once more without one.
Write(t) ==
    /\ At(t, "write")
    /\ manifest' = Manifest(Schema)
    /\ Go(t, IF Connected(t) THEN "close" ELSE "invalidate")
    /\ UNCHANGED <<dir, db, backup, recents, up, cache, calls, faults, history>>

-----------------------------------------------------------------------------
(* The status cache. *)

\* The entry goes, and its connection with the last call that uses it.
DropEntry ==
    /\ cache' = 0
    /\ db' = IF cache = db.file /\ \A s \in Thread : ~Connected(s)
             THEN Checkpointed ELSE db

\* cache_key asks the file system for the path.
NoSuchPath(t) == At(t, "lookup") /\ ~dir /\ Fail(t)

Hit(t) ==
    /\ At(t, "lookup") /\ dir /\ cache # 0
    /\ call' = [call EXCEPT ![t].pc = "query", ![t].connected = TRUE]
    /\ UNCHANGED <<disk, up, cache, calls, faults, history>>

\* No entry, or one that was idle for too long.
Miss(t) ==
    /\ At(t, "lookup") /\ dir
    /\ DropEntry
    /\ Go(t, "package")
    /\ UNCHANGED <<dir, manifest, backup, recents, up, calls, faults, history>>

\* Who opened first wins; the other connection is dropped.
Insert(t) ==
    /\ At(t, "insert")
    /\ cache' = IF cache = 0 THEN db.file ELSE cache
    /\ Go(t, "query")
    /\ UNCHANGED <<disk, up, calls, faults, history>>

\* Mutant: a new project has nothing in the cache.
InvalidateExisting(t) ==
    /\ At(t, "invalidate")
    /\ cache' = IF call[t].op = "create" THEN cache ELSE 0
    /\ Go(t, IF call[t].op = "save" THEN "end" ELSE "record")
    /\ UNCHANGED <<disk, up, calls, faults, history>>

\* The cached connection is closed; it may be the last one.
Invalidate(t) ==
    /\ At(t, "invalidate")
    /\ DropEntry
    /\ Go(t, IF call[t].op = "save" THEN "end" ELSE "record")
    /\ UNCHANGED <<dir, manifest, backup, recents, up, calls, faults, history>>

\* RecentsStore::flush: fs::write empties the file and fills it.
BeginRecord(t) ==
    /\ At(t, "record")
    /\ recents' = [whole |-> FALSE, listed |-> FALSE]
    /\ Go(t, "recording")
    /\ UNCHANGED <<dir, manifest, db, backup, up, cache, calls, faults, history>>

EndRecord(t) ==
    /\ At(t, "recording")
    /\ recents' = [whole |-> TRUE, listed |-> TRUE]
    /\ Go(t, "end")
    /\ UNCHANGED <<dir, manifest, db, backup, up, cache, calls, faults, history>>

Finish(t) ==
    /\ At(t, "query") \/ At(t, "end")
    /\ Fail(t)

-----------------------------------------------------------------------------
(* What happens around the bridge. *)

\* The process dies: connections are gone, the WAL stays.
Crash ==
    /\ up /\ faults < MaxFaults
    /\ faults' = faults + 1
    /\ up' = FALSE /\ cache' = 0
    /\ call' = [t \in Thread |-> Idle]
    /\ cut' = (cut \/ manifest.state = "torn")
    /\ UNCHANGED <<disk, calls, raced, ioError>>

\* The disk is full, or the file is held by another program: `?` returns, and
\* nothing is cleaned up.
IoError(t) ==
    /\ \/ At(t, "database") \/ At(t, "copy") \/ At(t, "copying") \/ At(t, "truncate")
       \/ At(t, "touch") \/ At(t, "write") \/ At(t, "record") \/ At(t, "recording")
    /\ faults < MaxFaults /\ faults' = faults + 1
    /\ End(t)
    /\ cut' = (cut \/ call[t].pc = "write")
    /\ ioError' = TRUE
    /\ UNCHANGED <<dir, manifest, backup, recents, up, cache, calls, raced>>

\* BridgeService::new fails on a list of recents that it cannot parse.
Boot ==
    /\ ~up /\ recents.whole
    /\ up' = TRUE
    /\ UNCHANGED <<disk, call, cache, calls, faults, history>>

\* The user deletes the package while nothing is being done with it.
Remove ==
    /\ dir /\ \A t \in Thread : ~Busy(t)
    /\ dir' = FALSE /\ manifest' = NoManifest /\ db' = NoDb /\ backup' = NoBackup
    /\ recents' = recents
    /\ UNCHANGED <<up, call, cache, calls, faults, history>>

Step(t) ==
    \/ Directories(t) \/ Database(t) \/ Template(t) \/ RollBack(t)
    \/ Package(t) \/ Attach(t) \/ Detach(t) \/ BeginCopy(t) \/ EndCopy(t)
    \/ AttachAgain(t) \/ Migrate(t) \/ Migrated(t) \/ Upgrade(t) \/ Close(t)
    \/ Truncate(t) \/ Write(t) \/ NoSuchPath(t) \/ Hit(t) \/ Miss(t) \/ Insert(t) \/ Invalidate(t)
    \/ BeginRecord(t) \/ EndRecord(t) \/ Finish(t)

Next ==
    \/ \E t \in Thread : Step(t) \/ IoError(t) \/ \E op \in Op : Start(t, op)
    \/ Crash \/ Boot \/ Remove

Spec == Init /\ [][Next]_vars

\* A call that has the lock goes on.
FairSpec == Spec /\ \A t \in Thread : WF_vars(Step(t))

-----------------------------------------------------------------------------
Pc == {"idle", "directories", "database", "template", "lookup", "package", "attach",
       "detach", "copy", "copying", "reattach", "migrate", "insert", "upgrade",
       "close", "truncate", "touch", "write", "query", "invalidate", "record",
       "recording", "end"}

\* Every variable keeps its type, a writer is alone, and only a live bridge has
\* calls and connections.
TypeOK ==
    /\ dir \in BOOLEAN /\ up \in BOOLEAN /\ {raced, cut, ioError} \subseteq BOOLEAN
    /\ manifest \in [state: {"none", "torn", "whole"}, version: Version]
    /\ db \in [file: 0 .. LegacyFile, version: Version, tables: Version,
               main: Version, tail: BOOLEAN]
    /\ backup \in [Legacy .. Schema - 1 ->
                     [state: {"none", "torn", "partial", "whole"}, version: Version]]
    /\ recents \in [whole: BOOLEAN, listed: BOOLEAN]
    /\ call \in [Thread -> [op: Op \cup {"none"}, pc: Pc, connected: BOOLEAN,
                            seen: Version, manifest: Version]]
    /\ cache \in 0 .. LegacyFile
    /\ calls \in 0 .. MaxCalls /\ faults \in 0 .. MaxFaults
    /\ \A s, t \in Thread : s # t /\ Writes(call[s].op) => ~Busy(t)
    /\ ~up => cache = 0 /\ \A t \in Thread : ~Busy(t)

\* A manifest is there only with the database it describes, and never claims a
\* version that the database has not reached, whatever call died half-way
\* (package.rs: "we don't want a bumped schema_version lying").
ManifestNeverAhead ==
    manifest.state = "whole" => db.file # 0 /\ manifest.version <= db.version

\* Once the first migration of an old project is committed, the copy made
\* before it holds all that was committed at the old version, also what a crash
\* had left in the WAL, and also when the process died during the copy or
\* between migrations; unless two calls raced (backup_before_migration).
BackupIsPreImage ==
    db.file = LegacyFile /\ db.version > Legacy /\ ~raced
        => backup[Legacy] = [state |-> "whole", version |-> Legacy]

\* A migration finds the tables of the version it starts from, after any crash:
\* the DDL cannot be repeated (run_pending's transaction with the version).
MigrationFindsItsTables ==
    \A t \in Thread : At(t, "migrate") /\ call[t].seen < Schema /\ ~raced
        => db.tables = call[t].seen /\ db.version = call[t].seen

\* Types, and the three versions of a package: of its manifest, its database and
\* its tables.
PackageInvariant == TypeOK /\ ManifestNeverAhead /\ MigrationFindsItsTables

\* Outside of a writing call, the cached connection is one to the file that is
\* there now (the rule that every mutating endpoint invalidates).
CacheIsCurrent ==
    cache # 0 /\ manifest.state = "whole" /\ (\A t \in Thread : ~Writes(call[t].op)) => cache = db.file

\* No call reads a manifest that another one is writing: it is torn only after
\* a crash or an error, or when two calls raced (File::create in place).
ManifestIsReadWhole ==
    \A t \in Thread : At(t, "package") /\ manifest.state = "torn" => cut \/ raced

\* A call that opens an old project brings database and manifest up to date,
\* unless the process dies, the file system fails or another call races it.
OpenMigrates ==
    \A t \in Thread :
        (At(t, "attach") /\ call[t].op \in {"open", "save", "list"})
            ~> \/ manifest = Manifest(Schema) /\ db.version = Schema
               \/ ~up \/ raced \/ ioError
=============================================================================
