------------------------- MODULE ProjectStoreProofs -------------------------
(***************************************************************************)
(* Proofs about ProjectStore, for any set of threads, any versions and any *)
(* number of calls, errors and deaths of the process.  The argument: a     *)
(* call that writes is alone; of the calls that may overlap, each one      *)
(* relies on what it found at the package as long as the project is up to  *)
(* date, and while it is not, no second call starts unless it races.  What *)
(* holds also under a race is kept by the database, whose version only     *)
(* grows until the project is removed.                                     *)
(***************************************************************************)
EXTENDS ProjectStore, TLAPS

\* Where a call has seen a version of the database, and where it knows that
\* the database is up to date.
Seeing == {"detach", "copy", "copying", "reattach", "migrate"}
UpToDate == {"insert", "upgrade", "close", "truncate", "touch", "write"}
PastPackage == {"attach"} \cup Seeing \cup UpToDate
Outdated == PastPackage \ {"insert", "close", "touch", "write"}
Creating == {"directories", "database", "migrate", "close", "truncate", "write",
             "template", "invalidate", "record", "recording", "end"}

\* Where a call that makes a project has written its manifest.
Written == {"close", "template", "invalidate"}

\* The cached connection, if any, is one to the file that is there.
Fresh == cache \in {0, db.file}

\* What a call has found at a package with a whole manifest.
Genuine == Fresh /\ Legacy <= db.version

WholeCopy == [state |-> "whole", version |-> Legacy]

\* What a call knows, whatever the others do.
OnTrack(t) ==
    LET c == call[t] IN
    /\ c.op = "none" => c = Idle
    /\ c.pc \in {"directories", "database", "template"} => c.op = "create"
    /\ c.pc = "touch" => c.op = "save"
    /\ c.op = "create" => c.pc \in Creating
    /\ c.pc = "detach" => c.connected
    /\ c.pc \in {"copy", "copying"} => ~c.connected
    /\ c.pc \in {"directories", "database"} => 1 <= calls /\ cache # calls
    /\ c.pc = "database" => dir /\ manifest.state = "none"
    /\ c.op = "create" /\ c.pc \in PastPackage => db.file # LegacyFile
    /\ c.op # "create" /\ c.pc \in PastPackage => Genuine
    /\ c.pc \in PastPackage => db.file # 0
    /\ c.pc \in Seeing => c.seen <= db.version
    /\ c.pc \in Seeing \ {"migrate"} => c.seen < Schema
    /\ c.pc \in UpToDate => db.version = Schema

\* What it knows unless two calls raced.
Undisturbed(t) ==
    LET c == call[t] IN
    /\ c.pc \in Seeing => c.seen = db.version
    /\ c.pc \in {"copy", "copying"} => ~db.tail /\ db.main = db.version
    /\ c.pc \in {"reattach", "migrate"} /\ c.op # "create" /\ c.seen = Legacy
         => backup[Legacy] = WholeCopy
    /\ c.op # "create" /\ c.pc \in Outdated /\ (c.manifest < Schema \/ c.pc = "truncate")
         => manifest.version < Schema
    /\ c.pc = "write" => manifest.state = "torn"

\* What is on disk and in the cache, whatever calls are under way.
OnDisk ==
    /\ ~dir => manifest.state = "none"
    /\ db.file # 0 => dir
    /\ manifest.state = "whole" => Legacy <= manifest.version
    /\ manifest.state # "whole" => manifest.version = 0
    /\ db.version = db.tables
    /\ ManifestNeverAhead
    /\ cache # 0 /\ cache = db.file => db.version = Schema
    /\ cache <= calls \/ cache = LegacyFile
    /\ db.file <= calls \/ db.file = LegacyFile

\* Only the call that makes a project leaves the entry of the one before.
StaleOnlyInCreate ==
    manifest.state = "whole" =>
        Fresh \/ \E t \in Thread : call[t].op = "create" /\ call[t].pc \in Written

AloneAtUpgrade ==
    ~raced /\ NeedsUpgrade => \A s, t \in Thread : Busy(s) /\ Busy(t) => s = t

TornIsBeingWritten ==
    manifest.state = "torn" /\ ~cut /\ ~raced => \E t \in Thread : At(t, "write")

\* The inductive invariant.
Core ==
    /\ TypeOK /\ OnDisk
    /\ StaleOnlyInCreate /\ AloneAtUpgrade /\ TornIsBeingWritten /\ BackupIsPreImage
    /\ \A t \in Thread : OnTrack(t) /\ (~raced => Undisturbed(t))

-----------------------------------------------------------------------------
(* Types. *)

Call == [op: Op \cup {"none"}, pc: Pc, connected: BOOLEAN, seen: Version,
         manifest: Version]
DbFile == [file: 0 .. LegacyFile, version: Version, tables: Version,
              main: Version, tail: BOOLEAN]
Copy == [state: {"none", "torn", "partial", "whole"}, version: Version]

LEMMA Constants ==
    /\ Legacy \in Nat /\ Schema \in Nat /\ 1 <= Legacy /\ Legacy < Schema
    /\ MaxCalls \in Nat /\ MaxFaults \in Nat /\ LegacyFile = MaxCalls + 1
    /\ 0 \in Version /\ 1 \in Version /\ Schema \in Version /\ Legacy \in Version
    /\ \A v \in Version : v \in Nat /\ v <= Schema
  BY StoreAssumption DEF LegacyFile, Version

LEMMA VersionsAreNat ==
    ASSUME NEW v \in Version PROVE v \in Nat /\ v <= Schema
  BY StoreAssumption DEF Version

LEMMA IdleIsACall == Idle \in Call /\ Idle.op = "none"
  BY Constants DEF Idle, Call, Pc

LEMMA Types ==
    ASSUME Core
    PROVE  /\ dir \in BOOLEAN /\ up \in BOOLEAN
           /\ raced \in BOOLEAN /\ cut \in BOOLEAN /\ ioError \in BOOLEAN
           /\ manifest \in [state: {"none", "torn", "whole"}, version: Version]
           /\ db \in DbFile /\ backup \in [Legacy .. Schema - 1 -> Copy]
           /\ recents \in [whole: BOOLEAN, listed: BOOLEAN]
           /\ call \in [Thread -> Call] /\ cache \in 0 .. LegacyFile
           /\ calls \in 0 .. MaxCalls /\ faults \in 0 .. MaxFaults
           /\ \A s, t \in Thread : s # t /\ Writes(call[s].op) => ~Busy(t)
           /\ ~up => cache = 0 /\ \A t \in Thread : ~Busy(t)
  BY DEF Core, TypeOK, Call, DbFile, Copy

LEMMA CallTypes ==
    ASSUME Core, NEW t \in Thread
    PROVE  call \in [Thread -> Call] /\ call[t] \in Call
  BY Types

\* The converse of the first of these lemmas, in the state after a step.
LEMMA TypesAfter ==
    ASSUME dir' \in BOOLEAN, up' \in BOOLEAN,
           raced' \in BOOLEAN, cut' \in BOOLEAN, ioError' \in BOOLEAN,
           manifest' \in [state: {"none", "torn", "whole"}, version: Version],
           db' \in DbFile, backup' \in [Legacy .. Schema - 1 -> Copy],
           recents' \in [whole: BOOLEAN, listed: BOOLEAN],
           call' \in [Thread -> Call], cache' \in 0 .. LegacyFile,
           calls' \in 0 .. MaxCalls, faults' \in 0 .. MaxFaults,
           \A s, t \in Thread : s # t /\ Writes(call'[s].op) => ~(call'[t].op # "none"),
           ~up' => cache' = 0 /\ \A t \in Thread : ~(call'[t].op # "none")
    PROVE  TypeOK'
  BY DEF TypeOK, Call, DbFile, Copy, Busy

-----------------------------------------------------------------------------
(* What a step leaves to the calls that do not take it. *)

Settled == ~db.tail /\ db.main = db.version

Steady ==
    /\ ~raced /\ db'.version = db.version /\ manifest' = manifest /\ backup' = backup
    /\ Settled => Settled'

Spares(u) ==
    /\ call'[u] = call[u]
    /\ Busy(u) =>
         /\ ~Writes(call[u].op)
         /\ db'.file = db.file /\ db.version <= db'.version
         /\ cache' \in {0, cache, db.file}
         /\ ~raced' => Steady

LEMMA IdleIsOnTrack ==
    ASSUME NEW u \in Thread, call'[u] = Idle
    PROVE  OnTrack(u)' /\ Undisturbed(u)'
  BY DEF OnTrack, Undisturbed, Idle, Seeing, UpToDate, PastPackage, Outdated

LEMMA SparedIsOnTrack ==
    ASSUME Core, TypeOK', NEW u \in Thread, Spares(u)
    PROVE  OnTrack(u)' /\ (~raced' => Undisturbed(u)')
  <1>1. OnTrack(u) /\ (~raced => Undisturbed(u))
    BY DEF Core
  <1>2. CASE ~Busy(u)
    <2>1. call'[u] = Idle
      BY <1>1, <1>2 DEF Spares, OnTrack, Busy
    <2> QED
      BY <2>1, IdleIsOnTrack
  <1>3. CASE Busy(u)
    <2> DEFINE c == call[u]
    <2>1. /\ call'[u] = c /\ c.op # "create" /\ c.op # "save"
          /\ db'.file = db.file /\ db.version <= db'.version
          /\ cache' \in {0, cache, db.file}
          /\ ~raced' => Steady
      BY <1>3 DEF Spares, Writes
    <2>2. /\ c \in Call /\ db.version \in Version /\ db'.version \in Version
      BY Types, Constants DEF TypeOK, DbFile
    <2>3. OnTrack(u)'
      <3>1. /\ c.op # "none" /\ c.pc \notin {"directories", "database", "template", "touch"}
            /\ c.pc = "detach" => c.connected
            /\ c.pc \in {"copy", "copying"} => ~c.connected
            /\ c.pc \in PastPackage => db.file # 0 /\ Genuine
            /\ c.pc \in Seeing => c.seen <= db.version
            /\ c.pc \in Seeing \ {"migrate"} => c.seen < Schema
            /\ c.pc \in UpToDate => db.version = Schema
        BY <1>1, <1>3, <2>1 DEF OnTrack, Busy
      <3>2. c.seen \in Nat /\ db.version \in Nat /\ db'.version \in Nat
            /\ db'.version <= Schema /\ Schema \in Nat
        BY <2>2, Constants DEF Call
      <3>3. /\ c.pc \in Seeing => c.seen <= db'.version
            /\ c.pc \in UpToDate => db'.version = Schema
        BY <3>1, <3>2, <2>1
      <3>4. c.pc \in PastPackage => /\ db'.file # 0 /\ cache' \in {0, db'.file}
                                    /\ Legacy <= db'.version
        BY <3>1, <3>2, <2>1, Constants DEF Fresh, Genuine
      <3> QED
        BY <2>1, <3>1, <3>3, <3>4 DEF OnTrack, Fresh, Genuine
    <2>4. ASSUME ~raced' PROVE Undisturbed(u)'
      <3>1. /\ Undisturbed(u) /\ db'.version = db.version /\ manifest' = manifest
            /\ backup' = backup
            /\ Settled => Settled'
        BY <2>1, <2>4, <1>1 DEF Steady
      <3> QED
        BY <3>1, <2>1 DEF Undisturbed, Settled
    <2> QED
      BY <2>3, <2>4
  <1> QED
    BY <1>2, <1>3

-----------------------------------------------------------------------------
(* Most steps leave the package as it is, but for the WAL. *)

LEMMA Closing ==
    ASSUME Core, db' \in {db, Checkpointed}
    PROVE  /\ db' \in DbFile /\ db'.file = db.file /\ db'.version = db.version
           /\ db'.tables = db.tables
           /\ Settled => Settled'
  BY Types DEF Checkpointed, DbFile, Settled

LEMMA AfterClosingIsOne ==
    ASSUME NEW t \in Thread PROVE AfterClosing(t) \in {db, Checkpointed}
  BY DEF AfterClosing

\* A step of t that moves call t to c and leaves manifest, copies and database.
Gentle(t, c) ==
    /\ call' = [call EXCEPT ![t] = c]
    /\ db' \in {db, Checkpointed}
    /\ cache' \in {0, cache} \/ (cache' = db.file /\ db.version = Schema)
    /\ dir' \in BOOLEAN /\ (dir => dir')
    /\ recents' \in [whole: BOOLEAN, listed: BOOLEAN]
    /\ faults' \in 0 .. MaxFaults
    /\ cut' \in BOOLEAN /\ (cut => cut') /\ ioError' \in BOOLEAN
    /\ UNCHANGED <<manifest, backup, up, calls, raced>>

\* What the step must see to: the stale entry goes, or still will; and a
\* manifest is not left torn without a word.
SeesTo(t, c) ==
    /\ call[t].op = "create" /\ call[t].pc \in Written
         => cache' = 0 \/ (c.op = "create" /\ c.pc \in Written)
    /\ call[t].pc = "write" => cut'

LEMMA GentleStepKeepsTypes ==
    ASSUME Core, NEW t \in Thread, Busy(t), up, NEW c \in Call,
           c.op \in {call[t].op, "none"}, Gentle(t, c)
    PROVE  /\ TypeOK'
           /\ call'[t] = c /\ \A u \in Thread \ {t} : call'[u] = call[u]
  <1>1. call'[t] = c /\ \A u \in Thread \ {t} : call'[u] = call[u]
    BY Types DEF Gentle
  <1>2. call' \in [Thread -> Call]
    BY Types DEF Gentle
  <1>3. \A s, r \in Thread : s # r /\ Writes(call'[s].op) => ~(call'[r].op # "none")
    BY <1>1, Types DEF Writes, Busy
  <1>4. db' \in DbFile
    BY Closing DEF Gentle
  <1>5. cache' \in 0 .. LegacyFile
    BY Types, Constants DEF Gentle, DbFile
  <1>6. /\ dir' \in BOOLEAN /\ cut' \in BOOLEAN /\ ioError' \in BOOLEAN
        /\ recents' \in [whole: BOOLEAN, listed: BOOLEAN]
        /\ faults' \in 0 .. MaxFaults
        /\ manifest' = manifest /\ backup' = backup /\ up' = up /\ calls' = calls
        /\ raced' = raced
    BY DEF Gentle
  <1>7. TypeOK'
    BY <1>2, <1>3, <1>4, <1>5, <1>6, Types, TypesAfter
  <1> QED
    BY <1>1, <1>7

LEMMA GentleStep ==
    ASSUME Core, NEW t \in Thread, Busy(t), up, NEW c \in Call,
           c.op \in {call[t].op, "none"}, Gentle(t, c), SeesTo(t, c),
           OnTrack(t)', ~raced => Undisturbed(t)'
    PROVE  Core'
  <1>1. /\ TypeOK'
        /\ call'[t] = c /\ \A u \in Thread \ {t} : call'[u] = call[u]
    BY GentleStepKeepsTypes
  <1>2. /\ db'.file = db.file /\ db'.version = db.version /\ db'.tables = db.tables
        /\ Settled => Settled'
    BY Closing DEF Gentle
  <1>3. /\ manifest' = manifest /\ backup' = backup /\ up' = up /\ calls' = calls
        /\ raced' = raced
        /\ dir => dir'
        /\ cut => cut'
        /\ cache' \in {0, cache} \/ (cache' = db.file /\ db.version = Schema)
    BY DEF Gentle
  <1>4. \A u \in Thread : OnTrack(u)' /\ (~raced' => Undisturbed(u)')
    <2> SUFFICES ASSUME NEW u \in Thread, u # t
                 PROVE  OnTrack(u)' /\ (~raced' => Undisturbed(u)')
      BY <1>3
    <2>1. Busy(u) => ~Writes(call[u].op)
      BY Types
    <2>2. db.version <= db'.version
      <3>1. db.version \in Version
        BY Types DEF DbFile
      <3>2. db.version \in Nat
        BY <3>1, VersionsAreNat
      <3> QED
        BY <1>2, <3>2
    <2>3. Spares(u)
      BY <1>1, <1>2, <1>3, <2>1, <2>2 DEF Spares, Steady
    <2> QED
      BY <1>1, <2>3, SparedIsOnTrack
  <1>5. OnDisk'
    <2>1. OnDisk
      BY DEF Core
    <2>2. cache' = 0 \/ cache' = cache \/ (cache' = db.file /\ db.version = Schema)
      BY <1>3
    <2>3. 0 <= calls
      BY Types, Constants
    <2> QED
      BY <1>2, <1>3, <2>1, <2>2, <2>3 DEF OnDisk, ManifestNeverAhead
  <1>6. StaleOnlyInCreate'
    <2> SUFFICES ASSUME manifest.state = "whole", cache' \notin {0, db.file}
                 PROVE  \E s \in Thread : call'[s].op = "create" /\ call'[s].pc \in Written
      BY <1>2, <1>3 DEF StaleOnlyInCreate, Fresh
    <2>1. cache' = cache
      BY <1>3
    <2>2. PICK s \in Thread : call[s].op = "create" /\ call[s].pc \in Written
      BY <2>1 DEF Core, StaleOnlyInCreate, Fresh
    <2>3. CASE s = t
      BY <1>1, <2>2, <2>3 DEF SeesTo
    <2>4. CASE s # t
      BY <1>1, <2>2, <2>4
    <2> QED
      BY <2>3, <2>4
  <1>7. AloneAtUpgrade'
    <2>1. \A u \in Thread : call'[u].op # "none" => Busy(u)
      BY <1>1 DEF Busy
    <2> QED
      BY <1>2, <1>3, <2>1 DEF Core, AloneAtUpgrade, NeedsUpgrade, Busy
  <1>8. TornIsBeingWritten'
    <2> SUFFICES ASSUME manifest.state = "torn", ~cut', ~raced
                 PROVE  \E s \in Thread : At(s, "write")'
      BY <1>3 DEF TornIsBeingWritten
    <2>1. PICK s \in Thread : At(s, "write")
      BY <1>3 DEF Core, TornIsBeingWritten
    <2>2. s # t
      BY <2>1 DEF SeesTo, At
    <2> QED
      BY <1>1, <1>3, <2>1, <2>2 DEF At, Busy
  <1>9. BackupIsPreImage'
    BY <1>2, <1>3 DEF Core, BackupIsPreImage
  <1> QED
    BY <1>1, <1>4, <1>5, <1>6, <1>7, <1>8, <1>9 DEF Core

-----------------------------------------------------------------------------
(* The gentle steps, one lemma for each. *)

LEMMA EndKeeps ==
    ASSUME Core, NEW t \in Thread, Busy(t), up, End(t),
           UNCHANGED <<dir, manifest, backup, recents, up, cache, calls, raced>>,
           faults' \in 0 .. MaxFaults, ioError' \in BOOLEAN,
           cut' \in BOOLEAN, cut => cut', call[t].pc = "write" => cut',
           ~(call[t].op = "create" /\ call[t].pc \in Written)
    PROVE  Core'
  <1> HIDE DEF Idle
  <1>1. Gentle(t, Idle)
    <2>1. db' \in {db, Checkpointed}
      BY AfterClosingIsOne DEF End
    <2>2. call' = [call EXCEPT ![t] = Idle]
      BY DEF End
    <2>3. dir' \in BOOLEAN /\ (dir => dir')
      BY Types
    <2>4. recents' \in [whole: BOOLEAN, listed: BOOLEAN]
      BY Types
    <2> QED
      BY <2>1, <2>2, <2>3, <2>4 DEF Gentle
  <1>2. call'[t] = Idle
    BY Types DEF End
  <1>3. SeesTo(t, Idle)
    BY DEF SeesTo
  <1> QED
    BY <1>1, <1>2, <1>3, IdleIsACall, IdleIsOnTrack, GentleStep

LEMMA FailKeeps ==
    ASSUME Core, NEW t \in Thread, Busy(t), up, Fail(t),
           call[t].pc \notin {"write"} \cup Written
    PROVE  Core'
  BY EndKeeps, Types DEF Fail, history

LEMMA IoErrorKeeps ==
    ASSUME Core, NEW t \in Thread, IoError(t) PROVE Core'
  <1>1. /\ Busy(t) /\ up /\ End(t) /\ call[t].pc \notin Written
        /\ UNCHANGED <<dir, manifest, backup, recents, up, cache, calls, raced>>
        /\ faults < MaxFaults /\ faults' = faults + 1 /\ ioError' = TRUE
        /\ cut' = (cut \/ call[t].pc = "write")
    BY DEF IoError, At, Written
  <1>2. faults' \in 0 .. MaxFaults
    BY <1>1, Types, Constants
  <1>3. cut' \in BOOLEAN /\ (cut => cut') /\ (call[t].pc = "write" => cut')
    BY <1>1
  <1> QED
    BY <1>1, <1>2, <1>3, EndKeeps

\* A step that changes only what its call is at, and perhaps closes connections.
LEMMA MoveKeeps ==
    ASSUME Core, NEW t \in Thread, Busy(t), up, NEW c \in Call, c.op = call[t].op,
           call' = [call EXCEPT ![t] = c],
           db' \in {db, Checkpointed}, cache' \in {0, cache},
           UNCHANGED <<dir, manifest, backup, up, calls, faults, history>>,
           recents' \in [whole: BOOLEAN, listed: BOOLEAN],
           call[t].pc # "write",
           call[t].pc = "invalidate" => cache' = 0,
           call[t].pc = "template" => c.pc = "invalidate",
           call[t].pc = "close" /\ c.op = "create" => c.pc = "template",
           OnTrack(t)', ~raced => Undisturbed(t)'
    PROVE  Core'
  <1>1. Gentle(t, c)
    <2>1. dir' \in BOOLEAN /\ (dir => dir')
      BY Types
    <2>2. cut' \in BOOLEAN /\ (cut => cut') /\ ioError' \in BOOLEAN /\ raced' = raced
      BY Types DEF history
    <2>3. faults' \in 0 .. MaxFaults
      BY Types
    <2> QED
      BY <2>1, <2>2, <2>3 DEF Gentle
  <1>2. SeesTo(t, c)
    <2>1. call[t].pc \in Written /\ c.op = "create"
            => cache' = 0 \/ c.pc \in {"template", "invalidate"}
      BY DEF Written
    <2> QED
      BY <2>1 DEF SeesTo, Written
  <1> QED
    BY <1>1, <1>2, GentleStep

LEMMA Mine ==
    ASSUME Core, NEW t \in Thread, NEW pc, At(t, pc)
    PROVE  /\ Busy(t) /\ up /\ call[t].pc = pc /\ call[t] \in Call
           /\ OnTrack(t) /\ (~raced => Undisturbed(t))
           /\ \A u \in Thread \ {t} :
                Writes(call[t].op) \/ Writes(call[u].op) => ~Busy(u)
           /\ db.version \in Nat /\ db.version <= Schema /\ db.tables = db.version
           /\ manifest.version \in Nat
  <1>1. Busy(t) /\ up /\ call[t].pc = pc
    BY DEF At
  <1>2. db.version \in Version /\ manifest.version \in Version
    BY Types DEF DbFile
  <1>3. \A u \in Thread \ {t} : Writes(call[t].op) \/ Writes(call[u].op) => ~Busy(u)
    BY <1>1, Types
  <1>4. db.tables = db.version
    BY DEF Core, OnDisk
  <1> QED
    BY <1>1, <1>2, <1>3, <1>4, Types, VersionsAreNat DEF Core

\* Where nothing is known, nothing has to be shown.
LEMMA ElsewhereIsOnTrack ==
    ASSUME NEW t \in Thread, call'[t].op # "none",
           call'[t].pc \notin PastPackage \cup {"directories", "database", "template"},
           call'[t].op = "create" => call'[t].pc \in Creating
    PROVE  OnTrack(t)' /\ Undisturbed(t)'
  BY DEF OnTrack, Undisturbed, PastPackage, Seeing, UpToDate, Outdated

\* A step that changes nothing but what its call is at.
OnlyMoves(t, c) ==
    /\ c \in Call /\ c.op = call[t].op
    /\ call' = [call EXCEPT ![t] = c]
    /\ UNCHANGED <<disk, up, cache, calls, faults, history>>

LEMMA OnlyMovesKeeps ==
    ASSUME Core, NEW t \in Thread, NEW pc, At(t, pc), NEW c, OnlyMoves(t, c),
           pc \notin {"write", "invalidate", "close"}, pc = "template" => c.pc = "invalidate",
           OnTrack(t)', ~raced => Undisturbed(t)'
    PROVE  Core'
  <1>1. /\ Busy(t) /\ up /\ call[t].pc = pc
        /\ c \in Call /\ c.op = call[t].op /\ call' = [call EXCEPT ![t] = c]
    BY Mine DEF OnlyMoves
  <1>2. /\ UNCHANGED <<dir, manifest, backup, up, calls, faults, history>>
        /\ db' = db /\ cache' = cache /\ recents' = recents
    BY DEF OnlyMoves, disk
  <1>3. recents' \in [whole: BOOLEAN, listed: BOOLEAN]
    BY <1>2, Types
  <1> QED
    BY <1>1, <1>2, <1>3, MoveKeeps

LEMMA OnlyMovesLeaves ==
    ASSUME Core, NEW t \in Thread, NEW c, OnlyMoves(t, c)
    PROVE  /\ call'[t] = c /\ c \in Call /\ c.op = call[t].op
           /\ dir' = dir /\ manifest' = manifest /\ db' = db /\ backup' = backup
           /\ cache' = cache /\ calls' = calls
  BY Types DEF OnlyMoves, disk

LEMMA PackageKeeps ==
    ASSUME Core, NEW t \in Thread, Package(t) PROVE Core'
  <1> DEFINE c == [call[t] EXCEPT !.pc = "attach", !.manifest = manifest.version]
  <1>1. At(t, "package")
    BY DEF Package
  <1>2. CASE manifest.state # "whole"
    BY <1>1, <1>2, Mine, FailKeeps DEF Package, Written
  <1>3. CASE manifest.state = "whole"
    <2>1. /\ call' = [call EXCEPT ![t] = c]
          /\ UNCHANGED <<disk, up, cache, calls, faults, history>>
      BY <1>3 DEF Package
    <2>2. /\ c \in Call /\ c.op = call[t].op /\ c.pc = "attach"
          /\ c.manifest = manifest.version
      <3>1. manifest.version \in Version
        BY Types
      <3> QED
        BY <3>1, CallTypes DEF Call, Pc
    <2> HIDE DEF c
    <2>3. OnlyMoves(t, c)
      BY <2>1, <2>2 DEF OnlyMoves
    <2>4. c.op \notin {"none", "create"}
      BY <1>1, <2>2, Mine DEF OnTrack, Creating, Busy
    <2>5. Fresh
      <3>1. \A u \in Thread : call[u].op # "create"
        BY <1>1, <2>2, <2>4, Mine DEF Writes, Busy
      <3> QED
        BY <1>3, <3>1 DEF Core, StaleOnlyInCreate
    <2>6. db.file # 0 /\ Genuine
      <3>1. manifest.version \in Nat /\ db.version \in Nat /\ Legacy \in Nat
        BY <1>1, Mine, Constants
      <3>2. db.file # 0 /\ Legacy <= manifest.version /\ manifest.version <= db.version
        BY <1>3 DEF Core, OnDisk, ManifestNeverAhead
      <3> QED
        BY <2>5, <3>1, <3>2 DEF Genuine
    <2>7. OnTrack(t)' /\ Undisturbed(t)'
      BY <2>2, <2>3, <2>4, <2>5, <2>6, OnlyMovesLeaves
      DEF OnTrack, Undisturbed, Seeing, UpToDate, PastPackage, Outdated, Fresh, Genuine
    <2> QED
      BY <1>1, <2>3, <2>7, OnlyMovesKeeps
  <1> QED
    BY <1>2, <1>3

LEMMA AttachKeeps ==
    ASSUME Core, NEW t \in Thread, Attach(t) PROVE Core'
  <1> DEFINE c == [call[t] EXCEPT !.pc = IF db.version < Schema THEN "detach"
                                         ELSE "migrate",
                                  !.connected = TRUE, !.seen = db.version]
  <1>1. At(t, "attach")
    BY DEF Attach
  <1>2. /\ call' = [call EXCEPT ![t] = c]
        /\ UNCHANGED <<disk, up, cache, calls, faults, history>>
    BY DEF Attach, GoConnected
  <1>3. /\ c \in Call /\ c.op = call[t].op /\ c.connected /\ c.seen = db.version
        /\ c.manifest = call[t].manifest
        /\ c.pc = IF db.version < Schema THEN "detach" ELSE "migrate"
    <2>1. db.version \in Version
      BY Types DEF DbFile
    <2> QED
      BY <2>1, CallTypes DEF Call, Pc
  <1> HIDE DEF c
  <1>4. OnlyMoves(t, c)
    BY <1>2, <1>3 DEF OnlyMoves
  <1>5. /\ c.op \notin {"none", "create"} /\ Genuine /\ db.file # 0
        /\ ~raced /\ c.manifest < Schema => manifest.version < Schema
        /\ db.version \in Nat /\ Schema \in Nat /\ db.version <= Schema
    <2>1. OnTrack(t) /\ call[t].pc = "attach" /\ Busy(t) /\ (~raced => Undisturbed(t))
      BY <1>1, Mine
    <2>2. c.op \notin {"none", "create"} /\ Genuine /\ db.file # 0
      BY <2>1, <1>3 DEF OnTrack, Creating, PastPackage, Busy
    <2>3. ~raced /\ c.manifest < Schema => manifest.version < Schema
      BY <2>1, <2>2, <1>3 DEF Undisturbed, PastPackage, Outdated
    <2> QED
      BY <1>1, <2>2, <2>3, Mine, Constants
  <1>6. /\ call'[t] = c /\ db' = db /\ manifest' = manifest /\ cache' = cache
    BY <1>4, OnlyMovesLeaves
  <1>7. OnTrack(t)' /\ (~raced => Undisturbed(t)')
    <2>1. CASE c.pc = "detach"
      <3>1. c.seen <= db.version /\ c.seen < Schema
        BY <1>3, <1>5, <2>1
      <3>2. OnTrack(t)'
        BY <1>3, <1>5, <1>6, <2>1, <3>1 DEF OnTrack, Seeing, UpToDate, PastPackage, Fresh, Genuine
      <3> QED
        BY <1>3, <1>5, <1>6, <2>1, <3>2 DEF Undisturbed, Seeing, PastPackage, Outdated
    <2>2. CASE c.pc = "migrate"
      <3>1. c.seen <= db.version /\ c.seen # Legacy
        BY <1>3, <1>5, <2>2, Constants
      <3>2. OnTrack(t)'
        BY <1>3, <1>5, <1>6, <2>2, <3>1 DEF OnTrack, Seeing, UpToDate, PastPackage, Fresh, Genuine
      <3> QED
        BY <1>3, <1>5, <1>6, <2>2, <3>1, <3>2 DEF Undisturbed, Seeing, PastPackage, Outdated
    <2> QED
      BY <1>3, <2>1, <2>2
  <1> QED
    BY <1>1, <1>4, <1>7, OnlyMovesKeeps

\* Of two calls at a project that is not up to date one would have raced.
LEMMA AloneBeforeSchema ==
    ASSUME Core, NEW t \in Thread, Busy(t), ~raced, NeedsUpgrade
    PROVE  \A u \in Thread \ {t} : ~Busy(u) /\ call[u] = Idle /\ ~Connected(u)
  <1>1. \A u \in Thread \ {t} : ~Busy(u)
    BY DEF Core, AloneAtUpgrade
  <1>2. \A u \in Thread \ {t} : call[u] = Idle
    BY <1>1 DEF Core, OnTrack, Busy
  <1>3. ~Idle.connected
    BY DEF Idle
  <1> QED
    BY <1>1, <1>2, <1>3 DEF Connected

LEMMA DetachKeeps ==
    ASSUME Core, NEW t \in Thread, Detach(t) PROVE Core'
  <1> DEFINE c == [call[t] EXCEPT !.pc = "copy", !.connected = FALSE]
  <1>1. At(t, "detach")
    BY DEF Detach
  <1>2. /\ call' = [call EXCEPT ![t] = c] /\ db' = AfterClosing(t)
        /\ UNCHANGED <<dir, manifest, backup, recents, up, cache, calls, faults, history>>
    BY DEF Detach, GoDisconnected
  <1>3. /\ c \in Call /\ c.op = call[t].op /\ ~c.connected /\ c.seen = call[t].seen
        /\ c.manifest = call[t].manifest /\ c.pc = "copy"
    BY CallTypes DEF Call, Pc
  <1> HIDE DEF c
  <1>4. call'[t] = c /\ db' \in {db, Checkpointed}
    BY <1>2, Types, AfterClosingIsOne
  <1>5. /\ Busy(t) /\ up /\ call[t].pc = "detach" /\ OnTrack(t)
        /\ (~raced => Undisturbed(t)) /\ db.version \in Nat /\ Schema \in Nat
    BY <1>1, Mine, Constants
  <1>6. /\ c.op \notin {"none", "create"} /\ Genuine /\ db.file # 0 /\ call[t].connected
        /\ c.seen <= db.version /\ c.seen < Schema
    BY <1>3, <1>5 DEF OnTrack, Creating, Busy, PastPackage, Seeing
  <1>7. db'.file = db.file /\ db'.version = db.version
    BY <1>4, Closing
  <1>8. OnTrack(t)'
    BY <1>2, <1>3, <1>4, <1>6, <1>7 DEF OnTrack, Seeing, UpToDate, PastPackage, Fresh, Genuine
  <1>9. ~raced => Undisturbed(t)'
    <2> SUFFICES ASSUME ~raced PROVE Undisturbed(t)'
      OBVIOUS
    <2>1. /\ c.seen = db.version
          /\ c.manifest < Schema => manifest.version < Schema
      BY <1>3, <1>5, <1>6 DEF Undisturbed, Seeing, PastPackage, Outdated
    <2>2. NeedsUpgrade
      BY <2>1, <1>6 DEF NeedsUpgrade
    <2>3. \A u \in Thread \ {t} : ~Connected(u)
      BY <1>5, <2>2, AloneBeforeSchema
    <2>4. cache # db.file
      BY <1>5, <1>6, <2>1 DEF Core, OnDisk
    <2>5. db' = Checkpointed
      BY <1>2, <1>6, <2>3, <2>4 DEF AfterClosing, LastConnection, Connected
    <2>6. ~db'.tail /\ db'.main = db'.version
      BY <2>5, Types DEF Checkpointed, DbFile
    <2> QED
      BY <1>2, <1>3, <1>4, <1>7, <2>1, <2>6
      DEF Undisturbed, Seeing, PastPackage, UpToDate, Outdated
  <1> QED
    BY <1>2, <1>3, <1>4, <1>5, <1>8, <1>9, MoveKeeps, Types

LEMMA AttachAgainKeeps ==
    ASSUME Core, NEW t \in Thread, AttachAgain(t) PROVE Core'
  <1> DEFINE c == [call[t] EXCEPT !.pc = "migrate", !.connected = TRUE,
                                  !.seen = db.version]
  <1>1. At(t, "reattach")
    BY DEF AttachAgain
  <1>2. /\ call' = [call EXCEPT ![t] = c]
        /\ UNCHANGED <<disk, up, cache, calls, faults, history>>
    BY DEF AttachAgain, GoConnected
  <1>3. /\ c \in Call /\ c.op = call[t].op /\ c.seen = db.version
        /\ c.manifest = call[t].manifest /\ c.pc = "migrate"
    <2>1. db.version \in Version
      BY Types DEF DbFile
    <2> QED
      BY <2>1, CallTypes DEF Call, Pc
  <1> HIDE DEF c
  <1>4. OnlyMoves(t, c)
    BY <1>2, <1>3 DEF OnlyMoves
  <1>5. /\ Busy(t) /\ call[t].pc = "reattach" /\ OnTrack(t)
        /\ (~raced => Undisturbed(t)) /\ db.version \in Nat /\ Schema \in Nat
    BY <1>1, Mine, Constants
  <1>6. /\ c.op \notin {"none", "create"} /\ Genuine /\ db.file # 0
        /\ c.seen <= db.version
    BY <1>3, <1>5 DEF OnTrack, Creating, Busy, PastPackage, Seeing
  <1>7. /\ call'[t] = c /\ db' = db /\ manifest' = manifest /\ cache' = cache
        /\ backup' = backup
    BY <1>4, OnlyMovesLeaves
  <1>8. OnTrack(t)'
    BY <1>3, <1>6, <1>7 DEF OnTrack, Seeing, UpToDate, PastPackage, Fresh, Genuine
  <1>9. ~raced => Undisturbed(t)'
    <2> SUFFICES ASSUME ~raced PROVE Undisturbed(t)'
      OBVIOUS
    <2>1. /\ call[t].seen = db.version
          /\ call[t].seen = Legacy => backup[Legacy] = WholeCopy
          /\ c.manifest < Schema => manifest.version < Schema
      BY <1>3, <1>5, <1>6 DEF Undisturbed, Seeing, PastPackage, Outdated
    <2> QED
      BY <1>3, <1>7, <2>1 DEF Undisturbed, Seeing, PastPackage, UpToDate, Outdated
  <1> QED
    BY <1>1, <1>4, <1>8, <1>9, OnlyMovesKeeps

LEMMA MigratedKeeps ==
    ASSUME Core, NEW t \in Thread, Migrated(t) PROVE Core'
  <1> DEFINE pc == CASE call[t].op = "create" -> "truncate"
                     [] call[t].op = "status" -> "insert"
                     [] OTHER -> "upgrade"
             c == [call[t] EXCEPT !.pc = pc]
  <1>1. At(t, "migrate") /\ call[t].seen = Schema
    BY DEF Migrated
  <1>2. /\ call' = [call EXCEPT ![t] = c]
        /\ UNCHANGED <<disk, up, cache, calls, faults, history>>
    BY DEF Migrated, Go
  <1>3. /\ c \in Call /\ c.op = call[t].op /\ c.manifest = call[t].manifest
        /\ c.pc \in {"truncate", "insert", "upgrade"}
        /\ c.op = "create" <=> c.pc = "truncate"
    BY CallTypes DEF Call, Pc
  <1> HIDE DEF c
  <1>4. OnlyMoves(t, c)
    BY <1>2, <1>3 DEF OnlyMoves
  <1>5. /\ Busy(t) /\ call[t].pc = "migrate" /\ OnTrack(t)
        /\ (~raced => Undisturbed(t)) /\ db.version \in Nat /\ db.version <= Schema
        /\ Schema \in Nat
    BY <1>1, Mine, Constants
  <1>6. /\ c.op # "none" /\ db.file # 0 /\ db.version = Schema
        /\ c.op = "create" => db.file # LegacyFile
        /\ c.op # "create" => Genuine
    BY <1>1, <1>3, <1>5 DEF OnTrack, Busy, PastPackage, Seeing
  <1>7. /\ call'[t] = c /\ db' = db /\ manifest' = manifest /\ cache' = cache
        /\ backup' = backup
    BY <1>4, OnlyMovesLeaves
  <1>8. OnTrack(t)'
    BY <1>3, <1>6, <1>7 DEF OnTrack, Seeing, UpToDate, PastPackage, Fresh, Genuine, Creating
  <1>9. ~raced => Undisturbed(t)'
    <2> SUFFICES ASSUME ~raced PROVE Undisturbed(t)'
      OBVIOUS
    <2>1. c.op # "create" /\ c.manifest < Schema => manifest.version < Schema
      BY <1>3, <1>5 DEF Undisturbed, Seeing, PastPackage, Outdated
    <2> QED
      BY <1>3, <1>7, <2>1 DEF Undisturbed, Seeing, PastPackage, UpToDate, Outdated
  <1> QED
    BY <1>1, <1>3, <1>4, <1>8, <1>9, OnlyMovesKeeps

LEMMA UpgradeKeeps ==
    ASSUME Core, NEW t \in Thread, Upgrade(t) PROVE Core'
  <1> DEFINE c == [call[t] EXCEPT !.pc = IF call[t].manifest < Schema THEN "truncate"
                                         ELSE "close"]
  <1>1. At(t, "upgrade")
    BY DEF Upgrade
  <1>2. /\ call' = [call EXCEPT ![t] = c]
        /\ UNCHANGED <<disk, up, cache, calls, faults, history>>
    BY DEF Upgrade, Go
  <1>3. /\ c \in Call /\ c.op = call[t].op /\ c.manifest = call[t].manifest
        /\ c.pc \in {"close", "truncate"}
        /\ c.pc = "truncate" => c.manifest < Schema
    BY CallTypes DEF Call, Pc
  <1> HIDE DEF c
  <1>4. OnlyMoves(t, c)
    BY <1>2, <1>3 DEF OnlyMoves
  <1>5. /\ Busy(t) /\ call[t].pc = "upgrade" /\ OnTrack(t) /\ (~raced => Undisturbed(t))
    BY <1>1, Mine
  <1>6. /\ c.op \notin {"none", "create"} /\ Genuine /\ db.file # 0 /\ db.version = Schema
    BY <1>3, <1>5 DEF OnTrack, Busy, Creating, PastPackage, UpToDate
  <1>7. call'[t] = c /\ db' = db /\ manifest' = manifest /\ cache' = cache
    BY <1>4, OnlyMovesLeaves
  <1>8. OnTrack(t)'
    BY <1>3, <1>6, <1>7 DEF OnTrack, Seeing, UpToDate, PastPackage, Fresh, Genuine
  <1>9. ~raced => Undisturbed(t)'
    <2> SUFFICES ASSUME ~raced PROVE Undisturbed(t)'
      OBVIOUS
    <2>1. c.manifest < Schema => manifest.version < Schema
      BY <1>3, <1>5, <1>6 DEF Undisturbed, PastPackage, UpToDate, Outdated
    <2> QED
      BY <1>3, <1>7, <2>1 DEF Undisturbed, Seeing, PastPackage, UpToDate, Outdated
  <1> QED
    BY <1>1, <1>3, <1>4, <1>8, <1>9, OnlyMovesKeeps

LEMMA CloseKeeps ==
    ASSUME Core, NEW t \in Thread, Close(t) PROVE Core'
  <1> DEFINE pc == CASE call[t].op = "create" -> "template"
                     [] call[t].op = "save" -> "touch"
                     [] call[t].op = "open" -> "invalidate"
                     [] OTHER -> "end"
             c == [call[t] EXCEPT !.pc = pc, !.connected = FALSE]
  <1>1. At(t, "close")
    BY DEF Close
  <1>2. /\ call' = [call EXCEPT ![t] = c] /\ db' = AfterClosing(t)
        /\ UNCHANGED <<dir, manifest, backup, recents, up, cache, calls, faults, history>>
    BY DEF Close, GoDisconnected
  <1>3. /\ c \in Call /\ c.op = call[t].op /\ c.manifest = call[t].manifest
        /\ c.pc \in {"template", "touch", "invalidate", "end"}
        /\ c.pc = "template" <=> c.op = "create"
        /\ c.pc = "touch" <=> c.op = "save"
        /\ ~c.connected
    BY CallTypes DEF Call, Pc
  <1> HIDE DEF c
  <1>4. call'[t] = c /\ db' \in {db, Checkpointed}
    BY <1>2, Types, AfterClosingIsOne
  <1>5. Busy(t) /\ up /\ call[t].pc = "close" /\ OnTrack(t)
    BY <1>1, Mine
  <1>6. /\ c.op # "none" /\ db.file # 0 /\ db.version = Schema
        /\ c.op = "create" => db.file # LegacyFile
        /\ c.op # "create" => Genuine
    BY <1>3, <1>5 DEF OnTrack, Busy, PastPackage, UpToDate
  <1>7. db'.file = db.file /\ db'.version = db.version
    BY <1>4, Closing
  <1>8. OnTrack(t)' /\ Undisturbed(t)'
    <2>1. OnTrack(t)'
      BY <1>2, <1>3, <1>4, <1>6, <1>7
      DEF OnTrack, Seeing, UpToDate, PastPackage, Fresh, Genuine, Creating
    <2>2. Undisturbed(t)'
      BY <1>3, <1>4 DEF Undisturbed, Seeing, UpToDate, PastPackage, Outdated
    <2> QED
      BY <2>1, <2>2
  <1> QED
    BY <1>2, <1>3, <1>4, <1>5, <1>8, MoveKeeps, Types

LEMMA TemplateKeeps ==
    ASSUME Core, NEW t \in Thread, Template(t) PROVE Core'
  <1> DEFINE c == [call[t] EXCEPT !.pc = "invalidate"]
  <1>1. At(t, "template")
    BY DEF Template
  <1>2. /\ call' = [call EXCEPT ![t] = c]
        /\ UNCHANGED <<disk, up, cache, calls, faults, history>>
    BY DEF Template, Go
  <1>3. c \in Call /\ c.op = call[t].op /\ c.pc = "invalidate"
    BY CallTypes DEF Call, Pc
  <1> HIDE DEF c
  <1>4. OnlyMoves(t, c) /\ call'[t] = c /\ c.op # "none"
    BY <1>1, <1>2, <1>3, OnlyMovesLeaves, Mine DEF OnlyMoves, Busy
  <1>5. OnTrack(t)' /\ Undisturbed(t)'
    BY <1>3, <1>4, ElsewhereIsOnTrack DEF PastPackage, Seeing, UpToDate, Creating
  <1> QED
    BY <1>1, <1>3, <1>4, <1>5, OnlyMovesKeeps

-----------------------------------------------------------------------------
(* The status cache and the list of recents. *)

LEMMA HitKeeps ==
    ASSUME Core, NEW t \in Thread, Hit(t) PROVE Core'
  <1> DEFINE c == [call[t] EXCEPT !.pc = "query", !.connected = TRUE]
  <1>1. At(t, "lookup")
    BY DEF Hit
  <1>2. /\ call' = [call EXCEPT ![t] = c]
        /\ UNCHANGED <<disk, up, cache, calls, faults, history>>
    BY DEF Hit
  <1>3. c \in Call /\ c.op = call[t].op /\ c.pc = "query"
    BY CallTypes DEF Call, Pc
  <1> HIDE DEF c
  <1>4. OnlyMoves(t, c) /\ call'[t] = c /\ c.op \notin {"none", "create"}
    <2>1. OnlyMoves(t, c)
      BY <1>2, <1>3 DEF OnlyMoves
    <2>2. OnTrack(t) /\ Busy(t) /\ call[t].pc = "lookup"
      BY <1>1, Mine
    <2> QED
      BY <1>3, <2>1, <2>2, OnlyMovesLeaves DEF OnTrack, Busy, Creating
  <1>5. OnTrack(t)' /\ Undisturbed(t)'
    BY <1>3, <1>4, ElsewhereIsOnTrack DEF PastPackage, Seeing, UpToDate, Creating
  <1> QED
    BY <1>1, <1>3, <1>4, <1>5, OnlyMovesKeeps

LEMMA DropEntryIsGentle ==
    ASSUME DropEntry PROVE cache' = 0 /\ db' \in {db, Checkpointed}
  BY DEF DropEntry

LEMMA MissKeeps ==
    ASSUME Core, NEW t \in Thread, Miss(t) PROVE Core'
  <1> DEFINE c == [call[t] EXCEPT !.pc = "package"]
  <1>1. At(t, "lookup")
    BY DEF Miss
  <1>2. /\ call' = [call EXCEPT ![t] = c]
        /\ cache' = 0 /\ db' \in {db, Checkpointed}
        /\ UNCHANGED <<dir, manifest, backup, recents, up, calls, faults, history>>
    BY DropEntryIsGentle DEF Miss, Go
  <1>3. c \in Call /\ c.op = call[t].op /\ c.pc = "package" /\ call'[t] = c
    BY <1>2, CallTypes DEF Call, Pc
  <1> HIDE DEF c
  <1>4. OnTrack(t) /\ Busy(t) /\ up /\ call[t].pc = "lookup"
    BY <1>1, Mine
  <1>5. c.op \notin {"none", "create"}
    BY <1>3, <1>4 DEF OnTrack, Busy, Creating
  <1>6. OnTrack(t)' /\ Undisturbed(t)'
    BY <1>3, <1>5, ElsewhereIsOnTrack DEF PastPackage, Seeing, UpToDate, Creating
  <1> QED
    BY <1>2, <1>3, <1>4, <1>6, MoveKeeps, Types

LEMMA InvalidateKeeps ==
    ASSUME Core, NEW t \in Thread, Invalidate(t) PROVE Core'
  <1> DEFINE c == [call[t] EXCEPT !.pc = IF call[t].op = "save" THEN "end" ELSE "record"]
  <1>1. At(t, "invalidate")
    BY DEF Invalidate
  <1>2. /\ call' = [call EXCEPT ![t] = c]
        /\ cache' = 0 /\ db' \in {db, Checkpointed}
        /\ UNCHANGED <<dir, manifest, backup, recents, up, calls, faults, history>>
    BY DropEntryIsGentle DEF Invalidate, Go
  <1>3. c \in Call /\ c.op = call[t].op /\ c.pc \in {"end", "record"} /\ call'[t] = c
    BY <1>2, CallTypes DEF Call, Pc
  <1> HIDE DEF c
  <1>4. Busy(t) /\ up /\ call[t].pc = "invalidate" /\ c.op # "none"
    BY <1>1, <1>3, Mine DEF Busy
  <1>5. OnTrack(t)' /\ Undisturbed(t)'
    BY <1>3, <1>4, ElsewhereIsOnTrack DEF PastPackage, Seeing, UpToDate, Creating
  <1> QED
    BY <1>2, <1>3, <1>4, <1>5, MoveKeeps, Types

LEMMA InsertKeeps ==
    ASSUME Core, NEW t \in Thread, Insert(t) PROVE Core'
  <1> DEFINE c == [call[t] EXCEPT !.pc = "query"]
  <1>1. At(t, "insert")
    BY DEF Insert
  <1>2. /\ call' = [call EXCEPT ![t] = c]
        /\ cache' \in {cache, db.file}
        /\ UNCHANGED <<disk, up, calls, faults, history>>
    BY DEF Insert, Go
  <1>3. c \in Call /\ c.op = call[t].op /\ c.pc = "query" /\ call'[t] = c
    BY <1>2, CallTypes DEF Call, Pc
  <1> HIDE DEF c
  <1>4. OnTrack(t) /\ Busy(t) /\ up /\ call[t].pc = "insert"
    BY <1>1, Mine
  <1>5. c.op \notin {"none", "create"} /\ db.version = Schema
    BY <1>3, <1>4 DEF OnTrack, Busy, Creating, UpToDate
  <1>6. OnTrack(t)' /\ Undisturbed(t)'
    BY <1>3, <1>5, ElsewhereIsOnTrack DEF PastPackage, Seeing, UpToDate, Creating
  <1>7. Gentle(t, c)
    <2>1. dir' \in BOOLEAN /\ (dir => dir') /\ db' = db /\ recents' = recents
      BY <1>2, Types DEF disk
    <2>2. cut' \in BOOLEAN /\ (cut => cut') /\ ioError' \in BOOLEAN /\ raced' = raced
      BY <1>2, Types DEF history
    <2>3. faults' \in 0 .. MaxFaults /\ recents \in [whole: BOOLEAN, listed: BOOLEAN]
      BY <1>2, Types
    <2>4. UNCHANGED <<manifest, backup, up, calls, raced>>
      BY <1>2, <2>2 DEF disk
    <2> QED
      BY <1>2, <1>5, <2>1, <2>2, <2>3, <2>4 DEF Gentle
  <1>8. SeesTo(t, c)
    BY <1>4 DEF SeesTo, Written
  <1> QED
    BY <1>3, <1>4, <1>6, <1>7, <1>8, GentleStep

LEMMA RecordKeeps ==
    ASSUME Core, NEW t \in Thread, BeginRecord(t) \/ EndRecord(t) PROVE Core'
  <1>1. /\ Busy(t) /\ up /\ call[t].pc \in {"record", "recording"}
        /\ recents' \in [whole: BOOLEAN, listed: BOOLEAN]
        /\ UNCHANGED <<dir, manifest, db, backup, up, cache, calls, faults, history>>
    <2>1. \A w, l \in BOOLEAN : [whole |-> w, listed |-> l] \in [whole: BOOLEAN, listed: BOOLEAN]
      OBVIOUS
    <2>2. recents' \in [whole: BOOLEAN, listed: BOOLEAN]
      BY <2>1 DEF BeginRecord, EndRecord
    <2> QED
      BY <2>2 DEF BeginRecord, EndRecord, At
  <1>2. PICK pc \in {"recording", "end"} : call' = [call EXCEPT ![t].pc = pc]
    BY DEF BeginRecord, EndRecord, Go
  <1>3. PICK d : d = [call[t] EXCEPT !.pc = pc]
    OBVIOUS
  <1>4. /\ d \in Call /\ d.op = call[t].op /\ d.pc \in {"recording", "end"}
        /\ call' = [call EXCEPT ![t] = d] /\ call'[t] = d
    BY <1>2, <1>3, CallTypes DEF Call, Pc
  <1>5. d.op # "none"
    BY <1>1, <1>4 DEF Busy
  <1>6. OnTrack(t)' /\ Undisturbed(t)'
    BY <1>4, <1>5, ElsewhereIsOnTrack DEF PastPackage, Seeing, UpToDate, Creating
  <1> QED
    BY <1>1, <1>4, <1>6, MoveKeeps

LEMMA DirectoriesKeeps ==
    ASSUME Core, NEW t \in Thread, Directories(t) PROVE Core'
  <1>1. At(t, "directories")
    BY DEF Directories
  <1>2. CASE dir
    BY <1>1, <1>2, Mine, FailKeeps DEF Directories, Written
  <1>3. CASE ~dir
    <2> DEFINE c == [call[t] EXCEPT !.pc = "database"]
    <2>1. /\ call' = [call EXCEPT ![t] = c] /\ dir' = TRUE
          /\ UNCHANGED <<manifest, db, backup, recents, up, cache, calls, faults, history>>
      BY <1>3 DEF Directories, Go
    <2>2. c \in Call /\ c.op = call[t].op /\ c.pc = "database" /\ call'[t] = c
      BY <2>1, CallTypes DEF Call, Pc
    <2> HIDE DEF c
    <2>3. OnTrack(t) /\ Busy(t) /\ up /\ call[t].pc = "directories"
      BY <1>1, Mine
    <2>4. c.op = "create" /\ 1 <= calls /\ cache # calls
      BY <2>2, <2>3 DEF OnTrack
    <2>5. manifest.state = "none"
      BY <1>3 DEF Core, OnDisk
    <2>6. OnTrack(t)' /\ Undisturbed(t)'
      <3>1. OnTrack(t)'
        BY <2>1, <2>2, <2>4, <2>5
        DEF OnTrack, Creating, PastPackage, Seeing, UpToDate
      <3>2. Undisturbed(t)'
        BY <2>2 DEF Undisturbed, PastPackage, Seeing, UpToDate, Outdated
      <3> QED
        BY <3>1, <3>2
    <2>7. Gentle(t, c)
      <3>1. dir' \in BOOLEAN /\ (dir => dir')
        BY <2>1
      <3>2. cut' \in BOOLEAN /\ (cut => cut') /\ ioError' \in BOOLEAN /\ raced' = raced
        BY <2>1, Types DEF history
      <3>3. faults' \in 0 .. MaxFaults /\ recents' \in [whole: BOOLEAN, listed: BOOLEAN]
        BY <2>1, Types
      <3> QED
        BY <2>1, <3>1, <3>2, <3>3 DEF Gentle
    <2>8. SeesTo(t, c)
      BY <2>3 DEF SeesTo, Written
    <2> QED
      BY <2>2, <2>3, <2>6, <2>7, <2>8, GentleStep
  <1> QED
    BY <1>2, <1>3

-----------------------------------------------------------------------------
(* The steps that change the package. *)

\* The step is taken by t; the manifest and the database may change.
LEMMA PackageStep ==
    ASSUME Core, NEW t \in Thread, Busy(t), up, NEW c \in Call,
           c.op \in {call[t].op, "none"}, call' = [call EXCEPT ![t] = c],
           up' = up, calls' = calls, recents' = recents, faults' = faults,
           UNCHANGED history,
           cache' \in 0 .. LegacyFile, dir' \in BOOLEAN,
           manifest' \in [state: {"none", "torn", "whole"}, version: Version],
           db' \in DbFile, backup' \in [Legacy .. Schema - 1 -> Copy],
           \A u \in Thread \ {t} : call'[u] = call[u] => Spares(u),
           OnTrack(t)', ~raced => Undisturbed(t)'
    PROVE  /\ TypeOK' /\ call'[t] = c /\ raced' = raced /\ cut' = cut
           /\ \A u \in Thread \ {t} : call'[u] = call[u]
           /\ \A u \in Thread : OnTrack(u)' /\ (~raced' => Undisturbed(u)')
  <1>1. call'[t] = c /\ \A u \in Thread \ {t} : call'[u] = call[u]
    BY Types
  <1>2. raced' = raced /\ cut' = cut /\ ioError' = ioError
    BY DEF history
  <1>3. \A s, r \in Thread : s # r /\ Writes(call'[s].op) => ~(call'[r].op # "none")
    BY <1>1, Types DEF Writes, Busy
  <1>4. call' \in [Thread -> Call]
    BY Types
  <1>5. TypeOK'
    BY <1>2, <1>3, <1>4, Types, TypesAfter
  <1>6. ASSUME NEW u \in Thread PROVE OnTrack(u)' /\ (~raced' => Undisturbed(u)')
    <2>1. CASE u = t
      BY <1>2, <2>1
    <2>2. CASE u # t
      BY <1>1, <1>5, <2>2, SparedIsOnTrack
    <2> QED
      BY <2>1, <2>2
  <1> QED
    BY <1>1, <1>2, <1>5, <1>6

\* Calls beside a writer are idle.
LEMMA WriterSparesAll ==
    ASSUME Core, NEW t \in Thread, Writes(call[t].op)
    PROVE  \A u \in Thread \ {t} : /\ ~Busy(u)
                                   /\ call'[u] = call[u] => Spares(u)
  BY Types DEF Spares

LEMMA DatabaseKeeps ==
    ASSUME Core, NEW t \in Thread, Database(t) PROVE Core'
  <1> DEFINE c == [call[t] EXCEPT !.pc = "migrate", !.connected = TRUE, !.seen = 1]
             d == [file |-> calls, version |-> 1, tables |-> 1, main |-> 1, tail |-> FALSE]
  <1>1. At(t, "database")
    BY DEF Database
  <1>2. /\ call' = [call EXCEPT ![t] = c] /\ db' = d
        /\ UNCHANGED <<dir, manifest, backup, recents, up, cache, calls, faults, history>>
    BY DEF Database, GoConnected
  <1>3. /\ c \in Call /\ c.op = call[t].op /\ c.pc = "migrate" /\ c.seen = 1
        /\ call'[t] = c
    BY <1>2, CallTypes, Constants DEF Call, Pc
  <1>4. /\ OnTrack(t) /\ Busy(t) /\ up /\ call[t].pc = "database"
    BY <1>1, Mine
  <1>5. /\ call[t].op = "create" /\ 1 <= calls /\ cache # calls /\ dir
        /\ manifest.state = "none" /\ Writes(call[t].op)
    BY <1>4 DEF OnTrack, Writes
  <1>6. /\ d \in DbFile /\ d.file = calls /\ d.version = 1 /\ d.tables = 1
        /\ calls \in Nat /\ calls # 0 /\ calls # LegacyFile
    BY <1>5, Types, Constants DEF DbFile
  <1> HIDE DEF c, d
  <1>7. OnTrack(t)'
    BY <1>2, <1>3, <1>5, <1>6
    DEF OnTrack, Creating, PastPackage, Seeing, UpToDate
  <1>8. Undisturbed(t)'
    BY <1>2, <1>3, <1>5, <1>6
    DEF Undisturbed, PastPackage, Seeing, UpToDate, Outdated
  <1>9. /\ TypeOK' /\ raced' = raced /\ cut' = cut
        /\ \A u \in Thread \ {t} : call'[u] = call[u] /\ ~Busy(u)
        /\ \A u \in Thread : OnTrack(u)' /\ (~raced' => Undisturbed(u)')
    BY <1>2, <1>3, <1>4, <1>5, <1>6, <1>7, <1>8, PackageStep, WriterSparesAll, Types
  <1>10. OnDisk'
    BY <1>2, <1>5, <1>6 DEF Core, OnDisk, ManifestNeverAhead
  <1>11. AloneAtUpgrade'
    BY <1>9 DEF AloneAtUpgrade, Busy
  <1>12. StaleOnlyInCreate' /\ TornIsBeingWritten' /\ BackupIsPreImage'
    BY <1>2, <1>5, <1>6 DEF StaleOnlyInCreate, TornIsBeingWritten, BackupIsPreImage
  <1> QED
    BY <1>9, <1>10, <1>11, <1>12 DEF Core

\* Nobody is at the package, and nothing is left of it.
LEMMA WipedKeeps ==
    ASSUME Core, \A u \in Thread : call'[u] = Idle, call' \in [Thread -> Call],
           dir' = FALSE, manifest' = NoManifest, db' = NoDb, backup' = NoBackup,
           UNCHANGED <<recents, up, cache, calls, faults, history>>
    PROVE  Core'
  <1>1. NoDb \in DbFile /\ NoDb.file = 0 /\ NoDb.version = NoDb.tables
    BY Constants DEF NoDb, DbFile
  <1>2. NoBackup \in [Legacy .. Schema - 1 -> Copy]
    BY Constants DEF NoBackup, Copy
  <1>3. /\ NoManifest \in [state: {"none", "torn", "whole"}, version: Version]
        /\ NoManifest.state = "none" /\ NoManifest.version = 0
    BY Constants DEF NoManifest
  <1>4. \A u \in Thread : call'[u].op = "none"
    BY IdleIsACall
  <1>5. raced' = raced /\ cut' = cut /\ ioError' = ioError
    BY DEF history
  <1>6. TypeOK'
    <2>1. \A s, r \in Thread : s # r /\ Writes(call'[s].op) => ~(call'[r].op # "none")
      BY <1>4
    <2> QED
      BY <1>1, <1>2, <1>3, <1>4, <1>5, <2>1, Types, TypesAfter
  <1>7. OnDisk'
    <2>1. cache \in Nat /\ calls \in Nat
      BY Types, Constants
    <2>2. OnDisk
      BY DEF Core
    <2> QED
      BY <1>1, <1>3, <2>1, <2>2 DEF OnDisk, ManifestNeverAhead
  <1>8. /\ StaleOnlyInCreate' /\ AloneAtUpgrade' /\ TornIsBeingWritten'
        /\ BackupIsPreImage'
    <2>1. 0 # LegacyFile
      BY Constants
    <2> QED
      BY <1>1, <1>3, <1>4, <2>1
      DEF StaleOnlyInCreate, AloneAtUpgrade, TornIsBeingWritten, BackupIsPreImage, Busy
  <1>9. \A u \in Thread : OnTrack(u)' /\ Undisturbed(u)'
    BY IdleIsOnTrack
  <1> QED
    BY <1>6, <1>7, <1>8, <1>9 DEF Core

LEMMA RollBackKeeps ==
    ASSUME Core, NEW t \in Thread, RollBack(t) PROVE Core'
  <1>1. OnTrack(t) /\ call[t].pc = "template"
    BY Mine DEF RollBack
  <1>2. Writes(call[t].op)
    BY <1>1 DEF OnTrack, Writes
  <1>3. \A u \in Thread \ {t} : call[u] = Idle
    BY <1>2, Types DEF Core, OnTrack, Busy
  <1>4. call' = [call EXCEPT ![t] = Idle]
    BY DEF RollBack
  <1>5. call' \in [Thread -> Call] /\ \A u \in Thread : call'[u] = Idle
    BY <1>3, <1>4, Types, IdleIsACall
  <1> QED
    BY <1>5, WipedKeeps DEF RollBack

LEMMA RemoveKeeps ==
    ASSUME Core, Remove PROVE Core'
  <1>1. \A u \in Thread : call[u] = Idle
    BY DEF Remove, Core, OnTrack, Busy
  <1>2. call' = call
    BY DEF Remove
  <1>3. call' \in [Thread -> Call] /\ \A u \in Thread : call'[u] = Idle
    BY <1>1, <1>2, Types
  <1> QED
    BY <1>3, WipedKeeps DEF Remove

\* A call that copies the database knows that it is old, and is alone.
LEMMA AtTheCopy ==
    ASSUME Core, NEW t \in Thread, Busy(t), call[t].pc \in {"copy", "copying"}
    PROVE  /\ call[t].op # "create" /\ ~call[t].connected /\ Genuine /\ db.file # 0
           /\ call[t].seen <= db.version /\ call[t].seen < Schema
           /\ ~raced =>
                /\ call[t].seen = db.version /\ Settled /\ NeedsUpgrade
                /\ call[t].manifest < Schema => manifest.version < Schema
                /\ \A u \in Thread \ {t} : ~Busy(u)
  <1>1. OnTrack(t) /\ (~raced => Undisturbed(t))
    BY DEF Core
  <1>2. /\ call[t].op # "create" /\ ~call[t].connected /\ Genuine /\ db.file # 0
        /\ call[t].seen <= db.version /\ call[t].seen < Schema
    BY <1>1 DEF OnTrack, Creating, PastPackage, Seeing
  <1>3. ASSUME ~raced
        PROVE  /\ call[t].seen = db.version /\ Settled /\ NeedsUpgrade
               /\ call[t].manifest < Schema => manifest.version < Schema
    BY <1>1, <1>2, <1>3
    DEF Undisturbed, Seeing, PastPackage, Outdated, Settled, NeedsUpgrade
  <1> QED
    BY <1>2, <1>3, AloneBeforeSchema

LEMMA CopyKeeps ==
    ASSUME Core, NEW t \in Thread, BeginCopy(t) \/ EndCopy(t) PROVE Core'
  <1> DEFINE seen == call[t].seen
  <1>1. Busy(t) /\ up /\ call[t].pc \in {"copy", "copying"}
    BY DEF BeginCopy, EndCopy, At
  <1>2. /\ call[t] \in Call /\ db \in DbFile /\ seen \in Nat /\ db.version \in Nat
        /\ backup \in [Legacy .. Schema - 1 -> Copy]
    BY Types, VersionsAreNat DEF Call, DbFile
  <1>3. PICK k \in Copy, pc \in {"copying", "reattach"} :
          /\ backup' = [backup EXCEPT ![seen] = k]
          /\ call' = [call EXCEPT ![t].pc = pc]
          /\ pc = "reattach" => k = [state |-> IF db.tail THEN "partial" ELSE "whole",
                                     version |-> db.main]
    <2>1. [state |-> "torn", version |-> 0] \in Copy
      BY Constants DEF Copy
    <2>2. [state |-> IF db.tail THEN "partial" ELSE "whole", version |-> db.main] \in Copy
      BY <1>2 DEF Copy, DbFile
    <2> QED
      BY <2>1, <2>2 DEF BeginCopy, EndCopy, Go
  <1>4. UNCHANGED <<dir, manifest, db, recents, up, cache, calls, faults, history>>
    BY DEF BeginCopy, EndCopy
  <1>5. PICK c : c = [call[t] EXCEPT !.pc = pc]
    OBVIOUS
  <1>6. /\ c \in Call /\ c.op = call[t].op /\ c.pc = pc /\ c.seen = seen
        /\ c.manifest = call[t].manifest /\ c.connected = call[t].connected
        /\ call' = [call EXCEPT ![t] = c] /\ call'[t] = c
    BY <1>2, <1>3, <1>5, CallTypes DEF Call, Pc
  <1>7. /\ c.op \notin {"none", "create"} /\ ~c.connected /\ Genuine /\ db.file # 0
        /\ seen <= db.version /\ seen < Schema
        /\ ~raced =>
             /\ seen = db.version /\ Settled /\ NeedsUpgrade
             /\ c.manifest < Schema => manifest.version < Schema
             /\ \A u \in Thread \ {t} : ~Busy(u)
    BY <1>1, <1>6, AtTheCopy DEF Busy
  <1>8. backup' \in [Legacy .. Schema - 1 -> Copy]
    BY <1>2, <1>3
  <1>9. OnTrack(t)'
    BY <1>3, <1>4, <1>6, <1>7 DEF OnTrack, PastPackage, Seeing, UpToDate, Fresh, Genuine
  <1>10. ~raced => Undisturbed(t)'
    <2> SUFFICES ASSUME ~raced PROVE Undisturbed(t)'
      OBVIOUS
    <2>1. /\ seen = db.version /\ ~db.tail /\ db.main = db.version
          /\ c.manifest < Schema => manifest.version < Schema
      BY <1>7 DEF Settled
    <2>2. c.pc = "reattach" /\ seen = Legacy => backup'[Legacy] = WholeCopy
      <3>1. Legacy \in Legacy .. Schema - 1
        BY Constants
      <3> QED
        BY <1>2, <1>3, <1>6, <2>1, <3>1 DEF WholeCopy
    <2> QED
      BY <1>3, <1>4, <1>6, <1>7, <2>1, <2>2
      DEF Undisturbed, PastPackage, Seeing, UpToDate, Outdated
  <1>11. \A u \in Thread \ {t} : call'[u] = call[u] => Spares(u)
    <2> SUFFICES ASSUME NEW u \in Thread \ {t}, call'[u] = call[u], Busy(u)
                 PROVE  /\ ~Writes(call[u].op)
                        /\ db'.file = db.file /\ db.version <= db'.version
                        /\ cache' \in {0, cache, db.file}
                        /\ ~raced' => Steady
      BY DEF Spares
    <2>1. ~Writes(call[u].op)
      BY <1>1, Types
    <2>2. raced
      BY <1>7
    <2>3. raced' = raced
      BY <1>4 DEF history
    <2> QED
      BY <1>2, <1>4, <2>1, <2>2, <2>3
  <1>12. /\ TypeOK' /\ raced' = raced /\ cut' = cut
         /\ \A u \in Thread \ {t} : call'[u] = call[u]
         /\ \A u \in Thread : OnTrack(u)' /\ (~raced' => Undisturbed(u)')
    BY <1>1, <1>4, <1>6, <1>8, <1>9, <1>10, <1>11, PackageStep, Types
  <1>13. OnDisk'
    BY <1>4 DEF Core, OnDisk, ManifestNeverAhead
  <1>14. StaleOnlyInCreate'
    <2>1. \A s \in Thread : call[s].op = "create" => call'[s] = call[s]
      BY <1>6, <1>7, <1>12
    <2> QED
      BY <1>4, <2>1 DEF Core, StaleOnlyInCreate, Fresh
  <1>15. AloneAtUpgrade'
    <2>1. \A s \in Thread : Busy(s)' => Busy(s)
      BY <1>1, <1>12 DEF Busy
    <2> QED
      BY <1>4, <1>12, <2>1 DEF Core, AloneAtUpgrade, NeedsUpgrade
  <1>16. TornIsBeingWritten'
    <2>1. \A s \in Thread : At(s, "write") => s # t
      BY <1>1 DEF At
    <2>2. \A s \in Thread : At(s, "write") => At(s, "write")'
      BY <1>4, <1>12, <2>1 DEF At, Busy
    <2> QED
      BY <1>4, <1>12, <2>2 DEF Core, TornIsBeingWritten
  <1>17. BackupIsPreImage'
    <2> SUFFICES ASSUME db.file = LegacyFile, db.version > Legacy, ~raced
                 PROVE  backup'[Legacy] = WholeCopy
      BY <1>4, <1>12 DEF BackupIsPreImage, WholeCopy
    <2>1. backup[Legacy] = WholeCopy
      BY DEF Core, BackupIsPreImage, WholeCopy
    <2>2. seen # Legacy
      BY <1>7, Constants
    <2>3. Legacy \in Legacy .. Schema - 1
      BY Constants
    <2> QED
      BY <1>2, <1>3, <2>1, <2>2, <2>3
  <1> QED
    BY <1>12, <1>13, <1>14, <1>15, <1>16, <1>17 DEF Core

\* One migration: the version grows, and the call is alone or has raced.
LEMMA OneMigrationKeeps ==
    ASSUME Core, NEW t \in Thread, Migrate(t), call[t].seen < Schema,
           ~(db.tables >= call[t].seen + 1)
    PROVE  Core'
  <1> DEFINE v == call[t].seen + 1
             c == [call[t] EXCEPT !.seen = v]
             d == [db EXCEPT !.version = v, !.tables = v, !.tail = TRUE]
  <1>1. At(t, "migrate")
    BY DEF Migrate
  <1>2. /\ call' = [call EXCEPT ![t] = c] /\ db' = d
        /\ UNCHANGED <<dir, manifest, backup, recents, up, cache, calls, faults, history>>
    BY DEF Migrate, VersionAfter
  <1>3. /\ call[t] \in Call /\ db \in DbFile /\ call[t].seen \in Nat /\ Schema \in Nat
        /\ Legacy \in Nat
    BY Types, VersionsAreNat, Constants DEF Call, DbFile
  <1>4. /\ Busy(t) /\ up /\ call[t].pc = "migrate" /\ OnTrack(t)
        /\ (~raced => Undisturbed(t)) /\ db.version \in Nat /\ db.tables = db.version
    BY <1>1, Mine
  <1>5. v \in Version /\ v \in Nat /\ v <= Schema
    BY <1>3 DEF Version
  <1>6. /\ c \in Call /\ c.op = call[t].op /\ c.pc = "migrate" /\ c.seen = v
        /\ c.manifest = call[t].manifest /\ call'[t] = c
    BY <1>2, <1>3, <1>4, <1>5, Types DEF Call
  <1>7. /\ d \in DbFile /\ d.file = db.file /\ d.version = v /\ d.tables = v
    BY <1>3, <1>5 DEF DbFile
  <1> HIDE DEF c, d
  <1>8. /\ call[t].seen = db.version /\ c.op # "none" /\ db.file # 0
        /\ c.op # "create" => Genuine
        /\ c.op = "create" => db.file # LegacyFile
    <2>1. call[t].seen <= db.version
      BY <1>4 DEF OnTrack, Seeing
    <2>2. call[t].seen = db.version
      BY <1>3, <1>4, <2>1
    <2> QED
      BY <1>4, <1>6, <2>2 DEF OnTrack, Busy, PastPackage, Seeing
  <1>9. v = db.version + 1 /\ NeedsUpgrade
    BY <1>8 DEF NeedsUpgrade
  <1>10. ~raced => \A u \in Thread \ {t} : ~Busy(u)
    BY <1>4, <1>9, AloneBeforeSchema
  <1>11. ASSUME ~raced, c.op # "create"
         PROVE  /\ db.version = Legacy => backup[Legacy] = WholeCopy
                /\ c.manifest < Schema => manifest.version < Schema
    BY <1>4, <1>6, <1>8, <1>11 DEF Undisturbed, PastPackage, Seeing, Outdated
  <1>12. OnTrack(t)'
    <2>1. c.op # "create" => cache \in {0, db.file} /\ Legacy <= v
      BY <1>3, <1>4, <1>8, <1>9 DEF Fresh, Genuine
    <2> QED
      BY <1>2, <1>5, <1>6, <1>7, <1>8, <2>1
         DEF OnTrack, Creating, PastPackage, Seeing, UpToDate, Fresh, Genuine
  <1>13. ~raced => Undisturbed(t)'
    <2> SUFFICES ASSUME ~raced PROVE Undisturbed(t)'
      OBVIOUS
    <2>1. c.op # "create" => v # Legacy
      BY <1>3, <1>4, <1>8, <1>9 DEF Genuine
    <2> QED
      BY <1>2, <1>6, <1>7, <1>11, <2>1
      DEF Undisturbed, PastPackage, Seeing, UpToDate, Outdated
  <1>14. \A u \in Thread \ {t} : call'[u] = call[u] => Spares(u)
    <2> SUFFICES ASSUME NEW u \in Thread \ {t}, call'[u] = call[u], Busy(u)
                 PROVE  /\ ~Writes(call[u].op)
                        /\ db'.file = db.file /\ db.version <= db'.version
                        /\ cache' \in {0, cache, db.file}
                        /\ ~raced' => Steady
      BY DEF Spares
    <2>1. ~Writes(call[u].op)
      BY <1>4, Types
    <2>2. raced
      BY <1>10
    <2>3. raced' = raced
      BY <1>2 DEF history
    <2>4. db.version <= db'.version
      BY <1>2, <1>4, <1>7, <1>9
    <2> QED
      BY <1>2, <1>7, <2>1, <2>2, <2>3, <2>4
  <1>15. /\ TypeOK' /\ raced' = raced /\ cut' = cut
         /\ \A u \in Thread \ {t} : call'[u] = call[u]
         /\ \A u \in Thread : OnTrack(u)' /\ (~raced' => Undisturbed(u)')
    BY <1>2, <1>4, <1>6, <1>7, <1>12, <1>13, <1>14, PackageStep, Types
  <1>16. OnDisk'
    <2>1. OnDisk /\ manifest.version \in Nat
      BY <1>1, Mine DEF Core
    <2>2. cache # 0 /\ cache = db.file => FALSE
      BY <1>3, <1>8, <2>1 DEF OnDisk
    <2>3. manifest.version <= db.version => manifest.version <= v
      BY <1>4, <1>9, <2>1
    <2> QED
      BY <1>2, <1>7, <2>1, <2>2, <2>3 DEF OnDisk, ManifestNeverAhead
  <1>17. StaleOnlyInCreate'
    <2>1. \A s \in Thread : call[s].pc \in Written => call'[s] = call[s]
      BY <1>4, <1>15 DEF Written
    <2> QED
      BY <1>2, <1>7, <2>1 DEF Core, StaleOnlyInCreate, Fresh
  <1>18. AloneAtUpgrade'
    <2>1. \A s \in Thread : Busy(s)' => Busy(s)
      BY <1>4, <1>15 DEF Busy
    <2> QED
      BY <1>9, <1>15, <2>1 DEF Core, AloneAtUpgrade
  <1>19. TornIsBeingWritten'
    <2>1. \A s \in Thread : At(s, "write") => s # t
      BY <1>4 DEF At
    <2>2. \A s \in Thread : At(s, "write") => At(s, "write")'
      BY <1>2, <1>15, <2>1 DEF At, Busy
    <2> QED
      BY <1>2, <1>15, <2>2 DEF Core, TornIsBeingWritten
  <1>20. BackupIsPreImage'
    <2> SUFFICES ASSUME db.file = LegacyFile, v > Legacy, ~raced
                 PROVE  backup[Legacy] = WholeCopy
      BY <1>2, <1>7, <1>15 DEF BackupIsPreImage, WholeCopy
    <2>1. CASE db.version = Legacy
      BY <1>8, <1>11, <2>1, <1>6
    <2>2. CASE db.version > Legacy
      BY <2>2 DEF Core, BackupIsPreImage, WholeCopy
    <2> QED
      BY <1>3, <1>4, <1>9, <2>1, <2>2
  <1> QED
    BY <1>15, <1>16, <1>17, <1>18, <1>19, <1>20 DEF Core

LEMMA MigrateKeeps ==
    ASSUME Core, NEW t \in Thread, Migrate(t) PROVE Core'
  <1>1. At(t, "migrate") /\ call[t].seen < Schema
    BY DEF Migrate
  <1>2. CASE db.tables >= call[t].seen + 1
    BY <1>1, <1>2, Mine, FailKeeps DEF Migrate, Written
  <1>3. CASE ~(db.tables >= call[t].seen + 1)
    BY <1>1, <1>3, OneMigrationKeeps
  <1> QED
    BY <1>2, <1>3

\* A manifest is written by a writer or by a call that is alone or has raced.
LEMMA TruncateKeeps ==
    ASSUME Core, NEW t \in Thread, Truncate(t) PROVE Core'
  <1>1. Busy(t) /\ up /\ call[t].pc \in {"truncate", "touch"}
    BY DEF Truncate, At
  <1>2. PICK c : c = [call[t] EXCEPT !.pc = "write"]
    OBVIOUS
  <1>3. /\ call' = [call EXCEPT ![t] = c] /\ manifest' = TornManifest
        /\ UNCHANGED <<dir, db, backup, recents, up, cache, calls, faults, history>>
    BY <1>2 DEF Truncate, Go
  <1>4. /\ c \in Call /\ c.op = call[t].op /\ c.pc = "write" /\ call'[t] = c
        /\ c.connected = call[t].connected
    BY <1>2, <1>3, CallTypes DEF Call, Pc
  <1>5. /\ TornManifest.state = "torn" /\ TornManifest.version = 0
        /\ TornManifest \in [state: {"none", "torn", "whole"}, version: Version]
    BY Constants DEF TornManifest
  <1>6. OnTrack(t) /\ (~raced => Undisturbed(t))
    BY DEF Core
  <1>7. /\ c.op # "none" /\ db.file # 0 /\ db.version = Schema
        /\ c.op = "create" => db.file # LegacyFile
        /\ c.op # "create" => Genuine
    BY <1>1, <1>4, <1>6 DEF OnTrack, Busy, PastPackage, UpToDate
  <1>8. ~raced => \A u \in Thread \ {t} : ~Busy(u)
    <2>1. CASE Writes(c.op)
      BY <1>4, <2>1, WriterSparesAll
    <2>2. CASE ~Writes(c.op)
      <3>1. c.op # "create" /\ call[t].pc = "truncate"
        BY <1>1, <1>4, <1>6, <2>2 DEF Writes, OnTrack
      <3>2. ~raced => NeedsUpgrade
        BY <1>4, <1>6, <3>1
        DEF Undisturbed, NeedsUpgrade, PastPackage, UpToDate, Outdated
      <3> QED
        BY <1>1, <3>2, AloneBeforeSchema
    <2> QED
      BY <2>1, <2>2
  <1>9. OnTrack(t)' /\ Undisturbed(t)'
    <2>1. OnTrack(t)'
      BY <1>3, <1>4, <1>7
      DEF OnTrack, Creating, PastPackage, Seeing, UpToDate, Fresh, Genuine
    <2>2. Undisturbed(t)'
      BY <1>3, <1>4, <1>5 DEF Undisturbed, PastPackage, Seeing, UpToDate, Outdated
    <2> QED
      BY <2>1, <2>2
  <1>10. \A u \in Thread \ {t} : call'[u] = call[u] => Spares(u)
    <2> SUFFICES ASSUME NEW u \in Thread \ {t}, call'[u] = call[u], Busy(u)
                 PROVE  /\ ~Writes(call[u].op)
                        /\ db'.file = db.file /\ db.version <= db'.version
                        /\ cache' \in {0, cache, db.file}
                        /\ ~raced' => Steady
      BY DEF Spares
    <2>1. ~Writes(call[u].op)
      BY <1>1, Types
    <2>2. raced /\ raced' = raced
      BY <1>3, <1>8 DEF history
    <2>3. db.version <= db'.version
      BY <1>3, <1>7, Constants
    <2> QED
      BY <1>3, <2>1, <2>2, <2>3
  <1>11. /\ TypeOK' /\ raced' = raced /\ cut' = cut
         /\ \A u \in Thread \ {t} : call'[u] = call[u]
         /\ \A u \in Thread : OnTrack(u)' /\ (~raced' => Undisturbed(u)')
    BY <1>1, <1>3, <1>4, <1>5, <1>9, <1>10, PackageStep, Types
  <1>12. OnDisk'
    BY <1>3, <1>5, <1>7 DEF Core, OnDisk, ManifestNeverAhead
  <1>13. AloneAtUpgrade'
    <2>1. \A s \in Thread : Busy(s)' => Busy(s)
      BY <1>1, <1>11 DEF Busy
    <2> QED
      BY <1>8, <1>11, <2>1 DEF AloneAtUpgrade
  <1>14. At(t, "write")'
    BY <1>1, <1>3, <1>4, <1>7 DEF At, Busy
  <1>15. StaleOnlyInCreate' /\ TornIsBeingWritten'
    BY <1>3, <1>5, <1>14 DEF StaleOnlyInCreate, TornIsBeingWritten
  <1>16. BackupIsPreImage'
    BY <1>3, <1>11 DEF Core, BackupIsPreImage
  <1> QED
    BY <1>11, <1>12, <1>13, <1>15, <1>16 DEF Core

LEMMA WriteKeeps ==
    ASSUME Core, NEW t \in Thread, Write(t) PROVE Core'
  <1>1. Busy(t) /\ up /\ call[t].pc = "write"
    BY DEF Write, At
  <1>2. PICK pc \in {"close", "invalidate"} : call' = [call EXCEPT ![t].pc = pc]
    BY DEF Write, Go
  <1>3. PICK c : c = [call[t] EXCEPT !.pc = pc]
    OBVIOUS
  <1>4. /\ call' = [call EXCEPT ![t] = c] /\ manifest' = Manifest(Schema)
        /\ UNCHANGED <<dir, db, backup, recents, up, cache, calls, faults, history>>
    BY <1>2, <1>3 DEF Write
  <1>5. c \in Call /\ c.op = call[t].op /\ c.pc = pc /\ call'[t] = c
    BY <1>2, <1>3, <1>4, CallTypes DEF Call, Pc
  <1>6. /\ Manifest(Schema).state = "whole" /\ Manifest(Schema).version = Schema
        /\ Manifest(Schema) \in [state: {"none", "torn", "whole"}, version: Version]
        /\ Legacy <= Schema /\ Schema \in Nat
    BY Constants DEF Manifest
  <1>7. OnTrack(t) /\ (~raced => Undisturbed(t))
    BY DEF Core
  <1>8. /\ c.op # "none" /\ db.file # 0 /\ db.version = Schema
        /\ c.op # "create" => Genuine
        /\ c.op = "create" => db.file # LegacyFile
    BY <1>1, <1>5, <1>7 DEF OnTrack, Busy, PastPackage, UpToDate
  <1>9. ~raced => \A u \in Thread \ {t} : ~Busy(u)
    <2>1. ~raced => manifest.state = "torn"
      BY <1>1, <1>7 DEF Undisturbed
    <2>2. manifest.state = "torn" => manifest.version = 0
      BY DEF Core, OnDisk
    <2>3. manifest.state = "torn" => NeedsUpgrade
      BY <2>2, Constants DEF NeedsUpgrade
    <2> QED
      BY <1>1, <2>1, <2>3, AloneBeforeSchema
  <1>10. OnTrack(t)' /\ Undisturbed(t)'
    <2>1. OnTrack(t)'
      BY <1>2, <1>4, <1>5, <1>8
      DEF OnTrack, Creating, PastPackage, Seeing, UpToDate, Fresh, Genuine
    <2>2. Undisturbed(t)'
      BY <1>2, <1>4, <1>5 DEF Undisturbed, PastPackage, Seeing, UpToDate, Outdated
    <2> QED
      BY <2>1, <2>2
  <1>11. \A u \in Thread \ {t} : call'[u] = call[u] => Spares(u)
    <2> SUFFICES ASSUME NEW u \in Thread \ {t}, call'[u] = call[u], Busy(u)
                 PROVE  /\ ~Writes(call[u].op)
                        /\ db'.file = db.file /\ db.version <= db'.version
                        /\ cache' \in {0, cache, db.file}
                        /\ ~raced' => Steady
      BY DEF Spares
    <2>1. ~Writes(call[u].op)
      BY <1>1, Types
    <2>2. raced /\ raced' = raced
      BY <1>4, <1>9 DEF history
    <2>3. db.version <= db'.version
      BY <1>4, <1>8, Constants
    <2> QED
      BY <1>4, <2>1, <2>2, <2>3
  <1>12. /\ TypeOK' /\ raced' = raced /\ cut' = cut
         /\ \A u \in Thread \ {t} : call'[u] = call[u]
         /\ \A u \in Thread : OnTrack(u)' /\ (~raced' => Undisturbed(u)')
    BY <1>1, <1>4, <1>5, <1>6, <1>10, <1>11, PackageStep, Types
  <1>13. OnDisk'
    <2>1. OnDisk /\ Schema <= db.version
      BY <1>6, <1>8 DEF Core
    <2> QED
      BY <1>4, <1>6, <1>8, <2>1 DEF OnDisk, ManifestNeverAhead
  <1>14. StaleOnlyInCreate'
    <2>1. CASE c.op = "create"
      BY <1>2, <1>5, <2>1 DEF StaleOnlyInCreate, Written
    <2>2. CASE c.op # "create"
      BY <1>4, <1>8, <2>2 DEF StaleOnlyInCreate, Genuine, Fresh
    <2> QED
      BY <2>1, <2>2
  <1>15. ~NeedsUpgrade'
    BY <1>4, <1>6, <1>8 DEF NeedsUpgrade
  <1>16. AloneAtUpgrade' /\ TornIsBeingWritten'
    BY <1>4, <1>6, <1>15 DEF AloneAtUpgrade, TornIsBeingWritten
  <1>17. BackupIsPreImage'
    BY <1>4, <1>12 DEF Core, BackupIsPreImage
  <1> QED
    BY <1>12, <1>13, <1>14, <1>16, <1>17 DEF Core

-----------------------------------------------------------------------------
(* Calls begin, the process dies and starts again. *)

LEMMA StartKeeps ==
    ASSUME Core, NEW t \in Thread, NEW op \in Op, Start(t, op) PROVE Core'
  <1> DEFINE c == [Idle EXCEPT !.op = op, !.pc = FirstStep(op)]
  <1>1. /\ up /\ ~Busy(t) /\ calls < MaxCalls /\ calls' = calls + 1
        /\ \A s \in Thread : Busy(s) => ~Writes(op) /\ ~Writes(call[s].op)
        /\ call' = [call EXCEPT ![t] = c]
        /\ UNCHANGED <<dir, manifest, db, backup, recents, up, cache, faults, cut, ioError>>
    BY DEF Start, disk
  <1>2. /\ raced' \in BOOLEAN
        /\ raced => raced'
        /\ NeedsUpgrade /\ (\E s \in Thread : Busy(s)) => raced'
    BY DEF Start
  <1>3. /\ c \in Call /\ c.op = op /\ c.pc = FirstStep(op) /\ op # "none"
    <2>1. FirstStep(op) \in {"directories", "lookup", "package"}
      BY DEF FirstStep
    <2> QED
      BY <2>1, IdleIsACall DEF Idle, Call, Pc, Op
  <1> HIDE DEF c
  <1>4. call'[t] = c /\ \A u \in Thread \ {t} : call'[u] = call[u]
    BY <1>1, Types
  <1>5. calls \in Nat /\ MaxCalls \in Nat /\ cache \in Nat /\ LegacyFile = MaxCalls + 1
    BY Types, Constants
  <1>6. TypeOK'
    <2>1. \A s, r \in Thread : s # r /\ Writes(call'[s].op) => ~(call'[r].op # "none")
      <3> SUFFICES ASSUME NEW s \in Thread, NEW r \in Thread, s # r, Writes(call'[s].op)
                   PROVE  call'[r].op = "none"
        OBVIOUS
      <3>1. CASE s = t
        BY <1>1, <1>3, <1>4, <3>1 DEF Busy
      <3>2. CASE s # t
        <4>1. call'[s] = call[s] /\ Busy(s) /\ Writes(call[s].op)
          BY <1>4, <3>2 DEF Writes, Busy
        <4> QED
          BY <1>1, <4>1
      <3> QED
        BY <3>1, <3>2
    <2>2. call' \in [Thread -> Call]
      BY <1>1, <1>3, Types
    <2>3. calls' \in 0 .. MaxCalls
      BY <1>1, <1>5
    <2> QED
      BY <1>1, <1>2, <2>1, <2>2, <2>3, Types, TypesAfter
  <1>7. OnTrack(t)' /\ Undisturbed(t)'
    <2>1. CASE op = "create"
      <3>1. c.pc = "directories"
        BY <1>3, <2>1 DEF FirstStep
      <3>2. 1 <= calls' /\ cache' # calls'
        <4>1. cache <= calls \/ cache = LegacyFile
          BY DEF Core, OnDisk
        <4> QED
          BY <1>1, <1>5, <4>1
      <3>3. OnTrack(t)'
        BY <1>3, <1>4, <2>1, <3>1, <3>2
        DEF OnTrack, Creating, PastPackage, Seeing, UpToDate
      <3> QED
        BY <1>4, <3>1, <3>3 DEF Undisturbed, PastPackage, Seeing, UpToDate, Outdated
    <2>2. CASE op # "create"
      <3>1. c.pc \in {"lookup", "package"}
        BY <1>3, <2>2 DEF FirstStep
      <3> QED
        BY <1>3, <1>4, <2>2, <3>1, ElsewhereIsOnTrack DEF PastPackage, Seeing, UpToDate
    <2> QED
      BY <2>1, <2>2
  <1>8. \A u \in Thread \ {t} : Spares(u)
    <2>1. db.version <= db'.version
      <3>1. db.version \in Version
        BY Types DEF DbFile
      <3>2. db.version \in Nat
        BY <3>1, VersionsAreNat
      <3> QED
        BY <1>1, <3>2
    <2>2. ~raced' => Steady
      BY <1>1, <1>2 DEF Steady, Settled
    <2> QED
      BY <1>1, <1>4, <2>1, <2>2 DEF Spares
  <1>9. \A u \in Thread : OnTrack(u)' /\ (~raced' => Undisturbed(u)')
    <2> SUFFICES ASSUME NEW u \in Thread
                 PROVE  OnTrack(u)' /\ (~raced' => Undisturbed(u)')
      OBVIOUS
    <2>1. CASE u = t
      BY <1>7, <2>1
    <2>2. CASE u # t
      BY <1>6, <1>8, <2>2, SparedIsOnTrack
    <2> QED
      BY <2>1, <2>2
  <1>10. OnDisk'
    <2>1. OnDisk /\ db.file \in Nat
      BY Types, Constants DEF Core, DbFile
    <2>2. (cache <= calls => cache <= calls') /\ (db.file <= calls => db.file <= calls')
      BY <1>1, <1>5, <2>1
    <2> QED
      BY <1>1, <2>1, <2>2 DEF OnDisk, ManifestNeverAhead
  <1>11. \A s \in Thread : Busy(s) => call'[s] = call[s]
    BY <1>1, <1>4
  <1>12. StaleOnlyInCreate'
    <2>1. \A s \in Thread : call[s].op = "create" => call'[s] = call[s]
      BY <1>11 DEF Busy
    <2> QED
      BY <1>1, <2>1 DEF Core, StaleOnlyInCreate, Fresh
  <1>13. AloneAtUpgrade'
    <2> SUFFICES ASSUME ~raced', NeedsUpgrade
                 PROVE  \A s, r \in Thread : Busy(s)' /\ Busy(r)' => s = r
      BY <1>1 DEF AloneAtUpgrade, NeedsUpgrade
    <2>1. \A s \in Thread \ {t} : ~Busy(s)'
      BY <1>2, <1>4 DEF Busy
    <2> QED
      BY <2>1
  <1>14. TornIsBeingWritten'
    <2>1. \A s \in Thread : At(s, "write") => At(s, "write")'
      BY <1>1, <1>11 DEF At, Busy
    <2> QED
      BY <1>1, <1>2, <2>1 DEF Core, TornIsBeingWritten
  <1>15. BackupIsPreImage'
    BY <1>1, <1>2 DEF Core, BackupIsPreImage
  <1> QED
    BY <1>6, <1>9, <1>10, <1>12, <1>13, <1>14, <1>15 DEF Core

\* The package is left as it is, and no call is under way.
LEMMA AtRestKeeps ==
    ASSUME Core, \A u \in Thread : call'[u] = Idle, call' \in [Thread -> Call],
           UNCHANGED <<disk, calls, raced, ioError>>,
           up' \in BOOLEAN, cache' \in {0, cache}, ~up' => cache' = 0,
           faults' \in 0 .. MaxFaults,
           cut' \in BOOLEAN, cut => cut', manifest.state = "torn" => cut' \/ raced,
           manifest.state = "whole" /\ cache' # 0 => Fresh
    PROVE  Core'
  <1>1. /\ dir' = dir /\ manifest' = manifest /\ db' = db /\ backup' = backup
        /\ recents' = recents /\ calls' = calls /\ raced' = raced /\ ioError' = ioError
    BY DEF disk
  <1>2. \A u \in Thread : call'[u].op = "none"
    BY IdleIsACall
  <1>3. TypeOK'
    <2>1. \A s, r \in Thread : s # r /\ Writes(call'[s].op) => ~(call'[r].op # "none")
      BY <1>2
    <2>2. cache' \in 0 .. LegacyFile
      BY Types, Constants
    <2> QED
      BY <1>1, <1>2, <2>1, <2>2, Types, TypesAfter
  <1>4. OnDisk'
    <2>1. OnDisk /\ calls \in Nat
      BY Types, Constants DEF Core
    <2> QED
      BY <1>1, <2>1 DEF OnDisk, ManifestNeverAhead
  <1>5. StaleOnlyInCreate'
    BY <1>1 DEF StaleOnlyInCreate, Fresh
  <1>6. AloneAtUpgrade' /\ TornIsBeingWritten' /\ BackupIsPreImage'
    BY <1>1, <1>2 DEF Core, AloneAtUpgrade, TornIsBeingWritten, BackupIsPreImage, Busy
  <1>7. \A u \in Thread : OnTrack(u)' /\ Undisturbed(u)'
    BY IdleIsOnTrack
  <1> QED
    BY <1>3, <1>4, <1>5, <1>6, <1>7 DEF Core

LEMMA CrashKeeps ==
    ASSUME Core, Crash PROVE Core'
  <1>1. /\ faults < MaxFaults /\ faults' = faults + 1 /\ up' = FALSE /\ cache' = 0
        /\ call' = [u \in Thread |-> Idle]
        /\ cut' = (cut \/ manifest.state = "torn")
        /\ UNCHANGED <<disk, calls, raced, ioError>>
    BY DEF Crash
  <1>2. faults' \in 0 .. MaxFaults
    BY <1>1, Types, Constants
  <1>3. cut' \in BOOLEAN /\ (cut => cut') /\ (manifest.state = "torn" => cut')
    BY <1>1
  <1>4. call' \in [Thread -> Call] /\ \A u \in Thread : call'[u] = Idle
    BY <1>1, IdleIsACall
  <1> QED
    BY <1>1, <1>2, <1>3, <1>4, AtRestKeeps

LEMMA BootKeeps ==
    ASSUME Core, Boot PROVE Core'
  <1>1. ~up /\ up' = TRUE /\ UNCHANGED <<disk, call, cache, calls, faults, history>>
    BY DEF Boot
  <1>2. cache = 0 /\ \A u \in Thread : ~Busy(u)
    BY <1>1, Types
  <1>3. \A u \in Thread : call[u] = Idle
    BY <1>2 DEF Core, OnTrack, Busy
  <1>4. manifest.state = "torn" => cut \/ raced
    BY <1>1 DEF Core, TornIsBeingWritten, At
  <1>5. raced' = raced /\ cut' = cut /\ ioError' = ioError
    BY <1>1 DEF history
  <1>6. UNCHANGED <<disk, calls, raced, ioError>> /\ call' = call /\ cache' = cache
    BY <1>1, <1>5
  <1>7. /\ cut' \in BOOLEAN
        /\ cut => cut'
        /\ manifest.state = "torn" => cut' \/ raced
    BY <1>4, <1>5, Types
  <1> QED
    BY <1>1, <1>2, <1>3, <1>6, <1>7, AtRestKeeps, Types

LEMMA StutterKeeps ==
    ASSUME Core, UNCHANGED vars PROVE Core'
  <1>1. /\ dir' = dir /\ manifest' = manifest /\ db' = db /\ backup' = backup
        /\ recents' = recents /\ up' = up /\ call' = call /\ cache' = cache
        /\ calls' = calls /\ faults' = faults /\ raced' = raced /\ cut' = cut
        /\ ioError' = ioError
    BY DEF vars, disk, history
  <1>2. TypeOK'
    BY <1>1 DEF Core, TypeOK, Busy
  <1>3. OnDisk' /\ StaleOnlyInCreate' /\ AloneAtUpgrade' /\ TornIsBeingWritten'
    BY <1>1 DEF Core, OnDisk, ManifestNeverAhead, StaleOnlyInCreate, Fresh,
                AloneAtUpgrade, NeedsUpgrade, TornIsBeingWritten, At, Busy
  <1>4. BackupIsPreImage'
    BY <1>1 DEF Core, BackupIsPreImage
  <1>5. \A u \in Thread : OnTrack(u)' /\ (~raced' => Undisturbed(u)')
    BY <1>1 DEF Core, OnTrack, Undisturbed, Genuine, Fresh
  <1> QED
    BY <1>2, <1>3, <1>4, <1>5 DEF Core

-----------------------------------------------------------------------------

LEMMA InitCore ==
    ASSUME Init PROVE Core
  <1>1. /\ backup = NoBackup /\ up = TRUE /\ call = [t \in Thread |-> Idle]
        /\ cache = 0 /\ calls = 0 /\ faults = 0
        /\ raced = FALSE /\ cut = FALSE /\ ioError = FALSE
    BY DEF Init
  <1>2. \A t \in Thread : call[t] = Idle /\ ~Busy(t)
    BY <1>1, IdleIsACall DEF Busy
  <1>3. /\ manifest \in [state: {"none", "torn", "whole"}, version: Version]
        /\ db \in DbFile /\ dir \in BOOLEAN
        /\ recents \in [whole: BOOLEAN, listed: BOOLEAN]
    <2>1. LegacyFile \in 0 .. LegacyFile /\ 0 \in 0 .. LegacyFile
      BY Constants
    <2>2. CASE dir = FALSE /\ manifest = NoManifest /\ db = NoDb
                 /\ recents = [whole |-> TRUE, listed |-> FALSE]
      BY <2>1, <2>2, Constants DEF NoManifest, NoDb, DbFile
    <2>3. ASSUME dir = TRUE, manifest = Manifest(Legacy), NEW tail \in BOOLEAN,
                 db = [file |-> LegacyFile, version |-> Legacy, tables |-> Legacy,
                       main |-> Legacy, tail |-> tail],
                 recents = [whole |-> TRUE, listed |-> TRUE]
          PROVE  /\ manifest \in [state: {"none", "torn", "whole"}, version: Version]
                 /\ db \in DbFile /\ dir \in BOOLEAN
                 /\ recents \in [whole: BOOLEAN, listed: BOOLEAN]
      <3>1. db \in DbFile
        BY <2>1, <2>3, Constants DEF DbFile
      <3>2. manifest \in [state: {"none", "torn", "whole"}, version: Version]
        BY <2>3, Constants DEF Manifest
      <3> QED
        BY <2>3, <3>1, <3>2
    <2> QED
      BY <2>2, <2>3 DEF Init
  <1>4. backup \in [Legacy .. Schema - 1 -> Copy]
    BY <1>1, Constants DEF NoBackup, Copy
  <1>5. /\ call \in [Thread -> Call] /\ cache \in 0 .. LegacyFile
        /\ calls \in 0 .. MaxCalls /\ faults \in 0 .. MaxFaults
    BY <1>1, IdleIsACall, Constants
  <1>6. TypeOK
    BY <1>1, <1>2, <1>3, <1>4, <1>5, IdleIsACall
    DEF TypeOK, Call, DbFile, Copy, Writes
  <1>7. OnDisk
    BY <1>1, Constants
    DEF Init, OnDisk, ManifestNeverAhead, NoManifest, Manifest, NoDb
  <1>8. StaleOnlyInCreate /\ AloneAtUpgrade
    BY <1>1, <1>2 DEF StaleOnlyInCreate, Fresh, AloneAtUpgrade
  <1>9. TornIsBeingWritten
    BY DEF Init, TornIsBeingWritten, NoManifest, Manifest
  <1>10. BackupIsPreImage
    BY Constants DEF Init, BackupIsPreImage, NoDb
  <1>11. \A t \in Thread : OnTrack(t) /\ Undisturbed(t)
    <2> SUFFICES ASSUME NEW t \in Thread PROVE OnTrack(t) /\ Undisturbed(t)
      OBVIOUS
    <2>1. call[t] = Idle
      BY <1>2
    <2> QED
      BY <2>1 DEF OnTrack, Undisturbed, Idle, Seeing, UpToDate, PastPackage, Outdated
  <1> QED
    BY <1>6, <1>7, <1>8, <1>9, <1>10, <1>11 DEF Core

LEMMA StepKeeps ==
    ASSUME Core, NEW t \in Thread, Step(t) PROVE Core'
  <1>1. CASE NoSuchPath(t)
    BY <1>1, Mine, FailKeeps DEF NoSuchPath, Written
  <1>2. CASE Finish(t)
    <2>1. Busy(t) /\ up /\ call[t].pc \in {"query", "end"} /\ Fail(t)
      BY <1>2 DEF Finish, At
    <2> QED
      BY <2>1, FailKeeps DEF Written
  <1> QED
    BY <1>1, <1>2, DirectoriesKeeps, DatabaseKeeps, TemplateKeeps, RollBackKeeps,
       PackageKeeps, AttachKeeps, DetachKeeps, CopyKeeps, AttachAgainKeeps,
       MigrateKeeps, MigratedKeeps, UpgradeKeeps, CloseKeeps, TruncateKeeps,
       WriteKeeps, HitKeeps, MissKeeps, InsertKeeps, InvalidateKeeps, RecordKeeps
    DEF Step

LEMMA NextCore ==
    ASSUME Core, [Next]_vars PROVE Core'
  BY StepKeeps, IoErrorKeeps, StartKeeps, CrashKeeps, BootKeeps, RemoveKeeps,
     StutterKeeps DEF Next

LEMMA CoreAlways == Spec => []Core
  BY InitCore, NextCore, PTL DEF Spec

\* What the inductive invariant says, in the words of the specification.
LEMMA CoreIsEnough ==
    ASSUME Core
    PROVE  /\ PackageInvariant /\ BackupIsPreImage /\ CacheIsCurrent /\ ManifestIsReadWhole
  <1>1. MigrationFindsItsTables
    <2> SUFFICES ASSUME NEW t \in Thread, At(t, "migrate"), ~raced
                 PROVE  db.tables = call[t].seen /\ db.version = call[t].seen
      BY DEF MigrationFindsItsTables
    <2> QED
      BY Mine DEF Undisturbed, Seeing
  <1>2. CacheIsCurrent
    <2> SUFFICES ASSUME cache # 0, manifest.state = "whole",
                        \A t \in Thread : ~Writes(call[t].op)
                 PROVE  cache = db.file
      BY DEF CacheIsCurrent
    <2> QED
      BY DEF Core, StaleOnlyInCreate, Fresh, Writes
  <1>3. ManifestIsReadWhole
    <2> SUFFICES ASSUME NEW t \in Thread, At(t, "package"), manifest.state = "torn",
                        ~cut, ~raced
                 PROVE  FALSE
      BY DEF ManifestIsReadWhole
    <2>1. PICK s \in Thread : At(s, "write")
      BY DEF Core, TornIsBeingWritten
    <2>2. manifest.version = 0
      BY DEF Core, OnDisk
    <2>3. NeedsUpgrade
      BY <2>2, Constants DEF NeedsUpgrade
    <2>4. s = t
      BY <2>1, <2>3 DEF Core, AloneAtUpgrade, At
    <2> QED
      BY <2>1, <2>4 DEF At
  <1> QED
    BY <1>1, <1>2, <1>3 DEF Core, OnDisk, PackageInvariant

\* Types, a manifest that never claims more than the database has, and
\* migrations that find the tables of the version they start from: run_pending
\* with one transaction for each migration, and the manifest written last.
THEOREM PackageIsConsistent == Spec => []PackageInvariant
  BY CoreAlways, CoreIsEnough, PTL

\* Whatever dies or fails, and as long as no two calls raced: once the first
\* migration of an old project is committed, backup_before_migration has left a
\* whole copy of it.
THEOREM BackupBeforeMigration == Spec => []BackupIsPreImage
  BY CoreAlways, CoreIsEnough, PTL

\* Outside of a writing call the connection of engine_status_cache.rs is one to
\* the database that is there: every mutating endpoint invalidates.
THEOREM CachedConnectionIsCurrent == Spec => []CacheIsCurrent
  BY CoreAlways, CoreIsEnough, PTL

\* No call finds a manifest half-written, unless the process died or failed in
\* the middle or two calls raced: the lock around write_manifest.
THEOREM ManifestsAreReadWhole == Spec => []ManifestIsReadWhole
  BY CoreAlways, CoreIsEnough, PTL

=============================================================================
