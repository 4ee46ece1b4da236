--------------------------- MODULE RenderRecovery ---------------------------
(***************************************************************************)
(* The render queue with its SQLite store: crates/aec_render/src/          *)
(* job_store.rs, composed with RenderQueue as its documentation says ("the *)
(* queue calls store.upsert(&job) after every mutation", and at a restart  *)
(* open, reincarnate_running_as_queued, load_queue).                       *)
(*                                                                         *)
(* A mutation of the queue and the upserts it calls for are steps of their *)
(* own, so that the process can die between them; the next mutation waits  *)
(* for them.                                                               *)
(***************************************************************************)
EXTENDS RenderQueue

CONSTANT MaxCrashes     \* bound on the number of crashes; one more may hit a recovery

VARIABLES
    store,      \* on disk: the row of each job; a new job has none
    unsaved,    \* the jobs still to be upserted after the last mutation
    phase,      \* "up", "down", or "opened": rows reincarnated, not loaded
    crashes

storeVars == <<store, unsaved, phase, crashes>>
vars == <<queueVars, storeVars>>

Init ==
    /\ QueueInit
    /\ store = [j \in Job |-> NewJob]
    /\ unsaved = <<>>
    /\ phase = "up"
    /\ crashes = 0

-----------------------------------------------------------------------------
\* A mutation of the queue, and the jobs whose rows it makes stale.
Mutate(Mutation, js) ==
    /\ phase = "up" /\ unsaved = <<>>
    /\ Mutation
    /\ unsaved' = js
    /\ UNCHANGED <<store, phase, crashes>>

WriteRow(j, record) == store' = [store EXCEPT ![j] = record]

Upsert ==
    /\ unsaved # <<>>
    /\ WriteRow(Head(unsaved), job[Head(unsaved)])
    /\ unsaved' = Tail(unsaved)
    /\ UNCHANGED <<queueVars, phase, crashes>>

\* The worker upserts its clone, with the frame marked.
RecordFrame(w) ==
    /\ phase = "up" /\ unsaved = <<>>
    /\ RenderFrame(w)
    /\ WriteRow(worker[w].job, [status |-> "running", frames |-> worker'[w].frame])
    /\ UNCHANGED <<unsaved, phase, crashes>>

-----------------------------------------------------------------------------
\* Memory is gone; so is what was never stored.
Crash ==
    /\ crashes < MaxCrashes \/ (phase # "up" /\ crashes = MaxCrashes)
    /\ crashes' = crashes + 1
    /\ phase' = "down"
    /\ unsaved' = <<>>
    /\ queued' = <<>> /\ running' = {} /\ completed' = {}
    /\ job' = [j \in Job |-> NewJob]
    /\ worker' = [w \in Worker |-> IdleWorker]
    /\ UNCHANGED <<created, store, rendered, resumed>>

\* Mutant: the row starts again from the beginning.
ReincarnateAfresh ==
    /\ phase = "down"
    /\ phase' = "opened"
    /\ store' = [j \in Job |-> IF store[j].status = "running"
                               THEN [status |-> "queued", frames |-> 0] ELSE store[j]]
    /\ UNCHANGED <<queueVars, unsaved, crashes>>

\* Mutant: the rows stay as they are.
ReincarnateNone ==
    /\ phase = "down"
    /\ phase' = "opened"
    /\ UNCHANGED <<queueVars, store, unsaved, crashes>>

\* One transaction.
ReincarnateRunningAsQueued ==
    /\ phase = "down"
    /\ phase' = "opened"
    /\ store' = [j \in Job |-> IF store[j].status = "running"
                               THEN [store[j] EXCEPT !.status = "queued"] ELSE store[j]]
    /\ UNCHANGED <<queueVars, unsaved, crashes>>

\* ORDER BY priority DESC, created_at ASC.
RowBefore(j, k) ==
    \/ Priority[j] > Priority[k]
    \/ /\ Priority[j] = Priority[k]
       /\ \E m, n \in DOMAIN created : created[m] = j /\ created[n] = k /\ m < n

Rows(statuses) == {j \in Job : store[j].status \in statuses}

InRowOrder(S) ==
    CHOOSE q \in SetToSeqs(S) : \A m, n \in DOMAIN q : m < n => RowBefore(q[m], q[n])

LoadQueue ==
    /\ phase = "opened"
    /\ phase' = "up"
    /\ queued' = InRowOrder(Rows({"queued"}))
    /\ running' = Rows({"running"})
    /\ completed' = Rows(Terminal)
    /\ job' = store
    /\ UNCHANGED <<created, worker, rendered, resumed, store, unsaved, crashes>>

-----------------------------------------------------------------------------
Next ==
    \/ \E js \in Submission : Mutate(Submit(js), js)
    \/ \E w \in Worker : \/ queued # <<>> /\ Mutate(Admit(w), <<Head(queued)>>)
                         \/ RecordFrame(w)
                         \/ Mutate(GiveUp(w), <<>>)
    \/ \E w \in Worker, j \in Job :
          Mutate(Complete(w, j), <<j>>) \/ Mutate(Fail(w, j), <<j>>)
    \/ \E j \in Job : \/ Mutate(FailQueued(j), <<j>>)
                      \/ Mutate(Cancel(j), <<j>>)
                      \/ Mutate(Resume(j), <<j>>)
    \/ Upsert \/ Crash \/ ReincarnateRunningAsQueued \/ LoadQueue

Spec == Init /\ [][Next]_vars

-----------------------------------------------------------------------------
(* Types; the partitions; every running job has one worker, and just one;  *)
(* and with no upsert outstanding every row tells the state of its job.    *)
RecoveryOK ==
    /\ QueueOK /\ RunningHasWorker
    /\ store \in [Job -> JobRecord]
    /\ ToSet(unsaved) \subseteq Job
    /\ phase \in {"up", "down", "opened"}
    /\ crashes \in Nat
    /\ phase = "up" =>
         \A j \in Job : ~Contains(unsaved, j) => store[j].status = job[j].status

(* "on a crash or kill -9 we need the queue to come back exactly as it     *)
(* was" (job_store.rs): at any time the waiting jobs, but those that were    *)
(* resumed, are in the order that load_queue would bring them back in.     *)
QueueComesBack ==
    \A m, n \in DOMAIN queued :
        m < n /\ ~Contains(resumed, queued[m]) /\ ~Contains(resumed, queued[n])
            => RowBefore(queued[m], queued[n])

(* Queue and store as a pool of waiting jobs, see JobPool.  While the      *)
(* process is down its jobs are what the recovery will make of them.       *)
Recovered(j) ==
    IF store[j].status = "running" THEN "queued" ELSE store[j].status

Pool == INSTANCE JobPool WITH
    state <- [j \in Job |-> IF phase = "up" THEN job[j].status ELSE Recovered(j)],
    durable <- [j \in Job |-> IF phase = "up" THEN store[j].status ELSE Recovered(j)],
    arrived <- created,
    retried <- ToSet(resumed)

(* Queue and store implement the pool, through crashes: highest priority   *)
(* first and first come first served among equals, also around jobs that   *)
(* were resumed; each job ended once; and a crash costs no more than the   *)
(* last mutation.                                                          *)
ImplementsPool == Pool!PoolSpec

-----------------------------------------------------------------------------
(* The worker pool keeps pulling jobs and rendering them, an upsert that   *)
(* is due is made, and a process that died is started again.               *)
Work(w) ==
    \/ queued # <<>> /\ Mutate(Admit(w), <<Head(queued)>>)
    \/ RecordFrame(w)
    \/ Mutate(GiveUp(w), <<>>)
    \/ \E j \in Job : Mutate(Complete(w, j), <<j>>)

Recover == ReincarnateRunningAsQueued \/ LoadQueue

FairSpec ==
    /\ Spec
    /\ WF_vars(Upsert) /\ WF_vars(Recover)
    /\ \A w \in Worker : WF_vars(Work(w))

(* Every job that was stored ends, however often the process dies: "so the *)
(* worker pool will pick them up again".                                   *)
EveryJobEnds ==
    \A j \in Job : (store[j] # NewJob) ~> (store[j].status \in Terminal)
=============================================================================
