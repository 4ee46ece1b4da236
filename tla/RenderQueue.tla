----------------------------- MODULE RenderQueue -----------------------------
(***************************************************************************)
(* The render queue: crates/aec_render/src/queue.rs and job.rs, and the    *)
(* render calls of the bridge that reach it (crates/aec_bridge/src/        *)
(* service.rs).  The queue lives behind one mutex, so that each method is  *)
(* one step.                                                               *)
(*                                                                         *)
(* The workers are the "render driver" of the queue's documentation: one   *)
(* takes a clone of a job with admit, renders it frame by frame, and       *)
(* completes or fails it.  Between its frames it looks whether the job was *)
(* cancelled.                                                              *)
(***************************************************************************)
EXTENDS Integers, SequencesExt

CONSTANTS
    Job,        \* job ids
    NoJob,
    Worker,
    Priority,   \* of each job; higher is sooner
    Submission, \* the sequences of jobs that arrive together; a job alone is one
    FrameCount, \* frames of a walkthrough
    MaxResumes  \* bound on the number of resumes

VARIABLES
    queued,     \* the waiting jobs, in their order
    running, completed, \* the other partitions, whose order nothing depends on
    job,        \* what the partitions hold: RenderJob.status, completed_frames
    created,    \* all jobs there ever were, in the order of created_at
    worker,     \* each worker's clone: its job and the next frame to render
    rendered,   \* on disk: how many frames of each job there are
    resumed     \* history: the jobs that were resumed, one after the other

queue == <<queued, running, completed, job>>
queueVars == <<queue, created, worker, rendered, resumed>>

Terminal == {"completed", "failed", "cancelled"}
Status == {"new", "queued", "running"} \cup Terminal

\* A job that was never submitted, or that nobody remembers, is "new".
JobRecord == [status: Status, frames: 0 .. FrameCount]
NewJob == [status |-> "new", frames |-> 0]

ASSUME QueueAssumption ==
    /\ NoJob \notin Job
    /\ Priority \in [Job -> Int]
    /\ FrameCount \in Nat
    /\ \A js \in Submission : js \in Seq(Job) /\ IsInjective(js)

IdleWorker == [job |-> NoJob, frame |-> 0]

QueueInit ==
    /\ queued = <<>> /\ running = {} /\ completed = {}
    /\ job = [j \in Job |-> NewJob]
    /\ created = <<>>
    /\ worker = [w \in Worker |-> IdleWorker]
    /\ rendered = [j \in Job |-> 0]
    /\ resumed = <<>>

-----------------------------------------------------------------------------
\* Mutant: plain first-in first-out.
PlaceLast(q, j) == Append(q, j)

\* Mutant: in front of the jobs of the same priority.
PlaceFirstAmongEquals(q, j) ==
    LET above == SelectSeq(q, LAMBDA k : Priority[k] > Priority[j])
    IN  InsertAt(q, Len(above) + 1, j)

\* In front of the first job with a lower priority.
Place(q, j) ==
    LET lower == {i \in DOMAIN q : Priority[q[i]] < Priority[j]}
        pos == IF lower = {} THEN Len(q) + 1
               ELSE CHOOSE i \in lower : \A k \in lower : i <= k
    IN  InsertAt(q, pos, j)

\* One job of a batch after the other.
PlaceAll(q, js) ==
    LET after[i \in 0 .. Len(js)] == IF i = 0 THEN q ELSE Place(after[i - 1], js[i])
    IN  after[Len(js)]

\* Every job of a batch is placed by its own, under one lock.
Submit(js) ==
    /\ \A i \in DOMAIN js : ~Contains(created, js[i])
    /\ queued' = PlaceAll(queued, js)
    /\ job' = [j \in Job |-> IF Contains(js, j)
                             THEN [status |-> "queued", frames |-> 0] ELSE job[j]]
    /\ created' = created \o js
    /\ UNCHANGED <<running, completed, worker, rendered, resumed>>

\* Mutant: a clone of the head, which stays where it is.
AdmitClone(w) ==
    /\ worker[w].job = NoJob
    /\ queued # <<>>
    /\ LET j == Head(queued) IN
         /\ running' = running \cup {j}
         /\ job' = [job EXCEPT ![j].status = "running"]
         /\ worker' = [worker EXCEPT ![w] = [job |-> j, frame |-> job[j].frames]]
    /\ UNCHANGED <<queued, completed, created, rendered, resumed>>

Admit(w) ==
    /\ worker[w].job = NoJob
    /\ queued # <<>>
    /\ LET j == Head(queued) IN
         /\ queued' = Tail(queued)
         /\ running' = running \cup {j}
         /\ job' = [job EXCEPT ![j].status = "running"]
         /\ worker' = [worker EXCEPT ![w] = [job |-> j, frame |-> job[j].frames]]
    /\ UNCHANGED <<completed, created, rendered, resumed>>

-----------------------------------------------------------------------------
\* The job moves from where it is to `completed`.
Finish(j, status) ==
    /\ queued' = RemoveFirst(queued, j)
    /\ running' = running \ {j}
    /\ completed' = completed \cup {j}
    /\ job' = [job EXCEPT ![j].status = status]
    /\ UNCHANGED <<created, rendered, resumed>>

Release(w) == worker' = [worker EXCEPT ![w] = IdleWorker]

\* The worker is at a job that is still running.
Rendering(w, j) == worker[w].job = j /\ j \in running

RenderFrame(w) ==
    /\ \E j \in Job : Rendering(w, j)
    /\ worker[w].frame < FrameCount
    /\ worker' = [worker EXCEPT ![w].frame = @ + 1]
    /\ rendered' = [rendered EXCEPT ![worker[w].job] = worker'[w].frame]
    /\ UNCHANGED <<queue, created, resumed>>

\* complete, and fail by the worker that has the job.
Complete(w, j) ==
    /\ Rendering(w, j)
    /\ worker[w].frame = FrameCount
    /\ Finish(j, "completed")
    /\ Release(w)

Fail(w, j) ==
    /\ Rendering(w, j)
    /\ Finish(j, "failed")
    /\ Release(w)

\* The job is not there any more: complete and fail answer UnknownJob.
GiveUp(w) ==
    /\ worker[w].job # NoJob
    /\ worker[w].job \notin running
    /\ Release(w)
    /\ UNCHANGED <<queue, created, rendered, resumed>>

\* fail of a job that nobody has admitted.
FailQueued(j) ==
    /\ Contains(queued, j)
    /\ Finish(j, "failed")
    /\ UNCHANGED worker

\* render_cancel_job; a job that has ended is left alone.
Cancel(j) ==
    /\ Contains(queued, j) \/ j \in running
    /\ Finish(j, "cancelled")
    /\ UNCHANGED worker

Resume(j) ==
    /\ job[j].status = "failed"
    /\ Len(resumed) < MaxResumes
    /\ resumed' = Append(resumed, j)
    /\ completed' = completed \ {j}
    /\ queued' = Append(queued, j)
    /\ job' = [job EXCEPT ![j].status = "queued"]
    /\ UNCHANGED <<running, created, worker, rendered>>

-----------------------------------------------------------------------------
QueueNext ==
    \/ \E js \in Submission : Submit(js)
    \/ \E w \in Worker : Admit(w) \/ RenderFrame(w) \/ GiveUp(w)
    \/ \E w \in Worker, j \in Job : Complete(w, j) \/ Fail(w, j)
    \/ \E j \in Job : FailQueued(j) \/ Cancel(j) \/ Resume(j)

QueueSpec == QueueInit /\ [][QueueNext]_queueVars

-----------------------------------------------------------------------------
With(statuses) == {j \in Job : job[j].status \in statuses}

(* Types; and every job is in the one partition that its status names      *)
(* (restore_bulk_from_storage: "leave the worker pool acting on two        *)
(* distinct in-memory entries for one logical job").                       *)
QueueOK ==
    /\ job \in [Job -> JobRecord]
    /\ worker \in [Worker -> [job: Job \cup {NoJob}, frame: 0 .. FrameCount]]
    /\ rendered \in [Job -> 0 .. FrameCount]
    /\ resumed \in Seq(Job)
    /\ IsInjective(queued) /\ ToSet(queued) = With({"queued"})
    /\ running = With({"running"})
    /\ completed = With(Terminal)
    /\ IsInjective(created)
    /\ \A j \in Job : job[j].status # "new" => Contains(created, j)

(* Every running job has a worker, and just one: none is stranded, none is *)
(* rendered twice at a time.                                               *)
RunningHasWorker ==
    \A j \in running :
        \E w \in Worker : \A v \in Worker : worker[v].job = j <=> v = w

(* "no frame is re-rendered" (job_store.rs): the worker of a job that was *)
(* never resumed is not at a frame that was rendered before, whether or    *)
(* not the job came back from a crash.                                     *)
NoFrameTwice ==
    \A w \in Worker, j \in Job \ ToSet(resumed) :
        Rendering(w, j) => worker[w].frame = rendered[j]
=============================================================================
