---------------------------- MODULE AiDiffReview ----------------------------
(***************************************************************************)
(* Accepting and rejecting AI proposals: ai_accept_diff and ai_reject_diff *)
(* of crates/aec_bridge/src/service.rs, the registry of pending proposals  *)
(* (ai_state.rs) and the AI audit log they append to                       *)
(* (crates/aec_ai/src/audit.rs).                                           *)
(*                                                                         *)
(* Every bridge call runs on a thread of the blocking pool.  An accept     *)
(* holds the write lock of the bridge's RwLock from start to end; plans    *)
(* and rejects hold the read lock, so that rejects interleave with each    *)
(* other.  A step of the model is one access to the registry, the project  *)
(* database or a file.                                                     *)
(***************************************************************************)
EXTENDS AuditChain

CONSTANTS
    Thread,     \* threads of the blocking pool
    Diff,       \* proposals; each is planned once (DiffId is fresh)
    NoDiff,
    Fault,      \* which I/O may fail: {"open", "line", "newline", "record"}
    MaxCalls,   \* bound on the number of accept and reject calls
    MaxCrashes  \* bound on the number of crashes

VARIABLES
    pending,    \* AiState.pending_diffs
    applied,    \* on disk: how often the operations of a proposal were committed
    log,        \* on disk: audit/ai_audit.jsonl
    records,    \* on disk: audit/ai_audit_records.jsonl, whole lines
    call,       \* the call each thread is in
    planned,    \* the proposals there have been
    answer,     \* history: what a call that returned Ok said of a proposal
    calls,      \* how many calls were started
    crashes

disk == <<applied, log, records>>
vars == <<pending, disk, call, planned, answer, calls, crashes>>

Verdict == {"accepted", "rejected"}

AuditEntry == [hash: Nat \ {0}, prev: Nat, diff: Diff, status: Verdict]
AuditRecord == [diff: Diff, status: Verdict]

ASSUME ReviewAssumption ==
    /\ NoDiff \notin Diff
    /\ EOL # Torn /\ EOL \notin AuditEntry /\ Torn \notin AuditEntry
    /\ Fault \subseteq {"open", "line", "newline", "record"}

\* `verdict` is what the call is about to record, `head` AuditLog.head.
Idle == [at |-> "idle", diff |-> NoDiff, verdict |-> "rejected", head |-> Genesis]

Holds(t, verdict) == call[t].at # "idle" /\ call[t].verdict = verdict

NoWriter == \A t \in Thread : ~Holds(t, "accepted")
NoReader == \A t \in Thread : ~Holds(t, "rejected")

Init ==
    /\ pending = {}
    /\ applied = [d \in Diff |-> 0]
    /\ log = <<>> /\ records = <<>>
    /\ call = [t \in Thread |-> Idle]
    /\ planned = {}
    /\ answer = [d \in Diff |-> "none"]
    /\ calls = 0 /\ crashes = 0

-----------------------------------------------------------------------------
Goto(t, label) == call' = [call EXCEPT ![t].at = label]
Return(t) == call' = [call EXCEPT ![t] = Idle]

\* ai_plan: the new proposal enters the registry.
Plan(d) ==
    /\ NoWriter
    /\ d \notin planned
    /\ planned' = planned \cup {d}
    /\ pending' = pending \cup {d}
    /\ UNCHANGED <<disk, call, answer, calls, crashes>>

\* peek_diff; a proposal that is not there is refused and changes nothing.
Start(t, d, verdict, label) ==
    /\ call[t] = Idle
    /\ calls < MaxCalls
    /\ d \in pending
    /\ calls' = calls + 1
    /\ call' = [call EXCEPT ![t] = [Idle EXCEPT !.at = label, !.diff = d,
                                                !.verdict = verdict]]
    /\ UNCHANGED <<pending, disk, planned, answer, crashes>>

\* Mutant: an accept under the read lock.
StartAcceptAsReader(t, d) == NoWriter /\ Start(t, d, "accepted", "commit")

StartAccept(t, d) ==
    /\ NoWriter /\ NoReader
    /\ Start(t, d, "accepted", "commit")

\* Mutant: finalize first, audit afterwards, as an accept does.
StartRejectFinalized(t, d) ==
    /\ NoWriter
    /\ call[t] = Idle /\ calls < MaxCalls /\ d \in pending
    /\ calls' = calls + 1
    /\ pending' = pending \ {d}
    /\ answer' = [answer EXCEPT ![d] = "rejected"]
    /\ call' = [call EXCEPT ![t] = [Idle EXCEPT !.at = "open", !.diff = d]]
    /\ UNCHANGED <<disk, planned, crashes>>

StartReject(t, d) ==
    /\ NoWriter
    /\ Start(t, d, "rejected", "open")

-----------------------------------------------------------------------------
(* Phases 1 to 3 of an accept.                                             *)

\* The batch commits, or the project, the conversion or the transaction
\* fails and the proposal stays.
Commit(t) ==
    /\ call[t].at = "commit"
    /\ \/ /\ applied' = [applied EXCEPT ![call[t].diff] = @ + 1]
          /\ Goto(t, "finalizeAccept")
       \/ UNCHANGED applied /\ Return(t)
    /\ UNCHANGED <<pending, log, records, planned, answer, calls, crashes>>

\* Mutant: the proposal is left in the registry.
FinalizeAcceptLater(t) ==
    /\ call[t].at = "finalizeAccept"
    /\ Goto(t, "open")
    /\ UNCHANGED <<pending, disk, planned, answer, calls, crashes>>

FinalizeAccept(t) ==
    /\ call[t].at = "finalizeAccept"
    /\ IF call[t].diff \in pending
       THEN pending' = pending \ {call[t].diff} /\ Goto(t, "open")
       ELSE UNCHANGED pending /\ Return(t)
    /\ UNCHANGED <<disk, planned, answer, calls, crashes>>

-----------------------------------------------------------------------------
(* ai_audit_append_at_root: a new AiAuditLogger for every append.          *)

Fails(t, fault) ==
    /\ fault \in Fault
    /\ Return(t)
    /\ UNCHANGED <<pending, disk, planned, answer, calls, crashes>>

\* Mutant: the chain starts again with every logger.
OpenLogAtGenesis(t) ==
    /\ call[t].at = "open"
    /\ call' = [call EXCEPT ![t].at = "line", ![t].head = Genesis]
    /\ UNCHANGED <<pending, disk, planned, answer, calls, crashes>>

\* AuditLog::open replays the file, or refuses it.
OpenLog(t) ==
    /\ call[t].at = "open"
    /\ \/ /\ Opens(log)
          /\ \E head \in Heads(log) :
                call' = [call EXCEPT ![t].at = "line", ![t].head = head]
          /\ UNCHANGED <<pending, disk, planned, answer, calls, crashes>>
       \/ /\ ~Opens(log)
          /\ Return(t)
          /\ UNCHANGED <<pending, disk, planned, answer, calls, crashes>>
       \/ Fails(t, "open")

\* The hash of the next entry that any thread writes: where it will be.
FreshHash == Len(log) + 1

WriteLine(t) ==
    /\ call[t].at = "line"
    /\ \/ /\ log' = Append(log, [hash |-> FreshHash, prev |-> call[t].head,
                                 diff |-> call[t].diff,
                                 status |-> call[t].verdict])
          /\ Goto(t, "newline")
       \/ /\ "line" \in Fault
          /\ log' = Append(log, Torn)
          /\ Return(t)
    /\ UNCHANGED <<pending, applied, records, planned, answer, calls, crashes>>

WriteNewline(t) ==
    /\ call[t].at = "newline"
    /\ \/ /\ log' = Append(log, EOL)
          /\ Goto(t, "record")
          /\ UNCHANGED <<pending, applied, records, planned, answer, calls, crashes>>
       \/ Fails(t, "newline")

WriteRecord(t) ==
    /\ call[t].at = "record"
    /\ \/ /\ records' = Append(records, [diff |-> call[t].diff,
                                         status |-> call[t].verdict])
          /\ IF call[t].verdict = "accepted"
             THEN /\ answer' = [answer EXCEPT ![call[t].diff] = "accepted"]
                  /\ Return(t)
             ELSE Goto(t, "finalizeReject") /\ UNCHANGED answer
          /\ UNCHANGED <<pending, applied, log, planned, calls, crashes>>
       \/ Fails(t, "record")

-----------------------------------------------------------------------------
\* The last step of a reject.
FinalizeReject(t) ==
    /\ call[t].at = "finalizeReject"
    /\ IF call[t].diff \in pending
       THEN /\ pending' = pending \ {call[t].diff}
            /\ answer' = [answer EXCEPT ![call[t].diff] = "rejected"]
       ELSE UNCHANGED <<pending, answer>>
    /\ Return(t)
    /\ UNCHANGED <<disk, planned, calls, crashes>>

Crash ==
    /\ crashes < MaxCrashes
    /\ crashes' = crashes + 1
    /\ pending' = {}
    /\ call' = [t \in Thread |-> Idle]
    /\ UNCHANGED <<disk, planned, answer, calls>>

-----------------------------------------------------------------------------
Step(t) ==
    \/ \E d \in Diff : StartAccept(t, d) \/ StartReject(t, d)
    \/ Commit(t) \/ FinalizeAccept(t)
    \/ OpenLog(t) \/ WriteLine(t) \/ WriteNewline(t) \/ WriteRecord(t)
    \/ FinalizeReject(t)

Next ==
    \/ \E d \in Diff : Plan(d)
    \/ \E t \in Thread : Step(t)
    \/ Crash

Spec == Init /\ [][Next]_vars

-----------------------------------------------------------------------------
(* The types of the variables.                                             *)
Labels == {"idle", "commit", "finalizeAccept", "open", "line", "newline",
           "record", "finalizeReject"}

TypeOK ==
    /\ pending \subseteq planned /\ planned \subseteq Diff
    /\ applied \in [Diff -> Nat]
    /\ log \in Seq(AuditEntry \cup {EOL, Torn})
    /\ records \in Seq(AuditRecord)
    /\ call \in [Thread -> [at: Labels, diff: Diff \cup {NoDiff},
                            verdict: Verdict, head: Nat]]
    /\ answer \in [Diff -> Verdict \cup {"none"}]
    /\ calls \in Nat /\ crashes \in Nat

(* The operations of a proposal are committed at most once, whatever fails *)
(* after the commit and however often the accept is retried                *)
(* (ai_accept_diff: "a second successful commit would silently double      *)
(* every inserted entity").                                                *)
AppliedAtMostOnce == \A d \in Diff : applied[d] <= 1

(* A proposal whose rejection was confirmed is not in the project, and one *)
(* whose acceptance was confirmed is: whatever other threads do to it.     *)
AnswersAreTrue ==
    \A d \in Diff :
        /\ answer[d] = "rejected" => applied[d] = 0
        /\ answer[d] = "accepted" => applied[d] = 1

\* The log has an entry for this proposal.
Logged(d, verdict) ==
    \E i \in DOMAIN log :
        IsEntry(log[i]) /\ log[i].diff = d /\ log[i].status = verdict

\* So has the companion file.
Recorded(d, verdict) ==
    \E i \in DOMAIN records : records[i] = [diff |-> d, status |-> verdict]

(* A rejection that was confirmed is in both audit files (ai_reject_diff:  *)
(* "loud duplicate" beats "silent gap").                                   *)
RejectionRecorded ==
    \A d \in Diff : answer[d] = "rejected" =>
        Logged(d, "rejected") /\ Recorded(d, "rejected")

(* The inductive invariant that AppliedAtMostOnce, AnswersAreTrue and      *)
(* RejectionRecorded rest on: an accept is alone, what a call has done     *)
(* follows from where it is, and a pending proposal was not applied unless *)
(* the accept that did so is about to take it out.                         *)
LockExcludes ==
    \A t, u \in Thread : Holds(t, "accepted") /\ call[u].at # "idle" => t = u

OnTrack(t) ==
    LET c == call[t] IN
    /\ c.at # "idle" => c.diff \in planned
    /\ c.at \in {"commit", "finalizeAccept"} =>
         c.verdict = "accepted" /\ c.diff \in pending
    /\ c.at = "commit" => applied[c.diff] = 0
    /\ c.at = "finalizeAccept" => applied[c.diff] = 1
    /\ c.at \in {"open", "line", "newline", "record"} /\ c.verdict = "accepted" =>
         applied[c.diff] = 1
    /\ c.at \in {"newline", "record"} => Logged(c.diff, c.verdict)
    /\ c.at = "finalizeReject" =>
         /\ c.verdict = "rejected"
         /\ Logged(c.diff, "rejected") /\ Recorded(c.diff, "rejected")

CallsOnTrack == \A t \in Thread : OnTrack(t)

PendingNotApplied ==
    \A d \in Diff :
        /\ d \notin planned => applied[d] = 0
        /\ d \in pending /\ applied[d] > 0 =>
             \E t \in Thread : call[t].at = "finalizeAccept" /\ call[t].diff = d
        /\ answer[d] # "none" => d \in planned \ pending

ReviewInvariant ==
    /\ TypeOK
    /\ LockExcludes /\ CallsOnTrack /\ PendingNotApplied
    /\ AppliedAtMostOnce /\ AnswersAreTrue /\ RejectionRecorded

(* The AI audit log can be opened, hence appended to, at any time.         *)
LogOpens == Opens(log)

AllIdle == \A t \in Thread : call[t] = Idle

(* The companion file tells the same events as the chain, in the same      *)
(* order (aec_ai/src/audit.rs, "One full AiAuditRecord per event").        *)
RecordsMatchChain ==
    AllIdle =>
        LET es == Entries(log) IN
        records = [i \in 1 .. Len(es) |->
                      [diff |-> es[i].diff, status |-> es[i].status]]

-----------------------------------------------------------------------------
(* The refinement: a proposal is accepted from the commit on, rejected     *)
(* when it leaves the registry for that reason.                            *)
StatusOf(d) ==
    CASE applied[d] > 0 -> "accepted"
      [] applied[d] = 0 /\ answer[d] = "rejected" -> "rejected"
      [] applied[d] = 0 /\ answer[d] # "rejected" /\ d \in pending -> "pending"
      [] applied[d] = 0 /\ answer[d] # "rejected" /\ d \in planned \ pending -> "lost"
      [] OTHER -> "unknown"

Lifecycle == INSTANCE DiffLifecycle WITH
    status <- [d \in Diff |-> StatusOf(d)]

(* The review of proposals implements their lifecycle: one decision each,  *)
(* never taken back.                                                       *)
ImplementsLifecycle == Lifecycle!LifecycleSpec
=============================================================================
