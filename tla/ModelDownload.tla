--------------------------- MODULE ModelDownload ----------------------------
(***************************************************************************)
(* Download of a model file (aec_bridge/src/service.rs run_ai_download and *)
(* run_image_gen_download; aec_ai/src/model_manager.rs download_model,     *)
(* model_download.rs download_to_file): resume a partial file, verify its  *)
(* digest, rename it into place.  Attempts fail, the server misbehaves,    *)
(* the program crashes; what is on disk stays.                             *)
(***************************************************************************)
EXTENDS Integers, Sequences, FiniteSets

CONSTANTS
    Thread,     \* threads of the blocking pool
    File,       \* the model files
    Pinned,     \* those whose descriptor has a digest: all the text tiers
    Absent,     \* no such file
    Nobody,     \* no thread holds the guard
    Size,       \* bound: length of a model, in chunks of a body
    MaxFaults   \* bound: times the server, the disk or the program fails

ASSUME DownloadAssumption ==
    /\ Pinned \subseteq File /\ File # {}
    /\ Nobody \notin Thread
    /\ Absent \notin Seq({"ok", "bad"})
    /\ Size \in Nat \ {0}
    /\ MaxFaults \in Nat

VARIABLES
    final,      \* the file sidecars load
    partial,    \* <filename>.partial
    guard,      \* download_guard of the side of a file
    call,       \* per thread: where its download stands
    progress,   \* per file: the state of the snapshot that was published last
    faults

vars == <<final, partial, guard, call, progress, faults>>
disk == <<final, partial>>

\* What the URL names, and a file the user put in its place.
Whole == [i \in 1 .. Size |-> "ok"]
Foreign == <<"bad">>

Idle(f) == [at |-> "idle", file |-> f, pos |-> 0]
AnyFile == CHOOSE f \in File : TRUE

\* The call of t is past the guard.
Working(t) == call[t].at \notin {"idle", "guard"}

Init ==
    /\ final \in [File -> {Absent, Foreign}]
    /\ partial = [f \in File |-> Absent]
    /\ guard = [f \in File |-> Nobody]
    /\ call = [t \in Thread |-> Idle(AnyFile)]
    /\ progress = [f \in File |-> "none"]
    /\ faults = 0

-----------------------------------------------------------------------------
Goto(t, label) == call' = [call EXCEPT ![t].at = label]
Publish(t, state) == progress' = [progress EXCEPT ![call[t].file] = state]

Fault == faults < MaxFaults /\ faults' = faults + 1

\* The call ends, and its guard is dropped.
End(t) ==
    /\ call' = [call EXCEPT ![t] = Idle(AnyFile)]
    /\ guard' = [guard EXCEPT ![call[t].file] = Nobody]

Fail(t) == End(t) /\ Publish(t, "failed")

\* The digest of a file is the one its descriptor has.
Verified(f, content) == f \in Pinned /\ content = Whole

\* A write at an offset: what is skipped is a hole.  A file that was unlinked
\* while it was open stays unlinked.
WriteAt(content, pos, chunk) ==
    IF content = Absent THEN Absent
    ELSE [i \in 1 .. (IF pos > Len(content) THEN pos ELSE Len(content)) |->
            IF i = pos THEN chunk
            ELSE IF i <= Len(content) THEN content[i] ELSE "hole"]

LengthOf(content) == IF content = Absent THEN 0 ELSE Len(content)

-----------------------------------------------------------------------------
(* ai_download_model, image_gen_download_model.                            *)

Start(t, f) ==
    /\ call[t].at = "idle"
    /\ call' = [call EXCEPT ![t] = [Idle(f) EXCEPT !.at = "guard"]]
    /\ UNCHANGED <<disk, guard, progress, faults>>

\* Mutant: downloads of one file run side by side.
TakeGuardAlways(t) ==
    /\ call[t].at = "guard"
    /\ guard' = [guard EXCEPT ![call[t].file] = t]
    /\ Goto(t, "final")
    /\ UNCHANGED <<disk, progress, faults>>

TakeGuard(t) ==
    /\ call[t].at = "guard" /\ guard[call[t].file] = Nobody
    /\ guard' = [guard EXCEPT ![call[t].file] = t]
    /\ Goto(t, "final")
    /\ UNCHANGED <<disk, progress, faults>>

\* The fast path: on disk and verified.  A pinned file with another digest
\* is about to be removed.
CheckFinal(t) ==
    LET f == call[t].file IN
    /\ call[t].at = "final"
    /\ Goto(t, IF Verified(f, final[f]) THEN "completed"
               ELSE IF f \in Pinned /\ final[f] # Absent THEN "remove"
               ELSE "partial")
    /\ UNCHANGED <<disk, guard, progress, faults>>

RemoveFinal(t) ==
    LET f == call[t].file IN
    /\ call[t].at = "remove"
    /\ final' = [final EXCEPT ![f] = Absent]
    /\ Goto(t, "partial")
    /\ UNCHANGED <<partial, guard, progress, faults>>

\* The directory cannot be made, or the file in the model's place be read or
\* removed: the call ends, and publishes nothing of it.
FastPathFails(t) ==
    /\ call[t].at \in {"final", "remove"}
    /\ Fault
    /\ End(t)
    /\ UNCHANGED <<disk, progress>>

\* The recovery fast path: an earlier attempt got everything and crashed.
CheckPartial(t) ==
    LET f == call[t].file IN
    /\ call[t].at = "partial"
    /\ \/ /\ Verified(f, partial[f])
          /\ Publish(t, "verifying")
          /\ Goto(t, "rename")
       \/ /\ ~Verified(f, partial[f])
          /\ Publish(t, "downloading")
          /\ Goto(t, "request")
    /\ UNCHANGED <<disk, guard, faults>>

-----------------------------------------------------------------------------
(* download_to_file: a request for what is missing.                        *)

\* No connection, or a status that is none of the others: the partial stays.
RequestFails(t) ==
    /\ call[t].at = "request"
    /\ Fault
    /\ Fail(t)
    /\ UNCHANGED disk

\* 206: the body continues the partial.
Resume(t) ==
    LET f == call[t].file IN
    /\ call[t].at = "request"
    /\ LengthOf(partial[f]) \in 1 .. Size - 1
    /\ call' = [call EXCEPT ![t].at = "body", ![t].pos = LengthOf(partial[f])]
    /\ UNCHANGED <<disk, guard, progress, faults>>

\* 200: there was no partial, or the server does not honour the range.
Restart(t) ==
    LET f == call[t].file IN
    /\ call[t].at = "request"
    /\ partial' = [partial EXCEPT ![f] = <<>>]
    /\ call' = [call EXCEPT ![t].at = "body", ![t].pos = 0]
    /\ UNCHANGED <<final, guard, progress, faults>>

\* The partial is as long as the resource: a server that honours ranges
\* answers 416.
TooLong(t) ==
    LET f == call[t].file IN
    /\ call[t].at = "request"
    /\ LengthOf(partial[f]) >= Size

\* Mutant: the partial stays after a 416.
NotSatisfiableKept(t) ==
    /\ TooLong(t)
    /\ Fail(t)
    /\ UNCHANGED <<disk, faults>>

NotSatisfiable(t) ==
    /\ TooLong(t)
    /\ partial' = [partial EXCEPT ![call[t].file] = Absent]
    /\ Fail(t)
    /\ UNCHANGED <<final, faults>>

\* A chunk is read and written; it may be damaged on its way.
Receive(t) ==
    LET f == call[t].file IN
    /\ call[t].at = "body" /\ call[t].pos < Size
    /\ \/ /\ partial' = [partial EXCEPT ![f] = WriteAt(@, call[t].pos + 1, "ok")]
          /\ UNCHANGED faults
       \/ /\ Fault
          /\ partial' = [partial EXCEPT ![f] = WriteAt(@, call[t].pos + 1, "bad")]
    /\ call' = [call EXCEPT ![t].pos = @ + 1]
    /\ UNCHANGED <<final, guard, progress>>

\* The connection breaks, or the disk is full: the partial stays.
BodyFails(t) ==
    /\ call[t].at = "body"
    /\ Fault
    /\ Fail(t)
    /\ UNCHANGED disk

\* The end of the body; of a body that is cut short, as a fault.
EndOfBody(t) ==
    /\ call[t].at = "body"
    /\ \/ call[t].pos = Size /\ UNCHANGED faults
       \/ call[t].pos < Size /\ Fault
    /\ Publish(t, "verifying")
    /\ Goto(t, "verify")
    /\ UNCHANGED <<disk, guard>>

-----------------------------------------------------------------------------
(* Verify and rename.                                                      *)

\* Mutant: a body that ended is a body that is whole.
VerifyNothing(t) ==
    /\ call[t].at = "verify"
    /\ Goto(t, "rename")
    /\ UNCHANGED <<disk, guard, progress, faults>>

\* A descriptor without a digest is taken at its word.
Verify(t) ==
    LET f == call[t].file IN
    /\ call[t].at = "verify"
    /\ \/ /\ partial[f] # Absent
          /\ f \notin Pinned \/ partial[f] = Whole
          /\ Goto(t, "rename")
          /\ UNCHANGED <<partial, guard, progress>>
       \/ /\ partial[f] = Absent \/ (f \in Pinned /\ partial[f] # Whole)
          /\ partial' = [partial EXCEPT ![f] = Absent]
          /\ Fail(t)
    /\ UNCHANGED <<final, faults>>

\* Mutant: completed is published before the rename.
RenameAnnounced(t) ==
    LET f == call[t].file IN
    /\ call[t].at = "rename"
    /\ IF progress[f] = "completed"
       THEN /\ final' = [final EXCEPT ![f] = partial[f]]
            /\ partial' = [partial EXCEPT ![f] = Absent]
            /\ Goto(t, "completed")
            /\ UNCHANGED progress
       ELSE Publish(t, "completed") /\ UNCHANGED <<disk, call>>
    /\ UNCHANGED <<guard, faults>>

Rename(t) ==
    LET f == call[t].file IN
    /\ call[t].at = "rename"
    /\ \/ /\ partial[f] # Absent
          /\ final' = [final EXCEPT ![f] = partial[f]]
          /\ partial' = [partial EXCEPT ![f] = Absent]
          /\ Goto(t, "completed")
          /\ UNCHANGED <<guard, progress, faults>>
       \/ /\ Fault
          /\ Fail(t)
          /\ UNCHANGED disk

Complete(t) ==
    /\ call[t].at = "completed"
    /\ Publish(t, "completed")
    /\ End(t)
    /\ UNCHANGED <<disk, faults>>

\* The program ends and starts again.
Crash ==
    /\ Fault
    /\ call' = [t \in Thread |-> Idle(AnyFile)]
    /\ guard' = [f \in File |-> Nobody]
    /\ progress' = [f \in File |-> "none"]
    /\ UNCHANGED disk

-----------------------------------------------------------------------------
Step(t) ==
    \/ TakeGuard(t) \/ CheckFinal(t) \/ RemoveFinal(t) \/ FastPathFails(t)
    \/ CheckPartial(t)
    \/ Resume(t) \/ Restart(t) \/ NotSatisfiable(t) \/ RequestFails(t)
    \/ Receive(t) \/ BodyFails(t) \/ EndOfBody(t)
    \/ Verify(t) \/ Rename(t) \/ Complete(t)

Next == (\E t \in Thread : Step(t) \/ \E f \in File : Start(t, f)) \/ Crash

Spec == Init /\ [][Next]_vars

\* What is not a fault.  The failing disjuncts of these actions end with the
\* faults.
WellServed(t) ==
    \/ TakeGuard(t) \/ CheckFinal(t) \/ RemoveFinal(t) \/ CheckPartial(t)
    \/ Resume(t) \/ Restart(t) \/ NotSatisfiable(t)
    \/ Receive(t) \/ EndOfBody(t) \/ Verify(t) \/ Rename(t) \/ Complete(t)

\* Threads are scheduled and requests time out, so a call goes on; the user
\* tries again whenever a thread is there to do so.
FairSpec ==
    /\ Spec
    /\ \A t \in Thread : WF_vars(WellServed(t))
    /\ \A f \in File : SF_vars(\E t \in Thread : Start(t, f))

-----------------------------------------------------------------------------
(* The types of the variables; a file on disk has no holes, and a partial  *)
(* is never longer than what the URL names.                                *)
Content == {Absent} \cup {c \in Seq({"ok", "bad"}) : Len(c) <= Size}

Labels == {"idle", "guard", "final", "remove", "partial", "request", "body",
           "verify", "rename", "completed"}

TypeOK ==
    /\ {final, partial} \subseteq [File -> Content]
    /\ guard \in [File -> Thread \cup {Nobody}]
    /\ call \in [Thread -> [at: Labels, file: File, pos: 0 .. Size]]
    /\ progress \in [File -> {"none", "downloading", "verifying", "failed",
                              "completed"}]
    /\ faults \in Nat

(* What a download puts in the place of a pinned model is the model: every *)
(* damaged chunk, cut body and crash is caught before the rename, however  *)
(* many calls work on the file.                                            *)
InstalledIsVerified == \A f \in Pinned : final[f] \in {Absent, Foreign, Whole}

(* What the settings page polls is true: "completed" when the model is on  *)
(* disk, "downloading" and "verifying" only while a call is at work.       *)
ProgressIsTrue ==
    \A f \in File :
        /\ progress[f] = "completed" /\ f \in Pinned => final[f] = Whole
        /\ progress[f] \in {"downloading", "verifying"} =>
             \E t \in Thread : call[t].file = f /\ Working(t)

\* A call at work holds the guard of its file.
GuardHeld(t) == Working(t) => guard[call[t].file] = t

\* What a call at work has found or made of its file is still so; what it finds
\* published is of a call that has ended.
OnTrack(t) ==
    LET f == call[t].file IN
    /\ call[t].at \in {"final", "remove", "partial"}
         => progress[f] \notin {"downloading", "verifying"}
    /\ call[t].at = "remove" => f \in Pinned /\ final[f] # Whole
    /\ call[t].at = "body" => partial[f] # Absent /\ Len(partial[f]) = call[t].pos
    /\ call[t].at = "rename" /\ f \in Pinned => partial[f] = Whole
    /\ call[t].at = "completed" /\ f \in Pinned => final[f] = Whole

(* Types, the published progress, and what a call knows of the files while *)
(* others download too: it stays true from the check to its use.           *)
DownloadInvariant ==
    /\ TypeOK
    /\ ProgressIsTrue
    /\ \A t \in Thread : GuardHeld(t) /\ OnTrack(t)

(* A model that was installed is never taken away by another download.     *)
NeverUninstalled ==
    [][\A f \in Pinned : final[f] = Whole => final'[f] = Whole]_vars

(* Whatever the faults left on disk, retries install the model in the end  *)
(* (model_manager.rs: no "permanent stuck state" of a partial that is      *)
(* complete, too long or damaged).                                         *)
RetriesInstall == \A f \in Pinned : <>(final[f] = Whole)
=============================================================================
