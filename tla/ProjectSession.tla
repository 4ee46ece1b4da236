--------------------------- MODULE ProjectSession ---------------------------
(***************************************************************************)
(* The life of the active project between the renderer and the main        *)
(* process: apps/desktop/renderer/src/hooks/useActiveProject.tsx, the      *)
(* undo and redo of App.tsx, and the project handlers of                   *)
(* apps/desktop/electron/ipc.ts with active-project.ts.                    *)
(*                                                                         *)
(* The renderer runs one callback at a time and never waits: what follows  *)
(* an await runs when the answer is delivered, on whatever state there is  *)
(* then.  The bridge finishes calls in any order; what main sends reaches  *)
(* the renderer in the order it was sent.  The delay of the auto-save      *)
(* timer is left out: an armed timer fires at some point.                  *)
(***************************************************************************)
EXTENDS Integers, SequencesExt

CONSTANTS
    Path,       \* projects on disk
    NoPath,     \* no project is open
    Call,       \* calls in flight at a time
    NoCall,
    MaxRequests \* bound on what the user asks for

ASSUME SessionAssumption ==
    /\ NoPath \notin Path /\ NoCall \notin Call
    /\ MaxRequests \in Nat

VARIABLES
    project, dirty, \* projectPathRef, dirtyRef
    timer,      \* autoSaveTimerRef is set
    slot,       \* savingPromiseRef: the save that later ones join; also "saving"
    active,     \* activeProjectPath of the main process
    call,       \* the calls the renderer awaits
    finished,   \* what the bridge has done and main has not answered, in order
    channel,    \* from main to the renderer
    requests,   \* bound: what the user asked for
    unsaved,    \* history: undone or redone since the project was saved or opened
    chosen,     \* history: the last project that main opened or closed for the user
    overtaken,  \* history: a call was answered before one that finished earlier
    gaps        \* history: how the auto-save may have lost a change, see below

renderer == <<project, dirty, timer, slot>>
vars == <<renderer, active, call, finished, channel, requests, unsaved, chosen,
          overtaken, gaps>>

\* "auto": a timer's callback awaits the save, and will try again.
Idle == [kind |-> "none", path |-> NoPath, auto |-> FALSE, done |-> FALSE]
CallRecord == [kind: {"none", "open", "close", "save", "undo"},
               path: Path \cup {NoPath}, auto: BOOLEAN, done: BOOLEAN]
Answer == [to: Call, ok: BOOLEAN]
Message == [to: Call, ok: BOOLEAN] \cup [push: Path \cup {NoPath}]

IsPush(m) == "push" \in DOMAIN m
InFlight(c) == call[c].kind # "none"
Moving == \E c \in Call : call[c].kind \in {"open", "close"}
FreeCall == CHOOSE c \in Call : ~InFlight(c)
HasFreeCall == \E c \in Call : ~InFlight(c)

\* A reload of the window finds the main process with or without a project.
Init ==
    /\ project = NoPath /\ dirty = FALSE /\ timer = FALSE /\ slot = NoCall
    /\ active \in Path \cup {NoPath}
    /\ call = [c \in Call |-> Idle]
    /\ finished = <<>>
    /\ channel = <<[push |-> active]>>
    /\ requests = 0
    /\ unsaved = [p \in Path |-> FALSE]
    /\ chosen = active
    /\ overtaken = FALSE /\ gaps = {}

-----------------------------------------------------------------------------
(* What the user does. *)

Sent(kind, p, auto) ==
    [kind |-> kind, path |-> p, auto |-> auto, done |-> FALSE]

\* The user asks for something: one request less, and a call for it.
Ask(kind, p) ==
    /\ requests < MaxRequests /\ HasFreeCall
    /\ requests' = requests + 1
    /\ call' = [call EXCEPT ![FreeCall] = Sent(kind, p, FALSE)]

\* Mutant: the save in flight goes on collecting those of the next project.
LeaveKeepingSlot == timer' = FALSE /\ slot' = slot

\* Open, create and close: the timer is cancelled and the slot cleared first.
Leave == timer' = FALSE /\ slot' = NoCall

\* createProject differs in the call that is made, not in what is done with it.
OpenProject(p) ==
    /\ Ask("open", p)
    /\ Leave
    /\ UNCHANGED <<project, dirty, active, finished, channel, unsaved, chosen,
                   overtaken, gaps>>

\* The main process needs no bridge call to close: it answers at once.
CloseProject ==
    /\ project # NoPath
    /\ Ask("close", NoPath)
    /\ Leave
    /\ active' = NoPath /\ chosen' = NoPath
    /\ channel' = channel \o <<[push |-> NoPath], [to |-> FreeCall, ok |-> TRUE]>>
    /\ UNCHANGED <<project, dirty, finished, unsaved, overtaken, gaps>>

\* A save that is started while a transition is under way may outlive it.
Midway == IF Moving THEN {"midway"} ELSE {}

\* With a save in flight the user only awaits that one: nothing changes.
SaveProject ==
    /\ project # NoPath /\ slot = NoCall
    /\ Ask("save", project)
    /\ timer' = FALSE /\ slot' = FreeCall
    /\ gaps' = Midway
    /\ UNCHANGED <<project, dirty, active, finished, channel, unsaved, chosen,
                   overtaken>>

UndoRedo ==
    /\ project # NoPath
    /\ Ask("undo", project)
    /\ UNCHANGED <<renderer, active, finished, channel, unsaved, chosen,
                   overtaken, gaps>>

\* The timer's callback: saveProject, whose failure it will hear of.
TimerFires ==
    /\ timer /\ timer' = FALSE
    /\ \/ /\ project = NoPath
          /\ UNCHANGED <<slot, call, gaps>>
       \/ /\ project # NoPath /\ slot # NoCall
          /\ call' = [call EXCEPT ![slot].auto = TRUE]
          /\ UNCHANGED <<slot, gaps>>
       \/ /\ project # NoPath /\ slot = NoCall
          /\ HasFreeCall
          /\ slot' = FreeCall
          /\ call' = [call EXCEPT ![FreeCall] = Sent("save", project, TRUE)]
          /\ gaps' = Midway
    /\ UNCHANGED <<project, dirty, active, finished, channel, requests, unsaved,
                   chosen, overtaken>>

-----------------------------------------------------------------------------
(* The bridge, under its write lock, and the handlers of the main process. *)

BridgeEnds(c, ok) ==
    /\ call[c].kind \in {"open", "save", "undo"} /\ ~call[c].done
    /\ call' = [call EXCEPT ![c].done = TRUE]
    /\ finished' = Append(finished, [to |-> c, ok |-> ok])
    /\ unsaved' = IF ok THEN [unsaved EXCEPT ![call[c].path] = call[c].kind = "undo"]
                  ELSE unsaved
    /\ UNCHANGED <<renderer, active, channel, requests, chosen, overtaken, gaps>>

\* Mutant: a save makes its project the active one.
ActiveAfterSave(c) == call[c].path

ActiveAfter(c) == IF call[c].kind = "open" THEN call[c].path ELSE active

\* A save of the active project is announced again, to refresh its summary.
Announced(c) == call[c].kind = "open" \/ (call[c].kind = "save" /\ active = call[c].path)

MainAnswers ==
    \E i \in DOMAIN finished :
        LET a == finished[i]
            told == a.ok /\ Announced(a.to)
            pushed == IF told THEN <<[push |-> call[a.to].path]>> ELSE <<>>
        IN  /\ finished' = RemoveAt(finished, i)
            /\ active' = IF a.ok THEN ActiveAfter(a.to) ELSE active
            /\ channel' = channel \o pushed \o <<a>>
            /\ chosen' = IF a.ok /\ call[a.to].kind = "open" THEN call[a.to].path
                         ELSE chosen
            /\ overtaken' = (overtaken \/ i > 1)
            /\ UNCHANGED <<renderer, call, requests, unsaved, gaps>>

-----------------------------------------------------------------------------
(* What the renderer does with what it receives. *)

Receive == channel # <<>> /\ channel' = Tail(channel)
Returned(c) == call' = [call EXCEPT ![c] = Idle]

\* The listener of onActiveProjectChange: the other fields stay.
Pushed ==
    /\ Receive
    /\ IsPush(Head(channel))
    /\ project' = Head(channel).push
    /\ UNCHANGED <<dirty, timer, slot, active, call, finished, requests, unsaved,
                   chosen, overtaken, gaps>>

\* The answer of a call of the given kind is delivered.
Reply(kinds, ok) ==
    /\ Receive
    /\ ~IsPush(Head(channel))
    /\ Head(channel).ok = ok
    /\ call[Head(channel).to].kind \in kinds
    /\ Returned(Head(channel).to)
    /\ UNCHANGED <<active, finished, requests, unsaved, chosen, overtaken>>

\* Opened, created or closed.  A save that was started since Leave keeps the slot.
Moved ==
    /\ Reply({"open", "close"}, TRUE)
    /\ project' = call[Head(channel).to].path
    /\ dirty' = FALSE
    /\ UNCHANGED <<timer, slot>>
    /\ gaps' = IF slot = NoCall THEN {} ELSE gaps \ {"manual"}

NotMoved ==
    /\ Reply({"open"}, FALSE)
    /\ timer' = (timer \/ dirty)
    /\ UNCHANGED <<project, dirty, slot, gaps>>

SlotAfter(c) == IF slot = c THEN NoCall ELSE slot

\* Mutant: whatever was saved, the open project is clean now.
SavedAnyProject ==
    /\ Reply({"save"}, TRUE)
    /\ slot' = SlotAfter(Head(channel).to)
    /\ dirty' = FALSE /\ timer' = FALSE /\ gaps' = {}
    /\ UNCHANGED project

\* The answer counts if its project is still, or again, the active one.
Saved ==
    LET c == Head(channel).to
        current == call[c].path = project
    IN  /\ Reply({"save"}, TRUE)
        /\ slot' = SlotAfter(c)
        /\ dirty' = (dirty /\ ~current)
        /\ timer' = (timer /\ ~current)
        /\ gaps' = IF current /\ slot' = NoCall THEN {} ELSE gaps
        /\ UNCHANGED project

\* Mutant: the slot is not cleared by a failed save.
NotSavedLocked ==
    LET c == Head(channel).to
        again == call[c].auto /\ dirty /\ project # NoPath
    IN  /\ Reply({"save"}, FALSE)
        /\ timer' = (timer \/ again)
        /\ gaps' = IF call[c].auto THEN gaps ELSE gaps \cup {"manual"}
        /\ UNCHANGED <<project, dirty, slot>>

\* Mutant: the timer's callback does not try again.
NotSavedOnce ==
    /\ Reply({"save"}, FALSE)
    /\ slot' = SlotAfter(Head(channel).to)
    /\ gaps' = IF call[Head(channel).to].auto THEN gaps ELSE gaps \cup {"manual"}
    /\ UNCHANGED <<project, dirty, timer>>

\* Only the callback of a timer arms the next one; a manual save that fails
\* is told to the user.
NotSaved ==
    LET c == Head(channel).to
        again == call[c].auto /\ dirty /\ project # NoPath
    IN  /\ Reply({"save"}, FALSE)
        /\ slot' = SlotAfter(c)
        /\ timer' = (timer \/ again)
        /\ gaps' = IF call[c].auto THEN gaps ELSE gaps \cup {"manual"}
        /\ UNCHANGED <<project, dirty>>

\* App.tsx marks whatever project is open when the answer comes.
Undone ==
    /\ Reply({"undo"}, TRUE)
    /\ dirty' = TRUE /\ timer' = TRUE
    /\ gaps' = IF slot = NoCall THEN {} ELSE gaps \ {"manual"}
    /\ UNCHANGED <<project, slot>>

NotUndone ==
    /\ Reply({"undo"}, FALSE)
    /\ UNCHANGED <<renderer, gaps>>

Deliver == Pushed \/ Moved \/ NotMoved \/ Saved \/ NotSaved \/ Undone \/ NotUndone

User == CloseProject \/ SaveProject \/ UndoRedo \/ \E p \in Path : OpenProject(p)

Next ==
    \/ User
    \/ TimerFires
    \/ \E c \in Call, ok \in BOOLEAN : BridgeEnds(c, ok)
    \/ MainAnswers
    \/ Deliver

Spec == Init /\ [][Next]_vars

SaveSucceeds == \E c \in Call : call[c].kind = "save" /\ BridgeEnds(c, TRUE)

\* The timer, the threads of the bridge and the event loops run; a save that is
\* tried again and again succeeds at last.
FairSpec ==
    /\ Spec
    /\ WF_vars(TimerFires) /\ WF_vars(MainAnswers) /\ WF_vars(Deliver)
    /\ \A c \in Call : WF_vars(\E ok \in BOOLEAN : BridgeEnds(c, ok))
    /\ SF_vars(SaveSucceeds)

-----------------------------------------------------------------------------
\* Every variable keeps its type, and what is finished or sent answers a call
\* that somebody awaits.
TypeOK ==
    /\ project \in Path \cup {NoPath} /\ active \in Path \cup {NoPath}
    /\ dirty \in BOOLEAN /\ timer \in BOOLEAN
    /\ slot \in Call \cup {NoCall}
    /\ call \in [Call -> CallRecord]
    /\ finished \in Seq(Answer)
    /\ channel \in Seq(Message)
    /\ requests \in 0 .. MaxRequests
    /\ unsaved \in [Path -> BOOLEAN]
    /\ chosen \in Path \cup {NoPath}
    /\ overtaken \in BOOLEAN
    /\ gaps \subseteq {"manual", "midway"}
    /\ \A i \in DOMAIN finished : InFlight(finished[i].to)
    /\ \A i \in DOMAIN channel : ~IsPush(channel[i]) => InFlight(channel[i].to)

\* Saves that answer late, pushes and transitions that overlap never take the
\* user to another project than the last one opened: once everything sent has
\* arrived, the renderer and the main process agree on it (the guard of
\* saveProject on projectPathRef and setActiveProjectIfMatchesActive).
OnTheChosenProject == channel = <<>> => project = chosen /\ active = chosen

\* A change that the project was marked with is never without somebody who
\* will save it: an armed timer, a save in flight that later ones would join,
\* or a transition that arms the timer again if it fails.  The two ways out are
\* a manual save that failed, and a save that was started during a transition
\* and outlived it (the doc of armAutoSave: walk-away data loss).
DirtyIsProtected ==
    dirty /\ project # NoPath => timer \/ slot # NoCall \/ Moving \/ gaps # {}

\* A project shown as clean has nothing that no save has written, unless the
\* answer of an undo overtook that of a save (the comment in saveProject: the
\* save includes what was in the bridge at write-time).
CleanIsCovered ==
    LET quiet == \A c \in Call : ~InFlight(c)
    IN  quiet /\ channel = <<>> /\ project # NoPath /\ unsaved[project]
            => dirty \/ overtaken

\* A save that later ones join is a save in flight, of the project the user is
\* at unless a transition is under way or was when the save started.
SlotIsASave ==
    slot # NoCall =>
        /\ call[slot].kind = "save"
        /\ call[slot].path = project \/ Moving \/ "midway" \in gaps

\* Types, and what the slot of the save in flight stands for.
SessionInvariant == TypeOK /\ SlotIsASave

\* The auto-save keeps trying: a marked change is saved or left at last, unless
\* protection was lost in one of the two ways above.
ChangesAreSaved ==
    [](dirty /\ project # NoPath => <>(~dirty \/ project = NoPath \/ gaps # {}))
=============================================================================
