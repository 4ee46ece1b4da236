----------------------------- MODULE AiSidecars -----------------------------
(***************************************************************************)
(* The two model servers the bridge runs as child processes: llama-server  *)
(* for ai_plan and sd-server for image generation (aec_bridge/src/         *)
(* ai_state.rs, image_gen_state.rs).  Each side has a handle slot, locked  *)
(* while a child starts, a lifecycle state behind a read-write lock, and a *)
(* configuration that the settings pages replace.  Calls run on the        *)
(* threads of a blocking pool.  A child listens on a fixed port and        *)
(* outlives the program unless its handle is dropped.                      *)
(***************************************************************************)
EXTENDS Integers, FiniteSets

CONSTANTS
    Thread,         \* threads of the blocking pool
    Model,          \* text tiers, or image descriptors
    Policy,         \* governor policies of the image side
    DefaultModel, DefaultPolicy,    \* what BridgeService::new starts with
    None,           \* no process, no configuration, no thread
    MaxAttempts,    \* DEFAULT_IMAGE_GEN_MAX_SPAWN_ATTEMPTS
    MaxCalls,       \* bound: calls made
    MaxCrashes,     \* bound: children that crash
    MaxQuits        \* bound: times the program ends and starts again

Side == {"text", "image"}
Config == [model: Model, policy: Policy]
Process == [config: Config, alive: BOOLEAN]
DefaultConfig == [model |-> DefaultModel, policy |-> DefaultPolicy]

ASSUME SidecarAssumption ==
    /\ DefaultModel \in Model /\ DefaultPolicy \in Policy
    /\ None \notin Thread \cup Config \cup Process
    /\ MaxAttempts \in Nat \ {0}
    /\ {MaxCalls, MaxCrashes, MaxQuits} \subseteq Nat

VARIABLES
    chosen,     \* per side: what the managers and the policy slot hold
    runtime,    \* per side: lifecycle state and configuration
    slot,       \* per side: the thread that holds handle_slot
    child,      \* per side: the process in the slot
    stray,      \* per side: a server of an earlier run, on the port
    call,       \* per thread: where its call stands
    overlapped, \* sides on which two changes of settings were under way at once
    calls, crashes, quits

vars == <<chosen, runtime, slot, child, stray, call, overlapped,
          calls, crashes, quits>>
bounds == <<calls, crashes, quits>>

Idle == [at |-> "idle", side |-> "text", config |-> DefaultConfig, tries |-> 0,
         asked |-> None, from |-> "nobody"]

Init ==
    /\ chosen = [s \in Side |-> DefaultConfig]
    /\ runtime = [s \in Side |-> [state |-> "Idle", config |-> DefaultConfig]]
    /\ slot = [s \in Side |-> None]
    /\ child = [s \in Side |-> None]
    /\ stray = [s \in Side |-> None]
    /\ call = [t \in Thread |-> Idle]
    /\ overlapped = {}
    /\ calls = 0 /\ crashes = 0 /\ quits = 0

-----------------------------------------------------------------------------
(* Locks.  The runtime lock is held across steps by a poll, which reads,   *)
(* and by a reload, which writes.                                          *)

RuntimeFree(s) ==
    \A u \in Thread : call[u].at \in {"peek", "write"} => call[u].side # s

SlotFree(s) == slot[s] = None
Alive(s) == child[s] # None /\ child[s].alive

Goto(t, label) == call' = [call EXCEPT ![t].at = label]
Return(t) == call' = [call EXCEPT ![t] = Idle]
Take(t) == slot' = [slot EXCEPT ![call[t].side] = t]
Release(t) == slot' = [slot EXCEPT ![call[t].side] = None]
SetState(s, state) == runtime' = [runtime EXCEPT ![s].state = state]

\* Labels of a call that is changing the settings of a side.
Changing == {"mergeModel", "mergePolicy", "reload", "replace", "write"}
BeingChanged(s) == \E u \in Thread : call[u].at \in Changing /\ call[u].side = s

\* The calls when the child of s goes: what waits for it gets an error.
Cut(s) ==
    [u \in Thread |->
        IF call[u].at = "wait" /\ call[u].side = s /\ call[u].from = "child"
        THEN [call[u] EXCEPT !.at = "cut"] ELSE call[u]]

\* A call of thread t starts.
Begin(t) ==
    /\ call[t] = Idle
    /\ calls < MaxCalls
    /\ calls' = calls + 1
    /\ UNCHANGED <<runtime, slot, child, stray, crashes, quits>>

-----------------------------------------------------------------------------
(* The settings.  ai_set_active_tier replaces the whole configuration; the *)
(* two changes on the image side read it and replace a part.               *)

\* What a setter does first: it publishes its value for others to read.
Publish(t, s, label, config) ==
    /\ Begin(t)
    /\ overlapped' = overlapped \cup (IF BeingChanged(s) THEN {s} ELSE {})
    /\ call' = [u \in Thread |->
                  IF u = t THEN [Idle EXCEPT !.at = label, !.side = s, !.config = config]
                  ELSE IF call[u].side = s THEN [call[u] EXCEPT !.asked = None]
                  ELSE call[u]]

SetTier(t, m) ==
    /\ Publish(t, "text", "reload", [DefaultConfig EXCEPT !.model = m])
    /\ chosen' = [chosen EXCEPT !["text"].model = m]

SetDescriptor(t, m) ==
    /\ Publish(t, "image", "mergeModel", [DefaultConfig EXCEPT !.model = m])
    /\ chosen' = [chosen EXCEPT !["image"].model = m]

ApplyPolicy(t, p) ==
    /\ Publish(t, "image", "mergePolicy", [DefaultConfig EXCEPT !.policy = p])
    /\ chosen' = [chosen EXCEPT !["image"].policy = p]

\* Mutant: the other part of the configuration is the default's.
MergeIntoDefault(t) ==
    /\ call[t].at \in {"mergeModel", "mergePolicy"}
    /\ Goto(t, "reload")
    /\ UNCHANGED <<chosen, runtime, slot, child, stray, overlapped, bounds>>

\* snapshot_config, one read of the runtime.
Merge(t) ==
    /\ call[t].at \in {"mergeModel", "mergePolicy"}
    /\ LET now == runtime["image"].config IN
       call' = [call EXCEPT
                  ![t].at = "reload",
                  ![t].config = IF call[t].at = "mergeModel"
                                THEN [now EXCEPT !.model = call[t].config.model]
                                ELSE [now EXCEPT !.policy = call[t].config.policy]]
    /\ UNCHANGED <<chosen, runtime, slot, child, stray, overlapped, bounds>>

\* Mutant: reload_with_config takes the runtime before the slot.
ReloadRuntimeFirst(t) ==
    LET s == call[t].side IN
    \/ /\ call[t].at = "reload" /\ RuntimeFree(s)
       /\ Goto(t, "write")
       /\ UNCHANGED <<chosen, runtime, slot, child, stray, overlapped, bounds>>
    \/ /\ call[t].at = "write" /\ SlotFree(s)
       /\ Take(t)
       /\ child' = [child EXCEPT ![s] = None]
       /\ call' = Cut(s)
       /\ UNCHANGED <<chosen, runtime, stray, overlapped, bounds>>

\* reload_with_config: the slot, whose child goes, then the runtime.
Reload(t) ==
    LET s == call[t].side IN
    /\ call[t].at = "reload" /\ SlotFree(s)
    /\ Take(t)
    /\ child' = [child EXCEPT ![s] = None]
    /\ call' = [Cut(s) EXCEPT ![t].at = "replace"]
    /\ UNCHANGED <<chosen, runtime, stray, overlapped, bounds>>

LockRuntime(t) ==
    /\ call[t].at = "replace" /\ RuntimeFree(call[t].side)
    /\ Goto(t, "write")
    /\ UNCHANGED <<chosen, runtime, slot, child, stray, overlapped, bounds>>

Replace(t) ==
    LET s == call[t].side IN
    /\ call[t].at = "write" /\ slot[s] = t
    /\ runtime' = [runtime EXCEPT ![s] = [state |-> "Idle", config |-> call[t].config]]
    /\ Release(t)
    /\ Return(t)
    /\ UNCHANGED <<chosen, child, stray, overlapped, bounds>>

-----------------------------------------------------------------------------
(* ai_plan and image_gen_generate: ensure_ready, then a request to the     *)
(* port, for which no lock is held.                                        *)

Ask(t, s) ==
    /\ Begin(t)
    /\ call' = [call EXCEPT ![t] =
          [Idle EXCEPT !.at = "slot", !.side = s,
                       !.asked = IF BeingChanged(s) \/ s \in overlapped
                                 THEN None ELSE chosen[s]]]
    /\ UNCHANGED <<chosen, overlapped>>

EnterSlot(t) ==
    /\ call[t].at = "slot" /\ SlotFree(call[t].side)
    /\ Take(t)
    /\ Goto(t, "check")
    /\ UNCHANGED <<chosen, runtime, child, stray, overlapped, bounds>>

\* Mutant: the runtime that replaces a crashed one has the boot configuration.
CheckChildFromBoot(t) ==
    LET s == call[t].side IN
    /\ call[t].at = "check" /\ RuntimeFree(s)
    /\ IF child[s] # None /\ ~child[s].alive
       THEN /\ child' = [child EXCEPT ![s] = None]
            /\ runtime' = [runtime EXCEPT ![s] = [state |-> "Idle", config |-> DefaultConfig]]
       ELSE UNCHANGED <<child, runtime>>
    /\ Goto(t, "load")
    /\ UNCHANGED <<chosen, slot, stray, overlapped, bounds>>

\* The pre-flight check: a child that has exited is dropped.
CheckChild(t) ==
    LET s == call[t].side IN
    /\ call[t].at = "check" /\ RuntimeFree(s)
    /\ IF child[s] # None /\ ~child[s].alive
       THEN /\ child' = [child EXCEPT ![s] = None]
            /\ SetState(s, "Idle")
       ELSE UNCHANGED <<child, runtime>>
    /\ Goto(t, "load")
    /\ UNCHANGED <<chosen, slot, stray, overlapped, bounds>>

\* Without a child one is started; a runtime that Failed is reset first.
BeginLoad(t) ==
    LET s == call[t].side IN
    /\ call[t].at = "load" /\ RuntimeFree(s)
    /\ \/ /\ child[s] = None
          /\ SetState(s, "Loading")
          /\ call' = [call EXCEPT ![t].at = "spawn", ![t].tries = 1,
                                  ![t].config = runtime[s].config]
          /\ UNCHANGED slot
       \/ /\ child[s] # None
          /\ Goto(t, "send")
          /\ Release(t)
          /\ UNCHANGED runtime
    /\ UNCHANGED <<chosen, child, stray, overlapped, bounds>>

\* The health endpoint answers.  It is the port that is asked: with a stray
\* on it the new child, which cannot listen, is about to exit.
SpawnReady(t) ==
    LET s == call[t].side IN
    /\ call[t].at = "spawn"
    /\ child' = [child EXCEPT ![s] = [config |-> call[t].config, alive |-> TRUE]]
    /\ Goto(t, "started")
    /\ UNCHANGED <<chosen, runtime, slot, stray, overlapped, bounds>>

\* The binary is missing, the child exits, or the timeout passes; the text
\* side makes one attempt.
SpawnFails(t) ==
    /\ call[t].at = "spawn"
    /\ IF call[t].side = "image" /\ call[t].tries < MaxAttempts
       THEN call' = [call EXCEPT ![t].tries = @ + 1]
       ELSE Goto(t, "failed")
    /\ UNCHANGED <<chosen, runtime, slot, child, stray, overlapped, bounds>>

MarkReady(t) ==
    LET s == call[t].side IN
    /\ call[t].at = "started" /\ RuntimeFree(s)
    /\ SetState(s, "Ready")
    /\ Release(t)
    /\ Goto(t, "send")
    /\ UNCHANGED <<chosen, child, stray, overlapped, bounds>>

MarkFailed(t) ==
    LET s == call[t].side IN
    /\ call[t].at = "failed" /\ RuntimeFree(s)
    /\ SetState(s, "Failed")
    /\ Release(t)
    /\ Return(t)
    /\ UNCHANGED <<chosen, child, stray, overlapped, bounds>>

\* The request goes to whoever listens on the port.
Send(t) ==
    LET s == call[t].side IN
    /\ call[t].at = "send"
    /\ \/ /\ stray[s] # None
          /\ call' = [call EXCEPT ![t].at = "wait", ![t].from = "stray"]
       \/ /\ stray[s] = None /\ Alive(s)
          /\ call' = [call EXCEPT ![t].at = "wait", ![t].from = "child"]
       \/ /\ stray[s] = None /\ ~Alive(s)
          /\ Return(t)
    /\ UNCHANGED <<chosen, runtime, slot, child, stray, overlapped, bounds>>

\* The server answers; the planner validates what it says, or gives up.
Answer(t) ==
    LET s == call[t].side IN
    /\ call[t].at = "wait"
    /\ \/ call' = [call EXCEPT ![t].at = "answered",
                               ![t].config = IF call[t].from = "stray" THEN stray[s]
                                             ELSE child[s].config]
       \/ Return(t)
    /\ UNCHANGED <<chosen, runtime, slot, child, stray, overlapped, bounds>>

\* The result, or the error of a request that was cut, goes to the renderer.
Deliver(t) ==
    /\ call[t].at \in {"answered", "cut"}
    /\ Return(t)
    /\ UNCHANGED <<chosen, runtime, slot, child, stray, overlapped, bounds>>

-----------------------------------------------------------------------------
(* ai_cancel_job, and the polls.                                           *)

StartCancel(t) ==
    /\ Begin(t)
    /\ call' = [call EXCEPT ![t] = [Idle EXCEPT !.at = "cancel"]]
    /\ UNCHANGED <<chosen, overlapped>>

\* Mutant: the child goes and the runtime is not told.
CancelSilently(t) ==
    /\ call[t].at = "cancel" /\ SlotFree("text")
    /\ child' = [child EXCEPT !["text"] = None]
    /\ call' = [Cut("text") EXCEPT ![t] = Idle]
    /\ UNCHANGED <<chosen, runtime, slot, stray, overlapped, bounds>>

Cancel(t) ==
    /\ call[t].at = "cancel" /\ SlotFree("text")
    /\ \/ /\ child["text"] = None
          /\ Return(t)
          /\ UNCHANGED <<child, slot>>
       \/ /\ child["text"] # None
          /\ child' = [child EXCEPT !["text"] = None]
          /\ Take(t)
          /\ call' = [Cut("text") EXCEPT ![t].at = "unload"]
    /\ UNCHANGED <<chosen, runtime, stray, overlapped, bounds>>

MarkUnloaded(t) ==
    /\ call[t].at = "unload" /\ RuntimeFree("text")
    /\ SetState("text", "Idle")
    /\ Release(t)
    /\ Return(t)
    /\ UNCHANGED <<chosen, child, stray, overlapped, bounds>>

\* ai_runtime_status, image_gen_runtime_status: never the slot.
Poll(t, s) ==
    /\ Begin(t)
    /\ \A u \in Thread : ~(call[u].at = "write" /\ call[u].side = s)
    /\ call' = [call EXCEPT ![t] = [Idle EXCEPT !.at = "peek", !.side = s]]
    /\ UNCHANGED <<chosen, overlapped>>

EndPoll(t) ==
    /\ call[t].at = "peek"
    /\ Return(t)
    /\ UNCHANGED <<chosen, runtime, slot, child, stray, overlapped, bounds>>

-----------------------------------------------------------------------------
(* What happens to the processes.                                          *)

\* A child crashes; with a stray on its port it exits by itself.
ChildExits(s) ==
    /\ Alive(s)
    /\ stray[s] # None \/ crashes < MaxCrashes
    /\ crashes' = IF stray[s] # None THEN crashes ELSE crashes + 1
    /\ child' = [child EXCEPT ![s].alive = FALSE]
    /\ call' = Cut(s)
    /\ UNCHANGED <<chosen, runtime, slot, stray, overlapped, calls, quits>>

\* What may be on the port of s when the program has ended: a child in the
\* slot, or one that is still starting.
Left(s) ==
    IF stray[s] # None THEN {stray[s]}
    ELSE IF Alive(s) THEN {child[s].config}
    ELSE {None} \cup {call[t].config : t \in {u \in Thread :
                            call[u].at = "spawn" /\ call[u].side = s}}

\* The program ends and is started again.  SERVICE is a static, which is not
\* dropped: no handle kills its child.
Quit ==
    /\ quits < MaxQuits
    /\ quits' = quits + 1
    /\ \E text \in Left("text"), image \in Left("image") :
         stray' = [s \in Side |-> IF s = "text" THEN text ELSE image]
    /\ chosen' = [s \in Side |-> DefaultConfig]
    /\ runtime' = [s \in Side |-> [state |-> "Idle", config |-> DefaultConfig]]
    /\ slot' = [s \in Side |-> None]
    /\ child' = [s \in Side |-> None]
    /\ call' = [t \in Thread |-> Idle]
    /\ overlapped' = {}
    /\ UNCHANGED <<calls, crashes>>

-----------------------------------------------------------------------------
Change(t) ==
    \/ \E m \in Model : SetTier(t, m) \/ SetDescriptor(t, m)
    \/ \E p \in Policy : ApplyPolicy(t, p)

\* The steps of a call under way.
Step(t) ==
    \/ Merge(t) \/ Reload(t) \/ LockRuntime(t) \/ Replace(t)
    \/ EnterSlot(t) \/ CheckChild(t) \/ BeginLoad(t)
    \/ SpawnReady(t) \/ SpawnFails(t) \/ MarkReady(t) \/ MarkFailed(t)
    \/ Send(t) \/ Answer(t) \/ Deliver(t)
    \/ Cancel(t) \/ MarkUnloaded(t) \/ EndPoll(t)

Next ==
    \/ \E t \in Thread :
          \/ Change(t) \/ StartCancel(t) \/ Step(t)
          \/ \E s \in Side : Ask(t, s) \/ Poll(t, s)
    \/ \E s \in Side : ChildExits(s)
    \/ Quit

Spec == Init /\ [][Next]_vars

\* A call goes on when nothing is in its way: threads are scheduled, a spawn
\* and a request have timeouts.
FairSpec == Spec /\ \A t \in Thread : WF_vars(Step(t))

-----------------------------------------------------------------------------
(* The types of the variables.                                             *)
Labels == Changing \cup
    {"idle", "slot", "check", "load", "spawn", "started", "failed", "send",
     "wait", "cut", "answered", "cancel", "unload", "peek"}

Call == [at: Labels, side: Side, config: Config, tries: 0 .. MaxAttempts,
         asked: Config \cup {None}, from: {"nobody", "child", "stray"}]

TypeOK ==
    /\ chosen \in [Side -> Config]
    /\ runtime \in [Side -> [state: {"Idle", "Loading", "Ready", "Failed"},
                             config: Config]]
    /\ child \in [Side -> Process \cup {None}]
    /\ stray \in [Side -> Config \cup {None}]
    /\ slot \in [Side -> Thread \cup {None}]
    /\ call \in [Thread -> Call]
    /\ overlapped \in SUBSET Side
    /\ calls \in Nat /\ crashes \in Nat /\ quits \in Nat

At(s, labels) == \E t \in Thread : call[t].at \in labels /\ call[t].side = s

(* What a poll shows is what is going on, whoever is in the middle of      *)
(* what: Loading exactly while a child is being started, Ready only with a *)
(* child in the slot, and a child in the slot that nobody holds is Ready   *)
(* (image_gen_state.rs: "Ready without a handle would be a torn state").   *)
StatusIsTrue ==
    \A s \in Side :
        /\ runtime[s].state = "Loading" <=> At(s, {"spawn", "started", "failed"})
        /\ runtime[s].state = "Ready" =>
             child[s] # None \/ At(s, {"replace", "write", "unload"})
        /\ child[s] # None /\ slot[s] = None => runtime[s].state = "Ready"

\* The slot is held for exactly as long as a call is at a step that needs it.
Holding == {"replace", "write", "check", "load", "spawn", "started", "failed",
            "unload"}

SlotIsHeld ==
    \A t \in Thread, s \in Side :
        slot[s] = t <=> (call[t].side = s /\ call[t].at \in Holding)

\* Nothing is going on behind the slot of s.
AtRest(s) ==
    /\ runtime[s].state # "Loading"
    /\ runtime[s].state = "Ready" <=> child[s] # None

\* Who holds the slot knows whether there is a child.
HolderKnows(t) ==
    LET s == call[t].side IN
    /\ call[t].at \in {"spawn", "failed"} =>
         runtime[s].state = "Loading" /\ child[s] = None
    /\ call[t].at = "spawn" => call[t].config = runtime[s].config
    /\ call[t].at = "started" => runtime[s].state = "Loading" /\ child[s] # None
    /\ call[t].at \in {"replace", "write", "unload"} =>
         runtime[s].state # "Loading" /\ child[s] = None
    /\ call[t].at \in {"check", "load"} => AtRest(s)

\* A change that no other overlaps makes the configuration that was chosen.
ChangeIsAlone(t) ==
    LET s == call[t].side  now == runtime[s].config  mine == call[t].config IN
    call[t].at \in Changing /\ s \notin overlapped =>
        /\ \A u \in Thread : call[u].at \in Changing /\ call[u].side = s => u = t
        /\ call[t].at = "mergeModel" => chosen[s] = [now EXCEPT !.model = mine.model]
        /\ call[t].at = "mergePolicy" => chosen[s] = [now EXCEPT !.policy = mine.policy]
        /\ call[t].at \in {"reload", "replace", "write"} => chosen[s] = mine

\* What a call was made with is in force as long as it is remembered.
AskedIsInForce(t) ==
    LET s == call[t].side IN
    call[t].asked # None =>
        call[t].asked = chosen[s] /\ s \notin overlapped /\ ~BeingChanged(s)

\* Nobody waits for a server that is gone.
WaitsForSomeone(t) ==
    call[t].at = "wait" =>
        \/ call[t].from = "stray" /\ stray[call[t].side] # None
        \/ call[t].from = "child" /\ Alive(call[t].side)

\* Only the image side merges, only the text side is cancelled.
OnItsSide(t) ==
    /\ call[t].at \in {"mergeModel", "mergePolicy"} => call[t].side = "image"
    /\ call[t].at \in {"cancel", "unload"} => call[t].side = "text"

CallOnTrack(t) ==
    /\ HolderKnows(t) /\ ChangeIsAlone(t) /\ AskedIsInForce(t)
    /\ WaitsForSomeone(t) /\ OnItsSide(t)

\* With the slot free nothing is going on; a child runs the configuration that
\* the runtime has.
SideOnTrack(s) ==
    /\ slot[s] = None => AtRest(s)
    /\ child[s] # None => child[s].config = runtime[s].config

\* Types, that a polled status tells the truth about the child, and what the
\* two locks are there to protect.
SidecarInvariant ==
    /\ TypeOK /\ StatusIsTrue /\ SlotIsHeld
    /\ chosen["text"].policy = DefaultPolicy
    /\ \A s \in Side : SideOnTrack(s)
    /\ \A t \in Thread : CallOnTrack(t)

(* A side runs what its settings say as soon as no change of them is under *)
(* way, provided no two changes ever overlapped (ai_set_active_tier: "Two  *)
(* effects, applied atomically"; image_gen_set_descriptor: every other     *)
(* field "must survive a descriptor swap").                                *)
SettingsInEffect ==
    \A s \in Side :
        ~BeingChanged(s) /\ s \notin overlapped =>
            /\ runtime[s].config = chosen[s]
            /\ child[s] # None => child[s].config = chosen[s]

\* A call that was made when the settings were at rest, and not changed
\* since, is answered by the model they name.
AnsweredAsAsked(t) ==
    call[t].at = "answered" /\ call[t].asked # None => call[t].config = call[t].asked

(* No answer comes from the model of an earlier setting, except from a     *)
(* server that an earlier run of the program left behind.                  *)
OldModelIsSilent ==
    \A t \in Thread : call[t].from # "stray" => AnsweredAsAsked(t)

(* The same without the exception (ai_state.rs: "the renderer never        *)
(* observes a sidecar speaking the old tier's model").                     *)
OldTierIsSilent == \A t \in Thread : AnsweredAsAsked(t)

(* Every call returns: no thread waits for ever for the slot or the        *)
(* runtime, whatever order the calls take them in.                         *)
CallsReturn == \A t \in Thread : call[t].at # "idle" ~> call[t].at = "idle"
=============================================================================
