-------------------------- MODULE AiSidecarsProofs --------------------------
(***************************************************************************)
(* Proofs about AiSidecars, for any number of threads, models, policies,   *)
(* attempts, crashes and restarts.  The argument: who holds the slot of a  *)
(* side is the only one to touch its child and its lifecycle state, a      *)
(* child always runs the configuration that the runtime has, and as long   *)
(* as no two changes of a side overlap the one under way carries what the  *)
(* settings say.                                                           *)
(***************************************************************************)
EXTENDS AiSidecars, TLAPS

InEffect(s) ==
    ~BeingChanged(s) /\ s \notin overlapped => runtime[s].config = chosen[s]

Silent(t) == call[t].from # "stray" => AnsweredAsAsked(t)

\* The inductive invariant; that a status is true follows from it.
Core ==
    /\ TypeOK /\ SlotIsHeld
    /\ chosen["text"].policy = DefaultPolicy
    /\ \A s \in Side : SideOnTrack(s) /\ InEffect(s)
    /\ \A t \in Thread : CallOnTrack(t) /\ Silent(t)

LEMMA DefaultsAreConfigs == DefaultConfig \in Config /\ None \notin Config
  BY SidecarAssumption DEF DefaultConfig, Config

LEMMA IdleIsACall == Idle \in Call
  BY DefaultsAreConfigs, SidecarAssumption DEF Idle, Call, Labels, Side

\* The conjuncts of the type invariant that a step of a thread depends on.
LEMMA Types ==
    ASSUME Core, NEW t \in Thread
    PROVE  /\ call[t] \in Call /\ call[t].side \in Side /\ call[t].config \in Config
           /\ \A s \in Side :
                /\ chosen[s] \in Config
                /\ runtime[s] \in [state: {"Idle", "Loading", "Ready", "Failed"},
                                   config: Config]
                /\ child[s] # None => child[s] \in Process
                /\ slot[s] = None \/ slot[s] \in Thread
           /\ t # None
  BY SidecarAssumption DEF Core, TypeOK, Call

-----------------------------------------------------------------------------
(* A status is true because the holder of the slot knows what is going on. *)

LEMMA CoreIsEnough ==
    ASSUME Core
    PROVE  SidecarInvariant /\ SettingsInEffect /\ OldModelIsSilent
  <1>1. ASSUME NEW s \in Side
        PROVE  /\ runtime[s].state = "Loading" <=> At(s, {"spawn", "started", "failed"})
               /\ runtime[s].state = "Ready" =>
                    child[s] # None \/ At(s, {"replace", "write", "unload"})
               /\ child[s] # None /\ slot[s] = None => runtime[s].state = "Ready"
    <2>1. SideOnTrack(s)
      BY DEF Core
    <2>2. CASE slot[s] = None
      <3>1. AtRest(s)
        BY <2>1, <2>2 DEF SideOnTrack
      <3>2. \A t \in Thread : ~(call[t].side = s /\ call[t].at \in Holding)
        BY <2>2, Types DEF Core, SlotIsHeld
      <3>3. ~At(s, {"spawn", "started", "failed"})
        BY <3>2 DEF At, Holding
      <3> QED
        BY <3>1, <3>3 DEF AtRest
    <2>3. CASE slot[s] # None
      <3>1. PICK t \in Thread : slot[s] = t
        BY <2>3 DEF Core, TypeOK
      <3>2. call[t].side = s /\ call[t].at \in Holding /\ HolderKnows(t)
        BY <3>1 DEF Core, SlotIsHeld, CallOnTrack
      <3>3. \A u \in Thread : call[u].side = s /\ call[u].at \in Holding => u = t
        BY <3>1 DEF Core, SlotIsHeld
      <3>4. At(s, {"spawn", "started", "failed"})
              <=> call[t].at \in {"spawn", "started", "failed"}
        BY <3>2, <3>3 DEF At, Holding
      <3>5. call[t].at \in {"replace", "write", "unload"}
              => At(s, {"replace", "write", "unload"})
        BY <3>2 DEF At
      <3> QED
        BY <2>3, <3>2, <3>4, <3>5 DEF HolderKnows, Holding, AtRest
    <2> QED
      BY <2>2, <2>3
  <1>2. StatusIsTrue
    BY <1>1 DEF StatusIsTrue
  <1>3. SettingsInEffect
    BY DEF Core, SettingsInEffect, InEffect, SideOnTrack
  <1> QED
    BY <1>2, <1>3 DEF Core, SidecarInvariant, OldModelIsSilent, Silent

-----------------------------------------------------------------------------
(* What a step of thread t on its side leaves to the other threads.        *)

\* Nothing changes for u, or the child it waited for is gone.
CutOrSame(u) ==
    \/ call'[u] = call[u]
    \/ call[u].at = "wait" /\ call'[u] = [call[u] EXCEPT !.at = "cut"]

\* A step of t that is no change of settings touches its own side, and that
\* only with the slot.
Frame(t) ==
    LET s == call[t].side IN
    /\ chosen' = chosen /\ overlapped' = overlapped /\ stray' = stray
    /\ \A o \in Side : o # s =>
         runtime'[o] = runtime[o] /\ child'[o] = child[o] /\ slot'[o] = slot[o]
    /\ runtime'[s].config = runtime[s].config
    /\ \/ slot[s] = t \/ slot[s] = None
       \/ runtime'[s] = runtime[s] /\ child'[s] = child[s] /\ slot'[s] = slot[s]
    /\ slot'[s] = slot[s] \/ slot'[s] = None \/ slot'[s] = t
    /\ slot'[s] = t <=> call'[t].at \in Holding
    /\ call'[t].at \in Holding \/ call'[t].at \in Changing => call'[t].side = s
    /\ call'[t].at \in Changing <=> call[t].at \in Changing
    /\ \A u \in Thread : u # t =>
         /\ CutOrSame(u)
         /\ call'[u] = call[u] /\ call[u].at = "wait" /\ call[u].from = "child"
              /\ call[u].side = s /\ Alive(s)
              => child'[s] # None /\ child'[s].alive

LEMMA FrameKeepsSlots ==
    ASSUME Core, NEW t \in Thread, Frame(t)
    PROVE  SlotIsHeld'
  <1> DEFINE s == call[t].side
  <1> SUFFICES ASSUME NEW u \in Thread, NEW o \in Side
               PROVE  slot'[o] = u <=> (call'[u].side = o /\ call'[u].at \in Holding)
    BY DEF SlotIsHeld
  <1>1. SlotIsHeld /\ s \in Side /\ call[u] \in Call /\ t # None /\ u # None
    BY Types DEF Core
  <1>2. slot[o] = u <=> (call[u].side = o /\ call[u].at \in Holding)
    BY <1>1 DEF SlotIsHeld
  <1>3. slot[o] = t <=> (call[t].side = o /\ call[t].at \in Holding)
    BY <1>1 DEF SlotIsHeld
  <1>4. CASE u = t
    BY <1>1, <1>3, <1>4 DEF Frame
  <1>5. CASE u # t
    <2>1. call'[u].side = call[u].side
          /\ (call'[u].at \in Holding <=> call[u].at \in Holding)
      BY <1>1, <1>5 DEF Frame, CutOrSame, Holding, Call
    <2> QED
      BY <1>1, <1>2, <1>3, <1>5, <2>1 DEF Frame
  <1> QED
    BY <1>4, <1>5

LEMMA FrameKeepsSettings ==
    ASSUME Core, NEW t \in Thread, Frame(t), NEW o \in Side
    PROVE  InEffect(o)' /\ (BeingChanged(o)' <=> BeingChanged(o))
  <1>1. ASSUME NEW u \in Thread
        PROVE  (call'[u].at \in Changing /\ call'[u].side = o)
                 <=> (call[u].at \in Changing /\ call[u].side = o)
    <2>1. call[u] \in Call
      BY Types
    <2>2. CASE u = t
      BY <2>2 DEF Frame
    <2>3. CASE u # t
      BY <2>1, <2>3 DEF Frame, CutOrSame, Changing, Call
    <2> QED
      BY <2>2, <2>3
  <1>2. BeingChanged(o)' <=> BeingChanged(o)
    BY <1>1 DEF BeingChanged
  <1>3. runtime'[o].config = runtime[o].config /\ chosen'[o] = chosen[o]
    BY Types DEF Frame
  <1> QED
    BY <1>2, <1>3 DEF Core, InEffect, Frame

LEMMA FrameKeepsOthers ==
    ASSUME Core, NEW t \in Thread, Frame(t), NEW u \in Thread, u # t,
           NEW s \in Side, s = call[t].side, NEW o \in Side, o = call[u].side
    PROVE  CallOnTrack(u)' /\ Silent(u)'
  <1>1. CallOnTrack(u) /\ Silent(u) /\ SlotIsHeld
    BY DEF Core
  <1>2. o \in Side /\ s \in Side /\ call[u] \in Call /\ t # None /\ u # None
    BY Types
  <1>3. CutOrSame(u) /\ call'[u].side = o /\ call'[u].asked = call[u].asked
        /\ call'[u].config = call[u].config /\ call'[u].from = call[u].from
    BY <1>2 DEF Frame, CutOrSame, Call
  <1>4. chosen' = chosen /\ overlapped' = overlapped
        /\ runtime'[o].config = runtime[o].config
        /\ (BeingChanged(o)' <=> BeingChanged(o))
    BY <1>2, FrameKeepsSettings DEF Frame
  <1>5. CASE call'[u] # call[u]
    <2>1. call'[u].at = "cut"
      BY <1>2, <1>3, <1>5 DEF CutOrSame, Call
    <2>2. HolderKnows(u)' /\ ChangeIsAlone(u)' /\ WaitsForSomeone(u)' /\ OnItsSide(u)'
          /\ Silent(u)'
      BY <2>1 DEF HolderKnows, ChangeIsAlone, WaitsForSomeone, OnItsSide, Silent,
                  AnsweredAsAsked, Changing
    <2>3. AskedIsInForce(u)'
      BY <1>1, <1>3, <1>4 DEF CallOnTrack, AskedIsInForce
    <2> QED
      BY <2>2, <2>3 DEF CallOnTrack
  <1>6. CASE call'[u] = call[u]
    <2>1. HolderKnows(u)'
      <3>1. CASE call[u].at \in Holding
        <4>1. slot[o] = u
          BY <1>1, <1>2, <3>1 DEF SlotIsHeld
        <4>2. runtime'[o] = runtime[o] /\ child'[o] = child[o]
          BY <1>2, <4>1 DEF Frame
        <4> QED
          BY <1>1, <1>6, <4>2 DEF CallOnTrack, HolderKnows, AtRest
      <3>2. CASE call[u].at \notin Holding
        BY <1>6, <3>2 DEF HolderKnows, Holding
      <3> QED
        BY <3>1, <3>2
    <2>2. ChangeIsAlone(u)'
      <3>1. SUFFICES ASSUME call[u].at \in Changing, o \notin overlapped
                     PROVE  \A v \in Thread :
                              call'[v].at \in Changing /\ call'[v].side = o => v = u
        BY <1>1, <1>4, <1>6 DEF CallOnTrack, ChangeIsAlone
      <3>2. \A v \in Thread : call[v].at \in Changing /\ call[v].side = o => v = u
        BY <1>1, <3>1 DEF CallOnTrack, ChangeIsAlone
      <3>3. ASSUME NEW v \in Thread, call'[v].at \in Changing, call'[v].side = o
            PROVE  call[v].at \in Changing /\ call[v].side = o
        <4>1. call[v] \in Call
          BY Types
        <4>2. CASE v = t
          BY <3>3, <4>2 DEF Frame
        <4>3. CASE v # t
          <5>1. CutOrSame(v)
            BY <4>3 DEF Frame
          <5> QED
            BY <3>3, <4>1, <5>1 DEF CutOrSame, Changing, Call
        <4> QED
          BY <4>2, <4>3
      <3> QED
        BY <3>2, <3>3
    <2>3. AskedIsInForce(u)'
      BY <1>1, <1>4, <1>6 DEF CallOnTrack, AskedIsInForce
    <2>4. WaitsForSomeone(u)'
      <3>1. SUFFICES ASSUME call[u].at = "wait", call[u].from # "stray"
                     PROVE  call[u].from = "child" /\ Alive(o)'
        BY <1>1, <1>6 DEF CallOnTrack, WaitsForSomeone, Frame
      <3>2. call[u].from = "child" /\ Alive(o)
        BY <1>1, <3>1 DEF CallOnTrack, WaitsForSomeone
      <3>3. CASE o = s
        BY <1>6, <3>1, <3>2, <3>3 DEF Frame, Alive
      <3>4. CASE o # s
        BY <1>2, <3>2, <3>4 DEF Frame, Alive
      <3> QED
        BY <3>2, <3>3, <3>4
    <2>5. OnItsSide(u)' /\ Silent(u)'
      BY <1>1, <1>6 DEF CallOnTrack, OnItsSide, Silent, AnsweredAsAsked
    <2> QED
      BY <2>1, <2>2, <2>3, <2>4, <2>5 DEF CallOnTrack
  <1> QED
    BY <1>5, <1>6

\* What is left to show of such a step: the types, and the side and the call
\* of its own thread.
LEMMA FrameKeepsCore ==
    ASSUME Core, NEW t \in Thread, Frame(t), TypeOK',
           NEW s \in Side, s = call[t].side,
           SideOnTrack(s)', CallOnTrack(t)', Silent(t)'
    PROVE  Core'
  <1>1. ASSUME NEW o \in Side, o # s PROVE SideOnTrack(o)'
    BY <1>1 DEF Core, Frame, SideOnTrack, AtRest
  <1>2. \A o \in Side : InEffect(o)'
    BY FrameKeepsSettings
  <1>3. ASSUME NEW u \in Thread, u # t PROVE CallOnTrack(u)' /\ Silent(u)'
    <2>1. PICK o \in Side : o = call[u].side
      BY Types
    <2> QED
      BY <1>3, <2>1, FrameKeepsOthers
  <1>4. (chosen["text"].policy = DefaultPolicy)'
    BY DEF Core, Frame
  <1> QED
    BY <1>1, <1>2, <1>3, <1>4, FrameKeepsSlots DEF Core

-----------------------------------------------------------------------------
(* Steps that change nothing but the call of their thread.                 *)

LEMMA MoveKeepsCore ==
    ASSUME Core, NEW t \in Thread, NEW c \in Call,
           call' = [call EXCEPT ![t] = c],
           UNCHANGED <<chosen, runtime, slot, child, stray, overlapped>>,
           calls' \in Nat, crashes' \in Nat, quits' \in Nat,
           c.at \in Changing <=> call[t].at \in Changing,
           c.at \in Holding <=> call[t].at \in Holding,
           c.at \in Holding \/ c.at \in Changing => c.side = call[t].side,
           CallOnTrack(t)', Silent(t)'
    PROVE  Core'
  <1>1. PICK s \in Side : s = call[t].side
    BY Types
  <1>2. call'[t] = c /\ \A u \in Thread : u # t => call'[u] = call[u]
    BY DEF Core, TypeOK
  <1>3. TypeOK'
    BY DEF Core, TypeOK
  <1>4. slot[s] = t <=> call[t].at \in Holding
    BY <1>1 DEF Core, SlotIsHeld
  <1>5. Frame(t)
    BY <1>1, <1>2, <1>4 DEF Frame, CutOrSame, Alive
  <1>6. SideOnTrack(s)'
    BY DEF Core, SideOnTrack, AtRest
  <1> QED
    BY <1>1, <1>3, <1>5, <1>6, FrameKeepsCore

\* A call at a label where nothing is claimed of it.
LEMMA FreeCallOnTrack ==
    ASSUME NEW t \in Thread,
           call'[t].at \in {"idle", "slot", "send", "cut", "peek", "cancel", "wait",
                            "answered"},
           call'[t].asked = None \/ AskedIsInForce(t)',
           call'[t].at = "cancel" => call'[t].side = "text",
           call'[t].at = "wait" => WaitsForSomeone(t)',
           call'[t].at = "answered" => Silent(t)'
    PROVE  CallOnTrack(t)' /\ Silent(t)'
  BY DEF CallOnTrack, HolderKnows, ChangeIsAlone, AskedIsInForce, WaitsForSomeone,
         OnItsSide, Silent, AnsweredAsAsked, Changing

\* What a call that goes on with its side remembers is still in force.
LEMMA RememberedIsInForce ==
    ASSUME Core, NEW t \in Thread, UNCHANGED <<chosen, overlapped>>,
           call'[t].asked = call[t].asked, call'[t].side = call[t].side,
           call'[t].at \notin Changing,
           \A u \in Thread : u # t => CutOrSame(u)
    PROVE  AskedIsInForce(t)'
  <1>1. AskedIsInForce(t)
    BY DEF Core, CallOnTrack
  <1>2. ASSUME NEW u \in Thread, call'[u].at \in Changing
        PROVE  call[u].at \in Changing /\ call[u].side = call'[u].side
    <2>1. u # t /\ call[u] \in Call /\ CutOrSame(u)
      BY <1>2, Types
    <2> QED
      BY <1>2, <2>1 DEF CutOrSame, Changing, Call
  <1> QED
    BY <1>1, <1>2 DEF AskedIsInForce, BeingChanged

LEMMA ReturnKeeps ==
    ASSUME Core, NEW t \in Thread, call[t].at \notin Changing \cup Holding,
           Return(t), UNCHANGED <<chosen, runtime, slot, child, stray, overlapped, bounds>>
    PROVE  Core'
  <1>1. call' = [call EXCEPT ![t] = Idle] /\ call'[t] = Idle
    BY DEF Core, TypeOK, Return
  <1>2. Idle.at \notin Changing /\ Idle.at \notin Holding /\ Idle.asked = None
        /\ Idle.at = "idle"
    BY DEF Idle, Changing, Holding
  <1>3. CallOnTrack(t)' /\ Silent(t)'
    BY <1>1, <1>2, FreeCallOnTrack
  <1>4. calls' \in Nat /\ crashes' \in Nat /\ quits' \in Nat
    BY DEF Core, TypeOK, bounds
  <1> QED
    BY <1>1, <1>2, <1>3, <1>4, IdleIsACall, MoveKeepsCore

\* A call that begins and changes no settings.
LEMMA BeginKeeps ==
    ASSUME Core, NEW t \in Thread, NEW c \in Call, Begin(t),
           call' = [call EXCEPT ![t] = c], UNCHANGED <<chosen, overlapped>>,
           c.at \in {"slot", "cancel", "peek"}, c.at = "cancel" => c.side = "text",
           c.asked = None \/ (c.asked = chosen[c.side] /\ c.side \notin overlapped
                              /\ ~BeingChanged(c.side))
    PROVE  Core'
  <1>1. call'[t] = c /\ \A u \in Thread : u # t => call'[u] = call[u]
    BY DEF Core, TypeOK
  <1>2. c.at \notin Changing /\ c.at \notin Holding
        /\ call[t].at \notin Changing /\ call[t].at \notin Holding
    BY DEF Begin, Idle, Changing, Holding
  <1>3. CallOnTrack(t)' /\ Silent(t)'
    <2>1. c.asked = None \/ AskedIsInForce(t)'
      BY <1>1, <1>2 DEF AskedIsInForce, BeingChanged
    <2> QED
      BY <1>1, <2>1, FreeCallOnTrack
  <1>4. calls' \in Nat /\ crashes' \in Nat /\ quits' \in Nat
    BY DEF Core, TypeOK, Begin
  <1> QED
    BY <1>2, <1>3, <1>4, MoveKeepsCore DEF Begin

LEMMA AskKeeps ==
    ASSUME Core, NEW t \in Thread, NEW s \in Side, Ask(t, s)
    PROVE  Core'
  <1> DEFINE asked == IF BeingChanged(s) \/ s \in overlapped THEN None ELSE chosen[s]
             c == [Idle EXCEPT !.at = "slot", !.side = s, !.asked = asked]
  <1>1. asked \in Config \cup {None}
    BY DEF Core, TypeOK
  <1>2. c \in Call /\ c.at = "slot" /\ c.side = s /\ c.asked = asked
    BY <1>1, IdleIsACall DEF Call, Labels
  <1> QED
    BY <1>2, BeginKeeps DEF Ask

LEMMA StartCancelKeeps ==
    ASSUME Core, NEW t \in Thread, StartCancel(t)
    PROVE  Core'
  <1> DEFINE c == [Idle EXCEPT !.at = "cancel"]
  <1>1. c \in Call /\ c.at = "cancel" /\ c.side = "text" /\ c.asked = None
    BY IdleIsACall DEF Call, Labels, Idle
  <1> QED
    BY <1>1, BeginKeeps DEF StartCancel

LEMMA PollKeeps ==
    ASSUME Core, NEW t \in Thread, NEW s \in Side, Poll(t, s)
    PROVE  Core'
  <1> DEFINE c == [Idle EXCEPT !.at = "peek", !.side = s]
  <1>1. c \in Call /\ c.at = "peek" /\ c.side = s /\ c.asked = None
    BY IdleIsACall DEF Call, Labels, Idle
  <1> QED
    BY <1>1, BeginKeeps DEF Poll

LEMMA EndPollKeeps ==
    ASSUME Core, NEW t \in Thread, EndPoll(t)
    PROVE  Core'
  BY ReturnKeeps DEF EndPoll, Changing, Holding

LEMMA DeliverKeeps ==
    ASSUME Core, NEW t \in Thread, Deliver(t)
    PROVE  Core'
  BY ReturnKeeps DEF Deliver, Changing, Holding

LEMMA SendKeeps ==
    ASSUME Core, NEW t \in Thread, Send(t)
    PROVE  Core'
  <1>1. PICK s \in Side : s = call[t].side
    BY Types
  <1>2. call[t] \in Call /\ call[t].at = "send"
        /\ call[t].at \notin Changing /\ call[t].at \notin Holding
    BY Types DEF Send, Changing, Holding
  <1>3. ASSUME NEW from \in {"stray", "child"},
               call' = [call EXCEPT ![t].at = "wait", ![t].from = from],
               IF from = "child" THEN Alive(s) ELSE stray[s] # None
        PROVE  Core'
    <2> DEFINE c == [call[t] EXCEPT !.at = "wait", !.from = from]
    <2>1. c \in Call /\ c.at = "wait" /\ c.from = from /\ c.side = s
          /\ c.asked = call[t].asked
      BY <1>1, <1>2 DEF Call, Labels
    <2>2. call' = [call EXCEPT ![t] = c] /\ call'[t] = c
          /\ \A u \in Thread : u # t => call'[u] = call[u]
      BY <1>3 DEF Core, TypeOK
    <2>3. UNCHANGED <<chosen, runtime, slot, child, stray, overlapped, bounds>>
      BY DEF Send
    <2>4. calls' \in Nat /\ crashes' \in Nat /\ quits' \in Nat
      BY <2>3 DEF Core, TypeOK, bounds
    <2>5. c.at \notin Changing /\ c.at \notin Holding
      BY <2>1 DEF Changing, Holding
    <2> HIDE DEF c
    <2>6. AskedIsInForce(t)'
      BY <1>1, <2>1, <2>2, <2>3, <2>5, RememberedIsInForce DEF CutOrSame
    <2>7. WaitsForSomeone(t)'
      BY <1>3, <2>1, <2>2, <2>3 DEF WaitsForSomeone, Alive
    <2>8. CallOnTrack(t)' /\ Silent(t)'
      BY <2>1, <2>2, <2>6, <2>7, FreeCallOnTrack
    <2> QED
      BY <1>2, <2>1, <2>2, <2>3, <2>4, <2>5, <2>8, MoveKeepsCore
  <1>4. CASE Return(t)
    BY <1>2, <1>4, ReturnKeeps DEF Send
  <1> QED
    BY <1>1, <1>3, <1>4 DEF Send

LEMMA AnswerKeeps ==
    ASSUME Core, NEW t \in Thread, Answer(t)
    PROVE  Core'
  <1>1. PICK s \in Side : s = call[t].side
    BY Types
  <1>2. call[t] \in Call /\ call[t].at = "wait"
        /\ call[t].at \notin Changing /\ call[t].at \notin Holding
    BY Types DEF Answer, Changing, Holding
  <1>3. CASE Return(t)
    BY <1>2, <1>3, ReturnKeeps DEF Answer
  <1>4. ASSUME NEW by, by = IF call[t].from = "stray" THEN stray[s] ELSE child[s].config,
               call' = [call EXCEPT ![t].at = "answered", ![t].config = by],
               by \in Config
        PROVE  Core'
    <2> DEFINE c == [call[t] EXCEPT !.at = "answered", !.config = by]
    <2>1. c \in Call /\ c.at = "answered" /\ c.from = call[t].from /\ c.side = s
          /\ c.asked = call[t].asked /\ c.config = by
      BY <1>1, <1>2, <1>4 DEF Call, Labels
    <2>2. call' = [call EXCEPT ![t] = c] /\ call'[t] = c
          /\ \A u \in Thread : u # t => call'[u] = call[u]
      BY <1>4 DEF Core, TypeOK
    <2>3. UNCHANGED <<chosen, runtime, slot, child, stray, overlapped, bounds>>
      BY DEF Answer
    <2>4. calls' \in Nat /\ crashes' \in Nat /\ quits' \in Nat
      BY <2>3 DEF Core, TypeOK, bounds
    <2>5. c.at \notin Changing /\ c.at \notin Holding
      BY <2>1 DEF Changing, Holding
    <2> HIDE DEF c
    <2>6. AskedIsInForce(t)'
      BY <1>1, <2>1, <2>2, <2>3, <2>5, RememberedIsInForce DEF CutOrSame
    <2>7. Silent(t)'
      <3>1. SUFFICES ASSUME call[t].from # "stray", call[t].asked # None
                     PROVE  by = call[t].asked
        BY <2>1, <2>2 DEF Silent, AnsweredAsAsked
      <3>2. WaitsForSomeone(t) /\ AskedIsInForce(t) /\ SideOnTrack(s) /\ InEffect(s)
        BY DEF Core, CallOnTrack
      <3>3. child[s] # None /\ by = child[s].config
        BY <1>1, <1>2, <1>4, <3>1, <3>2 DEF WaitsForSomeone, Alive
      <3>4. call[t].asked = chosen[s] /\ s \notin overlapped /\ ~BeingChanged(s)
        BY <1>1, <3>1, <3>2 DEF AskedIsInForce
      <3> QED
        BY <3>2, <3>3, <3>4 DEF SideOnTrack, InEffect
    <2>8. CallOnTrack(t)' /\ Silent(t)'
      BY <2>1, <2>2, <2>6, <2>7, FreeCallOnTrack
    <2> QED
      BY <1>2, <2>1, <2>2, <2>3, <2>4, <2>5, <2>8, MoveKeepsCore
  <1>5. (IF call[t].from = "stray" THEN stray[s] ELSE child[s].config) \in Config
    <2>1. WaitsForSomeone(t) /\ stray[s] \in Config \cup {None}
      BY DEF Core, CallOnTrack, TypeOK
    <2> QED
      BY <1>1, <1>2, <2>1, Types DEF WaitsForSomeone, Alive, Process
  <1> QED
    BY <1>1, <1>3, <1>4, <1>5 DEF Answer

\* A call at a label that holds the slot, but changes no settings.
LEMMA HolderOnTrack ==
    ASSUME NEW t \in Thread,
           call'[t].at \in {"check", "load", "spawn", "started", "failed", "unload"},
           HolderKnows(t)', AskedIsInForce(t)',
           call'[t].at = "unload" => call'[t].side = "text"
    PROVE  CallOnTrack(t)' /\ Silent(t)'
  BY DEF CallOnTrack, ChangeIsAlone, WaitsForSomeone, OnItsSide, Silent,
         AnsweredAsAsked, Changing

LEMMA SpawnFailsKeeps ==
    ASSUME Core, NEW t \in Thread, SpawnFails(t)
    PROVE  Core'
  <1>1. PICK s \in Side : s = call[t].side
    BY Types
  <1>2. call[t] \in Call /\ call[t].at = "spawn"
        /\ call[t].at \notin Changing /\ call[t].at \in Holding
        /\ HolderKnows(t)
    BY Types DEF SpawnFails, Changing, Holding, Core, CallOnTrack
  <1>3. PICK c \in Call :
          /\ call' = [call EXCEPT ![t] = c] /\ c.side = s /\ c.asked = call[t].asked
          /\ c.config = call[t].config
          /\ c.at = "spawn" \/ c.at = "failed"
    <2>1. CASE call[t].side = "image" /\ call[t].tries < MaxAttempts
      <3> DEFINE c == [call[t] EXCEPT !.tries = @ + 1]
      <3>1. c \in Call
        BY <1>2, <2>1, SidecarAssumption DEF Call
      <3>2. call' = [call EXCEPT ![t] = c] /\ c.at = "spawn" /\ c.side = s
            /\ c.asked = call[t].asked /\ c.config = call[t].config
        BY <1>1, <1>2, <2>1 DEF SpawnFails, Call
      <3> QED
        BY <3>1, <3>2
    <2>2. CASE ~(call[t].side = "image" /\ call[t].tries < MaxAttempts)
      <3> DEFINE c == [call[t] EXCEPT !.at = "failed"]
      <3>1. c \in Call
        BY <1>2 DEF Call, Labels
      <3>2. call' = [call EXCEPT ![t] = c] /\ c.at = "failed" /\ c.side = s
            /\ c.asked = call[t].asked /\ c.config = call[t].config
        BY <1>1, <1>2, <2>2 DEF SpawnFails, Goto, Call
      <3> QED
        BY <3>1, <3>2
    <2> QED
      BY <2>1, <2>2
  <1>4. call'[t] = c /\ \A u \in Thread : u # t => call'[u] = call[u]
    BY <1>3 DEF Core, TypeOK
  <1>5. UNCHANGED <<chosen, runtime, slot, child, stray, overlapped, bounds>>
    BY DEF SpawnFails
  <1>6. calls' \in Nat /\ crashes' \in Nat /\ quits' \in Nat
    BY <1>5 DEF Core, TypeOK, bounds
  <1>7. c.at \notin Changing /\ c.at \in Holding
    BY <1>3 DEF Changing, Holding
  <1>8. HolderKnows(t)'
    BY <1>1, <1>2, <1>3, <1>4, <1>5 DEF HolderKnows
  <1>9. AskedIsInForce(t)'
    BY <1>1, <1>3, <1>4, <1>5, <1>7, RememberedIsInForce DEF CutOrSame
  <1>10. CallOnTrack(t)' /\ Silent(t)'
    BY <1>3, <1>4, <1>8, <1>9, HolderOnTrack
  <1> QED
    BY <1>1, <1>2, <1>3, <1>5, <1>6, <1>7, <1>10, MoveKeepsCore

-----------------------------------------------------------------------------
(* Changes of settings under way.                                          *)

\* One change goes on with what it carries.
LEMMA ChangeGoesOn ==
    ASSUME Core, NEW t \in Thread, NEW s \in Side, s = call[t].side,
           UNCHANGED <<chosen, overlapped>>,
           call'[t].at \in Changing, call[t].at \in Changing,
           call'[t].side = s, call'[t].asked = call[t].asked,
           \A u \in Thread : u # t => CutOrSame(u)
    PROVE  /\ AskedIsInForce(t)'
           /\ s \notin overlapped =>
                \A u \in Thread : call'[u].at \in Changing /\ call'[u].side = s => u = t
  <1>1. AskedIsInForce(t) /\ ChangeIsAlone(t)
    BY DEF Core, CallOnTrack
  <1>2. call[t].asked = None
    BY <1>1 DEF AskedIsInForce, BeingChanged
  <1>3. ASSUME NEW u \in Thread, u # t, call'[u].at \in Changing
        PROVE  call[u].at \in Changing /\ call[u].side = call'[u].side
    <2>1. call[u] \in Call /\ CutOrSame(u)
      BY <1>3, Types
    <2> QED
      BY <1>3, <2>1 DEF CutOrSame, Changing, Call
  <1> QED
    BY <1>1, <1>2, <1>3 DEF AskedIsInForce, ChangeIsAlone

LEMMA MergeKeeps ==
    ASSUME Core, NEW t \in Thread, Merge(t)
    PROVE  Core'
  <1>1. PICK s \in Side : s = call[t].side
    BY Types
  <1> DEFINE now == runtime["image"].config
             merged == IF call[t].at = "mergeModel"
                       THEN [now EXCEPT !.model = call[t].config.model]
                       ELSE [now EXCEPT !.policy = call[t].config.policy]
             c == [call[t] EXCEPT !.at = "reload", !.config = merged]
  <1>2. call[t] \in Call /\ call[t].at \in {"mergeModel", "mergePolicy"}
        /\ call[t].at \in Changing /\ call[t].at \notin Holding
        /\ s = "image" /\ ChangeIsAlone(t)
    BY <1>1, Types DEF Merge, Changing, Holding, Core, CallOnTrack, OnItsSide
  <1>3. now \in Config /\ call[t].config \in Config
    BY <1>2, Types DEF Side, Call
  <1>4. merged \in Config
    BY <1>3 DEF Config
  <1>5. c \in Call /\ c.at = "reload" /\ c.side = s /\ c.asked = call[t].asked
        /\ c.config = merged
    BY <1>1, <1>2, <1>4 DEF Call, Labels, Changing
  <1>6. call' = [call EXCEPT ![t] = c] /\ call'[t] = c
        /\ \A u \in Thread : u # t => call'[u] = call[u]
    BY DEF Merge, Core, TypeOK
  <1>7. UNCHANGED <<chosen, runtime, slot, child, stray, overlapped, bounds>>
    BY DEF Merge
  <1>8. calls' \in Nat /\ crashes' \in Nat /\ quits' \in Nat
    BY <1>7 DEF Core, TypeOK, bounds
  <1>9. s \notin overlapped => chosen[s] = merged
    BY <1>1, <1>2 DEF ChangeIsAlone
  <1> HIDE DEF c, merged
  <1>10. c.at \in Changing /\ c.at \notin Holding
    BY <1>5 DEF Changing, Holding
  <1>11. AskedIsInForce(t)' /\ ChangeIsAlone(t)'
    <2>1. \A u \in Thread : u # t => CutOrSame(u)
      BY <1>6 DEF CutOrSame
    <2>2. call'[t].at = "reload" /\ call'[t].at \in Changing /\ call'[t].side = s
          /\ call'[t].asked = call[t].asked /\ call'[t].config = merged
      BY <1>5, <1>6, <1>10
    <2>3. call[t].at \in Changing
      BY <1>2
    <2>4. /\ AskedIsInForce(t)'
          /\ s \notin overlapped =>
               \A u \in Thread : call'[u].at \in Changing /\ call'[u].side = s => u = t
      BY <1>1, <1>7, <2>1, <2>2, <2>3, ChangeGoesOn
    <2> QED
      BY <1>7, <1>9, <2>2, <2>4 DEF ChangeIsAlone
  <1>12. CallOnTrack(t)' /\ Silent(t)'
    BY <1>5, <1>6, <1>11
    DEF CallOnTrack, HolderKnows, WaitsForSomeone, OnItsSide, Silent, AnsweredAsAsked
  <1> QED
    BY <1>1, <1>2, <1>5, <1>6, <1>7, <1>8, <1>10, <1>12, MoveKeepsCore

LEMMA LockRuntimeKeeps ==
    ASSUME Core, NEW t \in Thread, LockRuntime(t)
    PROVE  Core'
  <1>1. PICK s \in Side : s = call[t].side
    BY Types
  <1> DEFINE c == [call[t] EXCEPT !.at = "write"]
  <1>2. call[t] \in Call /\ call[t].at = "replace"
        /\ call[t].at \in Changing /\ call[t].at \in Holding
        /\ ChangeIsAlone(t) /\ HolderKnows(t)
    BY Types DEF LockRuntime, Changing, Holding, Core, CallOnTrack
  <1>3. c \in Call /\ c.at = "write" /\ c.side = s /\ c.asked = call[t].asked
        /\ c.config = call[t].config
    BY <1>1, <1>2 DEF Call, Labels, Changing
  <1>4. call' = [call EXCEPT ![t] = c] /\ call'[t] = c
        /\ \A u \in Thread : u # t => call'[u] = call[u]
    BY DEF LockRuntime, Goto, Core, TypeOK
  <1>5. UNCHANGED <<chosen, runtime, slot, child, stray, overlapped, bounds>>
    BY DEF LockRuntime
  <1>6. calls' \in Nat /\ crashes' \in Nat /\ quits' \in Nat
    BY <1>5 DEF Core, TypeOK, bounds
  <1> HIDE DEF c
  <1>7. c.at \in Changing /\ c.at \in Holding
    BY <1>3 DEF Changing, Holding
  <1>8. AskedIsInForce(t)' /\ ChangeIsAlone(t)'
    BY <1>1, <1>2, <1>3, <1>4, <1>5, <1>7, ChangeGoesOn DEF CutOrSame, ChangeIsAlone
  <1>9. HolderKnows(t)'
    BY <1>1, <1>2, <1>3, <1>4, <1>5 DEF HolderKnows
  <1>10. CallOnTrack(t)' /\ Silent(t)'
    BY <1>3, <1>4, <1>8, <1>9
    DEF CallOnTrack, WaitsForSomeone, OnItsSide, Silent, AnsweredAsAsked
  <1> QED
    BY <1>1, <1>2, <1>3, <1>4, <1>5, <1>6, <1>7, <1>10, MoveKeepsCore

\* When the child of s goes, only the calls that wait for it notice.
LEMMA CutIsFrame ==
    ASSUME Core, NEW s \in Side, NEW u \in Thread
    PROVE  /\ Cut(s)[u] \in Call
           /\ Cut(s)[u] = call[u] \/ (call[u].at = "wait"
                                      /\ Cut(s)[u] = [call[u] EXCEPT !.at = "cut"])
           /\ call[u].at = "wait" /\ call[u].from = "child" /\ call[u].side = s
                => Cut(s)[u] # call[u]
  <1>1. call[u] \in Call
    BY Types
  <1>2. CASE call[u].at = "wait" /\ call[u].side = s /\ call[u].from = "child"
    <2>1. Cut(s)[u] = [call[u] EXCEPT !.at = "cut"]
      BY <1>2 DEF Cut
    <2>2. Cut(s)[u] \in Call /\ Cut(s)[u].at = "cut"
      BY <1>1, <2>1 DEF Call, Labels
    <2> QED
      BY <1>2, <2>1, <2>2
  <1>3. CASE ~(call[u].at = "wait" /\ call[u].side = s /\ call[u].from = "child")
    <2>1. Cut(s)[u] = call[u]
      BY <1>3 DEF Cut
    <2> QED
      BY <1>1, <1>3, <2>1
  <1> QED
    BY <1>2, <1>3

\* The child goes and the thread takes the slot.
LEMMA KillKeeps ==
    ASSUME Core, NEW t \in Thread, NEW s \in Side, s = call[t].side,
           SlotFree(s), call[t].at # "wait", Take(t), child' = [child EXCEPT ![s] = None],
           NEW label \in {"replace", "unload"}, call' = [Cut(s) EXCEPT ![t].at = label],
           UNCHANGED <<chosen, runtime, stray, overlapped, bounds>>,
           label \in Changing <=> call[t].at \in Changing,
           AskedIsInForce(t)', ChangeIsAlone(t)', label = "unload" => s = "text"
    PROVE  Core'
  <1>1. /\ call'[t] = [call[t] EXCEPT !.at = label]
        /\ \A u \in Thread : u # t => call'[u] = Cut(s)[u]
        /\ call' = [u \in Thread |-> IF u = t THEN call'[t] ELSE Cut(s)[u]]
    BY DEF Cut
  <1>2. call[t] \in Call /\ SideOnTrack(s) /\ slot[s] = None /\ label \in Labels
    BY Types DEF Core, SlotFree, Labels, Changing
  <1>3. call'[t] \in Call /\ call'[t].at = label /\ call'[t].side = s
    BY <1>1, <1>2 DEF Call
  <1>4. slot'[s] = t /\ child'[s] = None
        /\ \A o \in Side : o # s => slot'[o] = slot[o] /\ child'[o] = child[o]
    BY DEF Take, Core, TypeOK
  <1>5. TypeOK'
    <2>1. call' \in [Thread -> Call]
      BY <1>1, <1>3, CutIsFrame
    <2>2. slot' \in [Side -> Thread \cup {None}] /\ child' \in [Side -> Process \cup {None}]
      BY DEF Take, Core, TypeOK
    <2> QED
      BY <2>1, <2>2 DEF Core, TypeOK, bounds
  <1>6. Frame(t)
    <2>1. ASSUME NEW u \in Thread, u # t
          PROVE  CutOrSame(u) /\ (call[u].at = "wait" /\ call[u].from = "child"
                                   /\ call[u].side = s => call'[u] # call[u])
      BY <1>1, <2>1, CutIsFrame DEF CutOrSame
    <2>2. label \in Holding
      BY DEF Holding
    <2> QED
      BY <1>2, <1>3, <1>4, <2>1, <2>2 DEF Frame
  <1>7. SideOnTrack(s)'
    BY <1>4, SidecarAssumption, Types DEF SideOnTrack
  <1>8. HolderKnows(t)'
    BY <1>2, <1>3, <1>4 DEF HolderKnows, SideOnTrack, AtRest
  <1>9. CallOnTrack(t)' /\ Silent(t)'
    BY <1>3, <1>8 DEF CallOnTrack, WaitsForSomeone, OnItsSide, Silent, AnsweredAsAsked
  <1> QED
    BY <1>5, <1>6, <1>7, <1>9, FrameKeepsCore

LEMMA ReloadKeeps ==
    ASSUME Core, NEW t \in Thread, Reload(t)
    PROVE  Core'
  <1>1. PICK s \in Side : s = call[t].side
    BY Types
  <1>2. call[t] \in Call /\ call[t].at = "reload" /\ "replace" \in Changing
        /\ call[t].at \in Changing /\ ChangeIsAlone(t)
    BY Types DEF Reload, Changing, Core, CallOnTrack
  <1>3. call'[t] = [call[t] EXCEPT !.at = "replace"]
        /\ \A u \in Thread : u # t => call'[u] = Cut(s)[u]
    BY <1>1, <1>2 DEF Reload, Cut
  <1>4. call'[t].at = "replace" /\ call'[t].side = s /\ call'[t].asked = call[t].asked
        /\ call'[t].config = call[t].config
    BY <1>1, <1>2, <1>3 DEF Call
  <1>5. UNCHANGED <<chosen, runtime, stray, overlapped, bounds>>
    BY DEF Reload
  <1>6. \A u \in Thread : u # t => CutOrSame(u)
    BY <1>3, CutIsFrame DEF CutOrSame
  <1>7. AskedIsInForce(t)' /\ ChangeIsAlone(t)'
    BY <1>1, <1>2, <1>4, <1>5, <1>6, ChangeGoesOn DEF ChangeIsAlone
  <1> QED
    BY <1>1, <1>2, <1>7, KillKeeps DEF Reload

LEMMA CancelKeeps ==
    ASSUME Core, NEW t \in Thread, Cancel(t)
    PROVE  Core'
  <1>1. call[t] \in Call /\ call[t].at = "cancel" /\ call[t].side = "text"
        /\ call[t].at \notin Changing \cup Holding /\ "unload" \notin Changing
        /\ "text" \in Side
    BY Types DEF Cancel, Changing, Holding, Core, CallOnTrack, OnItsSide, Side
  <1>2. CASE child["text"] = None
    BY <1>1, <1>2, ReturnKeeps DEF Cancel
  <1>3. CASE child["text"] # None
    <2>1. call'[t] = [call[t] EXCEPT !.at = "unload"]
          /\ \A u \in Thread : u # t => call'[u] = Cut("text")[u]
      BY <1>1, <1>3 DEF Cancel, Cut
    <2>2. call'[t].at = "unload" /\ call'[t].side = call[t].side
          /\ call'[t].asked = call[t].asked
      BY <1>1, <2>1 DEF Call
    <2>3. \A u \in Thread : u # t => CutOrSame(u)
      BY <1>1, <2>1, CutIsFrame DEF CutOrSame
    <2>4. AskedIsInForce(t)' /\ ChangeIsAlone(t)'
      BY <1>1, <2>2, <2>3, RememberedIsInForce DEF Cancel, ChangeIsAlone
    <2> QED
      BY <1>1, <1>3, <2>4, KillKeeps DEF Cancel
  <1> QED
    BY <1>2, <1>3

-----------------------------------------------------------------------------
(* Steps of a call that has the slot, or takes it.                         *)

LEMMA HolderStepKeeps ==
    ASSUME Core, NEW t \in Thread, NEW s \in Side, s = call[t].side,
           slot[s] = t \/ slot[s] = None,
           NEW c \in Call, call' = [call EXCEPT ![t] = c],
           UNCHANGED <<chosen, stray, overlapped, bounds>>,
           runtime' \in [Side -> [state: {"Idle", "Loading", "Ready", "Failed"},
                                  config: Config]],
           child' \in [Side -> Process \cup {None}],
           slot' \in [Side -> Thread \cup {None}],
           \A o \in Side : o # s =>
             runtime'[o] = runtime[o] /\ child'[o] = child[o] /\ slot'[o] = slot[o],
           runtime'[s].config = runtime[s].config,
           child'[s] # None => child'[s].config = runtime[s].config,
           Alive(s) => child'[s] # None /\ child'[s].alive,
           slot'[s] = t \/ slot'[s] = None,
           slot'[s] = t <=> c.at \in Holding,
           slot'[s] = None => AtRest(s)',
           call[t].at \notin Changing, c.at \notin Changing,
           c.at \in Holding => c.side = s,
           CallOnTrack(t)', Silent(t)'
    PROVE  Core'
  <1>1. call'[t] = c /\ \A u \in Thread : u # t => call'[u] = call[u]
    BY DEF Core, TypeOK
  <1>2. TypeOK'
    BY DEF Core, TypeOK, bounds
  <1>3. Frame(t)
    BY <1>1 DEF Frame, CutOrSame
  <1>4. SideOnTrack(s)'
    BY DEF SideOnTrack
  <1> QED
    BY <1>2, <1>3, <1>4, FrameKeepsCore

LEMMA EnterSlotKeeps ==
    ASSUME Core, NEW t \in Thread, EnterSlot(t)
    PROVE  Core'
  <1>1. PICK s \in Side : s = call[t].side
    BY Types
  <1> DEFINE c == [call[t] EXCEPT !.at = "check"]
  <1>2. call[t] \in Call /\ call[t].at = "slot" /\ slot[s] = None
        /\ call[t].at \notin Changing /\ SideOnTrack(s) /\ AtRest(s)
    BY <1>1, Types DEF EnterSlot, Changing, Core, SlotFree, SideOnTrack
  <1>3. c \in Call /\ c.at = "check" /\ c.side = s /\ c.asked = call[t].asked
    BY <1>1, <1>2 DEF Call, Labels
  <1>4. call' = [call EXCEPT ![t] = c] /\ call'[t] = c
        /\ \A u \in Thread : u # t => call'[u] = call[u]
    BY DEF EnterSlot, Goto, Core, TypeOK
  <1> HIDE DEF c
  <1>5. UNCHANGED <<chosen, runtime, child, stray, overlapped, bounds>>
    BY DEF EnterSlot
  <1>6. slot' \in [Side -> Thread \cup {None}] /\ slot'[s] = t
        /\ \A o \in Side : o # s => slot'[o] = slot[o]
    BY <1>1 DEF EnterSlot, Take, Core, TypeOK
  <1>7. c.at \notin Changing /\ c.at \in Holding
    BY <1>3 DEF Changing, Holding
  <1>8. AskedIsInForce(t)'
    BY <1>1, <1>3, <1>4, <1>5, <1>7, RememberedIsInForce DEF CutOrSame
  <1>9. HolderKnows(t)'
    BY <1>2, <1>3, <1>4, <1>5 DEF HolderKnows, AtRest
  <1>10. CallOnTrack(t)' /\ Silent(t)'
    BY <1>3, <1>4, <1>8, <1>9, HolderOnTrack
  <1>11. child[s] # None => child[s].config = runtime[s].config
    BY <1>2 DEF SideOnTrack
  <1>12. t # None /\ runtime \in [Side -> [state: {"Idle", "Loading", "Ready", "Failed"},
                                 config: Config]]
         /\ child \in [Side -> Process \cup {None}]
    BY Types DEF Core, TypeOK
  <1>13. Alive(s) => child'[s] # None /\ child'[s].alive
    BY <1>5 DEF Alive
  <1>14. slot'[s] # None /\ (slot'[s] = t <=> c.at \in Holding)
    BY <1>6, <1>7, <1>12
  <1>15. /\ runtime' \in [Side -> [state: {"Idle", "Loading", "Ready", "Failed"},
                                   config: Config]]
         /\ child' \in [Side -> Process \cup {None}]
         /\ \A o \in Side : o # s =>
              runtime'[o] = runtime[o] /\ child'[o] = child[o] /\ slot'[o] = slot[o]
         /\ runtime'[s].config = runtime[s].config
         /\ (child'[s] # None => child'[s].config = runtime[s].config)
    BY <1>5, <1>6, <1>11, <1>12
  <1>16. UNCHANGED <<chosen, stray, overlapped, bounds>>
    BY <1>5
  <1>17. call[t].at \notin Changing /\ slot[s] = None
    BY <1>2
  <1> QED
    BY <1>1, <1>3, <1>4, <1>6, <1>7, <1>10, <1>13, <1>14, <1>15, <1>16, <1>17,
       HolderStepKeeps

LEMMA CheckChildKeeps ==
    ASSUME Core, NEW t \in Thread, CheckChild(t)
    PROVE  Core'
  <1>1. PICK s \in Side : s = call[t].side
    BY Types
  <1> DEFINE c == [call[t] EXCEPT !.at = "load"]
  <1>2. call[t] \in Call /\ call[t].at = "check" /\ slot[s] = t
        /\ call[t].at \notin Changing /\ SideOnTrack(s) /\ AtRest(s)
    BY <1>1, Types
    DEF CheckChild, Changing, Holding, Core, SlotIsHeld, CallOnTrack, HolderKnows
  <1>3. c \in Call /\ c.at = "load" /\ c.side = s /\ c.asked = call[t].asked
    BY <1>1, <1>2 DEF Call, Labels
  <1>4. call' = [call EXCEPT ![t] = c] /\ call'[t] = c
        /\ \A u \in Thread : u # t => call'[u] = call[u]
    BY DEF CheckChild, Goto, Core, TypeOK
  <1> HIDE DEF c
  <1>5. UNCHANGED <<chosen, slot, stray, overlapped, bounds>>
    BY DEF CheckChild
  <1>6. /\ runtime' \in [Side -> [state: {"Idle", "Loading", "Ready", "Failed"},
                                  config: Config]]
        /\ child' \in [Side -> Process \cup {None}]
        /\ \A o \in Side : o # s => runtime'[o] = runtime[o] /\ child'[o] = child[o]
        /\ runtime'[s].config = runtime[s].config
        /\ \/ child'[s] = child[s] /\ runtime'[s].state = runtime[s].state
           \/ child'[s] = None /\ runtime'[s].state = "Idle" /\ ~Alive(s)
    <2>1. runtime \in [Side -> [state: {"Idle", "Loading", "Ready", "Failed"},
                                config: Config]]
          /\ child \in [Side -> Process \cup {None}]
      BY DEF Core, TypeOK
    <2>2. CASE child[s] # None /\ ~child[s].alive
      <3>1. child' = [child EXCEPT ![s] = None] /\ ~Alive(s)
            /\ runtime' = [runtime EXCEPT ![s].state = "Idle"]
        BY <1>1, <2>2 DEF CheckChild, SetState, Alive
      <3>2. child' \in [Side -> Process \cup {None}] /\ child'[s] = None
            /\ \A o \in Side : o # s => child'[o] = child[o]
        BY <2>1, <3>1
      <3>3. runtime' \in [Side -> [state: {"Idle", "Loading", "Ready", "Failed"},
                                  config: Config]]
            /\ runtime'[s].state = "Idle" /\ runtime'[s].config = runtime[s].config
            /\ \A o \in Side : o # s => runtime'[o] = runtime[o]
        BY <2>1, <3>1
      <3> QED
        BY <3>1, <3>2, <3>3
    <2>3. CASE ~(child[s] # None /\ ~child[s].alive)
      BY <1>1, <2>1, <2>3 DEF CheckChild
    <2> QED
      BY <2>2, <2>3
  <1>7. c.at \notin Changing /\ c.at \in Holding
    BY <1>3 DEF Changing, Holding
  <1>8. AskedIsInForce(t)'
    BY <1>1, <1>3, <1>4, <1>5, <1>7, RememberedIsInForce DEF CutOrSame
  <1>9. HolderKnows(t)'
    BY <1>2, <1>3, <1>4, <1>6 DEF HolderKnows, AtRest
  <1>10. CallOnTrack(t)' /\ Silent(t)'
    BY <1>3, <1>4, <1>8, <1>9, HolderOnTrack
  <1>11. child'[s] # None => child'[s].config = runtime[s].config
    BY <1>2, <1>6 DEF SideOnTrack
  <1>12. t # None /\ slot \in [Side -> Thread \cup {None}]
    BY Types DEF Core, TypeOK
  <1>13. Alive(s) => child'[s] # None /\ child'[s].alive
    BY <1>6 DEF Alive
  <1>14. slot'[s] = t /\ slot'[s] # None /\ slot' = slot
    BY <1>2, <1>5, <1>12
  <1>15. /\ runtime' \in [Side -> [state: {"Idle", "Loading", "Ready", "Failed"},
                                   config: Config]]
         /\ child' \in [Side -> Process \cup {None}]
         /\ slot' \in [Side -> Thread \cup {None}]
         /\ \A o \in Side : o # s =>
              runtime'[o] = runtime[o] /\ child'[o] = child[o] /\ slot'[o] = slot[o]
         /\ runtime'[s].config = runtime[s].config
    BY <1>6, <1>12, <1>14
  <1>16. UNCHANGED <<chosen, stray, overlapped, bounds>>
    BY <1>5
  <1>17. call[t].at \notin Changing /\ slot[s] = t
    BY <1>2
  <1> QED
    BY <1>1, <1>3, <1>4, <1>7, <1>10, <1>11, <1>13, <1>14, <1>15, <1>16, <1>17,
       HolderStepKeeps

LEMMA BeginLoadKeeps ==
    ASSUME Core, NEW t \in Thread, BeginLoad(t)
    PROVE  Core'
  <1>1. PICK s \in Side : s = call[t].side
    BY Types
  <1>2. call[t] \in Call /\ call[t].at = "load" /\ slot[s] = t /\ t # None
        /\ call[t].at \notin Changing /\ SideOnTrack(s) /\ AtRest(s)
    BY <1>1, Types
    DEF BeginLoad, Changing, Holding, Core, SlotIsHeld, CallOnTrack, HolderKnows
  <1>3. UNCHANGED <<chosen, child, stray, overlapped, bounds>>
    BY DEF BeginLoad
  <1>4. child \in [Side -> Process \cup {None}]
        /\ slot \in [Side -> Thread \cup {None}]
        /\ runtime \in [Side -> [state: {"Idle", "Loading", "Ready", "Failed"},
                                 config: Config]]
    BY DEF Core, TypeOK
  <1>5. CASE child[s] = None
    <2> DEFINE c == [call[t] EXCEPT !.at = "spawn", !.tries = 1,
                                    !.config = runtime[s].config]
    <2>1. c \in Call /\ c.at = "spawn" /\ c.side = s /\ c.asked = call[t].asked
          /\ c.config = runtime[s].config
      <3>1. runtime[s].config \in Config
        BY Types
      <3>2. 1 \in 0 .. MaxAttempts
        BY SidecarAssumption
      <3> QED
        BY <1>1, <1>2, <3>1, <3>2 DEF Call, Labels
    <2>2. call' = [call EXCEPT ![t] = c] /\ slot' = slot
      BY <1>1, <1>5 DEF BeginLoad
    <2>3. call'[t] = c /\ \A u \in Thread : u # t => call'[u] = call[u]
      BY <2>2 DEF Core, TypeOK
    <2> HIDE DEF c
    <2>4. /\ runtime' \in [Side -> [state: {"Idle", "Loading", "Ready", "Failed"},
                                    config: Config]]
          /\ \A o \in Side : o # s => runtime'[o] = runtime[o]
          /\ runtime'[s].config = runtime[s].config /\ runtime'[s].state = "Loading"
      BY <1>1, <1>4, <1>5 DEF BeginLoad, SetState
    <2>5. c.at \notin Changing /\ c.at \in Holding
      BY <2>1 DEF Changing, Holding
    <2>6. AskedIsInForce(t)'
      BY <1>1, <1>3, <2>1, <2>3, <2>5, RememberedIsInForce DEF CutOrSame
    <2>7. HolderKnows(t)'
      BY <1>3, <1>5, <2>1, <2>3, <2>4 DEF HolderKnows
    <2>8. CallOnTrack(t)' /\ Silent(t)'
      BY <2>1, <2>3, <2>6, <2>7, HolderOnTrack
    <2> QED
      BY <1>1, <1>2, <1>3, <1>4, <1>5, <2>1, <2>2, <2>4, <2>5, <2>8, HolderStepKeeps
      DEF Alive
  <1>6. CASE child[s] # None
    <2> DEFINE c == [call[t] EXCEPT !.at = "send"]
    <2>1. c \in Call /\ c.at = "send" /\ c.side = s /\ c.asked = call[t].asked
      BY <1>1, <1>2 DEF Call, Labels
    <2>2. call' = [call EXCEPT ![t] = c] /\ runtime' = runtime
      BY <1>1, <1>6 DEF BeginLoad, Goto
    <2>3. call'[t] = c /\ \A u \in Thread : u # t => call'[u] = call[u]
      BY <2>2 DEF Core, TypeOK
    <2> HIDE DEF c
    <2>4. slot' \in [Side -> Thread \cup {None}] /\ slot'[s] = None
          /\ \A o \in Side : o # s => slot'[o] = slot[o]
      BY <1>1, <1>4, <1>6 DEF BeginLoad, Release
    <2>5. c.at \notin Changing /\ c.at \notin Holding
      BY <2>1 DEF Changing, Holding
    <2>6. AskedIsInForce(t)'
      BY <1>1, <1>3, <2>1, <2>3, <2>5, RememberedIsInForce DEF CutOrSame
    <2>7. CallOnTrack(t)' /\ Silent(t)'
      BY <2>1, <2>3, <2>6, FreeCallOnTrack
    <2>8. AtRest(s)'
      BY <1>2, <1>3, <2>2 DEF AtRest
    <2>9. child'[s] # None => child'[s].config = runtime[s].config
      BY <1>2, <1>3 DEF SideOnTrack
    <2> QED
      BY <1>1, <1>2, <1>3, <1>4, <2>1, <2>2, <2>4, <2>5, <2>7, <2>8, <2>9,
         HolderStepKeeps
      DEF Alive
  <1> QED
    BY <1>5, <1>6

LEMMA SpawnReadyKeeps ==
    ASSUME Core, NEW t \in Thread, SpawnReady(t)
    PROVE  Core'
  <1>1. PICK s \in Side : s = call[t].side
    BY Types
  <1> DEFINE c == [call[t] EXCEPT !.at = "started"]
             p == [config |-> call[t].config, alive |-> TRUE]
  <1>2. call[t] \in Call /\ call[t].at = "spawn" /\ slot[s] = t /\ t # None
        /\ call[t].at \notin Changing /\ runtime[s].state = "Loading"
        /\ child[s] = None /\ call[t].config = runtime[s].config
    BY <1>1, Types
    DEF SpawnReady, Changing, Holding, Core, SlotIsHeld, CallOnTrack, HolderKnows
  <1>3. c \in Call /\ c.at = "started" /\ c.side = s /\ c.asked = call[t].asked
    BY <1>1, <1>2 DEF Call, Labels
  <1>4. call' = [call EXCEPT ![t] = c] /\ call'[t] = c
        /\ \A u \in Thread : u # t => call'[u] = call[u]
    BY DEF SpawnReady, Goto, Core, TypeOK
  <1>5. p \in Process /\ p # None /\ p.alive /\ p.config = runtime[s].config
    <2>1. call[t].config \in Config
      BY Types
    <2>2. p \in Process
      BY <2>1 DEF Process
    <2> QED
      BY <1>2, <2>2, SidecarAssumption
  <1>6. child' = [child EXCEPT ![s] = p]
    BY <1>1 DEF SpawnReady
  <1> HIDE DEF c, p
  <1>7. UNCHANGED <<chosen, runtime, slot, stray, overlapped, bounds>>
    BY DEF SpawnReady
  <1>8. /\ child' \in [Side -> Process \cup {None}] /\ child'[s] = p
        /\ \A o \in Side : o # s => child'[o] = child[o]
        /\ slot \in [Side -> Thread \cup {None}]
        /\ runtime \in [Side -> [state: {"Idle", "Loading", "Ready", "Failed"},
                                 config: Config]]
    BY <1>5, <1>6 DEF Core, TypeOK
  <1>9. c.at \notin Changing /\ c.at \in Holding
    BY <1>3 DEF Changing, Holding
  <1>10. AskedIsInForce(t)'
    BY <1>1, <1>3, <1>4, <1>7, <1>9, RememberedIsInForce DEF CutOrSame
  <1>11. HolderKnows(t)'
    BY <1>2, <1>3, <1>4, <1>5, <1>7, <1>8 DEF HolderKnows
  <1>12. CallOnTrack(t)' /\ Silent(t)'
    BY <1>3, <1>4, <1>10, <1>11, HolderOnTrack
  <1>13. /\ runtime' \in [Side -> [state: {"Idle", "Loading", "Ready", "Failed"},
                                   config: Config]]
         /\ slot' \in [Side -> Thread \cup {None}]
         /\ \A o \in Side : o # s =>
              runtime'[o] = runtime[o] /\ child'[o] = child[o] /\ slot'[o] = slot[o]
         /\ runtime'[s].config = runtime[s].config
         /\ slot'[s] = t /\ slot'[s] # None /\ slot[s] = t /\ call[t].at \notin Changing
    BY <1>2, <1>7, <1>8
  <1>14. child'[s] # None /\ child'[s].alive /\ child'[s].config = runtime[s].config
    BY <1>5, <1>8
  <1>15. UNCHANGED <<chosen, stray, overlapped, bounds>>
    BY <1>7
  <1> QED
    BY <1>1, <1>3, <1>4, <1>8, <1>9, <1>12, <1>13, <1>14, <1>15, HolderStepKeeps

\* The slot is given back with the lifecycle state that is true of the child.
LEMMA GiveBackKeeps ==
    ASSUME Core, NEW t \in Thread, NEW s \in Side, s = call[t].side, slot[s] = t,
           NEW state \in {"Idle", "Ready", "Failed"}, SetState(s, state), Release(t),
           state = "Ready" <=> child[s] # None,
           UNCHANGED <<chosen, child, stray, overlapped, bounds>>,
           call[t].at \notin Changing,
           NEW c \in Call, call' = [call EXCEPT ![t] = c],
           c.at \in {"send", "idle"}, c.asked = None \/ (c.asked = call[t].asked
                                                        /\ c.side = s)
    PROVE  Core'
  <1>1. call'[t] = c /\ \A u \in Thread : u # t => call'[u] = call[u]
    BY DEF Core, TypeOK
  <1>2. /\ runtime' \in [Side -> [state: {"Idle", "Loading", "Ready", "Failed"},
                                  config: Config]]
        /\ slot' \in [Side -> Thread \cup {None}]
        /\ child \in [Side -> Process \cup {None}]
        /\ \A o \in Side : o # s => runtime'[o] = runtime[o] /\ slot'[o] = slot[o]
        /\ runtime'[s].config = runtime[s].config /\ runtime'[s].state = state
        /\ slot'[s] = None
    BY DEF SetState, Release, Core, TypeOK
  <1>3. c.at \notin Changing /\ c.at \notin Holding
    BY DEF Changing, Holding
  <1>4. c.asked = None \/ AskedIsInForce(t)'
    BY <1>1, <1>3, RememberedIsInForce DEF CutOrSame
  <1>5. CallOnTrack(t)' /\ Silent(t)'
    BY <1>1, <1>4, FreeCallOnTrack
  <1>6. AtRest(s)'
    BY <1>2 DEF AtRest
  <1>7. child'[s] # None => child'[s].config = runtime[s].config
    BY DEF Core, SideOnTrack
  <1>8. t # None /\ child'[s] = child[s] /\ \A o \in Side : child'[o] = child[o]
    BY Types
  <1>9. Alive(s) => child'[s] # None /\ child'[s].alive
    BY DEF Alive
  <1>10. slot'[s] = t <=> c.at \in Holding
    BY <1>2, <1>3, <1>8
  <1>11. child' \in [Side -> Process \cup {None}]
         /\ \A o \in Side : o # s =>
              runtime'[o] = runtime[o] /\ child'[o] = child[o] /\ slot'[o] = slot[o]
    BY <1>2
  <1> QED
    BY <1>2, <1>3, <1>5, <1>6, <1>7, <1>9, <1>10, <1>11, HolderStepKeeps

LEMMA MarkReadyKeeps ==
    ASSUME Core, NEW t \in Thread, MarkReady(t)
    PROVE  Core'
  <1>1. PICK s \in Side : s = call[t].side
    BY Types
  <1> DEFINE c == [call[t] EXCEPT !.at = "send"]
  <1>2. call[t] \in Call /\ call[t].at = "started" /\ slot[s] = t /\ child[s] # None
        /\ call[t].at \notin Changing
    BY <1>1, Types
    DEF MarkReady, Changing, Holding, Core, SlotIsHeld, CallOnTrack, HolderKnows
  <1>3. c \in Call /\ c.at = "send" /\ c.side = s /\ c.asked = call[t].asked
    BY <1>1, <1>2 DEF Call, Labels
  <1>4. call' = [call EXCEPT ![t] = c]
    BY DEF MarkReady, Goto
  <1> HIDE DEF c
  <1> QED
    BY <1>1, <1>2, <1>3, <1>4, GiveBackKeeps DEF MarkReady

LEMMA MarkFailedKeeps ==
    ASSUME Core, NEW t \in Thread, MarkFailed(t)
    PROVE  Core'
  <1>1. PICK s \in Side : s = call[t].side
    BY Types
  <1>2. call[t].at = "failed" /\ slot[s] = t /\ child[s] = None
        /\ call[t].at \notin Changing
    BY <1>1, Types
    DEF MarkFailed, Changing, Holding, Core, SlotIsHeld, CallOnTrack, HolderKnows
  <1>3. Idle.at = "idle" /\ Idle.asked = None
    BY DEF Idle
  <1> QED
    BY <1>1, <1>2, <1>3, IdleIsACall, GiveBackKeeps DEF MarkFailed, Return

LEMMA MarkUnloadedKeeps ==
    ASSUME Core, NEW t \in Thread, MarkUnloaded(t)
    PROVE  Core'
  <1>1. PICK s \in Side : s = call[t].side
    BY Types
  <1>2. call[t].at = "unload" /\ slot[s] = t /\ child[s] = None /\ s = "text"
        /\ call[t].at \notin Changing
    BY <1>1, Types
    DEF MarkUnloaded, Changing, Holding, Core, SlotIsHeld, CallOnTrack, HolderKnows,
        OnItsSide
  <1>3. Idle.at = "idle" /\ Idle.asked = None
    BY DEF Idle
  <1> QED
    BY <1>1, <1>2, <1>3, IdleIsACall, GiveBackKeeps DEF MarkUnloaded, Return

-----------------------------------------------------------------------------
(* The settings take effect, and new ones are published.                   *)

LEMMA ReplaceKeeps ==
    ASSUME Core, NEW t \in Thread, Replace(t)
    PROVE  Core'
  <1>1. PICK s \in Side : s = call[t].side
    BY Types
  <1>2. call[t] \in Call /\ call[t].at = "write" /\ call[t].at \in Changing /\ slot[s] = t
        /\ child[s] = None /\ ChangeIsAlone(t) /\ t # None /\ SlotIsHeld
    BY <1>1, Types DEF Replace, Changing, Core, CallOnTrack, HolderKnows
  <1>3. call'[t] = Idle /\ \A u \in Thread : u # t => call'[u] = call[u]
    BY DEF Replace, Return, Core, TypeOK
  <1>4. UNCHANGED <<chosen, child, stray, overlapped, bounds>>
    BY DEF Replace
  <1>5. /\ runtime'[s].state = "Idle" /\ runtime'[s].config = call[t].config
        /\ slot'[s] = None
        /\ \A o \in Side : o # s => runtime'[o] = runtime[o] /\ slot'[o] = slot[o]
    BY <1>1 DEF Replace, Release, Core, TypeOK
  <1>6. TypeOK'
    <2>1. call' \in [Thread -> Call]
      BY IdleIsACall DEF Replace, Return, Core, TypeOK
    <2>2. runtime' \in [Side -> [state: {"Idle", "Loading", "Ready", "Failed"},
                                config: Config]]
      <3>1. [state |-> "Idle", config |-> call[t].config]
              \in [state: {"Idle", "Loading", "Ready", "Failed"}, config: Config]
        BY <1>2 DEF Call
      <3> QED
        BY <3>1 DEF Replace, Core, TypeOK
    <2>3. slot' \in [Side -> Thread \cup {None}]
      BY DEF Replace, Release, Core, TypeOK
    <2> QED
      BY <1>4, <2>1, <2>2, <2>3 DEF Core, TypeOK, bounds
  <1>7. Idle.at = "idle" /\ Idle.asked = None /\ "idle" \notin Changing
        /\ "idle" \notin Holding
    BY DEF Idle, Changing, Holding
  <1>8. SlotIsHeld'
    BY <1>1, <1>2, <1>3, <1>5, <1>7, Types DEF SlotIsHeld
  <1>9. ASSUME NEW o \in Side PROVE SideOnTrack(o)'
    BY <1>2, <1>4, <1>5 DEF Core, SideOnTrack, AtRest
  <1>10. ASSUME NEW o \in Side PROVE BeingChanged(o)' => BeingChanged(o)
    BY <1>3, <1>7 DEF BeingChanged
  <1>11. ASSUME NEW o \in Side PROVE InEffect(o)'
    <2>1. CASE o = s
      BY <1>1, <1>2, <1>4, <1>5, <2>1 DEF InEffect, ChangeIsAlone
    <2>2. CASE o # s
      <3>1. BeingChanged(o) => BeingChanged(o)'
        BY <1>1, <1>3, <2>2 DEF BeingChanged
      <3> QED
        BY <1>4, <1>5, <2>2, <3>1 DEF Core, InEffect
    <2> QED
      BY <2>1, <2>2
  <1>12. CallOnTrack(t)' /\ Silent(t)'
    BY <1>3, <1>7, FreeCallOnTrack
  <1>13. ASSUME NEW u \in Thread, u # t PROVE CallOnTrack(u)' /\ Silent(u)'
    <2>1. PICK o \in Side : o = call[u].side
      BY Types
    <2>2. CallOnTrack(u) /\ Silent(u) /\ call'[u] = call[u]
      BY <1>3, <1>13 DEF Core
    <2>3. HolderKnows(u)'
      <3>1. CASE call[u].at \in Holding
        <4>1. o # s
          BY <1>2, <1>13, <2>1, <3>1 DEF SlotIsHeld
        <4> QED
          BY <1>4, <1>5, <2>1, <2>2, <4>1 DEF CallOnTrack, HolderKnows, AtRest
      <3>2. CASE call[u].at \notin Holding
        BY <2>2, <3>2 DEF HolderKnows, Holding
      <3> QED
        BY <3>1, <3>2
    <2>4. ChangeIsAlone(u)'
      <3>1. SUFFICES ASSUME call[u].at \in Changing, o \notin overlapped
                     PROVE  ChangeIsAlone(u)'
        BY <1>4, <2>1, <2>2 DEF ChangeIsAlone
      <3>2. o # s
        BY <1>1, <1>2, <1>13, <2>1, <2>2, <3>1 DEF CallOnTrack, ChangeIsAlone
      <3>3. \A v \in Thread :
              call'[v].at \in Changing /\ call'[v].side = o => v = u
        BY <1>3, <1>7, <2>1, <2>2, <3>1 DEF CallOnTrack, ChangeIsAlone
      <3> QED
        BY <1>4, <1>5, <2>1, <2>2, <3>1, <3>2, <3>3 DEF CallOnTrack, ChangeIsAlone
    <2>5. AskedIsInForce(u)'
      BY <1>4, <1>10, <2>1, <2>2 DEF CallOnTrack, AskedIsInForce
    <2>6. WaitsForSomeone(u)' /\ OnItsSide(u)' /\ Silent(u)'
      BY <1>4, <2>2
      DEF CallOnTrack, WaitsForSomeone, OnItsSide, Silent, AnsweredAsAsked, Alive
    <2> QED
      BY <2>3, <2>4, <2>5, <2>6 DEF CallOnTrack
  <1>14. (chosen["text"].policy = DefaultPolicy)'
    BY <1>4 DEF Core
  <1> QED
    BY <1>6, <1>8, <1>9, <1>11, <1>12, <1>13, <1>14 DEF Core

\* Who publishes a setting carries it, and what others remember of the old
\* one is forgotten.
LEMMA PublishKeeps ==
    ASSUME Core, NEW t \in Thread, NEW s \in Side, NEW config \in Config,
           NEW label \in {"mergeModel", "mergePolicy", "reload"},
           Publish(t, s, label, config),
           label # "reload" => s = "image",
           chosen' \in [Side -> Config],
           \A o \in Side : o # s => chosen'[o] = chosen[o],
           (chosen["text"].policy = DefaultPolicy)',
           label = "mergeModel" => chosen'[s] = [chosen[s] EXCEPT !.model = config.model],
           label = "mergePolicy" => chosen'[s] = [chosen[s] EXCEPT !.policy = config.policy],
           label = "reload" => chosen'[s] = config
    PROVE  Core'
  <1> DEFINE c == [Idle EXCEPT !.at = label, !.side = s, !.config = config]
  <1>1. c \in Call /\ c.at = label /\ c.side = s /\ c.config = config
        /\ c.asked = None /\ c.from = "nobody"
    BY IdleIsACall DEF Call, Labels, Changing, Idle
  <1>2. call'[t] = c
        /\ \A u \in Thread : u # t =>
             call'[u] = IF call[u].side = s THEN [call[u] EXCEPT !.asked = None]
                        ELSE call[u]
    BY DEF Publish
  <1>3. call' \in [Thread -> Call]
    <2>1. ASSUME NEW u \in Thread PROVE [call[u] EXCEPT !.asked = None] \in Call
      BY Types DEF Call
    <2> QED
      BY <1>1, <2>1, Types DEF Publish
  <1> HIDE DEF c
  <1>4. ASSUME NEW u \in Thread, u # t
        PROVE  /\ call'[u].at = call[u].at /\ call'[u].side = call[u].side
               /\ call'[u].config = call[u].config /\ call'[u].from = call[u].from
               /\ call'[u].asked = IF call[u].side = s THEN None ELSE call[u].asked
    <2>1. call[u] \in Call /\ (call'[u] = IF call[u].side = s
                                          THEN [call[u] EXCEPT !.asked = None] ELSE call[u])
      BY <1>2, <1>4, Types
    <2> QED
      BY <2>1 DEF Call
  <1>5. call[t] = Idle /\ call[t].at = "idle" /\ "idle" \notin Changing
        /\ "idle" \notin Holding /\ label \in Changing /\ label \notin Holding
    BY DEF Publish, Begin, Idle, Changing, Holding
  <1>6. UNCHANGED <<runtime, slot, child, stray, crashes, quits>> /\ calls' \in Nat
    BY DEF Publish, Begin, Core, TypeOK
  <1>7. overlapped' = overlapped \cup (IF BeingChanged(s) THEN {s} ELSE {})
    BY DEF Publish
  <1>8. TypeOK'
    BY <1>3, <1>6, <1>7 DEF Core, TypeOK
  <1>9. SlotIsHeld'
    BY <1>1, <1>2, <1>4, <1>5, <1>6 DEF Core, SlotIsHeld
  <1>10. ASSUME NEW o \in Side
         PROVE  /\ SideOnTrack(o)'
                /\ o # s => (BeingChanged(o)' <=> BeingChanged(o))
                /\ InEffect(o)'
    <2>1. SideOnTrack(o)'
      BY <1>6 DEF Core, SideOnTrack, AtRest
    <2>2. CASE o = s
      <3>1. BeingChanged(o)'
        BY <1>1, <1>2, <1>5, <2>2 DEF BeingChanged
      <3> QED
        BY <2>1, <2>2, <3>1 DEF InEffect
    <2>3. CASE o # s
      <3>1. BeingChanged(o)' <=> BeingChanged(o)
        BY <1>1, <1>2, <1>4, <1>5, <2>3 DEF BeingChanged
      <3> QED
        BY <1>6, <1>7, <2>1, <2>3, <3>1 DEF Core, InEffect
    <2> QED
      BY <2>2, <2>3
  <1>11. CallOnTrack(t)' /\ Silent(t)'
    <2>1. ChangeIsAlone(t)'
      <3>1. SUFFICES ASSUME s \notin overlapped' PROVE ChangeIsAlone(t)'
        BY <1>1, <1>2 DEF ChangeIsAlone
      <3>2. ~BeingChanged(s) /\ s \notin overlapped
        BY <1>7, <3>1
      <3>3. runtime'[s].config = chosen[s]
        BY <1>6, <3>2 DEF Core, InEffect
      <3>4. \A u \in Thread : call'[u].at \in Changing /\ call'[u].side = s => u = t
        BY <1>4, <3>2 DEF BeingChanged
      <3> QED
        BY <1>1, <1>2, <3>3, <3>4 DEF ChangeIsAlone
    <2>2. HolderKnows(t)' /\ AskedIsInForce(t)' /\ WaitsForSomeone(t)' /\ OnItsSide(t)'
          /\ Silent(t)'
      BY <1>1, <1>2
      DEF HolderKnows, AskedIsInForce, WaitsForSomeone, OnItsSide, Silent,
          AnsweredAsAsked
    <2> QED
      BY <2>1, <2>2 DEF CallOnTrack
  <1>12. ASSUME NEW u \in Thread, u # t PROVE CallOnTrack(u)' /\ Silent(u)'
    <2>1. PICK o \in Side : o = call[u].side
      BY Types
    <2>2. /\ call'[u].at = call[u].at /\ call'[u].side = o
          /\ call'[u].config = call[u].config /\ call'[u].from = call[u].from
          /\ call'[u].asked = IF o = s THEN None ELSE call[u].asked
      BY <1>4, <1>12, <2>1
    <2>3. CallOnTrack(u) /\ Silent(u)
      BY DEF Core
    <2>4. HolderKnows(u)' /\ WaitsForSomeone(u)' /\ OnItsSide(u)'
      BY <1>6, <2>1, <2>2, <2>3
      DEF CallOnTrack, HolderKnows, AtRest, WaitsForSomeone, OnItsSide, Alive
    <2>5. Silent(u)' /\ AskedIsInForce(u)'
      <3>1. CASE o = s
        BY <2>2, <3>1 DEF AskedIsInForce, Silent, AnsweredAsAsked
      <3>2. CASE o # s
        <4>1. (BeingChanged(o)' <=> BeingChanged(o)) /\ chosen'[o] = chosen[o]
              /\ (o \in overlapped' <=> o \in overlapped)
          BY <1>7, <1>10, <3>2
        <4> QED
          BY <2>1, <2>2, <2>3, <3>2, <4>1
          DEF CallOnTrack, AskedIsInForce, Silent, AnsweredAsAsked
      <3> QED
        BY <3>1, <3>2
    <2>6. ChangeIsAlone(u)'
      <3>1. SUFFICES ASSUME call[u].at \in Changing, o \notin overlapped'
                     PROVE  ChangeIsAlone(u)'
        BY <2>2 DEF ChangeIsAlone
      <3>2. BeingChanged(o)
        BY <2>1, <3>1 DEF BeingChanged
      <3>3. o # s /\ o \notin overlapped
        BY <1>7, <3>1, <3>2
      <3>4. \A v \in Thread : call'[v].at \in Changing /\ call'[v].side = o => v = u
        <4>1. \A v \in Thread : call[v].at \in Changing /\ call[v].side = o => v = u
          BY <2>1, <2>3, <3>1, <3>3 DEF CallOnTrack, ChangeIsAlone
        <4> QED
          BY <1>1, <1>2, <1>4, <3>3, <4>1
      <3> QED
        BY <1>6, <2>1, <2>2, <2>3, <3>1, <3>3, <3>4 DEF CallOnTrack, ChangeIsAlone
    <2> QED
      BY <2>3, <2>4, <2>5, <2>6 DEF CallOnTrack
  <1> QED
    BY <1>8, <1>9, <1>10, <1>11, <1>12 DEF Core

LEMMA ChangeKeeps ==
    ASSUME Core, NEW t \in Thread, Change(t)
    PROVE  Core'
  <1>1. "text" \in Side /\ "image" \in Side /\ "text" # "image"
    BY DEF Side
  <1>2. chosen \in [Side -> Config]
    BY DEF Core, TypeOK
  <1>3. ASSUME NEW m \in Model, SetTier(t, m) PROVE Core'
    <2> DEFINE config == [DefaultConfig EXCEPT !.model = m]
    <2>1. config \in Config /\ config.policy = DefaultPolicy /\ config.model = m
      BY SidecarAssumption DEF DefaultConfig, Config
    <2>2. chosen'["text"] = [chosen["text"] EXCEPT !.model = m]
          /\ \A o \in Side : o # "text" => chosen'[o] = chosen[o]
      BY <1>1, <1>2, <1>3 DEF SetTier
    <2>3. chosen["text"] \in Config /\ chosen["text"].policy = DefaultPolicy
      BY <1>1, <1>2 DEF Core
    <2>4. [chosen["text"] EXCEPT !.model = m] = config
      BY <2>1, <2>3 DEF Config, DefaultConfig
    <2>5. chosen' \in [Side -> Config]
      BY <1>2, <1>3, <2>1, <2>4 DEF SetTier, Config
    <2>6. (chosen["text"].policy = DefaultPolicy)'
      BY <2>1, <2>2, <2>4
    <2>7. Publish(t, "text", "reload", config)
      BY <1>3 DEF SetTier
    <2> HIDE DEF config
    <2> QED
      BY <1>1, <2>1, <2>2, <2>4, <2>5, <2>6, <2>7, PublishKeeps
  <1>4. ASSUME NEW m \in Model, SetDescriptor(t, m) PROVE Core'
    <2> DEFINE config == [DefaultConfig EXCEPT !.model = m]
    <2>1. config \in Config /\ config.model = m
      BY SidecarAssumption DEF DefaultConfig, Config
    <2>2. chosen'["image"] = [chosen["image"] EXCEPT !.model = m]
          /\ \A o \in Side : o # "image" => chosen'[o] = chosen[o]
      BY <1>1, <1>2, <1>4 DEF SetDescriptor
    <2>3. chosen' \in [Side -> Config]
      BY <1>2, <1>4 DEF SetDescriptor, Config
    <2>4. (chosen["text"].policy = DefaultPolicy)'
      BY <1>1, <2>2 DEF Core
    <2>5. Publish(t, "image", "mergeModel", config)
      BY <1>4 DEF SetDescriptor
    <2> HIDE DEF config
    <2> QED
      BY <1>1, <2>1, <2>2, <2>3, <2>4, <2>5, PublishKeeps
  <1>5. ASSUME NEW p \in Policy, ApplyPolicy(t, p) PROVE Core'
    <2> DEFINE config == [DefaultConfig EXCEPT !.policy = p]
    <2>1. config \in Config /\ config.policy = p
      BY SidecarAssumption DEF DefaultConfig, Config
    <2>2. chosen'["image"] = [chosen["image"] EXCEPT !.policy = p]
          /\ \A o \in Side : o # "image" => chosen'[o] = chosen[o]
      BY <1>1, <1>2, <1>5 DEF ApplyPolicy
    <2>3. chosen' \in [Side -> Config]
      BY <1>2, <1>5 DEF ApplyPolicy, Config
    <2>4. (chosen["text"].policy = DefaultPolicy)'
      BY <1>1, <2>2 DEF Core
    <2>5. Publish(t, "image", "mergePolicy", config)
      BY <1>5 DEF ApplyPolicy
    <2> HIDE DEF config
    <2> QED
      BY <1>1, <2>1, <2>2, <2>3, <2>4, <2>5, PublishKeeps
  <1> QED
    BY <1>3, <1>4, <1>5 DEF Change

-----------------------------------------------------------------------------
(* What happens to the processes.                                          *)

LEMMA ChildExitsKeeps ==
    ASSUME Core, NEW s \in Side, ChildExits(s)
    PROVE  Core'
  <1>1. UNCHANGED <<chosen, runtime, slot, stray, overlapped, calls, quits>>
        /\ Alive(s) /\ crashes' \in Nat
    BY DEF ChildExits, Core, TypeOK
  <1>2. child[s] # None /\ child[s] \in Process
    BY <1>1 DEF Alive, Core, TypeOK
  <1>3. /\ child' \in [Side -> Process \cup {None}]
        /\ child'[s] # None /\ child'[s].config = child[s].config
        /\ \A o \in Side : o # s => child'[o] = child[o]
    <2> DEFINE p == [child[s] EXCEPT !.alive = FALSE]
    <2>1. p \in Process /\ p.config = child[s].config
      BY <1>2 DEF Process
    <2>2. p # None
      BY <2>1, SidecarAssumption
    <2>3. child' = [child EXCEPT ![s] = p]
      BY DEF ChildExits
    <2> HIDE DEF p
    <2> QED
      BY <2>1, <2>2, <2>3 DEF Core, TypeOK
  <1>4. \A u \in Thread : call'[u] = Cut(s)[u]
    BY DEF ChildExits
  <1>5. ASSUME NEW u \in Thread
        PROVE  /\ call'[u] \in Call /\ CutOrSame(u)
               /\ call'[u].side = call[u].side
               /\ call'[u].asked = call[u].asked
               /\ call'[u].at \in Changing <=> call[u].at \in Changing
               /\ call'[u].at \in Holding <=> call[u].at \in Holding
               /\ call[u].at = "wait" /\ call[u].from = "child" /\ call[u].side = s
                    => call'[u] # call[u]
    <2>1. call[u] \in Call /\ call'[u] \in Call /\ CutOrSame(u)
          /\ (call[u].at = "wait" /\ call[u].from = "child" /\ call[u].side = s
                => call'[u] # call[u])
      BY <1>4, CutIsFrame, Types DEF CutOrSame
    <2> QED
      BY <2>1 DEF CutOrSame, Call, Changing, Holding
  <1>6. TypeOK'
    <2>1. call' \in [Thread -> Call]
      BY <1>5 DEF ChildExits, Cut
    <2> QED
      BY <1>1, <1>3, <2>1 DEF Core, TypeOK
  <1>7. SlotIsHeld'
    BY <1>1, <1>5 DEF Core, SlotIsHeld
  <1>8. ASSUME NEW o \in Side
        PROVE  SideOnTrack(o)' /\ InEffect(o)' /\ (BeingChanged(o)' <=> BeingChanged(o))
    <2>1. BeingChanged(o)' <=> BeingChanged(o)
      BY <1>5 DEF BeingChanged
    <2>2. SideOnTrack(o)'
      BY <1>1, <1>2, <1>3 DEF Core, SideOnTrack, AtRest
    <2> QED
      BY <1>1, <2>1, <2>2 DEF Core, InEffect
  <1>9. ASSUME NEW u \in Thread PROVE CallOnTrack(u)' /\ Silent(u)'
    <2>1. PICK o \in Side : o = call[u].side
      BY Types
    <2>2. CallOnTrack(u) /\ Silent(u) /\ call[u] \in Call
      BY Types DEF Core
    <2>3. AskedIsInForce(u)'
      BY <1>1, <1>5, <1>8, <2>1, <2>2 DEF CallOnTrack, AskedIsInForce
    <2>4. CASE call'[u] # call[u]
      <3>1. call'[u].at = "cut"
        BY <1>5, <2>2, <2>4 DEF CutOrSame, Call
      <3> QED
        BY <2>3, <3>1
        DEF CallOnTrack, HolderKnows, ChangeIsAlone, WaitsForSomeone, OnItsSide,
            Silent, AnsweredAsAsked, Changing
    <2>5. CASE call'[u] = call[u]
      <3>1. HolderKnows(u)' /\ OnItsSide(u)' /\ Silent(u)'
        BY <1>1, <1>2, <1>3, <2>1, <2>2, <2>5
        DEF CallOnTrack, HolderKnows, AtRest, OnItsSide, Silent, AnsweredAsAsked
      <3>2. ChangeIsAlone(u)'
        BY <1>1, <1>5, <2>1, <2>2, <2>5 DEF CallOnTrack, ChangeIsAlone
      <3>3. WaitsForSomeone(u)'
        <4>1. call[u].at = "wait" /\ call[u].from = "child" => o # s
          BY <1>5, <2>1, <2>5
        <4> QED
          BY <1>1, <1>3, <2>1, <2>2, <2>5, <4>1 DEF CallOnTrack, WaitsForSomeone, Alive
      <3> QED
        BY <2>3, <3>1, <3>2, <3>3 DEF CallOnTrack
    <2> QED
      BY <2>4, <2>5
  <1>10. (chosen["text"].policy = DefaultPolicy)'
    BY <1>1 DEF Core
  <1> QED
    BY <1>6, <1>7, <1>8, <1>9, <1>10 DEF Core

\* The state of a program that has just been started.
Started ==
    /\ chosen = [s \in Side |-> DefaultConfig]
    /\ runtime = [s \in Side |-> [state |-> "Idle", config |-> DefaultConfig]]
    /\ slot = [s \in Side |-> None]
    /\ child = [s \in Side |-> None]
    /\ call = [t \in Thread |-> Idle]
    /\ overlapped = {}
    /\ stray \in [Side -> Config \cup {None}]
    /\ calls \in Nat /\ crashes \in Nat /\ quits \in Nat

LEMMA StartedIsCore == Started => Core
  <1> SUFFICES ASSUME Started PROVE Core
    OBVIOUS
  <1>1. Idle \in Call /\ Idle.at = "idle" /\ Idle.asked = None
    BY IdleIsACall DEF Idle
  <1>2. \A s \in Side : /\ chosen[s] = DefaultConfig /\ slot[s] = None /\ child[s] = None
                        /\ runtime[s].state = "Idle" /\ runtime[s].config = DefaultConfig
    BY DEF Started
  <1>3. \A t \in Thread : call[t] = Idle
    BY DEF Started
  <1>4. TypeOK
    BY <1>1, DefaultsAreConfigs DEF Started, TypeOK
  <1>5. SlotIsHeld
    BY <1>1, <1>2, <1>3, SidecarAssumption DEF SlotIsHeld, Holding
  <1>6. \A s \in Side : SideOnTrack(s) /\ InEffect(s)
    BY <1>2 DEF SideOnTrack, AtRest, InEffect
  <1>7. \A t \in Thread : CallOnTrack(t) /\ Silent(t)
    BY <1>1, <1>3
    DEF CallOnTrack, HolderKnows, ChangeIsAlone, AskedIsInForce, WaitsForSomeone,
        OnItsSide, Silent, AnsweredAsAsked, Changing
  <1>8. chosen["text"].policy = DefaultPolicy
    BY <1>2 DEF Side, DefaultConfig
  <1> QED
    BY <1>4, <1>5, <1>6, <1>7, <1>8 DEF Core

LEMMA QuitKeeps ==
    ASSUME Core, Quit
    PROVE  Core'
  <1>2. ASSUME NEW s \in Side PROVE Left(s) \subseteq Config \cup {None}
    <2>1. stray[s] \in Config \cup {None}
      BY DEF Core, TypeOK
    <2>2. Alive(s) => child[s].config \in Config
      BY DEF Alive, Process, Core, TypeOK
    <2>3. \A t \in Thread : call[t].config \in Config
      BY Types
    <2> QED
      BY <2>1, <2>2, <2>3 DEF Left
  <1>3. stray' \in [Side -> Config \cup {None}]
    <2>1. PICK text \in Left("text"), image \in Left("image") :
            stray' = [s \in Side |-> IF s = "text" THEN text ELSE image]
      BY DEF Quit
    <2>2. text \in Config \cup {None} /\ image \in Config \cup {None}
      BY <1>2 DEF Side
    <2> QED
      BY <2>1, <2>2
  <1>4. calls' \in Nat /\ crashes' \in Nat /\ quits' \in Nat
    BY DEF Quit, Core, TypeOK
  <1>5. Started'
    BY <1>3, <1>4 DEF Quit, Started
  <1> QED
    BY <1>5, StartedIsCore, PTL

-----------------------------------------------------------------------------
LEMMA InitCore == Init => Core
  BY StartedIsCore DEF Init, Started

LEMMA StepKeeps ==
    ASSUME Core, NEW t \in Thread, Step(t)
    PROVE  Core'
  BY MergeKeeps, ReloadKeeps, LockRuntimeKeeps, ReplaceKeeps, EnterSlotKeeps,
     CheckChildKeeps, BeginLoadKeeps, SpawnReadyKeeps, SpawnFailsKeeps, MarkReadyKeeps,
     MarkFailedKeeps, SendKeeps, AnswerKeeps, DeliverKeeps, CancelKeeps,
     MarkUnloadedKeeps, EndPollKeeps
  DEF Step

LEMMA NextCore == Core /\ [Next]_vars => Core'
  <1> SUFFICES ASSUME Core, [Next]_vars PROVE Core'
    OBVIOUS
  <1>1. ASSUME NEW t \in Thread, Change(t) PROVE Core'
    BY <1>1, ChangeKeeps
  <1>2. ASSUME NEW t \in Thread, StartCancel(t) PROVE Core'
    BY <1>2, StartCancelKeeps
  <1>3. ASSUME NEW t \in Thread, Step(t) PROVE Core'
    BY <1>3, StepKeeps
  <1>4. ASSUME NEW t \in Thread, NEW s \in Side, Ask(t, s) \/ Poll(t, s) PROVE Core'
    BY <1>4, AskKeeps, PollKeeps
  <1>5. ASSUME NEW s \in Side, ChildExits(s) PROVE Core'
    BY <1>5, ChildExitsKeeps
  <1>6. CASE Quit
    BY <1>6, QuitKeeps
  <1>7. CASE UNCHANGED vars
    BY <1>7
    DEF vars, Core, TypeOK, SlotIsHeld, SideOnTrack, InEffect, AtRest, BeingChanged,
        CallOnTrack, HolderKnows, ChangeIsAlone, AskedIsInForce, WaitsForSomeone,
        OnItsSide, Silent, AnsweredAsAsked, Alive
  <1> QED
    BY <1>1, <1>2, <1>3, <1>4, <1>5, <1>6, <1>7 DEF Next

LEMMA CoreAlways == Spec => []Core
  BY InitCore, NextCore, PTL DEF Spec

(* The slot of a side is held exactly by the call that needs it, a polled  *)
(* status is true of the child whatever the threads are in the middle of,  *)
(* and no call waits for a server that is gone.                            *)
THEOREM Invariance == Spec => []SidecarInvariant
  BY CoreAlways, CoreIsEnough, PTL

(* Unless two changes of a side overlapped, the side runs what its         *)
(* settings say as soon as no change is under way.                         *)
THEOREM ChangesTakeEffect == Spec => []SettingsInEffect
  BY CoreAlways, CoreIsEnough, PTL

(* No answer comes from the model of an earlier setting, except from a     *)
(* server that an earlier run of the program left behind.                  *)
THEOREM OnlyStraysAnswerLate == Spec => []OldModelIsSilent
  BY CoreAlways, CoreIsEnough, PTL
=============================================================================
