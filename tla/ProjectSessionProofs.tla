------------------------ MODULE ProjectSessionProofs ------------------------
(***************************************************************************)
(* Proofs about ProjectSession, for any projects, any number of calls in   *)
(* flight and any number of requests.  The argument follows the messages   *)
(* that are on their way: what is in the channel settles at last on the    *)
(* project that is active, as nothing but the answer of a transition moves *)
(* the renderer elsewhere; and as long as no answer overtook another, an   *)
(* answer that will show a project as clean is followed by that of every   *)
(* undo that the bridge did later.                                         *)
(***************************************************************************)
EXTENDS ProjectSession, SequenceTheorems, TLAPS

-----------------------------------------------------------------------------
(* What a message on its way to the renderer will do there. *)

\* The answer of a transition that was made.
Settles(m) == ~IsPush(m) /\ m.ok /\ call[m.to].kind \in {"open", "close"}

Target(m) == IF IsPush(m) THEN m.push ELSE call[m.to].path

\* Answers that show project p as clean, and one that marks it.
Clears(m, p) == ~IsPush(m) /\ m.ok /\ call[m.to].kind \in {"save", "open"}
                /\ call[m.to].path = p
Marks(m, p) == ~IsPush(m) /\ m.ok /\ call[m.to].kind = "undo" /\ call[m.to].path = p

-----------------------------------------------------------------------------
(* The inductive invariant. *)

\* Each call that is done is answered once.
AnsweredOnce ==
    /\ \A i \in DOMAIN finished : call[finished[i].to].done
    /\ \A i \in DOMAIN channel :
         ~IsPush(channel[i]) => \/ call[channel[i].to].done
                                \/ call[channel[i].to].kind = "close"
    /\ \A i, j \in DOMAIN finished : finished[i].to = finished[j].to => i = j
    /\ \A i, j \in DOMAIN channel :
         ~IsPush(channel[i]) /\ ~IsPush(channel[j]) /\ channel[i].to = channel[j].to => i = j
    /\ \A i \in DOMAIN channel, j \in DOMAIN finished :
         ~IsPush(channel[i]) => channel[i].to # finished[j].to

CallsAreSent ==
    \A c \in Call :
        /\ call[c].done => call[c].kind \in {"open", "save", "undo"}
        /\ call[c].kind \in {"open", "save", "undo"} => call[c].path \in Path
        /\ call[c].kind = "close" => call[c].path = NoPath

\* The window has just been loaded: nothing has reached it.
JustLoaded ==
    /\ project = NoPath /\ ~dirty
    /\ channel # <<>> /\ IsPush(channel[1])
    /\ \A c \in Call : call[c].kind \in {"none", "open"}
    /\ \A p \in Path : ~unsaved[p]

\* The renderer is at the active project, or will be.
Agreement ==
    /\ chosen = active
    /\ \A i \in DOMAIN channel :
         IsPush(channel[i]) \/ Settles(channel[i]) =>
            \/ Target(channel[i]) = active
            \/ \E j \in DOMAIN channel : i < j /\ Settles(channel[j])
    /\ project = active \/ JustLoaded \/ \E i \in DOMAIN channel : Settles(channel[i])

SlotOnTrack ==
    slot # NoCall =>
        /\ call[slot].kind = "save"
        /\ call[slot].path = project \/ "midway" \in gaps
        /\ Moving => "midway" \in gaps

\* No project is open, or somebody will save.
Protection ==
    dirty => \/ timer \/ slot # NoCall \/ Moving \/ gaps # {}
             \/ (project = NoPath /\ active = NoPath)

\* A project is announced when it was opened or saved.
PushesAreAnswered ==
    \A i \in DOMAIN channel :
        IsPush(channel[i]) /\ channel[i].push # NoPath =>
            \/ \E j \in DOMAIN channel : i < j /\ Clears(channel[j], channel[i].push)
            \/ (i = 1 /\ JustLoaded)

Pending(p) ==
    \/ \E j \in DOMAIN channel : Marks(channel[j], p)
    \/ \E k \in DOMAIN finished : Marks(finished[k], p)

CoveredLater(p) ==
    /\ \A i \in DOMAIN channel : Clears(channel[i], p) =>
          \/ \E j \in DOMAIN channel : i < j /\ Marks(channel[j], p)
          \/ \E k \in DOMAIN finished : Marks(finished[k], p)
    /\ \A i \in DOMAIN finished : Clears(finished[i], p) =>
          \E k \in DOMAIN finished : i < k /\ Marks(finished[k], p)
    /\ project = p => dirty \/ Pending(p)

Coverage == ~overtaken => \A p \in Path : unsaved[p] => CoveredLater(p)

Core ==
    /\ TypeOK /\ AnsweredOnce /\ CallsAreSent
    /\ Agreement /\ SlotOnTrack /\ Protection /\ PushesAreAnswered /\ Coverage

-----------------------------------------------------------------------------
(* Sequences and messages. *)

LEMMA RemoveAtProperties ==
    ASSUME NEW S, NEW s \in Seq(S), NEW i \in 1 .. Len(s)
    PROVE  /\ RemoveAt(s, i) \in Seq(S)
           /\ Len(RemoveAt(s, i)) = Len(s) - 1
           /\ \A j \in 1 .. Len(s) - 1 :
                RemoveAt(s, i)[j] = IF j < i THEN s[j] ELSE s[j + 1]
  <1> DEFINE a == SubSeq(s, 1, i - 1)
             b == SubSeq(s, i + 1, Len(s))
  <1>1. Len(s) \in Nat /\ i \in Nat /\ 1 <= i /\ i <= Len(s)
    BY LenProperties
  <1>2. \A j \in 1 .. Len(s) : s[j] \in S
    BY ElementOfSeq
  <1>3. \A j \in 1 .. i - 1 : s[j] \in S
    BY <1>1, <1>2
  <1>4. \A j \in i + 1 .. Len(s) : s[j] \in S
    BY <1>1, <1>2
  <1>5. /\ a \in Seq(S) /\ Len(a) = i - 1
        /\ \A j \in 1 .. i - 1 : a[j] = s[j]
    <2>1. i - 1 \in Int /\ 1 \in Int
      BY <1>1
    <2>2. /\ a \in Seq(S) /\ Len(a) = IF 1 <= i - 1 THEN i - 1 - 1 + 1 ELSE 0
          /\ \A j \in 1 .. i - 1 - 1 + 1 : a[j] = s[1 + j - 1]
      BY <1>3, <2>1, SubSeqProperties
    <2> QED
      BY <1>1, <2>2
  <1>6. /\ b \in Seq(S) /\ Len(b) = Len(s) - i
        /\ \A j \in 1 .. Len(s) - i : b[j] = s[i + j]
    <2>1. i + 1 \in Int /\ Len(s) \in Int
      BY <1>1
    <2>2. /\ b \in Seq(S) /\ Len(b) = IF i + 1 <= Len(s) THEN Len(s) - (i + 1) + 1 ELSE 0
          /\ \A j \in 1 .. Len(s) - (i + 1) + 1 : b[j] = s[i + 1 + j - 1]
      BY <1>4, <2>1, SubSeqProperties
    <2> QED
      BY <1>1, <2>2
  <1> HIDE DEF a, b
  <1>7. /\ a \o b \in Seq(S) /\ Len(a \o b) = Len(a) + Len(b)
        /\ \A j \in 1 .. Len(a) + Len(b) :
             (a \o b)[j] = IF j <= Len(a) THEN a[j] ELSE b[j - Len(a)]
    BY <1>5, <1>6, ConcatProperties
  <1>8. RemoveAt(s, i) = a \o b
    BY DEF RemoveAt, a, b
  <1>9. ASSUME NEW j \in 1 .. Len(s) - 1
        PROVE  (a \o b)[j] = IF j < i THEN s[j] ELSE s[j + 1]
    <2>1. (a \o b)[j] = IF j <= i - 1 THEN a[j] ELSE b[j - (i - 1)]
      BY <1>1, <1>5, <1>6, <1>7
    <2>2. CASE j < i
      BY <1>1, <1>5, <2>1, <2>2
    <2>3. CASE ~(j < i)
      <3>1. j - (i - 1) \in 1 .. Len(s) - i /\ i + (j - (i - 1)) = j + 1
        BY <1>1, <2>3
      <3>2. b[j - (i - 1)] = s[j + 1]
        BY <1>6, <3>1
      <3>3. ~(j <= i - 1)
        BY <1>1, <2>3
      <3> QED
        BY <2>1, <2>3, <3>2, <3>3
    <2> QED
      BY <2>2, <2>3
  <1>10. Len(a \o b) = Len(s) - 1
    BY <1>1, <1>5, <1>6, <1>7
  <1> QED
    BY <1>7, <1>8, <1>9, <1>10

LEMMA ConcatParts ==
    ASSUME NEW S, NEW s \in Seq(S), NEW t \in Seq(S)
    PROVE  /\ s \o t \in Seq(S) /\ Len(s \o t) = Len(s) + Len(t)
           /\ DOMAIN (s \o t) = 1 .. Len(s) + Len(t)
           /\ \A i \in 1 .. Len(s) : (s \o t)[i] = s[i]
           /\ \A k \in 1 .. Len(t) : (s \o t)[Len(s) + k] = t[k]
  <1>1. Len(s) \in Nat /\ Len(t) \in Nat
    BY LenProperties
  <1>2. /\ s \o t \in Seq(S) /\ Len(s \o t) = Len(s) + Len(t)
        /\ \A i \in 1 .. Len(s) + Len(t) :
             (s \o t)[i] = IF i <= Len(s) THEN s[i] ELSE t[i - Len(s)]
    BY ConcatProperties
  <1>3. DOMAIN (s \o t) = 1 .. Len(s) + Len(t)
    BY <1>2, LenProperties
  <1>4. \A i \in 1 .. Len(s) : (s \o t)[i] = s[i]
    BY <1>1, <1>2
  <1>5. ASSUME NEW k \in 1 .. Len(t) PROVE (s \o t)[Len(s) + k] = t[k]
    <2>1. PICK i \in 1 .. Len(s) + Len(t) : i = Len(s) + k
      BY <1>1
    <2>2. ~(i <= Len(s)) /\ i - Len(s) = k
      BY <1>1, <2>1
    <2>3. (s \o t)[i] = t[k]
      BY <1>2, <2>2
    <2> QED
      BY <2>1, <2>3
  <1> QED
    BY <1>2, <1>3, <1>4, <1>5

\* What the channel and the finished answers hold.
LEMMA Queues ==
    ASSUME Core
    PROVE  /\ Len(channel) \in Nat /\ DOMAIN channel = 1 .. Len(channel)
           /\ Len(finished) \in Nat /\ DOMAIN finished = 1 .. Len(finished)
           /\ \A i \in DOMAIN channel :
                /\ channel[i] \in Message
                /\ ~IsPush(channel[i]) =>
                     /\ channel[i].to \in Call /\ channel[i].ok \in BOOLEAN
                     /\ InFlight(channel[i].to)
                /\ IsPush(channel[i]) => channel[i].push \in Path \cup {NoPath}
           /\ \A i \in DOMAIN finished :
                /\ finished[i] \in Answer /\ ~IsPush(finished[i])
                /\ finished[i].to \in Call /\ finished[i].ok \in BOOLEAN
                /\ InFlight(finished[i].to)
  <1>1. channel \in Seq(Message) /\ finished \in Seq(Answer)
    BY DEF Core, TypeOK
  <1>2. /\ Len(channel) \in Nat /\ DOMAIN channel = 1 .. Len(channel)
        /\ Len(finished) \in Nat /\ DOMAIN finished = 1 .. Len(finished)
    BY <1>1, LenProperties
  <1>3. /\ \A i \in DOMAIN channel : channel[i] \in Message
        /\ \A i \in DOMAIN finished : finished[i] \in Answer
    BY <1>1, <1>2, ElementOfSeq
  <1>4. \A m \in Message :
          /\ ~IsPush(m) => m.to \in Call /\ m.ok \in BOOLEAN
          /\ IsPush(m) => m.push \in Path \cup {NoPath}
    BY DEF Message, IsPush
  <1>5. \A m \in Answer : ~IsPush(m) /\ m.to \in Call /\ m.ok \in BOOLEAN
    BY DEF Answer, IsPush
  <1> QED
    BY <1>2, <1>3, <1>4, <1>5 DEF Core, TypeOK

LEMMA Types ==
    ASSUME Core
    PROVE  /\ project \in Path \cup {NoPath} /\ active \in Path \cup {NoPath}
           /\ dirty \in BOOLEAN /\ timer \in BOOLEAN /\ slot \in Call \cup {NoCall}
           /\ call \in [Call -> CallRecord] /\ requests \in 0 .. MaxRequests
           /\ unsaved \in [Path -> BOOLEAN] /\ chosen \in Path \cup {NoPath}
           /\ overtaken \in BOOLEAN /\ gaps \subseteq {"manual", "midway"}
           /\ NoPath \notin Path /\ NoCall \notin Call /\ MaxRequests \in Nat
  BY SessionAssumption DEF Core, TypeOK

AnswersAreAwaited ==
    /\ \A i \in DOMAIN finished : InFlight(finished[i].to)
    /\ \A i \in DOMAIN channel : ~IsPush(channel[i]) => InFlight(channel[i].to)

\* The type invariant after a step, from its parts.
LEMMA TypesAfter ==
    ASSUME project' \in Path \cup {NoPath}, active' \in Path \cup {NoPath},
           dirty' \in BOOLEAN, timer' \in BOOLEAN, slot' \in Call \cup {NoCall},
           call' \in [Call -> CallRecord], requests' \in 0 .. MaxRequests,
           unsaved' \in [Path -> BOOLEAN], chosen' \in Path \cup {NoPath},
           overtaken' \in BOOLEAN, gaps' \subseteq {"manual", "midway"},
           finished' \in Seq(Answer), channel' \in Seq(Message),
           AnswersAreAwaited'
    PROVE  TypeOK'
  BY DEF TypeOK, AnswersAreAwaited

\* A step leaves the calls in flight what they are.
KeepsSent ==
    \A c \in Call : InFlight(c) =>
        /\ call'[c].kind = call[c].kind /\ call'[c].path = call[c].path
        /\ call[c].done => call'[c].done

-----------------------------------------------------------------------------
(* Steps that send and finish nothing. *)

LEMMA QueuesStay ==
    ASSUME Core, KeepsSent,
           UNCHANGED <<channel, finished, active, chosen, project, dirty, unsaved,
                       overtaken>>,
           JustLoaded => \A c \in Call : call'[c].kind \in {"none", "open"}
    PROVE  /\ AnsweredOnce' /\ Agreement' /\ PushesAreAnswered' /\ Coverage'
           /\ AnswersAreAwaited'
  <1>1. /\ channel' = channel /\ finished' = finished /\ active' = active
        /\ chosen' = chosen /\ project' = project /\ dirty' = dirty
        /\ unsaved' = unsaved /\ overtaken' = overtaken
    OBVIOUS
  <1>2. /\ \A i \in DOMAIN channel : ~IsPush(channel[i]) =>
              /\ call'[channel[i].to].kind = call[channel[i].to].kind
              /\ call'[channel[i].to].path = call[channel[i].to].path
              /\ call[channel[i].to].done => call'[channel[i].to].done
        /\ \A i \in DOMAIN finished :
              /\ call'[finished[i].to].kind = call[finished[i].to].kind
              /\ call'[finished[i].to].path = call[finished[i].to].path
              /\ call[finished[i].to].done => call'[finished[i].to].done
    BY Queues DEF KeepsSent
  <1>3. AnswersAreAwaited'
    BY <1>1, <1>2, Queues DEF InFlight, AnswersAreAwaited
  <1>4. AnsweredOnce'
    BY <1>1, <1>2 DEF Core, AnsweredOnce
  <1>5. /\ \A i \in DOMAIN channel :
              /\ Settles(channel[i])' <=> Settles(channel[i])
              /\ Target(channel[i])' = Target(channel[i])
              /\ \A p \in Path : /\ Clears(channel[i], p)' <=> Clears(channel[i], p)
                                 /\ Marks(channel[i], p)' <=> Marks(channel[i], p)
        /\ \A i \in DOMAIN finished : \A p \in Path :
              /\ Clears(finished[i], p)' <=> Clears(finished[i], p)
              /\ Marks(finished[i], p)' <=> Marks(finished[i], p)
    BY <1>1, <1>2 DEF Settles, Target, Clears, Marks
  <1>6. JustLoaded => JustLoaded'
    BY <1>1 DEF JustLoaded
  <1>7. Agreement'
    BY <1>1, <1>5, <1>6 DEF Core, Agreement
  <1>8. PushesAreAnswered'
    BY <1>1, <1>5, <1>6, Queues DEF Core, PushesAreAnswered
  <1>9. Coverage'
    <2> SUFFICES ASSUME ~overtaken, NEW p \in Path, unsaved[p] PROVE CoveredLater(p)'
      BY <1>1 DEF Coverage
    <2>1. CoveredLater(p)
      BY DEF Core, Coverage
    <2> QED
      BY <1>1, <1>5, <2>1 DEF CoveredLater, Pending
  <1> QED
    BY <1>3, <1>4, <1>7, <1>8, <1>9

LEMMA FreeCallIsFree ==
    ASSUME HasFreeCall PROVE FreeCall \in Call /\ ~InFlight(FreeCall)
  BY DEF HasFreeCall, FreeCall

\* A new call is sent.
LEMMA SendingKeeps ==
    ASSUME Core, NEW f \in Call, ~InFlight(f), NEW d \in CallRecord,
           d.kind \in {"open", "save", "undo"}, d.path \in Path, ~d.done,
           call' = [call EXCEPT ![f] = d]
    PROVE  /\ KeepsSent /\ CallsAreSent' /\ call' \in [Call -> CallRecord]
           /\ call'[f] = d /\ \A c \in Call \ {f} : call'[c] = call[c]
  <1>1. /\ call' \in [Call -> CallRecord]
        /\ call'[f] = d /\ \A c \in Call \ {f} : call'[c] = call[c]
    BY Types
  <1>2. KeepsSent
    BY <1>1 DEF KeepsSent, InFlight
  <1>3. CallsAreSent'
    BY <1>1 DEF Core, CallsAreSent
  <1> QED
    BY <1>1, <1>2, <1>3

LEMMA OpenProjectKeeps ==
    ASSUME Core, NEW p \in Path, OpenProject(p) PROVE Core'
  <1> DEFINE f == FreeCall
             d == Sent("open", p, FALSE)
  <1>1. /\ HasFreeCall /\ requests < MaxRequests /\ requests' = requests + 1
        /\ call' = [call EXCEPT ![f] = d] /\ timer' = FALSE /\ slot' = NoCall
        /\ UNCHANGED <<project, dirty, active, finished, channel, unsaved, chosen,
                       overtaken, gaps>>
    BY DEF OpenProject, Ask, Leave
  <1>2. f \in Call /\ ~InFlight(f)
    BY <1>1, FreeCallIsFree
  <1>3. d \in CallRecord /\ d.kind = "open" /\ d.path = p /\ ~d.done
    BY DEF Sent, CallRecord
  <1> HIDE DEF f, d
  <1>4. /\ KeepsSent /\ CallsAreSent' /\ call' \in [Call -> CallRecord]
        /\ call'[f] = d /\ \A c \in Call \ {f} : call'[c] = call[c]
    BY <1>1, <1>2, <1>3, SendingKeeps
  <1>5. JustLoaded => \A c \in Call : call'[c].kind \in {"none", "open"}
    BY <1>3, <1>4 DEF JustLoaded
  <1>6. /\ AnsweredOnce' /\ Agreement' /\ PushesAreAnswered' /\ Coverage'
        /\ AnswersAreAwaited'
    BY <1>1, <1>4, <1>5, QueuesStay
  <1>7. requests' \in 0 .. MaxRequests
    BY <1>1, Types
  <1>8. TypeOK'
    <2>1. channel' \in Seq(Message) /\ finished' \in Seq(Answer)
      BY <1>1 DEF Core, TypeOK
    <2> QED
      BY <1>1, <1>4, <1>6, <1>7, <2>1, Types, TypesAfter
  <1>9. SlotOnTrack'
    BY <1>1 DEF SlotOnTrack
  <1>10. Moving'
    BY <1>2, <1>3, <1>4 DEF Moving
  <1> QED
    BY <1>4, <1>6, <1>8, <1>9, <1>10 DEF Core, Protection

LEMMA UndoRedoKeeps ==
    ASSUME Core, UndoRedo PROVE Core'
  <1> DEFINE f == FreeCall
             d == Sent("undo", project, FALSE)
  <1>1. /\ project # NoPath
        /\ HasFreeCall /\ requests < MaxRequests /\ requests' = requests + 1
        /\ call' = [call EXCEPT ![f] = d]
        /\ UNCHANGED <<project, dirty, timer, slot, active, finished, channel, unsaved,
                       chosen, overtaken, gaps>>
    BY DEF UndoRedo, Ask, renderer
  <1>2. f \in Call /\ ~InFlight(f)
    BY <1>1, FreeCallIsFree
  <1>3. d \in CallRecord /\ d.kind = "undo" /\ d.path \in Path /\ ~d.done
    BY <1>1, Types DEF Sent, CallRecord
  <1> HIDE DEF f, d
  <1>4. /\ KeepsSent /\ CallsAreSent' /\ call' \in [Call -> CallRecord]
        /\ call'[f] = d /\ \A c \in Call \ {f} : call'[c] = call[c]
    BY <1>1, <1>2, <1>3, SendingKeeps
  <1>5. ~JustLoaded
    BY <1>1 DEF JustLoaded
  <1>6. /\ AnsweredOnce' /\ Agreement' /\ PushesAreAnswered' /\ Coverage'
        /\ AnswersAreAwaited'
    BY <1>1, <1>4, <1>5, QueuesStay
  <1>7. requests' \in 0 .. MaxRequests
    BY <1>1, Types
  <1>8. TypeOK'
    <2>1. channel' \in Seq(Message) /\ finished' \in Seq(Answer)
      BY <1>1 DEF Core, TypeOK
    <2> QED
      BY <1>1, <1>4, <1>6, <1>7, <2>1, Types, TypesAfter
  <1>9. Moving' <=> Moving
    BY <1>2, <1>3, <1>4 DEF Moving, InFlight
  <1>10. SlotOnTrack'
    <2>1. slot # NoCall => slot \in Call \ {f}
      BY <1>2, Types DEF Core, SlotOnTrack, InFlight
    <2> QED
      BY <1>1, <1>4, <1>9, <2>1 DEF Core, SlotOnTrack
  <1> QED
    BY <1>1, <1>4, <1>6, <1>8, <1>9, <1>10 DEF Core, Protection

LEMMA SaveProjectKeeps ==
    ASSUME Core, SaveProject PROVE Core'
  <1> DEFINE f == FreeCall
             d == Sent("save", project, FALSE)
  <1>1. /\ project # NoPath
        /\ HasFreeCall /\ requests < MaxRequests /\ requests' = requests + 1
        /\ call' = [call EXCEPT ![f] = d] /\ timer' = FALSE /\ slot' = f
        /\ gaps' = Midway
        /\ UNCHANGED <<project, dirty, active, finished, channel, unsaved, chosen,
                       overtaken>>
    BY DEF SaveProject, Ask
  <1>2. f \in Call /\ ~InFlight(f)
    BY <1>1, FreeCallIsFree
  <1>3. d \in CallRecord /\ d.kind = "save" /\ d.path = project /\ d.path \in Path /\ ~d.done
    BY <1>1, Types DEF Sent, CallRecord
  <1> HIDE DEF f, d
  <1>4. /\ KeepsSent /\ CallsAreSent' /\ call' \in [Call -> CallRecord]
        /\ call'[f] = d /\ \A c \in Call \ {f} : call'[c] = call[c]
    BY <1>1, <1>2, <1>3, SendingKeeps
  <1>5. ~JustLoaded
    BY <1>1 DEF JustLoaded
  <1>6. /\ AnsweredOnce' /\ Agreement' /\ PushesAreAnswered' /\ Coverage'
        /\ AnswersAreAwaited'
    BY <1>1, <1>4, <1>5, QueuesStay
  <1>7. requests' \in 0 .. MaxRequests /\ Midway \subseteq {"manual", "midway"}
    BY <1>1, Types DEF Midway
  <1>8. TypeOK'
    <2>1. channel' \in Seq(Message) /\ finished' \in Seq(Answer)
      BY <1>1 DEF Core, TypeOK
    <2> QED
      BY <1>1, <1>2, <1>4, <1>6, <1>7, <2>1, Types, TypesAfter
  <1>9. Moving' <=> Moving
    BY <1>2, <1>3, <1>4 DEF Moving, InFlight
  <1>10. SlotOnTrack'
    BY <1>1, <1>3, <1>4, <1>9 DEF SlotOnTrack, Midway
  <1>11. slot' # NoCall
    BY <1>1, <1>2, Types
  <1> QED
    BY <1>4, <1>6, <1>8, <1>10, <1>11 DEF Core, Protection

LEMMA TimerFiresKeeps ==
    ASSUME Core, TimerFires PROVE Core'
  <1>1. /\ timer' = FALSE
        /\ UNCHANGED <<project, dirty, active, finished, channel, requests, unsaved,
                       chosen, overtaken>>
    BY DEF TimerFires
  <1>2. channel' \in Seq(Message) /\ finished' \in Seq(Answer)
    BY <1>1 DEF Core, TypeOK
  <1>3. CASE project = NoPath /\ UNCHANGED <<slot, call, gaps>>
    <2>1. KeepsSent /\ CallsAreSent'
      BY <1>3 DEF KeepsSent, Core, CallsAreSent
    <2>2. JustLoaded => \A c \in Call : call'[c].kind \in {"none", "open"}
      BY <1>3 DEF JustLoaded
    <2>3. /\ AnsweredOnce' /\ Agreement' /\ PushesAreAnswered' /\ Coverage'
          /\ AnswersAreAwaited'
      BY <1>1, <2>1, <2>2, QueuesStay
    <2>4. TypeOK'
      BY <1>1, <1>2, <1>3, <2>3, Types, TypesAfter
    <2>5. SlotOnTrack' /\ (Moving' <=> Moving)
      BY <1>1, <1>3 DEF Core, SlotOnTrack, Moving
    <2>6. Protection'
      <3> SUFFICES ASSUME dirty, ~Moving PROVE active = NoPath
        BY <1>1, <1>3, <2>5 DEF Protection
      <3>1. ~JustLoaded
        BY DEF JustLoaded
      <3>2. \A i \in DOMAIN channel : ~Settles(channel[i])
        BY Queues DEF Settles, Moving
      <3> QED
        BY <1>3, <3>1, <3>2 DEF Core, Agreement
    <2> QED
      BY <2>1, <2>3, <2>4, <2>5, <2>6 DEF Core
  <1>4. CASE /\ project # NoPath /\ slot # NoCall
             /\ call' = [call EXCEPT ![slot].auto = TRUE]
             /\ UNCHANGED <<slot, gaps>>
    <2>1. slot \in Call
      BY <1>4, Types
    <2>2. /\ call' \in [Call -> CallRecord]
          /\ \A c \in Call : /\ call'[c].kind = call[c].kind /\ call'[c].path = call[c].path
                             /\ call'[c].done = call[c].done
      <3> DEFINE r == [call[slot] EXCEPT !.auto = TRUE]
      <3>1. call[slot] \in CallRecord
        BY <2>1, Types
      <3>2. /\ r \in CallRecord /\ r.kind = call[slot].kind /\ r.path = call[slot].path
            /\ r.done = call[slot].done
        BY <3>1 DEF CallRecord
      <3>3. call' = [call EXCEPT ![slot] = r]
        BY <1>4
      <3> HIDE DEF r
      <3> QED
        BY <2>1, <3>2, <3>3, Types
    <2>3. KeepsSent /\ CallsAreSent'
      BY <2>2 DEF KeepsSent, Core, CallsAreSent
    <2>4. ~JustLoaded
      BY <1>4 DEF JustLoaded
    <2>5. /\ AnsweredOnce' /\ Agreement' /\ PushesAreAnswered' /\ Coverage'
          /\ AnswersAreAwaited'
      BY <1>1, <2>3, <2>4, QueuesStay
    <2>6. TypeOK'
      BY <1>1, <1>2, <1>4, <2>2, <2>5, Types, TypesAfter
    <2>7. Moving' <=> Moving
      BY <2>2 DEF Moving
    <2>8. SlotOnTrack' /\ Protection'
      BY <1>1, <1>4, <2>1, <2>2, <2>7 DEF Core, SlotOnTrack, Protection
    <2> QED
      BY <2>3, <2>5, <2>6, <2>8 DEF Core
  <1>5. CASE /\ project # NoPath /\ slot = NoCall /\ HasFreeCall
             /\ slot' = FreeCall
             /\ call' = [call EXCEPT ![FreeCall] = Sent("save", project, TRUE)]
             /\ gaps' = Midway
    <2> DEFINE f == FreeCall
               d == Sent("save", project, TRUE)
    <2>1. f \in Call /\ ~InFlight(f) /\ slot' = f /\ call' = [call EXCEPT ![f] = d]
      BY <1>5, FreeCallIsFree
    <2>2. d \in CallRecord /\ d.kind = "save" /\ d.path = project /\ d.path \in Path /\ ~d.done
      BY <1>5, Types DEF Sent, CallRecord
    <2> HIDE DEF f, d
    <2>3. /\ KeepsSent /\ CallsAreSent' /\ call' \in [Call -> CallRecord]
          /\ call'[f] = d /\ \A c \in Call \ {f} : call'[c] = call[c]
      BY <2>1, <2>2, SendingKeeps
    <2>4. ~JustLoaded
      BY <1>5 DEF JustLoaded
    <2>5. /\ AnsweredOnce' /\ Agreement' /\ PushesAreAnswered' /\ Coverage'
          /\ AnswersAreAwaited'
      BY <1>1, <2>3, <2>4, QueuesStay
    <2>6. Midway \subseteq {"manual", "midway"}
      BY DEF Midway
    <2>7. TypeOK'
      BY <1>1, <1>2, <1>5, <2>1, <2>3, <2>5, <2>6, Types, TypesAfter
    <2>8. Moving' <=> Moving
      BY <2>1, <2>2, <2>3 DEF Moving, InFlight
    <2>9. SlotOnTrack'
      BY <1>1, <1>5, <2>1, <2>2, <2>3, <2>8 DEF SlotOnTrack, Midway
    <2>10. slot' # NoCall
      BY <2>1, Types
    <2> QED
      BY <2>3, <2>5, <2>7, <2>9, <2>10 DEF Core, Protection
  <1> QED
    BY <1>3, <1>4, <1>5 DEF TimerFires

\* The main process closes the project at once: a push and an answer follow
\* what it has sent before.
LEMMA CloseProjectKeeps ==
    ASSUME Core, CloseProject PROVE Core'
  <1>a. PICK f, d, x, y, n : /\ f = FreeCall /\ d = Sent("close", NoPath, FALSE)
                             /\ x = [push |-> NoPath] /\ y = [to |-> f, ok |-> TRUE]
                             /\ n = Len(channel)
    OBVIOUS
  <1>1. /\ project # NoPath
        /\ HasFreeCall /\ requests < MaxRequests /\ requests' = requests + 1
        /\ call' = [call EXCEPT ![f] = d] /\ timer' = FALSE /\ slot' = NoCall
        /\ active' = NoPath /\ chosen' = NoPath
        /\ channel' = channel \o <<x, y>>
        /\ UNCHANGED <<project, dirty, finished, unsaved, overtaken, gaps>>
    BY <1>a DEF CloseProject, Ask, Leave
  <1>2. f \in Call /\ ~InFlight(f)
    BY <1>a, <1>1, FreeCallIsFree
  <1>3. d \in CallRecord /\ d.kind = "close" /\ d.path = NoPath /\ ~d.done
    BY <1>a DEF Sent, CallRecord
  <1>4. /\ x \in Message /\ y \in Message /\ IsPush(x) /\ ~IsPush(y)
        /\ x.push = NoPath /\ y.to = f /\ y.ok
    BY <1>a, <1>2 DEF Message, IsPush
  <1>5. /\ channel' \in Seq(Message) /\ n \in Nat /\ DOMAIN channel = 1 .. n
        /\ DOMAIN channel' = 1 .. n + 2
        /\ \A i \in 1 .. n : channel'[i] = channel[i]
        /\ channel'[n + 1] = x /\ channel'[n + 2] = y
    <2>1. channel \in Seq(Message) /\ n \in Nat /\ DOMAIN channel = 1 .. n
      BY <1>a, Queues DEF Core, TypeOK
    <2>2. <<x, y>> \in Seq(Message) /\ Len(<<x, y>>) = 2
      BY <1>4
    <2>3. PICK t : t = <<x, y>>
      OBVIOUS
    <2>4. t \in Seq(Message) /\ Len(t) = 2 /\ t[1] = x /\ t[2] = y
      BY <2>2, <2>3
    <2>5. /\ channel' \in Seq(Message) /\ DOMAIN channel' = 1 .. n + Len(t)
          /\ \A i \in 1 .. n : channel'[i] = channel[i]
          /\ \A k \in 1 .. Len(t) : channel'[n + k] = t[k]
      BY <1>a, <1>1, <2>1, <2>3, <2>4, ConcatParts
    <2>6. channel'[n + 1] = x /\ channel'[n + 2] = y
      BY <2>4, <2>5
    <2> QED
      BY <2>1, <2>4, <2>5, <2>6
  <1>6. /\ call' \in [Call -> CallRecord]
        /\ call'[f] = d /\ \A c \in Call \ {f} : call'[c] = call[c]
    BY <1>1, <1>2, <1>3, Types
  <1>7. /\ \A i \in 1 .. n : ~IsPush(channel[i]) => channel[i].to \in Call \ {f}
        /\ \A i \in DOMAIN finished : finished[i].to \in Call \ {f}
    BY <1>2, <1>5, Queues
  <1>8. \A i \in 1 .. n :
          /\ IsPush(channel[i])' <=> IsPush(channel[i])
          /\ Settles(channel[i])' <=> Settles(channel[i])
          /\ Target(channel[i])' = Target(channel[i])
          /\ \A p \in Path : /\ Clears(channel[i], p)' <=> Clears(channel[i], p)
                             /\ Marks(channel[i], p)' <=> Marks(channel[i], p)
    BY <1>5, <1>6, <1>7 DEF Settles, Target, Clears, Marks, IsPush
  <1>9. \A i \in DOMAIN finished : \A p \in Path :
           /\ Clears(finished[i], p)' <=> Clears(finished[i], p)
           /\ Marks(finished[i], p)' <=> Marks(finished[i], p)
    BY <1>1, <1>6, <1>7 DEF Clears, Marks
  <1>10. /\ IsPush(channel[n + 1])' /\ ~IsPush(channel[n + 2])'
         /\ Settles(channel[n + 2])' /\ Target(channel[n + 2])' = NoPath
         /\ \A p \in Path : ~Clears(channel[n + 2], p)'
    BY <1>3, <1>4, <1>5, <1>6 DEF Settles, Target, Clears, IsPush
  <1>11. /\ n + 1 \in DOMAIN channel' /\ n + 2 \in DOMAIN channel'
         /\ \A i \in DOMAIN channel' : i \in 1 .. n \/ i = n + 1 \/ i = n + 2
         /\ \A i \in 1 .. n : i \in DOMAIN channel' /\ i < n + 2
         /\ n + 1 < n + 2
    BY <1>5
  <1>12. Moving'
    BY <1>2, <1>3, <1>6 DEF Moving
  <1>13. AnsweredOnce' /\ AnswersAreAwaited'
    <2>1. \A i \in 1 .. n : ~IsPush(channel[i]) =>
             \/ call'[channel[i].to].done
             \/ call'[channel[i].to].kind = "close"
      BY <1>5, <1>6, <1>7 DEF Core, AnsweredOnce
    <2>2. \A i \in DOMAIN channel' : ~IsPush(channel[i])' =>
             (i \in 1 .. n /\ ~IsPush(channel[i]) /\ channel'[i] = channel[i])
             \/ (i = n + 2 /\ channel'[i].to = f)
      BY <1>4, <1>5, <1>8, <1>10, <1>11
    <2>3. \A i \in DOMAIN finished : call'[finished[i].to] = call[finished[i].to]
      BY <1>6, <1>7
    <2>4. AnsweredOnce
      BY DEF Core
    <2>5. AnsweredOnce'
      <3>1. \A i \in DOMAIN finished' : call'[finished'[i].to].done
        BY <1>1, <2>3, <2>4 DEF AnsweredOnce
      <3>2. \A i \in DOMAIN channel' : ~IsPush(channel[i])' =>
               call'[channel'[i].to].done \/ call'[channel'[i].to].kind = "close"
        BY <1>3, <1>6, <2>1, <2>2
      <3>3. \A i, j \in DOMAIN finished' : finished'[i].to = finished'[j].to => i = j
        BY <1>1, <2>4 DEF AnsweredOnce
      <3>4. \A i, j \in DOMAIN channel' :
               ~IsPush(channel[i])' /\ ~IsPush(channel[j])' /\ channel'[i].to = channel'[j].to
                  => i = j
        <4> SUFFICES ASSUME NEW i \in DOMAIN channel', NEW j \in DOMAIN channel',
                            ~IsPush(channel[i])', ~IsPush(channel[j])',
                            channel'[i].to = channel'[j].to
                     PROVE  i = j
          OBVIOUS
        <4>1. CASE i \in 1 .. n /\ j \in 1 .. n
          <5>1. channel[i].to = channel[j].to /\ ~IsPush(channel[i]) /\ ~IsPush(channel[j])
            BY <1>5, <1>8, <4>1
          <5> QED
            BY <1>5, <2>4, <4>1, <5>1 DEF AnsweredOnce
        <4>2. CASE ~(i \in 1 .. n /\ j \in 1 .. n)
          <5>1. (i = n + 2 \/ (i \in 1 .. n /\ channel'[i].to # f))
                /\ (j = n + 2 \/ (j \in 1 .. n /\ channel'[j].to # f))
            BY <1>7, <2>2
          <5>2. channel'[n + 2].to = f
            BY <1>4, <1>5
          <5> QED
            BY <4>2, <5>1, <5>2
        <4> QED
          BY <4>1, <4>2
      <3>5. \A i \in DOMAIN channel', j \in DOMAIN finished' :
               ~IsPush(channel[i])' => channel'[i].to # finished'[j].to
        <4>1. \A i \in 1 .. n, j \in DOMAIN finished :
                 ~IsPush(channel[i]) => channel[i].to # finished[j].to
          BY <1>5, <2>4 DEF AnsweredOnce
        <4>2. \A j \in DOMAIN finished : finished[j].to # f
          BY <1>7
        <4>3. finished' = finished
          BY <1>1
        <4>4. \A i \in DOMAIN channel' : ~IsPush(channel[i])' =>
                 \A j \in DOMAIN finished : channel'[i].to # finished[j].to
          BY <2>2, <4>1, <4>2
        <4> QED
          BY <4>3, <4>4
      <3> QED
        BY <3>1, <3>2, <3>3, <3>4, <3>5 DEF AnsweredOnce
    <2>6. AnswersAreAwaited'
      <3>1. \A i \in DOMAIN finished : call'[finished[i].to].kind # "none"
        BY <2>3, Queues DEF InFlight
      <3>2. \A i \in 1 .. n : ~IsPush(channel[i]) => call'[channel[i].to].kind # "none"
        BY <1>5, <1>6, <1>7, Queues DEF InFlight
      <3>3. call'[f].kind # "none"
        BY <1>3, <1>6
      <3>4. \A i \in DOMAIN channel' : ~IsPush(channel[i])' =>
               call'[channel'[i].to].kind # "none"
        BY <2>2, <3>2, <3>3
      <3> QED
        BY <1>1, <3>1, <3>4 DEF AnswersAreAwaited, InFlight
    <2> QED
      BY <2>5, <2>6
  <1>14. CallsAreSent'
    BY <1>3, <1>6 DEF Core, CallsAreSent
  <1>15. Agreement'
    <2> SUFFICES ASSUME NEW i \in DOMAIN channel'
                 PROVE  \/ Target(channel[i])' = NoPath
                        \/ \E j \in DOMAIN channel' : i < j /\ Settles(channel[j])'
      BY <1>1, <1>10, <1>11 DEF Agreement
    <2>1. CASE i = n + 2
      BY <1>10, <2>1
    <2>2. CASE i # n + 2
      <3>1. n + 2 \in DOMAIN channel' /\ i < n + 2
        BY <1>5, <1>11, <2>2
      <3> QED
        BY <1>10, <3>1
    <2> QED
      BY <2>1, <2>2
  <1>16. PushesAreAnswered'
    <2> SUFFICES ASSUME NEW i \in DOMAIN channel', IsPush(channel[i])',
                        channel'[i].push # NoPath
                 PROVE  \E j \in DOMAIN channel' : i < j /\ Clears(channel[j], channel[i].push)'
      BY DEF PushesAreAnswered
    <2>1. i \in 1 .. n /\ IsPush(channel[i]) /\ channel[i].push # NoPath
          /\ channel'[i] = channel[i]
      BY <1>4, <1>5, <1>8, <1>10, <1>11
    <2>2. ~JustLoaded
      BY <1>1 DEF JustLoaded
    <2>3. PICK j \in 1 .. n : i < j /\ Clears(channel[j], channel[i].push)
      BY <1>5, <2>1, <2>2 DEF Core, PushesAreAnswered
    <2>4. PICK p \in Path : p = channel[i].push
      BY <1>5, <2>1, Queues
    <2>5. Clears(channel[j], p)' /\ j \in DOMAIN channel'
      BY <1>8, <1>11, <2>3, <2>4
    <2>6. channel'[i].push = p
      BY <2>1, <2>4
    <2> QED
      BY <2>3, <2>5, <2>6 DEF Clears
  <1>17. Coverage'
    <2> SUFFICES ASSUME ~overtaken, NEW p \in Path, unsaved[p] PROVE CoveredLater(p)'
      BY <1>1 DEF Coverage
    <2>1. CoveredLater(p)
      BY DEF Core, Coverage
    <2>2. \A i \in DOMAIN channel' : Clears(channel[i], p)' =>
            i \in 1 .. n /\ Clears(channel[i], p)
      BY <1>8, <1>10, <1>11 DEF Clears
    <2>3. \A j \in 1 .. n : Marks(channel[j], p) => j \in DOMAIN channel' /\ Marks(channel[j], p)'
      BY <1>8, <1>11
    <2> QED
      BY <1>1, <1>5, <1>9, <2>1, <2>2, <2>3 DEF CoveredLater, Pending
  <1>18. requests' \in 0 .. MaxRequests
    BY <1>1, Types
  <1>19. TypeOK'
    <2>1. finished' \in Seq(Answer)
      BY <1>1 DEF Core, TypeOK
    <2> QED
      BY <1>1, <1>5, <1>6, <1>13, <1>18, <2>1, Types, TypesAfter
  <1> QED
    BY <1>1, <1>12, <1>13, <1>14, <1>15, <1>16, <1>17, <1>19
    DEF Core, SlotOnTrack, Protection

\* What the bridge did is answered later: an undo is behind all that will show
\* its project as clean, and a save or an opening leaves nothing unsaved.
LEMMA BridgeEndsKeeps ==
    ASSUME Core, NEW c \in Call, NEW ok \in BOOLEAN, BridgeEnds(c, ok) PROVE Core'
  <1>a. PICK m, x : m = Len(finished) /\ x = [to |-> c, ok |-> ok]
    OBVIOUS
  <1>1. /\ call[c].kind \in {"open", "save", "undo"} /\ ~call[c].done
        /\ call' = [call EXCEPT ![c].done = TRUE]
        /\ finished' = Append(finished, x)
        /\ unsaved' = IF ok THEN [unsaved EXCEPT ![call[c].path] = call[c].kind = "undo"]
                      ELSE unsaved
        /\ UNCHANGED <<renderer, active, channel, requests, chosen, overtaken, gaps>>
    BY <1>a DEF BridgeEnds
  <1>2. /\ project' = project /\ dirty' = dirty /\ timer' = timer /\ slot' = slot
        /\ active' = active /\ channel' = channel /\ requests' = requests
        /\ chosen' = chosen /\ overtaken' = overtaken /\ gaps' = gaps
    BY <1>1 DEF renderer
  <1>3. x \in Answer /\ x.to = c /\ x.ok = ok /\ ~IsPush(x)
    BY <1>a DEF Answer, IsPush
  <1>4. /\ finished' \in Seq(Answer) /\ m \in Nat /\ DOMAIN finished = 1 .. m
        /\ DOMAIN finished' = 1 .. m + 1
        /\ \A j \in 1 .. m : finished'[j] = finished[j]
        /\ finished'[m + 1] = x
    <2>1. finished \in Seq(Answer) /\ m \in Nat /\ DOMAIN finished = 1 .. m
      BY <1>a, Queues DEF Core, TypeOK
    <2>2. /\ finished' \in Seq(Answer) /\ Len(finished') = m + 1
          /\ \A j \in 1 .. m : finished'[j] = finished[j]
          /\ finished'[m + 1] = x
      BY <1>a, <1>1, <1>3, <2>1, AppendProperties
    <2> QED
      BY <2>1, <2>2, LenProperties
  <1>5. /\ call' \in [Call -> CallRecord]
        /\ \A e \in Call : /\ call'[e].kind = call[e].kind /\ call'[e].path = call[e].path
                           /\ call[e].done => call'[e].done
                           /\ e # c => call'[e] = call[e]
        /\ call'[c].done
    <2>1. PICK r : r = [call[c] EXCEPT !.done = TRUE]
      OBVIOUS
    <2>2. call[c] \in CallRecord /\ call \in [Call -> CallRecord]
      BY Types
    <2>3. r \in CallRecord /\ r.kind = call[c].kind /\ r.path = call[c].path /\ r.done
      BY <2>1, <2>2 DEF CallRecord
    <2>4. call' = [call EXCEPT ![c] = r]
      BY <1>1, <2>1
    <2> QED
      BY <2>2, <2>3, <2>4
  <1>6. /\ \A i \in DOMAIN channel : ~IsPush(channel[i]) =>
             channel[i].to \in Call /\ channel[i].to # c
        /\ \A j \in DOMAIN finished : finished[j].to \in Call /\ finished[j].to # c
    BY <1>1, Queues DEF Core, AnsweredOnce
  <1>7. /\ \A i \in DOMAIN channel :
              /\ Settles(channel[i])' <=> Settles(channel[i])
              /\ Target(channel[i])' = Target(channel[i])
              /\ \A p \in Path : /\ Clears(channel[i], p)' <=> Clears(channel[i], p)
                                 /\ Marks(channel[i], p)' <=> Marks(channel[i], p)
        /\ \A j \in 1 .. m : \A p \in Path :
              /\ Clears(finished[j], p)' <=> Clears(finished[j], p)
              /\ Marks(finished[j], p)' <=> Marks(finished[j], p)
    BY <1>2, <1>4, <1>5, <1>6 DEF Settles, Target, Clears, Marks
  <1>8. /\ \A p \in Path : Clears(finished[m + 1], p)' =>
              ok /\ call[c].path = p /\ call[c].kind # "undo"
        /\ ok /\ call[c].kind = "undo" => Marks(finished[m + 1], call[c].path)'
    BY <1>3, <1>4, <1>5 DEF Clears, Marks
  <1>9. call[c].path \in Path /\ unsaved \in [Path -> BOOLEAN]
    BY <1>1, Types DEF Core, CallsAreSent
  <1>10. unsaved' \in [Path -> BOOLEAN]
    BY <1>1, <1>9
  <1>11. \A p \in Path : unsaved'[p] =>
            \/ ok /\ p = call[c].path /\ call[c].kind = "undo"
            \/ unsaved[p] /\ ~(ok /\ p = call[c].path)
    BY <1>1, <1>9
  <1>12. AnsweredOnce' /\ AnswersAreAwaited'
    <2>1. AnsweredOnce
      BY DEF Core
    <2>2. \A j \in DOMAIN finished' : /\ j \in 1 .. m + 1
                                      /\ j # m + 1 => j \in DOMAIN finished
                                      /\ j # m + 1 => finished'[j] = finished[j]
      BY <1>4
    <2>3. \A j \in DOMAIN finished' : call'[finished'[j].to].done
      BY <1>3, <1>4, <1>5, <1>6, <2>1, <2>2 DEF AnsweredOnce
    <2>4. \A i \in DOMAIN channel' : ~IsPush(channel[i])' =>
             call'[channel'[i].to].done \/ call'[channel'[i].to].kind = "close"
      BY <1>2, <1>5, <1>6, <2>1 DEF AnsweredOnce
    <2>5. \A i, j \in DOMAIN finished' : finished'[i].to = finished'[j].to => i = j
      BY <1>3, <1>4, <1>6, <2>1, <2>2 DEF AnsweredOnce
    <2>6. \A i \in DOMAIN channel', j \in DOMAIN finished' :
             ~IsPush(channel[i])' => channel'[i].to # finished'[j].to
      BY <1>2, <1>3, <1>4, <1>6, <2>1, <2>2 DEF AnsweredOnce
    <2>7. AnsweredOnce'
      BY <1>2, <2>1, <2>3, <2>4, <2>5, <2>6 DEF AnsweredOnce
    <2>8. AnswersAreAwaited'
      BY <1>1, <1>2, <1>3, <1>4, <1>5, <2>2, Queues DEF AnswersAreAwaited, InFlight
    <2> QED
      BY <2>7, <2>8
  <1>13. CallsAreSent'
    BY <1>1, <1>5 DEF Core, CallsAreSent
  <1>14. TypeOK'
    BY <1>2, <1>4, <1>5, <1>10, <1>12, Types, TypesAfter DEF Core, TypeOK
  <1>15. JustLoaded => JustLoaded'
    BY <1>1, <1>2, <1>5, <1>11 DEF JustLoaded
  <1>16. Agreement'
    BY <1>2, <1>7, <1>15 DEF Core, Agreement
  <1>17. Moving' <=> Moving
    BY <1>5 DEF Moving
  <1>18. SlotOnTrack' /\ Protection'
    BY <1>2, <1>5, <1>17, Types DEF Core, SlotOnTrack, Protection
  <1>19. PushesAreAnswered'
    BY <1>2, <1>7, <1>15, Queues DEF Core, PushesAreAnswered
  <1>20. Coverage'
    <2> SUFFICES ASSUME ~overtaken, NEW p \in Path, unsaved'[p] PROVE CoveredLater(p)'
      BY <1>2 DEF Coverage
    <2>1. m + 1 \in DOMAIN finished' /\ \A j \in 1 .. m : j < m + 1 /\ j \in DOMAIN finished'
      BY <1>4
    <2>2. \A j \in DOMAIN finished' : j \in 1 .. m \/ j = m + 1
      BY <1>4
    <2>3. CASE ok /\ p = call[c].path /\ call[c].kind = "undo"
      <3>1. Marks(finished[m + 1], p)'
        BY <1>3, <1>4, <1>5, <2>3 DEF Marks
      <3>2. ~Clears(finished[m + 1], p)'
        BY <1>8, <2>3
      <3> QED
        BY <2>1, <2>2, <3>1, <3>2 DEF CoveredLater, Pending
    <2>4. CASE unsaved[p] /\ ~(ok /\ p = call[c].path)
      <3>1. CoveredLater(p)
        BY <2>4 DEF Core, Coverage
      <3>2. ~Clears(finished[m + 1], p)'
        BY <1>8, <2>4
      <3>3. \A j \in 1 .. m : Marks(finished[j], p) =>
               j \in DOMAIN finished' /\ Marks(finished[j], p)'
        BY <1>7, <2>1
      <3>4. \A i \in DOMAIN channel' : Clears(channel[i], p)' =>
               \/ \E j \in DOMAIN channel' : i < j /\ Marks(channel[j], p)'
               \/ \E k \in DOMAIN finished' : Marks(finished[k], p)'
        BY <1>2, <1>4, <1>7, <3>1, <3>3 DEF CoveredLater
      <3>5. \A i \in DOMAIN finished' : Clears(finished[i], p)' =>
               \E k \in DOMAIN finished' : i < k /\ Marks(finished[k], p)'
        BY <1>4, <1>7, <2>2, <3>1, <3>2, <3>3 DEF CoveredLater
      <3>6. project' = p => dirty' \/ Pending(p)'
        BY <1>2, <1>4, <1>7, <3>1, <3>3 DEF CoveredLater, Pending
      <3> QED
        BY <3>4, <3>5, <3>6 DEF CoveredLater
    <2> QED
      BY <1>11, <2>3, <2>4
  <1> QED
    BY <1>12, <1>13, <1>14, <1>16, <1>18, <1>19, <1>20 DEF Core

\* The answer of a call goes to the renderer, with the project that is active
\* now announced before it.
LEMMA MainAnswersKeeps ==
    ASSUME Core, MainAnswers PROVE Core'
  <1>1. PICK i \in DOMAIN finished :
          LET a == finished[i]
              told == a.ok /\ Announced(a.to)
              pushed == IF told THEN <<[push |-> call[a.to].path]>> ELSE <<>>
          IN  /\ finished' = RemoveAt(finished, i)
              /\ active' = IF a.ok THEN ActiveAfter(a.to) ELSE active
              /\ channel' = channel \o pushed \o <<a>>
              /\ chosen' = IF a.ok /\ call[a.to].kind = "open" THEN call[a.to].path
                           ELSE chosen
              /\ overtaken' = (overtaken \/ i > 1)
              /\ UNCHANGED <<renderer, call, requests, unsaved, gaps>>
    BY DEF MainAnswers
  <1>2. PICK a, c, q, x, n, m :
          /\ a = finished[i] /\ c = a.to /\ q = call[c].path /\ x = [push |-> q]
          /\ n = Len(channel) /\ m = Len(finished)
    OBVIOUS
  <1>3. PICK told \in BOOLEAN : told <=> (a.ok /\ Announced(c))
    OBVIOUS
  <1>4. PICK pushed : pushed = IF told THEN <<x>> ELSE <<>>
    OBVIOUS
  <1>5. /\ finished' = RemoveAt(finished, i)
        /\ active' = IF a.ok THEN ActiveAfter(c) ELSE active
        /\ channel' = channel \o pushed \o <<a>>
        /\ chosen' = IF a.ok /\ call[c].kind = "open" THEN q ELSE chosen
        /\ overtaken' = (overtaken \/ i > 1)
        /\ UNCHANGED <<renderer, call, requests, unsaved, gaps>>
    BY <1>1, <1>2, <1>3, <1>4
  <1>6. /\ project' = project /\ dirty' = dirty /\ timer' = timer /\ slot' = slot
        /\ call' = call /\ requests' = requests /\ unsaved' = unsaved /\ gaps' = gaps
    BY <1>5 DEF renderer
  <1>7. /\ a \in Answer /\ ~IsPush(a) /\ c \in Call /\ a.ok \in BOOLEAN
        /\ InFlight(c) /\ call[c].done
        /\ call[c].kind \in {"open", "save", "undo"} /\ q \in Path
    BY <1>2, Queues DEF Core, AnsweredOnce, CallsAreSent
  <1>8. x \in Message /\ IsPush(x) /\ x.push = q /\ a \in Message
    BY <1>2, <1>7 DEF Message, IsPush, Answer
  <1>9. /\ n \in Nat /\ m \in Nat /\ DOMAIN channel = 1 .. n /\ DOMAIN finished = 1 .. m
        /\ channel \in Seq(Message) /\ finished \in Seq(Answer) /\ i \in 1 .. m
        /\ n = Len(channel) /\ m = Len(finished)
    BY <1>2, Queues DEF Core, TypeOK
  <1>10. PICK l \in Nat : l = (IF told THEN n + 1 ELSE n) + 1
    BY <1>9
  <1>11. /\ channel' \in Seq(Message) /\ DOMAIN channel' = 1 .. l
         /\ \A j \in 1 .. n : channel'[j] = channel[j]
         /\ told => channel'[n + 1] = x
         /\ channel'[l] = a
    <2>1. PICK s : s = channel \o pushed
      OBVIOUS
    <2>2. /\ s \in Seq(Message) /\ Len(s) = l - 1
          /\ \A j \in 1 .. n : s[j] = channel[j]
          /\ told => s[n + 1] = x
      <3>1. CASE told
        <4>1. pushed \in Seq(Message) /\ Len(pushed) = 1 /\ pushed[1] = x
          BY <1>4, <1>8, <3>1
        <4>2. /\ s \in Seq(Message) /\ Len(s) = n + Len(pushed)
              /\ \A j \in 1 .. n : s[j] = channel[j]
              /\ \A k \in 1 .. Len(pushed) : s[n + k] = pushed[k]
          <5>1. /\ channel \o pushed \in Seq(Message)
                /\ Len(channel \o pushed) = Len(channel) + Len(pushed)
                /\ \A j \in 1 .. Len(channel) : (channel \o pushed)[j] = channel[j]
                /\ \A k \in 1 .. Len(pushed) : (channel \o pushed)[Len(channel) + k] = pushed[k]
            <6>1. channel \in Seq(Message) /\ pushed \in Seq(Message)
              BY <1>9, <4>1
            <6> QED
              BY <6>1, ConcatParts
          <5> QED
            BY <1>9, <2>1, <5>1
        <4>3. s[n + 1] = x
          BY <4>1, <4>2
        <4> QED
          BY <1>9, <1>10, <3>1, <4>1, <4>2, <4>3
      <3>2. CASE ~told
        <4>1. s = channel
          BY <1>4, <1>9, <2>1, <3>2, ConcatEmptySeq
        <4> QED
          BY <1>2, <1>9, <1>10, <3>2, <4>1
      <3> QED
        BY <3>1, <3>2
    <2>3. channel' = Append(s, a)
      <3>1. s \o <<a>> = Append(s, a)
        BY <1>8, <2>2, AppendIsConcat
      <3> QED
        BY <1>5, <2>1, <3>1
    <2>4. /\ channel' \in Seq(Message) /\ Len(channel') = Len(s) + 1
          /\ \A j \in 1 .. Len(s) : channel'[j] = s[j]
          /\ channel'[Len(s) + 1] = a
      BY <1>8, <2>2, <2>3, AppendProperties
    <2>5. DOMAIN channel' = 1 .. l /\ Len(s) + 1 = l
      BY <1>10, <2>2, <2>4, LenProperties
    <2>6. \A j \in 1 .. n : j \in 1 .. Len(s)
      BY <1>9, <1>10, <2>2
    <2>7. told => n + 1 \in 1 .. Len(s)
      BY <1>9, <1>10, <2>2
    <2> QED
      BY <2>2, <2>4, <2>5, <2>6, <2>7
  <1>12. /\ n < l /\ l \in 1 .. l /\ (told => n + 1 < l /\ n + 1 \in 1 .. l)
         /\ \A j \in 1 .. n : j \in 1 .. l /\ j < l
         /\ \A j \in 1 .. l : j \in 1 .. n \/ (told /\ j = n + 1) \/ j = l
    BY <1>9, <1>10
  <1>13. /\ finished' \in Seq(Answer) /\ DOMAIN finished' = 1 .. m - 1
         /\ \A j \in 1 .. m - 1 :
              finished'[j] = IF j < i THEN finished[j] ELSE finished[j + 1]
    <2>1. /\ finished' \in Seq(Answer) /\ Len(finished') = m - 1
          /\ \A j \in 1 .. m - 1 :
               finished'[j] = IF j < i THEN finished[j] ELSE finished[j + 1]
      BY <1>5, <1>9, RemoveAtProperties
    <2> QED
      BY <2>1, LenProperties
  <1>14. ASSUME NEW j \in 1 .. m - 1
         PROVE  \E k \in 1 .. m : k # i /\ finished'[j] = finished[k]
    <2>1. PICK k : k = IF j < i THEN j ELSE j + 1
      OBVIOUS
    <2>2. k \in 1 .. m /\ k # i
      BY <1>9, <2>1
    <2>3. finished'[j] = finished[k]
      BY <1>13, <2>1
    <2> QED
      BY <2>2, <2>3
  <1>15. \A j \in 1 .. n :
           /\ Settles(channel[j])' <=> Settles(channel[j])
           /\ Target(channel[j])' = Target(channel[j])
           /\ IsPush(channel[j])' <=> IsPush(channel[j])
           /\ \A p \in Path : /\ Clears(channel[j], p)' <=> Clears(channel[j], p)
                              /\ Marks(channel[j], p)' <=> Marks(channel[j], p)
    BY <1>6, <1>11 DEF Settles, Target, Clears, Marks, IsPush
  <1>16. /\ ~IsPush(channel[l])' /\ Target(channel[l])' = q
         /\ Settles(channel[l])' <=> (a.ok /\ call[c].kind = "open")
         /\ \A p \in Path :
              /\ Clears(channel[l], p)' <=> (a.ok /\ call[c].kind \in {"save", "open"} /\ q = p)
              /\ Clears(channel[l], p)' <=> Clears(a, p)
              /\ Marks(channel[l], p)' <=> Marks(a, p)
    BY <1>2, <1>6, <1>7, <1>11 DEF Settles, Target, Clears, Marks, IsPush
  <1>17. told => /\ IsPush(channel[n + 1])' /\ Target(channel[n + 1])' = q
                 /\ channel'[n + 1].push = q
    BY <1>8, <1>11 DEF Target, IsPush
  <1>18. AnsweredOnce' /\ AnswersAreAwaited'
    <2>1. AnsweredOnce
      BY DEF Core
    <2>2. \A j \in DOMAIN channel' : ~IsPush(channel[j])' =>
             \/ j \in 1 .. n /\ channel'[j] = channel[j] /\ ~IsPush(channel[j])
                /\ channel[j].to # c
             \/ j = l /\ channel'[j] = a
      <3>1. \A j \in 1 .. n : ~IsPush(channel[j]) => channel[j].to # c
        BY <1>2, <1>9, <2>1 DEF AnsweredOnce
      <3> QED
        BY <1>11, <1>12, <1>15, <1>17, <3>1
    <2>3. \A k \in 1 .. m : k # i => finished[k].to # c
      BY <1>2, <1>9, <2>1 DEF AnsweredOnce
    <2>4. \A j \in DOMAIN finished' : call'[finished'[j].to].done
      BY <1>6, <1>9, <1>13, <1>14, <2>1 DEF AnsweredOnce
    <2>5. \A j \in DOMAIN channel' : ~IsPush(channel[j])' =>
             call'[channel'[j].to].done \/ call'[channel'[j].to].kind = "close"
      BY <1>2, <1>6, <1>7, <1>9, <2>1, <2>2 DEF AnsweredOnce
    <2>6. ASSUME NEW j \in DOMAIN finished', NEW k \in DOMAIN finished',
                 finished'[j].to = finished'[k].to
          PROVE  j = k
      <3>1. PICK j1 \in 1 .. m : /\ j1 = IF j < i THEN j ELSE j + 1
                                 /\ finished'[j] = finished[j1]
        BY <1>9, <1>13
      <3>2. PICK k1 \in 1 .. m : /\ k1 = IF k < i THEN k ELSE k + 1
                                 /\ finished'[k] = finished[k1]
        BY <1>9, <1>13
      <3>3. j1 = k1
        BY <1>9, <2>1, <2>6, <3>1, <3>2 DEF AnsweredOnce
      <3> QED
        BY <1>9, <1>13, <3>1, <3>2, <3>3
    <2>7. ASSUME NEW j \in DOMAIN channel', NEW k \in DOMAIN channel',
                 ~IsPush(channel[j])', ~IsPush(channel[k])', channel'[j].to = channel'[k].to
          PROVE  j = k
      <3>1. CASE j \in 1 .. n /\ k \in 1 .. n
        BY <1>9, <1>11, <1>15, <2>1, <2>7, <3>1 DEF AnsweredOnce
      <3>2. CASE ~(j \in 1 .. n /\ k \in 1 .. n)
        BY <1>2, <1>12, <2>2, <2>7, <3>2
      <3> QED
        BY <3>1, <3>2
    <2>8. ASSUME NEW j \in DOMAIN channel', NEW k \in DOMAIN finished', ~IsPush(channel[j])'
          PROVE  channel'[j].to # finished'[k].to
      <3>1. PICK k1 \in 1 .. m : k1 # i /\ finished'[k] = finished[k1]
        BY <1>13, <1>14
      <3>2. CASE j \in 1 .. n /\ channel'[j] = channel[j] /\ ~IsPush(channel[j])
        BY <1>9, <2>1, <3>1, <3>2 DEF AnsweredOnce
      <3>3. CASE channel'[j] = a
        BY <1>2, <2>3, <3>1, <3>3
      <3> QED
        BY <2>2, <2>8, <3>2, <3>3
    <2>9. AnsweredOnce'
      BY <2>4, <2>5, <2>6, <2>7, <2>8 DEF AnsweredOnce
    <2>10. AnswersAreAwaited'
      <3>1. \A j \in DOMAIN finished' : InFlight(finished'[j].to)
        <4>1. \A k \in 1 .. m : InFlight(finished[k].to)
          BY <1>9, Queues
        <4> QED
          BY <1>13, <1>14, <4>1
      <3>2. \A j \in DOMAIN channel' : ~IsPush(channel[j])' => InFlight(channel'[j].to)
        BY <1>2, <1>7, <1>9, <2>2, Queues
      <3> QED
        BY <1>6, <3>1, <3>2 DEF AnswersAreAwaited, InFlight
    <2> QED
      BY <2>9, <2>10
  <1>19. CallsAreSent'
    BY <1>6 DEF Core, CallsAreSent
  <1>20. /\ a.ok /\ call[c].kind = "open" => active' = q /\ chosen' = q /\ told
         /\ ~(a.ok /\ call[c].kind = "open") => active' = active /\ chosen' = chosen
         /\ told => active' = q
    BY <1>2, <1>3, <1>5 DEF ActiveAfter, Announced
  <1>21. overtaken' \in BOOLEAN /\ active' \in Path \cup {NoPath} /\ chosen' \in Path \cup {NoPath}
    BY <1>5, <1>7, <1>20, Types
  <1>22. TypeOK'
    BY <1>6, <1>11, <1>13, <1>18, <1>21, Types, TypesAfter
  <1>23. JustLoaded => JustLoaded'
    <2> SUFFICES ASSUME JustLoaded PROVE JustLoaded'
      OBVIOUS
    <2>1. n # 0
      BY <1>2, <1>9 DEF JustLoaded
    <2>2. 1 \in 1 .. n /\ IsPush(channel[1])'
      BY <1>9, <1>15, <2>1 DEF JustLoaded
    <2>3. channel' # <<>>
      BY <1>11, <1>12
    <2> QED
      BY <1>6, <2>2, <2>3 DEF JustLoaded
  <1>24. Agreement'
    <2>1. Agreement
      BY DEF Core
    <2>2. chosen' = active'
      BY <1>20, <2>1 DEF Agreement
    <2>3. CASE a.ok /\ call[c].kind = "open"
      <3>1. Settles(channel[l])' /\ Target(channel[l])' = active'
        BY <1>16, <1>20, <2>3
      <3>2. \A j \in DOMAIN channel' : j = l \/ j < l
        BY <1>9, <1>11, <1>12
      <3> QED
        BY <1>11, <1>12, <2>2, <3>1, <3>2 DEF Agreement
    <2>4. CASE ~(a.ok /\ call[c].kind = "open")
      <3>1. active' = active /\ ~Settles(channel[l])'
        BY <1>16, <1>20, <2>4
      <3>2. ASSUME NEW j \in DOMAIN channel', IsPush(channel[j])' \/ Settles(channel[j])'
            PROVE  \/ Target(channel[j])' = active'
                   \/ \E k \in DOMAIN channel' : j < k /\ Settles(channel[k])'
        <4>1. CASE j \in 1 .. n
          <5>1. \/ Target(channel[j]) = active
                \/ \E k \in 1 .. n : j < k /\ Settles(channel[k])
            BY <1>9, <1>15, <2>1, <3>2, <4>1 DEF Agreement
          <5> QED
            BY <1>11, <1>12, <1>15, <3>1, <4>1, <5>1
        <4>2. CASE told /\ j = n + 1
          BY <1>17, <1>20, <4>2
        <4>3. CASE j = l
          BY <1>16, <3>1, <3>2, <4>3
        <4> QED
          BY <1>11, <1>12, <4>1, <4>2, <4>3
      <3>3. \A k \in 1 .. n : Settles(channel[k]) => k \in DOMAIN channel' /\ Settles(channel[k])'
        BY <1>11, <1>12, <1>15
      <3>4. project' = active' \/ JustLoaded' \/ \E k \in DOMAIN channel' : Settles(channel[k])'
        BY <1>6, <1>9, <1>23, <2>1, <3>1, <3>3 DEF Agreement
      <3> QED
        BY <2>2, <3>2, <3>4 DEF Agreement
    <2> QED
      BY <2>3, <2>4
  <1>25. SlotOnTrack'
    BY <1>6 DEF Core, SlotOnTrack, Moving
  <1>26. Protection'
    <2>1. ~Moving => active' = active
      BY <1>7, <1>20 DEF Moving
    <2> QED
      BY <1>6, <2>1 DEF Core, Protection, Moving
  <1>27. PushesAreAnswered'
    <2> SUFFICES ASSUME NEW j \in DOMAIN channel', IsPush(channel[j])', channel'[j].push # NoPath
                 PROVE  \/ \E k \in DOMAIN channel' : j < k /\ Clears(channel[k], channel[j].push)'
                        \/ j = 1 /\ JustLoaded'
      BY DEF PushesAreAnswered
    <2>1. CASE j \in 1 .. n
      <3>1. IsPush(channel[j]) /\ channel[j].push # NoPath /\ channel'[j] = channel[j]
        BY <1>11, <1>15, <2>1
      <3>2. PICK p \in Path : p = channel[j].push
        BY <1>9, <2>1, <3>1, Queues
      <3>3. \/ \E k \in 1 .. n : j < k /\ Clears(channel[k], p)
            \/ j = 1 /\ JustLoaded
        BY <1>9, <2>1, <3>1, <3>2 DEF Core, PushesAreAnswered
      <3>4. \A k \in 1 .. n : Clears(channel[k], p) => k \in DOMAIN channel' /\ Clears(channel[k], p)'
        BY <1>11, <1>12, <1>15
      <3>5. \A k \in 1 .. n : Clears(channel[k], p)' => Clears(channel[k], channel[j].push)'
        BY <3>1, <3>2 DEF Clears
      <3> QED
        BY <1>23, <3>3, <3>4, <3>5
    <2>2. CASE told /\ j = n + 1
      <3>1. a.ok /\ call[c].kind \in {"save", "open"}
        BY <1>3, <2>2 DEF Announced
      <3>2. Clears(channel[l], q)' /\ channel'[j].push = q
        BY <1>7, <1>16, <1>17, <2>2, <3>1
      <3>3. Clears(channel[l], channel[j].push)'
        BY <3>2 DEF Clears
      <3> QED
        BY <1>11, <1>12, <2>2, <3>3
    <2>3. CASE j = l
      BY <1>16, <2>3
    <2> QED
      BY <1>11, <1>12, <2>1, <2>2, <2>3
  <1>28. Coverage'
    <2> SUFFICES ASSUME ~overtaken', NEW p \in Path, unsaved'[p] PROVE CoveredLater(p)'
      BY DEF Coverage
    <2>1. i = 1 /\ ~overtaken
      <3>1. overtaken' = (overtaken \/ i > 1)
        BY <1>5
      <3>2. ~(i > 1) /\ ~overtaken
        BY <3>1
      <3> QED
        BY <1>9, <3>2
    <2>2. CoveredLater(p)
      BY <1>6, <2>1 DEF Core, Coverage
    <2>3. \A j \in 1 .. m - 1 : finished'[j] = finished[j + 1]
      BY <1>9, <1>13, <2>1
    <2>4. \A j \in DOMAIN finished' : j + 1 \in 1 .. m /\ finished'[j] = finished[j + 1]
      BY <1>9, <1>13, <2>3
    <2>5. \A k \in 1 .. m : 1 < k => k - 1 \in DOMAIN finished' /\ finished'[k - 1] = finished[k]
      <3> SUFFICES ASSUME NEW k \in 1 .. m, 1 < k
                   PROVE  k - 1 \in DOMAIN finished' /\ finished'[k - 1] = finished[k]
        OBVIOUS
      <3>1. PICK j \in 1 .. m - 1 : j = k - 1
        BY <1>9
      <3>2. j + 1 = k
        BY <1>9, <3>1
      <3> QED
        BY <1>13, <2>3, <3>1, <3>2
    <2>6. \A k \in 1 .. m : Marks(finished[k], p) =>
             \/ k = 1 /\ Marks(channel[l], p)'
             \/ 1 < k /\ k - 1 \in DOMAIN finished' /\ Marks(finished[k - 1], p)'
      <3> SUFFICES ASSUME NEW k \in 1 .. m, Marks(finished[k], p)
                   PROVE  \/ k = 1 /\ Marks(channel[l], p)'
                          \/ 1 < k /\ k - 1 \in DOMAIN finished' /\ Marks(finished[k - 1], p)'
        OBVIOUS
      <3>1. CASE k = 1
        BY <1>2, <1>16, <2>1, <3>1
      <3>2. CASE 1 < k
        BY <1>6, <2>5, <3>2 DEF Marks
      <3> QED
        BY <1>9, <3>1, <3>2
    <2>7. l \in DOMAIN channel' /\ \A j \in 1 .. n : j \in DOMAIN channel' /\ j < l
      BY <1>11, <1>12
    <2>8. \A j \in 1 .. n : Marks(channel[j], p) => j \in DOMAIN channel' /\ Marks(channel[j], p)'
      BY <1>15, <2>7
    <2>9. ASSUME NEW j \in DOMAIN channel', Clears(channel[j], p)'
          PROVE  \/ \E k \in DOMAIN channel' : j < k /\ Marks(channel[k], p)'
                 \/ \E k \in DOMAIN finished' : Marks(finished[k], p)'
      <3>1. CASE j \in 1 .. n
        <4>1. \/ \E k \in 1 .. n : j < k /\ Marks(channel[k], p)
              \/ \E k \in 1 .. m : Marks(finished[k], p)
          BY <1>9, <1>15, <2>2, <2>9, <3>1 DEF CoveredLater
        <4> QED
          BY <2>6, <2>7, <2>8, <3>1, <4>1
      <3>2. CASE told /\ j = n + 1
        BY <1>17, <2>9, <3>2 DEF Clears, IsPush
      <3>3. CASE j = l
        <4>1. Clears(finished[i], p)
          BY <1>2, <1>16, <2>9, <3>3
        <4>2. PICK k \in 1 .. m : 1 < k /\ Marks(finished[k], p)
          BY <1>9, <2>1, <2>2, <4>1 DEF CoveredLater
        <4> QED
          BY <1>9, <2>6, <4>2
      <3> QED
        BY <1>11, <1>12, <3>1, <3>2, <3>3
    <2>10. ASSUME NEW j \in DOMAIN finished', Clears(finished[j], p)'
           PROVE  \E k \in DOMAIN finished' : j < k /\ Marks(finished[k], p)'
      <3>1. j + 1 \in 1 .. m /\ Clears(finished[j + 1], p) /\ j \in Nat
        BY <1>6, <1>13, <2>4, <2>10 DEF Clears
      <3>2. PICK k \in 1 .. m : j + 1 < k /\ Marks(finished[k], p)
        BY <1>9, <2>2, <3>1 DEF CoveredLater
      <3>3. k # 1 /\ j < k - 1
        BY <1>9, <3>1, <3>2
      <3> QED
        BY <2>6, <3>2, <3>3
    <2>11. project' = p => dirty' \/ Pending(p)'
      <3>1. CASE ~(project = p /\ ~dirty)
        BY <1>6, <3>1
      <3>2. CASE Pending(p)
        <4>1. \/ \E k \in 1 .. n : Marks(channel[k], p)
              \/ \E k \in 1 .. m : Marks(finished[k], p)
          BY <1>9, <3>2 DEF Pending
        <4> QED
          BY <2>6, <2>7, <2>8, <4>1 DEF Pending
      <3> QED
        BY <2>2, <3>1, <3>2 DEF CoveredLater
    <2> QED
      BY <2>9, <2>10, <2>11 DEF CoveredLater
  <1> QED
    BY <1>18, <1>19, <1>22, <1>24, <1>25, <1>26, <1>27, <1>28 DEF Core

-----------------------------------------------------------------------------
(* The first message on its way is delivered. *)

LEMMA Received ==
    ASSUME Core, Receive
    PROVE  /\ 1 \in DOMAIN channel /\ Head(channel) = channel[1]
           /\ channel' \in Seq(Message)
           /\ \A j \in DOMAIN channel' :
                j + 1 \in DOMAIN channel /\ 1 < j + 1 /\ channel'[j] = channel[j + 1]
           /\ \A k \in DOMAIN channel : 1 < k =>
                k - 1 \in DOMAIN channel' /\ channel'[k - 1] = channel[k]
           /\ \A i, j \in DOMAIN channel' : i \in Nat /\ j \in Nat
           /\ \A k \in DOMAIN channel : k \in Nat /\ (k # 1 => 1 < k)
  <1>1. PICK n : n = Len(channel)
    OBVIOUS
  <1>2. channel \in Seq(Message) /\ n \in Nat /\ DOMAIN channel = 1 .. n
    BY <1>1, Queues DEF Core, TypeOK
  <1>3. channel # <<>> /\ channel' = Tail(channel)
    BY DEF Receive
  <1>4. /\ Head(channel) = channel[1] /\ channel' \in Seq(Message)
        /\ Len(channel') = n - 1
        /\ \A j \in 1 .. n - 1 : channel'[j] = channel[j + 1]
    BY <1>1, <1>2, <1>3, HeadTailProperties
  <1>5. DOMAIN channel' = 1 .. n - 1
    BY <1>4, LenProperties
  <1>6. n # 0
    BY <1>1, <1>2, <1>3, EmptySeq
  <1>7. 1 \in DOMAIN channel
    BY <1>2, <1>6
  <1>8. \A j \in DOMAIN channel' :
          j + 1 \in DOMAIN channel /\ 1 < j + 1 /\ channel'[j] = channel[j + 1]
    BY <1>2, <1>4, <1>5
  <1>9. ASSUME NEW k \in DOMAIN channel, 1 < k
        PROVE  k - 1 \in DOMAIN channel' /\ channel'[k - 1] = channel[k]
    <2>1. PICK j \in 1 .. n - 1 : j = k - 1
      BY <1>2, <1>9
    <2>2. j + 1 = k
      BY <1>2, <2>1
    <2> QED
      BY <1>4, <1>5, <2>1, <2>2
  <1> QED
    BY <1>2, <1>4, <1>5, <1>7, <1>8, <1>9

\* An undo of project p whose answer is behind the first message.
PendingBehind(p) ==
    \/ \E k \in DOMAIN channel : 1 < k /\ Marks(channel[k], p)
    \/ \E k \in DOMAIN finished : Marks(finished[k], p)

OthersAwaited ==
    /\ \A k \in DOMAIN channel :
         1 < k /\ ~IsPush(channel[k]) => call'[channel[k].to] = call[channel[k].to]
    /\ \A k \in DOMAIN finished : call'[finished[k].to] = call[finished[k].to]

\* What is behind the first message keeps its order and what it stands for.
LEMMA DeliveryKeeps ==
    ASSUME Core, Receive, OthersAwaited,
           UNCHANGED <<active, finished, unsaved, chosen, overtaken>>,
           project' = active \/ \E k \in DOMAIN channel : 1 < k /\ Settles(channel[k]),
           \A p \in Path : ~overtaken /\ unsaved[p] /\ project' = p
                              => dirty' \/ PendingBehind(p)
    PROVE  /\ AnsweredOnce' /\ Agreement' /\ PushesAreAnswered' /\ Coverage'
           /\ AnswersAreAwaited' /\ channel' \in Seq(Message) /\ finished' \in Seq(Answer)
  <1>1. /\ active' = active /\ finished' = finished /\ unsaved' = unsaved
        /\ chosen' = chosen /\ overtaken' = overtaken
    OBVIOUS
  <1>2. /\ channel' \in Seq(Message)
        /\ \A j \in DOMAIN channel' :
             j + 1 \in DOMAIN channel /\ 1 < j + 1 /\ channel'[j] = channel[j + 1]
        /\ \A k \in DOMAIN channel : 1 < k =>
             k - 1 \in DOMAIN channel' /\ channel'[k - 1] = channel[k]
        /\ \A i, j \in DOMAIN channel' : i \in Nat /\ j \in Nat
        /\ \A k \in DOMAIN channel : k \in Nat
    BY Received
  <1>3. \A j \in DOMAIN channel' :
          /\ IsPush(channel[j])' <=> IsPush(channel[j + 1])
          /\ ~IsPush(channel[j])' => /\ call'[channel'[j].to] = call[channel[j + 1].to]
                                     /\ channel'[j].to = channel[j + 1].to
          /\ Settles(channel[j])' <=> Settles(channel[j + 1])
          /\ Target(channel[j])' = Target(channel[j + 1])
          /\ \A p \in Path : /\ Clears(channel[j], p)' <=> Clears(channel[j + 1], p)
                             /\ Marks(channel[j], p)' <=> Marks(channel[j + 1], p)
    BY <1>2 DEF OthersAwaited, Settles, Target, Clears, Marks, IsPush
  <1>4. \A k \in DOMAIN channel : 1 < k =>
          /\ k - 1 \in DOMAIN channel'
          /\ Settles(channel[k]) => Settles(channel[k - 1])'
          /\ \A p \in Path : /\ Clears(channel[k], p) => Clears(channel[k - 1], p)'
                             /\ Marks(channel[k], p) => Marks(channel[k - 1], p)'
    BY <1>2 DEF OthersAwaited, Settles, Clears, Marks, IsPush
  <1>5. \A k \in DOMAIN finished : \A p \in Path :
          /\ Clears(finished[k], p)' <=> Clears(finished[k], p)
          /\ Marks(finished[k], p)' <=> Marks(finished[k], p)
    BY <1>1 DEF OthersAwaited, Clears, Marks
  <1>6. \A j \in DOMAIN channel', k \in DOMAIN channel : j + 1 < k => 1 < k /\ j < k - 1
    BY <1>2
  <1>7. AnsweredOnce'
    <2>1. AnsweredOnce
      BY DEF Core
    <2>2. \A j \in DOMAIN finished' : call'[finished'[j].to].done
      BY <1>1, <2>1 DEF AnsweredOnce, OthersAwaited
    <2>3. \A j \in DOMAIN channel' : ~IsPush(channel[j])' =>
             call'[channel'[j].to].done \/ call'[channel'[j].to].kind = "close"
      BY <1>2, <1>3, <2>1 DEF AnsweredOnce
    <2>4. ASSUME NEW j \in DOMAIN channel', NEW k \in DOMAIN channel',
                 ~IsPush(channel[j])', ~IsPush(channel[k])', channel'[j].to = channel'[k].to
          PROVE  j = k
      <3>1. j + 1 = k + 1
        BY <1>2, <1>3, <2>1, <2>4 DEF AnsweredOnce
      <3> QED
        BY <1>2, <3>1
    <2>5. \A j \in DOMAIN channel', k \in DOMAIN finished' :
             ~IsPush(channel[j])' => channel'[j].to # finished'[k].to
      BY <1>1, <1>2, <1>3, <2>1 DEF AnsweredOnce
    <2> QED
      BY <1>1, <2>1, <2>2, <2>3, <2>4, <2>5 DEF AnsweredOnce
  <1>8. AnswersAreAwaited'
    <2>1. \A k \in DOMAIN finished : call'[finished[k].to].kind # "none"
      BY Queues DEF OthersAwaited, InFlight
    <2>2. ASSUME NEW j \in DOMAIN channel', ~IsPush(channel[j])'
          PROVE  call'[channel'[j].to].kind # "none"
      <3>1. j + 1 \in DOMAIN channel /\ ~IsPush(channel[j + 1])
        BY <1>2, <1>3, <2>2
      <3>2. call[channel[j + 1].to].kind # "none"
        BY <3>1, Queues DEF InFlight
      <3> QED
        BY <1>2, <1>3, <2>2, <3>2
    <2> QED
      BY <1>1, <2>1, <2>2 DEF AnswersAreAwaited, InFlight
  <1>9. Agreement'
    <2>1. Agreement
      BY DEF Core
    <2>2. ASSUME NEW j \in DOMAIN channel', IsPush(channel[j])' \/ Settles(channel[j])'
          PROVE  \/ Target(channel[j])' = active'
                 \/ \E k \in DOMAIN channel' : j < k /\ Settles(channel[k])'
      <3>1. j + 1 \in DOMAIN channel /\ (IsPush(channel[j + 1]) \/ Settles(channel[j + 1]))
        BY <1>2, <1>3, <2>2
      <3>2. CASE Target(channel[j + 1]) = active
        BY <1>1, <1>3, <3>2
      <3>3. CASE Target(channel[j + 1]) # active
        <4>1. PICK k \in DOMAIN channel : j + 1 < k /\ Settles(channel[k])
          BY <2>1, <3>1, <3>3 DEF Agreement
        <4> QED
          BY <1>4, <1>6, <4>1
      <3> QED
        BY <3>2, <3>3
    <2>3. project' = active' \/ \E k \in DOMAIN channel' : Settles(channel[k])'
      BY <1>1, <1>4
    <2> QED
      BY <1>1, <2>1, <2>2, <2>3 DEF Agreement
  <1>10. PushesAreAnswered'
    <2> SUFFICES ASSUME NEW j \in DOMAIN channel', IsPush(channel[j])', channel'[j].push # NoPath
                 PROVE  \E k \in DOMAIN channel' : j < k /\ Clears(channel[k], channel[j].push)'
      BY DEF PushesAreAnswered
    <2>1. /\ j + 1 \in DOMAIN channel /\ j + 1 # 1
          /\ IsPush(channel[j + 1]) /\ channel[j + 1].push # NoPath
      BY <1>2, <1>3
    <2>2. PICK p \in Path : p = channel[j + 1].push /\ p = channel'[j].push
      BY <1>2, <2>1, Queues
    <2>3. PICK k \in DOMAIN channel : j + 1 < k /\ Clears(channel[k], p)
      BY <2>1, <2>2 DEF Core, PushesAreAnswered
    <2>4. k - 1 \in DOMAIN channel' /\ j < k - 1 /\ Clears(channel[k - 1], p)'
      BY <1>4, <1>6, <2>3
    <2>5. Clears(channel[k - 1], channel[j].push)'
      BY <2>2, <2>4 DEF Clears
    <2> QED
      BY <2>4, <2>5
  <1>11. Coverage'
    <2> SUFFICES ASSUME ~overtaken, NEW p \in Path, unsaved[p] PROVE CoveredLater(p)'
      BY <1>1 DEF Coverage
    <2>1. CoveredLater(p)
      BY DEF Core, Coverage
    <2>2. ASSUME NEW j \in DOMAIN channel', Clears(channel[j], p)'
          PROVE  \/ \E k \in DOMAIN channel' : j < k /\ Marks(channel[k], p)'
                 \/ \E k \in DOMAIN finished' : Marks(finished[k], p)'
      <3>1. j + 1 \in DOMAIN channel /\ Clears(channel[j + 1], p)
        BY <1>2, <1>3, <2>2
      <3>2. CASE \E k \in DOMAIN channel : j + 1 < k /\ Marks(channel[k], p)
        BY <1>4, <1>6, <3>2
      <3>3. CASE \E k \in DOMAIN finished : Marks(finished[k], p)
        BY <1>1, <1>5, <3>3
      <3> QED
        BY <2>1, <3>1, <3>2, <3>3 DEF CoveredLater
    <2>3. \A i \in DOMAIN finished' : Clears(finished[i], p)' =>
             \E k \in DOMAIN finished' : i < k /\ Marks(finished[k], p)'
      BY <1>1, <1>5, <2>1 DEF CoveredLater
    <2>4. project' = p => dirty' \/ Pending(p)'
      <3> SUFFICES ASSUME PendingBehind(p) PROVE Pending(p)'
        OBVIOUS
      <3>1. CASE \E k \in DOMAIN channel : 1 < k /\ Marks(channel[k], p)
        BY <1>4, <3>1 DEF Pending
      <3>2. CASE \E k \in DOMAIN finished : Marks(finished[k], p)
        BY <1>1, <1>5, <3>2 DEF Pending
      <3> QED
        BY <3>1, <3>2 DEF PendingBehind
    <2> QED
      BY <2>2, <2>3, <2>4 DEF CoveredLater
  <1>12. finished' \in Seq(Answer)
    BY <1>1 DEF Core, TypeOK
  <1> QED
    BY <1>2, <1>7, <1>8, <1>9, <1>10, <1>11, <1>12

\* The answer of a call ends it, and its parts in the invariant.
LEMMA ReplyKeeps ==
    ASSUME Core, NEW kinds, NEW ok \in BOOLEAN, Reply(kinds, ok), kinds \subseteq {"open", "close", "save", "undo"}
    PROVE  /\ Receive /\ OthersAwaited /\ CallsAreSent' /\ call' \in [Call -> CallRecord]
           /\ UNCHANGED <<active, finished, requests, unsaved, chosen, overtaken>>
           /\ Head(channel) = channel[1] /\ 1 \in DOMAIN channel
           /\ ~IsPush(channel[1]) /\ channel[1].ok = ok
           /\ channel[1].to \in Call /\ call[channel[1].to].kind \in kinds
           /\ call'[channel[1].to] = Idle
           /\ \A e \in Call \ {channel[1].to} : call'[e] = call[e]
           /\ ~JustLoaded
           /\ Moving' => Moving
           /\ \A k \in DOMAIN channel : k # 1 => 1 < k
  <1>1. PICK c : c = Head(channel).to
    OBVIOUS
  <1>2. /\ Receive /\ ~IsPush(Head(channel)) /\ Head(channel).ok = ok
        /\ call[c].kind \in kinds /\ call' = [call EXCEPT ![c] = Idle]
        /\ UNCHANGED <<active, finished, requests, unsaved, chosen, overtaken>>
    BY <1>1 DEF Reply, Returned
  <1>3. /\ Head(channel) = channel[1] /\ 1 \in DOMAIN channel
        /\ \A k \in DOMAIN channel : k \in Nat /\ (k # 1 => 1 < k)
    BY <1>2, Received
  <1>4. c \in Call /\ c = channel[1].to /\ ~IsPush(channel[1])
    BY <1>1, <1>2, <1>3, Queues
  <1>5. Idle \in CallRecord /\ Idle.kind = "none" /\ ~Idle.done
    BY DEF Idle, CallRecord
  <1>6. /\ call' \in [Call -> CallRecord] /\ call'[c] = Idle
        /\ \A e \in Call \ {c} : call'[e] = call[e]
    BY <1>2, <1>4, <1>5, Types
  <1>7. OthersAwaited
    <2>1. \A k \in DOMAIN channel : 1 < k /\ ~IsPush(channel[k]) => channel[k].to \in Call \ {c}
      BY <1>3, <1>4, Queues DEF Core, AnsweredOnce
    <2>2. \A k \in DOMAIN finished : finished[k].to \in Call \ {c}
      BY <1>3, <1>4, Queues DEF Core, AnsweredOnce
    <2> QED
      BY <1>6, <2>1, <2>2 DEF OthersAwaited
  <1>8. CallsAreSent'
    BY <1>5, <1>6 DEF Core, CallsAreSent
  <1>9. ~JustLoaded
    BY <1>4 DEF JustLoaded
  <1>10. Moving' => Moving
    BY <1>5, <1>6 DEF Moving
  <1> QED
    BY <1>2, <1>3, <1>4, <1>6, <1>7, <1>8, <1>9, <1>10

\* No transition is under way and nothing of it is on its way: the renderer is
\* at the active project.
LEMMA Settled ==
    ASSUME Core, ~JustLoaded, ~Moving PROVE project = active
  <1>1. \A k \in DOMAIN channel : ~Settles(channel[k])
    BY Queues DEF Settles, Moving
  <1> QED
    BY <1>1 DEF Core, Agreement

\* A reply that moves the renderer nowhere.
LEMMA StaysOnTheWay ==
    ASSUME Core, NEW kinds, NEW ok \in BOOLEAN, Reply(kinds, ok),
           kinds \subseteq {"open", "close", "save", "undo"},
           ~ok \/ kinds \subseteq {"save", "undo"}, project' = project
    PROVE  project' = active \/ \E k \in DOMAIN channel : 1 < k /\ Settles(channel[k])
  <1>1. /\ ~JustLoaded /\ channel[1].ok = ok /\ call[channel[1].to].kind \in kinds
        /\ \A k \in DOMAIN channel : k # 1 => 1 < k
    BY ReplyKeeps
  <1>2. ~Settles(channel[1])
    BY <1>1 DEF Settles
  <1> QED
    BY <1>1, <1>2 DEF Core, Agreement

LEMMA PushedKeeps ==
    ASSUME Core, Pushed PROVE Core'
  <1>1. /\ Receive /\ IsPush(Head(channel)) /\ project' = Head(channel).push
        /\ UNCHANGED <<dirty, timer, slot, active, call, finished, requests, unsaved,
                       chosen, overtaken, gaps>>
    BY DEF Pushed
  <1>2. /\ 1 \in DOMAIN channel /\ IsPush(channel[1]) /\ project' = channel[1].push
        /\ project' \in Path \cup {NoPath}
    BY <1>1, Received, Queues
  <1>3. OthersAwaited
    BY <1>1 DEF OthersAwaited
  <1>4. project' = active \/ \E k \in DOMAIN channel : 1 < k /\ Settles(channel[k])
    BY <1>2 DEF Core, Agreement, Target
  <1>5. ASSUME NEW p \in Path, ~overtaken, unsaved[p], project' = p
        PROVE  PendingBehind(p)
    <2>1. PICK k \in DOMAIN channel : 1 < k /\ Clears(channel[k], p)
      BY <1>2, <1>5, Types DEF Core, PushesAreAnswered, JustLoaded
    <2>2. CoveredLater(p)
      BY <1>5 DEF Core, Coverage
    <2>3. k \in Nat /\ \A j \in DOMAIN channel : j \in Nat
      BY <1>1, Received
    <2>4. \/ \E j \in DOMAIN channel : 1 < j /\ Marks(channel[j], p)
          \/ \E j \in DOMAIN finished : Marks(finished[j], p)
      BY <2>1, <2>2, <2>3 DEF CoveredLater
    <2> QED
      BY <2>4 DEF PendingBehind
  <1>6. /\ AnsweredOnce' /\ Agreement' /\ PushesAreAnswered' /\ Coverage'
        /\ AnswersAreAwaited' /\ channel' \in Seq(Message) /\ finished' \in Seq(Answer)
    BY <1>1, <1>3, <1>4, <1>5, DeliveryKeeps
  <1>7. TypeOK'
    BY <1>1, <1>2, <1>6, Types, TypesAfter
  <1>8. CallsAreSent' /\ (Moving' <=> Moving)
    BY <1>1 DEF Core, CallsAreSent, Moving
  <1>9. ~Moving => project' = active
    BY <1>4, Queues DEF Settles, Moving
  <1>10. SlotOnTrack'
    <2> SUFFICES ASSUME slot # NoCall
                 PROVE  /\ call[slot].kind = "save"
                        /\ call[slot].path = project' \/ "midway" \in gaps
                        /\ Moving => "midway" \in gaps
      BY <1>1, <1>8 DEF SlotOnTrack
    <2>1. /\ call[slot].kind = "save" /\ slot \in Call
          /\ call[slot].path = project \/ "midway" \in gaps
          /\ Moving => "midway" \in gaps
      BY Types DEF Core, SlotOnTrack
    <2>2. ~JustLoaded
      BY <2>1 DEF JustLoaded
    <2>3. ~Moving => project' = project
      BY <1>9, <2>2, Settled
    <2> QED
      BY <2>1, <2>3
  <1>11. Protection'
    <2> SUFFICES ASSUME dirty, ~timer, slot = NoCall, ~Moving, gaps = {}
                 PROVE  project' = NoPath /\ active = NoPath
      BY <1>1, <1>8 DEF Protection
    <2> QED
      BY <1>9 DEF Core, Protection
  <1> QED
    BY <1>6, <1>7, <1>8, <1>10, <1>11 DEF Core

LEMMA MovedKeeps ==
    ASSUME Core, Moved PROVE Core'
  <1>1. PICK c : c = channel[1].to
    OBVIOUS
  <1>2. /\ Receive /\ OthersAwaited /\ CallsAreSent' /\ call' \in [Call -> CallRecord]
        /\ UNCHANGED <<active, finished, requests, unsaved, chosen, overtaken>>
        /\ Head(channel) = channel[1] /\ 1 \in DOMAIN channel
        /\ ~IsPush(channel[1]) /\ channel[1].ok
        /\ c \in Call /\ call[c].kind \in {"open", "close"}
        /\ \A e \in Call \ {c} : call'[e] = call[e]
    BY <1>1, ReplyKeeps DEF Moved
  <1>3. /\ project' = call[c].path /\ dirty' = FALSE /\ timer' = timer /\ slot' = slot
        /\ gaps' = IF slot = NoCall THEN {} ELSE gaps \ {"manual"}
    BY <1>1, <1>2 DEF Moved
  <1>4. Settles(channel[1]) /\ Target(channel[1]) = call[c].path
    BY <1>1, <1>2 DEF Settles, Target
  <1>5. project' = active \/ \E k \in DOMAIN channel : 1 < k /\ Settles(channel[k])
    BY <1>2, <1>3, <1>4 DEF Core, Agreement
  <1>6. ASSUME NEW p \in Path, ~overtaken, unsaved[p], project' = p
        PROVE  PendingBehind(p)
    <2>1. call[c].kind = "open"
      <3>1. call[c].kind = "close" => call[c].path = NoPath
        BY <1>2 DEF Core, CallsAreSent
      <3> QED
        BY <1>2, <1>3, <1>6, <3>1, SessionAssumption
    <2>2. Clears(channel[1], p)
      BY <1>1, <1>2, <1>3, <1>6, <2>1 DEF Clears
    <2>3. CoveredLater(p)
      BY <1>6 DEF Core, Coverage
    <2> QED
      BY <1>2, <2>2, <2>3 DEF CoveredLater, PendingBehind
  <1>7. /\ AnsweredOnce' /\ Agreement' /\ PushesAreAnswered' /\ Coverage'
        /\ AnswersAreAwaited' /\ channel' \in Seq(Message) /\ finished' \in Seq(Answer)
    BY <1>2, <1>5, <1>6, DeliveryKeeps
  <1>8. project' \in Path \cup {NoPath} /\ gaps' \subseteq {"manual", "midway"}
    BY <1>2, <1>3, Types DEF Core, CallsAreSent
  <1>9. TypeOK'
    BY <1>2, <1>3, <1>7, <1>8, Types, TypesAfter
  <1>10. SlotOnTrack'
    <2> SUFFICES ASSUME slot # NoCall PROVE call'[slot].kind = "save" /\ "midway" \in gaps'
      BY <1>3 DEF SlotOnTrack
    <2>1. Moving
      BY <1>2 DEF Moving
    <2>2. call[slot].kind = "save" /\ slot \in Call /\ "midway" \in gaps
      BY <2>1, Types DEF Core, SlotOnTrack
    <2>3. slot # c
      BY <1>2, <2>2
    <2> QED
      BY <1>2, <1>3, <2>2, <2>3
  <1>11. Protection'
    BY <1>3 DEF Protection
  <1> QED
    BY <1>2, <1>7, <1>9, <1>10, <1>11 DEF Core

LEMMA NotMovedKeeps ==
    ASSUME Core, NotMoved PROVE Core'
  <1>1. PICK c : c = channel[1].to
    OBVIOUS
  <1>2. Reply({"open"}, FALSE) /\ UNCHANGED <<project, dirty, slot, gaps>>
        /\ timer' = (timer \/ dirty)
    BY DEF NotMoved
  <1>3. /\ Receive /\ OthersAwaited /\ CallsAreSent' /\ call' \in [Call -> CallRecord]
        /\ UNCHANGED <<active, finished, requests, unsaved, chosen, overtaken>>
        /\ 1 \in DOMAIN channel /\ ~channel[1].ok
        /\ c \in Call /\ call[c].kind = "open"
        /\ \A e \in Call \ {c} : call'[e] = call[e]
        /\ \A k \in DOMAIN channel : k # 1 => 1 < k
        /\ Moving' => Moving
    <2>1. {"open"} \subseteq {"open", "close", "save", "undo"}
      OBVIOUS
    <2>2. /\ Receive /\ OthersAwaited /\ CallsAreSent' /\ call' \in [Call -> CallRecord]
          /\ UNCHANGED <<active, finished, requests, unsaved, chosen, overtaken>>
          /\ Head(channel) = channel[1] /\ 1 \in DOMAIN channel
          /\ ~IsPush(channel[1]) /\ channel[1].ok = FALSE
          /\ c \in Call /\ call[c].kind \in {"open"}
          /\ \A e \in Call \ {c} : call'[e] = call[e]
          /\ ~JustLoaded
          /\ Moving' => Moving
          /\ \A k \in DOMAIN channel : k # 1 => 1 < k
      BY <1>1, <1>2, <2>1, ReplyKeeps
    <2> QED
      BY <2>2
  <1>4. project' = active \/ \E k \in DOMAIN channel : 1 < k /\ Settles(channel[k])
    BY <1>2, StaysOnTheWay
  <1>5. \A p \in Path : ~overtaken /\ unsaved[p] /\ project' = p => dirty' \/ PendingBehind(p)
    BY <1>2, <1>3 DEF Core, Coverage, CoveredLater, Pending, PendingBehind, Marks
  <1>6. /\ AnsweredOnce' /\ Agreement' /\ PushesAreAnswered' /\ Coverage'
        /\ AnswersAreAwaited' /\ channel' \in Seq(Message) /\ finished' \in Seq(Answer)
    BY <1>3, <1>4, <1>5, DeliveryKeeps
  <1>7. timer' \in BOOLEAN
    BY <1>2
  <1>8. TypeOK'
    BY <1>2, <1>3, <1>6, <1>7, Types, TypesAfter
  <1>9. SlotOnTrack'
    <2>1. slot # NoCall => slot \in Call \ {c}
      BY <1>3, Types DEF Core, SlotOnTrack
    <2> QED
      BY <1>2, <1>3, <2>1 DEF Core, SlotOnTrack
  <1>10. Protection'
    BY <1>2 DEF Protection
  <1> QED
    BY <1>3, <1>6, <1>8, <1>9, <1>10 DEF Core

LEMMA SavedKeeps ==
    ASSUME Core, Saved PROVE Core'
  <1>1. PICK c : c = channel[1].to
    OBVIOUS
  <1>2. Reply({"save"}, TRUE) /\ project' = project
    BY DEF Saved
  <1>3. /\ Receive /\ OthersAwaited /\ CallsAreSent' /\ call' \in [Call -> CallRecord]
        /\ UNCHANGED <<active, finished, requests, unsaved, chosen, overtaken>>
        /\ Head(channel) = channel[1] /\ 1 \in DOMAIN channel
        /\ ~IsPush(channel[1]) /\ channel[1].ok
        /\ c \in Call /\ call[c].kind = "save"
        /\ \A e \in Call \ {c} : call'[e] = call[e]
        /\ \A k \in DOMAIN channel : k # 1 => 1 < k
        /\ Moving' => Moving
    <2>1. {"save"} \subseteq {"open", "close", "save", "undo"}
      OBVIOUS
    <2>2. /\ Receive /\ OthersAwaited /\ CallsAreSent' /\ call' \in [Call -> CallRecord]
          /\ UNCHANGED <<active, finished, requests, unsaved, chosen, overtaken>>
          /\ Head(channel) = channel[1] /\ 1 \in DOMAIN channel
          /\ ~IsPush(channel[1]) /\ channel[1].ok = TRUE
          /\ c \in Call /\ call[c].kind \in {"save"}
          /\ \A e \in Call \ {c} : call'[e] = call[e]
          /\ ~JustLoaded
          /\ Moving' => Moving
          /\ \A k \in DOMAIN channel : k # 1 => 1 < k
      BY <1>1, <1>2, <2>1, ReplyKeeps
    <2> QED
      BY <2>2
  <1>4. PICK current \in BOOLEAN : current <=> call[c].path = project
    OBVIOUS
  <1>5. /\ slot' = SlotAfter(c)
        /\ dirty' = (dirty /\ ~current) /\ timer' = (timer /\ ~current)
        /\ gaps' = IF current /\ slot' = NoCall THEN {} ELSE gaps
    BY <1>1, <1>3, <1>4 DEF Saved
  <1>6. slot' \in Call \cup {NoCall} /\ slot' # c /\ (slot # c => slot' = slot)
        /\ (slot = c => slot' = NoCall)
    BY <1>3, <1>5, Types DEF SlotAfter
  <1>7. project' = active \/ \E k \in DOMAIN channel : 1 < k /\ Settles(channel[k])
    BY <1>2, StaysOnTheWay
  <1>8. ASSUME NEW p \in Path, ~overtaken, unsaved[p], project' = p
        PROVE  dirty' \/ PendingBehind(p)
    <2>1. CoveredLater(p)
      BY <1>8 DEF Core, Coverage
    <2>2. CASE current
      <3>1. Clears(channel[1], p)
        BY <1>1, <1>2, <1>3, <1>4, <1>8, <2>2 DEF Clears
      <3> QED
        BY <1>3, <2>1, <3>1 DEF CoveredLater, PendingBehind
    <2>3. CASE ~current
      <3>1. ~Marks(channel[1], p)
        BY <1>1, <1>3 DEF Marks
      <3>2. dirty' <=> dirty
        BY <1>5, <2>3
      <3> QED
        BY <1>2, <1>3, <1>8, <2>1, <3>1, <3>2 DEF CoveredLater, Pending, PendingBehind
    <2> QED
      BY <2>2, <2>3
  <1>9. /\ AnsweredOnce' /\ Agreement' /\ PushesAreAnswered' /\ Coverage'
        /\ AnswersAreAwaited' /\ channel' \in Seq(Message) /\ finished' \in Seq(Answer)
    BY <1>3, <1>7, <1>8, DeliveryKeeps
  <1>10. dirty' \in BOOLEAN /\ timer' \in BOOLEAN /\ gaps' \subseteq {"manual", "midway"}
    BY <1>5, Types
  <1>11. TypeOK'
    BY <1>2, <1>3, <1>6, <1>9, <1>10, Types, TypesAfter
  <1>12. SlotOnTrack'
    <2> SUFFICES ASSUME slot' # NoCall
                 PROVE  /\ call'[slot'].kind = "save"
                        /\ call'[slot'].path = project \/ "midway" \in gaps
                        /\ Moving => "midway" \in gaps
      BY <1>2, <1>3, <1>5 DEF SlotOnTrack
    <2>1. slot' = slot /\ slot \in Call \ {c} /\ slot # NoCall
      BY <1>6, Types
    <2> QED
      BY <1>3, <2>1 DEF Core, SlotOnTrack
  <1>13. Moving => Moving'
    BY <1>3 DEF Moving
  <1>14. Protection'
    <2> SUFFICES ASSUME dirty', ~timer', slot' = NoCall, ~Moving', gaps' = {}
                 PROVE  project = NoPath /\ active = NoPath
      BY <1>2, <1>3 DEF Protection
    <2>1. dirty /\ ~current
      BY <1>5
    <2>2. ~timer /\ gaps = {} /\ ~Moving
      BY <1>5, <1>13, <2>1
    <2>3. slot = NoCall
      <3>1. slot # c
        BY <1>3, <1>4, <2>1, <2>2, Types DEF Core, SlotOnTrack
      <3> QED
        BY <1>6, <3>1
    <2> QED
      BY <2>1, <2>2, <2>3 DEF Core, Protection
  <1> QED
    BY <1>3, <1>9, <1>11, <1>12, <1>14 DEF Core

LEMMA NotSavedKeeps ==
    ASSUME Core, NotSaved PROVE Core'
  <1>1. PICK c : c = channel[1].to
    OBVIOUS
  <1>2. Reply({"save"}, FALSE) /\ project' = project /\ dirty' = dirty
    BY DEF NotSaved
  <1>3. /\ Receive /\ OthersAwaited /\ CallsAreSent' /\ call' \in [Call -> CallRecord]
        /\ UNCHANGED <<active, finished, requests, unsaved, chosen, overtaken>>
        /\ Head(channel) = channel[1] /\ 1 \in DOMAIN channel
        /\ ~IsPush(channel[1]) /\ ~channel[1].ok
        /\ c \in Call /\ call[c].kind = "save"
        /\ \A e \in Call \ {c} : call'[e] = call[e]
        /\ \A k \in DOMAIN channel : k # 1 => 1 < k
        /\ ~JustLoaded
        /\ Moving' => Moving
    <2>1. {"save"} \subseteq {"open", "close", "save", "undo"}
      OBVIOUS
    <2>2. /\ Receive /\ OthersAwaited /\ CallsAreSent' /\ call' \in [Call -> CallRecord]
          /\ UNCHANGED <<active, finished, requests, unsaved, chosen, overtaken>>
          /\ Head(channel) = channel[1] /\ 1 \in DOMAIN channel
          /\ ~IsPush(channel[1]) /\ channel[1].ok = FALSE
          /\ c \in Call /\ call[c].kind \in {"save"}
          /\ \A e \in Call \ {c} : call'[e] = call[e]
          /\ ~JustLoaded
          /\ Moving' => Moving
          /\ \A k \in DOMAIN channel : k # 1 => 1 < k
      BY <1>1, <1>2, <2>1, ReplyKeeps
    <2> QED
      BY <2>2
  <1>4. /\ slot' = SlotAfter(c)
        /\ timer' = (timer \/ (call[c].auto /\ dirty /\ project # NoPath))
        /\ gaps' = IF call[c].auto THEN gaps ELSE gaps \cup {"manual"}
    BY <1>1, <1>3 DEF NotSaved
  <1>5. slot' \in Call \cup {NoCall} /\ slot' # c /\ (slot # c => slot' = slot)
        /\ (slot = c => slot' = NoCall)
    BY <1>3, <1>4, Types DEF SlotAfter
  <1>6. project' = active \/ \E k \in DOMAIN channel : 1 < k /\ Settles(channel[k])
    BY <1>2, StaysOnTheWay
  <1>7. \A p \in Path : ~overtaken /\ unsaved[p] /\ project' = p => dirty' \/ PendingBehind(p)
    BY <1>2, <1>3 DEF Core, Coverage, CoveredLater, Pending, PendingBehind, Marks
  <1>8. /\ AnsweredOnce' /\ Agreement' /\ PushesAreAnswered' /\ Coverage'
        /\ AnswersAreAwaited' /\ channel' \in Seq(Message) /\ finished' \in Seq(Answer)
    BY <1>3, <1>6, <1>7, DeliveryKeeps
  <1>9. timer' \in BOOLEAN
    BY <1>4
  <1>10. gaps' \subseteq {"manual", "midway"}
    BY <1>4, Types
  <1>11. TypeOK'
    BY <1>2, <1>3, <1>5, <1>8, <1>9, <1>10, Types, TypesAfter
  <1>12. SlotOnTrack'
    <2> SUFFICES ASSUME slot' # NoCall
                 PROVE  /\ call'[slot'].kind = "save"
                        /\ call'[slot'].path = project \/ "midway" \in gaps
                        /\ Moving => "midway" \in gaps
      BY <1>2, <1>3, <1>4 DEF SlotOnTrack
    <2>1. slot' = slot /\ slot \in Call \ {c} /\ slot # NoCall
      BY <1>5, Types
    <2> QED
      BY <1>3, <2>1 DEF Core, SlotOnTrack
  <1>13. Moving => Moving'
    BY <1>3 DEF Moving
  <1>14. Protection'
    <2> SUFFICES ASSUME dirty, ~timer', ~Moving', gaps' = {}
                 PROVE  project = NoPath /\ active = NoPath
      BY <1>2, <1>3 DEF Protection
    <2>1. call[c].auto
      BY <1>4
    <2>2. project = NoPath
      BY <1>4, <2>1
    <2> QED
      BY <1>3, <1>13, <2>2, Settled
  <1> QED
    BY <1>3, <1>8, <1>11, <1>12, <1>14 DEF Core

LEMMA UndoneKeeps ==
    ASSUME Core, Undone PROVE Core'
  <1>1. PICK c : c = channel[1].to
    OBVIOUS
  <1>2. /\ Reply({"undo"}, TRUE) /\ project' = project /\ slot' = slot
        /\ dirty' = TRUE /\ timer' = TRUE
        /\ gaps' = IF slot = NoCall THEN {} ELSE gaps \ {"manual"}
    BY DEF Undone
  <1>3. /\ Receive /\ OthersAwaited /\ CallsAreSent' /\ call' \in [Call -> CallRecord]
        /\ UNCHANGED <<active, finished, requests, unsaved, chosen, overtaken>>
        /\ c \in Call /\ call[c].kind = "undo"
        /\ \A e \in Call \ {c} : call'[e] = call[e]
        /\ Moving' => Moving
    <2>1. {"undo"} \subseteq {"open", "close", "save", "undo"}
      OBVIOUS
    <2>2. /\ Receive /\ OthersAwaited /\ CallsAreSent' /\ call' \in [Call -> CallRecord]
          /\ UNCHANGED <<active, finished, requests, unsaved, chosen, overtaken>>
          /\ Head(channel) = channel[1] /\ 1 \in DOMAIN channel
          /\ ~IsPush(channel[1]) /\ channel[1].ok = TRUE
          /\ c \in Call /\ call[c].kind \in {"undo"}
          /\ \A e \in Call \ {c} : call'[e] = call[e]
          /\ ~JustLoaded
          /\ Moving' => Moving
          /\ \A k \in DOMAIN channel : k # 1 => 1 < k
      BY <1>1, <1>2, <2>1, ReplyKeeps
    <2> QED
      BY <2>2
  <1>4. project' = active \/ \E k \in DOMAIN channel : 1 < k /\ Settles(channel[k])
    BY <1>2, StaysOnTheWay
  <1>5. /\ AnsweredOnce' /\ Agreement' /\ PushesAreAnswered' /\ Coverage'
        /\ AnswersAreAwaited' /\ channel' \in Seq(Message) /\ finished' \in Seq(Answer)
    BY <1>2, <1>3, <1>4, DeliveryKeeps
  <1>6. gaps' \subseteq {"manual", "midway"}
    BY <1>2, Types
  <1>7. TypeOK'
    BY <1>2, <1>3, <1>5, <1>6, Types, TypesAfter
  <1>8. SlotOnTrack'
    <2>1. slot # NoCall => slot \in Call \ {c}
      BY <1>3, Types DEF Core, SlotOnTrack
    <2>2. slot # NoCall => ("midway" \in gaps' <=> "midway" \in gaps)
      BY <1>2
    <2> QED
      BY <1>2, <1>3, <2>1, <2>2 DEF Core, SlotOnTrack
  <1>9. Protection'
    BY <1>2 DEF Protection
  <1> QED
    BY <1>3, <1>5, <1>7, <1>8, <1>9 DEF Core

LEMMA NotUndoneKeeps ==
    ASSUME Core, NotUndone PROVE Core'
  <1>1. PICK c : c = channel[1].to
    OBVIOUS
  <1>2. /\ Reply({"undo"}, FALSE) /\ gaps' = gaps
        /\ project' = project /\ dirty' = dirty /\ timer' = timer /\ slot' = slot
    BY DEF NotUndone, renderer
  <1>3. /\ Receive /\ OthersAwaited /\ CallsAreSent' /\ call' \in [Call -> CallRecord]
        /\ UNCHANGED <<active, finished, requests, unsaved, chosen, overtaken>>
        /\ 1 \in DOMAIN channel /\ ~channel[1].ok
        /\ c \in Call /\ call[c].kind = "undo"
        /\ \A e \in Call \ {c} : call'[e] = call[e]
        /\ \A k \in DOMAIN channel : k # 1 => 1 < k
        /\ Moving' => Moving
    <2>1. {"undo"} \subseteq {"open", "close", "save", "undo"}
      OBVIOUS
    <2>2. /\ Receive /\ OthersAwaited /\ CallsAreSent' /\ call' \in [Call -> CallRecord]
          /\ UNCHANGED <<active, finished, requests, unsaved, chosen, overtaken>>
          /\ Head(channel) = channel[1] /\ 1 \in DOMAIN channel
          /\ ~IsPush(channel[1]) /\ channel[1].ok = FALSE
          /\ c \in Call /\ call[c].kind \in {"undo"}
          /\ \A e \in Call \ {c} : call'[e] = call[e]
          /\ ~JustLoaded
          /\ Moving' => Moving
          /\ \A k \in DOMAIN channel : k # 1 => 1 < k
      BY <1>1, <1>2, <2>1, ReplyKeeps
    <2> QED
      BY <2>2
  <1>4. project' = active \/ \E k \in DOMAIN channel : 1 < k /\ Settles(channel[k])
    BY <1>2, StaysOnTheWay
  <1>5. \A p \in Path : ~overtaken /\ unsaved[p] /\ project' = p => dirty' \/ PendingBehind(p)
    BY <1>2, <1>3 DEF Core, Coverage, CoveredLater, Pending, PendingBehind, Marks
  <1>6. /\ AnsweredOnce' /\ Agreement' /\ PushesAreAnswered' /\ Coverage'
        /\ AnswersAreAwaited' /\ channel' \in Seq(Message) /\ finished' \in Seq(Answer)
    BY <1>3, <1>4, <1>5, DeliveryKeeps
  <1>7. TypeOK'
    BY <1>2, <1>3, <1>6, Types, TypesAfter
  <1>8. SlotOnTrack'
    <2>1. slot # NoCall => slot \in Call \ {c}
      BY <1>3, Types DEF Core, SlotOnTrack
    <2> QED
      BY <1>2, <1>3, <2>1 DEF Core, SlotOnTrack
  <1>9. Moving => Moving'
    BY <1>3 DEF Moving
  <1>10. Protection'
    BY <1>2, <1>3, <1>9 DEF Core, Protection
  <1> QED
    BY <1>3, <1>6, <1>7, <1>8, <1>10 DEF Core

-----------------------------------------------------------------------------
(* The theorems. *)

LEMMA StutterKeeps ==
    ASSUME Core, UNCHANGED vars PROVE Core'
  <1>1. /\ project' = project /\ dirty' = dirty /\ timer' = timer /\ slot' = slot
        /\ active' = active /\ call' = call /\ finished' = finished /\ channel' = channel
        /\ requests' = requests /\ unsaved' = unsaved /\ chosen' = chosen
        /\ overtaken' = overtaken /\ gaps' = gaps
    BY DEF vars, renderer
  <1>2. KeepsSent /\ CallsAreSent' /\ (Moving' <=> Moving)
    BY <1>1 DEF KeepsSent, Core, CallsAreSent, Moving
  <1>3. JustLoaded => \A c \in Call : call'[c].kind \in {"none", "open"}
    BY <1>1 DEF JustLoaded
  <1>4. /\ AnsweredOnce' /\ Agreement' /\ PushesAreAnswered' /\ Coverage'
        /\ AnswersAreAwaited'
    BY <1>1, <1>2, <1>3, QueuesStay
  <1>5. TypeOK'
    <2>1. channel' \in Seq(Message) /\ finished' \in Seq(Answer)
      BY <1>1 DEF Core, TypeOK
    <2> QED
      BY <1>1, <1>4, <2>1, Types, TypesAfter
  <1>6. SlotOnTrack' /\ Protection'
    BY <1>1, <1>2 DEF Core, SlotOnTrack, Protection
  <1> QED
    BY <1>2, <1>4, <1>5, <1>6 DEF Core

LEMMA InitCore ==
    ASSUME Init PROVE Core
  <1>1. PICK m : m = [push |-> active]
    OBVIOUS
  <1>2. /\ project = NoPath /\ dirty = FALSE /\ timer = FALSE /\ slot = NoCall
        /\ active \in Path \cup {NoPath}
        /\ call = [c \in Call |-> Idle] /\ finished = <<>> /\ channel = <<m>>
        /\ requests = 0 /\ unsaved = [p \in Path |-> FALSE] /\ chosen = active
        /\ overtaken = FALSE /\ gaps = {}
    BY <1>1 DEF Init
  <1>3. m \in Message /\ IsPush(m) /\ m.push = active
    BY <1>1, <1>2 DEF Message, IsPush
  <1>4. /\ channel \in Seq(Message) /\ DOMAIN channel = {1} /\ channel[1] = m
        /\ channel # <<>>
    BY <1>2, <1>3
  <1>5. finished \in Seq(Answer) /\ DOMAIN finished = {}
    BY <1>2
  <1>6. Idle \in CallRecord /\ Idle.kind = "none" /\ ~Idle.done
    BY DEF Idle, CallRecord
  <1>7. call \in [Call -> CallRecord] /\ \A c \in Call : call[c] = Idle
    BY <1>2, <1>6
  <1>8. TypeOK
    <2>1. unsaved \in [Path -> BOOLEAN]
      BY <1>2
    <2>2. \A i \in DOMAIN channel : ~IsPush(channel[i]) => InFlight(channel[i].to)
      BY <1>3, <1>4
    <2>3. \A i \in DOMAIN finished : InFlight(finished[i].to)
      BY <1>5
    <2>4. requests \in 0 .. MaxRequests
      BY <1>2, SessionAssumption
    <2> QED
      BY <1>2, <1>4, <1>5, <1>7, <2>1, <2>2, <2>3, <2>4 DEF TypeOK
  <1>9. AnsweredOnce /\ CallsAreSent
    BY <1>3, <1>4, <1>5, <1>6, <1>7 DEF AnsweredOnce, CallsAreSent
  <1>10. JustLoaded
    BY <1>2, <1>3, <1>4, <1>6, <1>7 DEF JustLoaded
  <1>11. Agreement
    BY <1>2, <1>3, <1>4, <1>10 DEF Agreement, Settles, Target
  <1>12. SlotOnTrack /\ Protection /\ PushesAreAnswered
    BY <1>2, <1>4, <1>10 DEF SlotOnTrack, Protection, PushesAreAnswered
  <1>13. Coverage
    BY <1>2 DEF Coverage
  <1> QED
    BY <1>8, <1>9, <1>11, <1>12, <1>13 DEF Core

LEMMA NextCore ==
    ASSUME Core, Next PROVE Core'
  <1>1. CASE User
    BY <1>1, CloseProjectKeeps, SaveProjectKeeps, UndoRedoKeeps, OpenProjectKeeps DEF User
  <1>2. CASE TimerFires
    BY <1>2, TimerFiresKeeps
  <1>3. CASE \E c \in Call, ok \in BOOLEAN : BridgeEnds(c, ok)
    BY <1>3, BridgeEndsKeeps
  <1>4. CASE MainAnswers
    BY <1>4, MainAnswersKeeps
  <1>5. CASE Deliver
    BY <1>5, PushedKeeps, MovedKeeps, NotMovedKeeps, SavedKeeps, NotSavedKeeps,
       UndoneKeeps, NotUndoneKeeps DEF Deliver
  <1> QED
    BY <1>1, <1>2, <1>3, <1>4, <1>5 DEF Next

LEMMA CoreAlways == Spec => []Core
  <1>1. Init => Core
    BY InitCore
  <1>2. Core /\ [Next]_vars => Core'
    BY NextCore, StutterKeeps
  <1> QED
    BY <1>1, <1>2, PTL DEF Spec

LEMMA CoreIsEnough ==
    ASSUME Core
    PROVE  SessionInvariant /\ OnTheChosenProject /\ DirtyIsProtected /\ CleanIsCovered
  <1>1. SessionInvariant
    BY DEF Core, SlotOnTrack, SessionInvariant, SlotIsASave
  <1>2. OnTheChosenProject
    <2>1. channel = <<>> => DOMAIN channel = {}
      OBVIOUS
    <2> QED
      BY <2>1 DEF Core, Agreement, JustLoaded, OnTheChosenProject
  <1>3. DirtyIsProtected
    BY DEF Core, Protection, DirtyIsProtected
  <1>4. CleanIsCovered
    <2> SUFFICES ASSUME \A c \in Call : ~InFlight(c), project # NoPath, unsaved[project],
                        ~overtaken
                 PROVE  dirty
      BY DEF CleanIsCovered
    <2>1. project \in Path
      BY Types
    <2>2. ~Pending(project)
      BY Queues DEF Pending, Marks
    <2> QED
      BY <2>1, <2>2 DEF Core, Coverage, CoveredLater
  <1> QED
    BY <1>1, <1>2, <1>3, <1>4

\* The variables keep their types, every answer on its way is awaited, and the
\* save in flight that later ones join (savingPromiseRef) is one of the project
\* that is open, unless a transition is or was under way.
THEOREM SaveInFlightIsOurs == Spec => []SessionInvariant
  <1>1. Core => SessionInvariant
    BY CoreIsEnough
  <1> QED
    BY <1>1, CoreAlways, PTL

\* When all has arrived that main sent, window and main process are at the
\* project that the user opened last, whatever saves answered late and in
\* whatever order the bridge finished (setActiveProjectIfMatchesActive in
\* ipc.ts, the guard on projectPathRef in saveProject).
THEOREM RendererFollowsMain == Spec => []OnTheChosenProject
  <1>1. Core => OnTheChosenProject
    BY CoreIsEnough
  <1> QED
    BY <1>1, CoreAlways, PTL

\* A marked change always has a timer, a save or a transition that will see to
\* it, but for the two ways out that "gaps" records (armAutoSave in
\* useActiveProject.tsx).
THEOREM AutoSaveHolds == Spec => []DirtyIsProtected
  <1>1. Core => DirtyIsProtected
    BY CoreIsEnough
  <1> QED
    BY <1>1, CoreAlways, PTL

\* A project shown as clean has no undo or redo that was not saved, as long as
\* no answer overtook another (the comment in saveProject on what the save
\* includes).
THEOREM CleanMeansSaved == Spec => []CleanIsCovered
  <1>1. Core => CleanIsCovered
    BY CoreIsEnough
  <1> QED
    BY <1>1, CoreAlways, PTL

=============================================================================
