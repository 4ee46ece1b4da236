---------------------------- MODULE KChatLoopback ----------------------------
(***************************************************************************)
(* Publishing into KChat.  AEC Studio's main process keeps, in memory, a   *)
(* bounded queue of cards and the comments of the review thread            *)
(* (kchatAppState.ts); the panel of the companion extension, inside KChat  *)
(* Desktop, drains the queue over a loopback HTTP API with a 5 s timeout   *)
(* (publish-panel.tsx, client.ts).  A card is posted first and             *)
(* acknowledged second.                                                    *)
(*                                                                         *)
(* One review thread is modelled, the one the panel looks at.  A message   *)
(* of it is its position, which is also the time it was posted at; 0 is    *)
(* "no time".  Times of two messages differ.                               *)
(***************************************************************************)
EXTENDS Integers, FiniteSets, Sequences, SequencesExt

CONSTANTS MaxCards,      \* bound: artifact cards the user publishes
          NoSnapshot,    \* the answer to a request that has none yet
          MaxQueued,     \* MAX_QUEUED_PUBLISHES
          MaxComments,   \* MAX_REVIEW_COMMENTS_PER_THREAD
          QueryLimit,    \* the limit of 50 messages per query, or what the
                         \* host caps it to
          MaxMessages,   \* bound: messages in the KChat thread
          MaxCallbacks,  \* bound: callbacks of the panel under way at once
          MaxFaults      \* bound: answers that are late, posts that fail
                         \* halfway, panels and processes that restart

ASSUME KChatAssumption ==
    /\ MaxQueued \in Nat \ {0} /\ MaxComments \in Nat \ {0}
    /\ QueryLimit \in Nat \ {0}
    /\ MaxMessages \in Nat /\ MaxFaults \in Nat
    /\ MaxCards \in Nat /\ MaxCallbacks \in Nat
    /\ NoSnapshot \notin Seq(Nat) \cup Nat

VARIABLES up,        \* state !== null: the main process serves the API
          accepted,  \* how many publish calls were accepted: the cards' ids
          queue,     \* publishQueue
          review,    \* the ReviewThreadState of the thread
          thread,    \* the messages of the thread, at KChat (external)
          shown,     \* what the panel displays: its LoadState
          job,       \* the three asynchronous callbacks of the panel
          late,      \* requests whose client gave up waiting
          faults,    \* how many faults there were
          dropped,   \* history: cards evicted or lost with the process
          unsure,    \* history: cards whose publishing failed after the post
          overtaken, \* history: an older refresh landed after a newer one
          gaps       \* history: messages a watermark jumped over, and those
                     \* that only the watermark of an old process covers

server == <<up, accepted, queue, review>>
panel == <<shown, job>>
history == <<dropped, unsure, overtaken, gaps>>
vars == <<server, thread, panel, late, faults, history>>

Card == 1..MaxCards
Person == 0     \* the author of a message, where a card would be
Task == {"publish", "mirror", "refresh"}
Time == 0..MaxMessages
Message == 1..MaxMessages
Ack == [card : Card, message : Message]
EmptyReview == [comments |-> <<>>, seenIds |-> {}, lastUpdatedAt |-> 0]
Batch == [messages : SUBSET Message]
Idle == [stage |-> "idle"]

Posts(c) == {m \in DOMAIN thread : thread[m] = c}
Latest(S) == CHOOSE t \in S : \A u \in S : u <= t
Ascending(S) ==
    CHOOSE s \in SetToSeqs(S) : \A i, j \in DOMAIN s : i < j => s[i] < s[j]
------------------------------------------------------------------------------
(* The state of the main process.                                          *)

\* Mutant: the comments past the cap are dropped in the order they arrived.
TrimUnsorted(comments) ==
    SubSeq(comments, 1 + (IF Len(comments) > MaxComments
                          THEN Len(comments) - MaxComments ELSE 0), Len(comments))

\* The comments past the cap are dropped, the oldest first; their ids stay.
Trim(comments) ==
    IF Len(comments) <= MaxComments THEN comments
    ELSE LET sorted == Ascending(ToSet(comments))
         IN SubSeq(sorted, Len(sorted) - MaxComments + 1, Len(sorted))

\* A batch of comments, in chronological order, without those seen before.
IngestComments(r, messages) ==
    LET fresh == messages \ r.seenIds
    IN [comments |-> Trim(r.comments \o Ascending(fresh)),
        seenIds |-> r.seenIds \cup fresh,
        lastUpdatedAt |-> Latest(fresh \cup {r.lastUpdatedAt})]

\* Mutant: the acknowledged card is taken to be the first one.
DequeueFirst(cards, c) == IF cards = <<>> THEN cards ELSE Tail(cards)

\* The acknowledged card leaves the queue, if it is still there.
Dequeue(cards, c) == RemoveFirst(cards, c)

\* The oldest cards past the cap are evicted with a warning.
Evicted(cards) == SubSeq(cards, 1, Len(cards) - MaxQueued)
Kept(cards) == SubSeq(cards, Len(Evicted(cards)) + 1, Len(cards))

\* kchat:publish.  The call is refused when KChat is switched off, which the
\* user and the open project may do at any time: then nothing happens.
EnqueuePublish ==
    /\ up /\ accepted < MaxCards
    /\ accepted' = accepted + 1
    /\ queue' = Kept(Append(queue, accepted'))
    /\ dropped' = dropped \cup ToSet(Evicted(Append(queue, accepted')))
    /\ UNCHANGED <<up, review, thread, panel, late, faults,
                   unsure, overtaken, gaps>>

Unanswered(j) == \/ j.stage = "sending"
                 \/ j.stage = "loading" /\ j.queued = NoSnapshot

\* will-quit: the queue and the comments go with the process.  The server
\* may still answer until it is closed, but changes nothing.
ShutdownKchat ==
    /\ up /\ faults < MaxFaults
    /\ up' = FALSE
    /\ queue' = <<>> /\ review' = EmptyReview
    /\ late' = {} /\ faults' = faults + 1
    /\ dropped' = dropped \cup ToSet(queue)
    /\ UNCHANGED <<accepted, thread, panel, unsure, overtaken, gaps>>

\* The watermarks the panel has: shown, being used, or just answered.
MarksHeld ==
    {shown.mark}
    \cup {job[t].since : t \in {u \in Task : job[u].stage = "querying"}}
    \cup {job[t].mark : t \in {u \in Task : job[u].stage = "loading"
                                            /\ ~Unanswered(job[u])}}

\* The next process, once every connection to the old one has ended.  It has
\* no comments, but the panel may still ask for those after its watermark.
InitialiseKchat ==
    /\ ~up /\ \A t \in Task : ~Unanswered(job[t])
    /\ up' = TRUE
    /\ gaps' = gaps \cup {m \in DOMAIN thread : \E k \in MarksHeld : m <= k}
    /\ UNCHANGED <<accepted, queue, review, thread, panel, late, faults,
                   dropped, unsure, overtaken>>
------------------------------------------------------------------------------
(* The handlers of the API.                                                *)

\* POST /api/publish-to-thread: whether or not the card is still queued, the
\* message is recorded as a comment of AEC Studio's own.
PublishToThread(r) ==
    /\ queue' = Dequeue(queue, r.card)
    /\ review' = IngestComments(review, {r.message})
    /\ gaps' = gaps \cup {m \in DOMAIN thread \ review.seenIds :
                             review.lastUpdatedAt < m /\ m < r.message}

\* POST /api/review-comments.
IngestReviewComments(r) ==
    /\ review' = IngestComments(review, r.messages)
    /\ UNCHANGED <<queue, gaps>>

Handle(r) == \/ r \in Ack /\ PublishToThread(r)
             \/ r \in Batch /\ IngestReviewComments(r)

\* A request is handled although its client no longer waits for it: it was slow,
\* or its answer was.
ServeLate(r) ==
    /\ up /\ r \in late
    /\ Handle(r)
    /\ late' = late \ {r}
    /\ UNCHANGED <<up, accepted, thread, panel, faults,
                   dropped, unsure, overtaken>>
------------------------------------------------------------------------------
(* The panel.  Publishing, mirroring and the Refresh button each run one    *)
(* callback at a time; all three end in a refresh.                          *)

Loading == [stage |-> "loading", queued |-> NoSnapshot, mark |-> NoSnapshot,
            old |-> FALSE]
ShowLoading == [at |-> "loading", queued |-> <<>>, mark |-> 0]

MayStart == Cardinality({t \in Task : job[t] # Idle}) < MaxCallbacks

\* refresh(): the panel shows nothing until all its requests are answered.
StartRefresh(t) ==
    /\ shown' = ShowLoading
    /\ job' = [job EXCEPT ![t] = Loading]

\* The Refresh and Retry buttons, one callback of theirs at a time (a bound).
ClickRefresh ==
    /\ shown.at # "loading" /\ job["refresh"] = Idle
    /\ MayStart
    /\ StartRefresh("refresh")
    /\ UNCHANGED <<server, thread, late, faults, history>>

\* "Publish next": the first card of the queue as the panel last saw it.
OnPublishNext ==
    /\ shown.at = "ready" /\ shown.queued # <<>> /\ job["publish"] = Idle
    /\ MayStart
    /\ job' = [job EXCEPT !["publish"] =
                  [stage |-> "posting", card |-> Head(shown.queued)]]
    /\ UNCHANGED <<server, thread, shown, late, faults, history>>

\* "Mirror recent": what is newer than the watermark the panel last saw.
OnMirrorRecent ==
    /\ shown.at = "ready" /\ job["mirror"] = Idle
    /\ MayStart
    /\ job' = [job EXCEPT !["mirror"] =
                  [stage |-> "querying", since |-> shown.mark]]
    /\ UNCHANGED <<server, thread, shown, late, faults, history>>

Send(t, request) ==
    job' = [job EXCEPT ![t] = [stage |-> "sending", request |-> request]]

\* kchat.send_message has posted the card; now it is acknowledged.
AcknowledgePublish ==
    /\ job["publish"].stage = "posting" /\ Len(thread) < MaxMessages
    /\ thread' = Append(thread, job["publish"].card)
    /\ Send("publish", [card |-> job["publish"].card,
                        message |-> Len(thread) + 1])
    /\ UNCHANGED <<server, shown, late, faults, history>>

\* kchat.send_message posts the card and fails all the same: its answer is
\* lost (external).  The panel does not know, and acknowledges nothing.
HostFailsAfterPosting ==
    /\ job["publish"].stage = "posting" /\ Len(thread) < MaxMessages
    /\ faults < MaxFaults /\ faults' = faults + 1
    /\ thread' = Append(thread, job["publish"].card)
    /\ unsure' = unsure \cup {job["publish"].card}
    /\ StartRefresh("publish")
    /\ UNCHANGED <<server, late, dropped, overtaken, gaps>>

\* Mutant: the first new message is skipped.
QueryMessagesAfterNext(since) == {m \in DOMAIN thread : m > since + 1}

\* kchat.query_messages: the messages strictly after a time.
QueryMessages(since) == {m \in DOMAIN thread : m > since}

\* The answers to a query.  Which ones, of more messages than the limit, is for
\* the host to choose.
Limited(found) == kSubset(Min({QueryLimit, Cardinality(found)}), found)

\* What the host left out that is older than what it returned: the watermark
\* will pass it.
LeftOut(found, batch) == {m \in found \ batch : \E n \in batch : m < n}

PushReviewComments ==
    /\ job["mirror"].stage = "querying"
    /\ LET found == QueryMessages(job["mirror"].since)
       IN \E batch \in Limited(found) :
             /\ Send("mirror", [messages |-> batch])
             /\ gaps' = gaps \cup LeftOut(found, batch)
    /\ UNCHANGED <<server, thread, shown, late, faults, dropped, unsure,
                   overtaken>>

\* There is no port file, or the host refuses the call and does nothing.
HostRefuses(t) ==
    /\ job[t].stage \in {"posting", "querying"}
    /\ StartRefresh(t)
    /\ UNCHANGED <<server, thread, late, faults, history>>

\* Mutant: the panel does not refresh what it shows after publishing.
ServeUnrefreshed(t) ==
    /\ up /\ job[t].stage = "sending"
    /\ Handle(job[t].request)
    /\ job' = [job EXCEPT ![t] = Idle]
    /\ UNCHANGED <<up, accepted, thread, shown, late, faults, dropped, unsure,
                   overtaken>>

\* A request is handled and its client hears of it.
Serve(t) ==
    /\ up /\ job[t].stage = "sending"
    /\ Handle(job[t].request)
    /\ StartRefresh(t)
    /\ UNCHANGED <<up, accepted, thread, late, faults, dropped, unsure,
                   overtaken>>

\* While the process quits every handler answers and does nothing.
ServeStopping(t) ==
    /\ ~up /\ job[t].stage = "sending"
    /\ StartRefresh(t)
    /\ UNCHANGED <<server, thread, late, faults, history>>

\* A request of a process that is gone fails; any other may be too slow.
Fault(j) == \/ ~up /\ Unanswered(j) /\ UNCHANGED faults
            \/ up /\ faults < MaxFaults /\ faults' = faults + 1

Abandoned(j) == IF up /\ j.stage = "sending" THEN {j.request} ELSE {}
Unconfirmed(j) ==
    IF j.stage = "sending" /\ j.request \in Ack THEN {j.request.card} ELSE {}

\* The client gives up after 5 s.  The request may be handled all the same.
TimedOut(t) ==
    /\ job[t].stage = "sending" /\ Fault(job[t])
    /\ late' = late \cup Abandoned(job[t])
    /\ unsure' = unsure \cup Unconfirmed(job[t])
    /\ StartRefresh(t)
    /\ UNCHANGED <<server, thread, dropped, overtaken, gaps>>

\* GET /api/queued-publishes and /api/reviews, taken as one: nothing compares
\* the answer of the one with that of the other.
AnswerRefresh(t) ==
    /\ job[t].stage = "loading" /\ job[t].queued = NoSnapshot
    /\ job' = [job EXCEPT ![t].queued = queue, ![t].mark = review.lastUpdatedAt]
    /\ UNCHANGED <<server, thread, shown, late, faults, history>>

\* A refresh is over; the answers another one already has are older.
Ended(t) ==
    [u \in Task |-> IF u = t THEN Idle
                   ELSE IF job[u].stage = "loading"
                   THEN [job[u] EXCEPT !.old = @ \/ job[u].queued # NoSnapshot]
                   ELSE job[u]]

\* All answers are in: they are shown, whatever was shown meanwhile.
ShowAnswers(t) ==
    /\ job[t].stage = "loading" /\ ~Unanswered(job[t])
    /\ shown' = [at |-> "ready", queued |-> job[t].queued, mark |-> job[t].mark]
    /\ overtaken' = (overtaken \/ job[t].old)
    /\ job' = Ended(t)
    /\ UNCHANGED <<server, thread, late, faults, dropped, unsure, gaps>>

RefreshFails(t) ==
    /\ job[t].stage = "loading" /\ Fault(job[t])
    /\ shown' = [ShowLoading EXCEPT !.at = "unavailable"]
    /\ job' = Ended(t)
    /\ UNCHANGED <<server, thread, late, history>>

\* KChat Desktop reloads the extension: its callbacks are gone, a request on
\* its way may still arrive.
PanelRestarts ==
    /\ faults < MaxFaults /\ faults' = faults + 1
    /\ late' = late \cup UNION {Abandoned(job[t]) : t \in Task}
    /\ unsure' = unsure \cup UNION {Unconfirmed(job[t]) : t \in Task}
    /\ shown' = ShowLoading
    /\ job' = [t \in Task |-> IF t = "refresh" THEN Loading ELSE Idle]
    /\ UNCHANGED <<server, thread, dropped, overtaken, gaps>>

\* Somebody writes in the thread (external).
PersonPosts ==
    /\ Len(thread) < MaxMessages
    /\ thread' = Append(thread, Person)
    /\ UNCHANGED <<server, panel, late, faults, history>>
------------------------------------------------------------------------------
Init ==
    /\ up = TRUE
    /\ accepted = 0 /\ queue = <<>> /\ review = EmptyReview
    /\ thread = <<>> /\ late = {} /\ faults = 0
    /\ shown = ShowLoading
    /\ job = [t \in Task |-> IF t = "refresh" THEN Loading ELSE Idle]
    /\ dropped = {} /\ unsure = {} /\ overtaken = FALSE /\ gaps = {}

\* What a callback of the panel waits for.
JobStep(t) ==
    \/ Serve(t) \/ HostRefuses(t) \/ TimedOut(t)
    \/ t = "publish" /\ (AcknowledgePublish \/ HostFailsAfterPosting)
    \/ t = "mirror" /\ PushReviewComments
    \/ AnswerRefresh(t) \/ ShowAnswers(t) \/ RefreshFails(t)

Next ==
    \/ EnqueuePublish \/ ShutdownKchat \/ InitialiseKchat
    \/ ClickRefresh \/ OnPublishNext \/ OnMirrorRecent
    \/ PanelRestarts \/ PersonPosts
    \/ \E t \in Task : JobStep(t) \/ ServeStopping(t)
    \/ \E r \in late : ServeLate(r)

Spec == Init /\ [][Next]_vars
------------------------------------------------------------------------------
Snapshot == Seq(Card) \cup {NoSnapshot}
Mark == Time \cup {NoSnapshot}

JobState ==
    {Idle} \cup [stage : {"posting"}, card : Card]
    \cup [stage : {"querying"}, since : Time]
    \cup [stage : {"sending"}, request : Ack \cup Batch]
    \cup [stage : {"loading"}, queued : Snapshot, mark : Mark, old : BOOLEAN]

\* The type of review.comments is part of CommentsAreTheNewest.
TypeOK ==
    /\ up \in BOOLEAN
    /\ accepted \in 0..MaxCards
    /\ queue \in Seq(Card) /\ Len(queue) <= MaxQueued
    /\ review.seenIds \subseteq Message /\ review.lastUpdatedAt \in Time
    /\ thread \in Seq(Card \cup {Person}) /\ Len(thread) <= MaxMessages
    /\ shown \in [at : {"loading", "ready", "unavailable"}, queued : Seq(Card),
                  mark : Time]
    /\ job \in [Task -> JobState]
    /\ \A r \in late : r \in Ack \cup Batch
    /\ faults \in 0..MaxFaults
    /\ dropped \subseteq Card /\ unsure \subseteq Card
    /\ overtaken \in BOOLEAN /\ gaps \subseteq Message

Sends(t) == job[t].stage = "sending"
HasAnswer(t) == job[t].stage = "loading" /\ job[t].queued # NoSnapshot
Pending(r) == r \in late \/ \E t \in Task : Sends(t) /\ job[t].request = r

\* A card that was accepted is queued until it has been posted, unless it was
\* evicted with a warning or went with the process.
CardsAreAccounted ==
    1..accepted \subseteq ToSet(queue) \cup dropped \cup ToSet(thread)

\* Whatever is acknowledged has been posted.
AcksArePosted ==
    \A r \in Ack : Pending(r) =>
        r.message \in DOMAIN thread /\ thread[r.message] = r.card

\* Cards go through queue and panel in the order they were accepted in.
CardsAreKnown ==
    /\ \A i, j \in DOMAIN queue : i < j => queue[i] < queue[j]
    /\ ToSet(queue) \cup ToSet(shown.queued) \subseteq 1..accepted
    /\ ToSet(thread) \subseteq 0..accepted
    /\ ~up => queue = <<>>
    /\ \A t \in Task :
         /\ job[t].stage = "posting" => job[t].card \in 1..accepted
         /\ HasAnswer(t) => ToSet(job[t].queued) \subseteq 1..accepted

\* A posted card whose acknowledgement did not fail: it is being acknowledged,
\* or it left the queue, and whatever still shows it will be refreshed.
Settled(c) ==
    \/ Sends("publish") /\ job["publish"].request.card = c
    \/ /\ c \notin ToSet(queue)
       /\ job["publish"].stage = "posting" => job["publish"].card # c
       /\ shown.at = "ready" /\ c \in ToSet(shown.queued)
            => job["publish"].stage = "loading"
       /\ \A t \in Task : HasAnswer(t) /\ c \in ToSet(job[t].queued) =>
            t # "publish" /\ (job[t].old \/ job["publish"].stage = "loading")

PostedAreSettled ==
    \A c \in Card : c \in ToSet(thread) => c \in unsure \/ overtaken \/ Settled(c)

\* Up to a time, every message of the thread was ingested or is a known gap.
Covered(time) ==
    time <= Len(thread)
        /\ (up => \A m \in Message : m <= time => m \in review.seenIds \cup gaps)

\* The watermarks in the panel, and the batches on their way, leave no hole.
MarksAreCovered ==
    /\ review.seenIds \subseteq DOMAIN thread
    /\ Covered(shown.mark) /\ Covered(review.lastUpdatedAt)
    /\ \A t \in Task :
         /\ job[t].stage = "querying" => Covered(job[t].since)
         /\ job[t].stage = "loading" /\ job[t].mark # NoSnapshot
              => Covered(job[t].mark)
    /\ \A r \in Batch : Pending(r) =>
         /\ r.messages \subseteq DOMAIN thread
         /\ up => \A n \in r.messages, m \in Message : m < n =>
                      m \in r.messages \cup review.seenIds \cup gaps

\* No message is stored twice, and what is stored is the newest of all that
\* was ingested, in whichever order the batches arrived.
CommentsAreTheNewest ==
    /\ review.comments \in Seq(Message) /\ IsInjective(review.comments)
    /\ ToSet(review.comments) \subseteq review.seenIds
    /\ Len(review.comments) <= MaxComments
    /\ \A m \in ToSet(review.comments), n \in review.seenIds :
         n > m => n \in ToSet(review.comments)
    /\ Len(review.comments) < MaxComments
         => ToSet(review.comments) = review.seenIds

\* Types, no accepted card goes missing silently, and what makes the three
\* properties below true: what each side knows of the other, however old.
LoopbackInvariant ==
    /\ TypeOK
    /\ CardsAreAccounted /\ AcksArePosted /\ CardsAreKnown
    /\ PostedAreSettled /\ MarksAreCovered

\* Posting first and acknowledging second repeats a card only if the answer to
\* the post or its acknowledgement failed, or an overtaken refresh showed the
\* old queue.
RepostHasACause ==
    \A c \in Card : Cardinality(Posts(c)) > 1 => c \in unsure \/ overtaken

\* Mirroring by a watermark passes by a message in three cases only: the
\* acknowledgement of a newer card moved the watermark from before it to after
\* it; the host cut an answer to the limit and returned a newer message instead
\* of it; or, when the main process was restarted, the panel still held a
\* watermark after it.
MirrorIsWhole ==
    \A m \in DOMAIN thread :
        m <= review.lastUpdatedAt => m \in review.seenIds \cup gaps

\* docs/KCHAT_LOOPBACK_API.md: a replay of a card whose acknowledgement was
\* lost does not post it again.
ReplayDoesNotRepost == \A c \in Card : Cardinality(Posts(c)) <= 1
==============================================================================
