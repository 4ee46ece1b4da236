----------------------------- MODULE KChatProofs -----------------------------
(***************************************************************************)
(* Proofs about KChatLoopback, for any number of cards, messages and       *)
(* faults, and any caps: no card goes missing silently, a card is posted   *)
(* twice only for one of two reasons, and mirroring misses no message but  *)
(* the known gaps.                                                         *)
(***************************************************************************)
EXTENDS KChatLoopback, SequenceTheorems, FiniteSetTheorems,
        WellFoundedInduction, TLAPS

-----------------------------------------------------------------------------
(* Sets of times, and the queue.                                           *)

\* A queue that holds no card is empty.
LEMMA NothingInIt ==
    ASSUME NEW S, NEW q \in Seq(S), ToSet(q) = {}
    PROVE  q = <<>>
  <1>1. Len(q) \in Nat /\ DOMAIN q = 1 .. Len(q)
    OBVIOUS
  <1>2. DOMAIN q = {}
    BY DEF ToSet
  <1>3. Len(q) = 0
    BY <1>1, <1>2
  <1> QED
    BY <1>3, EmptySeq

\* A set of times that is not empty has a latest one.
LEMMA LatestExists ==
    ASSUME NEW N \in Nat, NEW S \in SUBSET (0 .. N), S # {}
    PROVE  Latest(S) \in S /\ \A u \in S : u <= Latest(S)
  <1> DEFINE T == {n \in Nat : N - n \in S}
             R == {p \in Nat \X Nat : p[1] < p[2]}
  <1>1. IsWellFoundedOn(R, Nat)
    BY NatLessThanWellFounded DEF OpToRel
  <1>2. T \subseteq Nat /\ T # {}
    <2>1. PICK s \in S : s \in 0 .. N
      OBVIOUS
    <2>2. N - s \in Nat /\ N - (N - s) = s
      BY <2>1
    <2> QED
      BY <2>2
  <1>3. PICK n \in T : \A k \in T : ~(<<k, n>> \in R)
    BY <1>1, <1>2, WFMin
  <1>4. N - n \in S /\ \A u \in S : u <= N - n
    <2> SUFFICES ASSUME NEW u \in S PROVE u <= N - n
      OBVIOUS
    <2>1. u \in 0 .. N /\ N - (N - u) = u /\ N - u \in Nat
      OBVIOUS
    <2>2. N - u \in T
      BY <2>1
    <2>3. ~(N - u < n)
      BY <1>3, <2>1, <2>2
    <2> QED
      BY <2>1, <2>3
  <1> QED
    BY <1>4 DEF Latest

InOrder(cards) ==
    \A i, j \in DOMAIN cards : i < j => cards[i] < cards[j]

\* Of a queue in order, the acknowledged card is taken off, and no other.
LEMMA DequeueTakesOne ==
    ASSUME NEW cards \in Seq(Card), InOrder(cards), NEW c
    PROVE  LET rest == Dequeue(cards, c) IN
           /\ rest \in Seq(Card) /\ Len(rest) <= Len(cards) /\ InOrder(rest)
           /\ ToSet(rest) = ToSet(cards) \ {c}
  <1> DEFINE rest == Dequeue(cards, c)
  <1>0. /\ Len(cards) \in Nat /\ DOMAIN cards = 1 .. Len(cards)
        /\ \A k \in 1 .. Len(cards) : cards[k] \in Card /\ cards[k] \in Nat
        /\ \A k, l \in 1 .. Len(cards) : k < l => cards[k] < cards[l]
    BY KChatAssumption DEF InOrder, Card
  <1>1. CASE c \notin ToSet(cards)
    <2>1. ~\E i \in 1 .. Len(cards) : cards[i] = c
      BY <1>1 DEF ToSet
    <2>2. rest = cards
      BY <2>1 DEF Dequeue, RemoveFirst
    <2> QED
      BY <1>1, <2>2
  <1>2. CASE c \in ToSet(cards)
    <2>1. PICK i \in 1 .. Len(cards) : cards[i] = c
      BY <1>2 DEF ToSet
    <2>2. SelectInSeq(cards, LAMBDA v : v = c) = i
      <3> DEFINE I == {k \in 1 .. Len(cards) : cards[k] = c}
      <3>1. \A k \in 1 .. Len(cards) : cards[k] = c => k = i
        BY <1>0, <2>1
      <3>2. I = {i}
        BY <2>1, <3>1
      <3>3. Min({i}) = i
        BY DEF Min
      <3> QED
        BY <3>2, <3>3 DEF SelectInSeq
    <2>3. rest = SubSeq(cards, 1, i - 1) \o SubSeq(cards, i + 1, Len(cards))
      BY <2>1, <2>2 DEF Dequeue, RemoveFirst, RemoveAt
    <2>4. /\ rest \in Seq(Card) /\ Len(rest) = Len(cards) - 1
          /\ \A k \in 1 .. i - 1 : rest[k] = cards[k]
          /\ \A k \in i .. Len(cards) - 1 : rest[k] = cards[k + 1]
      <3> DEFINE before == SubSeq(cards, 1, i - 1)
                 after == SubSeq(cards, i + 1, Len(cards))
      <3>1. /\ before \in Seq(Card) /\ Len(before) = i - 1
            /\ \A k \in 1 .. i - 1 : before[k] = cards[k]
        BY <1>0, <2>1
      <3>2. /\ after \in Seq(Card) /\ Len(after) = Len(cards) - i
            /\ \A k \in 1 .. Len(cards) - i : after[k] = cards[k + i]
        <4>1. i + 1 \in Int /\ Len(cards) \in Int
              /\ \A k \in i + 1 .. Len(cards) : cards[k] \in Card
          BY <1>0, <2>1
        <4>2. /\ after \in Seq(Card)
              /\ Len(after) = IF i + 1 <= Len(cards) THEN Len(cards) - (i + 1) + 1 ELSE 0
              /\ \A k \in 1 .. Len(cards) - (i + 1) + 1 : after[k] = cards[i + 1 + k - 1]
          BY <4>1, SubSeqProperties
        <4> HIDE DEF after
        <4>3. Len(cards) - (i + 1) + 1 = Len(cards) - i
          BY <1>0, <2>1
        <4>4. Len(after) = Len(cards) - i
          <5> DEFINE n == Len(cards)
                     l == Len(after)
          <5>1. /\ n \in Nat /\ i \in 1 .. n
                /\ l = IF i + 1 <= n THEN n - (i + 1) + 1 ELSE 0
            BY <1>0, <2>1, <4>2
          <5> HIDE DEF n, l
          <5>2. l = n - i
            BY <5>1
          <5> QED
            BY <5>2 DEF n, l
        <4>5. ASSUME NEW k \in 1 .. Len(cards) - i PROVE after[k] = cards[k + i]
          <5>1. i + 1 + k - 1 = k + i
            BY <2>1
          <5> QED
            BY <4>2, <4>3, <5>1
        <4> QED
          BY <4>2, <4>4, <4>5
      <3> HIDE DEF before, after
      <3>3. /\ before \o after \in Seq(Card)
            /\ Len(before \o after) = Len(cards) - 1
            /\ \A k \in 1 .. i - 1 : (before \o after)[k] = before[k]
            /\ \A k \in i .. Len(cards) - 1 : (before \o after)[k] = after[k - (i - 1)]
        <4>1. /\ before \o after \in Seq(Card)
              /\ Len(before \o after) = Len(before) + Len(after)
              /\ \A k \in 1 .. Len(before) + Len(after) : (before \o after)[k] =
                     IF k <= Len(before) THEN before[k] ELSE after[k - Len(before)]
          BY <3>1, <3>2, ConcatProperties
        <4>2. Len(before) = i - 1 /\ Len(before) + Len(after) = Len(cards) - 1
          BY <1>0, <2>1, <3>1, <3>2
        <4> DEFINE n == Len(cards)
        <4>3. n \in Nat /\ i \in 1 .. n /\ Len(before) = i - 1 /\ Len(before) + Len(after) = n - 1
          BY <1>0, <2>1, <4>2
        <4> HIDE DEF n
        <4>4. ASSUME NEW k \in 1 .. i - 1 PROVE (before \o after)[k] = before[k]
          BY <4>1, <4>3
        <4>5. ASSUME NEW k \in i .. n - 1
              PROVE  (before \o after)[k] = after[k - (i - 1)]
          <5>1. k \in 1 .. Len(before) + Len(after) /\ ~(k <= Len(before))
            BY <4>3
          <5>2. (before \o after)[k] = after[k - Len(before)]
            BY <4>1, <5>1
          <5> QED
            BY <4>3, <5>2
        <4> QED
          BY <4>1, <4>2, <4>4, <4>5 DEF n
      <3>4. \A k \in i .. Len(cards) - 1 : k - (i - 1) \in 1 .. Len(cards) - i
                                          /\ (k - (i - 1)) + i = k + 1
        BY <1>0, <2>1
      <3>5. rest = before \o after
        BY <2>3 DEF before, after
      <3>6. /\ rest \in Seq(Card) /\ Len(rest) = Len(cards) - 1
            /\ \A k \in 1 .. i - 1 : rest[k] = cards[k]
        BY <3>1, <3>3, <3>5
      <3>7. ASSUME NEW k \in i .. Len(cards) - 1 PROVE rest[k] = cards[k + 1]
        BY <3>2, <3>3, <3>4, <3>5
      <3> QED
        BY <3>6, <3>7
    <2> HIDE DEF rest
    <2>a. DOMAIN rest = 1 .. Len(cards) - 1
      BY <1>0, <2>4
    <2>5. InOrder(rest)
      BY <1>0, <2>1, <2>4, <2>a DEF InOrder
    <2>6. ToSet(rest) = ToSet(cards) \ {c}
      <3>1. ASSUME NEW d \in ToSet(rest) PROVE d \in ToSet(cards) \ {c}
        <4>1. PICK k \in 1 .. Len(cards) - 1 : rest[k] = d
          BY <2>a DEF ToSet
        <4>2. CASE k < i
          <5>1. d = cards[k] /\ k \in DOMAIN cards /\ cards[k] < cards[i]
            BY <1>0, <2>1, <2>4, <4>1, <4>2
          <5> QED
            BY <1>0, <2>1, <5>1 DEF ToSet
        <4>3. CASE k >= i
          <5>1. d = cards[k + 1] /\ k + 1 \in DOMAIN cards /\ cards[i] < cards[k + 1]
            BY <1>0, <2>1, <2>4, <4>1, <4>3
          <5> QED
            BY <1>0, <2>1, <5>1 DEF ToSet
        <4> QED
          BY <1>0, <2>1, <4>1, <4>2, <4>3
      <3>2. ASSUME NEW d \in ToSet(cards) \ {c} PROVE d \in ToSet(rest)
        <4>1. PICK k \in 1 .. Len(cards) : cards[k] = d /\ k # i
          BY <2>1 DEF ToSet
        <4>2. CASE k < i
          BY <2>1, <2>4, <4>1, <4>2 DEF ToSet
        <4>3. CASE k > i
          <5>1. rest[k - 1] = d /\ k - 1 \in 1 .. Len(rest)
            BY <2>1, <2>4, <4>1, <4>3
          <5> QED
            BY <2>4, <5>1 DEF ToSet
        <4> QED
          BY <4>1, <4>2, <4>3
      <3> QED
        BY <3>1, <3>2
    <2>7. Len(rest) <= Len(cards)
      BY <1>0, <2>4
    <2> QED
      BY <2>4, <2>5, <2>6, <2>7 DEF rest
  <1> QED
    BY <1>1, <1>2

\* What is appended is kept, what is not kept is evicted, in order.
LEMMA KeptOrEvicted ==
    ASSUME NEW cards \in Seq(Card), Len(cards) <= MaxQueued, InOrder(cards),
           NEW c \in Card, \A i \in DOMAIN cards : cards[i] < c
    PROVE  LET all == Append(cards, c) IN
           /\ Kept(all) \in Seq(Card) /\ Len(Kept(all)) <= MaxQueued
           /\ InOrder(Kept(all)) /\ ToSet(Evicted(all)) \subseteq Card
           /\ ToSet(Kept(all)) \cup ToSet(Evicted(all)) = ToSet(cards) \cup {c}
  <1> DEFINE all == Append(cards, c)
             n == Len(cards)
  <1>1. /\ MaxQueued \in Nat \ {0} /\ n \in Nat /\ all \in Seq(Card) /\ Len(all) = n + 1
        /\ \A k \in 1 .. n : all[k] = cards[k]
        /\ all[n + 1] = c
    BY KChatAssumption
  <1>2. InOrder(all)
    BY <1>1 DEF InOrder, Card
  <1>3. ToSet(all) = ToSet(cards) \cup {c}
    BY <1>1 DEF ToSet
  <1>4. CASE n < MaxQueued
    <2>1. Evicted(all) = <<>>
      BY <1>1, <1>4 DEF Evicted
    <2>2. Kept(all) = all
      BY <1>1, <2>1 DEF Kept
    <2> QED
      BY <1>1, <1>2, <1>3, <1>4, <2>1, <2>2 DEF ToSet
  <1>5. CASE n = MaxQueued
    <2>1. Evicted(all) \in Seq(Card) /\ Len(Evicted(all)) = 1 /\ Evicted(all)[1] = all[1]
      BY <1>1, <1>5 DEF Evicted
    <2>2. /\ Kept(all) \in Seq(Card) /\ Len(Kept(all)) = n
          /\ \A k \in 1 .. n : Kept(all)[k] = all[k + 1]
      BY <1>1, <1>5, <2>1 DEF Kept
    <2>a. DOMAIN Kept(all) = 1 .. n /\ DOMAIN all = 1 .. n + 1
      BY <1>1, <2>2
    <2>3. InOrder(Kept(all))
      <3> SUFFICES ASSUME NEW i \in 1 .. n, NEW j \in 1 .. n, i < j
                   PROVE  Kept(all)[i] < Kept(all)[j]
        BY <2>a DEF InOrder
      <3>1. i + 1 \in 1 .. n + 1 /\ j + 1 \in 1 .. n + 1 /\ i + 1 < j + 1
        BY <1>1
      <3>2. all[i + 1] < all[j + 1]
        BY <1>2, <2>a, <3>1 DEF InOrder
      <3> QED
        BY <2>2, <3>2
    <2>4. ToSet(Evicted(all)) = {all[1]} /\ all[1] \in Card
      BY <1>1, <2>1 DEF ToSet
    <2>5. ToSet(Kept(all)) \cup {all[1]} = ToSet(all)
      <3>1. ASSUME NEW k \in 2 .. n + 1
            PROVE  all[k] = Kept(all)[k - 1] /\ k - 1 \in 1 .. n
        <4>1. k - 1 \in 1 .. n /\ (k - 1) + 1 = k
          BY <1>1, <3>1
        <4> QED
          BY <2>2, <4>1
      <3>2. ASSUME NEW d \in ToSet(all) PROVE d \in ToSet(Kept(all)) \cup {all[1]}
        <4>1. PICK k \in 1 .. n + 1 : all[k] = d
          BY <2>a DEF ToSet
        <4>2. CASE k = 1
          BY <4>1, <4>2
        <4>3. CASE k # 1
          <5>1. d = Kept(all)[k - 1] /\ k - 1 \in DOMAIN Kept(all)
            BY <1>1, <2>a, <3>1, <4>1, <4>3
          <5> QED
            BY <5>1 DEF ToSet
        <4> QED
          BY <4>2, <4>3
      <3>3. ASSUME NEW d \in ToSet(Kept(all)) PROVE d \in ToSet(all)
        <4>1. PICK k \in 1 .. n : Kept(all)[k] = d
          BY <2>a DEF ToSet
        <4>2. d = all[k + 1] /\ k + 1 \in DOMAIN all
          BY <1>1, <2>2, <2>a, <4>1
        <4> QED
          BY <4>2 DEF ToSet
      <3>4. all[1] \in ToSet(all)
        BY <1>1, <2>a DEF ToSet
      <3> QED
        BY <3>2, <3>3, <3>4
    <2> QED
      BY <1>3, <1>5, <2>2, <2>3, <2>4, <2>5
  <1> QED
    BY <1>1, <1>4, <1>5

-----------------------------------------------------------------------------
(* The invariant, and what handling a request does to it.                  *)

\* Only publishing sends acknowledgements, and it sends nothing else.
PublishSendsAcks == Sends("publish") => job["publish"].request \in Ack

PostedOnce ==
    \A c \in Card :
        c \in unsure \/ overtaken \/ \A m, n \in Posts(c) : m = n

\* The requests of a refresh are answered at once (KChatLoopback).
AnsweredAtOnce ==
    \A t \in Task : job[t].stage = "loading" =>
        (job[t].queued = NoSnapshot <=> job[t].mark = NoSnapshot)

Inv ==
    /\ TypeOK /\ PublishSendsAcks /\ AnsweredAtOnce
    /\ CardsAreAccounted /\ CardsAreKnown
    /\ AcksArePosted /\ PostedAreSettled /\ PostedOnce
    /\ MarksAreCovered /\ MirrorIsWhole

\* A process that is gone has no comments, and nobody handles its requests.
Stopped == ~up => late = {} /\ review = EmptyReview

\* Ingesting a batch of comments never moves the watermark back, and moves
\* it to a comment of the batch.
LEMMA IngestMovesOn ==
    ASSUME NEW r, r.seenIds \subseteq Message, r.lastUpdatedAt \in Time,
           NEW messages \in SUBSET Message
    PROVE  LET s == IngestComments(r, messages) IN
           /\ s.seenIds = r.seenIds \cup messages
           /\ s.lastUpdatedAt \in messages \cup {r.lastUpdatedAt}
           /\ s.lastUpdatedAt \in Time
           /\ r.lastUpdatedAt <= s.lastUpdatedAt
  <1> DEFINE fresh == messages \ r.seenIds
             S == fresh \cup {r.lastUpdatedAt}
  <1>1. MaxMessages \in Nat /\ S \in SUBSET (0 .. MaxMessages) /\ S # {}
    <2>1. MaxMessages \in Nat
      BY KChatAssumption
    <2>2. \A m \in S : m \in 0 .. MaxMessages
      BY <2>1 DEF Message, Time
    <2> QED
      BY <2>1, <2>2
  <1>2. Latest(S) \in S /\ \A u \in S : u <= Latest(S)
    <2> HIDE DEF S
    <2> QED
      BY <1>1, LatestExists
  <1> QED
    BY <1>1, <1>2 DEF IngestComments, Time

\* What a request of either kind does, whoever it comes from and when.
LEMMA HandleKeeps ==
    ASSUME Inv, up, NEW r, Pending(r), r \in Ack \cup Batch, Handle(r),
           UNCHANGED <<up, thread>>
    PROVE  /\ queue' \in Seq(Card) /\ Len(queue') <= MaxQueued
           /\ InOrder(queue') /\ ToSet(queue') \subseteq ToSet(queue)
           /\ ToSet(queue) \subseteq ToSet(queue') \cup ToSet(thread)
           /\ r \in Ack => r.card \notin ToSet(queue')
           /\ review.seenIds \subseteq review'.seenIds
           /\ review'.seenIds \subseteq Message \cap DOMAIN thread
           /\ review'.lastUpdatedAt \in Time
           /\ gaps \subseteq gaps' /\ gaps' \subseteq Message
           /\ Covered(review.lastUpdatedAt)' /\ MirrorIsWhole'
  <1>0. /\ MaxMessages \in Nat /\ thread \in Seq(Card \cup {Person})
        /\ DOMAIN thread = 1 .. Len(thread) /\ Len(thread) \in Nat
        /\ DOMAIN thread \subseteq Message
        /\ review.seenIds \subseteq Message \cap DOMAIN thread
        /\ review.lastUpdatedAt \in Time /\ review.lastUpdatedAt <= Len(thread)
        /\ \A m \in Message : m <= review.lastUpdatedAt
                                => m \in review.seenIds \cup gaps
        /\ gaps \subseteq Message
        /\ queue \in Seq(Card) /\ Len(queue) <= MaxQueued /\ InOrder(queue)
    BY KChatAssumption DEF Inv, TypeOK, CardsAreKnown, MarksAreCovered,
                           Covered, InOrder, Message
  <1>1. CASE r \in Ack /\ PublishToThread(r)
    <2>1. r.card \in Card /\ r.message \in DOMAIN thread /\ thread[r.message] = r.card
      BY <1>1 DEF Inv, AcksArePosted, Ack
    <2>2. /\ queue' \in Seq(Card) /\ Len(queue') <= Len(queue)
          /\ InOrder(queue') /\ ToSet(queue') = ToSet(queue) \ {r.card}
      BY <1>0, <1>1, DequeueTakesOne DEF PublishToThread
    <2>3. r.card \in ToSet(thread)
      BY <2>1 DEF ToSet
    <2>4. Len(queue') <= MaxQueued
      BY <1>0, <2>2, KChatAssumption
    <2>5. /\ review'.seenIds = review.seenIds \cup {r.message}
          /\ review'.lastUpdatedAt \in {r.message, review.lastUpdatedAt}
          /\ review'.lastUpdatedAt \in Time
      BY <1>0, <1>1, <2>1, IngestMovesOn DEF PublishToThread
    <2>6. gaps' = gaps \cup {m \in DOMAIN thread \ review.seenIds :
                               review.lastUpdatedAt < m /\ m < r.message}
      BY <1>1 DEF PublishToThread
    <2>7. gaps \subseteq gaps' /\ gaps' \subseteq Message
      BY <1>0, <2>6
    <2>a. ASSUME NEW m \in DOMAIN thread, m <= review'.lastUpdatedAt
          PROVE  m \in review'.seenIds \cup gaps'
      <3>1. CASE m <= review.lastUpdatedAt
        BY <1>0, <2>5, <2>7, <3>1
      <3>2. CASE m > review.lastUpdatedAt
        <4>1. review'.lastUpdatedAt = r.message
          BY <1>0, <2>5, <2>a, <3>2 DEF Time
        <4>2. m < r.message \/ m = r.message
          BY <1>0, <2>1, <2>a, <4>1
        <4> QED
          BY <2>5, <2>6, <3>2, <4>2
      <3> QED
        BY <1>0, <3>1, <3>2 DEF Time
    <2>8. MirrorIsWhole'
      BY <2>a DEF MirrorIsWhole
    <2>9. Covered(review.lastUpdatedAt)'
      <3>1. review'.lastUpdatedAt <= Len(thread)
        BY <1>0, <2>1, <2>5
      <3>2. \A m \in Message : m <= review'.lastUpdatedAt => m \in DOMAIN thread
        BY <1>0, <2>5, <3>1 DEF Message, Time
      <3> QED
        BY <2>a, <3>1, <3>2 DEF Covered
    <2> QED
      BY <1>0, <2>1, <2>2, <2>3, <2>4, <2>5, <2>6, <2>7, <2>8, <2>9
  <1>2. CASE r \in Batch /\ IngestReviewComments(r)
    <2>1. /\ r.messages \in SUBSET Message /\ r.messages \subseteq DOMAIN thread
          /\ \A n \in r.messages, m \in Message : m < n =>
                 m \in r.messages \cup review.seenIds \cup gaps
      BY <1>2 DEF Inv, MarksAreCovered, Batch
    <2>2. /\ review'.seenIds = review.seenIds \cup r.messages
          /\ review'.lastUpdatedAt \in r.messages \cup {review.lastUpdatedAt}
          /\ review'.lastUpdatedAt \in Time
      BY <1>0, <1>2, <2>1, IngestMovesOn DEF IngestReviewComments
    <2>3. queue' = queue /\ gaps' = gaps
      BY <1>2 DEF IngestReviewComments
    <2>4. \A m \in Message : m <= review'.lastUpdatedAt
                                => m \in review'.seenIds \cup gaps
      BY <1>0, <2>1, <2>2 DEF Message, Time
    <2>5. Covered(review.lastUpdatedAt)'
      BY <1>0, <2>1, <2>2, <2>3, <2>4 DEF Covered, Message, Time
    <2>6. MirrorIsWhole'
      BY <1>0, <2>3, <2>4 DEF MirrorIsWhole
    <2>7. r \notin Ack
      BY <1>2 DEF Ack, Batch
    <2> QED
      BY <1>0, <2>1, <2>2, <2>3, <2>5, <2>6, <2>7
  <1> QED
    BY <1>1, <1>2 DEF Handle

\* What was covered stays so while nothing is forgotten.
LEMMA CoverageLasts ==
    ASSUME NEW time, Covered(time),
           Len(thread) \in Nat, Len(thread') \in Nat, time \in Nat,
           Len(thread) <= Len(thread'), up' => up,
           review.seenIds \subseteq review'.seenIds, gaps \subseteq gaps'
    PROVE  Covered(time)'
  BY DEF Covered

LEMMA RefreshStarts ==
    ASSUME TypeOK, NEW t \in Task, StartRefresh(t)
    PROVE  /\ shown' \in [at : {"loading", "ready", "unavailable"},
                          queued : Seq(Card), mark : Time]
           /\ shown'.at = "loading" /\ shown'.queued = <<>> /\ shown'.mark = 0
           /\ job' \in [Task -> JobState]
           /\ job'[t].stage = "loading" /\ job'[t].queued = NoSnapshot
           /\ job'[t].mark = NoSnapshot
           /\ \A u \in Task \ {t} : job'[u] = job[u]
  <1>1. Loading \in JobState
    BY DEF Loading, JobState, Snapshot, Mark
  <1>2. 0 \in Time /\ <<>> \in Seq(Card)
    BY KChatAssumption DEF Time
  <1> QED
    BY <1>1, <1>2 DEF TypeOK, StartRefresh, ShowLoading, Loading

\* A callback that ends in a refresh, after the server has done nothing or
\* has handled its request: whatever the panel showed is forgotten.
LEMMA RefreshKeeps ==
    ASSUME Inv, NEW t \in Task, StartRefresh(t), UNCHANGED <<up, accepted, thread>>,
           InOrder(queue'), ToSet(queue') \subseteq ToSet(queue),
           ToSet(queue) \subseteq ToSet(queue') \cup ToSet(thread),
           queue' \in Seq(Card),
           late' \subseteq late \cup (IF Sends(t) THEN {job[t].request} ELSE {}),
           review.seenIds \subseteq review'.seenIds,
           review'.seenIds \subseteq DOMAIN thread,
           gaps \subseteq gaps', Covered(review.lastUpdatedAt)', MirrorIsWhole',
           dropped \subseteq dropped', unsure \subseteq unsure',
           overtaken' = overtaken,
           t = "publish" /\ Sends(t) => \/ job[t].request.card \notin ToSet(queue')
                                        \/ job[t].request.card \in unsure'
    PROVE  /\ PublishSendsAcks' /\ AnsweredAtOnce'
           /\ CardsAreAccounted' /\ CardsAreKnown'
           /\ AcksArePosted' /\ PostedAreSettled' /\ PostedOnce' /\ MarksAreCovered'
  <1>0. TypeOK
    BY DEF Inv
  <1>1. /\ shown'.at = "loading" /\ shown'.queued = <<>> /\ shown'.mark = 0
        /\ job'[t].stage = "loading" /\ job'[t].queued = NoSnapshot
        /\ job'[t].mark = NoSnapshot
        /\ \A u \in Task \ {t} : job'[u] = job[u]
    BY <1>0, RefreshStarts
  <1>2. \A r : Pending(r)' => Pending(r)
    BY <1>1 DEF Pending, Sends
  <1>3. PublishSendsAcks'
    BY <1>1 DEF Inv, PublishSendsAcks, Sends, Task
  <1>a. AnsweredAtOnce'
    BY <1>1 DEF Inv, AnsweredAtOnce
  <1>4. CardsAreAccounted'
    BY DEF Inv, CardsAreAccounted
  <1>5. CardsAreKnown'
    <2>1. ToSet(<<>>) = {}
      BY DEF ToSet
    <2>2. up \/ queue' = <<>>
      <3>1. CASE ~up
        <4>1. ToSet(queue) = {}
          BY <2>1, <3>1 DEF Inv, CardsAreKnown
        <4>2. ToSet(queue') = {}
          BY <4>1
        <4> QED
          BY <4>2, NothingInIt
      <3> QED
        BY <3>1
    <2> QED
      BY <1>1, <2>1, <2>2 DEF Inv, CardsAreKnown, InOrder, HasAnswer
  <1>6. AcksArePosted'
    BY <1>2 DEF Inv, AcksArePosted
  <1>7. PostedAreSettled'
    <2> SUFFICES ASSUME NEW c \in Card, c \in ToSet(thread), c \notin unsure', ~overtaken
                 PROVE  Settled(c)'
      BY DEF PostedAreSettled
    <2>1. Settled(c)
      BY DEF Inv, PostedAreSettled
    <2>2. CASE t = "publish"
      BY <1>1, <2>1, <2>2 DEF Settled, Sends, HasAnswer
    <2>3. CASE t # "publish"
      BY <1>1, <2>1, <2>3 DEF Settled, Sends, HasAnswer, Task
    <2> QED
      BY <2>2, <2>3
  <1>8. PostedOnce'
    BY DEF Inv, PostedOnce, Posts
  <1>9. MarksAreCovered'
    <2>0. Len(thread) \in Nat
      BY <1>0 DEF TypeOK
    <2>1. \A time \in Nat : Covered(time) => Covered(time)'
      BY <2>0 DEF Covered
    <2>2. Covered(0)'
      BY <2>0 DEF Covered, Message
    <2>3. ASSUME NEW u \in Task
          PROVE  /\ job'[u].stage = "querying" => Covered(job[u].since)'
                 /\ job'[u].stage = "loading" /\ job'[u].mark # NoSnapshot
                      => Covered(job[u].mark)'
      <3>1. CASE u = t
        BY <1>1, <3>1
      <3>2. CASE u # t
        <4>1. job'[u] = job[u] /\ job[u] \in JobState
          BY <1>0, <1>1, <3>2 DEF TypeOK
        <4>2. job[u].stage = "querying" => job[u].since \in Nat /\ Covered(job[u].since)
          BY <4>1 DEF Inv, MarksAreCovered, JobState, Idle, Time
        <4>3. job[u].stage = "loading" /\ job[u].mark # NoSnapshot
                => job[u].mark \in Nat /\ Covered(job[u].mark)
          BY <4>1 DEF Inv, MarksAreCovered, JobState, Idle, Time, Mark
        <4> QED
          BY <2>1, <4>1, <4>2, <4>3
      <3> QED
        BY <3>1, <3>2
    <2> QED
      BY <1>1, <1>2, <2>2, <2>3 DEF Inv, MarksAreCovered
  <1> QED
    BY <1>3, <1>a, <1>4, <1>5, <1>6, <1>7, <1>8, <1>9

-----------------------------------------------------------------------------
(* The callbacks that end in a refresh.                                    *)

LEMMA ClickRefreshKeeps == ASSUME Inv, ClickRefresh PROVE Inv'
  <1>1. "refresh" \in Task /\ StartRefresh("refresh")
    BY DEF ClickRefresh, Task
  <1>2. TypeOK'
    <2>1. UNCHANGED <<server, thread, late, faults, history>>
      BY DEF ClickRefresh
    <2> QED
      BY <1>1, <2>1, RefreshStarts DEF Inv, TypeOK, server, history
  <1>3. /\ UNCHANGED <<server, thread, late, history>>
        /\ InOrder(queue') /\ queue' \in Seq(Card)
        /\ review'.seenIds \subseteq DOMAIN thread
        /\ Covered(review.lastUpdatedAt)' /\ MirrorIsWhole'
    BY DEF ClickRefresh, Inv, TypeOK, CardsAreKnown, InOrder, MarksAreCovered,
           Covered, MirrorIsWhole, server, history
  <1>4. job["refresh"].stage = "idle"
    BY DEF ClickRefresh, Idle
  <1> QED
    BY <1>1, <1>2, <1>3, <1>4, RefreshKeeps DEF Inv, server, history, Sends

LEMMA HostRefusesKeeps ==
    ASSUME Inv, NEW t \in Task, HostRefuses(t) PROVE Inv'
  <1>1. StartRefresh(t) /\ UNCHANGED <<server, thread, late, faults, history>>
    BY DEF HostRefuses
  <1>2. TypeOK'
    BY <1>1, RefreshStarts DEF Inv, TypeOK, server, history
  <1>3. /\ InOrder(queue') /\ queue' \in Seq(Card)
        /\ review'.seenIds \subseteq DOMAIN thread
        /\ Covered(review.lastUpdatedAt)' /\ MirrorIsWhole'
    BY <1>1 DEF Inv, TypeOK, CardsAreKnown, InOrder, MarksAreCovered,
                Covered, MirrorIsWhole, server, history
  <1>4. ~Sends(t)
    BY DEF HostRefuses, Sends
  <1> QED
    BY <1>1, <1>2, <1>3, <1>4, RefreshKeeps DEF Inv, server, history

LEMMA ServeStoppingKeeps ==
    ASSUME Inv, NEW t \in Task, ServeStopping(t) PROVE Inv'
  <1>1. StartRefresh(t) /\ UNCHANGED <<server, thread, late, faults, history>>
    BY DEF ServeStopping
  <1>2. TypeOK'
    BY <1>1, RefreshStarts DEF Inv, TypeOK, server, history
  <1>3. /\ InOrder(queue') /\ queue' \in Seq(Card)
        /\ review'.seenIds \subseteq DOMAIN thread
        /\ Covered(review.lastUpdatedAt)' /\ MirrorIsWhole'
    BY <1>1 DEF Inv, TypeOK, CardsAreKnown, InOrder, MarksAreCovered,
                Covered, MirrorIsWhole, server, history
  <1>4. ToSet(queue') = {}
    BY <1>1 DEF Inv, CardsAreKnown, ServeStopping, ToSet, server
  <1> QED
    BY <1>1, <1>2, <1>3, <1>4, RefreshKeeps DEF Inv, server, history

LEMMA TimedOutKeeps ==
    ASSUME Inv, NEW t \in Task, TimedOut(t) PROVE Inv'
  <1>1. /\ StartRefresh(t) /\ UNCHANGED <<server, thread, dropped, overtaken, gaps>>
        /\ late' = late \cup Abandoned(job[t])
        /\ unsure' = unsure \cup Unconfirmed(job[t])
        /\ Sends(t)
    BY DEF TimedOut, Sends
  <1>2. job[t].request \in Ack \cup Batch
    BY <1>1 DEF Inv, TypeOK, JobState, Idle, Sends
  <1>3. /\ Abandoned(job[t]) \subseteq {job[t].request}
        /\ Unconfirmed(job[t]) \subseteq Card
        /\ job[t].request \in Ack => job[t].request.card \in unsure'
    BY <1>1, <1>2 DEF Abandoned, Unconfirmed, Sends, Ack
  <1>4. faults' \in 0 .. MaxFaults
    BY KChatAssumption DEF TimedOut, Fault, Inv, TypeOK
  <1>5. TypeOK'
    <2>1. \A r \in late' : r \in Ack \cup Batch
      BY <1>1, <1>2, <1>3 DEF Inv, TypeOK
    <2> QED
      BY <1>1, <1>3, <1>4, <2>1, RefreshStarts DEF Inv, TypeOK, server
  <1>6. /\ InOrder(queue') /\ queue' \in Seq(Card)
        /\ review'.seenIds \subseteq DOMAIN thread
        /\ Covered(review.lastUpdatedAt)' /\ MirrorIsWhole'
    BY <1>1 DEF Inv, TypeOK, CardsAreKnown, InOrder, MarksAreCovered,
                Covered, MirrorIsWhole, server
  <1>7. t = "publish" => job[t].request \in Ack
    BY <1>1 DEF Inv, PublishSendsAcks
  <1> QED
    BY <1>1, <1>3, <1>5, <1>6, <1>7, RefreshKeeps DEF Inv, server

LEMMA ServeKeeps ==
    ASSUME Inv, NEW t \in Task, Serve(t) PROVE Inv'
  <1>1. /\ StartRefresh(t) /\ Handle(job[t].request) /\ Sends(t) /\ up
        /\ UNCHANGED <<up, accepted, thread, late, faults, dropped, unsure, overtaken>>
    BY DEF Serve, Sends
  <1>2. job[t].request \in Ack \cup Batch /\ Pending(job[t].request)
    BY <1>1 DEF Inv, TypeOK, JobState, Idle, Sends, Pending
  <1>3. /\ queue' \in Seq(Card) /\ Len(queue') <= MaxQueued
        /\ InOrder(queue') /\ ToSet(queue') \subseteq ToSet(queue)
        /\ ToSet(queue) \subseteq ToSet(queue') \cup ToSet(thread)
        /\ job[t].request \in Ack => job[t].request.card \notin ToSet(queue')
        /\ review.seenIds \subseteq review'.seenIds
        /\ review'.seenIds \subseteq Message \cap DOMAIN thread
        /\ review'.lastUpdatedAt \in Time
        /\ gaps \subseteq gaps' /\ gaps' \subseteq Message
        /\ Covered(review.lastUpdatedAt)' /\ MirrorIsWhole'
    BY <1>1, <1>2, HandleKeeps
  <1>4. TypeOK'
    BY <1>1, <1>3, RefreshStarts DEF Inv, TypeOK
  <1>5. t = "publish" => job[t].request \in Ack
    BY <1>1 DEF Inv, PublishSendsAcks
  <1> QED
    BY <1>1, <1>3, <1>4, <1>5, RefreshKeeps DEF Inv

-----------------------------------------------------------------------------
(* The other steps of the panel.                                           *)

\* What a step that only the panel takes leaves as it is.
LEMMA PanelAlone ==
    ASSUME Inv, UNCHANGED <<server, thread, history>>
    PROVE  CardsAreAccounted' /\ PostedOnce' /\ MirrorIsWhole'
  BY DEF Inv, CardsAreAccounted, PostedOnce, Posts, MirrorIsWhole,
         server, history

LEMMA OnPublishNextKeeps == ASSUME Inv, OnPublishNext PROVE Inv'
  <1> DEFINE c == Head(shown.queued)
  <1>1. /\ UNCHANGED <<server, thread, shown, late, faults, history>>
        /\ job' = [job EXCEPT !["publish"] = [stage |-> "posting", card |-> c]]
        /\ job["publish"].stage = "idle"
        /\ shown.at = "ready" /\ shown.queued # <<>>
    BY DEF OnPublishNext, Idle
  <1>2. c \in Card /\ c \in ToSet(shown.queued) /\ job \in [Task -> JobState]
    <2>1. shown.queued \in Seq(Card) /\ job \in [Task -> JobState]
      BY DEF Inv, TypeOK
    <2> QED
      BY <1>1, <2>1 DEF ToSet
  <1>3. /\ job' \in [Task -> JobState]
        /\ job'["publish"] = [stage |-> "posting", card |-> c]
        /\ \A u \in Task \ {"publish"} : job'[u] = job[u]
    BY <1>1, <1>2 DEF JobState, Task
  <1>4. TypeOK'
    BY <1>1, <1>3 DEF Inv, TypeOK, server, history
  <1>5. PublishSendsAcks' /\ AnsweredAtOnce'
    BY <1>3 DEF Inv, PublishSendsAcks, AnsweredAtOnce, Sends
  <1>6. \A r : Pending(r)' => Pending(r)
    BY <1>1, <1>3 DEF Pending, Sends
  <1>7. CardsAreKnown'
    <2>1. c \in 1 .. accepted
      BY <1>2 DEF Inv, CardsAreKnown
    <2> QED
      BY <1>1, <1>3, <2>1 DEF Inv, CardsAreKnown, HasAnswer, server
  <1>8. AcksArePosted'
    BY <1>1, <1>6 DEF Inv, AcksArePosted
  <1>9. PostedAreSettled'
    <2> SUFFICES ASSUME NEW d \in Card, d \in ToSet(thread), d \notin unsure, ~overtaken
                 PROVE  Settled(d)'
      BY <1>1 DEF PostedAreSettled, history
    <2>1. Settled(d)
      BY DEF Inv, PostedAreSettled
    <2>2. d # c
      BY <1>1, <1>2, <2>1 DEF Settled, Sends
    <2> QED
      BY <1>1, <1>3, <2>1, <2>2 DEF Settled, Sends, HasAnswer, Task, server
  <1>10. MarksAreCovered'
    BY <1>1, <1>3, <1>6 DEF Inv, MarksAreCovered, Covered, server, history
  <1> QED
    BY <1>1, <1>4, <1>5, <1>7, <1>8, <1>9, <1>10, PanelAlone DEF Inv

LEMMA OnMirrorRecentKeeps == ASSUME Inv, OnMirrorRecent PROVE Inv'
  <1>1. /\ UNCHANGED <<server, thread, shown, late, faults, history>>
        /\ job' = [job EXCEPT !["mirror"] = [stage |-> "querying", since |-> shown.mark]]
    BY DEF OnMirrorRecent
  <1>2. /\ job' \in [Task -> JobState]
        /\ job'["mirror"] = [stage |-> "querying", since |-> shown.mark]
        /\ \A u \in Task \ {"mirror"} : job'[u] = job[u]
    BY <1>1 DEF Inv, TypeOK, JobState, Task
  <1>3. TypeOK'
    BY <1>1, <1>2 DEF Inv, TypeOK, server, history
  <1>4. PublishSendsAcks' /\ AnsweredAtOnce'
    BY <1>2 DEF Inv, PublishSendsAcks, AnsweredAtOnce, Sends, Task
  <1>5. \A r : Pending(r)' => Pending(r)
    BY <1>1, <1>2 DEF Pending, Sends
  <1>6. CardsAreKnown'
    BY <1>1, <1>2 DEF Inv, CardsAreKnown, HasAnswer, server
  <1>7. AcksArePosted'
    BY <1>1, <1>5 DEF Inv, AcksArePosted
  <1>8. PostedAreSettled'
    BY <1>1, <1>2 DEF Inv, PostedAreSettled, Settled, Sends, HasAnswer, Task, server, history
  <1>9. MarksAreCovered'
    BY <1>1, <1>2, <1>5 DEF Inv, MarksAreCovered, Covered, server, history
  <1> QED
    BY <1>1, <1>3, <1>4, <1>6, <1>7, <1>8, <1>9, PanelAlone DEF Inv

LEMMA PushReviewCommentsKeeps == ASSUME Inv, PushReviewComments PROVE Inv'
  <1> DEFINE since == job["mirror"].since
             found == QueryMessages(since)
  <1>b. PICK some \in Limited(found) :
             /\ Send("mirror", [messages |-> some])
             /\ gaps' = gaps \cup LeftOut(found, some)
    BY DEF PushReviewComments
  <1> DEFINE batch == [messages |-> some]
  <1>1. /\ UNCHANGED <<server, thread, shown, late, faults, dropped, unsure, overtaken>>
        /\ job' = [job EXCEPT !["mirror"] = [stage |-> "sending", request |-> batch]]
        /\ job["mirror"].stage = "querying"
    BY <1>b DEF PushReviewComments, Send
  <1>c. some \subseteq found /\ found \subseteq DOMAIN thread
    BY DEF Limited, kSubset, QueryMessages
  <1>0. /\ MaxMessages \in Nat /\ Len(thread) \in Nat /\ Len(thread) <= MaxMessages
        /\ DOMAIN thread = 1 .. Len(thread)
        /\ since \in Time /\ Covered(since)
    BY <1>1, KChatAssumption
       DEF Inv, TypeOK, MarksAreCovered, JobState, Idle, Task
  <1>a. batch \in Batch /\ batch \notin Ack
    BY <1>0, <1>c DEF Batch, Ack, Message
  <1>d. gaps \subseteq gaps' /\ gaps' \subseteq Message
    <2>1. LeftOut(found, some) \subseteq found
      BY DEF LeftOut
    <2>2. found \subseteq Message
      BY <1>0, <1>c DEF Message
    <2>3. gaps \subseteq Message
      BY DEF Inv, TypeOK
    <2> QED
      BY <1>b, <2>1, <2>2, <2>3
  <1>2. /\ job' \in [Task -> JobState]
        /\ job'["mirror"] = [stage |-> "sending", request |-> batch]
        /\ \A u \in Task \ {"mirror"} : job'[u] = job[u]
    BY <1>1, <1>a DEF Inv, TypeOK, JobState, Task
  <1>3. TypeOK'
    BY <1>1, <1>2, <1>d DEF Inv, TypeOK, server
  <1>4. PublishSendsAcks' /\ AnsweredAtOnce'
    BY <1>2 DEF Inv, PublishSendsAcks, AnsweredAtOnce, Sends, Task
  <1>5. \A r : Pending(r)' => Pending(r) \/ r = batch
    BY <1>1, <1>2 DEF Pending, Sends
  <1>6. CardsAreKnown'
    BY <1>1, <1>2 DEF Inv, CardsAreKnown, HasAnswer, server
  <1>7. AcksArePosted'
    BY <1>1, <1>5, <1>a DEF Inv, AcksArePosted
  <1>8. PostedAreSettled'
    BY <1>1, <1>2 DEF Inv, PostedAreSettled, Settled, Sends, HasAnswer, Task, server
  <1>9. MarksAreCovered'
    <2>1. batch.messages \subseteq DOMAIN thread
      BY <1>c
    <2>2. ASSUME up, NEW n \in batch.messages, NEW m \in Message, m < n
          PROVE  m \in batch.messages \cup review.seenIds \cup gaps'
      <3>1. n \in DOMAIN thread /\ m \in 1 .. Len(thread)
        BY <1>0, <1>c, <2>2 DEF Message
      <3>2. m > since => m \in found
        BY <1>0, <3>1 DEF QueryMessages
      <3>3. m \in found => m \in some \cup gaps'
        BY <1>b, <2>2 DEF LeftOut
      <3>4. m <= since => m \in review.seenIds \cup gaps
        BY <1>0, <2>2 DEF Covered
      <3> HIDE DEF since, found
      <3> QED
        BY <1>0, <1>d, <2>2, <3>2, <3>3, <3>4 DEF Message, Time
    <2> HIDE DEF batch
    <2>3. \A r \in Batch : Pending(r)' =>
             /\ r.messages \subseteq DOMAIN thread
             /\ up => \A n \in r.messages, m \in Message : m < n =>
                          m \in r.messages \cup review.seenIds \cup gaps'
      BY <1>5, <1>d, <2>1, <2>2 DEF Inv, MarksAreCovered
    <2>4. \A time : Covered(time) => Covered(time)'
      BY <1>1, <1>d DEF Covered, server
    <2> QED
      BY <1>1, <1>2, <2>3, <2>4 DEF Inv, MarksAreCovered, server
  <1>10. CardsAreAccounted' /\ PostedOnce' /\ MirrorIsWhole'
    BY <1>1, <1>d DEF Inv, CardsAreAccounted, PostedOnce, Posts, MirrorIsWhole, server
  <1> QED
    BY <1>3, <1>4, <1>6, <1>7, <1>8, <1>9, <1>10 DEF Inv

LEMMA AnswerRefreshKeeps ==
    ASSUME Inv, NEW t \in Task, AnswerRefresh(t) PROVE Inv'
  <1>0. job' = [job EXCEPT ![t].queued = queue, ![t].mark = review.lastUpdatedAt]
    BY DEF AnswerRefresh
  <1>1. /\ UNCHANGED <<server, thread, shown, late, faults, history>>
        /\ job[t].stage = "loading" /\ job[t].queued = NoSnapshot
    BY DEF AnswerRefresh
  <1>2. job[t] \in [stage : {"loading"}, queued : Snapshot, mark : Mark, old : BOOLEAN]
    BY <1>1 DEF Inv, TypeOK, JobState, Idle
  <1>3. /\ job'[t] = [stage |-> "loading", queued |-> queue,
                      mark |-> review.lastUpdatedAt, old |-> job[t].old]
        /\ \A u \in Task \ {t} : job'[u] = job[u]
    BY <1>0, <1>1, <1>2 DEF Inv, TypeOK
  <1>4. job' \in [Task -> JobState]
    <2>1. job'[t] \in JobState
      BY <1>2, <1>3 DEF JobState, Snapshot, Mark, Inv, TypeOK
    <2>2. DOMAIN job' = Task /\ job' = [u \in Task |-> job'[u]]
      BY <1>0 DEF Inv, TypeOK
    <2> QED
      BY <1>3, <2>1, <2>2 DEF Inv, TypeOK
  <1>5. TypeOK'
    BY <1>1, <1>4 DEF Inv, TypeOK, server, history
  <1>6. PublishSendsAcks'
    BY <1>1, <1>3 DEF Inv, PublishSendsAcks, Sends, Task
  <1>a. AnsweredAtOnce'
    <2>1. review.lastUpdatedAt # NoSnapshot
      BY KChatAssumption DEF Inv, TypeOK, Time
    <2>2. queue # NoSnapshot
      <3>1. queue \in Seq(Nat)
        BY KChatAssumption DEF Inv, TypeOK, Card
      <3> QED
        BY <3>1, KChatAssumption
    <2> QED
      BY <1>3, <2>1, <2>2 DEF Inv, AnsweredAtOnce
  <1>7. \A r : Pending(r)' => Pending(r)
    BY <1>1, <1>3 DEF Pending, Sends
  <1>8. CardsAreKnown'
    BY <1>1, <1>3 DEF Inv, CardsAreKnown, HasAnswer, server
  <1>9. AcksArePosted'
    BY <1>1, <1>7 DEF Inv, AcksArePosted
  <1>10. PostedAreSettled'
    <2> SUFFICES ASSUME NEW c \in Card, c \in ToSet(thread), c \notin unsure, ~overtaken
                 PROVE  Settled(c)'
      BY <1>1 DEF PostedAreSettled, history
    <2>1. Settled(c)
      BY DEF Inv, PostedAreSettled
    <2>2. CASE Sends("publish") /\ job["publish"].request.card = c
      BY <1>1, <1>3, <2>2 DEF Settled, Sends, Task
    <2>3. CASE ~(Sends("publish") /\ job["publish"].request.card = c)
      BY <1>1, <1>3, <2>1, <2>3 DEF Settled, Sends, HasAnswer, Task, server
    <2> QED
      BY <2>2, <2>3
  <1>11. MarksAreCovered'
    BY <1>1, <1>3, <1>7 DEF Inv, MarksAreCovered, Covered, server, history
  <1> QED
    BY <1>1, <1>5, <1>6, <1>a, <1>8, <1>9, <1>10, <1>11, PanelAlone DEF Inv

\* The end of a refresh, as the other callbacks see it.
LEMMA EndedIsTyped ==
    ASSUME TypeOK, NEW t \in Task
    PROVE  /\ Ended(t) \in [Task -> JobState]
           /\ Ended(t)[t] = Idle
           /\ \A u \in Task \ {t} :
                /\ job[u].stage # "loading" => Ended(t)[u] = job[u]
                /\ job[u].stage = "loading" =>
                     /\ Ended(t)[u].stage = "loading"
                     /\ Ended(t)[u].queued = job[u].queued
                     /\ Ended(t)[u].mark = job[u].mark
                     /\ job[u].queued # NoSnapshot => Ended(t)[u].old
  <1>1. ASSUME NEW u \in Task \ {t}, job[u].stage = "loading"
        PROVE  /\ Ended(t)[u] = [stage |-> "loading", queued |-> job[u].queued,
                                 mark |-> job[u].mark,
                                 old |-> job[u].old \/ job[u].queued # NoSnapshot]
               /\ Ended(t)[u] \in JobState
    <2>1. job[u] \in [stage : {"loading"}, queued : Snapshot, mark : Mark, old : BOOLEAN]
      BY <1>1 DEF TypeOK, JobState, Idle
    <2> QED
      BY <1>1, <2>1 DEF Ended, JobState
  <1>2. ASSUME NEW u \in Task \ {t}, job[u].stage # "loading"
        PROVE  Ended(t)[u] = job[u] /\ Ended(t)[u] \in JobState
    BY <1>2 DEF Ended, TypeOK
  <1>3. Ended(t)[t] = Idle /\ Idle \in JobState
    BY DEF Ended, JobState
  <1>4. \A u \in Task : Ended(t)[u] \in JobState
    BY <1>1, <1>2, <1>3
  <1>5. Ended(t) \in [Task -> JobState]
    <2>1. Ended(t) = [u \in Task |-> Ended(t)[u]]
      BY DEF Ended
    <2> QED
      BY <1>4, <2>1
  <1>6. ASSUME NEW u \in Task \ {t}, job[u].stage = "loading", job[u].queued # NoSnapshot
        PROVE  Ended(t)[u].old
    <2>1. (job[u].old \/ job[u].queued # NoSnapshot) = TRUE
      BY <1>6
    <2>2. Ended(t)[u] = [stage |-> "loading", queued |-> job[u].queued,
                         mark |-> job[u].mark, old |-> TRUE]
      BY <1>1, <1>6, <2>1
    <2> QED
      BY <2>2
  <1> QED
    BY <1>1, <1>2, <1>3, <1>5, <1>6

\* A refresh that is over, and what is displayed from then on.
LEMMA EndedKeeps ==
    ASSUME Inv, NEW t \in Task, job' = Ended(t),
           UNCHANGED <<server, thread, late, dropped, unsure, gaps>>,
           overtaken => overtaken',
           shown'.mark \in Time, Covered(shown'.mark),
           ToSet(shown'.queued) \subseteq 1 .. accepted,
           job[t].stage = "loading",
           \A c \in ToSet(shown'.queued) :
               \/ c \notin ToSet(thread) \/ c \notin Card \/ c \in unsure \/ overtaken'
               \/ Sends("publish") /\ job["publish"].request.card = c
               \/ t # "publish" /\ job["publish"].stage = "loading"
    PROVE  /\ PublishSendsAcks' /\ AnsweredAtOnce'
           /\ CardsAreAccounted' /\ CardsAreKnown'
           /\ AcksArePosted' /\ PostedAreSettled' /\ PostedOnce' /\ MarksAreCovered'
           /\ MirrorIsWhole'
  <1>1. /\ job'[t] = Idle
        /\ \A u \in Task \ {t} :
             /\ job[u].stage # "loading" => job'[u] = job[u]
             /\ job[u].stage = "loading" =>
                  /\ job'[u].stage = "loading"
                  /\ job'[u].queued = job[u].queued
                  /\ job'[u].mark = job[u].mark
                  /\ job[u].queued # NoSnapshot => job'[u].old
    BY EndedIsTyped DEF Inv
  <1>2. /\ \A u \in Task : Sends(u)' => Sends(u) /\ job'[u] = job[u]
        /\ \A u \in Task : Sends(u) => Sends(u)'
    BY <1>1 DEF Sends, Idle
  <1>3. \A u \in Task : HasAnswer(u)' =>
            u # t /\ HasAnswer(u) /\ job'[u].queued = job[u].queued /\ job'[u].old
    BY <1>1 DEF HasAnswer, Idle
  <1>4. PublishSendsAcks' /\ AnsweredAtOnce'
    BY <1>1, <1>2 DEF Inv, PublishSendsAcks, AnsweredAtOnce, Task, Idle
  <1>5. \A r : Pending(r)' => Pending(r)
    BY <1>2 DEF Pending
  <1>6. CardsAreAccounted' /\ MirrorIsWhole'
    BY DEF Inv, CardsAreAccounted, MirrorIsWhole, server
  <1>7. CardsAreKnown'
    BY <1>1, <1>3 DEF Inv, CardsAreKnown, Idle, server
  <1>8. AcksArePosted'
    BY <1>5 DEF Inv, AcksArePosted
  <1>9. PostedAreSettled'
    <2> SUFFICES ASSUME NEW c \in Card, c \in ToSet(thread), c \notin unsure, ~overtaken'
                 PROVE  Settled(c)'
      BY DEF PostedAreSettled
    <2>1. Settled(c)
      BY DEF Inv, PostedAreSettled
    <2>2. CASE Sends("publish") /\ job["publish"].request.card = c
      BY <1>2, <2>2 DEF Settled, Task
    <2>3. CASE ~(Sends("publish") /\ job["publish"].request.card = c)
      <3>1. /\ c \notin ToSet(queue')
            /\ job'["publish"].stage = "posting" => job'["publish"].card # c
        BY <1>1, <2>1, <2>3 DEF Settled, Task, Idle, server
      <3>2. c \in ToSet(shown'.queued) => job'["publish"].stage = "loading"
        BY <1>1, <2>3 DEF Task
      <3>3. \A u \in Task : HasAnswer(u)' /\ c \in ToSet(job'[u].queued) =>
                u # "publish" /\ job'[u].old
        BY <1>3, <2>1, <2>3 DEF Settled
      <3> QED
        BY <3>1, <3>2, <3>3 DEF Settled
    <2> QED
      BY <2>2, <2>3
  <1>10. PostedOnce'
    BY DEF Inv, PostedOnce, Posts
  <1>11. MarksAreCovered'
    <2>1. \A time : Covered(time) => Covered(time)'
      BY DEF Covered, server
    <2>2. Covered(shown.mark)' /\ Covered(review.lastUpdatedAt)'
      BY DEF Inv, MarksAreCovered, Covered, server
    <2>3. ASSUME NEW u \in Task
          PROVE  /\ job'[u].stage = "querying" => Covered(job[u].since)'
                 /\ job'[u].stage = "loading" /\ job'[u].mark # NoSnapshot
                      => Covered(job[u].mark)'
      BY <1>1 DEF Inv, MarksAreCovered, Covered, Idle, server
    <2> QED
      BY <1>5, <2>2, <2>3 DEF Inv, MarksAreCovered, server
  <1> QED
    BY <1>4, <1>6, <1>7, <1>8, <1>9, <1>10, <1>11

LEMMA ShowAnswersKeeps ==
    ASSUME Inv, NEW t \in Task, ShowAnswers(t) PROVE Inv'
  <1>1. /\ UNCHANGED <<server, thread, late, faults, dropped, unsure, gaps>>
        /\ shown' = [at |-> "ready", queued |-> job[t].queued, mark |-> job[t].mark]
        /\ overtaken' = (overtaken \/ job[t].old)
        /\ job' = Ended(t) /\ HasAnswer(t) /\ job[t].stage = "loading"
        /\ job[t].queued # NoSnapshot /\ job[t].mark # NoSnapshot
    BY DEF ShowAnswers, Unanswered, HasAnswer, Inv, AnsweredAtOnce
  <1>2. job[t] \in [stage : {"loading"}, queued : Snapshot, mark : Mark, old : BOOLEAN]
    BY <1>1 DEF Inv, TypeOK, JobState, Idle
  <1>3. job[t].queued \in Seq(Card) /\ job[t].mark \in Time /\ job[t].old \in BOOLEAN
    BY <1>1, <1>2 DEF Snapshot, Mark
  <1>4. TypeOK'
    <2>1. job' \in [Task -> JobState]
      BY <1>1, EndedIsTyped DEF Inv
    <2> QED
      BY <1>1, <1>3, <2>1 DEF Inv, TypeOK, server
  <1>5. shown'.mark = job[t].mark /\ shown'.queued = job[t].queued
    BY <1>1
  <1>6. Covered(shown'.mark) /\ ToSet(shown'.queued) \subseteq 1 .. accepted
    BY <1>1, <1>5 DEF Inv, MarksAreCovered, CardsAreKnown
  <1>7. ASSUME NEW c \in ToSet(shown'.queued), c \in ToSet(thread), c \in Card,
               c \notin unsure, ~overtaken',
               ~(Sends("publish") /\ job["publish"].request.card = c)
        PROVE  t # "publish" /\ job["publish"].stage = "loading"
    <2>1. Settled(c) /\ ~job[t].old
      BY <1>1, <1>7 DEF Inv, PostedAreSettled
    <2> QED
      BY <1>1, <1>5, <1>7, <2>1 DEF Settled, Sends
  <1>8. shown'.mark \in Time /\ (overtaken => overtaken')
    BY <1>1, <1>3, <1>5
  <1>9. /\ job' = Ended(t) /\ job[t].stage = "loading"
        /\ UNCHANGED <<server, thread, late, dropped, unsure, gaps>>
    BY <1>1
  <1>10. /\ PublishSendsAcks' /\ AnsweredAtOnce' /\ CardsAreAccounted' /\ CardsAreKnown'
         /\ AcksArePosted' /\ PostedAreSettled' /\ PostedOnce' /\ MarksAreCovered'
         /\ MirrorIsWhole'
    BY <1>6, <1>7, <1>8, <1>9, EndedKeeps
  <1> QED
    BY <1>4, <1>10 DEF Inv

LEMMA RefreshFailsKeeps ==
    ASSUME Inv, NEW t \in Task, RefreshFails(t) PROVE Inv'
  <1>1. /\ UNCHANGED <<server, thread, late, history>>
        /\ shown' = [at |-> "unavailable", queued |-> <<>>, mark |-> 0]
        /\ job' = Ended(t) /\ job[t].stage = "loading"
    BY DEF RefreshFails, ShowLoading
  <1>2. faults' \in 0 .. MaxFaults
    BY KChatAssumption DEF RefreshFails, Fault, Inv, TypeOK
  <1>3. 0 \in Time /\ ToSet(<<>>) = {} /\ Covered(0)
    BY KChatAssumption DEF Time, ToSet, Covered, Message, Inv, TypeOK
  <1>4. TypeOK'
    <2>1. job' \in [Task -> JobState]
      BY <1>1, EndedIsTyped DEF Inv
    <2> QED
      BY <1>1, <1>2, <1>3, <2>1 DEF Inv, TypeOK, server, history
  <1>5. shown'.mark = 0 /\ shown'.queued = <<>>
    BY <1>1
  <1> QED
    BY <1>1, <1>3, <1>4, <1>5, EndedKeeps DEF Inv, history

LEMMA PanelRestartsKeeps == ASSUME Inv, PanelRestarts PROVE Inv'
  <1>1. /\ UNCHANGED <<server, thread, dropped, overtaken, gaps>>
        /\ late' = late \cup UNION {Abandoned(job[t]) : t \in Task}
        /\ unsure' = unsure \cup UNION {Unconfirmed(job[t]) : t \in Task}
        /\ shown' = [at |-> "loading", queued |-> <<>>, mark |-> 0]
        /\ job' = [t \in Task |-> IF t = "refresh" THEN Loading ELSE Idle]
        /\ faults' \in 0 .. MaxFaults
    BY KChatAssumption DEF PanelRestarts, ShowLoading, Inv, TypeOK
  <1>2. \A t \in Task :
            job'[t] \in {Loading, Idle} /\ (t = "publish" => job'[t] = Idle)
    BY <1>1 DEF Task
  <1>3. \A t \in Task : /\ job'[t].stage \in {"loading", "idle"}
                        /\ job'[t].stage = "loading" =>
                             job'[t].queued = NoSnapshot /\ job'[t].mark = NoSnapshot
    BY <1>2 DEF Loading, Idle
  <1>4. \A t \in Task : /\ \A r \in Abandoned(job[t]) : Sends(t) /\ r = job[t].request
                        /\ Unconfirmed(job[t]) \subseteq Card
    BY DEF Abandoned, Unconfirmed, Sends, Ack
  <1>5. \A t \in Task : Sends(t) => job[t].request \in Ack \cup Batch
    BY DEF Inv, TypeOK, JobState, Idle, Sends
  <1>6. TypeOK'
    <2>1. job' \in [Task -> JobState]
      BY <1>1 DEF JobState, Loading, Snapshot, Mark
    <2>2. 0 \in Time
      BY KChatAssumption DEF Time
    <2>3. \A r \in late' : r \in Ack \cup Batch
      BY <1>1, <1>4, <1>5 DEF Inv, TypeOK
    <2>4. unsure' \subseteq Card
      BY <1>1, <1>4 DEF Inv, TypeOK
    <2> QED
      BY <1>1, <2>1, <2>2, <2>3, <2>4 DEF Inv, TypeOK, server
  <1>7. \A t \in Task : ~Sends(t)' /\ ~HasAnswer(t)'
    BY <1>3 DEF Sends, HasAnswer
  <1>8. PublishSendsAcks' /\ AnsweredAtOnce'
    BY <1>3, <1>7 DEF PublishSendsAcks, AnsweredAtOnce, Task
  <1>9. \A r : Pending(r)' => Pending(r)
    BY <1>1, <1>4, <1>7 DEF Pending
  <1>10. CardsAreAccounted' /\ MirrorIsWhole'
    BY <1>1 DEF Inv, CardsAreAccounted, MirrorIsWhole, server
  <1>11. CardsAreKnown'
    <2>1. shown'.queued = <<>> /\ ToSet(<<>>) = {}
      BY <1>1 DEF ToSet
    <2> QED
      BY <1>1, <1>3, <1>7, <2>1 DEF Inv, CardsAreKnown, server
  <1>12. AcksArePosted'
    BY <1>1, <1>9 DEF Inv, AcksArePosted
  <1>13. PostedAreSettled'
    <2> SUFFICES ASSUME NEW c \in Card, c \in ToSet(thread), c \notin unsure', ~overtaken
                 PROVE  Settled(c)'
      BY <1>1 DEF PostedAreSettled
    <2>1. Settled(c)
      BY <1>1 DEF Inv, PostedAreSettled
    <2>2. ~(Sends("publish") /\ job["publish"].request.card = c)
      <3>1. "publish" \in Task
        BY DEF Task
      <3>2. CASE Sends("publish") /\ job["publish"].request.card = c
        <4>1. c \in Unconfirmed(job["publish"])
          BY <3>2 DEF Inv, PublishSendsAcks, Unconfirmed, Sends
        <4> QED
          BY <1>1, <3>1, <4>1
      <3> QED
        BY <3>2
    <2>3. c \notin ToSet(queue')
      BY <1>1, <2>1, <2>2 DEF Settled, server
    <2>4. shown'.at = "loading"
      BY <1>1
    <2> QED
      BY <1>3, <1>7, <2>3, <2>4 DEF Settled, Task
  <1>14. PostedOnce'
    BY <1>1 DEF Inv, PostedOnce, Posts
  <1>15. MarksAreCovered'
    <2>1. shown'.mark = 0 /\ Covered(0)
      BY <1>1 DEF Covered, Message, Inv, TypeOK
    <2> QED
      BY <1>1, <1>3, <1>9, <2>1 DEF Inv, MarksAreCovered, Covered, server
  <1> QED
    BY <1>6, <1>8, <1>10, <1>11, <1>12, <1>13, <1>14, <1>15 DEF Inv

-----------------------------------------------------------------------------
(* The thread grows.                                                       *)

\* Marks, and batches on their way, are below whatever is new in the thread.
LEMMA GrowthKeeps ==
    ASSUME Inv, NEW a \in Card \cup {Person}, thread' = Append(thread, a),
           Len(thread) < MaxMessages
    PROVE  /\ thread' \in Seq(Card \cup {Person}) /\ Len(thread') <= MaxMessages
           /\ Len(thread) + 1 \in Message \cap DOMAIN thread'
           /\ thread'[Len(thread) + 1] = a
           /\ \A m \in DOMAIN thread : m \in DOMAIN thread' /\ thread'[m] = thread[m]
           /\ \A m \in DOMAIN thread' : m \in DOMAIN thread \/ m = Len(thread) + 1
           /\ ToSet(thread') = ToSet(thread) \cup {a}
           /\ UNCHANGED <<up, review, gaps>> =>
                /\ \A time \in Nat : Covered(time) => Covered(time)'
                /\ MirrorIsWhole'
  <1>1. /\ MaxMessages \in Nat /\ Len(thread) \in Nat
        /\ thread \in Seq(Card \cup {Person})
        /\ DOMAIN thread = 1 .. Len(thread)
        /\ review.lastUpdatedAt \in Time /\ review.lastUpdatedAt <= Len(thread)
    BY KChatAssumption DEF Inv, TypeOK, MarksAreCovered, Covered
  <1>2. /\ thread' \in Seq(Card \cup {Person}) /\ Len(thread') = Len(thread) + 1
        /\ DOMAIN thread' = 1 .. Len(thread) + 1
        /\ thread'[Len(thread) + 1] = a
        /\ \A m \in DOMAIN thread : thread'[m] = thread[m]
    BY <1>1
  <1>3. \A m \in DOMAIN thread : m \in DOMAIN thread'
    BY <1>1, <1>2
  <1>4. \A m \in DOMAIN thread' : m \in DOMAIN thread \/ m = Len(thread) + 1
    BY <1>1, <1>2
  <1>5. Len(thread) + 1 \in Message \cap DOMAIN thread'
    BY <1>1, <1>2 DEF Message
  <1> HIDE DEF Person
  <1>6. ToSet(thread') = ToSet(thread) \cup {a}
    BY <1>2, <1>3, <1>4, <1>5 DEF ToSet
  <1>7. ASSUME UNCHANGED <<up, review, gaps>>
        PROVE  /\ \A time \in Nat : Covered(time) => Covered(time)'
               /\ MirrorIsWhole'
    BY <1>1, <1>2, <1>4, <1>7 DEF Covered, MirrorIsWhole, Inv, Time
  <1> QED
    BY <1>1, <1>2, <1>3, <1>4, <1>5, <1>6, <1>7

LEMMA PersonPostsKeeps == ASSUME Inv, PersonPosts PROVE Inv'
  <1>1. /\ UNCHANGED <<server, panel, late, faults, history>>
        /\ thread' = Append(thread, Person) /\ Len(thread) < MaxMessages
    BY DEF PersonPosts
  <1>2. /\ thread' \in Seq(Card \cup {Person}) /\ Len(thread') <= MaxMessages
        /\ Len(thread) + 1 \in DOMAIN thread' /\ thread'[Len(thread) + 1] = Person
        /\ \A m \in DOMAIN thread : m \in DOMAIN thread' /\ thread'[m] = thread[m]
        /\ \A m \in DOMAIN thread' : m \in DOMAIN thread \/ m = Len(thread) + 1
        /\ ToSet(thread') = ToSet(thread) \cup {Person}
        /\ \A time \in Nat : Covered(time) => Covered(time)'
        /\ MirrorIsWhole'
    <2>1. Person \in Card \cup {Person}
      OBVIOUS
    <2>2. UNCHANGED <<up, review, gaps>>
      BY <1>1 DEF server, history
    <2> QED
      BY <1>1, <2>1, <2>2, GrowthKeeps
  <1>3. Person = 0 /\ Person \notin Card
    BY KChatAssumption DEF Person, Card
  <1>4. TypeOK' /\ PublishSendsAcks' /\ AnsweredAtOnce'
    BY <1>1, <1>2 DEF Inv, TypeOK, PublishSendsAcks, AnsweredAtOnce, Sends,
                      server, panel, history
  <1>5. CardsAreAccounted'
    BY <1>1, <1>2 DEF Inv, CardsAreAccounted, server, history
  <1>6. CardsAreKnown'
    <2>1. accepted \in Nat
      BY KChatAssumption DEF Inv, TypeOK
    <2>2. ToSet(thread') \subseteq 0 .. accepted'
      BY <1>1, <1>2, <1>3, <2>1 DEF Inv, CardsAreKnown, server
    <2> QED
      BY <1>1, <2>2 DEF Inv, CardsAreKnown, HasAnswer, server, panel
  <1>7. AcksArePosted'
    BY <1>1, <1>2 DEF Inv, AcksArePosted, Pending, Sends, panel
  <1>8. PostedAreSettled'
    BY <1>1, <1>2, <1>3 DEF Inv, PostedAreSettled, Settled, Sends, HasAnswer,
                            server, panel, history
  <1>9. PostedOnce'
    <2>1. \A c \in Card : Posts(c)' = Posts(c)
      BY <1>2, <1>3 DEF Posts
    <2> QED
      BY <1>1, <2>1 DEF Inv, PostedOnce, history
  <1>10. MarksAreCovered'
    <2>1. /\ shown.mark \in Nat /\ review.lastUpdatedAt \in Nat
          /\ \A t \in Task :
               /\ job[t].stage = "querying" => job[t].since \in Nat
               /\ job[t].stage = "loading" /\ job[t].mark # NoSnapshot
                    => job[t].mark \in Nat
      BY DEF Inv, TypeOK, JobState, Idle, Mark, Time
    <2>2. Covered(shown.mark)' /\ Covered(review.lastUpdatedAt)'
      BY <1>1, <1>2, <2>1 DEF Inv, MarksAreCovered, server, panel
    <2>3. ASSUME NEW t \in Task
          PROVE  /\ job'[t].stage = "querying" => Covered(job[t].since)'
                 /\ job'[t].stage = "loading" /\ job'[t].mark # NoSnapshot
                      => Covered(job[t].mark)'
      BY <1>1, <1>2, <2>1 DEF Inv, MarksAreCovered, panel
    <2> QED
      BY <1>1, <1>2, <2>2, <2>3
         DEF Inv, MarksAreCovered, Pending, Sends, server, panel, history
  <1> QED
    BY <1>2, <1>4, <1>5, <1>6, <1>7, <1>8, <1>9, <1>10 DEF Inv

LEMMA AcknowledgePublishKeeps == ASSUME Inv, AcknowledgePublish PROVE Inv'
  <1> DEFINE c == job["publish"].card
             now == Len(thread) + 1
             ack == [card |-> c, message |-> now]
  <1>1. /\ UNCHANGED <<server, shown, late, faults, history>>
        /\ thread' = Append(thread, c) /\ Len(thread) < MaxMessages
        /\ job' = [job EXCEPT !["publish"] = [stage |-> "sending", request |-> ack]]
        /\ job["publish"].stage = "posting"
    BY DEF AcknowledgePublish, Send
  <1>2. "publish" \in Task /\ c \in Card /\ job \in [Task -> JobState]
    BY <1>1 DEF Task, Inv, TypeOK, JobState, Idle
  <1>3. /\ thread' \in Seq(Card \cup {Person}) /\ Len(thread') <= MaxMessages
        /\ now \in Message \cap DOMAIN thread' /\ thread'[now] = c
        /\ \A m \in DOMAIN thread : m \in DOMAIN thread' /\ thread'[m] = thread[m]
        /\ \A m \in DOMAIN thread' : m \in DOMAIN thread \/ m = now
        /\ ToSet(thread') = ToSet(thread) \cup {c}
        /\ \A time \in Nat : Covered(time) => Covered(time)'
        /\ MirrorIsWhole'
    <2>1. c \in Card \cup {Person}
      BY <1>2
    <2>2. UNCHANGED <<up, review, gaps>>
      BY <1>1 DEF server, history
    <2> QED
      BY <1>1, <2>1, <2>2, GrowthKeeps
  <1>4. ack \in Ack /\ ack \notin Batch
    BY <1>2, <1>3 DEF Ack, Batch
  <1>5. /\ job' \in [Task -> JobState]
        /\ job'["publish"] = [stage |-> "sending", request |-> ack]
        /\ \A u \in Task \ {"publish"} : job'[u] = job[u]
    BY <1>1, <1>2, <1>4 DEF JobState
  <1>a. /\ job'["publish"].stage = "sending" /\ job'["publish"].request = ack
        /\ ack.card = c /\ ack.message = now
    BY <1>5
  <1> HIDE DEF c, now, ack
  <1>6. TypeOK'
    BY <1>1, <1>3, <1>5 DEF Inv, TypeOK, server, history
  <1>7. PublishSendsAcks' /\ AnsweredAtOnce'
    BY <1>4, <1>5, <1>a DEF Inv, PublishSendsAcks, AnsweredAtOnce, Sends
  <1>8. \A r : Pending(r)' => Pending(r) \/ r = ack
    BY <1>1, <1>5, <1>a DEF Pending, Sends
  <1>9. CardsAreAccounted'
    BY <1>1, <1>3 DEF Inv, CardsAreAccounted, server, history
  <1>10. CardsAreKnown'
    <2>1. c \in 1 .. accepted
      BY <1>1, <1>2 DEF Inv, CardsAreKnown, c
    <2>2. ToSet(thread') \subseteq 0 .. accepted'
      BY <1>1, <1>3, <2>1 DEF Inv, CardsAreKnown, server
    <2> QED
      BY <1>1, <1>5, <1>a, <2>2 DEF Inv, CardsAreKnown, HasAnswer, server
  <1>11. AcksArePosted'
    BY <1>3, <1>8, <1>a DEF Inv, AcksArePosted
  <1>b. c \notin ToSet(thread) \/ c \in unsure \/ overtaken
    BY <1>1, <1>2 DEF Inv, PostedAreSettled, Settled, Sends, c
  <1>12. PostedAreSettled'
    <2> SUFFICES ASSUME NEW d \in Card, d \in ToSet(thread'), d \notin unsure, ~overtaken
                 PROVE  Settled(d)'
      BY <1>1 DEF PostedAreSettled, history
    <2>1. CASE d = c
      BY <1>a, <2>1 DEF Settled, Sends
    <2>2. CASE d # c
      <3>1. Settled(d)
        BY <1>3, <2>2 DEF Inv, PostedAreSettled
      <3> QED
        BY <1>1, <1>5, <1>a, <3>1 DEF Settled, Sends, HasAnswer, Task, server
    <2> QED
      BY <2>1, <2>2
  <1>13. PostedOnce'
    <2> SUFFICES ASSUME NEW d \in Card, d \notin unsure, ~overtaken,
                        NEW m \in Posts(d)', NEW n \in Posts(d)'
                 PROVE  m = n
      BY <1>1 DEF PostedOnce, history
    <2>1. /\ m \in DOMAIN thread' /\ thread'[m] = d
          /\ n \in DOMAIN thread' /\ thread'[n] = d
      BY DEF Posts
    <2>2. CASE d = c
      <3>1. m = now /\ n = now
        <4>1. \A k \in DOMAIN thread : thread[k] # c
          BY <1>b, <2>2 DEF ToSet
        <4> QED
          BY <1>3, <2>1, <2>2, <4>1
      <3> QED
        BY <3>1
    <2>3. CASE d # c
      <3>1. m \in Posts(d) /\ n \in Posts(d)
        BY <1>3, <2>1, <2>3 DEF Posts
      <3> QED
        BY <3>1 DEF Inv, PostedOnce
    <2> QED
      BY <2>2, <2>3
  <1>14. MarksAreCovered'
    <2>1. /\ shown.mark \in Nat /\ review.lastUpdatedAt \in Nat
          /\ \A t \in Task :
               /\ job[t].stage = "querying" => job[t].since \in Nat
               /\ job[t].stage = "loading" /\ job[t].mark # NoSnapshot
                    => job[t].mark \in Nat
      BY DEF Inv, TypeOK, JobState, Idle, Mark, Time
    <2>2. Covered(shown.mark)' /\ Covered(review.lastUpdatedAt)'
      BY <1>1, <1>3, <2>1 DEF Inv, MarksAreCovered, server
    <2>3. ASSUME NEW t \in Task
          PROVE  /\ job'[t].stage = "querying" => Covered(job[t].since)'
                 /\ job'[t].stage = "loading" /\ job'[t].mark # NoSnapshot
                      => Covered(job[t].mark)'
      BY <1>3, <1>5, <1>a, <2>1 DEF Inv, MarksAreCovered
    <2>4. \A r \in Batch : Pending(r)' => Pending(r)
      BY <1>4, <1>8
    <2> QED
      BY <1>1, <1>3, <2>2, <2>3, <2>4 DEF Inv, MarksAreCovered, server, history
  <1> QED
    BY <1>3, <1>6, <1>7, <1>9, <1>10, <1>11, <1>12, <1>13, <1>14 DEF Inv

LEMMA HostFailsAfterPostingKeeps ==
    ASSUME Inv, HostFailsAfterPosting PROVE Inv'
  <1> DEFINE c == job["publish"].card
             now == Len(thread) + 1
  <1>1. /\ UNCHANGED <<server, late, dropped, overtaken, gaps>>
        /\ thread' = Append(thread, c) /\ Len(thread) < MaxMessages
        /\ unsure' = unsure \cup {c} /\ faults' = faults + 1 /\ faults < MaxFaults
        /\ StartRefresh("publish")
        /\ job["publish"].stage = "posting"
    BY DEF HostFailsAfterPosting
  <1>2. "publish" \in Task /\ c \in Card
    BY <1>1 DEF Task, Inv, TypeOK, JobState, Idle
  <1>3. /\ thread' \in Seq(Card \cup {Person}) /\ Len(thread') <= MaxMessages
        /\ now \in Message \cap DOMAIN thread' /\ thread'[now] = c
        /\ \A m \in DOMAIN thread : m \in DOMAIN thread' /\ thread'[m] = thread[m]
        /\ \A m \in DOMAIN thread' : m \in DOMAIN thread \/ m = now
        /\ ToSet(thread') = ToSet(thread) \cup {c}
        /\ \A time \in Nat : Covered(time) => Covered(time)'
        /\ MirrorIsWhole'
    <2>1. c \in Card \cup {Person}
      BY <1>2
    <2>2. UNCHANGED <<up, review, gaps>>
      BY <1>1 DEF server
    <2> QED
      BY <1>1, <2>1, <2>2, GrowthKeeps
  <1>4. /\ shown' \in [at : {"loading", "ready", "unavailable"},
                       queued : Seq(Card), mark : Time]
        /\ shown'.at = "loading" /\ shown'.queued = <<>> /\ shown'.mark = 0
        /\ job' \in [Task -> JobState]
        /\ job'["publish"].stage = "loading"
        /\ job'["publish"].queued = NoSnapshot /\ job'["publish"].mark = NoSnapshot
        /\ \A u \in Task \ {"publish"} : job'[u] = job[u]
    BY <1>1, <1>2, RefreshStarts DEF Inv
  <1> HIDE DEF c, now
  <1>5. TypeOK'
    <2>1. faults' \in 0 .. MaxFaults
      BY <1>1, KChatAssumption DEF Inv, TypeOK
    <2> QED
      BY <1>1, <1>2, <1>3, <1>4, <2>1 DEF Inv, TypeOK, server
  <1>6. PublishSendsAcks' /\ AnsweredAtOnce'
    BY <1>4 DEF Inv, PublishSendsAcks, AnsweredAtOnce, Sends
  <1>7. \A r : Pending(r)' => Pending(r)
    BY <1>1, <1>4 DEF Pending, Sends
  <1>8. CardsAreAccounted'
    BY <1>1, <1>3 DEF Inv, CardsAreAccounted, server
  <1>9. CardsAreKnown'
    <2>1. c \in 1 .. accepted
      BY <1>1, <1>2 DEF Inv, CardsAreKnown, c
    <2>2. ToSet(thread') \subseteq 0 .. accepted'
      BY <1>1, <1>3, <2>1 DEF Inv, CardsAreKnown, server
    <2>3. ToSet(shown'.queued) = {}
      BY <1>4 DEF ToSet
    <2> QED
      BY <1>1, <1>4, <2>2, <2>3 DEF Inv, CardsAreKnown, HasAnswer, server
  <1>10. AcksArePosted'
    BY <1>3, <1>7 DEF Inv, AcksArePosted
  <1>11. PostedAreSettled'
    <2> SUFFICES ASSUME NEW d \in Card, d \in ToSet(thread'), d \notin unsure',
                        ~overtaken
                 PROVE  Settled(d)'
      BY <1>1 DEF PostedAreSettled
    <2>1. Settled(d) /\ ~Sends("publish")
      BY <1>1, <1>3 DEF Inv, PostedAreSettled, Sends
    <2> QED
      BY <1>1, <1>4, <2>1 DEF Settled, Sends, HasAnswer, Task, server
  <1>12. PostedOnce'
    <2> SUFFICES ASSUME NEW d \in Card, d \notin unsure', ~overtaken,
                        NEW m \in Posts(d)', NEW n \in Posts(d)'
                 PROVE  m = n
      BY <1>1 DEF PostedOnce
    <2>1. m \in Posts(d) /\ n \in Posts(d)
      BY <1>1, <1>3 DEF Posts
    <2> QED
      BY <1>1, <2>1 DEF Inv, PostedOnce
  <1>13. MarksAreCovered'
    <2>1. /\ shown'.mark \in Nat /\ review.lastUpdatedAt \in Nat
          /\ \A t \in Task :
               /\ job[t].stage = "querying" => job[t].since \in Nat
               /\ job[t].stage = "loading" /\ job[t].mark # NoSnapshot
                    => job[t].mark \in Nat
      BY <1>4 DEF Inv, TypeOK, JobState, Idle, Mark, Time
    <2>2. Covered(review.lastUpdatedAt)' /\ Covered(shown.mark)'
      <3>1. Covered(review.lastUpdatedAt)'
        BY <1>1, <1>3, <2>1 DEF Inv, MarksAreCovered, server
      <3>2. Len(thread') \in Nat
        BY <1>3
      <3>3. Covered(shown.mark)'
        BY <1>4, <3>2 DEF Covered, Message
      <3> QED
        BY <3>1, <3>3
    <2>3. ASSUME NEW t \in Task
          PROVE  /\ job'[t].stage = "querying" => Covered(job[t].since)'
                 /\ job'[t].stage = "loading" /\ job'[t].mark # NoSnapshot
                      => Covered(job[t].mark)'
      BY <1>3, <1>4, <2>1 DEF Inv, MarksAreCovered
    <2> QED
      BY <1>1, <1>3, <1>7, <2>2, <2>3 DEF Inv, MarksAreCovered, server
  <1> QED
    BY <1>3, <1>5, <1>6, <1>8, <1>9, <1>10, <1>11, <1>12, <1>13 DEF Inv

-----------------------------------------------------------------------------
(* The main process.                                                       *)

LEMMA EnqueuePublishKeeps == ASSUME Inv, EnqueuePublish PROVE Inv'
  <1> DEFINE c == accepted + 1
             all == Append(queue, c)
  <1>1. /\ UNCHANGED <<up, review, thread, panel, late, faults, unsure, overtaken, gaps>>
        /\ up /\ accepted < MaxCards /\ accepted' = c
        /\ queue' = Kept(all) /\ dropped' = dropped \cup ToSet(Evicted(all))
    BY DEF EnqueuePublish
  <1>2. /\ accepted \in Nat /\ c \in Nat /\ c \in Card
        /\ queue \in Seq(Card) /\ Len(queue) <= MaxQueued /\ InOrder(queue)
        /\ \A i \in DOMAIN queue : queue[i] < c
    <2>1. accepted \in Nat /\ c \in Card /\ queue \in Seq(Card) /\ Len(queue) <= MaxQueued
      BY <1>1, KChatAssumption DEF Inv, TypeOK, Card
    <2>2. InOrder(queue) /\ ToSet(queue) \subseteq 1 .. accepted
      BY DEF Inv, CardsAreKnown, InOrder
    <2>3. \A i \in DOMAIN queue : queue[i] \in 1 .. accepted
      BY <2>2 DEF ToSet
    <2> QED
      BY <2>1, <2>2, <2>3
  <1>3. /\ queue' \in Seq(Card) /\ Len(queue') <= MaxQueued
        /\ InOrder(queue') /\ ToSet(Evicted(all)) \subseteq Card
        /\ ToSet(queue') \cup ToSet(Evicted(all)) = ToSet(queue) \cup {c}
    <2> HIDE DEF c
    <2> QED
      BY <1>1, <1>2, KeptOrEvicted
  <1>4. TypeOK'
    <2>1. accepted' \in 0 .. MaxCards
      BY <1>1, <1>2, KChatAssumption
    <2> HIDE DEF c, all
    <2>2. dropped' \subseteq Card
      BY <1>1, <1>3 DEF Inv, TypeOK
    <2> QED
      BY <1>1, <1>3, <2>1, <2>2 DEF Inv, TypeOK, panel
  <1>5. PublishSendsAcks' /\ AnsweredAtOnce' /\ PostedOnce' /\ MirrorIsWhole'
    BY <1>1 DEF Inv, PublishSendsAcks, AnsweredAtOnce, PostedOnce, Posts,
                MirrorIsWhole, Sends, panel
  <1>6. CardsAreAccounted'
    <2>1. 1 .. c = 1 .. accepted \cup {c}
      BY <1>2
    <2> HIDE DEF c, all
    <2> QED
      BY <1>1, <1>3, <2>1 DEF Inv, CardsAreAccounted
  <1>7. CardsAreKnown'
    <2>1. \A k : k \in 0 .. accepted => k \in 0 .. c
      BY <1>2
    <2>2. \A k : k \in 1 .. accepted => k \in 1 .. c
      BY <1>2
    <2>3. c \in 1 .. c
      BY <1>2
    <2> HIDE DEF c, all
    <2>4. /\ ToSet(queue') \cup ToSet(shown'.queued) \subseteq 1 .. c
          /\ ToSet(thread') \subseteq 0 .. c
      BY <1>1, <1>3, <2>1, <2>2, <2>3 DEF Inv, CardsAreKnown, panel
    <2>5. \A t \in Task :
            /\ job'[t].stage = "posting" => job'[t].card \in 1 .. c
            /\ HasAnswer(t)' => ToSet(job'[t].queued) \subseteq 1 .. c
      BY <1>1, <2>2 DEF Inv, CardsAreKnown, HasAnswer, panel
    <2> QED
      BY <1>1, <1>3, <2>4, <2>5 DEF CardsAreKnown, InOrder
  <1>8. AcksArePosted'
    BY <1>1 DEF Inv, AcksArePosted, Pending, Sends, panel
  <1>9. PostedAreSettled'
    <2>1. c \notin ToSet(thread)
      BY <1>2 DEF Inv, CardsAreKnown
    <2> HIDE DEF c, all
    <2> QED
      BY <1>1, <1>3, <2>1 DEF Inv, PostedAreSettled, Settled, Sends, HasAnswer, panel
  <1>10. MarksAreCovered'
    BY <1>1 DEF Inv, MarksAreCovered, Covered, Pending, Sends, panel
  <1> QED
    BY <1>4, <1>5, <1>6, <1>7, <1>8, <1>9, <1>10 DEF Inv

LEMMA ShutdownKchatKeeps == ASSUME Inv, ShutdownKchat PROVE Inv'
  <1>1. /\ UNCHANGED <<accepted, thread, panel, unsure, overtaken, gaps>>
        /\ ~up' /\ up' \in BOOLEAN /\ queue' = <<>> /\ late' = {}
        /\ review'.seenIds = {} /\ review'.lastUpdatedAt = 0
        /\ faults' \in 0 .. MaxFaults /\ dropped' = dropped \cup ToSet(queue)
    <2>1. faults' \in 0 .. MaxFaults
      BY KChatAssumption DEF ShutdownKchat, Inv, TypeOK
    <2>2. review' = EmptyReview /\ up' = FALSE
      BY DEF ShutdownKchat
    <2>3. review'.seenIds = {} /\ review'.lastUpdatedAt = 0
      BY <2>2 DEF EmptyReview
    <2>4. ~up' /\ up' \in BOOLEAN
      BY <2>2
    <2>5. UNCHANGED <<accepted, thread, panel, unsure, overtaken, gaps>>
      BY DEF ShutdownKchat
    <2> QED
      BY <2>1, <2>3, <2>4, <2>5 DEF ShutdownKchat
  <1>2. /\ 0 \in Time /\ ToSet(<<>>) = {} /\ ToSet(queue) \subseteq Card
        /\ MaxQueued \in Nat /\ Len(queue') = 0 /\ queue' \in Seq(Card)
    BY <1>1, KChatAssumption DEF Time, ToSet, Inv, TypeOK
  <1>3. TypeOK'
    BY <1>1, <1>2 DEF Inv, TypeOK, panel
  <1>4. PublishSendsAcks' /\ AnsweredAtOnce' /\ PostedOnce'
    BY <1>1 DEF Inv, PublishSendsAcks, AnsweredAtOnce, PostedOnce, Posts, Sends, panel
  <1>5. MirrorIsWhole'
    BY <1>1 DEF MirrorIsWhole, Inv, TypeOK
  <1>6. CardsAreAccounted'
    BY <1>1, <1>2 DEF Inv, CardsAreAccounted
  <1>7. CardsAreKnown'
    BY <1>1, <1>2 DEF Inv, CardsAreKnown, HasAnswer, panel
  <1>8. AcksArePosted'
    BY <1>1 DEF Inv, AcksArePosted, Pending, Sends, panel
  <1>9. PostedAreSettled'
    BY <1>1, <1>2 DEF Inv, PostedAreSettled, Settled, Sends, HasAnswer, panel
  <1>10. MarksAreCovered'
    <2>1. Len(thread) \in Nat
      BY DEF Inv, TypeOK
    <2> QED
      BY <1>1, <2>1 DEF Inv, MarksAreCovered, Covered, Pending, Sends, panel
  <1> QED
    BY <1>3, <1>4, <1>5, <1>6, <1>7, <1>8, <1>9, <1>10 DEF Inv

LEMMA InitialiseKchatKeeps == ASSUME Inv, Stopped, InitialiseKchat PROVE Inv'
  <1>1. /\ UNCHANGED <<accepted, queue, review, thread, panel, late, faults,
                       dropped, unsure, overtaken>>
        /\ up' = TRUE /\ ~up /\ gaps \subseteq gaps'
        /\ gaps' = gaps \cup {m \in DOMAIN thread : \E k \in MarksHeld : m <= k}
        /\ \A t \in Task : ~Unanswered(job[t])
    BY DEF InitialiseKchat
  <1>2. /\ MaxMessages \in Nat /\ Len(thread) \in Nat /\ Len(thread) <= MaxMessages
        /\ DOMAIN thread = 1 .. Len(thread) /\ DOMAIN thread \subseteq Message
    BY KChatAssumption DEF Inv, TypeOK, Message
  <1>3. TypeOK'
    BY <1>1, <1>2 DEF Inv, TypeOK, panel
  <1>4. PublishSendsAcks' /\ AnsweredAtOnce' /\ PostedOnce' /\ CardsAreAccounted'
    BY <1>1 DEF Inv, PublishSendsAcks, AnsweredAtOnce, PostedOnce, Posts, Sends,
                CardsAreAccounted, panel
  <1>a. review.lastUpdatedAt = 0 /\ late = {}
    BY <1>1 DEF Stopped, EmptyReview
  <1>5. MirrorIsWhole'
    BY <1>1, <1>2, <1>a DEF MirrorIsWhole
  <1>6. CardsAreKnown'
    BY <1>1 DEF Inv, CardsAreKnown, HasAnswer, panel
  <1>7. AcksArePosted'
    BY <1>1 DEF Inv, AcksArePosted, Pending, Sends, panel
  <1>8. PostedAreSettled'
    BY <1>1 DEF Inv, PostedAreSettled, Settled, Sends, HasAnswer, panel
  <1>9. MarksAreCovered'
    <2>1. ASSUME NEW k \in MarksHeld, k \in Time, Covered(k) PROVE Covered(k)'
      <3>1. k <= Len(thread)
        BY <2>1 DEF Covered
      <3>2. \A m \in Message : m <= k => m \in DOMAIN thread
        BY <1>2, <2>1, <3>1 DEF Message, Time
      <3> QED
        BY <1>1, <2>1, <3>1, <3>2 DEF Covered
    <2>2. shown.mark \in MarksHeld /\ shown.mark \in Time
      BY DEF MarksHeld, Inv, TypeOK
    <2>3. ASSUME NEW t \in Task
          PROVE  /\ job[t].stage = "querying" => job[t].since \in MarksHeld \cap Time
                 /\ job[t].stage = "loading" /\ job[t].mark # NoSnapshot
                      => job[t].mark \in MarksHeld \cap Time
      BY <1>1 DEF MarksHeld, Inv, TypeOK, JobState, Idle, Mark
    <2>4. Covered(0)'
      BY <1>1, <1>2 DEF Covered, Message
    <2>5. Covered(shown.mark)' /\ Covered(review.lastUpdatedAt)'
      BY <1>1, <1>a, <2>1, <2>2, <2>4 DEF Inv, MarksAreCovered, panel
    <2>6. ASSUME NEW t \in Task
          PROVE  /\ job'[t].stage = "querying" => Covered(job[t].since)'
                 /\ job'[t].stage = "loading" /\ job'[t].mark # NoSnapshot
                      => Covered(job[t].mark)'
      BY <1>1, <2>1, <2>3 DEF Inv, MarksAreCovered, panel
    <2>7. \A r : ~Pending(r)
      BY <1>1, <1>a DEF Pending, Sends, Unanswered
    <2> QED
      BY <1>1, <2>5, <2>6, <2>7 DEF Inv, MarksAreCovered, Pending, Sends, panel
  <1> QED
    BY <1>3, <1>4, <1>5, <1>6, <1>7, <1>8, <1>9 DEF Inv

LEMMA ServeLateKeeps == ASSUME Inv, NEW r \in late, ServeLate(r) PROVE Inv'
  <1>1. /\ UNCHANGED <<up, accepted, thread, panel, faults, dropped, unsure, overtaken>>
        /\ up /\ late' = late \ {r} /\ Handle(r)
    BY DEF ServeLate
  <1>2. r \in Ack \cup Batch /\ Pending(r)
    BY DEF Inv, TypeOK, Pending
  <1>3. /\ queue' \in Seq(Card) /\ Len(queue') <= MaxQueued
        /\ InOrder(queue') /\ ToSet(queue') \subseteq ToSet(queue)
        /\ ToSet(queue) \subseteq ToSet(queue') \cup ToSet(thread)
        /\ review.seenIds \subseteq review'.seenIds
        /\ review'.seenIds \subseteq Message \cap DOMAIN thread
        /\ review'.lastUpdatedAt \in Time
        /\ gaps \subseteq gaps' /\ gaps' \subseteq Message
        /\ Covered(review.lastUpdatedAt)' /\ MirrorIsWhole'
    BY <1>1, <1>2, HandleKeeps
  <1>4. TypeOK'
    BY <1>1, <1>3 DEF Inv, TypeOK, panel
  <1>5. PublishSendsAcks' /\ AnsweredAtOnce' /\ PostedOnce' /\ CardsAreAccounted'
    BY <1>1, <1>3 DEF Inv, PublishSendsAcks, AnsweredAtOnce, PostedOnce, Posts, Sends,
                      CardsAreAccounted, panel
  <1>6. CardsAreKnown'
    BY <1>1, <1>3 DEF Inv, CardsAreKnown, InOrder, HasAnswer, panel
  <1>7. AcksArePosted'
    BY <1>1 DEF Inv, AcksArePosted, Pending, Sends, panel
  <1>8. PostedAreSettled'
    BY <1>1, <1>3 DEF Inv, PostedAreSettled, Settled, Sends, HasAnswer, panel
  <1>9. MarksAreCovered'
    <2>1. \A time : Covered(time) => Covered(time)'
      BY <1>1, <1>3 DEF Covered
    <2> QED
      BY <1>1, <1>3, <2>1 DEF Inv, MarksAreCovered, Covered, Pending, Sends, panel
  <1> QED
    BY <1>3, <1>4, <1>5, <1>6, <1>7, <1>8, <1>9 DEF Inv

-----------------------------------------------------------------------------
(* The comments that are kept.                                             *)

\* What a set of numbers is smallest of.
LEMMA Least ==
    ASSUME NEW T \in SUBSET Nat, T # {}
    PROVE  \E n \in T : \A m \in T : n <= m
  <1> DEFINE R == {p \in Nat \X Nat : p[1] < p[2]}
  <1>1. IsWellFoundedOn(R, Nat)
    BY NatLessThanWellFounded DEF OpToRel
  <1>2. PICK n \in T : \A m \in T : ~(<<m, n>> \in R)
    BY <1>1, WFMin
  <1>3. ASSUME NEW m \in T PROVE n <= m
    <2>1. m \in Nat /\ n \in Nat /\ ~(<<m, n>> \in R)
      BY <1>2
    <2>2. <<m, n>> \in Nat \X Nat /\ <<m, n>>[1] = m /\ <<m, n>>[2] = n
      BY <2>1
    <2>3. ~(m < n)
      BY <2>1, <2>2
    <2> QED
      BY <2>1, <2>3
  <1> QED
    BY <1>3

\* A list without repetitions is as long as the set of its elements.
LEMMA ListCounts ==
    ASSUME NEW S, NEW q \in Seq(S), IsInjective(q)
    PROVE  IsFiniteSet(ToSet(q)) /\ Cardinality(ToSet(q)) = Len(q)
  <1>1. PICK n \in Nat : n = Len(q) /\ DOMAIN q = 1 .. n
    BY LenProperties
  <1>2. PICK T : T = ToSet(q)
    OBVIOUS
  <1>3. q \in [1 .. n -> T]
    <2>1. \A i \in 1 .. n : q[i] \in T
      BY <1>1, <1>2 DEF ToSet
    <2>2. q = [i \in 1 .. n |-> q[i]]
      BY <1>1
    <2> QED
      BY <2>1, <2>2
  <1>4. q \in Bijection(1 .. n, T)
    <2>1. q \in Injection(1 .. n, T)
      BY <1>3 DEF Injection
    <2>2. \A t \in T : \E i \in 1 .. n : q[i] = t
      BY <1>1, <1>2 DEF ToSet
    <2> QED
      BY <1>3, <2>1, <2>2 DEF Bijection, Surjection
  <1>5. ExistsBijection(1 .. n, T)
    BY <1>4 DEF ExistsBijection
  <1> QED
    BY <1>1, <1>2, <1>5, FS_CountingElements, FS_NatBijection

\* A list in order repeats nothing.
LEMMA InOrderIsInjective ==
    ASSUME NEW S \in SUBSET Nat, NEW q \in Seq(S), InOrder(q)
    PROVE  IsInjective(q)
  <1>1. PICK n \in Nat : n = Len(q) /\ DOMAIN q = 1 .. n
    BY LenProperties
  <1>2. \A i \in 1 .. n : q[i] \in Nat
    BY <1>1, ElementOfSeq
  <1>3. ASSUME NEW i \in 1 .. n, NEW j \in 1 .. n, q[i] = q[j] PROVE i = j
    <2>1. ~(i < j) /\ ~(j < i)
      BY <1>1, <1>2, <1>3 DEF InOrder
    <2> QED
      BY <2>1
  <1> QED
    BY <1>1, <1>3 DEF IsInjective

\* A number greater than all others goes to the end.
LEMMA GreatestGoesLast ==
    ASSUME NEW n \in Nat \ {0}, NEW S \in SUBSET (1 .. n - 1),
           NEW q \in Seq(S), InOrder(q), ToSet(q) = S
    PROVE  \E p \in Seq(S \cup {n}) : InOrder(p) /\ ToSet(p) = S \cup {n}
  <1>1. PICK k \in Nat : k = Len(q) /\ DOMAIN q = 1 .. k
    BY LenProperties
  <1>2. \A i \in 1 .. k : q[i] \in S
    BY <1>1, ElementOfSeq
  <1>3. PICK T : T = S \cup {n}
    OBVIOUS
  <1>4. q \in Seq(T) /\ n \in T
    <2>1. \A i \in 1 .. k : q[i] \in T
      BY <1>2, <1>3
    <2>2. q = [i \in 1 .. k |-> q[i]]
      BY <1>1
    <2>3. q \in [1 .. k -> T]
      BY <2>1, <2>2
    <2> QED
      BY <1>3, <2>3, IsASeq
  <1>5. PICK p : p = Append(q, n)
    OBVIOUS
  <1>6. /\ p \in Seq(T) /\ DOMAIN p = 1 .. k + 1
        /\ p[k + 1] = n /\ \A i \in 1 .. k : p[i] = q[i]
    BY <1>1, <1>4, <1>5, AppendProperties
  <1>7. InOrder(p)
    <2>1. ASSUME NEW i \in 1 .. k + 1, NEW j \in 1 .. k + 1, i < j PROVE p[i] < p[j]
      <3>1. i \in 1 .. k
        BY <1>1, <2>1
      <3>2. p[i] \in 1 .. n - 1
        BY <1>2, <1>6, <3>1
      <3>3. CASE j = k + 1
        BY <1>6, <3>2, <3>3
      <3>4. CASE j # k + 1
        <4>1. j \in 1 .. k
          BY <3>4
        <4> QED
          BY <1>1, <1>6, <2>1, <3>1, <4>1 DEF InOrder
      <3> QED
        BY <3>3, <3>4
    <2> QED
      BY <1>6, <2>1 DEF InOrder
  <1>8. ToSet(p) = T
    <2>1. \A x : (\E i \in 1 .. k + 1 : p[i] = x) <=> (\E i \in 1 .. k : q[i] = x) \/ x = n
      <3>1. 1 .. k + 1 = (1 .. k) \cup {k + 1}
        OBVIOUS
      <3> QED
        BY <1>6, <3>1
    <2>2. \A x : x \in S <=> \E i \in 1 .. k : q[i] = x
      BY <1>1 DEF ToSet
    <2>3. \A x : x \in ToSet(p) <=> \E i \in 1 .. k + 1 : p[i] = x
      BY <1>6 DEF ToSet
    <2> QED
      BY <1>3, <2>1, <2>2, <2>3
  <1> QED
    BY <1>3, <1>6, <1>7, <1>8

\* Some list has the elements of a set of messages in order: were there a
\* set without one, there would be one with a least bound.
LEMMA SomeOrder ==
    ASSUME NEW N \in Nat, NEW S \in SUBSET (1 .. N)
    PROVE  \E q \in Seq(S) : InOrder(q) /\ ToSet(q) = S
  <1> DEFINE Ordered(U) == \E q \in Seq(U) : InOrder(q) /\ ToSet(q) = U
             Fine(n) == \A U \in SUBSET (1 .. n) : Ordered(U)
  <1>1. Fine(0)
    <2>1. \A U \in SUBSET (1 .. 0) : U = {}
      OBVIOUS
    <2>2. PICK q \in Seq({}) : q = <<>>
      BY EmptySeq
    <2>3. DOMAIN q = {}
      BY <2>2
    <2>4. InOrder(q) /\ ToSet(q) = {}
      BY <2>3 DEF InOrder, ToSet
    <2> QED
      BY <2>1, <2>4
  <1>2. ASSUME NEW n \in Nat \ {0}, Fine(n - 1) PROVE Fine(n)
    <2> SUFFICES ASSUME NEW U \in SUBSET (1 .. n) PROVE Ordered(U)
      OBVIOUS
    <2>1. PICK V : V = U \ {n}
      OBVIOUS
    <2>2. V \in SUBSET (1 .. n - 1)
      BY <2>1
    <2>3. PICK q \in Seq(V) : InOrder(q) /\ ToSet(q) = V
      BY <1>2, <2>2
    <2>4. CASE n \in U
      <3>1. \E p \in Seq(V \cup {n}) : InOrder(p) /\ ToSet(p) = V \cup {n}
        BY <2>2, <2>3, GreatestGoesLast
      <3>2. U = V \cup {n}
        BY <2>1, <2>4
      <3> QED
        BY <3>1, <3>2
    <2>5. CASE n \notin U
      <3>1. U = V
        BY <2>1, <2>5
      <3> QED
        BY <2>3, <3>1
    <2> QED
      BY <2>4, <2>5
  <1> HIDE DEF Fine
  <1>3. ASSUME NEW n \in Nat PROVE Fine(n)
    <2>1. PICK T : T = {m \in Nat : ~Fine(m)}
      OBVIOUS
    <2>2. ASSUME T # {} PROVE FALSE
      <3>1. PICK m \in T : \A k \in T : m <= k
        BY <2>1, <2>2, Least
      <3>2. m \in Nat /\ ~Fine(m)
        BY <2>1, <3>1
      <3>3. m \in Nat \ {0}
        BY <1>1, <3>2
      <3>4. m - 1 \in Nat /\ ~(m <= m - 1)
        BY <3>3
      <3>5. Fine(m - 1)
        BY <2>1, <3>1, <3>4
      <3> QED
        BY <1>2, <3>2, <3>3, <3>5
    <2> QED
      BY <2>1, <2>2
  <1>4. Fine(N)
    BY <1>3
  <1> QED
    BY <1>4 DEF Fine

\* Ascending: such a list.
LEMMA AscendingProperties ==
    ASSUME NEW N \in Nat, NEW S \in SUBSET (1 .. N)
    PROVE  /\ IsFiniteSet(S)
           /\ Ascending(S) \in Seq(S) /\ InOrder(Ascending(S))
           /\ ToSet(Ascending(S)) = S /\ Len(Ascending(S)) = Cardinality(S)
  <1>1. PICK q \in Seq(S) : InOrder(q) /\ ToSet(q) = S
    BY SomeOrder
  <1>2. IsInjective(q)
    BY <1>1, InOrderIsInjective
  <1>3. PICK n \in Nat : n = Len(q) /\ DOMAIN q = 1 .. n
    BY LenProperties
  <1>4. IsFiniteSet(S) /\ Cardinality(S) = n
    BY <1>1, <1>2, <1>3, ListCounts
  <1>5. q \in SetToSeqs(S)
    <2>1. q \in [1 .. n -> S]
      <3>1. \A i \in 1 .. n : q[i] \in S
        BY <1>3, ElementOfSeq
      <3>2. q = [i \in 1 .. n |-> q[i]]
        BY <1>3
      <3> QED
        BY <3>1, <3>2
    <2>2. \A i, j \in 1 .. n : i # j => q[i] # q[j]
      BY <1>2, <1>3 DEF IsInjective
    <2> QED
      BY <1>4, <2>1, <2>2 DEF SetToSeqs
  <1>6. PICK s : s = Ascending(S)
    OBVIOUS
  <1>7. s \in SetToSeqs(S) /\ InOrder(s)
    BY <1>1, <1>5, <1>6 DEF Ascending, InOrder
  <1>8. s \in [1 .. n -> S] /\ \A i, j \in 1 .. n : i # j => s[i] # s[j]
    BY <1>4, <1>7 DEF SetToSeqs
  <1>9. s \in Seq(S) /\ Len(s) = n
    BY <1>8, IsASeq, LenProperties
  <1>10. IsInjective(s)
    BY <1>8 DEF IsInjective
  <1>11. ToSet(s) \in SUBSET S
    BY <1>8 DEF ToSet
  <1>12. Cardinality(ToSet(s)) = n
    BY <1>9, <1>10, ListCounts
  <1>13. ToSet(s) = S
    BY <1>4, <1>11, <1>12, FS_Subset
  <1> QED
    BY <1>4, <1>6, <1>7, <1>9, <1>13

\* One list after another, with nothing in both.
LEMMA ListsJoin ==
    ASSUME NEW S, NEW c \in Seq(S), NEW d \in Seq(S), IsInjective(c), IsInjective(d),
           ToSet(c) \cap ToSet(d) = {}
    PROVE  /\ c \o d \in Seq(S) /\ Len(c \o d) = Len(c) + Len(d)
           /\ IsInjective(c \o d) /\ ToSet(c \o d) = ToSet(c) \cup ToSet(d)
  <1>1. PICK k \in Nat, l \in Nat : /\ k = Len(c) /\ DOMAIN c = 1 .. k
                                    /\ l = Len(d) /\ DOMAIN d = 1 .. l
    BY LenProperties
  <1>2. PICK e : e = c \o d
    OBVIOUS
  <1>3. /\ e \in Seq(S) /\ Len(e) = k + l
        /\ \A i \in 1 .. k + l : e[i] = IF i <= k THEN c[i] ELSE d[i - k]
    BY <1>1, <1>2, ConcatProperties
  <1>4. DOMAIN e = 1 .. k + l
    BY <1>3, LenProperties
  <1>5. \A i \in 1 .. k : i \in 1 .. k + l /\ e[i] = c[i]
    BY <1>1, <1>3
  <1>6. \A j \in 1 .. l : k + j \in 1 .. k + l /\ e[k + j] = d[j]
    <2>1. ASSUME NEW j \in 1 .. l PROVE k + j \in 1 .. k + l /\ e[k + j] = d[j]
      <3>1. k + j \in 1 .. k + l /\ ~(k + j <= k) /\ k + j - k = j
        BY <1>1
      <3> QED
        BY <1>3, <3>1
    <2> QED
      BY <2>1
  <1>7. \A i \in 1 .. k + l : i \in 1 .. k \/ \E j \in 1 .. l : i = k + j
    <2>1. ASSUME NEW i \in 1 .. k + l, i \notin 1 .. k PROVE \E j \in 1 .. l : i = k + j
      <3>1. i - k \in 1 .. l /\ i = k + (i - k)
        BY <1>1, <2>1
      <3> QED
        BY <3>1
    <2> QED
      BY <2>1
  <1>8. \A i \in 1 .. k, j \in 1 .. l : c[i] # d[j]
    BY <1>1 DEF ToSet
  <1>9. IsInjective(e)
    <2>1. ASSUME NEW a \in 1 .. k + l, NEW b \in 1 .. k + l, e[a] = e[b] PROVE a = b
      <3>1. CASE a \in 1 .. k /\ b \in 1 .. k
        BY <1>1, <1>5, <2>1, <3>1 DEF IsInjective
      <3>2. CASE a \notin 1 .. k /\ b \notin 1 .. k
        <4>1. PICK i \in 1 .. l, j \in 1 .. l : a = k + i /\ b = k + j
          BY <1>7, <3>2
        <4>2. d[i] = d[j]
          BY <1>6, <2>1, <4>1
        <4>3. i = j
          BY <1>1, <4>1, <4>2 DEF IsInjective
        <4> QED
          BY <4>1, <4>3
      <3>3. CASE a \in 1 .. k /\ b \notin 1 .. k
        <4>1. PICK j \in 1 .. l : b = k + j
          BY <1>7, <3>3
        <4>2. e[a] = c[a] /\ e[b] = d[j]
          BY <1>5, <1>6, <3>3, <4>1
        <4> QED
          BY <1>8, <2>1, <3>3, <4>1, <4>2
      <3>4. CASE a \notin 1 .. k /\ b \in 1 .. k
        <4>1. PICK j \in 1 .. l : a = k + j
          BY <1>7, <3>4
        <4>2. e[b] = c[b] /\ e[a] = d[j]
          BY <1>5, <1>6, <3>4, <4>1
        <4> QED
          BY <1>8, <2>1, <3>4, <4>1, <4>2
      <3> QED
        BY <3>1, <3>2, <3>3, <3>4
    <2> QED
      BY <1>4, <2>1 DEF IsInjective
  <1>10. ToSet(e) = ToSet(c) \cup ToSet(d)
    <2>1. ASSUME NEW x
          PROVE  (\E i \in 1 .. k + l : e[i] = x)
                   <=> (\E i \in 1 .. k : c[i] = x) \/ (\E j \in 1 .. l : d[j] = x)
      BY <1>5, <1>6, <1>7
    <2>2. \A x : /\ x \in ToSet(e) <=> \E i \in 1 .. k + l : e[i] = x
                 /\ x \in ToSet(c) <=> \E i \in 1 .. k : c[i] = x
                 /\ x \in ToSet(d) <=> \E j \in 1 .. l : d[j] = x
      BY <1>1, <1>4 DEF ToSet
    <2> QED
      BY <2>1, <2>2
  <1> QED
    BY <1>1, <1>2, <1>3, <1>9, <1>10

\* trimReviewComments: of a list that is too long, the newest are kept.
LEMMA TrimKeepsNewest ==
    ASSUME NEW c \in Seq(Message), IsInjective(c), Len(c) > MaxComments
    PROVE  /\ Trim(c) \in Seq(Message) /\ IsInjective(Trim(c))
           /\ Len(Trim(c)) = MaxComments /\ ToSet(Trim(c)) \subseteq ToSet(c)
           /\ \A m \in ToSet(Trim(c)), n \in ToSet(c) : n > m => n \in ToSet(Trim(c))
  <1>1. PICK M \in Nat \ {0} : M = MaxComments
    BY KChatAssumption
  <1>2. PICK S : S = ToSet(c)
    OBVIOUS
  <1>3. MaxMessages \in Nat /\ S \in SUBSET (1 .. MaxMessages)
    <2>1. \A i \in DOMAIN c : c[i] \in Message
      BY LenProperties, ElementOfSeq
    <2> QED
      BY <1>2, <2>1, KChatAssumption DEF ToSet, Message
  <1>4. PICK s, L : s = Ascending(S) /\ L = Len(s)
    OBVIOUS
  <1>5. s \in Seq(S) /\ InOrder(s) /\ ToSet(s) = S /\ L = Cardinality(S)
    BY <1>3, <1>4, AscendingProperties
  <1>6. L \in Nat /\ DOMAIN s = 1 .. L
    BY <1>4, <1>5, LenProperties
  <1>7. L = Len(c) /\ L > M
    BY <1>1, <1>2, <1>5, ListCounts
  <1>8. PICK d \in Nat : d = L - M
    <2>1. L - M \in Nat
      BY <1>1, <1>6, <1>7
    <2> QED
      BY <2>1
  <1>9. d + 1 \in 1 .. L /\ L - (d + 1) + 1 = M /\ L - M + 1 = d + 1
    BY <1>1, <1>6, <1>7, <1>8
  <1>10. PICK t : t = SubSeq(s, d + 1, L)
    OBVIOUS
  <1>11. Trim(c) = t
    <2>1. ~(Len(c) <= MaxComments)
      BY <1>1, <1>6, <1>7
    <2> QED
      BY <1>1, <1>2, <1>4, <1>9, <1>10, <2>1 DEF Trim
  <1>12. /\ t \in Seq(S) /\ Len(t) = M
         /\ \A i \in 1 .. M : t[i] = s[d + 1 + i - 1]
    <2>1. d + 1 \in Int /\ L \in Int /\ \A i \in d + 1 .. L : s[i] \in S
      <3>1. \A i \in 1 .. L : s[i] \in S
        BY <1>4, <1>5, <1>6, ElementOfSeq
      <3> QED
        BY <1>6, <1>8, <3>1
    <2>2. /\ t \in Seq(S)
          /\ Len(t) = IF d + 1 <= L THEN L - (d + 1) + 1 ELSE 0
          /\ \A i \in 1 .. L - (d + 1) + 1 : t[i] = s[d + 1 + i - 1]
      BY <1>10, <2>1, SubSeqProperties
    <2>3. d + 1 <= L
      BY <1>6, <1>8, <1>9
    <2> QED
      BY <1>9, <2>2, <2>3
  <1>13. DOMAIN t = 1 .. M
    BY <1>12, LenProperties
  <1>14. \A i \in 1 .. M : d + i \in 1 .. L /\ t[i] = s[d + i]
    <2>1. ASSUME NEW i \in 1 .. M PROVE d + i \in 1 .. L /\ d + 1 + i - 1 = d + i
      BY <1>1, <1>6, <1>8
    <2> QED
      BY <1>12, <2>1
  <1>15. InOrder(t)
    <2>1. ASSUME NEW i \in 1 .. M, NEW j \in 1 .. M, i < j PROVE t[i] < t[j]
      <3>1. d + i < d + j
        BY <1>1, <1>8, <2>1
      <3> QED
        BY <1>5, <1>6, <1>14, <3>1 DEF InOrder
    <2> QED
      BY <1>13, <2>1 DEF InOrder
  <1>16. S \in SUBSET Nat /\ S \in SUBSET Message
    BY <1>3 DEF Message
  <1>17. IsInjective(t)
    BY <1>12, <1>15, <1>16, InOrderIsInjective
  <1>18. t \in Seq(Message)
    <2>1. \A i \in 1 .. M : t[i] \in Message
      BY <1>12, <1>13, <1>16, ElementOfSeq
    <2>2. t = [i \in 1 .. M |-> t[i]]
      BY <1>12, <1>13
    <2>3. t \in [1 .. M -> Message]
      BY <2>1, <2>2
    <2> QED
      BY <1>1, <2>3, IsASeq
  <1>19. \A x : x \in ToSet(t) <=> \E i \in 1 .. M : t[i] = x
    BY <1>13 DEF ToSet
  <1>20. \A x : x \in S <=> \E i \in 1 .. L : s[i] = x
    BY <1>5, <1>6 DEF ToSet
  <1>21. ToSet(t) \subseteq S
    BY <1>14, <1>19, <1>20
  <1>22. ASSUME NEW m \in ToSet(t), NEW n \in S, n > m PROVE n \in ToSet(t)
    <2>1. PICK i \in 1 .. M : t[i] = m
      BY <1>19
    <2>2. PICK j \in 1 .. L : s[j] = n
      BY <1>20
    <2>3. m \in Nat /\ n \in Nat
      BY <1>16, <1>21
    <2>4. ~(j < d + i) /\ j # d + i
      <3>1. PICK a \in 1 .. L : a = d + i /\ s[a] = m
        BY <1>14, <2>1
      <3>2. j < a => s[j] < s[a]
        BY <1>5, <1>6, <2>2, <3>1 DEF InOrder
      <3>3. ~(n < m) /\ n # m
        BY <1>22, <2>3
      <3> QED
        BY <2>2, <3>1, <3>2, <3>3
    <2>5. j - d \in 1 .. M /\ d + (j - d) = j
      BY <1>1, <1>6, <1>8, <2>1, <2>2, <2>4
    <2> QED
      BY <1>14, <1>19, <2>2, <2>5
  <1> QED
    BY <1>1, <1>2, <1>11, <1>12, <1>17, <1>18, <1>21, <1>22

\* The comments that are right when these messages have been ingested.
Newest(comments, seen) ==
    /\ comments \in Seq(Message) /\ IsInjective(comments)
    /\ ToSet(comments) \subseteq seen /\ Len(comments) <= MaxComments
    /\ \A m \in ToSet(comments), n \in seen : n > m => n \in ToSet(comments)
    /\ Len(comments) < MaxComments => ToSet(comments) = seen

\* ingestReviewComments: a message seen before that was dropped stays behind all that
\* are kept, since a cap's worth of newer ones was there when it was dropped.
LEMMA IngestKeepsNewest ==
    ASSUME NEW r, r.seenIds \subseteq Message, Newest(r.comments, r.seenIds),
           NEW messages \in SUBSET Message
    PROVE  LET s == IngestComments(r, messages) IN Newest(s.comments, s.seenIds)
  <1>1. PICK c, old, fresh : c = r.comments /\ old = r.seenIds /\ fresh = messages \ old
    OBVIOUS
  <1>2. Newest(c, old) /\ old \subseteq Message /\ fresh \subseteq Message
    BY <1>1
  <1>3. MaxMessages \in Nat /\ fresh \in SUBSET (1 .. MaxMessages)
    BY <1>2, KChatAssumption DEF Message
  <1>4. PICK M \in Nat \ {0} : M = MaxComments
    BY KChatAssumption
  <1>5. PICK new : new = Ascending(fresh)
    OBVIOUS
  <1>6. /\ IsFiniteSet(fresh) /\ new \in Seq(fresh) /\ InOrder(new)
        /\ ToSet(new) = fresh /\ Len(new) = Cardinality(fresh)
    BY <1>3, <1>5, AscendingProperties
  <1>7. new \in Seq(Message) /\ IsInjective(new)
    <2>1. IsInjective(new)
      <3>1. fresh \in SUBSET Nat
        BY <1>3
      <3> QED
        BY <1>6, <3>1, InOrderIsInjective
    <2>2. PICK l \in Nat : l = Len(new) /\ DOMAIN new = 1 .. l
      BY <1>6, LenProperties
    <2>3. \A i \in 1 .. l : new[i] \in Message
      BY <1>2, <1>6, <2>2, ElementOfSeq
    <2>4. new = [i \in 1 .. l |-> new[i]]
      BY <1>6, <2>2
    <2>5. new \in [1 .. l -> Message]
      BY <2>3, <2>4
    <2> QED
      BY <2>1, <2>5, IsASeq
  <1>8. c \in Seq(Message) /\ IsInjective(c) /\ ToSet(c) \subseteq old
    BY <1>2 DEF Newest
  <1>9. PICK e : e = c \o new
    OBVIOUS
  <1>10. /\ e \in Seq(Message) /\ Len(e) = Len(c) + Len(new)
         /\ IsInjective(e) /\ ToSet(e) = ToSet(c) \cup fresh
    <2>1. ToSet(c) \cap ToSet(new) = {}
      BY <1>1, <1>6, <1>8
    <2>2. /\ c \o new \in Seq(Message) /\ Len(c \o new) = Len(c) + Len(new)
          /\ IsInjective(c \o new) /\ ToSet(c \o new) = ToSet(c) \cup ToSet(new)
      BY ONLY <1>7, <1>8, <2>1, ListsJoin
    <2> QED
      BY <1>6, <1>9, <2>2
  <1>11. PICK k \in Nat, l \in Nat : k = Len(c) /\ l = Len(new)
    BY <1>7, <1>8, LenProperties
  <1>12. /\ \A m \in ToSet(c), n \in old : n > m => n \in ToSet(c)
         /\ k <= M /\ (k < M => ToSet(c) = old)
    BY <1>2, <1>4, <1>11 DEF Newest
  <1>13. IngestComments(r, messages).comments = Trim(e)
         /\ IngestComments(r, messages).seenIds = old \cup fresh
    BY <1>1, <1>5, <1>9 DEF IngestComments
  <1>14. \A x \in old \cup fresh : x \in Nat
    <2>1. \A x \in Message : x \in Nat
      BY <1>3 DEF Message
    <2> QED
      BY <1>2, <2>1
  <1>15. CASE k + l <= M
    <2>1. Trim(e) = e
      BY <1>4, <1>10, <1>11, <1>15 DEF Trim
    <2>2. k < M \/ fresh = {}
      <3>1. l = 0 => fresh = {}
        BY <1>6, <1>11, FS_EmptySet
      <3> QED
        BY <1>4, <1>11, <1>15, <3>1
    <2>3. ASSUME NEW m \in ToSet(e), NEW n \in old \cup fresh, n > m PROVE n \in ToSet(e)
      <3>1. CASE k < M
        BY <1>10, <1>12, <3>1
      <3>2. CASE fresh = {}
        BY <1>10, <1>12, <2>3, <3>2
      <3> QED
        BY <2>2, <3>1, <3>2
    <2>4. Len(e) < M => ToSet(e) = old \cup fresh
      <3>1. Len(e) < M => k < M
        BY <1>4, <1>10, <1>11
      <3> QED
        BY <1>10, <1>12, <3>1
    <2>5. Len(e) <= M /\ ToSet(e) \subseteq old \cup fresh
      BY <1>8, <1>10, <1>11, <1>15
    <2>6. Newest(e, old \cup fresh)
      BY <1>4, <1>10, <2>3, <2>4, <2>5 DEF Newest
    <2> QED
      BY <1>13, <2>1, <2>6
  <1>16. CASE ~(k + l <= M)
    <2>1. PICK t : t = Trim(e)
      OBVIOUS
    <2>2. Len(e) > MaxComments
      BY <1>4, <1>10, <1>11, <1>16
    <2>3. /\ t \in Seq(Message) /\ IsInjective(t) /\ Len(t) = M
          /\ ToSet(t) \subseteq ToSet(e)
          /\ \A m \in ToSet(t), n \in ToSet(e) : n > m => n \in ToSet(t)
      BY <1>4, <1>10, <2>1, <2>2, TrimKeepsNewest
    <2>4. ASSUME NEW m \in ToSet(t), NEW n \in old \cup fresh, n > m PROVE n \in ToSet(t)
      <3>1. CASE n \in ToSet(e)
        BY <2>3, <2>4, <3>1
      <3>2. CASE n \notin ToSet(e)
        <4>1. n \in old /\ n \notin ToSet(c) /\ k = M
          BY <1>4, <1>10, <1>11, <1>12, <3>2
        <4>2. \A x \in ToSet(c) : x > n
          <5>1. ASSUME NEW x \in ToSet(c) PROVE x > n
            <6>1. x \in Nat /\ n \in Nat /\ x # n
              BY <1>14, <1>8, <4>1
            <6>2. ~(n > x)
              BY <1>12, <4>1
            <6> QED
              BY <6>1, <6>2
          <5> QED
            BY <5>1
        <4>3. m \in ToSet(e) /\ m \in Nat
          <5>1. m \in ToSet(e)
            BY <2>3
          <5>2. m \in ToSet(c) \cup fresh
            BY <1>10, <5>1
          <5> QED
            BY <1>14, <1>8, <5>1, <5>2
        <4>4. \A x \in ToSet(c) : x > m /\ x # m
          <5>1. ASSUME NEW x \in ToSet(c) PROVE x > m /\ x # m
            <6>1. x \in Nat /\ n \in Nat
              BY <1>14, <1>8, <4>1
            <6> QED
              BY <2>4, <4>2, <4>3, <6>1
          <5> QED
            BY <5>1
        <4>5. ToSet(c) \in SUBSET (ToSet(t) \ {m})
          BY <1>10, <2>3, <4>4
        <4>6. /\ IsFiniteSet(ToSet(t)) /\ Cardinality(ToSet(t)) = M
              /\ Cardinality(ToSet(c)) = M
          BY <1>8, <1>11, <2>3, <4>1, ListCounts
        <4>7. /\ IsFiniteSet(ToSet(t) \ {m})
              /\ Cardinality(ToSet(t) \ {m}) = M - 1
          BY <4>6, FS_RemoveElement
        <4>8. M <= M - 1
          BY <4>5, <4>6, <4>7, FS_Subset
        <4> QED
          BY <1>4, <4>8
      <3> QED
        BY <3>1, <3>2
    <2>5. ToSet(t) \subseteq old \cup fresh
      BY <1>8, <1>10, <2>3
    <2>6. Newest(t, old \cup fresh)
      BY <1>4, <2>3, <2>4, <2>5 DEF Newest
    <2> QED
      BY <1>13, <2>1, <2>6
  <1> QED
    BY <1>15, <1>16

-----------------------------------------------------------------------------
(* The theorems.                                                           *)

LEMMA InitInv == ASSUME Init PROVE Inv
  <1>1. /\ up = TRUE /\ accepted = 0 /\ queue = <<>> /\ thread = <<>>
        /\ review.seenIds = {} /\ review.lastUpdatedAt = 0
        /\ late = {} /\ faults = 0 /\ dropped = {} /\ unsure = {}
        /\ overtaken = FALSE /\ gaps = {}
        /\ shown = [at |-> "loading", queued |-> <<>>, mark |-> 0]
    BY DEF Init, EmptyReview, ShowLoading
  <1>2. job = [t \in Task |-> IF t = "refresh" THEN Loading ELSE Idle]
    BY DEF Init
  <1>3. \A t \in Task : /\ job[t].stage \in {"loading", "idle"}
                        /\ job[t].stage = "loading" =>
                             job[t].queued = NoSnapshot /\ job[t].mark = NoSnapshot
    <2>1. \A t \in Task : job[t] \in {Loading, Idle}
      BY <1>2
    <2> QED
      BY <2>1 DEF Loading, Idle
  <1>4. /\ MaxCards \in Nat /\ MaxQueued \in Nat /\ MaxMessages \in Nat
        /\ MaxFaults \in Nat /\ ToSet(<<>>) = {}
    BY KChatAssumption DEF ToSet
  <1>5. TypeOK
    <2>1. job \in [Task -> JobState]
      BY <1>2 DEF JobState, Loading, Snapshot, Mark
    <2>2. shown \in [at : {"loading", "ready", "unavailable"}, queued : Seq(Card),
                     mark : Time]
      BY <1>1, <1>4 DEF Time
    <2> QED
      <3>1. up \in BOOLEAN /\ overtaken \in BOOLEAN
        BY <1>1
      <3>2. accepted \in 0 .. MaxCards /\ faults \in 0 .. MaxFaults /\ 0 \in Time
        BY <1>1, <1>4 DEF Time
      <3>3. /\ queue \in Seq(Card) /\ Len(queue) <= MaxQueued
            /\ thread \in Seq(Card \cup {Person}) /\ Len(thread) <= MaxMessages
        <4>1. \A S : <<>> \in Seq(S) /\ Len(<<>>) = 0
          BY EmptySeq
        <4> QED
          BY <1>1, <1>4, <4>1
      <3> QED
        BY <1>1, <2>1, <2>2, <3>1, <3>2, <3>3 DEF TypeOK
  <1>6. \A t \in Task : ~Sends(t) /\ ~HasAnswer(t)
    BY <1>3 DEF Sends, HasAnswer
  <1>7. PublishSendsAcks /\ AnsweredAtOnce /\ AcksArePosted
    BY <1>1, <1>3, <1>6 DEF PublishSendsAcks, AnsweredAtOnce, AcksArePosted,
                            Pending, Task
  <1>8. CardsAreAccounted /\ PostedAreSettled /\ PostedOnce /\ MirrorIsWhole
    BY <1>1, <1>4 DEF CardsAreAccounted, PostedAreSettled, PostedOnce, Posts,
                      MirrorIsWhole
  <1>9. CardsAreKnown
    BY <1>1, <1>3, <1>4, <1>6 DEF CardsAreKnown
  <1>10. MarksAreCovered
    BY <1>1, <1>3, <1>6 DEF MarksAreCovered, Covered, Pending, Message
  <1> QED
    BY <1>5, <1>7, <1>8, <1>9, <1>10 DEF Inv

LEMMA NextInv == ASSUME Inv, Stopped, [Next]_vars PROVE Inv'
  <1>1. CASE EnqueuePublish
    BY <1>1, EnqueuePublishKeeps
  <1>2. CASE ShutdownKchat
    BY <1>2, ShutdownKchatKeeps
  <1>3. CASE InitialiseKchat
    BY <1>3, InitialiseKchatKeeps
  <1>4. CASE ClickRefresh
    BY <1>4, ClickRefreshKeeps
  <1>5. CASE OnPublishNext
    BY <1>5, OnPublishNextKeeps
  <1>6. CASE OnMirrorRecent
    BY <1>6, OnMirrorRecentKeeps
  <1>7. CASE PanelRestarts
    BY <1>7, PanelRestartsKeeps
  <1>8. CASE PersonPosts
    BY <1>8, PersonPostsKeeps
  <1>9. ASSUME NEW t \in Task, JobStep(t) PROVE Inv'
    BY <1>9, ServeKeeps, HostRefusesKeeps, TimedOutKeeps, AcknowledgePublishKeeps,
       HostFailsAfterPostingKeeps, PushReviewCommentsKeeps, AnswerRefreshKeeps, ShowAnswersKeeps,
       RefreshFailsKeeps DEF JobStep
  <1>10. ASSUME NEW t \in Task, ServeStopping(t) PROVE Inv'
    BY <1>10, ServeStoppingKeeps
  <1>11. ASSUME NEW r \in late, ServeLate(r) PROVE Inv'
    BY <1>11, ServeLateKeeps
  <1>12. CASE UNCHANGED vars
    BY <1>12 DEF vars, server, panel, history, Inv, TypeOK, PublishSendsAcks,
       AnsweredAtOnce, CardsAreAccounted, CardsAreKnown, AcksArePosted,
       PostedAreSettled, PostedOnce, MarksAreCovered, MirrorIsWhole, Settled,
       Posts, Covered, Pending, Sends, HasAnswer
  <1> QED
    BY <1>1, <1>2, <1>3, <1>4, <1>5, <1>6, <1>7, <1>8, <1>9, <1>10, <1>11, <1>12
       DEF Next

LEMMA StoppedAlways == Spec => []Stopped
  <1>1. Init => Stopped
    BY DEF Init, Stopped
  <1>2. ASSUME Stopped, [Next]_vars PROVE Stopped'
    <2>1. CASE up'
      BY <2>1 DEF Stopped
    <2>2. CASE ShutdownKchat
      BY <2>2 DEF ShutdownKchat, Stopped
    <2>3. CASE ~up /\ ~up'
      <3>1. late = {} /\ review = EmptyReview
        BY <1>2, <2>3 DEF Stopped
      <3>2. \A j : Abandoned(j) = {}
        BY <2>3 DEF Abandoned
      <3>3. review' = review
        BY <1>2, <2>3 DEF Next, JobStep, EnqueuePublish, ShutdownKchat, InitialiseKchat,
           ClickRefresh, OnPublishNext, OnMirrorRecent, PanelRestarts, PersonPosts,
           Serve, HostRefuses, TimedOut, AcknowledgePublish, HostFailsAfterPosting,
           PushReviewComments, AnswerRefresh, ShowAnswers, RefreshFails,
           ServeStopping, ServeLate, vars, server
      <3>4. late' = late
        <4>1. CASE PanelRestarts
          BY <3>1, <3>2, <4>1 DEF PanelRestarts
        <4>2. CASE \E t \in Task : TimedOut(t)
          BY <3>1, <3>2, <4>2 DEF TimedOut
        <4> QED
          BY <1>2, <2>3, <4>1, <4>2 DEF Next, JobStep, EnqueuePublish, ShutdownKchat,
             InitialiseKchat, ClickRefresh, OnPublishNext, OnMirrorRecent, PersonPosts,
             Serve, HostRefuses, AcknowledgePublish, HostFailsAfterPosting,
             PushReviewComments, AnswerRefresh, ShowAnswers, RefreshFails,
             ServeStopping, ServeLate, vars
      <3> QED
        BY <3>1, <3>3, <3>4 DEF Stopped
    <2>4. up /\ ~up' => ShutdownKchat
      BY <1>2 DEF Next, JobStep, EnqueuePublish, InitialiseKchat,
         ClickRefresh, OnPublishNext, OnMirrorRecent, PanelRestarts, PersonPosts,
         Serve, HostRefuses, TimedOut, AcknowledgePublish, HostFailsAfterPosting,
         PushReviewComments, AnswerRefresh, ShowAnswers, RefreshFails,
         ServeStopping, ServeLate, vars, server
    <2> QED
      BY <2>1, <2>2, <2>3, <2>4
  <1> QED
    BY <1>1, <1>2, PTL DEF Spec

LEMMA InvAlways == Spec => []Inv
  <1>1. Init => Inv
    BY InitInv
  <1>2. Inv /\ Stopped /\ [Next]_vars => Inv'
    BY NextInv
  <1> QED
    BY <1>1, <1>2, StoppedAlways, PTL DEF Spec

\* publishQueue, the panel's LoadState and the watermarks: what each side knows
\* of the other stays true, however late it arrives, and no card goes missing.
THEOREM Invariance == Spec => []LoopbackInvariant
  <1>1. Inv => LoopbackInvariant
    BY DEF Inv, LoopbackInvariant
  <1> QED
    BY <1>1, InvAlways, PTL

\* publish-panel.tsx posts first and acknowledges second: a card is posted
\* twice only after a failed acknowledgement or an overtaken refresh.
THEOREM OnlyFaultsRepost == Spec => []RepostHasACause
  <1>1. ASSUME Inv PROVE RepostHasACause
    <2> SUFFICES ASSUME NEW c \in Card, ~(c \in unsure \/ overtaken)
                 PROVE  ~(Cardinality(Posts(c)) > 1)
      BY DEF RepostHasACause
    <2>1. \A m, n \in Posts(c) : m = n
      BY <1>1 DEF Inv, PostedOnce
    <2>2. CASE Posts(c) = {}
      BY <2>2, FS_EmptySet
    <2>3. CASE Posts(c) # {}
      <3>1. PICK m \in Posts(c) : TRUE
        BY <2>3
      <3>2. Posts(c) = {m}
        BY <2>1, <3>1
      <3>3. Cardinality({m}) = 1
        BY FS_Singleton
      <3> QED
        BY <3>2, <3>3
    <2> QED
      BY <2>2, <2>3
  <1> QED
    BY <1>1, InvAlways, PTL

\* The watermark of /api/reviews passes by no comment but the known gaps: what an
\* acknowledgement moved it over, what the host left out of an answer it cut, and
\* what only a watermark from before a restart of the main process covers.
THEOREM MirrorsEverything == Spec => []MirrorIsWhole
  <1>1. Inv => MirrorIsWhole
    BY DEF Inv
  <1> QED
    BY <1>1, InvAlways, PTL

\* ReviewThreadState, whatever order the batches arrive in: no comment is kept
\* twice, and those that the cap leaves are the newest of all that arrived.
THEOREM NewestAreKept == Spec => []CommentsAreTheNewest
  <1>1. CommentsAreTheNewest <=> Newest(review.comments, review.seenIds)
    BY DEF CommentsAreTheNewest, Newest
  <1>2. EmptyReview.seenIds = {} /\ Newest(EmptyReview.comments, EmptyReview.seenIds)
    <2>1. PICK q \in Seq(Message) : q = <<>> /\ Len(q) = 0 /\ DOMAIN q = {}
      <3>1. <<>> \in Seq(Message) /\ Len(<<>>) = 0
        BY EmptySeq
      <3>2. DOMAIN <<>> = {}
        OBVIOUS
      <3> QED
        BY <3>1, <3>2
    <2>2. IsInjective(q) /\ ToSet(q) = {}
      BY <2>1 DEF IsInjective, ToSet
    <2>3. Newest(q, {})
      BY <2>1, <2>2, KChatAssumption DEF Newest
    <2> QED
      BY <2>1, <2>3 DEF EmptyReview
  <1>3. Init => CommentsAreTheNewest
    BY <1>1, <1>2 DEF Init
  <1>4. ASSUME Inv, CommentsAreTheNewest, [Next]_vars PROVE CommentsAreTheNewest'
    <2>1. review.seenIds \subseteq Message /\ Newest(review.comments, review.seenIds)
      BY <1>1, <1>4 DEF Inv, TypeOK
    <2>2. ASSUME NEW r \in Ack \cup Batch, Handle(r) PROVE CommentsAreTheNewest'
      <3>1. \E messages \in SUBSET Message : review' = IngestComments(review, messages)
        BY <2>2 DEF Handle, PublishToThread, IngestReviewComments, Ack, Batch
      <3>2. Newest(review'.comments, review'.seenIds)
        BY <2>1, <3>1, IngestKeepsNewest
      <3> QED
        BY <3>2 DEF CommentsAreTheNewest, Newest
    <2>3. CASE UNCHANGED review
      BY <1>4, <2>3 DEF CommentsAreTheNewest
    <2>4. CASE ShutdownKchat
      <3>1. review' = EmptyReview
        BY <2>4 DEF ShutdownKchat
      <3> QED
        BY <1>2, <3>1 DEF CommentsAreTheNewest, Newest
    <2>5. CASE \E t \in Task : Serve(t)
      <3>1. PICK t \in Task : Serve(t)
        BY <2>5
      <3>2. Sends(t) /\ Handle(job[t].request)
        BY <3>1 DEF Serve, Sends
      <3>3. job[t].request \in Ack \cup Batch
        BY <1>4, <3>2 DEF Inv, TypeOK, JobState, Idle, Sends
      <3> QED
        BY <2>2, <3>2, <3>3
    <2>6. CASE \E r \in late : ServeLate(r)
      <3>1. PICK r \in late : ServeLate(r)
        BY <2>6
      <3>2. r \in Ack \cup Batch /\ Handle(r)
        BY <1>4, <3>1 DEF Inv, TypeOK, ServeLate
      <3> QED
        BY <2>2, <3>2
    <2>7. CASE \/ EnqueuePublish \/ InitialiseKchat \/ ClickRefresh \/ OnPublishNext
               \/ OnMirrorRecent \/ PanelRestarts \/ PersonPosts \/ UNCHANGED vars
      <3>1. UNCHANGED review
        BY <2>7 DEF EnqueuePublish, InitialiseKchat, ClickRefresh, OnPublishNext,
           OnMirrorRecent, PanelRestarts, PersonPosts, vars, server
      <3> QED
        BY <2>3, <3>1
    <2>8. ASSUME NEW t \in Task, JobStep(t) \/ ServeStopping(t), ~Serve(t)
          PROVE  CommentsAreTheNewest'
      <3>1. UNCHANGED review
        BY <2>8 DEF JobStep, ServeStopping, HostRefuses, TimedOut, AcknowledgePublish,
           HostFailsAfterPosting, PushReviewComments, AnswerRefresh, ShowAnswers,
           RefreshFails, server
      <3> QED
        BY <2>3, <3>1
    <2> QED
      BY <1>4, <2>4, <2>5, <2>6, <2>7, <2>8 DEF Next
  <1>5. Inv /\ CommentsAreTheNewest /\ [Next]_vars => CommentsAreTheNewest'
    BY <1>4
  <1> QED
    BY <1>3, <1>5, InvAlways, PTL DEF Spec
=============================================================================
