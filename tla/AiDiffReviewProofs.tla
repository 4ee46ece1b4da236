------------------------- MODULE AiDiffReviewProofs -------------------------
(***************************************************************************)
(* Proofs about AiDiffReview, for any number of threads, proposals, calls  *)
(* and crashes and any faults.  The argument is the one of the comment on  *)
(* ai_accept_diff: the accept that commits a proposal holds the write lock *)
(* until the proposal has left the registry, so that no other call can     *)
(* find it there.  The last part is about the audit files, as long as      *)
(* every append has them to itself and is finished.                        *)
(***************************************************************************)
EXTENDS MCAiDiffReview, SequenceTheorems, WellFoundedInduction, TLAPS

Token == AuditEntry \cup {EOL, Torn}

-----------------------------------------------------------------------------
(* The audit files only grow.                                              *)

LEMMA LogGrows ==
    ASSUME NEW d, NEW v, Logged(d, v), log \in Seq(Token),
           log' = log \/ \E token \in Token : log' = Append(log, token)
    PROVE  Logged(d, v)'
  <1>1. PICK i \in DOMAIN log : IsEntry(log[i]) /\ log[i].diff = d /\ log[i].status = v
    BY DEF Logged
  <1>2. i \in DOMAIN log' /\ log'[i] = log[i]
    <2>1. CASE log' = log
      BY <2>1
    <2>2. CASE \E token \in Token : log' = Append(log, token)
      <3>1. PICK token \in Token : log' = Append(log, token)
        BY <2>2
      <3>2. /\ Len(log') = Len(log) + 1
            /\ \A k \in 1 .. Len(log) : log'[k] = log[k]
            /\ log' \in Seq(Token)
        BY <3>1, AppendProperties
      <3>3. DOMAIN log = 1 .. Len(log) /\ DOMAIN log' = 1 .. Len(log') /\ Len(log) \in Nat
        BY <3>2, LenProperties
      <3> QED
        BY <3>2, <3>3
    <2> QED
      BY <2>1, <2>2
  <1> QED
    BY <1>1, <1>2 DEF Logged

LEMMA RecordsGrow ==
    ASSUME NEW d, NEW v, Recorded(d, v), records \in Seq(AuditRecord),
           records' = records \/ \E r \in AuditRecord : records' = Append(records, r)
    PROVE  Recorded(d, v)'
  <1>1. PICK i \in DOMAIN records : records[i] = [diff |-> d, status |-> v]
    BY DEF Recorded
  <1>2. i \in DOMAIN records' /\ records'[i] = records[i]
    <2>1. CASE records' = records
      BY <2>1
    <2>2. CASE \E r \in AuditRecord : records' = Append(records, r)
      <3>1. PICK r \in AuditRecord : records' = Append(records, r)
        BY <2>2
      <3>2. /\ Len(records') = Len(records) + 1
            /\ \A k \in 1 .. Len(records) : records'[k] = records[k]
            /\ records' \in Seq(AuditRecord)
        BY <3>1, AppendProperties
      <3>3. /\ DOMAIN records = 1 .. Len(records)
            /\ DOMAIN records' = 1 .. Len(records')
            /\ Len(records) \in Nat
        BY <3>2, LenProperties
      <3> QED
        BY <3>2, <3>3
    <2> QED
      BY <2>1, <2>2
  <1> QED
    BY <1>1, <1>2 DEF Recorded

\* The last element of an appended sequence.
LEMMA WrittenIsLogged ==
    ASSUME NEW token \in Token, IsEntry(token), log \in Seq(Token),
           log' = Append(log, token)
    PROVE  Logged(token.diff, token.status)'
  <1>1. /\ Len(log') = Len(log) + 1
        /\ log'[Len(log) + 1] = token
        /\ log' \in Seq(Token)
    BY AppendProperties
  <1>2. DOMAIN log' = 1 .. Len(log') /\ Len(log) \in Nat
    BY <1>1, LenProperties
  <1>3. Len(log) + 1 \in DOMAIN log'
    BY <1>1, <1>2
  <1> QED
    BY <1>1, <1>3 DEF Logged

LEMMA WrittenIsRecorded ==
    ASSUME NEW d, NEW v, [diff |-> d, status |-> v] \in AuditRecord,
           records \in Seq(AuditRecord),
           records' = Append(records, [diff |-> d, status |-> v])
    PROVE  Recorded(d, v)'
  <1>1. /\ Len(records') = Len(records) + 1
        /\ records'[Len(records) + 1] = [diff |-> d, status |-> v]
        /\ records' \in Seq(AuditRecord)
    BY AppendProperties
  <1>2. DOMAIN records' = 1 .. Len(records') /\ Len(records) \in Nat
    BY <1>1, LenProperties
  <1>3. Len(records) + 1 \in DOMAIN records'
    BY <1>1, <1>2
  <1> QED
    BY <1>1, <1>3 DEF Recorded

-----------------------------------------------------------------------------
LEMMA TokenTypes ==
    ASSUME TypeOK
    PROVE  /\ log \in Seq(Token) /\ Len(log) \in Nat
           /\ records \in Seq(AuditRecord)
           /\ Heads(log) \subseteq Nat
           /\ FreshHash \in Nat \ {0}
  <1>1. log \in Seq(Token) /\ Len(log) \in Nat /\ records \in Seq(AuditRecord)
    BY DEF TypeOK, Token
  <1>2. \A i \in DOMAIN log : log[i] \in Token
    BY <1>1, ElementOfSeq, LenProperties
  <1>3. \A i \in DOMAIN log : IsEntry(log[i]) => log[i].hash \in Nat
    BY <1>2 DEF Token, IsEntry, AuditEntry
  <1>4. Heads(log) \subseteq Nat
    BY <1>3 DEF Heads, Genesis
  <1> QED
    BY <1>1, <1>4 DEF FreshHash

-----------------------------------------------------------------------------
(* What a step does to the calls.                                          *)

Call == [at: Labels, diff: Diff \cup {NoDiff}, verdict: Verdict, head: Nat]

\* Thread t moves to another place of the same call; the others stay.
Moves(t, label) ==
    /\ call' \in [Thread -> Call]
    /\ call'[t].at = label
    /\ call'[t].diff = call[t].diff /\ call'[t].verdict = call[t].verdict
    /\ \A u \in Thread \ {t} : call'[u] = call[u]

Leaves(t) ==
    /\ call' \in [Thread -> Call]
    /\ call'[t].at = "idle"
    /\ \A u \in Thread \ {t} : call'[u] = call[u]

LEMMA GotoMoves ==
    ASSUME TypeOK, NEW t \in Thread, NEW label \in Labels, Goto(t, label)
    PROVE  Moves(t, label)
  <1>1. call \in [Thread -> Call]
    BY DEF TypeOK, Call
  <1>2. [call[t] EXCEPT !.at = label] \in Call
    BY <1>1 DEF Call
  <1> QED
    BY <1>1, <1>2 DEF Goto, Moves, Call

LEMMA ReturnLeaves ==
    ASSUME TypeOK, ReviewAssumption, NEW t \in Thread, Return(t)
    PROVE  Leaves(t)
  <1>1. call \in [Thread -> Call]
    BY DEF TypeOK, Call
  <1>2. Idle \in Call /\ Idle.at = "idle"
    BY DEF Call, Idle, Labels, Verdict, Genesis
  <1> QED
    BY <1>1, <1>2 DEF Return, Leaves

\* Nothing but a new call can disturb the lock.
LEMMA LockKept ==
    ASSUME LockExcludes, NEW t \in Thread,
           Leaves(t) \/ (\E label \in Labels : Moves(t, label) /\ call[t].at # "idle")
    PROVE  LockExcludes'
  <1>1. \A u \in Thread : call'[u].at # "idle" =>
          call[u].at # "idle" /\ call'[u].verdict = call[u].verdict
    BY DEF Leaves, Moves
  <1> QED
    BY <1>1 DEF LockExcludes, Holds

\* What the calls of the other threads rely on.
LEMMA OthersOnTrack ==
    ASSUME NEW u \in Thread, OnTrack(u), call'[u] = call[u],
           planned \subseteq planned',
           \A d, v : Logged(d, v) => Logged(d, v)',
           \A d, v : Recorded(d, v) => Recorded(d, v)',
           Holds(u, "accepted") =>
             pending' = pending /\ applied' = applied
    PROVE  OnTrack(u)'
  BY DEF OnTrack, Holds

-----------------------------------------------------------------------------
(* One lemma for each action.                                              *)

LEMMA InitReview == ReviewAssumption /\ Init => ReviewInvariant
  <1> SUFFICES ASSUME ReviewAssumption, Init PROVE ReviewInvariant
    OBVIOUS
  <1> USE DEF Init
  <1>1. Idle \in Call /\ Idle.at = "idle"
    BY DEF Call, Idle, Labels, Verdict, Genesis
  <1>2. TypeOK
    BY <1>1 DEF TypeOK, Call
  <1>3. LockExcludes /\ CallsOnTrack
    BY <1>1 DEF LockExcludes, Holds, CallsOnTrack, OnTrack
  <1>4. PendingNotApplied /\ AppliedAtMostOnce /\ AnswersAreTrue /\ RejectionRecorded
    BY DEF PendingNotApplied, AppliedAtMostOnce, AnswersAreTrue, RejectionRecorded
  <1> QED
    BY <1>2, <1>3, <1>4 DEF ReviewInvariant

\* A call that gives up before its proposal is finalized, and may leave half
\* a line behind.
LEMMA GivingUp ==
    ASSUME ReviewInvariant, NEW t \in Thread, Leaves(t),
           call[t].at # "finalizeAccept",
           log' = log \/ \E token \in Token : log' = Append(log, token),
           UNCHANGED <<pending, applied, records, planned, answer, calls, crashes>>
    PROVE  ReviewInvariant'
  <1> USE DEF ReviewInvariant
  <1>1. log \in Seq(Token) /\ records \in Seq(AuditRecord)
    BY TokenTypes
  <1>2. log' \in Seq(Token)
    <2>1. \A token \in Token : Append(log, token) \in Seq(Token)
      BY <1>1, AppendProperties
    <2> QED
      BY <1>1, <2>1
  <1>3. \A d, v : Logged(d, v) => Logged(d, v)'
    BY <1>1, LogGrows
  <1>4. \A d, v : Recorded(d, v) => Recorded(d, v)'
    BY DEF Recorded
  <1>5. TypeOK'
    BY <1>2 DEF TypeOK, Leaves, Call, Token
  <1>6. LockExcludes'
    BY LockKept
  <1>7. CallsOnTrack'
    <2> SUFFICES ASSUME NEW u \in Thread PROVE OnTrack(u)'
      BY DEF CallsOnTrack
    <2>1. CASE u = t
      BY <2>1 DEF Leaves, OnTrack
    <2>2. CASE u # t
      <3>1. OnTrack(u) /\ call'[u] = call[u]
        BY <2>2 DEF CallsOnTrack, Leaves
      <3> QED
        BY <1>3, <1>4, <3>1, OthersOnTrack
    <2> QED
      BY <2>1, <2>2
  <1>8. PendingNotApplied'
    BY DEF PendingNotApplied, Leaves
  <1>9. AppliedAtMostOnce' /\ AnswersAreTrue'
    BY DEF AppliedAtMostOnce, AnswersAreTrue
  <1>10. RejectionRecorded'
    BY <1>3, <1>4 DEF RejectionRecorded
  <1> QED
    BY <1>5, <1>6, <1>7, <1>8, <1>9, <1>10

LEMMA PlanReview ==
    ASSUME ReviewInvariant, NEW d \in Diff, Plan(d)
    PROVE  ReviewInvariant'
  <1> USE DEF ReviewInvariant, Plan, disk
  <1>1. TypeOK'
    BY DEF TypeOK
  <1>2. LockExcludes'
    BY DEF LockExcludes, Holds
  <1>3. CallsOnTrack'
    BY DEF CallsOnTrack, OnTrack, Logged, Recorded
  <1>4. PendingNotApplied'
    <2>1. applied[d] = 0
      BY DEF PendingNotApplied
    <2>2. answer[d] = "none"
      BY DEF PendingNotApplied
    <2> QED
      BY <2>1, <2>2 DEF PendingNotApplied
  <1>5. AppliedAtMostOnce' /\ AnswersAreTrue' /\ RejectionRecorded'
    BY DEF AppliedAtMostOnce, AnswersAreTrue, RejectionRecorded, Logged, Recorded
  <1> QED
    BY <1>1, <1>2, <1>3, <1>4, <1>5

\* With no accept between commit and removal, what is pending is unapplied.
LEMMA PendingIsUnapplied ==
    ASSUME TypeOK, PendingNotApplied, NEW d \in Diff, d \in pending,
           \A t \in Thread : call[t].at # "finalizeAccept"
    PROVE  applied[d] = 0
  <1>1. applied[d] \in Nat
    BY DEF TypeOK
  <1>2. ~(applied[d] > 0)
    BY DEF PendingNotApplied
  <1> QED
    BY <1>1, <1>2

\* A call begins: the accept alone, a reject beside other readers.
LEMMA StartReview ==
    ASSUME ReviewAssumption, ReviewInvariant, NEW t \in Thread, NEW d \in Diff,
           StartAccept(t, d) \/ StartReject(t, d)
    PROVE  ReviewInvariant'
  <1> USE DEF ReviewInvariant, disk
  <1>1. PICK verdict \in Verdict, label \in {"commit", "open"} :
          /\ Start(t, d, verdict, label)
          /\ verdict = "accepted" <=> label = "commit"
          /\ NoWriter /\ (verdict = "accepted" => NoReader)
    BY DEF StartAccept, StartReject, Verdict
  <1>2. /\ call \in [Thread -> Call] /\ Idle \in Call
        /\ Idle.at = "idle" /\ Idle.verdict = "rejected"
    BY DEF TypeOK, Call, Idle, Labels, Verdict, Genesis
  <1>3. /\ call' \in [Thread -> Call]
        /\ call'[t].at = label /\ call'[t].diff = d /\ call'[t].verdict = verdict
        /\ \A u \in Thread \ {t} : call'[u] = call[u]
    <2>1. [Idle EXCEPT !.at = label, !.diff = d, !.verdict = verdict] \in Call
      BY <1>2 DEF Call, Labels
    <2> QED
      BY <1>1, <1>2, <2>1 DEF Start, Call
  <1>4. /\ d \in pending /\ d \in planned /\ calls' = calls + 1
        /\ UNCHANGED <<pending, disk, planned, answer, crashes>>
    BY <1>1 DEF Start, TypeOK
  <1>5. TypeOK'
    BY <1>3, <1>4 DEF TypeOK, Call
  <1>6. \A u \in Thread : call[u].at # "idle" =>
          ~Holds(u, "accepted") /\ (verdict = "accepted" => FALSE)
    <2>1. \A u \in Thread : call[u].verdict \in Verdict
      BY <1>2 DEF Call
    <2> QED
      BY <1>1, <2>1 DEF NoWriter, NoReader, Holds, Verdict
  <1>7. LockExcludes'
    BY <1>3, <1>6 DEF LockExcludes, Holds
  <1>8. applied[d] = 0
    <2>1. CASE verdict = "accepted"
      <3>1. \A u \in Thread : call[u].at # "finalizeAccept"
        BY <1>6, <2>1
      <3> QED
        BY <1>4, <3>1, PendingIsUnapplied
    <2>2. CASE verdict # "accepted"
      <3>1. \A u \in Thread : call[u].at # "finalizeAccept"
        BY <1>6 DEF CallsOnTrack, OnTrack, Holds
      <3> QED
        BY <1>4, <3>1, PendingIsUnapplied
    <2> QED
      BY <2>1, <2>2
  <1>9. CallsOnTrack'
    <2> SUFFICES ASSUME NEW u \in Thread PROVE OnTrack(u)'
      BY DEF CallsOnTrack
    <2>1. CASE u = t
      BY <1>1, <1>3, <1>4, <1>8, <2>1 DEF OnTrack
    <2>2. CASE u # t
      <3>1. OnTrack(u) /\ call'[u] = call[u]
        BY <1>3, <2>2 DEF CallsOnTrack
      <3> QED
        BY <1>4, <3>1 DEF OnTrack, Logged, Recorded
    <2> QED
      BY <2>1, <2>2
  <1>10. PendingNotApplied'
    <2>1. \A u \in Thread : call[u].at = "finalizeAccept" => u # t
      BY <1>1, <1>2 DEF Start
    <2> QED
      BY <1>3, <1>4, <2>1 DEF PendingNotApplied
  <1>11. AppliedAtMostOnce' /\ AnswersAreTrue' /\ RejectionRecorded'
    BY <1>4 DEF AppliedAtMostOnce, AnswersAreTrue, RejectionRecorded, Logged, Recorded
  <1> QED
    BY <1>5, <1>7, <1>9, <1>10, <1>11

\* Only the accept itself is in a call when it commits.
LEMMA CommitReview ==
    ASSUME ReviewAssumption, ReviewInvariant, NEW t \in Thread, Commit(t)
    PROVE  ReviewInvariant'
  <1> USE DEF ReviewInvariant, disk
  <1> DEFINE d == call[t].diff
  <1>1. CASE UNCHANGED applied /\ Return(t)
    <2>1. Leaves(t) /\ call[t].at # "finalizeAccept"
      BY <1>1, ReturnLeaves DEF Commit
    <2> QED
      BY <1>1, <2>1, GivingUp DEF Commit
  <1>2. CASE applied' = [applied EXCEPT ![d] = @ + 1] /\ Goto(t, "finalizeAccept")
    <2>1. Moves(t, "finalizeAccept")
      BY <1>2, GotoMoves DEF Labels
    <2>2. /\ OnTrack(t) /\ call[t].at = "commit"
          /\ Holds(t, "accepted") /\ d \in pending /\ d \in Diff /\ applied[d] = 0
      BY DEF Commit, CallsOnTrack, OnTrack, Holds, TypeOK
    <2>3. UNCHANGED <<pending, log, records, planned, answer, calls, crashes>>
      BY DEF Commit
    <2>4. applied' \in [Diff -> Nat] /\ applied'[d] = 1
          /\ \A e \in Diff \ {d} : applied'[e] = applied[e]
      <3>1. applied \in [Diff -> Nat]
        BY DEF TypeOK
      <3> HIDE DEF d, ReviewInvariant
      <3> QED
        BY <1>2, <2>2, <3>1
    <2>5. TypeOK'
      BY <2>1, <2>3, <2>4 DEF TypeOK, Moves, Call
    <2>6. LockExcludes'
      BY <2>1, <2>2, LockKept DEF Labels
    <2>7. \A u \in Thread \ {t} : call[u].at = "idle"
      BY <2>2 DEF LockExcludes
    <2>8. CallsOnTrack'
      BY <2>1, <2>2, <2>3, <2>4, <2>7 DEF CallsOnTrack, OnTrack, Moves
    <2>9. PendingNotApplied'
      <3>1. PendingNotApplied
        OBVIOUS
      <3>2. call'[t].at = "finalizeAccept" /\ call'[t].diff = d /\ d \in planned
        BY <2>1, <2>2 DEF Moves, OnTrack
      <3>3. ASSUME NEW e \in Diff \ {d}
            PROVE  ~(e \in pending /\ applied'[e] > 0)
                   /\ (e \notin planned => applied'[e] = 0)
                   /\ (answer[e] # "none" => e \in planned \ pending)
        BY <2>2, <2>4, <2>7, <3>1 DEF PendingNotApplied
      <3>4. answer[d] # "none" => d \in planned \ pending
        BY <2>2, <3>1 DEF PendingNotApplied
      <3> QED
        BY <2>3, <3>2, <3>3, <3>4 DEF PendingNotApplied
    <2>10. AppliedAtMostOnce'
      BY <2>4 DEF AppliedAtMostOnce
    <2>11. answer[d] = "none"
      BY <2>2 DEF PendingNotApplied
    <2>12. AnswersAreTrue'
      BY <2>3, <2>4, <2>11 DEF AnswersAreTrue
    <2>13. RejectionRecorded'
      BY <2>3 DEF RejectionRecorded, Logged, Recorded
    <2> QED
      BY <2>5, <2>6, <2>8, <2>9, <2>10, <2>12, <2>13
  <1> QED
    BY <1>1, <1>2 DEF Commit

LEMMA FinalizeAcceptReview ==
    ASSUME ReviewAssumption, ReviewInvariant, NEW t \in Thread, FinalizeAccept(t)
    PROVE  ReviewInvariant'
  <1> USE DEF ReviewInvariant, disk
  <1> DEFINE d == call[t].diff
  <1>1. /\ call[t].at = "finalizeAccept" /\ Holds(t, "accepted")
        /\ d \in pending /\ d \in Diff /\ d \in planned /\ applied[d] = 1
    BY DEF FinalizeAccept, CallsOnTrack, OnTrack, Holds, TypeOK
  <1>2. /\ pending' = pending \ {d} /\ Goto(t, "open")
        /\ UNCHANGED <<disk, planned, answer, calls, crashes>>
    BY <1>1 DEF FinalizeAccept
  <1>3. Moves(t, "open")
    BY <1>2, GotoMoves DEF Labels
  <1>4. TypeOK'
    BY <1>2, <1>3 DEF TypeOK, Moves, Call
  <1>5. LockExcludes'
    BY <1>1, <1>3, LockKept DEF Labels
  <1>6. \A u \in Thread \ {t} : call[u].at = "idle"
    BY <1>1 DEF LockExcludes
  <1>7. CallsOnTrack'
    BY <1>1, <1>2, <1>3, <1>6 DEF CallsOnTrack, OnTrack, Moves
  <1>8. PendingNotApplied'
    BY <1>1, <1>2, <1>3, <1>6 DEF PendingNotApplied, Moves
  <1>9. AppliedAtMostOnce' /\ AnswersAreTrue' /\ RejectionRecorded'
    BY <1>2 DEF AppliedAtMostOnce, AnswersAreTrue, RejectionRecorded, Logged, Recorded
  <1> QED
    BY <1>4, <1>5, <1>7, <1>8, <1>9

\* A step between two places of the audit append, which can only add to the
\* files.
LEMMA AppendingReview ==
    ASSUME ReviewInvariant, NEW t \in Thread,
           NEW from \in {"open", "line", "newline", "record"},
           NEW to \in {"line", "newline", "record", "finalizeReject"},
           call[t].at = from, Moves(t, to),
           UNCHANGED <<pending, applied, planned, answer, calls, crashes>>,
           log' = log \/ \E token \in Token : log' = Append(log, token),
           records' = records \/ \E r \in AuditRecord : records' = Append(records, r),
           to \in {"newline", "record"} => Logged(call[t].diff, call[t].verdict)',
           to = "finalizeReject" =>
             /\ call[t].verdict = "rejected"
             /\ Logged(call[t].diff, "rejected")'
             /\ Recorded(call[t].diff, "rejected")'
    PROVE  ReviewInvariant'
  <1> USE DEF ReviewInvariant
  <1>1. log \in Seq(Token) /\ records \in Seq(AuditRecord)
    BY TokenTypes
  <1>2. log' \in Seq(Token) /\ records' \in Seq(AuditRecord)
    <2>1. \A token \in Token : Append(log, token) \in Seq(Token)
      BY <1>1, AppendProperties
    <2>2. \A r \in AuditRecord : Append(records, r) \in Seq(AuditRecord)
      BY <1>1, AppendProperties
    <2> QED
      BY <1>1, <2>1, <2>2
  <1>3. \A d, v : Logged(d, v) => Logged(d, v)'
    BY <1>1, LogGrows
  <1>4. \A d, v : Recorded(d, v) => Recorded(d, v)'
    BY <1>1, RecordsGrow
  <1>5. TypeOK'
    BY <1>2 DEF TypeOK, Moves, Call, Token
  <1>6. LockExcludes'
    BY LockKept DEF Labels
  <1>7. CallsOnTrack'
    <2> SUFFICES ASSUME NEW u \in Thread PROVE OnTrack(u)'
      BY DEF CallsOnTrack
    <2>1. CASE u = t
      <3>1. OnTrack(t)
        BY DEF CallsOnTrack
      <3> QED
        BY <2>1, <3>1 DEF OnTrack, Moves
    <2>2. CASE u # t
      <3>1. OnTrack(u) /\ call'[u] = call[u]
        BY <2>2 DEF CallsOnTrack, Moves
      <3> QED
        BY <1>3, <1>4, <3>1, OthersOnTrack
    <2> QED
      BY <2>1, <2>2
  <1>8. PendingNotApplied'
    <2>1. \A u \in Thread : call[u].at = "finalizeAccept" => call'[u] = call[u]
      BY DEF Moves
    <2> QED
      BY <2>1 DEF PendingNotApplied
  <1>9. RejectionRecorded'
    BY <1>3, <1>4 DEF RejectionRecorded
  <1>10. AppliedAtMostOnce' /\ AnswersAreTrue'
    BY DEF AppliedAtMostOnce, AnswersAreTrue
  <1> QED
    BY <1>5, <1>6, <1>7, <1>8, <1>9, <1>10

LEMMA OpenLogReview ==
    ASSUME ReviewAssumption, ReviewInvariant, NEW t \in Thread, OpenLog(t)
    PROVE  ReviewInvariant'
  <1>1. call[t].at = "open" /\ UNCHANGED <<pending, disk, planned, answer, calls, crashes>>
    BY DEF OpenLog, Fails
  <1>2. CASE Return(t)
    <2>1. Leaves(t)
      BY <1>2, ReturnLeaves DEF ReviewInvariant
    <2> QED
      BY <1>1, <2>1, GivingUp DEF disk
  <1>3. CASE \E head \in Heads(log) :
               call' = [call EXCEPT ![t].at = "line", ![t].head = head]
    <2>1. PICK head \in Heads(log) :
            call' = [call EXCEPT ![t].at = "line", ![t].head = head]
      BY <1>3
    <2>2. call \in [Thread -> Call] /\ head \in Nat
      BY TokenTypes DEF ReviewInvariant, TypeOK, Call
    <2>3. [call[t] EXCEPT !.at = "line", !.head = head] \in Call
      BY <2>2 DEF Call, Labels
    <2>4. Moves(t, "line")
      BY <2>1, <2>2, <2>3 DEF Moves, Call
    <2>5. log' = log /\ records' = records /\ applied' = applied
      BY <1>1 DEF disk
    <2> QED
      BY <1>1, <2>4, <2>5, AppendingReview
  <1> QED
    BY <1>2, <1>3 DEF OpenLog, Fails

LEMMA WriteLineReview ==
    ASSUME ReviewAssumption, ReviewInvariant, NEW t \in Thread, WriteLine(t)
    PROVE  ReviewInvariant'
  <1> DEFINE entry == [hash |-> FreshHash, prev |-> call[t].head,
                       diff |-> call[t].diff, status |-> call[t].verdict]
  <1>1. /\ call[t].at = "line" /\ call[t] \in Call /\ call[t].diff \in Diff
        /\ UNCHANGED <<pending, applied, records, planned, answer, calls, crashes>>
    BY DEF WriteLine, ReviewInvariant, TypeOK, CallsOnTrack, OnTrack, Call
  <1>2. CASE log' = Append(log, entry) /\ Goto(t, "newline")
    <2>1. Moves(t, "newline")
      BY <1>2, GotoMoves DEF ReviewInvariant, Labels
    <2>2. entry \in AuditEntry /\ entry.diff = call[t].diff /\ entry.status = call[t].verdict
      BY <1>1, TokenTypes DEF ReviewInvariant, Call, AuditEntry
    <2>3. entry \in Token /\ IsEntry(entry)
      BY <2>2 DEF Token, IsEntry, ReviewAssumption
    <2>4. Logged(call[t].diff, call[t].verdict)'
      <3>1. PICK token \in Token : token = entry
        BY <2>3
      <3>2. Logged(token.diff, token.status)'
        BY <1>2, <2>3, <3>1, TokenTypes, WrittenIsLogged DEF ReviewInvariant
      <3> QED
        BY <2>1, <2>2, <3>1, <3>2 DEF Logged, Moves
    <2> QED
      BY <1>1, <1>2, <2>1, <2>3, <2>4, AppendingReview
  <1>3. CASE log' = Append(log, Torn) /\ Return(t)
    <2>1. Leaves(t) /\ Torn \in Token
      BY <1>3, ReturnLeaves DEF ReviewInvariant, Token
    <2> QED
      BY <1>1, <1>3, <2>1, GivingUp
  <1> QED
    BY <1>2, <1>3 DEF WriteLine

LEMMA WriteNewlineReview ==
    ASSUME ReviewAssumption, ReviewInvariant, NEW t \in Thread, WriteNewline(t)
    PROVE  ReviewInvariant'
  <1>1. /\ call[t].at = "newline" /\ Logged(call[t].diff, call[t].verdict)
        /\ UNCHANGED <<pending, applied, records, planned, answer, calls, crashes>>
    BY DEF WriteNewline, Fails, disk, ReviewInvariant, CallsOnTrack, OnTrack
  <1>2. CASE log' = Append(log, EOL) /\ Goto(t, "record")
    <2>1. Moves(t, "record") /\ EOL \in Token
      BY <1>2, GotoMoves DEF ReviewInvariant, Labels, Token
    <2>2. Logged(call[t].diff, call[t].verdict)'
      <3>1. \A d, v : Logged(d, v) => Logged(d, v)'
        BY <1>2, <2>1, TokenTypes, LogGrows DEF ReviewInvariant
      <3> QED
        BY <1>1, <2>1, <3>1 DEF Logged, Moves
    <2> QED
      BY <1>1, <1>2, <2>1, <2>2, AppendingReview
  <1>3. CASE log' = log /\ Return(t)
    <2>1. Leaves(t)
      BY <1>3, ReturnLeaves DEF ReviewInvariant
    <2> QED
      BY <1>1, <1>3, <2>1, GivingUp
  <1> QED
    BY <1>2, <1>3 DEF WriteNewline, Fails, disk

\* The answer to an accept is given with its record, that to a reject later.
LEMMA WriteRecordReview ==
    ASSUME ReviewAssumption, ReviewInvariant, NEW t \in Thread, WriteRecord(t)
    PROVE  ReviewInvariant'
  <1> USE DEF ReviewInvariant
  <1> DEFINE d == call[t].diff
             record == [diff |-> d, status |-> call[t].verdict]
  <1>1. /\ call[t].at = "record" /\ call[t].verdict \in Verdict /\ OnTrack(t)
        /\ d \in Diff /\ record \in AuditRecord /\ Logged(d, call[t].verdict)
        /\ UNCHANGED <<pending, applied, log, planned, calls, crashes>>
    BY DEF WriteRecord, Fails, disk, TypeOK, CallsOnTrack, OnTrack, AuditRecord
  <1>2. CASE records' = records /\ answer' = answer /\ Return(t)
    <2>1. Leaves(t)
      BY <1>2, ReturnLeaves
    <2> QED
      BY <1>1, <1>2, <2>1, GivingUp
  <1>3. CASE /\ records' = Append(records, record)
             /\ call[t].verdict # "accepted"
             /\ Goto(t, "finalizeReject") /\ answer' = answer
    <2>1. Moves(t, "finalizeReject") /\ call[t].verdict = "rejected"
      BY <1>1, <1>3, GotoMoves DEF Labels, Verdict
    <2>2. Recorded(d, "rejected")'
      <3>1. PICK e \in Diff : e = call[t].diff
        BY <1>1
      <3>2. /\ [diff |-> e, status |-> "rejected"] \in AuditRecord
            /\ records' = Append(records, [diff |-> e, status |-> "rejected"])
            /\ records \in Seq(AuditRecord)
        BY <1>1, <1>3, <2>1, <3>1 DEF TypeOK
      <3>3. Recorded(e, "rejected")'
        BY <3>2, WrittenIsRecorded
      <3> QED
        BY <2>1, <3>1, <3>3 DEF Recorded, Moves
    <2>3. Logged(d, "rejected")'
      BY <1>1, <2>1 DEF Logged, Moves
    <2> QED
      BY <1>1, <1>3, <2>1, <2>2, <2>3, AppendingReview
  <1>4. CASE /\ records' = Append(records, record)
             /\ call[t].verdict = "accepted"
             /\ Return(t) /\ answer' = [answer EXCEPT ![d] = "accepted"]
    <2>1. Leaves(t) /\ records \in Seq(AuditRecord)
      BY <1>4, ReturnLeaves DEF TypeOK
    <2>2. applied[d] = 1 /\ d \in planned /\ Holds(t, "accepted")
      BY <1>1, <1>4 DEF OnTrack, Holds
    <2>3. \A u \in Thread \ {t} : call[u].at = "idle"
      BY <2>2 DEF LockExcludes
    <2>4. d \notin pending
      BY <1>1, <2>2, <2>3 DEF PendingNotApplied
    <2>5. /\ answer' \in [Diff -> Verdict \cup {"none"}] /\ answer'[d] = "accepted"
          /\ \A e \in Diff \ {d} : answer'[e] = answer[e]
      BY <1>1, <1>4 DEF TypeOK, Verdict
    <2>6. records' \in Seq(AuditRecord)
      BY <1>1, <1>4, <2>1, AppendProperties
    <2>7. TypeOK'
      BY <1>1, <2>1, <2>5, <2>6 DEF TypeOK, Leaves, Call
    <2>8. LockExcludes'
      BY <2>1, LockKept
    <2>9. CallsOnTrack'
      BY <2>1, <2>3 DEF CallsOnTrack, OnTrack, Leaves
    <2>10. PendingNotApplied'
      BY <1>1, <2>1, <2>2, <2>3, <2>4, <2>5 DEF PendingNotApplied, Leaves
    <2>11. AppliedAtMostOnce' /\ AnswersAreTrue'
      BY <1>1, <2>2, <2>5 DEF AppliedAtMostOnce, AnswersAreTrue
    <2>12. RejectionRecorded'
      <3>1. \A e, v : Recorded(e, v) => Recorded(e, v)'
        BY <1>1, <1>4, <2>1, RecordsGrow
      <3>2. \A e, v : Logged(e, v) => Logged(e, v)'
        BY <1>1 DEF Logged
      <3> QED
        BY <2>5, <3>1, <3>2 DEF RejectionRecorded
    <2> QED
      BY <2>7, <2>8, <2>9, <2>10, <2>11, <2>12
  <1> QED
    BY <1>2, <1>3, <1>4 DEF WriteRecord, Fails, disk

LEMMA FinalizeRejectReview ==
    ASSUME ReviewAssumption, ReviewInvariant, NEW t \in Thread, FinalizeReject(t)
    PROVE  ReviewInvariant'
  <1> USE DEF ReviewInvariant, disk
  <1> DEFINE d == call[t].diff
  <1>1. /\ call[t].at = "finalizeReject" /\ call[t].verdict = "rejected"
        /\ d \in planned /\ d \in Diff
        /\ Logged(d, "rejected") /\ Recorded(d, "rejected")
        /\ UNCHANGED <<disk, planned, calls, crashes>>
    BY DEF FinalizeReject, CallsOnTrack, OnTrack, TypeOK
  <1>2. Leaves(t)
    BY ReturnLeaves DEF FinalizeReject
  <1>3. CASE UNCHANGED <<pending, answer>>
    BY <1>1, <1>2, <1>3, GivingUp
  <1>4. CASE /\ d \in pending /\ pending' = pending \ {d}
             /\ answer' = [answer EXCEPT ![d] = "rejected"]
    <2>1. \A u \in Thread : ~Holds(u, "accepted")
      BY <1>1 DEF LockExcludes, Holds
    <2>2. \A u \in Thread : call[u].at \notin {"commit", "finalizeAccept"}
      BY <2>1 DEF CallsOnTrack, OnTrack, Holds
    <2>3. applied[d] = 0
      <3>1. applied[d] \in Nat
        BY <1>1 DEF TypeOK
      <3>2. ~(applied[d] > 0)
        BY <1>1, <1>4, <2>2 DEF PendingNotApplied
      <3> QED
        BY <3>1, <3>2
    <2>4. /\ answer' \in [Diff -> Verdict \cup {"none"}] /\ answer'[d] = "rejected"
          /\ \A e \in Diff \ {d} : answer'[e] = answer[e]
      BY <1>1, <1>4 DEF TypeOK, Verdict
    <2>5. TypeOK'
      BY <1>1, <1>2, <1>4, <2>4 DEF TypeOK, Leaves, Call
    <2>6. LockExcludes'
      BY <1>2, LockKept
    <2>7. CallsOnTrack'
      <3> SUFFICES ASSUME NEW u \in Thread PROVE OnTrack(u)'
        BY DEF CallsOnTrack
      <3>1. CASE u = t
        BY <1>2, <3>1 DEF OnTrack, Leaves
      <3>2. CASE u # t
        <4>1. OnTrack(u) /\ call'[u] = call[u]
          BY <1>2, <3>2 DEF CallsOnTrack, Leaves
        <4> QED
          BY <1>1, <2>1, <4>1, OthersOnTrack DEF Logged, Recorded
      <3> QED
        BY <3>1, <3>2
    <2>8. PendingNotApplied'
      BY <1>1, <1>2, <1>4, <2>2, <2>4 DEF PendingNotApplied, Leaves, TypeOK
    <2>9. AppliedAtMostOnce' /\ AnswersAreTrue' /\ RejectionRecorded'
      BY <1>1, <2>3, <2>4
         DEF AppliedAtMostOnce, AnswersAreTrue, RejectionRecorded, Logged, Recorded
    <2> QED
      BY <2>5, <2>6, <2>7, <2>8, <2>9
  <1> QED
    BY <1>3, <1>4 DEF FinalizeReject

LEMMA CrashReview ==
    ASSUME ReviewAssumption, ReviewInvariant, Crash
    PROVE  ReviewInvariant'
  <1> USE DEF ReviewInvariant, Crash, disk
  <1>1. Idle \in Call /\ Idle.at = "idle"
    BY DEF Call, Idle, Labels, Verdict, Genesis
  <1>2. call' \in [Thread -> Call] /\ \A t \in Thread : call'[t].at = "idle"
    BY <1>1
  <1>3. TypeOK'
    BY <1>2 DEF TypeOK, Call
  <1>4. LockExcludes' /\ CallsOnTrack'
    BY <1>2 DEF LockExcludes, Holds, CallsOnTrack, OnTrack
  <1>5. PendingNotApplied'
    BY DEF PendingNotApplied
  <1>6. AppliedAtMostOnce' /\ AnswersAreTrue' /\ RejectionRecorded'
    BY DEF AppliedAtMostOnce, AnswersAreTrue, RejectionRecorded, Logged, Recorded
  <1> QED
    BY <1>3, <1>4, <1>5, <1>6

-----------------------------------------------------------------------------
LEMMA NextReview ==
    ASSUME ReviewAssumption, ReviewInvariant, [Next]_vars
    PROVE  ReviewInvariant'
  <1>1. CASE UNCHANGED vars
    BY <1>1 DEF vars, disk, ReviewInvariant, TypeOK, LockExcludes, Holds,
                CallsOnTrack, OnTrack, PendingNotApplied, AppliedAtMostOnce,
                AnswersAreTrue, RejectionRecorded, Logged, Recorded
  <1>2. CASE \E d \in Diff : Plan(d)
    BY <1>2, PlanReview
  <1>3. ASSUME NEW t \in Thread, Step(t) PROVE ReviewInvariant'
    BY <1>3, StartReview, CommitReview, FinalizeAcceptReview, OpenLogReview,
       WriteLineReview, WriteNewlineReview, WriteRecordReview,
       FinalizeRejectReview DEF Step
  <1>4. CASE Crash
    BY <1>4, CrashReview
  <1> QED
    BY <1>1, <1>2, <1>3, <1>4 DEF Next

(* The inductive invariant of the review: the types, the exclusion that    *)
(* the bridge's RwLock gives, and what every call has done by each of its  *)
(* steps (ai_accept_diff_commit, ai_reject_diff_inner).                    *)
THEOREM ReviewIsInvariant == Spec => []ReviewInvariant
  <1>1. Init => ReviewInvariant
    BY InitReview, ReviewAssumption
  <1>2. ReviewInvariant /\ [Next]_vars => ReviewInvariant'
    BY NextReview, ReviewAssumption
  <1> QED
    BY <1>1, <1>2, PTL DEF Spec

(* However often an accept is retried after a failed audit append or a     *)
(* crash, the operations of a proposal are committed once.                 *)
THEOREM NeverAppliedTwice == Spec => []AppliedAtMostOnce
  <1>1. ReviewInvariant => AppliedAtMostOnce
    BY DEF ReviewInvariant
  <1> QED
    BY <1>1, ReviewIsInvariant, PTL

(* An accept and a reject of one proposal never both succeed, and what     *)
(* they tell the user is what the project holds.                           *)
THEOREM AnswersHold == Spec => []AnswersAreTrue
  <1>1. ReviewInvariant => AnswersAreTrue
    BY DEF ReviewInvariant
  <1> QED
    BY <1>1, ReviewIsInvariant, PTL

(* A confirmed rejection is in both audit files, whatever I/O failed.      *)
THEOREM RejectionsAreRecorded == Spec => []RejectionRecorded
  <1>1. ReviewInvariant => RejectionRecorded
    BY DEF ReviewInvariant
  <1> QED
    BY <1>1, ReviewIsInvariant, PTL

-----------------------------------------------------------------------------
(* The refinement.                                                         *)

Status == [d \in Diff |-> StatusOf(d)]

\* A proposal that nothing is said of keeps its status.
LEMMA SameStatus ==
    ASSUME NEW d \in Diff,
           applied'[d] = applied[d], answer'[d] = answer[d],
           d \in pending' <=> d \in pending, d \in planned' <=> d \in planned
    PROVE  StatusOf(d)' = StatusOf(d)
  BY DEF StatusOf

\* One proposal is decided, the others keep their status.
LEMMA DecidedStatus ==
    ASSUME NEW d \in Diff, NEW from, NEW to,
           StatusOf(d) = from, StatusOf(d)' = to,
           \A e \in Diff \ {d} : StatusOf(e)' = StatusOf(e)
    PROVE  Lifecycle!Becomes(d, {from}, to)
  BY DEF Lifecycle!Becomes

LEMMA StepImplements ==
    ASSUME ReviewAssumption, ReviewInvariant, [Next]_vars
    PROVE  [Lifecycle!LifecycleNext]_Status
  <1> USE DEF ReviewInvariant
  <1>1. CASE UNCHANGED <<pending, applied, planned, answer>>
    BY <1>1 DEF Status, StatusOf
  <1>2. ASSUME NEW d \in Diff, Plan(d) PROVE Lifecycle!Propose(d)
    <2>1. /\ d \notin planned /\ d \notin pending
          /\ planned' = planned \cup {d} /\ pending' = pending \cup {d}
          /\ applied' = applied /\ answer' = answer
      BY <1>2 DEF Plan, disk, TypeOK
    <2>2. applied[d] = 0 /\ answer[d] = "none"
      BY <2>1 DEF PendingNotApplied
    <2>3. StatusOf(d) = "unknown" /\ StatusOf(d)' = "pending"
      BY <2>1, <2>2 DEF StatusOf
    <2>4. \A e \in Diff \ {d} : StatusOf(e)' = StatusOf(e)
      BY <2>1, SameStatus
    <2> QED
      BY <2>3, <2>4, DecidedStatus DEF Lifecycle!Propose
  <1>3. ASSUME NEW t \in Thread, Commit(t), applied' # applied
        PROVE  \E d \in Diff : Lifecycle!Accept(d)
    <2>1. PICK d \in Diff : d = call[t].diff
      BY <1>3 DEF Commit, CallsOnTrack, OnTrack, TypeOK
    <2>2. d \in pending /\ applied[d] = 0 /\ answer[d] = "none"
      BY <1>3, <2>1 DEF Commit, CallsOnTrack, OnTrack, PendingNotApplied
    <2>3. /\ applied' = [applied EXCEPT ![d] = @ + 1]
          /\ UNCHANGED <<pending, planned, answer>>
      BY <1>3, <2>1 DEF Commit
    <2>4. applied'[d] = 1 /\ \A e \in Diff \ {d} : applied'[e] = applied[e]
      BY <2>2, <2>3 DEF TypeOK
    <2>5. StatusOf(d) = "pending" /\ StatusOf(d)' = "accepted"
      BY <2>2, <2>3, <2>4 DEF StatusOf
    <2>6. \A e \in Diff \ {d} : StatusOf(e)' = StatusOf(e)
      BY <2>3, <2>4, SameStatus
    <2> QED
      BY <2>5, <2>6, DecidedStatus DEF Lifecycle!Accept
  <1>4. ASSUME NEW t \in Thread, FinalizeAccept(t) PROVE Status' = Status
    <2>1. PICK d \in Diff : d = call[t].diff
      BY <1>4 DEF FinalizeAccept, CallsOnTrack, OnTrack, TypeOK
    <2>2. /\ applied[d] = 1 /\ UNCHANGED <<applied, planned, answer>>
          /\ \A e \in Diff \ {d} : e \in pending' <=> e \in pending
      BY <1>4, <2>1 DEF FinalizeAccept, disk, CallsOnTrack, OnTrack
    <2>3. StatusOf(d) = "accepted" /\ StatusOf(d)' = "accepted"
      BY <2>2 DEF StatusOf
    <2>4. \A e \in Diff \ {d} : StatusOf(e)' = StatusOf(e)
      BY <2>2, SameStatus
    <2> QED
      BY <2>3, <2>4 DEF Status
  <1>5. ASSUME NEW t \in Thread, WriteRecord(t) PROVE Status' = Status
    <2>1. CASE answer' = answer
      BY <1>5, <2>1, <1>1 DEF WriteRecord, Fails, disk, Status, StatusOf
    <2>2. CASE answer' # answer
      <3>1. PICK d \in Diff : d = call[t].diff
        BY <1>5 DEF WriteRecord, CallsOnTrack, OnTrack, TypeOK
      <3>2. /\ applied[d] = 1 /\ UNCHANGED <<applied, planned, pending>>
            /\ \A e \in Diff \ {d} : answer'[e] = answer[e]
        BY <1>5, <2>2, <3>1 DEF WriteRecord, Fails, CallsOnTrack, OnTrack, TypeOK
      <3>3. StatusOf(d) = "accepted" /\ StatusOf(d)' = "accepted"
        BY <3>2 DEF StatusOf
      <3>4. \A e \in Diff \ {d} : StatusOf(e)' = StatusOf(e)
        BY <3>2, SameStatus
      <3> QED
        BY <3>3, <3>4 DEF Status
    <2> QED
      BY <2>1, <2>2
  <1>6. ASSUME NEW t \in Thread, FinalizeReject(t), pending' # pending
        PROVE  \E d \in Diff : Lifecycle!Reject(d)
    <2>1. PICK d \in Diff : d = call[t].diff
      BY <1>6 DEF FinalizeReject, CallsOnTrack, OnTrack, TypeOK
    <2>2. /\ d \in pending /\ pending' = pending \ {d} /\ UNCHANGED <<applied, planned>>
          /\ answer' = [answer EXCEPT ![d] = "rejected"]
          /\ Holds(t, "rejected")
      BY <1>6, <2>1 DEF FinalizeReject, disk, CallsOnTrack, OnTrack, Holds
    <2>3. \A u \in Thread : call[u].at # "finalizeAccept"
      BY <2>2 DEF LockExcludes, CallsOnTrack, OnTrack, Holds
    <2>4. applied[d] = 0 /\ answer[d] = "none"
      <3>1. applied[d] \in Nat
        BY DEF TypeOK
      <3>2. ~(applied[d] > 0) /\ answer[d] = "none"
        BY <2>2, <2>3 DEF PendingNotApplied
      <3> QED
        BY <3>1, <3>2
    <2>5. answer'[d] = "rejected" /\ \A e \in Diff \ {d} : answer'[e] = answer[e]
      BY <2>2 DEF TypeOK
    <2>6. StatusOf(d) = "pending" /\ StatusOf(d)' = "rejected"
      BY <2>2, <2>4, <2>5 DEF StatusOf
    <2>7. \A e \in Diff \ {d} : StatusOf(e)' = StatusOf(e)
      BY <2>2, <2>5, SameStatus
    <2> QED
      BY <2>6, <2>7, DecidedStatus DEF Lifecycle!Reject
  <1>7. ASSUME Crash PROVE Lifecycle!Lose
    <2>1. pending' = {} /\ UNCHANGED <<applied, planned, answer>> /\ pending \subseteq planned
      BY <1>7 DEF Crash, disk, TypeOK
    <2>2. ASSUME NEW d \in Diff
          PROVE  StatusOf(d)' = IF StatusOf(d) = "pending" THEN "lost" ELSE StatusOf(d)
      BY <2>1 DEF StatusOf
    <2> QED
      BY <2>2 DEF Lifecycle!Lose
  <1>8. ASSUME NEW t \in Thread, Step(t)
        PROVE  \/ UNCHANGED <<pending, applied, planned, answer>>
               \/ Commit(t) /\ applied' # applied
               \/ FinalizeAccept(t) \/ WriteRecord(t)
               \/ FinalizeReject(t) /\ pending' # pending
    <2>1. CASE \E d \in Diff : StartAccept(t, d) \/ StartReject(t, d)
      BY <2>1 DEF StartAccept, StartReject, Start, disk
    <2>2. CASE Commit(t)
      BY <2>2 DEF Commit
    <2>3. CASE OpenLog(t) \/ WriteLine(t) \/ WriteNewline(t)
      BY <2>3 DEF OpenLog, WriteLine, WriteNewline, Fails, disk
    <2>4. CASE FinalizeReject(t)
      BY <2>4 DEF FinalizeReject, disk
    <2> QED
      BY <1>8, <2>1, <2>2, <2>3, <2>4 DEF Step
  <1>9. CASE UNCHANGED vars
    BY <1>1, <1>9 DEF vars, disk
  <1> QED
    BY <1>1, <1>2, <1>3, <1>4, <1>5, <1>6, <1>7, <1>8, <1>9
       DEF Next, Lifecycle!LifecycleNext

(* The review of proposals implements their lifecycle: ai_accept_diff and  *)
(* ai_reject_diff decide a proposal once and never take it back.           *)
THEOREM ReviewImplementsLifecycle == Spec => ImplementsLifecycle
  <1>1. Init => Lifecycle!LifecycleInit
    <2> SUFFICES ASSUME Init PROVE Lifecycle!LifecycleInit
      OBVIOUS
    <2>1. \A d \in Diff : StatusOf(d) = "unknown"
      BY DEF Init, StatusOf
    <2> QED
      BY <2>1 DEF Lifecycle!LifecycleInit
  <1>2. ReviewInvariant /\ [Next]_vars => [Lifecycle!LifecycleNext]_Status
    BY StepImplements, ReviewAssumption
  <1> QED
    BY <1>1, <1>2, ReviewIsInvariant, PTL
       DEF Spec, ImplementsLifecycle, Lifecycle!LifecycleSpec, Status

-----------------------------------------------------------------------------
(* The audit files as long as nothing disturbs them.                       *)

\* An entry and its newline take turns; the last newline may be due.
Alternates(file, q) ==
    /\ Len(file) \in {2 * q - 1, 2 * q}
    /\ \A k \in 1 .. q : IsEntry(file[2 * k - 1])
    /\ \A k \in 1 .. q : 2 * k <= Len(file) => file[2 * k] = EOL

\* The head after k entries.
HeadAfter(file, k) == IF k = 0 THEN Genesis ELSE file[2 * k - 1].hash

Chained(file, q) == \A k \in 1 .. q : file[2 * k - 1].prev = HeadAfter(file, k - 1)

Event(e) == [diff |-> e.diff, status |-> e.status]

\* The companion file tells the events of the log, but for one that is still to be told.
Tells(rs, file, q) ==
    /\ Len(rs) \in {q - 1, q}
    /\ \A k \in 1 .. Len(rs) : rs[k] = Event(file[2 * k - 1])

\* What the thread that appends has written, of the entry that is its own.
AppendsAlone(t, q) ==
    /\ \A u \in Thread : Appending(u) => u = t
    /\ \/ /\ call[t].at = "line" /\ call[t].head = HeadAfter(log, q)
          /\ Len(log) = 2 * q /\ Len(records) = q
       \/ /\ call[t].at \in {"newline", "record"} /\ q > 0
          /\ Event(log[2 * q - 1]) = [diff |-> call[t].diff, status |-> call[t].verdict]
          /\ Len(log) = (IF call[t].at = "newline" THEN 2 * q - 1 ELSE 2 * q)
          /\ Len(records) = q - 1

\* After q events, in files that nothing has disturbed.
InStep(q) ==
    /\ Alternates(log, q) /\ Chained(log, q) /\ Tells(records, log, q)
    /\ (\A t \in Thread : ~Appending(t)) => Len(log) = 2 * q /\ Len(records) = q
    /\ \A t \in Thread : Appending(t) => AppendsAlone(t, q)

\* Every number is odd or even.
LEMMA OddOrEven ==
    ASSUME NEW i \in Nat \ {0}
    PROVE  \E k \in Nat \ {0} : i = 2 * k - 1 \/ i = 2 * k
  <1> DEFINE Fine(n) == \E k \in Nat \ {0} : n = 2 * k - 1 \/ n = 2 * k
             R == {p \in Nat \X Nat : p[1] < p[2]}
  <1>1. IsWellFoundedOn(R, Nat)
    BY NatLessThanWellFounded DEF OpToRel
  <1>2. PICK T : T = {n \in Nat \ {0} : ~Fine(n)}
    OBVIOUS
  <1>3. ASSUME T # {} PROVE FALSE
    <2>1. T \subseteq Nat
      BY <1>2
    <2>2. PICK n \in T : \A m \in T : ~(<<m, n>> \in R)
      BY <1>1, <1>3, <2>1, WFMin
    <2>3. n \in Nat \ {0} /\ ~Fine(n)
      BY <1>2, <2>2
    <2>4. CASE n = 1
      <3>1. 1 \in Nat \ {0} /\ n = 2 * 1 - 1
        BY <2>4
      <3> QED
        BY <2>3, <3>1
    <2>5. CASE n = 2
      <3>1. 1 \in Nat \ {0} /\ n = 2 * 1
        BY <2>5
      <3> QED
        BY <2>3, <3>1
    <2>6. CASE n # 1 /\ n # 2
      <3>1. n - 2 \in Nat \ {0} /\ n - 2 < n
        BY <2>3, <2>6
      <3>2. <<n - 2, n>> \in R
        BY <2>3, <3>1
      <3>3. n - 2 \notin T
        BY <2>2, <3>2
      <3>4. PICK k \in Nat \ {0} : n - 2 = 2 * k - 1 \/ n - 2 = 2 * k
        BY <1>2, <3>1, <3>3
      <3>5. k + 1 \in Nat \ {0} /\ (n = 2 * (k + 1) - 1 \/ n = 2 * (k + 1))
        BY <2>3, <3>4
      <3> QED
        BY <2>3, <3>5
    <2> QED
      BY <2>4, <2>5, <2>6
  <1> QED
    BY <1>2, <1>3

\* Where the tokens of such a file are.
LEMMA Positions ==
    ASSUME NEW file \in Seq(Token), NEW q \in Nat, Alternates(file, q),
           NEW i \in DOMAIN file
    PROVE  \E k \in 1 .. q : i = 2 * k - 1 \/ (i = 2 * k /\ file[i] = EOL)
  <1>1. PICK n \in Nat : n = Len(file) /\ DOMAIN file = 1 .. n
    BY LenProperties
  <1>2. i \in Nat \ {0} /\ i <= n
    BY <1>1
  <1>3. n <= 2 * q /\ \A k \in 1 .. q : 2 * k <= n => file[2 * k] = EOL
    BY <1>1 DEF Alternates
  <1>4. PICK k \in Nat \ {0} : i = 2 * k - 1 \/ i = 2 * k
    BY <1>2, OddOrEven
  <1>5. k \in 1 .. q
    BY <1>1, <1>2, <1>3, <1>4
  <1> QED
    BY <1>2, <1>3, <1>4, <1>5

\* Entries are at the odd positions, and an entry is no newline.
LEMMA EntryPositions ==
    ASSUME ReviewAssumption, NEW file \in Seq(Token), NEW q \in Nat, Alternates(file, q)
    PROVE  /\ \A k \in 1 .. q : 2 * k - 1 \in DOMAIN file /\ IsEntry(file[2 * k - 1])
           /\ \A i \in DOMAIN file : IsEntry(file[i]) => \E k \in 1 .. q : i = 2 * k - 1
  <1>1. PICK n \in Nat : n = Len(file) /\ DOMAIN file = 1 .. n
    BY LenProperties
  <1>2. n \in {2 * q - 1, 2 * q}
    BY <1>1 DEF Alternates
  <1>3. \A k \in 1 .. q : 2 * k - 1 \in 1 .. n
    BY <1>1, <1>2
  <1>4. \A k \in 1 .. q : IsEntry(file[2 * k - 1])
    BY DEF Alternates
  <1>5. ASSUME NEW i \in DOMAIN file, IsEntry(file[i]) PROVE \E k \in 1 .. q : i = 2 * k - 1
    <2>1. PICK k \in 1 .. q : i = 2 * k - 1 \/ (i = 2 * k /\ file[i] = EOL)
      BY Positions
    <2>2. file[i] # EOL
      BY <1>5 DEF IsEntry
    <2> QED
      BY <2>1, <2>2
  <1> QED
    BY <1>1, <1>3, <1>4, <1>5

\* AuditLog.head: the hash of the last entry.
LEMMA HeadsAre ==
    ASSUME ReviewAssumption, NEW file \in Seq(Token), NEW q \in Nat, Alternates(file, q)
    PROVE  Heads(file) = {HeadAfter(file, q)}
  <1>1. /\ \A k \in 1 .. q : 2 * k - 1 \in DOMAIN file /\ IsEntry(file[2 * k - 1])
        /\ \A i \in DOMAIN file : IsEntry(file[i]) => \E k \in 1 .. q : i = 2 * k - 1
    BY EntryPositions
  <1>2. PICK last : last = {i \in DOMAIN file :
                               /\ IsEntry(file[i])
                               /\ \A j \in DOMAIN file : j > i => ~IsEntry(file[j])}
    OBVIOUS
  <1>3. Heads(file) = IF last = {} THEN {Genesis} ELSE {file[i].hash : i \in last}
    BY <1>2 DEF Heads
  <1>4. CASE q = 0
    <2>1. last = {}
      BY <1>1, <1>2, <1>4
    <2> QED
      BY <1>3, <1>4, <2>1 DEF HeadAfter
  <1>5. CASE q # 0
    <2>1. PICK p : p = 2 * q - 1
      OBVIOUS
    <2>2. p \in DOMAIN file /\ IsEntry(file[p])
      BY <1>1, <1>5, <2>1
    <2>3. ASSUME NEW j \in DOMAIN file, IsEntry(file[j]), j > p PROVE FALSE
      BY <1>1, <2>1, <2>3
    <2>4. p \in last
      BY <1>2, <2>2, <2>3
    <2>5. ASSUME NEW i \in last PROVE i = p
      <3>1. i \in DOMAIN file /\ IsEntry(file[i]) /\ ~(p > i)
        BY <1>2, <2>2
      <3>2. PICK k \in 1 .. q : i = 2 * k - 1
        BY <1>1, <3>1
      <3> QED
        BY <2>1, <3>1, <3>2
    <2>6. last = {p}
      BY <2>4, <2>5
    <2> QED
      BY <1>3, <1>5, <2>1, <2>6 DEF HeadAfter
  <1> QED
    BY <1>4, <1>5

\* AuditLog::open accepts the file.
LEMMA ChainOpens ==
    ASSUME ReviewAssumption, NEW file \in Seq(Token), NEW q \in Nat,
           Alternates(file, q), Chained(file, q)
    PROVE  Opens(file)
  <1>1. PICK n \in Nat : n = Len(file) /\ DOMAIN file = 1 .. n
    BY LenProperties
  <1>2. /\ n \in {2 * q - 1, 2 * q}
        /\ \A k \in 1 .. q : IsEntry(file[2 * k - 1])
        /\ \A k \in 1 .. q : 2 * k <= n => file[2 * k] = EOL
    BY <1>1 DEF Alternates
  <1>3. ASSUME NEW i \in DOMAIN file
        PROVE  /\ file[i] # Torn
               /\ IsEntry(file[i]) /\ i > 1 => file[i - 1] = EOL
    <2>1. PICK k \in 1 .. q : i = 2 * k - 1 \/ (i = 2 * k /\ file[i] = EOL)
      BY Positions
    <2>2. CASE i = 2 * k
      BY <2>1, <2>2, ReviewAssumption DEF IsEntry
    <2>3. CASE i = 2 * k - 1
      <3>1. file[i] # Torn
        BY <1>2, <2>3 DEF IsEntry
      <3>2. ASSUME i > 1 PROVE file[i - 1] = EOL
        <4>1. PICK l \in 1 .. q : l = k - 1 /\ i - 1 = 2 * l
          <5>1. k - 1 \in 1 .. q /\ i - 1 = 2 * (k - 1)
            BY <2>1, <2>3, <3>2
          <5> QED
            BY <5>1
        <4>2. 2 * l <= n
          BY <1>1, <4>1
        <4> QED
          BY <1>2, <4>1, <4>2
      <3> QED
        BY <3>1, <3>2
    <2> QED
      BY <2>1, <2>2, <2>3
  <1>4. ASSUME NEW i \in DOMAIN file, IsEntry(file[i])
        PROVE  file[i].prev \in Heads(SubSeq(file, 1, i - 1))
    <2>1. PICK k \in 1 .. q : i = 2 * k - 1
      BY <1>4, EntryPositions
    <2>2. PICK l \in Nat : l = k - 1
      <3>1. k - 1 \in Nat
        BY <2>1
      <3> QED
        BY <3>1
    <2>3. i - 1 = 2 * l /\ 2 * l \in 0 .. n
      BY <1>1, <2>1, <2>2
    <2>4. PICK before : before = SubSeq(file, 1, 2 * l)
      OBVIOUS
    <2>5. /\ before \in Seq(Token) /\ Len(before) = 2 * l
          /\ \A j \in 1 .. 2 * l : before[j] = file[j]
      <3>1. 1 \in Int /\ 2 * l \in Int /\ \A j \in 1 .. 2 * l : file[j] \in Token
        <4>1. \A j \in 1 .. n : file[j] \in Token
          BY <1>1, ElementOfSeq
        <4> QED
          BY <2>3, <4>1
      <3>2. /\ before \in Seq(Token)
            /\ Len(before) = IF 1 <= 2 * l THEN 2 * l - 1 + 1 ELSE 0
            /\ \A j \in 1 .. 2 * l - 1 + 1 : before[j] = file[1 + j - 1]
        BY <2>4, <3>1, SubSeqProperties
      <3>3. (IF 1 <= 2 * l THEN 2 * l - 1 + 1 ELSE 0) = 2 * l /\ 2 * l - 1 + 1 = 2 * l
        BY <2>2
      <3>4. \A j \in 1 .. 2 * l : 1 + j - 1 = j
        BY <2>2
      <3> QED
        BY <3>2, <3>3, <3>4
    <2>6. \A j \in 1 .. l : /\ j \in 1 .. q /\ 2 * j <= n
                            /\ 2 * j - 1 \in 1 .. 2 * l /\ 2 * j \in 1 .. 2 * l
      BY <2>1, <2>2, <2>3
    <2>7. Alternates(before, l)
      BY <1>2, <2>2, <2>5, <2>6 DEF Alternates
    <2>8. Heads(before) = {HeadAfter(before, l)}
      BY <2>2, <2>5, <2>7, HeadsAre
    <2>9. HeadAfter(before, l) = HeadAfter(file, l)
      <3>1. l # 0 => l \in 1 .. l
        BY <2>2
      <3> QED
        BY <2>5, <2>6, <3>1 DEF HeadAfter
    <2>10. file[i].prev = HeadAfter(file, l)
      BY <2>1, <2>2 DEF Chained
    <2> QED
      BY <2>3, <2>4, <2>8, <2>9, <2>10
  <1> QED
    BY <1>3, <1>4 DEF Opens, Parses, Linked

\* The entries among the first tokens: every other one of them.
LEMMA EntriesAre ==
    ASSUME ReviewAssumption, NEW file \in Seq(Token), NEW q \in Nat, Alternates(file, q)
    PROVE  Len(Entries(file)) = q /\ \A k \in 1 .. q : Entries(file)[k] = file[2 * k - 1]
  <1>1. PICK n \in Nat : n = Len(file) /\ DOMAIN file = 1 .. n
    BY LenProperties
  <1>2. /\ \A k \in 1 .. q : 2 * k - 1 \in 1 .. n /\ IsEntry(file[2 * k - 1])
        /\ \A i \in 1 .. n : IsEntry(file[i]) => \E k \in 1 .. q : i = 2 * k - 1
    <2>1. /\ \A k \in 1 .. q : 2 * k - 1 \in DOMAIN file /\ IsEntry(file[2 * k - 1])
          /\ \A i \in DOMAIN file : IsEntry(file[i]) => \E k \in 1 .. q : i = 2 * k - 1
      BY EntryPositions
    <2> QED
      BY <1>1, <2>1
  <1> DEFINE First(m) == [k \in 1 .. m |-> file[2 * k - 1]]
  <1>3. \A m \in 0 .. q : First(m) \in Seq(Token) /\ Len(First(m)) = m
    <2>1. ASSUME NEW m \in 0 .. q PROVE First(m) \in Seq(Token) /\ Len(First(m)) = m
      <3>1. m \in Nat /\ \A k \in 1 .. m : k \in 1 .. q
        BY <2>1
      <3>2. \A k \in 1 .. m : file[2 * k - 1] \in Token
        BY <1>1, <1>2, <3>1, ElementOfSeq
      <3>3. First(m) \in [1 .. m -> Token]
        BY <3>2
      <3> HIDE DEF First
      <3> QED
        BY <3>1, <3>3, IsASeq, LenProperties
    <2> QED
      BY <2>1
  <1>4. ASSUME NEW m \in 1 .. q PROVE First(m) = Append(First(m - 1), file[2 * m - 1])
    <2>1. m \in 0 .. q /\ m - 1 \in 0 .. q /\ m - 1 + 1 = m
      BY <1>4
    <2>2. PICK p : p = First(m - 1)
      OBVIOUS
    <2>3. p \in Seq(Token) /\ Len(p) = m - 1
      BY <1>3, <2>1, <2>2
    <2>4. PICK e \in Token : e = file[2 * m - 1]
      <3>1. file[2 * m - 1] \in Token
        BY <1>1, <1>2, ElementOfSeq
      <3> QED
        BY <3>1
    <2>5. PICK r : r = Append(p, e)
      OBVIOUS
    <2>6. /\ r \in Seq(Token) /\ Len(r) = m
          /\ \A k \in 1 .. m - 1 : r[k] = p[k]
          /\ r[m] = e
      BY <2>1, <2>3, <2>4, <2>5, AppendProperties
    <2>7. DOMAIN r = 1 .. m
      BY <2>6, LenProperties
    <2>8. \A k \in 1 .. m : r[k] = file[2 * k - 1]
      <3>1. ASSUME NEW k \in 1 .. m PROVE k = m \/ k \in 1 .. m - 1
        BY <1>4
      <3> QED
        BY <2>2, <2>4, <2>6, <3>1
    <2>9. r = [k \in 1 .. m |-> r[k]]
      BY <2>6, <2>7
    <2> QED
      BY <2>2, <2>4, <2>5, <2>8, <2>9
  <1> HIDE DEF First
  <1>5. PICK half : half = [i \in 0 .. n |-> CHOOSE m \in 0 .. q : i = 2 * m - 1 \/ i = 2 * m]
    OBVIOUS
  <1>6. ASSUME NEW i \in 0 .. n
        PROVE  half[i] \in 0 .. q /\ (i = 2 * half[i] - 1 \/ i = 2 * half[i])
    <2>1. \E m \in 0 .. q : i = 2 * m - 1 \/ i = 2 * m
      <3>1. CASE i = 0
        <4>1. 0 \in 0 .. q /\ i = 2 * 0
          BY <3>1
        <4> QED
          BY <4>1
      <3>2. CASE i # 0
        <4>1. i \in DOMAIN file
          BY <1>1, <3>2
        <4>2. PICK k \in 1 .. q : i = 2 * k - 1 \/ (i = 2 * k /\ file[i] = EOL)
          BY <4>1, Positions
        <4>3. k \in 0 .. q /\ (i = 2 * k - 1 \/ i = 2 * k)
          BY <4>2
        <4> QED
          BY <4>3
      <3> QED
        BY <3>1, <3>2
    <2> QED
      BY <1>5, <2>1
  <1>7. PICK f : f = [i \in 0 .. n |-> First(half[i])]
    OBVIOUS
  <1>8. First(0) = <<>>
    BY DEF First
  <1>9. ASSUME NEW i \in 0 .. n
        PROVE  f[i] = IF i = 0 THEN <<>>
                          ELSE IF IsEntry(file[i]) THEN Append(f[i - 1], file[i])
                          ELSE f[i - 1]
    <2>1. PICK m \in 0 .. q : m = half[i] /\ (i = 2 * m - 1 \/ i = 2 * m)
      BY <1>6
    <2>2. CASE i = 0
      <3>1. m = 0
        BY <2>1, <2>2
      <3> QED
        BY <1>7, <1>8, <2>1, <2>2, <3>1
    <2>3. CASE i # 0
      <3>1. i \in 1 .. n /\ i - 1 \in 0 .. n
        BY <1>1, <2>3
      <3>2. PICK l \in 0 .. q : l = half[i - 1] /\ (i - 1 = 2 * l - 1 \/ i - 1 = 2 * l)
        BY <1>6, <3>1
      <3>3. f[i] = First(m) /\ f[i - 1] = First(l)
        BY <1>7, <2>1, <3>1, <3>2
      <3>4. CASE IsEntry(file[i])
        <4>1. PICK k \in 1 .. q : i = 2 * k - 1
          BY <1>2, <3>1, <3>4
        <4>2. /\ i \in Int /\ m \in Int /\ l \in Int
              /\ i = 2 * m - 1 \/ i = 2 * m
              /\ i - 1 = 2 * l - 1 \/ i - 1 = 2 * l
          BY <1>1, <2>1, <3>2
        <4>3. m = k /\ l = m - 1
          BY ONLY <4>1, <4>2
        <4>4. m \in 1 .. q /\ i = 2 * m - 1
          BY <4>1, <4>3
        <4> QED
          BY <1>4, <2>3, <3>3, <3>4, <4>3, <4>4
      <3>5. CASE ~IsEntry(file[i])
        <4>1. i # 2 * m - 1
          <5>1. i \in Int /\ m \in 0 .. q /\ i > 0
            BY <1>1, <2>1, <3>1
          <5>2. i = 2 * m - 1 => m \in 1 .. q
            BY ONLY q \in Nat, <5>1
          <5> QED
            BY <1>2, <3>5, <5>2
        <4>2. /\ i \in Int /\ m \in Int /\ l \in Int
              /\ i = 2 * m
              /\ i - 1 = 2 * l - 1 \/ i - 1 = 2 * l
          BY <1>1, <2>1, <3>2, <4>1
        <4>3. l = m
          BY ONLY <4>2
        <4> QED
          BY <2>3, <3>3, <3>5, <4>3
      <3> QED
        BY <3>4, <3>5
    <2> QED
      BY <2>2, <2>3
  <1>10. EntriesUpto(file) = f
    <2>1. f = [i \in 0 .. Len(file) |-> IF i = 0 THEN <<>> ELSE Noted(f[i - 1], file[i])]
      BY <1>1, <1>7, <1>9 DEF Noted
    <2> DEFINE c == EntriesUpto(file)
    <2>2. c = [i \in 0 .. Len(file) |-> IF i = 0 THEN <<>> ELSE Noted(c[i - 1], file[i])]
      BY ONLY <2>1 DEF EntriesUpto
    <2> HIDE DEF c
    <2>3. \A i \in 0 .. n : c[i] = IF i = 0 THEN <<>> ELSE Noted(c[i - 1], file[i])
      BY <1>1, <2>2
    <2>4. c = [i \in 0 .. n |-> c[i]]
      BY <1>1, <2>2
    <2>5. \A i \in 0 .. n : f[i] = IF i = 0 THEN <<>> ELSE Noted(f[i - 1], file[i])
      BY <1>1, <2>1
    <2>6. ASSUME NEW i \in 0 .. n PROVE c[i] = f[i]
      <3> DEFINE R == {p \in Nat \X Nat : p[1] < p[2]}
      <3>1. IsWellFoundedOn(R, Nat)
        BY NatLessThanWellFounded DEF OpToRel
      <3>2. PICK T : T = {j \in 0 .. n : c[j] # f[j]}
        OBVIOUS
      <3>3. ASSUME T # {} PROVE FALSE
        <4>1. T \subseteq Nat
          BY <1>1, <3>2
        <4>2. PICK j \in T : \A k \in T : ~(<<k, j>> \in R)
          BY <3>1, <3>3, <4>1, WFMin
        <4>3. j \in 0 .. n /\ c[j] # f[j]
          BY <3>2, <4>2
        <4>4. j # 0
          BY <2>3, <2>5, <4>3
        <4>5. j - 1 \in 0 .. n /\ <<j - 1, j>> \in R
          BY <1>1, <4>3, <4>4
        <4>6. c[j - 1] = f[j - 1]
          BY <3>2, <4>2, <4>5
        <4> QED
          BY <2>3, <2>5, <4>3, <4>4, <4>6
      <3> QED
        BY <3>2, <3>3
    <2>7. f = [i \in 0 .. n |-> f[i]]
      BY <1>7
    <2>8. c = f
      BY ONLY <2>4, <2>6, <2>7
    <2> QED
      BY <2>8 DEF c
  <1>11. half[n] = q
    <2>1. n \in 0 .. n /\ n \in {2 * q - 1, 2 * q}
      BY <1>1 DEF Alternates
    <2>2. PICK m \in 0 .. q : m = half[n] /\ (n = 2 * m - 1 \/ n = 2 * m)
      BY <1>6, <2>1
    <2>3. m \in Int /\ q \in Int /\ n \in {2 * q - 1, 2 * q} /\ (n = 2 * m - 1 \/ n = 2 * m)
      BY <2>1, <2>2
    <2>4. m = q
      BY ONLY <2>3
    <2> QED
      BY <2>2, <2>4
  <1>12. Entries(file) = First(q)
    <2>1. n \in 0 .. n
      BY <1>1
    <2> QED
      BY <1>1, <1>7, <1>10, <1>11, <2>1 DEF Entries
  <1>13. q \in 0 .. q
    OBVIOUS
  <1>14. \A k \in 1 .. q : First(q)[k] = file[2 * k - 1]
    BY DEF First
  <1> QED
    BY <1>3, <1>12, <1>13, <1>14


\* One append at a time, and none that is given up.
Quiet == ~Overlapping' /\ \A t \in Thread : ~CutOff(t)

\* No step of an append: neither the files nor who appends change.
LEMMA NothingWritten ==
    ASSUME NEW q \in Nat, InStep(q), log' = log, records' = records,
           \A u \in Thread : Appending(u)' <=> Appending(u),
           \A u \in Thread : Appending(u) => call'[u] = call[u]
    PROVE  \E r \in Nat : InStep(r)'
  <1>1. Alternates(log, q)' /\ Chained(log, q)' /\ Tells(records, log, q)'
    BY DEF InStep, Alternates, Chained, HeadAfter, Tells, Event
  <1>2. (\A t \in Thread : ~Appending(t)') => Len(log') = 2 * q /\ Len(records') = q
    BY DEF InStep
  <1>3. ASSUME NEW t \in Thread, Appending(t)' PROVE AppendsAlone(t, q)'
    <2>1. AppendsAlone(t, q) /\ call'[t] = call[t]
      BY <1>3 DEF InStep
    <2>2. \A u \in Thread : Appending(u)' => u = t
      BY <2>1 DEF AppendsAlone
    <2> QED
      BY <2>1, <2>2 DEF AppendsAlone, HeadAfter, Event
  <1> QED
    BY <1>1, <1>2, <1>3 DEF InStep

\* A call that is not appending goes to a place where it does not append.
LEMMA ElsewhereInStep ==
    ASSUME TypeOK, NEW q \in Nat, InStep(q), NEW t \in Thread, ~Appending(t),
           log' = log, records' = records,
           Leaves(t) \/ \E label \in Labels \ {"line", "newline", "record"} : Moves(t, label)
    PROVE  \E r \in Nat : InStep(r)'
  <1>1. ~Appending(t)' /\ \A u \in Thread \ {t} : call'[u] = call[u]
    BY DEF Leaves, Moves, Appending
  <1>2. \A u \in Thread : Appending(u)' <=> Appending(u)
    BY <1>1 DEF Appending
  <1>3. \A u \in Thread : Appending(u) => call'[u] = call[u]
    BY <1>1
  <1> QED
    BY <1>2, <1>3, NothingWritten

\* A thread that gives up while it appends disturbs the files.
LEMMA GivesUpLoudly ==
    ASSUME TypeOK, NEW t \in Thread, Appending(t), Return(t), answer' = answer
    PROVE  ~Quiet
  <1>1. call'[t] = Idle
    BY DEF TypeOK, Return
  <1> QED
    BY <1>1 DEF Quiet, CutOff

LEMMA OpenLogInStep ==
    ASSUME ReviewAssumption, ReviewInvariant, Quiet, NEW q \in Nat, InStep(q),
           NEW t \in Thread, OpenLog(t)
    PROVE  \E r \in Nat : InStep(r)'
  <1>1. /\ TypeOK /\ call[t].at = "open" /\ ~Appending(t)
        /\ log' = log /\ records' = records
    BY DEF ReviewInvariant, OpenLog, Fails, disk, Appending
  <1>2. CASE Return(t)
    <2>1. Leaves(t)
      BY <1>1, <1>2, ReturnLeaves
    <2> QED
      BY <1>1, <2>1, ElsewhereInStep
  <1>3. CASE \E head \in Heads(log) :
               call' = [call EXCEPT ![t].at = "line", ![t].head = head]
    <2>1. Heads(log) = {HeadAfter(log, q)}
      BY <1>1, TokenTypes, HeadsAre DEF InStep
    <2>2. call' = [call EXCEPT ![t].at = "line", ![t].head = HeadAfter(log, q)]
      BY <1>3, <2>1
    <2>3. call \in [Thread -> Call]
      BY <1>1 DEF TypeOK, Call
    <2>4. /\ call'[t].at = "line" /\ call'[t].head = HeadAfter(log, q)
          /\ \A u \in Thread \ {t} : call'[u] = call[u]
      BY <2>2, <2>3 DEF Call
    <2>5. Appending(t)'
      BY <2>4 DEF Appending
    <2>6. \A u \in Thread : Appending(u)' => u = t
      BY <2>5 DEF Quiet, Overlapping, Appending
    <2>7. \A u \in Thread : ~Appending(u)
      BY <1>1, <2>4, <2>6 DEF Appending
    <2>8. Len(log) = 2 * q /\ Len(records) = q
      BY <2>7 DEF InStep
    <2>9. Alternates(log, q)' /\ Chained(log, q)' /\ Tells(records, log, q)'
      BY <1>1 DEF InStep, Alternates, Chained, HeadAfter, Tells, Event
    <2>10. AppendsAlone(t, q)'
      BY <1>1, <2>4, <2>6, <2>8 DEF AppendsAlone, HeadAfter
    <2> QED
      BY <2>5, <2>6, <2>9, <2>10 DEF InStep
  <1> QED
    BY <1>2, <1>3 DEF OpenLog, Fails

LEMMA WriteLineInStep ==
    ASSUME ReviewAssumption, ReviewInvariant, Quiet, NEW q \in Nat, InStep(q),
           NEW t \in Thread, WriteLine(t)
    PROVE  \E r \in Nat : InStep(r)'
  <1>1. /\ TypeOK /\ call[t].at = "line" /\ Appending(t) /\ answer' = answer
        /\ records' = records
    BY DEF ReviewInvariant, WriteLine, Appending
  <1>2. call[t] \in Call /\ call[t].diff \in Diff
    BY <1>1 DEF ReviewInvariant, TypeOK, CallsOnTrack, OnTrack, Call
  <1>3. PICK entry : entry = [hash |-> FreshHash, prev |-> call[t].head,
                              diff |-> call[t].diff, status |-> call[t].verdict]
    OBVIOUS
  <1>4. entry \in Token /\ IsEntry(entry) /\ entry.prev = call[t].head
        /\ entry.diff = call[t].diff /\ entry.status = call[t].verdict
    <2>1. FreshHash \in Nat \ {0}
      BY <1>1, TokenTypes
    <2>2. entry \in AuditEntry
      BY <1>2, <1>3, <2>1 DEF Call, AuditEntry
    <2> QED
      BY <1>3, <2>2 DEF Token, IsEntry, ReviewAssumption
  <1>5. log' = Append(log, entry) /\ Goto(t, "newline")
    BY <1>1, <1>3, GivesUpLoudly DEF WriteLine
  <1>6. /\ \A u \in Thread : Appending(u) => u = t
        /\ call[t].head = HeadAfter(log, q) /\ Len(log) = 2 * q /\ Len(records) = q
    BY <1>1 DEF InStep, AppendsAlone
  <1>7. /\ \A i \in 1 .. 2 * q : log'[i] = log[i]
        /\ log'[2 * q + 1] = entry /\ Len(log') = 2 * q + 1
    <2>1. log \in Seq(Token)
      BY <1>1, TokenTypes
    <2> QED
      BY <1>4, <1>5, <1>6, <2>1, AppendProperties
  <1>8. PICK r \in Nat : r = q + 1
    OBVIOUS
  <1>9. /\ \A k \in 1 .. r : k \in 1 .. q \/ k = r
        /\ \A k \in 1 .. q : k \in 1 .. r /\ 2 * k - 1 \in 1 .. 2 * q /\ 2 * k \in 1 .. 2 * q
        /\ 2 * r - 1 = 2 * q + 1 /\ r - 1 = q /\ r > 0
    BY <1>8
  <1>10. HeadAfter(log', q) = HeadAfter(log, q)
         /\ \A k \in 1 .. q : HeadAfter(log', k - 1) = HeadAfter(log, k - 1)
    <2>1. \A k \in 0 .. q : k # 0 => 2 * k - 1 \in 1 .. 2 * q
      OBVIOUS
    <2>2. \A k \in 0 .. q : HeadAfter(log', k) = HeadAfter(log, k)
      BY <1>7, <2>1 DEF HeadAfter
    <2>3. q \in 0 .. q /\ \A k \in 1 .. q : k - 1 \in 0 .. q
      OBVIOUS
    <2> QED
      BY <2>2, <2>3
  <1>11. Alternates(log', r)
    <2>1. \A k \in 1 .. r : IsEntry(log'[2 * k - 1])
      BY <1>4, <1>7, <1>9 DEF InStep, Alternates
    <2>2. \A k \in 1 .. r : 2 * k <= Len(log') => log'[2 * k] = EOL
      <3>1. ASSUME NEW k \in 1 .. r, 2 * k <= 2 * q + 1 PROVE k \in 1 .. q /\ 2 * k <= 2 * q
        BY <1>8, <3>1
      <3> QED
        BY <1>6, <1>7, <1>9, <3>1 DEF InStep, Alternates
    <2> QED
      BY <1>7, <1>9, <2>1, <2>2 DEF Alternates
  <1>12. Chained(log', r)
    BY <1>4, <1>6, <1>7, <1>9, <1>10 DEF InStep, Chained
  <1>13. Tells(records', log', r)
    <2>1. \A k \in 1 .. q : records[k] = Event(log[2 * k - 1])
      BY <1>6 DEF InStep, Tells
    <2> QED
      BY <1>1, <1>6, <1>7, <1>9, <2>1 DEF Tells, Event
  <1>14. /\ call'[t].at = "newline"
         /\ call'[t].diff = call[t].diff /\ call'[t].verdict = call[t].verdict
         /\ \A u \in Thread \ {t} : call'[u] = call[u]
    BY <1>1, <1>5, GotoMoves DEF Moves, Labels
  <1>15. \A u \in Thread : Appending(u)' => u = t
    BY <1>6, <1>14 DEF Appending
  <1>16. AppendsAlone(t, r)'
    BY <1>1, <1>4, <1>6, <1>7, <1>9, <1>14, <1>15 DEF AppendsAlone, Event
  <1>17. Appending(t)'
    BY <1>14 DEF Appending
  <1> QED
    BY <1>11, <1>12, <1>13, <1>15, <1>16, <1>17 DEF InStep

LEMMA WriteNewlineInStep ==
    ASSUME ReviewAssumption, ReviewInvariant, Quiet, NEW q \in Nat, InStep(q),
           NEW t \in Thread, WriteNewline(t)
    PROVE  \E r \in Nat : InStep(r)'
  <1>1. /\ TypeOK /\ call[t].at = "newline" /\ Appending(t) /\ answer' = answer
        /\ records' = records
    BY DEF ReviewInvariant, WriteNewline, Fails, disk, Appending
  <1>2. log' = Append(log, EOL) /\ Goto(t, "record")
    BY <1>1, GivesUpLoudly DEF WriteNewline, Fails
  <1>3. /\ \A u \in Thread : Appending(u) => u = t
        /\ q > 0 /\ Len(log) = 2 * q - 1 /\ Len(records) = q - 1
        /\ Event(log[2 * q - 1]) = [diff |-> call[t].diff, status |-> call[t].verdict]
    BY <1>1 DEF InStep, AppendsAlone
  <1>4. /\ \A i \in 1 .. 2 * q - 1 : log'[i] = log[i]
        /\ log'[2 * q] = EOL /\ Len(log') = 2 * q
    <2>1. log \in Seq(Token) /\ EOL \in Token /\ 2 * q - 1 + 1 = 2 * q
      BY <1>1, TokenTypes DEF Token
    <2> QED
      BY <1>2, <1>3, <2>1, AppendProperties
  <1>5. \A k \in 1 .. q : /\ 2 * k - 1 \in 1 .. 2 * q - 1
                          /\ 2 * k \in 1 .. 2 * q - 1 \/ 2 * k = 2 * q
                          /\ k - 1 # 0 => 2 * (k - 1) - 1 \in 1 .. 2 * q - 1
    OBVIOUS
  <1>6. Alternates(log', q)
    <2>1. \A k \in 1 .. q : IsEntry(log'[2 * k - 1])
      BY <1>4, <1>5 DEF InStep, Alternates
    <2>2. \A k \in 1 .. q : log'[2 * k] = EOL
      <3>1. \A k \in 1 .. q : 2 * k <= 2 * q - 1 => log[2 * k] = EOL
        BY <1>3 DEF InStep, Alternates
      <3>2. \A k \in 1 .. q : 2 * k \in 1 .. 2 * q - 1 => 2 * k <= 2 * q - 1
        OBVIOUS
      <3> QED
        BY <1>4, <1>5, <3>1, <3>2
    <2> QED
      BY <1>4, <2>1, <2>2 DEF Alternates
  <1>7. Chained(log', q)
    <2>1. \A k \in 1 .. q : HeadAfter(log', k - 1) = HeadAfter(log, k - 1)
      BY <1>4, <1>5 DEF HeadAfter
    <2>2. \A k \in 1 .. q : log'[2 * k - 1] = log[2 * k - 1]
      BY <1>4, <1>5
    <2> QED
      BY <2>1, <2>2 DEF InStep, Chained
  <1>8. Tells(records', log', q)
    <2>1. \A k \in 1 .. q - 1 : k \in 1 .. q /\ records[k] = Event(log[2 * k - 1])
      BY <1>3 DEF InStep, Tells
    <2> QED
      BY <1>1, <1>3, <1>4, <1>5, <2>1 DEF Tells, Event
  <1>9. /\ call'[t].at = "record"
        /\ call'[t].diff = call[t].diff /\ call'[t].verdict = call[t].verdict
        /\ \A u \in Thread \ {t} : call'[u] = call[u]
    BY <1>1, <1>2, GotoMoves DEF Moves, Labels
  <1>10. \A u \in Thread : Appending(u)' => u = t
    BY <1>3, <1>9 DEF Appending
  <1>11. log'[2 * q - 1] = log[2 * q - 1]
    BY <1>3, <1>4
  <1>12. AppendsAlone(t, q)'
    BY <1>1, <1>3, <1>4, <1>9, <1>10, <1>11 DEF AppendsAlone, Event
  <1>13. Appending(t)'
    BY <1>9 DEF Appending
  <1> QED
    BY <1>6, <1>7, <1>8, <1>10, <1>12, <1>13 DEF InStep

LEMMA WriteRecordInStep ==
    ASSUME ReviewAssumption, ReviewInvariant, Quiet, NEW q \in Nat, InStep(q),
           NEW t \in Thread, WriteRecord(t)
    PROVE  \E r \in Nat : InStep(r)'
  <1>1. /\ TypeOK /\ call[t].at = "record" /\ Appending(t) /\ log' = log
    BY DEF ReviewInvariant, WriteRecord, Fails, disk, Appending
  <1>2. PICK record : record = [diff |-> call[t].diff, status |-> call[t].verdict]
    OBVIOUS
  <1>3. /\ records' = Append(records, record)
        /\ Return(t) \/ Goto(t, "finalizeReject")
    BY <1>1, <1>2, GivesUpLoudly DEF WriteRecord, Fails
  <1>4. /\ \A u \in Thread : Appending(u) => u = t
        /\ q > 0 /\ Len(log) = 2 * q /\ Len(records) = q - 1
        /\ Event(log[2 * q - 1]) = record
    BY <1>1, <1>2 DEF InStep, AppendsAlone
  <1>5. /\ \A k \in 1 .. q - 1 : records'[k] = records[k]
        /\ records'[q] = record /\ Len(records') = q
    <2>1. record \in AuditRecord
      BY <1>1, <1>2 DEF ReviewInvariant, TypeOK, CallsOnTrack, OnTrack, AuditRecord
    <2>2. records \in Seq(AuditRecord) /\ q - 1 + 1 = q
      BY <1>1, TokenTypes
    <2> QED
      BY <1>3, <1>4, <2>1, <2>2, AppendProperties
  <1>6. Tells(records', log', q)
    <2>1. \A k \in 1 .. q - 1 : records[k] = Event(log[2 * k - 1])
      BY <1>4 DEF InStep, Tells
    <2>2. \A k \in 1 .. q : k \in 1 .. q - 1 \/ k = q
      OBVIOUS
    <2> QED
      BY <1>1, <1>4, <1>5, <2>1, <2>2 DEF Tells
  <1>7. call'[t].at \in {"idle", "finalizeReject"}
        /\ \A u \in Thread \ {t} : call'[u] = call[u]
    BY <1>1, <1>3, GotoMoves, ReturnLeaves DEF Moves, Leaves, Labels
  <1>8. \A u \in Thread : ~Appending(u)'
    BY <1>4, <1>7 DEF Appending
  <1>9. Alternates(log, q)' /\ Chained(log, q)'
    BY <1>1 DEF InStep, Alternates, Chained, HeadAfter
  <1> QED
    BY <1>1, <1>4, <1>5, <1>6, <1>8, <1>9 DEF InStep

-----------------------------------------------------------------------------
LEMMA StepInStep ==
    ASSUME ReviewAssumption, ReviewInvariant, Quiet, NEW q \in Nat, InStep(q), Next
    PROVE  \E r \in Nat : InStep(r)'
  <1>1. TypeOK /\ call \in [Thread -> Call]
    BY DEF ReviewInvariant, TypeOK, Call
  <1>2. ASSUME NEW d \in Diff, Plan(d) PROVE \E r \in Nat : InStep(r)'
    BY <1>2, NothingWritten DEF Plan, disk, Appending
  <1>3. ASSUME NEW t \in Thread, NEW d \in Diff, StartAccept(t, d) \/ StartReject(t, d)
        PROVE  \E r \in Nat : InStep(r)'
    <2>1. PICK label \in {"commit", "open"}, verdict \in Verdict : Start(t, d, verdict, label)
      BY <1>3 DEF StartAccept, StartReject, Verdict
    <2>2. call[t].at = "idle" /\ call'[t].at = label /\ log' = log /\ records' = records
          /\ \A u \in Thread \ {t} : call'[u] = call[u]
      BY <1>1, <2>1 DEF Start, Idle, disk
    <2>3. \A u \in Thread : Appending(u)' <=> Appending(u)
      BY <2>2 DEF Appending
    <2>4. \A u \in Thread : Appending(u) => call'[u] = call[u]
      BY <2>2 DEF Appending
    <2> QED
      BY <2>2, <2>3, <2>4, NothingWritten
  <1>4. ASSUME NEW t \in Thread, Commit(t) \/ FinalizeAccept(t) \/ FinalizeReject(t)
        PROVE  \E r \in Nat : InStep(r)'
    <2>1. ~Appending(t) /\ log' = log /\ records' = records
      BY <1>4 DEF Commit, FinalizeAccept, FinalizeReject, disk, Appending
    <2>2. Return(t) \/ Goto(t, "finalizeAccept") \/ Goto(t, "open")
      BY <1>4 DEF Commit, FinalizeAccept, FinalizeReject
    <2>3. Leaves(t) \/ \E label \in Labels \ {"line", "newline", "record"} : Moves(t, label)
      BY <1>1, <2>2, ReturnLeaves, GotoMoves DEF Labels
    <2> QED
      BY <1>1, <2>1, <2>3, ElsewhereInStep
  <1>5. ASSUME Crash PROVE \E r \in Nat : InStep(r)'
    <2>1. /\ \A t \in Thread : call'[t] = Idle
          /\ answer' = answer /\ log' = log /\ records' = records
      BY <1>5 DEF Crash, disk
    <2>2. \A t \in Thread : ~Appending(t) /\ ~Appending(t)'
      BY <2>1 DEF Quiet, CutOff, Appending, Idle
    <2> QED
      BY <2>1, <2>2, NothingWritten
  <1> QED
    BY <1>2, <1>3, <1>4, <1>5, OpenLogInStep, WriteLineInStep, WriteNewlineInStep,
       WriteRecordInStep DEF Next, Step

\* What the log and the companion file are when nothing disturbs them.
LogInvariant == ReviewInvariant /\ (~disturbed => \E q \in Nat : InStep(q))

LEMMA InStepIsWhole ==
    ASSUME ReviewAssumption, ReviewInvariant, NEW q \in Nat, InStep(q)
    PROVE  LogOpens /\ RecordsMatchChain
  <1>1. log \in Seq(Token) /\ records \in Seq(AuditRecord)
    BY TokenTypes DEF ReviewInvariant
  <1>2. LogOpens
    BY <1>1, ChainOpens DEF InStep, LogOpens
  <1>3. ASSUME AllIdle
        PROVE  records = [i \in 1 .. Len(Entries(log)) |->
                  [diff |-> Entries(log)[i].diff, status |-> Entries(log)[i].status]]
    <2>1. \A t \in Thread : ~Appending(t)
      BY <1>3 DEF AllIdle, Appending, Idle
    <2>2. Len(records) = q /\ \A k \in 1 .. q : records[k] = Event(log[2 * k - 1])
      BY <2>1 DEF InStep, Tells
    <2>3. PICK es : es = Entries(log)
      OBVIOUS
    <2>4. Len(es) = q /\ \A k \in 1 .. q : es[k] = log[2 * k - 1]
      BY <1>1, <2>3, EntriesAre DEF InStep
    <2>5. records = [i \in 1 .. q |-> records[i]]
      BY <1>1, <2>2, LenProperties
    <2>6. \A i \in 1 .. q : records[i] = [diff |-> es[i].diff, status |-> es[i].status]
      BY <2>2, <2>4 DEF Event
    <2> QED
      BY <2>3, <2>4, <2>5, <2>6
  <1> QED
    BY <1>2, <1>3 DEF RecordsMatchChain

(* As long as every append has the files to itself and is finished, the AI *)
(* audit log can be opened and the companion file tells the same events in *)
(* the same order, however many threads, proposals and faults there are.   *)
THEOREM UndisturbedLogs == MCSpec => []UndisturbedLogIsWhole
  <1>1. MCInit => LogInvariant
    <2> SUFFICES ASSUME MCInit PROVE LogInvariant
      OBVIOUS
    <2>1. ReviewInvariant
      BY InitReview, ReviewAssumption DEF MCInit
    <2>2. Len(log) = 0 /\ Len(records) = 0 /\ \A t \in Thread : ~Appending(t)
      BY DEF MCInit, Init, Appending, Idle
    <2>3. InStep(0)
      BY <2>2 DEF InStep, Alternates, Chained, Tells
    <2> QED
      BY <2>1, <2>3 DEF LogInvariant
  <1>2. LogInvariant /\ [MCNext]_<<vars, disturbed>> => LogInvariant'
    <2> SUFFICES ASSUME LogInvariant, [MCNext]_<<vars, disturbed>> PROVE LogInvariant'
      OBVIOUS
    <2>1. ReviewInvariant'
      BY NextReview, ReviewAssumption DEF LogInvariant, MCNext
    <2>2. ASSUME ~disturbed' PROVE \E r \in Nat : InStep(r)'
      <3>1. CASE UNCHANGED <<vars, disturbed>>
        <4>1. ~disturbed
          BY <2>2, <3>1
        <4>2. PICK q \in Nat : InStep(q)
          BY <4>1 DEF LogInvariant
        <4> QED
          BY <3>1, <4>2, NothingWritten DEF vars, disk, Appending
      <3>2. CASE MCNext
        <4>1. ~disturbed /\ Quiet
          BY <2>2, <3>2 DEF MCNext, Quiet
        <4>2. PICK q \in Nat : InStep(q)
          BY <4>1 DEF LogInvariant
        <4> QED
          BY <3>2, <4>1, <4>2, StepInStep, ReviewAssumption DEF MCNext, LogInvariant
      <3> QED
        BY <3>1, <3>2
    <2> QED
      BY <2>1, <2>2 DEF LogInvariant
  <1>3. LogInvariant => UndisturbedLogIsWhole
    BY InStepIsWhole, ReviewAssumption DEF LogInvariant, UndisturbedLogIsWhole
  <1> QED
    BY <1>1, <1>2, <1>3, PTL DEF MCSpec
=============================================================================
