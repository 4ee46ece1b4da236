------------------------ MODULE RenderRecoveryProofs -------------------------
(***************************************************************************)
(* Proofs about RenderQueue and RenderRecovery, for any jobs, priorities,  *)
(* batches and workers, and for crashes at any step.  Jobs are placed in   *)
(* the queue one by one, each in front of the first that is less urgent,   *)
(* and come back from the store sorted: the argument is that both leave    *)
(* the queue in an order that resumed jobs, put at its end, cannot hurt;   *)
(* and that a row of the store is never behind its job by more than the    *)
(* last mutation.                                                          *)
(***************************************************************************)
EXTENDS RenderRecovery, SequenceTheorems, FiniteSetTheorems, WellFoundedInduction, TLAPS

-----------------------------------------------------------------------------
(* The inductive invariant. *)

TypeOK ==
    /\ queued \in Seq(Job) /\ created \in Seq(Job)
    /\ resumed \in Seq(Job) /\ unsaved \in Seq(Job)
    /\ job \in [Job -> JobRecord] /\ store \in [Job -> JobRecord]
    /\ worker \in [Worker -> [job: Job \cup {NoJob}, frame: 0 .. FrameCount]]
    /\ rendered \in [Job -> 0 .. FrameCount]
    /\ phase \in {"up", "down", "opened"} /\ crashes \in Nat

Partitioned ==
    /\ IsInjective(queued) /\ ToSet(queued) = With({"queued"})
    /\ running = With({"running"}) /\ completed = With(Terminal)

\* What was never submitted left no trace.
Known ==
    /\ IsInjective(created)
    /\ \A j \in Job : ~Contains(created, j) =>
          job[j] = NewJob /\ store[j] = NewJob /\ rendered[j] = 0

\* A worker is at a running job, or at one that was cancelled under it.
Held ==
    /\ RunningHasWorker
    /\ \A w \in Worker : worker[w].job # NoJob =>
          job[worker[w].job].status \in {"running", "cancelled"}

Stored ==
    /\ phase = "up" =>
         \A j \in Job : ~Contains(unsaved, j) => store[j].status = job[j].status
    /\ phase # "up" =>
         /\ unsaved = <<>> /\ queued = <<>>
         /\ \A j \in Job : job[j] = NewJob
         /\ \A w \in Worker : worker[w] = IdleWorker
    /\ phase = "opened" => \A j \in Job : store[j].status # "running"

\* Wherever a job that was not resumed is taken up from, the frames agree.
Frames ==
    \A j \in Job : ~Contains(resumed, j) =>
        /\ store[j].status \in {"queued", "running"} => store[j].frames = rendered[j]
        /\ job[j].status = "queued" => job[j].frames = rendered[j]
        /\ job[j].status = "running" /\ Contains(unsaved, j) => job[j].frames = rendered[j]
        /\ \A w \in Worker : Rendering(w, j) => worker[w].frame = rendered[j]

CameBefore(j, k, came) ==
    \E m, n \in DOMAIN came : came[m] = j /\ came[n] = k /\ m < n

\* No job waits behind one of a lower priority, nor behind one that came later,
\* but for those that were resumed.
InOrder(q, came, again) ==
    \A m, n \in DOMAIN q :
        m < n /\ ~Contains(again, q[n]) =>
            /\ Priority[q[m]] >= Priority[q[n]]
            /\ ~Contains(again, q[m]) /\ Priority[q[m]] = Priority[q[n]] =>
                  CameBefore(q[m], q[n], came)

Ordered == InOrder(queued, created, resumed)

Core == TypeOK /\ Partitioned /\ Known /\ Held /\ Stored /\ Frames /\ Ordered

-----------------------------------------------------------------------------
(* Sequences. *)

LEMMA Least ==
    ASSUME NEW T \in SUBSET Nat, T # {}
    PROVE  \E n \in T : \A m \in T : n <= m
  <1> DEFINE R == {ss \in Nat \X Nat : ss[1] < ss[2]}
  <1>1. IsWellFoundedOn(R, Nat)
    BY NatLessThanWellFounded DEF OpToRel
  <1>2. PICK n \in T : \A m \in T : ~(<<m, n>> \in R)
    BY <1>1, WFMin
  <1>3. ASSUME NEW m \in T PROVE n <= m
    <2>1. m \in Nat /\ n \in Nat /\ ~(<<m, n>> \in R)
      BY <1>2
    <2>2. <<m, n>> \in Nat \X Nat /\ <<m, n>>[1] = m /\ <<m, n>>[2] = n
      BY <2>1
    <2>3. ~(m < n)
      BY <2>1, <2>2
    <2> QED
      BY <2>1, <2>3
  <1> QED
    BY <1>3

LEMMA ContainsIsMember ==
    ASSUME NEW S, NEW s \in Seq(S), NEW e
    PROVE  Contains(s, e) <=> e \in ToSet(s)
  BY LenProperties DEF Contains, ToSet

\* r is a part of s, in the order of s.
PartOf(r, s) ==
    \A m, n \in DOMAIN r : m < n =>
        \E k, l \in DOMAIN s : k < l /\ s[k] = r[m] /\ s[l] = r[n]

LEMMA RemoveAtProperties ==
    ASSUME NEW S, NEW s \in Seq(S), NEW i \in 1 .. Len(s)
    PROVE  /\ RemoveAt(s, i) \in Seq(S)
           /\ Len(RemoveAt(s, i)) = Len(s) - 1
           /\ \A j \in 1 .. Len(s) - 1 :
                RemoveAt(s, i)[j] = IF j < i THEN s[j] ELSE s[j + 1]
  <1> DEFINE a == SubSeq(s, 1, i - 1)
             b == SubSeq(s, i + 1, Len(s))
  <1>1. Len(s) \in Nat /\ i \in Nat /\ 1 <= i /\ i <= Len(s)
    BY LenProperties
  <1>2. \A j \in 1 .. Len(s) : s[j] \in S
    BY ElementOfSeq
  <1>3. \A j \in 1 .. i - 1 : s[j] \in S
    BY <1>1, <1>2
  <1>4. \A j \in i + 1 .. Len(s) : s[j] \in S
    BY <1>1, <1>2
  <1>5. /\ a \in Seq(S) /\ Len(a) = i - 1
        /\ \A j \in 1 .. i - 1 : a[j] = s[j]
    <2>1. i - 1 \in Int /\ 1 \in Int
      BY <1>1
    <2>2. /\ a \in Seq(S) /\ Len(a) = IF 1 <= i - 1 THEN i - 1 - 1 + 1 ELSE 0
          /\ \A j \in 1 .. i - 1 - 1 + 1 : a[j] = s[1 + j - 1]
      BY <1>3, <2>1, SubSeqProperties
    <2> QED
      BY <1>1, <2>2
  <1>6. /\ b \in Seq(S) /\ Len(b) = Len(s) - i
        /\ \A j \in 1 .. Len(s) - i : b[j] = s[i + j]
    <2>1. i + 1 \in Int /\ Len(s) \in Int
      BY <1>1
    <2>2. /\ b \in Seq(S) /\ Len(b) = IF i + 1 <= Len(s) THEN Len(s) - (i + 1) + 1 ELSE 0
          /\ \A j \in 1 .. Len(s) - (i + 1) + 1 : b[j] = s[i + 1 + j - 1]
      BY <1>4, <2>1, SubSeqProperties
    <2> QED
      BY <1>1, <2>2
  <1> HIDE DEF a, b
  <1>7. /\ a \o b \in Seq(S) /\ Len(a \o b) = Len(a) + Len(b)
        /\ \A j \in 1 .. Len(a) + Len(b) :
             (a \o b)[j] = IF j <= Len(a) THEN a[j] ELSE b[j - Len(a)]
    BY <1>5, <1>6, ConcatProperties
  <1>8. RemoveAt(s, i) = a \o b
    BY DEF RemoveAt, a, b
  <1>9. ASSUME NEW j \in 1 .. Len(s) - 1
        PROVE  (a \o b)[j] = IF j < i THEN s[j] ELSE s[j + 1]
    <2>1. (a \o b)[j] = IF j <= i - 1 THEN a[j] ELSE b[j - (i - 1)]
      BY <1>1, <1>5, <1>6, <1>7
    <2>2. CASE j < i
      BY <1>1, <1>5, <2>1, <2>2
    <2>3. CASE ~(j < i)
      <3>1. j - (i - 1) \in 1 .. Len(s) - i /\ i + (j - (i - 1)) = j + 1
        BY <1>1, <2>3
      <3>2. b[j - (i - 1)] = s[j + 1]
        BY <1>6, <3>1
      <3>3. ~(j <= i - 1)
        BY <1>1, <2>3
      <3> QED
        BY <2>1, <2>3, <3>2, <3>3
    <2> QED
      BY <2>2, <2>3
  <1>10. Len(a \o b) = Len(s) - 1
    BY <1>1, <1>5, <1>6, <1>7
  <1> QED
    BY <1>7, <1>8, <1>9, <1>10

LEMMA ConcatParts ==
    ASSUME NEW S, NEW s \in Seq(S), NEW t \in Seq(S)
    PROVE  /\ s \o t \in Seq(S) /\ Len(s \o t) = Len(s) + Len(t)
           /\ DOMAIN (s \o t) = 1 .. Len(s) + Len(t)
           /\ \A i \in 1 .. Len(s) : (s \o t)[i] = s[i]
           /\ \A k \in 1 .. Len(t) : (s \o t)[Len(s) + k] = t[k]
  <1>1. Len(s) \in Nat /\ Len(t) \in Nat
    BY LenProperties
  <1>2. /\ s \o t \in Seq(S) /\ Len(s \o t) = Len(s) + Len(t)
        /\ \A i \in 1 .. Len(s) + Len(t) :
             (s \o t)[i] = IF i <= Len(s) THEN s[i] ELSE t[i - Len(s)]
    BY ConcatProperties
  <1>3. DOMAIN (s \o t) = 1 .. Len(s) + Len(t)
    BY <1>2, LenProperties
  <1>4. \A i \in 1 .. Len(s) : (s \o t)[i] = s[i]
    BY <1>1, <1>2
  <1>5. ASSUME NEW k \in 1 .. Len(t) PROVE (s \o t)[Len(s) + k] = t[k]
    <2>1. PICK i \in 1 .. Len(s) + Len(t) : i = Len(s) + k
      BY <1>1
    <2>2. ~(i <= Len(s)) /\ i - Len(s) = k
      BY <1>1, <2>1
    <2>3. (s \o t)[i] = t[k]
      BY <1>2, <2>2
    <2> QED
      BY <2>1, <2>3
  <1> QED
    BY <1>2, <1>3, <1>4, <1>5

\* What is left of a sequence without one of its elements.
LEMMA WithoutOne ==
    ASSUME NEW S, NEW s \in Seq(S), IsInjective(s), NEW i \in 1 .. Len(s),
           NEW r \in Seq(S), Len(r) = Len(s) - 1,
           \A j \in 1 .. Len(s) - 1 : r[j] = IF j < i THEN s[j] ELSE s[j + 1]
    PROVE  /\ IsInjective(r) /\ PartOf(r, s)
           /\ ToSet(r) = ToSet(s) \ {s[i]}
  <1>1. /\ Len(s) \in Nat /\ DOMAIN s = 1 .. Len(s) /\ DOMAIN r = 1 .. Len(s) - 1
        /\ i \in Nat
    BY LenProperties
  <1>2. ASSUME NEW j \in DOMAIN r
        PROVE  \E k \in DOMAIN s : k = (IF j < i THEN j ELSE j + 1) /\ r[j] = s[k]
    BY <1>1
  <1>3. \A k, l \in DOMAIN s : s[k] = s[l] => k = l
    BY DEF IsInjective
  <1>4. IsInjective(r)
    <2> SUFFICES ASSUME NEW m \in DOMAIN r, NEW n \in DOMAIN r, r[m] = r[n] PROVE m = n
      BY DEF IsInjective
    <2>1. PICK k \in DOMAIN s : k = (IF m < i THEN m ELSE m + 1) /\ r[m] = s[k]
      BY <1>2
    <2>2. PICK l \in DOMAIN s : l = (IF n < i THEN n ELSE n + 1) /\ r[n] = s[l]
      BY <1>2
    <2>3. k = l
      BY <1>3, <2>1, <2>2
    <2> QED
      BY <1>1, <2>1, <2>2, <2>3
  <1>5. PartOf(r, s)
    <2> SUFFICES ASSUME NEW m \in DOMAIN r, NEW n \in DOMAIN r, m < n
                 PROVE  \E k, l \in DOMAIN s : k < l /\ s[k] = r[m] /\ s[l] = r[n]
      BY DEF PartOf
    <2>1. PICK k \in DOMAIN s : k = (IF m < i THEN m ELSE m + 1) /\ r[m] = s[k]
      BY <1>2
    <2>2. PICK l \in DOMAIN s : l = (IF n < i THEN n ELSE n + 1) /\ r[n] = s[l]
      BY <1>2
    <2>3. k < l
      BY <1>1, <2>1, <2>2
    <2> QED
      BY <2>1, <2>2, <2>3
  <1>6. \A e \in ToSet(r) : e \in ToSet(s) /\ e # s[i]
    <2> SUFFICES ASSUME NEW j \in DOMAIN r PROVE r[j] \in ToSet(s) /\ r[j] # s[i]
      BY DEF ToSet
    <2>1. PICK k \in DOMAIN s : k = (IF j < i THEN j ELSE j + 1) /\ r[j] = s[k]
      BY <1>2
    <2>2. k # i /\ i \in DOMAIN s
      BY <1>1, <2>1
    <2> QED
      BY <1>3, <2>1, <2>2 DEF ToSet
  <1>7. \A e \in ToSet(s) : e # s[i] => e \in ToSet(r)
    <2> SUFFICES ASSUME NEW k \in DOMAIN s, k # i PROVE s[k] \in ToSet(r)
      BY DEF ToSet
    <2>1. PICK j : j = IF k < i THEN k ELSE k - 1
      OBVIOUS
    <2>2. j \in DOMAIN r /\ (j < i <=> k < i) /\ (~(k < i) => j + 1 = k)
      BY <1>1, <2>1
    <2>3. r[j] = s[k]
      BY <1>1, <2>1, <2>2
    <2> QED
      BY <2>2, <2>3 DEF ToSet
  <1> QED
    BY <1>4, <1>5, <1>6, <1>7

LEMMA TailProperties ==
    ASSUME NEW S, NEW s \in Seq(S), IsInjective(s)
    PROVE  s # <<>> =>
           /\ Head(s) = s[1] /\ 1 \in DOMAIN s /\ Head(s) \in ToSet(s) /\ Head(s) \in S
           /\ Tail(s) \in Seq(S) /\ IsInjective(Tail(s)) /\ PartOf(Tail(s), s)
           /\ ToSet(Tail(s)) = ToSet(s) \ {Head(s)}
  <1>1. ASSUME NEW i \in 1 .. Len(s), NEW r \in Seq(S), Len(r) = Len(s) - 1,
               \A j \in 1 .. Len(s) - 1 : r[j] = IF j < i THEN s[j] ELSE s[j + 1]
        PROVE  IsInjective(r) /\ PartOf(r, s) /\ ToSet(r) = ToSet(s) \ {s[i]}
    BY <1>1, WithoutOne
  <1> SUFFICES ASSUME s # <<>>
               PROVE  /\ Head(s) = s[1] /\ 1 \in DOMAIN s /\ Head(s) \in ToSet(s)
                      /\ Head(s) \in S /\ Tail(s) \in Seq(S) /\ IsInjective(Tail(s))
                      /\ PartOf(Tail(s), s) /\ ToSet(Tail(s)) = ToSet(s) \ {Head(s)}
    OBVIOUS
  <1>2. Len(s) \in Nat /\ DOMAIN s = 1 .. Len(s) /\ Len(s) # 0
    BY LenProperties, EmptySeq
  <1>3. /\ Head(s) \in S /\ Tail(s) \in Seq(S) /\ Len(Tail(s)) = Len(s) - 1
        /\ \A j \in 1 .. Len(Tail(s)) : Tail(s)[j] = s[j + 1]
    BY HeadTailProperties
  <1>4. Head(s) = s[1] /\ 1 \in 1 .. Len(s)
    BY <1>2
  <1>5. \A j \in 1 .. Len(s) - 1 : Tail(s)[j] = IF j < 1 THEN s[j] ELSE s[j + 1]
    BY <1>2, <1>3
  <1>6. /\ IsInjective(Tail(s)) /\ PartOf(Tail(s), s)
        /\ ToSet(Tail(s)) = ToSet(s) \ {s[1]}
    BY <1>1, <1>3, <1>4, <1>5
  <1> QED
    BY <1>2, <1>3, <1>4, <1>6 DEF ToSet

LEMMA RemoveFirstProperties ==
    ASSUME NEW S, NEW s \in Seq(S), IsInjective(s), NEW e
    PROVE  /\ RemoveFirst(s, e) \in Seq(S) /\ IsInjective(RemoveFirst(s, e))
           /\ PartOf(RemoveFirst(s, e), s)
           /\ ToSet(RemoveFirst(s, e)) = ToSet(s) \ {e}
  <1>1. Len(s) \in Nat /\ DOMAIN s = 1 .. Len(s)
    BY LenProperties
  <1>2. CASE ~\E i \in 1 .. Len(s) : s[i] = e
    <2>1. RemoveFirst(s, e) = s
      BY <1>2 DEF RemoveFirst
    <2>2. e \notin ToSet(s)
      BY <1>1, <1>2 DEF ToSet
    <2>3. PartOf(s, s)
      BY DEF PartOf
    <2> QED
      BY <2>1, <2>2, <2>3
  <1>3. CASE \E i \in 1 .. Len(s) : s[i] = e
    <2>1. PICK i \in 1 .. Len(s) : s[i] = e
      BY <1>3
    <2>2. \A k \in 1 .. Len(s) : s[k] = e => k = i
      BY <1>1, <2>1 DEF IsInjective
    <2>3. SelectInSeq(s, LAMBDA v : v = e) = i
      <3>1. {k \in 1 .. Len(s) : s[k] = e} = {i}
        BY <2>1, <2>2
      <3>2. Min({i}) = i
        BY <1>1 DEF Min
      <3> QED
        BY <3>1, <3>2 DEF SelectInSeq
    <2>4. RemoveFirst(s, e) = RemoveAt(s, i)
      BY <1>3, <2>3 DEF RemoveFirst
    <2>5. PICK r : r = RemoveAt(s, i)
      OBVIOUS
    <2>6. /\ r \in Seq(S) /\ Len(r) = Len(s) - 1
          /\ \A j \in 1 .. Len(s) - 1 : r[j] = IF j < i THEN s[j] ELSE s[j + 1]
      BY <2>5, RemoveAtProperties
    <2>7. IsInjective(r) /\ PartOf(r, s) /\ ToSet(r) = ToSet(s) \ {s[i]}
      BY <2>6, WithoutOne
    <2> QED
      BY <2>1, <2>4, <2>5, <2>6, <2>7
  <1> QED
    BY <1>2, <1>3

\* r is s with e put in at i.
Inserted(r, s, i, e) ==
    /\ Len(r) = Len(s) + 1 /\ r[i] = e
    /\ \A k \in 1 .. Len(s) : k < i => r[k] = s[k]
    /\ \A k \in 1 .. Len(s) : i <= k => r[k + 1] = s[k]

LEMMA InsertAtProperties ==
    ASSUME NEW S, NEW s \in Seq(S), NEW i \in 1 .. Len(s) + 1, NEW e \in S,
           NEW r, r = InsertAt(s, i, e)
    PROVE  r \in Seq(S) /\ Inserted(r, s, i, e)
  <1>1. Len(s) \in Nat /\ i \in Nat /\ 1 <= i /\ i <= Len(s) + 1
    BY LenProperties
  <1>2. PICK a, x, b : a = SubSeq(s, 1, i - 1) /\ x = <<e>> /\ b = SubSeq(s, i, Len(s))
    OBVIOUS
  <1>3. \A j \in 1 .. Len(s) : s[j] \in S
    BY ElementOfSeq
  <1>4. /\ a \in Seq(S) /\ Len(a) = i - 1
        /\ \A j \in 1 .. i - 1 : a[j] = s[j]
    <2>1. i - 1 \in Int /\ 1 \in Int /\ \A j \in 1 .. i - 1 : s[j] \in S
      BY <1>1, <1>3
    <2>2. /\ a \in Seq(S) /\ Len(a) = IF 1 <= i - 1 THEN i - 1 - 1 + 1 ELSE 0
          /\ \A j \in 1 .. i - 1 - 1 + 1 : a[j] = s[1 + j - 1]
      BY <1>2, <2>1, SubSeqProperties
    <2> QED
      BY <1>1, <2>2
  <1>5. /\ b \in Seq(S) /\ Len(b) = Len(s) - i + 1
        /\ \A j \in 1 .. Len(s) - i + 1 : b[j] = s[i + j - 1]
    <2>1. i \in Int /\ Len(s) \in Int /\ \A j \in i .. Len(s) : s[j] \in S
      BY <1>1, <1>3
    <2>2. /\ b \in Seq(S) /\ Len(b) = IF i <= Len(s) THEN Len(s) - i + 1 ELSE 0
          /\ \A j \in 1 .. Len(s) - i + 1 : b[j] = s[i + j - 1]
      BY <1>2, <2>1, SubSeqProperties
    <2> QED
      BY <1>1, <2>2
  <1>6. x \in Seq(S) /\ Len(x) = 1 /\ x[1] = e
    BY <1>2
  <1>7. PICK y : y = a \o x
    OBVIOUS
  <1>8. /\ y \in Seq(S) /\ Len(y) = i
        /\ \A j \in 1 .. i - 1 : y[j] = s[j]
        /\ y[i] = e
    <2>1. /\ y \in Seq(S) /\ Len(y) = Len(a) + Len(x)
          /\ \A j \in 1 .. Len(a) : y[j] = a[j]
          /\ \A k \in 1 .. Len(x) : y[Len(a) + k] = x[k]
      <3>1. a \in Seq(S) /\ x \in Seq(S)
        BY <1>4, <1>6
      <3> QED
        BY <3>1, <1>7, ConcatParts
    <2>2. y[Len(a) + 1] = e /\ Len(a) + 1 = i
      BY <1>1, <1>4, <1>6, <2>1
    <2> QED
      BY <1>1, <1>4, <1>6, <2>1, <2>2
  <1>9. r = y \o b
    BY <1>2, <1>7 DEF InsertAt
  <1>11. /\ r \in Seq(S) /\ Len(r) = i + Len(b)
         /\ \A j \in 1 .. i : r[j] = y[j]
         /\ \A k \in 1 .. Len(b) : r[i + k] = b[k]
    <2>1. /\ r \in Seq(S) /\ Len(r) = Len(y) + Len(b)
          /\ \A j \in 1 .. Len(y) : r[j] = y[j]
          /\ \A k \in 1 .. Len(b) : r[Len(y) + k] = b[k]
      BY <1>5, <1>8, <1>9, ConcatParts
    <2> QED
      BY <1>8, <2>1
  <1>12. \A k \in 1 .. Len(s) : k < i => r[k] = s[k]
    BY <1>1, <1>8, <1>11
  <1>13. r[i] = e
    BY <1>1, <1>8, <1>11
  <1>14. ASSUME NEW k \in 1 .. Len(s), i <= k PROVE r[k + 1] = s[k]
    <2>1. PICK l \in 1 .. Len(b) : l = k + 1 - i
      BY <1>1, <1>5, <1>14
    <2>2. i + l = k + 1 /\ i + l - 1 = k
      BY <1>1, <2>1
    <2>3. r[k + 1] = b[l] /\ b[l] = s[k]
      BY <1>5, <1>11, <2>2
    <2> QED
      BY <2>3
  <1>15. Len(r) = Len(s) + 1
    BY <1>1, <1>5, <1>11
  <1> QED
    BY <1>11, <1>12, <1>13, <1>14, <1>15 DEF Inserted

\* A sequence with one more element.
LEMMA WithOneMore ==
    ASSUME NEW S, NEW s \in Seq(S), IsInjective(s), NEW i \in 1 .. Len(s) + 1,
           NEW e \in S, e \notin ToSet(s),
           NEW r \in Seq(S), Inserted(r, s, i, e)
    PROVE  /\ IsInjective(r)
           /\ ToSet(r) = ToSet(s) \cup {e}
  <1> USE DEF Inserted
  <1>1. /\ Len(s) \in Nat /\ DOMAIN s = 1 .. Len(s) /\ DOMAIN r = 1 .. Len(s) + 1
        /\ i \in Nat
    BY LenProperties
  <1>2. i \in DOMAIN r /\ r[i] = e
    BY <1>1
  <1>3. ASSUME NEW k \in DOMAIN r, k # i
        PROVE  \E l \in DOMAIN s : l = (IF k < i THEN k ELSE k - 1) /\ r[k] = s[l]
    <2>1. CASE k < i
      BY <1>1, <2>1
    <2>2. CASE ~(k < i)
      <3>1. PICK l \in DOMAIN s : l = k - 1
        BY <1>1, <1>3, <2>2
      <3>2. i <= l /\ l + 1 = k
        BY <1>1, <1>3, <2>2, <3>1
      <3>3. r[k] = s[l]
        BY <1>1, <3>2
      <3> QED
        BY <2>2, <3>1, <3>3
    <2> QED
      BY <2>1, <2>2
  <1>4. \A k, l \in DOMAIN s : s[k] = s[l] => k = l
    BY DEF IsInjective
  <1>5. \A k \in DOMAIN r : k # i => r[k] # e /\ r[k] \in ToSet(s)
    BY <1>3 DEF ToSet
  <1>6. IsInjective(r)
    <2> SUFFICES ASSUME NEW m \in DOMAIN r, NEW n \in DOMAIN r, r[m] = r[n] PROVE m = n
      BY DEF IsInjective
    <2>1. CASE m = i \/ n = i
      BY <1>2, <1>5, <2>1
    <2>2. CASE m # i /\ n # i
      <3>1. PICK k \in DOMAIN s : k = (IF m < i THEN m ELSE m - 1) /\ r[m] = s[k]
        BY <1>3, <2>2
      <3>2. PICK l \in DOMAIN s : l = (IF n < i THEN n ELSE n - 1) /\ r[n] = s[l]
        BY <1>3, <2>2
      <3>3. k = l
        BY <1>4, <3>1, <3>2
      <3> QED
        BY <1>1, <2>2, <3>1, <3>2, <3>3
    <2> QED
      BY <2>1, <2>2
  <1>7. \A d \in ToSet(r) : d \in ToSet(s) \cup {e}
    <2> SUFFICES ASSUME NEW k \in DOMAIN r PROVE r[k] \in ToSet(s) \cup {e}
      BY DEF ToSet
    <2> QED
      BY <1>2, <1>5
  <1>8. \A d \in ToSet(s) : d \in ToSet(r)
    <2> SUFFICES ASSUME NEW l \in DOMAIN s PROVE s[l] \in ToSet(r)
      BY DEF ToSet
    <2>1. PICK k : k = IF l < i THEN l ELSE l + 1
      OBVIOUS
    <2>2. k \in DOMAIN r /\ k # i /\ (k < i <=> l < i) /\ (~(l < i) => k - 1 = l)
      BY <1>1, <2>1
    <2>3. r[k] = s[l]
      BY <1>1, <2>1, <2>2
    <2> QED
      BY <2>2, <2>3 DEF ToSet
  <1>9. e \in ToSet(r)
    BY <1>2 DEF ToSet
  <1> QED
    BY <1>6, <1>7, <1>8, <1>9

LEMMA InsertKeeps ==
    ASSUME NEW S, NEW s \in Seq(S), IsInjective(s), NEW i \in 1 .. Len(s) + 1,
           NEW e \in S, e \notin ToSet(s), NEW r, r = InsertAt(s, i, e)
    PROVE  /\ r \in Seq(S) /\ Inserted(r, s, i, e)
           /\ IsInjective(r) /\ ToSet(r) = ToSet(s) \cup {e}
  <1>1. r \in Seq(S) /\ Inserted(r, s, i, e)
    BY InsertAtProperties
  <1>2. IsInjective(r) /\ ToSet(r) = ToSet(s) \cup {e}
    BY <1>1, WithOneMore
  <1> QED
    BY <1>1, <1>2

-----------------------------------------------------------------------------
(* The place of a new job. *)

LEMMA PlaceIs ==
    ASSUME QueueAssumption, NEW q \in Seq(Job), NEW j \in Job
    PROVE  \E i \in 1 .. Len(q) + 1 :
             /\ Place(q, j) = InsertAt(q, i, j)
             /\ \A k \in 1 .. Len(q) : k < i => Priority[q[k]] >= Priority[j]
             /\ i <= Len(q) => Priority[q[i]] < Priority[j]
  <1>1. Len(q) \in Nat /\ DOMAIN q = 1 .. Len(q)
    BY LenProperties
  <1>2. \A k \in 1 .. Len(q) : q[k] \in Job
    BY ElementOfSeq
  <1>3. \A k \in Job : Priority[k] \in Int
    BY DEF QueueAssumption
  <1>4. PICK lower : lower = {i \in DOMAIN q : Priority[q[i]] < Priority[j]}
    OBVIOUS
  <1>5. CASE lower = {}
    <2>1. Place(q, j) = InsertAt(q, Len(q) + 1, j)
      BY <1>4, <1>5 DEF Place
    <2>2. \A k \in 1 .. Len(q) : Priority[q[k]] >= Priority[j]
      BY <1>1, <1>2, <1>3, <1>4, <1>5
    <2> QED
      BY <1>1, <2>1, <2>2
  <1>6. CASE lower # {}
    <2>1. lower \in SUBSET Nat
      BY <1>1, <1>4
    <2>2. \E i \in lower : \A k \in lower : i <= k
      BY <1>6, <2>1, Least
    <2>3. PICK pos : pos = CHOOSE i \in lower : \A k \in lower : i <= k
      OBVIOUS
    <2>4. pos \in lower /\ \A k \in lower : pos <= k
      BY <2>2, <2>3
    <2>5. Place(q, j) = InsertAt(q, pos, j)
      BY <1>4, <1>6, <2>3 DEF Place
    <2>6. \A k \in 1 .. Len(q) : k < pos => Priority[q[k]] >= Priority[j]
      <3> SUFFICES ASSUME NEW k \in 1 .. Len(q), k < pos PROVE Priority[q[k]] >= Priority[j]
        OBVIOUS
      <3>1. k \notin lower
        BY <1>1, <2>1, <2>4
      <3>2. ~(Priority[q[k]] < Priority[j])
        BY <1>1, <1>4, <3>1
      <3> QED
        BY <1>2, <1>3, <3>2
    <2> QED
      BY <1>1, <1>4, <2>4, <2>5, <2>6
  <1> QED
    BY <1>5, <1>6

LEMMA PlaceKeeps ==
    ASSUME QueueAssumption, NEW q \in Seq(Job), IsInjective(q), NEW j \in Job,
           j \notin ToSet(q), NEW came, NEW again,
           \A k \in ToSet(q) : CameBefore(k, j, came), InOrder(q, came, again)
    PROVE  /\ Place(q, j) \in Seq(Job) /\ IsInjective(Place(q, j))
           /\ ToSet(Place(q, j)) = ToSet(q) \cup {j}
           /\ InOrder(Place(q, j), came, again)
  <1>1. Len(q) \in Nat /\ DOMAIN q = 1 .. Len(q)
    BY LenProperties
  <1>2. \A k \in 1 .. Len(q) : q[k] \in Job
    BY ElementOfSeq
  <1>3. \A k \in Job : Priority[k] \in Int
    BY DEF QueueAssumption
  <1>4. PICK i \in 1 .. Len(q) + 1 :
             /\ Place(q, j) = InsertAt(q, i, j)
             /\ \A k \in 1 .. Len(q) : k < i => Priority[q[k]] >= Priority[j]
             /\ i <= Len(q) => Priority[q[i]] < Priority[j]
    BY PlaceIs
  <1>5. PICK r : r = InsertAt(q, i, j)
    OBVIOUS
  <1>6. /\ r \in Seq(Job) /\ Len(r) = Len(q) + 1 /\ r[i] = j
        /\ \A k \in 1 .. Len(q) : k < i => r[k] = q[k]
        /\ \A k \in 1 .. Len(q) : i <= k => r[k + 1] = q[k]
        /\ IsInjective(r) /\ ToSet(r) = ToSet(q) \cup {j}
    <2>1. /\ r \in Seq(Job) /\ Inserted(r, q, i, j)
          /\ IsInjective(r) /\ ToSet(r) = ToSet(q) \cup {j}
      BY <1>5, InsertKeeps
    <2> QED
      BY <2>1 DEF Inserted
  <1>8. DOMAIN r = 1 .. Len(q) + 1
    BY <1>6, LenProperties
  <1>9. ASSUME NEW m \in 1 .. Len(q), NEW n \in 1 .. Len(q), m < n, ~Contains(again, q[n])
        PROVE  /\ Priority[q[m]] >= Priority[q[n]]
               /\ ~Contains(again, q[m]) /\ Priority[q[m]] = Priority[q[n]] =>
                     CameBefore(q[m], q[n], came)
    BY <1>1, <1>9 DEF InOrder
  <1>10. ASSUME NEW m \in DOMAIN r, NEW n \in DOMAIN r, m < n, ~Contains(again, r[n])
         PROVE  /\ Priority[r[m]] >= Priority[r[n]]
                /\ ~Contains(again, r[m]) /\ Priority[r[m]] = Priority[r[n]] =>
                      CameBefore(r[m], r[n], came)
    <2>0. m \in Nat /\ n \in Nat /\ m <= Len(q) + 1 /\ n <= Len(q) + 1 /\ i \in Nat
          /\ 1 <= m
      BY <1>1, <1>8
    <2>1. CASE n < i
      <3>1. m \in 1 .. Len(q) /\ n \in 1 .. Len(q) /\ r[m] = q[m] /\ r[n] = q[n]
        BY <1>1, <1>6, <1>8, <1>10, <2>0, <2>1
      <3> QED
        BY <1>9, <1>10, <3>1
    <2>2. CASE n = i
      <3>1. m \in 1 .. Len(q) /\ r[m] = q[m] /\ r[n] = j /\ m < i
        BY <1>1, <1>6, <1>8, <1>10, <2>0, <2>2
      <3>2. CameBefore(q[m], j, came)
        BY <1>1, <3>1 DEF ToSet
      <3> QED
        BY <1>4, <3>1, <3>2
    <2>3. CASE n > i
      <3>1. PICK n2 \in 1 .. Len(q) : n = n2 + 1
        <4>1. n - 1 \in 1 .. Len(q) /\ n = (n - 1) + 1
          BY <1>1, <2>0, <2>3
        <4> QED
          BY <4>1
      <3>2. r[n] = q[n2] /\ n2 \in Nat /\ i <= n2 /\ i <= Len(q)
        <4>1. n2 \in Nat /\ i <= n2 /\ i <= Len(q)
          BY <1>1, <2>0, <2>3, <3>1
        <4> QED
          BY <1>6, <3>1, <4>1
      <3>3. ~Contains(again, q[n2])
        BY <1>10, <3>2
      <3>4. CASE m < i
        <4>1. m \in 1 .. Len(q) /\ m < n2
          BY <1>1, <2>0, <3>2, <3>4
        <4>2. r[m] = q[m]
          BY <1>6, <3>4, <4>1
        <4> QED
          BY <1>9, <3>2, <3>3, <4>1, <4>2
      <3>5. CASE m = i
        <4>1. r[m] = j
          BY <1>6, <1>8, <3>5
        <4>2. i \in 1 .. Len(q) /\ Priority[q[i]] < Priority[j]
          BY <1>1, <1>4, <3>2
        <4>3. i < n2 => Priority[q[i]] >= Priority[q[n2]]
          BY <1>9, <3>3, <4>2
        <4>4. Priority[q[i]] \in Int /\ Priority[q[n2]] \in Int /\ Priority[j] \in Int
          BY <1>2, <1>3, <4>2
        <4>5. Priority[j] > Priority[q[n2]]
          BY <2>0, <3>2, <4>2, <4>3, <4>4
        <4> QED
          BY <3>2, <4>1, <4>4, <4>5
      <3>6. CASE m > i
        <4>1. PICK m2 \in 1 .. Len(q) : m = m2 + 1
          <5>1. m - 1 \in 1 .. Len(q) /\ m = (m - 1) + 1
            BY <1>1, <2>0, <3>6
          <5> QED
            BY <5>1
        <4>2. r[m] = q[m2] /\ m2 < n2
          <5>1. i <= m2 /\ m2 < n2
            BY <1>1, <1>10, <2>0, <3>1, <3>6, <4>1
          <5> QED
            BY <1>6, <4>1, <5>1
        <4> QED
          BY <1>9, <3>2, <3>3, <4>2
      <3> QED
        BY <2>0, <3>4, <3>5, <3>6
    <2> QED
      BY <2>0, <2>1, <2>2, <2>3
  <1>11. InOrder(r, came, again)
    BY <1>10 DEF InOrder
  <1> QED
    BY <1>4, <1>5, <1>6, <1>11

\* The queue after each of the first n jobs of a batch.
Places(g, q, js, n) ==
    g = [i \in 0 .. n |-> IF i = 0 THEN q ELSE Place(g[i - 1], js[i])]

LEMMA Placing ==
    ASSUME NEW q, NEW js, NEW n \in Nat
    PROVE  \E g : Places(g, q, js, n)
  <1> DEFINE Done(k) ==
        \E g : g = [i \in 0 .. k |-> IF i = 0 THEN q ELSE Place(g[i - 1], js[i])]
  <1>1. PICK T : T = {k \in Nat : ~Done(k)}
    OBVIOUS
  <1>2. ASSUME T # {} PROVE FALSE
    <2>1. PICK k \in T : \A m \in T : k <= m
      <3>1. T \in SUBSET Nat
        BY <1>1
      <3> QED
        BY <1>2, <3>1, Least
    <2>2. k \in Nat /\ ~Done(k)
      BY <1>1, <2>1
    <2>3. Done(0)
      <3>1. PICK g : g = [i \in 0 .. 0 |-> q]
        OBVIOUS
      <3>2. g = [i \in 0 .. 0 |-> IF i = 0 THEN q ELSE Place(g[i - 1], js[i])]
        BY <3>1
      <3> QED
        BY <3>2
    <2>4. k # 0
      BY <2>2, <2>3
    <2>5. k - 1 \in Nat /\ ~(k <= k - 1)
      BY <2>2, <2>4
    <2>6. Done(k - 1)
      <3>1. k - 1 \notin T
        BY <2>1, <2>5
      <3> QED
        BY <1>1, <2>5, <3>1
    <2>7. PICK h : h = [i \in 0 .. k - 1 |-> IF i = 0 THEN q ELSE Place(h[i - 1], js[i])]
      BY <2>6
    <2>8. PICK g : g = [i \in 0 .. k |-> IF i < k THEN h[i] ELSE Place(h[k - 1], js[k])]
      OBVIOUS
    <2>9. ASSUME NEW i \in 0 .. k
          PROVE  g[i] = IF i = 0 THEN q ELSE Place(g[i - 1], js[i])
      <3>1. CASE i = 0
        BY <2>2, <2>4, <2>7, <2>8, <3>1
      <3>2. CASE i # 0 /\ i < k
        <4>1. i \in 0 .. k - 1 /\ i - 1 \in 0 .. k /\ i - 1 < k
          BY <2>2, <3>2
        <4>2. g[i] = h[i] /\ g[i - 1] = h[i - 1]
          BY <2>8, <3>2, <4>1
        <4>3. h[i] = Place(h[i - 1], js[i])
          BY <2>7, <3>2, <4>1
        <4> QED
          BY <3>2, <4>2, <4>3
      <3>3. CASE i = k
        <4>1. g[k] = Place(h[k - 1], js[k]) /\ g[k - 1] = h[k - 1]
          BY <2>2, <2>5, <2>8
        <4> QED
          BY <2>4, <3>3, <4>1
      <3> QED
        BY <2>2, <3>1, <3>2, <3>3
    <2>10. g = [i \in 0 .. k |-> IF i = 0 THEN q ELSE Place(g[i - 1], js[i])]
      <3>1. g = [i \in 0 .. k |-> g[i]]
        BY <2>8
      <3> QED
        BY <2>9, <3>1
    <2> QED
      BY <2>2, <2>10
  <1> QED
    BY <1>1, <1>2 DEF Places

LEMMA PlaceAllKeeps ==
    ASSUME QueueAssumption,
           NEW q \in Seq(Job), IsInjective(q), NEW js \in Seq(Job), IsInjective(js),
           \A k \in ToSet(q) : k \notin ToSet(js),
           NEW came, NEW again, InOrder(q, came, again),
           \A k \in ToSet(q), j \in ToSet(js) : CameBefore(k, j, came),
           \A m, n \in DOMAIN js : m < n => CameBefore(js[m], js[n], came)
    PROVE  /\ PlaceAll(q, js) \in Seq(Job) /\ IsInjective(PlaceAll(q, js))
           /\ ToSet(PlaceAll(q, js)) = ToSet(q) \cup ToSet(js)
           /\ InOrder(PlaceAll(q, js), came, again)
  <1>1. Len(js) \in Nat /\ DOMAIN js = 1 .. Len(js) /\ \A i \in DOMAIN js : js[i] \in Job
    BY LenProperties, ElementOfSeq
  <1>2. PICK after :
          /\ after = [i \in 0 .. Len(js) |-> IF i = 0 THEN q ELSE Place(after[i - 1], js[i])]
          /\ PlaceAll(q, js) = after[Len(js)]
    <2> DEFINE f == CHOOSE h : h = [i \in 0 .. Len(js) |->
                                     IF i = 0 THEN q ELSE Place(h[i - 1], js[i])]
    <2>1. PICK g : Places(g, q, js, Len(js))
      BY <1>1, Placing
    <2>2. f = [i \in 0 .. Len(js) |-> IF i = 0 THEN q ELSE Place(f[i - 1], js[i])]
      BY <2>1 DEF Places
    <2>3. PlaceAll(q, js) = f[Len(js)]
      BY DEF PlaceAll
    <2> HIDE DEF f
    <2> QED
      BY <2>2, <2>3
  <1> DEFINE Good(i) ==
        /\ after[i] \in Seq(Job) /\ IsInjective(after[i])
        /\ ToSet(after[i]) = ToSet(q) \cup {js[n] : n \in 1 .. i}
        /\ InOrder(after[i], came, again)
  <1>3. Good(0)
    <2>1. after[0] = q
      BY <1>1, <1>2
    <2>2. {js[n] : n \in 1 .. 0} = {}
      OBVIOUS
    <2> QED
      BY <2>1, <2>2
  <1>4. ASSUME NEW i \in 1 .. Len(js), Good(i - 1) PROVE Good(i)
    <2>1. after[i] = Place(after[i - 1], js[i])
      <3>1. i \in 0 .. Len(js) /\ i # 0
        BY <1>1
      <3> QED
        BY <1>2, <3>1
    <2>2. PICK p, j : p = after[i - 1] /\ j = js[i]
      OBVIOUS
    <2>3. /\ p \in Seq(Job) /\ IsInjective(p) /\ InOrder(p, came, again)
          /\ ToSet(p) = ToSet(q) \cup {js[n] : n \in 1 .. i - 1}
      BY <1>4, <2>2
    <2>4. j \in Job /\ j \in ToSet(js)
      BY <1>1, <2>2 DEF ToSet
    <2>5. j \notin ToSet(p)
      <3>1. j \notin ToSet(q)
        BY <2>4
      <3>2. \A n \in 1 .. i - 1 : js[n] # j
        <4> SUFFICES ASSUME NEW n \in 1 .. i - 1, js[n] = j PROVE FALSE
          OBVIOUS
        <4>1. n \in DOMAIN js /\ i \in DOMAIN js /\ n # i
          BY <1>1
        <4> QED
          BY <2>2, <4>1 DEF IsInjective
      <3> QED
        BY <2>3, <3>1, <3>2
    <2>6. \A k \in ToSet(p) : CameBefore(k, j, came)
      <3>1. \A k \in ToSet(q) : CameBefore(k, j, came)
        BY <2>4
      <3>2. \A n \in 1 .. i - 1 : CameBefore(js[n], j, came)
        <4> SUFFICES ASSUME NEW n \in 1 .. i - 1 PROVE CameBefore(js[n], j, came)
          OBVIOUS
        <4>1. n \in DOMAIN js /\ i \in DOMAIN js /\ n < i
          BY <1>1
        <4> QED
          BY <2>2, <4>1
      <3> QED
        BY <2>3, <3>1, <3>2
    <2>7. /\ Place(p, j) \in Seq(Job) /\ IsInjective(Place(p, j))
          /\ ToSet(Place(p, j)) = ToSet(p) \cup {j}
          /\ InOrder(Place(p, j), came, again)
      BY <2>3, <2>4, <2>5, <2>6, PlaceKeeps
    <2>8. {js[n] : n \in 1 .. i} = {js[n] : n \in 1 .. i - 1} \cup {js[i]}
      <3>1. 1 .. i = (1 .. i - 1) \cup {i}
        BY <1>1
      <3> QED
        BY <3>1
    <2>9. ToSet(after[i]) = ToSet(q) \cup {js[n] : n \in 1 .. i}
      BY <2>1, <2>2, <2>3, <2>7, <2>8
    <2> QED
      BY <2>1, <2>2, <2>7, <2>9
  <1>5. \A i \in 0 .. Len(js) : Good(i)
    <2>1. PICK T : T = {i \in 0 .. Len(js) : ~Good(i)}
      OBVIOUS
    <2>2. ASSUME T # {} PROVE FALSE
      <3>1. T \in SUBSET Nat
        BY <1>1, <2>1
      <3>2. PICK i \in T : \A m \in T : i <= m
        BY <2>2, <3>1, Least
      <3>3. i \in 0 .. Len(js) /\ ~Good(i)
        BY <2>1, <3>2
      <3>4. i # 0
        BY <1>3, <3>3
      <3>5. i \in 1 .. Len(js) /\ i - 1 \in 0 .. Len(js) /\ ~(i <= i - 1)
        BY <1>1, <3>3, <3>4
      <3>6. i - 1 \notin T
        BY <3>2, <3>5
      <3>7. Good(i - 1)
        BY <2>1, <3>5, <3>6
      <3> QED
        BY <1>4, <3>3, <3>5, <3>7
    <2> QED
      BY <2>1, <2>2
  <1> HIDE DEF Good
  <1>6. Good(Len(js))
    <2>1. Len(js) \in 0 .. Len(js)
      BY <1>1
    <2> QED
      BY <1>5, <2>1
  <1>7. {js[n] : n \in 1 .. Len(js)} = ToSet(js)
    BY <1>1 DEF ToSet
  <1> QED
    BY <1>2, <1>6, <1>7 DEF Good

\* Leaving a queue, joining it again, and being followed by later ones.
LEMMA PartInOrder ==
    ASSUME NEW r, NEW q, NEW came, NEW again, PartOf(r, q), InOrder(q, came, again)
    PROVE  InOrder(r, came, again)
  <1> SUFFICES ASSUME NEW m \in DOMAIN r, NEW n \in DOMAIN r, m < n, ~Contains(again, r[n])
               PROVE  /\ Priority[r[m]] >= Priority[r[n]]
                      /\ ~Contains(again, r[m]) /\ Priority[r[m]] = Priority[r[n]] =>
                            CameBefore(r[m], r[n], came)
    BY DEF InOrder
  <1>1. PICK k \in DOMAIN q, l \in DOMAIN q : k < l /\ q[k] = r[m] /\ q[l] = r[n]
    BY DEF PartOf
  <1>2. \A m1, n1 \in DOMAIN q :
           m1 < n1 /\ ~Contains(again, q[n1]) =>
             /\ Priority[q[m1]] >= Priority[q[n1]]
             /\ ~Contains(again, q[m1]) /\ Priority[q[m1]] = Priority[q[n1]] =>
                   CameBefore(q[m1], q[n1], came)
    BY DEF InOrder
  <1>3. /\ Priority[q[k]] >= Priority[q[l]]
        /\ ~Contains(again, q[k]) /\ Priority[q[k]] = Priority[q[l]] =>
              CameBefore(q[k], q[l], came)
    BY <1>1, <1>2
  <1> QED
    BY <1>1, <1>3

LEMMA AppendParts ==
    ASSUME NEW S, NEW s \in Seq(S), NEW e \in S
    PROVE  /\ Append(s, e) \in Seq(S)
           /\ \A d : Contains(Append(s, e), d) <=> Contains(s, d) \/ d = e
           /\ ToSet(Append(s, e)) = ToSet(s) \cup {e}
           /\ IsInjective(s) /\ e \notin ToSet(s) => IsInjective(Append(s, e))
  <1>1. PICK r : r = Append(s, e)
    OBVIOUS
  <1>2. /\ r \in Seq(S) /\ Len(r) = Len(s) + 1 /\ r[Len(s) + 1] = e
        /\ \A k \in 1 .. Len(s) : r[k] = s[k]
    BY <1>1, AppendProperties
  <1>3. /\ Len(s) \in Nat /\ DOMAIN s = 1 .. Len(s) /\ DOMAIN r = 1 .. Len(s) + 1
    BY <1>2, LenProperties
  <1>4. DOMAIN r = DOMAIN s \cup {Len(s) + 1}
    BY <1>3
  <1>5. ToSet(r) = ToSet(s) \cup {e}
    BY <1>2, <1>3, <1>4 DEF ToSet
  <1>6. \A d : Contains(r, d) <=> Contains(s, d) \/ d = e
    BY <1>2, <1>5, ContainsIsMember
  <1>7. IsInjective(s) /\ e \notin ToSet(s) => IsInjective(r)
    BY <1>2, <1>3, <1>4 DEF IsInjective, ToSet
  <1> QED
    BY <1>1, <1>2, <1>5, <1>6, <1>7

LEMMA AppendInOrder ==
    ASSUME NEW q \in Seq(Job), NEW j \in Job, NEW came, NEW again \in Seq(Job),
           InOrder(q, came, again)
    PROVE  InOrder(Append(q, j), came, Append(again, j))
  <1>1. PICK r, s : r = Append(q, j) /\ s = Append(again, j)
    OBVIOUS
  <1>2. /\ r \in Seq(Job) /\ Len(r) = Len(q) + 1 /\ r[Len(q) + 1] = j
        /\ \A k \in 1 .. Len(q) : r[k] = q[k]
    BY <1>1, AppendProperties
  <1>3. \A d : Contains(s, d) <=> Contains(again, d) \/ d = j
    BY <1>1, AppendParts
  <1>4. /\ Len(q) \in Nat /\ DOMAIN q = 1 .. Len(q) /\ DOMAIN r = 1 .. Len(q) + 1
    BY <1>2, LenProperties
  <1>5. ASSUME NEW m \in DOMAIN r, NEW n \in DOMAIN r, m < n, ~Contains(s, r[n])
        PROVE  /\ Priority[r[m]] >= Priority[r[n]]
               /\ ~Contains(s, r[m]) /\ Priority[r[m]] = Priority[r[n]] =>
                     CameBefore(r[m], r[n], came)
    <2>1. r[n] # j /\ ~Contains(again, r[n])
      BY <1>3, <1>5
    <2>2. n # Len(q) + 1
      BY <1>2, <2>1
    <2>3. n \in DOMAIN q /\ m \in DOMAIN q
      BY <1>4, <1>5, <2>2
    <2>4. r[n] = q[n] /\ r[m] = q[m]
      BY <1>2, <1>4, <2>3
    <2>5. ~Contains(s, r[m]) => ~Contains(again, r[m])
      BY <1>3
    <2>6. /\ Priority[q[m]] >= Priority[q[n]]
          /\ ~Contains(again, q[m]) /\ Priority[q[m]] = Priority[q[n]] =>
                CameBefore(q[m], q[n], came)
      BY <1>5, <2>1, <2>3, <2>4 DEF InOrder
    <2> QED
      BY <2>4, <2>5, <2>6
  <1>6. InOrder(r, came, s)
    BY <1>5 DEF InOrder
  <1> QED
    BY <1>1, <1>6

LEMMA LaterCameBefore ==
    ASSUME NEW j, NEW k, NEW came \in Seq(Job), NEW js \in Seq(Job),
           CameBefore(j, k, came)
    PROVE  CameBefore(j, k, came \o js)
  <1>1. PICK m \in DOMAIN came, n \in DOMAIN came : came[m] = j /\ came[n] = k /\ m < n
    BY DEF CameBefore
  <1>2. PICK c : c = came \o js
    OBVIOUS
  <1>3. /\ DOMAIN c = 1 .. Len(came) + Len(js)
        /\ \A i \in 1 .. Len(came) : c[i] = came[i]
    BY <1>2, ConcatParts
  <1>4. DOMAIN came = 1 .. Len(came) /\ Len(came) \in Nat /\ Len(js) \in Nat
    BY LenProperties
  <1>5. m \in DOMAIN c /\ n \in DOMAIN c /\ c[m] = j /\ c[n] = k
    BY <1>1, <1>3, <1>4
  <1> QED
    BY <1>1, <1>2, <1>5 DEF CameBefore

LEMMA LaterInOrder ==
    ASSUME NEW q, NEW came \in Seq(Job), NEW js \in Seq(Job), NEW again,
           InOrder(q, came, again)
    PROVE  InOrder(q, came \o js, again)
  <1> SUFFICES ASSUME NEW m \in DOMAIN q, NEW n \in DOMAIN q, m < n, ~Contains(again, q[n])
               PROVE  /\ Priority[q[m]] >= Priority[q[n]]
                      /\ ~Contains(again, q[m]) /\ Priority[q[m]] = Priority[q[n]] =>
                            CameBefore(q[m], q[n], came \o js)
    BY DEF InOrder
  <1>1. /\ Priority[q[m]] >= Priority[q[n]]
        /\ ~Contains(again, q[m]) /\ Priority[q[m]] = Priority[q[n]] =>
              CameBefore(q[m], q[n], came)
    BY DEF InOrder
  <1>2. CameBefore(q[m], q[n], came) => CameBefore(q[m], q[n], came \o js)
    BY LaterCameBefore
  <1> QED
    BY <1>1, <1>2

-----------------------------------------------------------------------------
(* The rows of waiting jobs, sorted. *)

Sorted(q) == \A m, n \in DOMAIN q : m < n => RowBefore(q[m], q[n])

LEMMA RowsComparable ==
    ASSUME QueueAssumption, created \in Seq(Job),
           NEW j \in ToSet(created), NEW k \in ToSet(created), j # k
    PROVE  RowBefore(j, k) \/ RowBefore(k, j)
  <1>1. DOMAIN created = 1 .. Len(created) /\ Len(created) \in Nat
    BY LenProperties
  <1>2. PICK m \in DOMAIN created : created[m] = j
    BY DEF ToSet
  <1>3. PICK n \in DOMAIN created : created[n] = k
    BY DEF ToSet
  <1>4. Priority[j] \in Int /\ Priority[k] \in Int
    BY <1>1, <1>2, <1>3, ElementOfSeq DEF QueueAssumption
  <1>5. m < n \/ n < m
    BY <1>1, <1>2, <1>3
  <1>6. CASE Priority[j] = Priority[k]
    BY <1>2, <1>3, <1>5, <1>6 DEF RowBefore
  <1>7. CASE Priority[j] # Priority[k]
    BY <1>4, <1>7 DEF RowBefore
  <1> QED
    BY <1>6, <1>7

LEMMA RowsTransitive ==
    ASSUME QueueAssumption, created \in Seq(Job), IsInjective(created),
           NEW j \in Job, NEW k \in Job, NEW l \in Job, RowBefore(j, k), RowBefore(k, l)
    PROVE  RowBefore(j, l)
  <1>1. DOMAIN created = 1 .. Len(created) /\ Len(created) \in Nat
    BY LenProperties
  <1>2. Priority[j] \in Int /\ Priority[k] \in Int /\ Priority[l] \in Int
    BY DEF QueueAssumption
  <1>3. CASE Priority[j] = Priority[k] /\ Priority[k] = Priority[l]
    <2>1. PICK m \in DOMAIN created, n \in DOMAIN created :
               created[m] = j /\ created[n] = k /\ m < n
      BY <1>2, <1>3 DEF RowBefore
    <2>2. PICK n2 \in DOMAIN created, o \in DOMAIN created :
               created[n2] = k /\ created[o] = l /\ n2 < o
      BY <1>2, <1>3 DEF RowBefore
    <2>3. n = n2
      BY <2>1, <2>2 DEF IsInjective
    <2>4. m < o
      BY <1>1, <2>1, <2>2, <2>3
    <2> QED
      BY <1>3, <2>1, <2>2, <2>4 DEF RowBefore
  <1>4. CASE Priority[j] # Priority[k] \/ Priority[k] # Priority[l]
    <2>1. Priority[j] >= Priority[k] /\ Priority[k] >= Priority[l]
      BY <1>2 DEF RowBefore
    <2>2. Priority[j] > Priority[l]
      BY <1>2, <1>4, <2>1
    <2> QED
      BY <2>2 DEF RowBefore
  <1> QED
    BY <1>3, <1>4

\* Insertion into a sorted sequence.
LEMMA SortedWithOneMore ==
    ASSUME QueueAssumption, created \in Seq(Job), IsInjective(created),
           NEW q \in Seq(Job), IsInjective(q), Sorted(q), NEW j \in ToSet(created),
           \A k \in ToSet(q) : k \in ToSet(created), j \notin ToSet(q)
    PROVE  \E r \in Seq(Job) : /\ IsInjective(r) /\ Sorted(r)
                               /\ ToSet(r) = ToSet(q) \cup {j}
  <1>1. Len(q) \in Nat /\ DOMAIN q = 1 .. Len(q)
    BY LenProperties
  <1>2. j \in Job
    <2>1. \A i \in DOMAIN created : created[i] \in Job
      BY LenProperties, ElementOfSeq
    <2> QED
      BY <2>1 DEF ToSet
  <1>3. \A k \in DOMAIN q : q[k] \in Job /\ q[k] \in ToSet(q)
    BY <1>1, ElementOfSeq DEF ToSet
  <1>4. PICK i \in 1 .. Len(q) + 1 :
             /\ \A k \in 1 .. Len(q) : k < i => ~RowBefore(j, q[k])
             /\ i <= Len(q) => RowBefore(j, q[i])
    <2>1. PICK T : T = {k \in 1 .. Len(q) + 1 : k <= Len(q) => RowBefore(j, q[k])}
      OBVIOUS
    <2>2. T \in SUBSET Nat
      BY <1>1, <2>1
    <2>3. Len(q) + 1 \in T
      BY <1>1, <2>1
    <2>4. PICK i \in T : \A k \in T : i <= k
      BY <2>2, <2>3, Least
    <2>5. i \in 1 .. Len(q) + 1 /\ (i <= Len(q) => RowBefore(j, q[i]))
      BY <2>1, <2>4
    <2>6. ASSUME NEW k \in 1 .. Len(q), k < i PROVE ~RowBefore(j, q[k])
      <3>1. k \notin T
        BY <1>1, <2>4, <2>5, <2>6
      <3> QED
        BY <1>1, <2>1, <3>1
    <2> QED
      BY <2>5, <2>6
  <1>5. \A k \in 1 .. Len(q) : k < i => RowBefore(q[k], j)
    <2> SUFFICES ASSUME NEW k \in 1 .. Len(q), k < i PROVE RowBefore(q[k], j)
      OBVIOUS
    <2>1. q[k] \in ToSet(created) /\ q[k] # j /\ ~RowBefore(j, q[k])
      BY <1>1, <1>3, <1>4
    <2> QED
      BY <2>1, RowsComparable
  <1>6. \A k \in 1 .. Len(q) : i <= k => RowBefore(j, q[k])
    <2> SUFFICES ASSUME NEW k \in 1 .. Len(q), i <= k PROVE RowBefore(j, q[k])
      OBVIOUS
    <2>1. i \in 1 .. Len(q) /\ RowBefore(j, q[i])
      BY <1>1, <1>4
    <2>2. i = k \/ RowBefore(q[i], q[k])
      <3>1. i = k \/ i < k
        BY <1>1, <2>1
      <3>2. i \in DOMAIN q /\ k \in DOMAIN q
        BY <1>1, <2>1
      <3> QED
        BY <3>1, <3>2 DEF Sorted
    <2>3. q[i] \in Job /\ q[k] \in Job
      BY <1>1, <1>3, <2>1
    <2> QED
      BY <1>2, <2>1, <2>2, <2>3, RowsTransitive
  <1>7. PICK r : r = InsertAt(q, i, j)
    OBVIOUS
  <1>8. /\ r \in Seq(Job) /\ Len(r) = Len(q) + 1 /\ r[i] = j
        /\ \A k \in 1 .. Len(q) : k < i => r[k] = q[k]
        /\ \A k \in 1 .. Len(q) : i <= k => r[k + 1] = q[k]
        /\ IsInjective(r) /\ ToSet(r) = ToSet(q) \cup {j}
    <2>1. /\ r \in Seq(Job) /\ Inserted(r, q, i, j)
          /\ IsInjective(r) /\ ToSet(r) = ToSet(q) \cup {j}
      BY <1>2, <1>7, InsertKeeps
    <2> QED
      BY <2>1 DEF Inserted
  <1>9. DOMAIN r = 1 .. Len(q) + 1
    BY <1>8, LenProperties
  <1>10. ASSUME NEW n \in DOMAIN r, n # i
         PROVE  \E l \in DOMAIN q : l = (IF n < i THEN n ELSE n - 1) /\ r[n] = q[l]
    <2>1. CASE n < i
      BY <1>1, <1>8, <1>9, <2>1
    <2>2. CASE ~(n < i)
      <3>1. PICK l \in DOMAIN q : l = n - 1
        BY <1>1, <1>9, <1>10, <2>2
      <3>2. i <= l /\ l + 1 = n
        BY <1>1, <1>9, <1>10, <2>2, <3>1
      <3>3. r[n] = q[l]
        BY <1>1, <1>8, <3>2
      <3> QED
        BY <2>2, <3>1, <3>3
    <2> QED
      BY <2>1, <2>2
  <1>11. Sorted(r)
    <2> SUFFICES ASSUME NEW m \in DOMAIN r, NEW n \in DOMAIN r, m < n
                 PROVE  RowBefore(r[m], r[n])
      BY DEF Sorted
    <2>1. CASE m = i
      <3>1. PICK l \in DOMAIN q : l = (IF n < i THEN n ELSE n - 1) /\ r[n] = q[l]
        BY <1>9, <1>10, <2>1
      <3>2. i <= l
        BY <1>1, <1>9, <2>1, <3>1
      <3> QED
        BY <1>1, <1>6, <1>8, <2>1, <3>1, <3>2
    <2>2. CASE n = i
      <3>1. PICK l \in DOMAIN q : l = (IF m < i THEN m ELSE m - 1) /\ r[m] = q[l]
        BY <1>9, <1>10, <2>2
      <3>2. l < i
        BY <1>1, <1>9, <2>2, <3>1
      <3> QED
        BY <1>1, <1>5, <1>8, <2>2, <3>1, <3>2
    <2>3. CASE m # i /\ n # i
      <3>1. PICK k \in DOMAIN q : k = (IF m < i THEN m ELSE m - 1) /\ r[m] = q[k]
        BY <1>10, <2>3
      <3>2. PICK l \in DOMAIN q : l = (IF n < i THEN n ELSE n - 1) /\ r[n] = q[l]
        BY <1>10, <2>3
      <3>3. k < l
        BY <1>1, <1>9, <2>3, <3>1, <3>2
      <3> QED
        BY <3>1, <3>2, <3>3 DEF Sorted
    <2> QED
      BY <2>1, <2>2, <2>3
  <1> QED
    BY <1>8, <1>11

LEMMA SomeOrder ==
    ASSUME QueueAssumption, created \in Seq(Job), IsInjective(created),
           NEW S \in SUBSET ToSet(created)
    PROVE  \E q \in Seq(Job) : IsInjective(q) /\ Sorted(q) /\ ToSet(q) = S
  <1>1. DOMAIN created = 1 .. Len(created) /\ Len(created) \in Nat
    BY LenProperties
  <1> DEFINE Upto(n) == {j \in S : \E m \in 1 .. n : created[m] = j}
             Done(n) == \E q \in Seq(Job) : /\ IsInjective(q) /\ Sorted(q)
                                            /\ ToSet(q) = Upto(n)
  <1>2. Done(0)
    <2>1. PICK q \in Seq(Job) : q = <<>>
      BY EmptySeq
    <2>2. DOMAIN q = {}
      BY <2>1
    <2>3. IsInjective(q) /\ Sorted(q)
      BY <2>2 DEF IsInjective, Sorted
    <2>4. ToSet(q) = {}
      BY <2>2 DEF ToSet
    <2>5. Upto(0) = {}
      OBVIOUS
    <2> QED
      BY <2>3, <2>4, <2>5
  <1>3. ASSUME NEW n \in 1 .. Len(created), Done(n - 1) PROVE Done(n)
    <2>1. PICK q \in Seq(Job) : IsInjective(q) /\ Sorted(q) /\ ToSet(q) = Upto(n - 1)
      BY <1>3
    <2>2. PICK j : j = created[n]
      OBVIOUS
    <2>3. j \in ToSet(created)
      BY <1>1, <2>2 DEF ToSet
    <2>4. CASE j \in S
      <3>1. Upto(n) = Upto(n - 1) \cup {j}
        <4>1. 1 .. n = (1 .. n - 1) \cup {n}
          BY <1>1
        <4>2. \A k : (\E m \in 1 .. n : created[m] = k)
                        <=> (\E m \in 1 .. n - 1 : created[m] = k) \/ k = j
          BY <2>2, <4>1
        <4> QED
          BY <2>4, <4>2
      <3>2. j \notin Upto(n - 1)
        <4> SUFFICES ASSUME NEW m \in 1 .. n - 1, created[m] = j PROVE FALSE
          OBVIOUS
        <4>1. m \in DOMAIN created /\ n \in DOMAIN created /\ m # n
          BY <1>1
        <4> QED
          BY <2>2, <4>1 DEF IsInjective
      <3>3. (\A k \in ToSet(q) : k \in ToSet(created)) /\ j \notin ToSet(q)
        BY <2>1, <3>2
      <3>4. \E r \in Seq(Job) : /\ IsInjective(r) /\ Sorted(r)
                                /\ ToSet(r) = ToSet(q) \cup {j}
        BY <2>1, <2>3, <3>3, SortedWithOneMore
      <3> QED
        BY <2>1, <3>1, <3>4
    <2>5. CASE j \notin S
      <3>1. Upto(n) = Upto(n - 1)
        BY <1>1, <2>2, <2>5
      <3> QED
        BY <2>1, <3>1
    <2> QED
      BY <2>4, <2>5
  <1>4. Upto(Len(created)) = S
    BY <1>1 DEF ToSet
  <1> HIDE DEF Done
  <1>5. \A n \in 0 .. Len(created) : Done(n)
    <2>1. PICK T : T = {n \in 0 .. Len(created) : ~Done(n)}
      OBVIOUS
    <2>2. ASSUME T # {} PROVE FALSE
      <3>1. T \in SUBSET Nat
        BY <1>1, <2>1
      <3>2. PICK n \in T : \A m \in T : n <= m
        BY <2>2, <3>1, Least
      <3>3. n \in 0 .. Len(created) /\ ~Done(n)
        BY <2>1, <3>2
      <3>4. n # 0
        BY <1>2, <3>3
      <3>5. n \in 1 .. Len(created) /\ n - 1 \in 0 .. Len(created) /\ ~(n <= n - 1)
        BY <1>1, <3>3, <3>4
      <3>6. n - 1 \notin T
        BY <3>2, <3>5
      <3>7. Done(n - 1)
        BY <2>1, <3>5, <3>6
      <3> QED
        BY <1>3, <3>3, <3>5, <3>7
    <2> QED
      BY <2>1, <2>2
  <1>6. Done(Len(created))
    <2>1. Len(created) \in 0 .. Len(created)
      BY <1>1
    <2> QED
      BY <1>5, <2>1
  <1> QED
    BY <1>4, <1>6 DEF Done

LEMMA InRowOrderProperties ==
    ASSUME QueueAssumption, created \in Seq(Job), IsInjective(created),
           NEW S \in SUBSET ToSet(created)
    PROVE  /\ InRowOrder(S) \in Seq(Job) /\ IsInjective(InRowOrder(S))
           /\ ToSet(InRowOrder(S)) = S /\ Sorted(InRowOrder(S))
  <1>1. PICK q \in Seq(Job) : IsInjective(q) /\ Sorted(q) /\ ToSet(q) = S
    BY SomeOrder
  <1>2. Len(q) \in Nat /\ DOMAIN q = 1 .. Len(q)
    BY LenProperties
  <1>3. q \in [1 .. Len(q) -> S]
    <2>1. \A i \in 1 .. Len(q) : q[i] \in S
      BY <1>1, <1>2 DEF ToSet
    <2>2. q = [i \in 1 .. Len(q) |-> q[i]]
      BY <1>2
    <2> QED
      BY <2>1, <2>2
  <1>4. q \in Bijection(1 .. Len(q), S)
    <2>1. q \in Injection(1 .. Len(q), S)
      BY <1>1, <1>3 DEF Injection
    <2>2. \A t \in S : \E i \in 1 .. Len(q) : q[i] = t
      BY <1>1, <1>2 DEF ToSet
    <2> QED
      BY <1>3, <2>1, <2>2 DEF Bijection, Surjection
  <1>5. ExistsBijection(1 .. Len(q), S)
    BY <1>4 DEF ExistsBijection
  <1>6. Cardinality(S) = Len(q) /\ IsFiniteSet(S)
    BY <1>2, <1>5, FS_CountingElements, FS_NatBijection
  <1>7. q \in SetToSeqs(S)
    <2>1. \A i, k \in 1 .. Cardinality(S) : i # k => q[i] # q[k]
      BY <1>1, <1>2, <1>6 DEF IsInjective
    <2> QED
      BY <1>3, <1>6, <2>1 DEF SetToSeqs
  <1>8. PICK r : r = InRowOrder(S)
    OBVIOUS
  <1>9. r \in SetToSeqs(S) /\ Sorted(r)
    BY <1>1, <1>7, <1>8 DEF InRowOrder, Sorted
  <1>10. PICK n \in Nat : n = Cardinality(S)
    BY <1>2, <1>6
  <1>11. r \in [1 .. n -> S] /\ \A i, k \in 1 .. n : i # k => r[i] # r[k]
    BY <1>9, <1>10 DEF SetToSeqs
  <1>12. IsInjective(r) /\ r \in Injection(1 .. n, S)
    <2>1. IsInjective(r)
      BY <1>11 DEF IsInjective
    <2> QED
      BY <1>11, <2>1 DEF Injection
  <1>13. Cardinality(1 .. n) = n
    BY FS_Interval
  <1>14. r \in Surjection(1 .. n, S)
    BY <1>6, <1>10, <1>12, <1>13, FS_Injection
  <1>15. ToSet(r) = S
    <2>1. \A t \in S : \E i \in 1 .. n : r[i] = t
      BY <1>14 DEF Surjection
    <2> QED
      BY <1>11, <2>1 DEF ToSet
  <1>16. r \in Seq(Job)
    <2>1. S \subseteq Job
      <3>1. \A i \in DOMAIN created : created[i] \in Job
        BY LenProperties, ElementOfSeq
      <3> QED
        BY <3>1 DEF ToSet
    <2>2. r \in [1 .. n -> Job]
      BY <1>11, <2>1
    <2> QED
      BY <2>2, SeqDef
  <1> QED
    BY <1>8, <1>9, <1>12, <1>15, <1>16

-----------------------------------------------------------------------------
(* The steps that end a job, put it back or take it up. *)

LEMMA Singleton ==
    ASSUME NEW j \in Job
    PROVE  /\ <<j>> \in Seq(Job) /\ \A k : Contains(<<j>>, k) <=> k = j
           /\ <<>> \in Seq(Job) /\ \A k : ~Contains(<<>>, k)
  BY DEF Contains

\* With no upsert outstanding the rows are as the jobs are.
LEMMA AllSaved ==
    ASSUME Core, phase = "up", unsaved = <<>>
    PROVE  \A j \in Job : store[j].status = job[j].status
  <1>1. \A j : ~Contains(<<>>, j)
    BY DEF Contains
  <1> QED
    BY <1>1 DEF Core, Stored

LEMMA QueuedAre ==
    ASSUME Core
    PROVE  /\ \A j \in Job : Contains(queued, j) <=> job[j].status = "queued"
           /\ \A j \in Job : j \in running <=> job[j].status = "running"
           /\ \A j \in Job : job[j].status # "new" => Contains(created, j)
           /\ \A w \in Worker, j \in Job :
                Rendering(w, j) <=> worker[w].job = j /\ job[j].status = "running"
  <1>1. \A j \in Job : Contains(queued, j) <=> job[j].status = "queued"
    BY ContainsIsMember DEF Core, TypeOK, Partitioned, With
  <1>2. \A j \in Job : j \in running <=> job[j].status = "running"
    BY DEF Core, Partitioned, With
  <1>3. \A j \in Job : job[j].status # "new" => Contains(created, j)
    BY DEF Core, Known, NewJob
  <1> QED
    BY <1>1, <1>2, <1>3 DEF Rendering

LEMMA FinishKeeps ==
    ASSUME Core, NEW j \in Job, NEW status \in Terminal, Finish(j, status),
           job[j].status \in {"queued", "running"},
           phase = "up", unsaved = <<>>, unsaved' = <<j>>,
           UNCHANGED <<store, phase, crashes>>,
           worker' \in [Worker -> [job: Job \cup {NoJob}, frame: 0 .. FrameCount]],
           \A w \in Worker : worker'[w].job \in Job => worker'[w] = worker[w],
           Held'
    PROVE  Core'
  <1> USE DEF Core
  <1>1. /\ queued' = RemoveFirst(queued, j)
        /\ running' = running \ {j} /\ completed' = completed \cup {j}
        /\ job' = [job EXCEPT ![j].status = status]
        /\ created' = created /\ rendered' = rendered /\ resumed' = resumed
    BY DEF Finish
  <1>2. /\ job' \in [Job -> JobRecord]
        /\ job'[j].status = status
        /\ \A k \in Job : k # j => job'[k] = job[k]
    <2>1. status \in Status /\ job \in [Job -> JobRecord]
      BY DEF Status, TypeOK
    <2>2. \A k \in Job : k # j => job'[k] = job[k]
      BY <1>1, <2>1
    <2>3. job'[j] = [job[j] EXCEPT !.status = status] /\ job[j] \in JobRecord
      BY <1>1, <2>1
    <2>4. /\ job'[j] \in JobRecord
          /\ job'[j].status = status /\ job'[j].frames = job[j].frames
      BY <2>1, <2>3 DEF JobRecord
    <2>5. job' \in [Job -> JobRecord]
      BY <1>1, <2>1, <2>2, <2>4
    <2> QED
      BY <2>2, <2>4, <2>5
  <1>3. /\ queued' \in Seq(Job) /\ IsInjective(queued')
        /\ PartOf(queued', queued) /\ ToSet(queued') = ToSet(queued) \ {j}
    BY <1>1, RemoveFirstProperties DEF TypeOK, Partitioned
  <1>4. \A k : Contains(unsaved', k) <=> k = j
    BY Singleton
  <1>5. TypeOK'
    <2>1. unsaved' \in Seq(Job)
      BY Singleton
    <2> QED
      BY <1>1, <1>2, <1>3, <2>1 DEF TypeOK
  <1>6. Partitioned'
    <2>1. status \notin {"queued", "running", "new"}
      BY DEF Terminal
    <2>2. job[j].status \notin Terminal
      BY DEF Terminal
    <2>3. ToSet(queued') = With({"queued"})'
      BY <1>2, <1>3, <2>1 DEF Partitioned, With
    <2>4. running' = With({"running"})'
      BY <1>1, <1>2, <2>1 DEF Partitioned, With
    <2>5. completed' = With(Terminal)'
      BY <1>1, <1>2 DEF Partitioned, With
    <2> QED
      BY <1>3, <2>3, <2>4, <2>5 DEF Partitioned
  <1>7. Known'
    <2>1. Contains(created, j)
      BY QueuedAre
    <2> QED
      BY <1>1, <1>2, <2>1 DEF Known
  <1>8. Stored'
    BY <1>2, <1>4, AllSaved DEF Stored
  <1>9. Frames'
    <2>1. status \notin {"queued", "running"}
      BY DEF Terminal
    <2>2. \A w \in Worker, k \in Job : Rendering(w, k)' => Rendering(w, k) /\ worker'[w] = worker[w]
      BY <1>1 DEF Rendering
    <2> SUFFICES ASSUME NEW k \in Job, ~Contains(resumed, k)
                 PROVE  /\ store[k].status \in {"queued", "running"} =>
                             store[k].frames = rendered[k]
                        /\ job'[k].status = "queued" => job'[k].frames = rendered[k]
                        /\ job'[k].status = "running" /\ Contains(unsaved', k) =>
                             job'[k].frames = rendered[k]
                        /\ \A w \in Worker : Rendering(w, k)' => worker'[w].frame = rendered[k]
      BY <1>1 DEF Frames
    <2>3. \A w \in Worker : Rendering(w, k)' => worker'[w].frame = rendered[k]
      BY <2>2 DEF Frames
    <2>4. job'[k].status = "queued" => job'[k].frames = rendered[k]
      BY <1>2, <2>1 DEF Frames
    <2>5. ~(job'[k].status = "running" /\ Contains(unsaved', k))
      BY <1>2, <1>4, <2>1
    <2> QED
      BY <2>3, <2>4, <2>5 DEF Frames
  <1>10. Ordered'
    <2>1. InOrder(queued', created, resumed)
      BY <1>3, PartInOrder DEF Ordered
    <2> QED
      BY <1>1, <2>1 DEF Ordered, InOrder, CameBefore
  <1> QED
    BY <1>5, <1>6, <1>7, <1>8, <1>9, <1>10

\* The worker that has the job lets go of it.
LEMMA ReleaseKeepsHeld ==
    ASSUME QueueAssumption, Core, NEW w \in Worker, NEW j \in Job, NEW status \in Terminal,
           Rendering(w, j), Finish(j, status), Release(w)
    PROVE  /\ Held'
           /\ worker' \in [Worker -> [job: Job \cup {NoJob}, frame: 0 .. FrameCount]]
           /\ \A v \in Worker : worker'[v].job \in Job => worker'[v] = worker[v]
  <1> USE DEF Core
  <1>1. /\ \A v \in Worker : worker'[v] = IF v = w THEN IdleWorker ELSE worker[v]
        /\ worker' \in [Worker -> [job: Job \cup {NoJob}, frame: 0 .. FrameCount]]
    <2>1. IdleWorker \in [job: Job \cup {NoJob}, frame: 0 .. FrameCount]
      BY DEF IdleWorker, QueueAssumption
    <2> QED
      BY <2>1 DEF Release, TypeOK
  <1>2. NoJob \notin Job /\ IdleWorker.job = NoJob
    BY DEF QueueAssumption, IdleWorker
  <1>3. /\ running' = running \ {j} /\ \A k \in Job : k # j => job'[k] = job[k]
    BY DEF Finish, TypeOK
  <1>4. worker[w].job = j /\ j \in running
    BY DEF Rendering
  <1>5. \A v \in Worker : worker[v].job = j <=> v = w
    BY <1>4 DEF Held, RunningHasWorker
  <1>6. RunningHasWorker'
    <2> SUFFICES ASSUME NEW k \in running, k # j
                 PROVE  \E u \in Worker : \A v \in Worker : worker'[v].job = k <=> v = u
      BY <1>3 DEF RunningHasWorker
    <2>1. PICK u \in Worker : \A v \in Worker : worker[v].job = k <=> v = u
      BY DEF Held, RunningHasWorker
    <2>2. u # w /\ k \in Job
      BY <1>4, <2>1 DEF Partitioned, With
    <2>3. \A v \in Worker : worker'[v].job = k <=> v = u
      BY <1>1, <1>2, <2>1, <2>2
    <2> QED
      BY <2>3
  <1>7. ASSUME NEW v \in Worker, worker'[v].job # NoJob
        PROVE  job'[worker'[v].job].status \in {"running", "cancelled"}
    <2>1. v # w /\ worker'[v] = worker[v]
      BY <1>1, <1>2, <1>7
    <2>2. worker[v].job # j /\ worker[v].job \in Job
      BY <1>5, <1>7, <2>1 DEF TypeOK
    <2> QED
      BY <1>3, <1>7, <2>1, <2>2 DEF Held
  <1> QED
    BY <1>1, <1>2, <1>6, <1>7 DEF Held

LEMMA CompleteKeeps ==
    ASSUME QueueAssumption, Core, NEW w \in Worker, NEW j \in Job, Mutate(Complete(w, j), <<j>>)
    PROVE  Core'
  <1>1. /\ Rendering(w, j) /\ Finish(j, "completed") /\ Release(w)
        /\ phase = "up" /\ unsaved = <<>> /\ unsaved' = <<j>>
        /\ UNCHANGED <<store, phase, crashes>>
    BY DEF Mutate, Complete
  <1>2. "completed" \in Terminal /\ job[j].status \in {"queued", "running"}
    BY <1>1, QueuedAre DEF Terminal
  <1>3. /\ Held'
        /\ worker' \in [Worker -> [job: Job \cup {NoJob}, frame: 0 .. FrameCount]]
        /\ \A v \in Worker : worker'[v].job \in Job => worker'[v] = worker[v]
    BY <1>1, <1>2, ReleaseKeepsHeld
  <1> QED
    BY <1>1, <1>2, <1>3, FinishKeeps

LEMMA FailKeeps ==
    ASSUME QueueAssumption, Core, NEW w \in Worker, NEW j \in Job, Mutate(Fail(w, j), <<j>>)
    PROVE  Core'
  <1>1. /\ Rendering(w, j) /\ Finish(j, "failed") /\ Release(w)
        /\ phase = "up" /\ unsaved = <<>> /\ unsaved' = <<j>>
        /\ UNCHANGED <<store, phase, crashes>>
    BY DEF Mutate, Fail
  <1>2. "failed" \in Terminal /\ job[j].status \in {"queued", "running"}
    BY <1>1, QueuedAre DEF Terminal
  <1>3. /\ Held'
        /\ worker' \in [Worker -> [job: Job \cup {NoJob}, frame: 0 .. FrameCount]]
        /\ \A v \in Worker : worker'[v].job \in Job => worker'[v] = worker[v]
    BY <1>1, <1>2, ReleaseKeepsHeld
  <1> QED
    BY <1>1, <1>2, <1>3, FinishKeeps

\* Others than the worker end the job: it may still be at it, if it is cancelled.
LEMMA EndKeepsHeld ==
    ASSUME Core, NEW j \in Job, NEW status \in Terminal, Finish(j, status),
           UNCHANGED worker, status = "cancelled" \/ job[j].status = "queued"
    PROVE  Held'
  <1> USE DEF Core
  <1>1. /\ running' = running \ {j} /\ \A k \in Job : k # j => job'[k] = job[k]
        /\ job'[j].status = status
    BY DEF Finish, TypeOK
  <1>2. RunningHasWorker'
    BY <1>1 DEF Held, RunningHasWorker
  <1>3. ASSUME NEW v \in Worker, worker[v].job # NoJob
        PROVE  job'[worker[v].job].status \in {"running", "cancelled"}
    <2>1. worker[v].job \in Job /\ job[worker[v].job].status \in {"running", "cancelled"}
      BY <1>3 DEF Held, TypeOK
    <2>2. CASE worker[v].job = j
      <3>1. status = "cancelled"
        BY <2>1, <2>2
      <3> QED
        BY <1>1, <2>2, <3>1
    <2>3. CASE worker[v].job # j
      BY <1>1, <2>1, <2>3
    <2> QED
      BY <2>2, <2>3
  <1> QED
    BY <1>2, <1>3 DEF Held

LEMMA EndKeeps ==
    ASSUME QueueAssumption, Core, NEW j \in Job,
           Mutate(FailQueued(j), <<j>>) \/ Mutate(Cancel(j), <<j>>)
    PROVE  Core'
  <1>1. PICK status \in Terminal :
           /\ Finish(j, status) /\ UNCHANGED worker
           /\ job[j].status \in {"queued", "running"}
           /\ status = "cancelled" \/ job[j].status = "queued"
    <2>1. "failed" \in Terminal /\ "cancelled" \in Terminal
      BY DEF Terminal
    <2>2. CASE Mutate(FailQueued(j), <<j>>)
      BY <2>1, <2>2, QueuedAre DEF Mutate, FailQueued
    <2>3. CASE Mutate(Cancel(j), <<j>>)
      BY <2>1, <2>3, QueuedAre DEF Mutate, Cancel
    <2> QED
      BY <2>2, <2>3
  <1>2. /\ phase = "up" /\ unsaved = <<>> /\ unsaved' = <<j>>
        /\ UNCHANGED <<store, phase, crashes>>
    BY DEF Mutate
  <1>3. Held'
    BY <1>1, EndKeepsHeld
  <1>4. /\ worker' \in [Worker -> [job: Job \cup {NoJob}, frame: 0 .. FrameCount]]
        /\ \A v \in Worker : worker'[v].job \in Job => worker'[v] = worker[v]
    BY <1>1 DEF Core, TypeOK
  <1> QED
    BY <1>1, <1>2, <1>3, <1>4, FinishKeeps

LEMMA AdmitKeeps ==
    ASSUME QueueAssumption, Core, NEW w \in Worker,
           queued # <<>>, Mutate(Admit(w), <<Head(queued)>>)
    PROVE  Core'
  <1> USE DEF Core
  <1>1. \A s \in Seq(Job) : IsInjective(s) /\ s # <<>> =>
           /\ Head(s) \in ToSet(s) /\ Head(s) \in Job
           /\ Tail(s) \in Seq(Job) /\ IsInjective(Tail(s)) /\ PartOf(Tail(s), s)
           /\ ToSet(Tail(s)) = ToSet(s) \ {Head(s)}
    BY TailProperties
  <1>2. PICK j : j = Head(queued)
    OBVIOUS
  <1>3. /\ j \in ToSet(queued) /\ j \in Job
        /\ Tail(queued) \in Seq(Job) /\ IsInjective(Tail(queued))
        /\ PartOf(Tail(queued), queued) /\ ToSet(Tail(queued)) = ToSet(queued) \ {j}
    BY <1>1, <1>2 DEF TypeOK, Partitioned
  <1>4. /\ worker[w].job = NoJob
        /\ queued' = Tail(queued) /\ running' = running \cup {j}
        /\ job' = [job EXCEPT ![j].status = "running"]
        /\ worker' = [worker EXCEPT ![w] = [job |-> j, frame |-> job[j].frames]]
        /\ UNCHANGED <<completed, created, rendered, resumed>>
        /\ phase = "up" /\ unsaved = <<>> /\ unsaved' = <<j>>
        /\ UNCHANGED <<store, phase, crashes>>
    BY <1>2 DEF Mutate, Admit
  <1>5. job[j].status = "queued"
    BY <1>3 DEF Partitioned, With
  <1>6. /\ job' \in [Job -> JobRecord]
        /\ job'[j].status = "running" /\ job'[j].frames = job[j].frames
        /\ \A k \in Job : k # j => job'[k] = job[k]
    <2>1. /\ "running" \in Status /\ job \in [Job -> JobRecord]
          /\ j \in Job /\ job' = [job EXCEPT ![j].status = "running"]
      BY <1>3, <1>4 DEF Status, TypeOK
    <2>2. \A k \in Job : k # j => job'[k] = job[k]
      BY <2>1
    <2>3. job'[j] = [job[j] EXCEPT !.status = "running"] /\ job[j] \in JobRecord
      BY <2>1
    <2>4. /\ job'[j] \in JobRecord
          /\ job'[j].status = "running" /\ job'[j].frames = job[j].frames
      BY <2>1, <2>3 DEF JobRecord
    <2>5. job' \in [Job -> JobRecord]
      BY <2>1, <2>2, <2>4
    <2> QED
      BY <2>2, <2>4, <2>5
  <1>7. /\ worker' \in [Worker -> [job: Job \cup {NoJob}, frame: 0 .. FrameCount]]
        /\ \A v \in Worker : v # w => worker'[v] = worker[v]
        /\ worker'[w].job = j /\ worker'[w].frame = job[j].frames
    <2>1. job[j].frames \in 0 .. FrameCount
      BY <1>3 DEF TypeOK, JobRecord
    <2> QED
      BY <1>3, <1>4, <2>1 DEF TypeOK
  <1>8. \A k : Contains(unsaved', k) <=> k = j
    BY <1>3, <1>4, Singleton
  <1>9. \A v \in Worker : worker[v].job # j
    <2>1. NoJob \notin Job
      BY DEF QueueAssumption
    <2> QED
      BY <1>3, <1>5, <2>1 DEF Held
  <1>10. TypeOK'
    <2>1. unsaved' \in Seq(Job)
      BY <1>3, <1>4, Singleton
    <2> QED
      BY <1>3, <1>4, <1>6, <1>7, <2>1 DEF TypeOK
  <1>11. Partitioned'
    <2>1. ToSet(queued') = With({"queued"})'
      BY <1>3, <1>4, <1>6 DEF Partitioned, With
    <2>2. running' = With({"running"})'
      BY <1>3, <1>4, <1>6 DEF Partitioned, With
    <2>3. completed' = With(Terminal)'
      BY <1>3, <1>4, <1>5, <1>6 DEF Partitioned, With, Terminal
    <2> QED
      BY <1>3, <1>4, <2>1, <2>2, <2>3 DEF Partitioned
  <1>12. Known'
    <2>1. Contains(created, j)
      BY <1>3, <1>5, QueuedAre
    <2> QED
      BY <1>4, <1>6, <2>1 DEF Known
  <1>13. Held'
    <2>1. RunningHasWorker'
      <3> SUFFICES ASSUME NEW k \in running \cup {j}
                   PROVE  \E u \in Worker : \A v \in Worker : worker'[v].job = k <=> v = u
        BY <1>4 DEF RunningHasWorker
      <3>1. CASE k = j
        BY <1>7, <1>9, <3>1
      <3>2. CASE k # j
        <4>1. PICK u \in Worker : \A v \in Worker : worker[v].job = k <=> v = u
          BY <3>2 DEF Held, RunningHasWorker
        <4>2. k \in Job
          BY <3>2 DEF Partitioned, With
        <4>3. u # w
          BY <1>4, <4>1, <4>2 DEF QueueAssumption
        <4>4. \A v \in Worker : worker'[v].job = k <=> v = u
          BY <1>7, <3>2, <4>1, <4>3
        <4> QED
          BY <4>4
      <3> QED
        BY <3>1, <3>2
    <2>2. ASSUME NEW v \in Worker, worker'[v].job # NoJob
          PROVE  job'[worker'[v].job].status \in {"running", "cancelled"}
      <3>1. CASE v = w
        BY <1>6, <1>7, <3>1
      <3>2. CASE v # w
        <4>1. worker'[v] = worker[v] /\ worker[v].job # j /\ worker[v].job \in Job
          BY <1>7, <1>9, <2>2, <3>2 DEF TypeOK
        <4> QED
          BY <1>6, <2>2, <4>1 DEF Held
      <3> QED
        BY <3>1, <3>2
    <2> QED
      BY <2>1, <2>2 DEF Held
  <1>14. Stored'
    BY <1>4, <1>6, <1>8, AllSaved DEF Stored
  <1>15. Frames'
    <2> SUFFICES ASSUME NEW k \in Job, ~Contains(resumed, k)
                 PROVE  /\ store[k].status \in {"queued", "running"} =>
                             store[k].frames = rendered[k]
                        /\ job'[k].status = "queued" => job'[k].frames = rendered[k]
                        /\ job'[k].status = "running" /\ Contains(unsaved', k) =>
                             job'[k].frames = rendered[k]
                        /\ \A v \in Worker : Rendering(v, k)' => worker'[v].frame = rendered[k]
      BY <1>4 DEF Frames
    <2>1. k = j => job[k].frames = rendered[k]
      BY <1>5 DEF Frames
    <2>2. job'[k].status = "queued" => job'[k].frames = rendered[k]
      BY <1>6 DEF Frames
    <2>3. job'[k].status = "running" /\ Contains(unsaved', k) =>
             job'[k].frames = rendered[k]
      BY <1>6, <1>8, <2>1
    <2>4. ASSUME NEW v \in Worker, Rendering(v, k)' PROVE worker'[v].frame = rendered[k]
      <3>1. CASE v = w
        <4>1. k = j
          BY <1>7, <2>4, <3>1 DEF Rendering
        <4> QED
          BY <1>7, <2>1, <3>1, <4>1
      <3>2. CASE v # w
        <4>1. worker'[v] = worker[v] /\ worker[v].job = k /\ k # j /\ k \in running
          BY <1>4, <1>7, <1>9, <2>4, <3>2 DEF Rendering
        <4> QED
          BY <4>1 DEF Frames, Rendering
      <3> QED
        BY <3>1, <3>2
    <2> QED
      BY <2>2, <2>3, <2>4 DEF Frames
  <1>16. Ordered'
    <2>1. InOrder(Tail(queued), created, resumed)
      BY <1>3, PartInOrder DEF Ordered
    <2> QED
      BY <1>4, <2>1 DEF Ordered, InOrder, CameBefore
  <1> QED
    BY <1>10, <1>11, <1>12, <1>13, <1>14, <1>15, <1>16

LEMMA RecordFrameKeeps ==
    ASSUME QueueAssumption, Core, NEW w \in Worker, RecordFrame(w)
    PROVE  Core'
  <1> USE DEF Core
  <1>1. PICK j \in Job : Rendering(w, j)
    BY DEF RecordFrame, RenderFrame
  <1>2. worker[w].job = j /\ job[j].status = "running" /\ j \in running
    BY <1>1, QueuedAre DEF Rendering
  <1>3. PICK f : f = worker[w].frame + 1
    OBVIOUS
  <1>4. /\ worker' = [worker EXCEPT ![w].frame = f]
        /\ worker[w].frame < FrameCount
        /\ UNCHANGED <<queue, created, resumed>>
        /\ phase = "up" /\ unsaved = <<>>
        /\ UNCHANGED <<unsaved, phase, crashes>>
    BY <1>3 DEF RecordFrame, RenderFrame
  <1>5. f \in 0 .. FrameCount
    <2>1. worker[w].frame \in 0 .. FrameCount /\ FrameCount \in Nat
      BY DEF TypeOK, QueueAssumption
    <2> QED
      BY <1>3, <1>4, <2>1
  <1>6. /\ worker' \in [Worker -> [job: Job \cup {NoJob}, frame: 0 .. FrameCount]]
        /\ worker'[w].frame = f
        /\ \A v \in Worker : worker'[v].job = worker[v].job
        /\ \A v \in Worker : v # w => worker'[v] = worker[v]
    <2>1. worker \in [Worker -> [job: Job \cup {NoJob}, frame: 0 .. FrameCount]]
      BY DEF TypeOK
    <2>2. \A v \in Worker : v # w => worker'[v] = worker[v]
      BY <1>4, <2>1
    <2>3. worker'[w] = [worker[w] EXCEPT !.frame = f]
      BY <1>4, <2>1
    <2>4. /\ worker'[w] \in [job: Job \cup {NoJob}, frame: 0 .. FrameCount]
          /\ worker'[w].frame = f /\ worker'[w].job = worker[w].job
      BY <1>5, <2>1, <2>3
    <2>5. worker' \in [Worker -> [job: Job \cup {NoJob}, frame: 0 .. FrameCount]]
      BY <1>4, <2>1, <2>2, <2>4
    <2> QED
      BY <2>2, <2>4, <2>5
  <1>7. /\ rendered' = [rendered EXCEPT ![j] = f]
        /\ store' = [store EXCEPT ![j] = [status |-> "running", frames |-> f]]
    BY <1>2, <1>6 DEF RecordFrame, RenderFrame, WriteRow
  <1>8. /\ rendered' \in [Job -> 0 .. FrameCount] /\ rendered'[j] = f
        /\ \A k \in Job : k # j => rendered'[k] = rendered[k]
    BY <1>5, <1>7 DEF TypeOK
  <1>9. /\ store' \in [Job -> JobRecord]
        /\ store'[j].status = "running" /\ store'[j].frames = f
        /\ \A k \in Job : k # j => store'[k] = store[k]
    <2>1. [status |-> "running", frames |-> f] \in JobRecord
      BY <1>5 DEF JobRecord, Status
    <2> QED
      BY <1>7, <2>1 DEF TypeOK
  <1>10. \A v \in Worker : worker[v].job = j => v = w
    BY <1>2 DEF Held, RunningHasWorker
  <1>11. TypeOK'
    BY <1>4, <1>6, <1>8, <1>9 DEF TypeOK, queue
  <1>12. Partitioned'
    BY <1>4 DEF Partitioned, With, queue
  <1>13. Known'
    <2>1. Contains(created, j)
      BY <1>2, QueuedAre
    <2> QED
      BY <1>4, <1>8, <1>9, <2>1 DEF Known, queue
  <1>14. Held'
    BY <1>4, <1>6 DEF Held, RunningHasWorker, queue
  <1>15. Stored'
    BY <1>2, <1>4, <1>9, AllSaved DEF Stored, queue
  <1>16. Frames'
    <2> SUFFICES ASSUME NEW k \in Job, ~Contains(resumed, k)
                 PROVE  /\ store'[k].status \in {"queued", "running"} =>
                             store'[k].frames = rendered'[k]
                        /\ job[k].status = "queued" => job[k].frames = rendered'[k]
                        /\ job[k].status = "running" /\ Contains(unsaved, k) =>
                             job[k].frames = rendered'[k]
                        /\ \A v \in Worker : Rendering(v, k)' => worker'[v].frame = rendered'[k]
      BY <1>4 DEF Frames, queue
    <2>1. ~Contains(unsaved, k)
      BY <1>4, Singleton
    <2>2. ASSUME NEW v \in Worker, Rendering(v, k)' PROVE Rendering(v, k)
      BY <1>4, <1>6, <2>2 DEF Rendering, queue
    <2>3. CASE k = j
      <3>1. \A v \in Worker : Rendering(v, k)' => v = w
        BY <1>10, <2>2, <2>3 DEF Rendering
      <3> QED
        BY <1>2, <1>6, <1>8, <1>9, <2>1, <2>3, <3>1
    <2>4. CASE k # j
      <3>1. \A v \in Worker : Rendering(v, k)' => Rendering(v, k) /\ worker'[v] = worker[v]
        BY <1>2, <1>6, <2>2, <2>4 DEF Rendering
      <3>2. store'[k] = store[k] /\ rendered'[k] = rendered[k]
        BY <1>8, <1>9, <2>4
      <3>3. \A v \in Worker : Rendering(v, k)' => worker'[v].frame = rendered'[k]
        BY <3>1, <3>2 DEF Frames
      <3>4. /\ store[k].status \in {"queued", "running"} => store[k].frames = rendered[k]
            /\ job[k].status = "queued" => job[k].frames = rendered[k]
        BY DEF Frames
      <3> QED
        BY <2>1, <3>2, <3>3, <3>4
    <2> QED
      BY <2>3, <2>4
  <1>17. Ordered'
    BY <1>4 DEF Ordered, InOrder, CameBefore, queue
  <1> QED
    BY <1>11, <1>12, <1>13, <1>14, <1>15, <1>16, <1>17

LEMMA GiveUpKeeps ==
    ASSUME QueueAssumption, Core, NEW w \in Worker, Mutate(GiveUp(w), <<>>)
    PROVE  Core'
  <1> USE DEF Core
  <1>1. /\ worker[w].job # NoJob /\ worker[w].job \notin running
        /\ worker' = [worker EXCEPT ![w] = IdleWorker]
        /\ UNCHANGED <<queue, created, rendered, resumed>>
        /\ UNCHANGED <<unsaved, store, phase, crashes>> /\ phase = "up"
    BY DEF Mutate, GiveUp, Release
  <1>2. NoJob \notin Job /\ FrameCount \in Nat
    BY DEF QueueAssumption
  <1>3. /\ worker' \in [Worker -> [job: Job \cup {NoJob}, frame: 0 .. FrameCount]]
        /\ worker'[w].job = NoJob
        /\ \A v \in Worker : v # w => worker'[v] = worker[v]
    <2>1. IdleWorker \in [job: Job \cup {NoJob}, frame: 0 .. FrameCount] /\ IdleWorker.job = NoJob
      BY <1>2 DEF IdleWorker
    <2> QED
      BY <1>1, <2>1 DEF TypeOK
  <1>4. TypeOK'
    BY <1>1, <1>3 DEF TypeOK, queue
  <1>5. Partitioned' /\ Known'
    BY <1>1 DEF Partitioned, With, Known, queue
  <1>6. Held'
    <2>1. RunningHasWorker'
      <3> SUFFICES ASSUME NEW k \in running
                   PROVE  \E u \in Worker : \A v \in Worker : worker'[v].job = k <=> v = u
        BY <1>1 DEF RunningHasWorker, queue
      <3>1. PICK u \in Worker : \A v \in Worker : worker[v].job = k <=> v = u
        BY DEF Held, RunningHasWorker
      <3>2. u # w /\ k # NoJob
        BY <1>1, <1>2, <3>1 DEF Partitioned, With
      <3>3. \A v \in Worker : worker'[v].job = k <=> v = u
        BY <1>3, <3>1, <3>2
      <3> QED
        BY <3>3
    <2>2. \A v \in Worker : worker'[v].job # NoJob =>
             job'[worker'[v].job].status \in {"running", "cancelled"}
      BY <1>1, <1>3 DEF Held, queue
    <2> QED
      BY <2>1, <2>2 DEF Held
  <1>7. Stored'
    BY <1>1 DEF Stored, queue
  <1>8. Frames'
    <2>1. \A v \in Worker, k \in Job :
             Rendering(v, k)' => Rendering(v, k) /\ worker'[v] = worker[v]
      BY <1>1, <1>2, <1>3 DEF Rendering, queue
    <2>2. /\ store' = store /\ job' = job /\ rendered' = rendered /\ resumed' = resumed
          /\ unsaved' = unsaved
      BY <1>1 DEF queue
    <2> QED
      BY <2>1, <2>2 DEF Frames
  <1>9. Ordered'
    BY <1>1 DEF Ordered, InOrder, CameBefore, queue
  <1> QED
    BY <1>4, <1>5, <1>6, <1>7, <1>8, <1>9

LEMMA ResumeKeeps ==
    ASSUME Core, NEW j \in Job, Mutate(Resume(j), <<j>>)
    PROVE  Core'
  <1> USE DEF Core
  <1>1. /\ job[j].status = "failed"
        /\ resumed' = Append(resumed, j) /\ queued' = Append(queued, j)
        /\ completed' = completed \ {j}
        /\ job' = [job EXCEPT ![j].status = "queued"]
        /\ UNCHANGED <<running, created, worker, rendered>>
        /\ phase = "up" /\ unsaved = <<>> /\ unsaved' = <<j>>
        /\ UNCHANGED <<store, phase, crashes>>
    BY DEF Mutate, Resume
  <1>2. /\ job' \in [Job -> JobRecord]
        /\ job'[j].status = "queued"
        /\ \A k \in Job : k # j => job'[k] = job[k]
    <2>1. "queued" \in Status /\ job \in [Job -> JobRecord]
      BY DEF Status, TypeOK
    <2>2. \A k \in Job : k # j => job'[k] = job[k]
      BY <1>1, <2>1
    <2>3. job'[j] = [job[j] EXCEPT !.status = "queued"] /\ job[j] \in JobRecord
      BY <1>1, <2>1
    <2>4. /\ job'[j] \in JobRecord
          /\ job'[j].status = "queued" /\ job'[j].frames = job[j].frames
      BY <2>1, <2>3 DEF JobRecord
    <2>5. job' \in [Job -> JobRecord]
      BY <1>1, <2>1, <2>2, <2>4
    <2> QED
      BY <2>2, <2>4, <2>5
  <1>3. /\ resumed' \in Seq(Job)
        /\ \A k : Contains(resumed', k) <=> Contains(resumed, k) \/ k = j
    BY <1>1, AppendParts DEF TypeOK
  <1>4. j \notin ToSet(queued)
    BY <1>1 DEF Partitioned, With
  <1>5. /\ queued' \in Seq(Job) /\ IsInjective(queued')
        /\ ToSet(queued') = ToSet(queued) \cup {j}
    BY <1>1, <1>4, AppendParts DEF TypeOK, Partitioned
  <1>6. unsaved' \in Seq(Job) /\ \A k : Contains(unsaved', k) <=> k = j
    BY <1>1, Singleton
  <1>7. TypeOK'
    BY <1>1, <1>2, <1>3, <1>5, <1>6 DEF TypeOK
  <1>8. Partitioned'
    <2>1. ToSet(queued') = With({"queued"})'
      BY <1>2, <1>5 DEF Partitioned, With
    <2>2. running' = With({"running"})'
      BY <1>1, <1>2 DEF Partitioned, With
    <2>3. completed' = With(Terminal)'
      BY <1>1, <1>2 DEF Partitioned, With, Terminal
    <2> QED
      BY <1>5, <2>1, <2>2, <2>3 DEF Partitioned
  <1>9. Known'
    <2>1. Contains(created, j)
      BY <1>1, QueuedAre
    <2> QED
      BY <1>1, <1>2, <2>1 DEF Known
  <1>10. Held'
    <2>1. \A v \in Worker : worker[v].job # NoJob => worker[v].job # j /\ worker[v].job \in Job
      BY <1>1 DEF Held, TypeOK
    <2> QED
      BY <1>1, <1>2, <2>1 DEF Held, RunningHasWorker
  <1>11. Stored'
    BY <1>1, <1>2, <1>6, AllSaved DEF Stored
  <1>12. Frames'
    <2>1. \A v \in Worker, k \in Job : Rendering(v, k)' <=> Rendering(v, k)
      BY <1>1 DEF Rendering
    <2> QED
      BY <1>1, <1>2, <1>3, <1>6, <2>1 DEF Frames
  <1>13. Ordered'
    <2>1. InOrder(Append(queued, j), created, Append(resumed, j))
      BY AppendInOrder DEF Ordered, TypeOK
    <2> QED
      BY <1>1, <2>1 DEF Ordered, InOrder, CameBefore
  <1> QED
    BY <1>7, <1>8, <1>9, <1>10, <1>11, <1>12, <1>13

-----------------------------------------------------------------------------
(* A batch arrives. *)

LEMMA ConcatKeeps ==
    ASSUME NEW S, NEW s \in Seq(S), NEW t \in Seq(S)
    PROVE  /\ s \o t \in Seq(S)
           /\ \A d : Contains(s \o t, d) <=> Contains(s, d) \/ Contains(t, d)
           /\ IsInjective(s) /\ IsInjective(t) /\ (\A i \in DOMAIN t : ~Contains(s, t[i]))
                => IsInjective(s \o t)
  <1>1. PICK r : r = s \o t
    OBVIOUS
  <1>2. /\ r \in Seq(S) /\ Len(r) = Len(s) + Len(t)
        /\ DOMAIN r = 1 .. Len(s) + Len(t)
        /\ \A i \in 1 .. Len(s) : r[i] = s[i]
        /\ \A k \in 1 .. Len(t) : r[Len(s) + k] = t[k]
    BY <1>1, ConcatParts
  <1>3. /\ Len(s) \in Nat /\ DOMAIN s = 1 .. Len(s)
        /\ Len(t) \in Nat /\ DOMAIN t = 1 .. Len(t)
    BY LenProperties
  <1>4. \A i \in DOMAIN s : i \in DOMAIN r /\ r[i] = s[i]
    BY <1>2, <1>3
  <1>5. \A k \in DOMAIN t : Len(s) + k \in DOMAIN r /\ r[Len(s) + k] = t[k]
    BY <1>2, <1>3
  <1>6. ASSUME NEW i \in DOMAIN r
        PROVE  \/ i \in DOMAIN s /\ r[i] = s[i]
               \/ \E k \in DOMAIN t : i = Len(s) + k /\ r[i] = t[k]
    <2>1. CASE i <= Len(s)
      BY <1>2, <1>3, <2>1
    <2>2. CASE ~(i <= Len(s))
      <3>1. PICK k \in DOMAIN t : i = Len(s) + k
        <4>1. i - Len(s) \in DOMAIN t /\ i = Len(s) + (i - Len(s))
          BY <1>2, <1>3, <2>2
        <4> QED
          BY <4>1
      <3> QED
        BY <1>5, <3>1
    <2> QED
      BY <2>1, <2>2
  <1>7. /\ \A d : Contains(r, d) <=> \E i \in DOMAIN r : r[i] = d
        /\ \A d : Contains(s, d) <=> \E i \in DOMAIN s : s[i] = d
        /\ \A d : Contains(t, d) <=> \E i \in DOMAIN t : t[i] = d
    BY <1>2, <1>3 DEF Contains
  <1>8. \A d : Contains(r, d) <=> Contains(s, d) \/ Contains(t, d)
    BY <1>4, <1>5, <1>6, <1>7
  <1>9. ASSUME IsInjective(s), IsInjective(t), \A i \in DOMAIN t : ~Contains(s, t[i])
        PROVE  IsInjective(r)
    <2> SUFFICES ASSUME NEW m \in DOMAIN r, NEW n \in DOMAIN r, r[m] = r[n] PROVE m = n
      BY DEF IsInjective
    <2>1. CASE m \in DOMAIN s /\ r[m] = s[m]
      <3>1. n \in DOMAIN s /\ r[n] = s[n]
        BY <1>6, <1>7, <1>9, <2>1
      <3> QED
        BY <1>9, <2>1, <3>1 DEF IsInjective
    <2>2. CASE \E k \in DOMAIN t : m = Len(s) + k /\ r[m] = t[k]
      <3>1. PICK k \in DOMAIN t : m = Len(s) + k /\ r[m] = t[k]
        BY <2>2
      <3>2. PICK l \in DOMAIN t : n = Len(s) + l /\ r[n] = t[l]
        BY <1>6, <1>7, <1>9, <3>1
      <3>3. k = l
        BY <1>9, <3>1, <3>2 DEF IsInjective
      <3> QED
        BY <3>1, <3>2, <3>3
    <2> QED
      BY <1>6, <2>1, <2>2
  <1> QED
    BY <1>1, <1>2, <1>8, <1>9

\* Who arrives later came later.
LEMMA CameLater ==
    ASSUME NEW came \in Seq(Job), NEW js \in Seq(Job)
    PROVE  /\ \A k, j : Contains(came, k) /\ Contains(js, j) => CameBefore(k, j, came \o js)
           /\ \A m, n \in DOMAIN js : m < n => CameBefore(js[m], js[n], came \o js)
  <1>1. PICK r : r = came \o js
    OBVIOUS
  <1>2. /\ DOMAIN r = 1 .. Len(came) + Len(js)
        /\ \A i \in 1 .. Len(came) : r[i] = came[i]
        /\ \A k \in 1 .. Len(js) : r[Len(came) + k] = js[k]
    BY <1>1, ConcatParts
  <1>3. /\ Len(came) \in Nat /\ Len(js) \in Nat /\ DOMAIN js = 1 .. Len(js)
    BY LenProperties
  <1>4. ASSUME NEW k, NEW j, Contains(came, k), Contains(js, j)
        PROVE  CameBefore(k, j, r)
    <2>1. PICK m \in 1 .. Len(came) : came[m] = k
      BY <1>4 DEF Contains
    <2>2. PICK n \in 1 .. Len(js) : js[n] = j
      BY <1>4 DEF Contains
    <2>3. m \in DOMAIN r /\ Len(came) + n \in DOMAIN r /\ m < Len(came) + n
      BY <1>2, <1>3
    <2> QED
      BY <1>2, <2>1, <2>2, <2>3 DEF CameBefore
  <1>5. ASSUME NEW m \in DOMAIN js, NEW n \in DOMAIN js, m < n
        PROVE  CameBefore(js[m], js[n], r)
    <2>1. /\ Len(came) + m \in DOMAIN r /\ Len(came) + n \in DOMAIN r
          /\ Len(came) + m < Len(came) + n
      BY <1>2, <1>3, <1>5
    <2>2. r[Len(came) + m] = js[m] /\ r[Len(came) + n] = js[n]
      BY <1>2, <1>3
    <2> QED
      BY <2>1, <2>2 DEF CameBefore
  <1> QED
    BY <1>1, <1>4, <1>5

LEMMA SubmitKeeps ==
    ASSUME QueueAssumption, Core, NEW js \in Submission, Mutate(Submit(js), js)
    PROVE  Core'
  <1> USE DEF Core
  <1>1. js \in Seq(Job) /\ IsInjective(js)
    BY DEF QueueAssumption
  <1>2. /\ \A i \in DOMAIN js : ~Contains(created, js[i])
        /\ queued' = PlaceAll(queued, js)
        /\ job' = [j \in Job |-> IF Contains(js, j)
                                 THEN [status |-> "queued", frames |-> 0] ELSE job[j]]
        /\ created' = created \o js
        /\ UNCHANGED <<running, completed, worker, rendered, resumed>>
        /\ phase = "up" /\ unsaved = <<>> /\ unsaved' = js
        /\ UNCHANGED <<store, phase, crashes>>
    BY DEF Mutate, Submit
  <1>3. \A j : Contains(js, j) <=> \E i \in DOMAIN js : js[i] = j
    BY <1>1, LenProperties DEF Contains
  <1>4. \A j \in Job : Contains(js, j) =>
           ~Contains(created, j) /\ job[j] = NewJob /\ store[j] = NewJob /\ rendered[j] = 0
    BY <1>2, <1>3 DEF Known
  <1>5. /\ job' \in [Job -> JobRecord]
        /\ \A j \in Job : Contains(js, j) => job'[j].status = "queued" /\ job'[j].frames = 0
        /\ \A j \in Job : ~Contains(js, j) => job'[j] = job[j]
    <2>1. [status |-> "queued", frames |-> 0] \in JobRecord
      BY DEF JobRecord, Status, QueueAssumption
    <2> QED
      BY <1>2, <2>1 DEF TypeOK
  <1>6. /\ created' \in Seq(Job) /\ IsInjective(created')
        /\ \A j : Contains(created', j) <=> Contains(created, j) \/ Contains(js, j)
    BY <1>1, <1>2, ConcatKeeps DEF TypeOK, Known
  <1>7. \A k : k \in ToSet(queued) => Contains(created, k)
    <2> SUFFICES ASSUME NEW k \in ToSet(queued) PROVE Contains(created, k)
      OBVIOUS
    <2>1. k \in Job /\ job[k].status = "queued"
      BY DEF Partitioned, With
    <2> QED
      BY <2>1, QueuedAre
  <1>8. \A k : k \in ToSet(js) <=> Contains(js, k)
    BY <1>1, ContainsIsMember
  <1>9. PICK came : came = created \o js
    OBVIOUS
  <1>10. /\ \A k \in ToSet(queued), j \in ToSet(js) : CameBefore(k, j, came)
         /\ \A m, n \in DOMAIN js : m < n => CameBefore(js[m], js[n], came)
    <2>1. /\ \A k, j : Contains(created, k) /\ Contains(js, j) => CameBefore(k, j, came)
          /\ \A m, n \in DOMAIN js : m < n => CameBefore(js[m], js[n], came)
      BY <1>1, <1>9, CameLater DEF TypeOK
    <2> QED
      BY <1>7, <1>8, <2>1
  <1>11. \A k \in ToSet(queued) : k \notin ToSet(js)
    BY <1>2, <1>3, <1>7, <1>8
  <1>12. InOrder(queued, came, resumed)
    BY <1>1, <1>9, LaterInOrder DEF Ordered, TypeOK
  <1>13. /\ queued' \in Seq(Job) /\ IsInjective(queued')
         /\ ToSet(queued') = ToSet(queued) \cup ToSet(js)
         /\ InOrder(queued', came, resumed)
    <2>1. queued \in Seq(Job) /\ IsInjective(queued)
      BY DEF TypeOK, Partitioned
    <2>2. /\ PlaceAll(queued, js) \in Seq(Job) /\ IsInjective(PlaceAll(queued, js))
          /\ ToSet(PlaceAll(queued, js)) = ToSet(queued) \cup ToSet(js)
          /\ InOrder(PlaceAll(queued, js), came, resumed)
      BY <1>1, <1>10, <1>11, <1>12, <2>1, PlaceAllKeeps
    <2> QED
      BY <1>2, <2>2
  <1>14. TypeOK'
    BY <1>1, <1>2, <1>5, <1>6, <1>13 DEF TypeOK
  <1>15. Partitioned'
    <2>1. ToSet(queued') = With({"queued"})'
      <3>1. \A k \in ToSet(js) : k \in Job
        BY <1>1, <1>3, <1>8, LenProperties, ElementOfSeq
      <3>2. \A k \in Job : k \in ToSet(queued') <=> job'[k].status = "queued"
        BY <1>5, <1>8, <1>13 DEF Partitioned, With
      <3>3. \A k \in ToSet(queued') : k \in Job
        BY <1>13, <3>1 DEF Partitioned, With
      <3> QED
        BY <3>2, <3>3 DEF With
    <2>2. running' = With({"running"})'
      BY <1>2, <1>4, <1>5 DEF Partitioned, With, NewJob
    <2>3. completed' = With(Terminal)'
      BY <1>2, <1>4, <1>5 DEF Partitioned, With, NewJob, Terminal
    <2> QED
      BY <1>13, <2>1, <2>2, <2>3 DEF Partitioned
  <1>16. Known'
    BY <1>2, <1>5, <1>6 DEF Known
  <1>17. Held'
    <2>1. \A v \in Worker : worker[v].job # NoJob =>
             worker[v].job \in Job /\ ~Contains(js, worker[v].job)
      <3> SUFFICES ASSUME NEW v \in Worker, worker[v].job # NoJob
                   PROVE  worker[v].job \in Job /\ ~Contains(js, worker[v].job)
        OBVIOUS
      <3>1. PICK k \in Job : k = worker[v].job
        BY DEF TypeOK
      <3>2. job[k].status \in {"running", "cancelled"}
        BY <3>1 DEF Held
      <3>3. job[k] # NewJob
        BY <3>2 DEF NewJob
      <3> QED
        BY <1>4, <3>1, <3>3
    <2> QED
      BY <1>2, <1>5, <2>1 DEF Held, RunningHasWorker
  <1>18. Stored'
    BY <1>2, <1>5, AllSaved DEF Stored
  <1>19. Frames'
    <2> SUFFICES ASSUME NEW k \in Job, ~Contains(resumed, k)
                 PROVE  /\ store[k].status \in {"queued", "running"} =>
                             store[k].frames = rendered[k]
                        /\ job'[k].status = "queued" => job'[k].frames = rendered[k]
                        /\ job'[k].status = "running" /\ Contains(unsaved', k) =>
                             job'[k].frames = rendered[k]
                        /\ \A v \in Worker : Rendering(v, k)' => worker'[v].frame = rendered[k]
      BY <1>2 DEF Frames
    <2>1. \A v \in Worker : Rendering(v, k)' => worker'[v].frame = rendered[k]
      BY <1>2 DEF Frames, Rendering
    <2>2. job'[k].status = "queued" => job'[k].frames = rendered[k]
      BY <1>4, <1>5 DEF Frames
    <2>3. ~(job'[k].status = "running" /\ Contains(unsaved', k))
      BY <1>2, <1>5
    <2> QED
      BY <2>1, <2>2, <2>3 DEF Frames
  <1>20. Ordered'
    <2>1. came = created' /\ resumed' = resumed
      BY <1>2, <1>9
    <2> QED
      BY <1>13, <2>1 DEF Ordered, InOrder, CameBefore
  <1> QED
    BY <1>14, <1>15, <1>16, <1>17, <1>18, <1>19, <1>20

-----------------------------------------------------------------------------
(* The store, the crash and the recovery. *)

LEMMA TailContains ==
    ASSUME NEW s \in Seq(Job), s # <<>>
    PROVE  /\ Head(s) \in Job /\ Tail(s) \in Seq(Job)
           /\ \A d : Contains(s, d) <=> d = Head(s) \/ Contains(Tail(s), d)
  <1>1. PICK t : t = Tail(s)
    OBVIOUS
  <1>2. /\ Head(s) \in Job /\ t \in Seq(Job) /\ Len(t) = Len(s) - 1
        /\ \A i \in 1 .. Len(t) : t[i] = s[i + 1]
    BY <1>1, HeadTailProperties
  <1>3. Len(s) \in Nat /\ Len(s) # 0 /\ Head(s) = s[1]
    BY LenProperties, EmptySeq
  <1>4. ASSUME NEW d, Contains(s, d) PROVE d = Head(s) \/ Contains(t, d)
    <2>1. PICK i \in 1 .. Len(s) : s[i] = d
      BY <1>4 DEF Contains
    <2>2. CASE i = 1
      BY <1>3, <2>1, <2>2
    <2>3. CASE i # 1
      <3>1. PICK k \in 1 .. Len(t) : k + 1 = i
        <4>1. i - 1 \in 1 .. Len(t) /\ (i - 1) + 1 = i
          BY <1>2, <1>3, <2>3
        <4> QED
          BY <4>1
      <3>2. t[k] = d
        BY <1>2, <2>1, <3>1
      <3> QED
        BY <3>2 DEF Contains
    <2> QED
      BY <2>2, <2>3
  <1>5. ASSUME NEW d, d = Head(s) \/ Contains(t, d) PROVE Contains(s, d)
    <2>1. CASE d = Head(s)
      <3>1. 1 \in 1 .. Len(s) /\ s[1] = d
        BY <1>3, <2>1
      <3> QED
        BY <3>1 DEF Contains
    <2>2. CASE Contains(t, d)
      <3>1. PICK k \in 1 .. Len(t) : t[k] = d
        BY <2>2 DEF Contains
      <3>2. k + 1 \in 1 .. Len(s) /\ s[k + 1] = d
        BY <1>2, <1>3, <3>1
      <3> QED
        BY <3>2 DEF Contains
    <2> QED
      BY <1>5, <2>1, <2>2
  <1> QED
    BY <1>1, <1>2, <1>4, <1>5

LEMMA UpsertKeeps ==
    ASSUME Core, Upsert
    PROVE  Core'
  <1> USE DEF Core
  <1>1. PICK j : j = Head(unsaved)
    OBVIOUS
  <1>2. /\ j \in Job /\ unsaved' \in Seq(Job)
        /\ \A k : Contains(unsaved, k) <=> k = j \/ Contains(unsaved', k)
    BY <1>1, TailContains DEF Upsert, TypeOK
  <1>3. /\ store' = [store EXCEPT ![j] = job[j]]
        /\ UNCHANGED <<queueVars, phase, crashes>>
        /\ unsaved # <<>>
    BY <1>1 DEF Upsert, WriteRow
  <1>4. /\ store' \in [Job -> JobRecord] /\ store'[j] = job[j]
        /\ \A k \in Job : k # j => store'[k] = store[k]
    BY <1>2, <1>3 DEF TypeOK
  <1>5. phase = "up"
    BY <1>3 DEF Stored, TypeOK
  <1>6. TypeOK'
    BY <1>2, <1>3, <1>4 DEF TypeOK, queueVars, queue
  <1>7. Partitioned' /\ Held' /\ Ordered'
    BY <1>3 DEF Partitioned, With, Held, RunningHasWorker, Ordered, InOrder, CameBefore,
                queueVars, queue
  <1>8. Known'
    BY <1>2, <1>3, <1>4 DEF Known, queueVars, queue
  <1>9. Stored'
    <2>1. \A k \in Job : ~Contains(unsaved', k) => store'[k].status = job[k].status
      BY <1>2, <1>4, <1>5 DEF Stored
    <2> QED
      BY <1>3, <1>5, <2>1 DEF Stored, queueVars, queue
  <1>10. Frames'
    <2>1. /\ job' = job /\ rendered' = rendered /\ resumed' = resumed
          /\ worker' = worker /\ running' = running
      BY <1>3 DEF queueVars, queue
    <2>2. \A v \in Worker, k \in Job : Rendering(v, k)' <=> Rendering(v, k)
      BY <2>1 DEF Rendering
    <2>3. ASSUME NEW k \in Job, ~Contains(resumed, k),
                 store'[k].status \in {"queued", "running"}
          PROVE  store'[k].frames = rendered[k]
      <3>1. CASE k = j
        BY <1>2, <1>4, <2>3, <3>1 DEF Frames
      <3>2. CASE k # j
        BY <1>4, <2>3, <3>2 DEF Frames
      <3> QED
        BY <3>1, <3>2
    <2> QED
      BY <1>2, <2>1, <2>2, <2>3 DEF Frames
  <1> QED
    BY <1>6, <1>7, <1>8, <1>9, <1>10

\* What a process that is not up has in memory: nothing.
Forgotten ==
    /\ unsaved = <<>> /\ queued = <<>> /\ running = {} /\ completed = {}
    /\ job = [j \in Job |-> NewJob] /\ worker = [w \in Worker |-> IdleWorker]

LEMMA ForgottenHolds ==
    ASSUME Core, phase # "up"
    PROVE  Forgotten
  <1> USE DEF Core
  <1>1. /\ unsaved = <<>> /\ queued = <<>>
        /\ \A j \in Job : job[j] = NewJob
        /\ \A w \in Worker : worker[w] = IdleWorker
    BY DEF Stored
  <1>2. job = [j \in Job |-> NewJob]
    BY <1>1 DEF TypeOK
  <1>3. worker = [w \in Worker |-> IdleWorker]
    BY <1>1 DEF TypeOK
  <1>4. running = {} /\ completed = {}
    BY <1>1 DEF Partitioned, With, NewJob, Terminal
  <1> QED
    BY <1>1, <1>2, <1>3, <1>4 DEF Forgotten

\* With nothing in memory the invariant is about the rows.
OnlyRows ==
    /\ Forgotten
    /\ created \in Seq(Job) /\ IsInjective(created) /\ resumed \in Seq(Job)
    /\ store \in [Job -> JobRecord] /\ rendered \in [Job -> 0 .. FrameCount]
    /\ phase \in {"up", "down", "opened"} /\ crashes \in Nat
    /\ \A j \in Job : ~Contains(created, j) => store[j] = NewJob /\ rendered[j] = 0
    /\ phase = "up" => \A j \in Job : store[j] = NewJob
    /\ phase = "opened" => \A j \in Job : store[j].status # "running"
    /\ \A j \in Job : ~Contains(resumed, j) /\ store[j].status \in {"queued", "running"}
         => store[j].frames = rendered[j]

LEMMA OnlyRowsKeep == OnlyRows => Core
  <1> SUFFICES ASSUME OnlyRows PROVE Core
    OBVIOUS
  <1> USE QueueAssumption DEF OnlyRows
  <1> USE DEF Forgotten
  <1>1. \A j \in Job : job[j] = NewJob /\ job[j].status = "new"
    BY DEF NewJob
  <1>2. \A w \in Worker : worker[w] = IdleWorker /\ worker[w].job = NoJob
    BY DEF IdleWorker
  <1>3. TypeOK
    <2>1. NewJob \in JobRecord /\ IdleWorker \in [job: Job \cup {NoJob}, frame: 0 .. FrameCount]
      BY DEF NewJob, JobRecord, Status, IdleWorker, QueueAssumption
    <2>2. <<>> \in Seq(Job)
      BY EmptySeq
    <2> QED
      BY <2>1, <2>2 DEF TypeOK
  <1>4. Partitioned
    <2>1. With({"queued"}) = {} /\ With({"running"}) = {} /\ With(Terminal) = {}
      BY <1>1 DEF With, Terminal
    <2>2. ToSet(queued) = {} /\ IsInjective(queued)
      BY DEF ToSet, IsInjective
    <2> QED
      BY <2>1, <2>2 DEF Partitioned
  <1>5. Known
    BY <1>1 DEF Known
  <1>6. Held
    BY <1>2 DEF Held, RunningHasWorker
  <1>7. Stored
    BY <1>1, <1>2 DEF Stored
  <1>8. Frames
    BY <1>1 DEF Frames, Rendering
  <1>9. Ordered
    BY DEF Ordered, InOrder
  <1> QED
    BY <1>3, <1>4, <1>5, <1>6, <1>7, <1>8, <1>9 DEF Core

LEMMA CrashKeeps ==
    ASSUME Core, Crash
    PROVE  Core'
  <1> USE DEF Core
  <1>1. Forgotten'
    BY DEF Crash, Forgotten
  <1>2. OnlyRows'
    <2>1. /\ UNCHANGED <<created, store, rendered, resumed>>
          /\ phase' = "down" /\ crashes' = crashes + 1
      BY DEF Crash
    <2> QED
      BY <1>1, <2>1 DEF OnlyRows, TypeOK, Known, Frames
  <1> QED
    BY <1>2, OnlyRowsKeep, PTL

LEMMA ReincarnateKeeps ==
    ASSUME Core, ReincarnateRunningAsQueued
    PROVE  Core'
  <1> USE DEF Core
  <1>1. /\ phase = "down" /\ phase' = "opened"
        /\ store' = [j \in Job |-> IF store[j].status = "running"
                                   THEN [store[j] EXCEPT !.status = "queued"] ELSE store[j]]
        /\ UNCHANGED <<queueVars, unsaved, crashes>>
    BY DEF ReincarnateRunningAsQueued
  <1>2. Forgotten'
    <2>1. Forgotten
      BY <1>1, ForgottenHolds
    <2> QED
      BY <1>1, <2>1 DEF Forgotten, queueVars, queue
  <1>3. ASSUME NEW j \in Job
        PROVE  /\ store'[j] \in JobRecord /\ store'[j].status # "running"
               /\ store'[j].frames = store[j].frames
               /\ store[j].status # "running" => store'[j] = store[j]
    <2>1. store[j] \in JobRecord
      BY DEF TypeOK
    <2>2. CASE store[j].status = "running"
      <3>1. store'[j] = [store[j] EXCEPT !.status = "queued"]
        BY <1>1, <2>2
      <3> QED
        BY <2>1, <2>2, <3>1 DEF JobRecord, Status
    <2>3. CASE store[j].status # "running"
      BY <1>1, <2>1, <2>3
    <2> QED
      BY <2>2, <2>3
  <1>4. OnlyRows'
    <2>1. /\ created' = created /\ resumed' = resumed /\ rendered' = rendered
          /\ crashes' = crashes
      BY <1>1 DEF queueVars
    <2>2. store' \in [Job -> JobRecord]
      BY <1>1, <1>3
    <2>3. ASSUME NEW j \in Job, ~Contains(created, j)
          PROVE  store'[j] = NewJob /\ rendered[j] = 0
      <3>1. store[j] = NewJob /\ rendered[j] = 0
        BY <2>3 DEF Known
      <3> QED
        BY <1>3, <3>1 DEF NewJob
    <2>4. ASSUME NEW j \in Job, ~Contains(resumed, j),
                 store'[j].status \in {"queued", "running"}
          PROVE  store'[j].frames = rendered[j]
      BY <1>3, <2>4 DEF Frames
    <2> QED
      BY <1>1, <1>2, <1>3, <2>1, <2>2, <2>3, <2>4 DEF OnlyRows, TypeOK, Known
  <1> QED
    BY <1>4, OnlyRowsKeep, PTL

LEMMA LoadQueueKeeps ==
    ASSUME QueueAssumption, Core, LoadQueue
    PROVE  Core'
  <1> USE DEF Core
  <1>1. /\ phase = "opened" /\ phase' = "up"
        /\ queued' = InRowOrder(Rows({"queued"}))
        /\ running' = Rows({"running"}) /\ completed' = Rows(Terminal)
        /\ job' = store
        /\ UNCHANGED <<created, worker, rendered, resumed, store, unsaved, crashes>>
    BY DEF LoadQueue
  <1>2. Forgotten
    BY <1>1, ForgottenHolds
  <1>3. Rows({"queued"}) \in SUBSET ToSet(created)
    <2> SUFFICES ASSUME NEW j \in Job, store[j].status = "queued" PROVE j \in ToSet(created)
      BY DEF Rows
    <2>1. Contains(created, j)
      BY DEF Known, NewJob
    <2> QED
      BY <2>1, ContainsIsMember DEF TypeOK
  <1>4. /\ queued' \in Seq(Job) /\ IsInjective(queued')
        /\ ToSet(queued') = Rows({"queued"}) /\ Sorted(queued')
    <2>1. created \in Seq(Job) /\ IsInjective(created)
      BY DEF TypeOK, Known
    <2>2. PICK S \in SUBSET ToSet(created) : S = Rows({"queued"})
      BY <1>3
    <2>3. /\ InRowOrder(S) \in Seq(Job) /\ IsInjective(InRowOrder(S))
          /\ ToSet(InRowOrder(S)) = S /\ Sorted(InRowOrder(S))
      BY <2>1, InRowOrderProperties
    <2> QED
      BY <1>1, <2>2, <2>3
  <1>5. \A w \in Worker : worker[w] = IdleWorker /\ worker[w].job = NoJob
    BY <1>2 DEF Forgotten, IdleWorker
  <1>6. running' = {}
    BY <1>1 DEF Stored, Rows
  <1>7. TypeOK'
    BY <1>1, <1>4 DEF TypeOK
  <1>8. Partitioned'
    <2>1. ToSet(queued') = With({"queued"})'
      BY <1>1, <1>4 DEF Rows, With
    <2>2. running' = With({"running"})' /\ completed' = With(Terminal)'
      BY <1>1 DEF Rows, With
    <2> QED
      BY <1>4, <2>1, <2>2 DEF Partitioned
  <1>9. Known'
    BY <1>1 DEF Known
  <1>10. Held'
    BY <1>1, <1>5, <1>6 DEF Held, RunningHasWorker
  <1>11. Stored'
    BY <1>1 DEF Stored
  <1>12. Frames'
    <2>1. \A w \in Worker, j \in Job : ~Rendering(w, j)'
      BY <1>6 DEF Rendering
    <2>2. \A j : ~Contains(unsaved, j)
      BY <1>2 DEF Forgotten, Contains
    <2> QED
      BY <1>1, <2>1, <2>2 DEF Frames
  <1>13. Ordered'
    <2>1. \A j \in Job : Priority[j] \in Int
      BY DEF QueueAssumption
    <2>2. \A j, k \in Job : RowBefore(j, k) =>
             /\ Priority[j] >= Priority[k]
             /\ Priority[j] = Priority[k] => CameBefore(j, k, created)
      BY <2>1 DEF RowBefore, CameBefore
    <2>3. PICK q \in Seq(Job) : q = queued'
      BY <1>4
    <2>4. \A m \in DOMAIN q : q[m] \in Job
      BY LenProperties, ElementOfSeq
    <2>5. \A m, n \in DOMAIN q : m < n => RowBefore(q[m], q[n])
      <3>1. Sorted(queued')
        BY <1>4
      <3> QED
        BY <2>3, <3>1 DEF Sorted
    <2>6. InOrder(q, created, resumed)
      BY <2>2, <2>4, <2>5 DEF InOrder
    <2> QED
      BY <1>1, <2>3, <2>6 DEF Ordered, InOrder, CameBefore
  <1> QED
    BY <1>7, <1>8, <1>9, <1>10, <1>11, <1>12, <1>13

LEMMA StutterKeeps ==
    ASSUME Core, UNCHANGED vars
    PROVE  Core'
  <1>1. TypeOK' /\ Partitioned' /\ Known'
    BY DEF Core, vars, queueVars, queue, storeVars, TypeOK, Partitioned, With, Known
  <1>2. Held' /\ Stored'
    BY DEF Core, vars, queueVars, queue, storeVars, Held, RunningHasWorker, Stored
  <1>3. Frames'
    BY DEF Core, vars, queueVars, queue, storeVars, Frames, Rendering
  <1>4. Ordered'
    BY DEF Core, vars, queueVars, queue, storeVars, Ordered, InOrder, CameBefore
  <1> QED
    BY <1>1, <1>2, <1>3, <1>4 DEF Core

-----------------------------------------------------------------------------
(* The theorems. *)

LEMMA InitIsCore == Init => Core
  <1> SUFFICES ASSUME Init PROVE Core
    OBVIOUS
  <1>1. Forgotten
    BY DEF Init, QueueInit, Forgotten
  <1>2. created = <<>> /\ resumed = <<>> /\ <<>> \in Seq(Job)
    BY EmptySeq DEF Init, QueueInit
  <1>3. /\ store = [j \in Job |-> NewJob] /\ rendered = [j \in Job |-> 0]
        /\ phase = "up" /\ crashes = 0
    BY DEF Init, QueueInit
  <1>4. IsInjective(created)
    BY <1>2 DEF IsInjective
  <1>5. store \in [Job -> JobRecord] /\ rendered \in [Job -> 0 .. FrameCount]
    BY <1>3, QueueAssumption DEF JobRecord, NewJob, Status
  <1>6. OnlyRows
    BY <1>1, <1>2, <1>3, <1>4, <1>5 DEF OnlyRows, NewJob
  <1> QED
    BY <1>6, OnlyRowsKeep

LEMMA NextKeepsCore == Core /\ [Next]_vars => Core'
  <1> SUFFICES ASSUME Core, [Next]_vars PROVE Core'
    OBVIOUS
  <1> USE QueueAssumption
  <1>1. ASSUME NEW js \in Submission, Mutate(Submit(js), js) PROVE Core'
    BY <1>1, SubmitKeeps
  <1>2. ASSUME NEW w \in Worker, queued # <<>>, Mutate(Admit(w), <<Head(queued)>>)
        PROVE  Core'
    BY <1>2, AdmitKeeps
  <1>3. ASSUME NEW w \in Worker, RecordFrame(w) PROVE Core'
    BY <1>3, RecordFrameKeeps
  <1>4. ASSUME NEW w \in Worker, Mutate(GiveUp(w), <<>>) PROVE Core'
    BY <1>4, GiveUpKeeps
  <1>5. ASSUME NEW w \in Worker, NEW j \in Job, Mutate(Complete(w, j), <<j>>) PROVE Core'
    BY <1>5, CompleteKeeps
  <1>6. ASSUME NEW w \in Worker, NEW j \in Job, Mutate(Fail(w, j), <<j>>) PROVE Core'
    BY <1>6, FailKeeps
  <1>7. ASSUME NEW j \in Job, Mutate(FailQueued(j), <<j>>) \/ Mutate(Cancel(j), <<j>>)
        PROVE  Core'
    BY <1>7, EndKeeps
  <1>8. ASSUME NEW j \in Job, Mutate(Resume(j), <<j>>) PROVE Core'
    BY <1>8, ResumeKeeps
  <1>9. CASE Upsert
    BY <1>9, UpsertKeeps
  <1>10. CASE Crash
    BY <1>10, CrashKeeps
  <1>11. CASE ReincarnateRunningAsQueued
    BY <1>11, ReincarnateKeeps
  <1>12. CASE LoadQueue
    BY <1>12, LoadQueueKeeps
  <1>13. CASE UNCHANGED vars
    BY <1>13, StutterKeeps
  <1> QED
    BY <1>1, <1>2, <1>3, <1>4, <1>5, <1>6, <1>7, <1>8, <1>9, <1>10, <1>11, <1>12, <1>13
       DEF Next

LEMMA CoreHolds == Spec => []Core
  BY InitIsCore, NextKeepsCore, PTL DEF Spec

(* RecoveryOK: types, partitions, one worker for each running job, and rows *)
(* that agree with their jobs, with any number of crashes.                  *)
THEOREM RecoveryKeepsPartitions == Spec => []RecoveryOK
  <1>1. Core => RecoveryOK
    <2> SUFFICES ASSUME Core PROVE RecoveryOK
      OBVIOUS
    <2>1. QueueOK
      <3>1. \A j \in Job : job[j].status # "new" => Contains(created, j)
        BY QueuedAre
      <3> QED
        BY <3>1 DEF Core, TypeOK, Partitioned, Known, QueueOK
    <2>2. ToSet(unsaved) \subseteq Job
      <3>1. \A i \in DOMAIN unsaved : unsaved[i] \in Job
        BY LenProperties, ElementOfSeq DEF Core, TypeOK
      <3> QED
        BY <3>1 DEF ToSet
    <2>3. /\ RunningHasWorker /\ store \in [Job -> JobRecord]
          /\ phase \in {"up", "down", "opened"} /\ crashes \in Nat
      BY DEF Core, Held, TypeOK
    <2>4. phase = "up" =>
            \A j \in Job : ~Contains(unsaved, j) => store[j].status = job[j].status
      BY DEF Core, Stored
    <2> QED
      BY <2>1, <2>2, <2>3, <2>4 DEF RecoveryOK
  <1> QED
    BY <1>1, CoreHolds, PTL

(* NoFrameTwice: the worker of a job that was never resumed is at the first *)
(* frame that does not exist, wherever in its life the process was killed.  *)
THEOREM FramesAreRenderedOnce == Spec => []NoFrameTwice
  <1>1. Core => NoFrameTwice
    <2> SUFFICES ASSUME Core, NEW w \in Worker, NEW j \in Job \ ToSet(resumed), Rendering(w, j)
                 PROVE  worker[w].frame = rendered[j]
      BY DEF NoFrameTwice
    <2>1. ~Contains(resumed, j)
      BY ContainsIsMember DEF Core, TypeOK
    <2> QED
      BY <2>1 DEF Core, Frames
  <1> QED
    BY <1>1, CoreHolds, PTL

(* QueueComesBack: the queue in memory is in the order load_queue sorts by, *)
(* but for the jobs that were resumed.                                      *)
THEOREM QueueIsInRowOrder == Spec => []QueueComesBack
  <1>1. Core => QueueComesBack
    <2> SUFFICES ASSUME Core, NEW m \in DOMAIN queued, NEW n \in DOMAIN queued, m < n,
                        ~Contains(resumed, queued[m]), ~Contains(resumed, queued[n])
                 PROVE  RowBefore(queued[m], queued[n])
      BY DEF QueueComesBack
    <2>1. queued[m] \in Job /\ queued[n] \in Job
      BY LenProperties, ElementOfSeq DEF Core, TypeOK
    <2>2. Priority[queued[m]] \in Int /\ Priority[queued[n]] \in Int
      BY <2>1, QueueAssumption DEF QueueAssumption
    <2>3. /\ Priority[queued[m]] >= Priority[queued[n]]
          /\ Priority[queued[m]] = Priority[queued[n]] =>
                CameBefore(queued[m], queued[n], created)
      BY DEF Core, Ordered, InOrder
    <2> QED
      BY <2>2, <2>3 DEF RowBefore, CameBefore
  <1> QED
    BY <1>1, CoreHolds, PTL

-----------------------------------------------------------------------------
(* The refinement of the pool: the states of the jobs, and what a crash     *)
(* leaves of them.                                                          *)

PoolState == [j \in Job |-> IF phase = "up" THEN job[j].status ELSE Recovered(j)]
PoolDurable == [j \in Job |-> IF phase = "up" THEN store[j].status ELSE Recovered(j)]

\* A mutation that changes the state of one job.
LEMMA OneBecomes ==
    ASSUME Core, NEW j \in Job, NEW from, NEW to, job[j].status \in from,
           phase = "up", unsaved = <<>>, UNCHANGED <<store, phase, created>>,
           job' = [job EXCEPT ![j].status = to]
    PROVE  Pool!Becomes(j, from, to)
  <1>1. \A k \in Job : job'[k].status = IF k = j THEN to ELSE job[k].status
    BY DEF Core, TypeOK, JobRecord
  <1>2. PoolDurable = PoolState
    BY AllSaved DEF PoolDurable, PoolState
  <1>3. PoolState[j] \in from
    BY DEF PoolState
  <1>4. PoolState' = [PoolState EXCEPT ![j] = to]
    BY <1>1 DEF PoolState
  <1>5. PoolDurable' = PoolDurable
    BY DEF PoolDurable
  <1> QED
    BY <1>2, <1>3, <1>4, <1>5 DEF Pool!Becomes, PoolDurable, PoolState

LEMMA FinishEnds ==
    ASSUME Core, NEW j \in Job, NEW from, NEW to, Finish(j, to), job[j].status \in from,
           phase = "up", unsaved = <<>>, UNCHANGED <<store, phase, crashes>>
    PROVE  Pool!Becomes(j, from, to) /\ ToSet(resumed)' = ToSet(resumed)
  <1>1. /\ job' = [job EXCEPT ![j].status = to] /\ UNCHANGED <<store, phase, created>>
        /\ resumed' = resumed
    BY DEF Finish
  <1> QED
    BY <1>1, OneBecomes

LEMMA SubmitArrives ==
    ASSUME Core, NEW js \in Submission, Mutate(Submit(js), js)
    PROVE  Pool!Arrive
  <1>1. js \in Seq(Job)
    BY QueueAssumption DEF QueueAssumption
  <1>2. /\ \A i \in DOMAIN js : ~Contains(created, js[i])
        /\ job' = [j \in Job |-> IF Contains(js, j)
                                 THEN [status |-> "queued", frames |-> 0] ELSE job[j]]
        /\ created' = created \o js
        /\ resumed' = resumed
        /\ phase = "up" /\ unsaved = <<>>
        /\ UNCHANGED <<store, phase>>
    BY DEF Mutate, Submit
  <1>3. /\ Len(js) \in Nat /\ DOMAIN js = 1 .. Len(js) /\ \A i \in DOMAIN js : js[i] \in Job
    BY <1>1, LenProperties, ElementOfSeq
  <1>4. PICK S : S = {j \in Job : Contains(js, j)}
    OBVIOUS
  <1>5. \A j \in S : \E i \in DOMAIN js : js[i] = j
    BY <1>3, <1>4 DEF Contains
  <1>6. \A i \in DOMAIN js : js[i] \in S
    BY <1>3, <1>4 DEF Contains
  <1>7. S \in SUBSET {j \in Job : PoolState[j] = "new"}
    <2> SUFFICES ASSUME NEW j \in S PROVE j \in Job /\ PoolState[j] = "new"
      OBVIOUS
    <2>1. j \in Job /\ ~Contains(created, j)
      BY <1>2, <1>4, <1>5
    <2> QED
      BY <1>2, <2>1 DEF Core, Known, NewJob, PoolState
  <1>8. PoolDurable = PoolState
    BY <1>2, AllSaved DEF PoolDurable, PoolState
  <1>9. PoolState' = [j \in Job |-> IF j \in S THEN "queued" ELSE PoolState[j]]
    <2>1. \A j \in Job : job'[j].status = IF j \in S THEN "queued" ELSE job[j].status
      BY <1>2, <1>4
    <2> QED
      BY <1>2, <2>1 DEF PoolState
  <1>10. PoolDurable' = PoolDurable
    BY <1>2 DEF PoolDurable
  <1>11. js \in [1 .. Len(created') - Len(created) -> S]
    <2>1. Len(created') = Len(created) + Len(js) /\ Len(created) \in Nat
      BY <1>1, <1>2, ConcatParts, LenProperties DEF Core, TypeOK
    <2>2. Len(created') - Len(created) = Len(js)
      BY <1>3, <2>1
    <2>3. js = [i \in 1 .. Len(js) |-> js[i]]
      BY <1>1, <1>3
    <2>4. js \in [1 .. Len(js) -> S]
      BY <1>3, <1>6, <2>3
    <2> QED
      BY <2>2, <2>4
  <1>12. \E is \in [1 .. Len(created') - Len(created) -> S] :
            /\ \A j \in S : \E i \in DOMAIN is : is[i] = j
            /\ created' = created \o is
    BY <1>2, <1>5, <1>11
  <1>13. ToSet(resumed)' = ToSet(resumed)
    BY <1>2
  <1> QED
    BY <1>7, <1>8, <1>9, <1>10, <1>12, <1>13 DEF Pool!Arrive, PoolDurable, PoolState

LEMMA AdmitStarts ==
    ASSUME Core, NEW w \in Worker, queued # <<>>, Mutate(Admit(w), <<Head(queued)>>)
    PROVE  \E j \in Job : Pool!Start(j)
  <1>1. \A s \in Seq(Job) : IsInjective(s) /\ s # <<>> =>
           Head(s) = s[1] /\ 1 \in DOMAIN s /\ Head(s) \in ToSet(s) /\ Head(s) \in Job
    BY TailProperties
  <1>2. PICK j \in Job : j = Head(queued) /\ j = queued[1] /\ 1 \in DOMAIN queued
                         /\ j \in ToSet(queued)
    BY <1>1 DEF Core, TypeOK, Partitioned
  <1>3. job[j].status \in {"queued"}
    BY <1>2 DEF Core, Partitioned, With
  <1>4. /\ job' = [job EXCEPT ![j].status = "running"]
        /\ phase = "up" /\ unsaved = <<>> /\ UNCHANGED <<store, phase, created>>
        /\ resumed' = resumed
    BY <1>2 DEF Mutate, Admit
  <1>5. Pool!Becomes(j, {"queued"}, "running")
    <2>1. PICK from, to : from = {"queued"} /\ to = "running"
      OBVIOUS
    <2>2. job[j].status \in from /\ job' = [job EXCEPT ![j].status = to]
      BY <1>3, <1>4, <2>1
    <2>3. Pool!Becomes(j, from, to)
      BY <1>4, <2>2, OneBecomes
    <2> QED
      BY <2>1, <2>3
  <1>6. \A k \in Job : k \in ToSet(resumed) <=> Contains(resumed, k)
    BY ContainsIsMember DEF Core, TypeOK
  <1>7. ASSUME j \notin ToSet(resumed), NEW k \in Job \ ToSet(resumed), PoolState[k] = "queued"
        PROVE  Pool!Urgent(j, k)
    <2>1. job[k].status = "queued"
      BY <1>4, <1>7 DEF PoolState
    <2>2. k \in ToSet(queued)
      BY <2>1 DEF Core, Partitioned, With
    <2>3. PICK n \in DOMAIN queued : queued[n] = k
      BY <2>2 DEF ToSet
    <2>4. Priority[j] \in Int /\ Priority[k] \in Int
      BY QueueAssumption DEF QueueAssumption
    <2>5. CASE n = 1
      BY <1>2, <2>3, <2>5 DEF Pool!Urgent
    <2>6. CASE n # 1
      <3>1. 1 < n
        <4>1. queued \in Seq(Job)
          BY DEF Core, TypeOK
        <4>2. DOMAIN queued = 1 .. Len(queued)
          BY <4>1, LenProperties
        <4> QED
          BY <2>6, <4>2
      <3>2. ~Contains(resumed, k) /\ ~Contains(resumed, j)
        BY <1>6, <1>7
      <3>3. /\ Priority[j] >= Priority[k]
            /\ Priority[j] = Priority[k] => CameBefore(j, k, created)
        BY <1>2, <2>3, <3>1, <3>2 DEF Core, Ordered, InOrder
      <3> QED
        BY <2>4, <3>3 DEF Pool!Urgent, Pool!EarlierThan, CameBefore
    <2> QED
      BY <2>5, <2>6
  <1>8. ToSet(resumed)' = ToSet(resumed)
    BY <1>4
  <1>9. Pool!Start(j)
    BY <1>5, <1>7, <1>8 DEF Pool!Start, PoolState
  <1> QED
    BY <1>9

LEMMA ResumeRetries ==
    ASSUME Core, NEW j \in Job, Mutate(Resume(j), <<j>>)
    PROVE  Pool!Retry(j)
  <1>1. /\ job[j].status \in {"failed"} /\ job' = [job EXCEPT ![j].status = "queued"]
        /\ phase = "up" /\ unsaved = <<>> /\ UNCHANGED <<store, phase, created>>
        /\ resumed' = Append(resumed, j)
    BY DEF Mutate, Resume
  <1>2. Pool!Becomes(j, {"failed"}, "queued")
    <2>1. PICK from, to : from = {"failed"} /\ to = "queued"
      OBVIOUS
    <2>2. job[j].status \in from /\ job' = [job EXCEPT ![j].status = to]
      BY <1>1, <2>1
    <2>3. Pool!Becomes(j, from, to)
      BY <1>1, <2>2, OneBecomes
    <2> QED
      BY <2>1, <2>3
  <1>3. ToSet(resumed)' = ToSet(resumed) \cup {j}
    <2>1. ToSet(Append(resumed, j)) = ToSet(resumed) \cup {j}
      BY AppendParts DEF Core, TypeOK
    <2> QED
      BY <1>1, <2>1
  <1> QED
    BY <1>2, <1>3 DEF Pool!Retry

LEMMA UpsertSaves ==
    ASSUME Core, Upsert
    PROVE  \E j \in Job : Pool!Save(j)
  <1>1. PICK j \in Job : j = Head(unsaved)
    BY TailContains DEF Upsert, Core, TypeOK
  <1>2. store' = [store EXCEPT ![j] = job[j]] /\ UNCHANGED <<queueVars, phase>>
    BY <1>1 DEF Upsert, WriteRow
  <1>3. phase = "up"
    BY DEF Upsert, Core, Stored
  <1>4. \A k \in Job : store'[k].status = IF k = j THEN job[j].status ELSE store[k].status
    BY <1>2 DEF Core, TypeOK
  <1>5. PoolDurable' = [PoolDurable EXCEPT ![j] = PoolState[j]]
    BY <1>2, <1>3, <1>4 DEF PoolDurable, PoolState
  <1>6. PoolState' = PoolState
    BY <1>2, <1>3 DEF PoolState, queueVars, queue
  <1>7. created' = created /\ ToSet(resumed)' = ToSet(resumed)
    BY <1>2 DEF queueVars
  <1>8. Pool!Save(j)
    BY <1>5, <1>6, <1>7 DEF Pool!Save, PoolDurable, PoolState
  <1> QED
    BY <1>8

LEMMA CrashInterrupts ==
    ASSUME Core, Crash
    PROVE  Pool!Interrupt
  <1>1. phase' = "down" /\ store' = store /\ created' = created /\ resumed' = resumed
    BY DEF Crash
  <1>2. PoolDurable' = [j \in Job |-> IF PoolDurable[j] = "running" THEN "queued"
                                      ELSE PoolDurable[j]]
    BY <1>1 DEF PoolDurable, Recovered
  <1>3. PoolState' = PoolDurable'
    BY <1>1 DEF PoolState, PoolDurable, Recovered
  <1>4. ToSet(resumed)' = ToSet(resumed)
    BY <1>1
  <1> QED
    BY <1>1, <1>2, <1>3, <1>4 DEF Pool!Interrupt, PoolDurable, PoolState

\* The steps the pool does not see.
LEMMA PoolStutters ==
    ASSUME PoolState' = PoolState, PoolDurable' = PoolDurable,
           created' = created, resumed' = resumed
    PROVE  UNCHANGED Pool!poolVars
  <1>1. ToSet(resumed)' = ToSet(resumed)
    OBVIOUS
  <1> QED
    BY <1>1 DEF Pool!poolVars, PoolDurable, PoolState

LEMMA RecordFrameUnseen ==
    ASSUME Core, NEW w \in Worker, RecordFrame(w)
    PROVE  UNCHANGED Pool!poolVars
  <1>1. PICK j \in Job : worker[w].job = j /\ j \in running
    BY DEF RecordFrame, RenderFrame, Rendering
  <1>2. PICK f : f = worker'[w].frame
    OBVIOUS
  <1>3. /\ phase = "up" /\ unsaved = <<>> /\ UNCHANGED <<queue, created, resumed, phase>>
        /\ store' = [store EXCEPT ![j] = [status |-> "running", frames |-> f]]
    BY <1>1, <1>2 DEF RecordFrame, RenderFrame, WriteRow
  <1>4. store[j].status = "running"
    BY <1>1, <1>3, AllSaved, QueuedAre
  <1>5. \A k \in Job : store'[k].status = store[k].status
    BY <1>3, <1>4 DEF Core, TypeOK
  <1>6. PoolState' = PoolState /\ PoolDurable' = PoolDurable
    BY <1>3, <1>5 DEF PoolState, PoolDurable, queue
  <1> QED
    BY <1>3, <1>6, PoolStutters

LEMMA ReincarnateUnseen ==
    ASSUME Core, ReincarnateRunningAsQueued
    PROVE  UNCHANGED Pool!poolVars
  <1>1. /\ phase = "down" /\ phase' = "opened"
        /\ store' = [j \in Job |-> IF store[j].status = "running"
                                   THEN [store[j] EXCEPT !.status = "queued"] ELSE store[j]]
        /\ UNCHANGED queueVars
    BY DEF ReincarnateRunningAsQueued
  <1>2. \A j \in Job : store'[j].status = Recovered(j)
    <2> SUFFICES ASSUME NEW j \in Job PROVE store'[j].status = Recovered(j)
      OBVIOUS
    <2>1. store[j] \in JobRecord
      BY DEF Core, TypeOK
    <2>2. CASE store[j].status = "running"
      <3>1. store'[j] = [store[j] EXCEPT !.status = "queued"]
        BY <1>1, <2>2
      <3> QED
        BY <2>1, <2>2, <3>1 DEF JobRecord, Recovered
    <2>3. CASE store[j].status # "running"
      BY <1>1, <2>3 DEF Recovered
    <2> QED
      BY <2>2, <2>3
  <1>3. \A j \in Job : Recovered(j)' = Recovered(j)
    BY <1>2 DEF Recovered
  <1>4. PoolState' = PoolState /\ PoolDurable' = PoolDurable
    BY <1>1, <1>3 DEF PoolState, PoolDurable
  <1> QED
    BY <1>1, <1>4, PoolStutters DEF queueVars

LEMMA LoadQueueUnseen ==
    ASSUME Core, LoadQueue
    PROVE  UNCHANGED Pool!poolVars
  <1>1. /\ phase = "opened" /\ phase' = "up" /\ job' = store
        /\ UNCHANGED <<created, resumed, store>>
    BY DEF LoadQueue
  <1>2. \A j \in Job : Recovered(j) = store[j].status
    BY <1>1 DEF Core, Stored, Recovered
  <1>3. PoolState' = PoolState /\ PoolDurable' = PoolDurable
    BY <1>1, <1>2 DEF PoolState, PoolDurable
  <1> QED
    BY <1>1, <1>3, PoolStutters

LEMMA UnchangedUnseen ==
    ASSUME UNCHANGED <<job, store, phase, created, resumed>>
    PROVE  UNCHANGED Pool!poolVars
  <1>1. PoolState' = PoolState /\ PoolDurable' = PoolDurable
    BY DEF PoolState, PoolDurable, Recovered
  <1> QED
    BY <1>1, PoolStutters

LEMMA WorkerEnds ==
    ASSUME Core, NEW w \in Worker, NEW j \in Job,
           Mutate(Complete(w, j), <<j>>) \/ Mutate(Fail(w, j), <<j>>)
    PROVE  Pool!End(j)
  <1>1. /\ phase = "up" /\ unsaved = <<>> /\ UNCHANGED <<store, phase, crashes>>
        /\ Rendering(w, j)
    BY DEF Mutate, Complete, Fail
  <1>2. job[j].status = "running"
    BY <1>1, QueuedAre
  <1>3. CASE Mutate(Complete(w, j), <<j>>)
    <2>1. PICK from, to : from = {"running"} /\ to = "completed"
      OBVIOUS
    <2>2. Finish(j, to) /\ job[j].status \in from
      BY <1>2, <1>3, <2>1 DEF Mutate, Complete
    <2>3. Pool!Becomes(j, from, to) /\ ToSet(resumed)' = ToSet(resumed)
      BY <1>1, <2>2, FinishEnds
    <2> QED
      BY <2>1, <2>3 DEF Pool!End
  <1>4. CASE Mutate(Fail(w, j), <<j>>)
    <2>1. PICK from, to : from = {"queued", "running"} /\ to = "failed"
      OBVIOUS
    <2>2. Finish(j, to) /\ job[j].status \in from
      BY <1>2, <1>4, <2>1 DEF Mutate, Fail
    <2>3. Pool!Becomes(j, from, to) /\ ToSet(resumed)' = ToSet(resumed)
      BY <1>1, <2>2, FinishEnds
    <2> QED
      BY <2>1, <2>3 DEF Pool!End
  <1> QED
    BY <1>3, <1>4

LEMMA OthersEnd ==
    ASSUME Core, NEW j \in Job, Mutate(FailQueued(j), <<j>>) \/ Mutate(Cancel(j), <<j>>)
    PROVE  Pool!End(j)
  <1>1. phase = "up" /\ unsaved = <<>> /\ UNCHANGED <<store, phase, crashes>>
    BY DEF Mutate
  <1>2. PICK from, to : from = {"queued", "running"} /\ to \in {"failed", "cancelled"}
                        /\ Finish(j, to)
    <2>1. "failed" \in {"failed", "cancelled"} /\ "cancelled" \in {"failed", "cancelled"}
      OBVIOUS
    <2>2. \E to \in {"failed", "cancelled"} : Finish(j, to)
      BY <2>1 DEF Mutate, FailQueued, Cancel
    <2> QED
      BY <2>2
  <1>3. job[j].status \in from
    <2>1. job[j].status = "queued" \/ job[j].status = "running"
      BY QueuedAre DEF Mutate, FailQueued, Cancel
    <2> QED
      BY <1>2, <2>1
  <1>4. Pool!Becomes(j, from, to) /\ ToSet(resumed)' = ToSet(resumed)
    BY <1>1, <1>2, <1>3, FinishEnds
  <1> QED
    BY <1>2, <1>4 DEF Pool!End

LEMMA InitIsPool == Init => Pool!PoolInit
  <1> SUFFICES ASSUME Init PROVE Pool!PoolInit
    OBVIOUS
  <1>1. /\ job = [j \in Job |-> NewJob] /\ store = [j \in Job |-> NewJob]
        /\ phase = "up" /\ created = <<>> /\ resumed = <<>>
    BY DEF Init, QueueInit
  <1>2. PoolState = [j \in Job |-> "new"] /\ PoolDurable = PoolState
    BY <1>1 DEF PoolState, PoolDurable, NewJob
  <1>3. ToSet(resumed) = {}
    BY <1>1 DEF ToSet
  <1> QED
    BY <1>1, <1>2, <1>3 DEF Pool!PoolInit, PoolState, PoolDurable

LEMMA NextIsPool == Core /\ [Next]_vars => [Pool!PoolNext]_(Pool!poolVars)
  <1> SUFFICES ASSUME Core, [Next]_vars PROVE [Pool!PoolNext]_(Pool!poolVars)
    OBVIOUS
  <1>1. ASSUME NEW js \in Submission, Mutate(Submit(js), js)
        PROVE  Pool!PoolNext
    BY <1>1, SubmitArrives DEF Pool!PoolNext
  <1>2. ASSUME NEW w \in Worker, queued # <<>>, Mutate(Admit(w), <<Head(queued)>>)
        PROVE  Pool!PoolNext
    BY <1>2, AdmitStarts DEF Pool!PoolNext
  <1>3. ASSUME NEW w \in Worker, RecordFrame(w) PROVE UNCHANGED Pool!poolVars
    BY <1>3, RecordFrameUnseen
  <1>4. ASSUME NEW w \in Worker, Mutate(GiveUp(w), <<>>) PROVE UNCHANGED Pool!poolVars
    <2>1. UNCHANGED <<job, store, phase, created, resumed>>
      BY <1>4 DEF Mutate, GiveUp, queue
    <2> QED
      BY <2>1, UnchangedUnseen
  <1>5. ASSUME NEW w \in Worker, NEW j \in Job,
               Mutate(Complete(w, j), <<j>>) \/ Mutate(Fail(w, j), <<j>>)
        PROVE  Pool!PoolNext
    BY <1>5, WorkerEnds DEF Pool!PoolNext
  <1>6. ASSUME NEW j \in Job, Mutate(FailQueued(j), <<j>>) \/ Mutate(Cancel(j), <<j>>)
        PROVE  Pool!PoolNext
    BY <1>6, OthersEnd DEF Pool!PoolNext
  <1>7. ASSUME NEW j \in Job, Mutate(Resume(j), <<j>>) PROVE Pool!PoolNext
    BY <1>7, ResumeRetries DEF Pool!PoolNext
  <1>8. CASE Upsert
    BY <1>8, UpsertSaves DEF Pool!PoolNext
  <1>9. CASE Crash
    BY <1>9, CrashInterrupts DEF Pool!PoolNext
  <1>10. CASE ReincarnateRunningAsQueued
    BY <1>10, ReincarnateUnseen
  <1>11. CASE LoadQueue
    BY <1>11, LoadQueueUnseen
  <1>12. CASE UNCHANGED vars
    <2>1. UNCHANGED <<job, store, phase, created, resumed>>
      BY <1>12 DEF vars, queueVars, queue, storeVars
    <2> QED
      BY <2>1, UnchangedUnseen
  <1> QED
    BY <1>1, <1>2, <1>3, <1>4, <1>5, <1>6, <1>7, <1>8, <1>9, <1>10, <1>11, <1>12
       DEF Next

(* ImplementsPool: every step of the queue, its store, a crash and the      *)
(* recovery is a step of the pool of waiting jobs, or one it does not see.  *)
THEOREM QueueImplementsPool == Spec => ImplementsPool
  BY InitIsPool, NextIsPool, CoreHolds, PTL DEF Spec, ImplementsPool, Pool!PoolSpec

=============================================================================
