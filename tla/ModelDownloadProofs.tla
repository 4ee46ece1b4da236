------------------------ MODULE ModelDownloadProofs -------------------------
(***************************************************************************)
(* Proofs about ModelDownload, for any number of threads and files, models *)
(* of any length, and any number of faults.  The argument: a call works on *)
(* the files of a model only while it holds the guard of that model, so    *)
(* what it verified is still what it renames.                              *)
(***************************************************************************)
EXTENDS ModelDownload, SequenceTheorems, TLAPS

Inv == DownloadInvariant /\ InstalledIsVerified

-----------------------------------------------------------------------------
(* Contents of files.                                                      *)

LEMMA AnyFileIsAFile == AnyFile \in File
  BY DownloadAssumption DEF AnyFile

LEMMA SpecialContents ==
    /\ Absent \in Content /\ <<>> \in Content /\ Foreign \in Content
    /\ Whole \in Content /\ Whole # Absent /\ Whole # Foreign
  <1>1. Size \in Nat /\ Size >= 1
    BY DownloadAssumption
  <1>2. Whole \in Seq({"ok", "bad"}) /\ Len(Whole) = Size
    BY <1>1 DEF Whole
  <1>3. <<>> \in Seq({"ok", "bad"}) /\ Len(<<>>) = 0
    OBVIOUS
  <1>4. Foreign \in Seq({"ok", "bad"}) /\ Len(Foreign) = 1 /\ Foreign[1] = "bad"
    BY DEF Foreign
  <1>5. Whole[1] = "ok"
    BY <1>1 DEF Whole
  <1>6. Whole # Absent
    BY <1>2, DownloadAssumption
  <1> QED
    BY <1>1, <1>2, <1>3, <1>4, <1>5, <1>6 DEF Content

\* A chunk written at the end of a file makes it one chunk longer.
LEMMA WriteAtEnd ==
    ASSUME NEW content \in Content, content # Absent, Len(content) < Size,
           NEW chunk \in {"ok", "bad"}
    PROVE  LET written == WriteAt(content, Len(content) + 1, chunk)
           IN  written \in Content /\ written # Absent
               /\ Len(written) = Len(content) + 1
  <1> DEFINE n == Len(content)
             written == WriteAt(content, n + 1, chunk)
  <1>1. content \in Seq({"ok", "bad"}) /\ n \in Nat /\ n < Size /\ Size \in Nat
    BY DownloadAssumption DEF Content
  <1>2. written = [i \in 1 .. n + 1 |-> IF i = n + 1 THEN chunk ELSE
                                         IF i <= n THEN content[i] ELSE "hole"]
    BY <1>1 DEF WriteAt
  <1>3. \A i \in 1 .. n + 1 : written[i] \in {"ok", "bad"}
    BY <1>1, <1>2
  <1>4. written \in [1 .. n + 1 -> {"ok", "bad"}]
    BY <1>2, <1>3
  <1>5. written \in Seq({"ok", "bad"}) /\ Len(written) = n + 1
    BY <1>1, <1>4
  <1>6. written # Absent
    BY <1>5, DownloadAssumption
  <1> QED
    BY <1>1, <1>5, <1>6 DEF Content

-----------------------------------------------------------------------------
(* What a call that holds a guard does is of no concern to the others.     *)

LEMMA OthersUndisturbed ==
    ASSUME Inv, NEW t \in Thread, Working(t),
           \A u \in Thread \ {t} : call'[u] = call[u],
           \A g \in File \ {call[t].file} :
               /\ final'[g] = final[g] /\ partial'[g] = partial[g]
               /\ guard'[g] = guard[g] /\ progress'[g] = progress[g]
    PROVE  \A u \in Thread \ {t} : GuardHeld(u)' /\ OnTrack(u)'
  <1> SUFFICES ASSUME NEW u \in Thread \ {t}
               PROVE  GuardHeld(u)' /\ OnTrack(u)'
    OBVIOUS
  <1>1. GuardHeld(t) /\ GuardHeld(u) /\ OnTrack(u) /\ call[u].file \in File
    BY DEF Inv, DownloadInvariant, TypeOK
  <1>2. CASE Working(u)
    <2>1. call[u].file # call[t].file
      BY <1>1, <1>2 DEF GuardHeld
    <2> QED
      BY <1>1, <2>1 DEF GuardHeld, OnTrack, Working
  <1>3. CASE ~Working(u)
    BY <1>3 DEF GuardHeld, OnTrack, Working
  <1> QED
    BY <1>2, <1>3

-----------------------------------------------------------------------------
(* The invariant is inductive.                                             *)

LEMMA InitInv == Init => Inv
  <1> SUFFICES ASSUME Init PROVE Inv
    OBVIOUS
  <1>1. TypeOK
    BY AnyFileIsAFile, SpecialContents, DownloadAssumption
    DEF Init, TypeOK, Idle, Labels
  <1>2. InstalledIsVerified
    BY DownloadAssumption DEF Init, InstalledIsVerified
  <1>3. ProgressIsTrue /\ \A t \in Thread : GuardHeld(t) /\ OnTrack(t)
    BY DEF Init, ProgressIsTrue, GuardHeld, OnTrack, Working, Idle
  <1> QED
    BY <1>1, <1>2, <1>3 DEF Inv, DownloadInvariant

\* A step of a call that leaves the final file alone and goes on.
LEMMA CallGoesOn ==
    ASSUME Inv, NEW t \in Thread, Working(t),
           NEW label \in Labels \ {"idle", "guard"}, NEW pos \in 0 .. Size,
           call' = [call EXCEPT ![t].at = label, ![t].pos = pos],
           NEW content \in Content,
           partial' = [partial EXCEPT ![call[t].file] = content],
           NEW state \in {"downloading", "verifying", progress[call[t].file]},
           progress' = [progress EXCEPT ![call[t].file] = state],
           UNCHANGED <<final, guard>>, faults' \in Nat,
           OnTrack(t)'
    PROVE  Inv'
  <1>1. TypeOK'
    <2>1. TypeOK /\ call[t].file \in File
      BY DEF Inv, DownloadInvariant, TypeOK
    <2>2. call' \in [Thread -> [at: Labels, file: File, pos: 0 .. Size]]
      <3> DEFINE Record == [at: Labels, file: File, pos: 0 .. Size]
                 new == [call[t] EXCEPT !.at = label, !.pos = pos]
      <3>1. call \in [Thread -> Record] /\ call[t] \in Record
        BY <2>1 DEF TypeOK
      <3>2. new \in Record
        BY <3>1
      <3>3. call' = [call EXCEPT ![t] = new]
        BY <3>1
      <3> QED
        BY <3>1, <3>2, <3>3
    <2>3. partial' \in [File -> Content]
      BY <2>1 DEF TypeOK
    <2>4. progress' \in [File -> {"none", "downloading", "verifying", "failed",
                                  "completed"}]
      BY <2>1 DEF TypeOK
    <2> QED
      BY <2>1, <2>2, <2>3, <2>4 DEF TypeOK
  <1>2. GuardHeld(t)'
    BY DEF Inv, DownloadInvariant, TypeOK, GuardHeld, Working
  <1>3. \A u \in Thread \ {t} : GuardHeld(u)' /\ OnTrack(u)'
    BY OthersUndisturbed DEF Inv, DownloadInvariant, TypeOK
  <1>4. ProgressIsTrue'
    BY DEF Inv, DownloadInvariant, TypeOK, ProgressIsTrue, Working
  <1> QED
    BY <1>1, <1>2, <1>3, <1>4 DEF Inv, DownloadInvariant, InstalledIsVerified

\* A call that fails, whatever it leaves of the partial.
LEMMA CallFails ==
    ASSUME Inv, NEW t \in Thread, Working(t), Fail(t),
           NEW content \in Content,
           partial' = [partial EXCEPT ![call[t].file] = content],
           UNCHANGED final, faults' \in Nat
    PROVE  Inv'
  <1> USE DEF Fail, End, Publish
  <1>1. TypeOK'
    BY AnyFileIsAFile, DownloadAssumption
    DEF Inv, DownloadInvariant, TypeOK, Idle, Labels
  <1>2. GuardHeld(t)' /\ OnTrack(t)'
    BY DEF Inv, DownloadInvariant, TypeOK, GuardHeld, OnTrack, Working, Idle
  <1>3. \A u \in Thread \ {t} : GuardHeld(u)' /\ OnTrack(u)'
    BY OthersUndisturbed DEF Inv, DownloadInvariant, TypeOK
  <1>4. ProgressIsTrue'
    BY DEF Inv, DownloadInvariant, TypeOK, ProgressIsTrue, Working
  <1> QED
    BY <1>1, <1>2, <1>3, <1>4 DEF Inv, DownloadInvariant, InstalledIsVerified

\* What the step of a thread does to the invariant.
LEMMA StepInv ==
    ASSUME Inv, NEW t \in Thread, Step(t)
    PROVE  Inv'
  <1> DEFINE f == call[t].file
  <1>1. /\ f \in File /\ call[t].pos \in 0 .. Size /\ OnTrack(t) /\ GuardHeld(t)
        /\ partial[f] \in Content /\ final[f] \in Content /\ TypeOK
        /\ partial \in [File -> Content] /\ faults \in Nat
        /\ Size \in Nat /\ Size >= 1
    BY DownloadAssumption DEF Inv, DownloadInvariant, TypeOK
  <1>2. partial = [partial EXCEPT ![f] = partial[f]]
        /\ progress = [progress EXCEPT ![f] = progress[f]]
        /\ call[t] = [at |-> call[t].at, file |-> f, pos |-> call[t].pos]
    BY <1>1 DEF TypeOK
  <1>a. CASE TakeGuard(t)
    <2>1. TypeOK'
      BY <1>1, <1>a DEF TakeGuard, Goto, TypeOK, disk, Labels
    <2>2. GuardHeld(t)' /\ OnTrack(t)'
      <3>1. ~\E u \in Thread : call[u].file = f /\ Working(u)
        BY <1>a, DownloadAssumption DEF TakeGuard, Inv, DownloadInvariant, GuardHeld
      <3>2. progress[f] \notin {"downloading", "verifying"}
        BY <1>1, <3>1 DEF Inv, DownloadInvariant, ProgressIsTrue
      <3> QED
        BY <1>1, <1>a, <3>2
        DEF TakeGuard, Goto, GuardHeld, OnTrack, Working, disk, TypeOK
    <2>3. \A u \in Thread \ {t} : GuardHeld(u)' /\ OnTrack(u)'
      <3> SUFFICES ASSUME NEW u \in Thread \ {t} PROVE GuardHeld(u)' /\ OnTrack(u)'
        OBVIOUS
      <3>1. GuardHeld(u) /\ OnTrack(u) /\ call'[u] = call[u] /\ guard[f] = Nobody
            /\ call[u].file \in File
        BY <1>1, <1>a DEF TakeGuard, Goto, TypeOK, Inv, DownloadInvariant
      <3> QED
        BY <1>1, <1>a, <3>1, DownloadAssumption
        DEF TakeGuard, GuardHeld, OnTrack, Working, disk, TypeOK
    <2>4. ProgressIsTrue'
      BY <1>1, <1>a DEF TakeGuard, Goto, disk, TypeOK, Inv, DownloadInvariant,
                        ProgressIsTrue, Working
    <2> QED
      BY <1>a, <2>1, <2>2, <2>3, <2>4
      DEF TakeGuard, disk, Inv, DownloadInvariant, InstalledIsVerified
  <1>b. CASE CheckFinal(t)
    <2>1. PICK label \in {"completed", "remove", "partial"} :
              /\ Goto(t, label)
              /\ label = "completed" => Verified(f, final[f])
              /\ label = "remove" => f \in Pinned /\ ~Verified(f, final[f])
      BY <1>b DEF CheckFinal
    <2>2. call' = [call EXCEPT ![t].at = label, ![t].pos = call[t].pos]
      BY <1>1, <2>1 DEF Goto, TypeOK
    <2>3. OnTrack(t)'
      BY <1>1, <1>b, <2>1 DEF CheckFinal, Goto, OnTrack, Verified, disk, TypeOK
    <2> QED
      BY <1>1, <1>2, <1>b, <2>1, <2>2, <2>3, CallGoesOn
      DEF CheckFinal, disk, Working, Labels
  <1>c. CASE RemoveFinal(t)
    <2>1. TypeOK'
      <3>1. final' \in [File -> Content]
        BY <1>1, <1>c, SpecialContents DEF RemoveFinal, TypeOK
      <3>2. call' \in [Thread -> [at: Labels, file: File, pos: 0 .. Size]]
        BY <1>1, <1>c DEF RemoveFinal, Goto, TypeOK, Labels
      <3> QED
        BY <1>1, <1>c, <3>1, <3>2 DEF RemoveFinal, TypeOK
    <2>2. GuardHeld(t)' /\ OnTrack(t)'
      BY <1>1, <1>c DEF RemoveFinal, Goto, GuardHeld, OnTrack, Working, TypeOK
    <2>3. \A u \in Thread \ {t} : GuardHeld(u)' /\ OnTrack(u)'
      BY <1>1, <1>c, OthersUndisturbed DEF RemoveFinal, Goto, Working, TypeOK
    <2>4. ProgressIsTrue'
      BY <1>1, <1>c DEF RemoveFinal, Goto, TypeOK, Inv, DownloadInvariant,
                        ProgressIsTrue, Working, OnTrack
    <2> QED
      BY <1>1, <1>c, <2>1, <2>2, <2>3, <2>4
      DEF RemoveFinal, TypeOK, Inv, DownloadInvariant, InstalledIsVerified
  <1>o. CASE FastPathFails(t)
    <2>1. TypeOK'
      BY <1>1, <1>o, AnyFileIsAFile, DownloadAssumption
      DEF FastPathFails, Fault, End, disk, TypeOK, Idle, Labels
    <2>2. GuardHeld(t)' /\ OnTrack(t)'
      BY <1>1, <1>o DEF FastPathFails, End, GuardHeld, OnTrack, Working, Idle, TypeOK
    <2>3. \A u \in Thread \ {t} : GuardHeld(u)' /\ OnTrack(u)'
      BY <1>1, <1>o, OthersUndisturbed DEF FastPathFails, End, disk, Working, TypeOK
    <2>4. ProgressIsTrue'
      <3>1. progress[f] \notin {"downloading", "verifying"}
        BY <1>1, <1>o DEF FastPathFails, OnTrack
      <3>2. \A u \in Thread : call[u].file # f => call'[u] = call[u]
        BY <1>1, <1>o DEF FastPathFails, End, TypeOK
      <3> QED
        BY <1>o, <3>1, <3>2 DEF FastPathFails, disk, Inv, DownloadInvariant,
                                ProgressIsTrue, Working
    <2> QED
      BY <1>o, <2>1, <2>2, <2>3, <2>4
      DEF FastPathFails, disk, Inv, DownloadInvariant, InstalledIsVerified
  <1>d. CASE CheckPartial(t)
    <2>1. PICK label \in {"rename", "request"}, state \in {"verifying", "downloading"} :
              /\ Goto(t, label) /\ Publish(t, state)
              /\ label = "rename" => Verified(f, partial[f])
      BY <1>d DEF CheckPartial
    <2>2. call' = [call EXCEPT ![t].at = label, ![t].pos = call[t].pos]
      BY <1>1, <2>1 DEF Goto, TypeOK
    <2>3. OnTrack(t)'
      BY <1>1, <1>d, <2>1 DEF CheckPartial, Goto, OnTrack, Verified, disk, TypeOK
    <2> QED
      BY <1>1, <1>2, <1>d, <2>1, <2>2, <2>3, CallGoesOn
      DEF CheckPartial, disk, Working, Labels, Publish
  <1>e. CASE Resume(t)
    <2>1. OnTrack(t)'
      BY <1>1, <1>e DEF Resume, LengthOf, OnTrack, disk, TypeOK
    <2>2. LengthOf(partial[f]) \in 0 .. Size
      BY <1>1, <1>e DEF Resume
    <2> QED
      BY <1>1, <1>2, <1>e, <2>1, <2>2, CallGoesOn DEF Resume, disk, Working, Labels
  <1>f. CASE Restart(t)
    <2>1. /\ partial' = [partial EXCEPT ![f] = <<>>]
          /\ call' = [call EXCEPT ![t].at = "body", ![t].pos = 0]
          /\ call[t].at = "request"
          /\ UNCHANGED <<final, guard, progress, faults>>
      BY <1>f DEF Restart
    <2>2. <<>> \in Seq({"ok", "bad"}) /\ Len(<<>>) = 0
      OBVIOUS
    <2>3. <<>> # Absent
      BY <2>2, DownloadAssumption
    <2>4. OnTrack(t)'
      BY <1>1, <2>1, <2>2, <2>3 DEF OnTrack, TypeOK
    <2>5. progress' = [progress EXCEPT ![f] = progress[f]]
      BY <1>2, <2>1
    <2> QED
      <3>1. Working(t) /\ "body" \in Labels \ {"idle", "guard"} /\ 0 \in 0 .. Size
            /\ faults' \in Nat
        BY <1>1, <2>1 DEF Working, Labels
      <3> QED
        BY <2>1, <2>4, <2>5, <3>1, SpecialContents, CallGoesOn
  <1>g. CASE NotSatisfiable(t)
    BY <1>1, <1>g, SpecialContents, CallFails DEF NotSatisfiable, TooLong, Working
  <1>h. CASE RequestFails(t)
    BY <1>1, <1>2, <1>h, CallFails, DownloadAssumption
    DEF RequestFails, Fault, disk, Working
  <1>i. CASE Receive(t)
    <2>1. PICK chunk \in {"ok", "bad"} :
              partial' = [partial EXCEPT ![f] = WriteAt(@, call[t].pos + 1, chunk)]
      BY <1>i DEF Receive
    <2> DEFINE written == WriteAt(partial[f], call[t].pos + 1, chunk)
    <2>2. /\ written \in Content /\ written # Absent
          /\ Len(written) = call[t].pos + 1
      BY <1>1, <1>i, WriteAtEnd DEF Receive, OnTrack
    <2>3. call' = [call EXCEPT ![t].at = "body", ![t].pos = call[t].pos + 1]
          /\ partial' = [partial EXCEPT ![f] = written]
      <3>1. [partial EXCEPT ![f] = WriteAt(@, call[t].pos + 1, chunk)]
                = [partial EXCEPT ![f] = written]
        BY <1>1
      <3>2. call' = [call EXCEPT ![t].pos = call[t].pos + 1] /\ call[t].at = "body"
        BY <1>1, <1>i DEF Receive, TypeOK
      <3>3. call' = [call EXCEPT ![t].at = "body", ![t].pos = call[t].pos + 1]
        BY <1>1, <3>2 DEF TypeOK
      <3> QED
        BY <2>1, <3>1, <3>3
    <2>4. OnTrack(t)'
      BY <1>1, <2>2, <2>3 DEF OnTrack, TypeOK
    <2>5. call[t].pos + 1 \in 0 .. Size /\ faults' \in Nat
      BY <1>1, <1>i DEF Receive, Fault
    <2> QED
      BY <1>1, <1>2, <1>i, <2>2, <2>3, <2>4, <2>5, CallGoesOn
      DEF Receive, Working, Labels
  <1>j. CASE BodyFails(t)
    BY <1>1, <1>2, <1>j, CallFails DEF BodyFails, Fault, disk, Working
  <1>k. CASE EndOfBody(t)
    <2>1. call' = [call EXCEPT ![t].at = "verify", ![t].pos = call[t].pos]
      BY <1>1, <1>k DEF EndOfBody, Goto, TypeOK
    <2>2. OnTrack(t)' /\ faults' \in Nat
      BY <1>1, <1>k DEF EndOfBody, Goto, Fault, OnTrack, TypeOK
    <2> QED
      BY <1>1, <1>2, <1>k, <2>1, <2>2, CallGoesOn
      DEF EndOfBody, Publish, disk, Working, Labels
  <1>l. CASE Verify(t)
    <2>1. CASE Goto(t, "rename") /\ UNCHANGED <<partial, guard, progress>>
               /\ (f \in Pinned => partial[f] = Whole)
      <3>1. call' = [call EXCEPT ![t].at = "rename", ![t].pos = call[t].pos]
        BY <1>1, <2>1 DEF Goto, TypeOK
      <3>2. OnTrack(t)'
        BY <1>1, <1>l, <2>1 DEF Goto, OnTrack, TypeOK
      <3> QED
        BY <1>1, <1>2, <1>l, <2>1, <3>1, <3>2, CallGoesOn DEF Verify, Working, Labels
    <2>2. CASE Fail(t) /\ partial' = [partial EXCEPT ![f] = Absent]
      BY <1>1, <1>l, <2>2, SpecialContents, CallFails DEF Verify, Working
    <2> QED
      BY <1>l, <2>1, <2>2 DEF Verify
  <1>m. CASE Rename(t)
    <2>1. CASE /\ final' = [final EXCEPT ![f] = partial[f]]
               /\ partial' = [partial EXCEPT ![f] = Absent]
               /\ Goto(t, "completed")
               /\ UNCHANGED <<guard, progress, faults>>
      <3>1. f \in Pinned => final'[f] = Whole
        BY <1>1, <1>m, <2>1 DEF Rename, OnTrack, TypeOK
      <3>2. TypeOK'
        BY <1>1, <2>1, SpecialContents DEF Goto, TypeOK, Labels
      <3>3. GuardHeld(t)' /\ OnTrack(t)'
        BY <1>1, <1>m, <2>1, <3>1 DEF Rename, Goto, GuardHeld, OnTrack, Working, TypeOK
      <3>4. \A u \in Thread \ {t} : GuardHeld(u)' /\ OnTrack(u)'
        BY <1>1, <1>m, <2>1, OthersUndisturbed DEF Rename, Goto, Working, TypeOK
      <3>5. ProgressIsTrue'
        BY <1>1, <1>m, <2>1, <3>1 DEF Rename, Goto, TypeOK, Inv, DownloadInvariant,
                                      ProgressIsTrue, Working
      <3>6. InstalledIsVerified'
        BY <1>1, <2>1, <3>1, DownloadAssumption DEF Inv, InstalledIsVerified, TypeOK
      <3> QED
        BY <3>2, <3>3, <3>4, <3>5, <3>6 DEF Inv, DownloadInvariant
    <2>2. CASE Fault /\ Fail(t) /\ UNCHANGED disk
      BY <1>1, <1>2, <1>m, <2>2, CallFails DEF Rename, Fault, disk, Working
    <2> QED
      BY <1>m, <2>1, <2>2 DEF Rename
  <1>n. CASE Complete(t)
    <2>1. TypeOK'
      BY <1>1, <1>n, AnyFileIsAFile, DownloadAssumption
      DEF Complete, Publish, End, disk, TypeOK, Idle, Labels
    <2>2. GuardHeld(t)' /\ OnTrack(t)'
      BY <1>1, <1>n DEF Complete, End, GuardHeld, OnTrack, Working, Idle, TypeOK
    <2>3. \A u \in Thread \ {t} : GuardHeld(u)' /\ OnTrack(u)'
      BY <1>1, <1>n, OthersUndisturbed
      DEF Complete, Publish, End, disk, Working, TypeOK
    <2>4. ProgressIsTrue'
      BY <1>1, <1>n DEF Complete, Publish, End, disk, Idle, TypeOK, Inv,
                        DownloadInvariant, ProgressIsTrue, Working, OnTrack
    <2> QED
      BY <1>n, <2>1, <2>2, <2>3, <2>4
      DEF Complete, disk, Inv, DownloadInvariant, InstalledIsVerified
  <1> QED
    BY <1>a, <1>b, <1>c, <1>d, <1>e, <1>f, <1>g, <1>h, <1>i, <1>j, <1>k, <1>l,
       <1>m, <1>n, <1>o DEF Step

LEMMA StartInv ==
    ASSUME Inv, NEW t \in Thread, NEW f \in File, Start(t, f)
    PROVE  Inv'
  <1>1. TypeOK /\ \A u \in Thread : GuardHeld(u) /\ OnTrack(u)
    BY DEF Inv, DownloadInvariant
  <1>2. call' = [call EXCEPT ![t] = [at |-> "guard", file |-> f, pos |-> 0]]
        /\ UNCHANGED <<final, partial, guard, progress, faults>>
    <2>1. [Idle(f) EXCEPT !.at = "guard"] = [at |-> "guard", file |-> f, pos |-> 0]
      BY DEF Idle
    <2> QED
      BY <2>1 DEF Start, disk
  <1>3. TypeOK'
    <2>1. [at |-> "guard", file |-> f, pos |-> 0]
              \in [at: Labels, file: File, pos: 0 .. Size]
      BY DownloadAssumption DEF Labels
    <2> QED
      BY <1>1, <1>2, <2>1 DEF TypeOK
  <1>4. \A u \in Thread : GuardHeld(u)' /\ OnTrack(u)'
    BY <1>1, <1>2 DEF GuardHeld, OnTrack, Working, TypeOK
  <1>5. ProgressIsTrue'
    BY <1>1, <1>2 DEF Start, Inv, DownloadInvariant, ProgressIsTrue, Working, TypeOK
  <1> QED
    BY <1>2, <1>3, <1>4, <1>5 DEF Inv, DownloadInvariant, InstalledIsVerified

LEMMA CrashInv == Inv /\ Crash => Inv'
  <1> SUFFICES ASSUME Inv, Crash PROVE Inv'
    OBVIOUS
  <1>1. TypeOK'
    BY AnyFileIsAFile, DownloadAssumption
    DEF Inv, DownloadInvariant, TypeOK, Crash, Fault, disk, Idle, Labels
  <1>2. \A u \in Thread : GuardHeld(u)' /\ OnTrack(u)'
    BY DEF Crash, GuardHeld, OnTrack, Working, Idle
  <1>3. ProgressIsTrue'
    BY DEF Crash, ProgressIsTrue
  <1> QED
    BY <1>1, <1>2, <1>3 DEF Crash, disk, Inv, DownloadInvariant, InstalledIsVerified

LEMMA NextInv == Inv /\ [Next]_vars => Inv'
  <1> SUFFICES ASSUME Inv, [Next]_vars PROVE Inv'
    OBVIOUS
  <1>1. CASE \E t \in Thread : Step(t)
    BY <1>1, StepInv
  <1>2. CASE \E t \in Thread : \E f \in File : Start(t, f)
    BY <1>2, StartInv
  <1>3. CASE Crash
    BY <1>3, CrashInv
  <1>4. CASE UNCHANGED vars
    BY <1>4 DEF vars, Inv, DownloadInvariant, TypeOK, ProgressIsTrue, GuardHeld,
                OnTrack, Working, InstalledIsVerified
  <1> QED
    BY <1>1, <1>2, <1>3, <1>4 DEF Next

-----------------------------------------------------------------------------
(* The theorems.                                                           *)

\* What a call knows of the files of its model stays true while it works on
\* them (download_guard), and what the settings page polls is true.
THEOREM Invariance == Spec => []DownloadInvariant
  <1>1. Inv => DownloadInvariant
    BY DEF Inv
  <1> QED
    BY InitInv, NextInv, <1>1, PTL DEF Spec

\* No call puts anything but the model itself in the place of a pinned model
\* (the verification before the rename in download_model).
THEOREM OnlyVerifiedIsInstalled == Spec => []InstalledIsVerified
  <1>1. Inv => InstalledIsVerified
    BY DEF Inv
  <1> QED
    BY InitInv, NextInv, <1>1, PTL DEF Spec

\* Only RemoveFinal and Rename touch a final file, and neither can take an
\* installed model away.
LEMMA StaysInstalled ==
    ASSUME Inv, [Next]_vars, NEW f \in Pinned, final[f] = Whole
    PROVE  final'[f] = Whole
  <1> SUFFICES ASSUME final' # final PROVE final'[f] = Whole
    OBVIOUS
  <1>1. PICK t \in Thread : RemoveFinal(t) \/ Rename(t)
    BY DEF Next, vars, disk, Start, Crash, Step, TakeGuard, CheckFinal, CheckPartial,
           FastPathFails, Resume, Restart, NotSatisfiable, RequestFails, Receive, BodyFails,
           EndOfBody, Verify, Complete
  <1>2. OnTrack(t) /\ TypeOK /\ f \in File
    BY DownloadAssumption DEF Inv, DownloadInvariant
  <1>3. CASE RemoveFinal(t)
    BY <1>2, <1>3 DEF RemoveFinal, OnTrack, TypeOK
  <1>4. CASE Rename(t)
    BY <1>2, <1>4 DEF Rename, OnTrack, TypeOK, disk
  <1> QED
    BY <1>1, <1>3, <1>4

\* A verified model is never removed or replaced by another download: the
\* fast path of one call against the removal and the rename of another.
THEOREM InstalledStays == Spec => NeverUninstalled
  <1>1. Inv /\ [Next]_vars =>
            [\A f \in Pinned : final[f] = Whole => final'[f] = Whole]_vars
    BY StaysInstalled
  <1> QED
    BY InitInv, NextInv, <1>1, PTL DEF Spec, NeverUninstalled
=============================================================================
