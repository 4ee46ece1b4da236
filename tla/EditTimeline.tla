---------------------------- MODULE EditTimeline ----------------------------
(***************************************************************************)
(* What undo and redo promise the user: the project moves along a line of  *)
(* states.  An edit drops what lies ahead and adds a state; undo and redo  *)
(* go back and forth, to exactly the states that were there.               *)
(***************************************************************************)
EXTENDS Integers, Sequences

CONSTANT State  \* the states a project can be in

VARIABLES past, present, future     \* past: latest last; future: next first

timelineVars == <<past, present, future>>

TimelineInit == past = <<>> /\ present \in State /\ future = <<>>

Edit ==
    /\ present' \in State
    /\ past' = Append(past, present)
    /\ future' = <<>>

StepBack ==
    /\ past # <<>>
    /\ present' = past[Len(past)]
    /\ past' = SubSeq(past, 1, Len(past) - 1)
    /\ future' = <<present>> \o future

StepForward ==
    /\ future # <<>>
    /\ present' = Head(future)
    /\ past' = Append(past, present)
    /\ future' = Tail(future)

TimelineNext == Edit \/ StepBack \/ StepForward
=============================================================================
