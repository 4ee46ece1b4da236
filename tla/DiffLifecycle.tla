---------------------------- MODULE DiffLifecycle ----------------------------
(***************************************************************************)
(* What the review of AI proposals promises: a proposal is decided at most *)
(* once, an accepted one is in the project, a rejected one never will be.  *)
(***************************************************************************)
CONSTANT Diff

VARIABLE status     \* of each proposal

LifecycleInit == status = [d \in Diff |-> "unknown"]

Becomes(d, from, to) ==
    /\ status[d] \in from
    /\ status' = [status EXCEPT ![d] = to]

Propose(d) == Becomes(d, {"unknown"}, "pending")
Accept(d) == Becomes(d, {"pending"}, "accepted")
Reject(d) == Becomes(d, {"pending"}, "rejected")

\* Proposals live in memory: a crash loses those that are not decided.
Lose ==
    status' = [d \in Diff |-> IF status[d] = "pending" THEN "lost" ELSE status[d]]

LifecycleNext ==
    \/ \E d \in Diff : Propose(d) \/ Accept(d) \/ Reject(d)
    \/ Lose

LifecycleSpec == LifecycleInit /\ [][LifecycleNext]_status
=============================================================================
