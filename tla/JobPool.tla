------------------------------- MODULE JobPool -------------------------------
(***************************************************************************)
(* What a queue of render jobs promises, without a queue and without a     *)
(* store: jobs wait, the most urgent one starts, among equals the one that *)
(* arrived first; a job ends once, and only one that failed is tried       *)
(* again, at any time from then on.  Each of these steps becomes durable   *)
(* before the next is taken.  An interruption takes back what was not, and *)
(* who was running waits.                                                  *)
(***************************************************************************)
EXTENDS Integers, Sequences

CONSTANTS Job, Priority

VARIABLES
    state,      \* of each job
    durable,    \* the state of each job that an interruption leaves it
    arrived,    \* all jobs, in the order of their arrival
    retried     \* the jobs that were tried again, and have no place among others

poolVars == <<state, durable, arrived, retried>>

PoolInit ==
    /\ state = [j \in Job |-> "new"]
    /\ durable = state
    /\ arrived = <<>>
    /\ retried = {}

EarlierThan(j, k) ==
    \E m, n \in DOMAIN arrived : arrived[m] = j /\ arrived[n] = k /\ m < n

\* j goes before k.
Urgent(j, k) ==
    \/ Priority[j] > Priority[k]
    \/ Priority[j] = Priority[k] /\ (j = k \/ EarlierThan(j, k))

Becomes(j, from, to) ==
    /\ durable = state
    /\ state[j] \in from
    /\ state' = [state EXCEPT ![j] = to]
    /\ UNCHANGED <<durable, arrived>>

Arrive ==
    /\ durable = state
    /\ \E S \in SUBSET {j \in Job : state[j] = "new"} :
        /\ state' = [j \in Job |-> IF j \in S THEN "queued" ELSE state[j]]
        /\ \E js \in [1 .. Len(arrived') - Len(arrived) -> S] :
              /\ \A j \in S : \E i \in DOMAIN js : js[i] = j
              /\ arrived' = arrived \o js
    /\ UNCHANGED <<durable, retried>>

Start(j) ==
    /\ j \in retried \/ \A k \in Job \ retried : state[k] = "queued" => Urgent(j, k)
    /\ Becomes(j, {"queued"}, "running")
    /\ UNCHANGED retried

End(j) ==
    /\ \/ Becomes(j, {"running"}, "completed")
       \/ \E to \in {"failed", "cancelled"} : Becomes(j, {"queued", "running"}, to)
    /\ UNCHANGED retried

Retry(j) ==
    /\ Becomes(j, {"failed"}, "queued")
    /\ retried' = retried \cup {j}

Save(j) ==
    /\ durable' = [durable EXCEPT ![j] = state[j]]
    /\ UNCHANGED <<state, arrived, retried>>

Interrupt ==
    /\ durable' = [j \in Job |-> IF durable[j] = "running" THEN "queued" ELSE durable[j]]
    /\ state' = durable'
    /\ UNCHANGED <<arrived, retried>>

PoolNext ==
    \/ Arrive \/ Interrupt
    \/ \E j \in Job : Start(j) \/ End(j) \/ Retry(j) \/ Save(j)

PoolSpec == PoolInit /\ [][PoolNext]_poolVars
=============================================================================
