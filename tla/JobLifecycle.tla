---------------------------- MODULE JobLifecycle ----------------------------
(***************************************************************************)
(* What the inference broker promises the programs that use it: the life   *)
(* of each job, seen through submit, cancel, retry, release and status.    *)
(* Broker implements it (BrokerLifecycle); the modules of the broker's     *)
(* clients are written against it.                                         *)
(*                                                                         *)
(* A queued and a retrying job are both "pending": that the broker spends  *)
(* attempts, backs off and reorders its queue is its own affair.           *)
(***************************************************************************)
EXTENDS Naturals, FiniteSets

CONSTANTS
    JobIds,       \* the UUIDs that submit may draw
    Keys,         \* (consumer, item) pairs
    NoKey,        \* the key of a request without an item
    Requests,     \* what clients submit: records with a key and a revision
    Capacity,     \* Config.capacity
    Concurrency   \* Config.concurrency, the most jobs that run at once

VARIABLES
    state,        \* of each job id
    request,      \* of each job id in the table
    watermark,    \* newest accepted revision of each key, 0 for none
    open          \* the broker accepts calls

jobVars == <<state, request, watermark, open>>

LiveStates == {"pending", "running"}
FinalStates == {"succeeded", "failed", "cancelled", "superseded"}
TableStates == LiveStates \cup FinalStates

Nothing == [key |-> NoKey, revision |-> 1]

Table == {id \in JobIds : state[id] \in TableStates}

SameKey(key) == {id \in Table : request[id].key = key}

\* A revision of an item is accepted once, and never after a newer one.
Fresh(r) == r.key = NoKey \/ watermark[r.key] < r.revision

\* A new revision supersedes the jobs of its item, the finished ones included.
Accept(id, r) ==
    /\ open
    /\ state[id] = "unused"
    /\ Cardinality(Table) < Capacity
    /\ Fresh(r)
    /\ state' = [other \in JobIds |->
                   IF other = id THEN "pending"
                   ELSE IF r.key # NoKey /\ other \in SameKey(r.key)
                        THEN "superseded"
                        ELSE state[other]]
    /\ request' = [request EXCEPT
                     ![id] = [key |-> r.key, revision |-> r.revision]]
    /\ watermark' = [k \in Keys |-> IF k = r.key THEN r.revision
                                    ELSE watermark[k]]
    /\ UNCHANGED open

Move(id, from, to) ==
    /\ open
    /\ state[id] \in from
    /\ state' = [state EXCEPT ![id] = to]
    /\ UNCHANGED <<request, watermark, open>>

Begin(id) ==
    /\ Cardinality({other \in JobIds : state[other] = "running"}) < Concurrency
    /\ Move(id, {"pending"}, "running")

Yield(id) == Move(id, {"running"}, "pending")
End(id) == \E final \in {"succeeded", "failed"} : Move(id, {"running"}, final)

\* Mutant of CancelJob: a finished job is cancelled as well.
CancelAnything(id) == Move(id, TableStates, "cancelled")

CancelJob(id) == Move(id, LiveStates, "cancelled")

\* The only way back from a final state.
RetryJob(id) == Move(id, {"failed"}, "pending")

ReleaseJob(id) ==
    /\ open
    /\ state[id] \in FinalStates
    /\ state' = [state EXCEPT ![id] = "released"]
    /\ request' = [request EXCEPT ![id] = Nothing]
    /\ UNCHANGED <<watermark, open>>

\* close(): every live job ends, and no call is answered any more.
Shut ==
    /\ open
    /\ open' = FALSE
    /\ state' = [id \in JobIds |-> IF state[id] \in LiveStates
                                   THEN "cancelled" ELSE state[id]]
    /\ UNCHANGED <<request, watermark>>

\* clear(), or the end of the process: nothing is persisted.
Vanish ==
    /\ open' = FALSE
    /\ state' = [id \in JobIds |-> IF state[id] = "unused"
                                   THEN "unused" ELSE "released"]
    /\ request' = [id \in JobIds |-> Nothing]
    /\ watermark' = [k \in Keys |-> 0]

JobInit ==
    /\ state = [id \in JobIds |-> "unused"]
    /\ request = [id \in JobIds |-> Nothing]
    /\ watermark = [k \in Keys |-> 0]
    /\ open = TRUE

\* What the broker does on its own.
BrokerStep == \E id \in JobIds : Begin(id) \/ Yield(id) \/ End(id)

JobNext ==
    \/ BrokerStep
    \/ \E id \in JobIds :
          \/ \E r \in Requests : Accept(id, r)
          \/ CancelJob(id)
          \/ RetryJob(id)
          \/ ReleaseJob(id)
    \/ Shut
    \/ Vanish

JobSpec == JobInit /\ [][JobNext]_jobVars
=============================================================================
