------------------------------ MODULE MCBroker ------------------------------
(* Model-checking instances of Broker: the requests each run submits. *)
EXTENDS BrokerLifecycle, TLC

CONSTANT k1

Request(key, revision, interactive) ==
    [key |-> key, revision |-> revision, interactive |-> interactive]

\* Two revisions of one item, and a request of no item.
ItemRequests == {Request(k1, 1, FALSE), Request(k1, 2, FALSE),
                 Request(NoKey, 1, FALSE)}

\* Two revisions of one item, and an interactive request of no item.
MixedRequests == {Request(k1, 1, FALSE), Request(k1, 2, FALSE),
                  Request(NoKey, 1, TRUE)}

Symmetry == Permutations(JobIds) \cup Permutations(Workers)

\* The run for liveness has both a retried job and a job of no item, but not at
\* once.
LiveNext ==
    /\ Next
    /\ (\E id \in JobIds : jobs'[id].token > 0) =>
           \A id \in JobIds : jobs'[id].request \notin {r \in Requests : r.key = NoKey}

LiveSpec == Init /\ [][LiveNext]_vars /\ Fairness
=============================================================================
