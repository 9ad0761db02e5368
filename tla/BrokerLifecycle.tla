--------------------------- MODULE BrokerLifecycle ---------------------------
(***************************************************************************)
(* The broker implements JobLifecycle: its attempts, backoffs, tokens,     *)
(* sequence numbers and notifications are hidden, and what is left of the  *)
(* job table behaves as its clients are told.                              *)
(***************************************************************************)
EXTENDS Broker

\* A job that waits in the queue and one that backs off look alike.
Visible(state) == IF state \in {"queued", "retrying"} THEN "pending" ELSE state

Lifecycle == INSTANCE JobLifecycle WITH
    Concurrency <- Cardinality(Workers),
    state <- [id \in JobIds |-> Visible(jobs[id].state)],
    request <- [id \in JobIds |-> [key |-> jobs[id].request.key,
                                   revision |-> jobs[id].request.revision]],
    watermark <- revisions,
    open <- phase \in {"serving", "leaving"}

\* Every step of lifecycle.rs is a step of the life of jobs or does not show:
\* a job starts only while fewer jobs run than there are workers, a revision
\* of an item is accepted once and supersedes whatever the item had, and what
\* is final changes by retry, supersession and release only.
ImplementsLifecycle == Lifecycle!JobSpec
=============================================================================
