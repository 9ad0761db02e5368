------------------------------- MODULE Broker -------------------------------
(***************************************************************************)
(* The inference broker's scheduler: projects/broker/src/lifecycle.rs, and *)
(* the shutdown sequence of projects/broker/src/transport.rs (serve).      *)
(*                                                                         *)
(* One mutex protects the job table, so every critical section of work()   *)
(* and of call() is one action.  Model work runs outside the mutex: a      *)
(* worker that started an attempt has only the job's id and the            *)
(* cancellation token it cloned, and everything the clients do meanwhile   *)
(* interleaves with it.                                                    *)
(*                                                                         *)
(* Abstractions.  A request is its (consumer, item) key, its revision and  *)
(* its class; a job id is fresh (a UUID); a cancellation token, an         *)
(* Arc<AtomicUsize> replaced by retry, is the pair of the job id and the   *)
(* number of retries.  Instants are left out: a backoff elapses            *)
(* (BackoffElapses) at any time, and the service may stop at any time,     *)
(* because it was idle for long enough or because it was told to           *)
(* (LeaveLoop).  A changed.notify_waiters() that follows a critical        *)
(* section is part of that section's action: nothing is awaited between    *)
(* the two.  A task that waits registers with Notify before it takes the   *)
(* mutex, so that what it read and its wait are one step as well.          *)
(***************************************************************************)
EXTENDS Naturals, FiniteSets, Functions

CONSTANTS
    JobIds,          \* the UUIDs that submit may draw
    Workers,         \* the tasks of start(), concurrency.clamp(1, 8) many
    Waiters,         \* client connections that may block in "wait"
    Keys,            \* (consumer, item) pairs
    NoKey,           \* the key of a request without an item
    NoJob,           \* a worker or a connection that holds no job
    Requests,        \* the requests that clients submit
    Capacity,        \* Config.capacity (128)
    KeyCapacity,     \* bound of the revisions table (8192)
    RetiredLimit,    \* bound of the retired tail (128)
    TransientLimit,  \* transient failures that are retried (2)
    SchemaAttempts,  \* Config.schema_attempts (8)
    MaxRetries       \* bound: explicit retries of one job

ASSUME BrokerAssumption ==
    /\ Requests \subseteq [key : Keys \cup {NoKey}, revision : Nat \ {0},
                           interactive : BOOLEAN]
    /\ Capacity \in Nat \ {0}
    /\ KeyCapacity \in Nat
    /\ RetiredLimit \in Nat
    /\ TransientLimit \in Nat
    /\ SchemaAttempts \in Nat \ {0}
    /\ MaxRetries \in Nat
    /\ IsFiniteSet(JobIds) /\ IsFiniteSet(Workers)
    /\ NoKey \notin Keys
    /\ NoJob \notin JobIds
    /\ Workers \cap Waiters = {}

VARIABLES
    jobs,       \* the job table; "unused" and "released" ids are not in it
    revisions,  \* the watermark of each key, 0 when the key is not in the table
    sequence,   \* the last sequence number given to a job
    retired,    \* ids of the metadata-only tail
    cancelled,  \* the cancellation tokens that are set
    worker,     \* what each worker task is doing
    waiter,     \* what each connection in "wait" is doing
    phase       \* of serve(): serving, leaving (loop left), closed, cleared

vars == <<jobs, revisions, sequence, retired, cancelled, worker, waiter,
          phase>>

-----------------------------------------------------------------------------
(* The data of the job table. *)

Live == {"queued", "running", "retrying"}
Terminal == {"succeeded", "failed", "cancelled", "superseded"}
Retained == Live \cup Terminal
JobStates == Retained \cup {"unused", "released"}

NoRequest == [key |-> NoKey, revision |-> 1, interactive |-> FALSE]

Tokens == JobIds \X (0..MaxRetries)

\* result is empty, or holds the number of the retry whose attempt produced it.
Results == SUBSET (0..MaxRetries)

Job ==
    [state : JobStates, request : Requests \cup {NoRequest}, sequence : Nat,
     promoted : BOOLEAN, due : BOOLEAN, token : 0..MaxRetries,
     attempts : Nat, transient : Nat, invalidOutputs : Nat,
     selected : BOOLEAN, result : Results]

Blank(state) ==
    [state |-> state, request |-> NoRequest, sequence |-> 0,
     promoted |-> FALSE, due |-> FALSE, token |-> 0,
     attempts |-> 0, transient |-> 0, invalidOutputs |-> 0,
     selected |-> FALSE, result |-> {}]

NewJob(request, number) ==
    [Blank("queued") EXCEPT !.request = request, !.sequence = number]

InTable == {id \in JobIds : jobs[id].state \in Retained}
TokenOf(id) == <<id, jobs[id].token>>

\* Mutant of Finish: the result stays whatever the new state.
FinishKeepingResult(job, state) == [job EXCEPT !.state = state]

\* Job::finish without the token, which the caller adds to cancelled.
Finish(job, state) ==
    [job EXCEPT !.state = state,
                !.result = IF state = "succeeded" THEN @ ELSE {}]

\* The order of Broker::queue: promoted, then interactive, then sequence.
Precedes(a, b) ==
    \/ a.promoted /\ ~b.promoted
    \/ /\ a.promoted = b.promoted
       /\ \/ a.request.interactive /\ ~b.request.interactive
          \/ /\ a.request.interactive = b.request.interactive
             /\ a.sequence < b.sequence

Queued(table) == {id \in JobIds : table[id].state = "queued"}

FirstInQueue(table, id) ==
    /\ id \in Queued(table)
    /\ \A other \in Queued(table) \ {id} : Precedes(table[id], table[other])

-----------------------------------------------------------------------------
(* Notify: changed.notify_waiters() wakes every task that waits for it.    *)

NotifiedWorkers ==
    [w \in Workers |-> IF worker[w].pc = "parked"
                       THEN [worker[w] EXCEPT !.pc = "loop", !.sleeps = {}]
                       ELSE worker[w]]

\* Mutant of NotifiedWaiters: notify_one, which a parked worker may swallow.
NotifiedWaitersOne ==
    [c \in Waiters |-> IF /\ waiter[c].pc = "blocked"
                          /\ \A w \in Workers : worker[w].pc # "parked"
                       THEN [waiter[c] EXCEPT !.pc = "checking"]
                       ELSE waiter[c]]

NotifiedWaiters ==
    [c \in Waiters |-> IF waiter[c].pc = "blocked"
                       THEN [waiter[c] EXCEPT !.pc = "checking"]
                       ELSE waiter[c]]

Notify == worker' = NotifiedWorkers /\ waiter' = NotifiedWaiters

-----------------------------------------------------------------------------
(* The workers: Broker::work. *)

WorkerRecord ==
    [pc : {"loop", "parked", "selecting", "inferring", "abandoned", "stopped"},
     job : JobIds \cup {NoJob}, token : 0..MaxRetries, sleeps : SUBSET JobIds]

Free == [pc |-> "loop", job |-> NoJob, token |-> 0, sleeps |-> {}]

\* Mutant of StopWorker: a worker stays until every job was released.
StopWorkerDrained(w) ==
    /\ worker[w].pc = "loop"
    /\ phase = "closed"
    /\ InTable = {}
    /\ worker' = [worker EXCEPT ![w].pc = "stopped"]
    /\ UNCHANGED <<jobs, revisions, sequence, retired, cancelled, waiter, phase>>

StopWorker(w) ==
    /\ worker[w].pc = "loop"
    /\ phase = "closed"
    /\ worker' = [worker EXCEPT ![w].pc = "stopped"]
    /\ UNCHANGED <<jobs, revisions, sequence, retired, cancelled, waiter, phase>>

Due == {id \in JobIds : jobs[id].state = "retrying" /\ jobs[id].due}

\* Mutant of Requeue: the due retries get numbers, not the queued state.
RequeueForgotten(rank) ==
    [id \in JobIds |->
        IF id \in Due
        THEN [jobs[id] EXCEPT !.due = FALSE, !.sequence = sequence + rank[id]]
        ELSE jobs[id]]

\* Due retries go back to the queue behind every job that has a number.  The
\* code sorts them by their ready instants, which are not modelled: rank is
\* any order.
Requeue(rank) ==
    [id \in JobIds |->
        IF id \in Due
        THEN [jobs[id] EXCEPT !.state = "queued", !.due = FALSE,
                              !.sequence = sequence + rank[id]]
        ELSE jobs[id]]

\* Requeue the due retries and start the first job of the queue.
StartAttempt(w, id) ==
    /\ worker[w].pc = "loop"
    /\ phase # "closed"
    /\ \E rank \in Bijection(Due, 1..Cardinality(Due)) :
          LET table == Requeue(rank)
          IN  /\ FirstInQueue(table, id)
              /\ jobs' = [table EXCEPT
                            ![id].state = "running", ![id].selected = FALSE,
                            ![id].promoted = FALSE, ![id].attempts = @ + 1]
    /\ sequence' = sequence + Cardinality(Due)
    /\ worker' = [NotifiedWorkers EXCEPT
                    ![w] = [pc |-> "selecting", job |-> id,
                            token |-> jobs[id].token, sleeps |-> {}]]
    /\ waiter' = NotifiedWaiters
    /\ UNCHANGED <<revisions, retired, cancelled, phase>>

\* Nothing to start: wait for a notification, or for the earliest retry.
Park(w) ==
    /\ worker[w].pc = "loop"
    /\ phase # "closed"
    /\ Due = {} /\ Queued(jobs) = {}
    /\ worker' = [worker EXCEPT
                    ![w].pc = "parked",
                    ![w].sleeps = {id \in JobIds : jobs[id].state = "retrying"}]
    /\ UNCHANGED <<jobs, revisions, sequence, retired, cancelled, waiter, phase>>

\* The sleep until the earliest retry the worker saw when it parked, or for
\* 300 seconds when it saw none.
SleepEnds(w) ==
    /\ worker[w].pc = "parked"
    /\ \/ worker[w].sleeps = {}
       \/ \E id \in worker[w].sleeps : jobs[id].state = "retrying" => jobs[id].due
    /\ worker' = [worker EXCEPT ![w] = Free]
    /\ UNCHANGED <<jobs, revisions, sequence, retired, cancelled, waiter, phase>>

\* The clock passes the ready instant of a retrying job.
BackoffElapses(id) ==
    /\ jobs[id].state = "retrying"
    /\ ~jobs[id].due
    /\ jobs' = [jobs EXCEPT ![id].due = TRUE]
    /\ UNCHANGED <<revisions, sequence, retired, cancelled, worker, waiter,
                   phase>>

\* The job a worker comes back to is in the table and not terminal.
StillLive(id) == jobs[id].state \in Live

\* Tested after the model was chosen, before the choice is published.
Selectable(id, token) ==
    /\ StillLive(id)
    /\ <<id, token>> \notin cancelled

\* runner.select() returned: publish the choice, or give the attempt up.
Select(w) ==
    LET id == worker[w].job IN
    /\ worker[w].pc = "selecting"
    /\ \/ /\ Selectable(id, worker[w].token)
          /\ jobs' = [jobs EXCEPT ![id].selected = TRUE]
          /\ worker' = [NotifiedWorkers EXCEPT ![w].pc = "inferring"]
          /\ waiter' = NotifiedWaiters
       \/ /\ ~Selectable(id, worker[w].token)
          /\ worker' = [worker EXCEPT ![w].pc = "abandoned"]
          /\ UNCHANGED <<jobs, waiter>>
    /\ UNCHANGED <<revisions, sequence, retired, cancelled, phase>>

\* "model_failure" stands for every code that is counted as transient and
\* "isolation_failure" for the two that end the job at once.
InferOutcomes == {"ok", "invalid_output", "model_failure", "isolation_failure"}

\* Mutant of Settle: the budgets are compared before this attempt is counted.
SettleLate(job, outcome) ==
    LET counted == IF outcome = "invalid_output"
                   THEN [job EXCEPT !.invalidOutputs = @ + 1]
                   ELSE [job EXCEPT !.transient = @ + 1]
    IN  IF outcome = "ok"
        THEN Finish([job EXCEPT !.result = {job.token}], "succeeded")
        ELSE IF \/ outcome = "isolation_failure"
                \/ job.transient > TransientLimit
                \/ job.invalidOutputs >= SchemaAttempts
             THEN Finish(counted, "failed")
             ELSE [counted EXCEPT !.state = "retrying", !.due = FALSE]

\* What a finished attempt makes of its job: the last match of work().
Settle(job, outcome) ==
    LET counted == IF outcome = "invalid_output"
                   THEN [job EXCEPT !.invalidOutputs = @ + 1]
                   ELSE [job EXCEPT !.transient = @ + 1]
    IN  IF outcome = "ok"
        THEN Finish([job EXCEPT !.result = {job.token}], "succeeded")
        ELSE IF \/ outcome = "isolation_failure"
                \/ counted.transient > TransientLimit
                \/ counted.invalidOutputs >= SchemaAttempts
             THEN Finish(counted, "failed")
             ELSE [counted EXCEPT !.state = "retrying", !.due = FALSE]

\* The attempt of worker w ended.  An outcome for a job that is gone, or that
\* somebody else finished meanwhile, is dropped.
Complete(w, outcome) ==
    LET id == worker[w].job
        settled == Settle(jobs[id], outcome)
    IN  /\ \/ worker[w].pc = "inferring" /\ outcome \in InferOutcomes
           \/ worker[w].pc = "abandoned" /\ outcome = "cancelled"
        /\ \/ /\ StillLive(id)
              /\ jobs' = [jobs EXCEPT ![id] = settled]
              /\ cancelled' = IF settled.state \in Terminal
                              THEN cancelled \cup {TokenOf(id)}
                              ELSE cancelled
              /\ worker' = [NotifiedWorkers EXCEPT ![w] = Free]
              /\ waiter' = NotifiedWaiters
           \/ /\ ~StillLive(id)
              /\ worker' = [worker EXCEPT ![w] = Free]
              /\ UNCHANGED <<jobs, cancelled, waiter>>
        /\ UNCHANGED <<revisions, sequence, retired, phase>>

-----------------------------------------------------------------------------
(* The operations of Broker::call that reach a reply at once.  Each ends   *)
(* with notify_waiters().  A refused call changes nothing.                 *)

Reachable == phase \in {"serving", "leaving"}

\* Mutant of SameItem: finished jobs are spared.
SameItemLive(key) ==
    {id \in JobIds : jobs[id].state \in Live /\ jobs[id].request.key = key}

\* The jobs of the same consumer and item, whatever their state.
SameItem(key) == {id \in InTable : jobs[id].request.key = key}

Submit(id, request) ==
    /\ Reachable
    /\ jobs[id].state = "unused"
    /\ Cardinality(InTable) < Capacity
    /\ sequence' = sequence + 1
    /\ \/ /\ request.key = NoKey
          /\ jobs' = [jobs EXCEPT ![id] = NewJob(request, sequence')]
          /\ UNCHANGED <<revisions, cancelled>>
       \/ /\ request.key # NoKey
          /\ revisions[request.key] < request.revision
          /\ \/ revisions[request.key] # 0
             \/ Cardinality({k \in Keys : revisions[k] # 0}) < KeyCapacity
          /\ revisions' = [revisions EXCEPT ![request.key] = request.revision]
          /\ jobs' = [other \in JobIds |->
                        IF other = id THEN NewJob(request, sequence')
                        ELSE IF other \in SameItem(request.key)
                             THEN Finish(jobs[other], "superseded")
                             ELSE jobs[other]]
          /\ cancelled' = cancelled \cup
                            {TokenOf(other) : other \in SameItem(request.key)}
    /\ Notify
    /\ UNCHANGED <<retired, phase>>

\* Mutant of Cancel: a finished job is cancelled as well.
CancelFinished(id) ==
    /\ Reachable
    /\ jobs[id].state \in Retained
    /\ jobs' = [jobs EXCEPT ![id] = Finish(@, "cancelled")]
    /\ cancelled' = cancelled \cup {TokenOf(id)}
    /\ Notify
    /\ UNCHANGED <<revisions, sequence, retired, phase>>

Cancel(id) ==
    /\ Reachable
    /\ jobs[id].state \in Live
    /\ jobs' = [jobs EXCEPT ![id] = Finish(@, "cancelled")]
    /\ cancelled' = cancelled \cup {TokenOf(id)}
    /\ Notify
    /\ UNCHANGED <<revisions, sequence, retired, phase>>

\* A retried job starts over with a cancellation token of its own.
Restarted(job) ==
    [job EXCEPT !.state = "queued", !.selected = FALSE, !.transient = 0,
                !.invalidOutputs = 0, !.token = job.token + 1]

\* Mutant of Retry: a cancelled job may be retried as well.
RetryCancelled(id) ==
    /\ Reachable
    /\ jobs[id].state \in {"failed", "cancelled"}
    /\ jobs[id].token < MaxRetries
    /\ jobs' = [jobs EXCEPT ![id] = Restarted(@)]
    /\ Notify
    /\ UNCHANGED <<revisions, sequence, retired, cancelled, phase>>

\* An explicit retry revives a failure only.
Retry(id) ==
    /\ Reachable
    /\ jobs[id].state = "failed"
    /\ jobs[id].token < MaxRetries
    /\ jobs' = [jobs EXCEPT ![id] = Restarted(@)]
    /\ Notify
    /\ UNCHANGED <<revisions, sequence, retired, cancelled, phase>>

\* "next": the promotion moves from whoever had it to this queued job.
Promote(id) ==
    /\ Reachable
    /\ jobs[id].state = "queued"
    /\ jobs' = [other \in JobIds |->
                  [jobs[other] EXCEPT !.promoted = (other = id)]]
    /\ Notify
    /\ UNCHANGED <<revisions, sequence, retired, cancelled, phase>>

\* A released failure leaves no confirmation; the tail drops its oldest entry.
Release(id) ==
    /\ Reachable
    /\ jobs[id].state \in Terminal
    /\ jobs' = [jobs EXCEPT ![id] = Blank("released")]
    /\ \/ jobs[id].state = "failed" /\ UNCHANGED retired
       \/ /\ jobs[id].state # "failed"
          /\ IF Cardinality(retired \cup {id}) > RetiredLimit
             THEN \E oldest \in retired \cup {id} :
                     retired' = (retired \cup {id}) \ {oldest}
             ELSE retired' = retired \cup {id}
    /\ Notify
    /\ UNCHANGED <<revisions, sequence, cancelled, phase>>

\* "list" drops the confirmations older than five seconds, "status" reads.
List ==
    /\ Reachable
    /\ retired' \in SUBSET retired
    /\ Notify
    /\ UNCHANGED <<jobs, revisions, sequence, cancelled, phase>>

-----------------------------------------------------------------------------
(* A connection in "wait": the loop at the end of Broker::call. *)

WaiterRecord ==
    [pc : {"idle", "checking", "blocked"}, job : JobIds \cup {NoJob}]

Answered == [pc |-> "idle", job |-> NoJob]

StartWait(c, id) ==
    /\ Reachable
    /\ waiter[c].pc = "idle"
    /\ jobs[id].state \in Retained
    /\ waiter' = [waiter EXCEPT ![c] = [pc |-> "checking", job |-> id]]
    /\ UNCHANGED <<jobs, revisions, sequence, retired, cancelled, worker, phase>>

\* What the critical section finds: an error, or the state of the job.
WaitReply(c) ==
    CASE phase = "closed" -> "broker_unavailable"
      [] phase # "closed" /\ waiter[c].job \notin InTable -> "unknown_job"
      [] OTHER -> jobs[waiter[c].job].state

\* A live job: block until a notification.  A terminal one is a reply, which
\* notifies; an error does not.
CheckWait(c) ==
    /\ waiter[c].pc = "checking"
    /\ \/ /\ WaitReply(c) \in Live
          /\ waiter' = [waiter EXCEPT ![c].pc = "blocked"]
          /\ UNCHANGED worker
       \/ /\ WaitReply(c) \in Terminal
          /\ waiter' = [NotifiedWaiters EXCEPT ![c] = Answered]
          /\ worker' = NotifiedWorkers
       \/ /\ WaitReply(c) \notin Retained
          /\ waiter' = [waiter EXCEPT ![c] = Answered]
          /\ UNCHANGED worker
    /\ UNCHANGED <<jobs, revisions, sequence, retired, cancelled, phase>>

-----------------------------------------------------------------------------
(* serve(): leaving the accept loop, close, abort_all, join, clear. *)

\* The ticker saw the stop signal, or an idle broker.  The signal may come at
\* any time, so the idle period is not modelled; idle() takes the mutex and
\* gives it back, and the close that follows is another critical section.
LeaveLoop ==
    /\ phase = "serving"
    /\ phase' = "leaving"
    /\ UNCHANGED <<jobs, revisions, sequence, retired, cancelled, worker, waiter>>

Close ==
    /\ phase = "leaving"
    /\ phase' = "closed"
    /\ jobs' = [id \in JobIds |-> IF jobs[id].state \in Live
                                  THEN Finish(jobs[id], "cancelled")
                                  ELSE jobs[id]]
    /\ cancelled' = cancelled \cup
                      {TokenOf(id) : id \in {i \in JobIds : jobs[i].state \in Live}}
    /\ Notify
    /\ UNCHANGED <<revisions, sequence, retired>>

\* clients.abort_all(): a connection dies at its next await.
AbortClient(c) ==
    /\ phase = "closed"
    /\ waiter[c].pc # "idle"
    /\ waiter' = [waiter EXCEPT ![c] = Answered]
    /\ UNCHANGED <<jobs, revisions, sequence, retired, cancelled, worker, phase>>

Clear ==
    /\ phase = "closed"
    /\ \A c \in Waiters : waiter[c].pc = "idle"
    /\ \A w \in Workers : worker[w].pc = "stopped"
    /\ phase' = "cleared"
    /\ jobs' = [id \in JobIds |-> IF jobs[id].state = "unused"
                                  THEN jobs[id] ELSE Blank("released")]
    /\ retired' = {}
    /\ revisions' = [k \in Keys |-> 0]
    /\ UNCHANGED <<sequence, cancelled, worker, waiter>>

\* The process has exited.
Exited == phase = "cleared" /\ UNCHANGED vars

-----------------------------------------------------------------------------

Init ==
    /\ jobs = [id \in JobIds |-> Blank("unused")]
    /\ revisions = [k \in Keys |-> 0]
    /\ sequence = 0
    /\ retired = {}
    /\ cancelled = {}
    /\ worker = [w \in Workers |-> Free]
    /\ waiter = [c \in Waiters |-> Answered]
    /\ phase = "serving"

WorkerStep(w) ==
    \/ StopWorker(w)
    \/ \E id \in JobIds : StartAttempt(w, id)
    \/ Park(w)
    \/ SleepEnds(w)
    \/ Select(w)
    \/ \E outcome \in InferOutcomes \cup {"cancelled"} : Complete(w, outcome)

ClientStep ==
    \/ \E id \in JobIds :
          \/ \E request \in Requests : Submit(id, request)
          \/ Cancel(id)
          \/ Retry(id)
          \/ Promote(id)
          \/ Release(id)
          \/ \E c \in Waiters : StartWait(c, id)
    \/ List

Next ==
    \/ \E w \in Workers : WorkerStep(w)
    \/ \E id \in JobIds : BackoffElapses(id)
    \/ ClientStep
    \/ \E c \in Waiters : CheckWait(c) \/ AbortClient(c)
    \/ LeaveLoop
    \/ Close
    \/ Clear
    \/ Exited

Spec == Init /\ [][Next]_vars

\* The runtime keeps scheduling tasks and timers; every external command of an
\* attempt has a deadline (runner.rs, routing.rs), so attempts end.  Clients
\* and the stop signal owe nothing.
Fairness ==
    /\ \A w \in Workers : WF_vars(WorkerStep(w))
    /\ \A id \in JobIds : WF_vars(BackoffElapses(id))
    /\ \A c \in Waiters : WF_vars(CheckWait(c)) /\ WF_vars(AbortClient(c))
    /\ WF_vars(Close)
    /\ WF_vars(Clear)

-----------------------------------------------------------------------------
(* Properties. *)

\* The workers between the two critical sections of an attempt.
Holding == {w \in Workers : worker[w].pc \in {"selecting", "inferring", "abandoned"}}

\* The state is what Init and the critical sections make of it: an attempt
\* names a job id, counters never go below zero, tokens name their job.
TypeOK ==
    /\ jobs \in [JobIds -> Job]
    /\ revisions \in [Keys -> Nat]
    /\ sequence \in Nat
    /\ retired \in SUBSET JobIds
    /\ cancelled \in SUBSET Tokens
    /\ worker \in [Workers -> WorkerRecord]
    /\ \A w \in Holding : worker[w].job \in JobIds
    /\ waiter \in [Waiters -> WaiterRecord]
    /\ phase \in {"serving", "leaving", "closed", "cleared"}

\* No two workers ever run attempts of one job, whatever cancels, retries and
\* releases happen while the model works outside the mutex; and an attempt
\* whose token is not cancelled is the current attempt of a running job.
AttemptsAreOwned ==
    /\ \A v, w \in Holding : worker[v].job = worker[w].job => v = w
    /\ \A w \in Holding :
          <<worker[w].job, worker[w].token>> \notin cancelled =>
             /\ jobs[worker[w].job].state = "running"
             /\ jobs[worker[w].job].token = worker[w].token
    /\ \A id \in JobIds : jobs[id].state = "running" =>
          \E w \in Holding : worker[w].job = id

\* status and wait unwrap the result of a succeeded job: it is there, it was
\* produced since the last explicit retry, and no other job keeps one.
ResultIsCurrent ==
    \A id \in JobIds :
        jobs[id].result = IF jobs[id].state = "succeeded"
                          THEN {jobs[id].token} ELSE {}

\* Supersession: a retained job of an item that is not superseded carries the
\* item's newest accepted revision, so an obsolete result can neither be read
\* nor produced again by a retry.
OnlyNewestRevision ==
    \A id \in InTable :
        LET request == jobs[id].request IN
        request.key # NoKey =>
            /\ request.revision <= revisions[request.key]
            /\ jobs[id].state # "superseded" =>
                  request.revision = revisions[request.key]

\* One attempt budget per explicit retry, however transient failures and
\* invalid outputs alternate.
AttemptsAreBounded ==
    \A id \in JobIds :
        jobs[id].attempts <=
            (jobs[id].token + 1) * (TransientLimit + SchemaAttempts)

\* "next" promotes one job: the promotion is never shared.
OnePromotion ==
    \A a, b \in JobIds : jobs[a].promoted /\ jobs[b].promoted => a = b

\* A finished job stays as it is: only an explicit retry of a failure revives
\* it, and only a newer revision or a release takes it away.  The outcome of
\* an attempt that lost a race with cancel never shows.
FinishedIsFinal ==
    [][\A id \in JobIds :
         jobs[id].state \in Terminal =>
            \/ jobs'[id].state \in {jobs[id].state, "superseded", "released"}
            \/ /\ jobs[id].state = "failed" /\ jobs'[id].state = "queued"
               /\ jobs'[id].token > jobs[id].token]_vars

\* A background job that was not promoted starts only when no interactive job
\* could: none is queued and none has a retry whose backoff is over.
InteractiveFirst ==
    [][\A id \in JobIds :
         /\ jobs[id].state # "running" /\ jobs'[id].state = "running"
         /\ ~jobs[id].request.interactive /\ ~jobs[id].promoted
         => \A other \in (Queued(jobs) \cup Due) \ {id} :
                ~jobs[other].request.interactive]_vars

\* Every accepted job ends: no retry, cancellation or lost wake-up leaves it
\* queued, retrying or running for ever.
JobsSettle ==
    \A id \in JobIds :
        (jobs[id].state \in Live) ~> (jobs[id].state \notin Live)

\* A connection in "wait" gets an answer: it has no timer, so the answer
\* depends on a notification after each change it waits for.
WaitReturns == \A c \in Waiters : (waiter[c].pc # "idle") ~> (waiter[c].pc = "idle")

\* Once the accept loop is left, serve() joins every worker and returns.
ShutdownCompletes == (phase = "leaving") ~> (phase = "cleared")
=============================================================================
