---------------------------- MODULE BrokerProofs ----------------------------
(***************************************************************************)
(* What the scheduler of projects/broker/src/lifecycle.rs guarantees for   *)
(* any number of jobs, workers, connections and items, and any limits.     *)
(***************************************************************************)
EXTENDS BrokerLifecycle, FiniteSetTheorems, TLAPS

-----------------------------------------------------------------------------
(* Facts about the operators of Broker. *)

\* The number of due retries, which work() adds to the sequence, is a number.
LEMMA DueIsFinite == Cardinality(Due) \in Nat
  <1>1. IsFiniteSet(Due)
    BY BrokerAssumption, FS_Subset DEF Due
  <1> QED BY <1>1, FS_CardinalityType

\* A blank entry of the table has the type of a job.
LEMMA BlankType ==
    ASSUME NEW state \in JobStates
    PROVE  Blank(state) \in Job
  BY BrokerAssumption DEF Blank, Job, Results

\* A submitted job has the type of a job.
LEMMA NewJobType ==
    ASSUME NEW request \in Requests, NEW number \in Nat
    PROVE  NewJob(request, number) \in Job
  <1>1. Blank("queued") \in Job
    BY BlankType DEF JobStates, Retained, Live
  <1> QED BY <1>1 DEF NewJob, Job

\* finish() keeps the type of a job.
LEMMA FinishType ==
    ASSUME NEW job \in Job, NEW state \in Terminal
    PROVE  Finish(job, state) \in Job
  BY DEF Finish, Job, Results, JobStates, Retained, Terminal

\* The outcome of an attempt keeps the type of a job.
LEMMA SettleType ==
    ASSUME NEW job \in Job, NEW outcome
    PROVE  Settle(job, outcome) \in Job
  <1> DEFINE counted == IF outcome = "invalid_output"
                        THEN [job EXCEPT !.invalidOutputs = @ + 1]
                        ELSE [job EXCEPT !.transient = @ + 1]
  <1>1. counted \in Job
    BY DEF Job
  <1>2. [job EXCEPT !.result = {job.token}] \in Job
    BY DEF Job, Results
  <1>3. [counted EXCEPT !.state = "retrying", !.due = FALSE] \in Job
    BY <1>1 DEF Job, JobStates, Retained, Live
  <1>4. Finish(counted, "failed") \in Job
    BY <1>1, FinishType DEF Terminal
  <1>5. Finish([job EXCEPT !.result = {job.token}], "succeeded") \in Job
    BY <1>2, FinishType DEF Terminal
  <1> QED BY <1>3, <1>4, <1>5 DEF Settle

\* Requeueing the due retries keeps the type of the table.
LEMMA RequeueType ==
    ASSUME jobs \in [JobIds -> Job], sequence \in Nat,
           NEW rank \in Bijection(Due, 1..Cardinality(Due))
    PROVE  Requeue(rank) \in [JobIds -> Job]
  <1>1. rank \in [Due -> 1..Cardinality(Due)]
    BY DEF Bijection, Injection, Surjection
  <1>2. \A id \in Due : rank[id] \in Nat
    BY <1>1, DueIsFinite
  <1> DEFINE entry(id) == IF id \in Due
                          THEN [jobs[id] EXCEPT !.state = "queued", !.due = FALSE,
                                                !.sequence = sequence + rank[id]]
                          ELSE jobs[id]
  <1>3. ASSUME NEW id \in JobIds
        PROVE  entry(id) \in Job
    <2>1. jobs[id] \in Job
      OBVIOUS
    <2>2. CASE id \in Due
      <3>1. sequence + rank[id] \in Nat
        BY <1>2, <2>2
      <3> QED BY <2>1, <2>2, <3>1 DEF Job, JobStates, Retained, Live
    <2>3. CASE id \notin Due
      BY <2>1, <2>3
    <2> QED BY <2>2, <2>3
  <1>4. Requeue(rank) = [id \in JobIds |-> entry(id)]
    BY DEF Requeue
  <1> HIDE DEF entry
  <1> QED BY <1>3, <1>4

\* A job that starts an attempt keeps its type.
LEMMA StartedType ==
    ASSUME NEW job \in Job
    PROVE  [job EXCEPT !.state = "running", !.selected = FALSE,
                       !.promoted = FALSE, !.attempts = @ + 1] \in Job
  <1>1. "running" \in JobStates
    BY DEF JobStates, Retained, Live
  <1> DEFINE picked == [job EXCEPT !.state = "running", !.selected = FALSE,
                                   !.promoted = FALSE]
  <1>2. picked \in Job
    BY <1>1 DEF Job
  <1>3. [picked EXCEPT !.attempts = @ + 1] \in Job
    <2> HIDE DEF picked
    <2> QED BY <1>2 DEF Job
  <1> QED BY <1>3

\* An explicitly retried job keeps its type.
LEMMA RetriedType ==
    ASSUME NEW job \in Job, job.token < MaxRetries
    PROVE  Restarted(job) \in Job
  <1>1. "queued" \in JobStates
    BY DEF JobStates, Retained, Live
  <1> DEFINE requeued == [job EXCEPT !.state = "queued", !.selected = FALSE]
             emptied == [requeued EXCEPT !.transient = 0, !.invalidOutputs = 0]
  <1>2. requeued \in Job
    BY <1>1 DEF Job
  <1>3. emptied \in Job
    <2> HIDE DEF requeued
    <2> QED BY <1>2 DEF Job
  <1>4. [emptied EXCEPT !.token = job.token + 1] \in Job
    <2> HIDE DEF emptied
    <2>1. job.token + 1 \in 0..MaxRetries
      BY BrokerAssumption DEF Job
    <2> QED BY <1>3, <2>1 DEF Job
  <1> QED BY <1>4 DEF Restarted

\* Waking every task keeps the types of the tasks.
LEMMA NotifiedType ==
    ASSUME worker \in [Workers -> WorkerRecord],
           waiter \in [Waiters -> WaiterRecord]
    PROVE  /\ NotifiedWorkers \in [Workers -> WorkerRecord]
           /\ NotifiedWaiters \in [Waiters -> WaiterRecord]
  BY DEF NotifiedWorkers, NotifiedWaiters, WorkerRecord, WaiterRecord

-----------------------------------------------------------------------------
(* Type correctness. *)

\* Init puts every part of the state in its type.
LEMMA InitType == Init => TypeOK
  <1> SUFFICES ASSUME Init PROVE TypeOK
    OBVIOUS
  <1>1. Blank("unused") \in Job
    BY BlankType DEF JobStates
  <1>2. /\ Free \in WorkerRecord
        /\ Answered \in WaiterRecord
    BY BrokerAssumption DEF Free, Answered, WorkerRecord, WaiterRecord
  <1>3. Holding = {}
    BY DEF Init, Free, Holding
  <1> QED BY <1>1, <1>2, <1>3 DEF Init, TypeOK

\* A step of a worker keeps the types.
LEMMA WorkerStepType ==
    ASSUME TypeOK, NEW w \in Workers, WorkerStep(w)
    PROVE  TypeOK'
  <1>0. /\ jobs \in [JobIds -> Job]
        /\ worker \in [Workers -> WorkerRecord]
        /\ waiter \in [Waiters -> WaiterRecord]
        /\ NotifiedWorkers \in [Workers -> WorkerRecord]
        /\ NotifiedWaiters \in [Waiters -> WaiterRecord]
        /\ Free \in WorkerRecord
        /\ \A v \in Holding : worker[v].job \in JobIds
    BY NotifiedType, BrokerAssumption DEF TypeOK, Free, WorkerRecord
  <1>1. CASE StopWorker(w)
    <2>1. worker' \in [Workers -> WorkerRecord]
      BY <1>0, <1>1 DEF StopWorker, WorkerRecord
    <2>2. Holding' \subseteq Holding /\ \A v \in Holding : worker'[v].job = worker[v].job
      BY <1>0, <1>1 DEF StopWorker, WorkerRecord, Holding
    <2> QED BY <1>0, <1>1, <2>1, <2>2 DEF StopWorker, TypeOK
  <1>2. ASSUME NEW id \in JobIds, StartAttempt(w, id)
        PROVE  TypeOK'
    <2>1. PICK rank \in Bijection(Due, 1..Cardinality(Due)) :
             jobs' = [Requeue(rank) EXCEPT
                        ![id].state = "running", ![id].selected = FALSE,
                        ![id].promoted = FALSE, ![id].attempts = @ + 1]
      BY <1>2 DEF StartAttempt
    <2>2. Requeue(rank) \in [JobIds -> Job]
      BY <1>0, RequeueType DEF TypeOK
    <2>3. jobs' \in [JobIds -> Job]
      BY <2>1, <2>2, StartedType
    <2>4. /\ worker' \in [Workers -> WorkerRecord]
          /\ \A v \in Holding' : worker'[v].job \in JobIds
      <3>1. jobs[id].token \in 0..MaxRetries
        BY <1>0 DEF Job
      <3>2. worker' = [NotifiedWorkers EXCEPT
                         ![w] = [pc |-> "selecting", job |-> id,
                                 token |-> jobs[id].token, sleeps |-> {}]]
        BY <1>2 DEF StartAttempt
      <3> QED BY <1>0, <3>1, <3>2 DEF NotifiedWorkers, Holding, WorkerRecord
    <2>5. sequence' \in Nat
      BY <1>2, DueIsFinite DEF StartAttempt, TypeOK
    <2> QED BY <1>0, <1>2, <2>3, <2>4, <2>5 DEF StartAttempt, TypeOK
  <1>3. CASE Park(w)
    <2>1. worker' \in [Workers -> WorkerRecord]
      BY <1>0, <1>3 DEF Park, WorkerRecord
    <2>2. Holding' \subseteq Holding /\ \A v \in Holding : worker'[v].job = worker[v].job
      BY <1>0, <1>3 DEF Park, WorkerRecord, Holding
    <2> QED BY <1>0, <1>3, <2>1, <2>2 DEF Park, TypeOK
  <1>4. CASE SleepEnds(w)
    <2>1. worker' \in [Workers -> WorkerRecord]
      BY <1>0, <1>4 DEF SleepEnds
    <2>2. \A v \in Holding' : v \in Holding /\ worker'[v] = worker[v]
      BY <1>0, <1>4 DEF SleepEnds, Free, Holding
    <2> QED BY <1>0, <1>4, <2>1, <2>2 DEF SleepEnds, TypeOK
  <1>5. CASE Select(w)
    <2> DEFINE id == worker[w].job
    <2>0. w \in Holding /\ id \in JobIds
      BY <1>0, <1>5 DEF Select, Holding
    <2>1. jobs' \in [JobIds -> Job]
      <3>1. [jobs[id] EXCEPT !.selected = TRUE] \in Job
        <4>1. jobs[id] \in Job
          BY <1>0, <2>0
        <4> QED BY <4>1 DEF Job
      <3> QED BY <1>0, <1>5, <2>0, <3>1 DEF Select
    <2>2. worker' \in [Workers -> WorkerRecord]
      <3>1. /\ [NotifiedWorkers[w] EXCEPT !.pc = "inferring"] \in WorkerRecord
            /\ [worker[w] EXCEPT !.pc = "abandoned"] \in WorkerRecord
        <4>1. NotifiedWorkers[w] \in WorkerRecord /\ worker[w] \in WorkerRecord
          BY <1>0
        <4> QED BY <4>1 DEF WorkerRecord
      <3>2. \/ worker' = [NotifiedWorkers EXCEPT ![w].pc = "inferring"]
            \/ worker' = [worker EXCEPT ![w].pc = "abandoned"]
        BY <1>5 DEF Select
      <3> QED BY <1>0, <3>1, <3>2
    <2>3. waiter' \in [Waiters -> WaiterRecord]
      BY <1>0, <1>5 DEF Select
    <2>4. \A v \in Holding' : v \in Holding /\ worker'[v].job = worker[v].job
      <3>1. \A v \in Workers : worker'[v].pc \in {"selecting", "inferring", "abandoned"}
               => /\ worker[v].pc \in {"selecting", "inferring", "abandoned"}
                  /\ worker'[v].job = worker[v].job
        <4>1. CASE worker' = [NotifiedWorkers EXCEPT ![w].pc = "inferring"]
          <5>1. ASSUME NEW v \in Workers \ {w}
                PROVE  worker'[v] = NotifiedWorkers[v]
            BY <1>0, <4>1
          <5>2. worker'[w].job = worker[w].job
            <6>1. NotifiedWorkers[w] = worker[w]
              BY <2>0 DEF Holding, NotifiedWorkers
            <6> QED BY <1>0, <4>1, <6>1 DEF WorkerRecord
          <5>3. \A v \in Workers :
                   /\ NotifiedWorkers[v].job = worker[v].job
                   /\ \/ NotifiedWorkers[v] = worker[v]
                      \/ NotifiedWorkers[v].pc = "loop"
            BY <1>0 DEF NotifiedWorkers, WorkerRecord
          <5> QED BY <2>0, <5>1, <5>2, <5>3 DEF Holding
        <4>2. CASE worker' = [worker EXCEPT ![w].pc = "abandoned"]
          BY <1>0, <2>0, <4>2 DEF Holding, WorkerRecord
        <4>3. \/ worker' = [NotifiedWorkers EXCEPT ![w].pc = "inferring"]
              \/ worker' = [worker EXCEPT ![w].pc = "abandoned"]
          BY <1>5 DEF Select
        <4> QED BY <4>1, <4>2, <4>3
      <3> QED BY <3>1 DEF Holding
    <2> QED BY <1>0, <1>5, <2>1, <2>2, <2>3, <2>4 DEF Select, TypeOK
  <1>6. ASSUME NEW outcome, Complete(w, outcome)
        PROVE  TypeOK'
    <2> DEFINE id == worker[w].job
    <2>0. w \in Holding /\ id \in JobIds
      BY <1>0, <1>6 DEF Complete, Holding
    <2>1. Settle(jobs[id], outcome) \in Job /\ TokenOf(id) \in Tokens
      BY <1>0, <2>0, SettleType DEF TokenOf, Tokens, Job
    <2>2. jobs' \in [JobIds -> Job] /\ cancelled' \in SUBSET Tokens
      BY <1>0, <1>6, <2>0, <2>1 DEF Complete, TypeOK
    <2>3. /\ worker' \in [Workers -> WorkerRecord]
          /\ waiter' \in [Waiters -> WaiterRecord]
      BY <1>0, <1>6 DEF Complete
    <2>4. \A v \in Holding' : v \in Holding /\ worker'[v] = worker[v]
      BY <1>0, <1>6 DEF Complete, Free, Holding, NotifiedWorkers, WorkerRecord
    <2> QED BY <1>0, <1>6, <2>2, <2>3, <2>4 DEF Complete, TypeOK
  <1> QED
    BY <1>1, <1>2, <1>3, <1>4, <1>5, <1>6 DEF WorkerStep

\* Waking every task keeps the types and who holds which job.
LEMMA NotifyType ==
    ASSUME TypeOK, Notify
    PROVE  /\ worker' \in [Workers -> WorkerRecord]
           /\ \A w \in Holding' : worker'[w].job \in JobIds
           /\ waiter' \in [Waiters -> WaiterRecord]
  BY NotifiedType DEF TypeOK, Notify, NotifiedWorkers, Holding, WorkerRecord

\* A call of a client keeps the types.
LEMMA ClientStepType ==
    ASSUME TypeOK, ClientStep
    PROVE  TypeOK'
  <1>0. /\ jobs \in [JobIds -> Job]
        /\ revisions \in [Keys -> Nat]
        /\ sequence \in Nat
        /\ \A id \in JobIds : jobs[id] \in Job /\ TokenOf(id) \in Tokens
    BY DEF TypeOK, TokenOf, Tokens, Job
  <1>1. ASSUME NEW id \in JobIds, NEW request \in Requests, Submit(id, request)
        PROVE  TypeOK'
    <2>1. NewJob(request, sequence') \in Job
      BY <1>0, <1>1, NewJobType DEF Submit
    <2>2. \A other \in JobIds : Finish(jobs[other], "superseded") \in Job
      BY <1>0, FinishType DEF Terminal
    <2>3. jobs' \in [JobIds -> Job]
      <3>1. \/ jobs' = [jobs EXCEPT ![id] = NewJob(request, sequence')]
            \/ jobs' = [other \in JobIds |->
                          IF other = id THEN NewJob(request, sequence')
                          ELSE IF other \in SameItem(request.key)
                               THEN Finish(jobs[other], "superseded")
                               ELSE jobs[other]]
        BY <1>1 DEF Submit
      <3>2. CASE jobs' = [jobs EXCEPT ![id] = NewJob(request, sequence')]
        BY <1>0, <2>1, <3>2
      <3>3. CASE jobs' = [other \in JobIds |->
                            IF other = id THEN NewJob(request, sequence')
                            ELSE IF other \in SameItem(request.key)
                                 THEN Finish(jobs[other], "superseded")
                                 ELSE jobs[other]]
        BY <1>0, <2>1, <2>2, <3>3
      <3> QED BY <3>1, <3>2, <3>3
    <2>4. revisions' \in [Keys -> Nat]
      BY <1>0, <1>1, BrokerAssumption DEF Submit
    <2>5. cancelled' \in SUBSET Tokens
      BY <1>0, <1>1 DEF Submit, TypeOK, SameItem, InTable
    <2> QED BY <1>0, <1>1, <2>3, <2>4, <2>5, NotifyType DEF Submit, TypeOK
  <1>2. ASSUME NEW id \in JobIds, Cancel(id)
        PROVE  TypeOK'
    <2>1. jobs' \in [JobIds -> Job]
      BY <1>0, <1>2, FinishType DEF Cancel, Terminal
    <2>2. cancelled' \in SUBSET Tokens
      BY <1>0, <1>2 DEF Cancel, TypeOK
    <2> QED BY <1>2, <2>1, <2>2, NotifyType DEF Cancel, TypeOK
  <1>3. ASSUME NEW id \in JobIds, Retry(id)
        PROVE  TypeOK'
    <2>1. jobs' \in [JobIds -> Job]
      BY <1>0, <1>3, RetriedType DEF Retry
    <2> QED BY <1>3, <2>1, NotifyType DEF Retry, TypeOK
  <1>4. ASSUME NEW id \in JobIds, Promote(id)
        PROVE  TypeOK'
    <2>1. \A other \in JobIds :
             [jobs[other] EXCEPT !.promoted = (other = id)] \in Job
      BY <1>0 DEF Job
    <2>2. jobs' \in [JobIds -> Job]
      BY <1>4, <2>1 DEF Promote
    <2> QED BY <1>4, <2>2, NotifyType DEF Promote, TypeOK
  <1>5. ASSUME NEW id \in JobIds, Release(id)
        PROVE  TypeOK'
    <2>1. jobs' \in [JobIds -> Job]
      BY <1>0, <1>5, BlankType DEF Release, JobStates
    <2>2. retired' \in SUBSET JobIds
      BY <1>5 DEF Release, TypeOK
    <2> QED BY <1>5, <2>1, <2>2, NotifyType DEF Release, TypeOK
  <1>6. ASSUME NEW id \in JobIds, NEW c \in Waiters, StartWait(c, id)
        PROVE  TypeOK'
    <2>1. waiter' \in [Waiters -> WaiterRecord]
      BY <1>6 DEF StartWait, WaiterRecord, TypeOK
    <2> QED BY <1>6, <2>1 DEF StartWait, TypeOK, Holding
  <1>7. CASE List
    BY <1>7, NotifyType DEF List, TypeOK
  <1> QED
    BY <1>1, <1>2, <1>3, <1>4, <1>5, <1>6, <1>7 DEF ClientStep

\* Every step keeps the types.
LEMMA StepType == TypeOK /\ [Next]_vars => TypeOK'
  <1> SUFFICES ASSUME TypeOK, [Next]_vars
               PROVE  TypeOK'
    OBVIOUS
  <1>0. /\ jobs \in [JobIds -> Job]
        /\ \A id \in JobIds : jobs[id] \in Job /\ TokenOf(id) \in Tokens
        /\ Answered \in WaiterRecord
    BY DEF TypeOK, TokenOf, Tokens, Job, Answered, WaiterRecord
  <1>1. ASSUME NEW w \in Workers, WorkerStep(w)
        PROVE  TypeOK'
    BY <1>1, WorkerStepType
  <1>2. ASSUME NEW id \in JobIds, BackoffElapses(id)
        PROVE  TypeOK'
    <2>1. [jobs[id] EXCEPT !.due = TRUE] \in Job
      BY <1>0 DEF Job
    <2>2. jobs' \in [JobIds -> Job]
      BY <1>0, <1>2, <2>1 DEF BackoffElapses
    <2> QED BY <1>2, <2>2 DEF BackoffElapses, TypeOK, Holding
  <1>3. CASE ClientStep
    BY <1>3, ClientStepType
  <1>4. ASSUME NEW c \in Waiters, CheckWait(c)
        PROVE  TypeOK'
    <2>1. /\ worker' \in [Workers -> WorkerRecord]
          /\ \A w \in Holding' : worker'[w].job \in JobIds
      BY <1>4, NotifiedType
         DEF CheckWait, TypeOK, NotifiedWorkers, Holding, WorkerRecord
    <2>2. waiter' \in [Waiters -> WaiterRecord]
      BY <1>0, <1>4, NotifiedType DEF CheckWait, TypeOK, WaiterRecord
    <2> QED BY <1>4, <2>1, <2>2 DEF CheckWait, TypeOK
  <1>5. ASSUME NEW c \in Waiters, AbortClient(c)
        PROVE  TypeOK'
    BY <1>0, <1>5 DEF AbortClient, TypeOK, Holding
  <1>6. CASE LeaveLoop
    BY <1>6 DEF LeaveLoop, TypeOK, Holding
  <1>7. CASE Close
    <2>1. jobs' \in [JobIds -> Job]
      BY <1>0, <1>7, FinishType DEF Close, Terminal
    <2>2. cancelled' \in SUBSET Tokens
      BY <1>0, <1>7 DEF Close, TypeOK
    <2> QED BY <1>7, <2>1, <2>2, NotifyType DEF Close, TypeOK
  <1>8. CASE Clear
    <2>1. jobs' \in [JobIds -> Job]
      BY <1>0, <1>8, BlankType DEF Clear, JobStates
    <2> QED BY <1>8, <2>1 DEF Clear, TypeOK, Holding
  <1>9. CASE UNCHANGED vars
    BY <1>9 DEF vars, TypeOK, Holding
  <1> QED
    BY <1>1, <1>2, <1>3, <1>4, <1>5, <1>6, <1>7, <1>8, <1>9 DEF Next, Exited

\* The state stays what the critical sections of work(), call() and serve()
\* may make of it: no counter below zero, no attempt without a job id.
THEOREM TypeCorrect == Spec => []TypeOK
  BY InitType, StepType, PTL DEF Spec

-----------------------------------------------------------------------------
(* What one step may do to one job.  The invariants about single jobs rest *)
(* on this summary and not on the actions.                                 *)

Unmoved(a, b) ==
    /\ b.request = a.request /\ b.token = a.token /\ b.result = a.result
    /\ b.transient = a.transient /\ b.invalidOutputs = a.invalidOutputs

JobKept(a, b) == Unmoved(a, b) /\ b.state = a.state /\ b.attempts = a.attempts

JobRequeued(a, b) ==
    /\ Unmoved(a, b) /\ b.attempts = a.attempts
    /\ a.state = "retrying" /\ b.state = "queued"

JobStarted(a, b) ==
    /\ Unmoved(a, b) /\ b.attempts = a.attempts + 1
    /\ a.state \in {"queued", "retrying"} /\ b.state = "running"

JobSettled(a, b) == a.state \in Live /\ \E outcome : b = Settle(a, outcome)

JobAccepted(a, b) ==
    /\ a.state = "unused"
    /\ \E request \in Requests, number \in Nat : b = NewJob(request, number)

JobSuperseded(a, b) == a.state \in Retained /\ b = Finish(a, "superseded")

JobCancelled(a, b) == a.state \in Live /\ b = Finish(a, "cancelled")

JobRetried(a, b) == a.state = "failed" /\ b = Restarted(a)

JobForgotten(a, b) == a.state # "unused" /\ b = Blank("released")

JobMove(a, b) ==
    \/ JobKept(a, b) \/ JobRequeued(a, b) \/ JobStarted(a, b)
    \/ JobSettled(a, b) \/ JobSuperseded(a, b) \/ JobCancelled(a, b)
    \/ JobRetried(a, b) \/ JobForgotten(a, b)

JobChange(a, b) == JobAccepted(a, b) \/ JobMove(a, b)

\* A job that no action names stays as it is.
LEMMA KeptRefl == \A a : JobKept(a, a)
  BY DEF JobKept, Unmoved

\* What a worker's step does to a job.
LEMMA WorkerMove ==
    ASSUME TypeOK, NEW w \in Workers, WorkerStep(w), NEW i \in JobIds
    PROVE  JobMove(jobs[i], jobs'[i])
  <1>0. jobs \in [JobIds -> Job] /\ jobs[i] \in Job
    BY DEF TypeOK
  <1>1. CASE jobs' = jobs
    BY <1>1, KeptRefl DEF JobMove
  <1>2. ASSUME NEW id \in JobIds, StartAttempt(w, id)
        PROVE  JobMove(jobs[i], jobs'[i])
    <2>1. PICK rank \in Bijection(Due, 1..Cardinality(Due)) :
             /\ FirstInQueue(Requeue(rank), id)
             /\ jobs' = [Requeue(rank) EXCEPT
                           ![id].state = "running", ![id].selected = FALSE,
                           ![id].promoted = FALSE, ![id].attempts = @ + 1]
      BY <1>2 DEF StartAttempt
    <2>2. Requeue(rank) \in [JobIds -> Job]
      BY <1>0, RequeueType DEF TypeOK
    <2>3. JobKept(jobs[i], Requeue(rank)[i]) \/ JobRequeued(jobs[i], Requeue(rank)[i])
      BY <1>0, KeptRefl DEF JobRequeued, Unmoved, Requeue, Due, Job
    <2>4. CASE i = id
      <3> DEFINE entry == Requeue(rank)[i]
      <3>1. entry \in Job /\ entry.state = "queued"
        BY <2>1, <2>2, <2>4 DEF FirstInQueue, Queued
      <3>2. jobs'[i] = [entry EXCEPT !.state = "running", !.selected = FALSE,
                                     !.promoted = FALSE, !.attempts = @ + 1]
        BY <2>1, <2>2, <2>4
      <3>3. Unmoved(entry, jobs'[i]) /\ jobs'[i].attempts = entry.attempts + 1
            /\ jobs'[i].state = "running"
        <4> HIDE DEF entry
        <4> QED BY <3>1, <3>2 DEF Unmoved, Job
      <3> QED BY <2>3, <3>1, <3>3
              DEF JobMove, JobKept, JobRequeued, JobStarted, Unmoved
    <2>5. CASE i # id
      BY <2>1, <2>2, <2>3, <2>5 DEF JobMove
    <2> QED BY <2>4, <2>5
  <1>3. CASE Select(w)
    <2>1. \/ jobs' = jobs
          \/ jobs' = [jobs EXCEPT ![worker[w].job].selected = TRUE]
      BY <1>3 DEF Select
    <2>2. JobKept(jobs[i], [jobs[i] EXCEPT !.selected = TRUE])
      BY <1>0 DEF JobKept, Unmoved, Job
    <2>3. jobs'[i] = jobs[i] \/ jobs'[i] = [jobs[i] EXCEPT !.selected = TRUE]
      BY <1>0, <2>1
    <2> QED BY <2>2, <2>3, KeptRefl DEF JobMove
  <1>4. ASSUME NEW outcome, Complete(w, outcome)
        PROVE  JobMove(jobs[i], jobs'[i])
    <2> DEFINE id == worker[w].job
    <2>1. \/ jobs' = jobs
          \/ /\ jobs[id].state \in Live
             /\ jobs' = [jobs EXCEPT ![id] = Settle(jobs[id], outcome)]
      BY <1>4 DEF Complete, StillLive
    <2> QED BY <1>0, <1>1, <2>1, KeptRefl DEF JobMove, JobSettled
  <1> QED
    BY <1>1, <1>2, <1>3, <1>4 DEF WorkerStep, StopWorker, Park, SleepEnds

\* What a submission does to a job.
LEMMA SubmitChange ==
    ASSUME TypeOK, NEW id \in JobIds, NEW request \in Requests,
           Submit(id, request), NEW i \in JobIds
    PROVE  JobChange(jobs[i], jobs'[i])
  <1>0. jobs \in [JobIds -> Job] /\ sequence \in Nat
    BY DEF TypeOK
  <1>1. /\ jobs[id].state = "unused"
        /\ sequence' \in Nat
        /\ \/ jobs' = [jobs EXCEPT ![id] = NewJob(request, sequence')]
           \/ jobs' = [other \in JobIds |->
                         IF other = id THEN NewJob(request, sequence')
                         ELSE IF other \in SameItem(request.key)
                              THEN Finish(jobs[other], "superseded")
                              ELSE jobs[other]]
    BY <1>0 DEF Submit
  <1>2. CASE i = id
    <2>1. jobs'[i] = NewJob(request, sequence')
      BY <1>0, <1>1, <1>2
    <2> QED BY <1>1, <1>2, <2>1 DEF JobChange, JobAccepted
  <1>3. CASE i # id
    <2>1. \/ jobs'[i] = jobs[i]
          \/ i \in SameItem(request.key) /\ jobs'[i] = Finish(jobs[i], "superseded")
      BY <1>0, <1>1, <1>3
    <2> QED BY <2>1, KeptRefl
            DEF JobChange, JobMove, JobSuperseded, SameItem, InTable
  <1> QED BY <1>2, <1>3

\* What the other calls of a client do to a job.
LEMMA ClientMove ==
    ASSUME TypeOK, ClientStep, NEW i \in JobIds
    PROVE  \/ \E id \in JobIds, request \in Requests : Submit(id, request)
           \/ JobMove(jobs[i], jobs'[i])
  <1>0. jobs \in [JobIds -> Job] /\ jobs[i] \in Job
    BY DEF TypeOK
  <1>1. ASSUME NEW id \in JobIds, Cancel(id)
        PROVE  JobMove(jobs[i], jobs'[i])
    BY <1>0, <1>1, KeptRefl DEF Cancel, JobMove, JobCancelled
  <1>2. ASSUME NEW id \in JobIds, Retry(id)
        PROVE  JobMove(jobs[i], jobs'[i])
    BY <1>0, <1>2, KeptRefl DEF Retry, JobMove, JobRetried
  <1>3. ASSUME NEW id \in JobIds, Promote(id)
        PROVE  JobMove(jobs[i], jobs'[i])
    <2>1. jobs'[i] = [jobs[i] EXCEPT !.promoted = (i = id)]
      BY <1>3 DEF Promote
    <2> QED BY <1>0, <2>1 DEF JobMove, JobKept, Unmoved, Job
  <1>4. ASSUME NEW id \in JobIds, Release(id)
        PROVE  JobMove(jobs[i], jobs'[i])
    BY <1>0, <1>4, KeptRefl DEF Release, JobMove, JobForgotten, Terminal
  <1>5. CASE jobs' = jobs
    BY <1>5, KeptRefl DEF JobMove
  <1> QED
    BY <1>1, <1>2, <1>3, <1>4, <1>5 DEF ClientStep, StartWait, List

\* What any step but a submission does to a job.
LEMMA StepMove ==
    ASSUME TypeOK, [Next]_vars, NEW i \in JobIds
    PROVE  \/ \E id \in JobIds, request \in Requests : Submit(id, request)
           \/ JobMove(jobs[i], jobs'[i])
  <1>0. jobs \in [JobIds -> Job] /\ jobs[i] \in Job
    BY DEF TypeOK
  <1>1. ASSUME NEW id \in JobIds, BackoffElapses(id)
        PROVE  JobMove(jobs[i], jobs'[i])
    <2>1. JobKept(jobs[i], [jobs[i] EXCEPT !.due = TRUE])
      BY <1>0 DEF JobKept, Unmoved, Job
    <2>2. jobs'[i] = jobs[i] \/ jobs'[i] = [jobs[i] EXCEPT !.due = TRUE]
      BY <1>0, <1>1 DEF BackoffElapses
    <2> QED BY <2>1, <2>2, KeptRefl DEF JobMove
  <1>2. CASE Close
    BY <1>2, KeptRefl DEF Close, JobMove, JobCancelled
  <1>3. CASE Clear
    BY <1>3, KeptRefl DEF Clear, JobMove, JobForgotten
  <1>4. CASE jobs' = jobs
    BY <1>4, KeptRefl DEF JobMove
  <1> QED
    BY <1>1, <1>2, <1>3, <1>4, WorkerMove, ClientMove
       DEF Next, CheckWait, AbortClient, LeaveLoop, Exited, vars

\* What any step does to a job.
LEMMA StepChange ==
    ASSUME TypeOK, [Next]_vars, NEW i \in JobIds
    PROVE  JobChange(jobs[i], jobs'[i])
  BY StepMove, SubmitChange DEF JobChange

-----------------------------------------------------------------------------
(* The invariants about single jobs: each is kept by every change of a job. *)

ResultIsRight(job) ==
    job.result = IF job.state = "succeeded" THEN {job.token} ELSE {}

\* A change of a job leaves a result exactly with a success.
LEMMA ChangeKeepsResult ==
    ASSUME NEW a \in Job, NEW b, JobChange(a, b), ResultIsRight(a)
    PROVE  ResultIsRight(b)
  <1> USE DEF ResultIsRight
  <1>1. CASE JobKept(a, b) \/ JobRequeued(a, b) \/ JobStarted(a, b)
    BY <1>1 DEF JobKept, JobRequeued, JobStarted, Unmoved
  <1>2. ASSUME NEW outcome, a.state \in Live, b = Settle(a, outcome)
        PROVE  ResultIsRight(b)
    <2>1. CASE outcome = "ok"
      BY <1>2, <2>1 DEF Settle, Finish, Job
    <2>2. CASE outcome # "ok"
      <3>1. b.state \in {"failed", "retrying"}
        BY <1>2, <2>2 DEF Settle, Finish, Job
      <3>2. a.result = {}
        BY <1>2 DEF Live
      <3> QED BY <1>2, <2>2, <3>1, <3>2 DEF Settle, Finish, Job
    <2> QED BY <2>1, <2>2
  <1>3. CASE JobAccepted(a, b)
    BY <1>3 DEF JobAccepted, NewJob, Blank
  <1>4. CASE JobSuperseded(a, b) \/ JobCancelled(a, b)
    BY <1>4 DEF JobSuperseded, JobCancelled, Finish, Job
  <1>5. CASE JobRetried(a, b)
    BY <1>5 DEF JobRetried, Restarted, Job
  <1>6. CASE JobForgotten(a, b)
    BY <1>6 DEF JobForgotten, Blank
  <1> QED BY <1>1, <1>2, <1>3, <1>4, <1>5, <1>6 DEF JobChange, JobMove, JobSettled

\* Every succeeded job has the result of its last explicit retry, and no
\* other job keeps a result: the unwrap() of status and wait never panics.
THEOREM ResultCurrent == Spec => []ResultIsCurrent
  <1>1. Init => ResultIsCurrent
    BY DEF Init, ResultIsCurrent, Blank
  <1>2. TypeOK /\ ResultIsCurrent /\ [Next]_vars => ResultIsCurrent'
    BY StepChange, ChangeKeepsResult DEF TypeOK, ResultIsCurrent, ResultIsRight
  <1> QED BY <1>1, <1>2, TypeCorrect, PTL DEF Spec

\* The attempts that one explicit start of a job may use.
Allowance == TransientLimit + SchemaAttempts

\* AttemptsAreBounded, strengthened with what a live job has left.
WithinBudget(job) ==
    /\ job.attempts <= job.token * Allowance + Allowance
    /\ job.state \in Live =>
          /\ job.transient <= TransientLimit
          /\ job.invalidOutputs < SchemaAttempts
          /\ job.attempts <= job.token * Allowance + job.transient
                              + job.invalidOutputs
                              + IF job.state = "running" THEN 1 ELSE 0

\* The outcome of an attempt stays in the budget.
LEMMA SettleBudget ==
    ASSUME NEW a \in Job, WithinBudget(a), a.state \in Live, NEW outcome
    PROVE  WithinBudget(Settle(a, outcome))
  <1> DEFINE b == Settle(a, outcome)
  <1>1. b.attempts = a.attempts /\ b.token = a.token
    BY DEF Settle, Finish, Job
  <1>2. \/ b.state \notin Live
        \/ /\ b.state = "retrying"
           /\ b.transient <= TransientLimit /\ b.invalidOutputs < SchemaAttempts
           /\ b.transient + b.invalidOutputs = a.transient + a.invalidOutputs + 1
    BY BrokerAssumption DEF Settle, Finish, Job, Live
  <1>3. a.token * Allowance \in Nat /\ b \in Job
    BY BrokerAssumption, SettleType DEF Job, Allowance
  <1> DEFINE spent == a.token * Allowance
  <1>4. /\ b.attempts <= spent + Allowance
        /\ b.state \in Live =>
             b.attempts <= spent + b.transient + b.invalidOutputs
    <2> HIDE DEF b, spent
    <2> QED BY <1>1, <1>2, <1>3 DEF WithinBudget, Job, spent
  <1>5. WithinBudget(b)
    <2> HIDE DEF b
    <2>1. b.token * Allowance = spent
      BY <1>1
    <2> HIDE DEF spent
    <2> QED BY <1>1, <1>2, <1>3, <1>4, <2>1 DEF WithinBudget, Job
  <1> QED BY <1>5

\* A change of a job spends at most what is left of its budget; an explicit
\* retry brings a new one.
LEMMA ChangeKeepsBudget ==
    ASSUME NEW a \in Job, NEW b \in Job, JobChange(a, b), WithinBudget(a)
    PROVE  WithinBudget(b)
  <1>0. Allowance \in Nat \ {0} /\ a.token * Allowance \in Nat
    BY BrokerAssumption DEF Allowance, Job
  <1>1. CASE JobKept(a, b)
    BY <1>1 DEF JobKept, Unmoved, WithinBudget
  <1>2. CASE JobRequeued(a, b)
    BY <1>2 DEF JobRequeued, Unmoved, WithinBudget, Live
  <1>3. CASE JobStarted(a, b)
    <2> DEFINE spent == a.token * Allowance
    <2>1. /\ a.attempts <= spent + a.transient + a.invalidOutputs
          /\ a.transient <= TransientLimit /\ a.invalidOutputs < SchemaAttempts
      <3>1. a.state \in Live /\ a.state # "running"
        BY <1>3 DEF JobStarted, Live
      <3>2. a.attempts <= a.token * Allowance + a.transient + a.invalidOutputs + 0
        BY <3>1 DEF WithinBudget
      <3> HIDE DEF spent
      <3> QED BY <1>0, <3>1, <3>2 DEF WithinBudget, Job, spent
    <2>2. /\ b.attempts <= spent + Allowance
          /\ b.attempts <= spent + b.transient + b.invalidOutputs + 1
      <3> HIDE DEF spent
      <3> QED BY <1>0, <1>3, <2>1, BrokerAssumption
              DEF JobStarted, Unmoved, Allowance, Job, spent
    <2> QED BY <1>3, <2>1, <2>2 DEF JobStarted, Unmoved, WithinBudget
  <1>4. CASE JobSettled(a, b)
    BY <1>4, SettleBudget DEF JobSettled
  <1>5. CASE JobAccepted(a, b) \/ JobForgotten(a, b)
    <2>1. /\ b.attempts = 0 /\ b.token = 0 /\ b.transient = 0
          /\ b.invalidOutputs = 0 /\ b.state # "running"
      <3>1. ASSUME NEW request, NEW number, b = NewJob(request, number)
            PROVE  /\ b.attempts = 0 /\ b.token = 0 /\ b.transient = 0
                   /\ b.invalidOutputs = 0 /\ b.state # "running"
        BY <3>1 DEF NewJob, Blank
      <3> QED BY <1>5, <3>1 DEF JobAccepted, JobForgotten, Blank
    <2> QED BY <1>0, <2>1, BrokerAssumption DEF WithinBudget
  <1>6. CASE JobSuperseded(a, b) \/ JobCancelled(a, b)
    BY <1>6 DEF JobSuperseded, JobCancelled, Finish, WithinBudget, Live, Job
  <1>7. CASE JobRetried(a, b)
    <2>1. /\ b.attempts = a.attempts /\ b.token = a.token + 1
          /\ b.transient = 0 /\ b.invalidOutputs = 0 /\ b.state = "queued"
      BY <1>7 DEF JobRetried, Restarted, Job
    <2>2. b.token * Allowance = a.token * Allowance + Allowance
      BY <1>0, <2>1 DEF Job
    <2> QED BY <1>0, <2>1, <2>2, BrokerAssumption DEF WithinBudget, Job
  <1> QED BY <1>1, <1>2, <1>3, <1>4, <1>5, <1>6, <1>7 DEF JobChange, JobMove

\* One budget of attempts per explicit retry, however the failures alternate:
\* no job costs an unbounded number of model calls.
THEOREM AttemptsBounded == Spec => []AttemptsAreBounded
  <1> DEFINE BudgetInv == \A id \in JobIds : WithinBudget(jobs[id])
  <1>1. Init => BudgetInv
    <2>1. Allowance \in Nat
      BY BrokerAssumption DEF Allowance
    <2> QED BY <2>1 DEF Init, WithinBudget, Blank, Live
  <1>2. TypeOK /\ TypeOK' /\ BudgetInv /\ [Next]_vars => BudgetInv'
    BY StepChange, ChangeKeepsBudget DEF TypeOK
  <1>3. TypeOK /\ BudgetInv => AttemptsAreBounded
    <2>1. Allowance \in Nat
      BY BrokerAssumption DEF Allowance
    <2>2. \A t \in Nat : (t + 1) * Allowance = t * Allowance + Allowance
      BY <2>1
    <2> QED BY <2>2 DEF TypeOK, Job, WithinBudget, AttemptsAreBounded, Allowance
  <1> QED BY <1>1, <1>2, <1>3, TypeCorrect, PTL DEF Spec

\* Every finished job is final: a late outcome never changes what cancel,
\* supersede or an earlier attempt decided.
THEOREM Finality == Spec => FinishedIsFinal
  <1>1. TypeOK /\ [Next]_vars =>
          \A id \in JobIds : jobs[id] \in Job /\ JobChange(jobs[id], jobs'[id])
    BY StepChange DEF TypeOK
  <1>2. ASSUME NEW a \in Job, NEW b, JobChange(a, b), a.state \in Terminal
        PROVE  \/ b.state \in {a.state, "superseded", "released"}
               \/ a.state = "failed" /\ b.state = "queued" /\ b.token > a.token
    <2>1. CASE JobKept(a, b)
      BY <2>1 DEF JobKept
    <2>2. CASE JobSuperseded(a, b)
      BY <2>2 DEF JobSuperseded, Finish, Job
    <2>3. CASE JobRetried(a, b)
      BY <2>3 DEF JobRetried, Restarted, Job
    <2>4. CASE JobForgotten(a, b)
      BY <2>4 DEF JobForgotten, Blank
    <2> QED
      BY <1>2, <2>1, <2>2, <2>3, <2>4
         DEF JobChange, JobMove, JobRequeued, JobStarted, JobSettled,
             JobAccepted, JobCancelled, Terminal, Live
  <1>3. TypeOK /\ [Next]_vars =>
          [\A id \in JobIds :
             jobs[id].state \in Terminal =>
                \/ jobs'[id].state \in {jobs[id].state, "superseded", "released"}
                \/ /\ jobs[id].state = "failed" /\ jobs'[id].state = "queued"
                   /\ jobs'[id].token > jobs[id].token]_vars
    BY <1>1, <1>2
  <1> QED BY <1>3, TypeCorrect, PTL DEF Spec, FinishedIsFinal

-----------------------------------------------------------------------------
(* The invariants that relate jobs to the watermarks and to each other. *)

IsNewest(job, watermark) ==
    job.state \in Retained /\ job.request.key # NoKey =>
        /\ job.request.revision <= watermark[job.request.key]
        /\ job.state # "superseded" =>
              job.request.revision = watermark[job.request.key]

\* Only a submission moves a watermark, until the table is cleared.
LEMMA WatermarkSteps ==
    ASSUME [Next]_vars
    PROVE  \/ \E id \in JobIds, request \in Requests : Submit(id, request)
           \/ Clear
           \/ revisions' = revisions
  BY DEF Next, WorkerStep, StopWorker, StartAttempt, Park, SleepEnds, Select,
         Complete, BackoffElapses, ClientStep, Cancel, Retry, Promote, Release,
         StartWait, List, CheckWait, AbortClient, LeaveLoop, Close, Exited, vars

\* A change of a job that is not its submission keeps it current.
LEMMA ChangeKeepsNewest ==
    ASSUME NEW a \in Job, NEW b, NEW watermark,
           JobMove(a, b), IsNewest(a, watermark)
    PROVE  IsNewest(b, watermark)
  <1>1. CASE JobKept(a, b)
    BY <1>1 DEF JobKept, Unmoved, IsNewest
  <1>2. CASE JobRequeued(a, b) \/ JobStarted(a, b)
    BY <1>2 DEF JobRequeued, JobStarted, Unmoved, IsNewest, Retained, Live
  <1>3. ASSUME a.state \in Live, b.request = a.request
        PROVE  IsNewest(b, watermark)
    BY <1>3 DEF IsNewest, Retained, Live
  <1>4. CASE JobSettled(a, b)
    BY <1>3, <1>4 DEF JobSettled, Settle, Finish, Job
  <1>5. CASE JobCancelled(a, b)
    BY <1>3, <1>5 DEF JobCancelled, Finish, Job
  <1>6. CASE JobSuperseded(a, b)
    BY <1>6 DEF JobSuperseded, Finish, IsNewest, Job
  <1>7. CASE JobRetried(a, b)
    BY <1>7 DEF JobRetried, Restarted, IsNewest, Retained, Terminal, Job
  <1>8. CASE JobForgotten(a, b)
    BY <1>8 DEF JobForgotten, Blank, IsNewest, Retained, Live, Terminal
  <1> QED BY <1>1, <1>2, <1>4, <1>5, <1>6, <1>7, <1>8 DEF JobMove

\* A submission supersedes every retained job of its item and raises the
\* watermark of that item alone.
LEMMA SubmitKeepsNewest ==
    ASSUME TypeOK, NEW id \in JobIds, NEW request \in Requests,
           Submit(id, request), NEW i \in JobIds, IsNewest(jobs[i], revisions)
    PROVE  IsNewest(jobs'[i], revisions')
  <1>0. /\ jobs \in [JobIds -> Job] /\ jobs[i] \in Job
        /\ revisions \in [Keys -> Nat]
        /\ request.revision \in Nat /\ request.key \in Keys \cup {NoKey}
        /\ \A number : /\ NewJob(request, number).request = request
                       /\ NewJob(request, number).state = "queued"
    BY BrokerAssumption DEF TypeOK, NewJob, Blank
  <1>1. CASE request.key = NoKey
    <2>1. jobs' = [jobs EXCEPT ![id] = NewJob(request, sequence')]
          /\ revisions' = revisions
      BY <1>1 DEF Submit
    <2> QED BY <1>0, <1>1, <2>1 DEF IsNewest
  <1>2. CASE request.key # NoKey
    <2>1. /\ revisions[request.key] < request.revision
          /\ revisions' = [revisions EXCEPT ![request.key] = request.revision]
          /\ jobs' = [other \in JobIds |->
                        IF other = id THEN NewJob(request, sequence')
                        ELSE IF other \in SameItem(request.key)
                             THEN Finish(jobs[other], "superseded")
                             ELSE jobs[other]]
      BY <1>2 DEF Submit
    <2>2. CASE i = id
      BY <1>0, <1>2, <2>1, <2>2 DEF IsNewest
    <2>3. CASE i # id /\ i \in SameItem(request.key)
      <3>1. /\ jobs'[i].state = "superseded"
            /\ jobs'[i].request = jobs[i].request
            /\ jobs[i].request.key = request.key /\ jobs[i].state \in Retained
        BY <1>0, <2>1, <2>3 DEF Finish, Job, SameItem, InTable
      <3>2. jobs[i].request.revision <= revisions[request.key]
        BY <1>2, <3>1 DEF IsNewest
      <3>3. jobs[i].request.revision \in Nat
        BY <1>0, BrokerAssumption DEF Job, NoRequest
      <3> QED BY <1>0, <1>2, <2>1, <3>1, <3>2, <3>3 DEF IsNewest
    <2>4. CASE i # id /\ i \notin SameItem(request.key)
      <3>1. jobs'[i] = jobs[i]
        BY <2>1, <2>4
      <3>2. CASE jobs[i].state \in Retained /\ jobs[i].request.key # NoKey
        <4>1. jobs[i].request.key # request.key
          BY <2>4, <3>2 DEF SameItem, InTable
        <4> QED BY <1>0, <2>1, <3>1, <4>1 DEF IsNewest
      <3> QED BY <3>1, <3>2 DEF IsNewest
    <2> QED BY <2>2, <2>3, <2>4
  <1> QED BY <1>1, <1>2

\* Whatever interleaves with a submission, no job of an older revision can
\* hold, produce or, after a retry, produce again a result that is not marked
\* superseded.
THEOREM NewestRevision == Spec => []OnlyNewestRevision
  <1> DEFINE NewestInv == \A i \in JobIds : IsNewest(jobs[i], revisions)
  <1>1. Init => NewestInv
    BY DEF Init, Blank, IsNewest, Retained, Live, Terminal
  <1>2. TypeOK /\ NewestInv /\ [Next]_vars => NewestInv'
    <2> SUFFICES ASSUME TypeOK, NewestInv, [Next]_vars, NEW i \in JobIds
                 PROVE  IsNewest(jobs'[i], revisions')
      OBVIOUS
    <2>1. jobs[i] \in Job /\ IsNewest(jobs[i], revisions)
      BY DEF TypeOK
    <2>2. ASSUME NEW id \in JobIds, NEW request \in Requests, Submit(id, request)
          PROVE  IsNewest(jobs'[i], revisions')
      BY <2>1, <2>2, SubmitKeepsNewest
    <2>3. CASE Clear
      BY <2>3 DEF Clear, Blank, IsNewest, Retained, Live, Terminal
    <2>4. CASE revisions' = revisions /\ JobMove(jobs[i], jobs'[i])
      BY <2>1, <2>4, ChangeKeepsNewest
    <2> QED BY <2>2, <2>3, <2>4, StepMove, WatermarkSteps
  <1>3. NewestInv => OnlyNewestRevision
    BY DEF OnlyNewestRevision, InTable, IsNewest
  <1> QED BY <1>1, <1>2, <1>3, TypeCorrect, PTL DEF Spec

-----------------------------------------------------------------------------
(* Ownership of attempts.  The strengthening: a job that a worker holds is  *)
(* in no state from which it could be started or submitted again.          *)

Unheld == {"unused", "queued", "retrying", "failed"}

OwnInv ==
    /\ AttemptsAreOwned
    /\ \A w \in Holding : jobs[worker[w].job].state \notin Unheld

\* The workers that hold jobs, and what they hold, stay the same.
HoldersKept ==
    /\ Holding' = Holding
    /\ \A w \in Holding : /\ worker'[w].job = worker[w].job
                          /\ worker'[w].token = worker[w].token

\* What a step that neither starts nor completes an attempt does to a job:
\* it leaves state and token alone, moves a job that nobody holds, finishes a
\* job and cancels its token, or takes a terminal job away.
QuietChange(i) ==
    \/ jobs'[i].state = jobs[i].state /\ jobs'[i].token = jobs[i].token
    \/ jobs[i].state \in {"unused", "failed"} /\ jobs'[i].state # "running"
    \/ /\ jobs'[i].state \in {"cancelled", "superseded"}
       /\ TokenOf(i) \in cancelled'
    \/ jobs[i].state \in Terminal /\ jobs'[i].state = "released"

QuietStep ==
    HoldersKept /\ cancelled \subseteq cancelled' /\ \A i \in JobIds : QuietChange(i)

\* Waking the parked workers leaves the holders alone.
LEMMA NotifyKeepsHolders ==
    ASSUME TypeOK, worker' = NotifiedWorkers
    PROVE  HoldersKept
  BY DEF TypeOK, NotifiedWorkers, HoldersKept, Holding, WorkerRecord

\* A quiet step keeps the ownership.
LEMMA QuietKeepsOwnership ==
    ASSUME TypeOK, OwnInv, QuietStep
    PROVE  OwnInv'
  <1>1. ASSUME NEW v \in Holding', NEW w \in Holding',
               worker'[v].job = worker'[w].job
        PROVE  v = w
    BY <1>1 DEF OwnInv, AttemptsAreOwned, QuietStep, HoldersKept
  <1>2. ASSUME NEW w \in Holding',
               <<worker'[w].job, worker'[w].token>> \notin cancelled'
        PROVE  /\ jobs'[worker'[w].job].state = "running"
               /\ jobs'[worker'[w].job].token = worker'[w].token
    <2> DEFINE i == worker[w].job
    <2>1. /\ i \in JobIds /\ worker'[w].job = i
          /\ jobs[i].state = "running" /\ jobs[i].token = worker[w].token
          /\ worker'[w].token = worker[w].token
      BY <1>2 DEF TypeOK, OwnInv, AttemptsAreOwned, QuietStep, HoldersKept
    <2>2. TokenOf(i) \notin cancelled'
      BY <1>2, <2>1 DEF TokenOf
    <2> QED BY <2>1, <2>2 DEF QuietStep, QuietChange, Terminal
  <1>3. ASSUME NEW i \in JobIds, jobs'[i].state = "running"
        PROVE  \E w \in Holding' : worker'[w].job = i
    <2>1. jobs[i].state = "running"
      BY <1>3 DEF QuietStep, QuietChange
    <2> QED BY <2>1 DEF OwnInv, AttemptsAreOwned, QuietStep, HoldersKept
  <1>4. ASSUME NEW w \in Holding'
        PROVE  jobs'[worker'[w].job].state \notin Unheld
    BY <1>4 DEF TypeOK, OwnInv, QuietStep, QuietChange, HoldersKept, Unheld
  <1> QED BY <1>1, <1>2, <1>3, <1>4 DEF OwnInv, AttemptsAreOwned

\* The calls of clients are quiet.
LEMMA ClientIsQuiet ==
    ASSUME TypeOK, ClientStep
    PROVE  QuietStep
  <1>0. jobs \in [JobIds -> Job]
    BY DEF TypeOK
  <1>1. ASSUME Notify, cancelled \subseteq cancelled',
               \A i \in JobIds : QuietChange(i)
        PROVE  QuietStep
    BY <1>1, NotifyKeepsHolders DEF Notify, QuietStep
  <1>2. ASSUME NEW id \in JobIds, NEW request \in Requests, Submit(id, request)
        PROVE  QuietStep
    <2>1. ASSUME NEW i \in JobIds
          PROVE  QuietChange(i)
      <3>1. CASE i = id
        <4>1. jobs[id].state = "unused" /\ jobs'[id] = NewJob(request, sequence')
          BY <1>0, <1>2 DEF Submit
        <4>2. NewJob(request, sequence').state = "queued"
          BY DEF NewJob, Blank
        <4> QED BY <3>1, <4>1, <4>2 DEF QuietChange
      <3>2. CASE i # id /\ request.key # NoKey /\ i \in SameItem(request.key)
        <4>1. /\ jobs'[i] = Finish(jobs[i], "superseded")
              /\ TokenOf(i) \in cancelled'
          BY <1>2, <3>2 DEF Submit
        <4> QED BY <1>0, <4>1 DEF QuietChange, Finish, Job
      <3>3. CASE i # id /\ (request.key = NoKey \/ i \notin SameItem(request.key))
        <4>1. jobs'[i] = jobs[i]
          BY <1>0, <1>2, <3>3 DEF Submit
        <4> QED BY <4>1 DEF QuietChange
      <3> QED BY <3>1, <3>2, <3>3
    <2> QED BY <1>1, <1>2, <2>1 DEF Submit
  <1>3. ASSUME NEW id \in JobIds, Cancel(id)
        PROVE  QuietStep
    <2>1. ASSUME NEW i \in JobIds
          PROVE  QuietChange(i)
      BY <1>0, <1>3 DEF Cancel, QuietChange, Finish, Job
    <2> QED BY <1>1, <1>3, <2>1 DEF Cancel
  <1>4. ASSUME NEW id \in JobIds, Retry(id)
        PROVE  QuietStep
    <2>1. Restarted(jobs[id]).state = "queued"
      BY <1>0 DEF Restarted, Job
    <2>2. ASSUME NEW i \in JobIds
          PROVE  QuietChange(i)
      BY <1>0, <1>4, <2>1 DEF Retry, QuietChange
    <2> QED BY <1>1, <1>4, <2>2 DEF Retry
  <1>5. ASSUME NEW id \in JobIds, Promote(id)
        PROVE  QuietStep
    <2>1. ASSUME NEW i \in JobIds
          PROVE  QuietChange(i)
      <3>1. jobs'[i] = [jobs[i] EXCEPT !.promoted = (i = id)]
        BY <1>5 DEF Promote
      <3> QED BY <1>0, <3>1 DEF QuietChange, Job
    <2> QED BY <1>1, <1>5, <2>1 DEF Promote
  <1>6. ASSUME NEW id \in JobIds, Release(id)
        PROVE  QuietStep
    <2>1. ASSUME NEW i \in JobIds
          PROVE  QuietChange(i)
      BY <1>0, <1>6 DEF Release, QuietChange, Blank
    <2> QED BY <1>1, <1>6, <2>1 DEF Release
  <1>7. CASE List
    BY <1>1, <1>7 DEF List, QuietChange
  <1>8. ASSUME NEW id \in JobIds, NEW c \in Waiters, StartWait(c, id)
        PROVE  QuietStep
    BY <1>8 DEF StartWait, QuietStep, QuietChange, HoldersKept, Holding
  <1> QED
    BY <1>2, <1>3, <1>4, <1>5, <1>6, <1>7, <1>8 DEF ClientStep

\* The steps of a worker that neither start nor complete an attempt are quiet.
LEMMA WorkerIsQuiet ==
    ASSUME TypeOK, NEW w \in Workers,
           StopWorker(w) \/ Park(w) \/ SleepEnds(w) \/ Select(w)
    PROVE  QuietStep
  <1>0. jobs \in [JobIds -> Job] /\ worker \in [Workers -> WorkerRecord]
    BY DEF TypeOK
  <1>1. CASE StopWorker(w)
    BY <1>0, <1>1
       DEF StopWorker, QuietStep, QuietChange, HoldersKept, Holding, WorkerRecord
  <1>2. CASE Park(w)
    BY <1>0, <1>2
       DEF Park, QuietStep, QuietChange, HoldersKept, Holding, WorkerRecord
  <1>3. CASE SleepEnds(w)
    BY <1>0, <1>3
       DEF SleepEnds, Free, QuietStep, QuietChange, HoldersKept, Holding
  <1>4. CASE Select(w)
    <2>1. ASSUME NEW i \in JobIds
          PROVE  QuietChange(i)
      <3>1. jobs'[i] = jobs[i] \/ jobs'[i] = [jobs[i] EXCEPT !.selected = TRUE]
        BY <1>0, <1>4 DEF Select
      <3> QED BY <1>0, <3>1 DEF QuietChange, Job
    <2>2. HoldersKept
      <3>1. w \in Holding
        BY <1>4 DEF Select, Holding
      <3>2. NotifiedWorkers[w] = worker[w]
        BY <3>1 DEF NotifiedWorkers, Holding
      <3>3. \A v \in Workers \ {w} :
               \/ worker'[v] = worker[v]
               \/ worker[v].pc = "parked" /\ worker'[v].pc = "loop"
        BY <1>0, <1>4 DEF Select, NotifiedWorkers, WorkerRecord
      <3>4. /\ worker'[w].job = worker[w].job /\ worker'[w].token = worker[w].token
            /\ worker'[w].pc \in {"inferring", "abandoned"}
        <4>1. \/ worker' = [NotifiedWorkers EXCEPT ![w].pc = "inferring"]
              \/ worker' = [worker EXCEPT ![w].pc = "abandoned"]
          BY <1>4 DEF Select
        <4>2. NotifiedWorkers \in [Workers -> WorkerRecord]
          BY NotifiedType DEF TypeOK
        <4> QED BY <1>0, <3>2, <4>1, <4>2 DEF WorkerRecord
      <3> QED BY <3>1, <3>3, <3>4 DEF HoldersKept, Holding
    <2> QED BY <1>4, <2>1, <2>2 DEF Select, QuietStep
  <1> QED BY <1>1, <1>2, <1>3, <1>4

\* A worker starts an attempt of a job that nobody holds.
LEMMA StartKeepsOwnership ==
    ASSUME TypeOK, OwnInv, NEW w \in Workers, NEW id \in JobIds,
           StartAttempt(w, id)
    PROVE  OwnInv'
  <1>0. jobs \in [JobIds -> Job] /\ worker \in [Workers -> WorkerRecord]
    BY DEF TypeOK
  <1>1. PICK rank \in Bijection(Due, 1..Cardinality(Due)) :
           /\ FirstInQueue(Requeue(rank), id)
           /\ jobs' = [Requeue(rank) EXCEPT
                         ![id].state = "running", ![id].selected = FALSE,
                         ![id].promoted = FALSE, ![id].attempts = @ + 1]
    BY DEF StartAttempt
  <1>2. Requeue(rank) \in [JobIds -> Job]
    BY <1>0, RequeueType DEF TypeOK
  <1>3. ASSUME NEW i \in JobIds
        PROVE  /\ Requeue(rank)[i].token = jobs[i].token
               /\ \/ Requeue(rank)[i].state = jobs[i].state
                  \/ jobs[i].state = "retrying" /\ Requeue(rank)[i].state = "queued"
    BY <1>0 DEF Requeue, Due, Job
  <1>4. /\ jobs[id].state \in Unheld
        /\ jobs'[id].state = "running" /\ jobs'[id].token = jobs[id].token
    BY <1>1, <1>2, <1>3 DEF FirstInQueue, Queued, Unheld, Job
  <1>5. ASSUME NEW i \in JobIds \ {id}
        PROVE  jobs'[i] = Requeue(rank)[i]
    BY <1>1, <1>2
  <1>6. /\ Holding' = Holding \cup {w} /\ w \notin Holding
        /\ worker'[w].job = id /\ worker'[w].token = jobs[id].token
        /\ \A v \in Holding : worker'[v] = worker[v]
    <2>1. /\ worker[w].pc = "loop"
          /\ worker' = [NotifiedWorkers EXCEPT
                          ![w] = [pc |-> "selecting", job |-> id,
                                  token |-> jobs[id].token, sleeps |-> {}]]
      BY DEF StartAttempt
    <2> QED BY <1>0, <2>1 DEF Holding, NotifiedWorkers, WorkerRecord
  <1>7. ASSUME NEW v \in Holding
        PROVE  /\ worker[v].job \in JobIds \ {id}
               /\ jobs'[worker[v].job].state = jobs[worker[v].job].state
               /\ jobs'[worker[v].job].token = jobs[worker[v].job].token
    <2>1. worker[v].job \in JobIds \ {id}
      BY <1>4 DEF TypeOK, OwnInv
    <2>2. jobs[worker[v].job].state # "retrying"
      BY DEF OwnInv, Unheld
    <2> QED BY <1>3, <1>5, <2>1, <2>2
  <1>8. cancelled' = cancelled
    BY DEF StartAttempt
  <1>9. \A u, v \in Holding' : worker'[u].job = worker'[v].job => u = v
    BY <1>6, <1>7 DEF OwnInv, AttemptsAreOwned
  <1>10. \A v \in Holding' :
           <<worker'[v].job, worker'[v].token>> \notin cancelled' =>
             /\ jobs'[worker'[v].job].state = "running"
             /\ jobs'[worker'[v].job].token = worker'[v].token
    BY <1>4, <1>6, <1>7, <1>8 DEF OwnInv, AttemptsAreOwned
  <1>11. \A i \in JobIds : jobs'[i].state = "running" =>
            \E v \in Holding' : worker'[v].job = i
    BY <1>3, <1>5, <1>6 DEF OwnInv, AttemptsAreOwned
  <1>12. \A v \in Holding' : jobs'[worker'[v].job].state \notin Unheld
    BY <1>4, <1>6, <1>7 DEF OwnInv, Unheld
  <1> QED BY <1>9, <1>10, <1>11, <1>12 DEF OwnInv, AttemptsAreOwned

\* A completed attempt touches the one job that its worker held alone.
LEMMA CompleteKeepsOwnership ==
    ASSUME TypeOK, OwnInv, NEW w \in Workers, NEW outcome, Complete(w, outcome)
    PROVE  OwnInv'
  <1>0. jobs \in [JobIds -> Job] /\ worker \in [Workers -> WorkerRecord]
    BY DEF TypeOK
  <1> DEFINE id == worker[w].job
  <1>1. /\ w \in Holding /\ Holding' = Holding \ {w}
        /\ \A v \in Holding \ {w} : worker'[v] = worker[v]
    <2>1. /\ w \in Holding
          /\ \/ worker' = [NotifiedWorkers EXCEPT ![w] = Free]
             \/ worker' = [worker EXCEPT ![w] = Free]
      BY DEF Complete, Holding
    <2>2. /\ worker'[w].pc = "loop"
          /\ \A v \in Workers \ {w} :
                \/ worker'[v] = worker[v]
                \/ worker[v].pc = "parked" /\ worker'[v].pc = "loop"
      <3>1. \A v \in Workers :
               \/ NotifiedWorkers[v] = worker[v]
               \/ worker[v].pc = "parked" /\ NotifiedWorkers[v].pc = "loop"
        BY <1>0 DEF NotifiedWorkers, WorkerRecord
      <3>2. worker'[w] = Free
        BY <1>0, <2>1 DEF NotifiedWorkers
      <3>3. \A v \in Workers \ {w} :
               worker'[v] = worker[v] \/ worker'[v] = NotifiedWorkers[v]
        BY <1>0, <2>1 DEF NotifiedWorkers
      <3> QED BY <3>1, <3>2, <3>3 DEF Free
    <2> QED BY <2>1, <2>2 DEF Holding
  <1>2. /\ id \in JobIds
        /\ \A v \in Holding \ {w} : worker[v].job \in JobIds \ {id}
    BY <1>1 DEF TypeOK, OwnInv, AttemptsAreOwned
  <1>3. /\ cancelled \subseteq cancelled'
        /\ \A i \in JobIds \ {id} : jobs'[i] = jobs[i]
        /\ jobs'[id].state # "running"
    <2>1. CASE StillLive(id)
      <3>1. Settle(jobs[id], outcome).state # "running"
        BY <1>0, <1>2 DEF Settle, Finish, Job
      <3> QED BY <1>0, <1>2, <2>1, <3>1 DEF Complete
    <2>2. CASE ~StillLive(id)
      BY <2>2 DEF Complete, StillLive, Live
    <2> QED BY <2>1, <2>2
  <1> QED
    BY <1>1, <1>2, <1>3 DEF OwnInv, AttemptsAreOwned

\* The strengthened invariant is inductive.
LEMMA OwnershipInductive == Spec => []OwnInv
  <1>1. Init => OwnInv
    BY DEF Init, OwnInv, AttemptsAreOwned, Holding, Free, Blank
  <1>2. TypeOK /\ OwnInv /\ [Next]_vars => OwnInv'
    <2> SUFFICES ASSUME TypeOK, OwnInv, [Next]_vars
                 PROVE  OwnInv'
      OBVIOUS
    <2>0. jobs \in [JobIds -> Job]
      BY DEF TypeOK
    <2>1. ASSUME NEW w \in Workers, WorkerStep(w)
          PROVE  OwnInv'
      BY <2>1, WorkerIsQuiet, QuietKeepsOwnership, StartKeepsOwnership,
         CompleteKeepsOwnership DEF WorkerStep
    <2>2. ASSUME NEW id \in JobIds, BackoffElapses(id)
          PROVE  OwnInv'
      <3>1. ASSUME NEW i \in JobIds
            PROVE  QuietChange(i)
        <4>1. jobs'[i] = jobs[i] \/ jobs'[i] = [jobs[i] EXCEPT !.due = TRUE]
          BY <2>0, <2>2 DEF BackoffElapses
        <4> QED BY <2>0, <4>1 DEF QuietChange, Job
      <3>2. QuietStep
        BY <2>2, <3>1 DEF BackoffElapses, QuietStep, HoldersKept, Holding
      <3> QED BY <3>2, QuietKeepsOwnership
    <2>3. CASE ClientStep
      BY <2>3, ClientIsQuiet, QuietKeepsOwnership
    <2>4. ASSUME NEW c \in Waiters, CheckWait(c) \/ AbortClient(c)
          PROVE  OwnInv'
      <3>1. HoldersKept
        BY <2>4, NotifyKeepsHolders
           DEF CheckWait, AbortClient, HoldersKept, Holding
      <3>2. jobs' = jobs /\ cancelled' = cancelled
        BY <2>4 DEF CheckWait, AbortClient
      <3>3. QuietStep
        BY <3>1, <3>2 DEF QuietStep, QuietChange
      <3> QED BY <3>3, QuietKeepsOwnership
    <2>5. CASE Close
      <3>1. ASSUME NEW i \in JobIds
            PROVE  QuietChange(i)
        BY <2>0, <2>5 DEF Close, QuietChange, Finish, Job
      <3>2. QuietStep
        BY <2>5, <3>1, NotifyKeepsHolders DEF Close, Notify, QuietStep
      <3> QED BY <3>2, QuietKeepsOwnership
    <2>6. CASE Clear
      <3>1. Holding' = {}
        BY <2>6 DEF Clear, Holding
      <3>2. \A i \in JobIds : jobs'[i].state # "running"
        BY <2>0, <2>6 DEF Clear, Blank
      <3> QED BY <3>1, <3>2 DEF OwnInv, AttemptsAreOwned
    <2>7. CASE LeaveLoop \/ UNCHANGED vars
      BY <2>7 DEF LeaveLoop, vars, OwnInv, AttemptsAreOwned, Holding
    <2> QED
      BY <2>1, <2>2, <2>3, <2>4, <2>5, <2>6, <2>7 DEF Next, Exited
  <1> QED BY <1>1, <1>2, TypeCorrect, PTL DEF Spec

\* No interleaving of cancellations, retries, releases and supersessions with
\* the attempts that run outside the mutex makes two workers work for one job
\* or lets a worker of an earlier start pass for the current one.
THEOREM Ownership == Spec => []AttemptsAreOwned
  <1>1. OwnInv => AttemptsAreOwned
    BY DEF OwnInv
  <1> QED BY <1>1, OwnershipInductive, PTL

-----------------------------------------------------------------------------
(* The order of the queue. *)

\* Only "next" promotes a job.
LEMMA OnlyNextPromotes ==
    ASSUME TypeOK, [Next]_vars, \A id \in JobIds : ~Promote(id),
           NEW i \in JobIds, jobs'[i].promoted
    PROVE  jobs[i].promoted
  <1>0. jobs \in [JobIds -> Job] /\ jobs[i] \in Job
    BY DEF TypeOK
  <1>1. CASE jobs'[i] = jobs[i]
    BY <1>1
  <1>2. ASSUME NEW w \in Workers, NEW id \in JobIds, StartAttempt(w, id)
        PROVE  jobs[i].promoted
    <2>1. PICK rank \in Bijection(Due, 1..Cardinality(Due)) :
             jobs' = [Requeue(rank) EXCEPT
                        ![id].state = "running", ![id].selected = FALSE,
                        ![id].promoted = FALSE, ![id].attempts = @ + 1]
      BY <1>2 DEF StartAttempt
    <2>2. Requeue(rank) \in [JobIds -> Job]
      BY <1>0, RequeueType DEF TypeOK
    <2>3. Requeue(rank)[i].promoted = jobs[i].promoted
      BY <1>0 DEF Requeue, Job
    <2>4. CASE i = id
      <3> DEFINE entry == Requeue(rank)[i]
      <3>1. jobs'[i] = [entry EXCEPT !.state = "running", !.selected = FALSE,
                                     !.promoted = FALSE, !.attempts = @ + 1]
        BY <2>1, <2>2, <2>4
      <3>2. jobs'[i].promoted = FALSE
        <4>1. entry \in Job
          BY <2>2
        <4> HIDE DEF entry
        <4> QED BY <3>1, <4>1 DEF Job
      <3> QED BY <3>2
    <2>5. CASE i # id
      BY <2>1, <2>2, <2>3, <2>5
    <2> QED BY <2>4, <2>5
  <1>3. ASSUME NEW w \in Workers, Select(w)
        PROVE  jobs[i].promoted
    <2>1. jobs'[i] = jobs[i] \/ jobs'[i] = [jobs[i] EXCEPT !.selected = TRUE]
      BY <1>0, <1>3 DEF Select
    <2> QED BY <1>0, <2>1 DEF Job
  <1>4. ASSUME NEW w \in Workers, NEW outcome, Complete(w, outcome)
        PROVE  jobs[i].promoted
    <2>1. jobs'[i] = jobs[i] \/ jobs'[i] = Settle(jobs[i], outcome)
      BY <1>0, <1>4 DEF Complete
    <2>2. Settle(jobs[i], outcome).promoted = jobs[i].promoted
      BY <1>0 DEF Settle, Finish, Job
    <2> QED BY <2>1, <2>2
  <1>5. ASSUME NEW id \in JobIds, BackoffElapses(id)
        PROVE  jobs[i].promoted
    <2>1. jobs'[i] = jobs[i] \/ jobs'[i] = [jobs[i] EXCEPT !.due = TRUE]
      BY <1>0, <1>5 DEF BackoffElapses
    <2> QED BY <1>0, <2>1 DEF Job
  <1>6. ASSUME NEW state, jobs'[i] = Finish(jobs[i], state)
        PROVE  jobs[i].promoted
    BY <1>0, <1>6 DEF Finish, Job
  <1>7. ASSUME NEW id \in JobIds, NEW request \in Requests, Submit(id, request)
        PROVE  jobs[i].promoted
    <2>1. \/ jobs'[i] = jobs[i]
          \/ jobs'[i] = NewJob(request, sequence')
          \/ jobs'[i] = Finish(jobs[i], "superseded")
      BY <1>0, <1>7 DEF Submit
    <2>2. NewJob(request, sequence').promoted = FALSE
      BY DEF NewJob, Blank
    <2> QED BY <1>6, <2>1, <2>2
  <1>8. ASSUME NEW id \in JobIds, Cancel(id)
        PROVE  jobs[i].promoted
    BY <1>0, <1>6, <1>8 DEF Cancel
  <1>9. ASSUME NEW id \in JobIds, Retry(id)
        PROVE  jobs[i].promoted
    <2>1. Restarted(jobs[i]).promoted = jobs[i].promoted
      BY <1>0 DEF Restarted, Job
    <2> QED BY <1>0, <1>9, <2>1 DEF Retry
  <1>10. ASSUME NEW id \in JobIds, Release(id)
         PROVE  jobs[i].promoted
    BY <1>0, <1>10 DEF Release, Blank
  <1>11. CASE Close
    BY <1>0, <1>6, <1>11 DEF Close
  <1>12. CASE Clear
    BY <1>0, <1>12 DEF Clear, Blank
  <1> QED
    BY <1>1, <1>2, <1>3, <1>4, <1>5, <1>7, <1>8, <1>9, <1>10, <1>11, <1>12
       DEF Next, WorkerStep, StopWorker, Park, SleepEnds, ClientStep,
           StartWait, List, CheckWait, AbortClient, LeaveLoop, Exited, vars

\* The promotion of "next" is never shared by two jobs.
THEOREM SinglePromotion == Spec => []OnePromotion
  <1>1. Init => OnePromotion
    BY DEF Init, OnePromotion, Blank
  <1>2. TypeOK /\ OnePromotion /\ [Next]_vars => OnePromotion'
    <2> SUFFICES ASSUME TypeOK, OnePromotion, [Next]_vars
                 PROVE  OnePromotion'
      OBVIOUS
    <2>1. ASSUME NEW id \in JobIds, Promote(id)
          PROVE  OnePromotion'
      <3>1. \A i \in JobIds :
               jobs'[i] = [jobs[i] EXCEPT !.promoted = (i = id)]
        BY <2>1 DEF Promote
      <3>2. ASSUME NEW i \in JobIds \ {id}
            PROVE  ~jobs'[i].promoted
        <4>1. (i = id) = FALSE
          OBVIOUS
        <4>2. jobs'[i] = [jobs[i] EXCEPT !.promoted = FALSE]
          BY <3>1, <4>1
        <4>3. jobs[i] \in Job
          BY DEF TypeOK
        <4> QED BY <4>2, <4>3 DEF Job
      <3> QED BY <3>2 DEF OnePromotion
    <2>2. CASE \A id \in JobIds : ~Promote(id)
      BY <2>2, OnlyNextPromotes DEF OnePromotion
    <2> QED BY <2>1, <2>2
  <1> QED BY <1>1, <1>2, TypeCorrect, PTL DEF Spec

\* Only a worker that picks a job makes it running.
LEMMA OnlyWorkersStart ==
    ASSUME TypeOK, [Next]_vars, NEW i \in JobIds,
           jobs[i].state # "running", jobs'[i].state = "running"
    PROVE  \E w \in Workers : StartAttempt(w, i)
  <1>0. jobs \in [JobIds -> Job]
    BY DEF TypeOK
  <1>1. ~QuietStep
    BY DEF QuietStep, QuietChange
  <1>2. ASSUME NEW w \in Workers, NEW id \in JobIds, StartAttempt(w, id), id # i
        PROVE  FALSE
    <2>1. PICK rank \in Bijection(Due, 1..Cardinality(Due)) :
             jobs' = [Requeue(rank) EXCEPT
                        ![id].state = "running", ![id].selected = FALSE,
                        ![id].promoted = FALSE, ![id].attempts = @ + 1]
      BY <1>2 DEF StartAttempt
    <2>2. jobs'[i] = Requeue(rank)[i]
      BY <1>2, <2>1 DEF Requeue
    <2> QED BY <1>0, <2>2 DEF Requeue, Job
  <1>3. ASSUME NEW w \in Workers, NEW outcome, Complete(w, outcome)
        PROVE  FALSE
    <2>1. jobs'[i] = jobs[i] \/ jobs'[i] = Settle(jobs[i], outcome)
      BY <1>0, <1>3 DEF Complete
    <2>2. Settle(jobs[i], outcome).state # "running"
      BY <1>0 DEF Settle, Finish, Job
    <2> QED BY <2>1, <2>2
  <1>4. ASSUME NEW id \in JobIds, BackoffElapses(id)
        PROVE  FALSE
    <2>1. jobs'[i] = jobs[i] \/ jobs'[i] = [jobs[i] EXCEPT !.due = TRUE]
      BY <1>0, <1>4 DEF BackoffElapses
    <2> QED BY <1>0, <2>1 DEF Job
  <1>5. CASE Close
    BY <1>0, <1>5 DEF Close, Finish, Job
  <1>6. CASE Clear
    BY <1>0, <1>6 DEF Clear, Blank
  <1>7. jobs' # jobs
    OBVIOUS
  <1> QED
    BY <1>1, <1>2, <1>3, <1>4, <1>5, <1>6, <1>7, WorkerIsQuiet, ClientIsQuiet
       DEF Next, WorkerStep, CheckWait, AbortClient, LeaveLoop, Exited, vars

\* The head of the queue: a background job is picked before an interactive
\* one only when it is promoted, due retries included.
THEOREM ClassOrder == Spec => InteractiveFirst
  <1>1. ASSUME TypeOK, [Next]_vars, NEW id \in JobIds,
               jobs[id].state # "running", jobs'[id].state = "running",
               ~jobs[id].request.interactive, ~jobs[id].promoted,
               NEW other \in (Queued(jobs) \cup Due) \ {id}
        PROVE  ~jobs[other].request.interactive
    <2>0. jobs \in [JobIds -> Job]
      BY <1>1 DEF TypeOK
    <2>1. PICK w \in Workers : StartAttempt(w, id)
      BY <1>1, OnlyWorkersStart
    <2>2. PICK rank \in Bijection(Due, 1..Cardinality(Due)) :
             FirstInQueue(Requeue(rank), id)
      BY <2>1 DEF StartAttempt
    <2>3. \A i \in JobIds : /\ Requeue(rank)[i].request = jobs[i].request
                            /\ Requeue(rank)[i].promoted = jobs[i].promoted
      BY <2>0 DEF Requeue, Job
    <2>4. other \in Queued(Requeue(rank)) \ {id}
      BY <1>1, <2>0 DEF Requeue, Queued, Due, Job
    <2>5. Precedes(Requeue(rank)[id], Requeue(rank)[other])
      BY <2>2, <2>4 DEF FirstInQueue
    <2> QED BY <1>1, <2>3, <2>4, <2>5 DEF Precedes, Queued
  <1>2. TypeOK /\ [Next]_vars =>
          [\A id \in JobIds :
             /\ jobs[id].state # "running" /\ jobs'[id].state = "running"
             /\ ~jobs[id].request.interactive /\ ~jobs[id].promoted
             => \A other \in (Queued(jobs) \cup Due) \ {id} :
                    ~jobs[other].request.interactive]_vars
    BY <1>1
  <1> QED BY <1>2, TypeCorrect, PTL DEF Spec, InteractiveFirst

-----------------------------------------------------------------------------
(* The refinement: what the clients see of a step is a step of             *)
(* JobLifecycle, or nothing.                                               *)

\* What the refinement needs of the shutdown: once close() has run no job is
\* live, and clear() runs when every worker has returned.  An id that submit
\* has not drawn has no request.
LifeInv ==
    /\ ~Reachable => \A id \in JobIds : jobs[id].state \notin Live
    /\ phase = "cleared" => \A w \in Workers : worker[w].pc = "stopped"
    /\ \A id \in JobIds : jobs[id].state = "unused" => jobs[id].request = NoRequest

\* Only serve() changes the phase.
LEMMA WorkerKeepsPhase ==
    ASSUME NEW w \in Workers, WorkerStep(w)
    PROVE  phase' = phase
  BY DEF WorkerStep, StopWorker, StartAttempt, Park, SleepEnds, Select, Complete

LEMMA ClientKeepsPhase ==
    ASSUME ClientStep
    PROVE  phase' = phase
  BY DEF ClientStep, Submit, Cancel, Retry, Promote, Release, StartWait, List

\* After close() no step revives a job, and after clear() no worker runs.
LEMMA LifeStep == TypeOK /\ LifeInv /\ [Next]_vars => LifeInv'
  <1> SUFFICES ASSUME TypeOK, LifeInv, [Next]_vars
               PROVE  LifeInv'
    OBVIOUS
  <1>0. /\ jobs \in [JobIds -> Job] /\ worker \in [Workers -> WorkerRecord]
        /\ \A w \in Holding : worker[w].job \in JobIds
    BY DEF TypeOK
  <1>1. ASSUME NEW i \in JobIds, jobs'[i].state = "unused"
        PROVE  jobs'[i].request = NoRequest
    <2>1. JobChange(jobs[i], jobs'[i])
      BY StepChange
    <2>2. CASE JobKept(jobs[i], jobs'[i])
      BY <1>1, <2>2 DEF LifeInv, JobKept, Unmoved
    <2>3. CASE JobAccepted(jobs[i], jobs'[i])
      BY <1>1, <2>3 DEF JobAccepted, NewJob, Blank
    <2>4. CASE JobSettled(jobs[i], jobs'[i])
      BY <1>0, <1>1, <2>4 DEF JobSettled, Settle, Finish, Job
    <2>5. CASE JobSuperseded(jobs[i], jobs'[i]) \/ JobCancelled(jobs[i], jobs'[i])
      BY <1>0, <1>1, <2>5 DEF JobSuperseded, JobCancelled, Finish, Job
    <2>6. CASE JobRetried(jobs[i], jobs'[i])
      BY <1>0, <1>1, <2>6 DEF JobRetried, Restarted, Job
    <2>7. CASE JobForgotten(jobs[i], jobs'[i])
      BY <2>7 DEF JobForgotten, Blank
    <2> QED BY <1>1, <2>1, <2>2, <2>3, <2>4, <2>5, <2>6, <2>7
            DEF JobChange, JobMove, JobRequeued, JobStarted
  <1>2. CASE Reachable'
    BY <1>1, <1>2 DEF LifeInv, Reachable
  <1>3. CASE Close
    <2>1. \A i \in JobIds : jobs'[i].state \notin Live
      BY <1>0, <1>3 DEF Close, Finish, Job, Live
    <2> QED BY <1>1, <1>3, <2>1 DEF LifeInv, Close
  <1>4. CASE Clear
    <2>1. \A i \in JobIds : jobs'[i].state \notin Live
      BY <1>4 DEF Clear, Blank, Live
    <2> QED BY <1>1, <1>4, <2>1 DEF LifeInv, Clear
  <1>5. CASE ~Reachable /\ phase' = phase /\ ~Close /\ ~Clear
    <2>1. jobs' = jobs /\ (phase = "cleared" => \A w \in Workers : worker'[w].pc = "stopped")
      <3>1. ASSUME NEW w \in Workers, WorkerStep(w)
            PROVE  /\ jobs' = jobs
                   /\ phase # "cleared"
        <4>1. worker[w].pc # "stopped"
          BY <3>1 DEF WorkerStep, StopWorker, StartAttempt, Park, SleepEnds,
                      Select, Complete
        <4>2. phase # "cleared"
          BY <4>1 DEF LifeInv
        <4>3. phase = "closed"
          BY <1>5, <4>2 DEF TypeOK, Reachable
        <4>4. worker[w].pc \in {"selecting", "inferring", "abandoned"}
                => ~StillLive(worker[w].job)
          BY <1>0, <1>5 DEF LifeInv, StillLive, Holding
        <4>5. jobs' = jobs
          <5>1. CASE StopWorker(w) \/ Park(w) \/ SleepEnds(w)
            BY <5>1 DEF StopWorker, Park, SleepEnds
          <5>2. CASE \E id \in JobIds : StartAttempt(w, id)
            BY <4>3, <5>2 DEF StartAttempt
          <5>3. CASE Select(w)
            BY <4>4, <5>3 DEF Select, Selectable
          <5>4. ASSUME NEW outcome, Complete(w, outcome)
                PROVE  jobs' = jobs
            BY <4>4, <5>4 DEF Complete
          <5> QED BY <3>1, <5>1, <5>2, <5>3, <5>4 DEF WorkerStep
        <4> QED BY <4>2, <4>5
      <3>2. ASSUME NEW id \in JobIds, BackoffElapses(id)
            PROVE  FALSE
        BY <1>5, <3>2 DEF BackoffElapses, LifeInv, Live
      <3>3. ~ClientStep
        BY <1>5 DEF ClientStep, Submit, Cancel, Retry, Promote, Release,
                    StartWait, List
      <3>4. ASSUME NEW c \in Waiters, CheckWait(c) \/ AbortClient(c)
            PROVE  /\ jobs' = jobs
                   /\ worker' = worker \/ worker' = NotifiedWorkers
        BY <3>4 DEF CheckWait, AbortClient
      <3>5. CASE LeaveLoop \/ UNCHANGED vars
        BY <1>5, <3>5 DEF LeaveLoop, Reachable, vars, LifeInv
      <3>6. phase = "cleared" /\ worker' = NotifiedWorkers
              => \A w \in Workers : worker'[w].pc = "stopped"
        BY DEF LifeInv, NotifiedWorkers
      <3>7. phase = "cleared" => \A w \in Workers : worker[w].pc = "stopped"
        BY DEF LifeInv
      <3> QED
        BY <1>5, <3>1, <3>2, <3>3, <3>4, <3>5, <3>6, <3>7 DEF Next, Exited
    <2> QED BY <1>1, <1>5, <2>1 DEF LifeInv
  <1>6. phase' = phase \/ LeaveLoop \/ Close \/ Clear
    BY WorkerKeepsPhase, ClientKeepsPhase
       DEF Next, BackoffElapses, CheckWait, AbortClient, Exited, vars
  <1> QED
    BY <1>2, <1>3, <1>4, <1>5, <1>6 DEF LeaveLoop, Reachable

\* The instance of JobLifecycle counts as this module does.
LEMMA SameCardinality == \A S : Lifecycle!Cardinality(S) = Cardinality(S)
  BY DEF Cardinality, Lifecycle!Cardinality

\* Nothing that the clients see changed.
LEMMA Unseen ==
    ASSUME phase' = phase \/ (Reachable /\ Reachable'),
           revisions' = revisions,
           \A i \in JobIds : /\ Visible(jobs'[i].state) = Visible(jobs[i].state)
                             /\ jobs'[i].request = jobs[i].request
    PROVE  UNCHANGED Lifecycle!jobVars
  BY DEF Lifecycle!jobVars, Reachable

\* One job moved from one visible state to another.
LEMMA OneMoves ==
    ASSUME Reachable, phase' = phase, revisions' = revisions,
           NEW id \in JobIds, NEW from, NEW to,
           Visible(jobs[id].state) \in from,
           Visible(jobs'[id].state) = to,
           \A i \in JobIds \ {id} : Visible(jobs'[i].state) = Visible(jobs[i].state),
           \A i \in JobIds : jobs'[i].request = jobs[i].request
    PROVE  Lifecycle!Move(id, from, to)
  BY DEF Lifecycle!Move, Reachable

\* A worker that may start an attempt is not one of those that hold a job, so
\* fewer jobs run than there are workers.
LEMMA RoomToRun ==
    ASSUME TypeOK, OwnInv, NEW w \in Workers, worker[w].pc = "loop"
    PROVE  Cardinality({i \in JobIds : jobs[i].state = "running"})
             < Cardinality(Workers)
  <1> DEFINE running == {i \in JobIds : jobs[i].state = "running"}
             holder == [i \in running |-> CHOOSE v \in Holding : worker[v].job = i]
  <1>1. IsFiniteSet(Workers) /\ Holding \subseteq Workers \ {w}
    BY BrokerAssumption DEF Holding
  <1>2. ASSUME NEW i \in running
        PROVE  holder[i] \in Holding /\ worker[holder[i]].job = i
    <2>1. \E v \in Holding : worker[v].job = i
      BY DEF OwnInv, AttemptsAreOwned
    <2> QED BY <2>1
  <1>3. holder \in Injection(running, Holding)
    <2>1. holder \in [running -> Holding]
      BY <1>2
    <2>2. \A a, b \in running : holder[a] = holder[b] => a = b
      BY <1>2
    <2> HIDE DEF holder, running
    <2> QED BY <2>1, <2>2 DEF Injection, IsInjective
  <1>4. IsFiniteSet(Holding) /\ IsFiniteSet(Workers \ {w})
    BY <1>1, FS_Subset, FS_RemoveElement
  <1>5. IsFiniteSet(running) /\ Cardinality(running) <= Cardinality(Holding)
    <2> HIDE DEF holder, running
    <2> QED BY <1>3, <1>4, FS_Injection
  <1>6. Cardinality(Holding) <= Cardinality(Workers \ {w})
    BY <1>1, <1>4, FS_Subset
  <1>7. Cardinality(Workers \ {w}) = Cardinality(Workers) - 1
    BY <1>1, FS_RemoveElement
  <1>8. /\ Cardinality(running) \in Nat /\ Cardinality(Holding) \in Nat
        /\ Cardinality(Workers) \in Nat
    BY <1>1, <1>4, <1>5, FS_CardinalityType
  <1> HIDE DEF running
  <1>9. Cardinality(running) < Cardinality(Workers)
    BY <1>5, <1>6, <1>7, <1>8
  <1> QED BY <1>9 DEF running

\* A worker that starts an attempt begins a pending job.
LEMMA StartBegins ==
    ASSUME TypeOK, OwnInv, LifeInv, NEW w \in Workers, NEW id \in JobIds,
           StartAttempt(w, id)
    PROVE  Lifecycle!Begin(id)
  <1>0. /\ jobs \in [JobIds -> Job] /\ worker[w].pc = "loop"
        /\ revisions' = revisions /\ phase' = phase
    BY DEF TypeOK, StartAttempt
  <1>1. PICK rank \in Bijection(Due, 1..Cardinality(Due)) :
           /\ FirstInQueue(Requeue(rank), id)
           /\ jobs' = [Requeue(rank) EXCEPT
                         ![id].state = "running", ![id].selected = FALSE,
                         ![id].promoted = FALSE, ![id].attempts = @ + 1]
    BY DEF StartAttempt
  <1>2. Requeue(rank) \in [JobIds -> Job]
    BY <1>0, RequeueType DEF TypeOK
  <1>3. ASSUME NEW i \in JobIds
        PROVE  /\ Requeue(rank)[i].request = jobs[i].request
               /\ \/ Requeue(rank)[i].state = jobs[i].state
                  \/ jobs[i].state = "retrying" /\ Requeue(rank)[i].state = "queued"
    BY <1>0 DEF Requeue, Due, Job
  <1>4. /\ Visible(jobs[id].state) = "pending"
        /\ jobs'[id].state = "running"
    BY <1>1, <1>2, <1>3 DEF FirstInQueue, Queued, Visible, Job
  <1>5. ASSUME NEW i \in JobIds
        PROVE  /\ jobs'[i].request = jobs[i].request
               /\ i # id => Visible(jobs'[i].state) = Visible(jobs[i].state)
    <2>1. CASE i = id
      BY <1>1, <1>2, <1>3, <2>1 DEF Job
    <2>2. CASE i # id
      <3>1. jobs'[i] = Requeue(rank)[i]
        BY <1>1, <1>2, <2>2
      <3> QED BY <1>3, <2>2, <3>1 DEF Visible
    <2> QED BY <2>1, <2>2
  <1>6. Reachable
    BY DEF TypeOK, StartAttempt, LifeInv, Reachable
  <1>7. Lifecycle!Move(id, {"pending"}, "running")
    <2>1. Visible(jobs[id].state) \in {"pending"} /\ Visible(jobs'[id].state) = "running"
      BY <1>4 DEF Visible
    <2> QED BY <1>0, <1>5, <1>6, <2>1, OneMoves
  <1>8. {i \in JobIds : [k \in JobIds |-> Visible(jobs[k].state)][i] = "running"}
          = {i \in JobIds : jobs[i].state = "running"}
    BY DEF Visible
  <1>9. Cardinality({i \in JobIds :
                       [k \in JobIds |-> Visible(jobs[k].state)][i] = "running"})
          < Cardinality(Workers)
    BY <1>0, <1>8, RoomToRun
  <1> QED BY <1>7, <1>9, SameCardinality DEF Lifecycle!Begin

\* The outcome of an attempt yields or ends the running job, or is dropped.
LEMMA CompleteEnds ==
    ASSUME TypeOK, OwnInv, LifeInv, NEW w \in Workers, NEW outcome,
           Complete(w, outcome)
    PROVE  Lifecycle!BrokerStep \/ UNCHANGED Lifecycle!jobVars
  <1> DEFINE id == worker[w].job
  <1>0. /\ jobs \in [JobIds -> Job] /\ id \in JobIds
        /\ jobs[id].state \notin Unheld
        /\ revisions' = revisions /\ phase' = phase
    BY DEF TypeOK, OwnInv, Complete, Holding
  <1>1. CASE ~StillLive(id)
    <2>1. jobs' = jobs
      BY <1>1 DEF Complete
    <2> QED BY <1>0, <2>1, Unseen
  <1>2. CASE StillLive(id)
    <2>1. Reachable /\ jobs[id].state = "running"
      BY <1>0, <1>2 DEF StillLive, LifeInv, Live, Unheld
    <2>2. jobs' = [jobs EXCEPT ![id] = Settle(jobs[id], outcome)]
      BY <1>2 DEF Complete
    <2>3. /\ Settle(jobs[id], outcome).state \in {"succeeded", "failed", "retrying"}
          /\ Settle(jobs[id], outcome).request = jobs[id].request
      BY <1>0 DEF Settle, Finish, Job
    <2>4. /\ \A i \in JobIds \ {id} : Visible(jobs'[i].state) = Visible(jobs[i].state)
          /\ \A i \in JobIds : jobs'[i].request = jobs[i].request
      BY <1>0, <2>2, <2>3
    <2>5. Visible(jobs'[id].state) \in {"succeeded", "failed", "pending"}
      BY <1>0, <2>2, <2>3 DEF Visible
    <2>6. Lifecycle!Move(id, {"running"}, Visible(jobs'[id].state))
      <3>1. Visible(jobs[id].state) \in {"running"}
        BY <2>1 DEF Visible
      <3> HIDE DEF id
      <3> QED BY <1>0, <2>1, <2>4, <3>1, OneMoves
    <2>7. Lifecycle!Yield(id) \/ Lifecycle!End(id)
      <3> HIDE DEF id
      <3> QED BY <2>5, <2>6 DEF Lifecycle!Yield, Lifecycle!End
    <2> QED BY <1>0, <2>7 DEF Lifecycle!BrokerStep
  <1> QED BY <1>1, <1>2

\* A step of a worker is a step of the broker's own in the life of jobs.
LEMMA WorkerRefines ==
    ASSUME TypeOK, OwnInv, LifeInv, NEW w \in Workers, WorkerStep(w)
    PROVE  Lifecycle!BrokerStep \/ UNCHANGED Lifecycle!jobVars
  <1>0. /\ jobs \in [JobIds -> Job]
        /\ \A v \in Holding : worker[v].job \in JobIds
    BY DEF TypeOK
  <1>1. CASE StopWorker(w) \/ Park(w) \/ SleepEnds(w)
    <2>1. jobs' = jobs /\ revisions' = revisions /\ phase' = phase
      BY <1>1 DEF StopWorker, Park, SleepEnds
    <2> QED BY <2>1, Unseen
  <1>2. ASSUME NEW id \in JobIds, StartAttempt(w, id)
        PROVE  Lifecycle!BrokerStep
    BY <1>2, StartBegins DEF Lifecycle!BrokerStep
  <1>3. CASE Select(w)
    <2>1. /\ revisions' = revisions /\ phase' = phase
          /\ \/ jobs' = jobs
             \/ jobs' = [jobs EXCEPT ![worker[w].job].selected = TRUE]
      BY <1>3 DEF Select
    <2>2. \A i \in JobIds : /\ jobs'[i].state = jobs[i].state
                            /\ jobs'[i].request = jobs[i].request
      BY <1>0, <2>1 DEF Job
    <2> QED BY <2>1, <2>2, Unseen
  <1>4. ASSUME NEW outcome, Complete(w, outcome)
        PROVE  Lifecycle!BrokerStep \/ UNCHANGED Lifecycle!jobVars
    BY <1>4, CompleteEnds
  <1> QED BY <1>1, <1>2, <1>3, <1>4 DEF WorkerStep

\* A submission is accepted as JobLifecycle accepts it.
LEMMA SubmitAccepts ==
    ASSUME TypeOK, LifeInv, NEW id \in JobIds, NEW r \in Requests, Submit(id, r)
    PROVE  Lifecycle!Accept(id, r)
  <1>0. /\ jobs \in [JobIds -> Job] /\ revisions \in [Keys -> Nat]
        /\ Reachable /\ phase' = phase /\ jobs[id].state = "unused"
    BY DEF TypeOK, Submit
  <1>1. Lifecycle!Table = InTable
    <2>1. ASSUME NEW i \in JobIds
          PROVE  Visible(jobs[i].state) \in Lifecycle!TableStates
                   <=> jobs[i].state \in Retained
      <3>1. CASE jobs[i].state \in {"queued", "retrying"}
        BY <3>1 DEF Lifecycle!TableStates, Lifecycle!LiveStates, Visible,
                    Retained, Live
      <3>2. CASE jobs[i].state \notin {"queued", "retrying"}
        <4>1. Visible(jobs[i].state) = jobs[i].state /\ jobs[i].state \in JobStates
          BY <1>0, <3>2 DEF Visible, Job
        <4> QED BY <3>2, <4>1
                DEF Lifecycle!TableStates, Lifecycle!LiveStates, JobStates,
                    Lifecycle!FinalStates, Retained, Live, Terminal
      <3> QED BY <3>1, <3>2
    <2> QED BY <2>1 DEF Lifecycle!Table, InTable
  <1>2. \A key : Lifecycle!SameKey(key) = SameItem(key)
    BY <1>1 DEF Lifecycle!SameKey, SameItem, InTable
  <1>3. Lifecycle!Fresh(r)
    BY DEF Submit, Lifecycle!Fresh
  <1>4. ASSUME NEW i \in JobIds
        PROVE  jobs'[i] = IF i = id THEN NewJob(r, sequence')
                          ELSE IF r.key # NoKey /\ i \in SameItem(r.key)
                               THEN Finish(jobs[i], "superseded")
                               ELSE jobs[i]
    BY <1>0 DEF Submit
  <1>5. /\ NewJob(r, sequence').state = "queued"
        /\ NewJob(r, sequence').request = r
    BY DEF NewJob, Blank
  <1>6. ASSUME NEW i \in JobIds
        PROVE  /\ Finish(jobs[i], "superseded").state = "superseded"
               /\ Finish(jobs[i], "superseded").request = jobs[i].request
    BY <1>0 DEF Finish, Job
  <1>7. [i \in JobIds |-> Visible(jobs'[i].state)] =
          [i \in JobIds |->
             IF i = id THEN "pending"
             ELSE IF r.key # NoKey /\ i \in SameItem(r.key)
                  THEN "superseded"
                  ELSE Visible(jobs[i].state)]
    BY <1>4, <1>5, <1>6 DEF Visible
  <1>8. [i \in JobIds |-> [key |-> jobs'[i].request.key,
                           revision |-> jobs'[i].request.revision]] =
          [[i \in JobIds |-> [key |-> jobs[i].request.key,
                              revision |-> jobs[i].request.revision]]
             EXCEPT ![id] = [key |-> r.key, revision |-> r.revision]]
    <2>1. ASSUME NEW i \in JobIds
          PROVE  jobs'[i].request = IF i = id THEN r ELSE jobs[i].request
      BY <1>4, <1>5, <1>6
    <2> QED BY <2>1
  <1>9. revisions' = [k \in Keys |-> IF k = r.key THEN r.revision ELSE revisions[k]]
    BY <1>0, BrokerAssumption DEF Submit
  <1>10. Lifecycle!Cardinality(Lifecycle!Table) < Capacity
    BY <1>1, SameCardinality DEF Submit
  <1>11. [k \in JobIds |-> Visible(jobs[k].state)][id] = "unused"
    BY <1>0 DEF Visible
  <1>12. [i \in JobIds |-> Visible(jobs'[i].state)] =
           [i \in JobIds |->
              IF i = id THEN "pending"
              ELSE IF r.key # NoKey /\ i \in Lifecycle!SameKey(r.key)
                   THEN "superseded"
                   ELSE [k \in JobIds |-> Visible(jobs[k].state)][i]]
    BY <1>2, <1>7
  <1>13. /\ phase \in {"serving", "leaving"}
         /\ (phase' \in {"serving", "leaving"}) = (phase \in {"serving", "leaving"})
    BY <1>0 DEF Reachable
  <1> QED
    BY <1>3, <1>8, <1>9, <1>10, <1>11, <1>12, <1>13 DEF Lifecycle!Accept

\* A call of a client is the same call of JobLifecycle, or does not show.
LEMMA ClientRefines ==
    ASSUME TypeOK, LifeInv, ClientStep
    PROVE  Lifecycle!JobNext \/ UNCHANGED Lifecycle!jobVars
  <1>0. jobs \in [JobIds -> Job]
    BY DEF TypeOK
  <1>1. ASSUME NEW id \in JobIds, NEW r \in Requests, Submit(id, r)
        PROVE  Lifecycle!JobNext
    BY <1>1, SubmitAccepts DEF Lifecycle!JobNext
  <1>2. ASSUME NEW id \in JobIds, Cancel(id)
        PROVE  Lifecycle!JobNext
    <2>1. /\ Reachable /\ phase' = phase /\ revisions' = revisions
          /\ Visible(jobs[id].state) \in Lifecycle!LiveStates
          /\ Visible(jobs'[id].state) = "cancelled"
          /\ \A i \in JobIds \ {id} : Visible(jobs'[i].state) = Visible(jobs[i].state)
          /\ \A i \in JobIds : jobs'[i].request = jobs[i].request
      BY <1>0, <1>2 DEF Cancel, Finish, Job, Live, Visible, Lifecycle!LiveStates
    <2>2. Lifecycle!CancelJob(id)
      BY <2>1, OneMoves DEF Lifecycle!CancelJob
    <2> QED BY <2>2 DEF Lifecycle!JobNext
  <1>3. ASSUME NEW id \in JobIds, Retry(id)
        PROVE  Lifecycle!JobNext
    <2>0. /\ Restarted(jobs[id]).state = "queued"
          /\ Restarted(jobs[id]).request = jobs[id].request
      BY <1>0 DEF Restarted, Job
    <2>1. /\ Reachable /\ phase' = phase /\ revisions' = revisions
          /\ Visible(jobs[id].state) \in {"failed"}
          /\ Visible(jobs'[id].state) = "pending"
          /\ \A i \in JobIds \ {id} : Visible(jobs'[i].state) = Visible(jobs[i].state)
          /\ \A i \in JobIds : jobs'[i].request = jobs[i].request
      BY <1>0, <1>3, <2>0 DEF Retry, Visible
    <2>2. Lifecycle!RetryJob(id)
      BY <2>1, OneMoves DEF Lifecycle!RetryJob
    <2> QED BY <2>2 DEF Lifecycle!JobNext
  <1>4. ASSUME NEW id \in JobIds, Promote(id)
        PROVE  UNCHANGED Lifecycle!jobVars
    <2>1. ASSUME NEW i \in JobIds
          PROVE  jobs'[i].state = jobs[i].state /\ jobs'[i].request = jobs[i].request
      <3>1. jobs'[i] = [jobs[i] EXCEPT !.promoted = (i = id)]
        BY <1>4 DEF Promote
      <3> QED BY <1>0, <3>1 DEF Job
    <2> QED BY <1>4, <2>1, Unseen DEF Promote
  <1>5. ASSUME NEW id \in JobIds, Release(id)
        PROVE  Lifecycle!JobNext
    <2>1. /\ Reachable /\ phase' = phase /\ revisions' = revisions
          /\ jobs[id].state \in Terminal
          /\ jobs' = [jobs EXCEPT ![id] = Blank("released")]
      BY <1>5 DEF Release
    <2>2. Lifecycle!ReleaseJob(id)
      BY <1>0, <2>1
         DEF Lifecycle!ReleaseJob, Lifecycle!FinalStates, Lifecycle!Nothing,
             Terminal, Visible, Blank, NoRequest, Reachable
    <2> QED BY <2>2 DEF Lifecycle!JobNext
  <1>6. ASSUME NEW id \in JobIds, NEW c \in Waiters, StartWait(c, id)
        PROVE  UNCHANGED Lifecycle!jobVars
    BY <1>6, Unseen DEF StartWait
  <1>7. CASE List
    BY <1>7, Unseen DEF List
  <1> QED
    BY <1>1, <1>2, <1>3, <1>4, <1>5, <1>6, <1>7 DEF ClientStep

\* close() shuts the table.
LEMMA CloseShuts ==
    ASSUME TypeOK, Close
    PROVE  Lifecycle!Shut
  <1>0. jobs \in [JobIds -> Job]
    BY DEF TypeOK
  <1>1. ASSUME NEW i \in JobIds
        PROVE  /\ jobs'[i].request = jobs[i].request
               /\ Visible(jobs'[i].state) =
                    IF Visible(jobs[i].state) \in Lifecycle!LiveStates
                    THEN "cancelled" ELSE Visible(jobs[i].state)
    <2>1. jobs'[i] = IF jobs[i].state \in Live
                     THEN Finish(jobs[i], "cancelled") ELSE jobs[i]
      BY DEF Close
    <2>2. /\ Finish(jobs[i], "cancelled").state = "cancelled"
          /\ Finish(jobs[i], "cancelled").request = jobs[i].request
      BY <1>0 DEF Finish, Job
    <2>3. CASE jobs[i].state \in Live
      BY <2>1, <2>2, <2>3 DEF Visible, Live, Lifecycle!LiveStates
    <2>4. CASE jobs[i].state \notin Live
      <3>1. Visible(jobs[i].state) = jobs[i].state
        BY <2>4 DEF Visible, Live
      <3>2. jobs[i].state \notin Lifecycle!LiveStates
        BY <1>0, <2>4
           DEF Job, JobStates, Retained, Terminal, Live, Lifecycle!LiveStates
      <3> QED BY <2>1, <2>4, <3>1, <3>2
    <2> QED BY <2>3, <2>4
  <1>2. phase = "leaving" /\ phase' = "closed" /\ revisions' = revisions
    BY DEF Close
  <1> QED BY <1>1, <1>2 DEF Lifecycle!Shut

\* clear() empties the table.
LEMMA ClearVanishes ==
    ASSUME TypeOK, LifeInv, Clear
    PROVE  Lifecycle!Vanish
  <1>1. ASSUME NEW i \in JobIds
        PROVE  /\ Visible(jobs'[i].state) =
                    IF Visible(jobs[i].state) = "unused" THEN "unused" ELSE "released"
               /\ jobs'[i].request = NoRequest
    <2>1. jobs'[i] = IF jobs[i].state = "unused" THEN jobs[i] ELSE Blank("released")
      BY DEF Clear
    <2> QED BY <2>1 DEF Visible, Blank, LifeInv
  <1>2. phase' = "cleared" /\ revisions' = [k \in Keys |-> 0]
    BY DEF Clear
  <1> QED BY <1>1, <1>2 DEF Lifecycle!Vanish, Lifecycle!Nothing, NoRequest

\* Every step of the broker is a step of JobLifecycle or does not show.
LEMMA StepRefines ==
    TypeOK /\ OwnInv /\ LifeInv /\ [Next]_vars
      => [Lifecycle!JobNext]_Lifecycle!jobVars
  <1> SUFFICES ASSUME TypeOK, OwnInv, LifeInv, [Next]_vars
               PROVE  Lifecycle!JobNext \/ UNCHANGED Lifecycle!jobVars
    OBVIOUS
  <1>0. jobs \in [JobIds -> Job]
    BY DEF TypeOK
  <1>1. ASSUME NEW w \in Workers, WorkerStep(w)
        PROVE  Lifecycle!JobNext \/ UNCHANGED Lifecycle!jobVars
    BY <1>1, WorkerRefines DEF Lifecycle!JobNext
  <1>2. ASSUME NEW id \in JobIds, BackoffElapses(id)
        PROVE  UNCHANGED Lifecycle!jobVars
    <2>1. \A i \in JobIds : /\ jobs'[i].state = jobs[i].state
                            /\ jobs'[i].request = jobs[i].request
      BY <1>0, <1>2 DEF BackoffElapses, Job
    <2> QED BY <1>2, <2>1, Unseen DEF BackoffElapses
  <1>3. CASE ClientStep
    BY <1>3, ClientRefines
  <1>4. ASSUME NEW c \in Waiters, CheckWait(c) \/ AbortClient(c)
        PROVE  UNCHANGED Lifecycle!jobVars
    BY <1>4, Unseen DEF CheckWait, AbortClient
  <1>5. CASE LeaveLoop
    BY <1>5, Unseen DEF LeaveLoop, Reachable
  <1>6. CASE Close
    BY <1>6, CloseShuts DEF Lifecycle!JobNext
  <1>7. CASE Clear
    BY <1>7, ClearVanishes DEF Lifecycle!JobNext
  <1>8. CASE UNCHANGED vars
    BY <1>8, Unseen DEF vars
  <1> QED
    BY <1>1, <1>2, <1>3, <1>4, <1>5, <1>6, <1>7, <1>8 DEF Next, Exited

\* Init shows as the empty table that JobLifecycle starts with.
LEMMA InitRefines == Init => Lifecycle!JobInit
  BY DEF Init, Blank, NoRequest, Visible, Lifecycle!JobInit, Lifecycle!Nothing

\* What submit, cancel, retry, release and status show of the scheduler is the
\* life of jobs that JobLifecycle promises: attempts, backoffs, promotions and
\* tokens stay its own affair, and at most as many jobs run as it has workers.
THEOREM Refinement == Spec => ImplementsLifecycle
  <1>1. Init => LifeInv
    BY DEF Init, LifeInv, Reachable, Blank
  <1> QED
    BY <1>1, LifeStep, InitRefines, StepRefines, TypeCorrect, OwnershipInductive,
       PTL DEF Spec, ImplementsLifecycle, Lifecycle!JobSpec

=============================================================================
