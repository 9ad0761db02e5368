------------------------------ MODULE BrokerRpc ------------------------------
(***************************************************************************)
(* Exchanges with the broker: rpc() of projects/runtime/src/wire.rs on the *)
(* client's side, connection() of projects/broker/src/transport.rs on the  *)
(* broker's, and the broker as JobLifecycle describes it.                  *)
(*                                                                         *)
(* Each exchange is a connection of its own that carries one request and   *)
(* one answer.  A request that was written is handled when the broker      *)
(* comes to it, even after the peer stopped waiting for the answer; an     *)
(* answer is read, or lost.  The epoch that clients send back with a job   *)
(* id is part of the id: ids are UUIDs, so an id of an earlier epoch is an *)
(* id that the broker does not know.                                       *)
(***************************************************************************)
EXTENDS JobLifecycle

CONSTANTS
    Peers,        \* the threads and programs that talk to the broker
    NoJob,        \* a peer without a job
    Silence,      \* no exchange, no answer
    MaxCalls,     \* bound: calls (a submission and what follows) of a peer
    MaxRestarts   \* bound: how often the broker starts again

ASSUME RpcAssumption ==
    /\ NoJob \notin JobIds
    /\ MaxCalls \in Nat \ {0}
    /\ MaxRestarts \in Nat

VARIABLES
    awaiting,  \* the exchange whose answer each peer waits for
    sent,      \* the exchanges whose request the broker has not handled
    answer,    \* the answer each peer has not read yet
    lost,      \* the calls that missed the answer of an exchange but wait
    owner,     \* the calls whose submission made each job
    revived,   \* jobs the user retried
    restarts   \* times the broker was started again

rpcVars == <<jobVars, awaiting, sent, answer, lost, owner, revived, restarts>>

Operations == {"submit", "wait", "cancel", "status", "release"}

\* A call makes each kind of exchange once, so this names the connection.
Exchange(p, n, op, id, asked) ==
    [from |-> p, call |-> n, op |-> op, job |-> id, asked |-> asked]

Exchanges ==
    [from : Peers, call : 1..MaxCalls, op : Operations,
     job : JobIds \cup {NoJob}, asked : Requests \cup {Nothing}]

Codes == TableStates \cup {"accepted", "refused", "ok", "invalid_state",
                           "unknown_job"}

CallOf(m) == <<m.from, m.call>>

Answers == [code : Codes, job : JobIds \cup {NoJob}]

\* No exchange and no answer is neither.
ASSUME SilenceAssumption == Silence \notin Exchanges /\ Silence \notin Answers

-----------------------------------------------------------------------------
(* A peer's side. *)

\* Connect, write the request and start to wait.
Send(p, m) ==
    /\ awaiting' = [awaiting EXCEPT ![p] = m]
    /\ sent' = sent \cup {m}
    /\ answer' = [answer EXCEPT ![p] = Silence]

\* The peer is done with its exchange and starts no other.
HangUp(p) ==
    /\ awaiting' = [awaiting EXCEPT ![p] = Silence]
    /\ answer' = [answer EXCEPT ![p] = Silence]
    /\ UNCHANGED sent

\* The deadline of the exchange may pass at any time, and its connection may
\* be refused or break.
Waits(p, op) == awaiting[p] # Silence /\ awaiting[p].op = op

Heard(p, op) == Waits(p, op) /\ answer[p] # Silence

\* What a peer that gave up had written may still be handled, or is gone.
DropRequest(m) ==
    /\ m \in sent
    /\ \A p \in Peers : awaiting[p] # m
    /\ sent' = sent \ {m}
    /\ UNCHANGED <<jobVars, awaiting, answer, lost, owner, revived, restarts>>

-----------------------------------------------------------------------------
(* The broker handles one request. *)

Handle(m, code, id) ==
    /\ sent' = sent \ {m}
    /\ answer' = IF awaiting[m.from] = m
                 THEN [answer EXCEPT ![m.from] = [code |-> code, job |-> id]]
                 ELSE answer
    /\ UNCHANGED <<awaiting, lost, revived, restarts>>

HandleSubmit(m) ==
    \/ \E id \in JobIds :
          /\ Accept(id, m.asked)
          /\ owner' = [owner EXCEPT ![id] = {CallOf(m)}]
          /\ Handle(m, "accepted", id)
    \/ /\ ~Fresh(m.asked) \/ Cardinality(Table) >= Capacity
       /\ Handle(m, "refused", NoJob)
       /\ UNCHANGED <<jobVars, owner>>

HandleWait(m) ==
    /\ \/ /\ m.job \in Table
          /\ state[m.job] \in FinalStates
          /\ Handle(m, state[m.job], m.job)
       \/ m.job \notin Table /\ Handle(m, "unknown_job", NoJob)
    /\ UNCHANGED <<jobVars, owner>>

HandleCancel(m) ==
    /\ \/ CancelJob(m.job) /\ Handle(m, "ok", m.job)
       \/ /\ state[m.job] \in FinalStates
          /\ Handle(m, "invalid_state", NoJob) /\ UNCHANGED jobVars
       \/ /\ m.job \notin Table
          /\ Handle(m, "unknown_job", NoJob) /\ UNCHANGED jobVars
    /\ UNCHANGED owner

HandleStatus(m) ==
    /\ Handle(m, IF m.job \in Table THEN state[m.job] ELSE "unknown_job", m.job)
    /\ UNCHANGED <<jobVars, owner>>

HandleRelease(m) ==
    /\ \/ ReleaseJob(m.job) /\ Handle(m, "ok", m.job)
       \/ /\ state[m.job] \in LiveStates
          /\ Handle(m, "invalid_state", NoJob) /\ UNCHANGED jobVars
       \/ /\ m.job \notin Table
          /\ Handle(m, "unknown_job", NoJob) /\ UNCHANGED jobVars
    /\ UNCHANGED owner

HandleRequest(m) ==
    /\ open
    /\ m \in sent
    /\ \/ m.op = "submit" /\ HandleSubmit(m)
       \/ m.op = "wait" /\ HandleWait(m)
       \/ m.op = "cancel" /\ HandleCancel(m)
       \/ m.op = "status" /\ HandleStatus(m)
       \/ m.op = "release" /\ HandleRelease(m)

\* The broker works, stops or dies, and its socket starts it again.
BrokerMoves ==
    /\ BrokerStep \/ Shut \/ Vanish
    /\ UNCHANGED <<awaiting, sent, answer, lost, owner, revived, restarts>>

BrokerStarts ==
    /\ ~open
    /\ Table = {}
    /\ restarts < MaxRestarts
    /\ open' = TRUE
    /\ restarts' = restarts + 1
    /\ UNCHANGED <<state, request, watermark, awaiting, sent, answer, lost,
                   owner, revived>>

\* The Activity panel offers cancel for a live job, retry and dismiss for a
\* failed one.  Each job is retried at most once.
UserActs ==
    /\ \E id \in JobIds :
          \/ CancelJob(id) /\ UNCHANGED revived
          \/ /\ id \notin revived
             /\ RetryJob(id)
             /\ revived' = revived \cup {id}
          \/ state[id] = "failed" /\ ReleaseJob(id) /\ UNCHANGED revived
    /\ UNCHANGED <<awaiting, sent, answer, lost, owner, restarts>>

RpcInit ==
    /\ JobInit
    /\ awaiting = [p \in Peers |-> Silence]
    /\ sent = {}
    /\ answer = [p \in Peers |-> Silence]
    /\ lost = {}
    /\ owner = [id \in JobIds |-> {}]
    /\ revived = {}
    /\ restarts = 0

\* Everything but the peers' own steps.
RpcNext ==
    \/ \E m \in sent : HandleRequest(m) \/ DropRequest(m)
    \/ BrokerMoves
    \/ BrokerStarts
    \/ UserActs

=============================================================================
