---------------------------- MODULE ClientProofs ----------------------------
(***************************************************************************)
(* What the clients of the broker keep true: the programs that call it     *)
(* through projects/runtime/src/inference.rs, and the analyses of          *)
(* projects/maintenance/src/service.rs, both at once.                      *)
(*                                                                         *)
(* Both rest on one invariant of the exchanges (RpcInv): what a peer was   *)
(* told about its job stays true until it is done with it, and whoever     *)
(* made a job sees to it, or lost an answer, or nothing of it is left.     *)
(***************************************************************************)
EXTENDS Clients, TLAPS

-----------------------------------------------------------------------------
(* Jobs, as a client may know them. *)

\* A job that ended this way still has that end, unless a newer revision took
\* its place, it was released, or the user revived a failure.
Over(id, code) ==
    \/ state[id] \in {code, "superseded", "released"}
    \/ code = "failed" /\ id \in revived

\* A job that ended is not live again, unless the user revived it.
Ended(id) == state[id] \in FinalStates \cup {"released"} \/ id \in revived

\* A job that ended without a failure is never one.
NotFailed(id) == state[id] \in {"succeeded", "cancelled", "superseded", "released"}

\* Nothing of a job is left but a failure, or what others made of it.
Left(id) == state[id] \in {"failed", "superseded", "released"} \/ id \in revived

Known(id) == id \in JobIds /\ state[id] # "unused"

-----------------------------------------------------------------------------
(* The exchanges. *)

\* An exchange that was begun: only a submission is about no job.  A release
\* follows the end of its job, unless an answer of the call was lost.
Begun(m) ==
    /\ m \in Exchanges
    /\ m.op # "submit" => Known(m.job)
    /\ m.op = "release" /\ CallOf(m) \notin lost => Ended(m.job)

\* What the answer to an exchange says is true, and stays so.
Holds(m, said) ==
    /\ m.op = "submit" => /\ said.code \in {"accepted", "refused"}
                          /\ said.code = "accepted" => Known(said.job)
    /\ m.op = "wait" => said.code \in FinalStates \cup {"unknown_job"}
    /\ m.op = "status" => said.code \in TableStates \cup {"unknown_job"}
    /\ m.op \in {"cancel", "release"} =>
         said.code \in {"ok", "invalid_state", "unknown_job"}
    /\ m.op \in {"wait", "status"} /\ said.code \in FinalStates
         => Over(m.job, said.code)
    /\ m.op = "cancel" /\ said.code = "ok" => NotFailed(m.job)
    /\ m.op = "cancel" => Ended(m.job)
    /\ m.op = "release" /\ said.code = "ok" => state[m.job] = "released"
    /\ m.op = "release" /\ said.code = "invalid_state" /\ CallOf(m) \notin lost
         => m.job \in revived
    /\ m.op # "submit" /\ said.code = "unknown_job" => state[m.job] = "released"

\* A submission that may still be handled is the first of its call.
Pending(m) ==
    /\ awaiting[m.from] = m /\ answer[m.from] = Silence
    /\ \A id \in JobIds : CallOf(m) \notin owner[id]

\* A peer that made a job has heard of it and still sees to it, or nothing of
\* the job is left.
SeenTo(p, n, id) ==
    \/ /\ awaiting[p] # Silence /\ awaiting[p].call = n
       /\ IF awaiting[p].op = "submit"
            THEN answer[p] # Silence /\ answer[p].code = "accepted" /\ answer[p].job = id
            ELSE awaiting[p].job = id
    \/ Left(id)

JobsInv ==
    /\ state \in [JobIds -> TableStates \cup {"unused", "released"}]
    /\ owner = [id \in JobIds |-> owner[id]]
    /\ \A id \in JobIds : state[id] = "unused" <=> owner[id] = {}

ExchangesInv ==
    /\ awaiting = [p \in Peers |-> awaiting[p]] /\ answer = [p \in Peers |-> answer[p]]
    /\ \A p \in Peers :
         /\ awaiting[p] # Silence => awaiting[p].from = p /\ Begun(awaiting[p])
         /\ answer[p] # Silence => awaiting[p] # Silence /\ Holds(awaiting[p], answer[p])
    /\ \A m \in sent :
         /\ Begun(m)
         /\ m.op = "submit" /\ CallOf(m) \notin lost => Pending(m)

OwnersInv ==
    \A id \in JobIds : \A c \in owner[id] :
        /\ c = <<c[1], c[2]>> /\ c[1] \in Peers
        /\ c \in lost \/ SeenTo(c[1], c[2], id)

\* The inductive invariant of the exchanges with the broker.
RpcInv == JobsInv /\ ExchangesInv /\ OwnersInv

-----------------------------------------------------------------------------
(* The call of a program. *)

CallerInv(p) ==
    /\ call[p] = [pc |-> call[p].pc, job |-> call[p].job, verdict |-> call[p].verdict]
    /\ call[p].pc \in Operations \cup {"idle", "done"}
    /\ call[p].pc \in {"idle", "done"} <=> awaiting[p] = Silence
    /\ call[p].pc = "idle" =>
         <<p, 1>> \notin lost /\ \A id \in JobIds : <<p, 1>> \notin owner[id]
    /\ call[p].pc \in {"idle", "submit"} => call[p].verdict = "unavailable"
    /\ awaiting[p] # Silence =>
         /\ awaiting[p].op = call[p].pc /\ awaiting[p].call = 1
         /\ awaiting[p].op # "submit" => awaiting[p].job = call[p].job
    /\ call[p].pc = "status" =>
         /\ Ended(call[p].job)
         /\ answer[p] # Silence /\ answer[p].code \in LiveStates => call[p].job \in revived
    /\ call[p].pc = "release" => NotFailed(call[p].job)
    /\ call[p].verdict \in FinalStates =>
         Known(call[p].job) /\ Over(call[p].job, call[p].verdict)

\* The programs' calls, whatever other clients do.
CallInv ==
    /\ RpcInv
    /\ call = [p \in Callers |-> call[p]]
    /\ \A p \in Callers : CallerInv(p)
    /\ \A m \in sent : m.from \in Callers =>
         m.call = 1 /\ (m.op = "release" => NotFailed(m.job))
    /\ \A id \in JobIds : \A c \in owner[id] : c[1] \in Callers => c[2] = 1

-----------------------------------------------------------------------------
(* The analysis of a finding. *)

TaskInv(r) ==
    /\ task[r] = [pc |-> task[r].pc, revision |-> task[r].revision,
                  job |-> task[r].job, failed |-> task[r].failed]
    /\ task[r].pc \in {"idle", "starting", "calling", "finishing"}
    /\ task[r].pc = "calling" <=> awaiting[r] # Silence
    /\ awaiting[r] # Silence =>
         /\ awaiting[r].call = calls[r]
         /\ awaiting[r].op # "submit" => awaiting[r].job = task[r].job
    /\ calls[r] \in 0..MaxCalls
    /\ task[r].pc # "idle" =>
         calls[r] # 0 /\ task[r].revision \in 1..row[r].revision

RowInv(r) ==
    /\ row[r] = [revision |-> row[r].revision, active |-> row[r].active]
    /\ row[r].revision \in 1..MaxRevision /\ row[r].active \in BOOLEAN
    /\ analysis[r] # 0 => row[r].active /\ analysis[r] \in 1..row[r].revision

\* A call that this row makes, or made before the one that starts.
CallMade(c) ==
    /\ c[1] \in Rows /\ c[2] \in Nat /\ c[2] <= calls[c[1]]
    /\ task[c[1]].pc = "starting" => c[2] < calls[c[1]]

\* The analyses, whatever other clients do.
AnalysisInv ==
    /\ RpcInv
    /\ task = [r \in Rows |-> task[r]] /\ row = [r \in Rows |-> row[r]]
    /\ calls = [r \in Rows |-> calls[r]] /\ analysis = [r \in Rows |-> analysis[r]]
    /\ \A r \in Rows : TaskInv(r) /\ RowInv(r)
    /\ \A m \in sent : m.from \in Rows => CallMade(CallOf(m))
    /\ \A id \in JobIds : \A c \in owner[id] : c[1] \in Rows => CallMade(c)

\* Only programs and analyses talk to the broker.
OnlyClients ==
    /\ \A m \in sent : m.from \in Callers \cup Rows
    /\ \A id \in JobIds : \A c \in owner[id] : c[1] \in Callers \cup Rows

\* The inductive invariant of the clients.
ClientsInv == CallInv /\ AnalysisInv /\ OnlyClients

-----------------------------------------------------------------------------
(* How a step of the broker, of its user or of its end moves a job. *)

AllStates == TableStates \cup {"unused", "released"}

MoveOf(id) ==
    \/ state'[id] = state[id]
    \/ state[id] = "unused" /\ state'[id] = "pending"
    \/ state[id] \in LiveStates /\ state'[id] \in TableStates \cup {"released"}
    \/ state[id] \in FinalStates /\ state'[id] \in {"superseded", "released"}
    \/ state[id] = "failed" /\ state'[id] = "pending" /\ id \in revived'

JobsMove ==
    /\ state' \in [JobIds -> AllStates]
    /\ revived \subseteq revived'
    /\ \A id \in JobIds : MoveOf(id)

\* What a client knows of a job stays true.
LEMMA KnowledgeStays ==
    ASSUME JobsMove, NEW id \in JobIds
    PROVE  /\ \A code \in FinalStates : Over(id, code) => Over(id, code)'
           /\ Ended(id) => Ended(id)'
           /\ NotFailed(id) => NotFailed(id)'
           /\ Left(id) => Left(id)'
           /\ Known(id) => Known(id)'
           /\ state[id] = "released" => state'[id] = "released"
  <1>1. MoveOf(id) /\ (id \in revived => id \in revived')
    BY DEF JobsMove
  <1> QED BY <1>1 DEF MoveOf, Over, Ended, NotFailed, Left, Known, LiveStates,
             FinalStates, TableStates

LEMMA AcceptMoves ==
    ASSUME JobsInv, UNCHANGED revived, NEW id \in JobIds, NEW r, Accept(id, r)
    PROVE  /\ JobsMove
           /\ state'[id] = "pending" /\ state[id] = "unused"
           /\ \A other \in JobIds \ {id} : state'[other] = "unused" <=> state[other] = "unused"
  <1>1. /\ state \in [JobIds -> AllStates] /\ state[id] = "unused"
        /\ state' = [other \in JobIds |->
                       IF other = id THEN "pending"
                       ELSE IF r.key # NoKey /\ other \in SameKey(r.key)
                            THEN "superseded" ELSE state[other]]
    BY DEF JobsInv, Accept, AllStates
  <1>2. ASSUME NEW other \in JobIds
        PROVE  /\ state'[other] \in AllStates
               /\ MoveOf(other)
               /\ other # id => (state'[other] = "unused" <=> state[other] = "unused")
    <2>1. CASE other = id
      BY <1>1, <2>1 DEF MoveOf, AllStates, TableStates, LiveStates
    <2>2. CASE other # id /\ state'[other] = state[other]
      BY <1>1, <2>2 DEF MoveOf
    <2>3. CASE other # id /\ state'[other] = "superseded" /\ other \in Table
      BY <1>1, <2>3 DEF MoveOf, Table, AllStates, TableStates, LiveStates, FinalStates
    <2> QED BY <1>1, <2>1, <2>2, <2>3 DEF SameKey
  <1>3. state' \in [JobIds -> AllStates]
    BY <1>1, <1>2
  <1> QED BY <1>1, <1>2, <1>3 DEF JobsMove

\* Nothing but a submission takes an id that was not used.
LEMMA OthersMove ==
    ASSUME JobsInv, revived \subseteq revived',
           \/ \E id \in JobIds :
                CancelJob(id) \/ ReleaseJob(id) \/ (RetryJob(id) /\ id \in revived')
           \/ BrokerStep \/ Shut \/ Vanish \/ UNCHANGED state
    PROVE  /\ JobsMove
           /\ \A id \in JobIds : state'[id] = "unused" <=> state[id] = "unused"
  <1>1. state \in [JobIds -> AllStates]
    BY DEF JobsInv, AllStates
  <1>2. ASSUME NEW id \in JobIds, NEW to,
               state' = [state EXCEPT ![id] = to], to \in AllStates \ {"unused"},
               state[id] # "unused",
               \/ state[id] \in LiveStates
               \/ state[id] \in FinalStates /\ to \in {"superseded", "released"}
               \/ state[id] = "failed" /\ to = "pending" /\ id \in revived'
        PROVE  /\ JobsMove
               /\ \A other \in JobIds :
                    state'[other] = "unused" <=> state[other] = "unused"
    <2>1. state' \in [JobIds -> AllStates]
      BY <1>1, <1>2
    <2>2. MoveOf(id)
      BY <1>1, <1>2 DEF MoveOf, AllStates, TableStates
    <2>3. \A other \in JobIds \ {id} : state'[other] = state[other]
      BY <1>1, <1>2
    <2>4. \A other \in JobIds : MoveOf(other)
      BY <2>2, <2>3 DEF MoveOf
    <2> QED BY <1>1, <1>2, <2>1, <2>3, <2>4 DEF JobsMove
  <1>3. CASE \E id \in JobIds : CancelJob(id)
    BY <1>2, <1>3 DEF CancelJob, Move, AllStates, TableStates, LiveStates, FinalStates
  <1>4. CASE \E id \in JobIds : ReleaseJob(id)
    BY <1>2, <1>4 DEF ReleaseJob, AllStates, TableStates, FinalStates
  <1>5. CASE \E id \in JobIds : RetryJob(id) /\ id \in revived'
    BY <1>2, <1>5 DEF RetryJob, Move, AllStates, TableStates, LiveStates
  <1>6. CASE BrokerStep
    <2>1. PICK id \in JobIds : Begin(id) \/ Yield(id) \/ End(id)
      BY <1>6 DEF BrokerStep
    <2>2. PICK to \in {"pending", "running", "succeeded", "failed"} :
             state[id] \in LiveStates /\ state' = [state EXCEPT ![id] = to]
      BY <2>1 DEF Begin, Yield, End, Move, LiveStates
    <2> QED BY <1>2, <2>2 DEF AllStates, TableStates, LiveStates, FinalStates
  <1>7. CASE Shut
    <2>1. \A id \in JobIds : state'[id] = IF state[id] \in LiveStates
                                          THEN "cancelled" ELSE state[id]
      BY <1>7 DEF Shut
    <2>2. state' \in [JobIds -> AllStates]
      BY <1>1, <1>7, <2>1 DEF Shut, AllStates, TableStates, FinalStates
    <2> QED BY <1>1, <2>1, <2>2
            DEF JobsMove, MoveOf, LiveStates, TableStates, FinalStates
  <1>8. CASE Vanish
    <2>1. \A id \in JobIds : state'[id] = IF state[id] = "unused"
                                          THEN "unused" ELSE "released"
      BY <1>8 DEF Vanish
    <2>2. state' \in [JobIds -> AllStates]
      BY <1>8, <2>1 DEF Vanish, AllStates
    <2>3. \A id \in JobIds : MoveOf(id)
      BY <1>1, <2>1 DEF MoveOf, AllStates, TableStates
    <2> QED BY <2>1, <2>2, <2>3 DEF JobsMove
  <1>9. CASE UNCHANGED state
    BY <1>1, <1>9 DEF JobsMove, MoveOf
  <1> QED BY <1>3, <1>4, <1>5, <1>6, <1>7, <1>8, <1>9

-----------------------------------------------------------------------------
(* The broker answers. *)

\* What an exchange said, or was begun about, stays true.
LEMMA ExchangeStays ==
    ASSUME JobsMove, lost \subseteq lost', NEW m
    PROVE  /\ Begun(m) => Begun(m)'
           /\ \A said : Begun(m) /\ Holds(m, said) => Holds(m, said)'
  <1>1. Begun(m) => Begun(m)'
    BY KnowledgeStays DEF Begun, Known
  <1>2. ASSUME NEW said, Begun(m), Holds(m, said)
        PROVE  Holds(m, said)'
    <2>1. m.op # "submit" => m.job \in JobIds
      BY <1>2 DEF Begun, Known
    <2>2. m.op = "submit" /\ said.code = "accepted" => Known(said.job)'
      BY <1>2, KnowledgeStays DEF Holds, Known
    <2>3. m.op # "submit" =>
            /\ \A code \in FinalStates : Over(m.job, code) => Over(m.job, code)'
            /\ Ended(m.job) => Ended(m.job)'
            /\ NotFailed(m.job) => NotFailed(m.job)'
            /\ state[m.job] = "released" => state'[m.job] = "released"
      BY <2>1, KnowledgeStays
    <2>4. revived \subseteq revived'
      BY DEF JobsMove
    <2> QED BY <1>2, <2>2, <2>3, <2>4 DEF Holds
  <1> QED BY <1>1, <1>2

\* A step of the broker: requests are handled or lost, and those who still wait
\* for one that was handled hear of it.
BrokerSide ==
    /\ JobsInv' /\ JobsMove
    /\ awaiting' = awaiting /\ lost' = lost /\ sent' \subseteq sent
    /\ answer' = [p \in Peers |-> answer'[p]]
    /\ \A p \in Peers :
          \/ answer'[p] = answer[p]
          \/ /\ awaiting[p] \in sent \ sent'
             /\ answer'[p] # Silence /\ Holds(awaiting[p], answer[p])'
    /\ \A n \in sent' : n.op = "submit" /\ CallOf(n) \notin lost =>
          \A id \in JobIds : CallOf(n) \notin owner'[id]

LEMMA NoSilence ==
    ASSUME NEW m, m \in Exchanges
    PROVE  /\ m # Silence /\ m.from \in Peers /\ m.op \in Operations
           /\ m.job \in JobIds \cup {NoJob}
  BY SilenceAssumption DEF Exchanges

LEMMA ExchangesKeep ==
    ASSUME RpcInv, BrokerSide
    PROVE  ExchangesInv'
  <1>1. ExchangesInv
    BY DEF RpcInv
  <1>2. ASSUME NEW p \in Peers
        PROVE  /\ awaiting'[p] # Silence => awaiting'[p].from = p /\ Begun(awaiting[p])'
               /\ answer'[p] # Silence =>
                    awaiting'[p] # Silence /\ Holds(awaiting[p], answer[p])'
    <2>0. PICK m : m = awaiting[p]
      OBVIOUS
    <2>1. awaiting'[p] = m
      BY <2>0 DEF BrokerSide
    <2>2. m # Silence => m.from = p /\ Begun(m)
      BY <1>1, <2>0 DEF ExchangesInv
    <2>3. lost \subseteq lost' /\ JobsMove
      BY DEF BrokerSide
    <2>4. m \in sent => m # Silence
      BY <1>1, NoSilence DEF ExchangesInv, Begun
    <2>5. answer[p] # Silence => m # Silence /\ Holds(m, answer[p])
      BY <1>1, <2>0 DEF ExchangesInv
    <2>6. \/ answer'[p] = answer[p]
          \/ m \in sent \ sent' /\ Holds(awaiting[p], answer[p])'
      BY <2>0 DEF BrokerSide
    <2>7. Begun(m) => Begun(m)'
      BY <2>3, ExchangeStays
    <2>8. ASSUME answer'[p] # Silence
          PROVE  m # Silence /\ Holds(awaiting[p], answer[p])'
      <3>1. CASE answer'[p] = answer[p]
        <4>1. PICK said : said = answer[p]
          OBVIOUS
        <4>2. m # Silence /\ Begun(m) /\ Holds(m, said)
          BY <2>2, <2>5, <2>8, <3>1, <4>1
        <4>3. Holds(m, said)'
          BY <2>3, <4>2, ExchangeStays
        <4>4. awaiting'[p] = m /\ answer'[p] = said
          BY <2>1, <3>1, <4>1
        <4>5. Holds(awaiting[p], answer[p])'
          BY <4>3, <4>4
        <4> QED BY <4>2, <4>5
      <3>2. CASE m \in sent \ sent' /\ Holds(awaiting[p], answer[p])'
        BY <2>4, <3>2
      <3> QED BY <2>6, <3>1, <3>2
    <2>9. m # Silence => Begun(awaiting[p])'
      BY <2>1, <2>2, <2>7
    <2> QED BY <2>1, <2>2, <2>8, <2>9
  <1>3. ASSUME NEW m \in sent'
        PROVE  /\ Begun(m)'
               /\ m.op = "submit" /\ CallOf(m) \notin lost' => Pending(m)'
    <2>1. /\ m \in sent /\ lost' = lost /\ JobsMove /\ awaiting' = awaiting
      BY <1>3 DEF BrokerSide
    <2>2. Begun(m)
      BY <1>1, <2>1 DEF ExchangesInv
    <2>3. Begun(m)'
      BY <2>1, <2>2, ExchangeStays
    <2>4. ASSUME m.op = "submit", CallOf(m) \notin lost
          PROVE  Pending(m)'
      <3>1. awaiting[m.from] = m /\ answer[m.from] = Silence
        BY <1>1, <2>1, <2>4 DEF ExchangesInv, Pending
      <3>2. m.from \in Peers
        BY <2>2, NoSilence DEF Begun
      <3>3. answer'[m.from] = answer[m.from]
        BY <1>3, <3>1, <3>2 DEF BrokerSide
      <3>4. \A id \in JobIds : CallOf(m) \notin owner'[id]
        BY <1>3, <2>4 DEF BrokerSide
      <3>5. CallOf(m)' = CallOf(m)
        BY DEF CallOf
      <3> QED BY <2>1, <3>1, <3>3, <3>4, <3>5 DEF Pending
    <2>5. CallOf(m)' = CallOf(m)
      BY DEF CallOf
    <2> QED BY <2>1, <2>3, <2>4
  <1>4. awaiting' = [p \in Peers |-> awaiting'[p]]
    BY <1>1 DEF BrokerSide, ExchangesInv
  <1>5. answer' = [p \in Peers |-> answer'[p]]
    BY DEF BrokerSide
  <1> QED BY <1>2, <1>3, <1>4, <1>5 DEF ExchangesInv

\* Those who made a job go on to see to it.
LEMMA OwnerKeeps ==
    ASSUME RpcInv, BrokerSide, NEW id \in JobIds, NEW c \in owner[id]
    PROVE  /\ c = <<c[1], c[2]>> /\ c[1] \in Peers
           /\ c \in lost' \/ SeenTo(c[1], c[2], id)'
  <1> DEFINE p == c[1]
             n == c[2]
  <1>1. c = <<p, n>> /\ p \in Peers /\ (c \in lost \/ SeenTo(p, n, id))
    BY DEF RpcInv, OwnersInv
  <1>2. lost' = lost /\ awaiting' = awaiting /\ JobsMove
    BY DEF BrokerSide
  <1> HIDE DEF p, n
  <1>3. Left(id) => Left(id)'
    BY <1>2, KnowledgeStays
  <1>4. ASSUME awaiting[p] # Silence, awaiting[p].call = n, awaiting[p].op = "submit",
               answer[p] # Silence, c \notin lost
        PROVE  answer'[p] = answer[p]
    <2>1. awaiting[p].from = p
      BY <1>1, <1>4 DEF RpcInv, ExchangesInv
    <2>2. CallOf(awaiting[p]) = c
      BY <1>1, <1>4, <2>1 DEF CallOf
    <2>3. awaiting[p] \notin sent
      BY <1>4, <2>1, <2>2 DEF RpcInv, ExchangesInv, Pending
    <2> QED BY <1>1, <2>3 DEF BrokerSide
  <1>5. c \in lost' \/ SeenTo(p, n, id)'
    BY <1>1, <1>2, <1>3, <1>4 DEF SeenTo
  <1> QED BY <1>1, <1>5 DEF p, n

LEMMA BrokerSideKeeps ==
    ASSUME RpcInv, BrokerSide, owner' = owner
    PROVE  RpcInv'
  <1>1. ExchangesInv'
    BY ExchangesKeep
  <1>2. OwnersInv'
    BY OwnerKeeps DEF OwnersInv
  <1> QED BY <1>1, <1>2 DEF RpcInv, BrokerSide

\* One request is handled: its peer hears of it, if it still waits.
LEMMA HandleSide ==
    ASSUME RpcInv, NEW m \in sent, NEW code \in Codes, NEW id \in JobIds \cup {NoJob},
           Handle(m, code, id), JobsInv', JobsMove,
           Holds(m, [code |-> code, job |-> id])',
           m.op # "submit" => owner' = owner,
           \A n \in sent \ {m} : n.op = "submit" /\ CallOf(n) \notin lost =>
              \A other \in JobIds : CallOf(n) \notin owner'[other]
    PROVE  BrokerSide
  <1> DEFINE said == [code |-> code, job |-> id]
  <1>1. /\ awaiting' = awaiting /\ lost' = lost /\ sent' = sent \ {m}
        /\ answer' = IF awaiting[m.from] = m THEN [answer EXCEPT ![m.from] = said]
                     ELSE answer
    BY DEF Handle
  <1>2. said # Silence
    <2>1. said \in Answers
      BY DEF Answers
    <2> HIDE DEF said
    <2> QED BY <2>1, SilenceAssumption
  <1>3. Holds(m, said)'
    OBVIOUS
  <1> HIDE DEF said
  <1>4. answer = [p \in Peers |-> answer[p]]
    BY DEF RpcInv, ExchangesInv
  <1>5. answer' = [p \in Peers |-> answer'[p]]
    BY <1>1, <1>4
  <1>6. ASSUME NEW p \in Peers, answer'[p] # answer[p]
        PROVE  /\ awaiting[p] \in sent \ sent'
               /\ answer'[p] # Silence /\ Holds(awaiting[p], answer[p])'
    <2>1. p = m.from /\ awaiting[p] = m /\ answer'[p] = said
      BY <1>1, <1>4, <1>6
    <2>2. awaiting'[p] = m
      BY <1>1, <2>1
    <2>3. Holds(awaiting[p], answer[p])'
      BY <1>3, <2>1, <2>2 DEF said
    <2> QED BY <1>1, <1>2, <2>1, <2>3
  <1> QED BY <1>1, <1>5, <1>6 DEF BrokerSide

LEMMA NothingOwned ==
    ASSUME RpcInv, NEW m \in sent, m.op = "submit", CallOf(m) \notin lost,
           NEW id \in JobIds
    PROVE  CallOf(m) \notin owner[id]
  BY DEF RpcInv, ExchangesInv, Pending

\* A submission that is accepted makes a job of its call, which has none.
LEMMA SubmitKeeps ==
    ASSUME RpcInv, NEW m \in sent, m.op = "submit", HandleSubmit(m)
    PROVE  RpcInv' /\ BrokerSide
  <1>0. JobsInv
    BY DEF RpcInv
  <1>1. CASE \E id \in JobIds :
               /\ Accept(id, m.asked)
               /\ owner' = [owner EXCEPT ![id] = {CallOf(m)}]
               /\ Handle(m, "accepted", id)
    <2>1. PICK id \in JobIds :
               /\ Accept(id, m.asked)
               /\ owner' = [owner EXCEPT ![id] = {CallOf(m)}]
               /\ Handle(m, "accepted", id)
      BY <1>1
    <2>2. UNCHANGED <<awaiting, lost, revived>>
      BY <2>1 DEF Handle
    <2>3. PICK asked : asked = m.asked
      OBVIOUS
    <2>4. /\ JobsMove /\ state'[id] = "pending" /\ state[id] = "unused"
          /\ \A other \in JobIds \ {id} :
                state'[other] = "unused" <=> state[other] = "unused"
      BY <1>0, <2>1, <2>2, <2>3, AcceptMoves
    <2>5. /\ owner' = [other \in JobIds |-> owner'[other]]
          /\ owner'[id] = {CallOf(m)}
          /\ \A other \in JobIds \ {id} : owner'[other] = owner[other]
      BY <1>0, <2>1 DEF JobsInv
    <2>6. JobsInv'
      <3>1. state' \in [JobIds -> TableStates \cup {"unused", "released"}]
        BY <2>4 DEF JobsMove, AllStates
      <3>2. \A other \in JobIds : state'[other] = "unused" <=> owner'[other] = {}
        BY <1>0, <2>4, <2>5 DEF JobsInv
      <3> QED BY <2>5, <3>1, <3>2 DEF JobsInv
    <2>7. Holds(m, [code |-> "accepted", job |-> id])'
      BY <2>4 DEF Holds, Known
    <2>8. ASSUME NEW n \in sent \ {m}, n.op = "submit", CallOf(n) \notin lost,
                 NEW other \in JobIds
          PROVE  CallOf(n) \notin owner'[other]
      <3>1. CallOf(n) \notin owner[other]
        BY <2>8, NothingOwned
      <3>2. ASSUME CallOf(n) = CallOf(m)
            PROVE  FALSE
        <4>1. n.from = m.from
          BY <3>2 DEF CallOf
        <4>2. awaiting[n.from] = n /\ awaiting[m.from] = m
          BY <2>8, <3>2 DEF RpcInv, ExchangesInv, Pending
        <4> QED BY <2>8, <4>1, <4>2
      <3> QED BY <2>5, <3>1, <3>2
    <2>9. "accepted" \in Codes
      BY DEF Codes
    <2>10. BrokerSide
      BY <2>1, <2>4, <2>6, <2>7, <2>8, <2>9, HandleSide
    <2>11. ASSUME NEW other \in JobIds, NEW c \in owner'[other]
           PROVE  /\ c = <<c[1], c[2]>> /\ c[1] \in Peers
                  /\ c \in lost' \/ SeenTo(c[1], c[2], other)'
      <3>1. CASE c \in owner[other]
        BY <2>10, <3>1, OwnerKeeps
      <3>2. CASE other = id /\ c = CallOf(m)
        <4>1. m.from \in Peers /\ c = <<m.from, m.call>>
          BY <3>2, NoSilence DEF RpcInv, ExchangesInv, Begun, CallOf
        <4>2. ASSUME c \notin lost
              PROVE  SeenTo(c[1], c[2], other)'
          <5>1. awaiting[m.from] = m /\ m # Silence
            BY <3>2, <4>2, NoSilence DEF RpcInv, ExchangesInv, Pending, Begun
          <5>2. answer' = [answer EXCEPT ![m.from] = [code |-> "accepted", job |-> id]]
            BY <2>1, <5>1 DEF Handle
          <5>3. answer'[m.from] = [code |-> "accepted", job |-> id]
            BY <4>1, <5>2 DEF RpcInv, ExchangesInv
          <5>4. answer'[m.from] # Silence
            <6>1. [code |-> "accepted", job |-> id] \in Answers
              BY <2>9 DEF Answers
            <6> QED BY <5>3, <6>1, SilenceAssumption
          <5>5. awaiting'[m.from] = m
            BY <2>2, <5>1
          <5> QED BY <3>2, <4>1, <5>1, <5>3, <5>4, <5>5 DEF SeenTo
        <4> QED BY <2>2, <4>1, <4>2
      <3> QED BY <2>5, <2>11, <3>1, <3>2
    <2>12. OwnersInv'
      BY <2>11 DEF OwnersInv
    <2>13. ExchangesInv'
      BY <2>10, ExchangesKeep
    <2> QED BY <2>6, <2>10, <2>12, <2>13 DEF RpcInv
  <1>2. CASE Handle(m, "refused", NoJob) /\ UNCHANGED <<jobVars, owner>>
    <2>1. UNCHANGED <<state, revived, owner>>
      BY <1>2 DEF Handle, jobVars
    <2>2. JobsMove /\ JobsInv'
      BY <1>0, <2>1, OthersMove DEF JobsInv
    <2>3. Holds(m, [code |-> "refused", job |-> NoJob])'
      BY DEF Holds
    <2>4. "refused" \in Codes
      BY DEF Codes
    <2>5. \A n \in sent \ {m} : n.op = "submit" /\ CallOf(n) \notin lost =>
              \A other \in JobIds : CallOf(n) \notin owner'[other]
      BY <2>1, NothingOwned
    <2>6. BrokerSide
      BY <1>2, <2>2, <2>3, <2>4, <2>5, HandleSide
    <2> QED BY <2>1, <2>6, BrokerSideKeeps
  <1> QED BY <1>1, <1>2 DEF HandleSubmit

\* Every other request is about a job that was made.
LEMMA OtherRequestKeeps ==
    ASSUME RpcInv, NEW m \in sent, m.op # "submit", NEW code \in Codes,
           NEW id \in JobIds \cup {NoJob}, Handle(m, code, id), owner' = owner,
           \/ UNCHANGED jobVars \/ CancelJob(m.job) \/ ReleaseJob(m.job),
           Holds(m, [code |-> code, job |-> id])'
    PROVE  RpcInv' /\ BrokerSide
  <1>1. m.job \in JobIds /\ JobsInv
    BY DEF RpcInv, ExchangesInv, Begun, Known
  <1>2. UNCHANGED revived
    BY DEF Handle
  <1>3. /\ JobsMove
        /\ \A other \in JobIds : state'[other] = "unused" <=> state[other] = "unused"
    BY <1>1, <1>2, OthersMove DEF jobVars
  <1>4. JobsInv'
    BY <1>1, <1>3 DEF JobsMove, JobsInv, AllStates
  <1>5. \A n \in sent \ {m} : n.op = "submit" /\ CallOf(n) \notin lost =>
              \A other \in JobIds : CallOf(n) \notin owner'[other]
    BY NothingOwned
  <1>6. BrokerSide
    BY <1>3, <1>4, <1>5, HandleSide
  <1> QED BY <1>6, BrokerSideKeeps

LEMMA RequestKeeps ==
    ASSUME RpcInv, NEW m \in sent, HandleRequest(m)
    PROVE  RpcInv' /\ BrokerSide
  <1>0. /\ m.op \in Operations /\ Begun(m) /\ JobsInv
        /\ m.op # "submit" => m.job \in JobIds /\ state[m.job] # "unused"
    BY NoSilence DEF RpcInv, ExchangesInv, Begun, Known
  <1>1. CASE m.op = "submit"
    BY <1>1, SubmitKeeps DEF HandleRequest
  <1>2. ASSUME m.op # "submit", m.job \notin Table
        PROVE  state[m.job] = "released"
    BY <1>0, <1>2 DEF Table, JobsInv
  <1>3. CASE m.op = "wait"
    <2>1. HandleWait(m)
      BY <1>3 DEF HandleRequest
    <2>2. CASE /\ m.job \in Table /\ state[m.job] \in FinalStates
               /\ Handle(m, state[m.job], m.job)
      <3>1. PICK code : code = state[m.job]
        OBVIOUS
      <3>2. code \in FinalStates /\ code \in Codes /\ Handle(m, code, m.job)
        BY <2>2, <3>1 DEF Codes, TableStates
      <3>3. UNCHANGED <<jobVars, owner, state>>
        BY <2>1 DEF HandleWait, jobVars
      <3>4. state'[m.job] = code
        BY <3>1, <3>3
      <3>5. Holds(m, [code |-> code, job |-> m.job])'
        BY <1>3, <3>2, <3>4 DEF Holds, Over, FinalStates
      <3> QED BY <1>0, <1>3, <3>2, <3>3, <3>5, OtherRequestKeeps
    <2>3. CASE m.job \notin Table /\ Handle(m, "unknown_job", NoJob)
      <3>1. UNCHANGED <<jobVars, owner, state>>
        BY <2>1 DEF HandleWait, jobVars
      <3>2. state'[m.job] = "released"
        BY <1>2, <1>3, <2>3, <3>1
      <3>3. Holds(m, [code |-> "unknown_job", job |-> NoJob])'
        BY <1>3, <3>2 DEF Holds, FinalStates
      <3>4. "unknown_job" \in Codes
        BY DEF Codes
      <3> QED BY <1>3, <2>3, <3>1, <3>3, <3>4, OtherRequestKeeps
    <2> QED BY <2>1, <2>2, <2>3 DEF HandleWait
  <1>4. CASE m.op = "cancel"
    <2>1. HandleCancel(m) /\ owner' = owner
      BY <1>4 DEF HandleRequest, HandleCancel
    <2>2. CASE CancelJob(m.job) /\ Handle(m, "ok", m.job)
      <3>1. state'[m.job] = "cancelled"
        BY <1>0, <1>4, <2>2 DEF CancelJob, Move, JobsInv
      <3>2. Holds(m, [code |-> "ok", job |-> m.job])'
        BY <1>4, <3>1 DEF Holds, NotFailed, Ended, FinalStates
      <3>3. "ok" \in Codes
        BY DEF Codes
      <3> QED BY <1>0, <1>4, <2>1, <2>2, <3>2, <3>3, OtherRequestKeeps
    <2>3. CASE /\ state[m.job] \in FinalStates
               /\ Handle(m, "invalid_state", NoJob) /\ UNCHANGED jobVars
      <3>1. state'[m.job] \in FinalStates
        BY <2>3 DEF jobVars
      <3>2. Holds(m, [code |-> "invalid_state", job |-> NoJob])'
        BY <1>4, <3>1 DEF Holds, Ended
      <3>3. "invalid_state" \in Codes
        BY DEF Codes
      <3> QED BY <1>4, <2>1, <2>3, <3>2, <3>3, OtherRequestKeeps
    <2>4. CASE /\ m.job \notin Table
               /\ Handle(m, "unknown_job", NoJob) /\ UNCHANGED jobVars
      <3>1. state'[m.job] = "released"
        BY <1>2, <1>4, <2>4 DEF jobVars
      <3>2. Holds(m, [code |-> "unknown_job", job |-> NoJob])'
        BY <1>4, <3>1 DEF Holds, Ended
      <3>3. "unknown_job" \in Codes
        BY DEF Codes
      <3> QED BY <1>4, <2>1, <2>4, <3>2, <3>3, OtherRequestKeeps
    <2> QED BY <2>1, <2>2, <2>3, <2>4 DEF HandleCancel
  <1>5. CASE m.op = "status"
    <2>1. PICK code : code = IF m.job \in Table THEN state[m.job] ELSE "unknown_job"
      OBVIOUS
    <2>2. Handle(m, code, m.job) /\ UNCHANGED <<jobVars, owner, state>>
      BY <1>5, <2>1 DEF HandleRequest, HandleStatus, jobVars
    <2>3. code \in TableStates \cup {"unknown_job"}
      BY <2>1 DEF Table
    <2>4. code # "unknown_job" => state'[m.job] = code
      BY <2>1, <2>2
    <2>5. code = "unknown_job" => state'[m.job] = "released"
      BY <1>2, <1>5, <2>1, <2>2 DEF Table, TableStates, LiveStates, FinalStates
    <2>6. Holds(m, [code |-> code, job |-> m.job])'
      BY <1>5, <2>3, <2>4, <2>5 DEF Holds, Over, FinalStates
    <2>7. code \in Codes
      BY <2>3 DEF Codes
    <2> QED BY <1>0, <1>5, <2>2, <2>6, <2>7, OtherRequestKeeps
  <1>6. CASE m.op = "release"
    <2>1. HandleRelease(m) /\ owner' = owner /\ UNCHANGED <<revived, lost>>
      BY <1>6 DEF HandleRequest, HandleRelease, Handle
    <2>2. CASE ReleaseJob(m.job) /\ Handle(m, "ok", m.job)
      <3>1. state'[m.job] = "released"
        BY <1>0, <1>6, <2>2 DEF ReleaseJob, JobsInv
      <3>2. Holds(m, [code |-> "ok", job |-> m.job])'
        BY <1>6, <3>1 DEF Holds
      <3>3. "ok" \in Codes
        BY DEF Codes
      <3> QED BY <1>0, <1>6, <2>1, <2>2, <3>2, <3>3, OtherRequestKeeps
    <2>3. CASE /\ state[m.job] \in LiveStates
               /\ Handle(m, "invalid_state", NoJob) /\ UNCHANGED jobVars
      <3>1. CallOf(m) \notin lost => Ended(m.job)
        BY <1>0, <1>6 DEF Begun
      <3>2. CallOf(m) \notin lost' => m.job \in revived'
        BY <2>1, <2>3, <3>1 DEF Ended, LiveStates, FinalStates
      <3>3. Holds(m, [code |-> "invalid_state", job |-> NoJob])'
        BY <1>6, <3>2 DEF Holds, CallOf
      <3>4. "invalid_state" \in Codes
        BY DEF Codes
      <3> QED BY <1>6, <2>1, <2>3, <3>3, <3>4, OtherRequestKeeps
    <2>4. CASE /\ m.job \notin Table
               /\ Handle(m, "unknown_job", NoJob) /\ UNCHANGED jobVars
      <3>1. state'[m.job] = "released"
        BY <1>2, <1>6, <2>4 DEF jobVars
      <3>2. Holds(m, [code |-> "unknown_job", job |-> NoJob])'
        BY <1>6, <3>1 DEF Holds
      <3>3. "unknown_job" \in Codes
        BY DEF Codes
      <3> QED BY <1>6, <2>1, <2>4, <3>2, <3>3, OtherRequestKeeps
    <2> QED BY <2>1, <2>2, <2>3, <2>4 DEF HandleRelease
  <1> QED BY <1>0, <1>1, <1>3, <1>4, <1>5, <1>6 DEF Operations

\* Requests are lost, the broker works, ends and starts again, the user acts.
LEMMA BackgroundKeeps ==
    ASSUME RpcInv,
           \/ \E m \in sent : DropRequest(m)
           \/ BrokerMoves \/ BrokerStarts \/ UserActs
    PROVE  RpcInv' /\ BrokerSide /\ owner' = owner
  <1>1. /\ UNCHANGED <<awaiting, answer, lost, owner>>
        /\ sent' \subseteq sent /\ revived \subseteq revived'
    BY DEF DropRequest, BrokerMoves, BrokerStarts, UserActs
  <1>2. JobsInv /\ answer = [p \in Peers |-> answer[p]]
    BY DEF RpcInv, ExchangesInv
  <1>3. \/ \E id \in JobIds :
             CancelJob(id) \/ ReleaseJob(id) \/ (RetryJob(id) /\ id \in revived')
        \/ BrokerStep \/ Shut \/ Vanish \/ UNCHANGED state
    BY DEF DropRequest, BrokerMoves, BrokerStarts, UserActs, jobVars
  <1>4. /\ JobsMove
        /\ \A id \in JobIds : state'[id] = "unused" <=> state[id] = "unused"
    BY <1>1, <1>2, <1>3, OthersMove
  <1>5. JobsInv'
    BY <1>1, <1>2, <1>4 DEF JobsMove, JobsInv, AllStates
  <1>6. \A n \in sent' : n.op = "submit" /\ CallOf(n) \notin lost =>
              \A id \in JobIds : CallOf(n) \notin owner'[id]
    BY <1>1, NothingOwned
  <1>7. BrokerSide
    BY <1>1, <1>2, <1>4, <1>5, <1>6 DEF BrokerSide
  <1> QED BY <1>1, <1>7, BrokerSideKeeps

LEMMA RpcKeeps ==
    ASSUME RpcInv, RpcNext
    PROVE  RpcInv' /\ BrokerSide
  BY RequestKeeps, BackgroundKeeps DEF RpcNext

-----------------------------------------------------------------------------
(* A peer's own steps. *)

\* What a peer heard of its call, or goes on to see to.
Attends(p, id) ==
    IF awaiting[p].op = "submit"
      THEN answer[p] # Silence /\ answer[p].code = "accepted" /\ answer[p].job = id
      ELSE awaiting[p].job = id

\* The jobs of its call that a peer does not go on to see to are done with.
LeavesNothing(p, next) ==
    awaiting[p] # Silence /\ CallOf(awaiting[p]) \notin lost' =>
      /\ awaiting[p].op = "submit" => answer[p] # Silence
      /\ \A id \in JobIds : Attends(p, id) =>
           \/ Left(id)
           \/ next # Silence /\ next.op # "submit" /\ next.job = id
              /\ next.call = awaiting[p].call

\* The exchange that a peer begins.
Begins(p, next) ==
    /\ next.from = p /\ Begun(next)'
    /\ next.op = "submit" /\ CallOf(next) \notin lost' =>
         \A id \in JobIds : CallOf(next) \notin owner[id]

LEMMA PeerKeeps ==
    ASSUME RpcInv, NEW p \in Peers, NEW next,
           UNCHANGED <<state, owner, revived>>, lost \subseteq lost',
           LeavesNothing(p, next),
           IF next = Silence THEN HangUp(p) ELSE Send(p, next) /\ Begins(p, next)
    PROVE  RpcInv'
  <1>1. /\ awaiting' = [awaiting EXCEPT ![p] = next]
        /\ answer' = [answer EXCEPT ![p] = Silence]
        /\ sent' = IF next = Silence THEN sent ELSE sent \cup {next}
    BY DEF HangUp, Send
  <1>2. JobsInv /\ ExchangesInv /\ OwnersInv
    BY DEF RpcInv
  <1>3. /\ awaiting' = [q \in Peers |-> awaiting'[q]]
        /\ answer' = [q \in Peers |-> answer'[q]]
        /\ awaiting'[p] = next /\ answer'[p] = Silence
        /\ \A q \in Peers \ {p} : awaiting'[q] = awaiting[q] /\ answer'[q] = answer[q]
    BY <1>1, <1>2 DEF ExchangesInv
  <1>4. JobsMove /\ JobsInv'
    BY <1>2, OthersMove DEF JobsInv
  <1>5. ASSUME NEW q \in Peers
        PROVE  /\ awaiting'[q] # Silence => awaiting'[q].from = q /\ Begun(awaiting[q])'
               /\ answer'[q] # Silence =>
                    awaiting'[q] # Silence /\ Holds(awaiting[q], answer[q])'
    <2>1. CASE q = p
      <3>1. next # Silence => next.from = p /\ Begun(next)'
        BY DEF Begins
      <3> QED BY <1>3, <2>1, <3>1
    <2>2. CASE q # p
      <3>1. PICK m, said : m = awaiting[q] /\ said = answer[q]
        OBVIOUS
      <3>2. awaiting'[q] = m /\ answer'[q] = said
        BY <1>3, <2>2, <3>1
      <3>3. /\ m # Silence => m.from = q /\ Begun(m)
            /\ said # Silence => m # Silence /\ Holds(m, said)
        BY <1>2, <3>1 DEF ExchangesInv
      <3>4. /\ m # Silence => Begun(m)'
            /\ said # Silence => Holds(m, said)'
        BY <1>4, <3>3, ExchangeStays
      <3>5. /\ m # Silence => Begun(awaiting[q])'
            /\ said # Silence => Holds(awaiting[q], answer[q])'
        BY <3>2, <3>4
      <3> QED BY <3>2, <3>3, <3>5
    <2> QED BY <2>1, <2>2
  <1>6. ASSUME NEW m \in sent'
        PROVE  /\ Begun(m)'
               /\ m.op = "submit" /\ CallOf(m) \notin lost' => Pending(m)'
    <2>1. CallOf(m)' = CallOf(m)
      BY DEF CallOf
    <2>2. CASE m = next /\ next # Silence
      <3>1. /\ next.from = p /\ Begun(m)'
            /\ m.op = "submit" /\ CallOf(m) \notin lost' =>
                 \A id \in JobIds : CallOf(m) \notin owner'[id]
        BY <2>2 DEF Begins
      <3>2. awaiting'[m.from] = m /\ answer'[m.from] = Silence
        BY <1>3, <2>2, <3>1
      <3> QED BY <2>1, <3>1, <3>2 DEF Pending
    <2>3. CASE m \in sent
      <3>1. Begun(m) /\ (m.op = "submit" /\ CallOf(m) \notin lost => Pending(m))
        BY <1>2, <2>3 DEF ExchangesInv
      <3>2. Begun(m)'
        BY <1>4, <3>1, ExchangeStays
      <3>3. ASSUME m.op = "submit", CallOf(m) \notin lost'
            PROVE  Pending(m)'
        <4>1. /\ awaiting[m.from] = m /\ answer[m.from] = Silence
              /\ \A id \in JobIds : CallOf(m) \notin owner[id]
          BY <3>1, <3>3 DEF Pending
        <4>2. m # Silence /\ m.from \in Peers
          BY <3>1, NoSilence DEF Begun
        <4>3. m.from # p
          BY <3>3, <4>1, <4>2 DEF LeavesNothing
        <4> QED BY <1>3, <2>1, <4>1, <4>2, <4>3 DEF Pending
      <3> QED BY <2>1, <3>2, <3>3
    <2> QED BY <1>1, <1>6, <2>2, <2>3
  <1>7. ExchangesInv'
    BY <1>3, <1>5, <1>6 DEF ExchangesInv
  <1>8. ASSUME NEW id \in JobIds, NEW c \in owner[id]
        PROVE  /\ c = <<c[1], c[2]>> /\ c[1] \in Peers
               /\ c \in lost' \/ SeenTo(c[1], c[2], id)'
    <2>1. /\ c = <<c[1], c[2]>> /\ c[1] \in Peers
          /\ c \in lost \/ SeenTo(c[1], c[2], id)
      BY <1>2, <1>8 DEF OwnersInv
    <2>2. Left(id) => Left(id)'
      BY <1>4, KnowledgeStays
    <2>3. ASSUME c \notin lost', ~Left(id)
          PROVE  SeenTo(c[1], c[2], id)'
      <3>1. /\ awaiting[c[1]] # Silence /\ awaiting[c[1]].call = c[2]
            /\ Attends(c[1], id)
        BY <2>1, <2>3 DEF SeenTo, Attends
      <3>2. CASE c[1] # p
        BY <1>3, <2>1, <3>1, <3>2 DEF SeenTo, Attends
      <3>3. CASE c[1] = p
        <4>1. awaiting[p].from = p
          BY <1>2, <3>1, <3>3 DEF ExchangesInv
        <4>2. CallOf(awaiting[p]) = c
          BY <2>1, <3>1, <3>3, <4>1 DEF CallOf
        <4>3. /\ next # Silence /\ next.op # "submit" /\ next.job = id
              /\ next.call = awaiting[p].call
          BY <2>3, <3>1, <3>3, <4>2 DEF LeavesNothing
        <4> QED BY <1>3, <3>1, <3>3, <4>3 DEF SeenTo
      <3> QED BY <3>2, <3>3
    <2>4. Left(id) => SeenTo(c[1], c[2], id)'
      BY <2>2 DEF SeenTo
    <2> QED BY <2>1, <2>3, <2>4
  <1>9. OwnersInv'
    BY <1>8 DEF OwnersInv
  <1> QED BY <1>4, <1>7, <1>9 DEF RpcInv

LEMMA RpcStarts ==
    ASSUME RpcInit
    PROVE  RpcInv
  BY DEF RpcInit, JobInit, RpcInv, JobsInv, ExchangesInv, OwnersInv

LEMMA RpcStutter ==
    ASSUME RpcInv, UNCHANGED <<state, awaiting, sent, answer, lost, owner, revived>>
    PROVE  RpcInv'
  <1>1. JobsInv'
    BY DEF RpcInv, JobsInv
  <1>2. \A m : CallOf(m)' = CallOf(m)
    BY DEF CallOf
  <1>3. \A m : Begun(m) => Begun(m)'
    BY <1>2 DEF Begun, Known, Ended
  <1>4. \A m, said : Holds(m, said) => Holds(m, said)'
    BY <1>2 DEF Holds, Known, Over, Ended, NotFailed
  <1>5. \A m : Pending(m) => Pending(m)'
    BY <1>2 DEF Pending
  <1>6. ExchangesInv'
    BY <1>2, <1>3, <1>4, <1>5 DEF RpcInv, ExchangesInv
  <1>7. OwnersInv'
    BY DEF RpcInv, OwnersInv, SeenTo, Left
  <1> QED BY <1>1, <1>6, <1>7 DEF RpcInv

\* A step of one peer, which nobody else notices.
MovesAlone(p) ==
    /\ UNCHANGED <<state, owner, revived>>
    /\ \A c \in lost' \ lost : c[1] = p
    /\ \A q \in Peers \ {p} : awaiting'[q] = awaiting[q] /\ answer'[q] = answer[q]
    /\ \A m \in sent' \ sent : m.from = p

LEMMA PeerMovesAlone ==
    ASSUME RpcInv, NEW p \in Peers, NEW next,
           UNCHANGED <<state, owner, revived>>,
           \A c \in lost' \ lost : c[1] = p,
           HangUp(p) \/ (Send(p, next) /\ next.from = p)
    PROVE  MovesAlone(p)
  BY DEF RpcInv, ExchangesInv, HangUp, Send, MovesAlone

-----------------------------------------------------------------------------
(* The programs. *)

\* A live status is what the job is now.
LEMMA StatusIsNow ==
    ASSUME RpcInv, RpcNext, NEW p \in Peers, answer'[p] # answer[p],
           awaiting[p].op = "status", answer'[p].code \in LiveStates
    PROVE  UNCHANGED <<state, revived>> /\ state[awaiting[p].job] \in LiveStates
  <1>1. PICK m \in sent : HandleRequest(m)
    BY DEF RpcNext, DropRequest, BrokerMoves, BrokerStarts, UserActs
  <1>2. answer = [q \in Peers |-> answer[q]]
    BY DEF RpcInv, ExchangesInv
  <1>3. \A code, id : Handle(m, code, id) =>
           /\ awaiting[p] = m /\ m.op = "status" /\ answer'[p].code = code
           /\ UNCHANGED revived
    BY <1>2 DEF Handle
  <1>4. \E code, id : Handle(m, code, id)
    BY <1>1 DEF HandleRequest, HandleSubmit, HandleWait, HandleCancel, HandleStatus,
                HandleRelease
  <1>5. m.op = "status" /\ awaiting[p] = m /\ UNCHANGED revived
    BY <1>3, <1>4
  <1>6. HandleStatus(m)
    BY <1>1, <1>5 DEF HandleRequest
  <1>7. answer'[p].code = IF m.job \in Table THEN state[m.job] ELSE "unknown_job"
    BY <1>3, <1>6 DEF HandleStatus
  <1>8. state[m.job] \in LiveStates /\ UNCHANGED state
    BY <1>6, <1>7 DEF HandleStatus, jobVars, LiveStates
  <1> QED BY <1>5, <1>8

\* Only a submission under way makes a job, and of its own call.
LEMMA OwnersGrow ==
    ASSUME RpcInv, RpcNext, NEW id \in JobIds, NEW c \in owner'[id]
    PROVE  \/ c \in owner[id]
           \/ \E m \in sent : /\ m.op = "submit" /\ c = CallOf(m)
                              /\ CallOf(m) \notin lost =>
                                   awaiting[m.from] = m /\ m # Silence
  <1>1. CASE owner' = owner
    BY <1>1
  <1>2. CASE owner' # owner
    <2>1. PICK m \in sent : HandleRequest(m)
      BY <1>2 DEF RpcNext, DropRequest, BrokerMoves, BrokerStarts, UserActs
    <2>2. m.op = "submit" /\ HandleSubmit(m)
      BY <1>2, <2>1 DEF HandleRequest, HandleWait, HandleCancel, HandleStatus,
                        HandleRelease
    <2>3. PICK new \in JobIds : owner' = [owner EXCEPT ![new] = {CallOf(m)}]
      BY <1>2, <2>2 DEF HandleSubmit
    <2>4. owner = [other \in JobIds |-> owner[other]]
      BY DEF RpcInv, JobsInv
    <2>5. c \in owner[id] \/ c = CallOf(m)
      BY <2>3, <2>4
    <2>6. m # Silence /\ (CallOf(m) \notin lost => awaiting[m.from] = m)
      BY <2>2, NoSilence DEF RpcInv, ExchangesInv, Pending, Begun
    <2> QED BY <2>2, <2>5, <2>6
  <1> QED BY <1>1, <1>2

LEMMA CallersWait ==
    ASSUME CallInv, RpcNext, UNCHANGED call
    PROVE  CallInv'
  <1>0. RpcInv /\ CallAssumption
    BY CallAssumption DEF CallInv
  <1>1. RpcInv' /\ BrokerSide
    BY <1>0, RpcKeeps
  <1>2. /\ JobsMove /\ awaiting' = awaiting /\ lost' = lost /\ sent' \subseteq sent
        /\ revived \subseteq revived'
    BY <1>1 DEF BrokerSide, JobsMove
  <1>3. ASSUME NEW id \in JobIds, NEW c \in owner'[id]
        PROVE  c[1] \in Callers =>
                 /\ c[2] = 1
                 /\ c \notin owner[id] => c \in lost \/ awaiting[c[1]] # Silence
    <2>1. CASE c \in owner[id]
      BY <2>1 DEF CallInv
    <2>2. CASE c \notin owner[id]
      <3>1. PICK m \in sent : /\ m.op = "submit" /\ c = CallOf(m)
                              /\ CallOf(m) \notin lost =>
                                   awaiting[m.from] = m /\ m # Silence
        BY <1>0, <1>3, <2>2, OwnersGrow
      <3>2. m.from \in Callers => m.call = 1
        BY DEF CallInv
      <3> QED BY <3>1, <3>2 DEF CallOf
    <2> QED BY <2>1, <2>2
  <1>4. ASSUME NEW p \in Callers
        PROVE  CallerInv(p)'
    <2>0. CallerInv(p) /\ p \in Peers /\ call'[p] = call[p] /\ awaiting'[p] = awaiting[p]
      BY <1>0, <1>2 DEF CallInv, CallAssumption
    <2>1. PICK c : c = call[p]
      OBVIOUS
    <2>2. c.pc = "idle" => \A id \in JobIds : <<p, 1>> \notin owner'[id]
      <3>1. \A id \in JobIds : <<p, 1>> \in owner'[id] /\ <<p, 1>> \notin owner[id] =>
               <<p, 1>> \in lost \/ awaiting[p] # Silence
        BY <1>3
      <3> QED BY <2>0, <2>1, <3>1 DEF CallerInv
    <2>3. awaiting[p] # Silence => Begun(awaiting[p])
      BY <1>0, <2>0 DEF RpcInv, ExchangesInv
    <2>4. c.pc \in Operations \ {"submit"} => c.job \in JobIds
      <3>1. c.pc \in Operations => awaiting[p] # Silence
        BY <2>0, <2>1 DEF CallerInv, Operations
      <3> QED BY <2>0, <2>1, <2>3, <3>1 DEF CallerInv, Begun, Known
    <2>5. c.pc = "status" =>
            /\ Ended(c.job)'
            /\ answer'[p] # Silence /\ answer'[p].code \in LiveStates
                 => c.job \in revived'
      <3>1. SUFFICES ASSUME c.pc = "status"
                     PROVE  /\ Ended(c.job)'
                            /\ answer'[p] # Silence /\ answer'[p].code \in LiveStates
                                 => c.job \in revived'
        OBVIOUS
      <3>2. c.job \in JobIds /\ Ended(c.job)
        BY <2>0, <2>1, <2>4, <3>1 DEF CallerInv, Operations
      <3>3. Ended(c.job)'
        BY <1>2, <3>2, KnowledgeStays
      <3>4. ASSUME answer'[p] # Silence, answer'[p].code \in LiveStates
            PROVE  c.job \in revived'
        <4>1. CASE answer'[p] = answer[p]
          BY <1>2, <2>0, <2>1, <3>1, <3>4, <4>1 DEF CallerInv
        <4>2. CASE answer'[p] # answer[p]
          <5>1. awaiting[p].op = "status" /\ awaiting[p].job = c.job
            BY <2>0, <2>1, <3>1 DEF CallerInv
          <5>2. UNCHANGED <<state, revived>> /\ state[c.job] \in LiveStates
            BY <1>0, <2>0, <3>4, <4>2, <5>1, StatusIsNow
          <5> QED BY <3>2, <5>2 DEF Ended, LiveStates, FinalStates
        <4> QED BY <4>1, <4>2
      <3> QED BY <3>3, <3>4
    <2>6. c.pc = "release" => NotFailed(c.job)'
      <3>1. c.pc = "release" => c.job \in JobIds /\ NotFailed(c.job)
        BY <2>0, <2>1, <2>4 DEF CallerInv, Operations
      <3> QED BY <1>2, <3>1, KnowledgeStays
    <2>7. c.verdict \in FinalStates => Known(c.job)' /\ Over(c.job, c.verdict)'
      <3>1. c.verdict \in FinalStates =>
              c.job \in JobIds /\ Known(c.job) /\ Over(c.job, c.verdict)
        BY <2>0, <2>1 DEF CallerInv, Known
      <3> QED BY <1>2, <3>1, KnowledgeStays
    <2>8. call'[p] = c
      BY <2>0, <2>1
    <2> QED BY <1>2, <2>0, <2>1, <2>2, <2>5, <2>6, <2>7, <2>8 DEF CallerInv
  <1>5. ASSUME NEW m \in sent', m.from \in Callers
        PROVE  /\ m.call = 1
               /\ m.op = "release" => NotFailed(m.job)'
    <2>1. /\ m \in sent /\ m.call = 1
          /\ m.op = "release" => NotFailed(m.job)
      BY <1>2, <1>5 DEF CallInv
    <2>2. m.op = "release" => m.job \in JobIds
      BY <1>0, <2>1 DEF RpcInv, ExchangesInv, Begun, Known
    <2> QED BY <1>2, <2>1, <2>2, KnowledgeStays
  <1>6. call' = [p \in Callers |-> call'[p]]
    BY DEF CallInv
  <1>7. \A id \in JobIds : \A c \in owner'[id] : c[1] \in Callers => c[2] = 1
    BY <1>3
  <1> QED BY <1>1, <1>4, <1>5, <1>6, <1>7 DEF CallInv

\* A program goes on with its call: everything else is as it was.
LEMMA CallerKeeps ==
    ASSUME CallInv, NEW p \in Callers, NEW next, NEW entry,
           UNCHANGED <<state, owner, revived>>,
           lost \subseteq lost', lost' \subseteq lost \cup {<<p, 1>>},
           LeavesNothing(p, next),
           IF next = Silence THEN HangUp(p) ELSE Send(p, next) /\ Begins(p, next),
           next # Silence => next.call = 1,
           next # Silence /\ next.op = "release" => NotFailed(next.job),
           call' = [call EXCEPT ![p] = entry],
           CallerInv(p)'
    PROVE  CallInv'
  <1>1. p \in Peers /\ RpcInv
    BY CallAssumption DEF CallInv
  <1>2. RpcInv'
    BY <1>1, PeerKeeps
  <1>3. /\ awaiting' = [awaiting EXCEPT ![p] = next]
        /\ answer' = [answer EXCEPT ![p] = Silence]
        /\ sent' = IF next = Silence THEN sent ELSE sent \cup {next}
    BY DEF HangUp, Send
  <1>4. /\ call = [q \in Callers |-> call[q]]
        /\ awaiting = [q \in Peers |-> awaiting[q]]
        /\ answer = [q \in Peers |-> answer[q]]
    BY <1>1 DEF CallInv, RpcInv, ExchangesInv
  <1>5. ASSUME NEW q \in Callers \ {p}
        PROVE  CallerInv(q)'
    <2>1. /\ CallerInv(q) /\ q \in Peers
          /\ call'[q] = call[q] /\ awaiting'[q] = awaiting[q] /\ answer'[q] = answer[q]
          /\ <<q, 1>> \notin lost => <<q, 1>> \notin lost'
      BY <1>3, <1>4, CallAssumption DEF CallInv
    <2> QED BY <2>1 DEF CallerInv, Ended, NotFailed, Known, Over
  <1>6. ASSUME NEW m \in sent', m.from \in Callers
        PROVE  /\ m.call = 1
               /\ m.op = "release" => NotFailed(m.job)'
    <2>1. CASE m \in sent
      BY <1>6, <2>1 DEF CallInv, NotFailed
    <2>2. CASE m = next /\ next # Silence
      BY <2>2 DEF Begins, NotFailed
    <2> QED BY <1>3, <1>6, <2>1, <2>2
  <1>7. call' = [q \in Callers |-> call'[q]]
    BY <1>4
  <1>8. \A id \in JobIds : \A c \in owner'[id] : c[1] \in Callers => c[2] = 1
    BY DEF CallInv
  <1> QED BY <1>2, <1>5, <1>6, <1>7, <1>8 DEF CallInv

LEMMA StartCallKeeps ==
    ASSUME CallInv, NEW p \in Callers, StartCall(p)
    PROVE  CallInv'
  <1> DEFINE m == Exchange(p, 1, "submit", NoJob, Asked[p])
             entry == [call[p] EXCEPT !.pc = "submit"]
  <1>1. m \in Exchanges /\ m.from = p /\ m.op = "submit" /\ m.call = 1
    BY CallAssumption, RpcAssumption DEF Exchange, Exchanges, Operations
  <1>2. /\ call[p].pc = "idle" /\ call' = [call EXCEPT ![p] = entry] /\ Send(p, m)
        /\ UNCHANGED <<state, lost, owner, revived>>
    BY DEF StartCall, jobVars
  <1>3. CallerInv(p) /\ p \in Peers /\ call = [q \in Callers |-> call[q]] /\ RpcInv
    BY CallAssumption DEF CallInv
  <1>4. /\ awaiting[p] = Silence /\ call[p].verdict = "unavailable"
        /\ \A id \in JobIds : <<p, 1>> \notin owner[id]
    BY <1>2, <1>3 DEF CallerInv
  <1>5. /\ call'[p] = entry /\ entry.pc = "submit" /\ entry.verdict = "unavailable"
        /\ entry = [pc |-> entry.pc, job |-> entry.job, verdict |-> entry.verdict]
    BY <1>2, <1>3, <1>4 DEF CallerInv
  <1>6. call' = [call EXCEPT ![p] = entry]
    BY <1>2
  <1> HIDE DEF m, entry
  <1>7. m # Silence
    BY <1>1, NoSilence
  <1>8. Begins(p, m)
    BY <1>1, <1>4 DEF Begins, Begun, CallOf
  <1>9. LeavesNothing(p, m)
    BY <1>4 DEF LeavesNothing
  <1>10. awaiting'[p] = m /\ answer'[p] = Silence
    BY <1>2, <1>3 DEF Send, RpcInv, ExchangesInv
  <1>11. "unavailable" \notin FinalStates
    BY DEF FinalStates
  <1>12. CallerInv(p)'
    BY <1>1, <1>5, <1>7, <1>10, <1>11 DEF CallerInv, Operations
  <1> QED BY <1>1, <1>2, <1>6, <1>7, <1>8, <1>9, <1>12, CallerKeeps

\* After the answer, or without it, the call goes on with an exchange about its
\* job, or is done and has left nothing of it.
LEMMA ProceedKeeps ==
    ASSUME CallInv, NEW p \in Callers, NEW op, Waits(p, op), NEW code, NEW id,
           NEW next \in After(op, code),
           UNCHANGED <<state, owner, revived>>,
           lost \subseteq lost', lost' \subseteq lost \cup {<<p, 1>>},
           call' = [call EXCEPT ![p] = [pc |-> next, job |-> id,
                                        verdict |-> Verdict(p, op, code)]],
           IF next = "done" THEN HangUp(p)
           ELSE Send(p, Exchange(p, 1, next, id, Nothing)),
           id = (IF op = "submit" /\ code # "unavailable" THEN answer[p].job
                 ELSE call[p].job),
           IF code = "unavailable" THEN op = "wait" \/ <<p, 1>> \in lost'
           ELSE answer[p] # Silence /\ answer[p].code = code
    PROVE  CallInv'
  <1>0. PICK verdict : verdict = Verdict(p, op, code)
    OBVIOUS
  <1> DEFINE m == Exchange(p, 1, next, id, Nothing)
             entry == [pc |-> next, job |-> id, verdict |-> verdict]
  <1>1. /\ CallerInv(p) /\ p \in Peers /\ call = [q \in Callers |-> call[q]] /\ RpcInv
        /\ awaiting[p] # Silence /\ awaiting[p].op = op
    BY CallAssumption DEF CallInv, Waits
  <1>2. /\ awaiting[p].from = p /\ awaiting[p].call = 1 /\ Begun(awaiting[p])
        /\ op = call[p].pc /\ op \in Operations
        /\ op # "submit" => awaiting[p].job = call[p].job
        /\ CallOf(awaiting[p]) = <<p, 1>>
    BY <1>1 DEF CallerInv, RpcInv, ExchangesInv, CallOf, Operations
  <1>3. code # "unavailable" => Holds(awaiting[p], answer[p])
    BY <1>1 DEF RpcInv, ExchangesInv
  <1>4. /\ op # "submit" => Known(id)
        /\ op = "submit" /\ code = "accepted" => Known(id)
    BY <1>1, <1>2, <1>3 DEF Begun, Holds
  <1>5. next \in Operations \cup {"done"} /\ next # "submit"
    BY DEF After, Operations
  <1>6. next # "done" =>
          /\ Known(id)
          /\ next = "status" => Ended(id)
          /\ next = "release" => NotFailed(id)
    <2>1. CASE op = "submit"
      BY <1>4, <2>1 DEF After
    <2>2. CASE op = "wait"
      <3>1. code \in FinalStates => Over(id, code)
        BY <1>1, <1>2, <1>3, <2>2 DEF Holds, FinalStates
      <3>2. code \in FinalStates \ {"failed"} => NotFailed(id)
        BY <3>1 DEF Over, NotFailed, FinalStates
      <3> QED BY <1>4, <2>2, <3>2 DEF After
    <2>3. CASE op = "cancel"
      <3>1. code # "unavailable" => Ended(id)
        BY <1>1, <1>2, <1>3, <2>3 DEF Holds
      <3>2. code = "ok" => NotFailed(id)
        BY <1>1, <1>2, <1>3, <2>3 DEF Holds
      <3> QED BY <1>4, <2>3, <3>1, <3>2 DEF After
    <2>4. CASE op = "status"
      <3>1. code \in FinalStates => Over(id, code)
        BY <1>1, <1>2, <1>3, <2>4 DEF Holds, FinalStates
      <3>2. code \in FinalStates \ {"failed"} => NotFailed(id)
        BY <3>1 DEF Over, NotFailed, FinalStates
      <3> QED BY <1>4, <2>4, <3>2 DEF After
    <2>5. CASE op = "release"
      BY <2>5 DEF After
    <2> QED BY <1>2, <2>1, <2>2, <2>3, <2>4, <2>5 DEF Operations
  <1>7. ASSUME <<p, 1>> \notin lost'
        PROVE  /\ op = "submit" => answer[p] # Silence
               /\ \A j \in JobIds : Attends(p, j) =>
                    Left(j) \/ (next # "done" /\ id = j)
    <2>1. code = "unavailable" => op = "wait"
      BY <1>7
    <2>2. CASE op = "submit"
      <3>1. answer[p] # Silence /\ answer[p].code = code /\ answer[p].job = id
        BY <2>1, <2>2
      <3>2. code = "accepted" => next # "done"
        BY <2>2 DEF After
      <3> QED BY <1>1, <2>2, <3>1, <3>2 DEF Attends
    <2>3. CASE op # "submit"
      <3>1. \A j : Attends(p, j) => j = id
        BY <1>1, <1>2, <2>3 DEF Attends
      <3>2. ASSUME next = "done"
            PROVE  Left(id)
        <4>1. CASE op = "wait"
          <5>1. code = "failed"
            BY <1>1, <1>2, <1>3, <3>2, <4>1 DEF After, Holds, FinalStates
          <5>2. Over(id, "failed")
            BY <1>1, <1>2, <1>3, <4>1, <5>1 DEF Holds, FinalStates
          <5> QED BY <5>2 DEF Over, Left
        <4>2. CASE op = "cancel"
          <5>1. code = "unknown_job"
            BY <1>1, <1>2, <1>3, <2>1, <3>2, <4>2 DEF After, Holds
          <5>2. state[id] = "released"
            BY <1>1, <1>2, <1>3, <4>2, <5>1 DEF Holds
          <5> QED BY <5>2 DEF Left
        <4>3. CASE op = "status"
          <5>1. code \in LiveStates \cup {"failed", "unknown_job"}
            BY <1>1, <1>2, <1>3, <2>1, <3>2, <4>3
               DEF After, Holds, TableStates, FinalStates
          <5>2. CASE code = "failed"
            <6>1. Over(id, "failed")
              BY <1>1, <1>2, <1>3, <4>3, <5>2 DEF Holds, FinalStates
            <6> QED BY <6>1 DEF Over, Left
          <5>3. CASE code = "unknown_job"
            <6>1. state[id] = "released"
              BY <1>1, <1>2, <1>3, <4>3, <5>3 DEF Holds
            <6> QED BY <6>1 DEF Left
          <5>4. CASE code \in LiveStates
            <6>1. answer[p] # Silence /\ answer[p].code \in LiveStates
              BY <5>4 DEF LiveStates
            <6>2. id \in revived
              BY <1>1, <1>2, <4>3, <6>1 DEF CallerInv
            <6> QED BY <6>2 DEF Left
          <5> QED BY <5>1, <5>2, <5>3, <5>4
        <4>4. CASE op = "release"
          <5>1. code \in {"ok", "invalid_state", "unknown_job"}
            BY <1>1, <1>2, <1>3, <2>1, <4>4 DEF Holds
          <5>2. code \in {"ok", "unknown_job"} => state[id] = "released"
            BY <1>1, <1>2, <1>3, <4>4 DEF Holds
          <5>3. code = "invalid_state" => id \in revived
            BY <1>1, <1>2, <1>3, <1>7, <4>4 DEF Holds
          <5> QED BY <5>1, <5>2, <5>3 DEF Left
        <4> QED BY <1>2, <2>3, <4>1, <4>2, <4>3, <4>4 DEF Operations
      <3> QED BY <2>3, <3>1, <3>2
    <2> QED BY <2>2, <2>3
  <1>8. next # "done" =>
          /\ m \in Exchanges /\ m.from = p /\ m.op = next /\ m.job = id /\ m.call = 1
    BY <1>1, <1>5, <1>6, RpcAssumption DEF Exchange, Exchanges, Known
  <1>9. /\ call' = [call EXCEPT ![p] = entry]
        /\ entry = [pc |-> entry.pc, job |-> entry.job, verdict |-> entry.verdict]
        /\ entry.pc = next /\ entry.job = id /\ entry.verdict = verdict
    BY <1>0
  <1>10. IF next = "done" THEN HangUp(p) ELSE Send(p, m)
    OBVIOUS
  <1>11. verdict \in FinalStates =>
           Known(id) /\ Over(id, verdict)
    <2>1. CASE op = "submit"
      BY <1>0, <1>1, <1>2, <2>1 DEF CallerInv, Verdict, FinalStates
    <2>2. CASE op = "wait" /\ code \in FinalStates
      BY <1>0, <1>1, <1>2, <1>3, <1>4, <2>2 DEF Holds, Verdict, FinalStates
    <2>3. CASE op # "submit" /\ ~(op = "wait" /\ code \in FinalStates)
      BY <1>0, <1>1, <2>3 DEF CallerInv, Verdict
    <2> QED BY <2>1, <2>2, <2>3
  <1> HIDE DEF m, entry
  <1>12. PICK begun : begun = IF next = "done" THEN Silence ELSE m
    OBVIOUS
  <1>13. next # "done" => m # Silence
    BY <1>8, NoSilence
  <1>14. IF begun = Silence THEN HangUp(p) ELSE Send(p, begun) /\ Begins(p, begun)
    <2>1. next # "done" => Begins(p, m)
      BY <1>5, <1>6, <1>8 DEF Begins, Begun, Known, Ended, NotFailed, FinalStates
    <2> QED BY <1>10, <1>12, <1>13, <2>1
  <1>15. LeavesNothing(p, begun)
    BY <1>1, <1>2, <1>5, <1>7, <1>8, <1>12, <1>13 DEF LeavesNothing
  <1>16. awaiting'[p] = begun /\ answer'[p] = Silence
    BY <1>1, <1>14 DEF HangUp, Send, RpcInv, ExchangesInv
  <1>17. call'[p] = entry
    BY <1>1, <1>9
  <1>18. CallerInv(p)'
    <2>1. /\ next = "status" => Ended(id)'
          /\ next = "release" => NotFailed(id)'
          /\ verdict \in FinalStates => Known(id)' /\ Over(id, verdict)'
      BY <1>6, <1>11 DEF Ended, NotFailed, Known, Over
    <2>2. next \notin {"idle", "submit"}
      BY <1>5 DEF Operations
    <2> QED BY <1>5, <1>8, <1>9, <1>12, <1>13, <1>16, <1>17, <2>1, <2>2
            DEF CallerInv, Operations
  <1>19. /\ begun # Silence => begun.call = 1
         /\ begun # Silence /\ begun.op = "release" => NotFailed(begun.job)
    BY <1>6, <1>8, <1>12
  <1> QED BY <1>9, <1>14, <1>15, <1>18, <1>19, CallerKeeps

LEMMA ProgramKeeps ==
    ASSUME CallInv, NEW p \in Callers, ReadAnswer(p) \/ GiveUp(p)
    PROVE  CallInv'
  <1>1. UNCHANGED <<state, owner, revived>>
    BY DEF ReadAnswer, GiveUp, jobVars
  <1>2. CASE ReadAnswer(p)
    <2>1. PICK op \in Operations :
             /\ Heard(p, op)
             /\ Proceed(p, op, answer[p].code,
                        IF op = "submit" THEN answer[p].job ELSE call[p].job)
      BY <1>2 DEF ReadAnswer
    <2>2. PICK code, id : /\ code = answer[p].code
                          /\ id = IF op = "submit" THEN answer[p].job ELSE call[p].job
      OBVIOUS
    <2>3. /\ Waits(p, op) /\ answer[p] # Silence
          /\ Proceed(p, op, code, id)
      BY <2>1, <2>2 DEF Heard
    <2>4. code # "unavailable"
      <3>1. RpcInv /\ p \in Peers /\ op = awaiting[p].op
        BY <2>3, CallAssumption DEF CallInv, Waits
      <3>2. Holds(awaiting[p], answer[p])
        BY <2>3, <3>1 DEF RpcInv, ExchangesInv
      <3> QED BY <2>1, <2>2, <3>1, <3>2
              DEF Holds, Operations, TableStates, LiveStates, FinalStates
    <2>5. PICK next \in After(op, code) :
             /\ call' = [call EXCEPT ![p] = [pc |-> next, job |-> id,
                                             verdict |-> Verdict(p, op, code)]]
             /\ IF next = "done" THEN HangUp(p)
                ELSE Send(p, Exchange(p, 1, next, id, Nothing))
      BY <2>3 DEF Proceed
    <2>6. lost' = lost
      BY <1>2 DEF ReadAnswer
    <2> QED BY <1>1, <2>2, <2>3, <2>4, <2>5, <2>6, ProceedKeeps
  <1>3. CASE GiveUp(p)
    <2>1. PICK op \in Operations :
             /\ Waits(p, op)
             /\ Proceed(p, op, "unavailable", call[p].job)
             /\ lost' = IF op = "wait" THEN lost ELSE lost \cup {<<p, 1>>}
      BY <1>3 DEF GiveUp
    <2>2. PICK id : id = call[p].job
      OBVIOUS
    <2>3. PICK next \in After(op, "unavailable") :
             /\ call' = [call EXCEPT ![p] = [pc |-> next, job |-> id,
                                             verdict |-> Verdict(p, op, "unavailable")]]
             /\ IF next = "done" THEN HangUp(p)
                ELSE Send(p, Exchange(p, 1, next, id, Nothing))
      BY <2>1, <2>2 DEF Proceed
    <2> QED BY <1>1, <2>1, <2>2, <2>3, ProceedKeeps
  <1> QED BY <1>2, <1>3

\* Another client's step is nothing to a program.
LEMMA OtherPeersCall ==
    ASSUME CallInv, RpcInv', UNCHANGED call, NEW r, r \notin Callers, MovesAlone(r)
    PROVE  CallInv'
  <1>1. UNCHANGED <<state, owner, revived, call>>
    BY DEF MovesAlone
  <1>2. ASSUME NEW p \in Callers
        PROVE  CallerInv(p)'
    <2>1. CallerInv(p) /\ p \in Peers /\ p # r
      BY CallAssumption DEF CallInv
    <2>2. /\ awaiting'[p] = awaiting[p] /\ answer'[p] = answer[p]
          /\ <<p, 1>> \notin lost => <<p, 1>> \notin lost'
      BY <2>1 DEF MovesAlone
    <2> QED BY <1>1, <2>1, <2>2 DEF CallerInv, Ended, NotFailed, Known, Over
  <1>3. ASSUME NEW m \in sent', m.from \in Callers
        PROVE  /\ m.call = 1
               /\ m.op = "release" => NotFailed(m.job)'
    BY <1>1, <1>3 DEF CallInv, MovesAlone, NotFailed
  <1> QED BY <1>1, <1>2, <1>3 DEF CallInv

LEMMA CallStutter ==
    ASSUME CallInv, UNCHANGED callVars
    PROVE  CallInv'
  <1>1. UNCHANGED <<state, awaiting, sent, answer, lost, owner, revived, call>>
    BY DEF callVars, rpcVars, jobVars
  <1>2. RpcInv'
    BY <1>1, RpcStutter DEF CallInv
  <1>3. ASSUME NEW p \in Callers
        PROVE  CallerInv(p)'
    BY <1>1 DEF CallInv, CallerInv, Ended, NotFailed, Known, Over
  <1> QED BY <1>1, <1>2, <1>3 DEF CallInv, NotFailed

LEMMA CallStarts ==
    ASSUME CallInit
    PROVE  CallInv
  <1>1. RpcInv
    BY RpcStarts DEF CallInit
  <1>2. \A p \in Callers : CallerInv(p)
    BY CallAssumption DEF CallInit, RpcInit, CallerInv, FinalStates, Operations
  <1> QED BY <1>1, <1>2 DEF CallInit, RpcInit, CallInv

-----------------------------------------------------------------------------
(* The analyses. *)

LEMMA RowsAre ==
    ASSUME AnalysisInv, NEW r \in Rows
    PROVE  /\ r \in Peers /\ TaskInv(r) /\ RowInv(r) /\ RpcInv
           /\ task = [q \in Rows |-> task[q]] /\ row = [q \in Rows |-> row[q]]
           /\ calls = [q \in Rows |-> calls[q]]
           /\ analysis = [q \in Rows |-> analysis[q]]
  BY AnalysisAssumption DEF AnalysisInv

LEMMA AnalysesWait ==
    ASSUME AnalysisInv, RpcNext, UNCHANGED serviceVars
    PROVE  AnalysisInv'
  <1>1. RpcInv /\ UNCHANGED <<row, task, calls, analysis>>
    BY DEF AnalysisInv, serviceVars
  <1>2. RpcInv' /\ BrokerSide
    BY <1>1, RpcKeeps
  <1>3. awaiting' = awaiting /\ sent' \subseteq sent
    BY <1>2 DEF BrokerSide
  <1>4. ASSUME NEW id \in JobIds, NEW c \in owner'[id], c[1] \in Rows
        PROVE  CallMade(c)
    <2>1. CASE c \in owner[id]
      BY <1>4, <2>1 DEF AnalysisInv
    <2>2. CASE c \notin owner[id]
      <3>1. PICK m \in sent : c = CallOf(m)
        BY <1>1, <1>4, <2>2, OwnersGrow
      <3>2. m.from \in Rows
        BY <1>4, <3>1 DEF CallOf
      <3> QED BY <3>1, <3>2 DEF AnalysisInv
    <2> QED BY <2>1, <2>2
  <1>5. \A c : CallMade(c) => CallMade(c)'
    BY <1>1 DEF CallMade
  <1>6. \A m : CallOf(m)' = CallOf(m)
    BY DEF CallOf
  <1>7. \A m \in sent' : m.from \in Rows => CallMade(CallOf(m))'
    BY <1>3, <1>5, <1>6 DEF AnalysisInv
  <1>8. \A r \in Rows : TaskInv(r)' /\ RowInv(r)'
    BY <1>1, <1>3 DEF AnalysisInv, TaskInv, RowInv
  <1> QED BY <1>1, <1>2, <1>3, <1>4, <1>5, <1>7, <1>8 DEF AnalysisInv

\* Steps that exchange nothing with the broker: one row, or its task, changes.
LEMMA RowKeeps ==
    ASSUME AnalysisInv, NEW r \in Rows,
           UNCHANGED <<state, awaiting, sent, answer, lost, owner, revived>>,
           row' = [q \in Rows |-> row'[q]], task' = [q \in Rows |-> task'[q]],
           calls' = [q \in Rows |-> calls'[q]],
           analysis' = [q \in Rows |-> analysis'[q]],
           \A q \in Rows \ {r} :
              /\ row'[q] = row[q] /\ task'[q] = task[q]
              /\ calls'[q] = calls[q] /\ analysis'[q] = analysis[q],
           TaskInv(r)', RowInv(r)',
           \/ calls'[r] = calls[r] /\ (task'[r].pc = "starting" => task[r].pc = "starting")
           \/ calls'[r] = calls[r] + 1
    PROVE  AnalysisInv'
  <1>1. RpcInv'
    BY RpcStutter DEF AnalysisInv
  <1>2. ASSUME NEW q \in Rows
        PROVE  TaskInv(q)' /\ RowInv(q)'
    <2>1. CASE q = r
      BY <2>1
    <2>2. CASE q # r
      BY <2>2 DEF AnalysisInv, TaskInv, RowInv
    <2> QED BY <2>1, <2>2
  <1>3. calls[r] \in Nat
    <2>1. TaskInv(r)
      BY RowsAre
    <2> QED BY <2>1, RpcAssumption DEF TaskInv
  <1>4. ASSUME NEW c, CallMade(c)
        PROVE  CallMade(c)'
    <2>1. CASE c[1] = r
      BY <1>3, <1>4, <2>1 DEF CallMade
    <2>2. CASE c[1] # r
      BY <1>4, <2>2 DEF CallMade
    <2> QED BY <2>1, <2>2
  <1>5. \A m : CallOf(m)' = CallOf(m)
    BY DEF CallOf
  <1>6. \A m \in sent' : m.from \in Rows => CallMade(CallOf(m))'
    BY <1>4, <1>5 DEF AnalysisInv
  <1>7. \A id \in JobIds : \A c \in owner'[id] : c[1] \in Rows => CallMade(c)'
    BY <1>4 DEF AnalysisInv
  <1> QED BY <1>1, <1>2, <1>6, <1>7 DEF AnalysisInv

LEMMA InboxKeeps ==
    ASSUME AnalysisInv, NEW r \in Rows,
           Republish(r) \/ Resolve(r) \/ Admit(r) \/ Finish(r)
    PROVE  AnalysisInv'
  <1>1. UNCHANGED <<state, awaiting, sent, answer, lost, owner, revived>>
    BY DEF Republish, Resolve, Admit, Finish, rpcVars, jobVars
  <1>2. /\ TaskInv(r) /\ RowInv(r)
        /\ task = [q \in Rows |-> task[q]] /\ row = [q \in Rows |-> row[q]]
        /\ calls = [q \in Rows |-> calls[q]]
        /\ analysis = [q \in Rows |-> analysis[q]]
    BY RowsAre
  <1>3. MaxRevision \in Nat \ {0} /\ MaxCalls \in Nat \ {0}
    BY AnalysisAssumption, RpcAssumption
  <1>4. CASE Republish(r)
    <2>1. /\ row' = [row EXCEPT ![r] = [revision |-> row[r].revision + 1, active |-> TRUE]]
          /\ row[r].revision < MaxRevision /\ UNCHANGED <<task, calls, analysis>>
      BY <1>4 DEF Republish
    <2>2. /\ row'[r] = [revision |-> row[r].revision + 1, active |-> TRUE]
          /\ row' = [q \in Rows |-> row'[q]]
          /\ \A q \in Rows \ {r} : row'[q] = row[q]
      BY <1>2, <2>1
    <2>3. row'[r].revision = row[r].revision + 1 /\ row'[r].active = TRUE
          /\ row[r].revision \in 1..MaxRevision
      BY <1>2, <2>2 DEF RowInv
    <2>4. row'[r].revision \in 1..MaxRevision
          /\ 1..row[r].revision \subseteq 1..row'[r].revision
      BY <1>3, <2>1, <2>3
    <2>5. TaskInv(r)'
      BY <1>1, <1>2, <2>1, <2>4 DEF TaskInv
    <2>6. RowInv(r)'
      BY <1>2, <2>1, <2>2, <2>3, <2>4 DEF RowInv
    <2> QED BY <1>1, <1>2, <2>1, <2>2, <2>5, <2>6, RowKeeps
  <1>5. CASE Resolve(r)
    <2>1. /\ row' = [row EXCEPT ![r].active = FALSE]
          /\ analysis' = [analysis EXCEPT ![r] = 0] /\ UNCHANGED <<task, calls>>
      BY <1>5 DEF Resolve
    <2>2. /\ row'[r] = [row[r] EXCEPT !.active = FALSE]
          /\ row' = [q \in Rows |-> row'[q]] /\ analysis'[r] = 0
          /\ analysis' = [q \in Rows |-> analysis'[q]]
          /\ \A q \in Rows \ {r} : row'[q] = row[q] /\ analysis'[q] = analysis[q]
      BY <1>2, <2>1
    <2>3. /\ row'[r].revision = row[r].revision /\ row'[r].active = FALSE
          /\ row'[r] = [revision |-> row'[r].revision, active |-> row'[r].active]
      BY <1>2, <2>2 DEF RowInv
    <2>4. TaskInv(r)'
      BY <1>1, <1>2, <2>1, <2>3 DEF TaskInv
    <2>5. RowInv(r)'
      BY <1>2, <2>2, <2>3 DEF RowInv
    <2> QED BY <1>1, <1>2, <2>1, <2>2, <2>4, <2>5, RowKeeps
  <1>6. CASE Admit(r)
    <2>1. /\ calls' = [calls EXCEPT ![r] = calls[r] + 1]
          /\ task' = [task EXCEPT ![r] = [Idle EXCEPT !.pc = "starting",
                                                      !.revision = row[r].revision]]
          /\ calls[r] < MaxCalls /\ task[r].pc = "idle" /\ UNCHANGED <<row, analysis>>
      BY <1>6 DEF Admit
    <2>2. /\ calls'[r] = calls[r] + 1 /\ calls' = [q \in Rows |-> calls'[q]]
          /\ task' = [q \in Rows |-> task'[q]]
          /\ task'[r] = [pc |-> "starting", revision |-> row[r].revision,
                         job |-> NoJob, failed |-> FALSE]
          /\ \A q \in Rows \ {r} : calls'[q] = calls[q] /\ task'[q] = task[q]
      BY <1>2, <2>1 DEF Idle
    <2>3. calls'[r] \in 0..MaxCalls /\ calls'[r] # 0
      BY <1>2, <1>3, <2>1, <2>2 DEF TaskInv
    <2>4. row[r].revision \in 1..row[r].revision
      BY <1>2, <1>3 DEF RowInv
    <2>5. awaiting'[r] = Silence
      BY <1>1, <1>2, <2>1 DEF TaskInv
    <2>6. /\ task'[r].pc = "starting" /\ task'[r].revision = row[r].revision
          /\ task'[r] = [pc |-> task'[r].pc, revision |-> task'[r].revision,
                         job |-> task'[r].job, failed |-> task'[r].failed]
      BY <2>2
    <2>8. row'[r].revision = row[r].revision
      BY <2>1
    <2>9. TaskInv(r)'
      BY <2>3, <2>4, <2>5, <2>6, <2>8 DEF TaskInv
    <2>7. RowInv(r)'
      BY <1>2, <2>1 DEF RowInv
    <2> QED BY <1>1, <1>2, <2>1, <2>2, <2>9, <2>7, RowKeeps
  <1>7. CASE Finish(r)
    <2>1. /\ task' = [task EXCEPT ![r] = Idle] /\ task[r].pc = "finishing"
          /\ UNCHANGED <<row, calls, analysis>>
      BY <1>7 DEF Finish
    <2>2. /\ task' = [q \in Rows |-> task'[q]] /\ task'[r] = Idle
          /\ \A q \in Rows \ {r} : task'[q] = task[q]
      BY <1>2, <2>1
    <2>3. TaskInv(r)'
      BY <1>1, <1>2, <2>1, <2>2 DEF TaskInv, Idle
    <2>4. RowInv(r)'
      BY <1>2, <2>1 DEF RowInv
    <2>5. task'[r].pc # "starting"
      BY <2>2 DEF Idle
    <2> QED BY <1>1, <1>2, <2>1, <2>2, <2>3, <2>4, <2>5, RowKeeps
  <1> QED BY <1>4, <1>5, <1>6, <1>7

\* A task exchanges something with the broker, or is done with it.
LEMMA TaskKeeps ==
    ASSUME AnalysisInv, NEW r \in Rows, NEW next, NEW entry, NEW shown,
           UNCHANGED <<state, owner, revived, row, calls>>, lost \subseteq lost',
           LeavesNothing(r, next),
           IF next = Silence THEN HangUp(r) ELSE Send(r, next) /\ Begins(r, next),
           next # Silence => next.call = calls[r],
           task' = [task EXCEPT ![r] = entry], entry.pc # "starting",
           analysis' = [analysis EXCEPT ![r] = shown],
           TaskInv(r)', RowInv(r)'
    PROVE  AnalysisInv'
  <1>1. /\ r \in Peers /\ TaskInv(r) /\ RpcInv
        /\ task = [q \in Rows |-> task[q]] /\ row = [q \in Rows |-> row[q]]
        /\ calls = [q \in Rows |-> calls[q]]
        /\ analysis = [q \in Rows |-> analysis[q]]
    BY RowsAre
  <1>2. RpcInv'
    BY <1>1, PeerKeeps
  <1>3. /\ awaiting' = [awaiting EXCEPT ![r] = next]
        /\ sent' = IF next = Silence THEN sent ELSE sent \cup {next}
    BY DEF HangUp, Send
  <1>4. awaiting = [q \in Peers |-> awaiting[q]]
    BY <1>1 DEF RpcInv, ExchangesInv
  <1>5. /\ task' = [q \in Rows |-> task'[q]] /\ task'[r] = entry
        /\ analysis' = [q \in Rows |-> analysis'[q]]
        /\ \A q \in Rows \ {r} : /\ task'[q] = task[q] /\ analysis'[q] = analysis[q]
                                 /\ awaiting'[q] = awaiting[q]
    <2>1. task' = [q \in Rows |-> task'[q]] /\ task'[r] = entry
          /\ \A q \in Rows \ {r} : task'[q] = task[q]
      BY <1>1
    <2>2. analysis' = [q \in Rows |-> analysis'[q]]
          /\ \A q \in Rows \ {r} : analysis'[q] = analysis[q]
      BY <1>1
    <2>3. \A q \in Rows \ {r} : q \in Peers
      BY AnalysisAssumption
    <2>4. \A q \in Rows \ {r} : awaiting'[q] = awaiting[q]
      BY <1>3, <1>4, <2>3
    <2> QED BY <2>1, <2>2, <2>4
  <1>6. ASSUME NEW q \in Rows
        PROVE  TaskInv(q)' /\ RowInv(q)'
    <2>1. CASE q = r
      BY <2>1
    <2>2. CASE q # r
      <3>1. TaskInv(q) /\ RowInv(q)
        BY DEF AnalysisInv
      <3>2. /\ task'[q] = task[q] /\ analysis'[q] = analysis[q]
            /\ awaiting'[q] = awaiting[q] /\ row'[q] = row[q] /\ calls'[q] = calls[q]
        BY <1>5, <2>2
      <3>3. TaskInv(q)'
        BY <3>1, <3>2 DEF TaskInv
      <3>4. RowInv(q)'
        BY <3>1, <3>2 DEF RowInv
      <3> QED BY <3>3, <3>4
    <2> QED BY <2>1, <2>2
  <1>7. ASSUME NEW c, CallMade(c)
        PROVE  CallMade(c)'
    <2>1. CASE c[1] = r
      BY <1>5, <1>7, <2>1 DEF CallMade
    <2>2. CASE c[1] # r
      BY <1>5, <1>7, <2>2 DEF CallMade
    <2> QED BY <2>1, <2>2
  <1>8. \A m : CallOf(m)' = CallOf(m)
    BY DEF CallOf
  <1>9. ASSUME next # Silence
        PROVE  CallMade(CallOf(next))'
    <2>1. calls[r] \in Nat
      BY <1>1, RpcAssumption DEF TaskInv
    <2>2. next.from = r /\ next.call = calls[r]
      BY <1>9 DEF Begins
    <2> QED BY <1>5, <2>1, <2>2 DEF CallMade, CallOf
  <1>10. \A m \in sent' : m.from \in Rows => CallMade(CallOf(m))'
    BY <1>3, <1>7, <1>8, <1>9 DEF AnalysisInv
  <1>11. \A id \in JobIds : \A c \in owner'[id] : c[1] \in Rows => CallMade(c)'
    BY <1>7 DEF AnalysisInv
  <1> QED BY <1>1, <1>2, <1>5, <1>6, <1>10, <1>11 DEF AnalysisInv

\* The submission is the first exchange of a new call.
LEMMA StartKeeps ==
    ASSUME AnalysisInv, NEW r \in Rows, Start(r)
    PROVE  AnalysisInv'
  <1>1. /\ r \in Peers /\ TaskInv(r) /\ RowInv(r) /\ RpcInv
        /\ task = [q \in Rows |-> task[q]]
        /\ analysis = [q \in Rows |-> analysis[q]]
    BY RowsAre
  <1>2. /\ task[r].pc = "starting" /\ awaiting[r] = Silence
        /\ UNCHANGED <<state, lost, owner, revived, row, calls, analysis>>
    BY <1>1 DEF Start, jobVars, TaskInv
  <1>3. RowInv(r)'
    BY <1>1, <1>2 DEF RowInv
  <1>4. CASE /\ task' = [task EXCEPT ![r].pc = "calling"]
             /\ Ask(r, "submit", NoJob)
    <2>1. PICK m, entry, shown :
             /\ m = Exchange(r, calls[r], "submit", NoJob,
                             [key |-> r, revision |-> task[r].revision])
             /\ entry = [task[r] EXCEPT !.pc = "calling"]
             /\ shown = analysis[r]
      OBVIOUS
    <2>2. [key |-> r, revision |-> task[r].revision] \in Requests
      <3>1. task[r].revision \in 1..MaxRevision
        BY <1>1, <1>2, AnalysisAssumption DEF TaskInv, RowInv
      <3> QED BY <3>1, AnalysisAssumption
    <2>3. calls[r] \in 1..MaxCalls
      BY <1>1, <1>2, RpcAssumption DEF TaskInv
    <2>4. /\ m \in Exchanges /\ m.from = r /\ m.op = "submit" /\ m.call = calls[r]
      BY <1>1, <2>1, <2>2, <2>3 DEF Exchange, Exchanges, Operations
    <2>5. m # Silence
      BY <2>4, NoSilence
    <2>6. Send(r, m)
      BY <1>4, <2>1 DEF Ask
    <2>7. \A id \in JobIds : CallOf(m) \notin owner[id]
      <3>1. ~CallMade(CallOf(m)) /\ CallOf(m)[1] \in Rows
        BY <1>2, <2>3, <2>4 DEF CallMade, CallOf
      <3>2. \A id \in JobIds : \A c \in owner[id] : c[1] \in Rows => CallMade(c)
        BY DEF AnalysisInv
      <3> QED BY <3>1, <3>2
    <2>8. Begins(r, m)
      BY <2>4, <2>7 DEF Begins, Begun
    <2>9. LeavesNothing(r, m)
      BY <1>2 DEF LeavesNothing
    <2>10. /\ task' = [task EXCEPT ![r] = entry] /\ task'[r] = entry
           /\ entry.pc = "calling" /\ entry.revision = task[r].revision
           /\ entry = [pc |-> entry.pc, revision |-> entry.revision,
                       job |-> entry.job, failed |-> entry.failed]
      BY <1>1, <1>4, <2>1 DEF TaskInv
    <2>11. awaiting'[r] = m
      BY <1>1, <2>6 DEF Send, RpcInv, ExchangesInv
    <2>12. TaskInv(r)'
      BY <1>1, <1>2, <2>4, <2>5, <2>10, <2>11 DEF TaskInv
    <2>13. analysis' = [analysis EXCEPT ![r] = shown]
      BY <1>1, <1>2, <2>1
    <2>14. /\ UNCHANGED <<state, owner, revived, row, calls>> /\ lost \subseteq lost'
           /\ entry.pc # "starting"
      BY <1>2, <2>10
    <2> QED BY <1>3, <2>4, <2>5, <2>6, <2>8, <2>9, <2>10, <2>12, <2>13, <2>14, TaskKeeps
  <1>5. CASE /\ task' = [task EXCEPT ![r].pc = "finishing", ![r].failed = TRUE]
             /\ UNCHANGED <<awaiting, sent, answer>>
    <2>1. /\ task' = [q \in Rows |-> task'[q]]
          /\ task'[r] = [task[r] EXCEPT !.pc = "finishing", !.failed = TRUE]
          /\ \A q \in Rows \ {r} : task'[q] = task[q]
      BY <1>1, <1>5
    <2>2. /\ task'[r].pc = "finishing" /\ task'[r].revision = task[r].revision
          /\ task'[r] = [pc |-> task'[r].pc, revision |-> task'[r].revision,
                         job |-> task'[r].job, failed |-> task'[r].failed]
      BY <1>1, <2>1 DEF TaskInv
    <2>3. TaskInv(r)'
      BY <1>1, <1>2, <1>5, <2>2 DEF TaskInv
    <2>4. /\ row = [q \in Rows |-> row[q]] /\ calls = [q \in Rows |-> calls[q]]
      BY RowsAre
    <2> QED BY <1>1, <1>2, <1>3, <1>5, <2>1, <2>2, <2>3, <2>4, RowKeeps
  <1> QED BY <1>4, <1>5 DEF Start

LEMMA GoOnKeeps ==
    ASSUME AnalysisInv, NEW r \in Rows, awaiting[r] # Silence,
           NEW op \in (Operations \ {"submit"}) \cup {"done"}, NEW id, NEW failed, NEW shown,
           GoOn(r, op, id, failed),
           UNCHANGED <<state, owner, revived, row, calls>>, lost \subseteq lost',
           analysis' = [analysis EXCEPT ![r] = shown],
           shown = analysis[r] \/ (row[r].active /\ shown = task[r].revision),
           op # "done" => Known(id),
           op = "release" /\ <<r, calls[r]>> \notin lost' => Ended(id),
           <<r, calls[r]>> \notin lost' =>
              /\ awaiting[r].op = "submit" => answer[r] # Silence
              /\ \A j \in JobIds : Attends(r, j) => Left(j) \/ (op # "done" /\ id = j)
    PROVE  AnalysisInv'
  <1>1. /\ r \in Peers /\ TaskInv(r) /\ RowInv(r) /\ RpcInv
        /\ task = [q \in Rows |-> task[q]]
        /\ analysis = [q \in Rows |-> analysis[q]]
    BY RowsAre
  <1>2. /\ awaiting[r].from = r /\ awaiting[r].call = calls[r] /\ task[r].pc = "calling"
        /\ CallOf(awaiting[r]) = <<r, calls[r]>>
    BY <1>1 DEF TaskInv, RpcInv, ExchangesInv, CallOf
  <1>3. PICK m, entry :
           /\ m = Exchange(r, calls[r], op, id, Nothing)
           /\ entry = [task[r] EXCEPT !.job = id, !.failed = failed,
                         !.pc = IF op = "done" THEN "finishing" ELSE task[r].pc]
    OBVIOUS
  <1>4. calls[r] \in 1..MaxCalls
    BY <1>1, <1>2, RpcAssumption DEF TaskInv
  <1>5. op # "done" =>
          /\ m \in Exchanges /\ m.from = r /\ m.op = op /\ m.call = calls[r] /\ m.job = id
          /\ m # Silence
    <2>1. op # "done" =>
            /\ m \in Exchanges /\ m.from = r /\ m.op = op /\ m.call = calls[r]
            /\ m.job = id
      BY <1>1, <1>3, <1>4 DEF Exchange, Exchanges, Known
    <2> QED BY <2>1, NoSilence
  <1>6. IF op = "done" THEN HangUp(r) ELSE Send(r, m)
    BY <1>3 DEF GoOn, Ask
  <1>7. PICK next : next = IF op = "done" THEN Silence ELSE m
    OBVIOUS
  <1>8. op # "done" => Begins(r, m)
    <2>1. op # "done" => Known(id)'
      BY DEF Known
    <2>2. op = "release" /\ <<r, calls[r]>> \notin lost' => Ended(id)'
      BY DEF Ended
    <2>3. op # "done" => CallOf(m) = <<r, calls[r]>> /\ CallOf(m)' = CallOf(m)
      BY <1>5 DEF CallOf
    <2> QED BY <1>5, <2>1, <2>2, <2>3 DEF Begins, Begun
  <1>9. IF next = Silence THEN HangUp(r) ELSE Send(r, next) /\ Begins(r, next)
    BY <1>5, <1>6, <1>7, <1>8
  <1>10. LeavesNothing(r, next)
    BY <1>2, <1>5, <1>7 DEF LeavesNothing
  <1>11. task' = [task EXCEPT ![r] = entry] /\ task'[r] = entry
    BY <1>1, <1>3 DEF GoOn
  <1>12. /\ entry.pc = IF op = "done" THEN "finishing" ELSE "calling"
         /\ entry.revision = task[r].revision /\ entry.job = id
         /\ entry = [pc |-> entry.pc, revision |-> entry.revision,
                     job |-> entry.job, failed |-> entry.failed]
    BY <1>1, <1>2, <1>3 DEF TaskInv
  <1>13. awaiting'[r] = next
    BY <1>1, <1>9 DEF HangUp, Send, RpcInv, ExchangesInv
  <1>14. TaskInv(r)'
    BY <1>1, <1>2, <1>5, <1>7, <1>11, <1>12, <1>13 DEF TaskInv
  <1>15. analysis'[r] = shown
    BY <1>1
  <1>16. RowInv(r)'
    BY <1>1, <1>2, <1>15 DEF RowInv, TaskInv
  <1>17. entry.pc # "starting" /\ (next # Silence => next.call = calls[r])
    BY <1>5, <1>7, <1>12
  <1> QED BY <1>9, <1>10, <1>11, <1>14, <1>16, <1>17, TaskKeeps

\* After an answer, or without it.
LEMMA ContinueKeeps ==
    ASSUME AnalysisInv, NEW r \in Rows, NEW op \in Operations, Waits(r, op),
           NEW code, NEW id, Continue(r, op, code, id), lost \subseteq lost',
           IF code = "unavailable" THEN op = "wait" \/ <<r, calls[r]>> \in lost'
           ELSE answer[r] # Silence /\ answer[r].code = code /\ answer[r].job = id
    PROVE  AnalysisInv'
  <1>1. /\ r \in Peers /\ TaskInv(r) /\ RowInv(r) /\ RpcInv
        /\ analysis = [q \in Rows |-> analysis[q]]
        /\ awaiting[r] # Silence /\ awaiting[r].op = op
    BY RowsAre DEF Waits
  <1>2. /\ UNCHANGED <<state, owner, revived, row, calls>>
    BY DEF Continue, jobVars
  <1>3. /\ Begun(awaiting[r])
        /\ op # "submit" => awaiting[r].job = task[r].job /\ Known(task[r].job)
    BY <1>1 DEF TaskInv, RpcInv, ExchangesInv, Begun
  <1>4. code # "unavailable" => Holds(awaiting[r], answer[r])
    BY <1>1 DEF RpcInv, ExchangesInv
  <1>5. op # "submit" => \A j : Attends(r, j) => j = task[r].job
    BY <1>1, <1>3 DEF Attends
  <1>6. ASSUME <<r, calls[r]>> \notin lost', op = "submit"
        PROVE  /\ answer[r] # Silence
               /\ \A j : Attends(r, j) => code = "accepted" /\ id = j
    BY <1>1, <1>6 DEF Attends
  <1>7. PICK shown : shown = analysis[r]
    OBVIOUS
  <1>8. UNCHANGED analysis => analysis' = [analysis EXCEPT ![r] = shown]
    BY <1>1, <1>7
  <1>9. CASE op = "submit"
    <2>1. AfterSubmit(r, code, id)
      BY <1>9 DEF Continue
    <2>2. UNCHANGED analysis
      BY <2>1 DEF AfterSubmit
    <2>3. CASE code # "accepted"
      <3>1. GoOn(r, "done", NoJob, TRUE)
        BY <2>1, <2>3 DEF AfterSubmit
      <3> QED BY <1>1, <1>2, <1>6, <1>7, <1>8, <1>9, <2>2, <2>3, <3>1, GoOnKeeps
              DEF Operations
    <2>4. CASE code = "accepted"
      <3>1. Known(id)
        BY <1>1, <1>4, <1>9, <2>4 DEF Holds
      <3>2. ASSUME NEW then \in {"status", "wait"}, NEW failed, GoOn(r, then, id, failed)
            PROVE  AnalysisInv'
        <4>1. then \in (Operations \ {"submit"}) \cup {"done"}
              /\ then # "done" /\ then # "release"
          BY DEF Operations
        <4> QED BY <1>1, <1>2, <1>6, <1>7, <1>8, <1>9, <2>2, <3>1, <3>2, <4>1, GoOnKeeps
      <3>3. GoOn(r, "status", id, TRUE) \/ GoOn(r, "wait", id, FALSE)
        BY <2>1, <2>4 DEF AfterSubmit
      <3> QED BY <3>2, <3>3
    <2> QED BY <2>3, <2>4
  <1>10. PICK job : job = task[r].job
    OBVIOUS
  <1>11. ASSUME op # "submit", NEW then \in (Operations \ {"submit"}) \cup {"done"},
                NEW failed, GoOn(r, then, job, failed), NEW seen,
                analysis' = [analysis EXCEPT ![r] = seen],
                seen = analysis[r] \/ (row[r].active /\ seen = task[r].revision),
                then = "release" /\ <<r, calls[r]>> \notin lost' => Ended(job),
                then = "done" /\ <<r, calls[r]>> \notin lost' => Left(job)
         PROVE  AnalysisInv'
    BY <1>1, <1>2, <1>3, <1>5, <1>10, <1>11, GoOnKeeps
  <1>12. CASE op = "wait"
    <2>1. AfterWait(r, code)
      BY <1>12 DEF Continue
    <2>2. PICK failed : GoOn(r, "status", job, failed)
      BY <1>10, <2>1 DEF AfterWait
    <2>3. PICK seen : /\ analysis' = [analysis EXCEPT ![r] = seen]
                      /\ seen = analysis[r] \/ (row[r].active /\ seen = task[r].revision)
      BY <1>1, <2>1 DEF AfterWait
    <2>4. /\ "status" \in (Operations \ {"submit"}) \cup {"done"} /\ op # "submit"
          /\ "status" # "done" /\ "status" # "release"
      BY <1>12 DEF Operations
    <2> QED BY <1>11, <2>2, <2>3, <2>4
  <1>13. CASE op = "status"
    <2>1. AfterStatus(r, code)
      BY <1>13 DEF Continue
    <2>2. UNCHANGED analysis
      BY <2>1 DEF AfterStatus
    <2>3. code \in FinalStates => Over(job, code)
      BY <1>1, <1>3, <1>4, <1>10, <1>13 DEF Holds, FinalStates
    <2>4. PICK then, failed :
             /\ then = IF code \notin FinalStates THEN "cancel"
                       ELSE IF code # "failed" THEN "release" ELSE "done"
             /\ GoOn(r, then, job, failed)
      BY <1>10, <2>1 DEF AfterStatus
    <2>5. then = "release" => Ended(job)
      BY <2>3, <2>4 DEF Over, Ended, FinalStates
    <2>6. then = "done" => Left(job)
      BY <2>3, <2>4 DEF Over, Left
    <2>7. then \in (Operations \ {"submit"}) \cup {"done"}
      BY <2>4 DEF Operations
    <2> QED BY <1>7, <1>8, <1>11, <1>13, <2>2, <2>4, <2>5, <2>6, <2>7
  <1>14. CASE op = "cancel"
    <2>1. AfterCancel(r)
      BY <1>14 DEF Continue
    <2>2. UNCHANGED analysis /\ GoOn(r, "release", job, task[r].failed)
      BY <1>10, <2>1 DEF AfterCancel
    <2>3. PICK failed : failed = task[r].failed
      OBVIOUS
    <2>4. <<r, calls[r]>> \notin lost' => Ended(job)
      BY <1>1, <1>3, <1>4, <1>10, <1>14 DEF Holds
    <2> QED BY <1>7, <1>8, <1>11, <1>14, <2>2, <2>3, <2>4 DEF Operations
  <1>15. CASE op = "release"
    <2>1. AfterRelease(r)
      BY <1>15 DEF Continue
    <2>2. UNCHANGED analysis /\ GoOn(r, "done", job, task[r].failed)
      BY <1>10, <2>1 DEF AfterRelease
    <2>3. PICK failed : failed = task[r].failed
      OBVIOUS
    <2>4. ASSUME <<r, calls[r]>> \notin lost'
          PROVE  Left(job)
      <3>1. Holds(awaiting[r], answer[r]) /\ answer[r].code = code
        BY <1>4, <1>15, <2>4
      <3>2. CallOf(awaiting[r]) = <<r, calls[r]>>
        BY <1>1 DEF TaskInv, RpcInv, ExchangesInv, CallOf
      <3>3. CallOf(awaiting[r]) \notin lost
        BY <2>4, <3>2
      <3> QED BY <1>1, <1>3, <1>10, <1>15, <3>1, <3>3 DEF Holds, Left
    <2> QED BY <1>7, <1>8, <1>11, <1>15, <2>2, <2>3, <2>4
  <1> QED BY <1>9, <1>12, <1>13, <1>14, <1>15 DEF Operations

LEMMA ReplyKeeps ==
    ASSUME AnalysisInv, NEW r \in Rows, ReadReply(r) \/ MissReply(r)
    PROVE  AnalysisInv'
  <1>1. CASE ReadReply(r)
    <2>1. PICK op \in Operations :
             Heard(r, op) /\ Continue(r, op, answer[r].code, answer[r].job)
      BY <1>1 DEF ReadReply
    <2>2. PICK code, id : code = answer[r].code /\ id = answer[r].job
      OBVIOUS
    <2>3. /\ Waits(r, op) /\ answer[r] # Silence /\ Continue(r, op, code, id)
          /\ lost' = lost
      BY <1>1, <2>1, <2>2 DEF Heard, ReadReply
    <2>4. code # "unavailable"
      <3>1. RpcInv /\ r \in Peers /\ op = awaiting[r].op
        BY <2>3, RowsAre DEF Waits
      <3>2. Holds(awaiting[r], answer[r])
        BY <2>3, <3>1 DEF RpcInv, ExchangesInv
      <3> QED BY <2>1, <2>2, <3>1, <3>2
              DEF Holds, Operations, TableStates, LiveStates, FinalStates
    <2> QED BY <2>2, <2>3, <2>4, ContinueKeeps
  <1>2. CASE MissReply(r)
    <2>1. PICK op \in Operations :
             /\ Waits(r, op)
             /\ Continue(r, op, "unavailable", NoJob)
             /\ lost' = IF op = "wait" THEN lost ELSE lost \cup {<<r, calls[r]>>}
      BY <1>2 DEF MissReply
    <2> QED BY <2>1, ContinueKeeps
  <1> QED BY <1>1, <1>2

LEMMA ServiceStutter ==
    ASSUME AnalysisInv, Stop \/ UNCHANGED analysisVars
    PROVE  AnalysisInv'
  <1>1. UNCHANGED <<state, awaiting, sent, answer, lost, owner, revived, row, task,
                    calls, analysis>>
    BY DEF Stop, analysisVars, serviceVars, rpcVars, jobVars
  <1>2. RpcInv'
    BY <1>1, RpcStutter DEF AnalysisInv
  <1>3. \A r \in Rows : TaskInv(r)' /\ RowInv(r)'
    BY <1>1 DEF AnalysisInv, TaskInv, RowInv
  <1>4. \A m : CallOf(m)' = CallOf(m)
    BY DEF CallOf
  <1> QED BY <1>1, <1>2, <1>3, <1>4 DEF AnalysisInv, CallMade

LEMMA AnalysisStarts ==
    ASSUME AnalysisInit
    PROVE  AnalysisInv
  <1>1. RpcInv
    BY RpcStarts DEF AnalysisInit
  <1>2. MaxCalls \in Nat /\ MaxRevision \in Nat \ {0} /\ Rows \subseteq Peers
    BY AnalysisAssumption, RpcAssumption
  <1>3. 0 \in 0..MaxCalls /\ 1 \in 1..MaxRevision
    BY <1>2
  <1>4. ASSUME NEW r \in Rows
        PROVE  TaskInv(r) /\ RowInv(r)
    <2>1. task[r] = Idle /\ calls[r] = 0 /\ awaiting[r] = Silence
      BY <1>2 DEF AnalysisInit, RpcInit
    <2>2. row[r] = [revision |-> 1, active |-> TRUE] /\ analysis[r] = 0
      BY DEF AnalysisInit
    <2>3. TaskInv(r)
      BY <1>3, <2>1 DEF TaskInv, Idle
    <2> QED BY <1>3, <2>2, <2>3 DEF RowInv
  <1> QED BY <1>1, <1>4 DEF AnalysisInit, RpcInit, AnalysisInv

\* Another client's step is nothing to an analysis.
LEMMA OtherPeersAnalyse ==
    ASSUME AnalysisInv, RpcInv', UNCHANGED serviceVars, NEW p, p \notin Rows,
           MovesAlone(p)
    PROVE  AnalysisInv'
  <1>1. UNCHANGED <<owner, row, task, calls, analysis>>
    BY DEF MovesAlone, serviceVars
  <1>2. ASSUME NEW r \in Rows
        PROVE  TaskInv(r)' /\ RowInv(r)'
    <2>1. TaskInv(r) /\ RowInv(r) /\ r \in Peers \ {p}
      BY AnalysisAssumption DEF AnalysisInv
    <2>2. awaiting'[r] = awaiting[r]
      BY <2>1 DEF MovesAlone
    <2> QED BY <1>1, <2>1, <2>2 DEF TaskInv, RowInv
  <1>3. \A c : CallMade(c) => CallMade(c)'
    BY <1>1 DEF CallMade
  <1>4. \A m : CallOf(m)' = CallOf(m)
    BY DEF CallOf
  <1>5. \A m \in sent' : m.from \in Rows => CallMade(CallOf(m))'
    BY <1>3, <1>4 DEF AnalysisInv, MovesAlone
  <1>6. \A id \in JobIds : \A c \in owner'[id] : c[1] \in Rows => CallMade(c)'
    BY <1>1, <1>3 DEF AnalysisInv
  <1> QED BY <1>1, <1>2, <1>5, <1>6 DEF AnalysisInv

-----------------------------------------------------------------------------
(* All of them. *)

LEMMA CallerMovesAlone ==
    ASSUME RpcInv, NEW p \in Callers, StartCall(p) \/ ReadAnswer(p) \/ GiveUp(p)
    PROVE  MovesAlone(p)
  <1>1. p \in Peers /\ UNCHANGED <<state, owner, revived>>
    BY CallAssumption DEF StartCall, ReadAnswer, GiveUp, jobVars
  <1>2. \A c \in lost' \ lost : c[1] = p
    BY DEF StartCall, ReadAnswer, GiveUp
  <1>3. ASSUME NEW op, NEW code, NEW id, Proceed(p, op, code, id)
        PROVE  \E next : HangUp(p) \/ (Send(p, next) /\ next.from = p)
    BY <1>3 DEF Proceed, Exchange
  <1>4. \E next : HangUp(p) \/ (Send(p, next) /\ next.from = p)
    BY <1>3 DEF StartCall, ReadAnswer, GiveUp, Exchange
  <1> QED BY <1>1, <1>2, <1>4, PeerMovesAlone

LEMMA TaskMovesAlone ==
    ASSUME RpcInv, NEW r \in Rows,
           Republish(r) \/ Resolve(r) \/ Admit(r) \/ TaskStep(r)
    PROVE  MovesAlone(r)
  <1>1. r \in Peers
    BY AnalysisAssumption
  <1>2. CASE UNCHANGED <<jobVars, awaiting, sent, answer, lost, owner, revived>>
    BY <1>2 DEF MovesAlone, jobVars
  <1>3. CASE Start(r) /\ Ask(r, "submit", NoJob)
    <2>1. UNCHANGED <<state, owner, revived, lost>>
      BY <1>3 DEF Start, jobVars
    <2>2. \E next : Send(r, next) /\ next.from = r
      BY <1>3 DEF Ask, Exchange
    <2> QED BY <1>1, <2>1, <2>2, PeerMovesAlone
  <1>4. ASSUME NEW op, NEW id, NEW failed, GoOn(r, op, id, failed)
        PROVE  \E next : HangUp(r) \/ (Send(r, next) /\ next.from = r)
    BY <1>4 DEF GoOn, Ask, Exchange
  <1>5. ASSUME NEW op \in Operations, NEW code, NEW id, Continue(r, op, code, id)
        PROVE  /\ UNCHANGED <<state, owner, revived>>
               /\ \E next : HangUp(r) \/ (Send(r, next) /\ next.from = r)
    <2>1. UNCHANGED <<state, owner, revived>>
      BY <1>5 DEF Continue, jobVars
    <2>2. \E then, job, failed : GoOn(r, then, job, failed)
      BY <1>5 DEF Continue, Operations, AfterSubmit, AfterWait, AfterStatus,
                  AfterCancel, AfterRelease
    <2> QED BY <1>4, <2>1, <2>2
  <1>6. CASE ReadReply(r) \/ MissReply(r)
    <2>1. \E op \in Operations : \E code, id : Continue(r, op, code, id)
      BY <1>6 DEF ReadReply, MissReply
    <2>2. \A c \in lost' \ lost : c[1] = r
      BY <1>6 DEF ReadReply, MissReply
    <2> QED BY <1>1, <1>5, <2>1, <2>2, PeerMovesAlone
  <1> QED BY <1>2, <1>3, <1>6
          DEF Republish, Resolve, Admit, TaskStep, Start, Finish, rpcVars

LEMMA ClientsKeep ==
    ASSUME ClientsInv, [ClientsNext]_clientVars
    PROVE  ClientsInv'
  <1>1. CallInv /\ AnalysisInv /\ RpcInv
    BY DEF ClientsInv, CallInv
  <1>2. ASSUME NEW p \in Peers, MovesAlone(p), p \in Callers \cup Rows
        PROVE  OnlyClients'
    BY <1>2 DEF ClientsInv, OnlyClients, MovesAlone
  <1>3. CASE RpcNext /\ UNCHANGED <<call, serviceVars>>
    <2>1. RpcInv' /\ BrokerSide
      BY <1>1, <1>3, RpcKeeps
    <2>2. CallInv' /\ AnalysisInv'
      BY <1>1, <1>3, CallersWait, AnalysesWait
    <2>3. \A m \in sent' : m.from \in Callers \cup Rows
      BY <2>1 DEF BrokerSide, ClientsInv, OnlyClients
    <2>4. ASSUME NEW id \in JobIds, NEW c \in owner'[id]
          PROVE  c[1] \in Callers \cup Rows
      <3>1. CASE c \in owner[id]
        BY <3>1 DEF ClientsInv, OnlyClients
      <3>2. CASE c \notin owner[id]
        <4>1. PICK m \in sent : c = CallOf(m)
          BY <1>1, <1>3, <2>4, <3>2, OwnersGrow
        <4> QED BY <4>1 DEF ClientsInv, OnlyClients, CallOf
      <3> QED BY <3>1, <3>2
    <2> QED BY <2>2, <2>3, <2>4 DEF ClientsInv, OnlyClients
  <1>4. ASSUME NEW p \in Callers, StartCall(p) \/ ReadAnswer(p) \/ GiveUp(p),
               UNCHANGED serviceVars
        PROVE  ClientsInv'
    <2>1. CallInv'
      BY <1>1, <1>4, StartCallKeeps, ProgramKeeps
    <2>2. MovesAlone(p)
      BY <1>1, <1>4, CallerMovesAlone
    <2>3. p \in Peers /\ p \notin Rows
      BY CallAssumption, ClientsAssumption
    <2>4. RpcInv'
      BY <2>1 DEF CallInv
    <2>5. AnalysisInv'
      BY <1>1, <1>4, <2>2, <2>3, <2>4, OtherPeersAnalyse
    <2> QED BY <1>2, <2>1, <2>2, <2>3, <2>5 DEF ClientsInv
  <1>5. ASSUME NEW r \in Rows, Republish(r) \/ Resolve(r) \/ Admit(r) \/ TaskStep(r),
               UNCHANGED call
        PROVE  ClientsInv'
    <2>1. AnalysisInv'
      BY <1>1, <1>5, InboxKeeps, StartKeeps, ReplyKeeps DEF TaskStep
    <2>2. MovesAlone(r)
      BY <1>1, <1>5, TaskMovesAlone
    <2>3. r \in Peers /\ r \notin Callers
      BY AnalysisAssumption, ClientsAssumption
    <2>4. RpcInv'
      BY <2>1 DEF AnalysisInv
    <2>5. CallInv'
      BY <1>1, <1>5, <2>2, <2>3, <2>4, OtherPeersCall
    <2> QED BY <1>2, <2>1, <2>2, <2>3, <2>5 DEF ClientsInv
  <1>6. ASSUME UNCHANGED <<rpcVars, call>>, Stop \/ UNCHANGED analysisVars
        PROVE  ClientsInv'
    <2>1. CallInv' /\ AnalysisInv'
      BY <1>1, <1>6, CallStutter, ServiceStutter DEF callVars
    <2>2. UNCHANGED <<sent, owner>>
      BY <1>6 DEF rpcVars
    <2> QED BY <2>1, <2>2 DEF ClientsInv, OnlyClients
  <1>7. CASE CallNext /\ UNCHANGED serviceVars
    BY <1>3, <1>4, <1>7 DEF CallNext
  <1>8. CASE AnalysisNext /\ UNCHANGED call
    <2>1. Stop => UNCHANGED rpcVars
      BY DEF Stop
    <2> QED BY <1>3, <1>5, <1>6, <1>8, <2>1 DEF AnalysisNext
  <1>9. CASE UNCHANGED clientVars
    BY <1>6, <1>9 DEF clientVars, analysisVars
  <1> QED BY <1>7, <1>8, <1>9 DEF ClientsNext

LEMMA ClientsStart ==
    ASSUME ClientsInit
    PROVE  ClientsInv
  <1>1. CallInv /\ AnalysisInv
    BY CallStarts, AnalysisStarts DEF ClientsInit
  <1>2. sent = {} /\ \A id \in JobIds : owner[id] = {}
    BY DEF ClientsInit, CallInit, RpcInit
  <1> QED BY <1>1, <1>2 DEF ClientsInv, OnlyClients

\* The exchanges with the broker, the jobs they made and what each client knows
\* of its own agree in every state, for any programs, findings, jobs, requests,
\* capacity, concurrency and number of restarts.
THEOREM ClientsAlways == ClientsSpec => []ClientsInv
  <1>1. ClientsInit => ClientsInv
    BY ClientsStart
  <1>2. ClientsInv /\ [ClientsNext]_clientVars => ClientsInv'
    BY ClientsKeep
  <1> QED BY <1>1, <1>2, PTL DEF ClientsSpec

\* A client that is done has left nothing in the job table but failures, what
\* the user or a newer revision made of them, and the price of lost answers.
THEOREM AccountedAlways == ClientsSpec => []RetainedIsAccounted
  <1>1. ASSUME ClientsInv, NEW id \in Table
        PROVE  \/ state[id] \in {"failed", "superseded"} \/ id \in revived
               \/ \E c \in owner[id] : c \in lost \/ StillAtIt(c)
    <2>1. id \in JobIds /\ state[id] \notin {"unused", "released"}
      BY DEF Table, TableStates, LiveStates, FinalStates
    <2>2. RpcInv /\ CallInv /\ AnalysisInv
      BY <1>1 DEF ClientsInv, CallInv
    <2>3. PICK c \in owner[id] : TRUE
      BY <2>1, <2>2 DEF RpcInv, JobsInv
    <2>4. c \in lost \/ SeenTo(c[1], c[2], id)
      BY <2>1, <2>2 DEF RpcInv, OwnersInv
    <2>5. c[1] \in Callers \cup Rows
      BY <1>1, <2>1 DEF ClientsInv, OnlyClients
    <2>6. c[1] \in Callers /\ awaiting[c[1]] # Silence => call[c[1]].pc # "done"
      BY <2>2 DEF CallInv, CallerInv
    <2>7. c[1] \in Rows /\ awaiting[c[1]] # Silence =>
            task[c[1]].pc = "calling" /\ awaiting[c[1]].call = calls[c[1]]
      BY <2>2 DEF AnalysisInv, TaskInv
    <2>8. SeenTo(c[1], c[2], id) => Left(id) \/ StillAtIt(c)
      BY <2>5, <2>6, <2>7 DEF SeenTo, StillAtIt
    <2> QED BY <2>1, <2>4, <2>8 DEF Left
  <1>2. ClientsInv => RetainedIsAccounted
    BY <1>1 DEF RetainedIsAccounted
  <1> QED BY <1>2, ClientsAlways, PTL

\* What a call returned about its job stays true.
THEOREM VerdictAlways == ClientsSpec => []VerdictStands
  <1>1. ClientsInv => VerdictStands
    BY DEF ClientsInv, CallInv, CallerInv, Over, VerdictStands
  <1> QED BY <1>1, ClientsAlways, PTL

\* The release of a caller reaches the broker only for a job that did not fail.
THEOREM FailuresAlways == ClientsSpec => FailuresStay
  <1>1. ASSUME ClientsInv
        PROVE  \A m \in sent \ sent' :
                 /\ m.from \in Callers
                 /\ m.op = "release"
                 /\ state[m.job] = "failed"
                 => state'[m.job] = "failed"
    BY <1>1 DEF ClientsInv, CallInv, NotFailed
  <1>2. ClientsInv /\ [ClientsNext]_clientVars =>
          [\A m \in sent \ sent' :
             /\ m.from \in Callers
             /\ m.op = "release"
             /\ state[m.job] = "failed"
             => state'[m.job] = "failed"]_callVars
    BY <1>1
  <1> QED BY <1>2, ClientsAlways, PTL DEF ClientsSpec, FailuresStay

\* An analysis is shown only with an unresolved finding, and never claims a
\* revision that the finding has not reached.
THEOREM FitsAlways == ClientsSpec => []AnalysisFitsRow
  <1>1. ASSUME AnalysisInv, NEW r \in Rows, analysis[r] # 0
        PROVE  row[r].active /\ analysis[r] <= row[r].revision
    <2>1. RowInv(r) /\ row[r].revision \in Nat
      BY <1>1, AnalysisAssumption DEF AnalysisInv, RowInv
    <2> QED BY <1>1, <2>1 DEF RowInv
  <1>2. ClientsInv => AnalysisFitsRow
    BY <1>1 DEF ClientsInv, AnalysisFitsRow
  <1> QED BY <1>2, ClientsAlways, PTL
=============================================================================
