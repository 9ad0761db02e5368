------------------------- MODULE MaintenanceAnalysis -------------------------
(***************************************************************************)
(* The analysis of maintenance findings: Service::analyze of               *)
(* projects/maintenance/src/service.rs, one thread per finding that was    *)
(* asked for, with the broker it submits to and the publications that      *)
(* change or resolve the finding meanwhile.                                *)
(*                                                                         *)
(* A peer of the broker is the thread of a row, and the row is the item of *)
(* its requests.  The inbox is its rows' revisions; Inbox models the rest. *)
(***************************************************************************)
EXTENDS BrokerRpc

CONSTANTS
    Rows,          \* the findings: each is a peer, and an item of requests
    MaxRevision    \* bound: publications of a row that change it

ASSUME AnalysisAssumption ==
    /\ Rows \subseteq Peers \cap Keys
    /\ MaxRevision \in Nat \ {0}
    /\ [key : Rows, revision : 1..MaxRevision] \subseteq Requests

VARIABLES
    row,        \* revision of each finding, and whether it is unresolved
    task,       \* the analysis thread of each row
    calls,      \* how many analyses of each row were admitted
    analysis,   \* the revision whose analysis a row shows, 0 for none
    advice,     \* the revision whose analysis last failed, 0 for none: the
                \* row says "Analysis unavailable; retry explicitly"
    stopped     \* the stop signal

serviceVars == <<row, task, calls, analysis, advice, stopped>>
analysisVars == <<rpcVars, serviceVars>>

Idle == [pc |-> "idle", revision |-> 0, job |-> NoJob, failed |-> FALSE]

-----------------------------------------------------------------------------
(* The inbox, as far as an analysis sees it. *)

\* A changed publication: Inbox::publish.
Republish(r) ==
    /\ row[r].revision < MaxRevision
    /\ row' = [row EXCEPT ![r] = [revision |-> @.revision + 1, active |-> TRUE]]
    /\ UNCHANGED <<rpcVars, task, calls, analysis, advice, stopped>>

\* The condition is gone, or the user is done with the notice.
Resolve(r) ==
    /\ row[r].active
    /\ row' = [row EXCEPT ![r].active = FALSE]
    /\ analysis' = [analysis EXCEPT ![r] = 0]
    /\ UNCHANGED <<rpcVars, task, calls, advice, stopped>>

Current(r) == row[r].active /\ row[r].revision = task[r].revision

\* The request of the user: one task per row, none once the service stops.
Admit(r) ==
    /\ ~stopped
    /\ row[r].active
    /\ task[r].pc = "idle"
    /\ calls[r] < MaxCalls
    /\ calls' = [calls EXCEPT ![r] = @ + 1]
    /\ task' = [task EXCEPT ![r] = [Idle EXCEPT !.pc = "starting",
                                                !.revision = row[r].revision]]
    /\ UNCHANGED <<rpcVars, row, analysis, advice, stopped>>

-----------------------------------------------------------------------------
(* analyze(). *)

Ask(r, op, id) ==
    Send(r, Exchange(r, calls[r], op, id,
                     IF op = "submit"
                     THEN [key |-> r, revision |-> task[r].revision]
                     ELSE Nothing))

\* analysis_request and the checks before it.
Start(r) ==
    /\ task[r].pc = "starting"
    /\ \/ /\ Current(r) /\ ~stopped
          /\ task' = [task EXCEPT ![r].pc = "calling"]
          /\ Ask(r, "submit", NoJob)
       \/ /\ ~Current(r) \/ stopped
          /\ task' = [task EXCEPT ![r].pc = "finishing", ![r].failed = TRUE]
          /\ UNCHANGED <<awaiting, sent, answer>>
    /\ UNCHANGED <<jobVars, lost, owner, revived, restarts, row, calls,
                   analysis, advice, stopped>>

\* The exchange that follows: op = "done" ends the task.
GoOn(r, op, id, failed) ==
    /\ task' = [task EXCEPT ![r].job = id, ![r].failed = failed,
                            ![r].pc = IF op = "done" THEN "finishing" ELSE @]
    /\ IF op = "done" THEN HangUp(r) ELSE Ask(r, op, id)

AfterSubmit(r, code, id) ==
    /\ IF code # "accepted" THEN GoOn(r, "done", NoJob, TRUE)
       ELSE IF stopped THEN GoOn(r, "status", id, TRUE)
       ELSE GoOn(r, "wait", id, FALSE)
    /\ UNCHANGED analysis

\* Mutant of AfterWait: the row is not looked at again.
AfterWaitUnchecked(r, code) ==
    \/ /\ code = "succeeded"
       /\ analysis' = [analysis EXCEPT ![r] = task[r].revision]
       /\ GoOn(r, "status", task[r].job, FALSE)
    \/ /\ UNCHANGED analysis
       /\ GoOn(r, "status", task[r].job, TRUE)

\* A result that validates goes to the row if that is still unresolved; any
\* other answer, and a result that does not validate, is a failure.
AfterWait(r, code) ==
    \/ /\ code = "succeeded"
       /\ analysis' = IF row[r].active
                      THEN [analysis EXCEPT ![r] = task[r].revision]
                      ELSE analysis
       /\ GoOn(r, "status", task[r].job, FALSE)
    \/ /\ UNCHANGED analysis
       /\ GoOn(r, "status", task[r].job, TRUE)

\* Mutant of AfterStatus: a job that still runs is left to the broker.
AfterStatusKeepingLive(r, code) ==
    /\ GoOn(r, IF code \in FinalStates \ {"failed"} THEN "release" ELSE "done",
             task[r].job, task[r].failed)
    /\ UNCHANGED analysis

\* No answer, or no such job, counts as a job that is not final.
AfterStatus(r, code) ==
    /\ GoOn(r, IF code \notin FinalStates THEN "cancel"
                ELSE IF code # "failed" THEN "release" ELSE "done",
             task[r].job, task[r].failed)
    /\ UNCHANGED analysis

\* The answers to cancel and release are not looked at.
AfterCancel(r) == GoOn(r, "release", task[r].job, task[r].failed) /\ UNCHANGED analysis
AfterRelease(r) == GoOn(r, "done", task[r].job, task[r].failed) /\ UNCHANGED analysis

Continue(r, op, code, id) ==
    /\ CASE op = "submit" -> AfterSubmit(r, code, id)
         [] op = "wait" -> AfterWait(r, code)
         [] op = "status" -> AfterStatus(r, code)
         [] op = "cancel" -> AfterCancel(r)
         [] op = "release" -> AfterRelease(r)
    /\ UNCHANGED <<jobVars, owner, revived, restarts, row, calls, advice, stopped>>

ReadReply(r) ==
    /\ \E op \in Operations :
          Heard(r, op) /\ Continue(r, op, answer[r].code, answer[r].job)
    /\ UNCHANGED lost

\* Deadlines: 10 s for submit, an hour for wait, 5 s for the others.  The stop
\* signal ends a wait only.
MissReply(r) ==
    \E op \in Operations :
       /\ Waits(r, op)
       /\ Continue(r, op, "unavailable", NoJob)
       /\ lost' = IF op = "wait" THEN lost ELSE lost \cup {<<r, calls[r]>>}

\* The outcome, and the end of the task.
Finish(r) ==
    /\ task[r].pc = "finishing"
    /\ advice' = [advice EXCEPT ![r] = IF task[r].failed /\ ~stopped
                                       THEN task[r].revision ELSE 0]
    /\ task' = [task EXCEPT ![r] = Idle]
    /\ UNCHANGED <<rpcVars, row, calls, analysis, stopped>>

Stop ==
    /\ ~stopped
    /\ stopped' = TRUE
    /\ UNCHANGED <<rpcVars, row, task, calls, analysis, advice>>

AnalysisInit ==
    /\ RpcInit
    /\ row = [r \in Rows |-> [revision |-> 1, active |-> TRUE]]
    /\ task = [r \in Rows |-> Idle]
    /\ calls = [r \in Rows |-> 0]
    /\ analysis = [r \in Rows |-> 0]
    /\ advice = [r \in Rows |-> 0]
    /\ stopped = FALSE

TaskStep(r) == Start(r) \/ ReadReply(r) \/ MissReply(r) \/ Finish(r)

AnalysisNext ==
    \/ \E r \in Rows : Republish(r) \/ Resolve(r) \/ Admit(r) \/ TaskStep(r)
    \/ Stop
    \/ RpcNext /\ UNCHANGED serviceVars

AnalysisSpec == AnalysisInit /\ [][AnalysisNext]_analysisVars

-----------------------------------------------------------------------------

\* An analysis is shown only with an unresolved finding, and never claims a
\* revision the finding has not reached: a result that arrives after the
\* finding was resolved, or resolved and published again, cannot pass for an
\* analysis of it.
AnalysisFitsRow ==
    \A r \in Rows : analysis[r] # 0 =>
        row[r].active /\ analysis[r] <= row[r].revision

\* "Analysis unavailable; retry explicitly": the broker would take the
\* analysis of the unchanged finding again (no answer having been lost).
RetryIsPossible ==
    \A r \in Rows :
        /\ row[r].active /\ advice[r] = row[r].revision
        /\ task[r].pc = "idle" /\ ~stopped /\ open
        /\ \A n \in 1..MaxCalls : <<r, n>> \notin lost
        => Fresh([key |-> r, revision |-> row[r].revision])
=============================================================================
