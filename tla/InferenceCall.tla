---------------------------- MODULE InferenceCall ----------------------------
(***************************************************************************)
(* call() of projects/runtime/src/inference.rs, through which every        *)
(* command line program asks for inference: submit, wait until a deadline  *)
(* or a signal, then clean up in the broker and return.                    *)
(***************************************************************************)
EXTENDS BrokerRpc

CONSTANTS
    Callers,  \* the programs, which are peers and call once each
    Asked     \* Asked[p]: the request of program p

ASSUME CallAssumption == Callers \subseteq Peers /\ Asked \in [Callers -> Requests]

VARIABLE call     \* each call's progress, its job, and what it will return

callVars == <<rpcVars, call>>

\* Mutant of After: a job that ended before its cancellation is released
\* without asking how it ended.
AfterReleasingBlindly(op, code) ==
    CASE op = "submit" /\ code = "accepted" -> {"wait", "cancel"}
      [] op = "wait" /\ code \notin FinalStates -> {"cancel"}
      [] op = "wait" /\ code \in FinalStates \ {"failed"} -> {"release"}
      [] op = "cancel" /\ code \in {"ok", "invalid_state"} -> {"release"}
      [] OTHER -> {"done"}

\* Mutant of After: an interrupted or expired wait is not cleaned up.
AfterWithoutCleanup(op, code) ==
    CASE op = "submit" /\ code = "accepted" -> {"wait"}
      [] op = "wait" /\ code \in FinalStates \ {"failed"} -> {"release"}
      [] OTHER -> {"done"}

\* What may follow an exchange: the program may be told to stop before it
\* waits, and then cancels.  A failure stays, for the user to retry.
After(op, code) ==
    CASE op = "submit" /\ code = "accepted" -> {"wait", "cancel"}
      [] op = "wait" /\ code \notin FinalStates -> {"cancel"}
      [] op = "wait" /\ code \in FinalStates \ {"failed"} -> {"release"}
      [] op = "cancel" /\ code = "ok" -> {"release"}
      [] op = "cancel" /\ code = "invalid_state" -> {"status"}
      [] op = "status" /\ code \in FinalStates \ {"failed"} -> {"release"}
      [] OTHER -> {"done"}

\* What the call returns is settled by the submission and the wait.
Verdict(p, op, code) ==
    CASE op = "submit" /\ code = "refused" -> "refused"
      [] op = "wait" /\ code \in FinalStates -> code
      [] OTHER -> call[p].verdict

Proceed(p, op, code, id) ==
    \E next \in After(op, code) :
        /\ call' = [call EXCEPT ![p] = [pc |-> next, job |-> id,
                                        verdict |-> Verdict(p, op, code)]]
        /\ IF next = "done" THEN HangUp(p)
           ELSE Send(p, Exchange(p, 1, next, id, Nothing))

StartCall(p) ==
    /\ call[p].pc = "idle"
    /\ call' = [call EXCEPT ![p].pc = "submit"]
    /\ Send(p, Exchange(p, 1, "submit", NoJob, Asked[p]))
    /\ UNCHANGED <<jobVars, lost, owner, revived, restarts>>

ReadAnswer(p) ==
    /\ \E op \in Operations :
          /\ Heard(p, op)
          /\ Proceed(p, op, answer[p].code,
                     IF op = "submit" THEN answer[p].job ELSE call[p].job)
    /\ UNCHANGED <<jobVars, lost, owner, revived, restarts>>

\* A signal ends only a wait: the other exchanges ignore it.
GiveUp(p) ==
    /\ \E op \in Operations :
          /\ Waits(p, op)
          /\ Proceed(p, op, "unavailable", call[p].job)
          /\ lost' = IF op = "wait" THEN lost ELSE lost \cup {<<p, 1>>}
    /\ UNCHANGED <<jobVars, owner, revived, restarts>>

CallInit ==
    /\ RpcInit
    /\ call = [p \in Callers |->
                 [pc |-> "idle", job |-> NoJob, verdict |-> "unavailable"]]

CallNext ==
    \/ \E p \in Callers : StartCall(p) \/ ReadAnswer(p) \/ GiveUp(p)
    \/ RpcNext /\ UNCHANGED call

CallSpec == CallInit /\ [][CallNext]_callVars

-----------------------------------------------------------------------------

\* What a call returned about its job stays true: the job never has another
\* final state, unless a newer revision supersedes it, it is released, or the
\* user revives a failure.
VerdictStands ==
    \A p \in Callers :
        /\ call[p].verdict \in FinalStates
        /\ call[p].job \notin revived
        => state[call[p].job] \in {call[p].verdict, "superseded", "released"}

\* A caller never takes a failure away from the user: its release reaches the
\* broker only for a job that did not fail, however late it is handled.
FailuresStay ==
    [][\A m \in sent \ sent' :
          /\ m.from \in Callers
          /\ m.op = "release"
          /\ state[m.job] = "failed"
          => state'[m.job] = "failed"]_callVars
=============================================================================
