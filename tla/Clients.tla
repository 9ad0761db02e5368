------------------------------- MODULE Clients -------------------------------
(***************************************************************************)
(* The clients of the broker together: programs that call it through       *)
(* projects/runtime/src/inference.rs while the maintenance service of      *)
(* projects/maintenance/src/service.rs has findings analysed.              *)
(*                                                                         *)
(* They share the broker and nothing else: its job table, its capacity,    *)
(* the items that their requests are about, and the user in Activity, who  *)
(* acts on the jobs of either.                                             *)
(***************************************************************************)
EXTENDS InferenceCall, MaintenanceAnalysis

ASSUME ClientsAssumption == Callers \cap Rows = {}

clientVars == <<rpcVars, call, serviceVars>>

ClientsInit == CallInit /\ AnalysisInit

ClientsNext ==
    \/ CallNext /\ UNCHANGED serviceVars
    \/ AnalysisNext /\ UNCHANGED call

ClientsSpec == ClientsInit /\ [][ClientsNext]_clientVars

-----------------------------------------------------------------------------

\* The client whose call made a job is not done with it.
StillAtIt(c) ==
    \/ c[1] \in Callers /\ call[c[1]].pc # "done"
    \/ c[1] \in Rows /\ calls[c[1]] = c[2] /\ task[c[1]].pc # "idle"

\* Capacity comes back: however cancellation, deadlines, restarts and the stop
\* signal race the end of a job, a client that is done has left nothing in the
\* job table but failures, what the user or a newer revision made of them, and
\* the price of answers that were lost.
RetainedIsAccounted ==
    \A id \in Table :
        \/ state[id] \in {"failed", "superseded"}
        \/ id \in revived
        \/ \E c \in owner[id] : c \in lost \/ StillAtIt(c)

=============================================================================
