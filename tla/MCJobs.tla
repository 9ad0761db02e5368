--------------------------------- MODULE MCJobs ---------------------------------
(* Safety of the jobs of the broker and of the transfers that are received,     *)
(* each in behaviours of its own.  The broker does not halt before it is        *)
(* closed, which the check for deadlocks shows; the transfers may be idle.      *)
EXTENDS MCBroker, MCTransfers

VARIABLE subject

jobsVars == <<subject, vars, transfersVars>>

JobsInit ==
    /\ subject \in {"broker", "transfers"}
    /\ Init /\ TransfersInit

JobsNext ==
    /\ UNCHANGED subject
    /\ \/ subject = "broker" /\ Next /\ UNCHANGED transfersVars
       \/ subject = "transfers" /\ TransfersNext /\ UNCHANGED vars
       \/ subject = "transfers" /\ UNCHANGED <<transfersVars, vars>>

JobsSpec == JobsInit /\ [][JobsNext]_jobsVars

JobsSymmetry == Symmetry \cup FileSymmetry
=================================================================================
