------------------------------ MODULE MCTransfers ------------------------------
(* Model-checking instances of Transfers. *)
EXTENDS Transfers, TLC

CONSTANT n1

\* Every file has a name of its own.
OwnNames == CHOOSE f \in [Parcels -> Names] : \A p, q \in Parcels : f[p] = f[q] => p = q

\* All files have the same name.
OneName == [p \in Parcels |-> n1]

FileSymmetry == Permutations(Sends) \cup Permutations(Receipts)

\* In the run for liveness the user takes a group up again or removes one, or the
\* daemon is restarted: one of the three happens, the restart only to what is
\* received.
TransfersLiveNext ==
    /\ TransfersNext
    /\ restarts' + removals' + retries' <= 1
    /\ restarts' = 1 => \A s \in Sends : mem'[s] = Absent

TransfersLiveSpec ==
    TransfersInit /\ [][TransfersLiveNext]_transfersVars /\ TransfersFairness
===============================================================================
