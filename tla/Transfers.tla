------------------------------- MODULE Transfers -------------------------------
(***************************************************************************)
(* Personal file transfers: projects/integrations/src/transfers.           *)
(*                                                                         *)
(* Files sent to this machine wait at the local Tailscale daemon.  The     *)
(* service polls the daemon, copies each file to Downloads, records the    *)
(* copy in its history file and only then has the daemon delete its own.   *)
(* Files sent from this machine are streamed to the daemon.  A group (one  *)
(* send, or one received file) is worked on by a runner, of which there    *)
(* are at most eight.  One mutex protects the groups; the daemon is asked  *)
(* without it.                                                             *)
(*                                                                         *)
(* Abstractions.  Sizes, progress, paths, device names, focus, the seen    *)
(* mark, the selection, notifications and the limits of the history are    *)
(* left out; move and trash too.  Time is left out: a group gets overdue,  *)
(* or too old to keep, at any time.  A graceful shutdown is a cancel of    *)
(* every runner and a restart.                                             *)
(***************************************************************************)
EXTENDS Naturals, FiniteSets, Sequences

CONSTANTS
    Sends,        \* ids that sends get
    Receipts,     \* ids that received files get
    Parcels,      \* the files other devices send to this machine
    Names,        \* file names
    NameOf,       \* the name of each parcel
    NoName,       \* the remote name of a file that has none
    SendSizes,    \* how many files a send may have
    Tries,        \* most attempts at a file in one run (3)
    Jobs,         \* most runners at once (8)
    SaveMayFail,  \* whether writing the history may fail
    MaxRestarts,  \* bound: crashes
    MaxRemovals,  \* bound: groups dismissed or expired
    MaxResumed    \* bound: retries the user asks for

ASSUME TransfersAssumption ==
    /\ NameOf \in [Parcels -> Names]
    /\ NoName \notin Names
    /\ Sends \cap Receipts = {}
    /\ SendSizes \subseteq Nat \ {0}
    /\ Tries \in Nat \ {0}
    /\ Jobs \in Nat \ {0}
    /\ SaveMayFail \in BOOLEAN
    /\ MaxRestarts \in Nat /\ MaxRemovals \in Nat /\ MaxResumed \in Nat

VARIABLES
    mem,       \* the groups of the running service
    disk,      \* the groups of the history file
    run,       \* the runner of each group (the controls)
    poll,      \* what the poller does
    listed,    \* the names the daemon listed, which the poller has yet to handle
    notices,   \* progress of incoming files, on its way to the service
    where,     \* where each parcel is: the daemon's side
    copies,    \* how many times each parcel was put into Downloads
    restarts, removals, retries  \* what the bounds count

Groups == Sends \cup Receipts

transfersVars == <<mem, disk, run, poll, listed, notices, where, copies,
          restarts, removals, retries>>
service == <<mem, disk, run, poll, listed>>
counters == <<restarts, removals, retries>>

Absent == [incoming |-> FALSE, state |-> "absent", files |-> <<>>]

\* File states and group states of model.rs.
Entry == [state : {"pending", "active", "completed", "failed"},
          remote : Names \cup {NoName}, ack : BOOLEAN]

NewEntry(state, remote) == [state |-> state, remote |-> remote, ack |-> FALSE]

Idle == [pc |-> "none", file |-> 1, try |-> 1, ok |-> TRUE, stop |-> FALSE]

Active(state) == state \in {"sending", "receiving", "retrying"}

Present == {g \in Groups : mem[g] # Absent}
Running == {g \in Groups : run[g].pc # "none"}
PermitFree == Cardinality(Running) < Jobs

\* An id that nothing uses, as a new UUID is.
Fresh(g) == mem[g] = Absent /\ disk[g] = Absent

Holds(group, name) ==
    group.incoming /\ \E i \in DOMAIN group.files : group.files[i].remote = name
Holders(name) == {g \in Present : Holds(mem[g], name)}

Current(g) == mem[g].files[run[g].file]

-----------------------------------------------------------------------------
(* The daemon. *)

Waiting(name) == {p \in Parcels : where[p] = "waiting" /\ NameOf[p] = name}

Held(name) ==
    {p \in Parcels : where[p] \in {"arriving", "waiting"} /\ NameOf[p] = name}

\* A file arrives at the daemon, which tells of its progress.
Announce(p) ==
    /\ \/ where[p] = "arriving"
       \/ where[p] = "away" /\ Held(NameOf[p]) = {}
    /\ where' = [where EXCEPT ![p] = "arriving"]
    /\ notices' = notices \cup {NameOf[p]}
    /\ UNCHANGED <<service, copies, counters>>

\* It is complete, or its sender gave up.
Arrived(p) ==
    /\ where[p] = "arriving"
    /\ \E w \in {"away", "waiting"} : where' = [where EXCEPT ![p] = w]
    /\ UNCHANGED <<service, notices, copies, counters>>

-----------------------------------------------------------------------------
(* Service::save and start_locked. *)

Saved(groups) == mem' = groups /\ disk' = groups

\* A failed save leaves what is in memory.  The file may have been replaced:
\* the directory is synced after that.
SaveFails(groups) ==
    /\ SaveMayFail
    /\ mem' = groups
    /\ disk' \in {disk, groups}

Save(groups) == Saved(groups) \/ SaveFails(groups)

Opened(group) ==
    [group EXCEPT !.state = IF group.incoming THEN "receiving" ELSE "sending"]

Started(groups, g) == [groups EXCEPT ![g] = Opened(groups[g])]

\* The runner starts once its group is saved as active.
Start(groups, g) ==
    /\ Saved(Started(groups, g))
    /\ run' = [run EXCEPT ![g] = [Idle EXCEPT !.pc = "file"]]

StartFails(groups, g) == SaveFails(Started(groups, g)) /\ UNCHANGED run

-----------------------------------------------------------------------------
(* What the user asks for: Service::dispatch. *)

NewSend(n) ==
    [incoming |-> FALSE, state |-> "sending",
     files |-> [i \in 1..n |-> NewEntry("pending", NoName)]]

\* A send that cannot be saved is taken back.
Send(g) ==
    /\ g \in Sends
    /\ Fresh(g) /\ PermitFree
    /\ \E n \in SendSizes :
         LET groups == [mem EXCEPT ![g] = NewSend(n)] IN
         \/ Start(groups, g)
         \/ /\ SaveMayFail
            /\ disk' \in {disk, groups}
            /\ UNCHANGED <<mem, run>>
    /\ UNCHANGED <<poll, listed, notices, where, copies, counters>>

RetryGroup(g) ==
    /\ mem[g].state \in {"failed", "cancelled"}
    /\ g \notin Running /\ PermitFree
    /\ retries < MaxResumed
    /\ retries' = retries + 1
    /\ Start(mem, g) \/ StartFails(mem, g)
    /\ UNCHANGED <<poll, listed, notices, where, copies, restarts, removals>>

CancelGroup(g) ==
    /\ g \in Running
    /\ run' = [run EXCEPT ![g].stop = TRUE]
    /\ Save(mem)
    /\ UNCHANGED <<poll, listed, notices, where, copies, counters>>

Dismiss(g) ==
    /\ g \in Present /\ ~Active(mem[g].state)
    /\ removals < MaxRemovals
    /\ removals' = removals + 1
    /\ Save([mem EXCEPT ![g] = Absent])
    /\ UNCHANGED <<run, poll, listed, notices, where, copies, restarts, retries>>

\* A snapshot drops the settled groups that are a week old.
Expire(g) ==
    /\ mem[g].state \in {"completed", "cancelled"}
    /\ removals < MaxRemovals
    /\ removals' = removals + 1
    /\ mem' = [mem EXCEPT ![g] = Absent]
    /\ UNCHANGED <<disk, run, poll, listed, notices, where, copies,
                   restarts, retries>>

-----------------------------------------------------------------------------
(* The runner of a group: Service::run and run_files. *)

WithFile(groups, g, entry) == [groups EXCEPT ![g].files[run[g].file] = entry]

Quiet == UNCHANGED <<poll, listed, notices, where, counters>>

At(g, pc) == run[g].pc = pc

Goto(g, pc) == run' = [run EXCEPT ![g].pc = pc]

NextFile(g) ==
    run' = [run EXCEPT ![g].pc = "file", ![g].file = @ + 1, ![g].try = 1]

FinishGroup(g, ok) == run' = [run EXCEPT ![g].pc = "end", ![g].ok = ok]

\* Mutant of Tried: the acknowledgement is recorded before the copy.
TriedAcknowledging(group, i) ==
    [Opened(group) EXCEPT
        !.files[i].state = "active", !.files[i].ack = group.incoming]

\* What a group becomes when an attempt at a file begins.
Tried(group, i) ==
    [Opened(group) EXCEPT !.files[i].state = "active"]

Attempt(g) ==
    /\ mem' = [mem EXCEPT ![g] = Tried(mem[g], run[g].file)]
    /\ UNCHANGED disk

\* Mutant of Done: only the last file that was sent counts as sent.
DoneLast(group, i) ==
    group.files[i].state = "completed" /\ i = Len(group.files)

\* A file that needs no attempt.
Done(group, i) == group.files[i].state = "completed"

\* A file that was copied and that the daemon may still have.
Unacknowledged(group, i) == group.files[i].ack

\* The next file: acknowledge it, skip it, or attempt it.
Advance(g) ==
    /\ At(g, "file")
    /\ LET i == run[g].file IN
       \/ /\ i > Len(mem[g].files)
          /\ FinishGroup(g, TRUE)
          /\ UNCHANGED <<mem, disk>>
       \/ /\ i <= Len(mem[g].files) /\ Unacknowledged(mem[g], i)
          /\ Goto(g, "acknowledge")
          /\ UNCHANGED <<mem, disk>>
       \/ /\ i <= Len(mem[g].files) /\ ~Unacknowledged(mem[g], i)
          /\ Done(mem[g], i)
          /\ NextFile(g)
          /\ UNCHANGED <<mem, disk>>
       \/ /\ i <= Len(mem[g].files) /\ ~Unacknowledged(mem[g], i)
          /\ ~Done(mem[g], i)
          /\ Goto(g, "transfer")
          /\ Attempt(g)
    /\ Quiet /\ UNCHANGED copies

Exhausted(g) == run[g].try = Tries

\* Mutant of Failed: a recorded copy is attempted again too.
FailedAgain(groups, g, final) ==
    IF run[g].stop THEN mem' = groups /\ FinishGroup(g, FALSE)
    ELSE /\ mem' = [groups EXCEPT
              ![g].state = "retrying",
              ![g].files[run[g].file].state = "failed"]
         /\ IF final \/ Exhausted(g) THEN FinishGroup(g, FALSE) ELSE Goto(g, "sleep")

\* The error of an attempt: try again, unless the copy is already recorded,
\* the error is final or the attempts are used up.
Failed(groups, g, final) ==
    LET entry == groups[g].files[run[g].file] IN
    IF run[g].stop THEN mem' = groups /\ FinishGroup(g, FALSE)
    ELSE /\ mem' = [groups EXCEPT
              ![g].state = "retrying",
              ![g].files[run[g].file].state =
                  IF entry.ack THEN entry.state ELSE "failed"]
         /\ IF entry.ack \/ final \/ Exhausted(g) THEN FinishGroup(g, FALSE)
            ELSE Goto(g, "sleep")

\* Save what a step of the runner did; a failing save is a final error of it.
Record(groups, g, next) ==
    \/ Saved(groups) /\ next
    \/ /\ SaveMayFail
       /\ disk' \in {disk, groups}
       /\ Failed(groups, g, TRUE)

\* The target accepts the file, or it fails: for good when the target or the
\* source is not there.
Put(g) ==
    /\ At(g, "transfer") /\ ~mem[g].incoming
    /\ Goto(g, "delivered")
    /\ Quiet /\ UNCHANGED <<mem, disk, copies>>

SendFails(g) ==
    /\ At(g, "transfer") \/ At(g, "delivered")
    /\ ~mem[g].incoming
    /\ \E final \in BOOLEAN : Failed(mem, g, final)
    /\ Quiet /\ UNCHANGED <<disk, copies>>

Sent(g) ==
    /\ At(g, "delivered")
    /\ Record(WithFile(mem, g, [Current(g) EXCEPT !.state = "completed"]), g,
              NextFile(g))
    /\ Quiet /\ UNCHANGED copies

\* A complete copy is put into Downloads, under a name nothing has.
Receive(g) ==
    /\ At(g, "transfer") /\ mem[g].incoming
    /\ \E p \in Waiting(Current(g).remote) : copies' = [copies EXCEPT ![p] = @ + 1]
    /\ Goto(g, "published")
    /\ Quiet /\ UNCHANGED <<mem, disk>>

ReceiveFails(g) ==
    /\ At(g, "transfer") /\ mem[g].incoming
    /\ Failed(mem, g, FALSE)
    /\ Quiet /\ UNCHANGED <<disk, copies>>

Journalled(g) ==
    WithFile(mem, g, [Current(g) EXCEPT !.state = "completed", !.ack = TRUE])

\* The copy is recorded before the daemon is told.
Journal(g) ==
    /\ At(g, "published")
    /\ Record(Journalled(g), g, Goto(g, "forget"))
    /\ Quiet /\ UNCHANGED copies

\* The daemon deletes its file, whichever has the name.
Forget(g) ==
    /\ \/ At(g, "forget") /\ Goto(g, "forgotten")
       \/ At(g, "acknowledge") /\ Goto(g, "acknowledged")
    /\ where' = [p \in Parcels |->
          IF p \in Waiting(Current(g).remote) THEN "deleted" ELSE where[p]]
    /\ UNCHANGED <<mem, disk, poll, listed, notices, copies, counters>>

Forgotten(g) ==
    WithFile(mem, g, [Current(g) EXCEPT !.ack = FALSE, !.remote = NoName])

\* It answered: to the attempt that made the copy, or to a later run.
Received(g) ==
    /\ At(g, "forgotten")
    /\ Record(Forgotten(g), g, NextFile(g))
    /\ Quiet /\ UNCHANGED copies

Acknowledged(g) ==
    /\ At(g, "acknowledged")
    /\ \/ Saved(Forgotten(g)) /\ NextFile(g)
       \/ SaveFails(Forgotten(g)) /\ FinishGroup(g, FALSE)
    /\ Quiet /\ UNCHANGED copies

\* It did not answer, before or after it deleted the file.
ForgetFails(g) ==
    /\ \/ /\ At(g, "forget") \/ At(g, "forgotten")
          /\ Failed(mem, g, FALSE)
       \/ /\ At(g, "acknowledge") \/ At(g, "acknowledged")
          /\ FinishGroup(g, FALSE)
          /\ UNCHANGED mem
    /\ Quiet /\ UNCHANGED <<disk, copies>>

\* Mutant of Wake: the attempts are not counted.
WakeUncounted(g) ==
    /\ At(g, "sleep") /\ ~run[g].stop
    /\ Goto(g, "transfer")
    /\ Attempt(g)
    /\ Quiet /\ UNCHANGED copies

\* The pause is over; a runner that was stopped attempts nothing.
Wake(g) ==
    /\ At(g, "sleep") /\ ~run[g].stop
    /\ run' = [run EXCEPT ![g].pc = "transfer", ![g].try = @ + 1]
    /\ Attempt(g)
    /\ Quiet /\ UNCHANGED copies

\* A cancel drops the runner's work wherever it waits.
Stopped(g) ==
    /\ run[g].stop
    /\ run[g].pc \in {"file", "transfer", "delivered", "forget", "forgotten",
                      "acknowledge", "acknowledged", "sleep"}
    /\ FinishGroup(g, FALSE)
    /\ Quiet /\ UNCHANGED <<mem, disk, copies>>

\* The outcome; a failing save is only reported.
End(g) ==
    /\ At(g, "end")
    /\ Save([mem EXCEPT ![g].state =
               IF run[g].ok THEN "completed"
               ELSE IF run[g].stop THEN "cancelled" ELSE "failed"])
    /\ run' = [run EXCEPT ![g] = Idle]
    /\ Quiet /\ UNCHANGED copies

-----------------------------------------------------------------------------
(* Service::event, receive_waiting and poll. *)

NewReceipt(entry) ==
    [incoming |-> TRUE, state |-> "receiving", files |-> <<entry>>]

\* Progress of an incoming file; the first makes a group, which is not saved.
Event(name) ==
    /\ name \in notices
    /\ notices' = notices \ {name}
    /\ \/ Holders(name) # {} /\ UNCHANGED mem
       \/ /\ Holders(name) = {}
          /\ \E g \in Receipts :
               /\ Fresh(g)
               /\ mem' = [mem EXCEPT ![g] = NewReceipt(NewEntry("active", name))]
    /\ UNCHANGED <<disk, run, poll, listed, where, copies, counters>>

ListWaiting ==
    /\ poll = "idle"
    /\ poll' = "handle"
    /\ listed' = {n \in Names : Waiting(n) # {}}
    /\ UNCHANGED <<mem, disk, run, notices, where, copies, counters>>

\* Mutant of Resumed: only an acknowledgement is taken up again.
ResumedIfCopied(group) == \E i \in DOMAIN group.files : group.files[i].ack

\* A group the poller takes up again.
Resumed(group) ==
    group.state = "receiving" \/ \E i \in DOMAIN group.files : group.files[i].ack

\* The group of a listed name is left alone, or taken up again.
HandleKnown(name) ==
    /\ name \in listed
    /\ \E g \in Holders(name) :
         \/ /\ g \in Running \/ ~Resumed(mem[g]) \/ ~PermitFree
            /\ UNCHANGED <<mem, disk, run>>
         \/ /\ g \notin Running /\ Resumed(mem[g]) /\ PermitFree
            /\ Start(mem, g) \/ StartFails(mem, g)
    /\ listed' = listed \ {name}
    /\ UNCHANGED <<poll, notices, where, copies, counters>>

\* A new name gets a group.  Without a permit the rest has to wait; a group
\* that cannot be saved stays, and this poll is over.
HandleNew(name) ==
    /\ name \in listed
    /\ Holders(name) = {}
    /\ \/ /\ ~PermitFree
          /\ listed' = {}
          /\ UNCHANGED <<mem, disk, run, poll>>
       \/ /\ PermitFree
          /\ \E g \in Receipts :
               /\ Fresh(g)
               /\ LET groups == [mem EXCEPT ![g] = NewReceipt(NewEntry("pending", name))]
                  IN \/ Start(groups, g) /\ listed' = listed \ {name} /\ UNCHANGED poll
                     \/ StartFails(groups, g) /\ listed' = {} /\ poll' = "idle"
    /\ UNCHANGED <<notices, where, copies, counters>>

Orphans == {g \in Present \ Running : mem[g].state = "receiving"}

\* Groups that had no runner and no progress for 90 seconds fail.
Reap ==
    /\ poll = "handle" /\ listed = {}
    /\ poll' = "idle"
    /\ \E overdue \in SUBSET Orphans :
         Save([g \in Groups |->
                 IF g \in overdue THEN [mem[g] EXCEPT !.state = "failed"] ELSE mem[g]])
    /\ UNCHANGED <<run, listed, notices, where, copies, counters>>

-----------------------------------------------------------------------------
(* Service::new. *)

\* What was unfinished is interrupted, until the user retries.
Interrupted(groups) ==
    [g \in Groups |->
        IF Active(groups[g].state) THEN [groups[g] EXCEPT !.state = "failed"]
        ELSE groups[g]]

Restart ==
    /\ restarts < MaxRestarts
    /\ restarts' = restarts + 1
    /\ Saved(Interrupted(disk))
    /\ run' = [g \in Groups |-> Idle]
    /\ poll' = "idle" /\ listed' = {} /\ notices' = {}
    /\ UNCHANGED <<where, copies, removals, retries>>

TransfersInit ==
    /\ mem = [g \in Groups |-> Absent] /\ disk = mem
    /\ run = [g \in Groups |-> Idle]
    /\ poll = "idle" /\ listed = {} /\ notices = {}
    /\ where = [p \in Parcels |-> "away"]
    /\ copies = [p \in Parcels |-> 0]
    /\ restarts = 0 /\ removals = 0 /\ retries = 0

Daemon == \E p \in Parcels : Announce(p) \/ Arrived(p)

User == \E g \in Groups : Send(g) \/ RetryGroup(g) \/ CancelGroup(g) \/ Dismiss(g) \/ Expire(g)

Runner(g) ==
    \/ Advance(g) \/ Put(g) \/ SendFails(g) \/ Sent(g)
    \/ Receive(g) \/ ReceiveFails(g) \/ Journal(g)
    \/ Forget(g) \/ Received(g) \/ Acknowledged(g) \/ ForgetFails(g)
    \/ Wake(g) \/ Stopped(g) \/ End(g)

Poll == ListWaiting \/ Reap \/ \E n \in Names : HandleKnown(n) \/ HandleNew(n)

TransfersNext ==
    \/ Daemon
    \/ User
    \/ \E g \in Groups : Runner(g)
    \/ Poll
    \/ \E n \in Names : Event(n)
    \/ Restart

TransfersSpec == TransfersInit /\ [][TransfersNext]_transfersVars

\* The reactor schedules the poller and every runner; requests to the daemon
\* time out and pauses end.
TransfersFairness == WF_transfersVars(Poll) /\ \A g \in Groups : WF_transfersVars(Runner(g))

-----------------------------------------------------------------------------
(* Properties. *)

\* "Publish and durably journal first.  Daemon deletion follows only a
\* successful barrier" (run_files): no file is deleted at the daemon that was
\* not put into Downloads.
NothingLost == \A p \in Parcels : where[p] = "deleted" => copies[p] > 0

\* When the daemon is told to delete a file, the history file says that a
\* file of this name was copied and is not acknowledged: after a crash at any
\* later point the service knows of the copy.
JournalledFirst ==
    [][\A p \in Parcels : where[p] = "waiting" /\ where'[p] = "deleted" =>
         \E g \in Groups : \E i \in DOMAIN disk[g].files :
            disk[g].files[i].remote = NameOf[p] /\ disk[g].files[i].ack]_transfersVars

\* A file is copied again only when the service crashed between the copy and
\* its record, or its group was removed: failed acknowledgements, failed saves
\* and retries never copy a file twice.
CopiesAccounted == \A p \in Parcels : copies[p] <= 1 + restarts + removals

\* A group with a runner is active, so it is neither dismissed, expired nor
\* given up by the poller, which all look at the state of the group only.
RunnersAreActive == \A g \in Running : Active(mem[g].state)

\* A retry sends only what was not sent: a file that is completed is never
\* attempted again.
SentOnce ==
    [][\A g \in Groups : run'[g].pc = "transfer" /\ run[g].pc # "transfer" =>
         mem[g].files[run[g].file].state # "completed"]_transfersVars

\* A file that waits at the daemon is received, or the user is told that it
\* was not: unless the history cannot be saved, or the file is taken from the
\* poller by crashes and removals for ever, which the bounds exclude.
ReceivedOrReported ==
    \A p \in Parcels :
        where[p] = "waiting" ~>
            \/ where[p] = "deleted"
            \/ \E g \in Holders(NameOf[p]) : mem[g].state \in {"failed", "cancelled"}

\* Every runner ends, and frees its permit.
RunnersEnd == \A g \in Groups : g \in Running ~> g \notin Running
================================================================================
