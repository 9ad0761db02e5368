-------------------------------- MODULE Inbox --------------------------------
(***************************************************************************)
(* The maintenance inbox: projects/maintenance/src/model.rs (Inbox) and    *)
(* src/service.rs (Service), with its state file.                          *)
(*                                                                         *)
(* One mutex protects the inbox; probes, notifications, repairs and model  *)
(* calls run outside it.  A publication is staged on a clone, written to   *)
(* the file, and only then shown.  A crash loses everything but the file.  *)
(*                                                                         *)
(* Abstractions.  A finding's fingerprint is its content; diagnostics and  *)
(* analyses are MaintenanceAnalysis; outcomes of actions, which nothing    *)
(* reads, and error texts are left out.  A probe reports what it likes.    *)
(* Time is left out: a snooze ends, and a resolved row gets too old to     *)
(* keep, at any time.                                                      *)
(***************************************************************************)
EXTENDS Naturals, FiniteSets

CONSTANTS
    Rows,        \* "source:key" ids
    Sources,     \* the registered sources
    SourceOf,    \* the source of each row
    Contents,    \* what a finding says: its urgency, and whether it is a notice
    Nothing,     \* the content of a row that is not there
    Threads,     \* threads for explicit actions
    Nobody,      \* the scheduler, which owns a check that no thread asked for
    TaskLimit,   \* most explicit actions at once (8)
    Capacity,    \* most rows (4096)
    MaxRevision  \* bound: changes of a row

ASSUME InboxAssumption ==
    /\ SourceOf \in [Rows -> Sources]
    /\ Contents \subseteq [text : STRING, urgency : 0..3, notice : BOOLEAN]
    /\ Nothing \notin Contents
    /\ Nobody \notin Threads
    /\ TaskLimit \in Nat
    /\ Capacity \in Nat
    /\ MaxRevision \in Nat \ {0}
    /\ IsFiniteSet(Rows) /\ Rows # {}

VARIABLES
    mem,      \* the rows of the running service
    disk,     \* the rows of the state file
    busy,     \* the rows marked busy
    task,     \* the explicit actions
    check,    \* the check of each source, and the threads that wait for it
    alerts,   \* notifications that were committed and not sent yet
    stopped,  \* the stop signal
    told,     \* history: revision and content of each row ever shown
    alerted   \* history: notifications sent

vars == <<mem, disk, busy, task, check, alerts, stopped, told, alerted>>

Absent == [revision |-> 0, content |-> Nothing, resolved |-> FALSE,
           snoozed |-> FALSE]

Row == [revision : 0..MaxRevision, content : Contents \cup {Nothing},
        resolved : BOOLEAN, snoozed : BOOLEAN]

Soon == 1

Present(rows) == {r \in Rows : rows[r].revision # 0}
Unresolved(rows) == {r \in Present(rows) : ~rows[r].resolved}

Tasked == {task[t].row : t \in {u \in Threads : task[u].pc # "idle"}}

Free == [pc |-> "idle", row |-> CHOOSE r \in Rows : TRUE, revision |-> 0]

-----------------------------------------------------------------------------
(* Inbox::publish and resolve on a staged row. *)

\* Mutant of Changed: only the appearance of a finding counts.
ChangedByAppearance(row, content) == row.revision = 0 \/ row.resolved

Changed(row, content) ==
    row.revision = 0 \/ row.content # content \/ row.resolved

\* Mutant of Published: a finding that recurs as it was keeps its revision.
PublishedAgain(row, content) ==
    [revision |-> IF row.content # content THEN row.revision + 1 ELSE row.revision,
     content |-> content,
     resolved |-> FALSE,
     snoozed |-> /\ row.snoozed
                 /\ row.revision # 0 => content.urgency >= row.content.urgency]

\* A change makes a new revision; a finding that got more urgent wakes up.
Published(row, content) ==
    [revision |-> IF Changed(row, content) THEN row.revision + 1 ELSE row.revision,
     content |-> content,
     resolved |-> FALSE,
     snoozed |-> /\ row.snoozed
                 /\ row.revision # 0 => content.urgency >= row.content.urgency]

Loud(row, content) ==
    /\ Changed(row, content)
    /\ content.urgency <= Soon
    /\ ~Published(row, content).snoozed

Resolved(row) ==
    IF row.revision # 0 THEN [row EXCEPT !.resolved = TRUE] ELSE row

Settled(rows) == Present(rows) \ Unresolved(rows)

\* prune: drop the resolved rows that are a week old, which may be any that
\* were resolved before.  An action ends within an hour and a notification
\* within seconds.
Pruned(rows) ==
    {[r \in Rows |-> IF r \in old THEN Absent ELSE rows[r]] :
        old \in SUBSET ((Settled(mem) \cap Settled(rows))
                          \ (Tasked \cup {a[1] : a \in alerts}))}

-----------------------------------------------------------------------------
(* Service::commit. *)

\* The file may be written, or kept, when the write reports a failure: the
\* directory is synced after the file was replaced.
CommitFails(staged) ==
    /\ disk' = disk \/ \E rows \in Pruned(staged) : disk' = rows
    /\ UNCHANGED <<mem, busy, alerts>>

\* Mutant of Commit: the staged rows are shown whether they were saved or not.
CommitShowing(staged, loud) ==
    /\ \E rows \in Pruned(staged) : mem' = rows /\ disk' \in {disk, rows}
    /\ busy' = busy \ {r \in Rows : staged[r].resolved}
    /\ alerts' = alerts \cup {<<r, staged[r].revision>> : r \in loud}

\* Save the staged rows, then show them; a row that was resolved is not busy.
Commit(staged, loud) ==
    /\ \E rows \in Pruned(staged) : mem' = rows /\ disk' = rows
    /\ busy' = busy \ {r \in Rows : staged[r].resolved}
    /\ alerts' = alerts \cup {<<r, staged[r].revision>> : r \in loud}

\* A staged inbox that changed nothing is not written.
Stage(staged, loud) ==
    IF staged = mem THEN UNCHANGED <<mem, disk, busy, alerts>>
    ELSE Commit(staged, loud) \/ CommitFails(staged)

Fits(staged) ==
    /\ Cardinality(Present(staged)) <= Capacity
    /\ \A r \in Rows : staged[r].revision <= MaxRevision

Publish(r, content) ==
    LET staged == [mem EXCEPT ![r] = Published(mem[r], content)] IN
    /\ ~stopped
    /\ Fits(staged)
    /\ Stage(staged, IF Loud(mem[r], content) THEN {r} ELSE {})
    /\ UNCHANGED <<task, check, stopped>>

Resolve(r) ==
    /\ ~stopped
    /\ Stage([mem EXCEPT ![r] = Resolved(mem[r])], {})
    /\ UNCHANGED <<task, check, stopped>>

\* done is for notices only; snooze and unsnooze save even without a change.
UserDecides(r) ==
    /\ ~stopped
    /\ r \in Unresolved(mem)
    /\ \E row \in {[mem[r] EXCEPT !.snoozed = TRUE], [mem[r] EXCEPT !.snoozed = FALSE]}
                  \cup (IF mem[r].content.notice THEN {Resolved(mem[r])} ELSE {}) :
          LET staged == [mem EXCEPT ![r] = row]
          IN  Commit(staged, {}) \/ CommitFails(staged)
    /\ UNCHANGED <<task, check, stopped>>

SnoozeEnds(r) ==
    /\ mem[r].snoozed \/ disk[r].snoozed
    /\ mem' = [mem EXCEPT ![r].snoozed = FALSE]
    /\ disk' = [disk EXCEPT ![r].snoozed = FALSE]
    /\ UNCHANGED <<busy, task, check, alerts, stopped>>

\* "list" prunes what is shown.
List ==
    /\ mem' \in Pruned(mem)
    /\ UNCHANGED <<disk, busy, task, check, alerts, stopped>>

\* notify-send, after the lock was given back.
Alert(a) ==
    /\ a \in alerts
    /\ alerts' = alerts \ {a}
    /\ UNCHANGED <<mem, disk, busy, task, check, stopped>>

-----------------------------------------------------------------------------
(* Service::check: one probe of a source at a time. *)

BeginCheck(s, owner) ==
    /\ check[s].pc = "none"
    /\ ~stopped
    /\ check' = [check EXCEPT ![s] = [pc |-> "probing", owner |-> owner]]

\* The scheduler thread of the source.
Scheduled(s) ==
    /\ BeginCheck(s, Nobody)
    /\ UNCHANGED <<mem, disk, busy, task, alerts, stopped>>

\* Every finding of the source that the probe did not report is resolved.
Reported(s, found, says) ==
    [r \in Rows |-> IF r \in found THEN Published(mem[r], says[r])
                    ELSE IF SourceOf[r] = s THEN Resolved(mem[r])
                    ELSE mem[r]]

\* The snapshot of a probe goes in as a whole, on the inbox as it is now, or,
\* when the probe, a finding or the save fails, not at all.
FinishProbe(s) ==
    /\ check[s].pc = "probing"
    /\ \/ \E found \in SUBSET {r \in Rows : SourceOf[r] = s} :
          \E says \in [found -> Contents] :
             LET staged == Reported(s, found, says) IN
             /\ Fits(staged)
             /\ Stage(staged, {r \in found : Loud(mem[r], says[r])})
       \/ UNCHANGED <<mem, disk, busy, alerts>>
    /\ check' = [check EXCEPT ![s].pc = "probed"]
    /\ UNCHANGED <<task, stopped>>

\* Mutant of EndCheck: a check that a thread asked for stays registered.
EndCheckScheduled(s) ==
    /\ check[s].pc = "probed"
    /\ check' = IF check[s].owner = Nobody
                THEN [check EXCEPT ![s] = [pc |-> "none", owner |-> Nobody]]
                ELSE [check EXCEPT ![s].pc = "stuck"]
    /\ task' = [t \in Threads |-> IF t = check[s].owner
                                  THEN [task[t] EXCEPT !.pc = "ran"] ELSE task[t]]
    /\ UNCHANGED <<mem, disk, busy, alerts, stopped>>

EndCheck(s) ==
    /\ check[s].pc = "probed"
    /\ check' = [check EXCEPT ![s] = [pc |-> "none", owner |-> Nobody]]
    /\ task' = [t \in Threads |-> IF t = check[s].owner
                                  THEN [task[t] EXCEPT !.pc = "ran"] ELSE task[t]]
    /\ UNCHANGED <<mem, disk, busy, alerts, stopped>>

-----------------------------------------------------------------------------
(* Explicit actions: Service::call (action, analyze) and Service::action. *)

\* Mutant of Admissible: the busy mark alone keeps a second action out.
AdmissibleByMark(r) ==
    /\ Cardinality(Tasked) < TaskLimit
    /\ r \notin busy

Admissible(r) ==
    /\ Cardinality(Tasked) < TaskLimit
    /\ r \notin Tasked
    /\ r \notin busy

Admit(t, r) ==
    /\ ~stopped
    /\ task[t].pc = "idle"
    /\ r \in Unresolved(mem)
    /\ Admissible(r)
    /\ busy' = busy \cup {r}
    /\ \E pc \in {"recheck", "repair", "analyze"} :
          task' = [task EXCEPT ![t] = [pc |-> pc, row |-> r,
                                       revision |-> mem[r].revision]]
    /\ UNCHANGED <<mem, disk, check, alerts, stopped>>

Current(t) ==
    /\ task[t].row \in Unresolved(mem)
    /\ mem[task[t].row].revision = task[t].revision

\* action(): a stale finding or the stop signal ends it; a repair looks at the
\* finding again before its command, which has a deadline.
Look(t) ==
    /\ \/ /\ task[t].pc \in {"recheck", "repair"}
          /\ task' = [task EXCEPT ![t].pc =
                        IF ~Current(t) \/ stopped THEN "ran"
                        ELSE IF task[t].pc = "repair" THEN "confirmed"
                        ELSE "rechecking"]
       \/ /\ task[t].pc = "confirmed"
          /\ task' = [task EXCEPT ![t].pc = IF Current(t) THEN "repairing"
                                            ELSE "ran"]
    /\ UNCHANGED <<mem, disk, busy, check, alerts, stopped>>

\* The command, the analysis, or the check, by now of whatever the source has.
Work(t) ==
    LET s == SourceOf[task[t].row] IN
    /\ \/ /\ task[t].pc \in {"repairing", "analyze"}
          /\ task' = [task EXCEPT ![t].pc = "ran"]
          /\ UNCHANGED check
       \/ /\ task[t].pc = "rechecking"
          /\ BeginCheck(s, t)
          /\ task' = [task EXCEPT ![t].pc = "checking"]
       \/ /\ task[t].pc = "rechecking"
          /\ stopped \/ check[s].pc # "none"
          /\ task' = [task EXCEPT ![t].pc = IF stopped THEN "ran"
                                            ELSE "coalesced"]
          /\ UNCHANGED check
    /\ UNCHANGED <<mem, disk, busy, alerts, stopped>>

\* A recheck that found one running waits for it, or for the stop signal.
CoalescedReturns(t) ==
    /\ task[t].pc = "coalesced"
    /\ check[SourceOf[task[t].row]].pc = "none" \/ stopped
    /\ task' = [task EXCEPT ![t].pc = "ran"]
    /\ UNCHANGED <<mem, disk, busy, check, alerts, stopped>>

\* The outcome: prune and save, and clear the busy mark.
Outcome(t) ==
    /\ task[t].pc = "ran"
    /\ task' = [task EXCEPT ![t].pc = "ending"]
    /\ busy' = busy \ {task[t].row}
    /\ \E rows \in Pruned(mem) : mem' = rows /\ disk' \in {disk, rows}
    /\ UNCHANGED <<check, alerts, stopped>>

EndTask(t) ==
    /\ task[t].pc = "ending"
    /\ task' = [task EXCEPT ![t] = Free]
    /\ busy' = busy \ {task[t].row}
    /\ UNCHANGED <<mem, disk, check, alerts, stopped>>

-----------------------------------------------------------------------------
(* The process. *)

Stop ==
    /\ ~stopped
    /\ stopped' = TRUE
    /\ UNCHANGED <<mem, disk, busy, task, check, alerts>>

\* Mutant of Restart: the busy marks come back from the file.
RestartBusy ==
    /\ \E old \in SUBSET Settled(disk) :
          mem' = [r \in Rows |-> IF r \in old THEN Absent ELSE disk[r]]
    /\ task' = [t \in Threads |-> Free]
    /\ check' = [s \in Sources |-> [pc |-> "none", owner |-> Nobody]]
    /\ alerts' = {}
    /\ stopped' = FALSE
    /\ UNCHANGED <<disk, busy>>

\* The service crashed, or exited, and was started again: Inbox::new reads
\* the file and prunes.
Restart ==
    /\ \E old \in SUBSET Settled(disk) :
          mem' = [r \in Rows |-> IF r \in old THEN Absent ELSE disk[r]]
    /\ busy' = {}
    /\ task' = [t \in Threads |-> Free]
    /\ check' = [s \in Sources |-> [pc |-> "none", owner |-> Nobody]]
    /\ alerts' = {}
    /\ stopped' = FALSE
    /\ UNCHANGED disk

\* The histories: a row that was pruned starts over.
Remember(sent) ==
    /\ told' = {k \in told : k[1] \in Present(mem')} \cup
               {<<r, mem'[r].revision, mem'[r].content>> : r \in Present(mem')}
    /\ alerted' = {a \in alerted \cup sent : a[1] \in Present(mem')}

Init ==
    /\ mem = [r \in Rows |-> Absent]
    /\ disk = [r \in Rows |-> Absent]
    /\ busy = {}
    /\ task = [t \in Threads |-> Free]
    /\ check = [s \in Sources |-> [pc |-> "none", owner |-> Nobody]]
    /\ alerts = {}
    /\ stopped = FALSE
    /\ told = {}
    /\ alerted = {}

TaskStep(t) == Look(t) \/ Work(t) \/ Outcome(t) \/ EndTask(t)

ServiceStep ==
    \/ \E r \in Rows :
          \/ \E content \in Contents : Publish(r, content)
          \/ Resolve(r)
          \/ UserDecides(r)
          \/ SnoozeEnds(r)
          \/ \E t \in Threads : Admit(t, r)
    \/ \E s \in Sources : Scheduled(s) \/ FinishProbe(s) \/ EndCheck(s)
    \/ \E t \in Threads : TaskStep(t) \/ CoalescedReturns(t)
    \/ \E a \in alerts : Alert(a)
    \/ List
    \/ Stop

Next ==
    \/ ServiceStep /\ Remember(alerts \ alerts')
    \/ Restart /\ Remember({})

Spec == Init /\ [][Next]_vars

\* Threads are scheduled, and commands and probes have deadlines.  A thread
\* that waits for a check looks again every 100 ms, and between two checks of
\* a source lie at least 30 s, so it finds a moment without one.
Fairness ==
    /\ \A s \in Sources : WF_vars(FinishProbe(s) /\ Remember({}))
    /\ \A s \in Sources : WF_vars(EndCheck(s) /\ Remember({}))
    /\ \A t \in Threads : WF_vars(TaskStep(t) /\ Remember({}))
    /\ \A t \in Threads : SF_vars(CoalescedReturns(t) /\ Remember({}))

FairSpec == Spec /\ Fairness

-----------------------------------------------------------------------------

\* A finding the inbox shows survives a crash: the file is never behind,
\* however saves fail.
SavedBeforeShown ==
    \A r \in Unresolved(mem) : disk[r].revision >= mem[r].revision

\* A client that holds a finding's id and revision means one content, whatever
\* staging, failed saves and restarts came between: it cannot confirm a repair
\* of something it has not read.
RevisionNamesContent ==
    \A k, l \in told : k[1] = l[1] /\ k[2] = l[2] => k[3] = l[3]

\* A revision alerts the user at most once, also across restarts.
AlertOnce == alerts \cap alerted = {}

\* The actions of a finding never run at the same time, although resolving it
\* and reporting an outcome clear the busy mark while a thread is at work; and
\* a busy finding has a thread that will clear it.
OneTaskPerRow ==
    /\ \A t, u \in Threads :
         /\ task[t].pc # "idle" /\ task[u].pc # "idle"
         /\ task[t].row = task[u].row
         => t = u
    /\ busy \subseteq Tasked

\* An explicit action ends: it neither misses the end of the check that it
\* waits for nor waits for one that nobody runs.
TasksEnd == \A t \in Threads : (task[t].pc # "idle") ~> (task[t].pc = "idle")
=============================================================================
