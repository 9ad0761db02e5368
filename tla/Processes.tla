------------------------------- MODULE Processes -------------------------------
(***************************************************************************)
(* Commands that the services run: execute_watched and OwnedChild of       *)
(* projects/runtime/src/process.rs.                                        *)
(*                                                                         *)
(* One thread feeds a command, reads what it writes and waits for its end, *)
(* until a deadline, a cancellation or a limit.  However it returns, the   *)
(* command was reaped, and killed before that with its process group where *)
(* the group is its own.  A launcher that succeeded is let go instead: its *)
(* descendants live on.                                                    *)
(*                                                                         *)
(* Abstractions.  Bytes are counted.  The processes are external: they     *)
(* start others, leave the group, close their pipes and end as they like.  *)
(* A file as input is a command that is fed nothing.  A process may have   *)
(* closed its input at any time.  What the observers and the tick do is    *)
(* left out, but they may fail, as may each system call.                   *)
(***************************************************************************)
EXTENDS Naturals, FiniteSets

CONSTANTS
    Others,       \* processes that the command may start
    CaptureModes, \* how callers run commands (CaptureMode)
    Inputs,       \* sizes of the input
    OutputLimit,  \* Limits::output
    MaxWritten    \* bound: bytes written to each pipe

Outputs == {"out", "err"}

\* retain: stdout counts against the limit; group: the command leads a group
\* of its own; pipes: the outputs that are read; detach: a launcher.
ASSUME ProcessesAssumption ==
    /\ CaptureModes # {}
    /\ CaptureModes \subseteq [retain : BOOLEAN, group : BOOLEAN, detach : BOOLEAN,
                               pipes : SUBSET Outputs]
    /\ \A m \in CaptureModes : m.detach => m.group /\ m.pipes = {}
    /\ "leader" \notin Others
    /\ Inputs \subseteq Nat /\ OutputLimit \in Nat /\ MaxWritten \in Nat

VARIABLES
    execution, \* the call: where it is, its mode and input, what it sent, the
               \* pipes it holds, how the loop ended
    family,    \* the processes, the command and what it started: life, group,
               \* and the outputs they hold
    written,   \* bytes written to each output
    taken,     \* bytes read from it
    cancelled, \* the caller's cancellation
    pastDeadline  \* its deadline is over

bytes == <<written, taken>>
limits == <<cancelled, pastDeadline>>
processesVars == <<execution, family, bytes, limits>>

Leader == "leader"
Members == {Leader} \cup Others

NoExecution == [pc |-> "idle", mode |-> CHOOSE m \in CaptureModes : TRUE, size |-> 0,
                sent |-> 0, open |-> {}, spare |-> FALSE, reaped |-> FALSE,
                result |-> "none", status |-> "none"]

Unborn == [life |-> "unborn", group |-> "none", ends |-> {}]

Is(pc) == execution.pc = pc

Running(p) == family[p].life = "running"

Writers(o) == {p \in Members : o \in family[p].ends}

Exited == family[Leader].life \in {"succeeded", "failed", "killed"}
Succeeded == family[Leader].life = "succeeded"

-----------------------------------------------------------------------------
(* The processes. *)

StartAnother(p, q) ==
    /\ Running(p) /\ family[p].group # "stranger"
    /\ family[q] = Unborn
    /\ family' = [family EXCEPT ![q] = family[p]]
    /\ UNCHANGED <<execution, bytes, limits>>

\* setsid: only a process that leads no group can leave.
LeaveGroup(p) ==
    /\ p \in Others /\ Running(p) /\ family[p].group # "away"
    /\ family' = [family EXCEPT ![p].group = "away"]
    /\ UNCHANGED <<execution, bytes, limits>>

ClosePipe(p, o) ==
    /\ Running(p) /\ o \in family[p].ends \cap execution.open
    /\ family' = [family EXCEPT ![p].ends = @ \ {o}]
    /\ UNCHANGED <<execution, bytes, limits>>

Write(p, o) ==
    /\ Running(p) /\ o \in family[p].ends \cap execution.open
    /\ written[o] < MaxWritten
    /\ written' = [written EXCEPT ![o] = @ + 1]
    /\ UNCHANGED <<execution, family, taken, limits>>

Ended(p, life) == [family EXCEPT ![p].life = life, ![p].ends = {}]

Ends(p) ==
    /\ Running(p) /\ family[p].group # "stranger"
    /\ \E life \in {"succeeded", "failed"} :
         /\ p \in Others => life = "succeeded"
         /\ family' = Ended(p, life)
    /\ UNCHANGED <<execution, bytes, limits>>

\* A signal that was sent takes its time.
Dies(p) ==
    /\ family[p].life = "signalled"
    /\ family' = Ended(p, "killed")
    /\ UNCHANGED <<execution, bytes, limits>>

\* The command's id is given to a process that has nothing to do with it.
Recycle ==
    /\ family[Leader].life = "reaped"
    /\ \A p \in Others : family[p].group = "own" => family[p].ends = {} /\ ~Running(p)
    /\ family' = [family EXCEPT ![Leader] =
                    [life |-> "running", group |-> "stranger", ends |-> {}]]
    /\ UNCHANGED <<execution, bytes, limits>>

Cancel ==
    /\ ~cancelled /\ execution.result = "none"
    /\ cancelled' = TRUE
    /\ UNCHANGED <<execution, family, bytes, pastDeadline>>

DeadlinePasses ==
    /\ ~Is("idle") /\ ~pastDeadline /\ execution.result = "none"
    /\ pastDeadline' = TRUE
    /\ UNCHANGED <<execution, family, bytes, cancelled>>

-----------------------------------------------------------------------------
(* execute_watched. *)

Sent == execution.sent = execution.size

Execute(m, size) ==
    /\ Is("idle")
    /\ \E spawned \in BOOLEAN :
       IF cancelled \/ ~spawned
       THEN /\ execution' = [NoExecution EXCEPT !.pc = "done", !.result = "error"]
            /\ UNCHANGED family
       ELSE /\ execution' = [NoExecution EXCEPT
                 !.pc = "check", !.mode = m, !.size = size, !.open = {"in"} \cup m.pipes]
            /\ family' = [family EXCEPT ![Leader] =
                 [life |-> "running", group |-> IF m.group THEN "own" ELSE "caller",
                  ends |-> m.pipes]]
    /\ UNCHANGED <<bytes, limits>>

GiveUp == execution' = [execution EXCEPT !.pc = "drop", !.open = {}, !.result = "error"]

\* Mutant of Over: the end of the command is waited for, not that of its output.
OverEarly(open) == Exited

\* Both outputs are at their end and the command ended.
Over(open) == open \cap Outputs = {} /\ Exited

\* A launcher may end before its child reads: it is fed on until all is sent.
HandingOver == execution.mode.detach /\ ~Sent /\ Succeeded

\* The checks at the top of the loop.
Check ==
    /\ Is("check")
    /\ LET open == execution.open \ (IF Sent THEN {"in"} ELSE {})
           go(pc) == execution' = [execution EXCEPT !.pc = pc, !.open = open]
       IN
       \/ cancelled /\ GiveUp
       \/ ~cancelled /\ Over(open) /\ HandingOver /\ "in" \notin open /\ GiveUp
       \/ /\ ~cancelled /\ Over(open) /\ ~HandingOver
          /\ execution' = [execution EXCEPT !.pc = "kill", !.spare = execution.mode.detach,
                                            !.open = open, !.result = "ok"]
       \/ /\ ~cancelled
          /\ Over(open) => HandingOver /\ "in" \in open
          /\ IF pastDeadline THEN GiveUp ELSE go("feed")
    /\ UNCHANGED <<family, bytes, limits>>

\* The pipe takes some of the input, or nobody can read it any more.
Feed ==
    /\ Is("feed")
    /\ \/ execution' = [execution EXCEPT !.pc = "out"]
       \/ /\ "in" \in execution.open
          /\ \/ execution' = [execution EXCEPT !.pc = "out", !.open = @ \ {"in"}]
             \/ /\ \E p \in Members : family[p].life \in {"running", "signalled"}
                /\ \E n \in execution.sent..execution.size :
                     execution' = [execution EXCEPT !.pc = "out", !.sent = n]
    /\ UNCHANGED <<family, bytes, limits>>

Counted == IF execution.mode.retain THEN Outputs ELSE {"err"}
Kept == (IF "out" \in Counted THEN taken["out"] ELSE 0) + taken["err"]

After(o) == IF o = "out" THEN "err" ELSE "check"

\* One chunk of what is there, which may be one byte too much, or the end.
Read(o) ==
    /\ Is(o)
    /\ \/ /\ execution' = [execution EXCEPT !.pc = After(o)]
          /\ UNCHANGED taken
       \/ /\ o \in execution.open /\ taken[o] < written[o]
          /\ \E n \in 1..(written[o] - taken[o]) :
               IF o \in Counted /\ Kept + n > OutputLimit
               THEN GiveUp /\ UNCHANGED taken
               ELSE /\ taken' = [taken EXCEPT ![o] = @ + n]
                    /\ execution' = [execution EXCEPT !.pc = After(o)]
       \/ /\ o \in execution.open /\ taken[o] = written[o] /\ Writers(o) = {}
          /\ execution' = [execution EXCEPT !.pc = After(o), !.open = @ \ {o}]
          /\ UNCHANGED taken
    /\ UNCHANGED <<family, written, limits>>

\* A system call, the observer or the tick fails.
Fails ==
    /\ execution.pc \in {"check", "feed", "out", "err"}
    /\ GiveUp
    /\ UNCHANGED <<family, bytes, limits>>

-----------------------------------------------------------------------------
(* OwnedChild. *)

\* Mutant of Signalled: the group is not signalled.
SignalledAlone(p) == p = Leader

\* kill: the whole group where it is the command's own, else the command.  A
\* process id belongs to the command until it is reaped, and to any process
\* afterwards.
Signalled(p) ==
    \/ p = Leader
    \/ execution.mode.group /\ family[p].group = "own"

\* Mutant of Spared: a launcher is let go whether or not it succeeded.
SparedAnyway == execution.spare

Spared == execution.spare /\ Succeeded

\* finish: a kill unless a launcher succeeded, and then the wait.
Kill ==
    /\ Is("kill")
    /\ execution' = [execution EXCEPT !.pc = "wait"]
    /\ family' = IF Spared THEN family
                 ELSE [p \in Members |->
                        IF Running(p) /\ Signalled(p)
                        THEN [family[p] EXCEPT !.life = "signalled"] ELSE family[p]]
    /\ UNCHANGED <<bytes, limits>>

Wait ==
    /\ Is("wait") /\ Exited
    /\ execution' = [execution EXCEPT !.pc = "drop", !.reaped = TRUE,
                                      !.status = family[Leader].life]
    /\ family' = [family EXCEPT ![Leader].life = "reaped"]
    /\ UNCHANGED <<bytes, limits>>

\* Mutant of Drop: what was not reaped is waited for.
DropWaits ==
    /\ Is("drop")
    /\ execution' = [execution EXCEPT !.spare = FALSE,
                       !.pc = IF execution.reaped THEN "done" ELSE "wait"]
    /\ UNCHANGED <<family, bytes, limits>>

\* drop: what was not reaped is finished.
Drop ==
    /\ Is("drop")
    /\ execution' = [execution EXCEPT !.spare = FALSE,
                       !.pc = IF execution.reaped THEN "done" ELSE "kill"]
    /\ UNCHANGED <<family, bytes, limits>>

-----------------------------------------------------------------------------

ProcessesInit ==
    /\ execution = NoExecution
    /\ family = [p \in Members |-> Unborn]
    /\ written = [o \in Outputs |-> 0] /\ taken = written
    /\ cancelled = FALSE /\ pastDeadline = FALSE

Caller == Check \/ Feed \/ Fails \/ Kill \/ Wait \/ Drop \/ \E o \in Outputs : Read(o)

Commands ==
    \/ \E p \in Members : Ends(p) \/ Dies(p) \/ LeaveGroup(p)
    \/ \E p \in Members, q \in Others : StartAnother(p, q)
    \/ \E p \in Members, o \in Outputs : ClosePipe(p, o) \/ Write(p, o)
    \/ Recycle

ProcessesNext ==
    \/ \E m \in CaptureModes, n \in Inputs : Execute(m, n)
    \/ Caller
    \/ ~Is("done") /\ Commands
    \/ Cancel \/ DeadlinePasses

\* The thread runs, time passes, and a process dies of SIGKILL.
ProcessesFairness ==
    /\ WF_processesVars(Caller)
    /\ WF_processesVars(DeadlinePasses)
    /\ WF_processesVars(Dies(Leader))

-----------------------------------------------------------------------------
(* Properties. *)

HandedOver == execution.result = "ok" /\ execution.mode.detach /\ execution.status = "succeeded"

\* "Every child is owned until reaped; errors, cancellation and deadlines kill
\* its process group": after a call nothing of the command's own group runs
\* on, and nothing else was signalled: not a process that has the id of the
\* reaped command, nor what a launcher left behind that succeeded, which was
\* fed all of its input.  An answer holds all that was ever written.
CallsEndClean ==
    /\ family[Leader].group = "stranger" => Running(Leader)
    /\ Is("done") =>
        /\ ~HandedOver => \A p \in Others : ~(Running(p) /\ family[p].group = "own")
        /\ HandedOver => Sent /\ \A p \in Others : family[p].life \notin {"signalled", "killed"}
        /\ execution.result = "ok" => \A o \in execution.mode.pipes : taken[o] = written[o]
        /\ Kept <= OutputLimit

\* A call returns, whatever the command does: its deadline ends it.
CallsReturn == []<>(execution.pc \in {"idle", "done"})
================================================================================
