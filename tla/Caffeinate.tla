------------------------------ MODULE Caffeinate ------------------------------
(***************************************************************************)
(* The Caffeinate service: projects/tools/src/caffeinate.rs.               *)
(*                                                                         *)
(* One session at most holds the idle inhibitor, until the user stops it,  *)
(* its deadline passes, or the task it tracks ends.  Requests run on a few *)
(* worker threads and one lifecycle thread sweeps; a start waits for       *)
(* logind, and a sweep for the transfer service, outside the lock.         *)
(*                                                                         *)
(* Abstractions.  The inhibitor lives and dies with the session record, so *)
(* the record stands for it.  A process that ended does not come back (a   *)
(* recycled pid has another start time); a transfer may be retried and run *)
(* again.  Snapshots, the listing of tasks and the socket's framing change *)
(* nothing and are left out.                                               *)
(***************************************************************************)
EXTENDS Naturals, FiniteSets

CONSTANTS
    Askers,     \* the worker threads (4)
    Programs,   \* processes that may be tracked
    Moves,      \* transfer groups that may be tracked
    NoTask,     \* the task of a session that tracks none
    Spans,      \* durations that a user may ask for
    Tolerance,  \* probes without an answer that end a session (LOST_TASK_TOLERANCE, 3)
    LastSecond, \* bound: the clock stops here
    MaxStarts   \* bound: sessions

ASSUME CaffeinateAssumption ==
    /\ NoTask \notin Programs \cup Moves
    /\ Programs \cap Moves = {}
    /\ Spans \subseteq Nat \ {0}
    /\ Tolerance \in Nat \ {0}
    /\ LastSecond \in Nat
    /\ MaxStarts \in Nat

VARIABLES
    awake,    \* the session: generation (0: none), deadline (0: none), task, misses
    starts,   \* sessions so far, and the generation of the newest
    asking,   \* what each worker waits for logind to inhibit
    probe,    \* the sweep: the generation and task it asked about, the answer;
              \* history: which session that was
    running,  \* the tasks that run
    second,   \* the clock
    serving,  \* serving, halting (the stop signal came) or exited
    seen      \* history: what the probes of each session showed

caffeinateVars == <<awake, starts, asking, probe, running, second, serving, seen>>

Asleep == [generation |-> 0, deadline |-> 0, task |-> NoTask, misses |-> 0]

NoRequest == [pc |-> "idle", deadline |-> 0, task |-> NoTask]

NoProbe == [pc |-> "idle", generation |-> 0, task |-> NoTask, answer |-> "none",
            session |-> 0]

Unseen == [ended |-> FALSE, silent |-> 0]

Passed(session) == session.deadline # 0 /\ second >= session.deadline

Gone(session) == session.task \in Programs /\ session.task \notin running

-----------------------------------------------------------------------------
(* A worker: start and stop. *)

\* The wish to stay awake is resolved: a task must run now.  Then logind is
\* asked, outside the lock; the clock was read before.
Ask(w, deadline, task) ==
    /\ serving = "serving"
    /\ asking[w].pc = "idle"
    /\ asking' = [asking EXCEPT ![w] = [pc |-> "inhibiting", deadline |-> deadline,
                                        task |-> task]]
    /\ UNCHANGED <<awake, starts, probe, running, second, serving, seen>>

AskManual(w) == Ask(w, 0, NoTask)

AskDuration(w, span) == second + span <= LastSecond /\ Ask(w, second + span, NoTask)

AskTask(w, t) == t \in running /\ Ask(w, 0, t)

\* A refused inhibitor leaves the session there is as it was.
InhibitFails(w) ==
    /\ asking[w].pc = "inhibiting"
    /\ asking' = [asking EXCEPT ![w] = NoRequest]
    /\ UNCHANGED <<awake, starts, probe, running, second, serving, seen>>

\* Mutant of Installed: a session that replaces another keeps its generation.
InstalledInPlace(request) ==
    [generation |-> IF awake.generation # 0 THEN awake.generation ELSE starts + 1,
     deadline |-> request.deadline, task |-> request.task, misses |-> 0]

Installed(request) ==
    [generation |-> starts + 1, deadline |-> request.deadline,
     task |-> request.task, misses |-> 0]

Install(w) ==
    /\ asking[w].pc = "inhibiting"
    /\ starts < MaxStarts
    /\ awake' = Installed(asking[w])
    /\ starts' = starts + 1
    /\ asking' = [asking EXCEPT ![w] = NoRequest]
    /\ UNCHANGED <<probe, running, second, serving, seen>>

\* The tracked task is not touched.
StopSession ==
    /\ serving = "serving"
    /\ \E w \in Askers : asking[w].pc = "idle"
    /\ awake.generation # 0
    /\ awake' = Asleep
    /\ UNCHANGED <<starts, asking, probe, running, second, serving, seen>>

-----------------------------------------------------------------------------
(* The lifecycle thread. *)

\* Under the lock: a deadline or the end of a process ends the session.
SweepEnds ==
    /\ serving # "exited" /\ probe.pc = "idle"
    /\ awake.generation # 0
    /\ Passed(awake) \/ Gone(awake)
    /\ awake' = Asleep
    /\ UNCHANGED <<starts, asking, probe, running, second, serving, seen>>

\* A transfer is asked about without the lock.
SweepAsks ==
    /\ serving # "exited" /\ probe.pc = "idle"
    /\ awake.task \in Moves /\ ~Passed(awake)
    /\ probe' = [pc |-> "asking", generation |-> awake.generation,
                 task |-> awake.task, answer |-> "none", session |-> starts]
    /\ UNCHANGED <<awake, starts, asking, running, second, serving, seen>>

\* The transfer service answers, or cannot be reached.
Answer ==
    /\ probe.pc = "asking"
    /\ \E answer \in {IF probe.task \in running THEN "running" ELSE "ended",
                      "unreachable"} :
         /\ probe' = [probe EXCEPT !.pc = "answered", !.answer = answer]
         /\ seen' = [seen EXCEPT ![probe.session] =
                       [ended  |-> @.ended \/ answer = "ended",
                        silent |-> CASE answer = "unreachable" ->
                                            IF @.silent < Tolerance THEN @.silent + 1
                                                                    ELSE Tolerance
                                     [] answer = "running" -> 0
                                     [] answer = "ended" -> @.silent]]
    /\ UNCHANGED <<awake, starts, asking, running, second, serving>>

\* Mutant of Judged: a service that cannot be reached is asked again for ever.
JudgedPatiently(session, answer) ==
    CASE answer = "running" -> [session EXCEPT !.misses = 0]
      [] answer = "ended" -> Asleep
      [] answer = "unreachable" -> session

Judged(session, answer) ==
    CASE answer = "running" -> [session EXCEPT !.misses = 0]
      [] answer = "ended" -> Asleep
      [] answer = "unreachable" ->
           IF session.misses + 1 >= Tolerance THEN Asleep
                                              ELSE [session EXCEPT !.misses = @ + 1]

\* The answer counts only for the session that asked.
Apply ==
    /\ probe.pc = "answered"
    /\ awake' = IF awake.generation # 0 /\ awake.generation = probe.generation
                  THEN Judged(awake, probe.answer) ELSE awake
    /\ probe' = NoProbe
    /\ UNCHANGED <<starts, asking, running, second, serving, seen>>

-----------------------------------------------------------------------------
(* Tasks, time and the end of the service. *)

TaskEnds(t) ==
    /\ t \in running
    /\ running' = running \ {t}
    /\ UNCHANGED <<awake, starts, asking, probe, second, serving, seen>>

\* A transfer is retried.
TaskResumes(t) ==
    /\ t \in Moves \ running
    /\ running' = running \cup {t}
    /\ UNCHANGED <<awake, starts, asking, probe, second, serving, seen>>

Second ==
    /\ second < LastSecond
    /\ second' = second + 1
    /\ UNCHANGED <<awake, starts, asking, probe, running, serving, seen>>

Halt ==
    /\ serving = "serving"
    /\ serving' = "halting"
    /\ UNCHANGED <<awake, starts, asking, probe, running, second, seen>>

\* serve joins its workers and the lifecycle thread, then drops the session.
Exit ==
    /\ serving = "halting"
    /\ \A w \in Askers : asking[w].pc = "idle"
    /\ probe.pc = "idle"
    /\ awake' = Asleep
    /\ serving' = "exited"
    /\ UNCHANGED <<starts, asking, probe, running, second, seen>>

-----------------------------------------------------------------------------

CaffeinateInit ==
    /\ awake = Asleep
    /\ starts = 0
    /\ asking = [w \in Askers |-> NoRequest]
    /\ probe = NoProbe
    /\ running = Programs \cup Moves
    /\ second = 0
    /\ serving = "serving"
    /\ seen = [n \in 1..MaxStarts |-> Unseen]

CaffeinateNext ==
    \/ \E w \in Askers :
         \/ AskManual(w)
         \/ \E span \in Spans : AskDuration(w, span)
         \/ \E t \in Programs \cup Moves : AskTask(w, t)
         \/ InhibitFails(w) \/ Install(w)
    \/ StopSession
    \/ SweepEnds \/ SweepAsks \/ Answer \/ Apply
    \/ \E t \in Programs \cup Moves : TaskEnds(t) \/ TaskResumes(t)
    \/ Second \/ Halt \/ Exit

CaffeinateSpec == CaffeinateInit /\ [][CaffeinateNext]_caffeinateVars

\* The lifecycle thread loops every half second, its probes are bounded by
\* their deadlines (an answer or none).  Users, logind, tasks and the clock owe
\* nothing.
CaffeinateFairness ==
    /\ WF_caffeinateVars(SweepEnds)
    /\ WF_caffeinateVars(SweepAsks)
    /\ WF_caffeinateVars(Answer)
    /\ WF_caffeinateVars(Apply)

-----------------------------------------------------------------------------
(* Properties. *)

\* A sweep ends a session only for a reason of its own: its deadline passed,
\* its process ended, or the probes made since it was installed saw its
\* transfer ended or met LOST_TASK_TOLERANCE silences in a row.  An answer
\* that was asked for another session never ends this one.
EndsForItsReason ==
    [][SweepEnds \/ Apply =>
         (awake.generation # 0 /\ awake'.generation = 0 =>
            \/ Passed(awake)
            \/ Gone(awake)
            \/ seen[starts].ended
            \/ seen[starts].silent >= Tolerance)]_caffeinateVars

Overdue(g) ==
    /\ awake.generation = g
    /\ serving # "exited"
    /\ Passed(awake) \/ awake.task \in (Programs \cup Moves) \ running

\* Nothing keeps the machine awake for ever: a session whose deadline passed
\* or whose task ended, and stays ended, is over in the end, whether or not
\* the transfer service can be reached.
SessionsEnd == \A g \in 1..MaxStarts : []<>~Overdue(g)
===============================================================================
