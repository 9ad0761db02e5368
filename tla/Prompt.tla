-------------------------------- MODULE Prompt --------------------------------
(***************************************************************************)
(* The worker behind the desktop prompt: projects/prompt/src/main.rs.      *)
(*                                                                         *)
(* The main thread takes one message of the panel after the other.  A pool *)
(* of workers with a short queue collects previews of the context, runs    *)
(* turns of Codex, copies or types answers and deletes sessions.           *)
(*                                                                         *)
(* Abstractions.  The panel counts its openings, so an id stands for the   *)
(* cancel handle of that opening as well.  A previewed value is the token  *)
(* that asked for it, an answer the request it answers.  A session's home  *)
(* and model go with the session.  The texts, the window and its identity, *)
(* and the events written to the panel are left out.                       *)
(***************************************************************************)
EXTENDS Naturals, Sequences, FiniteSets

CONSTANTS
    Hands,        \* the pool's workers (4)
    QueueLimit,   \* jobs that may wait (16)
    Kinds,        \* sources of context: clip, select, dir, screen
    MaxOpens,     \* bound: openings of the panel
    MaxRequests,  \* bound: submitted prompts
    MaxTokens,    \* bound: previews asked for
    MaxSessions   \* bound: sessions of Codex

ASSUME PromptAssumption ==
    /\ QueueLimit \in Nat
    /\ MaxOpens \in Nat /\ MaxRequests \in Nat /\ MaxTokens \in Nat /\ MaxSessions \in Nat

VARIABLES
    panel,     \* the state of the open panel (id 0: none)
    counts,    \* openings, requests, tokens and sessions so far
    queue,     \* the jobs that wait
    hand,      \* what each worker does
    stored,    \* the sessions that Codex keeps
    orphans,   \* the sessions whose deletion failed three times and was reported
    parting,   \* the session the main thread took along when it stopped
    prompting  \* running, leaving or exited

promptVars == <<panel, counts, queue, hand, stored, orphans, parting, prompting>>

NoPanel == [id |-> 0, busy |-> FALSE, session |-> 0, request |-> 0, answer |-> 0,
            token |-> [k \in Kinds |-> 0], cached |-> [k \in Kinds |-> 0]]

NoJob == [type |-> "none", session |-> 0]

Resting == [pc |-> "idle", job |-> NoJob]

Preview(k, token) ==
    [type |-> "preview", panel |-> panel.id, kind |-> k, token |-> token, session |-> 0]
Turn(request) ==
    [type |-> "turn", panel |-> panel.id, request |-> request, session |-> panel.session]
Action == [type |-> "action", panel |-> panel.id, request |-> panel.request, session |-> 0]
Deletion(s) == [type |-> "delete", session |-> s]

HasRoom == Len(queue) < QueueLimit

\* codex delete, three times at most: the session goes, or is given up.
Deleted(s) ==
    \/ stored' = stored \ {s} /\ UNCHANGED orphans
    \/ s \in stored /\ orphans' = orphans \cup {s} /\ UNCHANGED stored

-----------------------------------------------------------------------------
(* The main thread. *)

\* retire, then the deletion of the session on the pool, or here when the
\* queue is full.
Retire(next) ==
    /\ panel' = next
    /\ IF panel.session = 0 THEN UNCHANGED <<queue, stored, orphans>>
       ELSE IF HasRoom
              THEN /\ queue' = Append(queue, Deletion(panel.session))
                   /\ UNCHANGED <<stored, orphans>>
              ELSE Deleted(panel.session) /\ UNCHANGED queue

Open ==
    /\ prompting = "running"
    /\ counts.opens < MaxOpens
    /\ counts' = [counts EXCEPT !.opens = @ + 1]
    /\ Retire([NoPanel EXCEPT !.id = counts.opens + 1])
    /\ UNCHANGED <<hand, parting, prompting>>

Close ==
    /\ prompting = "running"
    /\ panel.id # 0
    /\ Retire(NoPanel)
    /\ UNCHANGED <<counts, hand, parting, prompting>>

Forget(k) ==
    /\ prompting = "running"
    /\ panel.id # 0
    /\ panel' = [panel EXCEPT !.token[k] = 0, !.cached[k] = 0]
    /\ UNCHANGED <<counts, queue, hand, stored, orphans, parting, prompting>>

\* The old value goes even when the queue has no room for the job.
AskPreview(k) ==
    /\ prompting = "running"
    /\ panel.id # 0
    /\ counts.tokens < MaxTokens
    /\ counts' = [counts EXCEPT !.tokens = @ + 1]
    /\ panel' = [panel EXCEPT !.token[k] = counts.tokens + 1, !.cached[k] = 0]
    /\ queue' = IF HasRoom THEN Append(queue, Preview(k, counts.tokens + 1)) ELSE queue
    /\ UNCHANGED <<hand, stored, orphans, parting, prompting>>

\* A prompt goes out with the context that was collected, and uses it up.
Asked(request) ==
    [panel EXCEPT !.busy = TRUE, !.request = request, !.answer = 0,
                  !.token = NoPanel.token, !.cached = NoPanel.cached]

\* Mutant of Refused: the panel stays busy.
RefusedBusy(asked) == asked

Refused(asked) == [asked EXCEPT !.busy = FALSE]

\* mentioned: what the prompt refers to must have been collected.
Submit(mentioned) ==
    /\ prompting = "running"
    /\ panel.id # 0 /\ ~panel.busy
    /\ \A k \in mentioned : panel.cached[k] # 0
    /\ counts.requests < MaxRequests
    /\ LET request == counts.requests + 1 IN
         /\ counts' = [counts EXCEPT !.requests = request]
         /\ IF HasRoom
              THEN queue' = Append(queue, Turn(request)) /\ panel' = Asked(request)
              ELSE panel' = Refused(Asked(request)) /\ UNCHANGED queue
    /\ UNCHANGED <<hand, stored, orphans, parting, prompting>>

\* copy and insert, of the answer that is shown.
Act ==
    /\ prompting = "running"
    /\ panel.answer # 0
    /\ HasRoom
    /\ queue' = Append(queue, Action)
    /\ UNCHANGED <<panel, counts, hand, stored, orphans, parting, prompting>>

\* The signal, or the end of the input.
Leave ==
    /\ prompting = "running"
    /\ prompting' = "leaving"
    /\ parting' = panel.session
    /\ panel' = NoPanel
    /\ UNCHANGED <<counts, queue, hand, stored, orphans>>

\* The pool is joined once its queue is empty.
Quit ==
    /\ prompting = "leaving"
    /\ queue = <<>>
    /\ \A w \in Hands : hand[w].pc = "idle"
    /\ IF parting = 0 THEN UNCHANGED <<stored, orphans>> ELSE Deleted(parting)
    /\ parting' = 0
    /\ prompting' = "exited"
    /\ UNCHANGED <<panel, counts, queue, hand>>

-----------------------------------------------------------------------------
(* The workers. *)

Take(w) ==
    /\ hand[w].pc = "idle"
    /\ queue # <<>>
    /\ hand' = [hand EXCEPT ![w] = [pc |-> "start", job |-> Head(queue)]]
    /\ queue' = Tail(queue)
    /\ UNCHANGED <<panel, counts, stored, orphans, parting, prompting>>

At(w, type, pc) == hand[w].job.type = type /\ hand[w].pc = pc

\* Mutant of ForThisPanel: any open panel will do.
ForAnyPanel(job) == panel.id # 0

ForThisPanel(job) == panel.id # 0 /\ panel.id = job.panel

Wanted(job) == ForThisPanel(job) /\ panel.token[job.kind] = job.token

StartPreview(w) ==
    /\ At(w, "preview", "start")
    /\ hand' = IF Wanted(hand[w].job) THEN [hand EXCEPT ![w].pc = "collecting"]
                                      ELSE [hand EXCEPT ![w] = Resting]
    /\ UNCHANGED <<panel, counts, queue, stored, orphans, parting, prompting>>

\* A late preview, of a panel that is gone or a token that was replaced, is dropped.
EndPreview(w, collected) ==
    /\ At(w, "preview", "collecting")
    /\ panel' = IF Wanted(hand[w].job)
                  THEN [panel EXCEPT !.cached[hand[w].job.kind] =
                                    IF collected THEN hand[w].job.token ELSE 0]
                  ELSE panel
    /\ hand' = [hand EXCEPT ![w] = Resting]
    /\ UNCHANGED <<counts, queue, stored, orphans, parting, prompting>>

\* A turn of a panel that is gone does not start Codex.
StartTurn(w) ==
    /\ At(w, "turn", "start")
    /\ hand' = [hand EXCEPT ![w].pc = IF ForThisPanel(hand[w].job) THEN "codex" ELSE "done"]
    /\ UNCHANGED <<panel, counts, queue, stored, orphans, parting, prompting>>

\* Codex names its thread; a running one writes its session.
Thread(w) ==
    /\ At(w, "turn", "codex")
    /\ LET s == hand[w].job.session IN
         IF s = 0
           THEN /\ counts.sessions < MaxSessions
                /\ counts' = [counts EXCEPT !.sessions = @ + 1]
                /\ hand' = [hand EXCEPT ![w].job.session = counts.sessions + 1]
                /\ stored' = stored \cup {counts.sessions + 1}
           ELSE /\ stored' = stored \cup {s}
                /\ UNCHANGED <<counts, hand>>
    /\ UNCHANGED <<panel, queue, orphans, parting, prompting>>

\* Mutant of TooLate: nobody deletes the session.
TooLateKept(session) == Resting

\* What the worker does with the session of a panel that is gone.
TooLate(session) == [pc |-> "start", job |-> Deletion(session)]

\* Codex ended, with an answer, without one or because it was cancelled.  The
\* panel that asked keeps the session; otherwise it is deleted.
EndTurn(w, answered) ==
    /\ At(w, "turn", "codex") \/ (At(w, "turn", "done") /\ ~answered)
    /\ LET job == hand[w].job IN
         IF ForThisPanel(job)
           THEN /\ panel' = [panel EXCEPT !.busy = FALSE, !.session = job.session,
                               !.answer = IF answered THEN job.request ELSE @]
                /\ hand' = [hand EXCEPT ![w] = Resting]
           ELSE /\ hand' = [hand EXCEPT ![w] = TooLate(job.session)]
                /\ UNCHANGED panel
    /\ UNCHANGED <<counts, queue, stored, orphans, parting, prompting>>

Delete(w) ==
    /\ At(w, "delete", "start")
    /\ IF hand[w].job.session = 0 THEN UNCHANGED <<stored, orphans>>
                                  ELSE Deleted(hand[w].job.session)
    /\ hand' = [hand EXCEPT ![w] = Resting]
    /\ UNCHANGED <<panel, counts, queue, parting, prompting>>

\* The answer is copied or typed only while the same answer is shown; typing
\* checks it again after the source window has the focus.
Matches(job) == ForThisPanel(job) /\ panel.request = job.request /\ panel.answer # 0

StartAction(w) ==
    /\ At(w, "action", "start")
    /\ hand' = IF Matches(hand[w].job) THEN [hand EXCEPT ![w].pc = "focusing"]
                                       ELSE [hand EXCEPT ![w] = Resting]
    /\ UNCHANGED <<panel, counts, queue, stored, orphans, parting, prompting>>

EndAction(w) ==
    /\ At(w, "action", "focusing")
    /\ hand' = [hand EXCEPT ![w] = Resting]
    /\ UNCHANGED <<panel, counts, queue, stored, orphans, parting, prompting>>

Work(w) ==
    \/ Take(w)
    \/ StartPreview(w)
    \/ \E collected \in BOOLEAN : EndPreview(w, collected)
    \/ StartTurn(w) \/ \E answered \in BOOLEAN : EndTurn(w, answered)
    \/ Delete(w)
    \/ StartAction(w) \/ EndAction(w)

-----------------------------------------------------------------------------

PromptInit ==
    /\ panel = NoPanel
    /\ counts = [opens |-> 0, requests |-> 0, tokens |-> 0, sessions |-> 0]
    /\ queue = <<>>
    /\ hand = [w \in Hands |-> Resting]
    /\ stored = {} /\ orphans = {}
    /\ parting = 0
    /\ prompting = "running"

PromptNext ==
    \/ Open \/ Close \/ Act \/ Leave \/ Quit
    \/ \E k \in Kinds : Forget(k) \/ AskPreview(k)
    \/ \E mentioned \in SUBSET Kinds : Submit(mentioned)
    \/ \E w \in Hands : Work(w) \/ Thread(w)

PromptSpec == PromptInit /\ [][PromptNext]_promptVars

\* Every child of a worker has a deadline (3, 5, 12 or 180 seconds), so a
\* worker goes on; the panel and Codex owe nothing.
PromptFairness == \A w \in Hands : WF_promptVars(Work(w))

-----------------------------------------------------------------------------
(* Properties. *)

JobsAtHand == {queue[i] : i \in DOMAIN queue} \cup {hand[w].job : w \in Hands}

\* A private conversation does not outlive its panel: every session that Codex
\* keeps is the open panel's, or some job or the leaving main thread still has
\* to delete it, or its deletion was tried and reported.  The hard case is a
\* turn that made its session after its panel was closed or opened again.
SessionsAccounted ==
    stored \subseteq orphans \cup {panel.session, parting} \cup {j.session : j \in JobsAtHand}

\* What comes late is dropped: the panel shows no answer but that of its own
\* last prompt, none while it is busy, and attaches no context but what the
\* newest request for that source collected.
ShownIsAsked ==
    /\ panel.answer \in {0, panel.request}
    /\ panel.busy => panel.answer = 0
    /\ \A k \in Kinds : panel.cached[k] \in {0, panel.token[k]}

\* A panel is not busy for ever: the turn ends, or could not be queued.
BusyEnds == []<>~panel.busy
===============================================================================
