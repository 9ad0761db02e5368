----------------------------- MODULE PanelProofs -----------------------------
(***************************************************************************)
(* Theorems about the workers behind three panels: the desktop prompt      *)
(* (Prompt.tla), Caffeinate (Caffeinate.tla) and Home Assistant            *)
(* (HomeAssistant.tla), for any constants.                                 *)
(***************************************************************************)
EXTENDS Prompt, Caffeinate, HomeAssistant, TLAPS

-----------------------------------------------------------------------------
(* The prompt: jobs, and what they may say of the open panel. *)

PreviewJob == [type : {"preview"}, panel : Nat, kind : Kinds, token : Nat, session : {0}]
TurnJob == [type : {"turn"}, panel : Nat, request : Nat, session : Nat]
ActionJob == [type : {"action"}, panel : Nat, request : Nat, session : {0}]
DeleteJob == [type : {"delete"}, session : Nat]

Job == PreviewJob \cup TurnJob \cup ActionJob \cup DeleteJob

Duty == [pc : {"idle", "start", "collecting", "codex", "done", "focusing"},
         job : Job \cup {NoJob}]

PanelState ==
    [id : Nat, busy : BOOLEAN, session : Nat, request : Nat, answer : Nat,
     token : [Kinds -> Nat], cached : [Kinds -> Nat]]

PromptTypeOK ==
    /\ panel \in PanelState
    /\ counts \in [opens : Nat, requests : Nat, tokens : Nat, sessions : Nat]
    /\ queue \in Seq(Job)
    /\ hand \in [Hands -> Duty]
    /\ \A w \in Hands : hand[w].pc = "idle" => hand[w].job = NoJob
    /\ stored \subseteq Nat \ {0}
    /\ parting \in Nat
    /\ prompting = "running" => parting = 0

\* A job is of a panel that was opened; the turn of the open panel is what that
\* panel waits for, and goes on with its session, if it has one.
JobOK(j, p, c) ==
    j.type = "turn" =>
        /\ j.panel \in 1..c.opens /\ j.request \in 1..c.requests
        /\ j.panel = p.id => p.busy /\ j.request = p.request /\ p.session \in {0, j.session}

JobsOK ==
    /\ panel.id <= counts.opens
    /\ \A i \in DOMAIN queue : JobOK(queue[i], panel, counts)
    /\ \A w \in Hands : JobOK(hand[w].job, panel, counts)

\* No two turns answer one request.
Different(j, k) == j.type = "turn" /\ k.type = "turn" => j.request # k.request

TurnsDiffer ==
    /\ \A i, k \in DOMAIN queue : i # k => Different(queue[i], queue[k])
    /\ \A v, w \in Hands : v # w => Different(hand[v].job, hand[w].job)
    /\ \A i \in DOMAIN queue, w \in Hands : Different(queue[i], hand[w].job)

PromptInv ==
    /\ PromptTypeOK
    /\ JobsOK
    /\ TurnsDiffer
    /\ SessionsAccounted
    /\ ShownIsAsked

LEMMA NoPanelType ==
    /\ NoPanel \in PanelState
    /\ NoPanel.id = 0 /\ NoPanel.busy = FALSE /\ NoPanel.answer = 0 /\ NoPanel.request = 0
    /\ \A k \in Kinds : NoPanel.cached[k] = 0
  BY DEF NoPanel, PanelState

LEMMA RestingType == Resting \in Duty
  BY DEF Resting, Duty

LEMMA PromptInitOK ==
    ASSUME PromptInit
    PROVE  PromptInv
  <1> USE DEF PromptInit
  <1>1. PromptTypeOK
    BY NoPanelType, RestingType DEF PromptTypeOK, Resting
  <1>2. JobsOK
    BY DEF JobsOK, JobOK, NoPanel, Resting, NoJob
  <1>3. TurnsDiffer
    BY DEF TurnsDiffer, Different, Resting, NoJob
  <1>4. SessionsAccounted /\ ShownIsAsked
    BY DEF SessionsAccounted, ShownIsAsked, NoPanel
  <1> QED BY <1>1, <1>2, <1>3, <1>4 DEF PromptInv

\* A job is put at the end of the queue, or there is none to put.
LEMMA JobAdded ==
    ASSUME PromptTypeOK, TurnsDiffer, hand' = hand,
           NEW j \in Job,
           queue' = queue \/ queue' = Append(queue, j),
           \A i \in DOMAIN queue : Different(queue[i], j),
           \A w \in Hands : Different(hand[w].job, j)
    PROVE  /\ queue' \in Seq(Job)
           /\ TurnsDiffer'
           /\ \A i \in DOMAIN queue' :
                 queue'[i] = j \/ \E k \in DOMAIN queue : queue'[i] = queue[k]
           /\ JobsAtHand \subseteq JobsAtHand'
           /\ queue' = Append(queue, j) => j \in JobsAtHand'
  <1> USE DEF PromptTypeOK
  <1>1. CASE queue' = queue
    BY <1>1, SMTT(30) DEF TurnsDiffer, JobsAtHand
  <1>2. CASE queue' = Append(queue, j)
    <2>1. /\ queue' \in Seq(Job)
          /\ DOMAIN queue = 1..Len(queue) /\ DOMAIN queue' = 1..(Len(queue) + 1)
          /\ Len(queue) \in Nat
          /\ queue'[Len(queue) + 1] = j
          /\ \A i \in DOMAIN queue : queue'[i] = queue[i]
      BY <1>2
    <2>2. \A i \in DOMAIN queue' : i \in DOMAIN queue \/ i = Len(queue) + 1
      BY <2>1
    <2>3. TurnsDiffer'
      <3>1. ASSUME NEW i \in DOMAIN queue', NEW k \in DOMAIN queue', i # k
            PROVE  Different(queue'[i], queue'[k])
        BY <2>1, <2>2, <3>1 DEF TurnsDiffer, Different
      <3>2. ASSUME NEW i \in DOMAIN queue', NEW w \in Hands
            PROVE  Different(queue'[i], hand'[w].job)
        BY <2>1, <2>2 DEF TurnsDiffer, Different
      <3>3. ASSUME NEW v \in Hands, NEW w \in Hands, v # w
            PROVE  Different(hand'[v].job, hand'[w].job)
        BY <3>3 DEF TurnsDiffer
      <3> QED BY <3>1, <3>2, <3>3 DEF TurnsDiffer
    <2>4. JobsAtHand \subseteq JobsAtHand' /\ j \in JobsAtHand'
      <3>1. DOMAIN queue \subseteq DOMAIN queue' /\ Len(queue) + 1 \in DOMAIN queue'
        BY <2>1
      <3>2. ASSUME NEW x \in JobsAtHand
            PROVE  x \in JobsAtHand'
        <4>1. CASE \E i \in DOMAIN queue : x = queue[i]
          <5>1. PICK i \in DOMAIN queue : x = queue[i]
            BY <4>1
          <5>2. i \in DOMAIN queue' /\ x = queue'[i]
            BY <2>1, <3>1, <5>1
          <5> QED BY <5>2 DEF JobsAtHand
        <4>2. CASE \E w \in Hands : x = hand[w].job
          BY <4>2 DEF JobsAtHand
        <4> QED BY <3>2, <4>1, <4>2 DEF JobsAtHand
      <3>3. j \in JobsAtHand'
        BY <2>1, <3>1 DEF JobsAtHand
      <3> QED BY <3>2, <3>3
    <2> QED BY <2>1, <2>2, <2>3, <2>4
  <1> QED BY <1>1, <1>2

\* A worker goes on with its job, or with another that is no other turn.
LEMMA HandMoves ==
    ASSUME PromptTypeOK, TurnsDiffer, queue' = queue, NEW w \in Hands, NEW d \in Duty,
           hand' = [hand EXCEPT ![w] = d],
           d.pc = "idle" => d.job = NoJob,
           d.job.type = "turn" => /\ hand[w].job.type = "turn"
                                  /\ d.job.request = hand[w].job.request
    PROVE  /\ hand' \in [Hands -> Duty]
           /\ \A v \in Hands : hand'[v].pc = "idle" => hand'[v].job = NoJob
           /\ TurnsDiffer'
           /\ hand'[w] = d /\ \A v \in Hands \ {w} : hand'[v] = hand[v]
           /\ JobsAtHand \subseteq JobsAtHand' \cup {hand[w].job}
           /\ d.job \in JobsAtHand'
  <1>1. /\ hand' \in [Hands -> Duty]
        /\ hand'[w] = d /\ \A v \in Hands \ {w} : hand'[v] = hand[v]
    BY DEF PromptTypeOK
  <1>2. TurnsDiffer'
    BY <1>1 DEF TurnsDiffer, Different
  <1>3. /\ JobsAtHand \subseteq JobsAtHand' \cup {hand[w].job}
        /\ d.job \in JobsAtHand'
    BY <1>1 DEF JobsAtHand
  <1> QED BY <1>1, <1>2, <1>3 DEF PromptTypeOK

\* A session to be deleted is gone, or given up and reported.
LEMMA DeletedGoes ==
    ASSUME NEW s, Deleted(s)
    PROVE  /\ stored' \subseteq stored /\ orphans \subseteq orphans'
           /\ s \in stored' => s \in orphans'
  BY DEF Deleted

\* The panel is gone: a job deletes its session, or the main thread did.
LEMMA RetireKeeps ==
    ASSUME PromptInv, NEW next, Retire(next), UNCHANGED <<hand, parting>>
    PROVE  /\ queue' \in Seq(Job)
           /\ TurnsDiffer'
           /\ \A i \in DOMAIN queue' :
                 queue'[i].type = "delete" \/ \E k \in DOMAIN queue : queue'[i] = queue[k]
           /\ stored' \subseteq Nat \ {0}
           /\ SessionsAccounted'
  <1> USE DEF PromptInv
  <1>1. Deletion(panel.session) \in Job /\ Deletion(panel.session).type = "delete"
    BY DEF PromptTypeOK, PanelState, Job, DeleteJob, Deletion
  <1>2. queue' = queue \/ queue' = Append(queue, Deletion(panel.session))
    BY DEF Retire
  <1>3. /\ queue' \in Seq(Job)
        /\ TurnsDiffer'
        /\ \A i \in DOMAIN queue' : \/ queue'[i] = Deletion(panel.session)
                                    \/ \E k \in DOMAIN queue : queue'[i] = queue[k]
        /\ JobsAtHand \subseteq JobsAtHand'
        /\ queue' = Append(queue, Deletion(panel.session)) =>
             Deletion(panel.session) \in JobsAtHand'
    BY <1>1, <1>2, JobAdded DEF Different
  <1>4. /\ stored' \subseteq stored /\ orphans \subseteq orphans'
        /\ panel.session \in stored' =>
             panel.session \in orphans' \/ Deletion(panel.session) \in JobsAtHand'
    <2>1. CASE panel.session = 0
      BY <2>1 DEF Retire, PromptTypeOK
    <2>2. CASE panel.session # 0
      BY <1>3, <2>2, DeletedGoes DEF Retire
    <2> QED BY <2>1, <2>2
  <1>5. SessionsAccounted'
    <2>1. Deletion(panel.session).session = panel.session
      BY DEF Deletion
    <2> QED BY <1>3, <1>4, <2>1 DEF SessionsAccounted
  <1> QED BY <1>1, <1>3, <1>4, <1>5 DEF PromptTypeOK

\* The jobs stay what they were, and the panel is new, or none.
LEMMA NewPanelJobs ==
    ASSUME PromptInv, hand' = hand,
           \A i \in DOMAIN queue' :
              queue'[i].type = "delete" \/ \E k \in DOMAIN queue : queue'[i] = queue[k],
           counts' \in [opens : Nat, requests : Nat, tokens : Nat, sessions : Nat],
           counts'.opens >= counts.opens, counts'.requests = counts.requests,
           \/ panel'.id = 0
           \/ panel'.id = counts.opens + 1 /\ panel'.id = counts'.opens
    PROVE  JobsOK'
  <1> USE DEF PromptInv
  <1>1. counts \in [opens : Nat, requests : Nat, tokens : Nat, sessions : Nat]
    BY DEF PromptTypeOK
  <1>2. ASSUME NEW j, JobOK(j, panel, counts)
        PROVE  j.type = "turn" =>
                 /\ j.panel \in 1..counts'.opens /\ j.request \in 1..counts'.requests
                 /\ j.panel # panel'.id
    BY <1>1, <1>2 DEF JobOK
  <1>3. \A i \in DOMAIN queue' :
           queue'[i].type = "turn" =>
             /\ queue'[i].panel \in 1..counts'.opens
             /\ queue'[i].request \in 1..counts'.requests
             /\ queue'[i].panel # panel'.id
    BY <1>2 DEF JobsOK
  <1>4. \A w \in Hands :
           hand'[w].job.type = "turn" =>
             /\ hand'[w].job.panel \in 1..counts'.opens
             /\ hand'[w].job.request \in 1..counts'.requests
             /\ hand'[w].job.panel # panel'.id
    BY <1>2 DEF JobsOK
  <1> QED BY <1>1, <1>3, <1>4 DEF JobsOK, JobOK

LEMMA OpenKeeps ==
    ASSUME PromptInv, Open
    PROVE  PromptInv'
  <1> DEFINE next == [NoPanel EXCEPT !.id = counts.opens + 1]
  <1>1. /\ counts \in [opens : Nat, requests : Nat, tokens : Nat, sessions : Nat]
        /\ counts' = [counts EXCEPT !.opens = @ + 1]
    BY DEF Open, PromptInv, PromptTypeOK
  <1>2. /\ next \in PanelState /\ next.id = counts.opens + 1
        /\ next.busy = FALSE /\ next.answer = 0 /\ next.request = 0
        /\ \A k \in Kinds : next.cached[k] = 0
    BY <1>1, NoPanelType DEF PanelState
  <1>3. /\ counts' \in [opens : Nat, requests : Nat, tokens : Nat, sessions : Nat]
        /\ counts'.opens = counts.opens + 1 /\ counts'.requests = counts.requests
    BY <1>1
  <1>4. Retire(next) /\ UNCHANGED <<hand, parting, prompting>>
    BY DEF Open
  <1>5. panel' = next
    BY <1>4 DEF Retire
  <1> HIDE DEF next
  <1>6. /\ queue' \in Seq(Job)
        /\ TurnsDiffer'
        /\ \A i \in DOMAIN queue' :
              queue'[i].type = "delete" \/ \E k \in DOMAIN queue : queue'[i] = queue[k]
        /\ stored' \subseteq Nat \ {0}
        /\ SessionsAccounted'
    BY <1>4, RetireKeeps
  <1>7. JobsOK'
    BY <1>1, <1>2, <1>3, <1>4, <1>5, <1>6, NewPanelJobs
  <1>8. PromptTypeOK'
    BY <1>2, <1>3, <1>4, <1>5, <1>6 DEF PromptInv, PromptTypeOK
  <1>9. ShownIsAsked'
    BY <1>2, <1>5 DEF ShownIsAsked
  <1> QED BY <1>6, <1>7, <1>8, <1>9 DEF PromptInv

LEMMA CloseKeeps ==
    ASSUME PromptInv, Close
    PROVE  PromptInv'
  <1>1. /\ counts \in [opens : Nat, requests : Nat, tokens : Nat, sessions : Nat]
        /\ Retire(NoPanel) /\ UNCHANGED <<counts, hand, parting, prompting>>
    BY DEF Close, PromptInv, PromptTypeOK
  <1>2. panel' = NoPanel
    BY <1>1 DEF Retire
  <1>3. /\ queue' \in Seq(Job)
        /\ TurnsDiffer'
        /\ \A i \in DOMAIN queue' :
              queue'[i].type = "delete" \/ \E k \in DOMAIN queue : queue'[i] = queue[k]
        /\ stored' \subseteq Nat \ {0}
        /\ SessionsAccounted'
    BY <1>1, RetireKeeps
  <1>4. JobsOK'
    <2>1. /\ panel'.id = 0 /\ hand' = hand /\ counts'.requests = counts.requests
          /\ counts' \in [opens : Nat, requests : Nat, tokens : Nat, sessions : Nat]
          /\ counts'.opens >= counts.opens
      BY <1>1, <1>2, NoPanelType
    <2> QED BY <1>3, <2>1, NewPanelJobs
  <1>5. PromptTypeOK'
    BY <1>1, <1>2, <1>3, NoPanelType DEF PromptInv, PromptTypeOK
  <1>6. ShownIsAsked'
    BY <1>2 DEF ShownIsAsked, NoPanel
  <1> QED BY <1>3, <1>4, <1>5, <1>6 DEF PromptInv

\* The session goes with the main thread, which deletes it last.
LEMMA LeaveKeeps ==
    ASSUME PromptInv, Leave
    PROVE  PromptInv'
  <1> USE DEF PromptInv
  <1>1. /\ panel' = NoPanel /\ parting' = panel.session /\ parting = 0
        /\ prompting' = "leaving" /\ UNCHANGED <<counts, queue, hand, stored, orphans>>
    BY DEF Leave, PromptTypeOK
  <1>2. JobsOK'
    <2>1. /\ panel'.id = 0 /\ hand' = hand /\ counts'.requests = counts.requests
          /\ counts' \in [opens : Nat, requests : Nat, tokens : Nat, sessions : Nat]
          /\ counts'.opens >= counts.opens
      BY <1>1, NoPanelType DEF PromptTypeOK
    <2>2. \A i \in DOMAIN queue' : \E k \in DOMAIN queue : queue'[i] = queue[k]
      BY <1>1
    <2> QED BY <2>1, <2>2, NewPanelJobs
  <1>3. PromptTypeOK'
    BY <1>1, NoPanelType DEF PromptTypeOK, PanelState
  <1>4. TurnsDiffer' /\ ShownIsAsked'
    BY <1>1 DEF TurnsDiffer, ShownIsAsked, NoPanel
  <1>5. SessionsAccounted'
    BY <1>1 DEF SessionsAccounted, JobsAtHand, PromptTypeOK
  <1> QED BY <1>2, <1>3, <1>4, <1>5

LEMMA QuitKeeps ==
    ASSUME PromptInv, Quit
    PROVE  PromptInv'
  <1> USE DEF PromptInv
  <1>1. /\ UNCHANGED <<panel, counts, queue, hand>>
        /\ parting' = 0 /\ prompting' = "exited"
    BY DEF Quit
  <1>2. /\ stored' \subseteq stored /\ orphans \subseteq orphans'
        /\ parting \in stored' => parting \in orphans'
    <2>1. CASE parting = 0
      BY <2>1 DEF Quit, PromptTypeOK
    <2>2. CASE parting # 0
      BY <2>2, DeletedGoes DEF Quit
    <2> QED BY <2>1, <2>2
  <1>3. PromptTypeOK' /\ JobsOK' /\ TurnsDiffer' /\ ShownIsAsked'
    BY <1>1, <1>2 DEF PromptTypeOK, JobsOK, JobOK, TurnsDiffer, ShownIsAsked
  <1>4. SessionsAccounted'
    BY <1>1, <1>2 DEF SessionsAccounted, JobsAtHand
  <1> QED BY <1>3, <1>4

\* The open panel asks for something else, and the jobs there were fit it still.
LEMMA SamePanelJobs ==
    ASSUME PromptInv, hand' = hand, UNCHANGED counts,
           panel'.id = panel.id, panel'.busy = panel.busy, panel'.request = panel.request,
           panel'.session = panel.session,
           \A i \in DOMAIN queue' :
              queue'[i].type # "turn" \/ \E k \in DOMAIN queue : queue'[i] = queue[k]
    PROVE  JobsOK'
  BY DEF PromptInv, JobsOK, JobOK

LEMMA ForgetKeeps ==
    ASSUME PromptInv, NEW k \in Kinds, Forget(k)
    PROVE  PromptInv'
  <1> USE DEF PromptInv
  <1>1. UNCHANGED <<counts, queue, hand, stored, orphans, parting, prompting>>
    BY DEF Forget
  <1>2. /\ panel' \in PanelState /\ panel'.id = panel.id /\ panel'.busy = panel.busy
        /\ panel'.request = panel.request /\ panel'.session = panel.session
        /\ panel'.answer = panel.answer
        /\ \A m \in Kinds : /\ panel'.token[m] = IF m = k THEN 0 ELSE panel.token[m]
                            /\ panel'.cached[m] = IF m = k THEN 0 ELSE panel.cached[m]
    BY DEF Forget, PromptTypeOK, PanelState
  <1>3. PromptTypeOK' /\ TurnsDiffer'
    BY <1>1, <1>2 DEF PromptTypeOK, TurnsDiffer
  <1>4. JobsOK'
    BY <1>1, <1>2 DEF JobsOK, JobOK
  <1>5. SessionsAccounted'
    BY <1>1, <1>2 DEF SessionsAccounted, JobsAtHand
  <1>6. ShownIsAsked'
    BY <1>2 DEF ShownIsAsked
  <1> QED BY <1>3, <1>4, <1>5, <1>6

LEMMA AskPreviewKeeps ==
    ASSUME PromptInv, NEW k \in Kinds, AskPreview(k)
    PROVE  PromptInv'
  <1> USE DEF PromptInv
  <1> DEFINE j == Preview(k, counts.tokens + 1)
  <1>1. /\ UNCHANGED <<hand, stored, orphans, parting, prompting>>
        /\ counts' = [counts EXCEPT !.tokens = @ + 1]
        /\ counts \in [opens : Nat, requests : Nat, tokens : Nat, sessions : Nat]
    BY DEF AskPreview, PromptTypeOK
  <1>2. /\ panel' \in PanelState /\ panel'.id = panel.id /\ panel'.busy = panel.busy
        /\ panel'.request = panel.request /\ panel'.session = panel.session
        /\ panel'.answer = panel.answer
        /\ \A m \in Kinds : \/ panel'.cached[m] = 0
                            \/ /\ panel'.token[m] = panel.token[m]
                               /\ panel'.cached[m] = panel.cached[m]
    <2> DEFINE token == counts.tokens + 1
    <2>1. /\ token \in Nat /\ panel \in PanelState
          /\ panel' = [panel EXCEPT !.token[k] = token, !.cached[k] = 0]
      BY <1>1 DEF AskPreview, PromptTypeOK
    <2> HIDE DEF token
    <2> QED BY <2>1 DEF PanelState
  <1>3. j \in Job /\ j.type = "preview"
    BY <1>1 DEF Preview, Job, PreviewJob, PromptTypeOK, PanelState
  <1>4. queue' = queue \/ queue' = Append(queue, j)
    BY DEF AskPreview
  <1> HIDE DEF j
  <1>5. /\ queue' \in Seq(Job)
        /\ TurnsDiffer'
        /\ \A i \in DOMAIN queue' :
              queue'[i] = j \/ \E m \in DOMAIN queue : queue'[i] = queue[m]
        /\ JobsAtHand \subseteq JobsAtHand'
    BY <1>1, <1>3, <1>4, JobAdded DEF Different
  <1>6. /\ counts' \in [opens : Nat, requests : Nat, tokens : Nat, sessions : Nat]
        /\ counts'.opens = counts.opens /\ counts'.requests = counts.requests
    BY <1>1
  <1>7. PromptTypeOK'
    BY <1>1, <1>2, <1>5, <1>6 DEF PromptTypeOK
  <1>8. JobsOK'
    BY <1>1, <1>2, <1>3, <1>5, <1>6 DEF JobsOK, JobOK
  <1>9. SessionsAccounted'
    BY <1>1, <1>2, <1>5 DEF SessionsAccounted
  <1>10. ShownIsAsked'
    BY <1>2 DEF ShownIsAsked
  <1> QED BY <1>5, <1>7, <1>8, <1>9, <1>10

LEMMA ActKeeps ==
    ASSUME PromptInv, Act
    PROVE  PromptInv'
  <1> USE DEF PromptInv
  <1>1. /\ UNCHANGED <<panel, counts, hand, stored, orphans, parting, prompting>>
        /\ queue' = Append(queue, Action)
    BY DEF Act
  <1>2. Action \in Job /\ Action.type = "action"
    BY DEF Action, Job, ActionJob, PromptTypeOK, PanelState
  <1>3. /\ queue' \in Seq(Job)
        /\ TurnsDiffer'
        /\ \A i \in DOMAIN queue' : \/ queue'[i] = Action
                                    \/ \E m \in DOMAIN queue : queue'[i] = queue[m]
        /\ JobsAtHand \subseteq JobsAtHand'
    BY <1>1, <1>2, JobAdded DEF Different
  <1>4. PromptTypeOK' /\ ShownIsAsked'
    BY <1>1, <1>3 DEF PromptTypeOK, ShownIsAsked
  <1>5. JobsOK'
    BY <1>1, <1>2, <1>3 DEF JobsOK, JobOK
  <1>6. SessionsAccounted'
    BY <1>1, <1>3 DEF SessionsAccounted
  <1> QED BY <1>3, <1>4, <1>5, <1>6

\* Only an open panel that waits for nothing asks, so no other turn is its own.
LEMMA SubmitKeeps ==
    ASSUME PromptInv, NEW mentioned, Submit(mentioned)
    PROVE  PromptInv'
  <1> USE DEF PromptInv
  <1> DEFINE request == counts.requests + 1
             j == Turn(request)
  <1>1. /\ UNCHANGED <<hand, stored, orphans, parting, prompting>>
        /\ counts' = [counts EXCEPT !.requests = request]
        /\ counts \in [opens : Nat, requests : Nat, tokens : Nat, sessions : Nat]
        /\ panel \in PanelState /\ panel.id # 0 /\ ~panel.busy
    BY DEF Submit, PromptTypeOK
  <1>2. j \in Job /\ j = [type |-> "turn", panel |-> panel.id, request |-> request,
                          session |-> panel.session]
    BY <1>1 DEF Turn, Job, TurnJob, PanelState
  <1>3. /\ counts' \in [opens : Nat, requests : Nat, tokens : Nat, sessions : Nat]
        /\ counts'.opens = counts.opens /\ counts'.requests = request
        /\ request \in Nat /\ counts.requests < request
    BY <1>1
  <1>4. /\ panel' \in PanelState /\ panel'.id = panel.id
        /\ panel'.request = request /\ panel'.session = panel.session
        /\ panel'.answer = 0 /\ \A k \in Kinds : panel'.cached[k] = 0
    <2>1. panel' \in {Asked(request), Refused(Asked(request))}
      BY DEF Submit
    <2>2. /\ NoPanel.token \in [Kinds -> Nat] /\ NoPanel.cached \in [Kinds -> Nat]
          /\ \A k \in Kinds : NoPanel.cached[k] = 0
      BY DEF NoPanel
    <2>3. /\ Asked(request) \in PanelState /\ Asked(request).id = panel.id
          /\ Asked(request).request = request /\ Asked(request).session = panel.session
          /\ Asked(request).answer = 0 /\ Asked(request).cached = NoPanel.cached
      BY <1>1, <1>3, <2>2 DEF Asked, PanelState
    <2>4. /\ Refused(Asked(request)) \in PanelState
          /\ Refused(Asked(request)).id = panel.id
          /\ Refused(Asked(request)).request = request
          /\ Refused(Asked(request)).session = panel.session
          /\ Refused(Asked(request)).answer = 0
          /\ Refused(Asked(request)).cached = NoPanel.cached
      BY <2>3 DEF Refused, PanelState
    <2> QED BY <2>1, <2>2, <2>3, <2>4
  <1>5. \/ queue' = queue
        \/ queue' = Append(queue, j) /\ panel'.busy
    BY <1>1 DEF Submit, Asked, PanelState
  <1> HIDE DEF request, j
  <1>6. ASSUME NEW m, JobOK(m, panel, counts)
        PROVE  Different(m, j)
    BY <1>1, <1>2, <1>3, <1>6 DEF JobOK, Different
  <1>7. /\ \A m \in DOMAIN queue : Different(queue[m], j)
        /\ \A w \in Hands : Different(hand[w].job, j)
    BY <1>6 DEF JobsOK
  <1>8. /\ queue' \in Seq(Job)
        /\ TurnsDiffer'
        /\ \A i \in DOMAIN queue' :
              queue'[i] = j \/ \E m \in DOMAIN queue : queue'[i] = queue[m]
        /\ JobsAtHand \subseteq JobsAtHand'
    BY <1>1, <1>2, <1>5, <1>6, <1>7, JobAdded
  <1>9. PromptTypeOK'
    BY <1>1, <1>3, <1>4, <1>8 DEF PromptTypeOK
  <1>10. ASSUME NEW m, JobOK(m, panel, counts)
         PROVE  JobOK(m, panel', counts')
    BY <1>1, <1>3, <1>4, <1>10 DEF JobOK
  <1>11. queue' # queue => JobOK(j, panel', counts')
    BY <1>1, <1>2, <1>3, <1>4, <1>5 DEF JobOK, JobsOK, PanelState
  <1>12. JobsOK'
    <2>1. panel'.id <= counts'.opens
      BY <1>3, <1>4 DEF JobsOK
    <2>2. \A w \in Hands : JobOK(hand'[w].job, panel', counts')
      BY <1>1, <1>10 DEF JobsOK
    <2>3. \A i \in DOMAIN queue' : JobOK(queue'[i], panel', counts')
      BY <1>8, <1>10, <1>11 DEF JobsOK
    <2> QED BY <2>1, <2>2, <2>3 DEF JobsOK
  <1>13. SessionsAccounted'
    BY <1>1, <1>4, <1>8 DEF SessionsAccounted
  <1>14. ShownIsAsked'
    BY <1>4 DEF ShownIsAsked
  <1> QED BY <1>8, <1>9, <1>12, <1>13, <1>14

LEMMA TakeKeeps ==
    ASSUME PromptInv, NEW w \in Hands, Take(w)
    PROVE  PromptInv'
  <1> USE DEF PromptInv
  <1> DEFINE j == Head(queue)
             d == [pc |-> "start", job |-> j]
  <1>1. /\ UNCHANGED <<panel, counts, stored, orphans, parting, prompting>>
        /\ hand[w].pc = "idle" /\ queue # <<>>
        /\ hand' = [hand EXCEPT ![w] = d] /\ queue' = Tail(queue)
        /\ queue \in Seq(Job) /\ hand \in [Hands -> Duty]
    BY DEF Take, PromptTypeOK
  <1>2. /\ queue' \in Seq(Job) /\ j \in Job /\ 1 \in DOMAIN queue /\ j = queue[1]
        /\ \A i \in DOMAIN queue' : i + 1 \in DOMAIN queue /\ queue'[i] = queue[i + 1]
        /\ \A i \in DOMAIN queue' : i \in Nat /\ i + 1 # 1
        /\ \A i \in DOMAIN queue : i # 1 => i - 1 \in DOMAIN queue' /\ queue'[i - 1] = queue[i]
    BY <1>1
  <1>3. d \in Duty /\ d.pc = "start" /\ d.job = j
    BY <1>2 DEF Duty
  <1> HIDE DEF d, j
  <1>4. /\ hand' \in [Hands -> Duty] /\ hand'[w] = d
        /\ \A v \in Hands \ {w} : hand'[v] = hand[v]
        /\ hand[w].job = NoJob
    BY <1>1, <1>3 DEF PromptTypeOK
  <1>5. PromptTypeOK' /\ ShownIsAsked'
    BY <1>1, <1>2, <1>3, <1>4 DEF PromptTypeOK, ShownIsAsked
  <1>6. JobsOK'
    <2>1. \A i \in DOMAIN queue' : JobOK(queue'[i], panel, counts)
      BY <1>2 DEF JobsOK
    <2>2. \A v \in Hands : JobOK(hand'[v].job, panel, counts)
      BY <1>2, <1>3, <1>4 DEF JobsOK
    <2> QED BY <1>1, <2>1, <2>2 DEF JobsOK
  <1>7. TurnsDiffer'
    <2>1. ASSUME NEW i \in DOMAIN queue', NEW k \in DOMAIN queue', i # k
          PROVE  Different(queue'[i], queue'[k])
      <3>1. /\ i + 1 \in DOMAIN queue /\ k + 1 \in DOMAIN queue /\ i + 1 # k + 1
            /\ queue'[i] = queue[i + 1] /\ queue'[k] = queue[k + 1]
        BY <1>2, <2>1
      <3> QED BY <3>1 DEF TurnsDiffer
    <2>2. ASSUME NEW v \in Hands, NEW u \in Hands, v # u
          PROVE  Different(hand'[v].job, hand'[u].job)
      <3>1. ASSUME NEW x \in Hands
            PROVE  Different(j, hand[x].job) /\ Different(hand[x].job, j)
        BY <1>2 DEF TurnsDiffer, Different
      <3>2. CASE v = w
        BY <1>3, <1>4, <2>2, <3>1, <3>2
      <3>3. CASE u = w
        BY <1>3, <1>4, <2>2, <3>1, <3>3
      <3>4. CASE v # w /\ u # w
        BY <1>4, <2>2, <3>4 DEF TurnsDiffer
      <3> QED BY <3>2, <3>3, <3>4
    <2>3. ASSUME NEW i \in DOMAIN queue', NEW v \in Hands
          PROVE  Different(queue'[i], hand'[v].job)
      <3>1. i + 1 \in DOMAIN queue /\ i + 1 # 1 /\ queue'[i] = queue[i + 1]
        BY <1>2
      <3>2. CASE v = w
        BY <1>2, <1>3, <1>4, <3>1, <3>2 DEF TurnsDiffer
      <3>3. CASE v # w
        BY <1>4, <3>1, <3>3 DEF TurnsDiffer
      <3> QED BY <3>2, <3>3
    <2> QED BY <2>1, <2>2, <2>3 DEF TurnsDiffer
  <1>8. SessionsAccounted'
    <2>1. ASSUME NEW x \in JobsAtHand
          PROVE  x \in JobsAtHand' \/ x = NoJob
      <3>1. CASE \E i \in DOMAIN queue : x = queue[i]
        <4>1. PICK i \in DOMAIN queue : x = queue[i]
          BY <3>1
        <4>2. CASE i = 1
          BY <1>2, <1>3, <1>4, <4>1, <4>2 DEF JobsAtHand
        <4>3. CASE i # 1
          <5>1. i - 1 \in DOMAIN queue' /\ x = queue'[i - 1]
            BY <1>2, <4>1, <4>3
          <5> QED BY <5>1 DEF JobsAtHand
        <4> QED BY <4>2, <4>3
      <3>2. CASE \E v \in Hands : x = hand[v].job
        BY <1>4, <3>2 DEF JobsAtHand
      <3> QED BY <2>1, <3>1, <3>2 DEF JobsAtHand
    <2>2. NoJob.session = 0 /\ 0 \notin stored
      BY DEF NoJob, PromptTypeOK
    <2> QED BY <1>1, <2>1, <2>2 DEF SessionsAccounted
  <1> QED BY <1>5, <1>6, <1>7, <1>8

\* A worker reaches the next point of its job.
LEMMA GoesOn ==
    ASSUME PromptInv, NEW w \in Hands, NEW pc \in {"collecting", "codex", "done", "focusing"},
           hand' = [hand EXCEPT ![w].pc = pc],
           UNCHANGED <<panel, counts, queue, stored, orphans, parting, prompting>>
    PROVE  PromptInv'
  <1> USE DEF PromptInv
  <1> DEFINE d == [hand[w] EXCEPT !.pc = pc]
  <1>1. /\ d \in Duty /\ d.pc # "idle" /\ d.job = hand[w].job
        /\ hand' = [hand EXCEPT ![w] = d]
    BY DEF PromptTypeOK, Duty
  <1> HIDE DEF d
  <1>2. /\ d.pc = "idle" => d.job = NoJob
        /\ d.job.type = "turn" => /\ hand[w].job.type = "turn"
                                  /\ d.job.request = hand[w].job.request
    BY <1>1
  <1>3. /\ hand' \in [Hands -> Duty]
        /\ \A v \in Hands : hand'[v].pc = "idle" => hand'[v].job = NoJob
        /\ TurnsDiffer'
        /\ hand'[w] = d /\ \A v \in Hands \ {w} : hand'[v] = hand[v]
        /\ JobsAtHand \subseteq JobsAtHand' \cup {hand[w].job}
        /\ d.job \in JobsAtHand'
    BY <1>1, <1>2, HandMoves
  <1>4. PromptTypeOK' /\ ShownIsAsked'
    BY <1>3 DEF PromptTypeOK, ShownIsAsked
  <1>5. JobsOK'
    BY <1>1, <1>3 DEF JobsOK
  <1>6. SessionsAccounted'
    BY <1>1, <1>3 DEF SessionsAccounted
  <1> QED BY <1>3, <1>4, <1>5, <1>6

\* A worker is done with a job that had no session, and the panel may show more.
LEMMA ComesToRest ==
    ASSUME PromptInv, NEW w \in Hands, hand' = [hand EXCEPT ![w] = Resting],
           UNCHANGED <<counts, queue, parting, prompting>>,
           stored' \subseteq stored, orphans \subseteq orphans',
           hand[w].job.session \in stored' => hand[w].job.session \in orphans',
           panel' \in PanelState, panel'.id = panel.id, panel'.busy = panel.busy,
           panel'.request = panel.request, panel'.session = panel.session,
           ShownIsAsked'
    PROVE  PromptInv'
  <1> USE DEF PromptInv
  <1>1. Resting \in Duty /\ Resting.pc = "idle" /\ Resting.job = NoJob
        /\ NoJob.type = "none"
    BY RestingType DEF Resting, NoJob
  <1>2. /\ hand' \in [Hands -> Duty]
        /\ \A v \in Hands : hand'[v].pc = "idle" => hand'[v].job = NoJob
        /\ TurnsDiffer'
        /\ hand'[w] = Resting /\ \A v \in Hands \ {w} : hand'[v] = hand[v]
        /\ JobsAtHand \subseteq JobsAtHand' \cup {hand[w].job}
    BY <1>1, HandMoves
  <1>3. PromptTypeOK'
    BY <1>2 DEF PromptTypeOK
  <1>4. JobsOK'
    BY <1>1, <1>2 DEF JobsOK, JobOK
  <1>5. SessionsAccounted'
    BY <1>2 DEF SessionsAccounted
  <1> QED BY <1>2, <1>3, <1>4, <1>5

\* Previews and actions have no session, so nothing is lost when they end.
LEMMA NoSessionLost ==
    ASSUME PromptInv, NEW w \in Hands, hand[w].job.type \in {"preview", "action"},
           stored' = stored
    PROVE  hand[w].job.session \notin stored'
  BY DEF PromptInv, PromptTypeOK, Duty, Job, PreviewJob, ActionJob, TurnJob, DeleteJob,
         NoJob

LEMMA PreviewKeeps ==
    ASSUME PromptInv, NEW w \in Hands,
           StartPreview(w) \/ \E collected \in BOOLEAN : EndPreview(w, collected)
    PROVE  PromptInv'
  <1>1. hand[w].job.type = "preview" /\ UNCHANGED <<counts, queue, stored, orphans, parting,
                                                    prompting>>
    BY DEF StartPreview, EndPreview, At
  <1>2. hand[w].job.session \notin stored'
    BY <1>1, NoSessionLost
  <1>3. panel \in PanelState /\ ShownIsAsked
    BY DEF PromptInv, PromptTypeOK
  <1>4. CASE StartPreview(w)
    <2>1. panel' = panel /\ ShownIsAsked'
      BY <1>3, <1>4 DEF StartPreview, ShownIsAsked
    <2>2. CASE hand' = [hand EXCEPT ![w].pc = "collecting"]
      BY <1>1, <2>1, <2>2, GoesOn
    <2>3. CASE hand' = [hand EXCEPT ![w] = Resting]
      BY <1>1, <1>2, <1>3, <2>1, <2>3, ComesToRest
    <2> QED BY <1>4, <2>2, <2>3 DEF StartPreview
  <1>5. ASSUME NEW collected \in BOOLEAN, EndPreview(w, collected)
        PROVE  PromptInv'
    <2>1. hand' = [hand EXCEPT ![w] = Resting]
      BY <1>5 DEF EndPreview
    <2>2. CASE panel' = panel
      BY <1>1, <1>2, <1>3, <2>1, <2>2, ComesToRest DEF ShownIsAsked
    <2>3. CASE Wanted(hand[w].job)
      <3> DEFINE job == hand[w].job
                 value == IF collected THEN job.token ELSE 0
      <3>1. job \in PreviewJob
        BY <1>1 DEF PromptInv, PromptTypeOK, Duty, Job, PreviewJob, ActionJob, TurnJob,
                    DeleteJob, NoJob
      <3>2. job.kind \in Kinds /\ value \in Nat /\ value \in {0, panel.token[job.kind]}
        BY <2>3, <3>1 DEF PreviewJob, Wanted
      <3>3. panel' = [panel EXCEPT !.cached[job.kind] = value]
        BY <1>5, <2>3 DEF EndPreview
      <3> HIDE DEF job, value
      <3>4. /\ panel' \in PanelState /\ panel'.id = panel.id /\ panel'.busy = panel.busy
            /\ panel'.request = panel.request /\ panel'.session = panel.session
            /\ panel'.answer = panel.answer /\ panel'.token = panel.token
            /\ \A k \in Kinds : panel'.cached[k] \in {panel.cached[k], 0, panel.token[k]}
        BY <1>3, <3>2, <3>3 DEF PanelState
      <3>5. ShownIsAsked'
        BY <1>3, <3>4 DEF ShownIsAsked
      <3> QED BY <1>1, <1>2, <2>1, <3>4, <3>5, ComesToRest
    <2> QED BY <1>5, <2>2, <2>3 DEF EndPreview
  <1> QED BY <1>4, <1>5

LEMMA ActionKeeps ==
    ASSUME PromptInv, NEW w \in Hands, StartAction(w) \/ EndAction(w)
    PROVE  PromptInv'
  <1>1. hand[w].job.type = "action" /\ UNCHANGED <<panel, counts, queue, stored, orphans,
                                                   parting, prompting>>
    BY DEF StartAction, EndAction, At
  <1>2. hand[w].job.session \notin stored'
    BY <1>1, NoSessionLost
  <1>3. panel \in PanelState /\ ShownIsAsked'
    BY <1>1 DEF PromptInv, PromptTypeOK, ShownIsAsked
  <1>4. CASE hand' = [hand EXCEPT ![w].pc = "focusing"]
    BY <1>1, <1>4, GoesOn
  <1>5. CASE hand' = [hand EXCEPT ![w] = Resting]
    BY <1>1, <1>2, <1>3, <1>5, ComesToRest
  <1> QED BY <1>4, <1>5 DEF StartAction, EndAction

LEMMA DeleteKeeps ==
    ASSUME PromptInv, NEW w \in Hands, Delete(w)
    PROVE  PromptInv'
  <1>1. /\ hand' = [hand EXCEPT ![w] = Resting]
        /\ UNCHANGED <<panel, counts, queue, parting, prompting>>
    BY DEF Delete
  <1>2. panel \in PanelState /\ ShownIsAsked' /\ 0 \notin stored
    BY <1>1 DEF PromptInv, PromptTypeOK, ShownIsAsked
  <1>3. /\ stored' \subseteq stored /\ orphans \subseteq orphans'
        /\ hand[w].job.session \in stored' => hand[w].job.session \in orphans'
    BY <1>2, DeletedGoes DEF Delete
  <1> QED BY <1>1, <1>2, <1>3, ComesToRest

\* Codex has made a session, or goes on with one: its turn holds it.
LEMMA ThreadKeeps ==
    ASSUME PromptInv, NEW w \in Hands, Thread(w)
    PROVE  PromptInv'
  <1> USE DEF PromptInv
  <1>1. /\ UNCHANGED <<panel, queue, orphans, parting, prompting>>
        /\ hand[w].job.type = "turn" /\ hand[w].pc = "codex"
        /\ counts \in [opens : Nat, requests : Nat, tokens : Nat, sessions : Nat]
        /\ hand \in [Hands -> Duty]
    BY DEF Thread, At, PromptTypeOK
  <1>2. hand[w].job \in TurnJob
    BY <1>1 DEF Duty, Job, PreviewJob, ActionJob, TurnJob, DeleteJob, NoJob
  <1>3. CASE hand[w].job.session = 0
    <2> DEFINE n == counts.sessions + 1
               d == [hand[w] EXCEPT !.job.session = n]
    <2>1. /\ counts' = [counts EXCEPT !.sessions = @ + 1]
          /\ hand' = [hand EXCEPT ![w].job.session = n]
          /\ stored' = stored \cup {n}
          /\ n \in Nat \ {0}
      BY <1>1, <1>3 DEF Thread
    <2> HIDE DEF n
    <2>2. /\ d.pc = "codex" /\ d.job = [hand[w].job EXCEPT !.session = n]
          /\ hand' = [hand EXCEPT ![w] = d]
      BY <1>1, <2>1 DEF Duty
    <2>3. /\ d.job \in TurnJob /\ d.job.session = n
          /\ d.job.type = "turn" /\ d.job.request = hand[w].job.request
          /\ d.job.panel = hand[w].job.panel
      BY <1>2, <2>1, <2>2 DEF TurnJob
    <2>4. d \in Duty
      <3>1. d = [pc |-> "codex", job |-> d.job]
        BY <1>1, <2>2 DEF Duty
      <3> HIDE DEF d
      <3> QED BY <2>3, <3>1 DEF Duty, Job
    <2> HIDE DEF d
    <2>5. /\ hand' \in [Hands -> Duty]
          /\ \A v \in Hands : hand'[v].pc = "idle" => hand'[v].job = NoJob
          /\ TurnsDiffer'
          /\ hand'[w] = d /\ \A v \in Hands \ {w} : hand'[v] = hand[v]
          /\ JobsAtHand \subseteq JobsAtHand' \cup {hand[w].job}
          /\ d.job \in JobsAtHand'
      BY <1>1, <2>2, <2>3, <2>4, HandMoves
    <2>6. /\ counts' \in [opens : Nat, requests : Nat, tokens : Nat, sessions : Nat]
          /\ counts'.opens = counts.opens /\ counts'.requests = counts.requests
      BY <1>1, <2>1
    <2>7. PromptTypeOK' /\ ShownIsAsked'
      BY <1>1, <2>1, <2>5, <2>6 DEF PromptTypeOK, ShownIsAsked
    <2>8. JobsOK'
      <3>1. JobOK(hand[w].job, panel, counts)
        BY DEF JobsOK
      <3>2. JobOK(d.job, panel', counts')
        BY <1>1, <1>3, <2>3, <2>6, <3>1 DEF JobOK
      <3> QED BY <1>1, <2>5, <2>6, <3>2 DEF JobsOK, JobOK
    <2>9. SessionsAccounted'
      <3>1. 0 \notin stored
        BY DEF PromptTypeOK
      <3> QED BY <1>1, <1>3, <2>1, <2>3, <2>5, <3>1 DEF SessionsAccounted
    <2> QED BY <2>5, <2>7, <2>8, <2>9
  <1>4. CASE hand[w].job.session # 0
    <2>1. /\ stored' = stored \cup {hand[w].job.session} /\ UNCHANGED <<counts, hand>>
          /\ hand[w].job.session \in Nat \ {0}
      BY <1>2, <1>4 DEF Thread, TurnJob
    <2>2. PromptTypeOK' /\ JobsOK' /\ TurnsDiffer' /\ ShownIsAsked'
      BY <1>1, <2>1 DEF PromptTypeOK, JobsOK, TurnsDiffer, ShownIsAsked
    <2>3. hand[w].job \in JobsAtHand /\ JobsAtHand' = JobsAtHand
      BY <1>1, <2>1 DEF JobsAtHand
    <2>4. SessionsAccounted'
      BY <1>1, <2>1, <2>3 DEF SessionsAccounted
    <2> QED BY <2>2, <2>4
  <1> QED BY <1>3, <1>4

\* The panel that asked gets the session; of another panel the worker has to
\* delete it.
LEMMA EndTurnKeeps ==
    ASSUME PromptInv, NEW w \in Hands, NEW replied \in BOOLEAN, EndTurn(w, replied)
    PROVE  PromptInv'
  <1> USE DEF PromptInv
  <1> DEFINE job == hand[w].job
  <1>1. /\ UNCHANGED <<counts, queue, stored, orphans, parting, prompting>>
        /\ hand[w].job.type = "turn"
        /\ hand \in [Hands -> Duty] /\ panel \in PanelState
    BY DEF EndTurn, At, PromptTypeOK
  <1>2. job \in TurnJob /\ JobOK(job, panel, counts)
    BY <1>1 DEF JobsOK, Duty, Job, PreviewJob, ActionJob, TurnJob, DeleteJob, NoJob
  <1> HIDE DEF job
  <1>3. CASE ForThisPanel(job)
    <2>1. /\ panel' = [panel EXCEPT !.busy = FALSE, !.session = job.session,
                         !.answer = IF replied THEN job.request ELSE @]
          /\ hand' = [hand EXCEPT ![w] = Resting]
      BY <1>3 DEF EndTurn, job
    <2>2. panel.busy /\ job.request = panel.request /\ panel.session \in {0, job.session}
      BY <1>1, <1>2, <1>3 DEF JobOK, ForThisPanel, job
    <2>3. /\ panel' \in PanelState /\ panel'.id = panel.id /\ panel'.busy = FALSE
          /\ panel'.session = job.session /\ panel'.request = panel.request
          /\ panel'.answer \in {panel.answer, job.request}
          /\ panel'.token = panel.token /\ panel'.cached = panel.cached
      BY <1>1, <1>2, <2>1 DEF PanelState, TurnJob
    <2>4. Resting \in Duty /\ Resting.pc = "idle" /\ Resting.job = NoJob
          /\ NoJob.type = "none"
      BY RestingType DEF Resting, NoJob
    <2>5. /\ hand' \in [Hands -> Duty]
          /\ \A v \in Hands : hand'[v].pc = "idle" => hand'[v].job = NoJob
          /\ TurnsDiffer'
          /\ hand'[w] = Resting /\ \A v \in Hands \ {w} : hand'[v] = hand[v]
          /\ JobsAtHand \subseteq JobsAtHand' \cup {job}
      BY <1>1, <2>1, <2>4, HandMoves DEF job
    <2>6. PromptTypeOK'
      BY <1>1, <2>3, <2>5 DEF PromptTypeOK
    <2>7. ShownIsAsked'
      BY <2>2, <2>3 DEF ShownIsAsked
    <2>8. SessionsAccounted'
      <3>1. 0 \notin stored
        BY DEF PromptTypeOK
      <3> QED BY <1>1, <2>2, <2>3, <2>5, <3>1 DEF SessionsAccounted
    <2>9. JobsOK'
      <3>1. ASSUME NEW k, JobOK(k, panel, counts), Different(k, job)
            PROVE  JobOK(k, panel', counts')
        <4>1. k.type = "turn" => k.panel # panel.id
          BY <1>1, <2>2, <3>1 DEF JobOK, Different, job
        <4> QED BY <1>1, <2>3, <3>1, <4>1 DEF JobOK
      <3>2. \A i \in DOMAIN queue : Different(queue[i], job)
        BY DEF TurnsDiffer, job
      <3>3. \A v \in Hands \ {w} : Different(hand[v].job, job)
        BY DEF TurnsDiffer, job
      <3>4. \A i \in DOMAIN queue' : JobOK(queue'[i], panel', counts')
        BY <1>1, <3>1, <3>2 DEF JobsOK
      <3>5. \A v \in Hands : JobOK(hand'[v].job, panel', counts')
        <4>1. JobOK(NoJob, panel', counts')
          BY <2>4 DEF JobOK
        <4> QED BY <2>4, <2>5, <3>1, <3>3, <4>1 DEF JobsOK
      <3> QED BY <1>1, <2>3, <3>4, <3>5 DEF JobsOK
    <2> QED BY <2>5, <2>6, <2>7, <2>8, <2>9
  <1>4. CASE ~ForThisPanel(job)
    <2> DEFINE d == TooLate(job.session)
    <2>1. hand' = [hand EXCEPT ![w] = d] /\ panel' = panel
      BY <1>4 DEF EndTurn, job
    <2>2. /\ d \in Duty /\ d.pc = "start" /\ d.job = Deletion(job.session)
          /\ d.job.type = "delete" /\ d.job.session = job.session
      BY <1>2 DEF TooLate, Deletion, Duty, Job, DeleteJob, TurnJob
    <2> HIDE DEF d
    <2>3. /\ hand' \in [Hands -> Duty]
          /\ \A v \in Hands : hand'[v].pc = "idle" => hand'[v].job = NoJob
          /\ TurnsDiffer'
          /\ hand'[w] = d /\ \A v \in Hands \ {w} : hand'[v] = hand[v]
          /\ JobsAtHand \subseteq JobsAtHand' \cup {job}
          /\ d.job \in JobsAtHand'
      BY <1>1, <2>1, <2>2, HandMoves DEF job
    <2>4. PromptTypeOK' /\ ShownIsAsked'
      BY <1>1, <2>1, <2>3 DEF PromptTypeOK, ShownIsAsked
    <2>5. JobsOK'
      BY <1>1, <2>1, <2>2, <2>3 DEF JobsOK, JobOK
    <2>6. SessionsAccounted'
      BY <1>1, <2>1, <2>2, <2>3 DEF SessionsAccounted
    <2> QED BY <2>3, <2>4, <2>5, <2>6
  <1> QED BY <1>3, <1>4

LEMMA StartTurnKeeps ==
    ASSUME PromptInv, NEW w \in Hands, StartTurn(w)
    PROVE  PromptInv'
  <1>1. UNCHANGED <<panel, counts, queue, stored, orphans, parting, prompting>>
    BY DEF StartTurn
  <1>2. PICK pc \in {"codex", "done"} : hand' = [hand EXCEPT ![w].pc = pc]
    BY DEF StartTurn
  <1> QED BY <1>1, <1>2, GoesOn

LEMMA PromptNextOK ==
    ASSUME PromptInv, [PromptNext]_promptVars
    PROVE  PromptInv'
  <1>1. CASE Open \/ Close \/ Act \/ Leave \/ Quit
    BY <1>1, OpenKeeps, CloseKeeps, ActKeeps, LeaveKeeps, QuitKeeps
  <1>2. CASE \E k \in Kinds : Forget(k) \/ AskPreview(k)
    BY <1>2, ForgetKeeps, AskPreviewKeeps
  <1>3. CASE \E mentioned \in SUBSET Kinds : Submit(mentioned)
    BY <1>3, SubmitKeeps
  <1>4. ASSUME NEW w \in Hands, Work(w) \/ Thread(w)
        PROVE  PromptInv'
    BY <1>4, TakeKeeps, PreviewKeeps, StartTurnKeeps, EndTurnKeeps, DeleteKeeps,
       ActionKeeps, ThreadKeeps DEF Work
  <1>5. CASE UNCHANGED promptVars
    BY <1>5 DEF promptVars, PromptInv, PromptTypeOK, JobsOK, TurnsDiffer,
                SessionsAccounted, JobsAtHand, ShownIsAsked
  <1> QED BY <1>1, <1>2, <1>3, <1>4, <1>5 DEF PromptNext

\* The inductive invariant of the prompt holds always: jobs are of panels that were
\* opened, no two turns answer one request, and the open panel's turn is the one it
\* waits for.
THEOREM PromptAlways == PromptSpec => []PromptInv
  BY PromptInitOK, PromptNextOK, PTL DEF PromptSpec

\* Every session that Codex keeps is the open panel's, has a job that deletes it or
\* may, or was reported: for any number of workers, panels and turns.
THEOREM SessionsAlways == PromptSpec => []SessionsAccounted
  <1>1. PromptInv => SessionsAccounted
    BY DEF PromptInv
  <1> QED BY <1>1, PromptAlways, PTL

\* The panel shows no answer but that of its own last prompt, and attaches only what
\* the newest request for that source collected.
THEOREM ShownAlways == PromptSpec => []ShownIsAsked
  <1>1. PromptInv => ShownIsAsked
    BY DEF PromptInv
  <1> QED BY <1>1, PromptAlways, PTL

-----------------------------------------------------------------------------
(* Caffeinate: what the probes showed of the session there is. *)

Session == [generation : Nat, deadline : Nat, task : Programs \cup Moves \cup {NoTask},
            misses : Nat]

Wanting == [pc : {"idle", "inhibiting"}, deadline : Nat,
            task : Programs \cup Moves \cup {NoTask}]

Probing == [pc : {"idle", "asking", "answered"}, generation : Nat,
            task : Programs \cup Moves \cup {NoTask},
            answer : {"none", "running", "ended", "unreachable"}, session : Nat]

CaffeinateTypeOK ==
    /\ awake \in Session
    /\ starts \in Nat
    /\ asking \in [Askers -> Wanting]
    /\ probe \in Probing
    /\ probe.pc = "answered" => probe.answer # "none"
    /\ second \in Nat
    /\ seen \in [1..MaxStarts -> [ended : BOOLEAN, silent : 0..Tolerance]]

\* There is the newest session or none, and a probe is of one that there was.
NewestOnly ==
    /\ starts <= MaxStarts
    /\ awake.generation \in {0, starts}
    /\ awake.generation = 0 => awake.task = NoTask
    /\ probe.pc # "idle" =>
         probe.generation = probe.session /\ probe.session \in 1..starts

\* A session counts no more silences than its probes met, and an answer that waits to
\* be applied to it is one of those that were seen.
MissesSeen ==
    LET shown == seen[starts] IN
    awake.generation # 0 =>
      IF probe.pc = "answered" /\ probe.generation = awake.generation
        THEN CASE probe.answer = "ended" -> shown.ended
               [] probe.answer = "unreachable" ->
                    awake.misses < shown.silent \/ shown.silent = Tolerance
               [] OTHER -> TRUE
        ELSE awake.misses <= shown.silent

CaffeinateInv == CaffeinateTypeOK /\ NewestOnly /\ MissesSeen

LEMMA AsleepType ==
    /\ Asleep \in Session /\ NoRequest \in Wanting /\ NoProbe \in Probing
    /\ Asleep.generation = 0 /\ Asleep.task = NoTask /\ NoProbe.pc = "idle"
    /\ NoTask \notin Moves
  BY CaffeinateAssumption DEF Asleep, NoRequest, NoProbe, Session, Wanting, Probing

LEMMA CaffeinateInitOK ==
    ASSUME CaffeinateInit
    PROVE  CaffeinateInv
  <1>1. Unseen \in [ended : BOOLEAN, silent : 0..Tolerance]
    BY CaffeinateAssumption DEF Unseen
  <1>2. CaffeinateTypeOK
    BY <1>1, AsleepType DEF CaffeinateInit, CaffeinateTypeOK
  <1>3. NewestOnly /\ MissesSeen
    BY AsleepType, CaffeinateAssumption DEF CaffeinateInit, NewestOnly, MissesSeen
  <1> QED BY <1>2, <1>3 DEF CaffeinateInv

\* The session and the probe are what they were.
LEMMA SameSession ==
    ASSUME CaffeinateInv, UNCHANGED <<awake, starts, probe, seen>>,
           asking' \in [Askers -> Wanting], second' \in Nat
    PROVE  CaffeinateInv'
  BY DEF CaffeinateInv, CaffeinateTypeOK, NewestOnly, MissesSeen

LEMMA AskKeeps ==
    ASSUME CaffeinateInv, NEW w \in Askers, NEW deadline \in Nat,
           NEW task \in Programs \cup Moves \cup {NoTask}, Ask(w, deadline, task)
    PROVE  CaffeinateInv'
  <1>1. asking' \in [Askers -> Wanting]
    <2>1. [pc |-> "inhibiting", deadline |-> deadline, task |-> task] \in Wanting
      BY DEF Wanting
    <2> QED BY <2>1 DEF Ask, CaffeinateInv, CaffeinateTypeOK
  <1>2. second' \in Nat /\ UNCHANGED <<awake, starts, probe, seen>>
    BY DEF Ask, CaffeinateInv, CaffeinateTypeOK
  <1> QED BY <1>1, <1>2, SameSession

LEMMA InhibitFailsKeeps ==
    ASSUME CaffeinateInv, NEW w \in Askers, InhibitFails(w)
    PROVE  CaffeinateInv'
  <1>1. asking' \in [Askers -> Wanting] /\ second' \in Nat
    BY AsleepType DEF InhibitFails, CaffeinateInv, CaffeinateTypeOK
  <1> QED BY <1>1, SameSession DEF InhibitFails

\* A probe that is on its way is of an older session.
LEMMA InstallKeeps ==
    ASSUME CaffeinateInv, NEW w \in Askers, Install(w)
    PROVE  CaffeinateInv'
  <1> DEFINE n == starts + 1
             next == Installed(asking[w])
  <1>1. /\ starts \in Nat /\ MaxStarts \in Nat /\ starts < MaxStarts
        /\ starts' = n /\ awake' = next /\ asking' = [asking EXCEPT ![w] = NoRequest]
        /\ UNCHANGED <<probe, second, seen>>
        /\ asking[w] \in Wanting /\ asking \in [Askers -> Wanting] /\ probe \in Probing
        /\ seen \in [1..MaxStarts -> [ended : BOOLEAN, silent : 0..Tolerance]]
    BY CaffeinateAssumption DEF Install, CaffeinateInv, CaffeinateTypeOK
  <1>2. next \in Session /\ next.generation = n /\ next.misses = 0
    BY <1>1 DEF Installed, Session, Wanting
  <1>3. /\ n \in 1..MaxStarts /\ n # 0 /\ n <= MaxStarts
        /\ \A s \in 1..starts : s \in 1..n /\ s # n
    BY <1>1
  <1> HIDE DEF n, next
  <1>4. CaffeinateTypeOK'
    BY <1>1, <1>2, <1>3, AsleepType DEF CaffeinateInv, CaffeinateTypeOK
  <1>5. NewestOnly'
    BY <1>1, <1>2, <1>3 DEF CaffeinateInv, NewestOnly
  <1>6. MissesSeen'
    <2>1. probe'.pc = "answered" => probe'.generation # awake'.generation
      BY <1>1, <1>2, <1>3 DEF CaffeinateInv, NewestOnly
    <2>2. 0 <= seen'[starts'].silent
      BY <1>1, <1>3
    <2> QED BY <1>1, <1>2, <2>1, <2>2 DEF MissesSeen
  <1> QED BY <1>4, <1>5, <1>6 DEF CaffeinateInv

\* The session is over.
LEMMA EndKeeps ==
    ASSUME CaffeinateInv, awake' = Asleep,
           UNCHANGED <<starts, asking, probe, second, seen>>
    PROVE  CaffeinateInv'
  BY AsleepType DEF CaffeinateInv, CaffeinateTypeOK, NewestOnly, MissesSeen

LEMMA SweepAsksKeeps ==
    ASSUME CaffeinateInv, SweepAsks
    PROVE  CaffeinateInv'
  <1>1. /\ awake \in Session /\ awake.task \in Moves /\ starts \in Nat
        /\ probe' = [pc |-> "asking", generation |-> awake.generation,
                     task |-> awake.task, answer |-> "none", session |-> starts]
        /\ probe.pc = "idle"
        /\ UNCHANGED <<awake, starts, asking, second, seen>>
    BY DEF SweepAsks, CaffeinateInv, CaffeinateTypeOK
  <1>2. awake.generation = starts /\ starts \in 1..starts
    BY <1>1, AsleepType DEF CaffeinateInv, NewestOnly, Session
  <1>3. probe' \in Probing /\ probe'.pc = "asking"
    BY <1>1 DEF Probing, Session
  <1>4. CaffeinateTypeOK'
    BY <1>1, <1>3 DEF CaffeinateInv, CaffeinateTypeOK
  <1>5. NewestOnly'
    BY <1>1, <1>2 DEF CaffeinateInv, NewestOnly
  <1>6. MissesSeen'
    BY <1>1, <1>3 DEF CaffeinateInv, MissesSeen
  <1> QED BY <1>4, <1>5, <1>6 DEF CaffeinateInv

\* What the transfer service says, or not.
LEMMA AnswerKeeps ==
    ASSUME CaffeinateInv, Answer
    PROVE  CaffeinateInv'
  <1> DEFINE n == probe.session
  <1>1. PICK answer \in {"running", "ended", "unreachable"} :
          /\ probe' = [probe EXCEPT !.pc = "answered", !.answer = answer]
          /\ seen' = [seen EXCEPT ![n] =
                        [ended  |-> @.ended \/ answer = "ended",
                         silent |-> CASE answer = "unreachable" ->
                                             IF @.silent < Tolerance THEN @.silent + 1
                                                                     ELSE Tolerance
                                      [] answer = "running" -> 0
                                      [] answer = "ended" -> @.silent]]
    BY DEF Answer
  <1>2. /\ probe \in Probing /\ probe.pc = "asking" /\ awake \in Session
        /\ starts \in Nat /\ MaxStarts \in Nat /\ starts <= MaxStarts
        /\ n = probe.generation /\ n \in 1..starts /\ n \in 1..MaxStarts
        /\ seen \in [1..MaxStarts -> [ended : BOOLEAN, silent : 0..Tolerance]]
        /\ Tolerance \in Nat \ {0}
        /\ UNCHANGED <<awake, starts, asking, second>>
    BY CaffeinateAssumption DEF Answer, CaffeinateInv, CaffeinateTypeOK, NewestOnly
  <1>3. /\ probe' \in Probing /\ probe'.pc = "answered" /\ probe'.answer = answer
        /\ probe'.generation = n /\ probe'.session = n
    BY <1>1, <1>2 DEF Probing
  <1> DEFINE old == seen[n]
             shown == seen'[n]
             count == CASE answer = "unreachable" ->
                             IF old.silent < Tolerance THEN old.silent + 1 ELSE Tolerance
                        [] answer = "running" -> 0
                        [] answer = "ended" -> old.silent
  <1>4. old \in [ended : BOOLEAN, silent : 0..Tolerance]
    BY <1>2
  <1>5. count \in 0..Tolerance
    BY <1>2, <1>4
  <1>6. shown = [ended |-> old.ended \/ answer = "ended", silent |-> count]
    BY <1>1, <1>2
  <1>7. /\ \A m \in 1..MaxStarts : m # n => seen'[m] = seen[m]
        /\ DOMAIN seen' = 1..MaxStarts
        /\ shown \in [ended : BOOLEAN, silent : 0..Tolerance]
    BY <1>1, <1>2, <1>5, <1>6
  <1>8. seen' \in [1..MaxStarts -> [ended : BOOLEAN, silent : 0..Tolerance]]
    <2>1. seen' = [m \in 1..MaxStarts |-> seen'[m]]
      BY <1>1, <1>2
    <2>2. \A m \in 1..MaxStarts : seen'[m] \in [ended : BOOLEAN, silent : 0..Tolerance]
      BY <1>2, <1>7
    <2> QED BY <2>1, <2>2
  <1>9. CaffeinateTypeOK'
    BY <1>2, <1>3, <1>8 DEF CaffeinateInv, CaffeinateTypeOK
  <1>10. NewestOnly'
    BY <1>2, <1>3 DEF CaffeinateInv, NewestOnly
  <1>11. MissesSeen'
    <2>1. CASE awake.generation = n
      <3>1. starts = n /\ awake.misses \in Nat /\ awake.misses <= old.silent
        BY <1>2, <2>1 DEF CaffeinateInv, NewestOnly, MissesSeen, Session
      <3>2. answer = "ended" => shown.ended
        <4>1. shown.ended = (old.ended \/ answer = "ended")
          BY <1>6
        <4>2. ASSUME answer = "ended"
              PROVE  (old.ended \/ answer = "ended") = TRUE
          BY <4>2
        <4>3. answer = "ended" => shown.ended = TRUE
          BY <4>1, <4>2, Zenon
        <4> QED BY <4>3
      <3>3. answer = "unreachable" => awake.misses < shown.silent \/ shown.silent = Tolerance
        BY <1>2, <1>4, <1>6, <3>1
      <3> HIDE DEF n, shown
      <3> QED BY <1>2, <1>3, <2>1, <3>1, <3>2, <3>3 DEF MissesSeen, shown
    <2>2. CASE awake.generation # n /\ awake.generation # 0
      <3>1. starts = awake.generation /\ starts \in 1..MaxStarts
        BY <1>2, <2>2 DEF CaffeinateInv, NewestOnly, Session
      <3>2. seen'[starts] = seen[starts] /\ awake.misses <= seen[starts].silent
        BY <1>2, <1>7, <2>2, <3>1 DEF CaffeinateInv, MissesSeen
      <3> QED BY <1>2, <1>3, <2>2, <3>2 DEF MissesSeen
    <2>3. CASE awake.generation = 0
      BY <1>2, <2>3 DEF MissesSeen
    <2> QED BY <2>1, <2>2, <2>3
  <1> QED BY <1>9, <1>10, <1>11 DEF CaffeinateInv

\* An answer ends the session it was asked for, or not; it counts for no other.
LEMMA ApplyKeeps ==
    ASSUME CaffeinateInv, Apply
    PROVE  /\ CaffeinateInv'
           /\ awake.generation # 0 /\ awake'.generation = 0 =>
                seen[starts].ended \/ seen[starts].silent >= Tolerance
  <1>1. /\ probe \in Probing /\ probe.pc = "answered" /\ probe.answer # "none"
        /\ awake \in Session /\ starts \in Nat /\ Tolerance \in Nat \ {0}
        /\ probe' = NoProbe /\ UNCHANGED <<starts, asking, second, seen>>
        /\ awake' = IF awake.generation # 0 /\ awake.generation = probe.generation
                      THEN Judged(awake, probe.answer) ELSE awake
        /\ MaxStarts \in Nat /\ starts <= MaxStarts /\ awake.generation \in {0, starts}
        /\ seen \in [1..MaxStarts -> [ended : BOOLEAN, silent : 0..Tolerance]]
    BY CaffeinateAssumption DEF Apply, CaffeinateInv, CaffeinateTypeOK, NewestOnly
  <1>2. CASE ~(awake.generation # 0 /\ awake.generation = probe.generation)
    <2>1. awake' = awake
      BY <1>1, <1>2
    <2> QED BY <1>1, <1>2, <2>1, AsleepType
            DEF CaffeinateInv, CaffeinateTypeOK, NewestOnly, MissesSeen
  <1>3. CASE awake.generation # 0 /\ awake.generation = probe.generation
    <2> DEFINE shown == seen[starts]
    <2>1. /\ shown.silent \in 0..Tolerance /\ awake.misses \in Nat
          /\ probe.answer = "ended" => shown.ended
          /\ probe.answer = "unreachable" =>
               awake.misses < shown.silent \/ shown.silent = Tolerance
      <3>1. starts \in 1..MaxStarts
        BY <1>1, <1>3
      <3>2. shown \in [ended : BOOLEAN, silent : 0..Tolerance]
        BY <1>1, <3>1
      <3> QED BY <1>1, <1>3, <3>2 DEF CaffeinateInv, MissesSeen, Session
    <2>2. CASE awake' = Asleep
      <3>1. \/ probe.answer = "ended"
            \/ probe.answer = "unreachable" /\ awake.misses + 1 >= Tolerance
        <4>1. awake # Asleep
          BY <1>3, AsleepType
        <4>2. ~(probe.answer = "running")
          BY <1>1, <1>3, <2>2, AsleepType DEF Judged, Session
        <4>3. probe.answer = "unreachable" => awake.misses + 1 >= Tolerance
          BY <1>1, <1>3, <2>2, AsleepType DEF Judged, Session
        <4> QED BY <1>1, <4>2, <4>3 DEF Probing
      <3>2. shown.ended \/ shown.silent >= Tolerance
        BY <1>1, <2>1, <3>1
      <3> QED BY <1>1, <2>2, <3>2, AsleepType
              DEF CaffeinateInv, CaffeinateTypeOK, NewestOnly, MissesSeen
    <2>3. ASSUME NEW misses \in Nat, awake' = [awake EXCEPT !.misses = misses],
                 misses <= shown.silent
          PROVE  CaffeinateInv' /\ awake'.generation # 0
      <3>1. /\ awake' \in Session /\ awake'.generation = awake.generation
            /\ awake'.task = awake.task /\ awake'.misses = misses
        BY <1>1, <2>3 DEF Session
      <3> QED BY <1>1, <1>3, <2>3, <3>1, AsleepType
              DEF CaffeinateInv, CaffeinateTypeOK, NewestOnly, MissesSeen
    <2>4. CASE probe.answer = "running"
      <3>1. awake' = [awake EXCEPT !.misses = 0] /\ 0 <= shown.silent
        BY <1>1, <1>3, <2>1, <2>4 DEF Judged
      <3> QED BY <2>3, <3>1
    <2>5. CASE probe.answer = "ended"
      BY <1>1, <1>3, <2>2, <2>5 DEF Judged
    <2>6. CASE probe.answer = "unreachable" /\ awake.misses + 1 >= Tolerance
      BY <1>1, <1>3, <2>2, <2>6 DEF Judged
    <2>7. CASE probe.answer = "unreachable" /\ ~(awake.misses + 1 >= Tolerance)
      <3>1. awake' = [awake EXCEPT !.misses = awake.misses + 1]
        BY <1>1, <1>3, <2>7 DEF Judged
      <3>2. awake.misses + 1 \in Nat /\ awake.misses + 1 <= shown.silent
        BY <1>1, <2>1, <2>7
      <3> QED BY <2>3, <3>1, <3>2
    <2> QED BY <1>1, <2>4, <2>5, <2>6, <2>7 DEF Probing
  <1> QED BY <1>2, <1>3

LEMMA CaffeinateNextOK ==
    ASSUME CaffeinateInv, [CaffeinateNext]_caffeinateVars
    PROVE  CaffeinateInv'
  <1>1. second \in Nat /\ asking \in [Askers -> Wanting]
    BY DEF CaffeinateInv, CaffeinateTypeOK
  <1>2. ASSUME NEW w \in Askers,
               \/ AskManual(w)
               \/ \E span \in Spans : AskDuration(w, span)
               \/ \E t \in Programs \cup Moves : AskTask(w, t)
        PROVE  CaffeinateInv'
    <2>1. \A span \in Spans : second + span \in Nat
      BY <1>1, CaffeinateAssumption
    <2> QED BY <1>2, <2>1, AskKeeps DEF AskManual, AskDuration, AskTask
  <1>3. CASE StopSession \/ SweepEnds \/ Exit
    BY <1>3, EndKeeps DEF StopSession, SweepEnds, Exit
  <1>4. ASSUME NEW t, TaskEnds(t) \/ TaskResumes(t)
        PROVE  CaffeinateInv'
    BY <1>1, <1>4, SameSession DEF TaskEnds, TaskResumes
  <1>5. CASE Second \/ Halt
    BY <1>1, <1>5, SameSession DEF Second, Halt
  <1>6. CASE UNCHANGED caffeinateVars
    BY <1>1, <1>6, SameSession DEF caffeinateVars
  <1> QED BY <1>2, <1>3, <1>4, <1>5, <1>6, InhibitFailsKeeps, InstallKeeps,
             SweepAsksKeeps, AnswerKeeps, ApplyKeeps DEF CaffeinateNext

\* The inductive invariant of Caffeinate holds always: a session counts no more
\* silences than its own probes met.
THEOREM CaffeinateAlways == CaffeinateSpec => []CaffeinateInv
  BY CaffeinateInitOK, CaffeinateNextOK, PTL DEF CaffeinateSpec

\* A sweep ends a session only for its deadline, its process, or what its own probes
\* showed: for any number of workers, sessions and tasks, and any tolerance.
THEOREM EndsAlways == CaffeinateSpec => EndsForItsReason
  <1>1. CaffeinateInv /\ [CaffeinateNext]_caffeinateVars =>
          [SweepEnds \/ Apply =>
             (awake.generation # 0 /\ awake'.generation = 0 =>
                \/ Passed(awake)
                \/ Gone(awake)
                \/ seen[starts].ended
                \/ seen[starts].silent >= Tolerance)]_caffeinateVars
    BY ApplyKeeps DEF SweepEnds
  <1> QED BY <1>1, CaffeinateAlways, PTL DEF CaffeinateSpec, EndsForItsReason

-----------------------------------------------------------------------------
(* Home Assistant: what may be in the channels. *)

Setting == [Devices -> Settings]

SnapshotEvent == [generation : Nat, kind : {"snapshot"}, states : Setting]
OfflineEvent == [generation : Nat, kind : {"offline"}]
ReplyEvent == [generation : Nat, kind : {"reply"}, serial : Nat, ok : BOOLEAN]
StateEvent == [generation : Nat, kind : {"state"}, device : Devices, setting : Settings]

Event == SnapshotEvent \cup OfflineEvent \cup ReplyEvent \cup StateEvent
Message == ReplyEvent \cup StateEvent

LiveState == [generation : Nat, connected : BOOLEAN, states : Setting, joining : BOOLEAN,
              leaving : BOOLEAN]
Wish == [serial : Nat, desired : Settings, accepted : BOOLEAN]
Call == [serial : Nat, device : Devices, desired : Settings, via : Nat]
Link == [pc : {"none", "connecting", "open", "offline", "draining", "resting"},
         generation : Nat, cancelled : BOOLEAN]

HomeTypeOK ==
    /\ live \in LiveState
    /\ pending \in [Devices -> Wish]
    /\ serial \in Nat /\ links \in Nat
    /\ calls \in Seq(Call)
    /\ events \in Seq(Event)
    /\ stream \in Seq(Message)
    /\ link \in Link
    /\ device \in Setting
    /\ answered \in [1..MaxCalls -> {"none", "ok", "failed"}]

\* The positions of the members of M in a sequence, and that the last of them is in V.
About(s, M) == {i \in DOMAIN s : s[i] \in M}

EndsIn(s, M, V) == \A i \in About(s, M) : (\A k \in About(s, M) : k <= i) => s[i] \in V

\* Every member of M is followed by one of N.
Follows(s, M, N) == \A i \in About(s, M) : \E k \in About(s, N) : k > i

Tells(e, d) == e.kind = "snapshot" \/ (e.kind = "state" /\ e.device = d)

Value(e, d) == IF e.kind = "snapshot" THEN e.states[d] ELSE e.setting

\* What this connection's events say, what they say of a device, and those which
\* say that it is set to v.
Ours(kind) == {e \in Event : e.generation = live.generation /\ e.kind = kind}
News(d) == {e \in Event : e.generation = live.generation /\ Tells(e, d)}
NewsOf(d, v) == {e \in News(d) : Value(e, d) = v}

\* The same of the server's messages.
Heard(d) == {e \in StateEvent : e.device = d}
HeardOf(d, v) == {e \in Heard(d) : e.setting = v}

\* An event is of this connection or an earlier one; the task that is there while
\* nobody waits for its end is this one's, and nobody cancelled it.
GenerationsOK ==
    /\ link.generation <= live.generation
    /\ \A i \in DOMAIN events : events[i].generation <= link.generation
    /\ ~live.joining => link.generation = live.generation /\ ~link.cancelled /\ link.pc # "none"
    /\ live.joining /\ ~live.leaving =>
         link.generation < live.generation /\ Pending(pending) = {}
    /\ live.leaving => live.joining

\* The changes that wait were asked for, are not answered and differ.
Serials ==
    /\ serial <= MaxCalls
    /\ \A d \in Pending(pending) :
          pending[d].serial <= serial /\ answered[pending[d].serial] = "none"
    /\ \A n \in 1..MaxCalls : n > serial => answered[n] = "none"
    /\ \A c, d \in Pending(pending) : pending[c].serial = pending[d].serial => c = d

\* When the connection is over, its end is reported behind its snapshot.
EndFollows ==
    ~live.joining /\ link.pc \notin {"open", "offline"} =>
        Follows(events, Ours("snapshot"), Ours("offline"))

\* The last word on a device is what it is set to: on the wire, or among the events
\* if the wire says nothing of it, or else on the panel.
ReportsArrive ==
    ~live.joining /\ link.pc = "open" =>
        \A d \in Devices :
           /\ EndsIn(stream, Heard(d), HeardOf(d, device[d]))
           /\ About(stream, Heard(d)) = {} =>
                /\ EndsIn(events, News(d), NewsOf(d, device[d]))
                /\ About(events, News(d)) = {} => live.states[d] = device[d]

WireOK == GenerationsOK /\ EndFollows /\ ReportsArrive /\ ConnectedIsHonest

HomeInv == HomeTypeOK /\ Serials /\ WireOK

-----------------------------------------------------------------------------
(* Sequences of events and messages. *)

LEMMA AppendFacts ==
    ASSUME NEW S, NEW s \in Seq(S), NEW e \in S
    PROVE  /\ Append(s, e) \in Seq(S)
           /\ DOMAIN Append(s, e) = DOMAIN s \cup {Len(s) + 1}
           /\ Append(s, e)[Len(s) + 1] = e
           /\ \A i \in DOMAIN s : Append(s, e)[i] = s[i] /\ i \in Nat /\ i < Len(s) + 1
           /\ Len(s) \in Nat
  <1>1. /\ Append(s, e) \in Seq(S) /\ Len(s) \in Nat
        /\ DOMAIN s = 1..Len(s) /\ DOMAIN Append(s, e) = 1..(Len(s) + 1)
        /\ Append(s, e)[Len(s) + 1] = e
        /\ \A i \in DOMAIN s : Append(s, e)[i] = s[i]
    OBVIOUS
  <1>2. 1..(Len(s) + 1) = 1..Len(s) \cup {Len(s) + 1}
    BY <1>1
  <1> QED BY <1>1, <1>2

LEMMA TailFacts ==
    ASSUME NEW S, NEW s \in Seq(S), s # <<>>
    PROVE  /\ Tail(s) \in Seq(S) /\ Head(s) \in S
           /\ 1 \in DOMAIN s /\ Head(s) = s[1]
           /\ \A i \in DOMAIN s : i \in Nat /\ i >= 1 /\ s[i] \in S
           /\ \A i \in DOMAIN Tail(s) : i \in Nat /\ i + 1 \in DOMAIN s /\ Tail(s)[i] = s[i + 1]
           /\ \A i \in DOMAIN s \ {1} : i - 1 \in DOMAIN Tail(s) /\ Tail(s)[i - 1] = s[i]
  <1>1. /\ Tail(s) \in Seq(S) /\ Head(s) \in S /\ Head(s) = s[1]
        /\ Len(s) \in Nat /\ Len(s) > 0
        /\ DOMAIN s = 1..Len(s) /\ DOMAIN Tail(s) = 1..(Len(s) - 1)
        /\ \A i \in 1..(Len(s) - 1) : Tail(s)[i] = s[i + 1]
        /\ \A i \in 1..Len(s) : s[i] \in S
    OBVIOUS
  <1> QED BY <1>1

LEMMA AppendAbout ==
    ASSUME NEW S, NEW s \in Seq(S), NEW e \in S, NEW M
    PROVE  /\ e \in M => About(Append(s, e), M) # {}
           /\ About(s, M) # {} => About(Append(s, e), M) # {}
  <1>1. /\ Len(s) + 1 \in DOMAIN Append(s, e) /\ Append(s, e)[Len(s) + 1] = e
        /\ \A i \in DOMAIN s : i \in DOMAIN Append(s, e) /\ Append(s, e)[i] = s[i]
    BY AppendFacts
  <1> QED BY <1>1 DEF About

\* A member of V at the end is the last word; what is not in M leaves it as it was.
LEMMA AppendEnds ==
    ASSUME NEW S, NEW s \in Seq(S), NEW e \in S, NEW M, NEW V
    PROVE  /\ e \notin M => About(Append(s, e), M) = About(s, M)
           /\ e \in M => About(Append(s, e), M) # {}
           /\ e \in M /\ e \in V => EndsIn(Append(s, e), M, V)
           /\ e \notin M /\ EndsIn(s, M, V) => EndsIn(Append(s, e), M, V)
  <1> DEFINE t == Append(s, e)
             n == Len(s) + 1
  <1>1. /\ DOMAIN t = DOMAIN s \cup {n} /\ t[n] = e /\ n \in Nat
        /\ \A i \in DOMAIN s : t[i] = s[i] /\ i \in Nat /\ i < n
    BY AppendFacts
  <1> HIDE DEF t, n
  <1>2. e \notin M => About(t, M) = About(s, M)
    BY <1>1 DEF About
  <1>3. e \in M => n \in About(t, M)
    BY <1>1 DEF About
  <1>4. ASSUME e \in M, e \in V PROVE EndsIn(t, M, V)
    <2>1. ASSUME NEW i \in About(t, M), \A k \in About(t, M) : k <= i
          PROVE  t[i] \in V
      <3>1. n <= i /\ i \in DOMAIN t
        BY <1>3, <1>4, <2>1 DEF About
      <3>2. i = n
        BY <1>1, <3>1
      <3> QED BY <1>1, <1>4, <3>2
    <2> QED BY <2>1 DEF EndsIn
  <1>5. ASSUME e \notin M, EndsIn(s, M, V) PROVE EndsIn(t, M, V)
    BY <1>1, <1>2, <1>5 DEF EndsIn, About
  <1> QED BY <1>2, <1>3, <1>4, <1>5 DEF t

LEMMA TailEnds ==
    ASSUME NEW S, NEW s \in Seq(S), s # <<>>, NEW M, NEW V, EndsIn(s, M, V)
    PROVE  /\ EndsIn(Tail(s), M, V)
           /\ About(Tail(s), M) = {} /\ Head(s) \in M => Head(s) \in V
           /\ Head(s) \notin M /\ About(Tail(s), M) = {} => About(s, M) = {}
           /\ About(Tail(s), M) # {} => About(s, M) # {}
           /\ Head(s) \in M => About(s, M) # {}
  <1> DEFINE t == Tail(s)
  <1>1. /\ 1 \in DOMAIN s /\ Head(s) = s[1]
        /\ \A i \in DOMAIN s : i \in Nat /\ i >= 1
        /\ \A i \in DOMAIN t : i \in Nat /\ i + 1 \in DOMAIN s /\ t[i] = s[i + 1]
        /\ \A i \in DOMAIN s \ {1} : i - 1 \in DOMAIN t /\ t[i - 1] = s[i]
    BY TailFacts
  <1> HIDE DEF t
  <1>2. \A i \in About(t, M) : i + 1 \in About(s, M) /\ i \in Nat
    BY <1>1 DEF About
  <1>3. \A i \in About(s, M) \ {1} : i - 1 \in About(t, M) /\ i \in Nat
    BY <1>1 DEF About
  <1>4. EndsIn(t, M, V)
    <2>1. ASSUME NEW i \in About(t, M), \A k \in About(t, M) : k <= i
          PROVE  t[i] \in V
      <3>1. \A k \in About(s, M) : k <= i + 1
        BY <1>2, <1>3, <2>1
      <3>2. s[i + 1] \in V
        BY <1>2, <3>1 DEF EndsIn
      <3> QED BY <1>1, <3>2 DEF About
    <2> QED BY <2>1 DEF EndsIn
  <1>5. Head(s) \in M => 1 \in About(s, M)
    BY <1>1 DEF About
  <1>6. ASSUME About(t, M) = {}
        PROVE  /\ Head(s) \in M => Head(s) \in V
               /\ Head(s) \notin M => About(s, M) = {}
    <2>1. About(s, M) \subseteq {1}
      BY <1>3, <1>6
    <2>2. Head(s) \in M => s[1] \in V
      BY <1>5, <2>1 DEF EndsIn
    <2>3. Head(s) \notin M => 1 \notin About(s, M)
      BY <1>1 DEF About
    <2> QED BY <1>1, <2>1, <2>2, <2>3
  <1> QED BY <1>2, <1>4, <1>5, <1>6 DEF t

LEMMA AppendFollows ==
    ASSUME NEW S, NEW s \in Seq(S), NEW e \in S, NEW M, NEW N
    PROVE  /\ e \notin M /\ Follows(s, M, N) => Follows(Append(s, e), M, N)
           /\ e \notin M /\ e \in N => Follows(Append(s, e), M, N)
           /\ About(s, M) # {} => About(Append(s, e), M) # {}
  <1> DEFINE t == Append(s, e)
             n == Len(s) + 1
  <1>1. /\ DOMAIN t = DOMAIN s \cup {n} /\ t[n] = e /\ n \in Nat
        /\ \A i \in DOMAIN s : t[i] = s[i] /\ i \in Nat /\ i < n
    BY AppendFacts
  <1> HIDE DEF t, n
  <1>2. e \notin M => About(t, M) = About(s, M)
    BY <1>1 DEF About
  <1>3. About(s, N) \subseteq About(t, N) /\ About(s, M) \subseteq About(t, M)
    BY <1>1 DEF About
  <1>4. e \in N => n \in About(t, N)
    BY <1>1 DEF About
  <1>5. \A i \in About(s, M) : n > i
    BY <1>1 DEF About
  <1>6. e \notin M /\ Follows(s, M, N) => Follows(t, M, N)
    BY <1>2, <1>3 DEF Follows
  <1>7. e \notin M /\ e \in N => Follows(t, M, N)
    BY <1>2, <1>4, <1>5 DEF Follows
  <1> QED BY <1>3, <1>6, <1>7 DEF t

LEMMA TailFollows ==
    ASSUME NEW S, NEW s \in Seq(S), s # <<>>, NEW M, NEW N
    PROVE  /\ Follows(s, M, N) => Follows(Tail(s), M, N)
           /\ Follows(s, M, N) /\ Head(s) \in M => About(Tail(s), N) # {}
           /\ Head(s) \notin N /\ About(s, N) # {} => About(Tail(s), N) # {}
  <1> DEFINE t == Tail(s)
  <1>1. /\ 1 \in DOMAIN s /\ Head(s) = s[1]
        /\ \A i \in DOMAIN s : i \in Nat /\ i >= 1
        /\ \A i \in DOMAIN t : i \in Nat /\ i + 1 \in DOMAIN s /\ t[i] = s[i + 1]
        /\ \A i \in DOMAIN s \ {1} : i - 1 \in DOMAIN t /\ t[i - 1] = s[i]
    BY TailFacts
  <1> HIDE DEF t
  <1>2. \A i \in About(t, M) : i + 1 \in About(s, M) /\ i \in Nat /\ i >= 0
    BY <1>1 DEF About
  <1>3. \A i \in About(s, N) \ {1} : i - 1 \in About(t, N) /\ i \in Nat
    BY <1>1 DEF About
  <1>4. ASSUME Follows(s, M, N) PROVE Follows(t, M, N)
    <2>1. ASSUME NEW i \in About(t, M)
          PROVE  \E k \in About(t, N) : k > i
      <3>1. PICK k \in About(s, N) : k > i + 1
        BY <1>2, <1>4 DEF Follows
      <3>2. i \in DOMAIN t /\ i \in Nat /\ i + 1 \in DOMAIN s /\ i + 1 >= 1
        BY <1>1 DEF About
      <3>3. k # 1 /\ k \in Nat
        BY <1>1, <3>1, <3>2 DEF About
      <3>4. k - 1 \in About(t, N) /\ k - 1 > i
        BY <1>3, <3>1, <3>2, <3>3
      <3> QED BY <3>4
    <2> QED BY <2>1 DEF Follows
  <1>5. ASSUME Follows(s, M, N), Head(s) \in M PROVE About(t, N) # {}
    <2>1. 1 \in About(s, M)
      BY <1>1, <1>5 DEF About
    <2>2. PICK k \in About(s, N) : k > 1
      BY <1>5, <2>1 DEF Follows
    <2> QED BY <1>3, <2>2
  <1>6. ASSUME Head(s) \notin N, About(s, N) # {} PROVE About(t, N) # {}
    <2>1. 1 \notin About(s, N)
      BY <1>1, <1>6 DEF About
    <2> QED BY <1>3, <1>6, <2>1
  <1> QED BY <1>4, <1>5, <1>6 DEF t

-----------------------------------------------------------------------------
(* Home Assistant: types. *)

LEMMA EventTypes ==
    ASSUME HomeTypeOK
    PROVE  /\ Snapshot \in Event /\ Offline \in Event
           /\ \A n \in Nat, ok \in BOOLEAN : Reply(n, ok) \in Message
           /\ \A d \in Devices, v \in Settings : State(d, v) \in Message
           /\ \A m \in Message : /\ m \in Event
                                 /\ [m EXCEPT !.generation = link.generation] \in Message
           /\ \A c \in Call : /\ c.serial \in Nat /\ c.device \in Devices
                              /\ c.desired \in Settings
  <1>1. link.generation \in Nat /\ device \in Setting
    BY DEF HomeTypeOK, Link
  <1>2. Snapshot \in SnapshotEvent /\ Offline \in OfflineEvent
    BY <1>1 DEF Snapshot, Offline, SnapshotEvent, OfflineEvent
  <1>3. \A n \in Nat, ok \in BOOLEAN : Reply(n, ok) \in ReplyEvent
    BY <1>1 DEF Reply, ReplyEvent
  <1>4. \A d \in Devices, v \in Settings : State(d, v) \in StateEvent
    BY <1>1 DEF State, StateEvent
  <1>5. \A m \in ReplyEvent : [m EXCEPT !.generation = link.generation] \in ReplyEvent
    BY <1>1 DEF ReplyEvent
  <1>6. \A m \in StateEvent : [m EXCEPT !.generation = link.generation] \in StateEvent
    BY <1>1 DEF StateEvent
  <1>7. \A c \in Call : c.serial \in Nat /\ c.device \in Devices /\ c.desired \in Settings
    BY DEF Call
  <1> QED BY <1>2, <1>3, <1>4, <1>5, <1>6, <1>7 DEF Event, Message

LEMMA NoChangeType == NoChange \in Wish /\ NoChange.serial = 0
  BY HomeAssistantAssumption DEF NoChange, Wish

LEMMA SettledTypes ==
    ASSUME HomeTypeOK, NEW waiting \in [Devices -> Wish], NEW states, NEW late,
           Settled(waiting, states, late)
    PROVE  /\ pending' \in [Devices -> Wish]
           /\ answered' \in [1..MaxCalls -> {"none", "ok", "failed"}]
  BY NoChangeType DEF Settled, HomeTypeOK

LEMMA AnswersTypes ==
    ASSUME HomeTypeOK, NEW serials
    PROVE  Answers(serials, "failed") \in [1..MaxCalls -> {"none", "ok", "failed"}]
  BY DEF HomeTypeOK, Answers

LEMMA HomeInitTypes ==
    ASSUME HomeInit
    PROVE  HomeTypeOK
  <1>1. device \in Setting
    BY HomeAssistantAssumption DEF HomeInit, Setting
  <1>2. live \in LiveState /\ link \in Link
    BY <1>1 DEF HomeInit, LiveState, Link
  <1>3. calls \in Seq(Call) /\ events \in Seq(Event) /\ stream \in Seq(Message)
    BY DEF HomeInit
  <1>4. pending \in [Devices -> Wish]
    BY NoChangeType DEF HomeInit
  <1> QED BY <1>1, <1>2, <1>3, <1>4 DEF HomeTypeOK, HomeInit

LEMMA EventTaken ==
    ASSUME HomeTypeOK, NEW event, Taken(event)
    PROVE  /\ event \in Event /\ events' \in Seq(Event)
           /\ event.kind = "snapshot" => event \in SnapshotEvent
           /\ event.kind = "state" => event \in StateEvent
           /\ event.kind = "reply" => event \in ReplyEvent
           /\ UNCHANGED <<serial, calls, link, stream, device, changes, breaks, links>>
  <1>1. event \in Event /\ events' \in Seq(Event)
    BY TailFacts DEF Taken, HomeTypeOK
  <1> QED BY <1>1 DEF Taken, Event, SnapshotEvent, OfflineEvent, ReplyEvent, StateEvent

LEMMA LiveTypes ==
    ASSUME HomeTypeOK, HomeNext
    PROVE  live' \in LiveState
  <1> USE DEF HomeTypeOK
  <1>1. ASSUME NEW event, HandleSnapshot(event)
        PROVE  live' \in LiveState
    <2>1. event.states \in Setting
      BY <1>1, EventTaken DEF HandleSnapshot, SnapshotEvent
    <2> QED BY <1>1, <2>1 DEF HandleSnapshot, LiveState
  <1>2. ASSUME NEW event, HandleState(event)
        PROVE  live' \in LiveState
    <2>1. event.setting \in Settings
      BY <1>2, EventTaken DEF HandleState, StateEvent
    <2>2. [live.states EXCEPT ![event.device] = event.setting] \in Setting
      BY <2>1 DEF LiveState, Setting
    <2> QED BY <1>2, <2>2 DEF HandleState, LiveState
  <1>3. ASSUME NEW event, DropEvent(event) \/ HandleOffline(event) \/ HandleReply(event)
        PROVE  live' \in LiveState
    BY <1>3 DEF DropEvent, HandleOffline, HandleReply, LiveState
  <1>4. ASSUME NEW setup, Restart(setup)
        PROVE  live' \in LiveState
    <2>1. live' = [live EXCEPT !.generation = @ + 1, !.joining = TRUE] /\ live.generation \in Nat
      BY <1>4 DEF Restart, LiveState
    <2>2. live.generation + 1 \in Nat
      BY <2>1
    <2> QED BY <2>1, <2>2 DEF LiveState
  <1>5. CASE LeaveHome \/ Joined
    BY <1>5 DEF LeaveHome, Joined, LiveState
  <1>6. CASE UNCHANGED live
    BY <1>6
  <1> QED BY <1>1, <1>2, <1>3, <1>4, <1>5, <1>6
          DEF HomeNext, HandleEvent, LinkStep, Control, Change, Tick, Connect, Break,
              Reconnect, ReadMessage, SendCall, SendOffline, Drain, Rest, Cancelled

LEMMA WishTypes ==
    ASSUME HomeTypeOK, HomeNext
    PROVE  /\ pending' \in [Devices -> Wish]
           /\ answered' \in [1..MaxCalls -> {"none", "ok", "failed"}]
  <1> DEFINE Goal == /\ pending' \in [Devices -> Wish]
                     /\ answered' \in [1..MaxCalls -> {"none", "ok", "failed"}]
  <1>0. /\ pending \in [Devices -> Wish] /\ serial \in Nat
        /\ answered \in [1..MaxCalls -> {"none", "ok", "failed"}]
    BY DEF HomeTypeOK
  <1>1. ASSUME NEW d \in Devices, NEW v \in Settings, Control(d, v)
        PROVE  Goal
    <2>1. [serial |-> serial + 1, desired |-> v, accepted |-> FALSE] \in Wish
      BY <1>0 DEF Wish
    <2> QED BY <1>0, <1>1, <2>1, AnswersTypes DEF Control
  <1>2. ASSUME NEW late, Tick(late)
        PROVE  Goal
    BY <1>0, <1>2, SettledTypes DEF Tick
  <1>3. ASSUME NEW event, HandleSnapshot(event) \/ HandleState(event)
        PROVE  Goal
    BY <1>0, <1>3, SettledTypes DEF HandleSnapshot, HandleState
  <1>4. ASSUME NEW event, HandleOffline(event)
        PROVE  Goal
    BY <1>4, NoChangeType, AnswersTypes DEF HandleOffline
  <1>5. ASSUME NEW event, HandleReply(event)
        PROVE  Goal
    <2> DEFINE whose == {d \in Devices : pending[d].serial = event.serial}
               accepted == [d \in Devices |->
                              [pending[d] EXCEPT !.accepted = @ \/ d \in whose]]
    <2>1. accepted \in [Devices -> Wish]
      BY <1>0 DEF Wish
    <2>2. CASE event.ok
      <3>1. Settled(accepted, live.states, {})
        BY <1>5, <2>2 DEF HandleReply
      <3> HIDE DEF accepted
      <3> QED BY <2>1, <3>1, SettledTypes
    <2>3. CASE ~event.ok
      BY <1>0, <1>5, <2>3, NoChangeType, AnswersTypes DEF HandleReply
    <2> QED BY <2>2, <2>3
  <1>6. CASE UNCHANGED <<pending, answered>>
    BY <1>0, <1>6
  <1> QED BY <1>1, <1>2, <1>3, <1>4, <1>5, <1>6
          DEF HomeNext, HandleEvent, LinkStep, DropEvent, Change, Connect, Break, Restart,
              LeaveHome, Joined, Reconnect, ReadMessage, SendCall, SendOffline, Drain,
              Rest, Cancelled

LEMMA LinkTypes ==
    ASSUME HomeTypeOK, HomeNext
    PROVE  link' \in Link /\ links' \in Nat /\ serial' \in Nat
  <1> USE DEF HomeTypeOK
  <1>1. CASE UNCHANGED <<link, links, serial>>
    BY <1>1
  <1>2. ASSUME NEW d \in Devices, NEW v \in Settings, Control(d, v)
        PROVE  link' \in Link /\ links' \in Nat /\ serial' \in Nat
    BY <1>2 DEF Control
  <1>3. CASE Joined
    BY <1>3 DEF Joined, LiveState, Link
  <1>4. CASE Connect \/ Break \/ Reconnect \/ SendOffline \/ Rest \/ Cancelled \/ LeaveHome
    <2>1. /\ \/ link' = [link EXCEPT !.cancelled = TRUE]
             \/ \E pc \in {"none", "connecting", "open", "offline", "draining", "resting"} :
                   link' = [link EXCEPT !.pc = pc]
          /\ links' \in {links, links + 1} /\ serial' = serial
      BY <1>4 DEF Connect, Break, Reconnect, SendOffline, Rest, Cancelled, LeaveHome
    <2>2. links' \in Nat /\ serial' \in Nat
      BY <2>1
    <2> QED BY <2>1, <2>2 DEF Link
  <1>5. ASSUME NEW setup, Restart(setup)
        PROVE  link' \in Link /\ links' \in Nat /\ serial' \in Nat
    BY <1>5 DEF Restart, Link
  <1>6. ASSUME NEW event, \/ DropEvent(event) \/ HandleSnapshot(event) \/ HandleState(event)
                          \/ HandleOffline(event) \/ HandleReply(event)
        PROVE  UNCHANGED <<link, links, serial>>
    BY <1>6 DEF DropEvent, HandleSnapshot, HandleState, HandleOffline, HandleReply, Taken
  <1> QED BY <1>1, <1>2, <1>3, <1>4, <1>5, <1>6
          DEF HomeNext, HandleEvent, LinkStep, Change, Tick, ReadMessage, SendCall, Drain

LEMMA TwoMore ==
    ASSUME NEW S, NEW s \in Seq(S), NEW e \in S, NEW f \in S
    PROVE  /\ s \o <<e>> \o <<f>> = Append(Append(s, e), f)
           /\ Append(s, e) \in Seq(S) /\ Append(Append(s, e), f) \in Seq(S)
  OBVIOUS

LEMMA ChannelTypes ==
    ASSUME HomeTypeOK, HomeNext
    PROVE  /\ calls' \in Seq(Call) /\ events' \in Seq(Event)
           /\ stream' \in Seq(Message) /\ device' \in Setting
  <1> DEFINE Goal == /\ calls' \in Seq(Call) /\ events' \in Seq(Event)
                     /\ stream' \in Seq(Message) /\ device' \in Setting
  <1>0. /\ calls \in Seq(Call) /\ events \in Seq(Event)
        /\ stream \in Seq(Message) /\ device \in Setting
        /\ serial \in Nat /\ links \in Nat
    BY DEF HomeTypeOK
  <1>1. CASE UNCHANGED <<calls, events, stream, device>>
    BY <1>0, <1>1
  <1>2. ASSUME NEW d \in Devices, NEW v \in Settings, Control(d, v)
        PROVE  Goal
    <2> DEFINE call == [serial |-> serial + 1, device |-> d, desired |-> v, via |-> links]
    <2>1. call \in Call
      BY <1>0 DEF Call
    <2>2. calls' \in {calls, Append(calls, call)} /\ UNCHANGED <<events, stream, device>>
      BY <1>2 DEF Control
    <2> HIDE DEF call
    <2>3. Append(calls, call) \in Seq(Call)
      BY <1>0, <2>1, AppendFacts
    <2> QED BY <1>0, <2>2, <2>3
  <1>3. ASSUME NEW d \in Devices, NEW v \in Settings, Change(d, v)
        PROVE  Goal
    <2>1. device' \in Setting
      BY <1>0, <1>3 DEF Change, Setting
    <2>2. State(d, v) \in Message
      BY EventTypes
    <2> QED BY <1>0, <1>3, <2>1, <2>2, AppendFacts DEF Change
  <1>4. ASSUME NEW event, \/ DropEvent(event) \/ HandleSnapshot(event) \/ HandleState(event)
                          \/ HandleOffline(event) \/ HandleReply(event)
        PROVE  Goal
    <2>1. Taken(event)
      BY <1>4 DEF DropEvent, HandleSnapshot, HandleState, HandleOffline, HandleReply
    <2> QED BY <1>0, <2>1, EventTaken
  <1>5. CASE Joined
    BY <1>0, <1>5 DEF Joined
  <1>6. CASE Connect
    BY <1>0, <1>6, EventTypes, AppendFacts DEF Connect, Sends
  <1>7. CASE Break \/ Cancelled
    <2>1. <<>> \in Seq(Message)
      OBVIOUS
    <2> QED BY <1>0, <1>7, <2>1 DEF Break, Cancelled
  <1>8. CASE ReadMessage
    <2>1. Head(stream) \in Message /\ Tail(stream) \in Seq(Message)
      BY <1>0, <1>8, TailFacts DEF ReadMessage
    <2>2. [Head(stream) EXCEPT !.generation = link.generation] \in Event
      BY <2>1, EventTypes
    <2> QED BY <1>0, <1>8, <2>1, <2>2, AppendFacts DEF ReadMessage, Sends
  <1>9. CASE SendCall
    <2> DEFINE call == Head(calls)
    <2>1. call \in Call /\ Tail(calls) \in Seq(Call)
      BY <1>0, <1>9, TailFacts DEF SendCall
    <2>2. /\ State(call.device, call.desired) \in Message
          /\ \A ok \in BOOLEAN : Reply(call.serial, ok) \in Message
      BY <2>1, EventTypes
    <2>3. stream' \in Seq(Message)
      <3>1. \/ stream' = stream \o <<State(call.device, call.desired)>>
                                \o <<Reply(call.serial, TRUE)>>
            \/ stream' = stream \o <<Reply(call.serial, TRUE)>>
                                \o <<State(call.device, call.desired)>>
            \/ \E ok \in BOOLEAN : stream' = Append(stream, Reply(call.serial, ok))
        BY <1>9 DEF SendCall
      <3> DEFINE told == State(call.device, call.desired)
                 done == Reply(call.serial, TRUE)
      <3>2. told \in Message /\ done \in Message
        BY <2>2
      <3> HIDE DEF told, done
      <3>3. /\ stream \o <<told>> \o <<done>> \in Seq(Message)
            /\ stream \o <<done>> \o <<told>> \in Seq(Message)
        BY <1>0, <3>2, TwoMore
      <3>4. \A ok \in BOOLEAN : Append(stream, Reply(call.serial, ok)) \in Seq(Message)
        BY <1>0, <2>2, AppendFacts
      <3> QED BY <3>1, <3>3, <3>4 DEF told, done
    <2>4. device' \in Setting
      BY <1>0, <1>9, <2>1 DEF SendCall, Setting, Call
    <2> QED BY <1>0, <1>9, <2>1, <2>3, <2>4 DEF SendCall
  <1>10. CASE SendOffline
    BY <1>0, <1>10, EventTypes, AppendFacts DEF SendOffline, Sends
  <1>11. CASE Drain
    <2>1. Head(calls) \in Call /\ Tail(calls) \in Seq(Call)
      BY <1>0, <1>11, TailFacts DEF Drain
    <2>2. Reply(Head(calls).serial, FALSE) \in Event
      BY <2>1, EventTypes
    <2> QED BY <1>0, <1>11, <2>1, <2>2, AppendFacts DEF Drain, Sends
  <1> QED BY <1>1, <1>2, <1>3, <1>4, <1>5, <1>6, <1>7, <1>8, <1>9, <1>10, <1>11
          DEF HomeNext, HandleEvent, LinkStep, Tick, Restart, LeaveHome, Rest, Reconnect

LEMMA HomeTypesKept ==
    ASSUME HomeTypeOK, [HomeNext]_homeVars
    PROVE  HomeTypeOK'
  <1>1. CASE HomeNext
    BY <1>1, LiveTypes, WishTypes, LinkTypes, ChannelTypes DEF HomeTypeOK
  <1>2. CASE UNCHANGED homeVars
    BY <1>2 DEF HomeTypeOK, homeVars
  <1> QED BY <1>1, <1>2

-----------------------------------------------------------------------------
(* Home Assistant: what is answered. *)

\* What a step may answer: an answer stays, and success is what the panel shows.
Confirms ==
    \A n \in 1..MaxCalls :
       /\ answered[n] # "none" => answered'[n] = answered[n]
       /\ answered[n] = "none" /\ answered'[n] = "ok" =>
            \E d \in Devices : pending[d].serial = n /\ live'.states[d] = pending[d].desired

\* The changes of some devices are answered, and wait no more.
LEMMA AnswersGo ==
    ASSUME HomeTypeOK, Serials, serial' = serial, NEW gone \in SUBSET Pending(pending),
           \A d \in Devices : pending'[d].serial = IF d \in gone THEN 0 ELSE pending[d].serial,
           \A n \in 1..MaxCalls : (\A d \in gone : pending[d].serial # n) =>
              answered'[n] = answered[n]
    PROVE  /\ Serials'
           /\ \A n \in 1..MaxCalls : answered[n] # "none" => answered'[n] = answered[n]
  <1>1. Pending(pending') = Pending(pending) \ gone
    BY DEF Pending
  <1>2. \A d \in Pending(pending) :
           pending[d].serial \in 1..MaxCalls /\ pending[d].serial <= serial
    <2>1. MaxCalls \in Nat /\ serial \in Nat /\ serial <= MaxCalls
      BY HomeAssistantAssumption DEF HomeTypeOK, Serials
    <2>2. \A d \in Devices : pending[d].serial \in Nat
      BY DEF HomeTypeOK, Wish
    <2> QED BY <2>1, <2>2 DEF Pending, Serials
  <1>3. \A d \in Pending(pending') :
           /\ d \in Pending(pending) /\ d \notin gone
           /\ pending'[d].serial = pending[d].serial
           /\ answered'[pending[d].serial] = answered[pending[d].serial]
    <2>1. ASSUME NEW d \in Pending(pending) \ gone
          PROVE  answered'[pending[d].serial] = answered[pending[d].serial]
      BY <1>2, <2>1 DEF Serials
    <2> QED BY <1>1, <2>1 DEF Pending
  <1>4. \A n \in 1..MaxCalls : answered[n] # "none" => answered'[n] = answered[n]
    BY DEF Serials
  <1>5. ASSUME NEW n \in 1..MaxCalls, n > serial
        PROVE  answered'[n] = "none"
    <2>1. \A d \in gone : pending[d].serial # n
      BY <1>2, <1>5 DEF HomeTypeOK
    <2> QED BY <1>5, <2>1 DEF Serials
  <1> QED BY <1>3, <1>4, <1>5 DEF Serials

LEMMA SettledAnswers ==
    ASSUME HomeTypeOK, Serials, serial' = serial, NEW waiting \in [Devices -> Wish],
           NEW states, NEW late, Settled(waiting, states, late), live'.states = states,
           \A d \in Devices : /\ waiting[d].serial = pending[d].serial
                              /\ waiting[d].desired = pending[d].desired
    PROVE  Serials' /\ Confirms
  <1> DEFINE done == Confirmed(waiting, states)
             failed == Expired(waiting, late) \ done
  <1>1. Pending(waiting) = Pending(pending)
    BY DEF Pending
  <1>2. done \subseteq Pending(pending) /\ failed \subseteq Pending(pending)
    BY <1>1 DEF Confirmed, Expired
  <1>3. pending' = [d \in Devices |-> IF d \in done \cup failed THEN NoChange ELSE waiting[d]]
    BY DEF Settled
  <1>4. answered' = [n \in 1..MaxCalls |->
                       IF n \in {waiting[d].serial : d \in done} THEN "ok"
                       ELSE IF n \in {waiting[d].serial : d \in failed} THEN "failed"
                       ELSE answered[n]]
    BY DEF Settled
  <1>5. \A d \in done : states[d] = waiting[d].desired
    BY DEF Confirmed
  <1> HIDE DEF done, failed
  <1>6. \A d \in Devices :
           pending'[d].serial = IF d \in done \cup failed THEN 0 ELSE pending[d].serial
    BY <1>3, NoChangeType
  <1>7. \A n \in 1..MaxCalls : (\A d \in done \cup failed : pending[d].serial # n) =>
           answered'[n] = answered[n]
    BY <1>2, <1>4 DEF Pending
  <1>8. /\ Serials'
        /\ \A n \in 1..MaxCalls : answered[n] # "none" => answered'[n] = answered[n]
    <2>1. done \cup failed \in SUBSET Pending(pending)
      BY <1>2
    <2> QED BY <1>6, <1>7, <2>1, AnswersGo
  <1>9. ASSUME NEW n \in 1..MaxCalls, answered[n] = "none", answered'[n] = "ok"
        PROVE  \E d \in Devices : pending[d].serial = n /\ live'.states[d] = pending[d].desired
    <2>1. PICK d \in done : waiting[d].serial = n
      BY <1>4, <1>9
    <2>2. d \in Devices
      BY <1>2 DEF Pending
    <2> QED BY <1>5, <2>1, <2>2
  <1> QED BY <1>8, <1>9 DEF Confirms

\* Some changes fail.
LEMMA FailedAnswers ==
    ASSUME HomeTypeOK, Serials, serial' = serial, NEW gone \in SUBSET Pending(pending),
           \A d \in Devices : pending'[d].serial = IF d \in gone THEN 0 ELSE pending[d].serial,
           NEW serials, \A n \in serials : n # 0 => \E d \in gone : pending[d].serial = n,
           answered' = Answers(serials, "failed")
    PROVE  Serials' /\ Confirms
  <1>1. \A n \in 1..MaxCalls : (\A d \in gone : pending[d].serial # n) =>
           answered'[n] = answered[n]
    BY HomeAssistantAssumption DEF Answers
  <1>2. \A n \in 1..MaxCalls : answered'[n] \in {"failed", answered[n]}
    BY DEF Answers
  <1>3. /\ Serials'
        /\ \A n \in 1..MaxCalls : answered[n] # "none" => answered'[n] = answered[n]
    BY <1>1, AnswersGo
  <1> QED BY <1>2, <1>3 DEF Confirms

LEMMA ControlAnswers ==
    ASSUME HomeTypeOK, Serials, NEW c \in Devices, NEW v \in Settings, Control(c, v)
    PROVE  Serials' /\ Confirms
  <1> DEFINE n == serial + 1
  <1>1. /\ serial \in Nat /\ MaxCalls \in Nat /\ n \in 1..MaxCalls /\ n > serial
        /\ serial' = n /\ n <= MaxCalls
        /\ pending \in [Devices -> Wish] /\ pending[c].serial = 0
        /\ answered \in [1..MaxCalls -> {"none", "ok", "failed"}]
    BY HomeAssistantAssumption DEF HomeTypeOK, Control, Serials
  <1>2. \A d \in Pending(pending) :
           /\ pending[d].serial <= serial /\ pending[d].serial # n /\ d # c
           /\ pending[d].serial \in 1..MaxCalls /\ pending[d].serial <= n
    <2>1. \A d \in Devices : pending[d].serial \in Nat
      BY <1>1 DEF Wish
    <2> QED BY <1>1, <2>1 DEF Serials, Pending
  <1>3. \/ /\ pending' = [pending EXCEPT ![c] = [serial |-> n, desired |-> v,
                                                 accepted |-> FALSE]]
           /\ answered' = answered
        \/ answered' = Answers({n}, "failed") /\ pending' = pending
    BY DEF Control
  <1>4. answered[n] = "none"
    BY <1>1 DEF Serials
  <1> HIDE DEF n
  <1>5. CASE /\ pending' = [pending EXCEPT ![c] = [serial |-> n, desired |-> v,
                                                   accepted |-> FALSE]]
             /\ answered' = answered
    <2>1. /\ pending'[c].serial = n
          /\ \A d \in Devices \ {c} : pending'[d] = pending[d]
      BY <1>1, <1>5
    <2>2. Pending(pending') = Pending(pending) \cup {c}
      BY <1>1, <2>1 DEF Pending
    <2>3. \A d \in Pending(pending') :
             pending'[d].serial <= serial' /\ answered'[pending'[d].serial] = "none"
      BY <1>1, <1>2, <1>4, <1>5, <2>1, <2>2 DEF Serials, Pending
    <2>4. ASSUME NEW b \in Pending(pending'), NEW d \in Pending(pending'),
                 pending'[b].serial = pending'[d].serial
          PROVE  b = d
      BY <1>2, <2>1, <2>2, <2>4 DEF Serials, Pending
    <2>5. \A m \in 1..MaxCalls : m > serial' => answered'[m] = "none"
      BY <1>1, <1>5 DEF Serials
    <2>6. Serials'
      BY <1>1, <2>3, <2>4, <2>5 DEF Serials
    <2> QED BY <1>5, <2>6 DEF Confirms
  <1>6. CASE answered' = Answers({n}, "failed") /\ pending' = pending
    <2>1. \A m \in 1..MaxCalls : answered'[m] = IF m = n THEN "failed" ELSE answered[m]
      BY <1>6 DEF Answers
    <2>2. \A d \in Pending(pending) : answered'[pending[d].serial] = "none"
      BY <1>2, <2>1 DEF Serials
    <2>3. \A m \in 1..MaxCalls : m > serial' => answered'[m] = "none"
      BY <1>1, <2>1 DEF Serials
    <2>4. Serials'
      BY <1>1, <1>2, <1>6, <2>2, <2>3 DEF Serials
    <2> QED BY <1>4, <2>1, <2>4 DEF Confirms
  <1> QED BY <1>3, <1>5, <1>6

LEMMA ReplyAnswers ==
    ASSUME HomeTypeOK, Serials, NEW event, HandleReply(event)
    PROVE  Serials' /\ Confirms
  <1> DEFINE whose == {d \in Devices : pending[d].serial = event.serial}
             accepted == [d \in Devices |-> [pending[d] EXCEPT !.accepted = @ \/ d \in whose]]
  <1>1. pending \in [Devices -> Wish] /\ serial' = serial /\ live' = live
    BY EventTaken DEF HomeTypeOK, HandleReply
  <1>2. CASE event.ok
    <2>1. /\ accepted \in [Devices -> Wish]
          /\ \A d \in Devices : /\ accepted[d].serial = pending[d].serial
                                /\ accepted[d].desired = pending[d].desired
      BY <1>1 DEF Wish
    <2>2. Settled(accepted, live.states, {})
      BY <1>2 DEF HandleReply
    <2> HIDE DEF accepted
    <2> QED BY <1>1, <2>1, <2>2, SettledAnswers
  <1>3. CASE ~event.ok
    <2> DEFINE gone == whose \cap Pending(pending)
    <2>1. /\ pending' = [d \in Devices |-> IF d \in whose THEN NoChange ELSE pending[d]]
          /\ answered' = IF whose = {} THEN answered ELSE Answers({event.serial}, "failed")
      BY <1>3 DEF HandleReply
    <2>2. \A d \in Devices :
             pending'[d].serial = IF d \in gone THEN 0 ELSE pending[d].serial
      BY <2>1, NoChangeType DEF Pending
    <2>3. CASE whose = {}
      <3>1. answered' = Answers({}, "failed")
        BY <2>1, <2>3 DEF Answers, HomeTypeOK
      <3>2. \A n \in {} : n # 0 => \E d \in gone : pending[d].serial = n
        OBVIOUS
      <3>3. gone \in SUBSET Pending(pending)
        OBVIOUS
      <3> HIDE DEF gone
      <3> QED BY <1>1, <2>2, <3>1, <3>2, <3>3, FailedAnswers
    <2>4. CASE whose # {}
      <3>1. answered' = Answers({event.serial}, "failed")
        BY <2>1, <2>4
      <3>2. \A n \in {event.serial} : n # 0 => \E d \in gone : pending[d].serial = n
        BY <2>4 DEF Pending
      <3>3. gone \in SUBSET Pending(pending)
        OBVIOUS
      <3> HIDE DEF gone
      <3> QED BY <1>1, <2>2, <3>1, <3>2, <3>3, FailedAnswers
    <2> QED BY <2>3, <2>4
  <1> QED BY <1>2, <1>3

LEMMA SerialsKept ==
    ASSUME HomeTypeOK, Serials, [HomeNext]_homeVars
    PROVE  Serials' /\ Confirms
  <1>1. pending \in [Devices -> Wish]
    BY DEF HomeTypeOK
  <1>2. ASSUME NEW late, Tick(late)
        PROVE  Serials' /\ Confirms
    <2>1. Settled(pending, live.states, late) /\ serial' = serial /\ live' = live
      BY <1>2 DEF Tick
    <2> QED BY <1>1, <2>1, SettledAnswers
  <1>3. ASSUME NEW event, HandleSnapshot(event) \/ HandleState(event)
        PROVE  Serials' /\ Confirms
    <2>1. Settled(pending, live'.states, {}) /\ serial' = serial
      <3>1. CASE HandleSnapshot(event)
        BY <3>1, EventTaken DEF HandleSnapshot, HomeTypeOK, LiveState
      <3>2. CASE HandleState(event)
        BY <3>2, EventTaken DEF HandleState
      <3> QED BY <1>3, <3>1, <3>2
    <2> QED BY <1>1, <2>1, SettledAnswers
  <1>4. ASSUME NEW event, HandleOffline(event)
        PROVE  Serials' /\ Confirms
    <2> DEFINE gone == Pending(pending)
               serials == {pending[d].serial : d \in gone}
    <2>1. /\ serial' = serial
          /\ \A d \in Devices : pending'[d].serial = 0
          /\ answered' = Answers(serials, "failed")
      BY <1>4, EventTaken, NoChangeType DEF HandleOffline
    <2>2. \A d \in Devices : pending'[d].serial = IF d \in gone THEN 0 ELSE pending[d].serial
      BY <2>1 DEF Pending
    <2>3. \A n \in serials : n # 0 => \E d \in gone : pending[d].serial = n
      OBVIOUS
    <2>4. gone \in SUBSET Pending(pending)
      OBVIOUS
    <2> HIDE DEF gone, serials
    <2> QED BY <2>1, <2>2, <2>3, <2>4, FailedAnswers
  <1>5. CASE UNCHANGED <<pending, answered, serial>>
    BY <1>5 DEF Serials, Confirms
  <1>6. ASSUME NEW event \in {events[i] : i \in DOMAIN events}, DropEvent(event)
        PROVE  UNCHANGED <<pending, answered, serial>>
    BY <1>6 DEF DropEvent, Taken
  <1> QED BY <1>2, <1>3, <1>4, <1>5, <1>6, ControlAnswers, ReplyAnswers
          DEF HomeNext, HandleEvent, LinkStep, Change, Connect, Break, Restart,
              LeaveHome, Joined, Reconnect, ReadMessage, SendCall, SendOffline, Drain,
              Rest, Cancelled, homeVars

-----------------------------------------------------------------------------
(* Home Assistant: connections, their events, and what the panel shows. *)

LEMMA WaitsAre ==
    ASSUME HomeTypeOK
    PROVE  \A kind : Waits(kind) <=> About(events, Ours(kind)) # {}
  <1>1. \A i \in DOMAIN events : events[i] \in Event
    BY DEF HomeTypeOK
  <1> QED BY <1>1 DEF Waits, About, Ours

\* Nothing happens to the connection, its events and the devices.
LEMMA QuietWire ==
    ASSUME WireOK, UNCHANGED <<live, events, link, stream, device>>,
           \/ Pending(pending') \subseteq Pending(pending)
           \/ live.connected /\ ~live.joining
    PROVE  WireOK'
  <1>1. GenerationsOK'
    BY DEF WireOK, GenerationsOK
  <1>2. EndFollows' /\ ReportsArrive'
    BY DEF WireOK, EndFollows, ReportsArrive, Ours, News, NewsOf, Heard, HeardOf
  <1>3. ConnectedIsHonest'
    BY DEF WireOK, ConnectedIsHonest, Waits
  <1> QED BY <1>1, <1>2, <1>3 DEF WireOK

LEMMA SettledPending ==
    ASSUME NEW waiting, NEW states, NEW late, Settled(waiting, states, late),
           \A d \in Devices : waiting[d].serial = pending[d].serial
    PROVE  Pending(pending') \subseteq Pending(pending)
  BY NoChangeType DEF Settled, Pending

\* An event is taken; what it says of a device is shown.
LEMMA TakenWire ==
    ASSUME HomeTypeOK, WireOK, NEW event, Taken(event),
           live'.generation = live.generation, live'.joining = live.joining,
           live'.leaving = live.leaving,
           \A d \in Devices : live'.states[d] = IF event \in News(d) THEN Value(event, d)
                                                                      ELSE live.states[d],
           live'.connected => \/ event \in Ours("snapshot")
                              \/ live.connected /\ event \notin Ours("offline"),
           ~live'.connected => Pending(pending') = {}
    PROVE  WireOK'
  <1>1. /\ ~live.joining /\ events # <<>> /\ event = Head(events) /\ events' = Tail(events)
        /\ UNCHANGED <<link, stream, device>>
        /\ events \in Seq(Event) /\ event \in Event
    BY EventTaken DEF Taken, Ready, HomeTypeOK
  <1>2. GenerationsOK'
    <2>1. \A i \in DOMAIN events' : events'[i].generation <= link'.generation
      BY <1>1, TailFacts DEF WireOK, GenerationsOK
    <2> QED BY <1>1, <2>1 DEF WireOK, GenerationsOK
  <1>3. \A kind : Ours(kind)' = Ours(kind)
    BY DEF Ours
  <1>4. EndFollows'
    <2>1. CASE link.pc \notin {"open", "offline"}
      <3>1. Follows(events, Ours("snapshot"), Ours("offline"))
        BY <1>1, <2>1 DEF WireOK, EndFollows
      <3>2. Follows(events', Ours("snapshot"), Ours("offline"))
        BY <1>1, <3>1, TailFollows
      <3> QED BY <1>3, <3>2 DEF EndFollows
    <2>2. CASE link.pc \in {"open", "offline"}
      BY <1>1, <2>2 DEF EndFollows
    <2> QED BY <2>1, <2>2
  <1>5. ReportsArrive'
    <2>1. SUFFICES ASSUME link.pc = "open", NEW d \in Devices
                   PROVE  /\ EndsIn(stream, Heard(d), HeardOf(d, device[d]))
                          /\ About(stream, Heard(d)) = {} =>
                               /\ EndsIn(events', News(d), NewsOf(d, device[d]))
                               /\ About(events', News(d)) = {} => live'.states[d] = device[d]
      BY <1>1 DEF ReportsArrive, News, NewsOf, Heard, HeardOf
    <2>2. /\ EndsIn(stream, Heard(d), HeardOf(d, device[d]))
          /\ About(stream, Heard(d)) = {} =>
               /\ EndsIn(events, News(d), NewsOf(d, device[d]))
               /\ About(events, News(d)) = {} => live.states[d] = device[d]
      BY <1>1, <2>1 DEF WireOK, ReportsArrive
    <2>3. ASSUME About(stream, Heard(d)) = {}
          PROVE  /\ EndsIn(events', News(d), NewsOf(d, device[d]))
                 /\ About(events', News(d)) = {} => live'.states[d] = device[d]
      <3> DEFINE M == News(d)
                 V == NewsOf(d, device[d])
      <3>1. EndsIn(events, M, V)
        BY <2>2, <2>3
      <3>2. event \in V => Value(event, d) = device[d]
        BY DEF NewsOf
      <3> HIDE DEF M, V
      <3>3. /\ EndsIn(events', M, V)
            /\ About(events', M) = {} /\ event \in M => event \in V
            /\ event \notin M /\ About(events', M) = {} => About(events, M) = {}
        BY <1>1, <3>1, TailEnds
      <3>4. ASSUME About(events', M) = {}
            PROVE  live'.states[d] = device[d]
        <4>1. CASE event \in M
          BY <3>2, <3>3, <3>4, <4>1 DEF M
        <4>2. CASE event \notin M
          BY <2>2, <2>3, <3>3, <3>4, <4>2 DEF M
        <4> QED BY <4>1, <4>2
      <3> QED BY <3>3, <3>4 DEF M, V
    <2> QED BY <2>2, <2>3
  <1>6. ConnectedIsHonest'
    <2>1. ASSUME live'.connected, link.pc \notin {"open", "offline"}
          PROVE  About(events', Ours("offline")) # {}
      <3>1. CASE event \in Ours("snapshot")
        <4>1. Follows(events, Ours("snapshot"), Ours("offline"))
          BY <1>1, <2>1 DEF WireOK, EndFollows
        <4> QED BY <1>1, <3>1, <4>1, TailFollows
      <3>2. CASE live.connected /\ event \notin Ours("offline")
        <4>1. About(events, Ours("offline")) # {}
          BY <1>1, <2>1, <3>2, WaitsAre DEF WireOK, ConnectedIsHonest
        <4> QED BY <1>1, <3>2, <4>1, TailFollows
      <3> QED BY <2>1, <3>1, <3>2
    <2>2. About(events', Ours("offline")) # {} => Waits("offline")'
      BY DEF About, Ours, Waits
    <2> QED BY <1>1, <2>1, <2>2 DEF ConnectedIsHonest
  <1> QED BY <1>2, <1>4, <1>5, <1>6 DEF WireOK

LEMMA HandledWire ==
    ASSUME HomeTypeOK, WireOK, HandleEvent
    PROVE  WireOK'
  <1>0. PICK event \in {events[i] : i \in DOMAIN events} :
          \/ DropEvent(event) \/ HandleSnapshot(event) \/ HandleState(event)
          \/ HandleOffline(event) \/ HandleReply(event)
    BY DEF HandleEvent
  <1>1. /\ Taken(event) /\ event \in Event
        /\ event.kind = "snapshot" => event \in SnapshotEvent
        /\ event.kind = "state" => event \in StateEvent
        /\ live \in LiveState
        /\ ~live.connected => Pending(pending) = {}
    BY <1>0, EventTaken DEF DropEvent, HandleSnapshot, HandleState, HandleOffline,
       HandleReply, HomeTypeOK, WireOK, ConnectedIsHonest
  <1>2. CASE DropEvent(event)
    <2>1. /\ live' = live /\ pending' = pending /\ event.generation # live.generation
      BY <1>2 DEF DropEvent, OfThisGeneration
    <2>2. \A d : event \notin News(d)
      BY <2>1 DEF News
    <2>3. \A kind : event \notin Ours(kind)
      BY <2>1 DEF Ours
    <2>4. /\ \A d \in Devices : live'.states[d] = IF event \in News(d) THEN Value(event, d)
                                                                      ELSE live.states[d]
          /\ live'.connected => \/ event \in Ours("snapshot")
                                \/ live.connected /\ event \notin Ours("offline")
          /\ ~live'.connected => Pending(pending') = {}
      BY <1>1, <2>1, <2>2, <2>3 DEF LiveState, Pending
    <2> QED BY <1>1, <2>1, <2>4, TakenWire
  <1>3. CASE HandleSnapshot(event)
    <2>1. /\ live' = [live EXCEPT !.states = event.states, !.connected = TRUE]
          /\ event.kind = "snapshot" /\ event.generation = live.generation
      BY <1>3 DEF HandleSnapshot, OfThisGeneration
    <2>2. /\ live'.generation = live.generation /\ live'.joining = live.joining
          /\ live'.leaving = live.leaving /\ live'.connected = TRUE
          /\ live'.states = event.states
      BY <1>1, <2>1 DEF LiveState
    <2>3. \A d \in Devices : event \in News(d) /\ Value(event, d) = event.states[d]
      BY <1>1, <2>1 DEF News, Tells, Value
    <2>4. event \in Ours("snapshot")
      BY <1>1, <2>1 DEF Ours
    <2>5. \A d \in Devices : live'.states[d] = IF event \in News(d) THEN Value(event, d)
                                                                   ELSE live.states[d]
      BY <2>2, <2>3
    <2>6. /\ live'.connected => \/ event \in Ours("snapshot")
                                \/ live.connected /\ event \notin Ours("offline")
          /\ ~live'.connected => Pending(pending') = {}
      BY <2>2, <2>4
    <2> QED BY <1>1, <2>2, <2>5, <2>6, TakenWire
  <1>4. CASE HandleState(event)
    <2>1. /\ live' = [live EXCEPT !.states[event.device] = event.setting]
          /\ event.kind = "state" /\ event.generation = live.generation
          /\ Settled(pending, live'.states, {})
      BY <1>4 DEF HandleState, OfThisGeneration
    <2>2. /\ live'.generation = live.generation /\ live'.joining = live.joining
          /\ live'.leaving = live.leaving /\ live'.connected = live.connected
          /\ live'.states = [live.states EXCEPT ![event.device] = event.setting]
          /\ live.states \in [Devices -> Settings]
          /\ live.connected \in BOOLEAN
      <3>1. live.states \in [Devices -> Settings] /\ live.connected \in BOOLEAN
        BY <1>1 DEF LiveState, Setting
      <3> QED BY <1>1, <2>1, <3>1 DEF LiveState
    <2>3. \A d \in Devices : /\ event \in News(d) <=> d = event.device
                             /\ Value(event, d) = event.setting
      BY <1>1, <2>1 DEF News, Tells, Value
    <2>4. event \notin Ours("offline")
      BY <2>1 DEF Ours
    <2>5. Pending(pending') \subseteq Pending(pending)
      BY <2>1, SettledPending
    <2>6. ~live'.connected => Pending(pending') = {}
      <3>1. Pending(pending) = {} => Pending(pending') = {}
        BY <2>5
      <3> QED BY <1>1, <2>2, <3>1 DEF Pending
    <2>7. \A d \in Devices : live'.states[d] = IF event \in News(d) THEN Value(event, d)
                                                                   ELSE live.states[d]
      <3>1. event.device \in Devices
        BY <1>1, <2>1 DEF StateEvent
      <3> QED BY <2>2, <2>3, <3>1
    <2>8. live'.connected => \/ event \in Ours("snapshot")
                             \/ live.connected /\ event \notin Ours("offline")
      BY <2>2, <2>4
    <2> QED BY <1>1, <2>2, <2>6, <2>7, <2>8, TakenWire
  <1>5. CASE HandleOffline(event)
    <2>1. /\ live' = [live EXCEPT !.connected = FALSE] /\ event.kind = "offline"
          /\ pending' = [d \in Devices |-> NoChange]
      BY <1>5 DEF HandleOffline
    <2>2. /\ live'.generation = live.generation /\ live'.joining = live.joining
          /\ live'.leaving = live.leaving /\ live'.connected = FALSE
          /\ live'.states = live.states
      BY <1>1, <2>1 DEF LiveState
    <2>3. \A d : event \notin News(d)
      BY <2>1 DEF News, Tells
    <2>4. Pending(pending') = {}
      BY <2>1, NoChangeType DEF Pending
    <2> QED BY <1>1, <2>2, <2>3, <2>4, TakenWire
  <1>6. CASE HandleReply(event)
    <2>1. live' = live /\ event.kind = "reply"
      BY <1>6 DEF HandleReply
    <2>2. (\A d : event \notin News(d)) /\ event \notin Ours("offline")
      BY <2>1 DEF News, Tells, Ours
    <2>3. Pending(pending') \subseteq Pending(pending)
      <3> DEFINE whose == {d \in Devices : pending[d].serial = event.serial}
                 accepted == [d \in Devices |->
                                [pending[d] EXCEPT !.accepted = @ \/ d \in whose]]
      <3>1. CASE event.ok
        <4>1. Settled(accepted, live.states, {})
          BY <1>6, <3>1 DEF HandleReply
        <4>2. \A d \in Devices : accepted[d].serial = pending[d].serial
          BY DEF HomeTypeOK, Wish
        <4> HIDE DEF accepted
        <4> QED BY <4>1, <4>2, SettledPending
      <3>2. CASE ~event.ok
        BY <1>6, <3>2, NoChangeType DEF HandleReply, Pending
      <3> QED BY <3>1, <3>2
    <2>4. ~live'.connected => Pending(pending') = {}
      <3>1. Pending(pending) = {} => Pending(pending') = {}
        BY <2>3
      <3> QED BY <1>1, <2>1, <3>1 DEF LiveState, Pending
    <2> QED BY <1>1, <2>1, <2>2, <2>4, TakenWire
  <1> QED BY <1>0, <1>2, <1>3, <1>4, <1>5, <1>6

\* The task is cancelled, and what was said of it does not count any more.
LEMMA RestartWire ==
    ASSUME HomeTypeOK, WireOK, NEW setup \in BOOLEAN, Restart(setup)
    PROVE  WireOK'
  <1>1. /\ ~live.joining /\ live \in LiveState /\ link \in Link
        /\ live' = [live EXCEPT !.generation = @ + 1, !.joining = TRUE]
        /\ link' = [link EXCEPT !.cancelled = TRUE]
        /\ events' = events /\ pending' = pending
        /\ live.connected => setup
        /\ setup => Pending(pending) = {}
    BY DEF Restart, Ready, HomeTypeOK
  <1>2. /\ live'.generation = live.generation + 1 /\ live'.joining = TRUE
        /\ live'.leaving = live.leaving /\ live'.connected = live.connected
        /\ link'.generation = link.generation /\ live.generation \in Nat
        /\ link.generation \in Nat
    BY <1>1 DEF LiveState, Link
  <1>3. Pending(pending) = {}
    BY <1>1 DEF WireOK, ConnectedIsHonest
  <1>4. GenerationsOK'
    BY <1>1, <1>2, <1>3 DEF WireOK, GenerationsOK
  <1>5. EndFollows' /\ ReportsArrive' /\ ConnectedIsHonest'
    BY <1>1, <1>2, <1>3 DEF EndFollows, ReportsArrive, ConnectedIsHonest
  <1> QED BY <1>4, <1>5 DEF WireOK

LEMMA LeaveHomeWire ==
    ASSUME HomeTypeOK, WireOK, LeaveHome
    PROVE  WireOK'
  <1>1. /\ live \in LiveState /\ link \in Link
        /\ live' = [live EXCEPT !.joining = TRUE, !.leaving = TRUE]
        /\ link' = [link EXCEPT !.cancelled = TRUE]
        /\ events' = events /\ pending' = pending
    BY DEF LeaveHome, HomeTypeOK
  <1>2. /\ live'.generation = live.generation /\ live'.joining = TRUE
        /\ live'.leaving = TRUE /\ live'.connected = live.connected
        /\ link'.generation = link.generation
    BY <1>1 DEF LiveState, Link
  <1>3. GenerationsOK'
    BY <1>1, <1>2 DEF WireOK, GenerationsOK
  <1>4. EndFollows' /\ ReportsArrive' /\ ConnectedIsHonest'
    BY <1>1, <1>2 DEF WireOK, EndFollows, ReportsArrive, ConnectedIsHonest
  <1> QED BY <1>3, <1>4 DEF WireOK

\* A new task: whatever events wait are an earlier one's.
LEMMA JoinedWire ==
    ASSUME HomeTypeOK, WireOK, Joined
    PROVE  WireOK'
  <1>1. /\ live.joining /\ ~live.leaving /\ live \in LiveState /\ link \in Link
        /\ live' = [live EXCEPT !.joining = FALSE, !.connected = FALSE]
        /\ link' = [pc |-> "connecting", generation |-> live.generation, cancelled |-> FALSE]
        /\ events' = events /\ pending' = pending
        /\ \A i \in DOMAIN events : events[i] \in Event
    BY DEF Joined, HomeTypeOK
  <1>2. /\ live'.generation = live.generation /\ live'.joining = FALSE
        /\ live'.leaving = FALSE /\ live'.connected = FALSE
        /\ link'.generation = live.generation /\ ~link'.cancelled /\ link'.pc = "connecting"
        /\ live.generation \in Nat /\ link.generation \in Nat
    BY <1>1 DEF LiveState, Link
  <1>3. link.generation < live.generation /\ Pending(pending) = {}
    BY <1>1 DEF WireOK, GenerationsOK
  <1>4. \A i \in DOMAIN events :
           events[i].generation \in Nat /\ events[i].generation < live.generation
    <2>1. \A e \in Event : e.generation \in Nat
      BY DEF Event, SnapshotEvent, OfflineEvent, ReplyEvent, StateEvent
    <2> QED BY <1>1, <1>2, <1>3, <2>1 DEF WireOK, GenerationsOK
  <1>5. GenerationsOK'
    BY <1>1, <1>2, <1>3, <1>4 DEF GenerationsOK
  <1>6. EndFollows'
    <2>1. About(events', Ours("snapshot")') = {}
      BY <1>1, <1>2, <1>4 DEF About, Ours
    <2> QED BY <2>1 DEF EndFollows, Follows
  <1>7. ReportsArrive' /\ ConnectedIsHonest'
    BY <1>1, <1>2, <1>3 DEF ReportsArrive, ConnectedIsHonest
  <1> QED BY <1>5, <1>6, <1>7 DEF WireOK

\* Connected and set up: the snapshot is the last word on every device.
LEMMA ConnectWire ==
    ASSUME HomeTypeOK, WireOK, Connect
    PROVE  WireOK'
  <1>1. /\ link \in Link /\ link.pc = "connecting" /\ ~link.cancelled
        /\ link' = [link EXCEPT !.pc = "open"]
        /\ events' = Append(events, Snapshot) /\ stream' = <<>>
        /\ UNCHANGED <<live, pending, device>>
        /\ events \in Seq(Event)
    BY DEF Connect, Sends, HomeTypeOK
  <1>2. /\ link'.pc = "open" /\ link'.generation = link.generation
        /\ link'.cancelled = link.cancelled
    BY <1>1 DEF Link
  <1>3. /\ Snapshot \in Event /\ Snapshot.generation = link.generation
        /\ Snapshot.kind = "snapshot" /\ Snapshot.states = device
        /\ link.generation \in Nat
    BY <1>1, EventTypes DEF Snapshot, Link
  <1> HIDE DEF Snapshot
  <1>4. GenerationsOK'
    <2>1. \A i \in DOMAIN events' : events'[i].generation <= link'.generation
      BY <1>1, <1>2, <1>3, AppendFacts DEF WireOK, GenerationsOK
    <2> QED BY <1>1, <1>2, <2>1 DEF WireOK, GenerationsOK
  <1>5. ReportsArrive'
    <2>1. SUFFICES ASSUME ~live.joining, NEW d \in Devices
                   PROVE  /\ EndsIn(<<>>, Heard(d), HeardOf(d, device[d]))
                          /\ EndsIn(events', News(d), NewsOf(d, device[d]))
                          /\ About(events', News(d)) # {}
      BY <1>1 DEF ReportsArrive, News, NewsOf, Heard, HeardOf
    <2>2. EndsIn(<<>>, Heard(d), HeardOf(d, device[d]))
      BY DEF EndsIn, About
    <2>3. Snapshot \in News(d) /\ Snapshot \in NewsOf(d, device[d])
      <3>1. link.generation = live.generation
        BY <2>1 DEF WireOK, GenerationsOK
      <3> QED BY <1>3, <3>1 DEF News, NewsOf, Tells, Value
    <2> DEFINE M == News(d)
               V == NewsOf(d, device[d])
    <2>4. Snapshot \in M /\ Snapshot \in V
      BY <2>3
    <2> HIDE DEF M, V
    <2>5. EndsIn(events', M, V) /\ About(events', M) # {}
      <3>1. events \in Seq(Event) /\ Snapshot \in Event
        BY <1>1, <1>3
      <3>2. EndsIn(Append(events, Snapshot), M, V)
        BY <2>4, <3>1, AppendEnds
      <3>3. About(Append(events, Snapshot), M) # {}
        BY <2>4, <3>1, AppendAbout
      <3> QED BY <1>1, <3>2, <3>3
    <2> QED BY <2>2, <2>5 DEF M, V
  <1>6. EndFollows' /\ ConnectedIsHonest'
    BY <1>1, <1>2 DEF WireOK, EndFollows, ConnectedIsHonest
  <1> QED BY <1>4, <1>5, <1>6 DEF WireOK

\* The connection is at another step, and the events are what they were.
LEMMA StepWire ==
    ASSUME HomeTypeOK, WireOK, NEW pc \in {"none", "offline", "resting", "connecting"},
           link' = [link EXCEPT !.pc = pc], UNCHANGED <<live, pending, events, device>>,
           \/ pc = "offline"
           \/ pc = "none" /\ link.cancelled
           \/ link.pc \in {"draining", "resting"} /\ pc # "none"
    PROVE  WireOK'
  <1>1. /\ link'.pc = pc /\ link'.generation = link.generation
        /\ link'.cancelled = link.cancelled
    BY DEF HomeTypeOK, Link
  <1>2. ~live.joining => ~link.cancelled
    BY DEF WireOK, GenerationsOK
  <1>3. GenerationsOK'
    BY <1>1, <1>2 DEF WireOK, GenerationsOK
  <1>4. EndFollows'
    <2>1. ASSUME ~live.joining, pc # "offline"
          PROVE  Follows(events, Ours("snapshot"), Ours("offline"))
      BY <1>2, <2>1 DEF WireOK, EndFollows
    <2>2. \A kind : Ours(kind)' = Ours(kind)
      BY DEF Ours
    <2> QED BY <1>1, <2>1, <2>2 DEF EndFollows
  <1>5. ReportsArrive'
    BY <1>1 DEF ReportsArrive
  <1>6. ConnectedIsHonest'
    BY <1>1, <1>2 DEF WireOK, ConnectedIsHonest, Waits
  <1> QED BY <1>3, <1>4, <1>5, <1>6 DEF WireOK

\* The head of the stream becomes the last event: the last word stays the last.
LEMMA ReadMessageWire ==
    ASSUME HomeTypeOK, WireOK, ReadMessage
    PROVE  WireOK'
  <1> DEFINE said == Head(stream)
             event == [said EXCEPT !.generation = link.generation]
  <1>1. /\ link.pc = "open" /\ stream # <<>> /\ stream' = Tail(stream)
        /\ events' = Append(events, event)
        /\ UNCHANGED <<live, pending, link, device>>
        /\ events \in Seq(Event) /\ stream \in Seq(Message) /\ link.generation \in Nat
    BY DEF ReadMessage, Sends, HomeTypeOK, Link
  <1>2. said \in Message
    BY <1>1, TailFacts
  <1>3. /\ event \in Event /\ event.generation = link.generation /\ event.kind = said.kind
        /\ event.kind # "snapshot"
        /\ said.kind = "state" => /\ said \in StateEvent /\ event.device = said.device
                                  /\ event.setting = said.setting
    <2>1. event \in Event
      BY <1>2, EventTypes
    <2>2. CASE said \in StateEvent
      BY <1>1, <2>1, <2>2 DEF StateEvent
    <2>3. CASE said \in ReplyEvent
      BY <1>1, <2>1, <2>3 DEF ReplyEvent
    <2> QED BY <1>2, <2>2, <2>3 DEF Message
  <1> HIDE DEF event
  <1>4. GenerationsOK'
    <2>1. \A i \in DOMAIN events' : events'[i].generation <= link'.generation
      BY <1>1, <1>3, AppendFacts DEF WireOK, GenerationsOK
    <2> QED BY <1>1, <2>1 DEF WireOK, GenerationsOK
  <1>5. ReportsArrive'
    <2>1. SUFFICES ASSUME ~live.joining, NEW d \in Devices
                   PROVE  /\ EndsIn(stream', Heard(d), HeardOf(d, device[d]))
                          /\ About(stream', Heard(d)) = {} =>
                               /\ EndsIn(events', News(d), NewsOf(d, device[d]))
                               /\ About(events', News(d)) = {} => live.states[d] = device[d]
      BY <1>1 DEF ReportsArrive, News, NewsOf, Heard, HeardOf
    <2> DEFINE H == Heard(d)
               HV == HeardOf(d, device[d])
               M == News(d)
               V == NewsOf(d, device[d])
    <2>2. /\ EndsIn(stream, H, HV)
          /\ About(stream, H) = {} =>
               /\ EndsIn(events, M, V)
               /\ About(events, M) = {} => live.states[d] = device[d]
      BY <1>1, <2>1 DEF WireOK, ReportsArrive
    <2>3. /\ said \in H <=> event \in M
          /\ said \in HV => event \in V
      <3>1. link.generation = live.generation
        BY <2>1 DEF WireOK, GenerationsOK
      <3>2. said \in H <=> said.kind = "state" /\ said.device = d
        BY <1>3 DEF Heard, StateEvent
      <3>3. event \in M <=> said.kind = "state" /\ said.device = d
        BY <1>3, <3>1 DEF News, Tells
      <3>4. said \in HV => said \in H /\ said.setting = device[d]
        BY DEF HeardOf
      <3>5. event \in M /\ said.setting = device[d] => event \in V
        BY <1>3, <3>3 DEF NewsOf, Value
      <3> QED BY <3>2, <3>3, <3>4, <3>5
    <2> HIDE DEF H, HV, M, V, said
    <2>4. /\ EndsIn(stream', H, HV)
          /\ About(stream', H) = {} /\ said \in H => said \in HV
          /\ said \notin H /\ About(stream', H) = {} => About(stream, H) = {}
      BY <1>1, <2>2, TailEnds DEF said
    <2>5. ASSUME About(stream', H) = {}
          PROVE  /\ EndsIn(events', M, V)
                 /\ About(events', M) = {} => live.states[d] = device[d]
      <3>1. CASE said \in H
        <4>1. event \in M /\ event \in V
          BY <2>3, <2>4, <2>5, <3>1
        <4> QED BY <1>1, <1>3, <4>1, AppendEnds
      <3>2. CASE said \notin H
        BY <1>1, <1>3, <2>2, <2>3, <2>4, <2>5, <3>2, AppendEnds
      <3> QED BY <3>1, <3>2
    <2> QED BY <2>4, <2>5 DEF H, HV, M, V
  <1>6. EndFollows' /\ ConnectedIsHonest'
    BY <1>1 DEF WireOK, EndFollows, ConnectedIsHonest
  <1> QED BY <1>4, <1>5, <1>6 DEF WireOK

\* The server reports of one device what it is set to now, or of none.
LEMMA HeardWire ==
    ASSUME HomeTypeOK, WireOK, UNCHANGED <<live, pending, link, events>>,
           link.pc = "open",
           \A d \in Devices :
              \/ /\ device'[d] = device[d]
                 /\ About(stream', Heard(d)) = About(stream, Heard(d))
                 /\ EndsIn(stream, Heard(d), HeardOf(d, device[d])) =>
                      EndsIn(stream', Heard(d), HeardOf(d, device[d]))
              \/ /\ About(stream', Heard(d)) # {}
                 /\ EndsIn(stream', Heard(d), HeardOf(d, device'[d]))
    PROVE  WireOK'
  <1>1. GenerationsOK' /\ EndFollows' /\ ConnectedIsHonest'
    BY DEF WireOK, GenerationsOK, EndFollows, ConnectedIsHonest, Waits
  <1>2. ReportsArrive'
    <2>1. SUFFICES ASSUME ~live.joining, NEW d \in Devices
                   PROVE  /\ EndsIn(stream', Heard(d), HeardOf(d, device'[d]))
                          /\ About(stream', Heard(d)) = {} =>
                               /\ EndsIn(events, News(d), NewsOf(d, device'[d]))
                               /\ About(events, News(d)) = {} => live.states[d] = device'[d]
      BY DEF ReportsArrive, News, NewsOf, Heard, HeardOf
    <2>2. /\ EndsIn(stream, Heard(d), HeardOf(d, device[d]))
          /\ About(stream, Heard(d)) = {} =>
               /\ EndsIn(events, News(d), NewsOf(d, device[d]))
               /\ About(events, News(d)) = {} => live.states[d] = device[d]
      BY <2>1 DEF WireOK, ReportsArrive
    <2> QED BY <2>2
  <1> QED BY <1>1, <1>2 DEF WireOK

LEMMA StateHeard ==
    ASSUME HomeTypeOK, NEW c \in Devices, NEW v \in Settings, NEW d \in Devices
    PROVE  /\ State(c, v) \in Message
           /\ State(c, v) \in Heard(d) <=> c = d
           /\ State(d, v) \in HeardOf(d, v)
           /\ \A n \in Nat, ok \in BOOLEAN : Reply(n, ok) \notin Heard(d)
  <1>1. State(c, v) \in StateEvent /\ State(c, v).device = c
    BY DEF HomeTypeOK, Link, State, StateEvent
  <1>2. State(d, v) \in StateEvent /\ State(d, v).device = d /\ State(d, v).setting = v
    BY DEF HomeTypeOK, Link, State, StateEvent
  <1>3. \A n \in Nat, ok \in BOOLEAN : Reply(n, ok) \notin StateEvent
    BY DEF Reply, StateEvent
  <1> QED BY <1>1, <1>2, <1>3 DEF Heard, HeardOf, Message

LEMMA ChangeWire ==
    ASSUME HomeTypeOK, WireOK, NEW c \in Devices, NEW v \in Settings, Change(c, v)
    PROVE  WireOK'
  <1>1. /\ device \in [Devices -> Settings] /\ device' = [device EXCEPT ![c] = v]
        /\ stream' = IF link.pc = "open" THEN Append(stream, State(c, v)) ELSE stream
        /\ UNCHANGED <<live, pending, link, events>>
        /\ stream \in Seq(Message)
    BY DEF Change, HomeTypeOK, Setting
  <1>2. CASE link.pc # "open"
    <2>1. GenerationsOK' /\ EndFollows' /\ ConnectedIsHonest'
      BY <1>1 DEF WireOK, GenerationsOK, EndFollows, ConnectedIsHonest, Ours, Waits
    <2>2. ReportsArrive'
      BY <1>1, <1>2 DEF ReportsArrive
    <2> QED BY <2>1, <2>2 DEF WireOK
  <1>3. CASE link.pc = "open"
    <2>1. ASSUME NEW d \in Devices
          PROVE  \/ /\ device'[d] = device[d]
                    /\ About(stream', Heard(d)) = About(stream, Heard(d))
                    /\ EndsIn(stream, Heard(d), HeardOf(d, device[d])) =>
                         EndsIn(stream', Heard(d), HeardOf(d, device[d]))
                 \/ /\ About(stream', Heard(d)) # {}
                    /\ EndsIn(stream', Heard(d), HeardOf(d, device'[d]))
      <3> DEFINE told == State(c, v)
      <3>1. /\ told \in Message /\ stream' = Append(stream, told)
            /\ told \in Heard(d) <=> c = d
        BY <1>1, <1>3, StateHeard
      <3>2. CASE c = d
        <4>1. told \in HeardOf(d, device'[d])
          BY <1>1, <3>2, StateHeard
        <4> HIDE DEF told
        <4> QED BY <1>1, <3>1, <3>2, <4>1, AppendEnds
      <3>3. CASE c # d
        <4>1. device'[d] = device[d]
          BY <1>1, <3>3
        <4> HIDE DEF told
        <4> QED BY <1>1, <3>1, <3>3, <4>1, AppendEnds
      <3> QED BY <3>2, <3>3
    <2> QED BY <1>1, <1>3, <2>1, HeardWire
  <1> QED BY <1>2, <1>3

\* The call is executed, and the change is reported before or after its success.
LEMMA SendCallWire ==
    ASSUME HomeTypeOK, WireOK, SendCall
    PROVE  WireOK'
  <1> DEFINE call == Head(calls)
             c == call.device
             v == call.desired
             told == State(c, v)
             done == Reply(call.serial, TRUE)
  <1>1. /\ call \in Call /\ c \in Devices /\ v \in Settings /\ call.serial \in Nat
        /\ link.pc = "open" /\ UNCHANGED <<live, pending, link, events>>
        /\ stream \in Seq(Message) /\ device \in [Devices -> Settings]
    <2>1. calls # <<>> /\ calls \in Seq(Call)
      BY DEF SendCall, HomeTypeOK
    <2>2. call \in Call
      BY <2>1, TailFacts
    <2> QED BY <2>2, EventTypes DEF SendCall, HomeTypeOK, Setting
  <1>2. \/ /\ device' = [device EXCEPT ![c] = v]
           /\ \/ stream' = stream \o <<told>> \o <<done>>
              \/ stream' = stream \o <<done>> \o <<told>>
        \/ /\ device' = device
           /\ \E ok \in BOOLEAN : stream' = Append(stream, Reply(call.serial, ok))
    BY DEF SendCall
  <1>3. /\ told \in Message /\ done \in Message
        /\ \A ok \in BOOLEAN : Reply(call.serial, ok) \in Message
    BY <1>1, EventTypes
  <1>4. ASSUME NEW d \in Devices
        PROVE  /\ told \in Heard(d) <=> c = d
               /\ done \notin Heard(d)
               /\ \A ok \in BOOLEAN : Reply(call.serial, ok) \notin Heard(d)
               /\ c = d => told \in HeardOf(d, v)
    <2>1. \A n \in Nat, ok \in BOOLEAN : Reply(n, ok) \notin Heard(d)
      BY <1>1, StateHeard
    <2>2. told \in Heard(d) <=> c = d
      BY <1>1, StateHeard
    <2>3. c = d => told \in HeardOf(d, v)
      BY <1>1, StateHeard
    <2> QED BY <1>1, <2>1, <2>2, <2>3
  <1> HIDE DEF call, c, v, told, done
  <1>5. ASSUME NEW d \in Devices
        PROVE  \/ /\ device'[d] = device[d]
                  /\ About(stream', Heard(d)) = About(stream, Heard(d))
                  /\ EndsIn(stream, Heard(d), HeardOf(d, device[d])) =>
                       EndsIn(stream', Heard(d), HeardOf(d, device[d]))
               \/ /\ About(stream', Heard(d)) # {}
                  /\ EndsIn(stream', Heard(d), HeardOf(d, device'[d]))
    <2>1. CASE /\ device' = device
               /\ \E ok \in BOOLEAN : stream' = Append(stream, Reply(call.serial, ok))
      BY <1>1, <1>3, <1>4, <2>1, AppendEnds
    <2>2. CASE /\ device' = [device EXCEPT ![c] = v]
               /\ stream' = stream \o <<told>> \o <<done>>
      <3>1. /\ stream' = Append(Append(stream, told), done)
            /\ Append(stream, told) \in Seq(Message)
        <4>1. stream \in Seq(Message) /\ told \in Message /\ done \in Message
          BY <1>1, <1>3
        <4>2. /\ stream \o <<told>> \o <<done>> = Append(Append(stream, told), done)
              /\ Append(stream, told) \in Seq(Message)
          BY <4>1, TwoMore
        <4> QED BY <2>2, <4>2
      <3>2. CASE c = d
        <4>1. device'[d] = v
          BY <1>1, <2>2, <3>2
        <4>2. /\ About(Append(stream, told), Heard(d)) # {}
              /\ EndsIn(Append(stream, told), Heard(d), HeardOf(d, v))
          BY <1>1, <1>3, <1>4, <3>2, AppendEnds
        <4> QED BY <1>3, <1>4, <3>1, <4>1, <4>2, AppendEnds
      <3>3. CASE c # d
        <4>1. device'[d] = device[d]
          BY <1>1, <2>2, <3>3
        <4>2. /\ About(Append(stream, told), Heard(d)) = About(stream, Heard(d))
              /\ EndsIn(stream, Heard(d), HeardOf(d, device[d])) =>
                   EndsIn(Append(stream, told), Heard(d), HeardOf(d, device[d]))
          BY <1>1, <1>3, <1>4, <3>3, AppendEnds
        <4> QED BY <1>3, <1>4, <3>1, <4>1, <4>2, AppendEnds
      <3> QED BY <3>2, <3>3
    <2>3. CASE /\ device' = [device EXCEPT ![c] = v]
               /\ stream' = stream \o <<done>> \o <<told>>
      <3>1. /\ stream' = Append(Append(stream, done), told)
            /\ Append(stream, done) \in Seq(Message)
        <4>1. stream \in Seq(Message) /\ done \in Message /\ told \in Message
          BY <1>1, <1>3
        <4>2. /\ stream \o <<done>> \o <<told>> = Append(Append(stream, done), told)
              /\ Append(stream, done) \in Seq(Message)
          BY <4>1, TwoMore
        <4> QED BY <2>3, <4>2
      <3>2. CASE c = d
        <4>1. device'[d] = v
          BY <1>1, <2>3, <3>2
        <4> QED BY <1>3, <1>4, <3>1, <3>2, <4>1, AppendEnds
      <3>3. CASE c # d
        <4>1. device'[d] = device[d]
          BY <1>1, <2>3, <3>3
        <4>2. /\ About(Append(stream, done), Heard(d)) = About(stream, Heard(d))
              /\ EndsIn(stream, Heard(d), HeardOf(d, device[d])) =>
                   EndsIn(Append(stream, done), Heard(d), HeardOf(d, device[d]))
          BY <1>1, <1>3, <1>4, AppendEnds
        <4> QED BY <1>3, <1>4, <3>1, <3>3, <4>1, <4>2, AppendEnds
      <3> QED BY <3>2, <3>3
    <2> QED BY <1>2, <2>1, <2>2, <2>3
  <1> QED BY <1>1, <1>5, HeardWire

\* The end of a connection, or the failure of a call behind it, is reported.
LEMMA EndReportedWire ==
    ASSUME HomeTypeOK, WireOK, NEW event \in Event, events' = Append(events, event),
           event.generation = link.generation,
           event.kind \in {"offline", "reply"},
           UNCHANGED <<live, pending, device>>,
           link'.pc = "draining", link'.generation = link.generation,
           link'.cancelled = link.cancelled,
           event.kind = "offline" \/ link.pc = "draining"
    PROVE  WireOK'
  <1>1. events \in Seq(Event) /\ link.generation \in Nat
    BY DEF HomeTypeOK, Link
  <1>2. GenerationsOK'
    <2>1. \A i \in DOMAIN events' : events'[i].generation <= link'.generation
      BY <1>1, AppendFacts DEF WireOK, GenerationsOK
    <2> QED BY <2>1 DEF WireOK, GenerationsOK
  <1>3. \A kind : Ours(kind)' = Ours(kind)
    BY DEF Ours
  <1>4. /\ event \notin Ours("snapshot")
        /\ ~live.joining /\ event.kind = "offline" => event \in Ours("offline")
    BY DEF Ours, WireOK, GenerationsOK
  <1>5. EndFollows'
    <2>1. ASSUME ~live.joining
          PROVE  Follows(events', Ours("snapshot"), Ours("offline"))
      <3>1. CASE event.kind = "offline"
        BY <1>1, <1>4, <2>1, <3>1, AppendFollows
      <3>2. CASE link.pc = "draining"
        <4>1. Follows(events, Ours("snapshot"), Ours("offline"))
          BY <2>1, <3>2 DEF WireOK, EndFollows
        <4> QED BY <1>1, <1>4, <4>1, AppendFollows
      <3> QED BY <3>1, <3>2
    <2> QED BY <1>3, <2>1 DEF EndFollows
  <1>6. ReportsArrive'
    BY DEF ReportsArrive
  <1>7. ConnectedIsHonest'
    <2>1. ASSUME live.connected, ~live.joining
          PROVE  About(events', Ours("offline")) # {}
      <3>1. CASE event.kind = "offline"
        BY <1>1, <1>4, <2>1, <3>1, AppendAbout
      <3>2. CASE link.pc = "draining"
        <4>1. About(events, Ours("offline")) # {}
          BY <2>1, <3>2, WaitsAre DEF WireOK, ConnectedIsHonest
        <4> QED BY <1>1, <4>1, AppendAbout
      <3> QED BY <3>1, <3>2
    <2>2. About(events', Ours("offline")) # {} => Waits("offline")'
      BY DEF About, Ours, Waits
    <2> QED BY <2>1, <2>2 DEF WireOK, ConnectedIsHonest
  <1> QED BY <1>2, <1>5, <1>6, <1>7 DEF WireOK

LEMMA EndsWire ==
    ASSUME HomeTypeOK, WireOK, SendOffline \/ Drain
    PROVE  WireOK'
  <1>1. link \in Link
    BY DEF HomeTypeOK
  <1>2. CASE SendOffline
    <2>1. /\ link'.pc = "draining" /\ link'.generation = link.generation
          /\ link'.cancelled = link.cancelled
      BY <1>1, <1>2 DEF SendOffline, Link
    <2>2. Offline \in Event /\ Offline.generation = link.generation /\ Offline.kind = "offline"
      BY EventTypes DEF Offline
    <2> QED BY <1>2, <2>1, <2>2, EndReportedWire DEF SendOffline, Sends
  <1>3. CASE Drain
    <2> DEFINE event == Reply(Head(calls).serial, FALSE)
    <2>1. event \in Event /\ event.generation = link.generation /\ event.kind = "reply"
      <3>1. Head(calls) \in Call
        BY <1>3, TailFacts DEF Drain, HomeTypeOK
      <3>2. event \in Event
        BY <3>1, EventTypes
      <3> QED BY <3>2 DEF Reply
    <2>2. /\ events' = Append(events, event) /\ link.pc = "draining" /\ link' = link
          /\ UNCHANGED <<live, pending, device>>
      BY <1>3 DEF Drain, Sends
    <2> HIDE DEF event
    <2> QED BY <2>1, <2>2, EndReportedWire
  <1> QED BY <1>2, <1>3

LEMMA WireKept ==
    ASSUME HomeTypeOK, WireOK, [HomeNext]_homeVars
    PROVE  WireOK'
  <1>1. ASSUME NEW d \in Devices, NEW v \in Settings, Control(d, v)
        PROVE  WireOK'
    BY <1>1, QuietWire DEF Control, Ready
  <1>2. ASSUME NEW late, Tick(late)
        PROVE  WireOK'
    <2>1. Pending(pending') \subseteq Pending(pending)
      BY <1>2, SettledPending DEF Tick
    <2> QED BY <1>2, <2>1, QuietWire DEF Tick
  <1>3. CASE Break \/ Reconnect \/ Rest \/ Cancelled
    BY <1>3, StepWire DEF Break, Reconnect, Rest, Cancelled
  <1>4. CASE UNCHANGED homeVars
    BY <1>4, QuietWire DEF homeVars
  <1> QED BY <1>1, <1>2, <1>3, <1>4, HandledWire, RestartWire, LeaveHomeWire, JoinedWire,
             ConnectWire, ReadMessageWire, SendCallWire, EndsWire, ChangeWire
          DEF HomeNext, LinkStep

LEMMA HomeInitOK ==
    ASSUME HomeInit
    PROVE  HomeInv
  <1>1. Pending(pending) = {}
    BY NoChangeType DEF HomeInit, Pending
  <1>2. Serials
    BY <1>1, HomeAssistantAssumption DEF HomeInit, Serials
  <1>3. GenerationsOK /\ ReportsArrive /\ ConnectedIsHonest
    BY <1>1 DEF HomeInit, GenerationsOK, ReportsArrive, ConnectedIsHonest
  <1>4. EndFollows
    BY DEF HomeInit, EndFollows, Follows, About
  <1> QED BY <1>2, <1>3, <1>4, HomeInitTypes DEF HomeInv, WireOK

LEMMA HomeNextOK ==
    ASSUME HomeInv, [HomeNext]_homeVars
    PROVE  HomeInv' /\ Confirms
  BY HomeTypesKept, SerialsKept, WireKept DEF HomeInv

\* All reports are read: the panel shows what the devices are set to.
LEMMA ReadShown ==
    ASSUME HomeTypeOK, ReportsArrive
    PROVE  ShowsDevices
  <1>1. SUFFICES ASSUME ~live.joining, link.pc = "open", stream = <<>>,
                        ~Waits("snapshot"), ~Waits("state")
                 PROVE  live.states = device
    BY DEF ShowsDevices
  <1>2. ASSUME NEW d \in Devices
        PROVE  live.states[d] = device[d]
    <2>1. About(stream, Heard(d)) = {}
      BY <1>1 DEF About
    <2>2. About(events, News(d)) = {}
      BY <1>1 DEF About, News, Tells, Waits
    <2> QED BY <1>1, <2>1, <2>2 DEF ReportsArrive
  <1>3. live.states \in [Devices -> Settings] /\ device \in [Devices -> Settings]
    BY DEF HomeTypeOK, LiveState, Setting
  <1> QED BY <1>2, <1>3

\* The inductive invariant of Home Assistant holds always: generations, the order of
\* a connection's snapshot and its end, and where the last word on a device is.
THEOREM HomeAlways == HomeSpec => []HomeInv
  <1>1. HomeInv /\ [HomeNext]_homeVars => HomeInv'
    BY HomeNextOK
  <1> QED BY <1>1, HomeInitOK, PTL DEF HomeSpec

\* The panel offers control only while there is a connection, or its end is on the
\* way, and once the events of a connection are read it shows what the devices are
\* set to: for any number of devices, restarts and broken connections, and channels
\* of any size.
THEOREM PanelAlways == HomeSpec => []PanelIsTrue
  <1>1. HomeInv => PanelIsTrue
    BY ReadShown DEF HomeInv, WireOK, PanelIsTrue
  <1> QED BY <1>1, HomeAlways, PTL

\* A request succeeds only when the panel shows the device as it was asked for, and
\* no answer is ever taken back.
THEOREM AnswersAlways == HomeSpec => AnswersAreConfirmed
  <1>1. HomeInv /\ [HomeNext]_homeVars =>
          [\A n \in 1..MaxCalls :
             /\ answered[n] # "none" => answered'[n] = answered[n]
             /\ answered[n] = "none" /\ answered'[n] = "ok" =>
                  \E d \in Devices : /\ pending[d].serial = n
                                     /\ live'.states[d] = pending[d].desired]_homeVars
    BY HomeNextOK DEF Confirms
  <1> QED BY <1>1, HomeAlways, PTL DEF HomeSpec, AnswersAreConfirmed
===============================================================================
