# Seele Shell: specifications, model checking and proofs

Seele Shell is a desktop environment built from small native services and QML
scenes. The services keep the state that matters when things go wrong: a job
table, a finding inbox, a transfer history, sessions, notes, a published theme.
This directory holds TLA+ specifications of those services, the TLC instances
that check them and the theorems about them that TLAPS proves. Every definition
is read from the source under `src/projects`; `PROJECT.json` names the lines of
each under `map`.

    tlc -workers 2 -config MCJobs.cfg MCJobs.tla              # one instance
    tlapm BrokerProofs.tla                                     # the proofs

## 1. Inventory

The crates are listed in `src/docs/native-workspace.md`. For each part: the
state it keeps, what happens to it, what is hard about it and what makes it
correct. The parts in bold are modelled.

| Part | State | Operations | Hard behaviour | Correct when |
|---|---|---|---|---|
| **broker: lifecycle and scheduler** (`broker/src/lifecycle.rs`, `transport.rs`) | job table, revision watermarks, promotion, cancellation tokens, in memory | submit, wait, status, cancel, retry, release, next, list; worker tasks; shutdown | attempts run outside the mutex; clients cancel, retry, supersede and release meanwhile; backoffs and notifications | one attempt per job, results current, newest revision only, budgets bounded, every job and wait ends |
| broker: routing, health, validation | provider health, answers | choose a provider, try the next, validate | fallbacks under one deadline | the best healthy provider is used; invalid answers never pass |
| **runtime: inference client** (`runtime/src/inference.rs`, `wire.rs`) | one call | submit, wait, cancel, status, release | lost exchanges, late requests, deadlines, restart of the broker | leaves nothing behind but failures |
| **runtime: processes** (`runtime/src/process.rs`) | one child process and its group | spawn, feed, read, deadline, kill, reap | children that ignore signals, leave the group or hold pipes; output limits; reuse of a pid | nothing of the group outlives the call, nobody else is signalled, an answer is whole |
| **maintenance: inbox and service** (`maintenance/src/model.rs`, `service.rs`, `main.rs`) | findings and their revisions, busy marks, running actions, the state file | publish, snapshot of a source, resolve, done, snooze, action, analyze, stop | probes, repairs and model calls outside the mutex; failing saves; restart; coalesced checks | nothing shown that is not saved, one action per finding, one alert per revision, actions end |
| maintenance: publishers, restart markers | none of their own | probe | I/O | modelled only as what a probe may report |
| maintenance: backups, restore | repositories | commands run once | file systems | outside the plan |
| **integrations: transfers** (`integrations/src/transfers`) | groups, runners, the history file | send, cancel, retry, dismiss; receive, acknowledge; progress events; polling | three systems (Downloads, history, daemon) updated one after the other; lost acknowledgements, crashes, failing saves | a received file is deleted at the daemon only when it is kept here, and is copied once |
| **integrations: Home Assistant** (`integrations/src/home_assistant`: `live.rs`, `connection.rs`) | connection generation, shown states, pending changes, two bounded channels | connect, select, toggle, set, refresh, leave | replaced connections, late replies, timeouts, breaks | a change is done only when reported; no command is replayed; each request is answered |
| **integrations: calendar** (`integrations/src/calendar`: `mod.rs`, `cache.rs`, `google.rs`) | account, selected calendars, cached windows of days, one synchronisation, one sign-in, the wallet | sign in, disconnect, select, look at a day, refresh, tick | accounts, selections and windows that change while a synchronisation runs; a sign-in against a wallet still being cleared | what is marked as fetched is in the cache; a session keeps its token; a selected calendar is fetched in the end |
| integrations: weather, GitHub, Hermes, Linear | caches | poll, parse | HTTP failures | caches match what was fetched |
| **prompt** (`prompt/src/main.rs`) | one panel: busy, session, answer, previews; the pool's queue | open, preview, submit, cancel, act, close, leave | worker pool against a panel that moves on; sessions that must be deleted | answers belong to their question, sessions never leak |
| **tools: caffeinate** (`tools/src/caffeinate.rs`) | one inhibition session | start, stop, sweep | tracked tasks probed outside the lock, replacement | ends with its own task or deadline, and always ends |
| **tools: notes** (`tools/src/notes.rs`, `notes/NotesStore.qml`) | the open document, the vault, recovery drafts, trash and its index | save, open, list, resolve a conflict, trash, restore | answers that arrive late, another editor of the same files, failing writes and reads | no text that somebody saved is lost |
| **tools: ports** (`tools/src/ports`) | reviews, selections, escalations | select, review, stop, force | owners that end and are replaced; pids, sockets and names used again | only what was reviewed is stopped |
| tools: the other helpers | little | read or set one thing | I/O | outside the plan |
| **qml-core: notification policy** (`qml-core/src/notifications.rs`) | notifications, silence and its holds, reminders | arrive, dismiss, snooze, focus, meeting, reload | three owners of one silence, across reloads | silence is what the user chose last; reminders are not lost |
| qml-core: other panel policy; markdown-core | none (pure functions) | decide what to show | none | outside the plan |
| **config-tools: theme switcher** (`config-tools/src/themes.rs`, `appearance.rs`) | preferences, selection, generations, the link to one | choose, follow the schedule, publish | failure or death in the middle of a publication; decisions read before the lock | the old or the new theme, never a mix; the schedule prevails in the end |
| config-tools: theme folders, portable configuration | files | materialise, write | parsing and rendering | outside the plan |
| desktop-tools | a recording, screenshots | start, stop | child processes | outside the plan for now |
| failure-analysis, shell-ai, repo-tools | none between runs | run once | external commands | outside the plan |
| QML scenes, packages, themes | presentation | | | not modelled |

How the parts interact: panels and programs talk to the services by one JSON
request per connection on a private Unix socket. Maintenance, prompt, shell-ai,
notes and the other consumers of models go through the inference client to the
broker, which runs the provider's command line by `process.rs`, as nearly every
other part runs its commands. The Activity panel lists, cancels, retries and
releases jobs of every consumer. Transfers talks to the local Tailscale daemon
by HTTP, and caffeinate asks transfers whether a tracked group still runs. The
notes window and the notification store are QML over a worker and a pure
function. Ports, prompt, Home Assistant and the theme switcher serve one panel
each.

The hazards of this code, each at its line and with the properties that cover
it, are in `PROJECT.json` under `hazards`.

## 2. Modules

| Module | What it is |
|---|---|
| `Broker` | `lifecycle.rs` in full, and the shutdown sequence of `transport.rs` |
| `JobLifecycle` | what the broker promises its clients: the abstract specification |
| `BrokerLifecycle` | the refinement mapping from `Broker` to `JobLifecycle` |
| `BrokerRpc` | exchanges with a broker that keeps the promise of `JobLifecycle`: requests and answers that are lost or handled late, the user in Activity, a restart |
| `InferenceCall` | `inference.rs` over `BrokerRpc` |
| `MaintenanceAnalysis` | the analysis of a finding (`service.rs`, `analyze`) over `BrokerRpc` |
| `Clients` | programs and analyses together, on one broker |
| `Inbox` | the maintenance inbox, its state file, its checks and its explicit actions |
| `Transfers` | groups, runners, poller and history of the transfer service, with the daemon |
| `Processes` | one command run by `process.rs`, with the processes it starts |
| `Caffeinate` | the inhibition session, its requests, its sweep |
| `Prompt` | the prompt's main thread, pool and panel |
| `HomeAssistant` | the panel's side and the connection's task, with the server |
| `Themes` | commands, scheduler and publications of the theme switcher |
| `Notes` | the notes window, its worker and the vault, with another editor |
| `Notifications` | the notification policy and how the store drives it |
| `Calendar` | the calendar worker's loop, cache and tasks, with Google and the wallet |
| `Ports` | reviews and stops of the port inspector, with the machine's processes |
| `BrokerProofs`, `ClientProofs`, `InboxProofs`, `TransfersProofs`, `PanelProofs`, `DesktopProofs`, `HostProofs`, `CalendarProofs` | the theorems, see section 5 |
| `MC...` | the instances for TLC: requests, contents and names as small sets, and the symmetry |

The clients of the broker are composed with its promise and not with `Broker`
itself: `ImplementsLifecycle` shows that the one may stand for the other, and
the instances stay small.

    Broker  --implements-->  JobLifecycle  <--EXTENDS--  BrokerRpc  <--  InferenceCall        <--  Clients
                                                                    <--  MaintenanceAnalysis  <--
                                                           (the same service as Inbox)

`MCServices` and `MCSafety` each hold several parts that share nothing. Their
variable `subject` is chosen in the initial state, and only the part it names
moves: the state graph is the disjoint union of the parts' graphs, not their
product. `MCServices` has the parts that must make progress (fairness, no
symmetry), `MCSafety` those about which only safety is checked.

### Broker

One mutex protects the table, so each critical section is one action. A worker
task is `loop` (before its critical section), `parked` (waits for a notification
or its timer), `selecting` (a job is running and its routing is being chosen),
`inferring`, or `abandoned` (its token is cancelled). `StartAttempt`, `Park`
and `StopWorker` are the three ways through the first critical section of
`work`, `Select` is the second and `Complete` the third, whose outcome is any
of those `runner.rs` can return. `Submit`, `Cancel`, `Retry`, `Promote`,
`Release`, `List`, `StartWait` and `CheckWait` are the requests of `call`.
`LeaveLoop`, `Close`, `AbortClient` and `Clear` are `serve` after its loop.
A cancellation token is an `Arc` that retry replaces; it is modelled as the
pair of the job and its number of retries. Timers only say that a backoff may
be over (`BackoffElapses`).

### BrokerRpc, InferenceCall, MaintenanceAnalysis and Clients

A peer sends a request on a connection of its own and waits. The request is in
`sent` until the broker comes to it, whether anyone still waits or not; the
answer is read, or lost with the connection. `After` is the whole decision of
`inference::call`: what to ask next, given the answer or its absence. The
maintenance service does not use `inference::call` but makes the exchanges
itself; its `Continue` is made of one operator per exchange. Both are checked
against a user who cancels, retries and dismisses jobs in Activity. `Clients`
composes them: a step is of the broker, the wire, the user, a program or an
analysis, and the jobs of an item are whoever's asked for them. The theorems are
about this composition.

### Inbox

`mem` is the inbox under the mutex, `disk` the state file, `task` the explicit
actions, `check` the check of each source. A publication is staged, saved, then
shown (`Stage`, `Commit`, `CommitFails`). A save that fails may or may not have
replaced the file, because the atomic writer (`runtime/src/fs.rs`) syncs the
directory after the replacement. An explicit action looks (`Look`), works
(`Work`), reports (`Outcome`) and ends (`EndTask`), and may meet a check of its
source that another thread runs (`CoalescedReturns`). `told` and `alerted` are
history: what was ever shown, and every notification sent.

### Transfers

`mem` and `disk` as above; `run` is the runner of each group, present exactly
when the code's `controls` has the group; `where` is where each incoming file
is at the daemon, `copies` how often it was put into Downloads. A runner's
program counter names its await points: `transfer` (streaming), `delivered`
(sent, answer not read), `published` (copied, not recorded), `forget` /
`forgotten` (the daemon is to delete, has deleted), `acknowledge` /
`acknowledged` (the same for a copy made by an earlier run), `sleep`, `end`.
`Failed` is the error branch of the attempt loop and `Record` a save inside an
attempt. The poller lists names (`List`), handles them one by one under the
mutex (`HandleKnown`, `HandleNew`) and gives up groups that are overdue
(`Reap`). `Event` is progress from the daemon's bus, which may be old.

### Processes

`execution` is the call of `execute_watched`, `family` the command and what it
starts. The loop is `Check` (deadline, cancellation, end, detachment), `Feed`
and `Read`, the cleanup is `Kill`, `Wait` and `Drop`, and `Fails` is any of the
system calls and observers that may fail. `Commands` is what the processes do
meanwhile, among it leaving the group (`LeaveGroup`), closing a pipe
(`ClosePipe`), dying of the signal (`Dies`) and, once the command is reaped, the
use of its id by a stranger (`Recycle`).

### Caffeinate, Prompt and HomeAssistant

In `Caffeinate` a start waits for logind outside the lock (`Ask`, `Install`),
and a sweep asks outside the lock whether the tracked transfer still runs
(`SweepAsks`, `Answer`) and applies the answer later (`Apply`). `seen` is
history: what the probes of each session showed.

In `Prompt` the main thread handles one message of the panel at a time (`Open`,
`Close`, `AskPreview`, `Submit`, `Act`, `Leave`), and each worker takes a job
(`Take`) and goes through it (`Work`); `Thread` is Codex creating a session
during a turn. A session whose panel is gone becomes a deletion (`TooLate`).

In `HomeAssistant`, `live` is the single owner in `live.rs` and `link` the task
of `connection.rs`; they meet in `calls` and `events`, whose bounds block or
drop as the channels do (`Sends`, `TrySends`). `Restart` cancels the task and
joins it (`joining`, `Joined`) before the next generation starts. The server,
the devices and the network are external.

### Themes

Two processes publish: the picker (`hand`) and the scheduler (`follow`). A
publication is `Create`, `Fill`, `Switch` (the link), `Record` (the selection)
and `Finish` (old generations are removed), each of which may fail into
`Abandon`, `Undo` or `UndoFails`, and the process may die between any two. The
preferences are written in the same critical section before (`Save`,
`SaveFails`). `Wake` is the scheduler reading the clock, `TickSchedule` its step
under the lock. Hours are numbers; the schedule's boundaries are constants.

### Notes

`editor` is `NotesStore.qml` with the requests it sent, `replies` what the
worker answered; requests are taken in order, one at a time, so a reply may meet
a store that moved on (`Received`). A save compares (`BeginSave`) and replaces
(`Replace`), and the other editor writes in between or at any other time
(`OtherWrites`). A note is read again for the answer: when that fails, the work is
done and the answer says that it failed (`Answer`). A resolution with the user's
text takes a note that it cannot read for an empty one (`TakenFor`), and a listing
leaves such notes out (`List`). `kept` is history: the texts that notes had.

### Notifications

Each action is one branch of `transition`: arrival, replacement, closing,
advance of the countdowns, snooze, silence of an application, the user's
silence (`Choose`), the focus timer (`SetFocus`), a meeting (`ArmMeeting`), a
reload (`Reload`, then `Return` of each notification). `wanted` is history: the
silence the user chose last.

### Ports

`proc` is the machine: processes that start, end, listen, share and close
sockets, and whose ids are used again. A review (`Plan`) is a token with the
whole decision; a stop (`StartStop`) checks the token against the machine
(`CheckProcess`, `PinProcess`, `Validate`) and acts (`SendSignal`,
`StopUserService`, `StopSystemService`). `issued` and `hits` are history: what
was disclosed and what was reached.

### Calendar

`cal` is the worker of `mod.rs` with its saved state; every handler of the loop
ends with `pump` (`Pumped`), which starts the next synchronisation (`NextJob`).
Its answer (`SyncSucceeds`, `SyncFails`) and that of the sign-in (`StoreToken`,
`SigninSucceeds`, `Withdraw`, ...) wait in `mail` until the loop comes to them
(`HandleMail`), which ignores those of an earlier session. `Merged` is `merge`
of `cache.rs`; windows are named by the day in their middle, and `held` is the
set of calendar days whose events are cached. `ClearWallet` is the task that a
disconnect leaves behind. The access token in memory may outlast the wallet's.

## 3. What is checked

| Run | Instance | What it shows |
|---|---|---|
| `jobs` | *broker*: 2 jobs, 2 workers, 2 revisions of one item and an interactive request of none, 1 transient failure, 1 schema attempt, 1 retry; *transfers*: 1 file, 2 receipts, 2 crashes, 2 removals, 1 retry, failing saves | no two attempts of one job, attempts in their budget, results are current, and the broker implements `JobLifecycle`, in which obsolete revisions never come back; copies are accounted for, and no file is lost while names differ |
| `broker_live` | 2 jobs, 1 worker, 1 waiting client, 1 retry | jobs settle, waits return, the shutdown completes |
| `safety` | *programs*: 2 programs, 2 revisions of one item, 1 restart; *finding*: 1 finding, 2 revisions, 2 analyses; *notes*: 2 names, 3 texts, 2 edits, 2 requests, 1 write of the other editor or failure; *notifications*: 1 notification, 2 moments; *clients*: 1 program and 1 analysis about one item, no losses; *ports*: 2 pids, 3 births, 1 socket, 1 review, 2 stops; *calendar*: 2 accounts with a calendar each, 2 sign-ins, a mishap, 2 days to look at | what clients leave in the job table and what they were told; an analysis fits its finding; saved texts and the other editor's texts survive; silence and reminders; only what was reviewed is stopped; a calendar marked as fetched is in the cache and a session keeps its token |
| `inbox` | 2 findings, a limit of 1, 2 contents, 2 revisions, 2 actions, failing saves, restarts | one action per finding and a thread for each busy mark, saved before shown, a revision names one content, one alert per revision, actions end |
| `transfers_live` | 1 send of 2 files, 1 incoming file, 2 receipts, 1 permit, 1 retry, removal or restart | what was sent is not sent again, runners end, a file is received or reported |
| `services` | *caffeinate*: 2 requests, 1 process, 1 transfer, tolerance 2; *prompt*: 2 workers, a queue of 1, 2 openings, 2 prompts, 1 preview; *home*: 1 device, 2 calls, 2 connections, 2 places for events; *themes*: 2 themes, 2 commands, 2 faults, 1 build; *processes*: a command and one it starts, 4 modes; *calendar*: 1 sign-in, a mishap | sessions end for their own reason and do end; answers and contexts belong to their question and no private session leaks; the panel is true, answers are confirmed, requests end; a published theme is whole and the schedule prevails; a call leaves nothing behind and returns; a calendar that is switched on is fetched |
| `maintenance_retry` | the parts of `safety` | finding 1 |
| `transfers_reuse` | 2 files of one name | finding 2 |
| `home_assistant_replay` | as *home* | finding 3 |
| `notes_overwrite` | as *notes* | finding 4 |
| `notes_resolve` | as *notes* | finding 5 |
| `theme_choice` | 2 themes, 3 hours with boundaries, no faults | finding 6 |

**Why the bounds are enough.**

* *Broker.* The races are between two attempts of one job, or between an
  attempt and a client: two jobs and two workers have them all. The retry limits
  are lowered from two transient failures and eight schema attempts to one each,
  so that a job is retried once and either budget can end it; longer
  alternations of the two are left to `AttemptsBounded`, which is proved for
  every value of the limits. Revisions are only compared, so two suffice to
  make one obsolete. `broker_live` has a retried job or a job of no item, not
  both.
* *Programs and finding.* The broker is restarted only under the programs, and
  only the first analysis of the finding loses answers, and none while the user
  revives a job: the analysis does not know of epochs, and a second loss is a
  new instance of the first. Together (*clients*) they make few calls and lose
  nothing; the theorems about `Clients` have no such bounds.
* *Inbox.* Findings interact only by the snapshot of their source and by the
  limit on findings: there are two, of which one fits, so that the one must be
  resolved and pruned before the other is accepted, and a snapshot may leave out
  the one there is. Two findings that are present together would need an
  instance that TLC does not finish in minutes; they share nothing but the file,
  which is written as a whole.
* *Transfers.* One file is enough for what one file can suffer; a second receipt
  is for the group that late progress or a stale listing makes (a third adds few
  states and no kind of step), and two
  attempts stand for three since the loop distinguishes only the last. In
  `transfers_live` one group is taken up again or removed, or the daemon is
  restarted before it sends anything: the three meet in `jobs`.
  `TransfersProofs` has no such bounds.
* *Caffeinate.* Two starts are what it takes to replace a session while a probe
  or a request is under way; a tolerance of two is the least that counts.
* *Prompt.* Two workers and a queue of one make both a full queue and a turn
  that overlaps the next opening.
* *Home Assistant.* Two connections and a restart, so that one is replaced; a
  queue of one call, so that it can be full. The event channel has two places,
  so that it may be full when the task has something to report. Of a restart,
  two changes asked for and one made by hand, three happen.
* *Themes.* A dark and a light theme, a boundary at hour 2 and an hour 3 without
  one in the window (a polar day). Of two commands, two faults and a build, three
  happen, and no build after two faults. Four names for generations are more than
  are ever there at once. `theme_choice` has a boundary every hour.
* *Processes.* One descendant is enough to hold a pipe, leave the group or
  survive; one byte to feed and a limit of one byte make an incomplete feed and
  an exceeded limit. The four modes are the ones that callers use.
* *Notes.* Two names and two non-empty texts; two requests of the user, so that
  an answer can meet the next document. *Notifications.* Notifications share
  only silence, and one is enough for what one can suffer; its proof has no
  bound. *Ports.* Two processes share a socket, a third may take the pid or the
  name of one; one review with a graceful and a forced stop.
* *Calendar.* Windows of three days and a cache of one: a window that is on
  screen is kept over the limit, others are evicted. Two accounts are what it
  takes to change between them. A mishap (`MaxMishaps`) is a failed
  synchronisation, expired or offline, or a restart. `safety` has two sign-ins,
  and looks at no day but today once there were two and a mishap; `services`
  has one. `CalendarProofs` has no bounds.

Bounds that the code does not have (`MaxRetries`, `MaxCalls`, `MaxRestarts`,
`MaxStarts`, ...) are named as bounds where they are declared and stand in
guards. Deadlock is checked in `jobs` (a `Broker` or `Transfers` behaviour) and
in `inbox`; the other services are idle when nobody asks for anything, or their
bounds are used up, and the runs over them say so.

**Symmetry** is used over ids, workers, files, threads and pids, in runs without
liveness.

**Mutants.** Each property of a passing run has a mutant: an operator of the
module that changes one definition as a plausible bug would ("Mutant of ...").
Used in its place it makes TLC report the property as violated.

**Type invariants** are part of the inductive invariants of section 5 and are
not repeated as invariants of the runs.

## 4. Fairness

* `Broker`: workers, timers, woken connections and the steps of the shutdown
  are scheduled by the Tokio runtime, and the external commands of an attempt
  have deadlines, so attempts end. Clients and the stop signal owe nothing.
  `JobsSettle` relies on finitely many submissions: the code does not keep a
  stream of interactive jobs from starving a background job.
* `Inbox`: threads, probes and commands likewise. A thread that waits for a
  check looks every 100 ms, while 30 s and more lie between two checks of one
  source, so it is strongly fair that it finds a moment without one.
* `Transfers`: the reactor schedules the poller and the runners, requests to
  the daemon time out, pauses end. Files and users owe nothing. Liveness is
  checked with a history that can be saved; otherwise the poller retries for
  ever and the service's error says so.
* `Caffeinate`: the lifecycle thread loops every half second and its probes have
  deadlines. Users, logind, tasks and the clock owe nothing.
* `Prompt`: every child of a worker has a deadline, so workers go on. The panel
  and Codex owe nothing.
* `HomeAssistant`: the select loop takes what is ready, deadlines pass, the task
  goes on. The network need not connect; the server and the user owe nothing.
* `Themes`: processes run and builds end. Nobody has to give a command.
* `Processes`: the calling thread runs, the deadline passes, a process dies of
  SIGKILL. The command need not end, write, read or close anything, and nobody
  has to cancel. The loop polls with a timeout of its own, so a deadline is
  looked at whatever the pipes do.

* `Calendar`: requests, the browser and the wallet have deadlines, so tasks end;
  the loop takes what is ready, and the clock goes on. Synchronisations fail
  finitely often (`MaxMishaps`): one that fails for ever, for example over the
  limit on events, leaves the calendar loading, and the error says so.

In `MCServices` a behaviour is of one part and has that part's fairness.

## 5. What is proved

Each theorem holds for all values of the constants that meet the module's named
assumption, so without the bounds of section 3.

| Theorem | States |
|---|---|
| `BrokerProofs!TypeCorrect` | `Spec => []TypeOK` |
| `ResultCurrent` | `Spec => []ResultIsCurrent` |
| `AttemptsBounded` | `Spec => []AttemptsAreBounded` |
| `Finality` | `Spec => FinishedIsFinal` |
| `NewestRevision` | `Spec => []OnlyNewestRevision` |
| `Ownership` | `Spec => []AttemptsAreOwned` |
| `SinglePromotion` | `Spec => []OnePromotion` |
| `ClassOrder` | `Spec => InteractiveFirst` |
| `Refinement` | `Spec => ImplementsLifecycle` |
| `ClientProofs!ClientsAlways` | `ClientsSpec => []ClientsInv` |
| `AccountedAlways` | `ClientsSpec => []RetainedIsAccounted` |
| `VerdictAlways` | `ClientsSpec => []VerdictStands` |
| `FailuresAlways` | `ClientsSpec => FailuresStay` |
| `FitsAlways` | `ClientsSpec => []AnalysisFitsRow` |
| `InboxProofs!InboxAlways` | `Spec => []InboxInv` |
| `OneTaskAlways`, `SavedAlways`, `RevisionsAlways`, `AlertsAlways` | `Spec => []` of `OneTaskPerRow`, `SavedBeforeShown`, `RevisionNamesContent`, `AlertOnce` |
| `TransfersProofs!JournallingAlways` | `TransfersSpec => []IInv` |
| `RunnersActive` | `TransfersSpec => []RunnersAreActive` |
| `JournalledAlways` | `TransfersSpec => JournalledFirst` |
| `SentAlways` | `TransfersSpec => SentOnce` |
| `OwnNamesLoseNothing` | `TransfersSpec => []NothingLost`, if no two files share a name |
| `LedgerAlways` | `TransfersSpec => []CInv` |
| `CopiesAlways` | `TransfersSpec => []CopiesAccounted` |
| `PanelProofs!PromptAlways` | `PromptSpec => []PromptInv` |
| `SessionsAlways`, `ShownAlways` | `PromptSpec => []` of `SessionsAccounted`, `ShownIsAsked` |
| `CaffeinateAlways` | `CaffeinateSpec => []CaffeinateInv` |
| `EndsAlways` | `CaffeinateSpec => EndsForItsReason` |
| `HomeAlways` | `HomeSpec => []HomeInv` |
| `PanelAlways`, `AnswersAlways` | `HomeSpec => []PanelIsTrue`, `HomeSpec => AnswersAreConfirmed` |
| `DesktopProofs!KeptAlways` | `NotificationsSpec => []Kept` |
| `SilenceIsTheUsers` | `NotificationsSpec => []SilenceIsKept` |
| `RemindersAreKept` | `NotificationsSpec => RemindersReturn` |
| `PortsAlways` | `PortsSpec => []PortsInv` |
| `ReviewedAlways` | `PortsSpec => []StopsOnlyReviewed` |
| `NotesAlways` | `NotesSpec => []NotesInv` |
| `SavedAlways`, `TextsAlways` | `NotesSpec => []SavedIsKept`, `NotesSpec => OtherTextsSurvive` |
| `HostProofs!CleanAlways` | `ProcessesSpec => []Clean` |
| `EndsCleanAlways` | `ProcessesSpec => []CallsEndClean` |
| `PublishedAlways` | `ThemesSpec => []Published` |
| `WholeAlways` | `ThemesSpec => []PublishedIsWhole` |
| `CalendarProofs!TruthfulAlways` | `CalendarSpec => []Truthful` |
| `CalendarTruth` | `CalendarSpec => []CalendarIsTrue` |

Every safety property of the passing runs, invariant or action property, and the
refinement have a theorem.

**Broker.** Requests have keys, revisions and classes, limits are natural
numbers, job ids are finitely many. The type invariant is proved action by
action from lemmas about the operators on jobs (`FinishType`, `SettleType`,
...). For the others the next-state relation is first cut down to what it does
to the job table: `StepMove` and `StepChange` say that a step changes a job only
as a worker, a client, a submission or the shutdown may. `ResultIsCurrent`,
`FinishedIsFinal` and `OnlyNewestRevision` are then preserved by each kind of
change. `AttemptsAreBounded` is not inductive: a job that has used its attempts
might be given one more if its two failure counters were low. `WithinBudget`
relates `attempts` to the counters, which is what each attempt pays for. Nor is
`AttemptsAreOwned`: it has to be known that a job nobody holds is in one of the
states `Unheld`, and that the token of a held attempt is current or cancelled.
`OwnInv` says so; `QuietKeepsOwnership` handles the many steps that neither
start nor end an attempt.

The refinement maps initial states to initial states and each step to a step of
`JobLifecycle` or a stutter. `OwnInv` is needed for it, and `LifeInv`: no job is
live once `close()` ran, the workers have stopped when `clear()` runs, and an id
that was not drawn has no request. The workers are finitely many, as the code
clamps the concurrency to 1..8.

**Clients.** `RpcInv` says of the exchanges that what a peer was told stays true
whatever others do to the job (`Over`, `Ended`, `NotFailed` and `Left` are stable
under every move of a job), that a submission still under way is the first of its
call, and that whoever made a job sees to it, or lost an answer, or nothing of
the job is left but a failure. `CallInv` and `AnalysisInv` add where a call and an
analysis stand; a step of one client keeps what is known of another.
`SilenceAssumption` says that the value for "no exchange" is not an exchange.

**Inbox.** `InboxInv` says that a row is there in full or not at all, that the
file is never behind what is shown (`DiskLeads`), that what was told and alerted
are forms the row has or had, and that the thread a check runs for still waits
for it (`ChecksAreOwned`), which is what keeps two actions off one finding.

**Transfers.** `IInv` joins the type invariant with `Journalling`: a runner's
group is active, and a runner that is about to have a file deleted has its copy
in the history file, in the state the runner remembers. That the daemon deletes
only what is recorded follows at the two steps that delete. `NothingLost` needs
more: that the name in a record belongs to the file that was copied. This is the
assumption `OwnNames`, that no two files share a name, and `transfers_reuse`
shows that it cannot be dropped. `SentOnce` needs that a runner pauses only
after its file failed (`Sleeping`).

`CopiesAccounted` holds with shared names too. Its invariant is a ledger
(`Ledger`): a file that waits at the daemon was copied no more often than there
were crashes and removals, unless the group that holds its name knows of the
copy (`Known`): it owes the acknowledgement, or its runner has just published
the copy. That group is the only one of the name, in memory and in the file
(`Tidy`), so no other runner copies the file, and its own runner attempts
nothing that is owed (`Posted`). What arrives under the name after the daemon
deleted the file (`Left`) was not copied yet.

**Processes.** `CallsEndClean` speaks about a call that returned; what makes it
true happens before. `Clean` says at every point of the call who has the command
(`Custody`: nobody, the call, or it was reaped), how the loop ended
(`Progress`), that the group is only the command's (`OwnGroup`), that nothing is
signalled before the cleanup and nobody but the group in it (`Unsignalled`),
that what was read is all that was written once the pipes have ended
(`Whole`), that a detached launcher was fed (`Fed`) and that the output is
within its limit (`Limited`).

**Prompt.** `PromptInv` says that jobs are of panels that were opened, that no
two turns answer one request (`TurnsDiffer`), and that a turn of the open panel
is what the panel waits for and goes on with its session (`JobOK`).

**Caffeinate.** There is the newest session or none, a probe is of a session
that there was (`NewestOnly`), and a session counts no more silences than its
probes met, the answer on its way included (`MissesSeen`).

**Home Assistant.** The tasks and events are of this connection or an earlier
one (`GenerationsOK`), the end of a connection is reported behind its snapshot
(`EndFollows`), and changes that wait have distinct numbers that were not
answered (`Serials`). `ReportsArrive` follows each report on its way: the last
word on a device is what it is set to, on the wire, or among the events if the
wire says nothing of it, or else on the panel. The lemmas about the last of
some elements of a sequence serve all the queues.

**Themes.** `Published` says at most one process publishes (`OneBusy`), that a
failed undo was a torn publication, that the linked generation is whole, that
the link and the selection agree outside the steps between the two (`Settled`),
and of each process under way what its step may rely on (`UnderWay`): the new
generation is not the linked one before the switch, the old one is kept until
the selection is saved.

**Notifications.** `SilenceIsKept` compares what is in force with what the user
chose; during a hold the choice is kept aside, possibly across a reload, and
`Sound` says for each case where it is. `Hidden` says that nothing is shown in
quiet. `RemindersReturn` is an action property that follows from the same
invariant.

**Ports.** Births only grow, so no process of the reviewed pid is older than the
review says (`NoneOlder`), and one that is pinned between two equal checks is the
reviewed one (`StopInv`); force is offered for what was asked to stop
(`EscalationInv`).

**Notes.** An acknowledgement on its way names a text that was written
(`Reply`), what the editor calls saved was in a note (`SavedWas`), and a note that
is about to be replaced says what was compared with it, unless the other editor
came in between, or a resolution could not read it (`WritingInv`).

**Calendar.** `Truthful` says of the job under way that it fits the cache (it
was asked for with every cached window, or is not full), of a waiting answer
that it fits the job, and of the wallet that no sign-in overlaps its clearing.
`PumpKeeps` and `HandlerKeeps` are what every handler has in common.

Only model-checked: the liveness properties (`JobsSettle`, `WaitReturns`,
`ShutdownCompletes`, `TasksEnd`, `ReceivedOrReported`, `RunnersEnd`, `SessionsEnd`,
`BusyEnds`, `RequestsEnd`, `ThemeSettles`, `CallsReturn`, `SelectionCompletes`):
fairness and `ENABLED` are out of the prover's reach. `OnlyNewestRevision` and
`JournalledFirst` are proved and not also run: `ImplementsLifecycle` and
`NothingLost` fail with them. `FinishedIsFinal`, `OnePromotion`,
`InteractiveFirst` and `RunnersAreActive` are proved only.

## 6. Findings

1. **An analysis that failed cannot be retried** (`maintenance_retry`). The
   service advises "Analysis unavailable; retry explicitly"
   (`maintenance/src/service.rs:534`), but submits the finding's id and revision
   (`:643`), and the broker refuses a revision it accepted before
   (`broker/src/lifecycle.rs:347`).
2. **A file can be deleted unreceived** (`transfers_reuse`). If the daemon
   deleted a file but the service did not come to know or could not record it,
   the group keeps the name. The next file of that name looks to the poller
   like the old one, and the group's first act is to have it deleted
   (`transfers/service.rs:609`), against the comment at `:526`. While names
   differ nothing is lost, by `OwnNamesLoseNothing`.
3. **A change can be sent after it was reported lost** (`home_assistant_replay`).
   The task drains the queued calls once when its connection dies
   (`home_assistant/connection.rs:323`). Until the panel's side reads the event
   it still accepts changes: such a change is answered as lost and sent on the
   next connection, against the comment at `:322`.
4. **A late acknowledgement makes a new capture overwrite a note**
   (`notes_overwrite`). `applySaved` (`notes/NotesStore.qml:283`) takes the path
   and the baseline of the answer whatever document is open. After a save was
   sent and a new capture begun, the capture has the old note's path, and what
   is typed next is written over it. `src/README.md:131` promises that an older
   response cannot replace newer edits.
5. **A note that cannot be read is overwritten** (`notes_resolve`).
   `resolve_conflict` keeps the user's text ("mine") after it copied the other
   version aside, but reads that with `read_text(&path).unwrap_or_default()`
   (`tools/src/notes.rs:1094`): a note that holds no UTF-8 any more, has grown over
   2 MiB or cannot be read is taken for an empty one, no copy is made, and
   `write_atomic` (`:1102`) replaces it. The comment at `:1077` says that each way
   out of a conflict keeps both versions. `OtherTextsSurvive` excepts this case by
   name (`writing.unread`) and holds otherwise.
6. **A mode chosen by hand is undone** (`theme_choice`). The schedule compares
   the last boundary with the one it last acted on, not with the time of the
   choice (`config-tools/src/themes.rs:1061`): a choice made after a boundary
   and before the step that acts on it is undone by that step. Without a
   boundary in the window, every step undoes it. `appearance.rs:7` and
   `config-tools/README.md:210` promise that it holds until the next boundary.

The models also have behaviour that no property is about, or that a property
excepts by name; most of it is listed with the hazards:

* a newer revision supersedes the failed jobs of older ones too
  (`broker/src/lifecycle.rs:354`), so that Activity can no longer retry them;
* the cleanup of an analysis decides by the status it read before the cancel
  (`maintenance/src/service.rs:507`): a job that fails in between is released;
* a retry marks its group active before a save that may fail
  (`transfers/service.rs:393`): a send is then active without a runner, and
  cancel, retry and dismiss refuse it until the service restarts;
* a listing made before a file was forgotten, and progress that arrives late,
  each make a group that fails;
* a received file whose last save fails is marked failed and cannot be retried;
* an event channel that is full blocks the connection's task where it cannot be
  cancelled, while the worker that waits for the task does not read the channel
  (`home_assistant/connection.rs:312`): with one place instead of 128 the
  leaving worker hangs;
* a save of the selection that reports a failure after the file was replaced
  leaves the old link with the new selection until the next forced publication
  (`config-tools/src/themes.rs:859`);
* a service of another user's session, once identified, is stopped with
  `systemctl --user`, which means one of our own of that name
  (`tools/src/ports/model.rs:180`): `StopsOnlyReviewed` excepts it.

## 7. What is not modelled, and the plan

Left out of the modelled parts: texts, sizes and sockets everywhere; outcomes
and error texts of actions, validation and size limits of findings, the backup
report (`Inbox`); move and trash, the selection, the seen marks and the history
limits (`Transfers`); routing and validation of an attempt (`Broker`, where an
attempt has any outcome); the hand-over of the terminal, inherited descriptors
and observers (`Processes`); preferences, catalog, rooms and heartbeats
(`HomeAssistant`); recordings, attachments, search, migration (`Notes`); order,
grouping, tags and history (`Notifications`); catalog, contents of a generation
and reloads (`Themes`); parsing of `/proc`, snapshots and the limits of tables
(`Ports`); reminders, the scratchpad, what is shown and saves that fail
(`Calendar`). Each module's head says what it leaves out. I/O, parsing and
rendering make up most of the other crates and are not modelled.

What is left of the plan, in this order:

1. `Transfers`: move and trash. A trash while an acknowledgement is under way is
   undone by the runner (`transfers/service.rs:545`).
2. `Calendar`: reminders, which are delivered once, and the scratchpad.
3. `BrokerRouting`: providers and health under the attempt of `Broker`.
4. The life of a screen recording (desktop-tools) and of the microphone test.

Proofs: the hypothesis of `OwnNamesLoseNothing` can be weakened to names that
are not used again while a group holds them; and what of the liveness properties
is safety, for example that a caller of `Broker` that waits is registered for the
notification it waits for.
