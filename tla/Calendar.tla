------------------------------- MODULE Calendar -------------------------------
(***************************************************************************)
(* The Google Calendar worker: projects/integrations/src/calendar/mod.rs,  *)
(* with fetch of google.rs and merge of cache.rs.                          *)
(*                                                                         *)
(* One loop handles the panel's commands, the results of its tasks and the *)
(* ticks of the clock.  At most one synchronisation and one sign-in run    *)
(* beside it; a disconnect clears the wallet in a task of its own.  The    *)
(* cache holds the events of a few windows of days.                        *)
(*                                                                         *)
(* Abstractions.  A window is named by the day it is centred on, and an    *)
(* event by its calendar and day: `held` are the calendar days whose       *)
(* events are in the cache.  Which window was used least recently is left  *)
(* open, as is how old a window or an attempt is, and when the cache is    *)
(* full; saves succeed.  The client secret goes with the refresh token.    *)
(* Serials count the sign-ins, and for synchronisations the sign-outs,     *)
(* between which no two overlap.  An aborted task has stored its token by  *)
(* then or never does.  The panel offers Disconnect while signed in, and a *)
(* sign-in while signed out or when the session has expired.               *)
(***************************************************************************)
EXTENDS Integers, FiniteSets

CONSTANTS
    Calendars,   \* external: the calendars of all accounts
    Accounts,    \* external: Google accounts
    OwnerOf,     \* external: the account that lists each calendar
    PrimaryOf,   \* external: the primary calendar of each account
    NoAccount,
    Reach,       \* days of a window before and after its centre (45 and 46)
    WindowLimit, \* windows in the cache (MAX_WINDOWS)
    Today,       \* the day on which the worker starts
    LastDay,     \* bound: the clock stops here
    Browsed,     \* bound: days the panel looks at, besides today
    MaxSignins, MaxMishaps   \* bounds: sign-ins; failed refreshes and restarts

ASSUME CalendarAssumption ==
    /\ PrimaryOf \in [Accounts -> Calendars]
    /\ OwnerOf \in [Calendars -> Accounts]
    /\ \A a \in Accounts : OwnerOf[PrimaryOf[a]] = a
    /\ NoAccount \notin Accounts
    /\ Reach \in Nat /\ WindowLimit \in Nat
    /\ Today \in Int /\ LastDay \in Int /\ Browsed \subseteq Int

VARIABLES
    cal,       \* the worker: its saved state, what it wants, its job and sign-in
    signin,    \* the sign-in task: it waits for the browser, or has stored the token
    clearing,  \* the task that clears the wallet has not finished
    token,     \* external: the account of the refresh token in the wallet
    mail,      \* results that wait for the loop
    withdrawn, \* history: a sign-in took its token back when it failed
    mishaps    \* failed refreshes and restarts so far

calendarVars == <<cal, signin, clearing, token, mail, withdrawn, mishaps>>

NoSync == [active |-> FALSE, account |-> NoAccount, calendars |-> {}, windows |-> {},
           full |-> FALSE]

NoSignin == "none"

Unused == [configured |-> FALSE, signedIn |-> FALSE, account |-> NoAccount,
          listed |-> {}, selected |-> {}, fetched |-> {}, windows |-> {}, held |-> {},
          wanted |-> {}, force |-> FALSE, expired |-> FALSE, failing |-> FALSE,
          job |-> NoSync, signing |-> FALSE, signins |-> 0, signouts |-> 0,
          today |-> Today, agenda |-> Today]

Covers(w, day) == w - Reach <= day /\ day <= w + Reach

Span(w) == (w - Reach)..(w + Reach)

Days(windows) == UNION {Span(w) : w \in windows}

-----------------------------------------------------------------------------
(* The cache. *)

\* A window more than half of which lies in the new one is superseded by it.
Superseded(w, by) == 2 * Cardinality(Span(w) \cap Span(by)) > 2 * Reach + 1

\* upsert_window() of each new window, in the order of days.  No window of the
\* cache supersedes another one there.
Upserted(windows, new) ==
    {v \in windows \cup new :
        ~\E w \in new : Superseded(v, w) /\ (v \in new => v < w)}

OnScreen(c, windows) == {w \in windows : Covers(w, c.today) \/ Covers(w, c.agenda)}

\* evict() and prune(), as often as the limits ask for it: what is on screen stays.
Evicted(c, windows) ==
    {kept \in SUBSET windows :
        /\ OnScreen(c, windows) \subseteq kept
        /\ Cardinality(kept) <= WindowLimit \/ kept = OnScreen(c, windows)}

Pruned(c) ==
    [c EXCEPT !.held = {h \in @ : h[1] \in c.selected /\ h[2] \in Days(c.windows)}]

\* persist(): a cache that is full drops windows.
Persisted(c) ==
    {c} \cup {Pruned([c EXCEPT !.windows = kept]) :
                 kept \in {k \in SUBSET c.windows : OnScreen(c, c.windows) \subseteq k}}

\* Mutant of Completed: every job says which calendars are complete.
CompletedByAny(job, result, fetched) == result.targets

\* Only a job over every cached window completes a selection.
Completed(job, result, fetched) ==
    IF job.full \/ result.adopted THEN result.targets ELSE fetched

\* merge(), up to the eviction of windows.  Nothing chosen or cached for another
\* account applies.
Merged(c, job, result) ==
    LET other  == c.account \notin {NoAccount, result.owner}
        chosen == (IF other THEN {} ELSE c.selected)
        now    == (IF result.adopted /\ chosen = {} THEN {PrimaryOf[result.owner]} ELSE chosen)
                      \cap result.listed
    IN [c EXCEPT
          !.account = result.owner,
          !.listed = result.listed,
          !.selected = now,
          !.fetched = Completed(job, result, IF other THEN {} ELSE @) \cap now,
          !.held = (IF other THEN {} ELSE @) \cup (result.targets \X Days(job.windows)),
          !.windows = IF other THEN {} ELSE @]

-----------------------------------------------------------------------------
(* The loop.  Every handler ends with pump(). *)

Covered(c, day) == \E w \in c.windows : Covers(w, day)

\* Mutant of Incomplete: only a first sign-in needs a job over every window.
IncompleteAtFirst(c) == c.account = NoAccount

Incomplete(c) == c.selected \ c.fetched # {} \/ c.account = NoAccount

IsFree(c) == ~c.job.active /\ ~c.signing

\* late: the backoff after a failure is over.
IsDue(c, late) == c.force \/ ~(c.expired \/ (c.failing /\ ~late))

\* A job over every cached window and today's, when a calendar is incomplete.
NextJob(c) ==
    [active |-> TRUE, account |-> c.account, calendars |-> c.selected,
     windows |-> c.wanted \cup (IF Incomplete(c) THEN c.windows \cup {c.today} ELSE {}),
     full |-> Incomplete(c)]

WantsNothing(c) == [c EXCEPT !.wanted = {}, !.force = FALSE]

\* pump(): starts the next job, unless something runs or forbids it.
Pumped(c, late) ==
    IF ~IsFree(c) THEN c
    ELSE IF ~(c.configured /\ c.signedIn) THEN WantsNothing(c)
    ELSE IF ~IsDue(c, late) THEN c
    ELSE IF NextJob(c).windows = {} THEN WantsNothing(c)
    ELSE [WantsNothing(c) EXCEPT !.job = NextJob(c)]

Pumps(cs) == cal' \in {Pumped(c, late) : c \in cs, late \in BOOLEAN}

Tasks == <<signin, clearing, token, mail, withdrawn, mishaps>>

Setup ==
    /\ ~cal.signedIn /\ ~cal.signing
    /\ \E given \in BOOLEAN : Pumps({[cal EXCEPT !.configured = given]})
    /\ UNCHANGED Tasks

\* Mutant of MayStore: a sign-in may start while the wallet is being cleared.
MayStoreAnytime == TRUE

\* A token stored now could be erased by the disconnect still clearing the wallet.
MayStore == ~clearing

StartSignin ==
    /\ ~cal.signedIn \/ cal.expired
    /\ cal.configured /\ ~cal.signing /\ cal.signins < MaxSignins
    /\ MayStore
    /\ cal' = [cal EXCEPT !.signing = TRUE, !.signins = @ + 1]
    /\ signin' = "browser"
    /\ UNCHANGED <<clearing, token, mail, withdrawn, mishaps>>

CancelSignin ==
    /\ cal.signing
    /\ Pumps({[cal EXCEPT !.signing = FALSE]})
    /\ signin' = NoSignin
    /\ UNCHANGED <<clearing, token, mail, withdrawn, mishaps>>

\* Mutant of SwitchedOff: what is complete stays complete.
SwitchedOffKept(c, id) ==
    [c EXCEPT !.selected = @ \ {id}, !.held = {h \in @ : h[1] # id}]

SwitchedOff(c, id) ==
    [c EXCEPT !.selected = @ \ {id}, !.fetched = @ \ {id}, !.held = {h \in @ : h[1] # id}]

SelectCalendar(id) ==
    /\ id \in cal.listed
    /\ Pumps(Persisted(IF id \in cal.selected THEN SwitchedOff(cal, id)
                       ELSE [cal EXCEPT !.selected = @ \cup {id}, !.force = TRUE]))
    /\ UNCHANGED Tasks

\* visit(): a window is wanted when it is not cached, or when the copy has aged.
Visited(c, day, again) ==
    IF ~Covered(c, day) THEN {[c EXCEPT !.wanted = @ \cup {day}]}
    ELSE {[c EXCEPT !.wanted = @ \cup {w}] : w \in {w \in c.windows : Covers(w, day)}}
            \cup (IF again THEN {} ELSE {c})

LookAt(day) ==
    /\ \E c \in {cal, [cal EXCEPT !.agenda = day]} : Pumps(Visited(c, day, FALSE))
    /\ UNCHANGED Tasks

Refresh ==
    /\ Pumps(UNION {Visited(c, cal.agenda, TRUE) :
                      c \in Visited([cal EXCEPT !.force = TRUE, !.expired = FALSE],
                                    cal.today, TRUE)})
    /\ UNCHANGED Tasks

Disconnect ==
    /\ cal.signedIn
    /\ cal' = [Unused EXCEPT !.configured = cal.configured, !.today = cal.today,
                            !.agenda = cal.agenda, !.signins = cal.signins,
                            !.signouts = cal.signouts + 1]
    /\ signin' = NoSignin
    /\ clearing' = TRUE
    /\ UNCHANGED <<token, mail, withdrawn, mishaps>>

-----------------------------------------------------------------------------
(* The tasks. *)

Report(message) == mail' = mail \cup {message}

\* The browser comes back with a grant, and the token goes to the wallet.
StoreToken ==
    /\ signin = "browser"
    /\ \E a \in Accounts : token' = a
    /\ signin' = "stored"
    /\ UNCHANGED <<cal, clearing, mail, withdrawn, mishaps>>

EndSignin(ok) ==
    /\ Report([kind |-> "auth", serial |-> cal.signins, ok |-> ok])
    /\ signin' = NoSignin

SigninSucceeds ==
    /\ signin = "stored"
    /\ EndSignin(TRUE)
    /\ UNCHANGED <<cal, clearing, token, withdrawn, mishaps>>

SigninFails ==
    /\ signin = "browser"
    /\ EndSignin(FALSE)
    /\ UNCHANGED <<cal, clearing, token, withdrawn, mishaps>>

\* The client secret cannot be stored: the token is taken back, if the wallet allows.
Withdraw ==
    /\ signin = "stored"
    /\ EndSignin(FALSE)
    /\ \/ token' = NoAccount /\ withdrawn' = TRUE
       \/ UNCHANGED <<token, withdrawn>>
    /\ UNCHANGED <<cal, clearing, mishaps>>

\* The wallet is cleared, or stays locked.
ClearWallet ==
    /\ clearing
    /\ clearing' = FALSE
    /\ token' \in {token, NoAccount}
    /\ UNCHANGED <<cal, signin, mail, withdrawn, mishaps>>

Fetching == cal.job.active /\ ~\E m \in mail : m.kind = "sync" /\ m.serial = cal.signouts

\* fetch(): the account is that of the access token in memory or of the wallet.
\* Another account, or a first sign-in, starts from its primary calendar.
Fetched(owner, listed) ==
    LET adopted == IF cal.job.account = NoAccount THEN cal.job.calendars = {}
                   ELSE cal.job.account # owner
    IN [owner |-> owner, listed |-> listed, adopted |-> adopted,
        targets |-> IF adopted THEN {PrimaryOf[owner]} ELSE cal.job.calendars \cap listed]

SyncSucceeds ==
    /\ Fetching
    /\ \E owner \in {cal.account, token} \ {NoAccount} :
         \E listed \in SUBSET {id \in Calendars : OwnerOf[id] = owner} :
            /\ PrimaryOf[owner] \in listed
            /\ Report([kind |-> "sync", serial |-> cal.signouts, result |-> "ok",
                     fetched |-> Fetched(owner, listed)])
    /\ UNCHANGED <<cal, signin, clearing, token, withdrawn, mishaps>>

SyncFails(result) ==
    /\ Fetching /\ mishaps < MaxMishaps
    /\ Report([kind |-> "sync", serial |-> cal.signouts, result |-> result])
    /\ mishaps' = mishaps + 1
    /\ UNCHANGED <<cal, signin, clearing, token, withdrawn>>

-----------------------------------------------------------------------------
(* Their results. *)

Mine(message) ==
    IF message.kind = "sync" THEN cal.job.active /\ message.serial = cal.signouts
                             ELSE cal.signing /\ message.serial = cal.signins

HandleSync(m) ==
    LET c == [cal EXCEPT !.job = NoSync] IN
    IF m.result = "ok"
    THEN LET merged   == Merged(c, cal.job, m.fetched)
             windows  == Upserted(merged.windows, cal.job.windows)
             now      == [merged EXCEPT !.expired = FALSE, !.failing = FALSE]
         IN Pumps({Pruned([now EXCEPT !.windows = kept]) : kept \in Evicted(c, windows)})
    ELSE Pumps({[c EXCEPT !.failing = TRUE, !.expired = @ \/ m.result = "expired",
                          !.wanted = IF m.result = "expired" THEN {}
                                     ELSE @ \cup cal.job.windows]})

HandleSignin(m) ==
    LET c == [cal EXCEPT !.signing = FALSE] IN
    Pumps(IF m.ok
          THEN Persisted([c EXCEPT !.signedIn = TRUE, !.expired = FALSE, !.failing = FALSE,
                                   !.force = TRUE, !.wanted = @ \cup {c.today}])
          ELSE {c})

HandleMail(m) ==
    /\ m \in mail
    /\ mail' = mail \ {m}
    /\ CASE ~Mine(m) -> UNCHANGED cal
         [] Mine(m) /\ m.kind = "sync" -> HandleSync(m)
         [] Mine(m) /\ m.kind = "auth" -> HandleSignin(m)
    /\ withdrawn' = IF Mine(m) /\ m.kind = "auth" /\ m.ok THEN FALSE ELSE withdrawn
    /\ UNCHANGED <<signin, clearing, token, mishaps>>

-----------------------------------------------------------------------------
(* Time. *)

\* tick(): woke after a suspend, or due for the next refresh.
AtTick(c, woke, due) ==
    LET awake == [c EXCEPT !.failing = @ /\ ~woke] IN
    IF c.signedIn /\ ~c.expired /\ (woke \/ due)
    THEN [awake EXCEPT !.wanted = @ \cup {c.today}
                                    \cup (IF Covered(c, c.agenda) THEN {} ELSE {c.agenda})]
    ELSE awake

\* The reminders of a tick may have to be saved.
Rung(c) == {AtTick(d, woke, due) : d \in Persisted(c), woke \in BOOLEAN, due \in BOOLEAN}

CalendarTick ==
    /\ \E day \in {cal.today} \cup {d \in {cal.today + 1} : d <= LastDay} :
          Pumps(Rung([cal EXCEPT !.today = day]))
    /\ UNCHANGED Tasks

\* The clock goes on: a backoff ends, a refresh is due.
CalendarTurn ==
    /\ cal' = Pumped(AtTick(cal, FALSE, TRUE), TRUE)
    /\ UNCHANGED Tasks

\* The worker ends, with its tasks, and is started again: the saved state is left,
\* and the first tick follows.
Respawn ==
    /\ mishaps < MaxMishaps
    /\ mishaps' = mishaps + 1
    /\ LET c == [cal EXCEPT !.wanted = {}, !.force = FALSE, !.expired = FALSE,
                            !.failing = FALSE, !.job = NoSync, !.signing = FALSE,
                            !.agenda = cal.today]
       IN Pumps({AtTick(c, FALSE, TRUE)})
    /\ mail' = {}
    /\ signin' = NoSignin
    /\ clearing' = FALSE
    /\ UNCHANGED <<token, withdrawn>>

-----------------------------------------------------------------------------

CalendarInit ==
    /\ cal = Unused
    /\ signin = NoSignin
    /\ clearing = FALSE
    /\ token = NoAccount
    /\ mail = {}
    /\ withdrawn = FALSE
    /\ mishaps = 0

SigninStep == StoreToken \/ SigninSucceeds \/ SigninFails \/ Withdraw

Sync == SyncSucceeds \/ \E result \in {"expired", "offline"} : SyncFails(result)

HandleAny == \E m \in mail : HandleMail(m)

CalendarNext ==
    \/ Setup \/ StartSignin \/ CancelSignin \/ Refresh \/ Disconnect
    \/ \E id \in Calendars : SelectCalendar(id)
    \/ \E day \in {cal.today} \cup Browsed : LookAt(day)
    \/ SigninStep \/ ClearWallet \/ Sync \/ HandleAny
    \/ CalendarTick \/ CalendarTurn \/ Respawn

CalendarSpec == CalendarInit /\ [][CalendarNext]_calendarVars

\* Tasks end (requests, the browser and the wallet have deadlines), the loop
\* takes what is ready, and the clock goes on.  The user owes nothing.
CalendarFairness ==
    /\ WF_calendarVars(SigninStep)
    /\ WF_calendarVars(ClearWallet)
    /\ WF_calendarVars(Sync)
    /\ WF_calendarVars(HandleAny)
    /\ WF_calendarVars(CalendarTurn)

-----------------------------------------------------------------------------
(* Properties. *)

\* "Selected calendars whose events are present for every cached window"
\* (cache.rs): a calendar that is not shown as loading has its events in the
\* cache, on every day that the cache covers, however selections, accounts,
\* windows and jobs overlap.
FetchedIsPresent == cal.fetched \X Days(cal.windows) \subseteq cal.held

\* A session that is signed in has its token in the wallet: neither a disconnect
\* that is still clearing it nor a sign-in that was cancelled takes it, but only a
\* further sign-in that failed and took its own back.
TokenIsKept == cal.signedIn => token # NoAccount \/ withdrawn

CalendarIsTrue == FetchedIsPresent /\ TokenIsKept

\* A calendar that was switched on is fetched, unless it is switched off again,
\* the account is left, or the sign-in expires.
SelectionCompletes ==
    \A id \in Calendars :
        []<>(id \in cal.selected => id \in cal.fetched \/ ~cal.signedIn \/ cal.expired)
===============================================================================
