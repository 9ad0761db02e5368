----------------------------- MODULE Notifications -----------------------------
(***************************************************************************)
(* The notification policy of the shell: transition of                     *)
(* projects/qml-core/src/notifications.rs, and how NotificationStore.qml   *)
(* and notifications.js drive it.                                          *)
(*                                                                         *)
(* Silence has three owners: the user, the focus timer and a meeting.  An  *)
(* automatic hold keeps the user's silence aside and puts it back.  Toasts *)
(* come and go under it, reminders wait for its end, and a reload of the   *)
(* shell saves and restores everything in between.                         *)
(*                                                                         *)
(* Abstractions.  A countdown may run out at any tick that counts it,      *)
(* which covers the pause while the pointer is on the toasts; the          *)
(* deadlines of silence, meetings and reminders are on the clock.  The     *)
(* effects (dismiss, expire) close a notification at once, as the server   *)
(* does.  Texts, order, grouping, tags, history, the limits on what is     *)
(* retained, and the wording of the panel are left out.                    *)
(***************************************************************************)
EXTENDS Naturals

CONSTANTS
    Ids,        \* notifications
    Apps,       \* their applications
    AppOf,      \* the application of each
    LastMoment  \* bound: the clock stops here

ASSUME NotificationsAssumption ==
    /\ AppOf \in [Ids -> Apps]
    /\ LastMoment \in Nat

VARIABLES
    cards,   \* each notification: gone, here, or coming back after a reload
    quiet,   \* silence, its holds and what they keep aside
    timing,  \* the focus timer runs, as the policy was told (focus_active)
    pulling, \* the focus on a pull request (focus)
    hushed,  \* silenced applications (quiet_apps)
    moment,  \* the clock
    wanted   \* history: the silence the user chose last

notificationVars == <<cards, quiet, timing, pulling, hushed, moment, wanted>>

CardKinds == {"ordinary", "permanent", "transient"}

NoCard == [place |-> "gone", kind |-> "ordinary", popup |-> FALSE, deferred |-> FALSE,
           pinned |-> FALSE, at |-> 0, reminder |-> FALSE]

Here(id) == cards[id].place = "here"

\* permanent: neither its toast nor its transience counts down.
Lasting(c) == c.pinned \/ c.reminder \/ c.kind = "permanent"

-----------------------------------------------------------------------------
(* Silence. *)

\* Mutant of BeginHold: a second hold keeps the first one's silence aside.
BeginHoldAgain(q) ==
    [q EXCEPT !.savedDnd = q.dnd, !.savedUntil = q.until, !.holding = TRUE]

BeginHold(q) ==
    IF q.holding THEN q
    ELSE [q EXCEPT !.savedDnd = q.dnd, !.savedUntil = q.until, !.holding = TRUE]

\* A meeting's deadline wins over the focus timer.
PresentHold(q) ==
    IF q.meeting # 0 THEN [q EXCEPT !.dnd = TRUE, !.until = q.meeting]
    ELSE IF q.focus THEN [q EXCEPT !.dnd = TRUE, !.until = 0]
    ELSE q

FinishHold(q) ==
    IF q.meeting # 0 \/ q.focus THEN PresentHold(q)
    ELSE [q EXCEPT !.dnd = q.savedDnd, !.until = IF q.savedDnd THEN q.savedUntil ELSE 0,
                   !.holding = FALSE]

ExpireManual(q) ==
    IF q.holding \/ q.until = 0 \/ moment < q.until THEN q
    ELSE [q EXCEPT !.dnd = FALSE, !.until = 0]

ReleaseMeeting(q) ==
    IF q.meeting # 0 /\ moment >= q.meeting THEN FinishHold([q EXCEPT !.meeting = 0]) ELSE q

Ticked == ExpireManual(ReleaseMeeting(quiet))

\* manual_override: the user's choice replaces every hold.
Chosen(dnd, until) ==
    [quiet EXCEPT !.sync = FALSE, !.focus = FALSE, !.meeting = 0, !.holding = FALSE,
                  !.dnd = dnd, !.until = until]

Silenced == [id \in Ids |-> [cards[id] EXCEPT !.popup = @ /\ cards[id].place = "coming"]]

\* setFocus: what the timer reports starts or ends a hold that was asked for.
Reported(q, active) ==
    IF active /\ q.sync /\ ~q.focus THEN PresentHold([BeginHold(q) EXCEPT !.focus = TRUE])
    ELSE IF ~active /\ q.focus THEN ExpireManual(FinishHold([q EXCEPT !.focus = FALSE]))
    ELSE q

-----------------------------------------------------------------------------
(* The tick of every quarter of a second. *)

Due(id, q) == Here(id) /\ ~q.dnd /\ cards[id].at # 0 /\ cards[id].at <= moment

\* A reminder that is due comes back as a toast that stays.
Reminded(c) == [c EXCEPT !.at = 0, !.reminder = TRUE, !.popup = TRUE]

Counting(c) ==
    /\ c.place = "here" /\ ~c.deferred /\ ~Lasting(c)
    /\ c.popup \/ c.kind = "transient"

RunOut(c) == IF c.kind = "transient" THEN NoCard ELSE [c EXCEPT !.popup = FALSE]

\* out: the countdowns that end at this tick.
Advanced(out) ==
    LET q == Ticked
        back(id) == IF Due(id, q) THEN Reminded(cards[id]) ELSE cards[id]
    IN [id \in Ids |-> IF id \in out /\ Counting(back(id)) THEN RunOut(back(id)) ELSE back(id)]

Advance ==
    /\ \E out \in SUBSET Ids : cards' = Advanced(out)
    /\ quiet' = Ticked
    /\ UNCHANGED <<timing, pulling, hushed, moment, wanted>>

Moment ==
    /\ moment < LastMoment
    /\ moment' = moment + 1
    /\ UNCHANGED <<cards, quiet, timing, pulling, hushed, wanted>>

-----------------------------------------------------------------------------
(* The sender. *)

Held(mention) == pulling /\ ~mention

\* A toast is shown unless the shell, the application or the focus is quiet;
\* calendar reminders are quiet while the focus timer runs.
Toasts(id, q, mention, calendar) ==
    ~Held(mention) /\ ~q.dnd /\ ~(calendar /\ timing) /\ AppOf[id] \notin hushed

Arrive(id, kind, mention, calendar) ==
    /\ cards[id].place = "gone"
    /\ quiet' = Ticked
    /\ \E out \in SUBSET Ids :
         cards' = [Advanced(out) EXCEPT ![id] =
                     [NoCard EXCEPT !.place = "here", !.kind = kind,
                        !.popup = Toasts(id, Ticked, mention, calendar),
                        !.deferred = Held(mention)]]
    /\ UNCHANGED <<timing, pulling, hushed, moment, wanted>>

\* Mutant of Replaced: a replacement is a new notification.
ReplacedWhole(c, kind) == [NoCard EXCEPT !.place = "here", !.kind = kind]

\* A replacement keeps the user's pin and reminder.
Replaced(c, kind) == [c EXCEPT !.kind = kind]

Update(id, kind) ==
    /\ Here(id)
    /\ cards' = [cards EXCEPT ![id] = Replaced(@, kind)]
    /\ UNCHANGED <<quiet, timing, pulling, hushed, moment, wanted>>

\* New text may show a toast again.
Renew(id, kind, mention, calendar) ==
    /\ Here(id)
    /\ cards' = [cards EXCEPT ![id] = [Replaced(@, kind) EXCEPT
                                        !.popup = Toasts(id, quiet, mention, calendar),
                                        !.deferred = Held(mention)]]
    /\ UNCHANGED <<quiet, timing, pulling, hushed, moment, wanted>>

\* Closed by its sender, dismissed, or one of a group or of all.
Closed(id) ==
    /\ Here(id)
    /\ cards' = [cards EXCEPT ![id] = NoCard]
    /\ UNCHANGED <<quiet, timing, pulling, hushed, moment, wanted>>

-----------------------------------------------------------------------------
(* The user. *)

\* The toast is hidden, which answers a reminder.
RetireToast(id) ==
    /\ Here(id)
    /\ cards' = [cards EXCEPT ![id] =
                   IF @.kind = "transient" THEN NoCard
                   ELSE [@ EXCEPT !.popup = FALSE, !.reminder = FALSE]]
    /\ UNCHANGED <<quiet, timing, pulling, hushed, moment, wanted>>

Pin(id) ==
    /\ Here(id)
    /\ cards' = [cards EXCEPT ![id].pinned = ~@,
                   ![id].popup = @ \/ (~cards[id].pinned /\ ~quiet.dnd)]
    /\ UNCHANGED <<quiet, timing, pulling, hushed, moment, wanted>>

\* at: the moment to come back, or 0 to cancel.
Remind(id, at) ==
    /\ Here(id) /\ cards[id].kind # "transient"
    /\ at = 0 \/ at > moment
    /\ cards' = [cards EXCEPT ![id].at = at]
    /\ UNCHANGED <<quiet, timing, pulling, hushed, moment, wanted>>

\* setAppQuiet and resumeApps: toasts that are shown stay, and none comes back.
Hush(apps) ==
    /\ hushed' = apps
    /\ UNCHANGED <<cards, quiet, timing, pulling, moment, wanted>>

\* What was held for the focus is shown when it ends, unless it is quiet.
SetPrFocus(on) ==
    /\ pulling' = on
    /\ cards' = IF ~on /\ pulling
                  THEN [id \in Ids |->
                          IF Here(id) /\ cards[id].deferred
                            THEN [cards[id] EXCEPT !.deferred = FALSE,
                                    !.popup = @ \/ ~(quiet.dnd \/ AppOf[id] \in hushed)]
                            ELSE cards[id]]
                  ELSE cards
    /\ UNCHANGED <<quiet, timing, hushed, moment, wanted>>

\* setDnd and snooze; until is 0 for a silence without an end.
Choose(dnd, until) ==
    /\ until = 0 \/ (dnd /\ until > moment)
    /\ quiet' = Chosen(dnd, until)
    /\ cards' = IF dnd THEN Silenced ELSE cards
    /\ wanted' = [dnd |-> dnd, until |-> until]
    /\ UNCHANGED <<timing, pulling, hushed, moment>>

SetFocus(active) ==
    /\ timing' = active
    /\ quiet' = Reported(quiet, active)
    /\ cards' = IF quiet'.focus /\ ~quiet.focus THEN Silenced ELSE cards
    /\ UNCHANGED <<pulling, hushed, moment, wanted>>

\* The panel only ever turns it on.
SetFocusSync ==
    /\ timing
    /\ quiet' = IF quiet.focus THEN [quiet EXCEPT !.sync = TRUE]
                ELSE PresentHold([BeginHold(quiet) EXCEPT !.sync = TRUE, !.focus = TRUE])
    /\ cards' = IF quiet.focus THEN cards ELSE Silenced
    /\ UNCHANGED <<timing, pulling, hushed, moment, wanted>>

ArmMeeting(end) ==
    /\ end > moment
    /\ quiet.meeting # end
    /\ quiet' = PresentHold([BeginHold(quiet) EXCEPT !.meeting = end])
    /\ cards' = Silenced
    /\ UNCHANGED <<timing, pulling, hushed, moment, wanted>>

-----------------------------------------------------------------------------
(* A reload of the shell: save, a new state, restore, the timer's report. *)

Restored(q) ==
    LET over == q.until # 0 /\ q.until <= moment
        r == [q EXCEPT !.dnd = @ /\ ~over, !.until = IF over THEN 0 ELSE @,
                       !.meeting = IF @ <= moment THEN 0 ELSE @]
    IN IF r.meeting # 0 \/ r.focus THEN PresentHold(r)
       ELSE IF r.holding THEN ExpireManual(FinishHold(r))
       ELSE r

\* Of a toast only a lasting one is saved; what was held for a focus is not.
Saved(c) ==
    IF c.place = "gone" THEN c
    ELSE [c EXCEPT !.place = "coming", !.popup = @ /\ Lasting(c), !.deferred = FALSE]

Reload ==
    /\ \E active \in {timing, FALSE} :
         /\ timing' = active
         /\ quiet' = Reported(Restored(quiet), active)
    /\ cards' = [id \in Ids |-> Saved(cards[id])]
    /\ pulling' = FALSE
    /\ UNCHANGED <<hushed, moment, wanted>>

\* The server hands over what it kept.
Return(id, calendar) ==
    /\ cards[id].place = "coming"
    /\ quiet' = Ticked
    /\ \E out \in SUBSET Ids :
         cards' = [Advanced(out) EXCEPT ![id] =
                     [cards[id] EXCEPT !.place = "here",
                        !.popup = @ /\ ~Ticked.dnd /\ ~(calendar /\ timing)]]
    /\ UNCHANGED <<timing, pulling, hushed, moment, wanted>>

-----------------------------------------------------------------------------

NotificationsInit ==
    /\ cards = [id \in Ids |-> NoCard]
    /\ quiet = [dnd |-> FALSE, until |-> 0, sync |-> FALSE, focus |-> FALSE, meeting |-> 0,
                holding |-> FALSE, savedDnd |-> FALSE, savedUntil |-> 0]
    /\ timing = FALSE /\ pulling = FALSE
    /\ hushed = {}
    /\ moment = 0
    /\ wanted = [dnd |-> FALSE, until |-> 0]

Moments == 1..LastMoment

NotificationsNext ==
    \/ Advance \/ Moment \/ SetFocusSync \/ Reload
    \/ \E on \in BOOLEAN : SetPrFocus(on) \/ SetFocus(on)
    \/ \E apps \in SUBSET Apps : Hush(apps)
    \/ \E dnd \in BOOLEAN, until \in {0} \cup Moments : Choose(dnd, until)
    \/ \E end \in Moments : ArmMeeting(end)
    \/ \E id \in Ids :
         \/ \E kind \in CardKinds, mention, calendar \in BOOLEAN :
              Arrive(id, kind, mention, calendar) \/ Renew(id, kind, mention, calendar)
         \/ \E kind \in CardKinds : Update(id, kind)
         \/ Closed(id) \/ RetireToast(id) \/ Pin(id)
         \/ \E at \in {0} \cup Moments : Remind(id, at)
         \/ \E calendar \in BOOLEAN : Return(id, calendar)

NotificationsSpec == NotificationsInit /\ [][NotificationsNext]_notificationVars

-----------------------------------------------------------------------------
(* Properties. *)

\* While it is quiet no toast is shown.  An automatic hold is quiet; without
\* one, silence is what the user chose last, whatever holds and reloads came in
\* between, or that choice is over.
SilenceIsKept ==
    /\ quiet.dnd => \A id \in Ids : Here(id) => ~cards[id].popup
    /\ quiet.holding = (quiet.focus \/ quiet.meeting # 0)
    /\ quiet.holding => quiet.dnd
    /\ ~quiet.holding =>
         IF quiet.dnd THEN wanted.dnd /\ quiet.until = wanted.until
         ELSE ~wanted.dnd \/ (wanted.until # 0 /\ wanted.until <= moment)

\* A reminder is spent only on a toast that the user can see: it goes with its
\* notification, by the user's word, or when its time has come and it is shown.
\* Replacements by the sender and reloads of the shell keep it.
RemindersReturn ==
    [][\A id \in Ids :
         cards[id].at # 0 /\ cards'[id].place # "gone" /\ cards'[id].at = 0 =>
           \/ Remind(id, 0)
           \/ cards[id].at <= moment /\ cards'[id].popup /\ ~quiet'.dnd]_notificationVars
===============================================================================
