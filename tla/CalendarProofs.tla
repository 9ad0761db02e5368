----------------------------- MODULE CalendarProofs -----------------------------
(***************************************************************************)
(* What the calendar worker of projects/integrations/src/calendar keeps    *)
(* true for any calendars, accounts, windows, refreshes and restarts.      *)
(***************************************************************************)
EXTENDS Calendar, TLAPS

Job ==
    [active : BOOLEAN, account : Accounts \cup {NoAccount}, calendars : SUBSET Calendars,
     windows : SUBSET Int, full : BOOLEAN]

Worker ==
    [configured : BOOLEAN, signedIn : BOOLEAN, account : Accounts \cup {NoAccount},
     listed : SUBSET Calendars, selected : SUBSET Calendars, fetched : SUBSET Calendars,
     windows : SUBSET Int, held : SUBSET (Calendars \X Int), wanted : SUBSET Int,
     force : BOOLEAN, expired : BOOLEAN, failing : BOOLEAN, job : Job,
     signing : BOOLEAN, signins : Nat, signouts : Nat, today : Int, agenda : Int]

Answer ==
    [owner : Accounts, listed : SUBSET Calendars, adopted : BOOLEAN,
     targets : SUBSET Calendars]

SyncMail ==
    [kind : {"sync"}, serial : Nat, result : {"ok"}, fetched : Answer] \cup
    [kind : {"sync"}, serial : Nat, result : {"expired", "offline"}]

AuthMail == [kind : {"auth"}, serial : Nat, ok : BOOLEAN]

CalendarTypeOK ==
    /\ cal \in Worker
    /\ signin \in {"none", "browser", "stored"}
    /\ clearing \in BOOLEAN
    /\ token \in Accounts \cup {NoAccount}
    /\ mail \subseteq SyncMail \cup AuthMail
    /\ withdrawn \in BOOLEAN
    /\ mishaps \in Nat

Present(c) == c.fetched \X Days(c.windows) \subseteq c.held

\* What a job is for was decided when it began: a full one covers all windows that
\* are still cached, any other one all calendars that are still complete.
JobFits(c) ==
    c.job.active =>
        /\ c.job.account = c.account
        /\ c.job.account = NoAccount => c.job.full
        /\ c.job.full => c.windows \subseteq c.job.windows
        /\ ~c.job.full => c.fetched \subseteq c.job.calendars

CacheOK(c) == c.fetched \subseteq c.selected /\ Present(c) /\ JobFits(c)

\* An answer is about the job that runs.
Fits(r, job) ==
    /\ r.adopted <=> IF job.account = NoAccount THEN job.calendars = {}
                     ELSE job.account # r.owner
    /\ r.targets = IF r.adopted THEN {PrimaryOf[r.owner]} ELSE job.calendars \cap r.listed

SyncOK(m) ==
    m.kind = "sync" =>
        /\ m.serial <= cal.signouts
        /\ m.serial = cal.signouts =>
             cal.job.active /\ (m.result = "ok" => Fits(m.fetched, cal.job))

AuthOK(m) ==
    m.kind = "auth" =>
        /\ m.serial <= cal.signins
        /\ m.serial = cal.signins /\ cal.signing =>
             signin = "none" /\ (m.ok => token # NoAccount)

OneAnswer ==
    \A m, n \in mail :
        m.kind = "sync" /\ n.kind = "sync" /\ m.serial = cal.signouts /\ n.serial = cal.signouts
            => m = n

MailOK == (\A m \in mail : SyncOK(m) /\ AuthOK(m)) /\ OneAnswer

WalletOK ==
    /\ clearing => ~cal.signedIn /\ ~cal.signing
    /\ signin # "none" => cal.signing
    /\ signin = "stored" => token # NoAccount
    /\ TokenIsKept

\* The inductive invariant.
Truthful == CalendarTypeOK /\ CacheOK(cal) /\ MailOK /\ WalletOK

\* What a handler that only chooses windows leaves alone.
SameSession(c, d) ==
    /\ d.signedIn = c.signedIn /\ d.signing = c.signing
    /\ d.signins = c.signins /\ d.signouts = c.signouts

-----------------------------------------------------------------------------
(* The helpers. *)

LEMMA DaysGrow ==
    ASSUME NEW windows \in SUBSET Int, NEW kept \in SUBSET windows
    PROVE  Days(kept) \subseteq Days(windows)
  BY DEF Days

LEMMA DaysAreDays ==
    ASSUME NEW windows \in SUBSET Int
    PROVE  Days(windows) \subseteq Int
  BY CalendarAssumption DEF Days, Span

\* A choice of windows, or of what is due, changes nothing about the cache.
LEMMA SameCache ==
    ASSUME NEW c \in Worker, CacheOK(c), NEW d \in Worker,
           d.fetched = c.fetched, d.selected = c.selected, d.windows = c.windows,
           d.held = c.held, d.account = c.account, d.job = c.job
    PROVE  CacheOK(d)
  BY DEF CacheOK, Present, JobFits

\* Starting a job breaks nothing, and a job that runs goes on.
LEMMA PumpKeeps ==
    ASSUME NEW c \in Worker, CacheOK(c), NEW late \in BOOLEAN
    PROVE  /\ Pumped(c, late) \in Worker
           /\ CacheOK(Pumped(c, late))
           /\ SameSession(c, Pumped(c, late))
           /\ c.job.active => Pumped(c, late).job = c.job
  <1> DEFINE s == WantsNothing(c)
  <1> DEFINE d == [s EXCEPT !.job = NextJob(c)]
  <1>1. /\ s \in Worker /\ SameSession(c, s) /\ s.job = c.job
        /\ s.fetched = c.fetched /\ s.selected = c.selected /\ s.windows = c.windows
        /\ s.held = c.held /\ s.account = c.account
    BY DEF Worker, WantsNothing, SameSession
  <1>2. CacheOK(s)
    BY <1>1, SameCache
  <1>3. NextJob(c) \in Job
    BY DEF NextJob, Worker, Job, Incomplete
  <1>4. /\ d \in Worker /\ SameSession(c, d) /\ d.job = NextJob(c)
        /\ d.fetched = c.fetched /\ d.selected = c.selected /\ d.windows = c.windows
        /\ d.held = c.held /\ d.account = c.account
    BY <1>1, <1>3 DEF Worker, SameSession
  <1>5. JobFits(d)
    <2>1. /\ NextJob(c).account = c.account /\ NextJob(c).calendars = c.selected
          /\ NextJob(c).full <=> Incomplete(c)
          /\ Incomplete(c) => c.windows \subseteq NextJob(c).windows
      BY DEF NextJob, Incomplete
    <2>2. c.fetched \subseteq c.selected
      BY DEF CacheOK
    <2> HIDE DEF d, s
    <2> QED BY <1>4, <2>1, <2>2 DEF JobFits, Incomplete
  <1>6. CacheOK(d)
    <2> HIDE DEF d, s
    <2> QED BY <1>4, <1>5 DEF CacheOK, Present
  <1>7. Pumped(c, late) = c \/ Pumped(c, late) = s \/ (~c.job.active /\ Pumped(c, late) = d)
    BY DEF Pumped, IsFree
  <1>8. SameSession(c, c)
    BY DEF SameSession
  <1> HIDE DEF d, s
  <1> QED BY <1>1, <1>2, <1>4, <1>6, <1>7, <1>8

\* Dropping windows, and the events that are in none, leaves a true cache.
LEMMA PruneKeeps ==
    ASSUME NEW c \in Worker, NEW kept \in SUBSET Int,
           c.fetched \subseteq c.selected, c.fetched \X Days(kept) \subseteq c.held,
           c.job.active => kept \subseteq c.windows /\ JobFits(c)
    PROVE  LET d == Pruned([c EXCEPT !.windows = kept])
           IN d \in Worker /\ CacheOK(d) /\ SameSession(c, d) /\ d.job = c.job
  <1> DEFINE w == [c EXCEPT !.windows = kept]
             d == Pruned(w)
  <1>1. /\ w \in Worker /\ w.windows = kept /\ w.held = c.held /\ w.selected = c.selected
        /\ w.fetched = c.fetched /\ w.job = c.job /\ w.account = c.account
        /\ SameSession(c, w)
    BY DEF Worker, SameSession
  <1>2. /\ d \in Worker /\ d.windows = kept /\ d.selected = c.selected
        /\ d.fetched = c.fetched /\ d.job = c.job /\ d.account = c.account
        /\ SameSession(c, d)
        /\ d.held = {h \in c.held : h[1] \in c.selected /\ h[2] \in Days(kept)}
    <2> HIDE DEF w
    <2> QED BY <1>1 DEF Pruned, Worker, SameSession
  <1> HIDE DEF d
  <1>3. Present(d)
    BY <1>2 DEF Present
  <1>4. JobFits(d)
    BY <1>2 DEF JobFits
  <1> QED BY <1>2, <1>3, <1>4 DEF CacheOK, d

\* A cache that is full drops windows without becoming untrue.
LEMMA PersistKeeps ==
    ASSUME NEW c \in Worker, CacheOK(c), NEW d \in Persisted(c)
    PROVE  d \in Worker /\ CacheOK(d) /\ SameSession(c, d) /\ d.job = c.job
  <1>1. CASE d = c
    BY <1>1 DEF SameSession
  <1>2. CASE d # c
    <2>1. PICK kept \in SUBSET c.windows : d = Pruned([c EXCEPT !.windows = kept])
      BY <1>2 DEF Persisted
    <2>2. c.windows \in SUBSET Int
      BY DEF Worker
    <2>3. Days(kept) \subseteq Days(c.windows)
      BY <2>2, DaysGrow
    <2>4. /\ kept \in SUBSET Int
          /\ c.fetched \subseteq c.selected /\ c.fetched \X Days(kept) \subseteq c.held
          /\ c.job.active => kept \subseteq c.windows /\ JobFits(c)
      BY <2>2, <2>3 DEF CacheOK, Present
    <2> QED BY <2>1, <2>4, PruneKeeps
  <1> QED BY <1>1, <1>2

\* Asking for a window leaves the cache alone.
LEMMA VisitKeeps ==
    ASSUME NEW c \in Worker, CacheOK(c), NEW day \in Int, NEW again \in BOOLEAN,
           NEW d \in Visited(c, day, again)
    PROVE  d \in Worker /\ CacheOK(d) /\ SameSession(c, d) /\ d.job = c.job
           /\ d.today = c.today /\ d.agenda = c.agenda
  <1>1. d = c \/ \E w \in Int : d = [c EXCEPT !.wanted = @ \cup {w}]
    BY DEF Visited, Worker
  <1>2. CASE d = c
    BY <1>2 DEF SameSession
  <1>3. ASSUME NEW w \in Int, d = [c EXCEPT !.wanted = @ \cup {w}]
        PROVE  /\ d \in Worker /\ SameSession(c, d) /\ d.job = c.job
               /\ d.fetched = c.fetched /\ d.selected = c.selected
               /\ d.windows = c.windows /\ d.held = c.held /\ d.account = c.account
               /\ d.today = c.today /\ d.agenda = c.agenda
    BY <1>3 DEF Worker, SameSession
  <1> QED BY <1>1, <1>2, <1>3, SameCache

\* So does a tick.
LEMMA TickKeeps ==
    ASSUME NEW c \in Worker, CacheOK(c), NEW woke \in BOOLEAN, NEW due \in BOOLEAN
    PROVE  LET d == AtTick(c, woke, due)
           IN d \in Worker /\ CacheOK(d) /\ SameSession(c, d) /\ d.job = c.job
  <1> DEFINE d == AtTick(c, woke, due)
  <1>1. PICK failing \in BOOLEAN, more \in SUBSET Int :
          d = [c EXCEPT !.failing = failing, !.wanted = c.wanted \cup more]
    <2> DEFINE awake == [c EXCEPT !.failing = c.failing /\ ~woke]
               more == {c.today} \cup (IF Covered(c, c.agenda) THEN {} ELSE {c.agenda})
    <2>1. more \in SUBSET Int /\ (c.failing /\ ~woke) \in BOOLEAN
      BY DEF Worker
    <2>2. awake = [c EXCEPT !.failing = c.failing /\ ~woke, !.wanted = c.wanted \cup {}]
      BY DEF Worker
    <2>3. awake.wanted = c.wanted
      BY DEF Worker
    <2>4. CASE c.signedIn /\ ~c.expired /\ (woke \/ due)
      <3>1. d = [awake EXCEPT !.wanted = c.wanted \cup more]
        BY <2>3, <2>4 DEF AtTick, Covered, Worker
      <3> QED BY <3>1, <2>1 DEF Worker
    <2>5. CASE ~(c.signedIn /\ ~c.expired /\ (woke \/ due))
      BY <2>1, <2>2, <2>5 DEF AtTick
    <2> QED BY <2>4, <2>5
  <1>2. /\ d \in Worker /\ SameSession(c, d) /\ d.job = c.job
        /\ d.fetched = c.fetched /\ d.selected = c.selected
        /\ d.windows = c.windows /\ d.held = c.held /\ d.account = c.account
    <2> HIDE DEF d
    <2> QED BY <1>1 DEF Worker, SameSession
  <1> HIDE DEF d
  <1> QED BY <1>2, SameCache DEF d

-----------------------------------------------------------------------------
(* The steps. *)

\* Mail stays right while its job and its sign-in stay.
LEMMA MailStays ==
    ASSUME MailOK, mail' = mail, signin' = signin, token' = token,
           cal'.signins = cal.signins, cal'.signouts = cal.signouts,
           cal'.signing = cal.signing,
           cal.job.active => cal'.job = cal.job
    PROVE  MailOK'
  <1>1. ASSUME NEW m \in mail
        PROVE  SyncOK(m)' /\ AuthOK(m)'
    BY <1>1 DEF MailOK, SyncOK, AuthOK
  <1>2. OneAnswer'
    BY DEF MailOK, OneAnswer
  <1> QED BY <1>1, <1>2 DEF MailOK

LEMMA ThisPumps ==
    ASSUME NEW c, NEW late \in BOOLEAN, cal' = Pumped(c, late)
    PROVE  Pumps({c})
  BY DEF Pumps

LEMMA OnePumps ==
    ASSUME NEW cs, Pumps(cs)
    PROVE  \E c \in cs : Pumps({c})
  <1>1. PICK c \in cs, late \in BOOLEAN : cal' = Pumped(c, late)
    BY DEF Pumps
  <1> QED BY <1>1 DEF Pumps

\* A handler that ends with pump() and starts or ends no task.
LEMMA HandlerKeeps ==
    ASSUME Truthful, NEW c \in Worker, CacheOK(c), SameSession(cal, c), c.job = cal.job,
           Pumps({c}), UNCHANGED Tasks
    PROVE  Truthful'
  <1>1. PICK late \in BOOLEAN : cal' = Pumped(c, late)
    BY DEF Pumps
  <1>2. /\ cal' \in Worker /\ CacheOK(cal') /\ SameSession(c, cal')
        /\ cal.job.active => cal'.job = cal.job
    BY <1>1, PumpKeeps
  <1>3. CalendarTypeOK'
    BY <1>2 DEF Truthful, CalendarTypeOK, Tasks
  <1>4. MailOK'
    BY <1>2, MailStays DEF Truthful, SameSession, Tasks
  <1>5. WalletOK'
    BY <1>2 DEF Truthful, WalletOK, TokenIsKept, SameSession, Tasks
  <1>6. CacheOK(cal)'
    BY <1>2 DEF CacheOK, Present, JobFits
  <1> QED BY <1>3, <1>4, <1>5, <1>6 DEF Truthful

LEMMA SetupKeeps ==
    ASSUME Truthful, Setup
    PROVE  Truthful'
  <1>1. PICK given \in BOOLEAN : Pumps({[cal EXCEPT !.configured = given]})
    BY DEF Setup
  <1> DEFINE c == [cal EXCEPT !.configured = given]
  <1>2. cal \in Worker /\ CacheOK(cal)
    BY DEF Truthful, CalendarTypeOK
  <1>3. /\ c \in Worker /\ SameSession(cal, c) /\ c.job = cal.job
        /\ c.fetched = cal.fetched /\ c.selected = cal.selected
        /\ c.windows = cal.windows /\ c.held = cal.held /\ c.account = cal.account
    BY <1>2 DEF Worker, SameSession
  <1>4. Pumps({c}) /\ UNCHANGED Tasks
    BY <1>1 DEF Setup
  <1> HIDE DEF c
  <1>5. CacheOK(c)
    BY <1>2, <1>3, SameCache
  <1> QED BY <1>3, <1>4, <1>5, HandlerKeeps

LEMMA SelectKeeps ==
    ASSUME Truthful, NEW id \in Calendars, SelectCalendar(id)
    PROVE  Truthful'
  <1> DEFINE on == [cal EXCEPT !.selected = cal.selected \cup {id}, !.force = TRUE]
             c == IF id \in cal.selected THEN SwitchedOff(cal, id) ELSE on
  <1>1. cal \in Worker /\ CacheOK(cal)
    BY DEF Truthful, CalendarTypeOK
  <1>2. PICK d \in Persisted(c) : Pumps({d})
    BY DEF SelectCalendar, Pumps
  <1>3. CASE id \in cal.selected
    <2> DEFINE off == SwitchedOff(cal, id)
    <2>1. /\ off \in Worker /\ SameSession(cal, off) /\ off.job = cal.job
          /\ off.fetched = cal.fetched \ {id} /\ off.selected = cal.selected \ {id}
          /\ off.windows = cal.windows /\ off.account = cal.account
          /\ off.held = {h \in cal.held : h[1] # id}
      BY <1>1 DEF Worker, SameSession, SwitchedOff
    <2>2. c = off
      BY <1>3
    <2> HIDE DEF off, c
    <2>3. Present(off)
      BY <1>1, <2>1 DEF CacheOK, Present
    <2>4. JobFits(off)
      BY <1>1, <2>1 DEF CacheOK, JobFits
    <2> QED BY <1>1, <2>1, <2>2, <2>3, <2>4, <1>2, PersistKeeps, HandlerKeeps
            DEF CacheOK, SameSession, SelectCalendar
  <1>4. CASE id \notin cal.selected
    <2>1. /\ on \in Worker /\ SameSession(cal, on) /\ on.job = cal.job
          /\ on.fetched = cal.fetched /\ on.selected = cal.selected \cup {id}
          /\ on.windows = cal.windows /\ on.account = cal.account /\ on.held = cal.held
      BY <1>1 DEF Worker, SameSession
    <2>2. c = on
      BY <1>4
    <2> HIDE DEF on, c
    <2>3. CacheOK(on)
      BY <1>1, <2>1 DEF CacheOK, Present, JobFits
    <2> QED BY <2>1, <2>2, <2>3, <1>2, PersistKeeps, HandlerKeeps
            DEF SameSession, SelectCalendar
  <1> QED BY <1>3, <1>4

LEMMA LookAtKeeps ==
    ASSUME Truthful, NEW day \in Int, LookAt(day)
    PROVE  Truthful'
  <1> DEFINE at == [cal EXCEPT !.agenda = day]
  <1>1. cal \in Worker /\ CacheOK(cal)
    BY DEF Truthful, CalendarTypeOK
  <1>2. PICK c \in {cal, at} : Pumps(Visited(c, day, FALSE))
    BY DEF LookAt
  <1>3. PICK d \in Visited(c, day, FALSE) : Pumps({d})
    BY <1>2, OnePumps
  <1>4. /\ at \in Worker /\ SameSession(cal, at) /\ at.job = cal.job
        /\ at.fetched = cal.fetched /\ at.selected = cal.selected
        /\ at.windows = cal.windows /\ at.held = cal.held /\ at.account = cal.account
    BY <1>1 DEF Worker, SameSession
  <1> HIDE DEF at
  <1>5. c \in Worker /\ CacheOK(c) /\ SameSession(cal, c) /\ c.job = cal.job
    BY <1>1, <1>2, <1>4, SameCache DEF SameSession
  <1>6. d \in Worker /\ CacheOK(d) /\ SameSession(c, d) /\ d.job = c.job
    BY <1>3, <1>5, VisitKeeps
  <1> QED BY <1>3, <1>5, <1>6, HandlerKeeps DEF SameSession, LookAt

LEMMA RefreshKeeps ==
    ASSUME Truthful, Refresh
    PROVE  Truthful'
  <1> DEFINE now == [cal EXCEPT !.force = TRUE, !.expired = FALSE]
  <1>1. cal \in Worker /\ CacheOK(cal)
    BY DEF Truthful, CalendarTypeOK
  <1>2. /\ now \in Worker /\ SameSession(cal, now) /\ now.job = cal.job
        /\ now.fetched = cal.fetched /\ now.selected = cal.selected
        /\ now.windows = cal.windows /\ now.held = cal.held /\ now.account = cal.account
    BY <1>1 DEF Worker, SameSession
  <1> DEFINE all == UNION {Visited(c, cal.agenda, TRUE) :
                              c \in Visited(now, cal.today, TRUE)}
  <1>9. PICK d \in all : Pumps({d})
    <2>1. Pumps(all)
      BY DEF Refresh
    <2> HIDE DEF all
    <2> QED BY <2>1, OnePumps
  <1>3. PICK c \in Visited(now, cal.today, TRUE) : d \in Visited(c, cal.agenda, TRUE)
    OBVIOUS
  <1>4. d \in Visited(c, cal.agenda, TRUE) /\ Pumps({d})
    BY <1>3, <1>9
  <1> HIDE DEF now
  <1>5. CacheOK(now)
    BY <1>1, <1>2, SameCache
  <1>6. cal.today \in Int /\ cal.agenda \in Int
    BY <1>1 DEF Worker
  <1>7. c \in Worker /\ CacheOK(c) /\ SameSession(now, c) /\ c.job = now.job
    BY <1>2, <1>3, <1>5, <1>6, VisitKeeps
  <1>8. d \in Worker /\ CacheOK(d) /\ SameSession(c, d) /\ d.job = c.job
    BY <1>4, <1>6, <1>7, VisitKeeps
  <1> QED BY <1>2, <1>4, <1>7, <1>8, HandlerKeeps DEF SameSession, Refresh

LEMMA TickStepKeeps ==
    ASSUME Truthful, CalendarTick
    PROVE  Truthful'
  <1>1. cal \in Worker /\ CacheOK(cal)
    BY DEF Truthful, CalendarTypeOK
  <1>2. PICK day \in {cal.today} \cup {d \in {cal.today + 1} : d <= LastDay} :
          Pumps(Rung([cal EXCEPT !.today = day]))
    BY Zenon DEF CalendarTick
  <1>4. day \in Int
    BY <1>2, <1>1 DEF Worker
  <1> DEFINE on == [cal EXCEPT !.today = day]
  <1>5. /\ on \in Worker /\ SameSession(cal, on) /\ on.job = cal.job
        /\ on.fetched = cal.fetched /\ on.selected = cal.selected
        /\ on.windows = cal.windows /\ on.held = cal.held /\ on.account = cal.account
    BY <1>1, <1>4 DEF Worker, SameSession
  <1>3. PICK e \in Rung(on) : Pumps({e})
    BY <1>2, OnePumps
  <1>6. PICK c \in Persisted(on), woke \in BOOLEAN, due \in BOOLEAN :
          e = AtTick(c, woke, due)
    BY <1>3 DEF Rung
  <1> HIDE DEF on
  <1>7. c \in Worker /\ CacheOK(c) /\ SameSession(on, c) /\ c.job = on.job
    BY <1>1, <1>5, <1>6, SameCache, PersistKeeps
  <1>8. LET d == AtTick(c, woke, due)
        IN d \in Worker /\ CacheOK(d) /\ SameSession(c, d) /\ d.job = c.job
    BY <1>7, TickKeeps
  <1> QED BY <1>3, <1>5, <1>6, <1>7, <1>8, HandlerKeeps DEF SameSession, CalendarTick

LEMMA TurnKeeps ==
    ASSUME Truthful, CalendarTurn
    PROVE  Truthful'
  <1> DEFINE d == AtTick(cal, FALSE, TRUE)
  <1>1. cal \in Worker /\ CacheOK(cal)
    BY DEF Truthful, CalendarTypeOK
  <1>2. d \in Worker /\ CacheOK(d) /\ SameSession(cal, d) /\ d.job = cal.job
    BY <1>1, TickKeeps
  <1>3. Pumps({d}) /\ UNCHANGED Tasks
    <2>1. cal' = Pumped(d, TRUE) /\ UNCHANGED Tasks
      BY DEF CalendarTurn
    <2> HIDE DEF d
    <2>2. Pumps({d})
      BY <2>1, TRUE \in BOOLEAN, ThisPumps
    <2> QED BY <2>1, <2>2
  <1> HIDE DEF d
  <1> QED BY <1>2, <1>3, HandlerKeeps

\* A restart keeps what was saved, and no task.
LEMMA RespawnKeeps ==
    ASSUME Truthful, Respawn
    PROVE  Truthful'
  <1> DEFINE saved == [cal EXCEPT !.wanted = {}, !.force = FALSE, !.expired = FALSE,
                                  !.failing = FALSE, !.job = NoSync, !.signing = FALSE,
                                  !.agenda = cal.today]
  <1>1. cal \in Worker /\ CacheOK(cal)
    BY DEF Truthful, CalendarTypeOK
  <1>2. NoSync \in Job
    BY DEF NoSync, Job
  <1>3. /\ saved \in Worker /\ ~saved.job.active /\ saved.signedIn = cal.signedIn
        /\ saved.fetched = cal.fetched /\ saved.selected = cal.selected
        /\ saved.windows = cal.windows /\ saved.held = cal.held
    BY <1>1, <1>2 DEF Worker, NoSync
  <1>4. Pumps({AtTick(saved, FALSE, TRUE)})
    BY DEF Respawn
  <1> HIDE DEF saved
  <1>5. CacheOK(saved)
    BY <1>1, <1>3 DEF CacheOK, Present, JobFits
  <1> DEFINE d == AtTick(saved, FALSE, TRUE)
  <1>6. d \in Worker /\ CacheOK(d) /\ SameSession(saved, d)
    BY <1>3, <1>5, TickKeeps
  <1>12. Pumps({d})
    BY <1>4
  <1> HIDE DEF d
  <1>7. PICK late \in BOOLEAN : cal' = Pumped(d, late)
    BY <1>12 DEF Pumps
  <1>8. cal' \in Worker /\ CacheOK(cal)' /\ SameSession(d, cal')
    BY <1>6, <1>7, PumpKeeps DEF CacheOK, Present, JobFits
  <1>9. CalendarTypeOK'
    <2>1. mishaps' \in Nat /\ mail' = {} /\ signin' = "none" /\ clearing' = FALSE
      BY DEF Truthful, CalendarTypeOK, Respawn, NoSignin
    <2>2. token' \in Accounts \cup {NoAccount} /\ withdrawn' \in BOOLEAN
      BY DEF Truthful, CalendarTypeOK, Respawn
    <2> QED BY <1>8, <2>1, <2>2 DEF CalendarTypeOK
  <1>10. MailOK'
    BY DEF Respawn, MailOK, OneAnswer
  <1>11. WalletOK'
    BY <1>3, <1>6, <1>8 DEF Truthful, WalletOK, TokenIsKept, SameSession, Respawn, NoSignin
  <1> QED BY <1>8, <1>9, <1>10, <1>11 DEF Truthful

LEMMA StartKeeps ==
    ASSUME Truthful, StartSignin
    PROVE  Truthful'
  <1>1. cal \in Worker /\ CacheOK(cal)
    BY DEF Truthful, CalendarTypeOK
  <1>2. /\ cal' \in Worker /\ cal'.signing /\ cal'.signins = cal.signins + 1
        /\ cal'.signedIn = cal.signedIn /\ cal'.signouts = cal.signouts
        /\ cal'.job = cal.job /\ cal'.fetched = cal.fetched
        /\ cal'.selected = cal.selected /\ cal'.windows = cal.windows
        /\ cal'.held = cal.held /\ cal'.account = cal.account
    <2> DEFINE next == cal.signins + 1
    <2>1. next \in Nat
      BY <1>1 DEF Worker
    <2>2. cal' = [cal EXCEPT !.signing = TRUE, !.signins = next]
      BY DEF StartSignin
    <2>3. next = cal.signins + 1
      OBVIOUS
    <2> HIDE DEF next
    <2>4. cal'.signins = next
      BY <1>1, <2>1, <2>2 DEF Worker
    <2>5. /\ cal' \in Worker /\ cal'.signing
          /\ cal'.signedIn = cal.signedIn /\ cal'.signouts = cal.signouts
          /\ cal'.job = cal.job /\ cal'.fetched = cal.fetched
          /\ cal'.selected = cal.selected /\ cal'.windows = cal.windows
          /\ cal'.held = cal.held /\ cal'.account = cal.account
      BY <1>1, <2>1, <2>2 DEF Worker
    <2> QED BY <2>3, <2>4, <2>5
  <1>3. CacheOK(cal)'
    BY <1>1, <1>2 DEF CacheOK, Present, JobFits
  <1>4. CalendarTypeOK'
    BY <1>2 DEF Truthful, CalendarTypeOK, StartSignin
  <1>5. ASSUME NEW m \in mail
        PROVE  SyncOK(m)' /\ AuthOK(m)'
    <2>1. SyncOK(m) /\ AuthOK(m)
      BY <1>5 DEF Truthful, MailOK
    <2>2. SyncOK(m)'
      BY <1>2, <2>1 DEF SyncOK
    <2>3. m.kind = "auth" => m.serial \in Nat /\ m.serial <= cal.signins
      BY <1>5, <2>1 DEF AuthOK, Truthful, CalendarTypeOK, SyncMail, AuthMail
    <2>4. cal.signins \in Nat
      BY <1>1 DEF Worker
    <2>5. AuthOK(m)'
      BY <1>2, <2>3, <2>4 DEF AuthOK
    <2> QED BY <2>2, <2>5
  <1>6. MailOK'
    BY <1>2, <1>5 DEF Truthful, MailOK, OneAnswer, StartSignin
  <1>7. WalletOK'
    BY <1>2 DEF Truthful, WalletOK, TokenIsKept, StartSignin, MayStore
  <1> QED BY <1>3, <1>4, <1>6, <1>7 DEF Truthful

LEMMA CancelKeeps ==
    ASSUME Truthful, CancelSignin
    PROVE  Truthful'
  <1> DEFINE c == [cal EXCEPT !.signing = FALSE]
  <1>1. cal \in Worker /\ CacheOK(cal)
    BY DEF Truthful, CalendarTypeOK
  <1>2. /\ c \in Worker /\ ~c.signing /\ c.signedIn = cal.signedIn
        /\ c.signins = cal.signins /\ c.signouts = cal.signouts /\ c.job = cal.job
        /\ c.fetched = cal.fetched /\ c.selected = cal.selected
        /\ c.windows = cal.windows /\ c.held = cal.held /\ c.account = cal.account
    BY <1>1 DEF Worker
  <1>3. PICK late \in BOOLEAN : cal' = Pumped(c, late)
    <2>1. Pumps({c})
      BY DEF CancelSignin
    <2> HIDE DEF c
    <2> QED BY <2>1 DEF Pumps
  <1> HIDE DEF c
  <1>4. CacheOK(c)
    BY <1>1, <1>2, SameCache
  <1>5. /\ cal' \in Worker /\ CacheOK(cal') /\ SameSession(c, cal')
        /\ cal.job.active => cal'.job = cal.job
    BY <1>2, <1>3, <1>4, PumpKeeps
  <1>6. CacheOK(cal)'
    BY <1>5 DEF CacheOK, Present, JobFits
  <1>7. CalendarTypeOK'
    BY <1>5 DEF Truthful, CalendarTypeOK, CancelSignin, NoSignin
  <1>8. ASSUME NEW m \in mail
        PROVE  SyncOK(m)' /\ AuthOK(m)'
    BY <1>2, <1>5, <1>8 DEF Truthful, MailOK, SyncOK, AuthOK, SameSession
  <1>9. MailOK'
    BY <1>2, <1>5, <1>8 DEF Truthful, MailOK, OneAnswer, CancelSignin, SameSession
  <1>10. WalletOK'
    BY <1>2, <1>5 DEF Truthful, WalletOK, TokenIsKept, CancelSignin, SameSession, NoSignin
  <1> QED BY <1>6, <1>7, <1>9, <1>10 DEF Truthful

LEMMA DisconnectKeeps ==
    ASSUME Truthful, Disconnect
    PROVE  Truthful'
  <1>1. cal \in Worker
    BY DEF Truthful, CalendarTypeOK
  <1>2. Unused \in Worker
    BY CalendarAssumption DEF Unused, Worker, NoSync, Job
  <1>3. /\ cal' \in Worker /\ ~cal'.signing /\ ~cal'.signedIn /\ ~cal'.job.active
        /\ cal'.signins = cal.signins /\ cal'.signouts = cal.signouts + 1
        /\ cal'.fetched = {} /\ cal'.selected = {}
    <2> DEFINE next == cal.signouts + 1
    <2>1. next \in Nat
      BY <1>1 DEF Worker
    <2>2. cal' = [Unused EXCEPT !.configured = cal.configured, !.today = cal.today,
                    !.agenda = cal.agenda, !.signins = cal.signins, !.signouts = next]
      BY DEF Disconnect
    <2>3. next = cal.signouts + 1
      OBVIOUS
    <2> HIDE DEF next
    <2>4. /\ ~Unused.signing /\ ~Unused.signedIn /\ ~Unused.job.active
          /\ Unused.fetched = {} /\ Unused.selected = {}
      BY DEF Unused, NoSync
    <2>5. cal'.signouts = next /\ cal'.signins = cal.signins
      BY <1>1, <1>2, <2>1, <2>2 DEF Worker
    <2>6. /\ cal' \in Worker /\ ~cal'.signing /\ ~cal'.signedIn /\ ~cal'.job.active
          /\ cal'.fetched = {} /\ cal'.selected = {}
      BY <1>1, <1>2, <2>1, <2>2, <2>4 DEF Worker
    <2> QED BY <2>3, <2>5, <2>6
  <1>4. CacheOK(cal)'
    BY <1>3 DEF CacheOK, Present, JobFits
  <1>5. CalendarTypeOK'
    BY <1>3 DEF Truthful, CalendarTypeOK, Disconnect, NoSignin
  <1>6. ASSUME NEW m \in mail
        PROVE  (m.kind = "sync" => m.serial # cal'.signouts) /\ SyncOK(m)' /\ AuthOK(m)'
    <2>1. SyncOK(m) /\ AuthOK(m)
      BY <1>6 DEF Truthful, MailOK
    <2>2. m.kind = "sync" => m.serial \in Nat /\ m.serial <= cal.signouts
      BY <1>6, <2>1 DEF SyncOK, Truthful, CalendarTypeOK, SyncMail, AuthMail
    <2>3. cal.signouts \in Nat
      BY <1>1 DEF Worker
    <2> QED BY <1>3, <2>1, <2>2, <2>3 DEF SyncOK, AuthOK
  <1>7. MailOK'
    BY <1>6 DEF MailOK, OneAnswer, Disconnect
  <1>8. WalletOK'
    BY <1>3 DEF WalletOK, TokenIsKept, Disconnect, NoSignin
  <1> QED BY <1>4, <1>5, <1>7, <1>8 DEF Truthful

\* A new message joins those that wait.
LEMMA AuthSent ==
    ASSUME Truthful, signin # "none", NEW ok \in BOOLEAN, EndSignin(ok),
           UNCHANGED <<cal, clearing, mishaps>>,
           ok => token' # NoAccount, token' \in Accounts \cup {NoAccount},
           withdrawn' \in BOOLEAN, TokenIsKept'
    PROVE  Truthful'
  <1>1. cal \in Worker /\ cal.signins \in Nat /\ cal.signing
    BY DEF Truthful, CalendarTypeOK, Worker, WalletOK
  <1>2. PICK sent \in AuthMail :
          sent = [kind |-> "auth", serial |-> cal.signins, ok |-> ok]
    BY <1>1 DEF AuthMail
  <1>3. /\ sent.kind = "auth" /\ sent.serial = cal.signins /\ sent.ok = ok
        /\ mail' = mail \cup {sent} /\ signin' = "none"
    BY <1>2 DEF EndSignin, Report, NoSignin
  <1>4. CalendarTypeOK'
    BY <1>3 DEF Truthful, CalendarTypeOK
  <1>5. ASSUME NEW m \in mail
        PROVE  SyncOK(m)' /\ AuthOK(m)'
    <2>1. SyncOK(m) /\ AuthOK(m)
      BY <1>5 DEF Truthful, MailOK
    <2> QED BY <1>1, <2>1 DEF SyncOK, AuthOK
  <1>6. SyncOK(sent)' /\ AuthOK(sent)'
    BY <1>1, <1>3 DEF SyncOK, AuthOK
  <1>7. OneAnswer'
    BY <1>3 DEF Truthful, MailOK, OneAnswer
  <1>8. MailOK'
    BY <1>3, <1>5, <1>6, <1>7 DEF MailOK
  <1>9. WalletOK' /\ CacheOK(cal)'
    BY <1>3 DEF Truthful, WalletOK, CacheOK, Present, JobFits
  <1> QED BY <1>4, <1>8, <1>9 DEF Truthful

LEMMA SigninStepKeeps ==
    ASSUME Truthful, SigninStep
    PROVE  Truthful'
  <1>1. CASE StoreToken
    <2>1. /\ token' \in Accounts /\ token' # NoAccount /\ signin = "browser"
          /\ signin' = "stored" /\ UNCHANGED <<cal, clearing, mail, withdrawn, mishaps>>
      BY <1>1, CalendarAssumption DEF StoreToken
    <2>2. CalendarTypeOK' /\ CacheOK(cal)' /\ WalletOK'
      BY <2>1 DEF Truthful, CalendarTypeOK, CacheOK, Present, JobFits, WalletOK, TokenIsKept
    <2>3. ASSUME NEW m \in mail
          PROVE  SyncOK(m)' /\ AuthOK(m)'
      BY <2>1, <2>3 DEF Truthful, MailOK, SyncOK, AuthOK
    <2>4. MailOK'
      BY <2>1, <2>3 DEF Truthful, MailOK, OneAnswer
    <2> QED BY <2>2, <2>4 DEF Truthful
  <1>2. CASE SigninSucceeds
    <2>1. TokenIsKept' /\ token' # NoAccount
      BY <1>2 DEF Truthful, WalletOK, TokenIsKept, SigninSucceeds
    <2>2. /\ signin # "none" /\ EndSignin(TRUE)
          /\ UNCHANGED <<cal, clearing, mishaps>> /\ token' = token /\ withdrawn' = withdrawn
      BY <1>2 DEF SigninSucceeds
    <2>3. token' \in Accounts \cup {NoAccount} /\ withdrawn' \in BOOLEAN
      BY <2>2 DEF Truthful, CalendarTypeOK
    <2> QED BY <2>1, <2>2, <2>3, AuthSent
  <1>3. CASE SigninFails
    <2>1. TokenIsKept'
      BY <1>3 DEF Truthful, WalletOK, TokenIsKept, SigninFails
    <2>2. /\ signin # "none" /\ EndSignin(FALSE)
          /\ UNCHANGED <<cal, clearing, mishaps>> /\ token' = token /\ withdrawn' = withdrawn
      BY <1>3 DEF SigninFails
    <2>3. token' \in Accounts \cup {NoAccount} /\ withdrawn' \in BOOLEAN
      BY <2>2 DEF Truthful, CalendarTypeOK
    <2> QED BY <2>1, <2>2, <2>3, AuthSent
  <1>4. CASE Withdraw
    <2>1. TokenIsKept'
      BY <1>4 DEF Truthful, WalletOK, TokenIsKept, Withdraw
    <2> QED BY <1>4, <2>1, AuthSent DEF Withdraw, Truthful, CalendarTypeOK
  <1> QED BY <1>1, <1>2, <1>3, <1>4 DEF SigninStep

LEMMA ClearKeeps ==
    ASSUME Truthful, ClearWallet
    PROVE  Truthful'
  <1>1. /\ clearing /\ ~clearing' /\ token' \in {token, NoAccount}
        /\ UNCHANGED <<cal, signin, mail, withdrawn, mishaps>>
    BY DEF ClearWallet
  <1>2. ~cal.signedIn /\ ~cal.signing /\ signin = "none"
    BY <1>1 DEF Truthful, WalletOK, CalendarTypeOK
  <1>3. CalendarTypeOK' /\ CacheOK(cal)'
    BY <1>1 DEF Truthful, CalendarTypeOK, CacheOK, Present, JobFits, ClearWallet
  <1>4. WalletOK'
    BY <1>1, <1>2 DEF WalletOK, TokenIsKept
  <1>5. ASSUME NEW m \in mail
        PROVE  SyncOK(m)' /\ AuthOK(m)'
    BY <1>1, <1>2, <1>5 DEF Truthful, MailOK, SyncOK, AuthOK
  <1>6. MailOK'
    BY <1>1, <1>5 DEF Truthful, MailOK, OneAnswer
  <1> QED BY <1>3, <1>4, <1>6 DEF Truthful

\* An answer of a synchronisation joins the messages that wait.
LEMMA SyncSent ==
    ASSUME Truthful, Fetching, NEW m \in SyncMail, m.serial = cal.signouts,
           m.result = "ok" => Fits(m.fetched, cal.job),
           mail' = mail \cup {m}, mishaps' \in Nat,
           UNCHANGED <<cal, signin, clearing, token, withdrawn>>
    PROVE  Truthful'
  <1>1. cal \in Worker /\ cal.signouts \in Nat /\ cal.job.active /\ m.kind = "sync"
    BY DEF Truthful, CalendarTypeOK, Worker, Fetching, SyncMail
  <1>2. CalendarTypeOK' /\ CacheOK(cal)' /\ WalletOK'
    BY DEF Truthful, CalendarTypeOK, CacheOK, Present, JobFits, WalletOK, TokenIsKept
  <1>3. ASSUME NEW n \in mail
        PROVE  SyncOK(n)' /\ AuthOK(n)'
    BY <1>3 DEF Truthful, MailOK, SyncOK, AuthOK
  <1>4. SyncOK(m)' /\ AuthOK(m)'
    BY <1>1 DEF SyncOK, AuthOK
  <1>5. OneAnswer'
    BY <1>1 DEF Truthful, MailOK, OneAnswer, Fetching
  <1> QED BY <1>2, <1>3, <1>4, <1>5 DEF Truthful, MailOK

LEMMA SyncKeeps ==
    ASSUME Truthful, Sync
    PROVE  Truthful'
  <1>1. /\ cal \in Worker /\ cal.job \in Job /\ cal.signouts \in Nat
        /\ token \in Accounts \cup {NoAccount} /\ mishaps \in Nat
    BY DEF Truthful, CalendarTypeOK, Worker
  <1>2. CASE SyncSucceeds
    <2>1. PICK owner \in {cal.account, token} \ {NoAccount} :
            \E listed \in SUBSET {id \in Calendars : OwnerOf[id] = owner} :
              Report([kind |-> "sync", serial |-> cal.signouts, result |-> "ok",
                    fetched |-> Fetched(owner, listed)])
      BY <1>2 DEF SyncSucceeds
    <2>2. PICK listed \in SUBSET {id \in Calendars : OwnerOf[id] = owner} :
            Report([kind |-> "sync", serial |-> cal.signouts, result |-> "ok",
                  fetched |-> Fetched(owner, listed)])
      BY <2>1
    <2> DEFINE r == Fetched(owner, listed)
    <2>3. owner \in Accounts /\ listed \in SUBSET Calendars
      BY <1>1 DEF Worker
    <2>4. PrimaryOf[owner] \in Calendars
      BY <2>3, CalendarAssumption
    <2>5. r \in Answer /\ Fits(r, cal.job)
      BY <1>1, <2>3, <2>4 DEF Fetched, Answer, Fits, Job
    <2> HIDE DEF r
    <2>6. PICK m \in SyncMail :
            m = [kind |-> "sync", serial |-> cal.signouts, result |-> "ok", fetched |-> r]
      BY <1>1, <2>5 DEF SyncMail
    <2>7. mail' = mail \cup {m} /\ m.serial = cal.signouts /\ m.fetched = r
      BY <2>2, <2>6 DEF Report, r
    <2>8. Fetching /\ UNCHANGED <<cal, signin, clearing, token, withdrawn, mishaps>>
      BY <1>2 DEF SyncSucceeds
    <2> QED BY <1>1, <2>5, <2>6, <2>7, <2>8, SyncSent
  <1>3. ASSUME NEW result \in {"expired", "offline"}, SyncFails(result)
        PROVE  Truthful'
    <2>1. PICK m \in SyncMail :
            m = [kind |-> "sync", serial |-> cal.signouts, result |-> result]
      BY <1>1, <1>3 DEF SyncMail
    <2>2. mail' = mail \cup {m} /\ m.serial = cal.signouts /\ m.result # "ok"
      BY <1>3, <2>1 DEF SyncFails, Report
    <2>3. /\ Fetching /\ UNCHANGED <<cal, signin, clearing, token, withdrawn>>
          /\ mishaps' \in Nat
      BY <1>1, <1>3 DEF SyncFails
    <2> QED BY <2>1, <2>2, <2>3, SyncSent
  <1> QED BY <1>2, <1>3 DEF Sync

-----------------------------------------------------------------------------
(* The results. *)

\* What merge() leaves is true of the windows that are cached after it.
LEMMA MergeKeeps ==
    ASSUME NEW c \in Worker, NEW job \in Job, NEW r \in Answer,
           c.fetched \subseteq c.selected, Present(c), Fits(r, job),
           job.account = c.account, job.account = NoAccount => job.full,
           job.full => c.windows \subseteq job.windows,
           ~job.full => c.fetched \subseteq job.calendars,
           NEW kept \in SUBSET (Merged(c, job, r).windows \cup job.windows)
    PROVE  LET m == Merged(c, job, r)
           IN  /\ m \in Worker /\ m.job = c.job /\ SameSession(c, m)
               /\ m.windows \in SUBSET Int
               /\ m.fetched \subseteq m.selected
               /\ m.fetched \X Days(kept) \subseteq m.held
  <1> DEFINE other  == c.account \notin {NoAccount, r.owner}
             chosen == IF other THEN {} ELSE c.selected
             now    == (IF r.adopted /\ chosen = {} THEN {PrimaryOf[r.owner]} ELSE chosen)
                           \cap r.listed
             old    == IF other THEN {} ELSE c.fetched
             events == IF other THEN {} ELSE c.held
             cached == IF other THEN {} ELSE c.windows
             done   == Completed(job, r, old)
             new    == r.targets \X Days(job.windows)
             m      == Merged(c, job, r)
  <1>1. /\ PrimaryOf[r.owner] \in Calendars /\ r.owner \in Accounts
        /\ r.targets \subseteq Calendars /\ r.listed \subseteq Calendars
        /\ r.adopted \in BOOLEAN /\ job.windows \subseteq Int
    BY CalendarAssumption DEF Answer, Job
  <1>2. Days(job.windows) \subseteq Int
    BY <1>1, DaysAreDays
  <1>3. /\ now \subseteq Calendars /\ now \subseteq r.listed /\ cached \subseteq Int
        /\ done \subseteq Calendars /\ events \subseteq Calendars \X Int
        /\ new \subseteq Calendars \X Int
    BY <1>1, <1>2 DEF Worker, Completed
  <1>4. m = [c EXCEPT !.account = r.owner, !.listed = r.listed, !.selected = now,
                      !.fetched = done \cap now, !.held = events \cup new,
                      !.windows = cached]
    BY DEF Merged, Worker
  <1> HIDE DEF now, done, events, cached, new
  <1>5. /\ m \in Worker /\ m.job = c.job /\ SameSession(c, m)
        /\ m.selected = now /\ m.fetched = done \cap now
        /\ m.held = events \cup new /\ m.windows = cached
    <2> HIDE DEF m
    <2> QED BY <1>1, <1>3, <1>4 DEF Worker, SameSession
  <1> HIDE DEF m
  <1>6. done \cap now \subseteq r.targets
    <2>1. CASE job.full \/ r.adopted
      BY <2>1 DEF done, Completed
    <2>2. CASE ~(job.full \/ r.adopted)
      <3>1. done = old /\ old \subseteq c.fetched /\ r.targets = job.calendars \cap r.listed
        BY <2>2 DEF done, Completed, Fits
      <3> QED BY <2>2, <3>1, <1>3
    <2> QED BY <2>1, <2>2
  <1>7. cached \subseteq job.windows \/ (done \cap now) \X Days(cached) \subseteq events
    <2>1. CASE job.full \/ other
      BY <2>1 DEF cached
    <2>2. CASE ~job.full /\ ~other
      <3>1. ~r.adopted
        BY <2>2 DEF Fits, other
      <3>2. done = c.fetched /\ cached = c.windows /\ events = c.held
        BY <2>2, <3>1 DEF done, cached, events, Completed
      <3> QED BY <3>2 DEF Present
    <2> QED BY <2>1, <2>2
  <1>8. Days(kept) \subseteq Days(cached) \cup Days(job.windows)
    BY <1>5 DEF Days, m
  <1>9. cached \subseteq job.windows => Days(cached) \subseteq Days(job.windows)
    BY DEF Days
  <1>10. (done \cap now) \X Days(kept) \subseteq events \cup new
    BY <1>6, <1>7, <1>8, <1>9 DEF new
  <1>11. /\ m.windows \in SUBSET Int /\ m.fetched \subseteq m.selected
         /\ m.fetched \X Days(kept) \subseteq m.held
    BY <1>3, <1>5, <1>10
  <1> QED BY <1>5, <1>11 DEF m

\* The worker goes on, without a job, from a true cache.
LEMMA SyncTaken ==
    ASSUME Truthful, NEW m \in mail, Mine(m), m.kind = "sync",
           mail' = mail \ {m}, withdrawn' = withdrawn,
           UNCHANGED <<signin, clearing, token, mishaps>>,
           NEW d \in Worker, CacheOK(d), SameSession(cal, d), Pumps({d})
    PROVE  Truthful'
  <1>1. PICK late \in BOOLEAN : cal' = Pumped(d, late)
    BY DEF Pumps
  <1>2. cal' \in Worker /\ CacheOK(cal') /\ SameSession(cal, cal')
    BY <1>1, PumpKeeps DEF SameSession
  <1>3. CalendarTypeOK'
    BY <1>2 DEF Truthful, CalendarTypeOK
  <1>4. ASSUME NEW n \in mail \ {m}
        PROVE  (n.kind = "sync" => n.serial # cal.signouts) /\ SyncOK(n)' /\ AuthOK(n)'
    <2>1. SyncOK(n) /\ AuthOK(n)
      BY <1>4 DEF Truthful, MailOK
    <2>2. n.kind = "sync" => n.serial # cal.signouts
      BY <1>4 DEF Truthful, MailOK, OneAnswer, Mine
    <2> QED BY <1>2, <2>1, <2>2 DEF SyncOK, AuthOK, SameSession
  <1>5. MailOK'
    BY <1>2, <1>4 DEF MailOK, OneAnswer, SameSession
  <1>6. WalletOK'
    BY <1>2 DEF Truthful, WalletOK, TokenIsKept, SameSession
  <1>7. CacheOK(cal)'
    BY <1>2 DEF CacheOK, Present, JobFits
  <1> QED BY <1>3, <1>5, <1>6, <1>7 DEF Truthful

LEMMA HandleSyncKeeps ==
    ASSUME Truthful, NEW m \in mail, Mine(m), m.kind = "sync", HandleSync(m),
           mail' = mail \ {m}, withdrawn' = withdrawn,
           UNCHANGED <<signin, clearing, token, mishaps>>
    PROVE  Truthful'
  <1> DEFINE c == [cal EXCEPT !.job = NoSync]
  <1>1. /\ cal \in Worker /\ CacheOK(cal) /\ cal.job \in Job /\ cal.job.active
        /\ m \in SyncMail /\ m.serial = cal.signouts
    BY DEF Truthful, CalendarTypeOK, Mine, Worker, SyncMail, AuthMail
  <1>2. NoSync \in Job /\ ~NoSync.active
    BY DEF NoSync, Job
  <1>3. /\ c \in Worker /\ ~c.job.active /\ SameSession(cal, c)
        /\ c.fetched = cal.fetched /\ c.selected = cal.selected
        /\ c.windows = cal.windows /\ c.held = cal.held /\ c.account = cal.account
    BY <1>1, <1>2 DEF Worker, SameSession
  <1>4. CASE m.result = "ok"
    <2> DEFINE merged  == Merged(c, cal.job, m.fetched)
               windows == Upserted(merged.windows, cal.job.windows)
               now     == [merged EXCEPT !.expired = FALSE, !.failing = FALSE]
    <2> DEFINE all == {Pruned([now EXCEPT !.windows = kept]) : kept \in Evicted(c, windows)}
    <2>1. PICK kept \in Evicted(c, windows) : Pumps({Pruned([now EXCEPT !.windows = kept])})
      <3>1. Pumps(all)
        BY <1>4 DEF HandleSync
      <3>2. PICK one \in all : Pumps({one})
        <4> HIDE DEF all
        <4> QED BY <3>1, OnePumps
      <3> QED BY <3>2
    <2>2. kept \in SUBSET (merged.windows \cup cal.job.windows)
      BY <2>1 DEF Evicted, Upserted
    <2>3. m.fetched \in Answer /\ Fits(m.fetched, cal.job)
      BY <1>1, <1>4 DEF SyncMail, Truthful, MailOK, SyncOK
    <2>4. /\ c.fetched \subseteq c.selected /\ Present(c)
          /\ cal.job.account = c.account /\ (cal.job.account = NoAccount => cal.job.full)
          /\ cal.job.full => c.windows \subseteq cal.job.windows
          /\ ~cal.job.full => c.fetched \subseteq cal.job.calendars
      <3> HIDE DEF c
      <3> QED BY <1>1, <1>3 DEF CacheOK, Present, JobFits
    <2> HIDE DEF c
    <2>5. /\ merged \in Worker /\ merged.job = c.job /\ SameSession(c, merged)
          /\ merged.windows \in SUBSET Int
          /\ merged.fetched \subseteq merged.selected
          /\ merged.fetched \X Days(kept) \subseteq merged.held
      BY <1>1, <1>3, <2>2, <2>3, <2>4, MergeKeeps
    <2> HIDE DEF merged
    <2>6. /\ now \in Worker /\ ~now.job.active /\ SameSession(c, now)
          /\ now.fetched \subseteq now.selected
          /\ now.fetched \X Days(kept) \subseteq now.held
      BY <1>3, <2>5 DEF Worker, SameSession
    <2>7. kept \in SUBSET Int
      BY <1>1, <2>2, <2>5 DEF Job
    <2> HIDE DEF now
    <2> DEFINE d == Pruned([now EXCEPT !.windows = kept])
    <2>8. d \in Worker /\ CacheOK(d) /\ SameSession(now, d)
      BY <2>6, <2>7, PruneKeeps
    <2>9. Pumps({d})
      BY <2>1
    <2> HIDE DEF d
    <2> QED BY <1>3, <2>6, <2>8, <2>9, SyncTaken DEF SameSession
  <1>5. CASE m.result # "ok"
    <2> DEFINE expired == cal.expired \/ m.result = "expired"
               wanted  == IF m.result = "expired" THEN {} ELSE cal.wanted \cup cal.job.windows
               d == [c EXCEPT !.failing = TRUE, !.expired = expired, !.wanted = wanted]
    <2>1. expired \in BOOLEAN /\ wanted \in SUBSET Int
      BY <1>1 DEF Worker, Job
    <2>2. Pumps({d})
      BY <1>1, <1>5 DEF HandleSync, Worker
    <2> HIDE DEF c, expired, wanted
    <2>3. /\ d \in Worker /\ ~d.job.active /\ SameSession(cal, d)
          /\ d.fetched = cal.fetched /\ d.selected = cal.selected
          /\ d.windows = cal.windows /\ d.held = cal.held
      BY <1>3, <2>1 DEF Worker, SameSession
    <2> HIDE DEF d
    <2>4. CacheOK(d)
      BY <1>1, <2>3 DEF CacheOK, Present, JobFits
    <2> QED BY <2>2, <2>3, <2>4, SyncTaken
  <1> QED BY <1>4, <1>5

LEMMA HandleSigninKeeps ==
    ASSUME Truthful, NEW m \in mail, Mine(m), m.kind = "auth", HandleSignin(m),
           mail' = mail \ {m}, withdrawn' = IF m.ok THEN FALSE ELSE withdrawn,
           UNCHANGED <<signin, clearing, token, mishaps>>
    PROVE  Truthful'
  <1> DEFINE c == [cal EXCEPT !.signing = FALSE]
             s == [c EXCEPT !.signedIn = TRUE, !.expired = FALSE, !.failing = FALSE,
                            !.force = TRUE, !.wanted = cal.wanted \cup {cal.today}]
  <1>1. /\ cal \in Worker /\ CacheOK(cal) /\ cal.signing /\ m.serial = cal.signins
        /\ m \in AuthMail /\ m.ok \in BOOLEAN
    BY DEF Truthful, CalendarTypeOK, Mine, SyncMail, AuthMail
  <1>2. signin = "none" /\ ~clearing /\ (m.ok => token # NoAccount)
    BY <1>1 DEF Truthful, MailOK, AuthOK, WalletOK, CalendarTypeOK
  <1>3. /\ c \in Worker /\ ~c.signing /\ c.signedIn = cal.signedIn
        /\ c.signins = cal.signins /\ c.signouts = cal.signouts /\ c.job = cal.job
        /\ c.fetched = cal.fetched /\ c.selected = cal.selected
        /\ c.windows = cal.windows /\ c.held = cal.held /\ c.account = cal.account
        /\ c.wanted = cal.wanted /\ c.today = cal.today
    BY <1>1 DEF Worker
  <1>4. Pumps(IF m.ok THEN Persisted(s) ELSE {c})
    BY <1>3 DEF HandleSignin
  <1> HIDE DEF c
  <1>5. /\ s \in Worker /\ ~s.signing
        /\ s.signins = cal.signins /\ s.signouts = cal.signouts /\ s.job = cal.job
        /\ s.fetched = cal.fetched /\ s.selected = cal.selected
        /\ s.windows = cal.windows /\ s.held = cal.held /\ s.account = cal.account
    BY <1>1, <1>3 DEF Worker
  <1> HIDE DEF s
  <1>6. CacheOK(c) /\ CacheOK(s)
    BY <1>1, <1>3, <1>5, SameCache
  <1>7. PICK d \in IF m.ok THEN Persisted(s) ELSE {c} : Pumps({d})
    BY <1>4 DEF Pumps
  <1>8. /\ d \in Worker /\ CacheOK(d) /\ ~d.signing /\ d.job = cal.job
        /\ d.signins = cal.signins /\ d.signouts = cal.signouts
        /\ ~m.ok => d.signedIn = cal.signedIn
    BY <1>3, <1>5, <1>6, <1>7, PersistKeeps DEF SameSession
  <1>9. PICK late \in BOOLEAN : cal' = Pumped(d, late)
    BY <1>7 DEF Pumps
  <1>10. /\ cal' \in Worker /\ CacheOK(cal') /\ SameSession(d, cal')
         /\ cal.job.active => cal'.job = cal.job
    BY <1>8, <1>9, PumpKeeps
  <1>11. CalendarTypeOK'
    BY <1>1, <1>10 DEF Truthful, CalendarTypeOK
  <1>12. ASSUME NEW n \in mail
         PROVE  SyncOK(n)' /\ AuthOK(n)'
    BY <1>8, <1>10, <1>12 DEF Truthful, MailOK, SyncOK, AuthOK, SameSession
  <1>13. MailOK'
    BY <1>8, <1>10, <1>12 DEF Truthful, MailOK, OneAnswer, SameSession
  <1>14. WalletOK'
    BY <1>1, <1>2, <1>8, <1>10 DEF Truthful, WalletOK, TokenIsKept, SameSession
  <1>15. CacheOK(cal)'
    BY <1>10 DEF CacheOK, Present, JobFits
  <1> QED BY <1>11, <1>13, <1>14, <1>15 DEF Truthful

LEMMA HandleKeeps ==
    ASSUME Truthful, HandleAny
    PROVE  Truthful'
  <1>1. PICK m \in mail : HandleMail(m)
    BY DEF HandleAny
  <1>2. /\ mail' = mail \ {m} /\ UNCHANGED <<signin, clearing, token, mishaps>>
        /\ withdrawn' = IF Mine(m) /\ m.kind = "auth" /\ m.ok THEN FALSE ELSE withdrawn
    BY <1>1 DEF HandleMail
  <1>3. m.kind \in {"sync", "auth"}
    BY DEF Truthful, CalendarTypeOK, SyncMail, AuthMail
  <1>4. CASE ~Mine(m)
    <2>1. UNCHANGED <<cal, withdrawn>>
      BY <1>1, <1>2, <1>4 DEF HandleMail
    <2>2. mail' \subseteq mail /\ UNCHANGED <<cal, signin, clearing, token, mishaps>>
      BY <1>2, <2>1
    <2>3. CalendarTypeOK'
      BY <2>1, <2>2 DEF Truthful, CalendarTypeOK
    <2>4. CacheOK(cal)' /\ WalletOK'
      BY <2>1, <2>2 DEF Truthful, CacheOK, Present, JobFits, WalletOK, TokenIsKept
    <2>5. ASSUME NEW n \in mail
          PROVE  SyncOK(n)' /\ AuthOK(n)'
      BY <2>2, <2>5 DEF Truthful, MailOK, SyncOK, AuthOK
    <2>6. MailOK'
      BY <2>2, <2>5 DEF Truthful, MailOK, OneAnswer
    <2> QED BY <2>3, <2>4, <2>6 DEF Truthful
  <1>5. CASE Mine(m) /\ m.kind = "sync"
    <2>1. HandleSync(m) /\ withdrawn' = withdrawn
      BY <1>1, <1>2, <1>5 DEF HandleMail
    <2> QED BY <1>2, <1>5, <2>1, HandleSyncKeeps
  <1>6. CASE Mine(m) /\ m.kind = "auth"
    <2>1. HandleSignin(m) /\ withdrawn' = IF m.ok THEN FALSE ELSE withdrawn
      BY <1>1, <1>2, <1>6 DEF HandleMail
    <2> QED BY <1>2, <1>6, <2>1, HandleSigninKeeps
  <1> QED BY <1>3, <1>4, <1>5, <1>6

-----------------------------------------------------------------------------
(* The theorems. *)

LEMMA TruthfulInit == CalendarInit => Truthful
  <1> SUFFICES ASSUME CalendarInit PROVE Truthful
    OBVIOUS
  <1>1. Unused \in Worker
    BY CalendarAssumption DEF Unused, Worker, NoSync, Job
  <1>2. /\ ~Unused.signing /\ ~Unused.signedIn /\ ~Unused.job.active
        /\ Unused.fetched = {} /\ Unused.selected = {}
    BY DEF Unused, NoSync
  <1>3. CalendarTypeOK
    BY <1>1 DEF CalendarInit, CalendarTypeOK, NoSignin
  <1>4. CacheOK(cal) /\ MailOK
    BY <1>2 DEF CalendarInit, CacheOK, Present, JobFits, MailOK, OneAnswer
  <1>5. WalletOK
    BY <1>2 DEF CalendarInit, WalletOK, TokenIsKept, NoSignin
  <1> QED BY <1>3, <1>4, <1>5 DEF Truthful

LEMMA TruthfulNext == Truthful /\ [CalendarNext]_calendarVars => Truthful'
  <1> SUFFICES ASSUME Truthful, [CalendarNext]_calendarVars PROVE Truthful'
    OBVIOUS
  <1>1. ASSUME NEW id \in Calendars, SelectCalendar(id) PROVE Truthful'
    BY <1>1, SelectKeeps
  <1>2. ASSUME NEW day \in {cal.today} \cup Browsed, LookAt(day) PROVE Truthful'
    <2>1. day \in Int
      BY <1>2, CalendarAssumption DEF Truthful, CalendarTypeOK, Worker
    <2> QED BY <1>2, <2>1, LookAtKeeps
  <1>3. CASE UNCHANGED calendarVars
    <2>1. UNCHANGED <<cal, signin, clearing, token, mail, withdrawn, mishaps>>
      BY <1>3 DEF calendarVars
    <2>2. CalendarTypeOK' /\ CacheOK(cal)' /\ WalletOK'
      BY <2>1 DEF Truthful, CalendarTypeOK, CacheOK, Present, JobFits, WalletOK,
                  TokenIsKept
    <2>3. MailOK'
      BY <2>1, MailStays DEF Truthful
    <2> QED BY <2>2, <2>3 DEF Truthful
  <1> QED BY <1>1, <1>2, <1>3, SetupKeeps, StartKeeps, CancelKeeps, RefreshKeeps,
             DisconnectKeeps, SigninStepKeeps, ClearKeeps, SyncKeeps, HandleKeeps,
             TickStepKeeps, TurnKeeps, RespawnKeeps
          DEF CalendarNext

\* The inductive invariant holds always: what a running job is for still fits the
\* cache it will be merged into, an answer that waits is about that job or about
\* none, and no sign-in overlaps the clearing of the wallet.
THEOREM TruthfulAlways == CalendarSpec => []Truthful
  BY TruthfulInit, TruthfulNext, PTL DEF CalendarSpec

\* A calendar that is not shown as loading has its events in the cache, on every
\* day the cache covers, and a session that is signed in keeps its token: for any
\* accounts, calendars, windows, selections, failures and restarts.
THEOREM CalendarTruth == CalendarSpec => []CalendarIsTrue
  <1>1. Truthful => CalendarIsTrue
    BY DEF Truthful, CacheOK, Present, WalletOK, CalendarIsTrue, FetchedIsPresent
  <1> QED BY <1>1, TruthfulAlways, PTL
=================================================================================
