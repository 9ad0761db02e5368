-------------------------------- MODULE Themes --------------------------------
(***************************************************************************)
(* The theme switcher: projects/config-tools/src/themes.rs and the         *)
(* schedule of appearance.rs.                                              *)
(*                                                                         *)
(* A publication writes a whole generation of files, replaces the link     *)
(* `current` through which applications read one, and then records the     *)
(* selection that the shell reads.  A directory lock serializes the        *)
(* publications of the pickers ("hand") and of the scheduler ("follow");   *)
(* what a process read before it had the lock may be stale.                *)
(*                                                                         *)
(* Abstractions.  The catalog does not change, and its themes are known to *)
(* be readable.  Motion, sound, reloads and replies publish nothing.       *)
(* Hours are numbered; at some the schedule has a boundary.                *)
(***************************************************************************)
EXTENDS Naturals, FiniteSetsExt

CONSTANTS
    DarkThemes, LightThemes, Default,   \* the catalog
    Darkens, Lightens,   \* the hours whose boundary wants dark, light
    Window,              \* how far the schedule looks back (WINDOW_DAYS)
    Polar,               \* the mode it falls back to
    FirstHour, LastHour,
    Generations,         \* names of generations
    NoFile,              \* no file, no link, no directory
    MaxCommands, MaxFaults, MaxBuilds   \* bounds

Catalog == DarkThemes \cup LightThemes
Modes == {"dark", "light"}

ASSUME ThemesAssumption ==
    /\ DarkThemes # {} /\ LightThemes # {} /\ DarkThemes \cap LightThemes = {}
    /\ Default \in Catalog
    /\ Darkens \subseteq Nat /\ Lightens \subseteq Nat /\ Darkens \cap Lightens = {}
    /\ Window \in Nat /\ FirstHour \in Nat /\ LastHour \in Nat
    /\ Window < FirstHour
    /\ Polar \in Modes
    /\ NoFile \notin Catalog \cup Generations \cup [theme : Catalog, whole : BOOLEAN]

VARIABLES
    prefs,      \* preferences.json: slots, mode, schedule and its last boundary
    selection,  \* selection.json: the theme the shell shows
    current,    \* the link: the generation the applications read
    dirs,       \* the generations: their theme, and whether all files are there
    publisher,  \* the progress of the two processes
    now,        \* the clock
    following,  \* the scheduler runs
    building,   \* a nix build runs
    used,       \* commands, faults and builds so far
    torn,       \* history: a publication stopped between link and selection
    stranded    \* history: taking the link back failed

themesVars == <<prefs, selection, current, dirs, publisher, now, following,
                building, used, torn, stranded>>

Processes == {"hand", "follow"}

Idle == [pc |-> "idle", at |-> 0, theme |-> NoFile, new |-> NoFile, old |-> NoFile]

ModeOf(theme) == IF theme \in DarkThemes THEN "dark" ELSE "light"

DefaultFor(mode) ==
    IF ModeOf(Default) = mode THEN Default
    ELSE CHOOSE theme \in Catalog : ModeOf(theme) = mode

Defaults == [slot |-> [mode \in Modes |-> DefaultFor(mode)], mode |-> ModeOf(Default),
             auto |-> FALSE, last |-> 0]

Applied(saved) == saved.slot[saved.mode]

Shown == IF selection = NoFile THEN Default ELSE selection

\* Without preferences, the selection becomes the slot of its own mode.
Preferences ==
    IF prefs # NoFile THEN prefs
    ELSE [Defaults EXCEPT !.slot[ModeOf(Shown)] = Shown, !.mode = ModeOf(Shown)]

-----------------------------------------------------------------------------
(* The schedule, as it is at an hour. *)

Recent(at) == {b \in Darkens \cup Lightens : b <= at /\ at <= b + Window}

Since(at) == IF Recent(at) = {} THEN at - Window ELSE Max(Recent(at))

WantedMode(at) ==
    IF Recent(at) = {} THEN Polar
    ELSE IF Since(at) \in Darkens THEN "dark" ELSE "light"

-----------------------------------------------------------------------------
(* One locked step. *)

Unlocked == \A p \in Processes : publisher[p].pc \in {"idle", "waiting"}

Use(what) == used' = [used EXCEPT ![what] = @ + 1]

\* Mutant of Stale: a theme is published when the preferences changed.
StaleIfChanged(after) == after # prefs

\* What the mode wants differs from what is on screen.
Stale(after) == Shown # Applied(after)

\* The preferences are saved if they changed or there were none, then a theme
\* is published if it has to be.
Save(p, after, force) ==
    /\ publisher[p].pc = "waiting" /\ Unlocked
    /\ prefs' = after
    /\ publisher' = [publisher EXCEPT ![p] =
                        IF force \/ Stale(after)
                        THEN [Idle EXCEPT !.pc = "create", !.theme = Applied(after)]
                        ELSE Idle]
    /\ UNCHANGED <<selection, current, dirs, now, following, building, used,
                   torn, stranded>>

\* The save fails, before or after it replaced the file.
SaveFails(p, after) ==
    /\ publisher[p].pc = "waiting" /\ Unlocked
    /\ after # prefs /\ used.faults < MaxFaults
    /\ prefs' \in {prefs, after}
    /\ publisher' = [publisher EXCEPT ![p] = Idle]
    /\ Use("faults")
    /\ UNCHANGED <<selection, current, dirs, now, following, building, torn, stranded>>

Edit(p, after, force) == Save(p, after, force) \/ SaveFails(p, after)

\* A picker is started; which command it is matters once it has the lock.
StartCommand ==
    /\ publisher["hand"].pc = "idle"
    /\ used.commands < MaxCommands
    /\ publisher' = [publisher EXCEPT !["hand"].pc = "waiting", !["hand"].at = now]
    /\ Use("commands")
    /\ UNCHANGED <<prefs, selection, current, dirs, now, following, building, torn,
                   stranded>>

SetTheme(theme) ==
    Edit("hand", [Preferences EXCEPT !.slot[Preferences.mode] = theme], TRUE)

Pick(theme) ==
    Edit("hand", [Preferences EXCEPT !.slot[ModeOf(theme)] = theme,
                                     !.mode = ModeOf(theme)], FALSE)

Slot(mode, theme) == Edit("hand", [Preferences EXCEPT !.slot[mode] = theme], FALSE)

SetMode(mode) == Edit("hand", [Preferences EXCEPT !.mode = mode], FALSE)

Restore(mode, slots) ==
    Edit("hand", [Preferences EXCEPT !.mode = mode, !.slot = slots], FALSE)

AutoOff == Edit("hand", [Preferences EXCEPT !.auto = FALSE], FALSE)

\* The schedule is turned on, and the desktop put where it said when the
\* command was given.
AutoOn ==
    LET at == publisher["hand"].at
    IN Edit("hand", [Preferences EXCEPT !.auto = TRUE, !.mode = WantedMode(at),
                                        !.last = Since(at)], FALSE)

\* Activation publishes what is chosen, again.
Activate == Edit("hand", Preferences, TRUE)

Reset == Edit("hand", Defaults, TRUE)

-----------------------------------------------------------------------------
(* The scheduler. *)

Login ==
    /\ ~following
    /\ following' = TRUE
    /\ UNCHANGED <<prefs, selection, current, dirs, publisher, now, building, used,
                   torn, stranded>>

\* A running build holds the step.
Wake ==
    /\ following /\ ~building
    /\ publisher["follow"].pc = "idle"
    /\ publisher' = [publisher EXCEPT !["follow"].pc = "waiting", !["follow"].at = now]
    /\ UNCHANGED <<prefs, selection, current, dirs, now, following, building, used,
                   torn, stranded>>

\* Mutant of AfterTick: the boundary is not recorded.
AfterTickAgain(at) ==
    IF Preferences.auto /\ Since(at) > Preferences.last
    THEN [Preferences EXCEPT !.mode = WantedMode(at)]
    ELSE Preferences

\* A boundary that is newer than the last one acted on sets the mode.
AfterTick(at) ==
    IF Preferences.auto /\ Since(at) > Preferences.last
    THEN [Preferences EXCEPT !.mode = WantedMode(at), !.last = Since(at)]
    ELSE Preferences

TickSchedule == Edit("follow", AfterTick(publisher["follow"].at), FALSE)

-----------------------------------------------------------------------------
(* publish(), under the lock. *)

\* A generation of a fresh name.
Create(p) ==
    /\ publisher[p].pc = "create"
    /\ LET free == {g \in Generations : dirs[g] = NoFile /\ g # current}
           new == CHOOSE g \in free : TRUE
       IN /\ free # {}
          /\ publisher' = [publisher EXCEPT ![p].pc = "fill", ![p].new = new]
          /\ dirs' = [dirs EXCEPT ![new] = [theme |-> publisher[p].theme, whole |-> FALSE]]
    /\ UNCHANGED <<prefs, selection, current, now, following, building, used, torn,
                   stranded>>

Fill(p) ==
    /\ publisher[p].pc = "fill"
    /\ dirs' = [dirs EXCEPT ![publisher[p].new].whole = TRUE]
    /\ publisher' = [publisher EXCEPT ![p].pc = "switch"]
    /\ UNCHANGED <<prefs, selection, current, now, following, building, used, torn,
                   stranded>>

\* An error before the link is replaced removes the new generation.
Abandon(p) ==
    /\ publisher[p].pc \in {"fill", "switch"}
    /\ used.faults < MaxFaults /\ Use("faults")
    /\ dirs' = [dirs EXCEPT ![publisher[p].new] = NoFile]
    /\ publisher' = [publisher EXCEPT ![p] = Idle]
    /\ UNCHANGED <<prefs, selection, current, now, following, building, torn, stranded>>

\* The link is replaced by a rename.
Switch(p) ==
    /\ publisher[p].pc = "switch"
    /\ current' = publisher[p].new
    /\ publisher' = [publisher EXCEPT ![p].pc = "record", ![p].old = current]
    /\ UNCHANGED <<prefs, selection, dirs, now, following, building, used, torn,
                   stranded>>

Record(p) ==
    /\ publisher[p].pc = "record"
    /\ selection' = publisher[p].theme
    /\ torn' = FALSE
    /\ stranded' = FALSE
    /\ publisher' = [publisher EXCEPT ![p].pc = "finish"]
    /\ UNCHANGED <<prefs, current, dirs, now, following, building, used>>

\* The save fails, before or after it replaced the file.
RecordFails(p) ==
    /\ publisher[p].pc = "record"
    /\ used.faults < MaxFaults /\ Use("faults")
    /\ selection' \in {selection, publisher[p].theme}
    /\ torn' = (torn \/ selection' # selection)
    /\ publisher' = [publisher EXCEPT ![p].pc = "undo"]
    /\ UNCHANGED <<prefs, current, dirs, now, following, building, stranded>>

\* The link goes back to the generation before, or away.
Undo(p) ==
    /\ publisher[p].pc = "undo"
    /\ current' = publisher[p].old
    /\ dirs' = [dirs EXCEPT ![publisher[p].new] = NoFile]
    /\ publisher' = [publisher EXCEPT ![p] = Idle]
    /\ UNCHANGED <<prefs, selection, now, following, building, used, torn, stranded>>

\* That fails too; the new generation is removed all the same.
UndoFails(p) ==
    /\ publisher[p].pc = "undo"
    /\ used.faults < MaxFaults /\ Use("faults")
    /\ dirs' = [dirs EXCEPT ![publisher[p].new] = NoFile]
    /\ publisher' = [publisher EXCEPT ![p] = Idle]
    /\ torn' = TRUE
    /\ stranded' = TRUE
    /\ UNCHANGED <<prefs, selection, current, now, following, building>>

\* Mutant of Leftover: the names are mixed up.
LeftoverNew(p) == publisher[p].new

Leftover(p) == publisher[p].old

\* The generation before is removed, and the lock released.
Finish(p) ==
    /\ publisher[p].pc = "finish"
    /\ dirs' = [g \in Generations |-> IF g = Leftover(p) THEN NoFile ELSE dirs[g]]
    /\ publisher' = [publisher EXCEPT ![p] = Idle]
    /\ UNCHANGED <<prefs, selection, current, now, following, building, used, torn,
                   stranded>>

\* The process dies, and the lock with it; the scheduler is started again.
Die(p) ==
    /\ publisher[p].pc # "idle"
    /\ used.faults < MaxFaults /\ Use("faults")
    /\ publisher' = [publisher EXCEPT ![p] = Idle]
    /\ torn' = (torn \/ publisher[p].pc \in {"record", "undo"})
    /\ UNCHANGED <<prefs, selection, current, dirs, now, following, building, stranded>>

-----------------------------------------------------------------------------

TimePasses ==
    /\ now < LastHour
    /\ now' = now + 1
    /\ UNCHANGED <<prefs, selection, current, dirs, publisher, following, building,
                   used, torn, stranded>>

BuildStarts ==
    /\ ~building /\ used.builds < MaxBuilds
    /\ building' = TRUE
    /\ Use("builds")
    /\ UNCHANGED <<prefs, selection, current, dirs, publisher, now, following, torn,
                   stranded>>

BuildEnds ==
    /\ building
    /\ building' = FALSE
    /\ UNCHANGED <<prefs, selection, current, dirs, publisher, now, following, used,
                   torn, stranded>>

ThemesInit ==
    /\ prefs = NoFile /\ selection = NoFile /\ current = NoFile
    /\ dirs = [g \in Generations |-> NoFile]
    /\ publisher = [p \in Processes |-> Idle]
    /\ now = FirstHour
    /\ following = FALSE /\ building = FALSE
    /\ used = [commands |-> 0, faults |-> 0, builds |-> 0]
    /\ torn = FALSE /\ stranded = FALSE

\* The commands that choose a mode.
ChooseMode ==
    \/ \E theme \in Catalog : Pick(theme)
    \/ \E mode \in Modes :
          SetMode(mode) \/ \E slots \in [Modes -> Catalog] : Restore(mode, slots)

Command ==
    \/ ChooseMode
    \/ \E theme \in Catalog :
          SetTheme(theme) \/ \E mode \in Modes : Slot(mode, theme)
    \/ AutoOn \/ AutoOff \/ Activate \/ Reset

Publish(p) ==
    \/ Create(p) \/ Fill(p) \/ Switch(p) \/ Finish(p)
    \/ Record(p) \/ RecordFails(p) \/ Undo(p) \/ UndoFails(p) \/ Abandon(p)

ThemesNext ==
    \/ StartCommand \/ Command
    \/ Login \/ Wake \/ TickSchedule
    \/ \E p \in Processes : Publish(p) \/ Die(p)
    \/ TimePasses \/ BuildStarts \/ BuildEnds

\* Processes run, and builds end; nobody has to give a command.
ThemesFairness ==
    /\ WF_themesVars(Command) /\ WF_themesVars(Publish("hand"))
    /\ WF_themesVars(Wake) /\ WF_themesVars(TickSchedule) /\ WF_themesVars(Publish("follow"))
    /\ WF_themesVars(BuildEnds)

ThemesSpec == ThemesInit /\ [][ThemesNext]_themesVars /\ ThemesFairness

-----------------------------------------------------------------------------

\* The old theme or the new one, never a mix or a part of one: at any moment,
\* a crash included, applications that follow `current` find every file of one
\* generation (unless an undo failed); and while nobody publishes, it is the
\* theme the shell shows (unless a publication was cut short since).
PublishedIsWhole ==
    /\ current # NoFile /\ ~stranded => dirs[current] # NoFile /\ dirs[current].whole
    /\ Unlocked /\ ~torn =>
         IF current = NoFile THEN selection = NoFile
         ELSE dirs[current].theme = selection

\* Whatever failed, died or was given before the scheduler read the clock:
\* once nobody interferes, the scheduler shows the theme of the chosen mode,
\* and the last boundary has had its say.
ThemeSettles ==
    <>[](following => /\ Shown = Applied(Preferences)
                      /\ Preferences.auto => Preferences.last = Since(now))
===============================================================================
