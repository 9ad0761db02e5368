------------------------------- MODULE MCThemes -------------------------------
(* The theme switcher with the hour at which a mode was last chosen by hand. *)
EXTENDS Themes

VARIABLE chosen    \* 0: never

MCInit == ThemesInit /\ chosen = 0

MCNext ==
    /\ ThemesNext
    /\ chosen' = IF ChooseMode THEN now ELSE chosen

MCSpec == MCInit /\ [][MCNext]_<<themesVars, chosen>>

-----------------------------------------------------------------------------

\* "A mode chosen by hand holds until the next boundary rather than being undone
\* at the next check": the scheduler changes the mode only when a boundary has
\* passed since one was chosen.
ChoiceHolds ==
    [][chosen # 0 /\ TickSchedule /\ prefs'.mode # Preferences.mode =>
         \E b \in Darkens \cup Lightens : chosen < b /\ b <= now]_<<themesVars, chosen>>
===============================================================================
