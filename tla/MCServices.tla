------------------------------ MODULE MCServices ------------------------------
(* Desktop services that must make progress.  They share nothing: a         *)
(* behaviour is of one of them, chosen in its initial state.                *)
EXTENDS Caffeinate, Prompt, HomeAssistant, Themes, Processes, Calendar, TLC

CONSTANTS a, b, work, home

CalendarOwners == work :> a @@ home :> b
CalendarPrimaries == a :> work @@ b :> home

\* capture, capture_interactive, stream_stdout (of a command that writes to
\* one output) and a launcher.
FourModes ==
    {[retain |-> TRUE, group |-> TRUE, detach |-> FALSE, pipes |-> Outputs],
     [retain |-> TRUE, group |-> FALSE, detach |-> FALSE, pipes |-> {"out"}],
     [retain |-> FALSE, group |-> TRUE, detach |-> FALSE, pipes |-> {"out"}],
     [retain |-> FALSE, group |-> TRUE, detach |-> TRUE, pipes |-> {}]}

VARIABLE subject

vars == <<subject, caffeinateVars, promptVars, homeVars, themesVars,
          processesVars, calendarVars>>

Init ==
    /\ subject \in {"caffeinate", "prompt", "home", "themes", "processes",
                    "calendar"}
    /\ CaffeinateInit /\ PromptInit /\ HomeInit /\ ThemesInit
    /\ ProcessesInit /\ CalendarInit

\* Bounds: of a restart, two changes asked for and one made by hand, three happen
\* at the home; of two commands, two faults and a build, three happen to the
\* themes, and with two faults no build.
Next ==
    /\ UNCHANGED subject
    /\ \/ /\ subject = "caffeinate" /\ CaffeinateNext
          /\ UNCHANGED <<promptVars, homeVars, themesVars, processesVars,
                         calendarVars>>
       \/ /\ subject = "prompt" /\ PromptNext
          /\ UNCHANGED <<caffeinateVars, homeVars, themesVars, processesVars,
                         calendarVars>>
       \/ /\ subject = "home" /\ HomeNext
          /\ live'.generation + serial' + changes' <= 4
          /\ UNCHANGED <<caffeinateVars, promptVars, themesVars, processesVars,
                         calendarVars>>
       \/ /\ subject = "themes" /\ ThemesNext
          /\ used'.faults + used'.builds <= 2
          /\ used'.commands + used'.faults + used'.builds <= 3
          /\ UNCHANGED <<caffeinateVars, promptVars, homeVars, processesVars,
                         calendarVars>>
       \/ /\ subject = "processes" /\ ProcessesNext
          /\ UNCHANGED <<caffeinateVars, promptVars, homeVars, themesVars,
                         calendarVars>>
       \/ /\ subject = "calendar" /\ CalendarNext
          /\ UNCHANGED <<caffeinateVars, promptVars, homeVars, themesVars, processesVars>>

\* A service that does not move owes nothing.
Fairness ==
    \/ subject = "caffeinate" /\ CaffeinateFairness
    \/ subject = "prompt" /\ PromptFairness
    \/ subject = "home" /\ HomeFairness
    \/ subject = "themes" /\ ThemesFairness
    \/ subject = "processes" /\ ProcessesFairness
    \/ subject = "calendar" /\ CalendarFairness

Spec == Init /\ [][Next]_vars /\ Fairness
===============================================================================
