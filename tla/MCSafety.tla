-------------------------------- MODULE MCSafety --------------------------------
(* Parts about which only safety is checked, each in behaviours of its own:  *)
(* two programs that ask for inference about two revisions of one item, a    *)
(* finding with two revisions that is analysed twice, a program and a        *)
(* finding that ask about one item, the notes, the notifications, which are   *)
(* all of one application, the port inspector, and a calendar worker whose   *)
(* user may sign in to two accounts.                                         *)
EXTENDS Clients, Notes, Notifications, Ports, Calendar, TLC

CONSTANTS item, a, b, work, home

Revision(n) == [key |-> item, revision |-> n]

AskedOneItem == a :> Revision(1) @@ b :> Revision(2)
BothRevisions == {Revision(1), Revision(2)}

AllMail == [id \in Ids |-> "mail"]

OwnService == [name |-> "web", manager |-> "mine"]

\* A process of the user with no service and with one of the user's own; a
\* process of another user with none, with a system service and with one of
\* that user's, all of the same name.
PortBodies ==
    [uid : {"me"}, service : {NoService, OwnService}] \cup
    [uid : {"other"}, service : {NoService} \cup
                          [name : {"web"}, manager : {"system", "theirs"}]]

CalendarOwners == work :> a @@ home :> b
CalendarPrimaries == a :> work @@ b :> home

Symmetry == Permutations(JobIds) \cup Permutations(Pids)

VARIABLE subject

vars == <<subject, rpcVars, call, serviceVars, notesVars, notificationVars, portsVars,
          calendarVars>>

Init ==
    /\ subject \in {"programs", "finding", "clients", "notes", "notifications",
                    "ports", "calendar"}
    /\ CallInit /\ AnalysisInit /\ NotesInit /\ NotificationsInit /\ PortsInit
    /\ CalendarInit
    /\ subject # "notes" => editor = NewCapture

\* Bounds: the broker is started again only under the programs; only the first
\* analysis of the finding loses answers, and none while the user revives a job;
\* one program and one analysis meet under the clients, who lose no answer; and
\* the calendar holds no window but today's once there were two sign-ins and a
\* mishap.
Next ==
    /\ UNCHANGED subject
    /\ \/ /\ subject = "programs" /\ CallNext
          /\ UNCHANGED <<serviceVars, notesVars, notificationVars, portsVars, calendarVars>>
       \/ /\ subject = "finding" /\ AnalysisNext
          /\ restarts' = 0 /\ lost' \subseteq Rows \X {1}
          /\ lost' = {} \/ revived' = {}
          /\ UNCHANGED <<call, notesVars, notificationVars, portsVars, calendarVars>>
       \/ /\ subject = "clients" /\ ClientsNext
          /\ restarts' = 0 /\ lost' = {} /\ revived' = {}
          /\ call'[a].pc = "idle" /\ calls'[item] + row'[item].revision <= 2
          /\ UNCHANGED <<notesVars, notificationVars, portsVars, calendarVars>>
       \/ /\ subject = "notes" /\ NotesNext
          /\ UNCHANGED <<rpcVars, call, serviceVars, notificationVars, portsVars, calendarVars>>
       \/ /\ subject = "notifications" /\ NotificationsNext
          /\ UNCHANGED <<rpcVars, call, serviceVars, notesVars, portsVars, calendarVars>>
       \/ /\ subject = "ports" /\ PortsNext
          /\ UNCHANGED <<rpcVars, call, serviceVars, notesVars, notificationVars, calendarVars>>
       \/ /\ subject = "calendar" /\ CalendarNext
          /\ cal'.signins + mishaps' = 3 => cal'.windows \cup cal'.wanted \subseteq {Today}
          /\ UNCHANGED <<rpcVars, call, serviceVars, notesVars, notificationVars, portsVars>>

Spec == Init /\ [][Next]_vars
=================================================================================
