--------------------------------- MODULE Ports ---------------------------------
(***************************************************************************)
(* The port inspector: projects/tools/src/ports/worker.rs, model.rs and    *)
(* privileged.rs, and signal_checked of projects/runtime/src/process.rs.   *)
(*                                                                         *)
(* The user reviews who listens on a socket and asks to stop that service  *)
(* or process; if the listener is still there, it may be forced.  A review *)
(* is a token with the whole decision.  Meanwhile processes start, end,    *)
(* share and close sockets, and process ids are used again.                *)
(*                                                                         *)
(* Abstractions.  Inodes are not used again, and a socket's binding goes   *)
(* with its inode.  A process holds one socket.  A row shown to the user   *)
(* may be old, so any process may be selected.  What a stopped process     *)
(* does about it is up to the process.  Queries, snapshots, disclosures    *)
(* and the limits of the worker's tables are left out.                     *)
(***************************************************************************)
EXTENDS Naturals, FiniteSets

CONSTANTS
    Pids,        \* process ids
    Bodies,      \* what a process may be: its user and its service
    NoService,   \* the service of a process that belongs to none
    NoProcess,   \* a pid that is not used, a selection of none
    MaxBirths, MaxSockets, MaxPlans, MaxStops   \* bounds

Managers == {"system", "mine", "theirs"}   \* who runs a service
Users == {"me", "other"}

\* A service is known by its name and its manager.
IsService(s) == s.manager \in Managers /\ s = [name |-> s.name, manager |-> s.manager]

ASSUME PortsAssumption ==
    /\ \A b \in Bodies : b.uid \in Users /\
          (b.service = NoService \/ IsService(b.service))
    /\ NoProcess \notin Pids
    /\ MaxBirths \in Nat /\ MaxSockets \in Nat /\ MaxPlans \in Nat /\ MaxStops \in Nat

VARIABLES
    proc,        \* the process with each pid: its birth, body and socket (0: none)
    births,      \* processes so far
    sockets,     \* the user who made each socket so far
    selections,   \* the process selected among the owners of each socket
    identities,  \* what authorized lookups said about each socket
    escalations, \* the reviews that may be forced
    worker,      \* the stop under way
    issued,      \* history: every review and the service it disclosed
    asked,       \* stops so far
    hits         \* history: what was signalled or stopped, for which review

portsVars == <<proc, births, sockets, selections, identities, escalations, worker,
               issued, asked, hits>>

Inodes == 1..MaxSockets

NoStop == [pc |-> "rest", token |-> NoProcess, force |-> FALSE, pinned |-> 0]

-----------------------------------------------------------------------------
(* The machine. *)

Alive == {p \in Pids : proc[p] # NoProcess}

Holders(inode) == {p \in Alive : proc[p].socket = inode}

Listening(inode) == Holders(inode) # {}

\* A process starts, and may inherit the socket of another.
Spawn(p) ==
    /\ p \notin Alive /\ births < MaxBirths
    /\ \E body \in Bodies, socket \in {0} \cup {proc[q].socket : q \in Alive} :
         proc' = [proc EXCEPT ![p] = [birth |-> births + 1, uid |-> body.uid,
                                      service |-> body.service, socket |-> socket]]
    /\ births' = births + 1
    /\ UNCHANGED <<sockets, selections, identities, escalations, worker, issued,
                   asked, hits>>

Listen(p) ==
    /\ p \in Alive /\ proc[p].socket = 0
    /\ Cardinality(DOMAIN sockets) < MaxSockets
    /\ LET inode == Cardinality(DOMAIN sockets) + 1
       IN /\ sockets' = [i \in 1..inode |-> IF i = inode THEN proc[p].uid ELSE sockets[i]]
          /\ proc' = [proc EXCEPT ![p].socket = inode]
    /\ UNCHANGED <<births, selections, identities, escalations, worker, issued, asked,
                   hits>>

CloseSocket(p) ==
    /\ p \in Alive /\ proc[p].socket # 0
    /\ proc' = [proc EXCEPT ![p].socket = 0]
    /\ UNCHANGED <<births, sockets, selections, identities, escalations, worker,
                   issued, asked, hits>>

EndProcess(p) ==
    /\ p \in Alive
    /\ proc' = [proc EXCEPT ![p] = NoProcess]
    /\ UNCHANGED <<births, sockets, selections, identities, escalations, worker,
                   issued, asked, hits>>

-----------------------------------------------------------------------------
(* A scan, and the decision it supports. *)

Visible(inode) == {p \in Holders(inode) : proc[p].uid = "me"}

\* A remembered identity counts while the process it named lives.
Owners(inode) ==
    IF Visible(inode) # {} THEN Visible(inode)
    ELSE {p \in Alive : <<p, proc[p].birth>> \in identities[inode]}

Scope(service) == IF service.manager = "system" THEN "system" ELSE "user"

\* The sessions of two users look alike.
OneService(owners) ==
    /\ owners # {}
    /\ \A p, q \in owners :
          /\ proc[p].service # NoService
          /\ proc[p].service.name = proc[q].service.name
          /\ Scope(proc[p].service) = Scope(proc[q].service)

Token(inode, kind, unit, scope, p) ==
    [inode |-> inode, kind |-> kind, unit |-> unit, scope |-> scope, pid |-> p,
     start |-> IF p = NoProcess THEN 0 ELSE proc[p].birth,
     uid |-> IF p = NoProcess THEN sockets[inode] ELSE proc[p].uid]

\* The process a row leads with.
Lead(inode) ==
    IF selections[inode] \in Owners(inode) THEN {selections[inode]}
    ELSE IF Cardinality(Owners(inode)) = 1 THEN Owners(inode)
    ELSE {}

ServiceOf(inode) == proc[CHOOSE p \in Owners(inode) : TRUE].service

\* The reviews a socket supports: none if its owner is unknown or ambiguous.
Reviews(inode) ==
    IF ~Listening(inode) THEN {}
    ELSE IF OneService(Owners(inode))
    THEN {Token(inode, "service", ServiceOf(inode).name, Scope(ServiceOf(inode)),
                NoProcess)}
    ELSE {Token(inode, "process", NoService, "", p) : p \in Lead(inode)}

-----------------------------------------------------------------------------
(* The panel. *)

Plan(inode) ==
    /\ worker.pc = "rest" /\ Cardinality(issued) < MaxPlans
    /\ \E token \in Reviews(inode) :
         issued' = issued \cup
           {[token |-> token,
             service |-> IF token.kind = "service" THEN ServiceOf(inode) ELSE NoService]}
    /\ UNCHANGED <<proc, births, sockets, selections, identities, escalations, worker,
                   asked, hits>>

SelectOwner(inode, p) ==
    /\ worker.pc = "rest" /\ Listening(inode)
    /\ selections' = [selections EXCEPT ![inode] = p]
    /\ UNCHANGED <<proc, births, sockets, identities, escalations, worker, issued,
                   asked, hits>>

\* The owners of another user's socket are looked up with authentication.
Identify(inode) ==
    /\ worker.pc = "rest" /\ Listening(inode)
    /\ Owners(inode) = {} /\ sockets[inode] = "other"
    /\ identities' = [identities EXCEPT ![inode] =
                         {<<p, proc[p].birth>> : p \in Holders(inode)}]
    /\ UNCHANGED <<proc, births, sockets, selections, escalations, worker, issued,
                   asked, hits>>

\* Closing the panel forgets everything.
ClosePanel ==
    /\ worker.pc = "rest"
    /\ selections' = [i \in Inodes |-> NoProcess]
    /\ identities' = [i \in Inodes |-> {}]
    /\ escalations' = {}
    /\ UNCHANGED <<proc, births, sockets, worker, issued, asked, hits>>

-----------------------------------------------------------------------------
(* stop(): the worker does one at a time, while the machine goes on. *)

Goes(pc) == worker' = [worker EXCEPT !.pc = pc]

Refuse == worker' = NoStop

\* A review may be confirmed long after it was made; it must still be the one
\* that the socket supports, and force needs a graceful attempt that failed.
StartStop(token, force) ==
    /\ worker.pc = "rest" /\ asked < MaxStops
    /\ force => token \in escalations
    /\ token \in Reviews(token.inode)
    /\ worker' = [pc |-> "act", token |-> token, force |-> force, pinned |-> 0]
    /\ asked' = asked + 1
    /\ UNCHANGED <<proc, births, sockets, selections, identities, escalations, issued,
                   hits>>

Hit(reached) ==
    hits' = hits \cup {[token |-> worker.token, force |-> worker.force,
                        reached |-> reached]}

\* A service of the user: systemctl --user.
StopUserService ==
    /\ worker.pc = "act" /\ worker.token.kind = "service" /\ worker.token.scope = "user"
    /\ Hit([name |-> worker.token.unit, manager |-> "mine"]) /\ Goes("wait")
    /\ UNCHANGED <<proc, births, sockets, selections, identities, escalations, issued,
                   asked>>

\* Every process that holds the socket belongs to the reviewed service.
AllOfUnit(token) ==
    /\ Listening(token.inode)
    /\ \A p \in Holders(token.inode) :
          proc[p].service = [name |-> token.unit, manager |-> "system"]

\* The helper runs after the authentication, which may take minutes.
StopSystemService ==
    /\ worker.pc = "act" /\ worker.token.kind = "service" /\ worker.token.scope = "system"
    /\ AllOfUnit(worker.token)
    /\ Hit([name |-> worker.token.unit, manager |-> "system"]) /\ Goes("wait")
    /\ UNCHANGED <<proc, births, sockets, selections, identities, escalations, issued,
                   asked>>

\* Mutant of Unchanged: the start time is not compared.
UnchangedButBirth(token) ==
    /\ token.pid \in Alive
    /\ proc[token.pid].uid = token.uid
    /\ proc[token.pid].socket = token.inode

Unchanged(token) ==
    /\ token.pid \in Alive
    /\ proc[token.pid].birth = token.start
    /\ proc[token.pid].uid = token.uid
    /\ proc[token.pid].socket = token.inode

CheckProcess ==
    /\ worker.pc = "act" /\ worker.token.kind = "process"
    /\ IF Unchanged(worker.token) THEN Goes("pin") ELSE Refuse
    /\ UNCHANGED <<proc, births, sockets, selections, identities, escalations, issued,
                   asked, hits>>

\* pidfd_open: the process that has the pid now.
PinProcess ==
    /\ worker.pc = "pin"
    /\ IF worker.token.pid \in Alive
       THEN worker' = [worker EXCEPT !.pc = "validate",
                                     !.pinned = proc[worker.token.pid].birth]
       ELSE Refuse
    /\ UNCHANGED <<proc, births, sockets, selections, identities, escalations, issued,
                   asked, hits>>

Validate ==
    /\ worker.pc = "validate"
    /\ IF Unchanged(worker.token) THEN Goes("send") ELSE Refuse
    /\ UNCHANGED <<proc, births, sockets, selections, identities, escalations, issued,
                   asked, hits>>

\* The signal goes to the pinned process, if that lives.
SendSignal ==
    /\ worker.pc = "send"
    /\ IF \E p \in Alive : proc[p].birth = worker.pinned
       THEN Hit(worker.pinned) /\ Goes("wait")
       ELSE Refuse /\ UNCHANGED hits
    /\ UNCHANGED <<proc, births, sockets, selections, identities, escalations, issued,
                   asked>>

\* The authentication is refused, systemctl fails, or the helper finds another
\* owner.
ActFails ==
    /\ worker.pc = "act"
    /\ Refuse
    /\ UNCHANGED <<proc, births, sockets, selections, identities, escalations, issued,
                   asked, hits>>

\* Whether the listener is gone decides whether force is offered.
EndStop ==
    /\ worker.pc = "wait"
    /\ escalations' = IF ~Listening(worker.token.inode) THEN escalations \ {worker.token}
                      ELSE IF worker.force THEN escalations
                      ELSE escalations \cup {worker.token}
    /\ worker' = NoStop
    /\ UNCHANGED <<proc, births, sockets, selections, identities, issued, asked, hits>>

StopStep ==
    \/ StopUserService \/ StopSystemService \/ ActFails
    \/ CheckProcess \/ PinProcess \/ Validate \/ SendSignal \/ EndStop

PortsInit ==
    /\ proc = [p \in Pids |-> NoProcess]
    /\ births = 0
    /\ sockets = <<>>
    /\ selections = [i \in Inodes |-> NoProcess]
    /\ identities = [i \in Inodes |-> {}]
    /\ escalations = {}
    /\ worker = NoStop
    /\ issued = {} /\ hits = {} /\ asked = 0

PortsNext ==
    \/ \E p \in Pids : Spawn(p) \/ Listen(p) \/ CloseSocket(p) \/ EndProcess(p)
    \/ \E i \in DOMAIN sockets :
         \/ Plan(i) \/ Identify(i)
         \/ \E p \in Pids \cup {NoProcess} : SelectOwner(i, p)
    \/ \E r \in issued, force \in BOOLEAN : StartStop(r.token, force)
    \/ ClosePanel
    \/ StopStep

PortsSpec == PortsInit /\ [][PortsNext]_portsVars

-----------------------------------------------------------------------------

\* However processes end and their ids, names and sockets go to others while the
\* user reads, confirms and authenticates: a signal reaches only the process that
\* was reviewed, a stop only the service that was, and force only what was asked
\* to stop before under the same review.  (A service of another user's session
\* is an exception: it is taken for one of the same name of our own.)
StopsOnlyReviewed ==
    \A h \in hits :
        /\ IF h.token.kind = "process" THEN h.reached = h.token.start
           ELSE \E r \in issued :
                  /\ r.token = h.token
                  /\ r.service = h.reached \/ r.service.manager = "theirs"
        /\ h.force => \E g \in hits : ~g.force /\ g.token = h.token
===============================================================================
