----------------------------- MODULE HomeAssistant -----------------------------
(***************************************************************************)
(* The Home Assistant worker: projects/integrations/src/home_assistant/    *)
(* live.rs (Live, the single owner of what the panel asks for and sees)    *)
(* and connection.rs (the task that keeps the WebSocket).                  *)
(*                                                                         *)
(* The two meet in bounded channels: calls go out, events come back, each  *)
(* tagged with the generation of its connection.  The server and its       *)
(* devices are external: they execute a call or refuse it, report changes  *)
(* in order, and may be cut off at any time.                               *)
(*                                                                         *)
(* Abstractions.  All devices are selected, available and controllable; a  *)
(* change asks for one value of a device.  Preferences, the catalog, rooms *)
(* and the frames written for the panel are left out.  A connection that   *)
(* is set up has subscribed before it asked for the states, so its first   *)
(* snapshot is the states at that time.  Time is left out: a deadline may  *)
(* pass at any time.                                                       *)
(***************************************************************************)
EXTENDS Naturals, Sequences, FiniteSets

CONSTANTS
    Devices,      \* the selected entities
    Settings,     \* what a device may be set to
    CallLimit,    \* queued calls (32)
    EventLimit,   \* queued events (128)
    MaxCalls,     \* bound: changes asked for
    MaxLinks,     \* bound: connections that were set up
    MaxChanges,   \* bound: changes made at the devices by hand
    MaxBreaks,    \* bound: connections that failed or broke
    MaxRestarts   \* bound: restarts

ASSUME HomeAssistantAssumption ==
    /\ CallLimit \in Nat \ {0} /\ EventLimit \in Nat \ {0}
    /\ MaxCalls \in Nat /\ MaxLinks \in Nat /\ MaxChanges \in Nat
    /\ MaxBreaks \in Nat /\ MaxRestarts \in Nat
    /\ Settings # {}

VARIABLES
    live,       \* Live: its generation, connected, the shown states, joining its
                \* task, leaving
    pending,    \* the change each device waits for (serial 0: none)
    serial,     \* changes so far
    calls,      \* the channel to the connection
    events,     \* the channel from it
    link,       \* the connection's task: its step, generation, cancelled
    stream,     \* what the server sent on the open connection and is not read
    device,     \* external: what each device is set to
    changes,    \* external: changes made by hand so far
    breaks,     \* external: connections that failed so far
    links,      \* connections so far
    answered    \* history: what each request was answered

homeVars == <<live, pending, serial, calls, events, link, stream, device, changes,
              breaks, links, answered>>

NoChange == [serial |-> 0, desired |-> CHOOSE v \in Settings : TRUE, accepted |-> FALSE]

Answers(serials, answer) ==
    [n \in 1..MaxCalls |-> IF n \in serials THEN answer ELSE answered[n]]

-----------------------------------------------------------------------------
(* Live. *)

Pending(waiting) == {d \in Devices : waiting[d].serial # 0}

\* Mutant of Confirmed: the service's success is taken for the device's.
ConfirmedByService(waiting, states) == {d \in Pending(waiting) : waiting[d].accepted}

Confirmed(waiting, states) ==
    {d \in Pending(waiting) : waiting[d].accepted /\ states[d] = waiting[d].desired}

\* Mutant of Expired: what the service accepted has no deadline.
ExpiredUnaccepted(waiting, late) == {d \in late \cap Pending(waiting) : ~waiting[d].accepted}

Expired(waiting, late) == late \cap Pending(waiting)

\* settle: the confirmed changes, and those past their deadline, are answered.
Settled(waiting, states, late) ==
    LET done == Confirmed(waiting, states)
        failed == Expired(waiting, late) \ done
    IN /\ pending' = [d \in Devices |-> IF d \in done \cup failed THEN NoChange
                                                                  ELSE waiting[d]]
       /\ answered' = [n \in 1..MaxCalls |->
                         IF n \in {waiting[d].serial : d \in done} THEN "ok"
                         ELSE IF n \in {waiting[d].serial : d \in failed} THEN "failed"
                         ELSE answered[n]]

Ready == ~live.joining

\* A change is asked for: the call goes to the connection, or is refused.
Control(d, v) ==
    /\ Ready
    /\ live.connected
    /\ pending[d].serial = 0
    /\ serial < MaxCalls
    /\ serial' = serial + 1
    /\ IF Len(calls) < CallLimit
         THEN /\ calls' = Append(calls, [serial |-> serial + 1, device |-> d,
                                         desired |-> v, via |-> links])
              /\ pending' = [pending EXCEPT ![d] = [serial |-> serial + 1, desired |-> v,
                                                    accepted |-> FALSE]]
              /\ UNCHANGED answered
         ELSE /\ answered' = Answers({serial + 1}, "failed")
              /\ UNCHANGED <<calls, pending>>
    /\ UNCHANGED <<live, events, link, stream, device, changes, breaks, links>>

Tick(late) ==
    /\ Ready
    /\ Settled(pending, live.states, late)
    /\ UNCHANGED <<live, serial, calls, events, link, stream, device, changes, breaks, links>>

\* Mutant of OfThisGeneration: any event counts.
OfAnyGeneration(event) == TRUE

OfThisGeneration(event) == event.generation = live.generation

Taken(event) ==
    /\ Ready
    /\ events # <<>>
    /\ event = Head(events)
    /\ events' = Tail(events)
    /\ UNCHANGED <<serial, calls, link, stream, device, changes, breaks, links>>

DropEvent(event) ==
    /\ Taken(event)
    /\ ~OfThisGeneration(event)
    /\ UNCHANGED <<live, pending, answered>>

HandleSnapshot(event) ==
    /\ Taken(event) /\ OfThisGeneration(event)
    /\ event.kind = "snapshot"
    /\ live' = [live EXCEPT !.states = event.states, !.connected = TRUE]
    /\ Settled(pending, event.states, {})

HandleState(event) ==
    /\ Taken(event) /\ OfThisGeneration(event)
    /\ event.kind = "state"
    /\ live' = [live EXCEPT !.states[event.device] = event.setting]
    /\ Settled(pending, live'.states, {})

\* Every pending change fails: nobody knows what the device did.
HandleOffline(event) ==
    /\ Taken(event) /\ OfThisGeneration(event)
    /\ event.kind = "offline"
    /\ live' = [live EXCEPT !.connected = FALSE]
    /\ pending' = [d \in Devices |-> NoChange]
    /\ answered' = Answers({pending[d].serial : d \in Pending(pending)}, "failed")

HandleReply(event) ==
    /\ Taken(event) /\ OfThisGeneration(event)
    /\ event.kind = "reply"
    /\ LET whose == {d \in Devices : pending[d].serial = event.serial} IN
         IF event.ok
           THEN Settled([d \in Devices |-> [pending[d] EXCEPT !.accepted = @ \/ d \in whose]],
                        live.states, {})
           ELSE /\ pending' = [d \in Devices |-> IF d \in whose THEN NoChange ELSE pending[d]]
                /\ answered' = IF whose = {} THEN answered
                                             ELSE Answers({event.serial}, "failed")
    /\ UNCHANGED live

\* refresh of a connection that is down, or setup with a new address once
\* nothing is pending: the old task is cancelled and joined, which stops
\* everything else.
Restart(setup) ==
    /\ Ready
    /\ live.generation < MaxRestarts
    /\ IF setup THEN Pending(pending) = {} ELSE ~live.connected
    /\ live' = [live EXCEPT !.generation = @ + 1, !.joining = TRUE]
    /\ link' = [link EXCEPT !.cancelled = TRUE]
    /\ UNCHANGED <<pending, serial, calls, events, stream, device, changes, breaks, links, answered>>

\* The end of the input: the task is cancelled and joined for good.
LeaveHome ==
    /\ Ready
    /\ live' = [live EXCEPT !.joining = TRUE, !.leaving = TRUE]
    /\ link' = [link EXCEPT !.cancelled = TRUE]
    /\ UNCHANGED <<pending, serial, calls, events, stream, device, changes, breaks, links,
                   answered>>

Joined ==
    /\ live.joining /\ ~live.leaving
    /\ link.pc = "none"
    /\ live' = [live EXCEPT !.joining = FALSE, !.connected = FALSE]
    /\ calls' = <<>>
    /\ link' = [pc |-> "connecting", generation |-> live.generation, cancelled |-> FALSE]
    /\ UNCHANGED <<pending, serial, events, stream, device, changes, breaks, links, answered>>

-----------------------------------------------------------------------------
(* The connection's task. *)

EventRoom == Len(events) < EventLimit

\* Mutant of Sends: an event for which there is no room is dropped.
TrySends(event) == events' = IF EventRoom THEN Append(events, event) ELSE events

Sends(event) == EventRoom /\ events' = Append(events, event)

Snapshot == [generation |-> link.generation, kind |-> "snapshot", states |-> device]
Offline == [generation |-> link.generation, kind |-> "offline"]
Reply(n, ok) == [generation |-> link.generation, kind |-> "reply", serial |-> n, ok |-> ok]
State(d, v) == [generation |-> link.generation, kind |-> "state", device |-> d, setting |-> v]

\* Connected, authenticated, subscribed, and the states fetched.
Connect ==
    /\ link.pc = "connecting" /\ ~link.cancelled
    /\ links < MaxLinks
    /\ links' = links + 1
    /\ Sends(Snapshot)
    /\ link' = [link EXCEPT !.pc = "open"]
    /\ stream' = <<>>
    /\ UNCHANGED <<live, pending, serial, calls, device, changes, breaks, answered>>

\* The connection could not be made, or broke.
Break ==
    /\ link.pc \in {"connecting", "open"} /\ ~link.cancelled
    /\ breaks < MaxBreaks
    /\ breaks' = breaks + 1
    /\ link' = [link EXCEPT !.pc = "offline"]
    /\ stream' = <<>>
    /\ UNCHANGED <<live, pending, serial, calls, events, device, changes, links, answered>>

\* A message of the server is passed on.
ReadMessage ==
    /\ link.pc = "open"
    /\ stream # <<>>
    /\ Sends([Head(stream) EXCEPT !.generation = link.generation])
    /\ stream' = Tail(stream)
    /\ UNCHANGED <<live, pending, serial, calls, link, device, changes, breaks, links, answered>>

\* A call is sent; the server executes it and reports the device before or
\* after its success, or refuses it, or says it did and does nothing.
SendCall ==
    /\ link.pc = "open"
    /\ calls # <<>>
    /\ LET call == Head(calls)
           changed == <<State(call.device, call.desired)>>
           done == <<Reply(call.serial, TRUE)>>
       IN \/ /\ device' = [device EXCEPT ![call.device] = call.desired]
             /\ stream' \in {stream \o changed \o done, stream \o done \o changed}
          \/ /\ UNCHANGED device
             /\ stream' \in {Append(stream, Reply(call.serial, ok)) : ok \in BOOLEAN}
    /\ calls' = Tail(calls)
    /\ UNCHANGED <<live, pending, serial, events, link, changes, breaks, links, answered>>

\* Not cancellable.
SendOffline ==
    /\ link.pc = "offline"
    /\ Sends(Offline)
    /\ link' = [link EXCEPT !.pc = "draining"]
    /\ UNCHANGED <<live, pending, serial, calls, stream, device, changes, breaks, links, answered>>

\* The calls that wait fail; neither is this cancellable.
Drain ==
    /\ link.pc = "draining"
    /\ calls # <<>>
    /\ Sends(Reply(Head(calls).serial, FALSE))
    /\ calls' = Tail(calls)
    /\ UNCHANGED <<live, pending, serial, link, stream, device, changes, breaks, links, answered>>

Rest ==
    /\ link.pc = "draining"
    /\ calls = <<>>
    /\ link' = [link EXCEPT !.pc = "resting"]
    /\ UNCHANGED <<live, pending, serial, calls, events, stream, device, changes, breaks, links, answered>>

Reconnect ==
    /\ link.pc = "resting" /\ ~link.cancelled
    /\ link' = [link EXCEPT !.pc = "connecting"]
    /\ UNCHANGED <<live, pending, serial, calls, events, stream, device, changes, breaks, links, answered>>

Cancelled ==
    /\ link.cancelled
    /\ link.pc \in {"connecting", "open", "resting"}
    /\ link' = [link EXCEPT !.pc = "none"]
    /\ stream' = <<>>
    /\ UNCHANGED <<live, pending, serial, calls, events, device, changes, breaks, links, answered>>

-----------------------------------------------------------------------------
(* The devices. *)

\* A device is changed by hand.
Change(d, v) ==
    /\ changes < MaxChanges
    /\ device[d] # v
    /\ device' = [device EXCEPT ![d] = v]
    /\ changes' = changes + 1
    /\ stream' = IF link.pc = "open" THEN Append(stream, State(d, v)) ELSE stream
    /\ UNCHANGED <<live, pending, serial, calls, events, link, breaks, links, answered>>

-----------------------------------------------------------------------------

HomeInit ==
    /\ device = [d \in Devices |-> CHOOSE v \in Settings : TRUE]
    /\ live = [generation |-> 1, connected |-> FALSE, states |-> device, joining |-> FALSE,
               leaving |-> FALSE]
    /\ pending = [d \in Devices |-> NoChange]
    /\ serial = 0
    /\ calls = <<>> /\ events = <<>> /\ stream = <<>>
    /\ link = [pc |-> "connecting", generation |-> 1, cancelled |-> FALSE]
    /\ changes = 0 /\ breaks = 0 /\ links = 0
    /\ answered = [n \in 1..MaxCalls |-> "none"]

HandleEvent ==
    \E event \in {events[i] : i \in DOMAIN events} :
      \/ DropEvent(event) \/ HandleSnapshot(event) \/ HandleState(event)
      \/ HandleOffline(event) \/ HandleReply(event)

LinkStep == ReadMessage \/ SendCall \/ SendOffline \/ Drain \/ Rest \/ Cancelled

HomeNext ==
    \/ \E d \in Devices, v \in Settings : Control(d, v) \/ Change(d, v)
    \/ \E late \in SUBSET Devices : Tick(late)
    \/ HandleEvent
    \/ \E setup \in BOOLEAN : Restart(setup)
    \/ Joined \/ LeaveHome \/ Connect \/ Break \/ Reconnect \/ LinkStep

HomeSpec == HomeInit /\ [][HomeNext]_homeVars

\* The select loop takes every ready source in turn, deadlines pass, and the
\* task goes on; the network need not connect, and the server and the user owe
\* nothing.
HomeFairness ==
    /\ WF_homeVars(HandleEvent)
    /\ WF_homeVars(Tick(Devices))
    /\ WF_homeVars(Joined)
    /\ WF_homeVars(LinkStep)

-----------------------------------------------------------------------------
(* Properties. *)

Waits(kind) ==
    \E i \in DOMAIN events : events[i].kind = kind /\ events[i].generation = live.generation

\* The panel may change devices only while there is a connection that can
\* carry the change: it is open, or its end is on the way as an event of this
\* generation, and changes are pending only then.  A replaced connection's
\* late events must not say otherwise.
ConnectedIsHonest ==
    /\ live.connected /\ ~live.joining =>
         \/ link.pc \in {"open", "offline"} \/ Waits("offline")
    /\ ~live.connected => Pending(pending) = {}

\* No change of a device is lost between the server and the panel: once the
\* events of this connection are all read, the panel shows what the devices
\* are set to.
ShowsDevices ==
    live.connected /\ ~live.joining /\ link.pc = "open" /\ stream = <<>>
      /\ ~Waits("snapshot") /\ ~Waits("state") =>
         live.states = device

\* What the panel shows and offers while connections are replaced and their
\* late events are still to be read.
PanelIsTrue == ConnectedIsHonest /\ ShowsDevices

\* A service success is not a device acknowledgement: a request is answered
\* with success only by a step after which the panel shows the device at the
\* value asked for, and the answer never changes.
AnswersAreConfirmed ==
    [][\A n \in 1..MaxCalls :
         /\ answered[n] # "none" => answered'[n] = answered[n]
         /\ answered[n] = "none" /\ answered'[n] = "ok" =>
              \E d \in Devices : /\ pending[d].serial = n
                                 /\ live'.states[d] = pending[d].desired]_homeVars

\* Every change that was asked for is answered, whatever the connection does,
\* while the panel's input is open.
RequestsEnd == \A d \in Devices : []<>(pending[d].serial = 0 \/ live.leaving)

\* "A command whose transport died is never silently replayed on a new
\* connection" (connection.rs): a call is sent on the connection there was
\* when it was asked for.
NeverReplayed == [][SendCall => Head(calls).via = links]_homeVars
===============================================================================
