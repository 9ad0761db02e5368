----------------------------- MODULE DesktopProofs -----------------------------
(***************************************************************************)
(* What three parts of the desktop guarantee for any values of their       *)
(* constants: the notification policy of projects/qml-core/src/            *)
(* notifications.rs, the port inspector of projects/tools/src/ports, and   *)
(* the notes of projects/tools/src/notes.rs and projects/notes.            *)
(***************************************************************************)
EXTENDS Notifications, Ports, Notes, SequenceTheorems, TLAPS

-----------------------------------------------------------------------------
(* The notification policy. *)

Silence ==
    [dnd : BOOLEAN, until : Nat, sync : BOOLEAN, focus : BOOLEAN, meeting : Nat,
     holding : BOOLEAN, savedDnd : BOOLEAN, savedUntil : Nat]

Card ==
    [place : {"gone", "here", "coming"}, kind : CardKinds, popup : BOOLEAN,
     deferred : BOOLEAN, pinned : BOOLEAN, at : Nat, reminder : BOOLEAN]

\* A notification that is gone has no reminder.
TypeOK ==
    /\ cards \in [Ids -> Card]
    /\ \A id \in Ids : cards[id].place = "gone" => cards[id].at = 0
    /\ quiet \in Silence
    /\ timing \in BOOLEAN
    /\ moment \in Nat
    /\ wanted \in [dnd : BOOLEAN, until : Nat]

\* The user's last choice is (dnd, until), or was silence and is over.
IsWanted(dnd, until) ==
    IF dnd THEN wanted.dnd /\ until = wanted.until
    ELSE ~wanted.dnd \/ (wanted.until # 0 /\ wanted.until <= moment)

\* The user's choice is in force, or kept aside under a hold.
Sound(q) ==
    /\ q \in Silence
    /\ q.holding <=> (q.focus \/ q.meeting # 0)
    /\ q.holding => q.dnd /\ IsWanted(q.savedDnd, q.savedUntil)
    /\ ~q.holding => IsWanted(q.dnd, q.until)

Hidden == quiet.dnd => \A id \in Ids : Here(id) => ~cards[id].popup

\* The inductive invariant.
Kept == TypeOK /\ Sound(quiet) /\ Hidden

-----------------------------------------------------------------------------
(* The helpers on silence. *)

\* Starting a hold, or adding one to another, keeps the user's choice.
LEMMA HoldSound ==
    ASSUME moment \in Nat, NEW q, Sound(q), NEW r \in Silence,
           r.focus \/ r.meeting # 0,
           r.holding, r.dnd,
           r.savedDnd = BeginHold(q).savedDnd, r.savedUntil = BeginHold(q).savedUntil
    PROVE  Sound(r)
  <1>1. CASE q.holding
    BY <1>1 DEF Sound, BeginHold, Silence
  <1>2. CASE ~q.holding
    <2>1. r.savedDnd = q.dnd /\ r.savedUntil = q.until
      BY <1>2 DEF BeginHold, Sound, Silence
    <2> QED BY <1>2, <2>1 DEF Sound, Silence
  <1> QED BY <1>1, <1>2

\* The end of the manual deadline is the end of the user's choice.
LEMMA ExpireSound ==
    ASSUME moment \in Nat, wanted \in [dnd : BOOLEAN, until : Nat], NEW q, Sound(q)
    PROVE  /\ Sound(ExpireManual(q))
           /\ ExpireManual(q).dnd => q.dnd
  <1>1. CASE q.holding \/ q.until = 0 \/ moment < q.until
    BY <1>1 DEF ExpireManual
  <1>2. CASE ~(q.holding \/ q.until = 0 \/ moment < q.until)
    <2> DEFINE r == [q EXCEPT !.dnd = FALSE, !.until = 0]
    <2>1. ExpireManual(q) = r
      BY <1>2 DEF ExpireManual
    <2>2. /\ r \in Silence /\ ~r.dnd
          /\ r.holding = q.holding /\ r.focus = q.focus /\ r.meeting = q.meeting
      BY DEF Sound, Silence
    <2>3. q.until \in Nat /\ q.until # 0 /\ q.until <= moment /\ ~q.holding
      BY <1>2 DEF Sound, Silence
    <2>4. IsWanted(q.dnd, q.until)
      BY <2>3 DEF Sound
    <2>5. IsWanted(FALSE, r.until)
      BY <2>3, <2>4 DEF IsWanted
    <2>6. IsWanted(r.dnd, r.until)
      BY <2>2, <2>5 DEF IsWanted
    <2> HIDE DEF r
    <2> QED BY <2>1, <2>2, <2>3, <2>6 DEF Sound
  <1> QED BY <1>1, <1>2

\* A hold that ended gives way to the other one, or to the user's choice.
LEMMA FinishSound ==
    ASSUME moment \in Nat, NEW q \in Silence, q.holding, IsWanted(q.savedDnd, q.savedUntil)
    PROVE  Sound(FinishHold(q))
  <1>1. CASE q.meeting # 0
    BY <1>1 DEF FinishHold, PresentHold, Sound, Silence
  <1>2. CASE q.meeting = 0 /\ q.focus
    BY <1>2 DEF FinishHold, PresentHold, Sound, Silence
  <1>3. CASE q.meeting = 0 /\ ~q.focus
    BY <1>3 DEF FinishHold, Sound, Silence, IsWanted
  <1> QED BY <1>1, <1>2, <1>3 DEF Silence

\* A tick keeps the silence sound, and never begins one.
LEMMA TickSound ==
    ASSUME Kept
    PROVE  Sound(Ticked) /\ (Ticked.dnd => quiet.dnd)
  <1> DEFINE ended == [quiet EXCEPT !.meeting = 0]
  <1>1. CASE quiet.meeting # 0 /\ moment >= quiet.meeting
    <2>1. quiet.holding /\ quiet.dnd
      BY <1>1 DEF Kept, Sound
    <2>2. ended \in Silence /\ ended.holding /\ IsWanted(ended.savedDnd, ended.savedUntil)
      BY <2>1 DEF Kept, Sound, Silence
    <2>3. Sound(FinishHold(ended))
      BY <2>2, FinishSound DEF Kept, TypeOK
    <2>4. ReleaseMeeting(quiet) = FinishHold(ended)
      BY <1>1 DEF ReleaseMeeting
    <2> QED BY <2>1, <2>3, <2>4, ExpireSound DEF Ticked, Kept, TypeOK
  <1>2. CASE ~(quiet.meeting # 0 /\ moment >= quiet.meeting)
    <2>1. ReleaseMeeting(quiet) = quiet
      BY <1>2 DEF ReleaseMeeting
    <2> QED BY <2>1, ExpireSound DEF Ticked, Kept, TypeOK
  <1> QED BY <1>1, <1>2

\* What the timer reports begins or ends its own hold only.
LEMMA ReportSound ==
    ASSUME moment \in Nat, wanted \in [dnd : BOOLEAN, until : Nat],
           NEW q, Sound(q), NEW active \in BOOLEAN
    PROVE  /\ Sound(Reported(q, active))
           /\ Reported(q, active).dnd => q.dnd \/ (Reported(q, active).focus /\ ~q.focus)
  <1>1. CASE active /\ q.sync /\ ~q.focus
    <2> DEFINE held == [BeginHold(q) EXCEPT !.focus = TRUE]
    <2>1. held \in Silence /\ held.focus /\ held.holding
      BY DEF Sound, BeginHold, Silence
    <2>2. PresentHold(held) \in Silence /\ PresentHold(held).dnd /\ PresentHold(held).focus
          /\ PresentHold(held).holding
      BY <2>1 DEF PresentHold, Silence
    <2>3. /\ PresentHold(held).savedDnd = BeginHold(q).savedDnd
          /\ PresentHold(held).savedUntil = BeginHold(q).savedUntil
      BY <2>1 DEF PresentHold, BeginHold, Sound, Silence
    <2>4. Reported(q, active) = PresentHold(held)
      BY <1>1 DEF Reported
    <2> HIDE DEF held
    <2>5. Sound(PresentHold(held))
      BY <2>2, <2>3, HoldSound
    <2> QED BY <1>1, <2>2, <2>4, <2>5
  <1>2. CASE ~active /\ q.focus
    <2> DEFINE ended == [q EXCEPT !.focus = FALSE]
    <2>1. ended \in Silence /\ ended.holding /\ IsWanted(ended.savedDnd, ended.savedUntil)
          /\ q.dnd
      BY <1>2 DEF Sound, Silence
    <2>2. Sound(FinishHold(ended))
      BY <2>1, FinishSound
    <2>3. Reported(q, active) = ExpireManual(FinishHold(ended))
      BY <1>2 DEF Reported
    <2> QED BY <2>1, <2>2, <2>3, ExpireSound
  <1>3. CASE ~(active /\ q.sync /\ ~q.focus) /\ ~(~active /\ q.focus)
    BY <1>3 DEF Reported
  <1> QED BY <1>1, <1>2, <1>3

\* A reload restores what was saved, less what is over by now.
LEMMA RestoreSound ==
    ASSUME Kept
    PROVE  Sound(Restored(quiet))
  <1> DEFINE over == quiet.until # 0 /\ quiet.until <= moment
             r == [quiet EXCEPT !.dnd = @ /\ ~over, !.until = IF over THEN 0 ELSE @,
                                !.meeting = IF @ <= moment THEN 0 ELSE @]
  <1>0. quiet \in Silence /\ moment \in Nat /\ wanted \in [dnd : BOOLEAN, until : Nat]
        /\ Sound(quiet)
    BY DEF Kept, TypeOK
  <1>1. r \in Silence
    BY <1>0 DEF Silence
  <1>2. /\ r.focus = quiet.focus /\ r.holding = quiet.holding
        /\ r.savedDnd = quiet.savedDnd /\ r.savedUntil = quiet.savedUntil
        /\ r.meeting # 0 => quiet.meeting # 0
        /\ r.dnd = (quiet.dnd /\ ~over)
        /\ r.until = (IF over THEN 0 ELSE quiet.until)
    BY <1>0 DEF Silence
  <1>3. CASE r.meeting # 0 \/ r.focus
    <2>1. Restored(quiet) = PresentHold(r)
      BY <1>3 DEF Restored
    <2>2. r.holding /\ IsWanted(r.savedDnd, r.savedUntil)
      BY <1>0, <1>2, <1>3 DEF Sound
    <2> HIDE DEF r
    <2> QED BY <1>1, <1>3, <2>1, <2>2 DEF PresentHold, Sound, Silence
  <1>4. CASE r.meeting = 0 /\ ~r.focus /\ r.holding
    <2>1. Restored(quiet) = ExpireManual(FinishHold(r))
      BY <1>4 DEF Restored
    <2>2. IsWanted(r.savedDnd, r.savedUntil)
      BY <1>0, <1>2, <1>4 DEF Sound
    <2> HIDE DEF r
    <2> QED BY <1>0, <1>1, <1>4, <2>1, <2>2, FinishSound, ExpireSound
  <1>5. CASE r.meeting = 0 /\ ~r.focus /\ ~r.holding
    <2>1. Restored(quiet) = r
      BY <1>5 DEF Restored
    <2>2. IsWanted(quiet.dnd, quiet.until)
      BY <1>0, <1>2, <1>5 DEF Sound
    <2>3. IsWanted(r.dnd, r.until)
      BY <1>0, <1>2, <2>2 DEF IsWanted, Silence
    <2> HIDE DEF r
    <2> QED BY <1>1, <1>5, <2>1, <2>3 DEF Sound
  <1> QED BY <1>1, <1>3, <1>4, <1>5 DEF Silence

-----------------------------------------------------------------------------
(* The helpers on cards. *)

\* A tick keeps the types, and brings a toast back only when it is not quiet.
LEMMA AdvancedKept ==
    ASSUME Kept, NEW out \in SUBSET Ids
    PROVE  /\ Advanced(out) \in [Ids -> Card]
           /\ \A id \in Ids :
                /\ Advanced(out)[id].place = "gone" => Advanced(out)[id].at = 0
                /\ Ticked.dnd /\ Advanced(out)[id].place = "here" =>
                     ~Advanced(out)[id].popup
                /\ cards[id].at # 0 /\ Advanced(out)[id].place # "gone"
                     /\ Advanced(out)[id].at = 0 =>
                       cards[id].at <= moment /\ Advanced(out)[id].popup /\ ~Ticked.dnd
  <1> DEFINE back(id) == IF Due(id, Ticked) THEN Reminded(cards[id]) ELSE cards[id]
             next(id) == IF id \in out /\ Counting(back(id)) THEN RunOut(back(id)) ELSE back(id)
  <1>1. Advanced(out) = [id \in Ids |-> next(id)]
    BY DEF Advanced
  <1>2. ASSUME NEW id \in Ids
        PROVE  /\ next(id) \in Card
               /\ next(id).place = "gone" => next(id).at = 0
               /\ Ticked.dnd /\ next(id).place = "here" => ~next(id).popup
               /\ cards[id].at # 0 /\ next(id).place # "gone" /\ next(id).at = 0 =>
                    cards[id].at <= moment /\ next(id).popup /\ ~Ticked.dnd
    <2>1. /\ cards[id] \in Card
          /\ cards[id].place = "gone" => cards[id].at = 0
          /\ Ticked.dnd /\ cards[id].place = "here" => ~cards[id].popup
      BY TickSound DEF Kept, TypeOK, Hidden, Here
    <2>2. CASE Due(id, Ticked)
      <3>1. back(id) = Reminded(cards[id])
        BY <2>2
      <3>2. /\ back(id) \in Card /\ back(id).popup /\ back(id).reminder
            /\ back(id).place = "here"
        BY <2>1, <2>2, <3>1 DEF Reminded, Card, Due, Here
      <3>3. ~Counting(back(id))
        BY <3>2 DEF Counting, Lasting
      <3>4. next(id) = back(id)
        BY <3>3
      <3> QED BY <2>2, <3>2, <3>4 DEF Due
    <2>3. CASE ~Due(id, Ticked)
      <3>1. back(id) = cards[id]
        BY <2>3
      <3>2. CASE id \in out /\ Counting(cards[id])
        <4>1. next(id) = RunOut(cards[id])
          BY <3>1, <3>2
        <4>2. NoCard \in Card /\ NoCard.place = "gone" /\ NoCard.at = 0
          BY DEF NoCard, Card, CardKinds
        <4> QED BY <2>1, <3>2, <4>1, <4>2 DEF RunOut, Card, Counting
      <3>3. CASE ~(id \in out /\ Counting(cards[id]))
        <4>1. next(id) = cards[id]
          BY <3>1, <3>3
        <4> QED BY <2>1, <4>1
      <3> QED BY <3>2, <3>3
    <2> QED BY <2>2, <2>3
  <1> HIDE DEF next
  <1> QED BY <1>1, <1>2

\* Silencing hides the toasts that are shown and changes nothing else.
LEMMA SilencedKept ==
    ASSUME Kept
    PROVE  /\ Silenced \in [Ids -> Card]
           /\ \A id \in Ids :
                /\ Silenced[id].place = "gone" => Silenced[id].at = 0
                /\ Silenced[id].place = "here" => ~Silenced[id].popup
                /\ Silenced[id].at = cards[id].at
  <1> DEFINE hide(id) == [cards[id] EXCEPT !.popup = @ /\ cards[id].place = "coming"]
  <1>1. ASSUME NEW id \in Ids
        PROVE  /\ hide(id) \in Card
               /\ hide(id).place = "gone" => hide(id).at = 0
               /\ hide(id).place = "here" => ~hide(id).popup
               /\ hide(id).at = cards[id].at
    <2>1. cards[id] \in Card /\ (cards[id].place = "gone" => cards[id].at = 0)
      BY DEF Kept, TypeOK
    <2>2. hide(id) \in Card /\ hide(id).place = cards[id].place
          /\ hide(id).at = cards[id].at
      BY <2>1 DEF Card
    <2>3. hide(id).place = "here" => ~hide(id).popup
      BY <2>1 DEF Card
    <2> QED BY <2>1, <2>2, <2>3
  <1>2. Silenced = [id \in Ids |-> hide(id)]
    BY DEF Silenced
  <1> HIDE DEF hide
  <1> QED BY <1>1, <1>2

-----------------------------------------------------------------------------
(* Every step keeps the inductive invariant. *)

\* The same silence, with the same choice and clock, is sound after the step.
LEMMA SoundNext ==
    ASSUME NEW q, Sound(q), quiet' = q, UNCHANGED <<moment, wanted>>
    PROVE  Sound(quiet)'
  BY DEF Sound, IsWanted

\* What the invariant asks of the cards after a step.
CardsFit ==
    /\ cards' \in [Ids -> Card]
    /\ \A id \in Ids :
         /\ cards'[id].place = "gone" => cards'[id].at = 0
         /\ quiet'.dnd /\ cards'[id].place = "here" => ~cards'[id].popup

LEMMA Assembled ==
    ASSUME Sound(quiet)', CardsFit, timing' \in BOOLEAN, moment' \in Nat,
           wanted' \in [dnd : BOOLEAN, until : Nat]
    PROVE  Kept'
  <1>1. quiet' \in Silence
    BY DEF Sound
  <1>2. TypeOK'
    BY <1>1 DEF TypeOK, CardsFit
  <1>3. Hidden'
    BY DEF CardsFit, Hidden, Here
  <1> QED BY <1>2, <1>3 DEF Kept

\* A step of one card.
LEMMA CardStep ==
    ASSUME Kept, NEW id \in Ids, NEW card \in Card,
           card.place = "gone" => card.at = 0,
           quiet.dnd /\ card.place = "here" => ~card.popup,
           cards' = [cards EXCEPT ![id] = card],
           UNCHANGED <<quiet, timing, moment, wanted>>
    PROVE  Kept'
  <1>1. Sound(quiet) /\ quiet' = quiet
    BY DEF Kept
  <1>2. Sound(quiet)'
    BY <1>1, SoundNext
  <1>3. CardsFit
    BY DEF CardsFit, Kept, TypeOK, Hidden, Here
  <1> QED BY <1>2, <1>3, Assembled DEF Kept, TypeOK

\* A tick.
LEMMA TickStep ==
    ASSUME Kept, NEW out \in SUBSET Ids, quiet' = Ticked, cards' = Advanced(out),
           UNCHANGED <<timing, moment, wanted>>
    PROVE  Kept'
  <1>1. Sound(quiet)'
    BY TickSound, SoundNext
  <1>2. CardsFit
    BY AdvancedKept DEF CardsFit
  <1> QED BY <1>1, <1>2, Assembled DEF Kept, TypeOK

\* A tick, and a notification that comes after it.
LEMMA ArrivalStep ==
    ASSUME Kept, NEW out \in SUBSET Ids, quiet' = Ticked,
           NEW id \in Ids, NEW card \in Card, card.place = "here",
           Ticked.dnd => ~card.popup,
           cards' = [Advanced(out) EXCEPT ![id] = card],
           UNCHANGED <<timing, moment, wanted>>
    PROVE  Kept'
  <1>1. Sound(quiet)'
    BY TickSound, SoundNext
  <1>2. CardsFit
    BY AdvancedKept DEF CardsFit
  <1> QED BY <1>1, <1>2, Assembled DEF Kept, TypeOK

\* A step that changes the silence, and hides the toasts if it begins one.
LEMMA SilenceStep ==
    ASSUME Kept, Sound(quiet)', timing' \in BOOLEAN, moment' \in Nat,
           wanted' \in [dnd : BOOLEAN, until : Nat],
           cards' = Silenced \/ (cards' = cards /\ (quiet'.dnd => quiet.dnd))
    PROVE  Kept'
  <1>1. CASE cards' = Silenced
    <2>1. CardsFit
      BY <1>1, SilencedKept DEF CardsFit
    <2> QED BY <2>1, Assembled
  <1>2. CASE cards' = cards /\ (quiet'.dnd => quiet.dnd)
    <2>1. CardsFit
      BY <1>2 DEF CardsFit, Kept, TypeOK, Hidden, Here
    <2> QED BY <2>1, Assembled
  <1> QED BY <1>1, <1>2

\* A card keeps its reminder, or loses it in a way that RemindersReturn allows.
ReminderKept(id) ==
    cards[id].at # 0 /\ cards'[id].place # "gone" /\ cards'[id].at = 0 =>
      \/ Remind(id, 0)
      \/ cards[id].at <= moment /\ cards'[id].popup /\ ~quiet'.dnd

\* The ticks and the arrivals.
LEMMA TimeStep ==
    ASSUME Kept,
           \/ Advance
           \/ Moment
           \/ \E id \in Ids, kind \in CardKinds, mention, calendar \in BOOLEAN :
                Arrive(id, kind, mention, calendar)
           \/ \E id \in Ids, calendar \in BOOLEAN : Return(id, calendar)
    PROVE  Kept' /\ \A id \in Ids : ReminderKept(id)
  <1>1. CASE Advance
    <2>1. PICK out \in SUBSET Ids : cards' = Advanced(out)
      BY <1>1 DEF Advance
    <2>2. quiet' = Ticked /\ UNCHANGED <<timing, moment, wanted>>
      BY <1>1 DEF Advance
    <2> QED BY <2>1, <2>2, TickStep, AdvancedKept DEF ReminderKept
  <1>2. CASE Moment
    <2>1. /\ moment' = moment + 1 /\ moment \in Nat
          /\ UNCHANGED <<cards, quiet, timing, wanted>>
      BY <1>2 DEF Moment, Kept, TypeOK
    <2>2. \A dnd, until : IsWanted(dnd, until) => IsWanted(dnd, until)'
      BY <2>1 DEF IsWanted, Kept, TypeOK
    <2>3. Sound(quiet)'
      BY <2>1, <2>2 DEF Kept, Sound
    <2>4. CardsFit
      BY <2>1 DEF CardsFit, Kept, TypeOK, Hidden, Here
    <2> QED BY <2>1, <2>3, <2>4, Assembled DEF Kept, TypeOK, ReminderKept
  <1>3. ASSUME NEW id \in Ids, NEW kind \in CardKinds, NEW mention \in BOOLEAN,
               NEW calendar \in BOOLEAN, Arrive(id, kind, mention, calendar)
        PROVE  Kept' /\ \A i \in Ids : ReminderKept(i)
    <2> DEFINE card == [NoCard EXCEPT !.place = "here", !.kind = kind,
                          !.popup = Toasts(id, Ticked, mention, calendar),
                          !.deferred = Held(mention)]
    <2>1. PICK out \in SUBSET Ids : cards' = [Advanced(out) EXCEPT ![id] = card]
      BY <1>3 DEF Arrive
    <2>2. quiet' = Ticked /\ UNCHANGED <<timing, moment, wanted>>
          /\ cards[id].place = "gone"
      BY <1>3 DEF Arrive
    <2>3. Toasts(id, Ticked, mention, calendar) \in BOOLEAN /\ Held(mention) \in BOOLEAN
          /\ (Ticked.dnd => ~Toasts(id, Ticked, mention, calendar))
      BY DEF Toasts, Held
    <2>4. card \in Card /\ card.place = "here" /\ (Ticked.dnd => ~card.popup)
      BY <2>3 DEF NoCard, Card, CardKinds
    <2>5. cards[id].at = 0
      BY <2>2 DEF Kept, TypeOK
    <2> HIDE DEF card
    <2>6. Kept'
      BY <2>1, <2>2, <2>4, ArrivalStep
    <2>7. \A i \in Ids \ {id} : cards'[i] = Advanced(out)[i]
      BY <2>1, AdvancedKept
    <2> QED BY <2>2, <2>5, <2>6, <2>7, AdvancedKept DEF ReminderKept
  <1>4. ASSUME NEW id \in Ids, NEW calendar \in BOOLEAN, Return(id, calendar)
        PROVE  Kept' /\ \A i \in Ids : ReminderKept(i)
    <2> DEFINE card == [cards[id] EXCEPT !.place = "here",
                          !.popup = @ /\ ~Ticked.dnd /\ ~(calendar /\ timing)]
    <2>1. PICK out \in SUBSET Ids : cards' = [Advanced(out) EXCEPT ![id] = card]
      BY <1>4 DEF Return
    <2>2. quiet' = Ticked /\ UNCHANGED <<timing, moment, wanted>>
      BY <1>4 DEF Return
    <2>3. cards[id] \in Card
      BY DEF Kept, TypeOK
    <2>4. card \in Card /\ card.place = "here" /\ (Ticked.dnd => ~card.popup)
          /\ card.at = cards[id].at
      BY <2>3 DEF Card
    <2> HIDE DEF card
    <2>5. Kept'
      BY <2>1, <2>2, <2>4, ArrivalStep
    <2>6. (\A i \in Ids \ {id} : cards'[i] = Advanced(out)[i]) /\ cards'[id] = card
      BY <2>1, AdvancedKept
    <2> QED BY <2>2, <2>4, <2>5, <2>6, AdvancedKept DEF ReminderKept
  <1> QED BY <1>1, <1>2, <1>3, <1>4

\* The sender's and the user's steps of one card.
LEMMA OneCardStep ==
    ASSUME Kept, NEW id \in Ids,
           \/ \E kind \in CardKinds, mention, calendar \in BOOLEAN :
                Renew(id, kind, mention, calendar)
           \/ \E kind \in CardKinds : Update(id, kind)
           \/ Closed(id) \/ RetireToast(id) \/ Pin(id)
           \/ \E at \in {0} \cup Moments : Remind(id, at)
    PROVE  Kept' /\ \A i \in Ids : ReminderKept(i)
  <1>0. /\ cards \in [Ids -> Card] /\ cards[id] \in Card
        /\ quiet.dnd /\ cards[id].place = "here" => ~cards[id].popup
        /\ quiet.dnd \in BOOLEAN
    BY DEF Kept, TypeOK, Hidden, Here, Silence
  <1>1. ASSUME NEW card \in Card, card.place = "gone" => card.at = 0,
               quiet.dnd /\ card.place = "here" => ~card.popup,
               card.place = "gone" \/ card.at = cards[id].at,
               cards' = [cards EXCEPT ![id] = card],
               UNCHANGED <<quiet, timing, moment, wanted>>
        PROVE  Kept' /\ \A i \in Ids : ReminderKept(i)
    <2>1. Kept'
      BY <1>1, CardStep
    <2>2. cards'[id] = card /\ \A i \in Ids \ {id} : cards'[i] = cards[i]
      BY <1>0, <1>1
    <2> QED BY <1>1, <2>1, <2>2 DEF ReminderKept
  <1>2. ASSUME NEW kind \in CardKinds, NEW mention \in BOOLEAN, NEW calendar \in BOOLEAN,
               Renew(id, kind, mention, calendar)
        PROVE  Kept' /\ \A i \in Ids : ReminderKept(i)
    <2> DEFINE card == [[cards[id] EXCEPT !.kind = kind] EXCEPT
                          !.popup = Toasts(id, quiet, mention, calendar),
                          !.deferred = Held(mention)]
    <2>1. Toasts(id, quiet, mention, calendar) \in BOOLEAN /\ Held(mention) \in BOOLEAN
          /\ (quiet.dnd => ~Toasts(id, quiet, mention, calendar))
      BY DEF Toasts, Held
    <2>2. card \in Card /\ card.place = "here" /\ (quiet.dnd => ~card.popup)
          /\ card.at = cards[id].at
      BY <1>0, <1>2, <2>1 DEF Renew, Here, Card
    <2>3. cards' = [cards EXCEPT ![id] = card] /\ UNCHANGED <<quiet, timing, moment, wanted>>
      BY <1>2 DEF Renew, Replaced
    <2> HIDE DEF card
    <2> QED BY <1>1, <2>2, <2>3
  <1>3. ASSUME NEW kind \in CardKinds, Update(id, kind)
        PROVE  Kept' /\ \A i \in Ids : ReminderKept(i)
    <2> DEFINE card == [cards[id] EXCEPT !.kind = kind]
    <2>1. /\ card \in Card /\ card.place = "here" /\ card.popup = cards[id].popup
          /\ card.at = cards[id].at /\ cards[id].place = "here"
      BY <1>0, <1>3 DEF Update, Here, Card
    <2>2. cards' = [cards EXCEPT ![id] = card] /\ UNCHANGED <<quiet, timing, moment, wanted>>
      BY <1>3 DEF Update, Replaced
    <2> HIDE DEF card
    <2> QED BY <1>0, <1>1, <2>1, <2>2
  <1>4. NoCard \in Card /\ NoCard.place = "gone" /\ NoCard.at = 0
    BY DEF NoCard, Card, CardKinds
  <1>5. CASE Closed(id)
    BY <1>1, <1>4, <1>5 DEF Closed
  <1>6. CASE RetireToast(id)
    <2> DEFINE card == [cards[id] EXCEPT !.popup = FALSE, !.reminder = FALSE]
    <2>1. /\ card \in Card /\ card.place = "here" /\ ~card.popup
          /\ card.at = cards[id].at
      BY <1>0, <1>6 DEF RetireToast, Here, Card
    <2>2. /\ \/ cards' = [cards EXCEPT ![id] = card]
             \/ cards' = [cards EXCEPT ![id] = NoCard]
          /\ UNCHANGED <<quiet, timing, moment, wanted>>
      BY <1>6 DEF RetireToast
    <2> HIDE DEF card
    <2> QED BY <1>1, <1>4, <2>1, <2>2
  <1>7. CASE Pin(id)
    <2> DEFINE card == [cards[id] EXCEPT !.pinned = ~@,
                          !.popup = @ \/ (~cards[id].pinned /\ ~quiet.dnd)]
    <2>1. /\ card \in Card /\ card.place = "here" /\ (quiet.dnd => ~card.popup)
          /\ card.at = cards[id].at
      BY <1>0, <1>7 DEF Pin, Here, Card
    <2>2. cards' = [cards EXCEPT ![id] = card] /\ UNCHANGED <<quiet, timing, moment, wanted>>
      BY <1>0, <1>7 DEF Pin, Card
    <2> HIDE DEF card
    <2> QED BY <1>1, <2>1, <2>2
  <1>8. ASSUME NEW at \in {0} \cup Moments, Remind(id, at)
        PROVE  Kept' /\ \A i \in Ids : ReminderKept(i)
    <2> DEFINE card == [cards[id] EXCEPT !.at = at]
    <2>1. at \in Nat
      BY NotificationsAssumption DEF Moments
    <2>2. /\ card \in Card /\ card.place = "here" /\ card.popup = cards[id].popup
          /\ card.at = at /\ cards[id].place = "here"
      BY <1>0, <1>8, <2>1 DEF Remind, Here, Card
    <2>3. cards' = [cards EXCEPT ![id] = card] /\ UNCHANGED <<quiet, timing, moment, wanted>>
      BY <1>8 DEF Remind
    <2> HIDE DEF card
    <2>4. Kept'
      BY <1>0, <2>2, <2>3, CardStep
    <2>5. cards'[id] = card /\ \A i \in Ids \ {id} : cards'[i] = cards[i]
      BY <1>0, <2>3
    <2> QED BY <1>8, <2>2, <2>4, <2>5 DEF ReminderKept
  <1> QED BY <1>2, <1>3, <1>5, <1>6, <1>7, <1>8

\* The steps that choose, begin or end a silence.
LEMMA QuietStep ==
    ASSUME Kept,
           \/ SetFocusSync
           \/ \E active \in BOOLEAN : SetFocus(active)
           \/ \E dnd \in BOOLEAN, until \in {0} \cup Moments : Choose(dnd, until)
           \/ \E end \in Moments : ArmMeeting(end)
    PROVE  Kept' /\ \A id \in Ids : ReminderKept(id)
  <1>0. /\ quiet \in Silence /\ Sound(quiet) /\ timing \in BOOLEAN /\ moment \in Nat
        /\ wanted \in [dnd : BOOLEAN, until : Nat]
    BY DEF Kept, TypeOK
  <1>1. ASSUME cards' = Silenced \/ cards' = cards
        PROVE  \A id \in Ids : ReminderKept(id)
    BY <1>1, SilencedKept DEF ReminderKept
  <1>2. CASE SetFocusSync
    <2> DEFINE held == [BeginHold(quiet) EXCEPT !.sync = TRUE, !.focus = TRUE]
               same == [quiet EXCEPT !.sync = TRUE]
    <2>0. UNCHANGED <<timing, moment, wanted>>
      BY <1>2 DEF SetFocusSync
    <2>1. CASE quiet.focus
      <3>1. quiet' = same /\ cards' = cards
        BY <1>2, <2>1 DEF SetFocusSync
      <3>2. Sound(same) /\ same.dnd = quiet.dnd
        BY <1>0 DEF Sound, Silence
      <3> HIDE DEF same
      <3>3. Sound(quiet)'
        BY <2>0, <3>1, <3>2, SoundNext
      <3> QED BY <1>0, <1>1, <2>0, <3>1, <3>2, <3>3, SilenceStep
    <2>2. CASE ~quiet.focus
      <3>1. quiet' = PresentHold(held) /\ cards' = Silenced
        BY <1>2, <2>2 DEF SetFocusSync
      <3>2. held \in Silence /\ held.focus /\ held.holding
            /\ held.savedDnd = BeginHold(quiet).savedDnd
            /\ held.savedUntil = BeginHold(quiet).savedUntil
        BY <1>0 DEF BeginHold, Silence
      <3> HIDE DEF held
      <3>3. Sound(PresentHold(held))
        BY <1>0, <3>2, HoldSound DEF PresentHold, Silence
      <3>4. Sound(quiet)'
        BY <2>0, <3>1, <3>3, SoundNext
      <3> QED BY <1>0, <1>1, <2>0, <3>1, <3>4, SilenceStep
    <2> QED BY <2>1, <2>2
  <1>3. ASSUME NEW active \in BOOLEAN, SetFocus(active)
        PROVE  Kept' /\ \A id \in Ids : ReminderKept(id)
    <2>1. /\ quiet' = Reported(quiet, active) /\ timing' = active
          /\ UNCHANGED <<moment, wanted>>
          /\ cards' = IF quiet'.focus /\ ~quiet.focus THEN Silenced ELSE cards
      BY <1>3 DEF SetFocus
    <2>2. Sound(quiet)'
      BY <1>0, <2>1, ReportSound, SoundNext
    <2>3. quiet'.dnd => quiet.dnd \/ (quiet'.focus /\ ~quiet.focus)
      BY <1>0, <2>1, ReportSound
    <2> QED BY <1>0, <1>1, <2>1, <2>2, <2>3, SilenceStep
  <1>4. ASSUME NEW dnd \in BOOLEAN, NEW until \in {0} \cup Moments, Choose(dnd, until)
        PROVE  Kept' /\ \A id \in Ids : ReminderKept(id)
    <2>0. until \in Nat
      BY NotificationsAssumption DEF Moments
    <2>1. /\ quiet' = Chosen(dnd, until) /\ wanted' = [dnd |-> dnd, until |-> until]
          /\ UNCHANGED <<timing, moment>>
          /\ cards' = IF dnd THEN Silenced ELSE cards
      BY <1>4 DEF Choose
    <2>2. /\ quiet' \in Silence /\ ~quiet'.holding /\ ~quiet'.focus /\ quiet'.meeting = 0
          /\ quiet'.dnd = dnd /\ quiet'.until = until
      BY <1>0, <2>0, <2>1 DEF Chosen, Silence
    <2>3. wanted'.dnd = dnd /\ wanted'.until = until
      BY <2>1
    <2>4. IsWanted(dnd, until)'
      BY <2>3 DEF IsWanted
    <2>5. IsWanted(quiet.dnd, quiet.until)'
      BY <2>2, <2>3 DEF IsWanted
    <2>6. Sound(quiet)'
      BY <2>2, <2>5 DEF Sound
    <2>7. wanted' \in [dnd : BOOLEAN, until : Nat]
      BY <2>0, <2>1
    <2> QED BY <1>0, <1>1, <2>1, <2>2, <2>6, <2>7, SilenceStep
  <1>5. ASSUME NEW end \in Moments, ArmMeeting(end)
        PROVE  Kept' /\ \A id \in Ids : ReminderKept(id)
    <2> DEFINE held == [BeginHold(quiet) EXCEPT !.meeting = end]
    <2>1. /\ quiet' = PresentHold(held) /\ cards' = Silenced
          /\ UNCHANGED <<timing, moment, wanted>>
      BY <1>5 DEF ArmMeeting
    <2>2. end \in Nat /\ end # 0
      BY NotificationsAssumption DEF Moments
    <2>3. held \in Silence /\ held.meeting # 0 /\ held.holding
          /\ held.savedDnd = BeginHold(quiet).savedDnd
          /\ held.savedUntil = BeginHold(quiet).savedUntil
      BY <1>0, <2>2 DEF BeginHold, Silence
    <2> HIDE DEF held
    <2>4. Sound(PresentHold(held))
      BY <1>0, <2>3, HoldSound DEF PresentHold, Silence
    <2>5. Sound(quiet)'
      BY <2>1, <2>4, SoundNext
    <2> QED BY <1>0, <1>1, <2>1, <2>5, SilenceStep
  <1> QED BY <1>2, <1>3, <1>4, <1>5

\* The steps of the applications and the focus on a pull request, and a reload.
LEMMA OtherStep ==
    ASSUME Kept,
           \/ Reload
           \/ \E on \in BOOLEAN : SetPrFocus(on)
           \/ \E apps \in SUBSET Apps : Hush(apps)
    PROVE  Kept' /\ \A id \in Ids : ReminderKept(id)
  <1>0. /\ cards \in [Ids -> Card] /\ timing \in BOOLEAN /\ moment \in Nat
        /\ wanted \in [dnd : BOOLEAN, until : Nat] /\ Sound(quiet)
        /\ \A id \in Ids : cards[id].place = "gone" => cards[id].at = 0
    BY DEF Kept, TypeOK
  <1>a. quiet.dnd => \A id \in Ids : cards[id].place = "here" => ~cards[id].popup
    BY DEF Kept, Hidden, Here
  <1>1. CASE Reload
    <2>1. PICK active \in {timing, FALSE} :
            timing' = active /\ quiet' = Reported(Restored(quiet), active)
      BY <1>1 DEF Reload
    <2>2. UNCHANGED <<moment, wanted>> /\ cards' = [id \in Ids |-> Saved(cards[id])]
      BY <1>1 DEF Reload
    <2>3. Sound(quiet)'
      BY <1>0, <2>1, <2>2, RestoreSound, ReportSound, SoundNext
    <2>4. ASSUME NEW id \in Ids
          PROVE  /\ Saved(cards[id]) \in Card
                 /\ Saved(cards[id]).place # "here"
                 /\ Saved(cards[id]).at = cards[id].at
                 /\ Saved(cards[id]).place = "gone" => Saved(cards[id]).at = 0
      <3>1. cards[id] \in Card
        BY <1>0
      <3>2. CASE cards[id].place = "gone"
        BY <1>0, <3>1, <3>2 DEF Saved
      <3>3. CASE cards[id].place # "gone"
        <4>1. Saved(cards[id]) = [cards[id] EXCEPT !.place = "coming",
                                   !.popup = @ /\ Lasting(cards[id]), !.deferred = FALSE]
          BY <3>3 DEF Saved
        <4> QED BY <3>1, <4>1 DEF Card
      <3> QED BY <3>2, <3>3
    <2>5. CardsFit
      BY <2>2, <2>4 DEF CardsFit
    <2>6. \A id \in Ids : ReminderKept(id)
      BY <2>2, <2>4 DEF ReminderKept
    <2> QED BY <1>0, <2>1, <2>2, <2>3, <2>5, <2>6, Assembled
  <1>2. ASSUME NEW on \in BOOLEAN, SetPrFocus(on)
        PROVE  Kept' /\ \A id \in Ids : ReminderKept(id)
    <2> DEFINE shown(id) == [cards[id] EXCEPT !.deferred = FALSE,
                               !.popup = @ \/ ~(quiet.dnd \/ AppOf[id] \in hushed)]
    <2>1. UNCHANGED <<quiet, timing, moment, wanted>>
      BY <1>2 DEF SetPrFocus
    <2>2. ASSUME NEW id \in Ids
          PROVE  \/ cards'[id] = cards[id]
                 \/ cards'[id] = shown(id) /\ cards[id].place = "here"
      BY <1>2 DEF SetPrFocus, Here
    <2>3. ASSUME NEW id \in Ids
          PROVE  /\ shown(id) \in Card /\ shown(id).place = cards[id].place
                 /\ shown(id).at = cards[id].at
                 /\ quiet.dnd /\ cards[id].place = "here" => ~shown(id).popup
      <3>1. cards[id] \in Card
        BY <1>0
      <3>2. /\ shown(id) \in Card /\ shown(id).place = cards[id].place
            /\ shown(id).at = cards[id].at
        BY <3>1 DEF Card
      <3>3. quiet.dnd /\ cards[id].place = "here" => ~shown(id).popup
        BY <1>a, <3>1 DEF Card
      <3> QED BY <3>2, <3>3
    <2>4. DOMAIN cards' = Ids /\ cards' = [id \in Ids |-> cards'[id]]
      BY <1>0, <1>2 DEF SetPrFocus
    <2> HIDE DEF shown
    <2>5. CardsFit
      <3>1. \A id \in Ids : cards'[id] \in Card
        BY <1>0, <2>2, <2>3
      <3>2. cards' \in [Ids -> Card]
        BY <2>4, <3>1
      <3>3. ASSUME NEW id \in Ids
            PROVE  /\ cards'[id].place = "gone" => cards'[id].at = 0
                   /\ quiet'.dnd /\ cards'[id].place = "here" => ~cards'[id].popup
        BY <1>0, <1>a, <2>1, <2>2, <2>3
      <3> QED BY <3>2, <3>3 DEF CardsFit
    <2>6. \A id \in Ids : ReminderKept(id)
      BY <2>2, <2>3 DEF ReminderKept
    <2>7. Sound(quiet)'
      BY <1>0, <2>1, SoundNext
    <2> QED BY <1>0, <2>1, <2>5, <2>6, <2>7, Assembled
  <1>3. ASSUME NEW apps \in SUBSET Apps, Hush(apps)
        PROVE  Kept' /\ \A id \in Ids : ReminderKept(id)
    <2>1. UNCHANGED <<cards, quiet, timing, moment, wanted>>
      BY <1>3 DEF Hush
    <2>2. Sound(quiet)'
      BY <1>0, <2>1, SoundNext
    <2>3. CardsFit
      BY <1>0, <1>a, <2>1 DEF CardsFit
    <2> QED BY <1>0, <2>1, <2>2, <2>3, Assembled DEF ReminderKept
  <1> QED BY <1>1, <1>2, <1>3

LEMMA NextKept ==
    ASSUME Kept, NotificationsNext
    PROVE  Kept' /\ \A id \in Ids : ReminderKept(id)
  BY TimeStep, OneCardStep, QuietStep, OtherStep DEF NotificationsNext

LEMMA StutterKept ==
    ASSUME Kept, UNCHANGED notificationVars
    PROVE  Kept'
  <1>1. Sound(quiet)'
    BY SoundNext DEF Kept, notificationVars
  <1>2. CardsFit
    BY DEF CardsFit, Kept, TypeOK, Hidden, Here, notificationVars
  <1> QED BY <1>1, <1>2, Assembled DEF Kept, TypeOK, notificationVars

LEMMA InitKept == NotificationsInit => Kept
  <1> SUFFICES ASSUME NotificationsInit PROVE Kept
    OBVIOUS
  <1>1. NoCard \in Card /\ NoCard.at = 0 /\ ~NoCard.popup
    BY DEF NoCard, Card, CardKinds
  <1>2. TypeOK
    BY <1>1 DEF NotificationsInit, TypeOK, Silence
  <1>3. Sound(quiet)
    BY DEF NotificationsInit, Sound, Silence, IsWanted
  <1>4. Hidden
    BY <1>1 DEF NotificationsInit, Hidden
  <1> QED BY <1>2, <1>3, <1>4 DEF Kept

\* The inductive invariant holds: in particular an automatic hold keeps the
\* silence that the user chose aside (begin_hold, finish_hold), whatever other
\* holds, ticks and reloads come in between.
THEOREM KeptAlways == NotificationsSpec => []Kept
  <1>1. Kept /\ [NotificationsNext]_notificationVars => Kept'
    BY NextKept, StutterKept
  <1> QED BY <1>1, InitKept, PTL DEF NotificationsSpec

\* No toast is shown while it is quiet, a hold is quiet, and without one the
\* silence is what the user chose last, or that choice is over.
THEOREM SilenceIsTheUsers == NotificationsSpec => []SilenceIsKept
  <1>1. Kept => SilenceIsKept
    BY DEF Kept, TypeOK, Sound, Silence, Hidden, IsWanted, SilenceIsKept
  <1> QED BY <1>1, KeptAlways, PTL

\* No replacement, tick or reload spends a reminder that the user cannot see.
THEOREM RemindersAreKept == NotificationsSpec => RemindersReturn
  <1>1. Kept /\ [NotificationsNext]_notificationVars =>
          [\A id \in Ids :
             cards[id].at # 0 /\ cards'[id].place # "gone" /\ cards'[id].at = 0 =>
               \/ Remind(id, 0)
               \/ cards[id].at <= moment /\ cards'[id].popup /\ ~quiet'.dnd]_notificationVars
    BY NextKept DEF ReminderKept
  <1> QED BY <1>1, KeptAlways, PTL DEF NotificationsSpec, RemindersReturn

-----------------------------------------------------------------------------
(* The port inspector.  A review is as old as the process it names: the     *)
(* births of a pid only grow, so the process that was pinned between two    *)
(* checks of one birth has that birth.                                      *)

IsProcess(q) ==
    q = [birth |-> q.birth, uid |-> q.uid, service |-> q.service, socket |-> q.socket]

\* The processes: a birth is given once, a service is one of a body.
ProcInv ==
    /\ births \in Nat
    /\ proc = [p \in Pids |-> proc[p]]
    /\ \A p \in Alive :
          /\ IsProcess(proc[p])
          /\ proc[p].birth \in Nat /\ proc[p].birth <= births
          /\ proc[p].service = NoService \/ IsService(proc[p].service)

\* A disclosed service is what its review says.
IssuedInv ==
    \A r \in issued : r.token.kind = "service" =>
        /\ IsService(r.service)
        /\ r.token.unit = r.service.name
        /\ r.token.scope = Scope(r.service)

\* What was hit for this review, with or without force.
Was(review, force) == \E g \in hits : g.token = review /\ g.force = force

\* No process with the pid of the review is older than this one.
NoneOlder(birth) ==
    /\ birth \in Nat /\ birth <= births
    /\ worker.token.pid \in Alive => birth <= proc[worker.token.pid].birth

\* The stop under way: it was reviewed, force was offered, and what is pinned
\* is the process of the review once it was checked twice.
StopInv ==
    /\ worker = [pc |-> worker.pc, token |-> worker.token, force |-> worker.force,
                 pinned |-> worker.pinned]
    /\ worker.pc \in {"rest", "act", "pin", "validate", "send", "wait"}
    /\ worker.pc # "rest" =>
         /\ \E r \in issued : r.token = worker.token
         /\ worker.force \in BOOLEAN
         /\ worker.force => Was(worker.token, FALSE)
    /\ worker.pc \in {"pin", "validate", "send"} => worker.token.kind = "process"
    /\ worker.pc \in {"act", "pin", "validate", "send"} /\ worker.token.kind = "process"
         => NoneOlder(worker.token.start)
    /\ worker.pc \in {"validate", "send"} =>
         NoneOlder(worker.pinned) /\ worker.token.start <= worker.pinned
    /\ worker.pc = "send" => worker.pinned = worker.token.start
    /\ worker.pc = "wait" => Was(worker.token, worker.force)

\* Force is offered for what was asked to stop.
EscalationInv == \A review \in escalations : Was(review, FALSE)

\* StopsOnlyReviewed of one hit.
Reviewed(h) ==
    /\ IF h.token.kind = "process" THEN h.reached = h.token.start
       ELSE \E r \in issued :
              /\ r.token = h.token
              /\ r.service = h.reached \/ r.service.manager = "theirs"
    /\ h.force \in BOOLEAN
    /\ h.force => Was(h.token, FALSE)

HitsInv == \A h \in hits : Reviewed(h)

\* The inductive invariant of the port inspector.
PortsInv == ProcInv /\ IssuedInv /\ StopInv /\ EscalationInv /\ HitsInv

\* Steps of the machine and of the panel leave the stop, the reviews and what
\* was hit as they are; births only grow.
MachineStep ==
    /\ births <= births'
    /\ \A p \in Alive' :
          \/ p \in Alive /\ proc'[p].birth = proc[p].birth
          \/ proc'[p].birth = births'
    /\ worker' = worker /\ issued' = issued /\ hits' = hits
    /\ escalations' \subseteq escalations

\* A process that came later is not older.
LEMMA MachineKeeps ==
    ASSUME PortsInv, ProcInv', MachineStep
    PROVE  PortsInv'
  <1>0. births \in Nat /\ births' \in Nat /\ births <= births'
    BY DEF PortsInv, ProcInv, MachineStep
  <1>1. ASSUME NEW birth, NoneOlder(birth)
        PROVE  NoneOlder(birth)'
    <2>1. birth \in Nat /\ birth <= births'
      BY <1>0, <1>1 DEF NoneOlder
    <2>2. ASSUME worker.token.pid \in Alive'
          PROVE  birth <= proc'[worker.token.pid].birth
      <3>1. CASE /\ worker.token.pid \in Alive
                 /\ proc'[worker.token.pid].birth = proc[worker.token.pid].birth
        BY <1>1, <3>1 DEF NoneOlder
      <3>2. CASE proc'[worker.token.pid].birth = births'
        BY <2>1, <3>2
      <3> QED BY <2>2, <3>1, <3>2 DEF MachineStep
    <2>3. worker' = worker
      BY DEF MachineStep
    <2> QED BY <2>1, <2>2, <2>3 DEF NoneOlder
  <1>2. worker' = worker /\ issued' = issued /\ hits' = hits
        /\ escalations' \subseteq escalations
    BY DEF MachineStep
  <1>3. \A review, force : Was(review, force) => Was(review, force)'
    BY <1>2 DEF Was
  <1>4. StopInv'
    <2>1. StopInv
      BY DEF PortsInv
    <2> QED BY <1>1, <1>2, <1>3, <2>1 DEF StopInv
  <1>5. IssuedInv' /\ EscalationInv'
    BY <1>2, <1>3 DEF PortsInv, IssuedInv, EscalationInv
  <1>6. HitsInv'
    BY <1>2 DEF PortsInv, HitsInv, Reviewed, Was
  <1> QED BY <1>4, <1>5, <1>6 DEF PortsInv

\* A socket is opened or closed by a process that stays who it is.
LEMMA SocketKeeps ==
    ASSUME ProcInv, NEW p \in Alive, NEW inode,
           proc' = [proc EXCEPT ![p].socket = inode], births' = births
    PROVE  /\ \A q \in Pids \ {p} : proc'[q] = proc[q]
           /\ proc' = [q \in Pids |-> proc'[q]]
           /\ proc'[p].birth = proc[p].birth /\ proc'[p].service = proc[p].service
           /\ IsProcess(proc'[p])
           /\ births' \in Nat /\ births <= births'
           /\ proc[p].service = NoService \/ IsService(proc[p].service)
  <1>1. births \in Nat /\ proc = [q \in Pids |-> proc[q]] /\ p \in Pids
    BY DEF ProcInv, Alive
  <1>2. /\ IsProcess(proc[p]) /\ proc'[p] = [proc[p] EXCEPT !.socket = inode]
        /\ proc[p].service = NoService \/ IsService(proc[p].service)
    BY <1>1 DEF ProcInv
  <1>3. /\ \A q \in Pids \ {p} : proc'[q] = proc[q]
        /\ proc' = [q \in Pids |-> proc'[q]]
    BY <1>1
  <1> QED BY <1>1, <1>2, <1>3 DEF IsProcess

\* Processes start, share, open and close sockets, and end.
LEMMA ProcessesKeep ==
    ASSUME PortsInv, NEW p \in Pids,
           Spawn(p) \/ Listen(p) \/ CloseSocket(p) \/ EndProcess(p)
    PROVE  PortsInv'
  <1>0. /\ births \in Nat /\ proc = [q \in Pids |-> proc[q]]
        /\ \A q \in Alive :
              /\ IsProcess(proc[q])
              /\ proc[q].birth \in Nat /\ proc[q].birth <= births
              /\ proc[q].service = NoService \/ IsService(proc[q].service)
    BY DEF PortsInv, ProcInv
  <1>1. ASSUME /\ births' \in Nat /\ births <= births'
               /\ proc' = [q \in Pids |-> proc'[q]]
               /\ \A q \in Pids \ {p} : proc'[q] = proc[q]
               /\ p \in Alive' =>
                    /\ \/ p \in Alive /\ proc'[p].birth = proc[p].birth
                       \/ proc'[p].birth = births'
                    /\ IsProcess(proc'[p])
                    /\ proc'[p].service = NoService \/ IsService(proc'[p].service)
               /\ worker' = worker /\ issued' = issued /\ hits' = hits
               /\ escalations' = escalations
        PROVE  PortsInv'
    <2>1. ASSUME NEW q \in Alive'
          PROVE  /\ \/ q \in Alive /\ proc'[q].birth = proc[q].birth
                    \/ proc'[q].birth = births'
                 /\ IsProcess(proc'[q])
                 /\ proc'[q].service = NoService \/ IsService(proc'[q].service)
                 /\ proc'[q].birth \in Nat /\ proc'[q].birth <= births'
      <3>1. CASE q = p
        BY <1>0, <1>1, <2>1, <3>1
      <3>2. CASE q # p
        <4>1. q \in Alive /\ proc'[q] = proc[q]
          BY <1>1, <2>1, <3>2 DEF Alive
        <4> QED BY <1>0, <1>1, <4>1
      <3> QED BY <3>1, <3>2
    <2>2. ProcInv'
      BY <1>1, <2>1 DEF ProcInv
    <2>3. MachineStep
      BY <1>1, <2>1 DEF MachineStep
    <2> QED BY <2>2, <2>3, MachineKeeps
  <1>2. CASE Spawn(p)
    <2>1. PICK body \in Bodies, socket \in {0} \cup {proc[q].socket : q \in Alive} :
             proc' = [proc EXCEPT ![p] = [birth |-> births + 1, uid |-> body.uid,
                                          service |-> body.service, socket |-> socket]]
      BY <1>2 DEF Spawn
    <2>2. /\ births' = births + 1
          /\ worker' = worker /\ issued' = issued /\ hits' = hits
          /\ escalations' = escalations
      BY <1>2 DEF Spawn
    <2>3. /\ proc'[p].birth = births + 1 /\ IsProcess(proc'[p])
          /\ proc'[p].service = body.service
          /\ \A q \in Pids \ {p} : proc'[q] = proc[q]
          /\ proc' = [q \in Pids |-> proc'[q]]
      BY <1>0, <2>1 DEF IsProcess
    <2>4. body.service = NoService \/ IsService(body.service)
      BY PortsAssumption
    <2> QED BY <1>0, <1>1, <2>2, <2>3, <2>4
  <1>3. CASE Listen(p)
    <2>1. /\ p \in Alive /\ births' = births
          /\ worker' = worker /\ issued' = issued /\ hits' = hits
          /\ escalations' = escalations
      BY <1>3 DEF Listen
    <2>2. PICK inode : proc' = [proc EXCEPT ![p].socket = inode]
      BY <1>3 DEF Listen
    <2>3. ProcInv
      BY DEF PortsInv
    <2>4. /\ \A q \in Pids \ {p} : proc'[q] = proc[q]
          /\ proc' = [q \in Pids |-> proc'[q]]
          /\ proc'[p].birth = proc[p].birth /\ proc'[p].service = proc[p].service
          /\ IsProcess(proc'[p])
          /\ births' \in Nat /\ births <= births'
          /\ proc[p].service = NoService \/ IsService(proc[p].service)
      BY <2>1, <2>2, <2>3, SocketKeeps
    <2> QED BY <1>1, <2>1, <2>4
  <1>4. CASE CloseSocket(p)
    <2>1. /\ p \in Alive /\ births' = births
          /\ worker' = worker /\ issued' = issued /\ hits' = hits
          /\ escalations' = escalations
          /\ proc' = [proc EXCEPT ![p].socket = 0]
      BY <1>4 DEF CloseSocket
    <2>2. ProcInv
      BY DEF PortsInv
    <2>3. /\ \A q \in Pids \ {p} : proc'[q] = proc[q]
          /\ proc' = [q \in Pids |-> proc'[q]]
          /\ proc'[p].birth = proc[p].birth /\ proc'[p].service = proc[p].service
          /\ IsProcess(proc'[p])
          /\ births' \in Nat /\ births <= births'
          /\ proc[p].service = NoService \/ IsService(proc[p].service)
      BY <2>1, <2>2, SocketKeeps
    <2> QED BY <1>1, <2>1, <2>3
  <1>5. CASE EndProcess(p)
    <2>1. /\ births' = births /\ proc' = [proc EXCEPT ![p] = NoProcess]
          /\ worker' = worker /\ issued' = issued /\ hits' = hits
          /\ escalations' = escalations
      BY <1>5 DEF EndProcess
    <2>2. p \notin Alive'
      BY <1>0, <2>1 DEF Alive
    <2> QED BY <1>0, <1>1, <2>1, <2>2
  <1> QED BY <1>2, <1>3, <1>4, <1>5

\* What the panel shows and asks leaves the stop alone, but for a new review.
LEMMA PlanKeeps ==
    ASSUME PortsInv, NEW inode, Plan(inode)
    PROVE  PortsInv'
  <1>1. PICK review \in Reviews(inode) :
           issued' = issued \cup
             {[token |-> review,
               service |-> IF review.kind = "service" THEN ServiceOf(inode)
                           ELSE NoService]}
    BY DEF Plan
  <1>2. /\ births' = births /\ proc' = proc /\ worker' = worker /\ hits' = hits
        /\ escalations' = escalations /\ issued \subseteq issued'
    BY <1>1 DEF Plan
  <1>3. ASSUME review.kind = "service"
        PROVE  /\ IsService(ServiceOf(inode))
               /\ review.unit = ServiceOf(inode).name
               /\ review.scope = Scope(ServiceOf(inode))
    <2>1. \A unit, scope, p : Token(inode, "process", unit, scope, p).kind = "process"
      BY DEF Token
    <2>2. /\ OneService(Owners(inode))
          /\ review = Token(inode, "service", ServiceOf(inode).name,
                            Scope(ServiceOf(inode)), NoProcess)
      BY <1>3, <2>1 DEF Reviews
    <2>3. PICK p \in Owners(inode) : ServiceOf(inode) = proc[p].service
      BY <2>2 DEF OneService, ServiceOf
    <2>4. p \in Alive /\ proc[p].service # NoService
      BY <2>2 DEF OneService, Owners, Visible, Holders
    <2>5. IsService(ServiceOf(inode))
      BY <2>3, <2>4 DEF PortsInv, ProcInv
    <2> QED BY <2>2, <2>5 DEF Token
  <1>4. IssuedInv'
    BY <1>1, <1>3 DEF PortsInv, IssuedInv
  <1>5. ProcInv' /\ StopInv' /\ EscalationInv'
    BY <1>2 DEF PortsInv, ProcInv, StopInv, EscalationInv, Alive, NoneOlder, Was
  <1>6. HitsInv'
    BY <1>2 DEF PortsInv, HitsInv, Reviewed, Was
  <1> QED BY <1>4, <1>5, <1>6 DEF PortsInv

LEMMA PanelKeeps ==
    ASSUME PortsInv,
           \/ ClosePanel \/ UNCHANGED portsVars
           \/ \E i : Identify(i) \/ \E p : SelectOwner(i, p)
    PROVE  PortsInv'
  <1>1. /\ births' = births /\ proc' = proc /\ worker' = worker /\ hits' = hits
        /\ escalations' \subseteq escalations /\ issued' = issued
    BY DEF ClosePanel, Identify, SelectOwner, portsVars
  <1>2. ProcInv' /\ StopInv' /\ EscalationInv'
    BY <1>1 DEF PortsInv, ProcInv, StopInv, EscalationInv, Alive, NoneOlder, Was
  <1>3. IssuedInv' /\ HitsInv'
    BY <1>1 DEF PortsInv, IssuedInv, HitsInv, Reviewed, Was
  <1> QED BY <1>2, <1>3 DEF PortsInv

\* Nothing but the stop changed, and what was hit may have grown.
LEMMA StopMoves ==
    ASSUME PortsInv, StopInv', EscalationInv', HitsInv',
           UNCHANGED <<proc, births, issued>>
    PROVE  PortsInv'
  BY DEF PortsInv, ProcInv, IssuedInv, Alive

\* A review that is confirmed is one that the socket still supports.
LEMMA ReviewKeeps ==
    ASSUME PortsInv, NEW r \in issued, NEW force \in BOOLEAN,
           StartStop(r.token, force)
    PROVE  PortsInv'
  <1>1. /\ worker' = [pc |-> "act", token |-> r.token, force |-> force, pinned |-> 0]
        /\ r.token \in Reviews(r.token.inode)
        /\ force => r.token \in escalations
        /\ UNCHANGED <<proc, births, escalations, issued, hits>>
    BY DEF StartStop
  <1>2. ASSUME r.token.kind = "process"
        PROVE  r.token.pid \in Alive /\ r.token.start = proc[r.token.pid].birth
    <2> DEFINE inode == r.token.inode
    <2>0. \A unit, scope, p : Token(inode, "service", unit, scope, p).kind # "process"
      BY DEF Token
    <2>1. PICK p \in Lead(inode) : r.token = Token(inode, "process", NoService, "", p)
      BY <1>1, <1>2, <2>0 DEF Reviews
    <2>2. p \in Alive
      BY DEF Lead, Owners, Visible, Holders
    <2>3. p # NoProcess
      BY <2>2, PortsAssumption DEF Alive
    <2> HIDE DEF inode
    <2>4. /\ Token(inode, "process", NoService, "", p).pid = p
          /\ Token(inode, "process", NoService, "", p).start = proc[p].birth
      BY <2>3 DEF Token
    <2> QED BY <2>1, <2>2, <2>4
  <1>3. r.token.kind = "process" => NoneOlder(r.token.start)'
    BY <1>1, <1>2 DEF NoneOlder, PortsInv, ProcInv, Alive
  <1>4. force => Was(r.token, FALSE)'
    BY <1>1 DEF PortsInv, EscalationInv, Was
  <1>5. StopInv'
    BY <1>1, <1>3, <1>4 DEF StopInv
  <1>6. EscalationInv' /\ HitsInv'
    BY <1>1 DEF PortsInv, EscalationInv, HitsInv, Reviewed, Was
  <1> QED BY <1>1, <1>5, <1>6, StopMoves

\* What was hit stays hit, and stays reviewed.
LEMMA HitsGrow ==
    ASSUME HitsInv, hits \subseteq hits', issued' = issued
    PROVE  /\ \A review, force : Was(review, force) => Was(review, force)'
           /\ \A h \in hits : Reviewed(h)'
  BY DEF HitsInv, Reviewed, Was

\* A signal or a stop reached what was reviewed.
LEMMA HitKeeps ==
    ASSUME PortsInv, worker.pc # "rest", NEW reached, Hit(reached), Goes("wait"),
           UNCHANGED <<proc, births, escalations, issued>>,
           IF worker.token.kind = "process" THEN reached = worker.token.start
           ELSE \E r \in issued :
                  /\ r.token = worker.token
                  /\ r.service = reached \/ r.service.manager = "theirs"
    PROVE  PortsInv'
  <1> DEFINE h == [token |-> worker.token, force |-> worker.force, reached |-> reached]
  <1>1. /\ hits' = hits \cup {h} /\ worker' = [worker EXCEPT !.pc = "wait"]
        /\ issued' = issued
    BY DEF Hit, Goes
  <1>2. /\ \A review, force : Was(review, force) => Was(review, force)'
        /\ \A g \in hits : Reviewed(g)'
    BY <1>1, HitsGrow DEF PortsInv
  <1>3. /\ worker'.pc = "wait" /\ worker'.token = worker.token
        /\ worker'.force = worker.force
        /\ worker' = [pc |-> worker'.pc, token |-> worker'.token,
                      force |-> worker'.force, pinned |-> worker'.pinned]
    BY <1>1 DEF PortsInv, StopInv
  <1>4. Was(worker.token, worker.force)'
    <2>1. h \in hits' /\ h.token = worker'.token /\ h.force = worker'.force
      BY <1>1, <1>3
    <2> HIDE DEF h
    <2> QED BY <2>1 DEF Was
  <1>5. /\ \E r \in issued : r.token = worker.token
        /\ worker.force \in BOOLEAN
        /\ worker.force => Was(worker.token, FALSE)
    BY DEF PortsInv, StopInv
  <1>6. worker.force => \E g \in hits' : g.token = worker.token /\ g.force = FALSE
    BY <1>1, <1>5 DEF Was
  <1>7. StopInv'
    BY <1>1, <1>3, <1>4, <1>5, <1>6 DEF StopInv, Was
  <1>8. Reviewed(h)'
    BY <1>1, <1>5, <1>6 DEF Reviewed, Was
  <1>9. HitsInv'
    BY <1>1, <1>2, <1>8 DEF HitsInv
  <1>10. EscalationInv'
    BY <1>2 DEF PortsInv, EscalationInv
  <1> QED BY <1>7, <1>9, <1>10, StopMoves

\* A stop that is given up has hit nothing more.
LEMMA RestKeeps ==
    ASSUME PortsInv, worker' = NoStop, UNCHANGED <<proc, births, issued, hits>>,
           EscalationInv'
    PROVE  PortsInv'
  <1>1. StopInv'
    BY DEF StopInv, NoStop
  <1>2. HitsInv'
    BY DEF PortsInv, HitsInv, Reviewed, Was
  <1> QED BY <1>1, <1>2, StopMoves

\* The stop goes on to its next check.
LEMMA CheckKeeps ==
    ASSUME PortsInv, CheckProcess \/ PinProcess \/ Validate
    PROVE  PortsInv'
  <1>0. UNCHANGED <<proc, births, escalations, issued, hits>>
    BY DEF CheckProcess, PinProcess, Validate
  <1>1. EscalationInv' /\ HitsInv'
    BY <1>0 DEF PortsInv, EscalationInv, HitsInv, Reviewed, Was
  <1>2. CASE worker' = NoStop
    BY <1>0, <1>1, <1>2, RestKeeps
  <1>3. ASSUME NEW pc \in {"pin", "validate", "send"}, NEW pinned,
               worker' = [worker EXCEPT !.pc = pc, !.pinned = pinned],
               worker.pc # "rest", worker.token.kind = "process",
               NoneOlder(worker.token.start),
               pc # "pin" =>
                 NoneOlder(pinned) /\ worker.token.start <= pinned,
               pc = "send" => pinned = worker.token.start
        PROVE  PortsInv'
    <2>1. /\ worker'.pc = pc /\ worker'.pinned = pinned
          /\ worker'.token = worker.token /\ worker'.force = worker.force
          /\ worker' = [pc |-> worker'.pc, token |-> worker'.token,
                        force |-> worker'.force, pinned |-> worker'.pinned]
      BY <1>3 DEF PortsInv, StopInv
    <2>2. \A birth : NoneOlder(birth) => NoneOlder(birth)'
      BY <1>0, <2>1 DEF NoneOlder, Alive
    <2>3. StopInv'
      BY <1>0, <1>3, <2>1, <2>2 DEF PortsInv, StopInv, Was
    <2> QED BY <1>0, <1>1, <2>3, StopMoves
  <1>4. CASE CheckProcess /\ worker' # NoStop
    <2>1. /\ worker.pc = "act" /\ worker.token.kind = "process"
          /\ worker' = [worker EXCEPT !.pc = "pin"]
      BY <1>4 DEF CheckProcess, Goes, Refuse
    <2>2. NoneOlder(worker.token.start)
      BY <2>1 DEF PortsInv, StopInv
    <2>3. worker' = [worker EXCEPT !.pc = "pin", !.pinned = worker.pinned]
      BY <2>1 DEF PortsInv, StopInv
    <2> QED BY <1>3, <2>1, <2>2, <2>3
  <1>5. CASE PinProcess /\ worker' # NoStop
    <2>1. /\ worker.pc = "pin" /\ worker.token.pid \in Alive
          /\ worker' = [worker EXCEPT !.pc = "validate",
                                      !.pinned = proc[worker.token.pid].birth]
      BY <1>5 DEF PinProcess, Refuse
    <2>2. worker.token.kind = "process" /\ NoneOlder(worker.token.start)
      BY <2>1 DEF PortsInv, StopInv
    <2>3. /\ worker.token.start <= proc[worker.token.pid].birth
          /\ NoneOlder(proc[worker.token.pid].birth)
      BY <2>1, <2>2 DEF NoneOlder, PortsInv, ProcInv
    <2> QED BY <1>3, <2>1, <2>2, <2>3
  <1>6. CASE Validate /\ worker' # NoStop
    <2>1. /\ worker.pc = "validate" /\ Unchanged(worker.token)
          /\ worker' = [worker EXCEPT !.pc = "send"]
      BY <1>6 DEF Validate, Goes, Refuse
    <2>2. /\ worker.token.kind = "process" /\ NoneOlder(worker.token.start)
          /\ NoneOlder(worker.pinned) /\ worker.token.start <= worker.pinned
      BY <2>1 DEF PortsInv, StopInv
    <2>3. worker.pinned = worker.token.start
      BY <2>1, <2>2 DEF Unchanged, NoneOlder
    <2>4. worker' = [worker EXCEPT !.pc = "send", !.pinned = worker.pinned]
      BY <2>1 DEF PortsInv, StopInv
    <2> QED BY <1>3, <2>1, <2>2, <2>3, <2>4
  <1> QED BY <1>2, <1>4, <1>5, <1>6

\* Every step of a stop keeps the invariant.
LEMMA StopStepKeeps ==
    ASSUME PortsInv, StopStep
    PROVE  PortsInv'
  <1>1. CASE StopUserService
    <2>1. PICK r \in issued : r.token = worker.token
      BY <1>1 DEF StopUserService, PortsInv, StopInv
    <2>2. /\ IsService(r.service) /\ Scope(r.service) = "user"
          /\ r.service.name = worker.token.unit
      BY <1>1, <2>1 DEF StopUserService, PortsInv, IssuedInv
    <2>3. \/ r.service = [name |-> worker.token.unit, manager |-> "mine"]
          \/ r.service.manager = "theirs"
      BY <2>2 DEF IsService, Scope, Managers
    <2> QED BY <1>1, <2>1, <2>3, HitKeeps DEF StopUserService
  <1>2. CASE StopSystemService
    <2>1. PICK r \in issued : r.token = worker.token
      BY <1>2 DEF StopSystemService, PortsInv, StopInv
    <2>2. /\ IsService(r.service) /\ Scope(r.service) = "system"
          /\ r.service.name = worker.token.unit
      BY <1>2, <2>1 DEF StopSystemService, PortsInv, IssuedInv
    <2>3. r.service = [name |-> worker.token.unit, manager |-> "system"]
      BY <2>2 DEF IsService, Scope, Managers
    <2> QED BY <1>2, <2>1, <2>3, HitKeeps DEF StopSystemService
  <1>3. CASE ActFails
    <2>1. EscalationInv'
      BY <1>3 DEF ActFails, PortsInv, EscalationInv, Was
    <2> QED BY <1>3, <2>1, RestKeeps DEF ActFails, Refuse
  <1>4. CASE SendSignal
    <2>1. CASE worker' = NoStop /\ hits' = hits
      <3>1. EscalationInv'
        BY <1>4, <2>1 DEF SendSignal, PortsInv, EscalationInv, Was
      <3> QED BY <1>4, <2>1, <3>1, RestKeeps DEF SendSignal
    <2>2. CASE Hit(worker.pinned) /\ Goes("wait")
      <3>1. worker.token.kind = "process" /\ worker.pinned = worker.token.start
        BY <1>4 DEF SendSignal, PortsInv, StopInv
      <3> QED BY <1>4, <2>2, <3>1, HitKeeps DEF SendSignal
    <2> QED BY <1>4, <2>1, <2>2 DEF SendSignal, Refuse
  <1>5. CASE EndStop
    <2>1. Was(worker.token, worker.force) /\ worker.force \in BOOLEAN
      BY <1>5 DEF EndStop, PortsInv, StopInv
    <2>2. ~worker.force => Was(worker.token, FALSE)
      BY <2>1
    <2>3. EscalationInv'
      BY <1>5, <2>2 DEF EndStop, PortsInv, EscalationInv, Was
    <2> QED BY <1>5, <2>3, RestKeeps DEF EndStop
  <1> QED BY <1>1, <1>2, <1>3, <1>4, <1>5, CheckKeeps DEF StopStep

\* The births of processes, the reviews, the stop and what was hit agree in
\* every state, for any processes, sockets and services.
THEOREM PortsAlways == PortsSpec => []PortsInv
  <1>1. PortsInit => PortsInv
    BY DEF PortsInit, PortsInv, ProcInv, IssuedInv, StopInv, EscalationInv,
           HitsInv, Alive, NoStop
  <1>2. PortsInv /\ [PortsNext]_portsVars => PortsInv'
    BY ProcessesKeep, PlanKeeps, PanelKeeps, ReviewKeeps, StopStepKeeps
       DEF PortsNext
  <1> QED BY <1>1, <1>2, PTL DEF PortsSpec

\* A signal reaches only the process that was reviewed, a stop only the service
\* that was, and force only what was asked to stop before, whatever ends, starts
\* and takes over pids, names and sockets meanwhile.
THEOREM ReviewedAlways == PortsSpec => []StopsOnlyReviewed
  <1>1. PortsInv => StopsOnlyReviewed
    BY DEF PortsInv, HitsInv, Reviewed, Was, StopsOnlyReviewed
  <1> QED BY <1>1, PortsAlways, PTL

-----------------------------------------------------------------------------
(* The notes.  What is on its way to the window was in a note, and while a  *)
(* save is between its comparison and its replacement the note says what    *)
(* was compared, unless the other editor came in between.                   *)

IsSequence(s) == \E S : s \in Seq(S)

EditorFields == {"path", "draft", "base", "state", "conflict", "disputed", "trashing",
                 "captures", "shown", "out"}

IsEditor(s) == s = [field \in EditorFields |-> s[field]]

\* What the editor calls saved was in a note.
SavedWas(s, texts) == s.state = "saved" => s.draft \in texts \cup {Blank}

Faithful(s, texts) == IsEditor(s) /\ SavedWas(s, texts)

ReplyKinds == {"document", "saved", "conflict", "gone", "trashed", "restored",
               "listing", "failed"}

\* An acknowledgement on its way names a text that was written.
Reply(reply, texts) ==
    /\ reply.kind \in ReplyKinds
    /\ reply.kind = "saved" => reply.text \in texts

\* What is about to be replaced is what was compared, if nobody wrote since; only a
\* resolution replaces what it could not read.
WritingInv ==
    /\ writing = [active |-> writing.active, path |-> writing.path,
                  text |-> writing.text, base |-> writing.base,
                  reply |-> writing.reply, op |-> writing.op, raced |-> writing.raced,
                  unread |-> writing.unread]
    /\ writing.active \in BOOLEAN /\ writing.raced \in BOOLEAN
    /\ writing.unread \in BOOLEAN
    /\ writing.unread => writing.op = "resolve"
    /\ writing.active /\ writing.path \in Names =>
         \/ writing.raced \/ writing.unread
         \/ vault[writing.path] \in {Absent, Blank, writing.base}

\* The inductive invariant of the notes.
NotesInv ==
    /\ Faithful(editor, kept)
    /\ IsSequence(replies)
    /\ \A i \in 1..Len(replies) : Reply(replies[i], kept)
    /\ vault = [n \in Names |-> vault[n]]
    /\ IsSequence(trash)
    /\ WritingInv

-----------------------------------------------------------------------------
(* Sequences whose elements have no common type. *)

\* What is appended comes last, and the rest stays.
LEMMA Appends ==
    ASSUME NEW s, NEW e, IsSequence(s)
    PROVE  /\ IsSequence(Append(s, e))
           /\ Len(s) \in Nat /\ Len(Append(s, e)) = Len(s) + 1
           /\ Append(s, e)[Len(s) + 1] = e
           /\ \A i \in 1..Len(s) : Append(s, e)[i] = s[i]
           /\ DOMAIN Append(s, e) = 1..(Len(s) + 1)
  <1>1. PICK S : s \in Seq(S)
    BY DEF IsSequence
  <1> DEFINE T == S \cup {e}
  <1>2. s \in Seq(T) /\ e \in T
    BY <1>1, SeqMonotonic
  <1> HIDE DEF T
  <1>3. Append(s, e) \in Seq(T)
    BY <1>2
  <1> QED BY <1>2, <1>3, AppendProperties, LenProperties DEF IsSequence

\* What is not the first stays, one place ahead.
LEMMA Tails ==
    ASSUME NEW s, IsSequence(s), s # <<>>
    PROVE  /\ IsSequence(Tail(s)) /\ 1 \in 1..Len(s) /\ Head(s) = s[1]
           /\ \A i \in 1..Len(Tail(s)) : i + 1 \in 1..Len(s) /\ Tail(s)[i] = s[i + 1]
  <1>1. PICK S : s \in Seq(S)
    BY DEF IsSequence
  <1> QED BY <1>1 DEF IsSequence

\* A sequence without one of its elements is a sequence.
LEMMA Removes ==
    ASSUME NEW s, IsSequence(s), NEW i \in DOMAIN s
    PROVE  IsSequence(RemoveAt(s, i))
  <1>1. PICK S : s \in Seq(S)
    BY DEF IsSequence
  <1>2. i \in 1..Len(s) /\ Len(s) \in Nat
    BY <1>1
  <1>3. SubSeq(s, 1, i - 1) \in Seq(S) /\ SubSeq(s, i + 1, Len(s)) \in Seq(S)
    BY <1>1, <1>2
  <1>4. SubSeq(s, 1, i - 1) \o SubSeq(s, i + 1, Len(s)) \in Seq(S)
    BY <1>3
  <1> QED BY <1>4 DEF IsSequence, RemoveAt

-----------------------------------------------------------------------------
(* The functions of the store say "saved" only of what was. *)

LEMMA Posts ==
    ASSUME NEW s, NEW texts, Faithful(s, texts), NEW request
    PROVE  Faithful(Post(s, request), texts)
  BY DEF Faithful, IsEditor, EditorFields, SavedWas, Post

LEMMA Flushes ==
    ASSUME NEW s, NEW texts, Faithful(s, texts)
    PROVE  Faithful(Flush(s), texts)
  <1>1. Faithful([s EXCEPT !.state = "idle"], texts)
    BY DEF Faithful, IsEditor, EditorFields, SavedWas
  <1>2. Faithful([s EXCEPT !.state = "saving"], texts)
    BY DEF Faithful, IsEditor, EditorFields, SavedWas
  <1> QED BY <1>1, <1>2, Posts DEF Flush

LEMMA Blanks ==
    ASSUME NEW s, NEW texts, IsEditor(s)
    PROVE  /\ Faithful(Blanked(s), texts)
           /\ Blanked(s).draft = Blank
  BY DEF Faithful, IsEditor, EditorFields, SavedWas, Blanked

LEMMA Selects ==
    ASSUME NEW s, NEW texts, Faithful(s, texts), NEW n
    PROVE  Faithful(Select(s, n), texts)
  <1>1. Faithful(Flush(s), texts)
    BY Flushes
  <1>2. Faithful([Flush(s) EXCEPT !.conflict = FALSE, !.path = n], texts)
    BY <1>1 DEF Faithful, IsEditor, EditorFields, SavedWas
  <1> QED BY <1>2, Posts DEF Select

LEMMA Trashes ==
    ASSUME NEW s, NEW texts, Faithful(s, texts)
    PROVE  Faithful(TrashNote(s), texts)
  <1>1. Faithful([s EXCEPT !.trashing = TRUE], texts)
    BY DEF Faithful, IsEditor, EditorFields, SavedWas
  <1> QED BY <1>1, Flushes, Posts DEF TrashNote

\* Only the acknowledgement of the very text in the editor saves it.
LEMMA Acknowledges ==
    ASSUME NEW s, NEW texts, Faithful(s, texts), NEW reply, reply.text \in texts
    PROVE  Faithful(Acknowledged(s, reply), texts)
  <1> DEFINE t == [s EXCEPT !.path = reply.path, !.base = reply.text,
                            !.conflict = FALSE, !.state = AckState(s, reply),
                            !.shown = IF reply.of = @ THEN reply.path ELSE @]
  <1>1. IsEditor(t) /\ t.draft = s.draft /\ t.state = AckState(s, reply)
    BY DEF Faithful, IsEditor, EditorFields
  <1>2. Faithful(t, texts)
    BY <1>1 DEF Faithful, SavedWas, AckState
  <1>3. Acknowledged(s, reply) =
          IF t.trashing THEN TrashNote([t EXCEPT !.trashing = FALSE]) ELSE t
    BY DEF Acknowledged
  <1> HIDE DEF t
  <1>4. Faithful([t EXCEPT !.trashing = FALSE], texts)
    BY <1>2 DEF Faithful, IsEditor, EditorFields, SavedWas
  <1>5. Faithful(TrashNote([t EXCEPT !.trashing = FALSE]), texts)
    BY <1>4, Trashes
  <1> QED BY <1>2, <1>3, <1>5

LEMMA LeavesTrashed ==
    ASSUME NEW s, NEW texts, Faithful(s, texts), NEW files
    PROVE  Faithful(AfterTrash(s, files), texts)
  <1> DEFINE t == [s EXCEPT !.conflict = FALSE, !.state = "idle", !.path = NoName,
                            !.base = Absent]
             others == {n \in Names \ {s.path} : files[n] # Absent}
  <1>1. Faithful(t, texts)
    BY DEF Faithful, IsEditor, EditorFields, SavedWas
  <1>2. AfterTrash(s, files) = IF others = {} THEN Blanked(t)
                               ELSE Select(t, CHOOSE n \in others : TRUE)
    BY DEF AfterTrash
  <1> HIDE DEF t, others
  <1> QED BY <1>1, <1>2, Blanks, Selects DEF Faithful

LEMMA Lists ==
    ASSUME NEW s, NEW texts, Faithful(s, texts), NEW files
    PROVE  Faithful(Listed(s, files), texts)
  <1>1. Faithful([s EXCEPT !.state = "gone"], texts)
    BY DEF Faithful, IsEditor, EditorFields, SavedWas
  <1>2. Faithful([Blanked(s) EXCEPT !.state = s.state, !.conflict = s.conflict], texts)
    <2>1. IsEditor(Blanked(s)) /\ Blanked(s).draft = Blank
      BY Blanks DEF Faithful
    <2> QED BY <2>1 DEF Faithful, IsEditor, EditorFields, SavedWas
  <1>3. Faithful(Post(s, [op |-> "read", path |-> s.path]), texts)
    BY Posts
  <1> QED BY <1>1, <1>2, <1>3 DEF Listed

LEMMA Fails ==
    ASSUME NEW s, NEW texts, Faithful(s, texts), NEW reply
    PROVE  Faithful(Failed(s, reply), texts)
  BY DEF Faithful, IsEditor, EditorFields, SavedWas, Failed

LEMMA Receives ==
    ASSUME NEW s, NEW texts, Faithful(s, texts), NEW reply, Reply(reply, texts)
    PROVE  Faithful(Received(s, reply), texts)
  <1>1. CASE reply.kind = "document"
    <2>1. Faithful(Loaded(s, reply), texts)
      BY DEF Faithful, IsEditor, EditorFields, SavedWas, Loaded
    <2> QED BY <1>1, <2>1 DEF Received
  <1>2. CASE reply.kind = "saved"
    BY <1>2, Acknowledges DEF Received, Reply
  <1>3. CASE reply.kind = "conflict"
    BY <1>3 DEF Received, Faithful, IsEditor, EditorFields, SavedWas
  <1>4. CASE reply.kind = "gone"
    BY <1>4 DEF Received, Faithful, IsEditor, EditorFields, SavedWas
  <1>5. CASE reply.kind = "trashed"
    BY <1>5, LeavesTrashed DEF Received
  <1>6. CASE reply.kind = "restored"
    <2>1. Faithful([s EXCEPT !.conflict = FALSE], texts)
      BY DEF Faithful, IsEditor, EditorFields, SavedWas
    <2> QED BY <1>6, <2>1, Selects DEF Received
  <1>7. CASE reply.kind = "listing"
    BY <1>7, Lists DEF Received
  <1>8. CASE reply.kind = "failed"
    BY <1>8, Fails DEF Received
  <1> QED BY <1>1, <1>2, <1>3, <1>4, <1>5, <1>6, <1>7, <1>8 DEF Reply, ReplyKinds

-----------------------------------------------------------------------------
(* The window and the other editor. *)

\* Texts that were in notes stay among those that were.
LEMMA KeptGrows ==
    ASSUME NEW s, NEW texts, Faithful(s, texts), NEW more, texts \subseteq more
    PROVE  Faithful(s, more)
  BY DEF Faithful, SavedWas

LEMMA RepliesGrow ==
    ASSUME NotesInv, kept \subseteq kept', NEW reply, Reply(reply, kept'), Say(reply)
    PROVE  /\ IsSequence(replies')
           /\ \A i \in 1..Len(replies') : Reply(replies'[i], kept')
  <1>1. IsSequence(replies) /\ \A i \in 1..Len(replies) : Reply(replies[i], kept)
    BY DEF NotesInv
  <1>2. /\ IsSequence(replies')
        /\ Len(replies) \in Nat /\ Len(replies') = Len(replies) + 1
        /\ replies'[Len(replies) + 1] = reply
        /\ \A i \in 1..Len(replies) : replies'[i] = replies[i]
    BY <1>1, Appends DEF Say
  <1>3. ASSUME NEW i \in 1..Len(replies')
        PROVE  Reply(replies'[i], kept')
    <2>1. CASE i \in 1..Len(replies)
      BY <1>1, <1>2, <2>1 DEF Reply
    <2>2. CASE i = Len(replies) + 1
      BY <1>2, <2>2
    <2> QED BY <1>2, <2>1, <2>2
  <1> QED BY <1>2, <1>3

LEMMA RepliesStay ==
    ASSUME NotesInv, kept \subseteq kept', UNCHANGED replies
    PROVE  /\ IsSequence(replies')
           /\ \A i \in 1..Len(replies') : Reply(replies'[i], kept')
  BY DEF NotesInv, Reply

\* The window does nothing but edit and send.
LEMMA WindowKeeps ==
    ASSUME NotesInv, Faithful(editor', kept),
           UNCHANGED <<writing, vault, trash, kept>>,
           IsSequence(replies'), \A i \in 1..Len(replies') : Reply(replies'[i], kept)
    PROVE  NotesInv'
  BY DEF NotesInv, WritingInv

LEMMA ReceiveKeeps ==
    ASSUME NotesInv, Receive
    PROVE  NotesInv'
  <1>1. /\ IsSequence(Tail(replies)) /\ 1 \in 1..Len(replies)
        /\ Head(replies) = replies[1]
        /\ \A i \in 1..Len(Tail(replies)) :
              i + 1 \in 1..Len(replies) /\ Tail(replies)[i] = replies[i + 1]
    BY Tails DEF NotesInv, Receive
  <1>2. Reply(Head(replies), kept)
        /\ \A i \in 1..Len(Tail(replies)) : Reply(Tail(replies)[i], kept)
    BY <1>1 DEF NotesInv
  <1>3. Faithful(Received(editor, Head(replies)), kept)
    BY <1>2, Receives DEF NotesInv
  <1> QED BY <1>1, <1>2, <1>3, WindowKeeps DEF Receive

LEMMA UserKeeps ==
    ASSUME NotesInv, User
    PROVE  NotesInv'
  <1>1. UNCHANGED <<replies, writing, vault, trash, kept>>
    BY DEF User, Type, Autosave, NewNote, TrashOpen, SaveAsNew, CloseWindow, OpenNote,
           ResolveConflict, RestoreTrashed, UserSends
  <1>2. Faithful(editor, kept)
    BY DEF NotesInv
  <1>3. Faithful(editor', kept)
    <2>1. CASE \E text \in Texts : Type(text)
      BY <1>2, <2>1 DEF Type, Faithful, IsEditor, EditorFields, SavedWas
    <2>2. CASE Autosave \/ NewNote
      <3>1. Faithful(Flush(editor), kept)
        BY <1>2, Flushes
      <3>2. Faithful(Blanked(Flush(editor)), kept)
        BY <3>1, Blanks DEF Faithful
      <3> QED BY <2>2, <3>1, <3>2 DEF Autosave, NewNote, UserSends
    <2>3. CASE TrashOpen
      BY <1>2, <2>3, Trashes DEF TrashOpen, UserSends
    <2>4. CASE SaveAsNew
      <3> DEFINE t == [editor EXCEPT !.path = NoName, !.base = Absent,
                         !.state = "dirty", !.captures = @ + 1,
                         !.shown = editor.captures + 1]
      <3>1. Faithful(t, kept)
        BY <1>2 DEF Faithful, IsEditor, EditorFields, SavedWas
      <3>2. editor' = Flush(t)
        BY <2>4 DEF SaveAsNew, UserSends
      <3> HIDE DEF t
      <3> QED BY <3>1, <3>2, Flushes
    <2>5. CASE CloseWindow
      <3>1. Faithful(Flush(editor), kept)
        BY <1>2, Flushes
      <3> QED BY <2>5, <3>1, Posts DEF CloseWindow, UserSends
    <2>6. CASE \E n \in Names : OpenNote(n)
      BY <1>2, <2>6, Selects DEF OpenNote, UserSends
    <2>7. CASE \E mode \in {"copy", "mine", "theirs"} : ResolveConflict(mode)
      BY <1>2, <2>7, Posts DEF ResolveConflict, UserSends
    <2>8. CASE \E i \in DOMAIN trash : RestoreTrashed(i)
      BY <1>2, <2>8, Posts DEF RestoreTrashed, UserSends
    <2> QED BY <2>1, <2>2, <2>3, <2>4, <2>5, <2>6, <2>7, <2>8 DEF User
  <1> QED BY <1>1, <1>3, RepliesStay, WindowKeeps

\* The other editor marks a save that it comes in between.
LEMMA OtherKeeps ==
    ASSUME NotesInv, NEW n \in Names, NEW text, OtherWrites(n, text)
    PROVE  NotesInv'
  <1>1. /\ vault' = [vault EXCEPT ![n] = text]
        /\ writing' = [writing EXCEPT !.raced = @ \/ (writing.active /\ writing.path = n)]
        /\ UNCHANGED <<editor, replies, trash, kept>>
    BY DEF OtherWrites
  <1>2. WritingInv /\ vault = [m \in Names |-> vault[m]]
    BY DEF NotesInv
  <1>3. /\ writing'.active = writing.active /\ writing'.path = writing.path
        /\ writing'.base = writing.base /\ writing'.op = writing.op
        /\ writing'.unread = writing.unread
        /\ writing'.raced = (writing.raced \/ (writing.active /\ writing.path = n))
        /\ writing' = [active |-> writing'.active, path |-> writing'.path,
                       text |-> writing'.text, base |-> writing'.base,
                       reply |-> writing'.reply, op |-> writing'.op,
                       raced |-> writing'.raced, unread |-> writing'.unread]
    BY <1>1, <1>2 DEF WritingInv
  <1>4. \A m \in Names \ {n} : vault'[m] = vault[m]
    BY <1>1, <1>2
  <1>5. writing'.raced \in BOOLEAN
    BY <1>2, <1>3 DEF WritingInv
  <1>6. ASSUME writing.active, writing.path \in Names, ~writing'.raced, ~writing.unread
        PROVE  vault'[writing.path] \in {Absent, Blank, writing.base}
    <2>1. writing.path # n /\ ~writing.raced
      BY <1>3, <1>6
    <2> QED BY <1>2, <1>4, <1>6, <2>1 DEF WritingInv
  <1>7. WritingInv'
    BY <1>2, <1>3, <1>5, <1>6 DEF WritingInv
  <1>8. vault' = [m \in Names |-> vault'[m]]
    BY <1>1, <1>2
  <1> QED BY <1>1, <1>7, <1>8 DEF NotesInv

-----------------------------------------------------------------------------
(* The worker.  Every step of it keeps the invariant and loses no text. *)

\* OtherTextsSurvive of one step.
TextsSurvive ==
    \A n \in Names :
      vault[n] \in {Absent, Blank} \/ vault'[n] = vault[n]
      \/ Somewhere(vault[n])
      \/ (writing.active /\ writing.path = n
            /\ (vault[n] = writing.base \/ writing.raced \/ writing.unread))

LEMMA Takes ==
    ASSUME NotesInv, NEW op, Take(op), kept \subseteq kept'
    PROVE  ~writing.active /\ Faithful(editor', kept')
  <1>1. Faithful(editor, kept')
    BY KeptGrows DEF NotesInv
  <1>2. ~writing.active /\ editor' = [editor EXCEPT !.out = Tail(@)]
    BY DEF Take
  <1> QED BY <1>1, <1>2 DEF Faithful, IsEditor, EditorFields, SavedWas

LEMMA Kinds ==
    /\ \A op : [kind |-> "failed", op |-> op].kind = "failed"
    /\ [kind |-> "gone"].kind = "gone"
    /\ \A n : [kind |-> "conflict", path |-> n].kind = "conflict"
    /\ \A files : [kind |-> "trashed", files |-> files].kind = "trashed"
    /\ \A n : [kind |-> "restored", path |-> n].kind = "restored"
  OBVIOUS

\* A request that is answered at once.
LEMMA AnswerKeeps ==
    ASSUME NotesInv, NEW op, Take(op), NEW reply, Say(reply), UNCHANGED writing,
           kept \subseteq kept', Reply(reply, kept'),
           vault' = [n \in Names |-> vault'[n]], IsSequence(trash')
    PROVE  NotesInv'
  <1>1. ~writing.active /\ Faithful(editor', kept')
    BY Takes
  <1>2. /\ IsSequence(replies')
        /\ \A i \in 1..Len(replies') : Reply(replies'[i], kept')
    BY RepliesGrow
  <1>3. WritingInv'
    BY <1>1 DEF NotesInv, WritingInv
  <1> QED BY <1>1, <1>2, <1>3 DEF NotesInv

\* A file that takes a free name replaces nothing.
LEMMA FreeSurvive ==
    ASSUME NotesInv, NEW m, vault[m] = Absent, NEW text,
           vault' = [vault EXCEPT ![m] = text]
    PROVE  /\ vault' = [n \in Names |-> vault'[n]]
           /\ TextsSurvive
  <1>1. vault = [n \in Names |-> vault[n]]
    BY DEF NotesInv
  <1>2. \A n \in Names : vault'[n] = vault[n] \/ vault[n] = Absent
    BY <1>1
  <1> QED BY <1>1, <1>2 DEF TextsSurvive

LEMMA VaultStays ==
    ASSUME NotesInv, UNCHANGED vault
    PROVE  vault' = [n \in Names |-> vault'[n]] /\ TextsSurvive
  BY DEF NotesInv, TextsSurvive

\* The answer is the reply, or that the request failed.
LEMMA Answered ==
    ASSUME NEW reply, NEW op, Answer(reply, op), NEW texts, Reply(reply, texts)
    PROVE  \E r : Say(r) /\ Reply(r, texts)
  <1>1. \A o : Reply([kind |-> "failed", op |-> o], texts)
    BY DEF Reply, ReplyKinds
  <1> QED BY <1>1 DEF Answer

LEMMA AnswersKeep ==
    ASSUME NotesInv,
           \/ CreateNote \/ RefuseSave \/ SaveUnchanged \/ ResolveCopy \/ ResolveTheirs
           \/ ReadNote
           \/ \E op : Fail(op)
    PROVE  NotesInv' /\ TextsSurvive
  <1>1. IsSequence(trash)
    BY DEF NotesInv
  <1>2. CASE CreateNote \/ ResolveCopy
    <2>1. PICK n \in Free(vault) :
             /\ vault' = [vault EXCEPT ![n] = Request.text]
             /\ \E op : Answer(SavedAs(n), op)
             /\ Keep(Request.text)
      BY <1>2 DEF CreateNote, ResolveCopy
    <2>2. vault' = [m \in Names |-> vault'[m]] /\ TextsSurvive
      BY <2>1, FreeSurvive DEF Free
    <2>3. kept \subseteq kept' /\ Reply(SavedAs(n), kept')
      BY <2>1 DEF Keep, SavedAs, Reply, ReplyKinds
    <2>4. UNCHANGED <<writing, trash>> /\ \E op : Take(op)
      BY <1>2 DEF CreateNote, ResolveCopy
    <2>5. PICK r : Say(r) /\ Reply(r, kept')
      BY <2>1, <2>3, Answered
    <2> QED BY <1>1, <2>2, <2>3, <2>4, <2>5, AnswerKeeps
  <1>3. CASE SaveUnchanged
    <2>1. /\ Take("save") /\ Answer(SavedAs(Request.path), "save") /\ Keep(Request.text)
          /\ UNCHANGED <<writing, vault, trash>>
      BY <1>3 DEF SaveUnchanged
    <2>2. kept \subseteq kept' /\ Reply(SavedAs(Request.path), kept')
      BY <2>1 DEF Keep, SavedAs, Reply, ReplyKinds
    <2>3. PICK r : Say(r) /\ Reply(r, kept')
      BY <2>1, <2>2, Answered
    <2> QED BY <1>1, <2>1, <2>2, <2>3, VaultStays, AnswerKeeps
  <1>4. CASE ResolveTheirs \/ ReadNote
    <2> DEFINE reply == [kind |-> "document", path |-> Request.path,
                         text |-> vault[Request.path]]
    <2>1. /\ \E op : Take(op)
          /\ Say(reply) \/ \E op : Answer(reply, op)
          /\ Keep(vault[Request.path])
          /\ UNCHANGED <<writing, vault, trash>>
      BY <1>4 DEF ResolveTheirs, ReadNote
    <2>2. kept \subseteq kept' /\ Reply(reply, kept')
      BY <2>1 DEF Keep, Reply, ReplyKinds
    <2> HIDE DEF reply
    <2>3. PICK r : Say(r) /\ Reply(r, kept')
      BY <2>1, <2>2, Answered
    <2> QED BY <1>1, <2>1, <2>2, <2>3, VaultStays, AnswerKeeps
  <1>5. CASE RefuseSave \/ \E op : Fail(op)
    <2>1. /\ \E op : Take(op)
          /\ UNCHANGED <<writing, vault, trash, kept>>
      BY <1>5 DEF RefuseSave, Fail
    <2>2. PICK reply : Say(reply) /\ reply.kind \in {"gone", "conflict", "failed"}
      <3>1. CASE RefuseSave
        BY <3>1, Kinds DEF RefuseSave
      <3>2. CASE \E op : Fail(op)
        BY <3>2, Kinds DEF Fail
      <3> QED BY <1>5, <3>1, <3>2
    <2>3. kept \subseteq kept' /\ Reply(reply, kept')
      BY <2>1, <2>2 DEF Reply, ReplyKinds
    <2> QED BY <1>1, <2>1, <2>2, <2>3, VaultStays, AnswerKeeps
  <1> QED BY <1>2, <1>3, <1>4, <1>5

\* The text that leaves a note for the trash is there, listed or not; what comes
\* back takes a place that nothing has.
LEMMA TrashKeeps ==
    ASSUME NotesInv, NEW done \in BOOLEAN, MoveToTrash(done) \/ MoveBack(done)
    PROVE  NotesInv' /\ TextsSurvive
  <1>1. /\ IsSequence(trash) /\ vault = [n \in Names |-> vault[n]]
        /\ UNCHANGED <<writing, kept>>
    BY DEF NotesInv, MoveToTrash, MoveBack
  <1>2. \E op : Take(op)
    BY DEF MoveToTrash, MoveBack
  <1>4. PICK reply : Say(reply) /\ reply.kind \in {"trashed", "restored", "failed"}
    <2>1. CASE MoveToTrash(done)
      BY <2>1, Kinds DEF MoveToTrash
    <2>2. CASE MoveBack(done)
      BY <2>2, Kinds DEF MoveBack
    <2> QED BY <2>1, <2>2
  <1>5. kept \subseteq kept' /\ Reply(reply, kept')
    BY <1>1, <1>4 DEF Reply, ReplyKinds
  <1>6. CASE MoveToTrash(done)
    <2> DEFINE file == [origin |-> Request.path, text |-> vault[Request.path],
                        listed |-> done]
    <2>1. /\ trash' = Append(trash, file)
          /\ vault' = [vault EXCEPT ![Request.path] = Absent]
      BY <1>6 DEF MoveToTrash
    <2>2. file.text = vault[Request.path]
      OBVIOUS
    <2> HIDE DEF file
    <2>3. /\ IsSequence(trash')
          /\ Len(trash) + 1 \in DOMAIN trash'
          /\ trash'[Len(trash) + 1] = file
      BY <1>1, <2>1, Appends
    <2>4. Somewhere(vault[Request.path])
      BY <2>2, <2>3 DEF Somewhere
    <2>5. \A n \in Names : n # Request.path => vault'[n] = vault[n]
      BY <1>1, <2>1
    <2>6. vault' = [n \in Names |-> vault'[n]]
      BY <1>1, <2>1
    <2>7. TextsSurvive
      BY <2>4, <2>5 DEF TextsSurvive
    <2> QED BY <1>1, <1>2, <1>4, <1>5, <2>3, <2>6, <2>7, AnswerKeeps
  <1>7. CASE MoveBack(done)
    <2>1. /\ Request.id \in DOMAIN trash
          /\ trash' = RemoveAt(trash, Request.id)
          /\ \E m, text : vault[m] = Absent /\ vault' = [vault EXCEPT ![m] = text]
      BY <1>7 DEF MoveBack, Free
    <2>2. IsSequence(trash')
      BY <1>1, <2>1, Removes
    <2>3. vault' = [n \in Names |-> vault'[n]] /\ TextsSurvive
      BY <2>1, FreeSurvive
    <2> QED BY <1>1, <1>2, <1>4, <1>5, <2>2, <2>3, AnswerKeeps
  <1> QED BY <1>6, <1>7

\* The worker starts to write over what it compared, or over what it moved
\* aside, or over nothing, or over what it could not read.
LEMMA StartKeeps ==
    ASSUME NotesInv, BeginSave \/ ResolveMine
    PROVE  NotesInv' /\ TextsSurvive
  <1>1. /\ UNCHANGED <<replies, trash, kept>>
        /\ \E op : Take(op)
    BY DEF BeginSave, ResolveMine
  <1>2. vault = [n \in Names |-> vault[n]]
    BY DEF NotesInv
  <1>3. Faithful(editor', kept')
    BY <1>1, Takes
  <1>4. /\ IsSequence(replies') /\ IsSequence(trash')
        /\ \A i \in 1..Len(replies') : Reply(replies'[i], kept')
    BY <1>1, RepliesStay DEF NotesInv
  <1>5. SUFFICES WritingInv' /\ vault' = [n \in Names |-> vault'[n]] /\ TextsSurvive
    BY <1>3, <1>4 DEF NotesInv
  <1>6. ASSUME NEW base, NEW unread \in BOOLEAN, StartWrite(base, unread),
               unread => Request.op = "resolve",
               Request.path \in Names /\ ~unread =>
                  vault'[Request.path] \in {Absent, Blank, base}
        PROVE  WritingInv'
    BY <1>6 DEF StartWrite, WritingInv
  <1>7. CASE BeginSave
    <2>1. /\ StartWrite(Request.base, FALSE) /\ UNCHANGED vault
          /\ vault[Request.path] = Request.base
      BY <1>7 DEF BeginSave, SameAsBaseline
    <2>2. WritingInv'
      BY <1>6, <2>1
    <2> QED BY <2>1, <2>2, VaultStays
  <1>8. CASE ResolveMine
    <2> DEFINE found == vault[Request.path]
    <2>1. PICK text \in TakenFor(found) :
             /\ vault' \in Aside(vault, text)
             /\ StartWrite(IF vault' = vault THEN Absent ELSE found,
                           found \notin {Absent, text})
      BY <1>8 DEF ResolveMine
    <2>2. Request.op = "resolve"
      BY <1>8 DEF ResolveMine, Take
    <2>3. CASE text = Blank
      <3>1. UNCHANGED vault
        BY <2>1, <2>3 DEF Aside
      <3>2. PICK unread \in BOOLEAN : unread = (found \notin {Absent, text})
        OBVIOUS
      <3>3. StartWrite(IF vault' = vault THEN Absent ELSE found, unread)
        BY <2>1, <3>2
      <3>4. ~unread => found \in {Absent, Blank}
        BY <2>3, <3>2
      <3>5. WritingInv'
        BY <1>6, <2>2, <3>1, <3>3, <3>4
      <3> QED BY <3>1, <3>5, VaultStays
    <2>4. CASE text # Blank
      <3>1. text = found /\ found # Absent
        BY <2>1, <2>4 DEF TakenFor
      <3>2. PICK m \in Free(vault) : vault' = [vault EXCEPT ![m] = found]
        BY <2>1, <2>4, <3>1 DEF Aside
      <3>3. m \in Names /\ vault[m] = Absent
        BY DEF Free
      <3>4. vault'[m] = found /\ vault' # vault
        BY <1>2, <3>1, <3>2, <3>3
      <3>5. Request.path \in Names => vault'[Request.path] = found
        BY <1>2, <3>2, <3>3
      <3>6. StartWrite(found, FALSE)
        BY <2>1, <3>1, <3>4
      <3> HIDE DEF found
      <3>7. WritingInv'
        BY <1>6, <3>5, <3>6
      <3> QED BY <3>2, <3>3, <3>7, FreeSurvive
    <2> QED BY <2>3, <2>4
  <1> QED BY <1>7, <1>8

\* The replacement loses what it was compared with, or what came in between.
LEMMA ReplaceKeeps ==
    ASSUME NotesInv, Replace \/ ReplaceFails
    PROVE  NotesInv' /\ TextsSurvive
  <1>1. /\ writing.active /\ writing' = Nowhere
        /\ UNCHANGED <<editor, trash>> /\ kept \subseteq kept'
        /\ vault = [n \in Names |-> vault[n]]
    BY DEF NotesInv, Replace, ReplaceFails, Keep
  <1>2. Faithful(editor', kept')
    BY <1>1, KeptGrows DEF NotesInv
  <1>3. WritingInv'
    BY <1>1 DEF WritingInv, Nowhere
  <1>4. SUFFICES ASSUME NEW reply, Say(reply), Reply(reply, kept'),
                        vault' = [n \in Names |-> vault'[n]], TextsSurvive
                 PROVE  NotesInv'
    <2>1. CASE Replace
      <3> DEFINE r == [kind |-> "saved", path |-> writing.path, text |-> writing.text,
                       of |-> writing.reply]
      <3>1. Answer(r, writing.op) /\ Reply(r, kept')
        BY <2>1 DEF Replace, Keep, Reply, ReplyKinds
      <3>2. vault' = [vault EXCEPT ![writing.path] = writing.text]
        BY <2>1 DEF Replace
      <3>3. \A n \in Names : n # writing.path => vault'[n] = vault[n]
        BY <1>1, <3>2
      <3>4. TextsSurvive
        BY <1>1, <3>3 DEF TextsSurvive, NotesInv, WritingInv
      <3>5. vault' = [n \in Names |-> vault'[n]]
        BY <1>1, <3>2
      <3> HIDE DEF r
      <3>6. PICK other : Say(other) /\ Reply(other, kept')
        BY <3>1, Answered
      <3> QED BY <1>4, <3>4, <3>5, <3>6
    <2>2. CASE ReplaceFails
      <3> DEFINE r == [kind |-> "failed", op |-> writing.op]
      <3>1. Say(r) /\ Reply(r, kept')
        BY <2>2 DEF ReplaceFails, Reply, ReplyKinds
      <3>2. vault' = [n \in Names |-> vault'[n]] /\ TextsSurvive
        BY <2>2, VaultStays DEF ReplaceFails
      <3> HIDE DEF r
      <3> QED BY <1>4, <3>1, <3>2
    <2> QED BY <2>1, <2>2
  <1>5. /\ IsSequence(replies')
        /\ \A i \in 1..Len(replies') : Reply(replies'[i], kept')
    BY <1>1, <1>4, RepliesGrow
  <1> QED BY <1>1, <1>2, <1>3, <1>4, <1>5 DEF NotesInv

LEMMA DraftKeeps ==
    ASSUME NotesInv, KeepDraft
    PROVE  NotesInv' /\ TextsSurvive
  <1>1. Take("draft") /\ UNCHANGED <<replies, writing, vault, trash, kept>>
    BY DEF KeepDraft
  <1>2. Faithful(editor', kept)
    BY <1>1, Takes
  <1>3. /\ IsSequence(replies')
        /\ \A i \in 1..Len(replies') : Reply(replies'[i], kept)
    BY <1>1, RepliesStay
  <1> QED BY <1>1, <1>2, <1>3, WindowKeeps, VaultStays

LEMMA WorkerKeeps ==
    ASSUME NotesInv, Worker
    PROVE  NotesInv' /\ TextsSurvive
  BY AnswersKeep, TrashKeeps, StartKeeps, ReplaceKeeps, DraftKeeps DEF Worker

LEMMA ListKeeps ==
    ASSUME NotesInv, List
    PROVE  NotesInv'
  <1>1. PICK files : /\ Say([kind |-> "listing", files |-> files])
                     /\ UNCHANGED <<editor, writing, vault, trash, kept>>
    BY DEF List
  <1> DEFINE reply == [kind |-> "listing", files |-> files]
  <1>2. Say(reply) /\ Reply(reply, kept') /\ kept \subseteq kept'
    BY <1>1 DEF Reply, ReplyKinds
  <1>3. Faithful(editor', kept)
    BY <1>1 DEF NotesInv
  <1> HIDE DEF reply
  <1>4. /\ IsSequence(replies')
        /\ \A i \in 1..Len(replies') : Reply(replies'[i], kept)
    BY <1>1, <1>2, RepliesGrow
  <1> QED BY <1>1, <1>3, <1>4, WindowKeeps

LEMMA NotesStutter ==
    ASSUME NotesInv, UNCHANGED notesVars
    PROVE  NotesInv'
  <1>1. UNCHANGED <<editor, replies, writing, vault, trash, kept>>
    BY DEF notesVars
  <1> QED BY <1>1, RepliesStay, WindowKeeps DEF NotesInv

LEMMA NotesStart ==
    ASSUME NotesInit
    PROVE  NotesInv
  <1>1. Faithful(editor, kept)
    BY DEF NotesInit, NewCapture, Faithful, IsEditor, EditorFields, SavedWas
  <1>2. IsSequence(trash)
    <2>1. PICK m, text : trash = <<[origin |-> m, text |-> text, listed |-> TRUE]>>
      BY DEF NotesInit
    <2> DEFINE file == [origin |-> m, text |-> text, listed |-> TRUE]
    <2>2. trash = <<file>>
      BY <2>1
    <2> HIDE DEF file
    <2>3. <<file>> \in Seq({file})
      OBVIOUS
    <2> QED BY <2>2, <2>3 DEF IsSequence
  <1>3. replies = <<>> /\ writing = Nowhere /\ vault = [m \in Names |-> vault[m]]
    BY DEF NotesInit
  <1>4. IsSequence(replies) /\ \A i \in 1..Len(replies) : Reply(replies[i], kept)
    <2>1. <<>> \in Seq({}) /\ Len(<<>>) = 0
      OBVIOUS
    <2> QED BY <1>3, <2>1 DEF IsSequence
  <1>5. WritingInv
    BY <1>3 DEF WritingInv, Nowhere
  <1> QED BY <1>1, <1>2, <1>3, <1>4, <1>5 DEF NotesInv

\* The window, the worker and the other editor agree in every state on what was
\* saved and on what is about to be replaced, for any notes and texts.
THEOREM NotesAlways == NotesSpec => []NotesInv
  <1>1. NotesInit => NotesInv
    BY NotesStart
  <1>2. NotesInv /\ [NotesNext]_notesVars => NotesInv'
    BY UserKeeps, ReceiveKeeps, WorkerKeeps, OtherKeeps, ListKeeps, NotesStutter
       DEF NotesNext
  <1> QED BY <1>1, <1>2, PTL DEF NotesSpec

\* What the window calls saved was in a note, however late the acknowledgements
\* of older texts come.
THEOREM SavedAlways == NotesSpec => []SavedIsKept
  <1>1. NotesInv => SavedIsKept
    BY DEF NotesInv, Faithful, SavedWas, SavedIsKept
  <1> QED BY <1>1, NotesAlways, PTL

\* No step of the worker destroys what another editor wrote, but in the gap
\* between the comparison and the replacement, and but for a resolution that takes
\* a note it cannot read for an empty one.
THEOREM TextsAlways == NotesSpec => OtherTextsSurvive
  <1>1. NotesInv /\ Worker => TextsSurvive
    BY WorkerKeeps
  <1>2. NotesInv /\ [NotesNext]_notesVars =>
          [Worker => TextsSurvive]_notesVars
    BY <1>1
  <1> QED BY <1>2, NotesAlways, PTL DEF NotesSpec, OtherTextsSurvive, TextsSurvive
================================================================================
