------------------------------ MODULE HostProofs ------------------------------
(***************************************************************************)
(* What a publication of projects/config-tools/src/themes.rs leaves behind *)
(* for any catalog, schedule, number of commands and failures, and a call  *)
(* of projects/runtime/src/process.rs for any modes, inputs, limits and    *)
(* number of processes.                                                    *)
(***************************************************************************)
EXTENDS Themes, Processes, TLAPS

-----------------------------------------------------------------------------
(* Publications. *)

Publishing == {"create", "fill", "switch", "record", "undo", "finish"}

\* The boundaries that a step may have recorded.
Lasts == {0} \cup {Since(at) : at \in Nat}

Choice == [slot : [Modes -> Catalog], mode : Modes, auto : BOOLEAN, last : Lasts]

Generation == [theme : Catalog, whole : BOOLEAN]

Progress ==
    [pc : {"idle", "waiting"} \cup Publishing, at : Nat, theme : Catalog \cup {NoFile},
     new : Generations \cup {NoFile}, old : Generations \cup {NoFile}]

TypeOK ==
    /\ prefs \in Choice \cup {NoFile}
    /\ selection \in Catalog \cup {NoFile}
    /\ current \in Generations \cup {NoFile}
    /\ dirs \in [Generations -> Generation \cup {NoFile}]
    /\ publisher \in [Processes -> Progress]
    /\ now \in Nat
    /\ torn \in BOOLEAN /\ stranded \in BOOLEAN

Busy(p) == publisher[p].pc \in Publishing

\* The lock.
OneBusy == \A p, q \in Processes : Busy(p) /\ Busy(q) => p = q

\* What the link leads to has every file, and is the selected theme.
Whole(link) == link # NoFile /\ ~stranded => dirs[link] # NoFile /\ dirs[link].whole

Agrees(link) ==
    ~torn => IF link = NoFile THEN selection = NoFile ELSE dirs[link].theme = selection

\* The generation under way: there, of the theme asked for, and not yet linked
\* or linked in the place of the generation before.
UnderWay(p) ==
    LET s == publisher[p]
    IN /\ s.pc \in Publishing => s.theme \in Catalog
       /\ s.pc \in Publishing \ {"create"} =>
            /\ s.new \in Generations
            /\ dirs[s.new] # NoFile /\ dirs[s.new].theme = s.theme
            /\ s.pc # "fill" => dirs[s.new].whole
       /\ s.pc \in {"fill", "switch"} => s.new # current
       /\ s.pc \in {"record", "undo", "finish"} => current = s.new /\ s.old # s.new
       /\ s.pc \in {"record", "undo"} => Whole(s.old) /\ Agrees(s.old)
       /\ s.pc = "finish" => selection = s.theme

\* Until the link is replaced, and again once the selection is recorded, the
\* link and the selection agree.
Settled ==
    (\A p \in Processes : publisher[p].pc \notin {"record", "undo"}) => Agrees(current)

\* The inductive invariant.
Published ==
    /\ TypeOK
    /\ OneBusy
    /\ stranded => torn
    /\ Whole(current)
    /\ Settled
    /\ \A p \in Processes : UnderWay(p)

-----------------------------------------------------------------------------
(* Types. *)

LEMMA DefaultsTyped == Defaults \in Choice
  <1>1. \A mode \in Modes : \E theme \in Catalog : ModeOf(theme) = mode
    BY ThemesAssumption DEF Modes, Catalog, ModeOf
  <1>2. \A mode \in Modes : DefaultFor(mode) \in Catalog
    BY <1>1, ThemesAssumption DEF DefaultFor
  <1>3. ModeOf(Default) \in Modes
    BY DEF ModeOf, Modes
  <1> QED BY <1>2, <1>3 DEF Defaults, Choice, Lasts

LEMMA PreferencesTyped ==
  ASSUME TypeOK
  PROVE  Preferences \in Choice
  <1>1. CASE prefs # NoFile
    BY <1>1 DEF Preferences, TypeOK
  <1>2. CASE prefs = NoFile
    <2>1. Shown \in Catalog
      BY ThemesAssumption DEF Shown, TypeOK
    <2>2. ModeOf(Shown) \in Modes
      BY DEF ModeOf, Modes
    <2> QED BY <1>2, <2>1, <2>2, DefaultsTyped DEF Preferences, Choice
  <1> QED BY <1>1, <1>2

LEMMA AppliedTyped ==
  ASSUME NEW saved \in Choice
  PROVE  Applied(saved) \in Catalog
  BY DEF Applied, Choice

LEMMA ScheduleTyped ==
  ASSUME NEW at \in Nat
  PROVE  Since(at) \in Lasts /\ WantedMode(at) \in Modes
  BY ThemesAssumption DEF Lasts, WantedMode, Modes

-----------------------------------------------------------------------------
(* What is left to show when one process has moved. *)

LEMMA Alone ==
  ASSUME Published, NEW p \in Processes, Busy(p)
  PROVE  \A q \in Processes \ {p} : ~Busy(q)
  BY DEF Published, OneBusy

LEMMA Assembled ==
  ASSUME NEW p \in Processes, TypeOK',
         \A q \in Processes \ {p} : ~Busy(q)',
         (stranded => torn)', Whole(current)', UnderWay(p)',
         publisher'[p].pc \notin {"record", "undo"} => Agrees(current)'
  PROVE  Published'
  <1>1. OneBusy'
    BY DEF OneBusy
  <1>2. \A q \in Processes : UnderWay(q)'
    BY DEF UnderWay, Busy, Publishing
  <1>3. Settled'
    BY DEF Settled
  <1> QED BY <1>1, <1>2, <1>3 DEF Published

LEMMA Placed ==
  ASSUME NEW f \in [Processes -> Progress], NEW p \in Processes, NEW next \in Progress
  PROVE  /\ [f EXCEPT ![p] = next] \in [Processes -> Progress]
         /\ [f EXCEPT ![p] = next][p] = next
         /\ \A q \in Processes \ {p} : [f EXCEPT ![p] = next][q] = f[q]
  OBVIOUS

\* A process that publishes nothing has nothing under way.
LEMMA NotUnderWay ==
  ASSUME NEW p \in Processes, publisher'[p].pc \in {"idle", "waiting"}
  PROVE  UnderWay(p)'
  BY DEF UnderWay, Publishing

LEMMA JustBegun ==
  ASSUME NEW p \in Processes, publisher'[p].pc = "create", publisher'[p].theme \in Catalog
  PROVE  UnderWay(p)'
  BY DEF UnderWay, Publishing

\* A process goes on with its publication.
LEMMA GoesOn ==
  ASSUME TypeOK, NEW p \in Processes, NEW pc \in Publishing,
         publisher' = [publisher EXCEPT ![p].pc = pc]
  PROVE  /\ publisher' \in [Processes -> Progress]
         /\ publisher'[p].pc = pc
         /\ publisher'[p].theme = publisher[p].theme
         /\ publisher'[p].new = publisher[p].new
         /\ publisher'[p].old = publisher[p].old
         /\ \A q \in Processes \ {p} : publisher'[q] = publisher[q]
  <1>1. [publisher[p] EXCEPT !.pc = pc] \in Progress
    BY DEF TypeOK, Progress
  <1>2. publisher' = [publisher EXCEPT ![p] = [publisher[p] EXCEPT !.pc = pc]]
    OBVIOUS
  <1>3. /\ publisher' \in [Processes -> Progress]
        /\ publisher'[p] = [publisher[p] EXCEPT !.pc = pc]
        /\ \A q \in Processes \ {p} : publisher'[q] = publisher[q]
    BY <1>1, <1>2, Placed DEF TypeOK
  <1> QED BY <1>3 DEF TypeOK, Progress

\* A process is done, fails or dies.
LEMMA Stops ==
  ASSUME TypeOK, NEW p \in Processes, publisher' = [publisher EXCEPT ![p] = Idle]
  PROVE  /\ publisher' \in [Processes -> Progress]
         /\ publisher'[p].pc = "idle"
         /\ \A q \in Processes \ {p} : publisher'[q] = publisher[q]
  <1>1. Idle \in Progress /\ Idle.pc = "idle"
    BY DEF Idle, Progress
  <1> QED BY <1>1, Placed DEF TypeOK

-----------------------------------------------------------------------------
(* The steps. *)

\* Nothing but a preference changes, and a publication begins or does not.
LEMMA EditKept ==
  ASSUME Published, NEW p \in Processes, NEW after \in Choice, NEW force \in BOOLEAN,
         Edit(p, after, force)
  PROVE  Published'
  <1> USE DEF Published
  <1>1. \A q \in Processes : publisher[q].pc \in {"idle", "waiting"}
    BY DEF Edit, Save, SaveFails, Unlocked
  <1>2. PICK next \in Progress :
          /\ publisher' = [publisher EXCEPT ![p] = next]
          /\ next.pc \in {"idle", "create"}
          /\ next.pc = "create" => next.theme \in Catalog
    <2>1. Idle \in Progress /\ Idle.pc = "idle"
      BY DEF Idle, Progress
    <2>2. CASE publisher' = [publisher EXCEPT ![p] = Idle]
      BY <2>1, <2>2
    <2>3. CASE publisher' = [publisher EXCEPT ![p] = [Idle EXCEPT !.pc = "create",
                                                                  !.theme = Applied(after)]]
      <3> DEFINE next == [Idle EXCEPT !.pc = "create", !.theme = Applied(after)]
      <3>1. next \in Progress /\ next.pc = "create" /\ next.theme \in Catalog
        BY AppliedTyped DEF Idle, Progress, Publishing
      <3> HIDE DEF next
      <3> QED BY <2>3, <3>1 DEF next
    <2> QED BY <2>2, <2>3 DEF Edit, Save, SaveFails
  <1>3. /\ publisher' \in [Processes -> Progress]
        /\ publisher'[p] = next
        /\ \A q \in Processes \ {p} : publisher'[q] = publisher[q]
    <2>1. publisher \in [Processes -> Progress]
      BY DEF TypeOK
    <2> QED BY <1>2, <2>1, Placed
  <1>4. TypeOK'
    <2>1. prefs' \in Choice \cup {NoFile}
      BY DEF Edit, Save, SaveFails, TypeOK
    <2> QED BY <1>3, <2>1 DEF Edit, Save, SaveFails, TypeOK
  <1>5. \A q \in Processes \ {p} : ~Busy(q)'
    BY <1>1, <1>3 DEF Busy, Publishing
  <1>6. UnderWay(p)'
    <2> HIDE DEF Published
    <2>1. CASE next.pc = "idle"
      BY <1>3, <2>1, NotUnderWay
    <2>2. CASE next.pc = "create"
      BY <1>2, <1>3, <2>2, JustBegun
    <2> QED BY <1>2, <2>1, <2>2
  <1>7. Agrees(current)
    BY <1>1 DEF Settled
  <1>8. (stranded => torn)' /\ Whole(current)' /\ Agrees(current)'
    BY <1>7 DEF Edit, Save, SaveFails, Whole, Agrees
  <1> QED BY <1>4, <1>5, <1>6, <1>8, Assembled

\* A process waits for the lock.
LEMMA WaitKept ==
  ASSUME Published, NEW p \in Processes, publisher[p].pc = "idle",
         publisher' = [publisher EXCEPT ![p].pc = "waiting", ![p].at = now],
         UNCHANGED <<prefs, selection, current, dirs, now, torn, stranded>>
  PROVE  Published'
  <1> USE DEF Published
  <1>1. /\ publisher' \in [Processes -> Progress]
        /\ publisher'[p].pc = "waiting"
        /\ \A q \in Processes \ {p} : publisher'[q] = publisher[q]
    BY DEF TypeOK, Progress
  <1>2. TypeOK'
    BY <1>1 DEF TypeOK
  <1>3. OneBusy'
    BY <1>1 DEF OneBusy, Busy, Publishing
  <1>4. \A q \in Processes : UnderWay(q)'
    BY <1>1 DEF UnderWay, Publishing, Whole, Agrees
  <1>5. Settled' /\ Whole(current)'
    BY <1>1 DEF Settled, Whole, Agrees
  <1> QED BY <1>2, <1>3, <1>4, <1>5

LEMMA CreateKept ==
  ASSUME Published, NEW p \in Processes, Create(p)
  PROVE  Published'
  <1> USE DEF Published
  <1>1. PICK new \in Generations :
          /\ dirs[new] = NoFile /\ new # current
          /\ publisher' = [publisher EXCEPT ![p].pc = "fill", ![p].new = new]
          /\ dirs' = [dirs EXCEPT ![new] = [theme |-> publisher[p].theme, whole |-> FALSE]]
    BY DEF Create
  <1>2. publisher[p].pc = "create" /\ UNCHANGED <<prefs, selection, current, now, torn, stranded>>
    BY DEF Create
  <1>3. publisher[p].theme \in Catalog
    BY <1>2 DEF UnderWay, Publishing
  <1>4. /\ publisher' \in [Processes -> Progress]
        /\ publisher'[p] = [publisher[p] EXCEPT !.pc = "fill", !.new = new]
        /\ \A q \in Processes \ {p} : publisher'[q] = publisher[q]
    <2>1. [publisher[p] EXCEPT !.pc = "fill", !.new = new] \in Progress
      BY DEF TypeOK, Progress, Publishing
    <2>2. publisher' = [publisher EXCEPT ![p] = [publisher[p] EXCEPT !.pc = "fill", !.new = new]]
      BY <1>1
    <2> QED BY <2>1, <2>2, Placed DEF TypeOK
  <1>4a. publisher'[p].pc = "fill" /\ publisher'[p].new = new
         /\ publisher'[p].theme = publisher[p].theme
    BY <1>4 DEF TypeOK, Progress
  <1>5. [theme |-> publisher[p].theme, whole |-> FALSE] \in Generation
    BY <1>3 DEF Generation
  <1>6. TypeOK'
    BY <1>1, <1>2, <1>4, <1>5 DEF TypeOK
  <1>7. \A q \in Processes \ {p} : ~Busy(q)'
    BY <1>2, <1>4, Alone DEF Busy, Publishing
  <1>8. dirs'[new] = [theme |-> publisher[p].theme, whole |-> FALSE] /\ dirs'[new] # NoFile
    BY <1>1, <1>5, ThemesAssumption DEF TypeOK, Generation
  <1>9. UnderWay(p)'
    BY <1>1, <1>2, <1>3, <1>4a, <1>8 DEF UnderWay, Publishing
  <1>10. Agrees(current)
    BY <1>2, Alone DEF Settled, Busy, Publishing
  <1>11. Whole(current)' /\ Agrees(current)' /\ (stranded => torn)'
    BY <1>1, <1>2, <1>10 DEF Whole, Agrees, TypeOK
  <1> QED BY <1>6, <1>7, <1>9, <1>11, Assembled

LEMMA FillKept ==
  ASSUME Published, NEW p \in Processes, Fill(p)
  PROVE  Published'
  <1> DEFINE new == publisher[p].new
  <1>1. /\ publisher[p].pc = "fill"
        /\ publisher' = [publisher EXCEPT ![p].pc = "switch"]
        /\ dirs' = [dirs EXCEPT ![new].whole = TRUE]
        /\ UNCHANGED <<prefs, selection, current, now, torn, stranded>>
    BY DEF Fill
  <1>2. /\ publisher[p].theme \in Catalog
        /\ new \in Generations /\ dirs[new] # NoFile
        /\ dirs[new].theme = publisher[p].theme /\ new # current
    BY <1>1 DEF Published, UnderWay, Publishing
  <1>3. /\ publisher' \in [Processes -> Progress]
        /\ publisher'[p].pc = "switch"
        /\ publisher'[p].theme = publisher[p].theme
        /\ publisher'[p].new = new
        /\ \A q \in Processes \ {p} : publisher'[q] = publisher[q]
    BY <1>1, GoesOn DEF Published, Publishing
  <1>4. dirs[new] \in Generation
    BY <1>2 DEF Published, TypeOK
  <1>5. dirs'[new] \in Generation /\ dirs'[new].whole /\ dirs'[new].theme = dirs[new].theme
    BY <1>1, <1>2, <1>4 DEF Published, TypeOK, Generation
  <1>6. \A g \in Generations \ {new} : dirs'[g] = dirs[g]
    BY <1>1 DEF Published, TypeOK
  <1>7. dirs' \in [Generations -> Generation \cup {NoFile}]
    BY <1>1, <1>2, <1>5, <1>6 DEF Published, TypeOK
  <1> HIDE DEF new
  <1>8. TypeOK'
    BY <1>1, <1>3, <1>7 DEF Published, TypeOK
  <1>9. \A q \in Processes \ {p} : ~Busy(q)'
    BY <1>1, <1>3, Alone DEF Busy, Publishing
  <1>10. dirs'[new] # NoFile
    BY <1>5, ThemesAssumption DEF Generation
  <1>11. UnderWay(p)'
    BY <1>1, <1>2, <1>3, <1>5, <1>10 DEF UnderWay, Publishing
  <1>12. Agrees(current)
    BY <1>1, Alone DEF Published, Settled, Busy, Publishing
  <1>13. Whole(current)' /\ Agrees(current)' /\ (stranded => torn)'
    BY <1>1, <1>2, <1>6, <1>12 DEF Published, Whole, Agrees, TypeOK
  <1> QED BY <1>8, <1>9, <1>11, <1>13, Assembled

LEMMA AbandonKept ==
  ASSUME Published, NEW p \in Processes, Abandon(p)
  PROVE  Published'
  <1> DEFINE new == publisher[p].new
  <1>1. /\ publisher[p].pc \in {"fill", "switch"}
        /\ publisher' = [publisher EXCEPT ![p] = Idle]
        /\ dirs' = [dirs EXCEPT ![new] = NoFile]
        /\ UNCHANGED <<prefs, selection, current, now, torn, stranded>>
    BY DEF Abandon
  <1>2. new # current
    BY <1>1 DEF Published, UnderWay
  <1>3. /\ publisher' \in [Processes -> Progress]
        /\ publisher'[p].pc = "idle"
        /\ \A q \in Processes \ {p} : publisher'[q] = publisher[q]
    BY <1>1, Stops DEF Published
  <1> HIDE DEF new
  <1>4. TypeOK'
    BY <1>1, <1>3 DEF Published, TypeOK
  <1>5. \A q \in Processes \ {p} : ~Busy(q)'
    BY <1>1, <1>3, Alone DEF Busy, Publishing
  <1>6. UnderWay(p)'
    BY <1>3, NotUnderWay
  <1>7. Agrees(current)
    BY <1>1, Alone DEF Published, Settled, Busy, Publishing
  <1>8. Whole(current)' /\ Agrees(current)' /\ (stranded => torn)'
    BY <1>1, <1>2, <1>7 DEF Published, Whole, Agrees, TypeOK
  <1> QED BY <1>4, <1>5, <1>6, <1>8, Assembled

LEMMA SwitchKept ==
  ASSUME Published, NEW p \in Processes, Switch(p)
  PROVE  Published'
  <1> DEFINE new == publisher[p].new
  <1>1. /\ publisher[p].pc = "switch"
        /\ publisher' = [publisher EXCEPT ![p].pc = "record", ![p].old = current]
        /\ current' = new
        /\ UNCHANGED <<prefs, selection, dirs, now, torn, stranded>>
    BY DEF Switch
  <1>2. /\ publisher[p].theme \in Catalog
        /\ new \in Generations /\ dirs[new] # NoFile /\ dirs[new].whole
        /\ dirs[new].theme = publisher[p].theme /\ new # current
    BY <1>1 DEF Published, UnderWay, Publishing
  <1>3. /\ publisher' \in [Processes -> Progress]
        /\ publisher'[p] = [publisher[p] EXCEPT !.pc = "record", !.old = current]
        /\ \A q \in Processes \ {p} : publisher'[q] = publisher[q]
    <2>1. [publisher[p] EXCEPT !.pc = "record", !.old = current] \in Progress
      BY DEF Published, TypeOK, Progress, Publishing
    <2>2. publisher' = [publisher EXCEPT ![p] =
                          [publisher[p] EXCEPT !.pc = "record", !.old = current]]
      BY <1>1
    <2> QED BY <2>1, <2>2, Placed DEF Published, TypeOK
  <1>4. /\ publisher'[p].pc = "record" /\ publisher'[p].old = current
        /\ publisher'[p].new = new /\ publisher'[p].theme = publisher[p].theme
    BY <1>3 DEF Published, TypeOK, Progress
  <1> HIDE DEF new
  <1>5. TypeOK'
    BY <1>1, <1>2, <1>3 DEF Published, TypeOK
  <1>6. \A q \in Processes \ {p} : ~Busy(q)'
    BY <1>1, <1>3, Alone DEF Busy, Publishing
  <1>7. Whole(current) /\ Agrees(current)
    BY <1>1, Alone DEF Published, Settled, Busy, Publishing
  <1>8. Whole(publisher[p].old)' /\ Agrees(publisher[p].old)'
    BY <1>1, <1>4, <1>7 DEF Whole, Agrees
  <1>9. UnderWay(p)'
    BY <1>1, <1>2, <1>4, <1>8 DEF UnderWay, Publishing
  <1>10. Whole(current)' /\ (stranded => torn)'
    BY <1>1, <1>2 DEF Published, Whole
  <1> QED BY <1>4, <1>5, <1>6, <1>9, <1>10, Assembled

LEMMA RecordKept ==
  ASSUME Published, NEW p \in Processes, Record(p)
  PROVE  Published'
  <1>1. /\ publisher[p].pc = "record"
        /\ publisher' = [publisher EXCEPT ![p].pc = "finish"]
        /\ selection' = publisher[p].theme /\ ~torn' /\ ~stranded'
        /\ UNCHANGED <<prefs, current, dirs, now>>
        /\ torn' \in BOOLEAN /\ stranded' \in BOOLEAN
    BY DEF Record
  <1>2. /\ publisher[p].theme \in Catalog
        /\ current \in Generations /\ dirs[current] # NoFile /\ dirs[current].whole
        /\ dirs[current].theme = publisher[p].theme
        /\ current = publisher[p].new /\ publisher[p].old # publisher[p].new
    BY <1>1 DEF Published, UnderWay, Publishing
  <1>3. /\ publisher' \in [Processes -> Progress]
        /\ publisher'[p].pc = "finish"
        /\ publisher'[p].theme = publisher[p].theme
        /\ publisher'[p].new = publisher[p].new
        /\ publisher'[p].old = publisher[p].old
        /\ \A q \in Processes \ {p} : publisher'[q] = publisher[q]
    BY <1>1, GoesOn DEF Published, Publishing
  <1>4. TypeOK'
    BY <1>1, <1>2, <1>3 DEF Published, TypeOK
  <1>5. \A q \in Processes \ {p} : ~Busy(q)'
    BY <1>1, <1>3, Alone DEF Busy, Publishing
  <1>6. UnderWay(p)'
    BY <1>1, <1>2, <1>3 DEF UnderWay, Publishing
  <1>7. Whole(current)' /\ Agrees(current)' /\ (stranded => torn)'
    BY <1>1, <1>2, ThemesAssumption DEF Whole, Agrees
  <1> QED BY <1>4, <1>5, <1>6, <1>7, Assembled

LEMMA RecordFailsKept ==
  ASSUME Published, NEW p \in Processes, RecordFails(p)
  PROVE  Published'
  <1>1. /\ publisher[p].pc = "record"
        /\ publisher' = [publisher EXCEPT ![p].pc = "undo"]
        /\ selection' \in {selection, publisher[p].theme}
        /\ torn' \in BOOLEAN
        /\ torn' <=> (torn \/ selection' # selection)
        /\ UNCHANGED <<prefs, current, dirs, now, stranded>>
    BY DEF RecordFails, Published, TypeOK
  <1>2. /\ publisher[p].theme \in Catalog
        /\ current \in Generations /\ dirs[current] # NoFile /\ dirs[current].whole
        /\ dirs[current].theme = publisher[p].theme
        /\ current = publisher[p].new /\ publisher[p].old # publisher[p].new
        /\ Whole(publisher[p].old) /\ Agrees(publisher[p].old)
    BY <1>1 DEF Published, UnderWay, Publishing
  <1>3. /\ publisher' \in [Processes -> Progress]
        /\ publisher'[p].pc = "undo"
        /\ publisher'[p].theme = publisher[p].theme
        /\ publisher'[p].new = publisher[p].new
        /\ publisher'[p].old = publisher[p].old
        /\ \A q \in Processes \ {p} : publisher'[q] = publisher[q]
    BY <1>1, GoesOn DEF Published, Publishing
  <1>4. TypeOK'
    BY <1>1, <1>2, <1>3 DEF Published, TypeOK
  <1>5. \A q \in Processes \ {p} : ~Busy(q)'
    BY <1>1, <1>3, Alone DEF Busy, Publishing
  <1>6. Whole(publisher[p].old)' /\ Agrees(publisher[p].old)'
    BY <1>1, <1>2, <1>3 DEF Whole, Agrees
  <1>7. UnderWay(p)'
    BY <1>1, <1>2, <1>3, <1>6 DEF UnderWay, Publishing
  <1>8. Whole(current)' /\ (stranded => torn)'
    BY <1>1, <1>2 DEF Whole, Published
  <1> QED BY <1>3, <1>4, <1>5, <1>7, <1>8, Assembled

LEMMA UndoKept ==
  ASSUME Published, NEW p \in Processes, Undo(p)
  PROVE  Published'
  <1> DEFINE new == publisher[p].new
  <1>1. /\ publisher[p].pc = "undo"
        /\ publisher' = [publisher EXCEPT ![p] = Idle]
        /\ current' = publisher[p].old
        /\ dirs' = [dirs EXCEPT ![new] = NoFile]
        /\ UNCHANGED <<prefs, selection, now, torn, stranded>>
    BY DEF Undo
  <1>2. /\ publisher[p].old # new
        /\ Whole(publisher[p].old) /\ Agrees(publisher[p].old)
        /\ publisher[p].old \in Generations \cup {NoFile}
    BY <1>1 DEF Published, UnderWay, TypeOK, Progress
  <1>3. /\ publisher' \in [Processes -> Progress]
        /\ publisher'[p].pc = "idle"
        /\ \A q \in Processes \ {p} : publisher'[q] = publisher[q]
    BY <1>1, Stops DEF Published
  <1> HIDE DEF new
  <1>4. TypeOK'
    BY <1>1, <1>2, <1>3 DEF Published, TypeOK
  <1>5. \A q \in Processes \ {p} : ~Busy(q)'
    BY <1>1, <1>3, Alone DEF Busy, Publishing
  <1>6. UnderWay(p)'
    BY <1>3, NotUnderWay
  <1>7. Whole(current)' /\ Agrees(current)' /\ (stranded => torn)'
    BY <1>1, <1>2 DEF Published, Whole, Agrees, TypeOK
  <1> QED BY <1>4, <1>5, <1>6, <1>7, Assembled

LEMMA UndoFailsKept ==
  ASSUME Published, NEW p \in Processes, UndoFails(p)
  PROVE  Published'
  <1>1. /\ publisher[p].pc = "undo"
        /\ publisher' = [publisher EXCEPT ![p] = Idle]
        /\ dirs' = [dirs EXCEPT ![publisher[p].new] = NoFile]
        /\ torn' = TRUE /\ stranded' = TRUE
        /\ UNCHANGED <<prefs, selection, current, now>>
    BY DEF UndoFails
  <1>2. /\ publisher' \in [Processes -> Progress]
        /\ publisher'[p].pc = "idle"
        /\ \A q \in Processes \ {p} : publisher'[q] = publisher[q]
    BY <1>1, Stops DEF Published
  <1>3. TypeOK'
    BY <1>1, <1>2 DEF Published, TypeOK
  <1>4. \A q \in Processes \ {p} : ~Busy(q)'
    BY <1>1, <1>2, Alone DEF Busy, Publishing
  <1>5. UnderWay(p)'
    BY <1>2, NotUnderWay
  <1>6. Whole(current)' /\ Agrees(current)' /\ (stranded => torn)'
    BY <1>1 DEF Whole, Agrees
  <1> QED BY <1>3, <1>4, <1>5, <1>6, Assembled

LEMMA FinishKept ==
  ASSUME Published, NEW p \in Processes, Finish(p)
  PROVE  Published'
  <1>1. /\ publisher[p].pc = "finish"
        /\ publisher' = [publisher EXCEPT ![p] = Idle]
        /\ dirs' = [g \in Generations |-> IF g = publisher[p].old THEN NoFile ELSE dirs[g]]
        /\ UNCHANGED <<prefs, selection, current, now, torn, stranded>>
    BY DEF Finish, Leftover
  <1>2. /\ publisher[p].theme \in Catalog
        /\ current \in Generations /\ dirs[current].theme = selection
        /\ publisher[p].old # current
    BY <1>1 DEF Published, UnderWay, Publishing
  <1>3. /\ publisher' \in [Processes -> Progress]
        /\ publisher'[p].pc = "idle"
        /\ \A q \in Processes \ {p} : publisher'[q] = publisher[q]
    BY <1>1, Stops DEF Published
  <1>4. TypeOK'
    BY <1>1, <1>3 DEF Published, TypeOK
  <1>5. \A q \in Processes \ {p} : ~Busy(q)'
    BY <1>1, <1>3, Alone DEF Busy, Publishing
  <1>6. UnderWay(p)'
    BY <1>3, NotUnderWay
  <1>7. dirs'[current] = dirs[current]
    BY <1>1, <1>2
  <1>8. Whole(current)' /\ Agrees(current)' /\ (stranded => torn)'
    BY <1>1, <1>2, <1>7, ThemesAssumption DEF Published, Whole, Agrees
  <1> QED BY <1>4, <1>5, <1>6, <1>8, Assembled

\* A death leaves everything where it is.
LEMMA DieKept ==
  ASSUME Published, NEW p \in Processes, Die(p)
  PROVE  Published'
  <1>1. /\ publisher' = [publisher EXCEPT ![p] = Idle]
        /\ torn' \in BOOLEAN
        /\ torn' <=> (torn \/ publisher[p].pc \in {"record", "undo"})
        /\ UNCHANGED <<prefs, selection, current, dirs, now, stranded>>
    BY DEF Die, Published, TypeOK
  <1>2. /\ publisher' \in [Processes -> Progress]
        /\ publisher'[p].pc = "idle"
        /\ \A q \in Processes \ {p} : publisher'[q] = publisher[q]
    BY <1>1, Stops DEF Published
  <1>3. TypeOK'
    BY <1>1, <1>2 DEF Published, TypeOK
  <1>4. OneBusy'
    BY <1>2 DEF Published, OneBusy, Busy, Publishing
  <1>5. Whole(current)' /\ (stranded => torn)'
    BY <1>1 DEF Published, Whole
  <1>6. CASE Busy(p)
    <2>1. \A q \in Processes \ {p} : ~Busy(q)'
      BY <1>2, <1>6, Alone DEF Busy
    <2>2. UnderWay(p)'
      BY <1>2, NotUnderWay
    <2>3. Agrees(current)'
      BY <1>1, <1>6, Alone DEF Published, Settled, Agrees, Busy, Publishing
    <2> QED BY <1>3, <1>5, <2>1, <2>2, <2>3, Assembled
  <1>7. CASE ~Busy(p)
    <2>1. torn' <=> torn
      BY <1>1, <1>7 DEF Busy, Publishing
    <2>2. \A q \in Processes \ {p} : UnderWay(q)'
      BY <1>1, <1>2, <2>1 DEF Published, UnderWay, Whole, Agrees
    <2>3. UnderWay(p)'
      BY <1>2, NotUnderWay
    <2>4. Settled'
      BY <1>1, <1>2, <1>7, <2>1 DEF Published, Settled, Agrees, Busy, Publishing
    <2> QED BY <1>3, <1>4, <1>5, <2>2, <2>3, <2>4 DEF Published
  <1> QED BY <1>6, <1>7

\* What does not concern a publication.
LEMMA OtherKept ==
  ASSUME Published, now' \in Nat,
         UNCHANGED <<prefs, selection, current, dirs, publisher, torn, stranded>>
  PROVE  Published'
  <1>1. TypeOK'
    BY DEF Published, TypeOK
  <1>2. OneBusy' /\ (stranded => torn)' /\ Whole(current)' /\ Settled'
    BY DEF Published, OneBusy, Busy, Whole, Settled, Agrees
  <1>3. \A p \in Processes : UnderWay(p)'
    BY DEF Published, UnderWay, Whole, Agrees
  <1> QED BY <1>1, <1>2, <1>3 DEF Published

LEMMA CommandKept ==
  ASSUME Published, Command
  PROVE  Published'
  <1> DEFINE before == Preferences
             at == publisher["hand"].at
  <1>1. before \in Choice /\ before.mode \in Modes
    BY PreferencesTyped DEF Published, Choice
  <1>2. "hand" \in Processes /\ at \in Nat
    BY DEF Processes, Published, TypeOK, Progress
  <1> HIDE DEF before, at
  <1>3. ASSUME NEW theme \in Catalog, SetTheme(theme)
        PROVE  Published'
    <2>1. [before EXCEPT !.slot[before.mode] = theme] \in Choice
      BY <1>1 DEF Choice
    <2> QED BY <1>2, <1>3, <2>1, EditKept DEF SetTheme, before
  <1>4. ASSUME NEW theme \in Catalog, Pick(theme)
        PROVE  Published'
    <2>1. ModeOf(theme) \in Modes
      BY DEF ModeOf, Modes
    <2>2. [before EXCEPT !.slot[ModeOf(theme)] = theme, !.mode = ModeOf(theme)] \in Choice
      BY <1>1, <2>1 DEF Choice
    <2> QED BY <1>2, <1>4, <2>2, EditKept DEF Pick, before
  <1>5. ASSUME NEW theme \in Catalog, NEW mode \in Modes, Slot(mode, theme)
        PROVE  Published'
    <2>1. [before EXCEPT !.slot[mode] = theme] \in Choice
      BY <1>1 DEF Choice
    <2> QED BY <1>2, <1>5, <2>1, EditKept DEF Slot, before
  <1>6. ASSUME NEW mode \in Modes, SetMode(mode)
        PROVE  Published'
    <2>1. [before EXCEPT !.mode = mode] \in Choice
      BY <1>1 DEF Choice
    <2> QED BY <1>2, <1>6, <2>1, EditKept DEF SetMode, before
  <1>7. ASSUME NEW mode \in Modes, NEW slots \in [Modes -> Catalog], Restore(mode, slots)
        PROVE  Published'
    <2>1. [before EXCEPT !.mode = mode, !.slot = slots] \in Choice
      BY <1>1 DEF Choice
    <2> QED BY <1>2, <1>7, <2>1, EditKept DEF Restore, before
  <1>8. CASE AutoOn
    <2>1. [before EXCEPT !.auto = TRUE, !.mode = WantedMode(at), !.last = Since(at)] \in Choice
      BY <1>1, <1>2, ScheduleTyped DEF Choice
    <2> QED BY <1>2, <1>8, <2>1, EditKept DEF AutoOn, before, at
  <1>9. CASE AutoOff
    <2>1. [before EXCEPT !.auto = FALSE] \in Choice
      BY <1>1 DEF Choice
    <2> QED BY <1>2, <1>9, <2>1, EditKept DEF AutoOff, before
  <1>10. CASE Activate
    BY <1>1, <1>2, <1>10, EditKept DEF Activate, before
  <1>11. CASE Reset
    BY <1>2, <1>11, DefaultsTyped, EditKept DEF Reset
  <1> QED BY <1>3, <1>4, <1>5, <1>6, <1>7, <1>8, <1>9, <1>10, <1>11 DEF Command, ChooseMode

LEMMA TickKept ==
  ASSUME Published, TickSchedule
  PROVE  Published'
  <1> DEFINE before == Preferences
             at == publisher["follow"].at
  <1>1. before \in Choice
    BY PreferencesTyped DEF Published
  <1>2. "follow" \in Processes /\ at \in Nat
    BY DEF Processes, Published, TypeOK, Progress
  <1> HIDE DEF before, at
  <1>3. [before EXCEPT !.mode = WantedMode(at), !.last = Since(at)] \in Choice
    BY <1>1, <1>2, ScheduleTyped DEF Choice
  <1>4. AfterTick(at) \in Choice
    BY <1>1, <1>3 DEF AfterTick, before
  <1> QED BY <1>2, <1>4, EditKept DEF TickSchedule, at

LEMMA NextKept ==
  ASSUME Published, [ThemesNext]_themesVars
  PROVE  Published'
  <1>1. CASE StartCommand
    BY <1>1, WaitKept DEF StartCommand, Processes
  <1>2. CASE Command
    BY <1>2, CommandKept
  <1>3. CASE Login \/ BuildStarts \/ BuildEnds
    BY <1>3, OtherKept DEF Login, BuildStarts, BuildEnds, Published, TypeOK
  <1>4. CASE Wake
    BY <1>4, WaitKept DEF Wake, Processes
  <1>5. CASE TickSchedule
    BY <1>5, TickKept
  <1>6. ASSUME NEW p \in Processes, Publish(p)
        PROVE  Published'
    BY <1>6, CreateKept, FillKept, SwitchKept, FinishKept, RecordKept, RecordFailsKept,
       UndoKept, UndoFailsKept, AbandonKept DEF Publish
  <1>7. ASSUME NEW p \in Processes, Die(p)
        PROVE  Published'
    BY <1>7, DieKept
  <1>8. CASE TimePasses
    BY <1>8, OtherKept DEF TimePasses, Published, TypeOK
  <1>9. CASE UNCHANGED themesVars
    BY <1>9, OtherKept DEF themesVars, Published, TypeOK
  <1> QED BY <1>1, <1>2, <1>3, <1>4, <1>5, <1>6, <1>7, <1>8, <1>9 DEF ThemesNext

LEMMA InitPublished == ThemesInit => Published
  <1> SUFFICES ASSUME ThemesInit PROVE Published
    OBVIOUS
  <1>1. Idle \in Progress /\ Idle.pc = "idle"
    BY DEF Idle, Progress
  <1>2. TypeOK
    BY <1>1, ThemesAssumption DEF ThemesInit, TypeOK
  <1>3. \A p \in Processes : publisher[p].pc = "idle"
    BY <1>1 DEF ThemesInit
  <1>4. OneBusy /\ \A p \in Processes : UnderWay(p)
    BY <1>3 DEF OneBusy, Busy, UnderWay, Publishing
  <1>5. (stranded => torn) /\ Whole(current) /\ Settled
    BY DEF ThemesInit, Whole, Settled, Agrees
  <1> QED BY <1>2, <1>4, <1>5 DEF Published

\* The invariant of publish() and of the lock of locked(), for any catalog,
\* schedule and number of commands, failures and deaths.
THEOREM PublishedAlways == ThemesSpec => []Published
  <1>1. Published /\ [ThemesNext]_themesVars => Published'
    BY NextKept
  <1> QED BY <1>1, InitPublished, PTL DEF ThemesSpec

\* Applications find every file of one generation, and the theme that the shell
\* shows while nobody publishes: publish() replaces the link only when the
\* generation is whole, and removes only what the link does not name.
THEOREM WholeAlways == ThemesSpec => []PublishedIsWhole
  <1>1. Published => PublishedIsWhole
    <2> SUFFICES ASSUME Published PROVE PublishedIsWhole
      OBVIOUS
    <2>1. current # NoFile /\ ~stranded => dirs[current] # NoFile /\ dirs[current].whole
      BY DEF Published, Whole
    <2>2. ASSUME Unlocked, ~torn
          PROVE  IF current = NoFile THEN selection = NoFile
                 ELSE dirs[current].theme = selection
      BY <2>2 DEF Unlocked, Published, Settled, Agrees
    <2> QED BY <2>1, <2>2 DEF PublishedIsWhole
  <1> QED BY <1>1, PublishedAlways, PTL

-----------------------------------------------------------------------------
(* Calls. *)

Lives == {"unborn", "running", "signalled", "succeeded", "failed", "killed", "reaped"}
LoopSteps == {"check", "feed", "out", "err"}
EndSteps == {"kill", "wait", "drop", "done"}
Pipes == {"in"} \cup Outputs

Call ==
    [pc : {"idle"} \cup LoopSteps \cup EndSteps, mode : CaptureModes,
     size : Inputs \cup {0}, sent : Nat, open : SUBSET Pipes, spare : BOOLEAN,
     reaped : BOOLEAN, result : {"none", "ok", "error"}, status : Lives \cup {"none"}]

Process ==
    [life : Lives, ends : SUBSET Outputs,
     group : {"none", "own", "caller", "away", "stranger"}]

CallTypeOK ==
    /\ execution \in Call
    /\ family \in [Members -> Process]
    /\ written \in [Outputs -> Nat] /\ taken \in [Outputs -> Nat]
    /\ cancelled \in BOOLEAN /\ pastDeadline \in BOOLEAN

Looping == execution.pc \in LoopSteps

\* Nothing was started, or could be.
Nobody ==
    /\ ~execution.reaped
    /\ Is("idle") \/ (Is("done") /\ execution.result = "error")
    /\ \A p \in Members : family[p] = Unborn
    /\ \A o \in Outputs : taken[o] = 0

\* The command of a call that was begun, until it is reaped.
Owned ==
    /\ ~execution.reaped
    /\ Looping \/ execution.pc \in {"kill", "wait", "drop"}
    /\ family[Leader].life \in {"running", "signalled", "succeeded", "failed", "killed"}
    /\ family[Leader].group = IF execution.mode.group THEN "own" ELSE "caller"

Reaped ==
    /\ execution.reaped
    /\ execution.pc \in {"drop", "done"}
    /\ execution.result # "none"
    /\ \/ family[Leader].life = "reaped" /\ family[Leader].group # "stranger"
       \/ Running(Leader) /\ family[Leader].group = "stranger"
    /\ execution.result = "ok" => execution.status \in {"succeeded", "failed", "killed"}

\* Where the call is, and how its loop ended.
CallProgress ==
    /\ Is("idle") \/ Looping => execution.result = "none"
    /\ execution.pc \in EndSteps => execution.result # "none"
    /\ execution.result # "ok" => ~execution.spare
    /\ execution.result = "ok" =>
         /\ execution.open \cap Outputs = {}
         /\ execution.reaped \/ (Exited /\ execution.pc \in {"kill", "wait"})
         /\ execution.spare => execution.mode.detach
         /\ Is("kill") \/ Is("wait") => execution.spare = execution.mode.detach

\* A launcher that succeeded.
LetGo ==
    /\ execution.result = "ok" /\ execution.mode.detach
    /\ IF execution.reaped THEN execution.status = "succeeded" ELSE Succeeded

Killed == Is("wait") \/ execution.reaped

\* After the kill nothing of the group runs.
OwnGroup ==
    /\ \A p \in Others :
         /\ family[p].group # "stranger"
         /\ family[p].group = "own" => execution.mode.group
    /\ Killed /\ ~LetGo =>
         /\ \A p \in Others : ~(Running(p) /\ family[p].group = "own")
         /\ Running(Leader) => family[Leader].group = "stranger"

\* Nothing is signalled before the kill, nor by a launcher's success.
Unsignalled ==
    Is("idle") \/ Looping \/ (Is("kill") /\ execution.result = "ok") \/ LetGo =>
        \A p \in Members : family[p].life \notin {"signalled", "killed"}

\* An output that was closed in the loop is at its end.
CallWhole ==
    Looping \/ execution.result = "ok" =>
        \A o \in execution.mode.pipes \ execution.open :
            Writers(o) = {} /\ taken[o] = written[o]

\* A launcher is let go when it was fed.
Fed == LetGo => Sent

Limited == Kept <= OutputLimit

Custody == Nobody \/ Owned \/ Reaped

\* The inductive invariant.
Clean ==
    /\ CallTypeOK
    /\ Custody
    /\ CallProgress
    /\ OwnGroup
    /\ Unsignalled
    /\ CallWhole
    /\ Fed
    /\ Limited

-----------------------------------------------------------------------------
(* The processes, and what ends the loop. *)

LEMMA StartAnotherKeeps ==
    ASSUME Clean, NEW p \in Members, NEW q \in Others, StartAnother(p, q)
    PROVE  Clean'
  <1> USE ProcessesAssumption DEF Clean, Looping, Running, Exited, Succeeded, Is,
        StartAnother, Members, Leader, Unborn, Outputs, bytes, limits,
        CallTypeOK, Call, Process, Lives, LoopSteps, EndSteps, Pipes
  <1>1. CallTypeOK'
    BY DEF CallTypeOK
  <1>2. Custody'
    BY DEF Custody, Nobody, Owned, Reaped
  <1>3. CallProgress'
    BY DEF CallProgress, Custody, Nobody, Owned, Reaped
  <1>4. OwnGroup'
    BY DEF OwnGroup, Killed, LetGo, CallProgress, Custody, Nobody, Owned, Reaped
  <1>5. Unsignalled'
    BY DEF Unsignalled, LetGo, CallProgress, Custody, Nobody, Owned, Reaped
  <1>6. CallWhole'
    BY DEF CallWhole, Writers, CallProgress, Custody, Nobody, Owned, Reaped
  <1>7. Fed'
    BY DEF Fed, LetGo, Sent, CallProgress, Custody, Nobody, Owned, Reaped
  <1>8. Limited'
    BY DEF Limited, Kept, Counted
  <1> QED BY <1>1, <1>2, <1>3, <1>4, <1>5, <1>6, <1>7, <1>8

LEMMA LeaveGroupKeeps ==
    ASSUME Clean, NEW p \in Members, LeaveGroup(p)
    PROVE  Clean'
  <1> USE ProcessesAssumption DEF Clean, Looping, Running, Exited, Succeeded, Is,
        LeaveGroup, Members, Leader, Unborn, Outputs, bytes, limits,
        CallTypeOK, Call, Process, Lives, LoopSteps, EndSteps, Pipes
  <1>1. CallTypeOK'
    BY DEF CallTypeOK
  <1>2. Custody'
    BY DEF Custody, Nobody, Owned, Reaped
  <1>3. CallProgress'
    BY DEF CallProgress, Custody, Nobody, Owned, Reaped
  <1>4. OwnGroup'
    BY DEF OwnGroup, Killed, LetGo, CallProgress, Custody, Nobody, Owned, Reaped
  <1>5. Unsignalled'
    BY DEF Unsignalled, LetGo, CallProgress, Custody, Nobody, Owned, Reaped
  <1>6. CallWhole'
    BY DEF CallWhole, Writers, CallProgress, Custody, Nobody, Owned, Reaped
  <1>7. Fed'
    BY DEF Fed, LetGo, Sent, CallProgress, Custody, Nobody, Owned, Reaped
  <1>8. Limited'
    BY DEF Limited, Kept, Counted
  <1> QED BY <1>1, <1>2, <1>3, <1>4, <1>5, <1>6, <1>7, <1>8

LEMMA ClosePipeKeeps ==
    ASSUME Clean, NEW p \in Members, NEW o \in Outputs, ClosePipe(p, o)
    PROVE  Clean'
  <1> USE ProcessesAssumption DEF Clean, Looping, Running, Exited, Succeeded, Is,
        ClosePipe, Members, Leader, Unborn, Outputs, bytes, limits,
        CallTypeOK, Call, Process, Lives, LoopSteps, EndSteps, Pipes
  <1>1. CallTypeOK'
    BY DEF CallTypeOK
  <1>2. Custody'
    BY DEF Custody, Nobody, Owned, Reaped
  <1>3. CallProgress'
    BY DEF CallProgress, Custody, Nobody, Owned, Reaped
  <1>4. OwnGroup'
    BY DEF OwnGroup, Killed, LetGo, CallProgress, Custody, Nobody, Owned, Reaped
  <1>5. Unsignalled'
    BY DEF Unsignalled, LetGo, CallProgress, Custody, Nobody, Owned, Reaped
  <1>6. CallWhole'
    BY DEF CallWhole, Writers, CallProgress, Custody, Nobody, Owned, Reaped
  <1>7. Fed'
    BY DEF Fed, LetGo, Sent, CallProgress, Custody, Nobody, Owned, Reaped
  <1>8. Limited'
    BY DEF Limited, Kept, Counted
  <1> QED BY <1>1, <1>2, <1>3, <1>4, <1>5, <1>6, <1>7, <1>8

LEMMA WriteKeeps ==
    ASSUME Clean, NEW p \in Members, NEW o \in Outputs, Write(p, o)
    PROVE  Clean'
  <1> USE ProcessesAssumption DEF Clean, Looping, Running, Exited, Succeeded, Is,
        Write, Members, Leader, Unborn, Outputs, bytes, limits,
        CallTypeOK, Call, Process, Lives, LoopSteps, EndSteps, Pipes
  <1>1. CallTypeOK'
    BY DEF CallTypeOK
  <1>2. Custody'
    BY DEF Custody, Nobody, Owned, Reaped
  <1>3. CallProgress'
    BY DEF CallProgress, Custody, Nobody, Owned, Reaped
  <1>4. OwnGroup'
    BY DEF OwnGroup, Killed, LetGo, CallProgress, Custody, Nobody, Owned, Reaped
  <1>5. Unsignalled'
    BY DEF Unsignalled, LetGo, CallProgress, Custody, Nobody, Owned, Reaped
  <1>6. CallWhole'
    BY DEF CallWhole, Writers, CallProgress, Custody, Nobody, Owned, Reaped
  <1>7. Fed'
    BY DEF Fed, LetGo, Sent, CallProgress, Custody, Nobody, Owned, Reaped
  <1>8. Limited'
    BY DEF Limited, Kept, Counted
  <1> QED BY <1>1, <1>2, <1>3, <1>4, <1>5, <1>6, <1>7, <1>8

LEMMA EndsKeeps ==
    ASSUME Clean, NEW p \in Members, Ends(p)
    PROVE  Clean'
  <1> USE ProcessesAssumption DEF Clean, Looping, Running, Exited, Succeeded, Is,
        Ends, Ended, Members, Leader, Unborn, Outputs, bytes, limits,
        CallTypeOK, Call, Process, Lives, LoopSteps, EndSteps, Pipes
  <1>1. CallTypeOK'
    BY DEF CallTypeOK
  <1>2. Custody'
    BY DEF Custody, Nobody, Owned, Reaped
  <1>3. CallProgress'
    BY DEF CallProgress, Custody, Nobody, Owned, Reaped
  <1>4. OwnGroup'
    BY DEF OwnGroup, Killed, LetGo, CallProgress, Custody, Nobody, Owned, Reaped
  <1>5. Unsignalled'
    BY DEF Unsignalled, LetGo, CallProgress, Custody, Nobody, Owned, Reaped
  <1>6. CallWhole'
    BY DEF CallWhole, Writers, CallProgress, Custody, Nobody, Owned, Reaped
  <1>7. Fed'
    BY DEF Fed, LetGo, Sent, CallProgress, Custody, Nobody, Owned, Reaped
  <1>8. Limited'
    BY DEF Limited, Kept, Counted
  <1> QED BY <1>1, <1>2, <1>3, <1>4, <1>5, <1>6, <1>7, <1>8

LEMMA DiesKeeps ==
    ASSUME Clean, NEW p \in Members, Dies(p)
    PROVE  Clean'
  <1> USE ProcessesAssumption DEF Clean, Looping, Running, Exited, Succeeded, Is,
        Dies, Ended, Members, Leader, Unborn, Outputs, bytes, limits,
        CallTypeOK, Call, Process, Lives, LoopSteps, EndSteps, Pipes
  <1>1. CallTypeOK'
    BY DEF CallTypeOK
  <1>2. Custody'
    BY DEF Custody, Nobody, Owned, Reaped
  <1>3. CallProgress'
    BY DEF CallProgress, Custody, Nobody, Owned, Reaped
  <1>4. OwnGroup'
    BY DEF OwnGroup, Killed, LetGo, CallProgress, Custody, Nobody, Owned, Reaped
  <1>5. Unsignalled'
    BY DEF Unsignalled, LetGo, CallProgress, Custody, Nobody, Owned, Reaped
  <1>6. CallWhole'
    BY DEF CallWhole, Writers, CallProgress, Custody, Nobody, Owned, Reaped
  <1>7. Fed'
    BY DEF Fed, LetGo, Sent, CallProgress, Custody, Nobody, Owned, Reaped
  <1>8. Limited'
    BY DEF Limited, Kept, Counted
  <1> QED BY <1>1, <1>2, <1>3, <1>4, <1>5, <1>6, <1>7, <1>8

LEMMA RecycleKeeps ==
    ASSUME Clean, Recycle
    PROVE  Clean'
  <1> USE ProcessesAssumption DEF Clean, Looping, Running, Exited, Succeeded, Is,
        Recycle, Members, Leader, Unborn, Outputs, bytes, limits,
        CallTypeOK, Call, Process, Lives, LoopSteps, EndSteps, Pipes
  <1>1. CallTypeOK'
    BY DEF CallTypeOK
  <1>2. Custody'
    BY DEF Custody, Nobody, Owned, Reaped
  <1>3. CallProgress'
    BY DEF CallProgress, Custody, Nobody, Owned, Reaped
  <1>4. OwnGroup'
    BY DEF OwnGroup, Killed, LetGo, CallProgress, Custody, Nobody, Owned, Reaped
  <1>5. Unsignalled'
    BY DEF Unsignalled, LetGo, CallProgress, Custody, Nobody, Owned, Reaped
  <1>6. CallWhole'
    BY DEF CallWhole, Writers, CallProgress, Custody, Nobody, Owned, Reaped
  <1>7. Fed'
    BY DEF Fed, LetGo, Sent, CallProgress, Custody, Nobody, Owned, Reaped
  <1>8. Limited'
    BY DEF Limited, Kept, Counted
  <1> QED BY <1>1, <1>2, <1>3, <1>4, <1>5, <1>6, <1>7, <1>8

LEMMA CancelKeeps ==
    ASSUME Clean, Cancel
    PROVE  Clean'
  <1> USE ProcessesAssumption DEF Clean, Looping, Running, Exited, Succeeded, Is,
        Cancel, Members, Leader, Unborn, Outputs, bytes, limits,
        CallTypeOK, Call, Process, Lives, LoopSteps, EndSteps, Pipes
  <1>1. CallTypeOK'
    BY DEF CallTypeOK
  <1>2. Custody'
    BY DEF Custody, Nobody, Owned, Reaped
  <1>3. CallProgress'
    BY DEF CallProgress, Custody, Nobody, Owned, Reaped
  <1>4. OwnGroup'
    BY DEF OwnGroup, Killed, LetGo, CallProgress, Custody, Nobody, Owned, Reaped
  <1>5. Unsignalled'
    BY DEF Unsignalled, LetGo, CallProgress, Custody, Nobody, Owned, Reaped
  <1>6. CallWhole'
    BY DEF CallWhole, Writers, CallProgress, Custody, Nobody, Owned, Reaped
  <1>7. Fed'
    BY DEF Fed, LetGo, Sent, CallProgress, Custody, Nobody, Owned, Reaped
  <1>8. Limited'
    BY DEF Limited, Kept, Counted
  <1> QED BY <1>1, <1>2, <1>3, <1>4, <1>5, <1>6, <1>7, <1>8

LEMMA DeadlinePassesKeeps ==
    ASSUME Clean, DeadlinePasses
    PROVE  Clean'
  <1> USE ProcessesAssumption DEF Clean, Looping, Running, Exited, Succeeded, Is,
        DeadlinePasses, Members, Leader, Unborn, Outputs, bytes, limits,
        CallTypeOK, Call, Process, Lives, LoopSteps, EndSteps, Pipes
  <1>1. CallTypeOK'
    BY DEF CallTypeOK
  <1>2. Custody'
    BY DEF Custody, Nobody, Owned, Reaped
  <1>3. CallProgress'
    BY DEF CallProgress, Custody, Nobody, Owned, Reaped
  <1>4. OwnGroup'
    BY DEF OwnGroup, Killed, LetGo, CallProgress, Custody, Nobody, Owned, Reaped
  <1>5. Unsignalled'
    BY DEF Unsignalled, LetGo, CallProgress, Custody, Nobody, Owned, Reaped
  <1>6. CallWhole'
    BY DEF CallWhole, Writers, CallProgress, Custody, Nobody, Owned, Reaped
  <1>7. Fed'
    BY DEF Fed, LetGo, Sent, CallProgress, Custody, Nobody, Owned, Reaped
  <1>8. Limited'
    BY DEF Limited, Kept, Counted
  <1> QED BY <1>1, <1>2, <1>3, <1>4, <1>5, <1>6, <1>7, <1>8

LEMMA FailsKeeps ==
    ASSUME Clean, Fails
    PROVE  Clean'
  <1> USE ProcessesAssumption DEF Clean, Looping, Running, Exited, Succeeded, Is,
        Fails, GiveUp, Members, Leader, Unborn, Outputs, bytes, limits,
        CallTypeOK, Call, Process, Lives, LoopSteps, EndSteps, Pipes
  <1>1. CallTypeOK'
    BY DEF CallTypeOK
  <1>2. Custody'
    BY DEF Custody, Nobody, Owned, Reaped
  <1>3. CallProgress'
    BY DEF CallProgress, Custody, Nobody, Owned, Reaped
  <1>4. OwnGroup'
    BY DEF OwnGroup, Killed, LetGo, CallProgress, Custody, Nobody, Owned, Reaped
  <1>5. Unsignalled'
    BY DEF Unsignalled, LetGo, CallProgress, Custody, Nobody, Owned, Reaped
  <1>6. CallWhole'
    BY DEF CallWhole, Writers, CallProgress, Custody, Nobody, Owned, Reaped
  <1>7. Fed'
    BY DEF Fed, LetGo, Sent, CallProgress, Custody, Nobody, Owned, Reaped
  <1>8. Limited'
    BY DEF Limited, Kept, Counted
  <1> QED BY <1>1, <1>2, <1>3, <1>4, <1>5, <1>6, <1>7, <1>8

LEMMA KillKeeps ==
    ASSUME Clean, Kill
    PROVE  Clean'
  <1> USE ProcessesAssumption DEF Clean, Looping, Running, Exited, Succeeded, Is,
        Kill, Spared, Signalled, Members, Leader, Unborn, Outputs, bytes, limits,
        CallTypeOK, Call, Process, Lives, LoopSteps, EndSteps, Pipes
  <1>1. CallTypeOK'
    BY DEF CallTypeOK
  <1>2. Custody'
    BY DEF Custody, Nobody, Owned, Reaped
  <1>3. CallProgress'
    BY DEF CallProgress, Custody, Nobody, Owned, Reaped
  <1>4. OwnGroup'
    <2>1. \A p \in Members : family'[p].group = family[p].group
      OBVIOUS
    <2>2. CASE Spared
      <3>1. LetGo'
        BY <2>2 DEF LetGo, CallProgress, Custody, Nobody, Owned, Reaped
      <3> QED BY <2>1, <3>1 DEF OwnGroup
    <2>3. CASE ~Spared
      <3>1. ~Running(Leader)'
        BY <2>3 DEF Custody, Nobody, Owned, Reaped
      <3>2. \A p \in Others : family[p].group = "own" => ~Running(p)'
        BY <2>3 DEF OwnGroup
      <3> QED BY <2>1, <3>1, <3>2 DEF OwnGroup
    <2> QED BY <2>2, <2>3
  <1>5. Unsignalled'
    BY DEF Unsignalled, LetGo, CallProgress, Custody, Nobody, Owned, Reaped
  <1>6. CallWhole'
    BY DEF CallWhole, Writers, CallProgress, Custody, Nobody, Owned, Reaped
  <1>7. Fed'
    BY DEF Fed, LetGo, Sent, CallProgress, Custody, Nobody, Owned, Reaped
  <1>8. Limited'
    BY DEF Limited, Kept, Counted
  <1> QED BY <1>1, <1>2, <1>3, <1>4, <1>5, <1>6, <1>7, <1>8

LEMMA DropKeeps ==
    ASSUME Clean, Drop
    PROVE  Clean'
  <1> USE ProcessesAssumption DEF Clean, Looping, Running, Exited, Succeeded, Is,
        Drop, Members, Leader, Unborn, Outputs, bytes, limits,
        CallTypeOK, Call, Process, Lives, LoopSteps, EndSteps, Pipes
  <1>1. CallTypeOK'
    BY DEF CallTypeOK
  <1>2. Custody'
    BY DEF Custody, Nobody, Owned, Reaped
  <1>3. CallProgress'
    BY DEF CallProgress, Custody, Nobody, Owned, Reaped
  <1>4. OwnGroup'
    BY DEF OwnGroup, Killed, LetGo, CallProgress, Custody, Nobody, Owned, Reaped
  <1>5. Unsignalled'
    BY DEF Unsignalled, LetGo, CallProgress, Custody, Nobody, Owned, Reaped
  <1>6. CallWhole'
    BY DEF CallWhole, Writers, CallProgress, Custody, Nobody, Owned, Reaped
  <1>7. Fed'
    BY DEF Fed, LetGo, Sent, CallProgress, Custody, Nobody, Owned, Reaped
  <1>8. Limited'
    BY DEF Limited, Kept, Counted
  <1> QED BY <1>1, <1>2, <1>3, <1>4, <1>5, <1>6, <1>7, <1>8

-----------------------------------------------------------------------------
(* The loop. *)

\* A step to another place of the loop.
Onward ==
    /\ Looping /\ Looping'
    /\ execution' \in Call
    /\ execution'.mode = execution.mode /\ execution'.result = execution.result
    /\ execution'.reaped = execution.reaped /\ execution'.spare = execution.spare
    /\ execution'.open \subseteq execution.open
    /\ \A o \in Outputs \ execution'.open :
          IF o \in execution.open THEN Writers(o) = {} /\ taken'[o] = written[o]
          ELSE taken'[o] = taken[o]
    /\ taken' \in [Outputs -> Nat]
    /\ Kept' <= OutputLimit
    /\ UNCHANGED <<family, written, limits>>

LEMMA OnwardKeeps ==
    ASSUME Clean, Onward
    PROVE  Clean'
  <1> USE ProcessesAssumption DEF Clean, Looping, Running, Exited, Succeeded, Is, Onward,
        Members, Leader, Unborn, Outputs, limits,
        CallTypeOK, Call, Process, Lives, LoopSteps, EndSteps, Pipes
  <1>1. CallTypeOK'
    BY DEF CallTypeOK
  <1>2. Custody'
    BY DEF Custody, Nobody, Owned, Reaped
  <1>3. CallProgress'
    BY DEF CallProgress, Custody, Nobody, Owned, Reaped
  <1>4. OwnGroup'
    BY DEF OwnGroup, Killed, LetGo, CallProgress, Custody, Nobody, Owned, Reaped
  <1>5. Unsignalled'
    BY DEF Unsignalled, LetGo, CallProgress, Custody, Nobody, Owned, Reaped
  <1>6. CallWhole'
    BY DEF CallWhole, Writers, CallProgress, Custody, Nobody, Owned, Reaped
  <1>7. Fed'
    BY DEF Fed, LetGo, Sent, CallProgress, Custody, Nobody, Owned, Reaped
  <1>8. Limited'
    BY DEF Limited
  <1> QED BY <1>1, <1>2, <1>3, <1>4, <1>5, <1>6, <1>7, <1>8

\* A step of the loop that moves on, and may close pipes and send.
Moves(pc, open, sent) ==
    execution' = [execution EXCEPT !.pc = pc, !.open = open, !.sent = sent]

LEMMA MovesOn ==
    ASSUME Clean, Looping, NEW pc \in LoopSteps, NEW open \in SUBSET execution.open,
           NEW sent \in Nat, Moves(pc, open, sent),
           taken' \in [Outputs -> Nat], Kept' <= OutputLimit,
           \A o \in Outputs \ open :
              IF o \in execution.open THEN Writers(o) = {} /\ taken'[o] = written[o]
              ELSE taken'[o] = taken[o],
           UNCHANGED <<family, written, limits>>
    PROVE  Clean'
  <1>1. execution \in Call
    BY DEF Clean, CallTypeOK
  <1>2. /\ execution' \in Call /\ execution'.pc = pc /\ execution'.open = open
        /\ execution'.mode = execution.mode /\ execution'.result = execution.result
        /\ execution'.reaped = execution.reaped /\ execution'.spare = execution.spare
    BY <1>1 DEF Moves, Call
  <1>3. Onward
    BY <1>2 DEF Onward, Looping
  <1> QED BY <1>3, OnwardKeeps

\* Nothing was read: what counts is what counted before.
LEMMA NothingRead ==
    ASSUME Clean, Looping, NEW pc \in LoopSteps, NEW open \in SUBSET execution.open,
           NEW sent \in Nat, Moves(pc, open, sent),
           \A o \in (Outputs \cap execution.open) \ open :
              Writers(o) = {} /\ taken[o] = written[o],
           UNCHANGED <<family, bytes, limits>>
    PROVE  Clean'
  <1>1. execution'.mode = execution.mode
    BY DEF Clean, CallTypeOK, Moves, Call
  <1>2. taken' = taken /\ taken \in [Outputs -> Nat]
    BY DEF Clean, CallTypeOK, bytes
  <1>3. Kept' <= OutputLimit
    BY <1>1, <1>2 DEF Clean, Limited, Kept, Counted
  <1>4. UNCHANGED <<family, written, limits>>
    BY DEF bytes
  <1>5. \A o \in Outputs \ open :
           IF o \in execution.open THEN Writers(o) = {} /\ taken'[o] = written[o]
           ELSE taken'[o] = taken[o]
    BY <1>2
  <1> QED BY <1>2, <1>3, <1>4, <1>5, MovesOn

LEMMA FeedKeeps ==
    ASSUME Clean, Feed
    PROVE  Clean'
  <1>1. execution \in Call /\ Looping /\ "out" \in LoopSteps /\ execution.open \in SUBSET Pipes
    BY DEF Clean, CallTypeOK, Feed, Is, Looping, LoopSteps, Call
  <1>2. \E open \in SUBSET execution.open, sent \in Nat :
            Moves("out", open, sent) /\ Outputs \cap execution.open \subseteq open
    <2>1. CASE execution' = [execution EXCEPT !.pc = "out"]
      <3>1. Moves("out", execution.open, execution.sent)
        BY <1>1, <2>1 DEF Moves, Call
      <3> QED BY <1>1, <3>1 DEF Call
    <2>2. CASE execution' = [execution EXCEPT !.pc = "out", !.open = @ \ {"in"}]
      <3>1. Moves("out", execution.open \ {"in"}, execution.sent)
        BY <1>1, <2>2 DEF Moves, Call
      <3>2. Outputs \cap execution.open \subseteq execution.open \ {"in"}
        BY DEF Outputs
      <3> QED BY <1>1, <3>1, <3>2 DEF Call
    <2>3. ASSUME NEW n \in execution.sent..execution.size,
                 execution' = [execution EXCEPT !.pc = "out", !.sent = n]
          PROVE  Moves("out", execution.open, n) /\ n \in Nat
      <3>1. execution.sent \in Nat /\ execution.size \in Nat
        <4>1. execution.sent \in Nat /\ execution.size \in Inputs \cup {0}
          BY <1>1 DEF Call
        <4>2. \A s \in Inputs \cup {0} : s \in Nat
          BY ProcessesAssumption
        <4> QED BY <4>1, <4>2
      <3>2. n \in Nat
        BY <3>1
      <3> QED BY <1>1, <2>3, <3>2 DEF Moves, Call
    <2> QED BY <2>1, <2>2, <2>3 DEF Feed
  <1>3. UNCHANGED <<family, bytes, limits>>
    BY DEF Feed
  <1> QED BY <1>1, <1>2, <1>3, NothingRead

LEMMA GiveUpKeeps ==
    ASSUME Clean, Looping, GiveUp, UNCHANGED <<family, bytes, limits>>
    PROVE  Clean'
  <1>1. Fails
    BY DEF Fails, Looping, LoopSteps
  <1> QED BY <1>1, FailsKeeps

LEMMA ReadKeeps ==
    ASSUME Clean, NEW o \in Outputs, Read(o)
    PROVE  Clean'
  <1>1. /\ execution \in Call /\ Looping /\ After(o) \in LoopSteps
        /\ execution.open \in SUBSET Pipes /\ execution.sent \in Nat
    BY DEF Clean, CallTypeOK, Read, Is, Looping, LoopSteps, Call, After, Outputs
  <1>2. /\ taken \in [Outputs -> Nat] /\ written \in [Outputs -> Nat]
        /\ UNCHANGED <<family, written, limits>>
    BY DEF Clean, CallTypeOK, Read
  <1>3. CASE execution' = [execution EXCEPT !.pc = After(o)] /\ UNCHANGED taken
    <2>1. Moves(After(o), execution.open, execution.sent)
      BY <1>1, <1>3 DEF Moves, Call
    <2> QED BY <1>1, <1>2, <1>3, <2>1, NothingRead DEF bytes
  <1>4. CASE GiveUp /\ UNCHANGED taken
    BY <1>1, <1>2, <1>4, GiveUpKeeps DEF bytes
  <1>5. ASSUME taken[o] = written[o], Writers(o) = {}, UNCHANGED taken,
               execution' = [execution EXCEPT !.pc = After(o), !.open = @ \ {o}]
        PROVE  Clean'
    <2>1. Moves(After(o), execution.open \ {o}, execution.sent)
      BY <1>1, <1>5 DEF Moves, Call
    <2> QED BY <1>1, <1>2, <1>5, <2>1, NothingRead DEF bytes
  <1>6. ASSUME NEW n \in 1..(written[o] - taken[o]), o \in execution.open,
               ~(o \in Counted /\ Kept + n > OutputLimit),
               taken' = [taken EXCEPT ![o] = @ + n],
               execution' = [execution EXCEPT !.pc = After(o)]
        PROVE  Clean'
    <2>1. Moves(After(o), execution.open, execution.sent)
      BY <1>1, <1>6 DEF Moves, Call
    <2>2. n \in Nat /\ taken' \in [Outputs -> Nat]
      BY <1>2, <1>6
    <2>3. execution'.mode = execution.mode
      BY <1>1, <1>6 DEF Call
    <2>4. Kept <= OutputLimit
      BY DEF Clean, Limited
    <2>5. Kept' <= OutputLimit
      BY <1>2, <1>6, <2>2, <2>3, <2>4, ProcessesAssumption DEF Kept, Counted, Outputs
    <2>6. \A u \in Outputs \ execution.open : taken'[u] = taken[u]
      BY <1>2, <1>6
    <2> QED BY <1>1, <1>2, <2>1, <2>2, <2>5, <2>6, MovesOn
  <1> QED BY <1>3, <1>4, <1>5, <1>6 DEF Read

\* The loop ends with an answer.
LEMMA AnswerKeeps ==
    ASSUME Clean, NEW open \in SUBSET execution.open, Looping, Over(open), ~HandingOver,
           execution.open \ open \subseteq {"in"},
           execution' = [execution EXCEPT !.pc = "kill", !.spare = execution.mode.detach,
                                          !.open = open, !.result = "ok"],
           UNCHANGED <<family, bytes, limits>>
    PROVE  Clean'
  <1> USE ProcessesAssumption DEF Clean
  <1>1. execution \in Call /\ execution.mode \in CaptureModes /\ execution.open \in SUBSET Pipes
    BY DEF CallTypeOK, Call
  <1>2. execution.mode.detach \in BOOLEAN
    BY <1>1
  <1>3. /\ execution' \in Call /\ execution'.pc = "kill" /\ execution'.open = open
        /\ execution'.mode = execution.mode /\ execution'.result = "ok"
        /\ execution'.reaped = execution.reaped /\ execution'.spare = execution.mode.detach
        /\ execution'.sent = execution.sent /\ execution'.size = execution.size
    BY <1>1, <1>2 DEF Call, EndSteps
  <1>4. family' = family /\ taken' = taken /\ written' = written /\ ~Looping'
    BY <1>3 DEF bytes, Looping, LoopSteps
  <1>5. Owned /\ ~execution.reaped
    BY DEF Custody, Nobody, Owned, Reaped, Looping, LoopSteps, Is
  <1>6. CallTypeOK'
    BY <1>3 DEF CallTypeOK, bytes, limits
  <1>7. Owned'
    BY <1>3, <1>4, <1>5 DEF Owned
  <1>8. CallProgress'
    BY <1>3, <1>4, <1>5 DEF CallProgress, Over, Exited, Is, EndSteps
  <1>9. OwnGroup'
    BY <1>3, <1>4, <1>5 DEF OwnGroup, Killed, Is
  <1>10. Unsignalled'
    BY <1>4 DEF Unsignalled
  <1>11. CallWhole'
    <2>1. execution.mode.pipes \subseteq Outputs
      BY <1>1
    <2>2. \A o \in execution.mode.pipes \ open : o \notin execution.open
      BY <2>1 DEF Outputs
    <2> QED BY <1>3, <1>4, <2>2 DEF CallWhole, Writers
  <1>12. Fed'
    BY <1>3, <1>4, <1>5 DEF Fed, LetGo, HandingOver, Sent, Succeeded
  <1>13. Limited'
    BY <1>3, <1>4 DEF Limited, Kept, Counted
  <1> QED BY <1>6, <1>7, <1>8, <1>9, <1>10, <1>11, <1>12, <1>13 DEF Custody

LEMMA CheckKeeps ==
    ASSUME Clean, Check
    PROVE  Clean'
  <1> DEFINE open == execution.open \ (IF Sent THEN {"in"} ELSE {})
  <1>1. /\ execution \in Call /\ Looping /\ "feed" \in LoopSteps
        /\ open \in SUBSET execution.open /\ execution.open \in SUBSET Pipes
        /\ execution.sent \in Nat
    BY DEF Clean, CallTypeOK, Check, Is, Looping, LoopSteps, Call
  <1>2. UNCHANGED <<family, bytes, limits>>
    BY DEF Check
  <1>3. execution.open \ open \subseteq {"in"}
    OBVIOUS
  <1>4. CASE GiveUp
    BY <1>1, <1>2, <1>4, GiveUpKeeps
  <1>5. CASE /\ Over(open) /\ ~HandingOver
             /\ execution' = [execution EXCEPT !.pc = "kill", !.open = open, !.result = "ok",
                                               !.spare = execution.mode.detach]
    <2>1. execution' = [execution EXCEPT !.pc = "kill", !.spare = execution.mode.detach,
                                         !.open = open, !.result = "ok"]
      BY <1>1, <1>5 DEF Call
    <2> QED BY <1>1, <1>2, <1>3, <1>5, <2>1, AnswerKeeps
  <1>6. CASE execution' = [execution EXCEPT !.pc = "feed", !.open = open]
    <2>1. Moves("feed", open, execution.sent)
      BY <1>1, <1>6 DEF Moves, Call
    <2>2. (Outputs \cap execution.open) \ open = {}
      BY <1>3 DEF Outputs
    <2> HIDE DEF open
    <2> QED BY <1>1, <1>2, <2>1, <2>2, NothingRead
  <1> QED BY <1>4, <1>5, <1>6 DEF Check

LEMMA ExecuteKeeps ==
    ASSUME Clean, NEW m \in CaptureModes, NEW n \in Inputs, Execute(m, n)
    PROVE  Clean'
  <1> USE ProcessesAssumption DEF Clean
  <1>1. NoExecution \in Call
    BY DEF NoExecution, Call
  <1>2. Nobody /\ execution.result = "none" /\ Is("idle")
    BY DEF Execute, Custody, Nobody, Owned, Reaped, Is, Looping, LoopSteps, CallProgress
  <1>3. /\ taken' = taken /\ written' = written
        /\ cancelled' = cancelled /\ pastDeadline' = pastDeadline
    BY DEF Execute, bytes, limits
  <1>5. Limited'
    <2>1. \A o \in Outputs : taken'[o] = 0
      BY <1>2, <1>3 DEF Nobody
    <2> QED BY <2>1 DEF Limited, Kept, Counted, Outputs
  <1>4. CASE /\ execution' = [NoExecution EXCEPT !.pc = "done", !.result = "error"]
             /\ UNCHANGED family
    <2>1. /\ execution' \in Call /\ execution'.pc = "done" /\ execution'.result = "error"
          /\ ~execution'.reaped /\ ~execution'.spare
      BY <1>1, <1>4 DEF NoExecution, Call, EndSteps
    <2>2. CallTypeOK' /\ Nobody' /\ ~LetGo' /\ ~Looping' /\ ~Killed'
      BY <1>2, <1>3, <1>4, <2>1 DEF CallTypeOK, Nobody, LetGo, Looping, LoopSteps, Killed, Is
    <2>3. CallProgress'
      BY <2>1, <2>2 DEF CallProgress, Is
    <2>4. OwnGroup' /\ Unsignalled' /\ CallWhole' /\ Fed'
      BY <1>2, <1>4, <2>1, <2>2
         DEF OwnGroup, Unsignalled, CallWhole, Fed, Is, Nobody, Unborn, Members
    <2> QED BY <1>5, <2>2, <2>3, <2>4 DEF Custody
  <1>6. CASE /\ execution' = [NoExecution EXCEPT
                 !.pc = "check", !.mode = m, !.size = n, !.open = {"in"} \cup m.pipes]
             /\ family' = [family EXCEPT ![Leader] =
                 [life |-> "running", group |-> IF m.group THEN "own" ELSE "caller",
                  ends |-> m.pipes]]
    <2>1. m \in CaptureModes /\ m.pipes \subseteq Outputs
      OBVIOUS
    <2>2. /\ execution' \in Call /\ execution'.pc = "check" /\ execution'.result = "none"
          /\ ~execution'.reaped /\ ~execution'.spare /\ execution'.mode = m
          /\ execution'.open = {"in"} \cup m.pipes
      BY <1>1, <1>6, <2>1 DEF NoExecution, Call, LoopSteps, Pipes
    <2>3. /\ family' \in [Members -> Process]
          /\ family'[Leader].life = "running"
          /\ family'[Leader].group = IF m.group THEN "own" ELSE "caller"
          /\ \A p \in Others : family'[p] = Unborn
      BY <1>2, <1>6, <2>1 DEF CallTypeOK, Process, Lives, Members, Leader, Nobody, Outputs
    <2>4. CallTypeOK'
      BY <1>3, <2>2, <2>3 DEF CallTypeOK
    <2>5. Looping' /\ ~LetGo' /\ ~Killed'
      BY <2>2 DEF Looping, LoopSteps, LetGo, Killed, Is
    <2>6. Owned'
      BY <2>2, <2>3, <2>5 DEF Owned
    <2>7. CallProgress'
      BY <2>2 DEF CallProgress, Is, EndSteps
    <2>8. OwnGroup'
      BY <2>3, <2>5 DEF OwnGroup, Unborn
    <2>9. Unsignalled'
      BY <2>3 DEF Unsignalled, Unborn, Members
    <2>10. CallWhole' /\ Fed'
      BY <2>2, <2>5 DEF CallWhole, Fed
    <2> QED BY <1>5, <2>4, <2>6, <2>7, <2>8, <2>9, <2>10 DEF Custody
  <1> QED BY <1>4, <1>6 DEF Execute

LEMMA WaitKeeps ==
    ASSUME Clean, Wait
    PROVE  Clean'
  <1> USE ProcessesAssumption DEF Clean
  <1>1. execution \in Call /\ family \in [Members -> Process] /\ Leader \in Members
    BY DEF CallTypeOK, Members
  <1>2. /\ Owned /\ Is("wait") /\ execution.result # "none"
        /\ family[Leader].life \in {"succeeded", "failed", "killed"}
    BY DEF Wait, Custody, Nobody, Owned, Reaped, Is, CallProgress, EndSteps, Exited
  <1>3. /\ execution' \in Call /\ execution'.pc = "drop" /\ execution'.reaped
        /\ execution'.status = family[Leader].life
        /\ execution'.mode = execution.mode /\ execution'.result = execution.result
        /\ execution'.open = execution.open /\ execution'.spare = execution.spare
        /\ execution'.sent = execution.sent /\ execution'.size = execution.size
    BY <1>1, <1>2 DEF Wait, Call, EndSteps, Lives
  <1>4. /\ family' \in [Members -> Process]
        /\ family'[Leader].life = "reaped"
        /\ \A p \in Others : family'[p] = family[p]
        /\ \A p \in Members : /\ family'[p].group = family[p].group
                              /\ family'[p].ends = family[p].ends
                              /\ family'[p].life \in {"signalled", "killed"} =>
                                   family'[p].life = family[p].life
    BY <1>1 DEF Wait, Process, Lives, Members, Leader
  <1>5. taken' = taken /\ written' = written /\ UNCHANGED limits
    BY DEF Wait, bytes
  <1>6. CallTypeOK'
    BY <1>3, <1>4, <1>5 DEF CallTypeOK, limits
  <1>7. Reaped'
    BY <1>1, <1>2, <1>3, <1>4 DEF Reaped, Owned
  <1>8. CallProgress'
    BY <1>2, <1>3 DEF CallProgress, Is, Looping, LoopSteps, EndSteps
  <1>9. LetGo' <=> LetGo
    BY <1>2, <1>3 DEF LetGo, Succeeded, Owned
  <1>10. OwnGroup'
    BY <1>2, <1>3, <1>4, <1>9 DEF OwnGroup, Killed, Running
  <1>11. Unsignalled'
    BY <1>3, <1>4, <1>9 DEF Unsignalled, Is, Looping, LoopSteps
  <1>12. CallWhole'
    BY <1>3, <1>4, <1>5 DEF CallWhole, Looping, LoopSteps, Writers
  <1>13. Fed'
    BY <1>3, <1>9 DEF Fed, Sent
  <1>14. Limited'
    BY <1>3, <1>5 DEF Limited, Kept, Counted
  <1> QED BY <1>6, <1>7, <1>8, <1>10, <1>11, <1>12, <1>13, <1>14 DEF Custody

-----------------------------------------------------------------------------
(* The theorems. *)

LEMMA InitClean ==
    ASSUME ProcessesInit
    PROVE  Clean
  <1> USE ProcessesAssumption
  <1>1. NoExecution \in Call
    BY DEF NoExecution, Call
  <1>2. /\ Is("idle") /\ ~execution.reaped /\ execution.result = "none" /\ ~execution.spare
        /\ ~Looping /\ ~LetGo /\ ~Killed
    BY DEF ProcessesInit, NoExecution, Is, Looping, LoopSteps, LetGo, Killed
  <1>3. /\ \A p \in Members : family[p] = Unborn
        /\ \A o \in Outputs : taken[o] = 0
    BY DEF ProcessesInit
  <1>4. CallTypeOK
    <2>1. Unborn \in Process
      BY DEF Unborn, Process, Lives
    <2> QED BY <1>1, <2>1 DEF ProcessesInit, CallTypeOK
  <1>5. Nobody
    BY <1>2, <1>3 DEF Nobody
  <1>6. CallProgress
    BY <1>2 DEF CallProgress, Is, EndSteps
  <1>7. OwnGroup /\ Unsignalled
    BY <1>2, <1>3 DEF OwnGroup, Unsignalled, Unborn, Members
  <1>8. CallWhole /\ Fed
    BY <1>2 DEF CallWhole, Fed
  <1>9. Limited
    BY <1>3 DEF Limited, Kept, Counted, Outputs
  <1> QED BY <1>4, <1>5, <1>6, <1>7, <1>8, <1>9 DEF Clean, Custody

LEMMA StutterKeeps ==
    ASSUME Clean, UNCHANGED processesVars
    PROVE  Clean'
  <1> USE DEF processesVars, bytes, limits
  <1>1. CallTypeOK' /\ Custody' /\ CallProgress'
    BY DEF Clean, CallTypeOK, Custody, Nobody, Owned, Reaped, CallProgress, Looping, Is, Exited,
           Running
  <1>2. OwnGroup' /\ Unsignalled' /\ CallWhole'
    BY DEF Clean, OwnGroup, Unsignalled, CallWhole, Killed, LetGo, Looping, Is, Succeeded, Running,
           Writers
  <1>3. Fed' /\ Limited'
    BY DEF Clean, Fed, Limited, LetGo, Succeeded, Sent, Kept, Counted
  <1> QED BY <1>1, <1>2, <1>3 DEF Clean

LEMMA NextKeeps ==
    ASSUME Clean, [ProcessesNext]_processesVars
    PROVE  Clean'
  <1>1. CASE \E m \in CaptureModes, n \in Inputs : Execute(m, n)
    BY <1>1, ExecuteKeeps
  <1>2. CASE Caller
    BY <1>2, CheckKeeps, FeedKeeps, FailsKeeps, KillKeeps, WaitKeeps, DropKeeps, ReadKeeps
       DEF Caller
  <1>3. CASE Commands
    BY <1>3, EndsKeeps, DiesKeeps, LeaveGroupKeeps, StartAnotherKeeps, ClosePipeKeeps, WriteKeeps,
       RecycleKeeps DEF Commands
  <1>4. CASE Cancel \/ DeadlinePasses
    BY <1>4, CancelKeeps, DeadlinePassesKeeps
  <1>5. CASE UNCHANGED processesVars
    BY <1>5, StutterKeeps
  <1> QED BY <1>1, <1>2, <1>3, <1>4, <1>5 DEF ProcessesNext

ProcessesSpec == ProcessesInit /\ [][ProcessesNext]_processesVars

\* A command is owned from its start until it is reaped, its group runs until
\* the kill at most, and the loop ends with an answer only when all that was
\* written was read.
THEOREM CleanAlways == ProcessesSpec => []Clean
  <1> QED BY InitClean, NextKeeps, PTL DEF ProcessesSpec

LEMMA CleanEnds == Clean => CallsEndClean
  <1> SUFFICES ASSUME Clean
               PROVE  CallsEndClean
    OBVIOUS
  <1> USE DEF Clean
  <1>1. family[Leader].group = "stranger" => Running(Leader)
    <2>1. Leader \in Members
      BY DEF Members
    <2> QED BY <2>1 DEF Custody, Nobody, Owned, Reaped, Unborn
  <1> SUFFICES ASSUME Is("done")
               PROVE  CallsEndClean
    BY <1>1 DEF CallsEndClean
  <1>2. Nobody \/ Reaped
    BY DEF Custody, Owned, Is, Looping, LoopSteps
  <1>3. HandedOver <=> LetGo
    BY <1>2 DEF HandedOver, LetGo, Nobody, Reaped, Is
  <1>4. ~HandedOver => \A p \in Others : ~(Running(p) /\ family[p].group = "own")
    <2>1. CASE Nobody
      BY <2>1 DEF Nobody, Running, Unborn, Members
    <2>2. CASE Reaped
      BY <2>2, <1>3 DEF Reaped, OwnGroup, Killed
    <2> QED BY <1>2, <2>1, <2>2
  <1>5. HandedOver => Sent /\ \A p \in Others : family[p].life \notin {"signalled", "killed"}
    BY <1>3 DEF Fed, Unsignalled, Members
  <1>6. execution.result = "ok" => \A o \in execution.mode.pipes : taken[o] = written[o]
    <2> SUFFICES ASSUME execution.result = "ok", NEW o \in execution.mode.pipes
                 PROVE  taken[o] = written[o]
      OBVIOUS
    <2>1. execution.mode.pipes \subseteq Outputs
      BY ProcessesAssumption DEF CallTypeOK, Call
    <2>2. execution.open \cap Outputs = {}
      BY DEF CallProgress
    <2> QED BY <2>1, <2>2 DEF CallWhole
  <1> QED BY <1>1, <1>4, <1>5, <1>6 DEF CallsEndClean, Limited

\* However a call returns, what the command started in its own group does not
\* outlive it, unless a launcher succeeded: then nothing was killed and all of
\* its input was sent; an answer is whole, and within its limit.
THEOREM EndsCleanAlways == ProcessesSpec => []CallsEndClean
  <1> QED BY CleanAlways, CleanEnds, PTL
===============================================================================
