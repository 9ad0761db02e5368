---------------------------- MODULE TransfersProofs ----------------------------
(***************************************************************************)
(* Theorems about Transfers, for any number of sends, receipts, files,     *)
(* crashes and failing saves: the acknowledgements that are owed are in    *)
(* the history file, nothing is sent again, nothing is lost while names    *)
(* differ, and every copy is accounted for.                                *)
(***************************************************************************)
EXTENDS Transfers, TLAPS

Group == [incoming : BOOLEAN,
          state : {"absent", "sending", "receiving", "retrying", "completed",
                   "failed", "cancelled"},
          files : Seq(Entry)]

Run == [pc : {"none", "file", "transfer", "delivered", "published", "forget",
              "forgotten", "acknowledge", "acknowledged", "sleep", "end"},
        file : Nat \ {0}, try : Nat, ok : BOOLEAN, stop : BOOLEAN]

TypeOK ==
    /\ mem \in [Groups -> Group]
    /\ disk \in [Groups -> Group]
    /\ run \in [Groups -> Run]
    /\ where \in [Parcels -> {"away", "arriving", "waiting", "deleted"}]

\* Every acknowledgement that the service owes is in the history file.
Recorded(group, kept) ==
    \A i \in DOMAIN group.files :
        group.files[i].ack =>
            /\ i \in DOMAIN kept.files
            /\ kept.files[i].ack
            /\ kept.files[i].remote = group.files[i].remote

\* What holds of a group, of its record in the history file and its runner.
Sound(group, kept, r) ==
    /\ r.pc # "none" => Active(group.state)
    /\ r.pc \notin {"none", "file", "end"} => r.file \in DOMAIN group.files
    /\ r.pc \in {"forget", "acknowledge"} => group.files[r.file].ack
    /\ r.pc \notin {"none", "end"} => Recorded(group, kept)

Journalling == \A g \in Groups : Sound(mem[g], disk[g], run[g])

IInv == TypeOK /\ Journalling

-----------------------------------------------------------------------------
(* Steps of one group. *)

\* The same acknowledgements and remote names.
SameRecords(group, other) ==
    /\ other.incoming = group.incoming
    /\ DOMAIN group.files = DOMAIN other.files
    /\ \A i \in DOMAIN group.files :
          /\ other.files[i].ack = group.files[i].ack
          /\ other.files[i].remote = group.files[i].remote

\* What any step does to the groups other than g: it may save them.
Others(g) ==
    /\ mem' \in [Groups -> Group]
    /\ disk' \in [Groups -> Group]
    /\ run' \in [Groups -> Run]
    /\ \A h \in Groups \ {g} :
          /\ mem'[h] = mem[h]
          /\ run'[h] = run[h]
          /\ disk'[h] = disk[h] \/ disk'[h] = mem[h]

\* A group of which only others are worked on stays sound, saved or not.
LEMMA Bystanders ==
    ASSUME IInv, NEW g \in Groups, Others(g), Sound(mem[g], disk[g], run[g])'
    PROVE  Journalling'
<1> SUFFICES ASSUME NEW h \in Groups, h # g
             PROVE  Sound(mem[h], disk[h], run[h])'
  BY DEF Journalling
<1>1. Sound(mem[h], disk[h], run[h]) /\ mem'[h] = mem[h] /\ run'[h] = run[h]
  BY DEF IInv, Journalling, Others
<1>2. CASE disk'[h] = disk[h]
  BY <1>1, <1>2 DEF Sound, Recorded
<1>3. CASE disk'[h] = mem[h]
  BY <1>1, <1>3 DEF Sound, Recorded
<1> QED
  BY <1>2, <1>3 DEF Others

LEMMA RecordedSame ==
    ASSUME NEW group, NEW other, NEW kept,
           Recorded(group, kept), SameRecords(group, other)
    PROVE  Recorded(other, kept)
BY DEF Recorded, SameRecords

\* One file of a group is replaced.
LEMMA Placed ==
    ASSUME NEW f \in Seq(Entry), NEW i \in Nat, NEW x, i \in DOMAIN f => x \in Entry
    PROVE  /\ [f EXCEPT ![i] = x] \in Seq(Entry)
           /\ DOMAIN [f EXCEPT ![i] = x] = DOMAIN f
           /\ \A k \in DOMAIN f : [f EXCEPT ![i] = x][k] = IF k = i THEN x ELSE f[k]
<1> DEFINE h == [f EXCEPT ![i] = x]
<1>1. f \in [1..Len(f) -> Entry] /\ Len(f) \in Nat /\ DOMAIN f = 1..Len(f)
  OBVIOUS
<1>2. h \in [1..Len(f) -> Entry]
  BY <1>1
<1>3. h \in Seq(Entry)
  BY <1>1, <1>2
<1> QED
  BY <1>1, <1>2, <1>3

LEMMA Restated ==
    ASSUME NEW entry \in Entry, NEW e \in {"pending", "active", "completed", "failed"}
    PROVE  /\ [entry EXCEPT !.state = e] \in Entry
           /\ [entry EXCEPT !.state = e].ack = entry.ack
           /\ [entry EXCEPT !.state = e].remote = entry.remote
           /\ [entry EXCEPT !.state = e].state = e
BY DEF Entry

WithState(group, i, s, e) == [group EXCEPT !.state = s, !.files[i].state = e]

\* The change is well typed, says what it was told, and leaves the records alone.
Marked(group, i, s, e) ==
    /\ WithState(group, i, s, e) \in Group
    /\ WithState(group, i, s, e).state = s
    /\ SameRecords(group, WithState(group, i, s, e))
    /\ i \in DOMAIN group.files => WithState(group, i, s, e).files[i].state = e

\* A group's state and a file's state change: its records do not.
LEMMA StateType ==
    ASSUME NEW group \in Group, NEW i \in Nat,
           NEW s \in {"sending", "receiving", "retrying", "failed", "completed", "cancelled"},
           NEW e \in {"pending", "active", "completed", "failed"}
    PROVE  Marked(group, i, s, e)
<1> DEFINE x == [group.files[i] EXCEPT !.state = e]
<1> DEFINE files == [group.files EXCEPT ![i] = x]
<1> DEFINE stated == [group EXCEPT !.state = s]
<1> DEFINE other == WithState(group, i, s, e)
<1>1. /\ stated \in Group /\ stated.state = s /\ stated.files = group.files
      /\ stated.incoming = group.incoming
  BY DEF Group
<1>2. other = [stated EXCEPT !.files = files]
  BY <1>1 DEF WithState
<1>3. group.files \in Seq(Entry)
  BY DEF Group
<1>4. \A k \in DOMAIN group.files : group.files[k] \in Entry
  BY <1>3
<1>5. i \in DOMAIN group.files => x \in Entry /\ x.state = e
  BY <1>4, Restated
<1> HIDE DEF other
<1>6. /\ files \in Seq(Entry)
      /\ DOMAIN files = DOMAIN group.files
      /\ \A k \in DOMAIN group.files : files[k] = IF k = i THEN x ELSE group.files[k]
  BY <1>3, <1>5, Placed
<1>7. \A k \in DOMAIN group.files :
        files[k].ack = group.files[k].ack /\ files[k].remote = group.files[k].remote
  BY <1>4, <1>6, Restated
<1> HIDE DEF files, stated, x
<1>8. /\ other \in Group /\ other.state = s /\ other.files = files
      /\ other.incoming = group.incoming
  BY <1>1, <1>2, <1>6 DEF Group
<1>9. SameRecords(group, other)
  BY <1>6, <1>7, <1>8 DEF SameRecords
<1>10. i \in DOMAIN group.files => other.files[i].state = e
  BY <1>5, <1>6, <1>8
<1> QED
  BY <1>8, <1>9, <1>10 DEF other, Marked

LEMMA RetryingType ==
    ASSUME NEW group \in Group, NEW i \in Nat,
           NEW e \in {"pending", "active", "completed", "failed"}
    PROVE  /\ WithState(group, i, "retrying", e) \in Group
           /\ WithState(group, i, "retrying", e).state = "retrying"
           /\ SameRecords(group, WithState(group, i, "retrying", e))
           /\ i \in DOMAIN group.files =>
                 WithState(group, i, "retrying", e).files[i].state = e
<1>1. Marked(group, i, "retrying", e)
  BY StateType
<1> QED
  BY <1>1 DEF Marked

\* The runner of one group moves.
LEMMA GotoMoves ==
    ASSUME run \in [Groups -> Run], NEW g \in Groups,
           NEW pc \in {"transfer", "delivered", "published", "forget", "forgotten",
                       "acknowledge", "acknowledged", "sleep"},
           Goto(g, pc)
    PROVE  /\ run' \in [Groups -> Run]
           /\ run'[g].pc = pc /\ run'[g].file = run[g].file
           /\ \A h \in Groups \ {g} : run'[h] = run[h]
BY DEF Goto, Run

LEMMA FinishMoves ==
    ASSUME run \in [Groups -> Run], NEW g \in Groups, NEW ok \in BOOLEAN, FinishGroup(g, ok)
    PROVE  /\ run' \in [Groups -> Run]
           /\ run'[g].pc = "end" /\ run'[g].file = run[g].file
           /\ \A h \in Groups \ {g} : run'[h] = run[h]
BY DEF FinishGroup, Run

LEMMA NextRun ==
    ASSUME NEW r \in Run
    PROVE  /\ [r EXCEPT !.pc = "file", !.file = r.file + 1, !.try = 1] \in Run
           /\ [r EXCEPT !.pc = "file", !.file = r.file + 1, !.try = 1].pc = "file"
<1>1. r.file + 1 \in Nat \ {0}
  BY DEF Run
<1> DEFINE n == r.file + 1
<1> HIDE DEF n
<1> QED BY <1>1 DEF Run, n

LEMMA NextFileMoves ==
    ASSUME run \in [Groups -> Run], NEW g \in Groups, NextFile(g)
    PROVE  /\ run' \in [Groups -> Run]
           /\ run'[g].pc = "file"
           /\ \A h \in Groups \ {g} : run'[h] = run[h]
<1>1. run[g] \in Run
  OBVIOUS
<1> DEFINE next == [run[g] EXCEPT !.pc = "file", !.file = run[g].file + 1, !.try = 1]
<1>2. run' = [run EXCEPT ![g] = next]
  BY DEF NextFile
<1>3. next \in Run /\ next.pc = "file"
  BY <1>1, NextRun
<1> HIDE DEF next
<1> QED
  BY <1>2, <1>3

\* What the error of an attempt does.
LEMMA FailedMoves ==
    ASSUME NEW groups \in [Groups -> Group], NEW g \in Groups, run \in [Groups -> Run],
           NEW final \in BOOLEAN, run[g].file \in DOMAIN groups[g].files,
           Active(groups[g].state), Failed(groups, g, final)
    PROVE  /\ mem' \in [Groups -> Group]
           /\ run' \in [Groups -> Run]
           /\ \A h \in Groups \ {g} : mem'[h] = groups[h] /\ run'[h] = run[h]
           /\ Active(mem'[g].state)
           /\ SameRecords(groups[g], mem'[g])
           /\ run'[g].pc \in {"sleep", "end"} /\ run'[g].file = run[g].file
           /\ run'[g].pc = "sleep" =>
                 /\ ~final /\ ~groups[g].files[run[g].file].ack
                 /\ mem'[g].files[run[g].file].state = "failed"
<1> DEFINE i == run[g].file
<1> DEFINE entry == groups[g].files[i]
<1> DEFINE s == IF entry.ack THEN entry.state ELSE "failed"
<1> DEFINE other == WithState(groups[g], i, "retrying", s)
<1>1. /\ groups[g] \in Group /\ groups[g].files \in Seq(Entry) /\ i \in Nat
      /\ entry \in Entry /\ i \in DOMAIN groups[g].files
  BY DEF Group, Run
<1>2. s \in {"pending", "active", "completed", "failed"}
  BY <1>1 DEF Entry
<1>3. /\ other \in Group /\ other.state = "retrying" /\ SameRecords(groups[g], other)
      /\ other.files[i].state = s
  <2> HIDE DEF s, i, entry
  <2> QED BY <1>1, <1>2, RetryingType
<1>4. CASE run[g].stop
  <2>1. mem' = groups /\ FinishGroup(g, FALSE)
    BY <1>4 DEF Failed
  <2>2. SameRecords(groups[g], mem'[g])
    BY <2>1 DEF SameRecords
  <2> QED
    BY <2>1, <2>2, FinishMoves
<1>5. CASE ~run[g].stop
  <2>1. mem' = [groups EXCEPT ![g] = other]
    BY <1>5 DEF Failed, WithState
  <2>2. /\ mem' \in [Groups -> Group]
        /\ \A h \in Groups \ {g} : mem'[h] = groups[h]
        /\ Active(mem'[g].state) /\ SameRecords(groups[g], mem'[g])
        /\ mem'[g].files[i].state = s
    <3> HIDE DEF other, s
    <3> QED BY <1>3, <2>1 DEF Active
  <2>3. CASE FinishGroup(g, FALSE)
    BY <2>2, <2>3, FinishMoves
  <2>4. CASE Goto(g, "sleep") /\ ~final /\ ~entry.ack
    BY <2>2, <2>4, GotoMoves
  <2> QED
    BY <1>5, <2>3, <2>4 DEF Failed
<1> QED
  BY <1>4, <1>5

-----------------------------------------------------------------------------
(* What a step on one group has to establish, and how saves establish it. *)

\* The remote names of the files whose acknowledgement is owed.
Owed(group) == {group.files[i].remote : i \in {k \in DOMAIN group.files : group.files[k].ack}}

\* What the service may owe after a step on g: the file it has just copied too.
Due(g) ==
    Owed(mem[g]) \cup Owed(disk[g]) \cup (IF At(g, "published") THEN {Current(g).remote} ELSE {})

\* A step owes nothing new, and copies are published by Receive alone.
Honest(g) ==
    /\ Owed(mem'[g]) \subseteq Due(g)
    /\ Owed(disk'[g]) \subseteq Due(g)
    /\ run'[g].pc = "published" =>
          \/ Receive(g)
          \/ run[g].pc = "published" /\ run'[g].file = run[g].file /\ mem'[g] = mem[g]

Works(g) == Others(g) /\ Sound(mem[g], disk[g], run[g])' /\ Honest(g)

LEMMA OwedSame ==
    ASSUME NEW group, NEW other, SameRecords(group, other)
    PROVE  Owed(other) \subseteq Owed(group)
BY DEF Owed, SameRecords

LEMMA OwedBySameFiles ==
    ASSUME NEW group, NEW other, other.files = group.files
    PROVE  Owed(other) = Owed(group)
BY DEF Owed

\* One group may take another's place in memory, in the file or in neither.
LEMMA HonestSave ==
    ASSUME NEW g \in Groups, Owed(mem'[g]) \subseteq Due(g),
           \/ disk'[g] = disk[g]
           \/ Owed(disk'[g]) \subseteq Due(g),
           run'[g].pc # "published"
    PROVE  Honest(g)
BY DEF Honest, Due

\* A group without a runner is sound.
LEMMA Unattended ==
    ASSUME NEW group, NEW kept, NEW r, r.pc = "none"
    PROVE  Sound(group, kept, r)
BY DEF Sound

LEMMA RunnersHaveStates ==
    ASSUME IInv, NEW g \in Groups
    PROVE  /\ mem[g] \in Group /\ disk[g] \in Group /\ run[g] \in Run
           /\ Sound(mem[g], disk[g], run[g])
           /\ run[g].pc # "none" => Active(mem[g].state)
           /\ ~Active(mem[g].state) => run[g].pc = "none"
BY DEF IInv, TypeOK, Journalling, Sound

\* The other groups in memory may get into the history file.
LEMMA SaveOthers ==
    ASSUME IInv, NEW g \in Groups, NEW groups \in [Groups -> Group],
           \A h \in Groups \ {g} : groups[h] = mem[h],
           mem' \in [Groups -> Group],
           \A h \in Groups \ {g} : mem'[h] = mem[h],
           disk' = disk \/ disk' = groups,
           run' \in [Groups -> Run],
           \A h \in Groups \ {g} : run'[h] = run[h]
    PROVE  Others(g)
<1>1. disk \in [Groups -> Group]
  BY DEF IInv, TypeOK
<1> QED
  BY <1>1 DEF Others

LEMMA OpenedType ==
    ASSUME NEW group \in Group
    PROVE  /\ Opened(group) \in Group /\ Active(Opened(group).state)
           /\ Opened(group).files = group.files
           /\ SameRecords(group, Opened(group))
<1> DEFINE s == IF group.incoming THEN "receiving" ELSE "sending"
<1>1. s \in {"receiving", "sending"}
  OBVIOUS
<1>2. Opened(group) = [group EXCEPT !.state = s]
  BY DEF Opened
<1> HIDE DEF s
<1> QED
  BY <1>1, <1>2 DEF Group, Active, SameRecords

LEMMA IdleType ==
    ASSUME NEW pc \in {"none", "file"}
    PROVE  [Idle EXCEPT !.pc = pc] \in Run /\ [Idle EXCEPT !.pc = pc].pc = pc
<1> DEFINE one == 1
<1>1. one \in Nat \ {0} /\ one \in Nat
  OBVIOUS
<1>2. Idle = [pc |-> "none", file |-> one, try |-> one, ok |-> TRUE, stop |-> FALSE]
  BY DEF Idle
<1> HIDE DEF one
<1>3. Idle \in Run
  BY <1>1, <1>2 DEF Run
<1> QED
  BY <1>3 DEF Run

LEMMA StartedType ==
    ASSUME NEW groups \in [Groups -> Group], NEW g \in Groups
    PROVE  /\ Started(groups, g) \in [Groups -> Group]
           /\ Active(Started(groups, g)[g].state)
           /\ Owed(Started(groups, g)[g]) = Owed(groups[g])
           /\ SameRecords(groups[g], Started(groups, g)[g])
           /\ \A h \in Groups \ {g} : Started(groups, g)[h] = groups[h]
<1>1. /\ Opened(groups[g]) \in Group /\ Active(Opened(groups[g]).state)
      /\ Owed(Opened(groups[g])) = Owed(groups[g])
      /\ SameRecords(groups[g], Opened(groups[g]))
  BY OpenedType, OwedBySameFiles
<1> QED
  BY <1>1 DEF Started

\* A runner starts on a group that was just saved.
LEMMA StartWorks ==
    ASSUME IInv, NEW g \in Groups, NEW groups \in [Groups -> Group],
           \A h \in Groups \ {g} : groups[h] = mem[h],
           Owed(groups[g]) \subseteq Owed(mem[g]),
           Start(groups, g)
    PROVE  Works(g)
<1> DEFINE started == Started(groups, g)
<1> DEFINE r == [Idle EXCEPT !.pc = "file"]
<1>1. mem' = started /\ disk' = started /\ run' = [run EXCEPT ![g] = r]
  BY DEF Start, Saved
<1>2. /\ started \in [Groups -> Group] /\ Active(started[g].state)
      /\ Owed(started[g]) \subseteq Due(g)
      /\ \A h \in Groups \ {g} : started[h] = mem[h]
  BY StartedType DEF Due
<1>3. r \in Run /\ r.pc = "file"
  BY IdleType
<1>4. run \in [Groups -> Run]
  BY DEF IInv, TypeOK
<1> HIDE DEF started, r
<1>5. run' \in [Groups -> Run] /\ run'[g] = r /\ \A h \in Groups \ {g} : run'[h] = run[h]
  BY <1>1, <1>3, <1>4
<1>6. Others(g)
  BY <1>1, <1>2, <1>5 DEF Others
<1>7. Sound(mem[g], disk[g], run[g])'
  BY <1>1, <1>2, <1>3, <1>5 DEF Sound, Recorded
<1>8. Honest(g)
  BY <1>1, <1>2, <1>3, <1>5, HonestSave
<1> QED
  BY <1>6, <1>7, <1>8 DEF Works

LEMMA StartFailsWorks ==
    ASSUME IInv, NEW g \in Groups, NEW groups \in [Groups -> Group],
           \A h \in Groups \ {g} : groups[h] = mem[h],
           Owed(groups[g]) \subseteq Owed(mem[g]),
           run[g].pc = "none", StartFails(groups, g)
    PROVE  Works(g)
<1> DEFINE started == Started(groups, g)
<1>1. mem' = started /\ (disk' = disk \/ disk' = started) /\ run' = run
  BY DEF StartFails, SaveFails
<1>2. /\ started \in [Groups -> Group]
      /\ Owed(started[g]) \subseteq Due(g)
      /\ \A h \in Groups \ {g} : started[h] = mem[h]
  BY StartedType DEF Due
<1>3. run \in [Groups -> Run]
  BY DEF IInv, TypeOK
<1> HIDE DEF started
<1>4. Others(g)
  BY <1>1, <1>2, <1>3, SaveOthers
<1>5. Sound(mem[g], disk[g], run[g])'
  BY <1>1, Unattended
<1>6. Honest(g)
  BY <1>1, <1>2, HonestSave
<1> QED
  BY <1>4, <1>5, <1>6 DEF Works

-----------------------------------------------------------------------------
(* The user's operations. *)

LEMMA AbsentType == Absent \in Group /\ ~Active(Absent.state) /\ Owed(Absent) = {}
<1>1. Absent \in Group /\ ~Active(Absent.state)
  BY DEF Absent, Group, Active
<1>2. Absent.files = << >> /\ DOMAIN << >> = {}
  BY DEF Absent
<1> QED BY <1>1, <1>2 DEF Owed

LEMMA FreshIsUnattended ==
    ASSUME IInv, NEW g \in Groups, Fresh(g)
    PROVE  run[g].pc = "none"
BY AbsentType, RunnersHaveStates DEF Fresh

LEMMA NewSendType ==
    ASSUME NEW n \in SendSizes
    PROVE  NewSend(n) \in Group /\ Owed(NewSend(n)) = {}
<1>1. n \in Nat
  BY TransfersAssumption
<1>2. NewEntry("pending", NoName) \in Entry
  BY DEF NewEntry, Entry
<1>3. [i \in 1..n |-> NewEntry("pending", NoName)] \in Seq(Entry)
  BY <1>1, <1>2
<1>4. \A i \in DOMAIN NewSend(n).files : ~NewSend(n).files[i].ack
  BY <1>1 DEF NewSend, NewEntry
<1> QED
  BY <1>3, <1>4 DEF NewSend, Group, Owed

LEMMA SendWorks ==
    ASSUME IInv, NEW g \in Groups, Send(g)
    PROVE  Works(g)
<1> PICK n \in SendSizes :
      LET groups == [mem EXCEPT ![g] = NewSend(n)] IN
      \/ Start(groups, g)
      \/ (disk' = disk \/ disk' = groups) /\ UNCHANGED <<mem, run>>
  BY DEF Send
<1> DEFINE groups == [mem EXCEPT ![g] = NewSend(n)]
<1>1. /\ groups \in [Groups -> Group] /\ Owed(groups[g]) = {}
      /\ \A h \in Groups \ {g} : groups[h] = mem[h]
  BY NewSendType DEF IInv, TypeOK
<1>2. run[g].pc = "none"
  BY FreshIsUnattended DEF Send
<1> HIDE DEF groups
<1>3. CASE Start(groups, g)
  BY <1>1, <1>3, StartWorks
<1>4. CASE (disk' = disk \/ disk' = groups) /\ UNCHANGED <<mem, run>>
  <2>1. Others(g)
    BY <1>1, <1>4, SaveOthers DEF IInv, TypeOK
  <2>2. Honest(g)
    BY <1>1, <1>2, <1>4, HonestSave DEF Due
  <2> QED
    BY <1>2, <1>4, <2>1, <2>2, Unattended DEF Works
<1> QED
  BY <1>3, <1>4 DEF groups

LEMMA RetryWorks ==
    ASSUME IInv, NEW g \in Groups, RetryGroup(g)
    PROVE  Works(g)
<1>1. run[g].pc = "none"
  BY DEF RetryGroup, Running
<1>2. mem \in [Groups -> Group]
  BY DEF IInv, TypeOK
<1> QED
  BY <1>1, <1>2, StartWorks, StartFailsWorks DEF RetryGroup

LEMMA CancelWorks ==
    ASSUME IInv, NEW g \in Groups, CancelGroup(g)
    PROVE  Works(g)
<1>1. mem' = mem /\ (disk' = disk \/ disk' = mem) /\ run' = [run EXCEPT ![g].stop = TRUE]
  BY DEF CancelGroup, Save, Saved, SaveFails
<1>2. mem \in [Groups -> Group] /\ run \in [Groups -> Run]
  BY DEF IInv, TypeOK
<1>3. /\ run' \in [Groups -> Run]
      /\ run'[g].pc = run[g].pc /\ run'[g].file = run[g].file
      /\ \A h \in Groups \ {g} : run'[h] = run[h]
  BY <1>1, <1>2 DEF Run
<1>4. Others(g)
  BY <1>1, <1>2, <1>3, SaveOthers
<1>5. Sound(mem[g], disk[g], run[g])
  BY RunnersHaveStates
<1>6. Sound(mem[g], disk[g], run[g])'
  BY <1>1, <1>3, <1>5 DEF Sound, Recorded
<1>7. Honest(g)
  BY <1>1, <1>3 DEF Honest, Due
<1> QED
  BY <1>4, <1>6, <1>7 DEF Works

LEMMA RemovalWorks ==
    ASSUME IInv, NEW g \in Groups, Dismiss(g) \/ Expire(g)
    PROVE  Works(g)
<1> DEFINE groups == [mem EXCEPT ![g] = Absent]
<1>1. mem' = groups /\ (disk' = disk \/ disk' = groups) /\ run' = run
  BY DEF Dismiss, Expire, Save, Saved, SaveFails
<1>2. mem \in [Groups -> Group] /\ run \in [Groups -> Run]
  BY DEF IInv, TypeOK
<1>3. /\ groups \in [Groups -> Group] /\ Owed(groups[g]) = {}
      /\ \A h \in Groups \ {g} : groups[h] = mem[h]
  BY <1>2, AbsentType
<1>4. run[g].pc = "none"
  <2>1. ~Active(mem[g].state)
    BY DEF Dismiss, Expire, Active
  <2> QED BY <2>1, RunnersHaveStates
<1> HIDE DEF groups
<1>5. Others(g)
  BY <1>1, <1>2, <1>3, SaveOthers
<1>6. Honest(g)
  BY <1>1, <1>3, <1>4, HonestSave DEF Due
<1> QED
  BY <1>1, <1>4, <1>5, <1>6, Unattended DEF Works

-----------------------------------------------------------------------------
(* The runner. *)

\* The runner moves, and neither memory nor the file changes.
LEMMA Resting ==
    ASSUME IInv, NEW g \in Groups, UNCHANGED <<mem, disk>>,
           run' \in [Groups -> Run], \A h \in Groups \ {g} : run'[h] = run[h],
           run'[g].pc = "published" => Receive(g),
           \/ run'[g].pc \in {"file", "end"} /\ run[g].pc \notin {"none", "end"}
           \/ /\ run'[g].pc \in {"transfer", "delivered", "published", "forget", "forgotten",
                                "acknowledge", "acknowledged", "sleep"}
              /\ run[g].pc \notin {"none", "end"}
              /\ run'[g].file \in DOMAIN mem[g].files
              /\ run'[g].pc \in {"forget", "acknowledge"} => mem[g].files[run'[g].file].ack
    PROVE  Works(g)
<1>1. mem \in [Groups -> Group] /\ disk \in [Groups -> Group]
  BY DEF IInv, TypeOK
<1>2. Others(g)
  BY <1>1 DEF Others
<1>3. Sound(mem[g], disk[g], run[g])
  BY RunnersHaveStates
<1>4. Sound(mem[g], disk[g], run[g])'
  BY <1>3 DEF Sound
<1>5. Honest(g)
  BY DEF Honest, Due
<1> QED
  BY <1>2, <1>4, <1>5 DEF Works

\* An attempt begins: the records stay.
LEMMA AttemptMoves ==
    ASSUME IInv, NEW g \in Groups, Attempt(g)
    PROVE  /\ mem' \in [Groups -> Group] /\ disk' = disk
           /\ \A h \in Groups \ {g} : mem'[h] = mem[h]
           /\ Active(mem'[g].state)
           /\ SameRecords(mem[g], mem'[g])
<1> DEFINE s == IF mem[g].incoming THEN "receiving" ELSE "sending"
<1> DEFINE tried == Tried(mem[g], run[g].file)
<1>1. mem \in [Groups -> Group] /\ mem[g] \in Group /\ run[g].file \in Nat
  BY RunnersHaveStates DEF IInv, TypeOK, Run
<1>2. tried = WithState(mem[g], run[g].file, s, "active")
  BY DEF Tried, Opened, WithState
<1>3. s \in {"sending", "receiving"}
  OBVIOUS
<1>4. tried \in Group /\ tried.state = s /\ SameRecords(mem[g], tried)
  <2>1. \A group \in Group : \A i \in Nat :
          /\ WithState(group, i, "sending", "active") \in Group
          /\ WithState(group, i, "sending", "active").state = "sending"
          /\ SameRecords(group, WithState(group, i, "sending", "active"))
    BY StateType DEF Marked
  <2>2. \A group \in Group : \A i \in Nat :
          /\ WithState(group, i, "receiving", "active") \in Group
          /\ WithState(group, i, "receiving", "active").state = "receiving"
          /\ SameRecords(group, WithState(group, i, "receiving", "active"))
    BY StateType DEF Marked
  <2> HIDE DEF s, tried
  <2> QED BY <1>1, <1>2, <1>3, <2>1, <2>2
<1> HIDE DEF s, tried
<1>5. mem' = [mem EXCEPT ![g] = tried] /\ disk' = disk
  BY DEF Attempt, tried
<1> QED
  BY <1>1, <1>3, <1>4, <1>5 DEF Active

\* After an attempt has begun, or failed.
LEMMA AttemptWorks ==
    ASSUME IInv, NEW g \in Groups, disk' = disk,
           run[g].pc \notin {"none", "end"},
           mem' \in [Groups -> Group], run' \in [Groups -> Run],
           \A h \in Groups \ {g} : mem'[h] = mem[h] /\ run'[h] = run[h],
           Active(mem'[g].state), SameRecords(mem[g], mem'[g]),
           run'[g].pc \in {"transfer", "sleep", "end"},
           run'[g].pc # "end" => run'[g].file \in DOMAIN mem[g].files
    PROVE  Works(g)
<1>1. disk \in [Groups -> Group]
  BY DEF IInv, TypeOK
<1>2. Others(g)
  BY <1>1 DEF Others
<1>3. Sound(mem[g], disk[g], run[g])
  BY RunnersHaveStates
<1>4. Recorded(mem'[g], disk[g])
  BY <1>3, RecordedSame DEF Sound
<1>5. DOMAIN mem[g].files = DOMAIN mem'[g].files
  BY DEF SameRecords
<1>6. Sound(mem[g], disk[g], run[g])'
  BY <1>4, <1>5 DEF Sound
<1>7. Honest(g)
  BY OwedSame, HonestSave DEF Due
<1> QED
  BY <1>2, <1>6, <1>7 DEF Works

LEMMA FailedWorks ==
    ASSUME IInv, NEW g \in Groups, disk' = disk,
           run[g].pc \notin {"none", "file", "end"},
           NEW final \in BOOLEAN, Failed(mem, g, final)
    PROVE  Works(g)
<1>1. mem \in [Groups -> Group] /\ run \in [Groups -> Run]
  BY DEF IInv, TypeOK
<1>2. Active(mem[g].state) /\ run[g].file \in DOMAIN mem[g].files
  BY RunnersHaveStates DEF Sound
<1>3. /\ mem' \in [Groups -> Group] /\ run' \in [Groups -> Run]
      /\ \A h \in Groups \ {g} : mem'[h] = mem[h] /\ run'[h] = run[h]
      /\ Active(mem'[g].state) /\ SameRecords(mem[g], mem'[g])
      /\ run'[g].pc \in {"sleep", "end"} /\ run'[g].file = run[g].file
  BY <1>1, <1>2, FailedMoves
<1> QED
  BY <1>2, <1>3, AttemptWorks

LEMMA WithFileType ==
    ASSUME IInv, NEW g \in Groups, NEW entry \in Entry, run[g].file \in DOMAIN mem[g].files
    PROVE  /\ WithFile(mem, g, entry) \in [Groups -> Group]
           /\ \A h \in Groups \ {g} : WithFile(mem, g, entry)[h] = mem[h]
           /\ WithFile(mem, g, entry)[g].state = mem[g].state
           /\ WithFile(mem, g, entry)[g].incoming = mem[g].incoming
           /\ DOMAIN WithFile(mem, g, entry)[g].files = DOMAIN mem[g].files
           /\ \A k \in DOMAIN mem[g].files : k # run[g].file =>
                 WithFile(mem, g, entry)[g].files[k] = mem[g].files[k]
           /\ WithFile(mem, g, entry)[g].files[run[g].file] = entry
           /\ Owed(WithFile(mem, g, entry)[g]) \subseteq
                 Owed(mem[g]) \cup (IF entry.ack THEN {entry.remote} ELSE {})
<1> DEFINE i == run[g].file
<1> DEFINE files == [mem[g].files EXCEPT ![i] = entry]
<1> DEFINE group == [mem[g] EXCEPT !.files = files]
<1>1. mem \in [Groups -> Group] /\ mem[g] \in Group /\ i \in Nat
  BY RunnersHaveStates DEF IInv, TypeOK, Run
<1>2. mem[g].files \in Seq(Entry)
  BY <1>1 DEF Group
<1>3. WithFile(mem, g, entry) = [mem EXCEPT ![g] = group]
  BY DEF WithFile
<1>4. /\ files \in Seq(Entry) /\ DOMAIN files = DOMAIN mem[g].files /\ files[i] = entry
      /\ \A k \in DOMAIN files : k # i => files[k] = mem[g].files[k]
  BY <1>1, <1>2, Placed
<1> HIDE DEF files, i
<1>5. /\ group \in Group /\ group.files = files /\ group.state = mem[g].state
      /\ group.incoming = mem[g].incoming
  BY <1>1, <1>4 DEF Group
<1> HIDE DEF group
<1>6. Owed(group) \subseteq Owed(mem[g]) \cup (IF entry.ack THEN {entry.remote} ELSE {})
  BY <1>4, <1>5 DEF Owed
<1> QED
  BY <1>1, <1>3, <1>4, <1>5, <1>6 DEF i

\* The entry that a step of the runner saves; if it fails, the runner ends.
LEMMA RecordWorks ==
    ASSUME IInv, NEW g \in Groups, NEW entry \in Entry,
           run[g].pc \notin {"none", "file", "end"},
           entry.ack => /\ entry.remote = Current(g).remote
                        /\ Current(g).ack \/ At(g, "published"),
           \/ Record(WithFile(mem, g, entry), g, NextFile(g))
           \/ Record(WithFile(mem, g, entry), g, Goto(g, "forget")) /\ entry.ack
    PROVE  Works(g)
<1> DEFINE groups == WithFile(mem, g, entry)
<1>1. run \in [Groups -> Run] /\ disk \in [Groups -> Group]
  BY DEF IInv, TypeOK
<1>2. Active(mem[g].state) /\ run[g].file \in DOMAIN mem[g].files
  BY RunnersHaveStates DEF Sound
<1>3. /\ groups \in [Groups -> Group]
      /\ \A h \in Groups \ {g} : groups[h] = mem[h]
      /\ Active(groups[g].state)
      /\ DOMAIN groups[g].files = DOMAIN mem[g].files
      /\ groups[g].files[run[g].file] = entry
      /\ Owed(groups[g]) \subseteq Owed(mem[g]) \cup (IF entry.ack THEN {entry.remote} ELSE {})
  BY <1>2, WithFileType
<1>4. \/ mem' = groups /\ disk' = groups /\ NextFile(g)
      \/ mem' = groups /\ disk' = groups /\ Goto(g, "forget") /\ entry.ack
      \/ (disk' = disk \/ disk' = groups) /\ Failed(groups, g, TRUE)
  BY DEF Record, Saved
<1> HIDE DEF groups
<1>5. Owed(groups[g]) \subseteq Due(g)
  <2>1. Current(g).ack => Current(g).remote \in Owed(mem[g])
    BY <1>2 DEF Current, Owed
  <2> QED BY <1>3, <2>1 DEF Due
<1>6. CASE mem' = groups /\ disk' = groups /\ NextFile(g)
  <2>1. Others(g)
    BY <1>1, <1>3, <1>6, NextFileMoves DEF Others
  <2>2. Sound(mem[g], disk[g], run[g])'
    BY <1>1, <1>3, <1>6, NextFileMoves DEF Sound, Recorded
  <2>3. Honest(g)
    BY <1>1, <1>6, <1>5, NextFileMoves, HonestSave
  <2> QED BY <2>1, <2>2, <2>3 DEF Works
<1>7. CASE mem' = groups /\ disk' = groups /\ Goto(g, "forget") /\ entry.ack
  <2>1. /\ run' \in [Groups -> Run]
        /\ run'[g].pc = "forget" /\ run'[g].file = run[g].file
        /\ \A h \in Groups \ {g} : run'[h] = run[h]
    BY <1>1, <1>7, GotoMoves
  <2>2. Others(g)
    BY <1>3, <1>7, <2>1 DEF Others
  <2>3. Sound(mem[g], disk[g], run[g])'
    BY <1>2, <1>3, <1>7, <2>1 DEF Sound, Recorded
  <2>4. Honest(g)
    BY <1>7, <1>5, <2>1, HonestSave
  <2> QED BY <2>2, <2>3, <2>4 DEF Works
<1>8. CASE (disk' = disk \/ disk' = groups) /\ Failed(groups, g, TRUE)
  <2>1. /\ mem' \in [Groups -> Group] /\ run' \in [Groups -> Run]
        /\ \A h \in Groups \ {g} : mem'[h] = groups[h] /\ run'[h] = run[h]
        /\ Active(mem'[g].state) /\ SameRecords(groups[g], mem'[g])
        /\ run'[g].pc = "end"
    BY <1>1, <1>2, <1>3, <1>8, FailedMoves
  <2>2. Others(g)
    BY <1>3, <1>8, <2>1, SaveOthers
  <2>3. Sound(mem[g], disk[g], run[g])'
    BY <2>1 DEF Sound
  <2>4. Owed(mem'[g]) \subseteq Due(g)
    BY <1>5, <2>1, OwedSame
  <2>5. Honest(g)
    BY <1>8, <1>5, <2>1, <2>4, HonestSave
  <2> QED BY <2>2, <2>3, <2>5 DEF Works
<1> QED
  BY <1>4, <1>6, <1>7, <1>8

LEMMA CurrentType ==
    ASSUME IInv, NEW g \in Groups, run[g].pc \notin {"none", "file", "end"}
    PROVE  run[g].file \in DOMAIN mem[g].files /\ Current(g) \in Entry
<1>1. mem[g].files \in Seq(Entry) /\ run[g].file \in DOMAIN mem[g].files
  BY RunnersHaveStates DEF Sound, Group
<1> QED
  BY <1>1 DEF Current

LEMMA RecordsWork ==
    ASSUME IInv, NEW g \in Groups, Sent(g) \/ Journal(g) \/ Received(g)
    PROVE  Works(g)
<1>1. run[g].pc \in {"delivered", "published", "forgotten"}
  BY DEF Sent, Journal, Received, At
<1>2. Current(g) \in Entry
  BY <1>1, CurrentType
<1>3. CASE Sent(g)
  <2> DEFINE entry == [Current(g) EXCEPT !.state = "completed"]
  <2>1. entry \in Entry /\ (entry.ack <=> Current(g).ack) /\ entry.remote = Current(g).remote
    BY <1>2 DEF Entry
  <2>2. Record(WithFile(mem, g, entry), g, NextFile(g))
    BY <1>3 DEF Sent
  <2> QED BY <1>1, <2>1, <2>2, RecordWorks
<1>4. CASE Journal(g)
  <2> DEFINE entry == [Current(g) EXCEPT !.state = "completed", !.ack = TRUE]
  <2>1. entry \in Entry /\ entry.ack /\ entry.remote = Current(g).remote
    BY <1>2 DEF Entry
  <2>2. Record(WithFile(mem, g, entry), g, Goto(g, "forget"))
    BY <1>4 DEF Journal, Journalled
  <2>3. At(g, "published")
    BY <1>4 DEF Journal
  <2> QED BY <1>1, <2>1, <2>2, <2>3, RecordWorks
<1>5. CASE Received(g)
  <2> DEFINE entry == [Current(g) EXCEPT !.ack = FALSE, !.remote = NoName]
  <2>1. entry \in Entry /\ ~entry.ack
    BY <1>2 DEF Entry
  <2>2. Record(WithFile(mem, g, entry), g, NextFile(g))
    BY <1>5 DEF Received, Forgotten
  <2> QED BY <1>1, <2>1, <2>2, RecordWorks
<1> QED
  BY <1>3, <1>4, <1>5

LEMMA AdvanceWorks ==
    ASSUME IInv, NEW g \in Groups, Advance(g)
    PROVE  Works(g)
<1> DEFINE i == run[g].file
<1>1. /\ run \in [Groups -> Run] /\ run[g].pc = "file" /\ i \in Nat \ {0}
      /\ mem \in [Groups -> Group] /\ mem[g].files \in Seq(Entry)
  BY RunnersHaveStates DEF IInv, TypeOK, Advance, At, Run, Group
<1>2. i <= Len(mem[g].files) => i \in DOMAIN mem[g].files
  BY <1>1
<1>3. CASE FinishGroup(g, TRUE) /\ UNCHANGED <<mem, disk>>
  BY <1>1, <1>3, FinishMoves, Resting
<1>4. CASE /\ i <= Len(mem[g].files) /\ Unacknowledged(mem[g], i)
           /\ Goto(g, "acknowledge") /\ UNCHANGED <<mem, disk>>
  BY <1>1, <1>2, <1>4, GotoMoves, Resting DEF Unacknowledged
<1>5. CASE NextFile(g) /\ UNCHANGED <<mem, disk>>
  BY <1>1, <1>5, NextFileMoves, Resting
<1>6. CASE i <= Len(mem[g].files) /\ Goto(g, "transfer") /\ Attempt(g)
  <2>1. /\ mem' \in [Groups -> Group] /\ disk' = disk
        /\ \A h \in Groups \ {g} : mem'[h] = mem[h]
        /\ Active(mem'[g].state) /\ SameRecords(mem[g], mem'[g])
    BY <1>6, AttemptMoves
  <2>2. /\ run' \in [Groups -> Run]
        /\ run'[g].pc = "transfer" /\ run'[g].file = run[g].file
        /\ \A h \in Groups \ {g} : run'[h] = run[h]
    BY <1>1, <1>6, GotoMoves
  <2> QED BY <1>1, <1>2, <1>6, <2>1, <2>2, AttemptWorks
<1> QED
  BY <1>3, <1>4, <1>5, <1>6 DEF Advance

LEMMA MovesWork ==
    ASSUME IInv, NEW g \in Groups, Put(g) \/ Receive(g) \/ Forget(g) \/ Stopped(g)
    PROVE  Works(g)
<1>1. run \in [Groups -> Run]
  BY DEF IInv, TypeOK
<1>2. UNCHANGED <<mem, disk>>
  BY DEF Put, Receive, Forget, Stopped
<1>3. CASE Put(g)
  BY <1>1, <1>2, <1>3, CurrentType, GotoMoves, Resting DEF Put, At
<1>4. CASE Receive(g)
  BY <1>1, <1>2, <1>4, CurrentType, GotoMoves, Resting DEF Receive, At
<1>5. CASE Forget(g)
  <2>1. CASE At(g, "forget") /\ Goto(g, "forgotten")
    BY <1>1, <1>2, <2>1, CurrentType, GotoMoves, Resting DEF At
  <2>2. CASE At(g, "acknowledge") /\ Goto(g, "acknowledged")
    BY <1>1, <1>2, <2>2, CurrentType, GotoMoves, Resting DEF At
  <2> QED BY <1>5, <2>1, <2>2 DEF Forget
<1>6. CASE Stopped(g)
  BY <1>1, <1>2, <1>6, FinishMoves, Resting DEF Stopped
<1> QED
  BY <1>3, <1>4, <1>5, <1>6

LEMMA FailuresWork ==
    ASSUME IInv, NEW g \in Groups, SendFails(g) \/ ReceiveFails(g) \/ ForgetFails(g)
    PROVE  Works(g)
<1>1. run \in [Groups -> Run] /\ disk' = disk
  BY DEF IInv, TypeOK, SendFails, ReceiveFails, ForgetFails
<1>2. CASE /\ run[g].pc \notin {"none", "file", "end"}
           /\ \E final \in BOOLEAN : Failed(mem, g, final)
  BY <1>1, <1>2, FailedWorks
<1>3. CASE /\ run[g].pc \notin {"none", "file", "end"}
           /\ FinishGroup(g, FALSE) /\ UNCHANGED mem
  BY <1>1, <1>3, FinishMoves, Resting
<1> QED
  BY <1>2, <1>3 DEF SendFails, ReceiveFails, ForgetFails, At

LEMMA AcknowledgedWorks ==
    ASSUME IInv, NEW g \in Groups, Acknowledged(g)
    PROVE  Works(g)
<1> DEFINE entry == [Current(g) EXCEPT !.ack = FALSE, !.remote = NoName]
<1> DEFINE groups == WithFile(mem, g, entry)
<1>1. run[g].pc = "acknowledged" /\ run \in [Groups -> Run]
  BY DEF Acknowledged, At, IInv, TypeOK
<1>2. run[g].file \in DOMAIN mem[g].files /\ Current(g) \in Entry
  BY <1>1, CurrentType
<1>3. entry \in Entry /\ ~entry.ack
  BY <1>2 DEF Entry
<1>4. Active(mem[g].state)
  BY <1>1, RunnersHaveStates
<1>5. \/ mem' = groups /\ disk' = groups /\ NextFile(g)
      \/ mem' = groups /\ (disk' = disk \/ disk' = groups) /\ FinishGroup(g, FALSE)
  BY DEF Acknowledged, Forgotten, Saved, SaveFails
<1>6. /\ groups \in [Groups -> Group]
      /\ \A h \in Groups \ {g} : groups[h] = mem[h]
      /\ Active(groups[g].state)
      /\ Owed(groups[g]) \subseteq Owed(mem[g])
  <2> HIDE DEF entry
  <2> QED BY <1>2, <1>3, <1>4, WithFileType
<1> HIDE DEF groups
<1>7. /\ run' \in [Groups -> Run] /\ \A h \in Groups \ {g} : run'[h] = run[h]
      /\ run'[g].pc = "end" \/ (run'[g].pc = "file" /\ disk' = mem')
  BY <1>1, <1>5, NextFileMoves, FinishMoves
<1>8. Others(g)
  BY <1>5, <1>6, <1>7, SaveOthers
<1>9. Sound(mem[g], disk[g], run[g])'
  BY <1>5, <1>6, <1>7 DEF Sound, Recorded
<1>10. Honest(g)
  BY <1>5, <1>6, <1>7, HonestSave DEF Due
<1> QED
  BY <1>8, <1>9, <1>10 DEF Works

LEMMA WakeWorks ==
    ASSUME IInv, NEW g \in Groups, Wake(g)
    PROVE  Works(g)
<1>1. /\ run[g].pc = "sleep" /\ run[g] \in Run /\ run \in [Groups -> Run]
      /\ run[g].file \in DOMAIN mem[g].files
  BY CurrentType, RunnersHaveStates DEF Wake, At, IInv, TypeOK
<1> DEFINE n == run[g].try + 1
<1>2. n \in Nat
  BY <1>1 DEF Run
<1> DEFINE r == [run[g] EXCEPT !.pc = "transfer", !.try = n]
<1>3. run' = [run EXCEPT ![g] = r]
  BY DEF Wake
<1> HIDE DEF n
<1>4. r \in Run /\ r.pc = "transfer" /\ r.file = run[g].file
  BY <1>1, <1>2 DEF Run
<1> HIDE DEF r
<1>5. /\ run' \in [Groups -> Run]
      /\ run'[g].pc = "transfer" /\ run'[g].file = run[g].file
      /\ \A h \in Groups \ {g} : run'[h] = run[h]
  BY <1>1, <1>3, <1>4
<1>6. /\ mem' \in [Groups -> Group] /\ disk' = disk
      /\ \A h \in Groups \ {g} : mem'[h] = mem[h]
      /\ Active(mem'[g].state) /\ SameRecords(mem[g], mem'[g])
  BY AttemptMoves DEF Wake
<1> QED
  BY <1>1, <1>5, <1>6, AttemptWorks

LEMMA EndWorks ==
    ASSUME IInv, NEW g \in Groups, End(g)
    PROVE  Works(g)
<1> DEFINE s == IF run[g].ok THEN "completed"
                ELSE IF run[g].stop THEN "cancelled" ELSE "failed"
<1> DEFINE groups == [mem EXCEPT ![g].state = s]
<1>1. mem' = groups /\ (disk' = disk \/ disk' = groups) /\ run' = [run EXCEPT ![g] = Idle]
  BY DEF End, Save, Saved, SaveFails
<1>2. mem \in [Groups -> Group] /\ run \in [Groups -> Run]
  BY DEF IInv, TypeOK
<1>3. s \in {"completed", "cancelled", "failed"}
  OBVIOUS
<1> HIDE DEF s
<1>4. /\ groups \in [Groups -> Group] /\ groups[g].files = mem[g].files
      /\ \A h \in Groups \ {g} : groups[h] = mem[h]
  BY <1>2, <1>3 DEF Group
<1>5. Idle \in Run /\ Idle.pc = "none"
  <2>1. Idle = [Idle EXCEPT !.pc = "none"]
    BY DEF Idle
  <2> QED BY <2>1, IdleType
<1>6. run' \in [Groups -> Run] /\ run'[g].pc = "none" /\ \A h \in Groups \ {g} : run'[h] = run[h]
  BY <1>1, <1>2, <1>5
<1> HIDE DEF groups
<1>7. Others(g)
  BY <1>1, <1>4, <1>6, SaveOthers
<1>8. Honest(g)
  BY <1>1, <1>4, <1>6, OwedBySameFiles, HonestSave DEF Due
<1> QED
  BY <1>6, <1>7, <1>8, Unattended DEF Works

LEMMA RunnerWorks ==
    ASSUME IInv, NEW g \in Groups, Runner(g)
    PROVE  Works(g)
BY AdvanceWorks, MovesWork, FailuresWork, RecordsWork, AcknowledgedWorks, WakeWorks,
   EndWorks DEF Runner

-----------------------------------------------------------------------------
(* The poller, the progress of incoming files, and a restart. *)

LEMMA NewReceiptType ==
    ASSUME NEW state \in {"pending", "active"}, NEW name \in Names
    PROVE  /\ NewReceipt(NewEntry(state, name)) \in Group
           /\ Owed(NewReceipt(NewEntry(state, name))) = {}
<1>1. NewEntry(state, name) \in Entry
  BY DEF NewEntry, Entry
<1>2. <<NewEntry(state, name)>> \in Seq(Entry)
  BY <1>1
<1>3. \A i \in DOMAIN <<NewEntry(state, name)>> : ~<<NewEntry(state, name)>>[i].ack
  BY DEF NewEntry
<1> QED
  BY <1>2, <1>3 DEF NewReceipt, Group, Owed

\* Nothing happens to the groups, or one is worked on.
Tended == UNCHANGED <<mem, disk, run>> \/ \E g \in Groups : Works(g)

LEMMA EventWorks ==
    ASSUME IInv, NEW name \in Names, Event(name)
    PROVE  Tended
<1>1. disk' = disk /\ run' = run
  BY DEF Event
<1>2. ASSUME NEW g \in Receipts, Fresh(g),
             mem' = [mem EXCEPT ![g] = NewReceipt(NewEntry("active", name))]
      PROVE  Tended
  <2>1. g \in Groups
    BY DEF Groups
  <2>2. run[g].pc = "none"
    BY <1>2, <2>1, FreshIsUnattended
  <2>3. mem \in [Groups -> Group] /\ disk \in [Groups -> Group] /\ run \in [Groups -> Run]
    BY DEF IInv, TypeOK
  <2>4. /\ mem' \in [Groups -> Group] /\ Owed(mem'[g]) = {}
        /\ \A h \in Groups \ {g} : mem'[h] = mem[h]
    BY <1>2, <2>1, <2>3, NewReceiptType
  <2>5. Others(g)
    BY <1>1, <2>3, <2>4 DEF Others
  <2>6. Honest(g)
    BY <1>1, <2>1, <2>2, <2>4, HonestSave DEF Due
  <2> QED BY <1>1, <2>1, <2>2, <2>5, <2>6, Unattended DEF Tended, Works
<1> QED
  BY <1>1, <1>2 DEF Event, Tended

LEMMA HandleKnownWorks ==
    ASSUME IInv, NEW name \in Names, HandleKnown(name)
    PROVE  Tended
<1>1. mem \in [Groups -> Group]
  BY DEF IInv, TypeOK
<1>2. ASSUME NEW g \in Holders(name), g \notin Running, Start(mem, g) \/ StartFails(mem, g)
      PROVE  Tended
  <2>1. g \in Groups /\ run[g].pc = "none"
    BY <1>2 DEF Holders, Present, Running
  <2> QED BY <1>1, <1>2, <2>1, StartWorks, StartFailsWorks DEF Tended
<1> QED
  BY <1>2 DEF HandleKnown, Tended

LEMMA HandleNewWorks ==
    ASSUME IInv, NEW name \in Names, HandleNew(name)
    PROVE  Tended
<1>1. ASSUME NEW g \in Receipts, Fresh(g), NEW groups,
             groups = [mem EXCEPT ![g] = NewReceipt(NewEntry("pending", name))],
             Start(groups, g) \/ StartFails(groups, g)
      PROVE  Tended
  <2>1. g \in Groups
    BY DEF Groups
  <2>2. run[g].pc = "none"
    BY <1>1, <2>1, FreshIsUnattended
  <2>3. /\ groups \in [Groups -> Group] /\ Owed(groups[g]) = {}
        /\ \A h \in Groups \ {g} : groups[h] = mem[h]
    BY <1>1, <2>1, NewReceiptType DEF IInv, TypeOK
  <2> QED BY <1>1, <2>1, <2>2, <2>3, StartWorks, StartFailsWorks DEF Tended
<1> QED
  BY <1>1 DEF HandleNew, Tended

LEMMA ReapKeeps ==
    ASSUME IInv, Reap
    PROVE  /\ mem' \in [Groups -> Group] /\ disk' \in [Groups -> Group]
           /\ run' \in [Groups -> Run]
           /\ Journalling'
<1>1. PICK overdue \in SUBSET Orphans :
        Save([g \in Groups |->
               IF g \in overdue THEN [mem[g] EXCEPT !.state = "failed"] ELSE mem[g]])
  BY DEF Reap
<1> DEFINE groups == [g \in Groups |->
               IF g \in overdue THEN [mem[g] EXCEPT !.state = "failed"] ELSE mem[g]]
<1>2. /\ mem \in [Groups -> Group] /\ disk \in [Groups -> Group]
      /\ run \in [Groups -> Run]
  BY DEF IInv, TypeOK
<1>3. mem' = groups /\ (disk' = disk \/ disk' = groups) /\ run' = run
  BY <1>1 DEF Reap, Save, Saved, SaveFails
<1>4. groups \in [Groups -> Group]
  <2>1. \A group \in Group : [group EXCEPT !.state = "failed"] \in Group
    BY DEF Group
  <2> QED BY <1>2, <2>1
<1>5. \A g \in Groups : run[g].pc # "none" => groups[g] = mem[g]
  BY DEF Orphans, Running
<1> HIDE DEF groups
<1>6. Journalling'
  <2> SUFFICES ASSUME NEW g \in Groups
               PROVE  Sound(mem[g], disk[g], run[g])'
    BY DEF Journalling
  <2>1. CASE run[g].pc = "none"
    BY <1>3, <2>1, Unattended
  <2>2. CASE run[g].pc # "none"
    <3>1. Sound(mem[g], disk[g], run[g])
      BY RunnersHaveStates
    <3>2. mem'[g] = mem[g] /\ run'[g] = run[g] /\ (disk'[g] = disk[g] \/ disk'[g] = mem[g])
      BY <1>3, <1>5, <2>2
    <3> QED BY <3>1, <3>2 DEF Sound, Recorded
  <2> QED BY <2>1, <2>2
<1> QED
  BY <1>2, <1>3, <1>4, <1>6

LEMMA RestartKeeps ==
    ASSUME IInv, Restart
    PROVE  /\ mem' \in [Groups -> Group] /\ disk' \in [Groups -> Group]
           /\ run' \in [Groups -> Run]
           /\ Journalling'
<1>1. disk \in [Groups -> Group]
  BY DEF IInv, TypeOK
<1>2. Interrupted(disk) \in [Groups -> Group]
  <2>1. \A group \in Group : [group EXCEPT !.state = "failed"] \in Group
    BY DEF Group
  <2> QED BY <1>1, <2>1 DEF Interrupted
<1>3. Idle \in Run /\ Idle.pc = "none"
  <2>1. Idle = [Idle EXCEPT !.pc = "none"]
    BY DEF Idle
  <2> QED BY <2>1, IdleType
<1>4. mem' = Interrupted(disk) /\ disk' = mem' /\ run' = [g \in Groups |-> Idle]
  BY DEF Restart, Saved
<1>5. Journalling'
  BY <1>3, <1>4, Unattended DEF Journalling
<1> QED
  BY <1>2, <1>3, <1>4, <1>5

-----------------------------------------------------------------------------
(* The invariant, and what follows from it. *)

LEMMA InitIInv == TransfersInit => IInv
<1> SUFFICES ASSUME TransfersInit
             PROVE  IInv
  OBVIOUS
<1>1. Absent \in Group /\ Idle \in Run /\ Idle.pc = "none"
  <2>1. Idle = [Idle EXCEPT !.pc = "none"]
    BY DEF Idle
  <2> QED BY <2>1, IdleType, AbsentType
<1>2. TypeOK
  BY <1>1 DEF TransfersInit, TypeOK
<1>3. Journalling
  BY <1>1, Unattended DEF TransfersInit, Journalling
<1> QED
  BY <1>2, <1>3 DEF IInv

\* Only the daemon changes what is there, and a runner that has it delete.
LEMMA WhereMoves ==
    ASSUME [TransfersNext]_transfersVars
    PROVE  \/ where' = where
           \/ \E p \in Parcels : Announce(p) \/ Arrived(p)
           \/ \E g \in Groups : Forget(g)
BY DEF TransfersNext, transfersVars, Daemon, User, Runner, Poll, Quiet, Send, RetryGroup, CancelGroup,
   Dismiss,
       Expire, Advance, Put, SendFails, Sent, Receive, ReceiveFails, Journal, Received,
       Acknowledged, ForgetFails, Wake, Stopped, End, ListWaiting, HandleKnown, HandleNew, Reap,
       Event, Restart

LEMMA WhereType ==
    ASSUME IInv, [TransfersNext]_transfersVars
    PROVE  where' \in [Parcels -> {"away", "arriving", "waiting", "deleted"}]
<1>1. where \in [Parcels -> {"away", "arriving", "waiting", "deleted"}]
  BY DEF IInv, TypeOK
<1>2. CASE \E p \in Parcels : Announce(p) \/ Arrived(p)
  BY <1>1, <1>2 DEF Announce, Arrived
<1>3. CASE \E g \in Groups : Forget(g)
  BY <1>1, <1>3 DEF Forget
<1> QED
  BY <1>1, <1>2, <1>3, WhereMoves

LEMMA StepKinds ==
    ASSUME IInv, [TransfersNext]_transfersVars
    PROVE  Tended \/ Reap \/ Restart
<1>1. CASE Daemon
  BY <1>1 DEF Tended, Daemon, Announce, Arrived, service
<1>2. CASE User
  BY <1>2, SendWorks, RetryWorks, CancelWorks, RemovalWorks DEF User, Tended
<1>3. CASE \E g \in Groups : Runner(g)
  BY <1>3, RunnerWorks DEF Tended
<1>4. CASE Poll
  <2>1. CASE ListWaiting
    BY <2>1 DEF ListWaiting, Tended
  <2>2. CASE \E n \in Names : HandleKnown(n) \/ HandleNew(n)
    BY <2>2, HandleKnownWorks, HandleNewWorks
  <2> QED BY <1>4, <2>1, <2>2 DEF Poll
<1>5. CASE \E n \in Names : Event(n)
  BY <1>5, EventWorks
<1>6. CASE UNCHANGED transfersVars
  BY <1>6 DEF transfersVars, Tended
<1> QED
  BY <1>1, <1>2, <1>3, <1>4, <1>5, <1>6 DEF TransfersNext

LEMMA NextIInv ==
    ASSUME IInv, [TransfersNext]_transfersVars
    PROVE  IInv'
<1>1. where' \in [Parcels -> {"away", "arriving", "waiting", "deleted"}]
  BY WhereType
<1>2. CASE UNCHANGED <<mem, disk, run>>
  BY <1>1, <1>2 DEF IInv, TypeOK, Journalling
<1>3. ASSUME NEW g \in Groups, Works(g)
      PROVE  IInv'
  <2>1. Journalling'
    BY <1>3, Bystanders DEF Works
  <2> QED BY <1>1, <1>3, <2>1 DEF Works, Others, IInv, TypeOK
<1>4. CASE Reap
  BY <1>1, <1>4, ReapKeeps DEF IInv, TypeOK
<1>5. CASE Restart
  BY <1>1, <1>5, RestartKeeps DEF IInv, TypeOK
<1> QED
  BY <1>2, <1>3, <1>4, <1>5, StepKinds DEF Tended

\* The inductive invariant: what a runner owes the daemon is in the history
\* file, however saves fail and other groups are saved meanwhile.
THEOREM JournallingAlways == TransfersSpec => []IInv
<1>1. IInv /\ [TransfersNext]_transfersVars => IInv'
  BY NextIInv
<1> QED BY InitIInv, <1>1, PTL DEF TransfersSpec

\* A group with a runner is active: Dismiss, Expire and Reap look at the state
\* of a group and never take one from its runner.
THEOREM RunnersActive == TransfersSpec => []RunnersAreActive
<1>1. IInv => RunnersAreActive
  BY RunnersHaveStates DEF RunnersAreActive, Running
<1> QED BY JournallingAlways, <1>1, PTL

\* "Publish and durably journal first" (run_files): whatever the daemon is told
\* to delete is in the history file as copied and not acknowledged.
THEOREM JournalledAlways == TransfersSpec => JournalledFirst
<1>1. ASSUME IInv, [TransfersNext]_transfersVars, NEW p \in Parcels,
             where[p] = "waiting", where'[p] = "deleted"
      PROVE  \E g \in Groups : \E i \in DOMAIN disk[g].files :
                disk[g].files[i].remote = NameOf[p] /\ disk[g].files[i].ack
  <2>1. where \in [Parcels -> {"away", "arriving", "waiting", "deleted"}]
    BY <1>1 DEF IInv, TypeOK
  <2>2. PICK g \in Groups : Forget(g)
    BY <1>1, <2>1, WhereMoves DEF Announce, Arrived
  <2> DEFINE i == run[g].file
  <2>3. p \in Waiting(Current(g).remote)
    BY <1>1, <2>2 DEF Forget
  <2>4. NameOf[p] = mem[g].files[i].remote
    BY <2>3 DEF Waiting, Current
  <2>5. run[g].pc \in {"forget", "acknowledge"}
    BY <2>2 DEF Forget, At
  <2>6. Sound(mem[g], disk[g], run[g])
    BY <1>1, RunnersHaveStates
  <2>7. i \in DOMAIN mem[g].files /\ mem[g].files[i].ack /\ Recorded(mem[g], disk[g])
    BY <2>5, <2>6 DEF Sound
  <2> QED BY <2>4, <2>7 DEF Recorded
<1>2. IInv /\ [TransfersNext]_transfersVars =>
        [\A p \in Parcels : where[p] = "waiting" /\ where'[p] = "deleted" =>
          \E g \in Groups : \E i \in DOMAIN disk[g].files :
             disk[g].files[i].remote = NameOf[p] /\ disk[g].files[i].ack]_transfersVars
  BY <1>1
<1> QED BY JournallingAlways, <1>2, PTL DEF TransfersSpec, JournalledFirst

-----------------------------------------------------------------------------
(* What was sent is not sent again. *)

\* A runner that pauses has a file that failed.
Sleeping ==
    \A g \in Groups :
        run[g].pc = "sleep" => mem[g].files[run[g].file].state # "completed"

\* A pause begins when an attempt failed, and an attempt begins with a file
\* that is not completed, or after a pause.
Paces(g) ==
    /\ run'[g].pc = "sleep" =>
          \/ run[g].pc = "sleep" /\ run'[g].file = run[g].file /\ mem'[g] = mem[g]
          \/ mem'[g].files[run'[g].file].state = "failed"
    /\ run'[g].pc = "transfer" /\ run[g].pc # "transfer" =>
          run[g].pc = "sleep" \/ mem[g].files[run[g].file].state # "completed"

LEMMA FailedPaces ==
    ASSUME IInv, NEW g \in Groups, run[g].pc \notin {"none", "file", "end"},
           NEW groups \in [Groups -> Group], Active(groups[g].state),
           DOMAIN groups[g].files = DOMAIN mem[g].files,
           NEW final \in BOOLEAN, Failed(groups, g, final)
    PROVE  Paces(g)
<1>1. run \in [Groups -> Run] /\ run[g].file \in DOMAIN groups[g].files
  BY CurrentType DEF IInv, TypeOK
<1>2. /\ run'[g].pc \in {"sleep", "end"} /\ run'[g].file = run[g].file
      /\ run'[g].pc = "sleep" => mem'[g].files[run[g].file].state = "failed"
  BY <1>1, FailedMoves
<1> QED
  BY <1>2 DEF Paces

LEMMA RecordPaces ==
    ASSUME IInv, NEW g \in Groups, run[g].pc \notin {"none", "file", "end"},
           NEW entry \in Entry,
           \/ Record(WithFile(mem, g, entry), g, NextFile(g))
           \/ Record(WithFile(mem, g, entry), g, Goto(g, "forget"))
    PROVE  Paces(g)
<1> DEFINE groups == WithFile(mem, g, entry)
<1>1. run \in [Groups -> Run] /\ run[g].file \in DOMAIN mem[g].files /\ Active(mem[g].state)
  BY CurrentType, RunnersHaveStates DEF IInv, TypeOK
<1>2. /\ groups \in [Groups -> Group] /\ Active(groups[g].state)
      /\ DOMAIN groups[g].files = DOMAIN mem[g].files
  BY <1>1, WithFileType
<1>3. NextFile(g) \/ Goto(g, "forget") \/ Failed(groups, g, TRUE)
  BY DEF Record
<1> HIDE DEF groups
<1>4. CASE NextFile(g) \/ Goto(g, "forget")
  BY <1>1, <1>4, NextFileMoves, GotoMoves DEF Paces
<1>5. CASE Failed(groups, g, TRUE)
  BY <1>2, <1>5, FailedPaces
<1> QED
  BY <1>3, <1>4, <1>5

LEMMA RunnerPaces ==
    ASSUME IInv, NEW g \in Groups, Runner(g)
    PROVE  Paces(g)
<1>1. run \in [Groups -> Run] /\ mem \in [Groups -> Group]
  BY DEF IInv, TypeOK
<1>2. CASE Put(g) \/ Receive(g) \/ Forget(g) \/ Stopped(g)
  BY <1>1, <1>2, GotoMoves, FinishMoves DEF Put, Receive, Forget, Stopped, Paces
<1>3. CASE SendFails(g) \/ ReceiveFails(g) \/ ForgetFails(g)
  <2>1. run[g].pc \notin {"none", "file", "end"}
    BY <1>3 DEF SendFails, ReceiveFails, ForgetFails, At
  <2>2. CASE \E final \in BOOLEAN : Failed(mem, g, final)
    BY <1>1, <2>1, <2>2, FailedPaces, RunnersHaveStates
  <2>3. CASE FinishGroup(g, FALSE)
    BY <1>1, <2>3, FinishMoves DEF Paces
  <2> QED
    BY <1>3, <2>2, <2>3 DEF SendFails, ReceiveFails, ForgetFails
<1>4. CASE Sent(g) \/ Journal(g) \/ Received(g)
  <2>1. run[g].pc \in {"delivered", "published", "forgotten"}
    BY <1>4 DEF Sent, Journal, Received, At
  <2>2. Current(g) \in Entry
    BY <2>1, CurrentType
  <2>3. \E entry \in Entry :
          \/ Record(WithFile(mem, g, entry), g, NextFile(g))
          \/ Record(WithFile(mem, g, entry), g, Goto(g, "forget"))
    <3>1. /\ [Current(g) EXCEPT !.state = "completed"] \in Entry
          /\ [Current(g) EXCEPT !.state = "completed", !.ack = TRUE] \in Entry
          /\ [Current(g) EXCEPT !.ack = FALSE, !.remote = NoName] \in Entry
      BY <2>2 DEF Entry
    <3> QED BY <1>4, <3>1 DEF Sent, Journal, Received, Journalled, Forgotten
  <2> QED
    BY <2>1, <2>3, RecordPaces
<1>5. CASE Acknowledged(g)
  BY <1>1, <1>5, NextFileMoves, FinishMoves DEF Acknowledged, Paces
<1>6. CASE Advance(g)
  <2>1. CASE FinishGroup(g, TRUE) \/ Goto(g, "acknowledge") \/ NextFile(g)
    BY <1>1, <2>1, FinishMoves, GotoMoves, NextFileMoves DEF Paces
  <2>2. CASE ~Done(mem[g], run[g].file) /\ Goto(g, "transfer")
    BY <1>1, <2>2, GotoMoves DEF Done, Paces
  <2> QED
    BY <1>6, <2>1, <2>2 DEF Advance
<1>7. CASE Wake(g)
  <2>1. run[g].pc = "sleep"
    BY <1>7 DEF Wake, At
  <2> DEFINE n == run[g].try + 1
  <2>2. run' = [run EXCEPT ![g] = [run[g] EXCEPT !.pc = "transfer", !.try = n]]
    BY <1>7 DEF Wake
  <2> HIDE DEF n
  <2>3. run'[g].pc = "transfer"
    BY <1>1, <2>2 DEF Run
  <2> QED
    BY <2>1, <2>3 DEF Paces
<1>8. CASE End(g)
  BY <1>1, <1>8 DEF End, Idle, Paces
<1> QED
  BY <1>2, <1>3, <1>4, <1>5, <1>6, <1>7, <1>8 DEF Runner

LEMMA StartPaces ==
    ASSUME NEW groups, NEW g \in Groups, run \in [Groups -> Run], run[g].pc = "none",
           Start(groups, g) \/ StartFails(groups, g)
    PROVE  Paces(g)
<1> DEFINE r == [Idle EXCEPT !.pc = "file"]
<1>1. r.pc = "file"
  BY IdleType
<1>2. run' = run \/ run' = [run EXCEPT ![g] = r]
  BY DEF Start, StartFails
<1> HIDE DEF r
<1> QED
  BY <1>1, <1>2 DEF Paces

\* Every step leaves a group alone, or is a step of it that keeps the pace.
LEMMA AllPace ==
    ASSUME IInv, [TransfersNext]_transfersVars, NEW g \in Groups
    PROVE  Paces(g)
<1>1. mem \in [Groups -> Group] /\ run \in [Groups -> Run]
  BY DEF IInv, TypeOK
<1>2. ASSUME mem'[g] = mem[g], run'[g] = run[g]
      PROVE  Paces(g)
  BY <1>2 DEF Paces
<1>3. ASSUME NEW h \in Groups, Works(h), h # g
      PROVE  Paces(g)
  BY <1>2, <1>3 DEF Works, Others
<1>4. ASSUME NEW h \in Groups, run'[h].pc = "none"
      PROVE  Paces(h)
  BY <1>4 DEF Paces
<1>5. CASE UNCHANGED transfersVars \/ Daemon \/ ListWaiting
  BY <1>2, <1>5 DEF transfersVars, Daemon, Announce, Arrived, service, ListWaiting
<1>6. CASE User
  <2>1. PICK h \in Groups : Send(h) \/ RetryGroup(h) \/ CancelGroup(h) \/ Dismiss(h) \/ Expire(h)
    BY <1>6 DEF User
  <2>2. Works(h)
    BY <2>1, SendWorks, RetryWorks, CancelWorks, RemovalWorks
  <2>3. CASE Send(h)
    <3>1. run[h].pc = "none"
      BY <2>3, FreshIsUnattended DEF Send
    <3>2. Paces(h)
      BY <1>1, <1>4, <2>3, <3>1, StartPaces DEF Send
    <3> QED BY <1>3, <2>2, <3>2
  <2>4. CASE RetryGroup(h)
    <3>1. Paces(h)
      BY <1>1, <2>4, StartPaces DEF RetryGroup, Running
    <3> QED BY <1>3, <2>2, <3>1
  <2>5. CASE CancelGroup(h)
    <3>1. mem' = mem /\ run'[h].pc = run[h].pc /\ run'[h].file = run[h].file
      BY <1>1, <2>5 DEF CancelGroup, Save, Saved, SaveFails, Run
    <3>2. Paces(h)
      BY <3>1 DEF Paces
    <3> QED BY <1>3, <2>2, <3>2
  <2>6. CASE Dismiss(h) \/ Expire(h)
    <3>1. ~Active(mem[h].state) /\ run' = run
      BY <2>6 DEF Dismiss, Expire, Active
    <3>2. Paces(h)
      BY <1>4, <3>1, RunnersHaveStates
    <3> QED BY <1>3, <2>2, <3>2
  <2> QED BY <2>1, <2>3, <2>4, <2>5, <2>6
<1>7. CASE \E h \in Groups : Runner(h)
  BY <1>3, <1>7, RunnerWorks, RunnerPaces
<1>8. ASSUME NEW name \in Names, HandleKnown(name)
      PROVE  Paces(g)
  <2>1. CASE UNCHANGED <<mem, disk, run>>
    BY <1>2, <2>1
  <2>2. ASSUME NEW h \in Holders(name), h \notin Running,
               Start(mem, h) \/ StartFails(mem, h)
        PROVE  Paces(g)
    <3>1. h \in Groups /\ run[h].pc = "none"
      BY <2>2 DEF Holders, Present, Running
    <3>2. Works(h)
      BY <1>1, <2>2, <3>1, StartWorks, StartFailsWorks
    <3>3. Paces(h)
      BY <1>1, <2>2, <3>1, StartPaces
    <3> QED BY <1>3, <3>1, <3>2, <3>3
  <2> QED BY <1>8, <2>1, <2>2 DEF HandleKnown
<1>9. ASSUME NEW name \in Names, HandleNew(name) \/ Event(name)
      PROVE  Paces(g)
  <2>1. CASE UNCHANGED run /\ run[g].pc = "none"
    BY <1>4, <2>1
  <2>2. CASE UNCHANGED <<mem, run>>
    BY <1>2, <2>2
  <2>3. ASSUME NEW h \in Receipts, Fresh(h), UNCHANGED run,
               mem' = [mem EXCEPT ![h] = NewReceipt(NewEntry("active", name))]
        PROVE  Paces(g)
    <3>1. h \in Groups
      BY DEF Groups
    <3>2. CASE h = g
      BY <2>1, <2>3, <3>1, <3>2, FreshIsUnattended
    <3>3. CASE h # g
      BY <1>1, <1>2, <2>3, <3>3
    <3> QED BY <3>2, <3>3
  <2>4. ASSUME NEW h \in Receipts, Fresh(h), NEW groups,
               groups = [mem EXCEPT ![h] = NewReceipt(NewEntry("pending", name))],
               Start(groups, h) \/ StartFails(groups, h)
        PROVE  Paces(g)
    <3>1. h \in Groups
      BY DEF Groups
    <3>2. run[h].pc = "none"
      BY <2>4, <3>1, FreshIsUnattended
    <3>3. CASE h = g
      BY <1>1, <2>4, <3>2, <3>3, StartPaces
    <3>4. CASE h # g
      <4>1. groups \in [Groups -> Group] /\ groups[g] = mem[g]
        BY <1>1, <2>4, <3>1, <3>4, NewReceiptType
      <4>2. mem'[g] = mem[g]
        <5>1. Started(groups, h)[g] = groups[g]
          BY <3>1, <3>4, <4>1, StartedType
        <5> QED BY <2>4, <4>1, <5>1 DEF Start, StartFails, Saved, SaveFails
      <4>3. run'[g] = run[g]
        BY <1>1, <2>4, <3>4 DEF Start, StartFails
      <4> QED BY <1>2, <4>2, <4>3
    <3> QED BY <3>3, <3>4
  <2> QED
    BY <1>9, <2>2, <2>3, <2>4 DEF HandleNew, Event
<1>10. CASE Reap
  <2>1. run' = run /\ (run[g].pc # "none" => mem'[g] = mem[g])
    BY <1>1, <1>10 DEF Reap, Save, Saved, SaveFails, Orphans, Running
  <2> QED BY <1>2, <1>4, <2>1
<1>11. CASE Restart
  BY <1>4, <1>11 DEF Restart, Idle
<1> QED
  BY <1>5, <1>6, <1>7, <1>8, <1>9, <1>10, <1>11 DEF TransfersNext, Poll

LEMMA SleepingAlways == TransfersSpec => [](IInv /\ Sleeping)
<1>1. TransfersInit => Sleeping
  BY DEF TransfersInit, Sleeping, Idle
<1>2. IInv /\ Sleeping /\ [TransfersNext]_transfersVars => Sleeping'
  BY AllPace DEF Paces, Sleeping
<1> QED BY JournallingAlways, <1>1, <1>2, PTL DEF TransfersSpec

\* A retry sends only what was not sent: whatever is cancelled, retried or not
\* saved, no file is attempted that is recorded as completed.
THEOREM SentAlways == TransfersSpec => SentOnce
<1>1. IInv /\ Sleeping /\ [TransfersNext]_transfersVars =>
        [\A g \in Groups : run'[g].pc = "transfer" /\ run[g].pc # "transfer" =>
           mem[g].files[run[g].file].state # "completed"]_transfersVars
  BY AllPace DEF Paces, Sleeping
<1> QED BY SleepingAlways, <1>1, PTL DEF TransfersSpec, SentOnce

-----------------------------------------------------------------------------
(* Nothing is lost while no two files have the same name.                  *)

OwnNames == \A p, q \in Parcels : NameOf[p] = NameOf[q] => p = q

Copied(name) == \A p \in Parcels : NameOf[p] = name => copies[p] > 0

Accounted ==
    /\ copies \in [Parcels -> Nat]
    /\ \A g \in Groups : \A n \in Due(g) : Copied(n)
    /\ NothingLost

LEMMA CopiesMove ==
    ASSUME [TransfersNext]_transfersVars
    PROVE  \/ copies' = copies
           \/ \E g \in Groups : Receive(g)
BY DEF TransfersNext, transfersVars, Daemon, Announce, Arrived, User, Runner, Poll, Quiet, Send,
   RetryGroup,
       CancelGroup, Dismiss, Expire, Advance, Put, SendFails, Sent, ReceiveFails, Journal,
       Forget, Received, Acknowledged, ForgetFails, Wake, Stopped, End, ListWaiting, HandleKnown,
       HandleNew, Reap, Event, Restart

LEMMA CopiesGrow ==
    ASSUME copies \in [Parcels -> Nat], [TransfersNext]_transfersVars
    PROVE  /\ copies' \in [Parcels -> Nat]
           /\ \A p \in Parcels : copies[p] > 0 => copies'[p] > 0
<1>1. CASE copies' = copies
  BY <1>1
<1>2. ASSUME NEW g \in Groups, Receive(g)
      PROVE  /\ copies' \in [Parcels -> Nat]
             /\ \A p \in Parcels : copies[p] > 0 => copies'[p] > 0
  <2>1. PICK p \in Parcels : copies' = [copies EXCEPT ![p] = copies[p] + 1]
    BY <1>2 DEF Receive, Waiting
  <2>2. copies[p] + 1 \in Nat /\ copies[p] + 1 > 0
    OBVIOUS
  <2> QED BY <2>1, <2>2
<1> QED
  BY <1>1, <1>2, CopiesMove

\* What Receive publishes is a copy of the one file of that name.
LEMMA ReceiveCopies ==
    ASSUME OwnNames, copies \in [Parcels -> Nat], NEW g \in Groups, Receive(g)
    PROVE  Copied(Current(g).remote)'
<1>1. PICK p \in Waiting(Current(g).remote) : copies' = [copies EXCEPT ![p] = copies[p] + 1]
  BY DEF Receive
<1>2. p \in Parcels /\ NameOf[p] = Current(g).remote
  BY DEF Waiting
<1>3. copies'[p] = copies[p] + 1 /\ copies[p] \in Nat
  BY <1>1, <1>2
<1>4. copies'[p] > 0
  BY <1>3
<1>5. Current(g)' = Current(g)
  BY DEF Receive, Goto, Current
<1>6. \A q \in Parcels : NameOf[q] = Current(g).remote => q = p
  BY <1>2 DEF OwnNames
<1> HIDE DEF Current
<1> QED
  BY <1>4, <1>5, <1>6 DEF Copied

\* What was copied stays copied, whatever the next step owes of it.
LEMMA DueIsCopied ==
    ASSUME OwnNames, IInv, Accounted, [TransfersNext]_transfersVars, NEW h \in Groups
    PROVE  \A n \in Due(h)' : Copied(n)'
<1>1. \A n : Copied(n) => Copied(n)'
  BY CopiesGrow DEF Accounted, Copied
<1>2. \A g \in Groups : \A n \in Due(g) : Copied(n)
  BY DEF Accounted
<1>3. CASE UNCHANGED <<mem, disk, run>>
  BY <1>1, <1>2, <1>3 DEF Due, At, Current
<1>4. CASE Works(h)
  <2>1. Owed(mem'[h]) \subseteq Due(h) /\ Owed(disk'[h]) \subseteq Due(h)
    BY <1>4 DEF Works, Honest
  <2>2. ASSUME run'[h].pc = "published"
        PROVE  Copied(Current(h).remote)'
    <3>1. CASE Receive(h)
      BY <3>1, ReceiveCopies DEF Accounted
    <3>2. CASE run[h].pc = "published" /\ run'[h].file = run[h].file /\ mem'[h] = mem[h]
      <4>1. Current(h)' = Current(h)
        BY <3>2 DEF Current
      <4>2. Current(h).remote \in Due(h)
        BY <3>2 DEF Due, At
      <4> QED BY <1>1, <1>2, <4>1, <4>2
    <3> QED BY <1>4, <2>2, <3>1, <3>2 DEF Works, Honest
  <2> QED BY <1>1, <1>2, <2>1, <2>2 DEF Due, At
<1>5. ASSUME NEW g \in Groups, g # h, Works(g)
      PROVE  \A n \in Due(h)' : Copied(n)'
  <2>1. /\ mem'[h] = mem[h] /\ run'[h] = run[h]
        /\ disk'[h] = disk[h] \/ disk'[h] = mem[h]
    BY <1>5 DEF Works, Others
  <2> QED BY <1>1, <1>2, <2>1 DEF Due, At, Current
<1>6. CASE Reap
  <2>1. /\ mem \in [Groups -> Group] /\ run' = run
        /\ mem'[h].files = mem[h].files
        /\ disk'[h] = disk[h] \/ disk'[h].files = mem[h].files
    <3>1. PICK overdue \in SUBSET Orphans :
            Save([g \in Groups |->
                   IF g \in overdue THEN [mem[g] EXCEPT !.state = "failed"] ELSE mem[g]])
      BY <1>6 DEF Reap
    <3>2. mem \in [Groups -> Group]
      BY DEF IInv, TypeOK
    <3>3. [mem[h] EXCEPT !.state = "failed"].files = mem[h].files
      BY <3>2 DEF Group
    <3> QED BY <1>6, <3>1, <3>2, <3>3 DEF Reap, Save, Saved, SaveFails
  <2>2. Owed(mem'[h]) = Owed(mem[h]) /\ (disk'[h] = disk[h] \/ Owed(disk'[h]) = Owed(mem[h]))
    BY <2>1, OwedBySameFiles
  <2> QED BY <1>1, <1>2, <2>1, <2>2 DEF Due, At, Current
<1>7. CASE Restart
  <2>1. mem' = Interrupted(disk) /\ disk' = mem' /\ run'[h] = Idle
    BY <1>7 DEF Restart, Saved
  <2>2. disk \in [Groups -> Group]
    BY DEF IInv, TypeOK
  <2>3. [disk[h] EXCEPT !.state = "failed"].files = disk[h].files
    BY <2>2 DEF Group
  <2>4. mem'[h].files = disk[h].files
    BY <2>1, <2>3 DEF Interrupted
  <2>5. Owed(mem'[h]) = Owed(disk[h]) /\ Owed(disk'[h]) = Owed(disk[h])
    BY <2>1, <2>4, OwedBySameFiles
  <2>6. run'[h].pc # "published"
    BY <2>1 DEF Idle
  <2> QED BY <1>1, <1>2, <2>5, <2>6 DEF Due, At
<1> QED
  BY <1>3, <1>4, <1>5, <1>6, <1>7, StepKinds DEF Tended

LEMMA NextAccounted ==
    ASSUME OwnNames, IInv, Accounted, [TransfersNext]_transfersVars
    PROVE  Accounted'
<1>1. copies' \in [Parcels -> Nat] /\ \A p \in Parcels : copies[p] > 0 => copies'[p] > 0
  BY CopiesGrow DEF Accounted
<1>2. ASSUME NEW p \in Parcels, where'[p] = "deleted"
      PROVE  copies'[p] > 0
  <2>1. where \in [Parcels -> {"away", "arriving", "waiting", "deleted"}]
    BY DEF IInv, TypeOK
  <2>2. CASE where[p] = "deleted"
    BY <1>1, <2>2 DEF Accounted, NothingLost
  <2>3. CASE where[p] # "deleted"
    <3>1. PICK g \in Groups : Forget(g)
      BY <1>2, <2>1, <2>3, WhereMoves DEF Announce, Arrived
    <3>2. NameOf[p] = Current(g).remote
      BY <1>2, <2>3, <3>1 DEF Forget, Waiting
    <3>3. run[g].file \in DOMAIN mem[g].files /\ Current(g).ack
      BY <3>1, RunnersHaveStates DEF Forget, At, Sound, Current
    <3>4. Current(g).remote \in Due(g)
      BY <3>3 DEF Due, Owed, Current
    <3>5. Copied(Current(g).remote)
      BY <3>4 DEF Accounted
    <3> QED BY <1>1, <3>2, <3>5 DEF Copied
  <2> QED BY <2>2, <2>3
<1>3. NothingLost'
  BY <1>2 DEF NothingLost
<1> QED
  BY <1>1, <1>3, DueIsCopied DEF Accounted

LEMMA InitAccounted == TransfersInit => Accounted
<1> SUFFICES ASSUME TransfersInit
             PROVE  Accounted
  OBVIOUS
<1>1. \A g \in Groups : Due(g) = {}
  BY AbsentType DEF TransfersInit, Due, At, Idle
<1>2. copies \in [Parcels -> Nat] /\ NothingLost
  BY DEF TransfersInit, NothingLost
<1> QED
  BY <1>1, <1>2 DEF Accounted

\* While no two files have the same name, the daemon deletes nothing that was
\* not put into Downloads, whatever fails, crashes or is retried: what goes wrong
\* in MCTransfersReuse takes a name that is used again.
THEOREM OwnNamesLoseNothing == OwnNames => (TransfersSpec => []NothingLost)
<1> SUFFICES ASSUME OwnNames
             PROVE  TransfersSpec => []NothingLost
  OBVIOUS
<1>1. IInv /\ Accounted /\ [TransfersNext]_transfersVars => Accounted'
  BY NextAccounted
<1>2. Accounted => NothingLost
  BY DEF Accounted
<1> QED BY JournallingAlways, InitAccounted, <1>1, <1>2, PTL DEF TransfersSpec

-----------------------------------------------------------------------------
(* Every copy is accounted for, whether or not files share names.          *)

\* A received file is a group of its own, only such a group owes an
\* acknowledgement, and no two groups have the same name.
Tidy(groups) ==
    /\ \A g \in Groups :
          /\ groups[g].incoming => DOMAIN groups[g].files = {1}
          /\ \A i \in DOMAIN groups[g].files : groups[g].files[i].ack => groups[g].incoming
    /\ \A g, h \in Groups : \A n \in Names :
          Holds(groups[g], n) /\ Holds(groups[h], n) => g = h

\* A runner receives and deletes for a received file only, and attempts no
\* copy that it owes an acknowledgement for.
Posted(group, r) ==
    /\ r.pc \in {"published", "forget", "forgotten", "acknowledge", "acknowledged"} =>
          group.incoming
    /\ group.incoming /\ r.pc \in {"transfer", "sleep"} => ~group.files[r.file].ack

Orderly ==
    /\ Tidy(mem) /\ Tidy(disk)
    /\ \A g \in Groups : Posted(mem[g], run[g])

\* The group knows that the file it has of this name was copied.
Knows(group, r, n) ==
    /\ group.incoming
    /\ \E i \in DOMAIN group.files :
          /\ group.files[i].remote = n
          /\ group.files[i].ack \/ (r.pc = "published" /\ r.file = i)

\* The daemon has deleted the file of this name, for the runner.
Leaves(group, r, n) ==
    r.pc \in {"forgotten", "acknowledged"} /\ group.files[r.file].remote = n

Known(n) == \E g \in Groups : Knows(mem[g], run[g], n)
Left(n) == \E g \in Groups : Leaves(mem[g], run[g], n)

\* What may be said of the copies of a file.
Balanced(p) ==
    /\ copies[p] \in Nat
    /\ copies[p] <= 1 + restarts + removals
    /\ where[p] \in {"away", "arriving"} => copies[p] = 0
    /\ where[p] = "waiting" /\ Left(NameOf[p]) => copies[p] = 0
    /\ where[p] = "waiting" => copies[p] <= restarts + removals \/ Known(NameOf[p])

\* A file that waits at the daemon was copied by nobody who forgot about it,
\* but for crashes and removals.
Ledger ==
    /\ restarts \in Nat /\ removals \in Nat /\ copies \in [Parcels -> Nat]
    /\ \A p \in Parcels : Balanced(p)

CInv == IInv /\ Orderly /\ Ledger

\* Groups whose records shrink stay tidy.
Shrinks(group, other) ==
    \/ ~other.incoming /\ other.files = << >>
    \/ /\ other.incoming = group.incoming
       /\ DOMAIN other.files = DOMAIN group.files
       /\ \A i \in DOMAIN group.files :
             /\ other.files[i].ack => group.files[i].ack \/ group.incoming
             /\ other.files[i].remote \in {group.files[i].remote, NoName}

LEMMA TidyShrinks ==
    ASSUME NEW a, NEW b, Tidy(a), \A g \in Groups : Shrinks(a[g], b[g])
    PROVE  Tidy(b)
<1>1. ASSUME NEW g \in Groups
      PROVE  /\ b[g].incoming => DOMAIN b[g].files = {1}
             /\ \A i \in DOMAIN b[g].files : b[g].files[i].ack => b[g].incoming
  <2>1. CASE ~b[g].incoming /\ b[g].files = << >>
    <3>1. DOMAIN b[g].files = {}
      BY <2>1
    <3> QED BY <2>1, <3>1
  <2> QED BY <2>1 DEF Shrinks, Tidy
<1>2. ASSUME NEW g \in Groups, NEW n \in Names, Holds(b[g], n)
      PROVE  Holds(a[g], n)
  <2>1. NoName \notin Names
    BY TransfersAssumption
  <2> QED BY <1>2, <2>1 DEF Shrinks, Holds
<1> QED
  BY <1>1, <1>2 DEF Tidy

LEMMA SameShrinks ==
    ASSUME NEW group, NEW other, SameRecords(group, other)
    PROVE  Shrinks(group, other)
BY DEF SameRecords, Shrinks

LEMMA SameSelf == ASSUME NEW group PROVE SameRecords(group, group)
BY DEF SameRecords

\* A group takes a new name that no other has.
LEMMA TidyNew ==
    ASSUME NEW a \in [Groups -> Group], Tidy(a), NEW g \in Groups, NEW group,
           group.incoming => DOMAIN group.files = {1},
           \A i \in DOMAIN group.files : ~group.files[i].ack,
           \A n \in Names : \A h \in Groups : Holds(group, n) => ~Holds(a[h], n)
    PROVE  Tidy([a EXCEPT ![g] = group])
<1> DEFINE b == [a EXCEPT ![g] = group]
<1>1. b[g] = group /\ \A h \in Groups \ {g} : b[h] = a[h]
  OBVIOUS
<1> HIDE DEF b
<1>2. \A h \in Groups :
          /\ b[h].incoming => DOMAIN b[h].files = {1}
          /\ \A i \in DOMAIN b[h].files : b[h].files[i].ack => b[h].incoming
  BY <1>1 DEF Tidy
<1>3. \A h, k \in Groups : \A n \in Names : Holds(b[h], n) /\ Holds(b[k], n) => h = k
  BY <1>1 DEF Tidy
<1> QED
  BY <1>2, <1>3 DEF Tidy, b

-----------------------------------------------------------------------------
(* What a step on one group has to establish for the ledger. *)

Filed(g) ==
    /\ Tidy(mem)' /\ Tidy(disk)'
    /\ Posted(mem[g], run[g])'
    /\ \A n \in Names :
          /\ Knows(mem[g], run[g], n) => Knows(mem[g], run[g], n)' \/ Leaves(mem[g], run[g], n)
          /\ Leaves(mem[g], run[g], n)' => Leaves(mem[g], run[g], n)

\* What happens to the groups only leaves the ledger balanced.
LEMMA LedgerStays ==
    ASSUME Ledger, UNCHANGED <<where, copies, restarts, removals>>,
           \A n \in Names : Known(n) => Known(n)' \/ Left(n),
           \A n \in Names : Left(n)' => Left(n)
    PROVE  Ledger'
<1>1. ASSUME NEW p \in Parcels
      PROVE  Balanced(p)'
  <2>1. NameOf[p] \in Names
    BY TransfersAssumption
  <2>2. Balanced(p) /\ restarts \in Nat /\ removals \in Nat
    BY DEF Ledger
  <2>3. copies[p] = 0 => copies[p] <= restarts + removals
    BY <2>2
  <2> QED BY <2>1, <2>2, <2>3 DEF Balanced
<1> QED
  BY <1>1 DEF Ledger

LEMMA FiledKeeps ==
    ASSUME CInv, NEW g \in Groups, Filed(g),
           \A h \in Groups \ {g} : mem'[h] = mem[h] /\ run'[h] = run[h],
           UNCHANGED <<where, copies, restarts, removals>>
    PROVE  (Orderly /\ Ledger)'
<1>1. \A h \in Groups \ {g} : mem'[h] = mem[h] /\ run'[h] = run[h]
  OBVIOUS
<1>2. Orderly'
  BY <1>1 DEF Filed, Orderly, CInv
<1>3. ASSUME NEW n \in Names, Known(n)
      PROVE  Known(n)' \/ Left(n)
  <2>1. PICK h \in Groups : Knows(mem[h], run[h], n)
    BY <1>3 DEF Known
  <2>2. CASE h = g
    BY <2>1, <2>2 DEF Filed, Known, Left
  <2>3. CASE h # g
    BY <1>1, <2>1, <2>3 DEF Known
  <2> QED BY <2>2, <2>3
<1>4. ASSUME NEW n \in Names, Left(n)'
      PROVE  Left(n)
  <2>1. PICK h \in Groups : Leaves(mem[h], run[h], n)'
    BY <1>4 DEF Left
  <2>2. CASE h = g
    BY <2>1, <2>2 DEF Filed, Left
  <2>3. CASE h # g
    BY <1>1, <2>1, <2>3 DEF Left
  <2> QED BY <2>2, <2>3
<1> QED
  BY <1>2, <1>3, <1>4, LedgerStays DEF CInv

\* Groups of which all but g are as they are, and g has the same records.
Kin(groups, g) ==
    /\ \A h \in Groups \ {g} : groups[h] = mem[h]
    /\ SameRecords(mem[g], groups[g])

LEMMA KinTidy ==
    ASSUME Tidy(mem), NEW g \in Groups, NEW groups, Kin(groups, g)
    PROVE  Tidy(groups)
<1>1. \A h \in Groups : Shrinks(mem[h], groups[h])
  BY SameShrinks, SameSelf DEF Kin
<1> QED
  BY <1>1, TidyShrinks

\* The runner moves without a copy being made, recorded or deleted.
LEMMA KinFiled ==
    ASSUME CInv, NEW g \in Groups, Kin(mem', g), disk' = disk \/ Kin(disk', g),
           Sound(mem[g], disk[g], run[g])', Posted(mem[g], run[g])',
           run[g].pc = "published" => run'[g].pc = "published" /\ run'[g].file = run[g].file,
           run'[g].pc \in {"forgotten", "acknowledged"} =>
              run[g].pc = run'[g].pc /\ run'[g].file = run[g].file
    PROVE  Filed(g)
<1>1. Tidy(mem) /\ Tidy(disk) /\ SameRecords(mem[g], mem'[g])
  BY DEF CInv, Orderly, Kin
<1>2. Tidy(mem')
  BY <1>1, KinTidy
<1>3. Tidy(disk')
  BY <1>1, KinTidy
<1>4. ASSUME NEW n \in Names
      PROVE  /\ Knows(mem[g], run[g], n) => Knows(mem'[g], run'[g], n)
             /\ Leaves(mem'[g], run'[g], n) => Leaves(mem[g], run[g], n)
  <2>1. Leaves(mem'[g], run'[g], n) => run'[g].file \in DOMAIN mem'[g].files
    BY DEF Sound, Leaves
  <2> QED BY <1>1, <2>1 DEF SameRecords, Knows, Leaves
<1> QED
  BY <1>2, <1>3, <1>4 DEF Filed

-----------------------------------------------------------------------------
(* The steps of one group, again. *)

LEMMA StartedKin ==
    ASSUME IInv, NEW g \in Groups
    PROVE  Kin(Started(mem, g), g)
BY StartedType DEF IInv, TypeOK, Kin

LEMMA ResumeFiled ==
    ASSUME CInv, NEW g \in Groups, run[g].pc = "none", Works(g),
           Start(mem, g) \/ StartFails(mem, g)
    PROVE  Filed(g)
<1>1. Kin(Started(mem, g), g) /\ run \in [Groups -> Run]
  BY StartedKin DEF CInv, IInv, TypeOK
<1>2. mem' = Started(mem, g) /\ (disk' = disk \/ disk' = Started(mem, g))
  BY DEF Start, StartFails, Saved, SaveFails
<1>3. run'[g].pc \in {"none", "file"}
  BY <1>1, IdleType DEF Start, StartFails
<1>4. Posted(mem[g], run[g])'
  BY <1>3 DEF Posted
<1> QED
  BY <1>1, <1>2, <1>3, <1>4, KinFiled DEF Works

LEMMA MemKin ==
    ASSUME NEW g \in Groups
    PROVE  Kin(mem, g)
BY SameSelf DEF Kin

LEMMA CancelFiled ==
    ASSUME CInv, NEW g \in Groups, Works(g), CancelGroup(g)
    PROVE  Filed(g)
<1>1. mem' = mem /\ (disk' = disk \/ disk' = mem) /\ run' = [run EXCEPT ![g].stop = TRUE]
  BY DEF CancelGroup, Save, Saved, SaveFails
<1>2. run \in [Groups -> Run]
  BY DEF CInv, IInv, TypeOK
<1>3. run'[g].pc = run[g].pc /\ run'[g].file = run[g].file
  BY <1>1, <1>2 DEF Run
<1>4. Posted(mem[g], run[g])'
  BY <1>1, <1>3 DEF CInv, Orderly, Posted
<1> QED
  BY <1>1, <1>3, <1>4, MemKin, KinFiled DEF Works

LEMMA RestFiled ==
    ASSUME CInv, NEW g \in Groups, Works(g), UNCHANGED <<mem, disk>>,
           run[g].pc # "published",
           run'[g].pc \in {"file", "delivered", "end"}
    PROVE  Filed(g)
<1>1. Posted(mem[g], run[g])'
  BY DEF Posted
<1> QED
  BY <1>1, MemKin, KinFiled DEF Works

\* What remains the same when an attempt begins.
LEMMA AttemptFiled ==
    ASSUME CInv, NEW g \in Groups, Works(g), Attempt(g),
           run[g].pc \in {"file", "sleep"},
           run[g].file \in DOMAIN mem[g].files,
           mem[g].incoming => ~mem[g].files[run[g].file].ack,
           run'[g].pc = "transfer" /\ run'[g].file = run[g].file
    PROVE  Filed(g)
<1>1. /\ disk' = disk
      /\ \A h \in Groups \ {g} : mem'[h] = mem[h]
      /\ SameRecords(mem[g], mem'[g])
  BY AttemptMoves DEF CInv
<1>2. Kin(mem', g)
  BY <1>1 DEF Kin
<1>3. Posted(mem[g], run[g])'
  BY <1>1 DEF Posted, SameRecords
<1> QED
  BY <1>1, <1>2, <1>3, KinFiled DEF Works

LEMMA AdvanceFiled ==
    ASSUME CInv, NEW g \in Groups, Works(g), Advance(g)
    PROVE  Filed(g)
<1> DEFINE i == run[g].file
<1>1. /\ run \in [Groups -> Run] /\ run[g].pc = "file" /\ i \in Nat \ {0}
      /\ mem[g].files \in Seq(Entry) /\ Tidy(mem)
  BY RunnersHaveStates DEF CInv, Orderly, IInv, TypeOK, Advance, At, Run, Group
<1>2. i <= Len(mem[g].files) => i \in DOMAIN mem[g].files
  BY <1>1
<1>3. CASE (FinishGroup(g, TRUE) \/ NextFile(g)) /\ UNCHANGED <<mem, disk>>
  BY <1>1, <1>3, FinishMoves, NextFileMoves, RestFiled
<1>4. CASE /\ i <= Len(mem[g].files) /\ Unacknowledged(mem[g], i)
           /\ Goto(g, "acknowledge") /\ UNCHANGED <<mem, disk>>
  <2>1. run'[g].pc = "acknowledge" /\ run'[g].file = run[g].file
    BY <1>1, <1>4, GotoMoves
  <2>2. mem[g].incoming
    BY <1>1, <1>2, <1>4 DEF Tidy, Unacknowledged
  <2>3. Posted(mem[g], run[g])'
    BY <1>4, <2>1, <2>2 DEF Posted
  <2> QED
    BY <1>1, <1>4, <2>1, <2>3, MemKin, KinFiled DEF Works
<1>5. CASE /\ i <= Len(mem[g].files) /\ ~Unacknowledged(mem[g], i)
           /\ Goto(g, "transfer") /\ Attempt(g)
  <2>1. run'[g].pc = "transfer" /\ run'[g].file = run[g].file
    BY <1>1, <1>5, GotoMoves
  <2> QED
    BY <1>1, <1>2, <1>5, <2>1, AttemptFiled DEF Unacknowledged
<1> QED
  BY <1>3, <1>4, <1>5 DEF Advance

LEMMA WakeFiled ==
    ASSUME CInv, NEW g \in Groups, Works(g), Wake(g)
    PROVE  Filed(g)
<1>1. run[g].pc = "sleep" /\ run \in [Groups -> Run] /\ Attempt(g)
  BY DEF Wake, At, CInv, IInv, TypeOK
<1>2. run[g].file \in DOMAIN mem[g].files
  BY <1>1, CurrentType DEF CInv
<1>3. mem[g].incoming => ~mem[g].files[run[g].file].ack
  BY <1>1 DEF CInv, Orderly, Posted
<1> DEFINE n == run[g].try + 1
<1>4. run' = [run EXCEPT ![g] = [run[g] EXCEPT !.pc = "transfer", !.try = n]]
  BY DEF Wake
<1> HIDE DEF n
<1>5. run'[g].pc = "transfer" /\ run'[g].file = run[g].file
  BY <1>1, <1>4 DEF Run
<1> QED
  BY <1>1, <1>2, <1>3, <1>5, AttemptFiled

\* The error of an attempt, after groups with the same records may be saved.
LEMMA FailedFiled ==
    ASSUME CInv, NEW g \in Groups, Works(g),
           NEW groups \in [Groups -> Group], Kin(groups, g), Active(groups[g].state),
           disk' = disk \/ disk' = groups,
           run[g].pc \notin {"none", "file", "published", "end"},
           NEW final \in BOOLEAN, Failed(groups, g, final)
    PROVE  Filed(g)
<1>1. run \in [Groups -> Run] /\ run[g].file \in DOMAIN mem[g].files
  BY CurrentType DEF CInv, IInv, TypeOK
<1>2. run[g].file \in DOMAIN groups[g].files
  BY <1>1 DEF Kin, SameRecords
<1>3. /\ \A h \in Groups \ {g} : mem'[h] = groups[h]
      /\ SameRecords(groups[g], mem'[g])
      /\ run'[g].pc \in {"sleep", "end"} /\ run'[g].file = run[g].file
      /\ run'[g].pc = "sleep" => ~groups[g].files[run[g].file].ack
  BY <1>1, <1>2, FailedMoves
<1>4. Kin(mem', g)
  BY <1>3 DEF Kin, SameRecords
<1>5. Posted(mem[g], run[g])'
  BY <1>2, <1>3 DEF Posted, SameRecords
<1> QED
  BY <1>3, <1>4, <1>5, KinFiled DEF Works

LEMMA FailuresFiled ==
    ASSUME CInv, NEW g \in Groups, Works(g), SendFails(g) \/ ReceiveFails(g) \/ ForgetFails(g)
    PROVE  Filed(g)
<1>1. run \in [Groups -> Run] /\ mem \in [Groups -> Group] /\ disk' = disk
  BY DEF CInv, IInv, TypeOK, SendFails, ReceiveFails, ForgetFails
<1>2. run[g].pc \in {"transfer", "delivered", "forget", "forgotten", "acknowledge",
                     "acknowledged"}
  BY DEF SendFails, ReceiveFails, ForgetFails, At
<1>3. CASE \E final \in BOOLEAN : Failed(mem, g, final)
  <2>1. Active(mem[g].state)
    BY <1>2, RunnersHaveStates DEF CInv
  <2> QED BY <1>1, <1>2, <1>3, <2>1, MemKin, FailedFiled
<1>4. CASE FinishGroup(g, FALSE) /\ UNCHANGED mem
  BY <1>1, <1>2, <1>4, FinishMoves, RestFiled
<1> QED
  BY <1>3, <1>4 DEF SendFails, ReceiveFails, ForgetFails

LEMMA RestsFiled ==
    ASSUME CInv, NEW g \in Groups, Works(g), Put(g) \/ Stopped(g)
    PROVE  Filed(g)
<1>1. run \in [Groups -> Run] /\ UNCHANGED <<mem, disk>> /\ run[g].pc # "published"
  BY DEF CInv, IInv, TypeOK, Put, Stopped, At
<1>2. run'[g].pc \in {"delivered", "end"}
  BY <1>1, FinishMoves, GotoMoves DEF Put, Stopped
<1> QED
  BY <1>1, <1>2, RestFiled

LEMMA EndFiled ==
    ASSUME CInv, NEW g \in Groups, Works(g), End(g)
    PROVE  Filed(g)
<1> DEFINE s == IF run[g].ok THEN "completed"
                ELSE IF run[g].stop THEN "cancelled" ELSE "failed"
<1> DEFINE groups == [mem EXCEPT ![g].state = s]
<1>1. mem' = groups /\ (disk' = disk \/ disk' = groups) /\ run' = [run EXCEPT ![g] = Idle]
  BY DEF End, Save, Saved, SaveFails
<1>2. mem \in [Groups -> Group] /\ run \in [Groups -> Run] /\ run[g].pc = "end"
  BY DEF CInv, IInv, TypeOK, End, At
<1> HIDE DEF s
<1>3. /\ groups[g].files = mem[g].files /\ groups[g].incoming = mem[g].incoming
      /\ \A h \in Groups \ {g} : groups[h] = mem[h]
  BY <1>2 DEF Group
<1>4. run'[g].pc = "none"
  BY <1>1, <1>2 DEF Idle
<1> HIDE DEF groups
<1>5. Kin(groups, g)
  BY <1>3 DEF Kin, SameRecords
<1>6. Posted(mem[g], run[g])'
  BY <1>4 DEF Posted
<1> QED
  BY <1>1, <1>2, <1>4, <1>5, <1>6, KinFiled DEF Works

LEMMA SentFiled ==
    ASSUME CInv, NEW g \in Groups, Works(g), Sent(g)
    PROVE  Filed(g)
<1> DEFINE entry == [Current(g) EXCEPT !.state = "completed"]
<1> DEFINE groups == WithFile(mem, g, entry)
<1>1. run[g].pc = "delivered" /\ run \in [Groups -> Run] /\ mem \in [Groups -> Group]
  BY DEF Sent, At, CInv, IInv, TypeOK
<1>2. run[g].file \in DOMAIN mem[g].files /\ Current(g) \in Entry
  BY <1>1, CurrentType DEF CInv
<1>3. entry \in Entry /\ entry.ack = Current(g).ack /\ entry.remote = Current(g).remote
  BY <1>2 DEF Entry
<1>4. Active(mem[g].state)
  BY <1>1, RunnersHaveStates DEF CInv
<1>5. \/ mem' = groups /\ disk' = groups /\ NextFile(g)
      \/ (disk' = disk \/ disk' = groups) /\ Failed(groups, g, TRUE)
  BY DEF Sent, Record, Saved
<1> HIDE DEF entry
<1>6. groups \in [Groups -> Group] /\ Kin(groups, g) /\ Active(groups[g].state)
  BY <1>2, <1>3, <1>4, WithFileType DEF CInv, Kin, SameRecords, Current
<1> HIDE DEF groups
<1>7. CASE mem' = groups /\ disk' = groups /\ NextFile(g)
  <2>1. run'[g].pc = "file"
    BY <1>1, <1>7, NextFileMoves
  <2>2. Posted(mem[g], run[g])'
    BY <2>1 DEF Posted
  <2> QED
    BY <1>1, <1>6, <1>7, <2>1, <2>2, KinFiled DEF Works
<1>8. CASE (disk' = disk \/ disk' = groups) /\ Failed(groups, g, TRUE)
  BY <1>1, <1>6, <1>8, FailedFiled
<1> QED
  BY <1>5, <1>7, <1>8

\* The entry of the file under way is recorded: as copied, or as deleted.
LEMMA EntryFiled ==
    ASSUME CInv, NEW g \in Groups, NEW entry \in Entry, NEW groups,
           groups = WithFile(mem, g, entry),
           \/ run[g].pc = "published" /\ entry.ack /\ entry.remote = Current(g).remote
           \/ run[g].pc \in {"forgotten", "acknowledged"} /\ ~entry.ack /\ entry.remote = NoName,
           disk' = disk \/ disk' = groups,
           \A h \in Groups \ {g} : mem'[h] = groups[h],
           SameRecords(groups[g], mem'[g]),
           run'[g].pc \in {"file", "forget", "end"}
    PROVE  Filed(g)
<1> DEFINE i == run[g].file
<1>1. i \in DOMAIN mem[g].files /\ mem[g].incoming /\ Tidy(mem) /\ Tidy(disk)
  BY CurrentType DEF CInv, Orderly, Posted
<1>2. /\ \A h \in Groups \ {g} : groups[h] = mem[h]
      /\ groups[g].incoming = mem[g].incoming
      /\ DOMAIN groups[g].files = DOMAIN mem[g].files
      /\ groups[g].files[i] = entry
      /\ \A k \in DOMAIN mem[g].files : k # i => groups[g].files[k] = mem[g].files[k]
  <2>1. IInv
    BY DEF CInv
  <2>2. /\ \A h \in Groups \ {g} : WithFile(mem, g, entry)[h] = mem[h]
        /\ WithFile(mem, g, entry)[g].incoming = mem[g].incoming
        /\ DOMAIN WithFile(mem, g, entry)[g].files = DOMAIN mem[g].files
        /\ WithFile(mem, g, entry)[g].files[i] = entry
        /\ \A k \in DOMAIN mem[g].files :
              k # i => WithFile(mem, g, entry)[g].files[k] = mem[g].files[k]
    BY <1>1, <2>1, WithFileType
  <2> QED BY <2>2
<1>3. Tidy(groups)
  <2>1. Shrinks(mem[g], groups[g])
    BY <1>1, <1>2 DEF Shrinks, Current
  <2>2. \A h \in Groups : Shrinks(mem[h], groups[h])
    BY <1>2, <2>1, SameShrinks, SameSelf
  <2> QED BY <1>1, <2>2, TidyShrinks
<1>4. Tidy(mem')
  <2>1. \A h \in Groups : Shrinks(groups[h], mem'[h])
    BY SameShrinks, SameSelf
  <2> QED BY <1>3, <2>1, TidyShrinks
<1>5. Posted(mem[g], run[g])'
  BY <1>1, <1>2 DEF Posted, SameRecords
<1>6. ASSUME NEW n \in Names
      PROVE  /\ Knows(mem[g], run[g], n) => Knows(mem'[g], run'[g], n) \/ Leaves(mem[g], run[g], n)
             /\ ~Leaves(mem'[g], run'[g], n)
  <2>1. ~Leaves(mem'[g], run'[g], n)
    BY DEF Leaves
  <2>2. ASSUME Knows(mem[g], run[g], n)
        PROVE  Knows(mem'[g], run'[g], n) \/ Leaves(mem[g], run[g], n)
    <3>1. PICK k \in DOMAIN mem[g].files :
            /\ mem[g].files[k].remote = n
            /\ mem[g].files[k].ack \/ (run[g].pc = "published" /\ i = k)
      BY <2>2 DEF Knows
    <3>2. CASE k = i /\ run[g].pc = "published"
      <4>1. entry.ack /\ entry.remote = n
        BY <3>1, <3>2 DEF Current
      <4>2. groups[g].files[i].ack /\ groups[g].files[i].remote = n /\ i \in DOMAIN groups[g].files
        BY <1>1, <1>2, <4>1
      <4>3. mem'[g].files[i].ack /\ mem'[g].files[i].remote = n
        BY <4>2 DEF SameRecords
      <4> QED BY <1>1, <1>2, <4>3 DEF Knows, SameRecords
    <3>3. CASE k = i /\ run[g].pc # "published"
      BY <3>1, <3>3 DEF Leaves
    <3>4. CASE k # i
      <4>1. mem'[g].files[k].ack /\ mem'[g].files[k].remote = n
        BY <1>1, <1>2, <3>1, <3>4 DEF SameRecords
      <4> QED BY <1>1, <1>2, <4>1 DEF Knows, SameRecords
    <3> QED BY <3>2, <3>3, <3>4
  <2> QED BY <2>1, <2>2
<1>7. Tidy(disk')
  BY <1>1, <1>3
<1> QED
  BY <1>4, <1>5, <1>6, <1>7 DEF Filed

LEMMA EntriesFiled ==
    ASSUME CInv, NEW g \in Groups, Journal(g) \/ Received(g) \/ Acknowledged(g)
    PROVE  Filed(g)
<1>1. run[g].pc \in {"published", "forgotten", "acknowledged"} /\ run \in [Groups -> Run]
  BY DEF Journal, Received, Acknowledged, At, CInv, IInv, TypeOK
<1>2. run[g].file \in DOMAIN mem[g].files /\ Current(g) \in Entry
  BY <1>1, CurrentType DEF CInv
<1>3. Active(mem[g].state)
  BY <1>1, RunnersHaveStates DEF CInv
<1>4. ASSUME NEW entry \in Entry, NEW groups, groups = WithFile(mem, g, entry),
             \/ Record(groups, g, NextFile(g))
             \/ Record(groups, g, Goto(g, "forget"))
             \/ Saved(groups) /\ NextFile(g)
             \/ SaveFails(groups) /\ FinishGroup(g, FALSE)
      PROVE  /\ disk' = disk \/ disk' = groups
             /\ \A h \in Groups \ {g} : mem'[h] = groups[h]
             /\ SameRecords(groups[g], mem'[g])
             /\ run'[g].pc \in {"file", "forget", "end"}
  <2>1. groups \in [Groups -> Group] /\ Active(groups[g].state)
        /\ run[g].file \in DOMAIN groups[g].files
    BY <1>2, <1>3, <1>4, WithFileType DEF CInv
  <2>2. CASE Failed(groups, g, TRUE) /\ (disk' = disk \/ disk' = groups)
    BY <1>1, <2>1, <2>2, FailedMoves
  <2>3. CASE /\ mem' = groups /\ (disk' = disk \/ disk' = groups)
             /\ NextFile(g) \/ Goto(g, "forget") \/ FinishGroup(g, FALSE)
    BY <1>1, <2>3, NextFileMoves, GotoMoves, FinishMoves, SameSelf
  <2> QED BY <1>4, <2>2, <2>3 DEF Record, Saved, SaveFails
<1>5. CASE Journal(g)
  <2> DEFINE entry == [Current(g) EXCEPT !.state = "completed", !.ack = TRUE]
  <2>1. entry \in Entry /\ entry.ack /\ entry.remote = Current(g).remote
    BY <1>2 DEF Entry
  <2>2. Record(WithFile(mem, g, entry), g, Goto(g, "forget")) /\ run[g].pc = "published"
    BY <1>5 DEF Journal, Journalled, At
  <2> HIDE DEF entry
  <2> QED BY <1>4, <2>1, <2>2, EntryFiled
<1>6. CASE Received(g) \/ Acknowledged(g)
  <2> DEFINE entry == [Current(g) EXCEPT !.ack = FALSE, !.remote = NoName]
  <2>1. entry \in Entry /\ ~entry.ack /\ entry.remote = NoName
    BY <1>2 DEF Entry
  <2>2. /\ run[g].pc \in {"forgotten", "acknowledged"}
        /\ \/ Record(WithFile(mem, g, entry), g, NextFile(g))
           \/ Saved(WithFile(mem, g, entry)) /\ NextFile(g)
           \/ SaveFails(WithFile(mem, g, entry)) /\ FinishGroup(g, FALSE)
    BY <1>6 DEF Received, Acknowledged, Forgotten, At
  <2> HIDE DEF entry
  <2> QED BY <1>4, <2>1, <2>2, EntryFiled
<1> QED
  BY <1>5, <1>6

-----------------------------------------------------------------------------
(* New groups. *)

LEMMA TidyStarted ==
    ASSUME NEW groups \in [Groups -> Group], Tidy(groups), NEW g \in Groups
    PROVE  Tidy(Started(groups, g))
<1>1. \A h \in Groups : Shrinks(groups[h], Started(groups, g)[h])
  BY StartedType, SameShrinks, SameSelf
<1> QED
  BY <1>1, TidyShrinks

LEMMA NewFiled ==
    ASSUME CInv, NEW g \in Groups, Fresh(g), NEW groups \in [Groups -> Group], Tidy(groups),
           mem' \in {mem, groups, Started(groups, g)},
           disk' \in {disk, groups, Started(groups, g)},
           run'[g].pc \in {"none", "file"}
    PROVE  Filed(g)
<1>1. Tidy(mem') /\ Tidy(disk')
  BY TidyStarted DEF CInv, Orderly
<1>2. Posted(mem[g], run[g])'
  BY DEF Posted
<1>3. \A n : ~Knows(mem[g], run[g], n) /\ ~Leaves(mem[g], run[g], n)'
  BY DEF Fresh, Absent, Knows, Leaves
<1> QED
  BY <1>1, <1>2, <1>3 DEF Filed

\* What a start of the runner does to the groups, saved or not.
LEMMA StartChanges ==
    ASSUME NEW groups \in [Groups -> Group], NEW g \in Groups, run \in [Groups -> Run],
           run[g].pc = "none", Start(groups, g) \/ StartFails(groups, g)
    PROVE  /\ mem' = Started(groups, g) /\ disk' \in {disk, Started(groups, g)}
           /\ run'[g].pc \in {"none", "file"}
           /\ \A h \in Groups \ {g} : mem'[h] = groups[h] /\ run'[h] = run[h]
<1>1. mem' = Started(groups, g) /\ disk' \in {disk, Started(groups, g)}
  BY DEF Start, StartFails, Saved, SaveFails
<1>2. \A h \in Groups \ {g} : Started(groups, g)[h] = groups[h]
  BY StartedType
<1> DEFINE r == [Idle EXCEPT !.pc = "file"]
<1>3. r.pc = "file"
  BY IdleType
<1>4. run' = run \/ run' = [run EXCEPT ![g] = r]
  BY DEF Start, StartFails
<1> HIDE DEF r
<1> QED
  BY <1>1, <1>2, <1>3, <1>4

LEMMA SendKeeps ==
    ASSUME CInv, NEW g \in Groups, Send(g)
    PROVE  (Orderly /\ Ledger)'
<1> PICK n \in SendSizes :
      LET groups == [mem EXCEPT ![g] = NewSend(n)] IN
      \/ Start(groups, g)
      \/ (disk' = disk \/ disk' = groups) /\ UNCHANGED <<mem, run>>
  BY DEF Send
<1> DEFINE groups == [mem EXCEPT ![g] = NewSend(n)]
<1>1. /\ mem \in [Groups -> Group] /\ run \in [Groups -> Run] /\ Tidy(mem)
      /\ Fresh(g) /\ run[g].pc = "none" /\ UNCHANGED <<where, copies, restarts, removals>>
  BY FreshIsUnattended DEF CInv, Orderly, IInv, TypeOK, Send, counters
<1>2. groups \in [Groups -> Group] /\ \A h \in Groups \ {g} : groups[h] = mem[h]
  BY <1>1, NewSendType
<1>3. Tidy(groups)
  <2>1. n \in Nat
    BY TransfersAssumption
  <2>2. ~NewSend(n).incoming /\ \A i \in DOMAIN NewSend(n).files : ~NewSend(n).files[i].ack
    BY <2>1 DEF NewSend, NewEntry
  <2>3. \A m \in Names : ~Holds(NewSend(n), m)
    BY <2>2 DEF Holds
  <2> QED BY <1>1, <2>2, <2>3, TidyNew
<1> HIDE DEF groups
<1>4. CASE Start(groups, g)
  <2>1. /\ mem' = Started(groups, g) /\ disk' \in {disk, Started(groups, g)}
        /\ run'[g].pc \in {"none", "file"}
        /\ \A h \in Groups \ {g} : mem'[h] = groups[h] /\ run'[h] = run[h]
    BY <1>1, <1>2, <1>4, StartChanges
  <2> QED BY <1>1, <1>2, <1>3, <2>1, NewFiled, FiledKeeps
<1>5. CASE (disk' = disk \/ disk' = groups) /\ UNCHANGED <<mem, run>>
  <2>1. Filed(g)
    BY <1>1, <1>2, <1>3, <1>5, NewFiled
  <2> QED BY <1>1, <1>5, <2>1, FiledKeeps
<1> QED
  BY <1>4, <1>5 DEF groups

WithNew(g, state, name) == [mem EXCEPT ![g] = NewReceipt(NewEntry(state, name))]

\* A name that nobody holds gets a group.
LEMMA ReceiptTidy ==
    ASSUME CInv, NEW g \in Receipts, NEW name \in Names, Holders(name) = {},
           NEW state \in {"pending", "active"}
    PROVE  /\ g \in Groups
           /\ WithNew(g, state, name) \in [Groups -> Group]
           /\ Tidy(WithNew(g, state, name))
           /\ \A h \in Groups \ {g} : WithNew(g, state, name)[h] = mem[h]
<1> DEFINE new == NewReceipt(NewEntry(state, name))
<1>1. mem \in [Groups -> Group] /\ Tidy(mem) /\ g \in Groups
  BY DEF CInv, Orderly, IInv, TypeOK, Groups
<1>2. new \in Group
  BY NewReceiptType
<1>3. /\ DOMAIN new.files = {1} /\ new.files[1].remote = name /\ ~new.files[1].ack
  BY DEF NewReceipt, NewEntry
<1>4. \A h \in Groups : ~Holds(mem[h], name)
  <2>1. ~Absent.incoming
    BY DEF Absent
  <2> QED BY <2>1 DEF Holders, Present, Holds
<1>5. WithNew(g, state, name) = [mem EXCEPT ![g] = new]
  BY DEF WithNew
<1> HIDE DEF new
<1>6. \A n \in Names : \A h \in Groups : Holds(new, n) => ~Holds(mem[h], n)
  BY <1>3, <1>4 DEF Holds
<1>7. Tidy([mem EXCEPT ![g] = new])
  BY <1>1, <1>3, <1>6, TidyNew
<1> QED
  BY <1>1, <1>2, <1>5, <1>7

LEMMA EventKeeps ==
    ASSUME CInv, NEW name \in Names, Event(name)
    PROVE  (Orderly /\ Ledger)'
<1>1. /\ UNCHANGED <<disk, run, where, copies, restarts, removals>>
      /\ run \in [Groups -> Run]
  BY DEF Event, counters, CInv, IInv, TypeOK
<1>2. CASE UNCHANGED mem
  BY <1>1, <1>2 DEF CInv, Orderly, Ledger, Balanced, Known, Left, CopiesAccounted
<1>3. ASSUME NEW g \in Receipts, Fresh(g), Holders(name) = {},
             mem' = [mem EXCEPT ![g] = NewReceipt(NewEntry("active", name))]
      PROVE  (Orderly /\ Ledger)'
  <2>1. mem' = WithNew(g, "active", name)
    BY <1>3 DEF WithNew
  <2>2. /\ g \in Groups
        /\ WithNew(g, "active", name) \in [Groups -> Group]
        /\ Tidy(WithNew(g, "active", name))
        /\ \A h \in Groups \ {g} : WithNew(g, "active", name)[h] = mem[h]
    BY <1>3, ReceiptTidy
  <2>3. /\ g \in Groups /\ mem' \in [Groups -> Group] /\ Tidy(mem')
        /\ \A h \in Groups \ {g} : mem'[h] = mem[h]
    BY <2>1, <2>2
  <2>4. run[g].pc = "none"
    BY <1>3, <2>3, FreshIsUnattended DEF CInv
  <2>5. Filed(g)
    BY <1>1, <1>3, <2>3, <2>4, NewFiled
  <2> QED BY <1>1, <2>3, <2>5, FiledKeeps
<1> QED
  BY <1>2, <1>3 DEF Event

LEMMA HandleNewKeeps ==
    ASSUME CInv, NEW name \in Names, HandleNew(name)
    PROVE  (Orderly /\ Ledger)'
<1>1. UNCHANGED <<where, copies, restarts, removals>> /\ run \in [Groups -> Run]
  BY DEF HandleNew, counters, CInv, IInv, TypeOK
<1>2. CASE UNCHANGED <<mem, disk, run>>
  BY <1>1, <1>2 DEF CInv, Orderly, Ledger, Balanced, Known, Left
<1>3. ASSUME NEW g \in Receipts, Fresh(g), Holders(name) = {}, NEW groups,
             groups = [mem EXCEPT ![g] = NewReceipt(NewEntry("pending", name))],
             Start(groups, g) \/ StartFails(groups, g)
      PROVE  (Orderly /\ Ledger)'
  <2>1. groups = WithNew(g, "pending", name)
    BY <1>3 DEF WithNew
  <2>2. /\ g \in Groups
        /\ WithNew(g, "pending", name) \in [Groups -> Group]
        /\ Tidy(WithNew(g, "pending", name))
        /\ \A h \in Groups \ {g} : WithNew(g, "pending", name)[h] = mem[h]
    BY <1>3, ReceiptTidy
  <2>3. /\ g \in Groups /\ groups \in [Groups -> Group] /\ Tidy(groups)
        /\ \A h \in Groups \ {g} : groups[h] = mem[h]
    BY <2>1, <2>2
  <2>4. run[g].pc = "none"
    BY <1>3, <2>3, FreshIsUnattended DEF CInv
  <2>5. /\ mem' = Started(groups, g) /\ disk' \in {disk, Started(groups, g)}
        /\ run'[g].pc \in {"none", "file"}
        /\ \A h \in Groups \ {g} : mem'[h] = groups[h] /\ run'[h] = run[h]
    BY <1>1, <1>3, <2>3, <2>4, StartChanges
  <2>6. Filed(g)
    BY <1>3, <2>3, <2>5, NewFiled
  <2> QED BY <1>1, <2>3, <2>5, <2>6, FiledKeeps
<1> QED
  BY <1>2, <1>3 DEF HandleNew

-----------------------------------------------------------------------------
(* The steps that change what the ledger counts. *)

LEMMA MoreCounted ==
    ASSUME NEW c \in Nat, NEW r \in Nat, NEW m \in Nat, NEW k \in Nat, NEW l \in Nat,
           c <= 1 + r + m, k + l = r + m + 1
    PROVE  c <= k + l /\ c <= 1 + k + l
OBVIOUS

\* A crash or a removal accounts for the copies that are forgotten with it.
LEMMA LedgerCounts ==
    ASSUME Ledger, UNCHANGED <<where, copies>>,
           restarts' \in Nat, removals' \in Nat,
           restarts' + removals' = restarts + removals + 1,
           \A n \in Names : Left(n)' => Left(n)
    PROVE  Ledger'
<1>1. ASSUME NEW p \in Parcels
      PROVE  Balanced(p)'
  <2>1. Balanced(p) /\ restarts \in Nat /\ removals \in Nat
    BY DEF Ledger
  <2>2. NameOf[p] \in Names
    BY TransfersAssumption
  <2>3. copies[p] \in Nat /\ copies[p] <= 1 + restarts + removals
    BY <2>1 DEF Balanced
  <2>4. copies[p] <= restarts' + removals' /\ copies[p] <= 1 + restarts' + removals'
    BY <2>1, <2>3, MoreCounted
  <2>5. where[p] \in {"away", "arriving"} => copies[p] = 0
    BY <2>1 DEF Balanced
  <2>6. where[p] = "waiting" /\ Left(NameOf[p])' => copies[p] = 0
    BY <2>1, <2>2 DEF Balanced
  <2> QED BY <2>3, <2>4, <2>5, <2>6 DEF Balanced
<1> QED
  BY <1>1 DEF Ledger

LEMMA RemovalKeeps ==
    ASSUME CInv, NEW g \in Groups, Dismiss(g) \/ Expire(g)
    PROVE  (Orderly /\ Ledger)'
<1> DEFINE groups == [mem EXCEPT ![g] = Absent]
<1>1. /\ mem' = groups /\ (disk' = disk \/ disk' = groups)
      /\ UNCHANGED <<run, where, copies, restarts>>
      /\ removals' = removals + 1
  BY DEF Dismiss, Expire, Save, Saved, SaveFails
<1>2. mem \in [Groups -> Group]
  BY DEF CInv, IInv, TypeOK
<1>3. groups[g] = Absent /\ \A h \in Groups \ {g} : groups[h] = mem[h]
  BY <1>2
<1>4. run[g].pc = "none"
  <2>1. ~Active(mem[g].state)
    BY DEF Dismiss, Expire, Active
  <2> QED BY <2>1, RunnersHaveStates DEF CInv
<1> HIDE DEF groups
<1>5. Tidy(groups)
  <2>1. Shrinks(mem[g], groups[g])
    BY <1>3 DEF Shrinks, Absent
  <2>2. \A h \in Groups : Shrinks(mem[h], groups[h])
    BY <1>3, <2>1, SameShrinks, SameSelf
  <2> QED BY <2>2, TidyShrinks DEF CInv, Orderly
<1>6. Orderly'
  <2>1. Posted(mem[g], run[g])'
    BY <1>1, <1>4 DEF Posted
  <2>2. \A h \in Groups : Posted(mem[h], run[h])'
    BY <1>1, <1>3, <2>1 DEF CInv, Orderly
  <2>3. Tidy(mem') /\ Tidy(disk')
    BY <1>1, <1>5 DEF CInv, Orderly
  <2> QED BY <2>2, <2>3 DEF Orderly
<1>7. ASSUME NEW n \in Names, Left(n)'
      PROVE  Left(n)
  <2>1. PICK h \in Groups : Leaves(mem[h], run[h], n)'
    BY <1>7 DEF Left
  <2>2. h # g
    BY <1>1, <1>4, <2>1 DEF Leaves
  <2>3. Leaves(mem[h], run[h], n)
    BY <1>1, <1>3, <2>1, <2>2
  <2> QED BY <2>3 DEF Left
<1>8. Ledger /\ restarts \in Nat /\ removals \in Nat
  BY DEF CInv, Ledger
<1>9. restarts' \in Nat /\ removals' \in Nat /\ restarts' + removals' = restarts + removals + 1
  BY <1>1, <1>8
<1>10. Ledger'
  BY <1>1, <1>7, <1>8, <1>9, LedgerCounts
<1> QED
  BY <1>6, <1>10

LEMMA RestartAccounts ==
    ASSUME CInv, Restart
    PROVE  (Orderly /\ Ledger)'
<1>1. /\ mem' = Interrupted(disk) /\ disk' = mem' /\ run' = [g \in Groups |-> Idle]
      /\ UNCHANGED <<where, copies, removals>> /\ restarts' = restarts + 1
  BY DEF Restart, Saved
<1>2. disk \in [Groups -> Group] /\ Tidy(disk)
  BY DEF CInv, Orderly, IInv, TypeOK
<1>3. Tidy(Interrupted(disk))
  <2>1. ASSUME NEW g \in Groups
        PROVE  Shrinks(disk[g], Interrupted(disk)[g])
    <3>1. SameRecords(disk[g], [disk[g] EXCEPT !.state = "failed"])
      BY <1>2 DEF Group, SameRecords
    <3> QED BY <3>1, SameShrinks, SameSelf DEF Interrupted
  <2> QED BY <1>2, <2>1, TidyShrinks
<1>4. \A g \in Groups : run'[g].pc = "none"
  BY <1>1 DEF Idle
<1>5. Orderly'
  BY <1>1, <1>3, <1>4 DEF Orderly, Posted
<1>6. \A n \in Names : ~Left(n)'
  BY <1>4 DEF Left, Leaves
<1>7. Ledger /\ restarts \in Nat /\ removals \in Nat
  BY DEF CInv, Ledger
<1>8. restarts' \in Nat /\ removals' \in Nat /\ restarts' + removals' = restarts + removals + 1
  BY <1>1, <1>7
<1>9. Ledger'
  BY <1>1, <1>6, <1>7, <1>8, LedgerCounts
<1> QED
  BY <1>5, <1>9

LEMMA ReapAccounts ==
    ASSUME CInv, Reap
    PROVE  (Orderly /\ Ledger)'
<1>1. PICK overdue \in SUBSET Orphans :
        Save([g \in Groups |->
               IF g \in overdue THEN [mem[g] EXCEPT !.state = "failed"] ELSE mem[g]])
  BY DEF Reap
<1> DEFINE groups == [g \in Groups |->
               IF g \in overdue THEN [mem[g] EXCEPT !.state = "failed"] ELSE mem[g]]
<1>2. /\ mem' = groups /\ (disk' = disk \/ disk' = groups)
      /\ UNCHANGED <<run, where, copies, restarts, removals>>
  BY <1>1 DEF Reap, Save, Saved, SaveFails, counters
<1>3. mem \in [Groups -> Group] /\ Tidy(mem) /\ Tidy(disk)
  BY DEF CInv, Orderly, IInv, TypeOK
<1>4. ASSUME NEW g \in Groups
      PROVE  SameRecords(mem[g], groups[g])
  <2>1. SameRecords(mem[g], [mem[g] EXCEPT !.state = "failed"])
    BY <1>3 DEF Group, SameRecords
  <2> QED BY <2>1, SameSelf
<1> HIDE DEF groups
<1>5. Tidy(groups)
  BY <1>3, <1>4, SameShrinks, TidyShrinks
<1>6. ASSUME NEW g \in Groups
      PROVE  /\ Posted(mem[g], run[g])'
             /\ \A n \in Names :
                   /\ Knows(mem[g], run[g], n) => Knows(mem[g], run[g], n)'
                   /\ Leaves(mem[g], run[g], n)' => Leaves(mem[g], run[g], n)
  <2>1. SameRecords(mem[g], mem'[g]) /\ run'[g] = run[g]
    BY <1>2, <1>4
  <2>2. Sound(mem[g], disk[g], run[g]) /\ Posted(mem[g], run[g])
    BY RunnersHaveStates DEF CInv, Orderly
  <2>3. run[g].pc \notin {"none", "file", "end"} => run[g].file \in DOMAIN mem[g].files
    BY <2>2 DEF Sound
  <2> QED BY <2>1, <2>2, <2>3 DEF SameRecords, Posted, Knows, Leaves
<1>7. Orderly'
  BY <1>2, <1>3, <1>5, <1>6 DEF Orderly
<1>8. Ledger'
  BY <1>2, <1>6, LedgerStays DEF CInv, Known, Left
<1> QED
  BY <1>7, <1>8

\* A runner with a file of this name is of the one group that has it.
LEMMA RunnerHolds ==
    ASSUME CInv, NEW g \in Groups, run[g].pc \notin {"none", "file", "end"},
           mem[g].incoming, NEW n \in Names, Current(g).remote = n
    PROVE  /\ Holds(mem[g], n)
           /\ \A h \in Groups : Holds(mem[h], n) => h = g
<1>1. run[g].file \in DOMAIN mem[g].files
  BY CurrentType DEF CInv
<1>2. Holds(mem[g], n)
  BY <1>1 DEF Holds, Current
<1> QED
  BY <1>2 DEF CInv, Orderly, Tidy

LEMMA ReceiveKeeps ==
    ASSUME CInv, NEW g \in Groups, Receive(g)
    PROVE  (Orderly /\ Ledger)'
<1>1. PICK p \in Waiting(Current(g).remote) : copies' = [copies EXCEPT ![p] = @ + 1]
  BY DEF Receive
<1> DEFINE name == NameOf[p]
<1>2. /\ p \in Parcels /\ where[p] = "waiting" /\ Current(g).remote = name /\ name \in Names
  BY <1>1, TransfersAssumption DEF Waiting
<1>3. /\ run[g].pc = "transfer" /\ mem[g].incoming
      /\ UNCHANGED <<mem, disk, where, restarts, removals>>
      /\ run \in [Groups -> Run]
  BY DEF Receive, At, Quiet, counters, CInv, IInv, TypeOK
<1>4. /\ run'[g].pc = "published" /\ run'[g].file = run[g].file
      /\ \A h \in Groups \ {g} : run'[h] = run[h]
  BY <1>3, GotoMoves DEF Receive
<1>5. run[g].file \in DOMAIN mem[g].files /\ DOMAIN mem[g].files = {1}
  BY <1>3, CurrentType DEF CInv, Orderly, Tidy
<1>6. ~mem[g].files[run[g].file].ack
  BY <1>3 DEF CInv, Orderly, Posted
<1>7. Orderly'
  <2>1. Posted(mem[g], run[g])'
    BY <1>3, <1>4 DEF Posted
  <2> QED BY <1>3, <1>4, <2>1 DEF CInv, Orderly
<1>8. \A h \in Groups : Holds(mem[h], name) => h = g
  BY <1>2, <1>3, RunnerHolds
<1>9. ~Known(name)
  <2> SUFFICES ASSUME NEW h \in Groups, Knows(mem[h], run[h], name)
               PROVE  FALSE
    BY DEF Known
  <2>1. h = g
    BY <1>8 DEF Knows, Holds
  <2> QED BY <1>3, <1>5, <1>6, <2>1 DEF Knows
<1>10. ~Left(name)'
  <2> SUFFICES ASSUME NEW h \in Groups, Leaves(mem[h], run[h], name)'
               PROVE  FALSE
    BY DEF Left
  <2>1. h # g
    BY <1>4 DEF Leaves
  <2>2. Leaves(mem[h], run[h], name)
    BY <1>3, <1>4, <2>1 DEF Leaves
  <2>3. Posted(mem[h], run[h]) /\ Sound(mem[h], disk[h], run[h])
    BY RunnersHaveStates DEF CInv, Orderly
  <2>4. Holds(mem[h], name)
    BY <2>2, <2>3 DEF Leaves, Posted, Sound, Holds
  <2> QED BY <1>8, <2>1, <2>4
<1>11. Known(name)'
  <2>1. Knows(mem[g], run[g], name)'
    BY <1>2, <1>3, <1>4, <1>5 DEF Knows, Current
  <2> QED BY <2>1 DEF Known
<1>12. \A n \in Names : (Known(n) => Known(n)') /\ (Left(n)' => Left(n))
  <2>1. ASSUME NEW h \in Groups, NEW n \in Names
        PROVE  /\ Knows(mem[h], run[h], n) => Knows(mem[h], run[h], n)'
               /\ Leaves(mem[h], run[h], n)' => Leaves(mem[h], run[h], n)
    BY <1>3, <1>4 DEF Knows, Leaves
  <2> QED BY <2>1 DEF Known, Left
<1>13. /\ copies \in [Parcels -> Nat] /\ restarts \in Nat /\ removals \in Nat
       /\ \A q \in Parcels : Balanced(q)
  BY DEF CInv, Ledger
<1>14. copies[p] \in Nat /\ copies[p] <= restarts + removals
  BY <1>2, <1>9, <1>13 DEF Balanced
<1>15. copies'[p] \in Nat /\ copies'[p] <= 1 + restarts + removals
  BY <1>1, <1>2, <1>13, <1>14
<1>16. Balanced(p)'
  BY <1>2, <1>3, <1>10, <1>11, <1>15 DEF Balanced
<1>17. ASSUME NEW q \in Parcels, q # p
       PROVE  Balanced(q)'
  <2>1. Balanced(q) /\ copies'[q] = copies[q]
    BY <1>1, <1>13, <1>17
  <2>2. NameOf[q] \in Names
    BY TransfersAssumption
  <2> QED BY <1>3, <1>12, <2>1, <2>2 DEF Balanced
<1>18. copies' \in [Parcels -> Nat]
  BY <1>1, <1>2, <1>13, <1>15
<1>19. Ledger'
  BY <1>3, <1>13, <1>16, <1>17, <1>18 DEF Ledger
<1> QED
  BY <1>7, <1>19

LEMMA ForgetKeeps ==
    ASSUME CInv, NEW g \in Groups, Forget(g)
    PROVE  (Orderly /\ Ledger)'
<1> DEFINE name == Current(g).remote
<1>1. /\ UNCHANGED <<mem, disk, copies, restarts, removals>>
      /\ where' = [q \in Parcels |-> IF q \in Waiting(name) THEN "deleted" ELSE where[q]]
      /\ run[g].pc \in {"forget", "acknowledge"}
      /\ run \in [Groups -> Run]
  BY DEF Forget, At, counters, CInv, IInv, TypeOK
<1>2. /\ run'[g].pc \in {"forgotten", "acknowledged"} /\ run'[g].file = run[g].file
      /\ \A h \in Groups \ {g} : run'[h] = run[h]
  BY <1>1, GotoMoves DEF Forget
<1>3. Orderly'
  <2>1. mem[g].incoming
    BY <1>1 DEF CInv, Orderly, Posted
  <2>2. Posted(mem[g], run[g])'
    BY <1>1, <1>2, <2>1 DEF Posted
  <2> QED BY <1>1, <1>2, <2>2 DEF CInv, Orderly
<1>4. \A n \in Names : Known(n) => Known(n)'
  <2>1. ASSUME NEW h \in Groups, NEW n \in Names
        PROVE  Knows(mem[h], run[h], n) => Knows(mem[h], run[h], n)'
    BY <1>1, <1>2 DEF Knows
  <2> QED BY <2>1 DEF Known
<1>5. ASSUME NEW n \in Names, Left(n)', n # name
      PROVE  Left(n)
  <2>1. PICK h \in Groups : Leaves(mem[h], run[h], n)'
    BY <1>5 DEF Left
  <2>2. h # g
    BY <1>1, <1>2, <1>5, <2>1 DEF Leaves, Current
  <2>3. Leaves(mem[h], run[h], n)
    BY <1>1, <1>2, <2>1, <2>2 DEF Leaves
  <2> QED BY <2>3 DEF Left
<1> HIDE DEF name
<1>6. ASSUME NEW q \in Parcels
      PROVE  Balanced(q)'
  <2>1. Balanced(q) /\ NameOf[q] \in Names
    BY TransfersAssumption DEF CInv, Ledger
  <2>2. where'[q] = "deleted" \/ where'[q] = where[q]
    BY <1>1
  <2>3. where'[q] = "waiting" => where[q] = "waiting" /\ NameOf[q] # name
    BY <1>1 DEF Waiting
  <2> QED BY <1>1, <1>4, <1>5, <2>1, <2>2, <2>3 DEF Balanced
<1>7. Ledger'
  BY <1>1, <1>6 DEF CInv, Ledger
<1> QED
  BY <1>3, <1>7

LEMMA DaemonKeeps ==
    ASSUME CInv, NEW p \in Parcels, Announce(p) \/ Arrived(p)
    PROVE  (Orderly /\ Ledger)'
<1>1. /\ UNCHANGED <<mem, disk, run, copies, restarts, removals>>
      /\ \A q \in Parcels \ {p} : where'[q] = where[q]
      /\ where[p] \in {"away", "arriving"}
  BY DEF Announce, Arrived, service, counters, CInv, IInv, TypeOK
<1>2. \A n : (Known(n)' <=> Known(n)) /\ (Left(n)' <=> Left(n))
  BY <1>1 DEF Known, Left
<1>3. Orderly'
  BY <1>1 DEF CInv, Orderly
<1>4. restarts \in Nat /\ removals \in Nat /\ copies \in [Parcels -> Nat]
  BY DEF CInv, Ledger
<1>5. Balanced(p)'
  <2>1. Balanced(p)
    BY DEF CInv, Ledger
  <2>2. copies[p] = 0
    BY <1>1, <2>1 DEF Balanced
  <2>3. copies[p] <= restarts + removals /\ copies[p] <= 1 + restarts + removals
    BY <1>4, <2>2
  <2> QED BY <1>1, <2>1, <2>2, <2>3 DEF Balanced
<1>6. ASSUME NEW q \in Parcels, q # p
      PROVE  Balanced(q)'
  <2>1. Balanced(q)
    BY DEF CInv, Ledger
  <2>2. where'[q] = where[q]
    BY <1>1, <1>6
  <2> QED BY <1>1, <1>2, <2>1, <2>2 DEF Balanced
<1>7. Ledger'
  BY <1>1, <1>4, <1>5, <1>6 DEF Ledger
<1> QED
  BY <1>3, <1>7

-----------------------------------------------------------------------------
(* Every step, and the theorem. *)

LEMMA NothingKeeps ==
    ASSUME CInv, UNCHANGED <<mem, disk, run, where, copies, restarts, removals>>
    PROVE  (Orderly /\ Ledger)'
<1>1. \A n : (Known(n)' <=> Known(n)) /\ (Left(n)' <=> Left(n))
  BY DEF Known, Left
<1> QED
  BY <1>1 DEF CInv, Orderly, Ledger, Balanced

\* A step of one group that the ledger does not count.
LEMMA WorkKeeps ==
    ASSUME CInv, NEW g \in Groups, Works(g), Filed(g),
           UNCHANGED <<where, copies, restarts, removals>>
    PROVE  (Orderly /\ Ledger)'
BY FiledKeeps DEF Works, Others

LEMMA RunnerKeeps ==
    ASSUME CInv, NEW g \in Groups, Runner(g)
    PROVE  (Orderly /\ Ledger)'
<1>1. Works(g)
  BY RunnerWorks DEF CInv
<1>2. CASE \/ Advance(g) \/ Put(g) \/ SendFails(g) \/ Sent(g) \/ ReceiveFails(g)
           \/ Journal(g) \/ Received(g) \/ Acknowledged(g) \/ ForgetFails(g)
           \/ Wake(g) \/ Stopped(g) \/ End(g)
  <2>1. Filed(g)
    BY <1>1, <1>2, AdvanceFiled, RestsFiled, FailuresFiled, SentFiled, EntriesFiled,
       WakeFiled, EndFiled
  <2>2. UNCHANGED <<where, copies, restarts, removals>>
    BY <1>2 DEF Advance, Put, SendFails, Sent, ReceiveFails, Journal, Received,
       Acknowledged, ForgetFails, Wake, Stopped, End, Quiet, counters
  <2> QED BY <1>1, <2>1, <2>2, WorkKeeps
<1> QED
  BY <1>2, ReceiveKeeps, ForgetKeeps DEF Runner

LEMMA UserKeeps ==
    ASSUME CInv, User
    PROVE  (Orderly /\ Ledger)'
<1>1. ASSUME NEW g \in Groups, RetryGroup(g)
      PROVE  (Orderly /\ Ledger)'
  <2>1. /\ run[g].pc = "none" /\ (Start(mem, g) \/ StartFails(mem, g))
        /\ UNCHANGED <<where, copies, restarts, removals>>
    BY <1>1 DEF RetryGroup, Running
  <2>2. Works(g)
    BY <1>1, RetryWorks DEF CInv
  <2> QED BY <2>1, <2>2, ResumeFiled, WorkKeeps
<1>2. ASSUME NEW g \in Groups, CancelGroup(g)
      PROVE  (Orderly /\ Ledger)'
  <2>1. Works(g)
    BY <1>2, CancelWorks DEF CInv
  <2>2. UNCHANGED <<where, copies, restarts, removals>>
    BY <1>2 DEF CancelGroup, counters
  <2> QED BY <1>2, <2>1, <2>2, CancelFiled, WorkKeeps
<1> QED
  BY <1>1, <1>2, SendKeeps, RemovalKeeps DEF User

LEMMA PollKeeps ==
    ASSUME CInv, Poll
    PROVE  (Orderly /\ Ledger)'
<1>1. CASE ListWaiting
  BY <1>1, NothingKeeps DEF ListWaiting, counters
<1>2. ASSUME NEW name \in Names, HandleKnown(name)
      PROVE  (Orderly /\ Ledger)'
  <2>1. UNCHANGED <<where, copies, restarts, removals>>
    BY <1>2 DEF HandleKnown, counters
  <2>2. CASE UNCHANGED <<mem, disk, run>>
    BY <2>1, <2>2, NothingKeeps
  <2>3. ASSUME NEW g \in Holders(name), g \notin Running,
               Start(mem, g) \/ StartFails(mem, g)
        PROVE  (Orderly /\ Ledger)'
    <3>1. g \in Groups /\ run[g].pc = "none" /\ mem \in [Groups -> Group]
      BY <2>3 DEF Holders, Present, Running, CInv, IInv, TypeOK
    <3>2. Works(g)
      BY <2>3, <3>1, StartWorks, StartFailsWorks DEF CInv
    <3> QED BY <2>1, <2>3, <3>1, <3>2, ResumeFiled, WorkKeeps
  <2> QED BY <1>2, <2>2, <2>3 DEF HandleKnown
<1> QED
  BY <1>1, <1>2, ReapAccounts, HandleNewKeeps DEF Poll

LEMMA NextCInv ==
    ASSUME CInv, [TransfersNext]_transfersVars
    PROVE  CInv'
<1>1. IInv'
  BY NextIInv DEF CInv
<1>2. (Orderly /\ Ledger)'
  <2>1. CASE UNCHANGED transfersVars
    BY <2>1, NothingKeeps DEF transfersVars
  <2>2. CASE Daemon
    BY <2>2, DaemonKeeps DEF Daemon
  <2> QED
    BY <2>1, <2>2, UserKeeps, RunnerKeeps, PollKeeps, EventKeeps, RestartAccounts DEF TransfersNext
<1> QED
  BY <1>1, <1>2 DEF CInv

LEMMA InitCInv == TransfersInit => CInv
<1> SUFFICES ASSUME TransfersInit
             PROVE  CInv
  OBVIOUS
<1>1. /\ \A g \in Groups : mem[g] = Absent /\ disk[g] = Absent /\ run[g] = Idle
      /\ copies = [p \in Parcels |-> 0] /\ restarts = 0 /\ removals = 0
      /\ \A p \in Parcels : where[p] = "away"
  BY DEF TransfersInit
<1>2. Orderly
  <2>1. ~Absent.incoming /\ DOMAIN Absent.files = {} /\ Idle.pc = "none"
    BY DEF Absent, Idle
  <2> QED BY <1>1, <2>1 DEF Orderly, Tidy, Posted, Holds
<1>3. Ledger
  BY <1>1 DEF Ledger, Balanced
<1> QED
  BY <1>2, <1>3, InitIInv DEF CInv

\* The inductive invariant: the group that holds a name knows of the copy that
\* was made of its file, as long as the daemon has the file.
THEOREM LedgerAlways == TransfersSpec => []CInv
<1>1. CInv /\ [TransfersNext]_transfersVars => CInv'
  BY NextCInv
<1> QED BY InitCInv, <1>1, PTL DEF TransfersSpec

\* A file is copied again only for a crash or a removal: no failed save, failed
\* acknowledgement, late progress, retry or shared name makes a second copy.
THEOREM CopiesAlways == TransfersSpec => []CopiesAccounted
<1>1. CInv => CopiesAccounted
  BY DEF CInv, Ledger, Balanced, CopiesAccounted
<1> QED BY LedgerAlways, <1>1, PTL

================================================================================
