----------------------------- MODULE InboxProofs -----------------------------
(***************************************************************************)
(* Theorems about the maintenance inbox (Inbox.tla), for any rows,         *)
(* sources, contents, threads and bounds.                                  *)
(*                                                                         *)
(* The invariant has two halves.  The memory half relates the shown rows,  *)
(* the file and the two histories; every write of rows keeps it because a  *)
(* staged row follows the row it replaces.  The task half relates the      *)
(* threads, the busy marks and the checks; it does not read the rows.      *)
(***************************************************************************)
EXTENDS Inbox, TLAPS

\* A row that is not there says nothing; one that is there has a finding.
Whole ==
    {row \in Row : IF row.revision = 0 THEN row = Absent ELSE row.content \in Contents}

\* A later form of a row has a greater revision, or says the same.
Follows(row, next) ==
    \/ next.revision > row.revision
    \/ next.revision = row.revision /\ next.content = row.content

Pcs == {"idle", "recheck", "repair", "analyze", "confirmed", "rechecking",
        "repairing", "checking", "coalesced", "ran", "ending"}

Task == [pc : Pcs, row : Rows, revision : 0..MaxRevision]

Check == [pc : {"none", "probing", "probed"}, owner : Threads \cup {Nobody}]

MemoryTypeOK ==
    /\ mem \in [Rows -> Whole]
    /\ disk \in [Rows -> Whole]
    /\ alerts \subseteq Rows \X (1..MaxRevision)
    /\ alerted \subseteq Rows \X (1..MaxRevision)
    /\ told \subseteq Rows \X (1..MaxRevision) \X Contents

TasksTypeOK ==
    /\ busy \subseteq Rows
    /\ task \in [Threads -> Task]
    /\ check \in [Sources -> Check]
    /\ stopped \in BOOLEAN

\* The file has every row that is shown, in this form or a later one, save that
\* a resolved row may have been dropped by a save that reported a failure.
DiskLeads ==
    \A r \in Present(mem) :
        \/ disk[r].revision = 0 /\ mem[r].resolved
        \/ Follows(mem[r], disk[r])

\* What was told of a row is its present form, or an earlier revision.
ToldIsPast ==
    \A k \in told :
        /\ k[1] \in Present(mem)
        /\ k[2] <= mem[k[1]].revision
        /\ k[2] = mem[k[1]].revision => k[3] = mem[k[1]].content

AlertsArePast ==
    \A a \in alerts \cup alerted : a[1] \in Present(mem) /\ a[2] <= mem[a[1]].revision

MemoryOK ==
    /\ MemoryTypeOK
    /\ DiskLeads
    /\ ToldIsPast
    /\ RevisionNamesContent
    /\ AlertsArePast
    /\ AlertOnce

\* The thread that a check runs for waits for it, so its end wakes a thread that
\* still has its task.
ChecksAreOwned ==
    \A s \in Sources :
        check[s].owner \in Threads =>
            /\ task[check[s].owner].pc = "checking"
            /\ SourceOf[task[check[s].owner].row] = s

TasksOK ==
    /\ TasksTypeOK
    /\ ChecksAreOwned
    /\ OneTaskPerRow

InboxInv == MemoryOK /\ TasksOK

-----------------------------------------------------------------------------
(* Rows. *)

LEMMA AbsentIsWhole == Absent \in Whole
  BY InboxAssumption DEF Whole, Absent, Row

\* A staged inbox: whole rows, each of which follows the one it replaces.
Staged(staged) ==
    /\ staged \in [Rows -> Whole]
    /\ \A r \in Rows : Follows(mem[r], staged[r])

\* The rows a publication is loud about have a new revision and are unresolved.
Announced(staged, loud) ==
    /\ loud \subseteq Rows
    /\ \A r \in loud : staged[r].revision > mem[r].revision /\ ~staged[r].resolved

LEMMA PublishedFollows ==
    ASSUME NEW row \in Whole, NEW content \in Contents,
           Published(row, content).revision <= MaxRevision
    PROVE  /\ Published(row, content) \in Whole
           /\ Follows(row, Published(row, content))
           /\ ~Published(row, content).resolved
  <1>1. /\ Published(row, content).revision \in Nat \ {0}
        /\ Follows(row, Published(row, content))
    BY InboxAssumption DEF Whole, Row, Absent, Published, Changed, Follows
  <1>2. /\ Published(row, content).content = content
        /\ Published(row, content).resolved = FALSE
        /\ Published(row, content).snoozed \in BOOLEAN
    BY DEF Published
  <1>3. Published(row, content) \in Row
    BY <1>1, <1>2, InboxAssumption DEF Published, Row
  <1> QED BY <1>1, <1>2, <1>3 DEF Whole

LEMMA LoudIsNewer ==
    ASSUME NEW row \in Whole, NEW content \in Contents, Loud(row, content)
    PROVE  Published(row, content).revision > row.revision
  BY InboxAssumption DEF Whole, Row, Loud, Published

LEMMA ResolvedFollows ==
    ASSUME NEW row \in Whole
    PROVE  Resolved(row) \in Whole /\ Follows(row, Resolved(row))
  BY InboxAssumption DEF Whole, Row, Absent, Resolved, Follows

\* Pruning drops only rows that are resolved, before and after, and have no
\* notification on its way.
LEMMA PrunedRows ==
    ASSUME MemoryTypeOK, NEW staged \in [Rows -> Whole], NEW rows \in Pruned(staged)
    PROVE  /\ rows \in [Rows -> Whole]
           /\ \A r \in Rows :
                 \/ rows[r] = staged[r]
                 \/ /\ rows[r] = Absent
                    /\ mem[r].resolved /\ staged[r].resolved
                    /\ \A a \in alerts : a[1] # r
  <1>1. PICK old \in SUBSET ((Settled(mem) \cap Settled(staged))
                               \ (Tasked \cup {a[1] : a \in alerts})) :
            rows = [r \in Rows |-> IF r \in old THEN Absent ELSE staged[r]]
    BY DEF Pruned
  <1>2. rows \in [Rows -> Whole]
    BY <1>1, AbsentIsWhole
  <1>3. ASSUME NEW r \in Rows
        PROVE  \/ rows[r] = staged[r]
               \/ /\ rows[r] = Absent
                  /\ mem[r].resolved /\ staged[r].resolved
                  /\ \A a \in alerts : a[1] # r
    <2>1. CASE r \in old
      BY <1>1, <2>1 DEF Settled, Present, Unresolved
    <2>2. CASE r \notin old
      BY <1>1, <2>2
    <2> QED BY <2>1, <2>2
  <1> QED BY <1>2, <1>3

-----------------------------------------------------------------------------
(* The memory half. *)

LEMMA MemoryInit ==
    ASSUME Init
    PROVE  MemoryOK
  <1>1. MemoryTypeOK
    BY AbsentIsWhole DEF Init, MemoryTypeOK
  <1>2. Present(mem) = {}
    BY DEF Init, Present, Absent
  <1> QED BY <1>1, <1>2 DEF Init, MemoryOK, DiskLeads, ToldIsPast, RevisionNamesContent,
                            AlertsArePast, AlertOnce

\* New rows: each follows the old one, or is gone, and then no notification of it
\* is on its way.
NewRows(rows) ==
    /\ rows \in [Rows -> Whole]
    /\ \A r \in Present(mem) : Follows(mem[r], rows[r]) \/ rows[r] = Absent

\* The history of what was told survives any change to rows that follow.
LEMMA ToldKeeps ==
    ASSUME MemoryOK, NewRows(mem'), NEW sent, Remember(sent)
    PROVE  /\ told' \subseteq Rows \X (1..MaxRevision) \X Contents
           /\ ToldIsPast'
           /\ RevisionNamesContent'
  <1>1. ASSUME NEW k \in told'
        PROVE  /\ k \in Rows \X (1..MaxRevision) \X Contents
               /\ k[1] \in Present(mem')
               /\ \/ /\ k \in told
                     /\ k[2] <= mem'[k[1]].revision
                     /\ k[2] = mem'[k[1]].revision => k[3] = mem'[k[1]].content
                  \/ k = <<k[1], mem'[k[1]].revision, mem'[k[1]].content>>
    <2>1. CASE k \in told /\ k[1] \in Present(mem')
      <3>1. /\ k \in Rows \X (1..MaxRevision) \X Contents
            /\ k[1] \in Present(mem)
            /\ k[2] <= mem[k[1]].revision
            /\ k[2] = mem[k[1]].revision => k[3] = mem[k[1]].content
        BY <2>1 DEF MemoryOK, MemoryTypeOK, ToldIsPast
      <3>2. k[1] \in Rows /\ k[2] \in Nat
        BY <3>1
      <3>3. Follows(mem[k[1]], mem'[k[1]])
        BY <2>1, <3>1 DEF NewRows, Present, Absent
      <3>4. mem[k[1]].revision \in Nat /\ mem'[k[1]].revision \in Nat
        BY <3>2 DEF MemoryOK, MemoryTypeOK, NewRows, Whole, Row
      <3> QED BY <2>1, <3>1, <3>2, <3>3, <3>4 DEF Follows
    <2>2. CASE \E r \in Present(mem') : k = <<r, mem'[r].revision, mem'[r].content>>
      BY <2>2, InboxAssumption DEF Present, NewRows, Whole, Row
    <2> QED BY <1>1, <2>1, <2>2 DEF Remember
  <1>2. told' \subseteq Rows \X (1..MaxRevision) \X Contents
    BY <1>1
  <1>3. ToldIsPast'
    <2>1. ASSUME NEW k \in told'
          PROVE  /\ k[1] \in Present(mem')
                 /\ k[2] <= mem'[k[1]].revision
                 /\ k[2] = mem'[k[1]].revision => k[3] = mem'[k[1]].content
      <3>1. k[1] \in Present(mem') /\ mem'[k[1]].revision \in Nat
        BY <1>1 DEF NewRows, Whole, Row, Present
      <3> QED BY <1>1, <3>1
    <2> QED BY <2>1 DEF ToldIsPast, Present
  <1>4. RevisionNamesContent'
    <2> SUFFICES ASSUME NEW k \in told', NEW l \in told', k[1] = l[1], k[2] = l[2]
                 PROVE  k[3] = l[3]
      BY DEF RevisionNamesContent
    <2>1. CASE k \in told /\ l \in told
      BY <2>1 DEF MemoryOK, RevisionNamesContent
    <2>2. CASE ~(k \in told /\ l \in told)
      BY <1>1, <2>2
    <2> QED BY <2>1, <2>2
  <1> QED BY <1>2, <1>3, <1>4

\* The histories of notifications: one that is new is of a new revision, and one
\* that is sent is on its way no more.
LEMMA AlertsKeep ==
    ASSUME MemoryOK, NewRows(mem'), NEW sent \in SUBSET alerts, Remember(sent),
           alerts' \cap sent = {},
           \A a \in alerts' :
              /\ a \in Rows \X (1..MaxRevision)
              /\ a[1] \in Present(mem') /\ a[2] <= mem'[a[1]].revision
              /\ a \in alerts \/ a[1] \notin Present(mem) \/ a[2] > mem[a[1]].revision
    PROVE  /\ alerts' \subseteq Rows \X (1..MaxRevision)
           /\ alerted' \subseteq Rows \X (1..MaxRevision)
           /\ AlertsArePast'
           /\ AlertOnce'
  <1>1. ASSUME NEW a \in alerted'
        PROVE  /\ a \in alerted \cup sent
               /\ a \in Rows \X (1..MaxRevision)
               /\ a[1] \in Present(mem) /\ a[2] <= mem[a[1]].revision
               /\ a[1] \in Present(mem') /\ a[2] <= mem'[a[1]].revision
    <2>1. a \in alerted \cup sent /\ a[1] \in Present(mem')
      BY DEF Remember
    <2>2. /\ a \in Rows \X (1..MaxRevision)
          /\ a[1] \in Present(mem) /\ a[2] <= mem[a[1]].revision
      BY <2>1 DEF MemoryOK, MemoryTypeOK, AlertsArePast
    <2>3. Follows(mem[a[1]], mem'[a[1]])
      BY <2>1, <2>2 DEF NewRows, Present, Absent
    <2>4. a[2] \in Nat /\ mem[a[1]].revision \in Nat /\ mem'[a[1]].revision \in Nat
      BY <2>2 DEF MemoryOK, MemoryTypeOK, NewRows, Whole, Row
    <2> QED BY <2>1, <2>2, <2>3, <2>4 DEF Follows
  <1>2. AlertsArePast'
    BY <1>1 DEF AlertsArePast, Present
  <1>3. AlertOnce'
    <2> SUFFICES ASSUME NEW a \in alerts', a \in alerted'
                 PROVE  FALSE
      BY DEF AlertOnce
    <2>1. a \in alerted
      BY <1>1
    <2>2. a \notin alerts
      BY <2>1 DEF MemoryOK, AlertOnce
    <2>3. a[2] > mem[a[1]].revision /\ a[2] <= mem[a[1]].revision
      BY <1>1, <2>2
    <2>4. a[2] \in Nat /\ mem[a[1]].revision \in Nat
      BY <1>1 DEF MemoryOK, MemoryTypeOK, Whole, Row
    <2> QED BY <2>3, <2>4
  <1> QED BY <1>1, <1>2, <1>3

LEMMA MemoryKeeps ==
    ASSUME MemoryOK, NewRows(mem'), disk' \in [Rows -> Whole], DiskLeads',
           NEW sent \in SUBSET alerts, Remember(sent), alerts' \cap sent = {},
           \A a \in alerts' :
              /\ a \in Rows \X (1..MaxRevision)
              /\ a[1] \in Present(mem') /\ a[2] <= mem'[a[1]].revision
              /\ a \in alerts \/ a[1] \notin Present(mem) \/ a[2] > mem[a[1]].revision
    PROVE  MemoryOK'
  <1>1. /\ told' \subseteq Rows \X (1..MaxRevision) \X Contents
        /\ ToldIsPast'
        /\ RevisionNamesContent'
    BY ToldKeeps
  <1>2. /\ alerts' \subseteq Rows \X (1..MaxRevision)
        /\ alerted' \subseteq Rows \X (1..MaxRevision)
        /\ AlertsArePast'
        /\ AlertOnce'
    BY AlertsKeep
  <1> QED BY <1>1, <1>2 DEF MemoryOK, MemoryTypeOK, NewRows

\* A step that shows new rows and notifies of nothing new.
LEMMA RowsKeep ==
    ASSUME MemoryOK, NewRows(mem'), disk' \in [Rows -> Whole], DiskLeads',
           alerts' \subseteq alerts, \A a \in alerts' : mem'[a[1]] # Absent,
           NEW sent \in SUBSET alerts, alerts' \cap sent = {}, Remember(sent)
    PROVE  MemoryOK'
  <1>1. ASSUME NEW a \in alerts'
        PROVE  /\ a \in Rows \X (1..MaxRevision)
               /\ a[1] \in Present(mem') /\ a[2] <= mem'[a[1]].revision
    <2>1. /\ a \in Rows \X (1..MaxRevision)
          /\ a[1] \in Present(mem) /\ a[2] <= mem[a[1]].revision
      BY DEF MemoryOK, MemoryTypeOK, AlertsArePast
    <2>2. Follows(mem[a[1]], mem'[a[1]])
      BY <2>1 DEF NewRows
    <2>3. /\ a[1] \in Rows /\ a[2] \in Nat /\ mem[a[1]].revision \in Nat
          /\ mem'[a[1]].revision \in Nat /\ mem[a[1]].revision # 0
      BY <2>1 DEF MemoryOK, MemoryTypeOK, NewRows, Whole, Row, Present
    <2> QED BY <2>1, <2>2, <2>3 DEF Follows, Present
  <1> QED BY <1>1, MemoryKeeps

LEMMA StillKeeps ==
    ASSUME MemoryOK, UNCHANGED <<mem, disk>>, alerts' \subseteq alerts,
           Remember(alerts \ alerts')
    PROVE  MemoryOK'
  <1>1. NewRows(mem') /\ disk' \in [Rows -> Whole] /\ DiskLeads'
    BY DEF MemoryOK, MemoryTypeOK, NewRows, DiskLeads, Present, Follows
  <1>2. \A a \in alerts' : mem'[a[1]] # Absent
    BY DEF MemoryOK, AlertsArePast, Present, Absent
  <1>3. alerts \ alerts' \in SUBSET alerts /\ alerts' \cap (alerts \ alerts') = {}
    OBVIOUS
  <1> QED BY <1>1, <1>2, <1>3, RowsKeep

\* Saved and then shown, or saved at most: what Service::commit does to staged rows.
LEMMA StageKeeps ==
    ASSUME MemoryOK, NEW staged, NEW loud, Staged(staged), Announced(staged, loud),
           \/ Commit(staged, loud)
           \/ CommitFails(staged)
           \/ UNCHANGED <<mem, disk, busy, alerts>>,
           Remember(alerts \ alerts')
    PROVE  MemoryOK'
  <1> USE DEF Staged
  <1>1. CASE Commit(staged, loud)
    <2>1. PICK rows \in Pruned(staged) : mem' = rows /\ disk' = rows
      BY <1>1 DEF Commit
    <2>2. /\ rows \in [Rows -> Whole]
          /\ \A r \in Rows :
                \/ rows[r] = staged[r]
                \/ /\ rows[r] = Absent
                   /\ mem[r].resolved /\ staged[r].resolved
                   /\ \A a \in alerts : a[1] # r
      BY PrunedRows DEF MemoryOK
    <2>3. NewRows(mem')
      BY <2>1, <2>2 DEF NewRows, Present
    <2>4. disk' \in [Rows -> Whole] /\ DiskLeads'
      BY <2>1, <2>2 DEF DiskLeads, Present, Follows
    <2>5. ASSUME NEW a \in alerts'
          PROVE  /\ a \in Rows \X (1..MaxRevision)
                 /\ a[1] \in Present(mem') /\ a[2] <= mem'[a[1]].revision
                 /\ \/ a \in alerts
                    \/ a[1] \notin Present(mem)
                    \/ a[2] > mem[a[1]].revision
      <3>1. CASE a \in alerts
        <4>1. /\ a \in Rows \X (1..MaxRevision)
              /\ a[1] \in Present(mem) /\ a[2] <= mem[a[1]].revision
          BY <3>1 DEF MemoryOK, MemoryTypeOK, AlertsArePast
        <4>2. mem'[a[1]] = staged[a[1]] /\ Follows(mem[a[1]], staged[a[1]])
          BY <2>1, <2>2, <3>1, <4>1
        <4>3. /\ a[1] \in Rows /\ a[2] \in Nat /\ mem[a[1]].revision \in Nat
              /\ staged[a[1]].revision \in Nat /\ mem[a[1]].revision # 0
          BY <4>1 DEF MemoryOK, MemoryTypeOK, Whole, Row, Present
        <4> QED BY <3>1, <4>1, <4>2, <4>3 DEF Follows, Present
      <3>2. CASE a \notin alerts
        <4>1. PICK r \in loud : a = <<r, staged[r].revision>>
          BY <1>1, <3>2 DEF Commit
        <4>2. r \in Rows /\ staged[r].revision > mem[r].revision /\ ~staged[r].resolved
          BY DEF Announced
        <4>3. mem'[r] = staged[r]
          BY <2>1, <2>2, <4>2
        <4>4. staged[r].revision \in 0..MaxRevision /\ mem[r].revision \in 0..MaxRevision
          BY <4>2 DEF MemoryOK, MemoryTypeOK, Whole, Row
        <4>5. staged[r].revision \in 1..MaxRevision
          BY <4>2, <4>4, InboxAssumption
        <4> QED BY <4>1, <4>2, <4>3, <4>5 DEF Present
      <3> QED BY <3>1, <3>2
    <2>6. alerts \ alerts' = {}
      BY <1>1 DEF Commit
    <2> QED BY <2>3, <2>4, <2>5, <2>6, MemoryKeeps
  <1>2. CASE CommitFails(staged)
    <2>1. UNCHANGED <<mem, alerts>>
      BY <1>2 DEF CommitFails
    <2>2. \A a \in alerts' : mem'[a[1]] # Absent
      BY <2>1 DEF MemoryOK, AlertsArePast, Present, Absent
    <2>3. NewRows(mem')
      BY <2>1 DEF MemoryOK, MemoryTypeOK, NewRows, Follows
    <2>4. disk' \in [Rows -> Whole] /\ DiskLeads'
      <3>1. CASE disk' = disk
        BY <2>1, <3>1 DEF MemoryOK, MemoryTypeOK, DiskLeads, Present
      <3>2. CASE \E rows \in Pruned(staged) : disk' = rows
        <4>1. PICK rows \in Pruned(staged) : disk' = rows
          BY <3>2
        <4>2. /\ rows \in [Rows -> Whole]
              /\ \A r \in Rows : \/ rows[r] = staged[r]
                                 \/ rows[r] = Absent /\ mem[r].resolved
          BY PrunedRows DEF MemoryOK
        <4> QED BY <2>1, <4>1, <4>2 DEF DiskLeads, Present, Absent
      <3> QED BY <1>2, <3>1, <3>2 DEF CommitFails
    <2>5. alerts \ alerts' = {}
      BY <2>1
    <2> QED BY <2>1, <2>2, <2>3, <2>4, <2>5, RowsKeep
  <1>3. CASE UNCHANGED <<mem, disk, busy, alerts>>
    BY <1>3, StillKeeps
  <1> QED BY <1>1, <1>2, <1>3

LEMMA PublishKeeps ==
    ASSUME MemoryOK, NEW r \in Rows, NEW content \in Contents, Publish(r, content),
           Remember(alerts \ alerts')
    PROVE  MemoryOK'
  <1> DEFINE staged == [mem EXCEPT ![r] = Published(mem[r], content)]
             loud == IF Loud(mem[r], content) THEN {r} ELSE {}
  <1>1. mem \in [Rows -> Whole]
    BY DEF MemoryOK, MemoryTypeOK
  <1>2. /\ Published(mem[r], content) \in Whole
        /\ Follows(mem[r], Published(mem[r], content))
        /\ ~Published(mem[r], content).resolved
    <2>1. staged[r].revision <= MaxRevision
      BY DEF Publish, Fits
    <2>2. Published(mem[r], content).revision <= MaxRevision
      BY <1>1, <2>1
    <2> QED BY <1>1, <2>2, PublishedFollows
  <1>3. Loud(mem[r], content) => Published(mem[r], content).revision > mem[r].revision
    BY <1>1, LoudIsNewer
  <1>4. Staged(staged)
    BY <1>1, <1>2 DEF Staged, Follows
  <1>5. Announced(staged, loud)
    BY <1>1, <1>2, <1>3 DEF Announced
  <1>6. \/ Commit(staged, loud)
        \/ CommitFails(staged)
        \/ UNCHANGED <<mem, disk, busy, alerts>>
    BY DEF Publish, Stage
  <1> HIDE DEF staged, loud
  <1> QED BY <1>4, <1>5, <1>6, StageKeeps

LEMMA ResolveKeeps ==
    ASSUME MemoryOK, NEW r \in Rows, Resolve(r), Remember(alerts \ alerts')
    PROVE  MemoryOK'
  <1> DEFINE staged == [mem EXCEPT ![r] = Resolved(mem[r])]
  <1>1. mem \in [Rows -> Whole]
    BY DEF MemoryOK, MemoryTypeOK
  <1>2. Staged(staged)
    BY <1>1, ResolvedFollows DEF Staged, Follows
  <1>3. Announced(staged, {})
    BY DEF Announced
  <1>4. \/ Commit(staged, {})
        \/ CommitFails(staged)
        \/ UNCHANGED <<mem, disk, busy, alerts>>
    BY DEF Resolve, Stage
  <1> HIDE DEF staged
  <1> QED BY <1>2, <1>3, <1>4, StageKeeps

LEMMA DecisionKeeps ==
    ASSUME MemoryOK, NEW r \in Rows, UserDecides(r), Remember(alerts \ alerts')
    PROVE  MemoryOK'
  <1>1. mem \in [Rows -> Whole] /\ mem[r].revision # 0
    BY DEF MemoryOK, MemoryTypeOK, UserDecides, Unresolved, Present
  <1>2. PICK row \in {[mem[r] EXCEPT !.snoozed = TRUE],
                      [mem[r] EXCEPT !.snoozed = FALSE], Resolved(mem[r])} :
             LET staged == [mem EXCEPT ![r] = row]
             IN  Commit(staged, {}) \/ CommitFails(staged)
    BY DEF UserDecides
  <1>3. row \in Whole /\ Follows(mem[r], row)
    <2>1. CASE row = Resolved(mem[r])
      BY <1>1, <2>1, ResolvedFollows
    <2>2. CASE row \in {[mem[r] EXCEPT !.snoozed = TRUE],
                        [mem[r] EXCEPT !.snoozed = FALSE]}
      BY <1>1, <2>2, InboxAssumption DEF Whole, Row, Follows
    <2> QED BY <1>2, <2>1, <2>2
  <1> DEFINE staged == [mem EXCEPT ![r] = row]
  <1>4. Staged(staged)
    BY <1>1, <1>3 DEF Staged, Follows
  <1>5. Announced(staged, {})
    BY DEF Announced
  <1>6. Commit(staged, {}) \/ CommitFails(staged)
    BY <1>2
  <1> HIDE DEF staged
  <1> QED BY <1>4, <1>5, <1>6, StageKeeps

LEMMA SnoozeKeeps ==
    ASSUME MemoryOK, NEW r \in Rows, SnoozeEnds(r), Remember(alerts \ alerts')
    PROVE  MemoryOK'
  <1>1. ASSUME NEW rows \in [Rows -> Whole]
        PROVE  /\ [rows EXCEPT ![r].snoozed = FALSE] \in [Rows -> Whole]
               /\ \A q \in Rows :
                     LET row == [rows EXCEPT ![r].snoozed = FALSE][q]
                     IN  /\ row.revision = rows[q].revision
                         /\ row.content = rows[q].content
                         /\ row.resolved = rows[q].resolved
    <2> DEFINE awake == [rows[r] EXCEPT !.snoozed = FALSE]
    <2>1. rows[r] \in Whole
      OBVIOUS
    <2>2. /\ awake.revision = rows[r].revision /\ awake.content = rows[r].content
          /\ awake.resolved = rows[r].resolved /\ awake.snoozed = FALSE
          /\ awake \in Row
      BY <2>1 DEF Whole, Row
    <2>3. awake \in Whole
      <3>1. CASE rows[r].revision = 0
        <4>1. rows[r] = Absent
          BY <2>1, <3>1 DEF Whole
        <4>2. /\ awake = [f \in DOMAIN Absent |-> Absent[f]]
              /\ Absent = [f \in DOMAIN Absent |-> Absent[f]]
          <5>1. awake = [f \in DOMAIN Absent |-> IF f = "snoozed" THEN FALSE
                                                 ELSE Absent[f]]
            BY <4>1
          <5>2. Absent.snoozed = FALSE
            BY DEF Absent
          <5> QED BY <5>1, <5>2 DEF Absent
        <4> QED BY <4>2, AbsentIsWhole
      <3>2. CASE rows[r].revision # 0
        <4> HIDE DEF awake
        <4> QED BY <2>1, <2>2, <3>2 DEF Whole
      <3> QED BY <3>1, <3>2
    <2>4. [rows EXCEPT ![r].snoozed = FALSE] = [rows EXCEPT ![r] = awake]
      OBVIOUS
    <2> HIDE DEF awake
    <2> QED BY <2>2, <2>3, <2>4
  <1>2. /\ mem' \in [Rows -> Whole] /\ disk' \in [Rows -> Whole]
        /\ \A q \in Rows : /\ mem'[q].revision = mem[q].revision
                           /\ mem'[q].content = mem[q].content
                           /\ mem'[q].resolved = mem[q].resolved
                           /\ disk'[q].revision = disk[q].revision
                           /\ disk'[q].content = disk[q].content
    BY <1>1 DEF SnoozeEnds, MemoryOK, MemoryTypeOK
  <1>3. NewRows(mem') /\ DiskLeads'
    BY <1>2 DEF MemoryOK, NewRows, DiskLeads, Present, Follows
  <1>4. \A a \in alerts : mem'[a[1]] # Absent
    BY <1>2 DEF MemoryOK, AlertsArePast, Present, Absent
  <1>5. alerts' = alerts /\ alerts \ alerts' = {}
    BY DEF SnoozeEnds
  <1> QED BY <1>2, <1>3, <1>4, <1>5, RowsKeep

\* The rows as they are, pruned; the file gets them or keeps what it has.
LEMMA PruneKeeps ==
    ASSUME MemoryOK, mem' \in Pruned(mem), disk' \in {disk, mem'}, alerts' = alerts,
           Remember(alerts \ alerts')
    PROVE  MemoryOK'
  <1>1. mem \in [Rows -> Whole]
    BY DEF MemoryOK, MemoryTypeOK
  <1>2. /\ mem' \in [Rows -> Whole]
        /\ \A r \in Rows :
              \/ mem'[r] = mem[r]
              \/ mem'[r] = Absent /\ \A a \in alerts : a[1] # r
    BY <1>1, PrunedRows DEF MemoryOK
  <1>3. NewRows(mem')
    BY <1>2 DEF NewRows, Present, Follows
  <1>4. disk' \in [Rows -> Whole] /\ DiskLeads'
    BY <1>1, <1>2 DEF MemoryOK, MemoryTypeOK, DiskLeads, Present, Absent, Follows
  <1>5. \A a \in alerts : mem'[a[1]] # Absent
    BY <1>2 DEF MemoryOK, AlertsArePast, Present, Absent
  <1>6. alerts \ alerts' = {}
    OBVIOUS
  <1> QED BY <1>3, <1>4, <1>5, <1>6, RowsKeep

\* Every finding of the source is published or resolved, in one staged inbox.
LEMMA ProbeKeeps ==
    ASSUME MemoryOK, NEW s \in Sources, FinishProbe(s), Remember(alerts \ alerts')
    PROVE  MemoryOK'
  <1>1. mem \in [Rows -> Whole]
    BY DEF MemoryOK, MemoryTypeOK
  <1>2. CASE UNCHANGED <<mem, disk, busy, alerts>>
    BY <1>2, StillKeeps
  <1>3. ASSUME NEW found \in SUBSET {r \in Rows : SourceOf[r] = s},
               NEW says \in [found -> Contents],
               Fits(Reported(s, found, says)),
               Stage(Reported(s, found, says), {r \in found : Loud(mem[r], says[r])})
        PROVE  MemoryOK'
    <2> DEFINE staged == Reported(s, found, says)
               loud == {r \in found : Loud(mem[r], says[r])}
    <2>1. ASSUME NEW r \in Rows
          PROVE  /\ staged[r] \in Whole /\ Follows(mem[r], staged[r])
                 /\ r \in loud => /\ staged[r].revision > mem[r].revision
                                  /\ ~staged[r].resolved
      <3>1. staged[r].revision <= MaxRevision
        BY <1>3 DEF Fits
      <3>2. CASE r \in found
        <4>1. staged[r] = Published(mem[r], says[r]) /\ says[r] \in Contents
          BY <3>2 DEF Reported
        <4>2. mem[r] \in Whole /\ Published(mem[r], says[r]).revision <= MaxRevision
          BY <1>1, <3>1, <4>1
        <4> HIDE DEF staged
        <4> QED BY <4>1, <4>2, PublishedFollows, LoudIsNewer
      <3>3. CASE r \notin found
        <4>1. staged[r] = Resolved(mem[r]) \/ staged[r] = mem[r]
          BY <3>3 DEF Reported
        <4>2. mem[r] \in Whole /\ r \notin loud
          BY <1>1, <3>3
        <4> HIDE DEF staged, loud
        <4> QED BY <4>1, <4>2, ResolvedFollows DEF Follows
      <3> QED BY <3>2, <3>3
    <2>2. Staged(staged)
      <3>1. staged = [r \in Rows |-> staged[r]]
        BY DEF Reported
      <3> HIDE DEF staged
      <3> QED BY <2>1, <3>1 DEF Staged
    <2>3. Announced(staged, loud)
      BY <2>1 DEF Announced
    <2>4. \/ Commit(staged, loud)
          \/ CommitFails(staged)
          \/ UNCHANGED <<mem, disk, busy, alerts>>
      BY <1>3 DEF Stage
    <2> HIDE DEF staged, loud
    <2> QED BY <2>2, <2>3, <2>4, StageKeeps
  <1> QED BY <1>2, <1>3 DEF FinishProbe

\* After a restart the rows are those of the file, which were never behind.
LEMMA RestartKeepsMemory ==
    ASSUME MemoryOK, Restart, Remember({})
    PROVE  MemoryOK'
  <1>1. PICK old \in SUBSET Settled(disk) :
            mem' = [r \in Rows |-> IF r \in old THEN Absent ELSE disk[r]]
    BY DEF Restart
  <1>2. disk \in [Rows -> Whole] /\ disk' = disk /\ alerts' = {}
    BY DEF MemoryOK, MemoryTypeOK, Restart
  <1>3. /\ mem' \in [Rows -> Whole]
        /\ \A r \in Rows : mem'[r] = Absent \/ mem'[r] = disk[r]
    BY <1>1, <1>2, AbsentIsWhole
  <1>4. NewRows(mem')
    <2>1. ASSUME NEW r \in Present(mem), mem'[r] # Absent
          PROVE  Follows(mem[r], mem'[r])
      <3>1. r \in Rows /\ disk[r].revision # 0 /\ mem'[r] = disk[r]
        BY <1>2, <1>3, <2>1 DEF Present, Whole
      <3> QED BY <3>1 DEF MemoryOK, DiskLeads
    <2> QED BY <1>3, <2>1 DEF NewRows
  <1>5. DiskLeads'
    BY <1>2, <1>3 DEF DiskLeads, Present, Absent, Follows
  <1> QED BY <1>2, <1>4, <1>5, RowsKeep

-----------------------------------------------------------------------------
(* The task half. *)

LEMMA TasksInit ==
    ASSUME Init
    PROVE  TasksOK
  <1>1. Free \in Task
    BY InboxAssumption DEF Free, Task, Pcs
  <1>2. [pc |-> "none", owner |-> Nobody] \in Check
    BY DEF Check
  <1>3. TasksTypeOK
    BY <1>1, <1>2 DEF Init, TasksTypeOK
  <1>4. ChecksAreOwned
    BY InboxAssumption DEF Init, ChecksAreOwned
  <1>5. OneTaskPerRow
    BY DEF Init, OneTaskPerRow, Free
  <1> QED BY <1>3, <1>4, <1>5 DEF TasksOK

LEMMA CommitClears ==
    ASSUME NEW staged, NEW loud,
           \/ Commit(staged, loud)
           \/ CommitFails(staged)
           \/ UNCHANGED <<mem, disk, busy, alerts>>
    PROVE  busy' \subseteq busy
  BY DEF Commit, CommitFails

\* A step of no task: a busy mark may be cleared, never set.
LEMMA OtherStepKeeps ==
    ASSUME TasksOK, busy' \subseteq busy, task' = task, check' = check,
           stopped' \in BOOLEAN
    PROVE  TasksOK'
  BY DEF TasksOK, TasksTypeOK, ChecksAreOwned, OneTaskPerRow, Tasked

\* A thread at work, which no check runs for, moves on; a check may start for it.
LEMMA MoveKeeps ==
    ASSUME TasksOK, NEW t \in Threads, task[t].pc \notin {"idle", "checking"},
           NEW pc \in Pcs \ {"idle"}, task' = [task EXCEPT ![t].pc = pc],
           busy' \subseteq busy, stopped' = stopped,
           check' \in [Sources -> Check],
           \A s \in Sources :
              \/ check'[s].owner = check[s].owner
              \/ check'[s].owner = t /\ pc = "checking" /\ SourceOf[task[t].row] = s
    PROVE  TasksOK'
  <1>1. task \in [Threads -> Task]
    BY DEF TasksOK, TasksTypeOK
  <1>2. /\ task' \in [Threads -> Task]
        /\ task'[t].pc = pc
        /\ \A u \in Threads : task'[u].row = task[u].row
        /\ \A u \in Threads \ {t} : task'[u] = task[u]
    BY <1>1 DEF Task
  <1>3. TasksTypeOK'
    BY <1>2 DEF TasksOK, TasksTypeOK
  <1>4. ChecksAreOwned'
    BY <1>2 DEF TasksOK, ChecksAreOwned
  <1>5. \A u \in Threads : task'[u].pc # "idle" <=> task[u].pc # "idle"
    BY <1>2
  <1>6. Tasked' = Tasked
    BY <1>2, <1>5 DEF Tasked
  <1>7. OneTaskPerRow'
    BY <1>2, <1>5, <1>6 DEF TasksOK, OneTaskPerRow
  <1> QED BY <1>3, <1>4, <1>7 DEF TasksOK

LEMMA AdmitKeeps ==
    ASSUME TasksOK, NEW t \in Threads, NEW r \in Rows, Admit(t, r),
           mem[r].revision \in 0..MaxRevision
    PROVE  TasksOK'
  <1>1. PICK pc \in {"recheck", "repair", "analyze"} :
            task' = [task EXCEPT ![t] = [pc |-> pc, row |-> r,
                                         revision |-> mem[r].revision]]
    BY DEF Admit
  <1>2. task \in [Threads -> Task] /\ task[t].pc = "idle"
    BY DEF TasksOK, TasksTypeOK, Admit
  <1>3. /\ task' \in [Threads -> Task]
        /\ task'[t].pc # "idle" /\ task'[t].row = r
        /\ \A u \in Threads \ {t} : task'[u] = task[u]
    BY <1>1, <1>2 DEF Task, Pcs
  <1>4. TasksTypeOK'
    BY <1>3 DEF TasksOK, TasksTypeOK, Admit
  <1>5. ChecksAreOwned'
    <2>1. \A s \in Sources : check[s].owner # t
      BY <1>2 DEF TasksOK, ChecksAreOwned
    <2> QED BY <1>3, <2>1 DEF TasksOK, ChecksAreOwned, Admit
  <1>6. r \notin Tasked
    BY DEF Admit, Admissible
  <1>7. Tasked' = Tasked \cup {r}
    BY <1>2, <1>3 DEF Tasked
  <1>8. \A u \in Threads \ {t} : task[u].pc # "idle" => task[u].row # r
    BY <1>6 DEF Tasked
  <1>9. OneTaskPerRow'
    BY <1>3, <1>7, <1>8 DEF TasksOK, OneTaskPerRow, Admit
  <1> QED BY <1>4, <1>5, <1>9 DEF TasksOK

LEMMA ScheduledKeeps ==
    ASSUME TasksOK, NEW s \in Sources, Scheduled(s)
    PROVE  TasksOK'
  <1>1. check' = [check EXCEPT ![s] = [pc |-> "probing", owner |-> Nobody]]
    BY DEF Scheduled, BeginCheck
  <1>2. UNCHANGED <<task, busy, stopped>>
    BY DEF Scheduled
  <1>3. TasksTypeOK'
    BY <1>1, <1>2 DEF TasksOK, TasksTypeOK, Check
  <1>4. ChecksAreOwned'
    BY <1>1, <1>2, InboxAssumption DEF TasksOK, TasksTypeOK, ChecksAreOwned
  <1>5. OneTaskPerRow'
    BY <1>2 DEF TasksOK, OneTaskPerRow, Tasked
  <1> QED BY <1>3, <1>4, <1>5 DEF TasksOK

LEMMA FinishKeeps ==
    ASSUME TasksOK, NEW s \in Sources, FinishProbe(s)
    PROVE  TasksOK'
  <1>1. /\ check' = [check EXCEPT ![s].pc = "probed"]
        /\ UNCHANGED <<task, stopped>>
    BY DEF FinishProbe
  <1>2. busy' \subseteq busy
    <2>1. CASE UNCHANGED <<mem, disk, busy, alerts>>
      BY <2>1
    <2>2. ASSUME NEW staged, NEW loud, Stage(staged, loud)
          PROVE  busy' \subseteq busy
      BY <2>2, CommitClears DEF Stage
    <2> QED BY <2>1, <2>2 DEF FinishProbe
  <1>3. /\ check' \in [Sources -> Check]
        /\ \A q \in Sources : check'[q].owner = check[q].owner
    BY <1>1 DEF TasksOK, TasksTypeOK, Check
  <1>4. TasksTypeOK' /\ ChecksAreOwned'
    BY <1>1, <1>2, <1>3 DEF TasksOK, TasksTypeOK, ChecksAreOwned
  <1>5. OneTaskPerRow'
    BY <1>1, <1>2 DEF TasksOK, OneTaskPerRow, Tasked
  <1> QED BY <1>4, <1>5 DEF TasksOK

\* The end of a check wakes the thread it ran for, which has its task still.
LEMMA EndCheckKeeps ==
    ASSUME TasksOK, NEW s \in Sources, EndCheck(s)
    PROVE  TasksOK'
  <1>1. /\ check' = [check EXCEPT ![s] = [pc |-> "none", owner |-> Nobody]]
        /\ task' = [u \in Threads |-> IF u = check[s].owner
                                      THEN [task[u] EXCEPT !.pc = "ran"] ELSE task[u]]
        /\ UNCHANGED <<busy, stopped>>
    BY DEF EndCheck
  <1>2. task \in [Threads -> Task] /\ check \in [Sources -> Check]
    BY DEF TasksOK, TasksTypeOK
  <1>3. ASSUME NEW u \in Threads
        PROVE  /\ task'[u] \in Task /\ task'[u].row = task[u].row
               /\ task'[u].pc # "idle" <=> task[u].pc # "idle"
               /\ u # check[s].owner => task'[u] = task[u]
    <2>1. CASE u = check[s].owner
      <3>1. task[u].pc = "checking"
        BY <2>1 DEF TasksOK, ChecksAreOwned
      <3> QED BY <1>1, <1>2, <2>1, <3>1 DEF Task, Pcs
    <2>2. CASE u # check[s].owner
      BY <1>1, <1>2, <2>2
    <2> QED BY <2>1, <2>2
  <1>4. TasksTypeOK'
    <2>1. task' \in [Threads -> Task]
      BY <1>1, <1>3
    <2>2. check' \in [Sources -> Check]
      BY <1>1, <1>2 DEF Check
    <2> QED BY <1>1, <2>1, <2>2 DEF TasksOK, TasksTypeOK
  <1>5. ChecksAreOwned'
    <2> SUFFICES ASSUME NEW q \in Sources, check'[q].owner \in Threads
                 PROVE  /\ task'[check'[q].owner].pc = "checking"
                        /\ SourceOf[task'[check'[q].owner].row] = q
      BY DEF ChecksAreOwned
    <2>1. q # s /\ check'[q] = check[q]
      BY <1>1, <1>2, InboxAssumption
    <2>2. /\ task[check[q].owner].pc = "checking"
          /\ SourceOf[task[check[q].owner].row] = q
      BY <2>1 DEF TasksOK, ChecksAreOwned
    <2>3. check[q].owner # check[s].owner
      BY <2>1, <2>2 DEF TasksOK, ChecksAreOwned
    <2> QED BY <1>3, <2>1, <2>2, <2>3
  <1>6. Tasked' = Tasked
    BY <1>3 DEF Tasked
  <1>7. OneTaskPerRow'
    BY <1>1, <1>3, <1>6 DEF TasksOK, OneTaskPerRow
  <1> QED BY <1>4, <1>5, <1>7 DEF TasksOK

LEMMA LookKeeps ==
    ASSUME TasksOK, NEW t \in Threads, Look(t)
    PROVE  TasksOK'
  <1>1. PICK pc \in {"ran", "confirmed", "rechecking", "repairing"} :
            task' = [task EXCEPT ![t].pc = pc]
    BY DEF Look
  <1>2. task[t].pc \in {"recheck", "repair", "confirmed"}
    BY DEF Look
  <1>3. UNCHANGED <<busy, check, stopped>> /\ check \in [Sources -> Check]
    BY DEF Look, TasksOK, TasksTypeOK
  <1> QED BY <1>1, <1>2, <1>3, MoveKeeps DEF Pcs

LEMMA WorkKeeps ==
    ASSUME TasksOK, NEW t \in Threads, Work(t)
    PROVE  TasksOK'
  <1> DEFINE s == SourceOf[task[t].row]
  <1>1. PICK pc \in {"ran", "checking", "coalesced"} :
            task' = [task EXCEPT ![t].pc = pc]
    BY DEF Work
  <1>2. task[t].pc \in {"repairing", "analyze", "rechecking"}
    BY DEF Work
  <1>3. UNCHANGED <<busy, stopped>> /\ check \in [Sources -> Check]
    BY DEF Work, TasksOK, TasksTypeOK
  <1>4. CASE check' = check
    BY <1>1, <1>2, <1>3, <1>4, MoveKeeps DEF Pcs
  <1>5. CASE task[t].pc = "rechecking" /\ BeginCheck(s, t)
                /\ task' = [task EXCEPT ![t].pc = "checking"]
    <2>1. s \in Sources
      BY InboxAssumption DEF TasksOK, TasksTypeOK, Task
    <2>2. check' = [check EXCEPT ![s] = [pc |-> "probing", owner |-> t]]
      BY <1>5 DEF BeginCheck
    <2>3. check' \in [Sources -> Check]
      BY <1>3, <2>2 DEF Check
    <2>4. \A q \in Sources : \/ check'[q].owner = check[q].owner
                             \/ check'[q].owner = t /\ q = s
      BY <1>3, <2>2
    <2> QED BY <1>2, <1>3, <1>5, <2>3, <2>4, MoveKeeps DEF Pcs
  <1> QED BY <1>4, <1>5 DEF Work

LEMMA ReturnKeeps ==
    ASSUME TasksOK, NEW t \in Threads, CoalescedReturns(t)
    PROVE  TasksOK'
  <1>1. task[t].pc = "coalesced" /\ task' = [task EXCEPT ![t].pc = "ran"]
    BY DEF CoalescedReturns
  <1>2. UNCHANGED <<busy, check, stopped>> /\ check \in [Sources -> Check]
    BY DEF CoalescedReturns, TasksOK, TasksTypeOK
  <1> QED BY <1>1, <1>2, MoveKeeps DEF Pcs

LEMMA OutcomeKeeps ==
    ASSUME TasksOK, NEW t \in Threads, Outcome(t)
    PROVE  TasksOK'
  <1>1. task[t].pc = "ran" /\ task' = [task EXCEPT ![t].pc = "ending"]
    BY DEF Outcome
  <1>2. /\ busy' \subseteq busy /\ UNCHANGED <<check, stopped>>
        /\ check \in [Sources -> Check]
    BY DEF Outcome, TasksOK, TasksTypeOK
  <1> QED BY <1>1, <1>2, MoveKeeps DEF Pcs

LEMMA EndTaskKeeps ==
    ASSUME TasksOK, NEW t \in Threads, EndTask(t)
    PROVE  TasksOK'
  <1>1. /\ task[t].pc = "ending" /\ task' = [task EXCEPT ![t] = Free]
        /\ busy' = busy \ {task[t].row} /\ UNCHANGED <<check, stopped>>
    BY DEF EndTask
  <1>2. Free \in Task /\ Free.pc = "idle"
    BY InboxAssumption DEF Free, Task, Pcs
  <1>3. task \in [Threads -> Task]
    BY DEF TasksOK, TasksTypeOK
  <1>4. /\ task' \in [Threads -> Task]
        /\ task'[t].pc = "idle"
        /\ \A u \in Threads \ {t} : task'[u] = task[u]
    BY <1>1, <1>2, <1>3
  <1>5. TasksTypeOK'
    BY <1>1, <1>4 DEF TasksOK, TasksTypeOK
  <1>6. ChecksAreOwned'
    BY <1>1, <1>4 DEF TasksOK, ChecksAreOwned
  <1>7. Tasked \ {task[t].row} \subseteq Tasked'
    BY <1>4 DEF Tasked
  <1>8. OneTaskPerRow'
    BY <1>1, <1>4, <1>7 DEF TasksOK, OneTaskPerRow
  <1> QED BY <1>5, <1>6, <1>8 DEF TasksOK

LEMMA RestartKeepsTasks ==
    ASSUME Restart
    PROVE  TasksOK'
  <1>1. Free \in Task /\ Free.pc = "idle"
    BY InboxAssumption DEF Free, Task, Pcs
  <1>2. [pc |-> "none", owner |-> Nobody] \in Check
    BY DEF Check
  <1>3. TasksTypeOK'
    BY <1>1, <1>2 DEF Restart, TasksTypeOK
  <1>4. ChecksAreOwned'
    BY InboxAssumption DEF Restart, ChecksAreOwned
  <1>5. OneTaskPerRow'
    BY <1>1 DEF Restart, OneTaskPerRow
  <1> QED BY <1>3, <1>4, <1>5 DEF TasksOK

-----------------------------------------------------------------------------
(* The service as a whole. *)

LEMMA RowStepKeeps ==
    ASSUME InboxInv, NEW r \in Rows,
           \/ \E content \in Contents : Publish(r, content)
           \/ Resolve(r)
           \/ UserDecides(r)
           \/ SnoozeEnds(r)
           \/ \E t \in Threads : Admit(t, r),
           Remember(alerts \ alerts')
    PROVE  InboxInv'
  <1> USE DEF InboxInv
  <1>1. stopped \in BOOLEAN
    BY DEF TasksOK, TasksTypeOK
  <1>2. CASE \E content \in Contents : Publish(r, content)
    <2>1. PICK content \in Contents : Publish(r, content)
      BY <1>2
    <2>2. busy' \subseteq busy /\ UNCHANGED <<task, check, stopped>>
      BY <2>1, CommitClears DEF Publish, Stage
    <2> QED BY <1>1, <2>1, <2>2, PublishKeeps, OtherStepKeeps
  <1>3. CASE Resolve(r)
    <2>1. busy' \subseteq busy /\ UNCHANGED <<task, check, stopped>>
      BY <1>3, CommitClears DEF Resolve, Stage
    <2> QED BY <1>1, <1>3, <2>1, ResolveKeeps, OtherStepKeeps
  <1>4. CASE UserDecides(r)
    <2>1. busy' \subseteq busy /\ UNCHANGED <<task, check, stopped>>
      BY <1>4, CommitClears DEF UserDecides
    <2> QED BY <1>1, <1>4, <2>1, DecisionKeeps, OtherStepKeeps
  <1>5. CASE SnoozeEnds(r)
    <2>1. busy' \subseteq busy /\ UNCHANGED <<task, check, stopped>>
      BY <1>5 DEF SnoozeEnds
    <2> QED BY <1>1, <1>5, <2>1, SnoozeKeeps, OtherStepKeeps
  <1>6. CASE \E t \in Threads : Admit(t, r)
    <2>1. PICK t \in Threads : Admit(t, r)
      BY <1>6
    <2>2. UNCHANGED <<mem, disk, alerts>>
      BY <2>1 DEF Admit
    <2>3. mem[r].revision \in 0..MaxRevision
      BY DEF MemoryOK, MemoryTypeOK, Whole, Row
    <2> QED BY <2>1, <2>2, <2>3, StillKeeps, AdmitKeeps
  <1> QED BY <1>2, <1>3, <1>4, <1>5, <1>6

LEMMA CheckStepKeeps ==
    ASSUME InboxInv, NEW s \in Sources, Scheduled(s) \/ FinishProbe(s) \/ EndCheck(s),
           Remember(alerts \ alerts')
    PROVE  InboxInv'
  <1> USE DEF InboxInv
  <1>1. CASE Scheduled(s)
    <2>1. UNCHANGED <<mem, disk, alerts>>
      BY <1>1 DEF Scheduled
    <2> QED BY <1>1, <2>1, StillKeeps, ScheduledKeeps
  <1>2. CASE FinishProbe(s)
    BY <1>2, ProbeKeeps, FinishKeeps
  <1>3. CASE EndCheck(s)
    <2>1. UNCHANGED <<mem, disk, alerts>>
      BY <1>3 DEF EndCheck
    <2> QED BY <1>3, <2>1, StillKeeps, EndCheckKeeps
  <1> QED BY <1>1, <1>2, <1>3

LEMMA TaskStepKeeps ==
    ASSUME InboxInv, NEW t \in Threads, TaskStep(t) \/ CoalescedReturns(t),
           Remember(alerts \ alerts')
    PROVE  InboxInv'
  <1> USE DEF InboxInv
  <1>1. CASE Look(t)
    <2>1. UNCHANGED <<mem, disk, alerts>>
      BY <1>1 DEF Look
    <2> QED BY <1>1, <2>1, StillKeeps, LookKeeps
  <1>2. CASE Work(t)
    <2>1. UNCHANGED <<mem, disk, alerts>>
      BY <1>2 DEF Work
    <2> QED BY <1>2, <2>1, StillKeeps, WorkKeeps
  <1>3. CASE Outcome(t)
    <2>1. mem' \in Pruned(mem) /\ disk' \in {disk, mem'} /\ alerts' = alerts
      BY <1>3 DEF Outcome
    <2> QED BY <1>3, <2>1, PruneKeeps, OutcomeKeeps
  <1>4. CASE EndTask(t)
    <2>1. UNCHANGED <<mem, disk, alerts>>
      BY <1>4 DEF EndTask
    <2> QED BY <1>4, <2>1, StillKeeps, EndTaskKeeps
  <1>5. CASE CoalescedReturns(t)
    <2>1. UNCHANGED <<mem, disk, alerts>>
      BY <1>5 DEF CoalescedReturns
    <2> QED BY <1>5, <2>1, StillKeeps, ReturnKeeps
  <1> QED BY <1>1, <1>2, <1>3, <1>4, <1>5 DEF TaskStep

LEMMA ProcessStepKeeps ==
    ASSUME InboxInv, (\E a \in alerts : Alert(a)) \/ List \/ Stop,
           Remember(alerts \ alerts')
    PROVE  InboxInv'
  <1> USE DEF InboxInv
  <1>1. stopped \in BOOLEAN
    BY DEF TasksOK, TasksTypeOK
  <1>2. CASE \E a \in alerts : Alert(a)
    <2>1. /\ UNCHANGED <<mem, disk, busy, task, check, stopped>>
          /\ alerts' \subseteq alerts
      BY <1>2 DEF Alert
    <2> QED BY <1>1, <2>1, StillKeeps, OtherStepKeeps
  <1>3. CASE List
    <2>1. /\ mem' \in Pruned(mem)
          /\ UNCHANGED <<disk, busy, task, check, alerts, stopped>>
      BY <1>3 DEF List
    <2> QED BY <1>1, <2>1, PruneKeeps, OtherStepKeeps
  <1>4. CASE Stop
    <2>1. UNCHANGED <<mem, disk, busy, task, check, alerts>> /\ stopped' = TRUE
      BY <1>4 DEF Stop
    <2> QED BY <2>1, StillKeeps, OtherStepKeeps
  <1> QED BY <1>2, <1>3, <1>4

LEMMA InboxNext ==
    ASSUME InboxInv, [Next]_vars
    PROVE  InboxInv'
  <1>1. CASE ServiceStep /\ Remember(alerts \ alerts')
    BY <1>1, RowStepKeeps, CheckStepKeeps, TaskStepKeeps, ProcessStepKeeps
       DEF ServiceStep
  <1>2. CASE Restart /\ Remember({})
    BY <1>2, RestartKeepsMemory, RestartKeepsTasks DEF InboxInv
  <1>3. CASE UNCHANGED vars
    BY <1>3 DEF vars, InboxInv, MemoryOK, MemoryTypeOK, DiskLeads, Present, ToldIsPast,
                RevisionNamesContent, AlertsArePast, AlertOnce, TasksOK, TasksTypeOK,
                ChecksAreOwned, OneTaskPerRow, Tasked
  <1> QED BY <1>1, <1>2, <1>3 DEF Next

\* The inductive invariant of the inbox holds always: rows are whole, the file is
\* never behind them, the histories are of the past, and tasks, marks and checks
\* belong together.
THEOREM InboxAlways == Spec => []InboxInv
  <1>1. Init => InboxInv
    BY MemoryInit, TasksInit DEF InboxInv
  <1> QED BY <1>1, InboxNext, PTL DEF Spec

\* No two threads ever act on one finding, and every busy mark has a thread that
\* will clear it: for any number of findings, sources and threads.
THEOREM OneTaskAlways == Spec => []OneTaskPerRow
  <1>1. InboxInv => OneTaskPerRow
    BY DEF InboxInv, TasksOK
  <1> QED BY <1>1, InboxAlways, PTL

\* Whatever saves failed, an unresolved finding that was shown is in the file, in
\* this revision or a later one.
THEOREM SavedAlways == Spec => []SavedBeforeShown
  <1>1. InboxInv => SavedBeforeShown
    <2> SUFFICES ASSUME InboxInv, NEW r \in Unresolved(mem)
                 PROVE  disk[r].revision >= mem[r].revision
      BY DEF SavedBeforeShown
    <2>1. r \in Present(mem) /\ Follows(mem[r], disk[r])
      BY DEF InboxInv, MemoryOK, DiskLeads, Unresolved
    <2>2. mem[r].revision \in Nat /\ disk[r].revision \in Nat
      BY <2>1 DEF InboxInv, MemoryOK, MemoryTypeOK, Whole, Row, Present
    <2> QED BY <2>1, <2>2 DEF Follows
  <1> QED BY <1>1, InboxAlways, PTL

\* An id and a revision name one content for as long as the row lives, across
\* failed saves and restarts.
THEOREM RevisionsAlways == Spec => []RevisionNamesContent
  <1>1. InboxInv => RevisionNamesContent
    BY DEF InboxInv, MemoryOK
  <1> QED BY <1>1, InboxAlways, PTL

\* No notification is on its way for a revision the user was alerted of before.
THEOREM AlertsAlways == Spec => []AlertOnce
  <1>1. InboxInv => AlertOnce
    BY DEF InboxInv, MemoryOK
  <1> QED BY <1>1, InboxAlways, PTL
==============================================================================
