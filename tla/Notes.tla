--------------------------------- MODULE Notes ---------------------------------
(***************************************************************************)
(* Seele Notes: the store of the window (projects/notes/NotesStore.qml),   *)
(* the worker that owns the vault (projects/tools/src/notes.rs), and       *)
(* another editor of the same files, which is external.                    *)
(*                                                                         *)
(* The store holds one open document and sends requests down a pipe; the   *)
(* worker answers them in order, so an answer may meet a store that moved  *)
(* on.  The worker compares a note with the baseline before it replaces    *)
(* it; the other editor may write in between.                              *)
(*                                                                         *)
(* Abstractions.  A digest is the text.  Every publication of a new file   *)
(* takes a free name.  Any write or read of a note may fail: it may hold   *)
(* no UTF-8, be too large, or not be permitted.  Recordings, attachments,  *)
(* the search, the view of the trash, the cache of summaries, the          *)
(* migration of old notes and the choice of the vault are left out, as is  *)
(* a worker that dies.                                                     *)
(***************************************************************************)
EXTENDS Naturals, Sequences, FiniteSets, SequencesExt

CONSTANTS
    Names,        \* the paths of notes
    NoName,       \* the path of a capture without a file
    Texts,        \* what a document may say
    Blank,        \* the empty text
    Absent,       \* the text of a file that is not there
    MaxTyped,     \* bound: edits by the user
    MaxSends,     \* bound: steps of the user that may send requests
    MaxEvents     \* bound: writes of the other editor, listings, failed requests

ASSUME NotesAssumption ==
    /\ NoName \notin Names
    /\ Blank \in Texts
    /\ Absent \notin Texts
    /\ MaxTyped \in Nat /\ MaxSends \in Nat /\ MaxEvents \in Nat

VARIABLES
    editor,    \* the store: the document, its state, and the requests it sent
    replies,   \* the answers on their way
    writing,   \* the worker's save between its comparison and its replacement
    vault,     \* the text of each note
    recovery,  \* the recovery draft of each note
    trash,     \* the trashed files, and whether the index lists them
    spent,     \* the bounded steps so far
    unlisted,  \* the watcher saw changes since the last listing
    kept       \* history: the texts that notes had, as the worker saw or made them

notesVars == <<editor, replies, writing, vault, recovery, trash, spent, unlisted,
              kept>>

Nowhere == [active |-> FALSE, path |-> NoName, text |-> Blank, base |-> Absent,
            reply |-> NoName, op |-> "none", raced |-> FALSE, unread |-> FALSE]

Free(files) == {n \in Names : files[n] = Absent}

-----------------------------------------------------------------------------
(* The store.  Its functions work on the record and append what they send. *)

Post(s, request) == [s EXCEPT !.out = Append(@, request)]

Flush(s) ==
    IF s.state \notin {"dirty", "failed"} THEN s
    ELSE IF s.path = NoName /\ s.draft = Blank THEN [s EXCEPT !.state = "idle"]
    ELSE Post([s EXCEPT !.state = "saving"],
              [op |-> "save", path |-> s.path, text |-> s.draft, base |-> s.base,
               of |-> s.shown])

\* A new document, that has no file yet; shown tells the documents apart.
Blanked(s) ==
    [s EXCEPT !.path = NoName, !.base = Absent, !.draft = Blank, !.conflict = FALSE,
              !.state = "idle", !.captures = @ + 1, !.shown = s.captures + 1]

Select(s, n) ==
    IF n = s.path THEN s
    ELSE Post([Flush(s) EXCEPT !.conflict = FALSE, !.path = n], [op |-> "read", path |-> n])

\* An unsaved note waits for its save before it is trashed.
TrashNote(s) ==
    IF s.path = NoName THEN s
    ELSE IF s.state \in {"dirty", "saving", "failed"}
           THEN Flush([s EXCEPT !.trashing = TRUE])
           ELSE Post(s, [op |-> "trash", path |-> s.path])

Loaded(s, reply) ==
    [s EXCEPT !.path = reply.path, !.base = reply.text, !.draft = reply.text,
              !.conflict = FALSE, !.state = "idle", !.shown = reply.path]

\* Mutant of AckState: a save's acknowledgement is taken for the editor's text.
AckStateAnyway(s, reply) == "saved"

\* Only the exact text that the worker wrote is saved.
AckState(s, reply) == IF reply.text = s.draft THEN "saved" ELSE "dirty"

Acknowledged(s, reply) ==
    LET t == [s EXCEPT !.path = reply.path, !.base = reply.text, !.conflict = FALSE,
                       !.state = AckState(s, reply),
                       !.shown = IF reply.of = @ THEN reply.path ELSE @]
    IN IF t.trashing THEN TrashNote([t EXCEPT !.trashing = FALSE]) ELSE t

AfterTrash(s, files) ==
    LET t == [s EXCEPT !.conflict = FALSE, !.state = "idle", !.path = NoName, !.base = Absent]
        others == {n \in Names \ {s.path} : files[n] # Absent}
    IN IF others = {} THEN Blanked(t) ELSE Select(t, CHOOSE n \in others : TRUE)

\* A listing after a change: an external edit refreshes a clean note.
Listed(s, files) ==
    IF s.path = NoName THEN s
    ELSE IF files[s.path] = Absent
      THEN IF s.state \in {"dirty", "saving", "conflict"} THEN [s EXCEPT !.state = "gone"]
           ELSE [Blanked(s) EXCEPT !.state = s.state, !.conflict = s.conflict]
    ELSE IF files[s.path] # s.base /\ s.state \notin {"dirty", "saving", "conflict"}
      THEN Post(s, [op |-> "read", path |-> s.path])
    ELSE s

Failed(s, reply) ==
    [s EXCEPT !.trashing = FALSE,
              !.state = IF reply.op \in {"save", "resolve"} THEN "failed" ELSE @]

Received(s, reply) ==
    CASE reply.kind = "document" -> Loaded(s, reply)
      [] reply.kind = "saved" -> Acknowledged(s, reply)
      [] reply.kind = "conflict" -> [s EXCEPT !.conflict = TRUE, !.state = "conflict",
                                              !.disputed = reply.path]
      [] reply.kind = "gone" -> [s EXCEPT !.state = "gone"]
      [] reply.kind = "trashed" -> AfterTrash(s, reply.files)
      [] reply.kind = "restored" -> Select([s EXCEPT !.conflict = FALSE], reply.path)
      [] reply.kind = "listing" -> Listed(s, reply.files)
      [] reply.kind = "failed" -> Failed(s, reply)

Receive ==
    /\ replies # <<>>
    /\ editor' = Received(editor, Head(replies))
    /\ replies' = Tail(replies)
    /\ UNCHANGED <<writing, vault, recovery, trash, spent, kept>>

-----------------------------------------------------------------------------
(* The user. *)

Spend(what, limit) == spent[what] < limit /\ spent' = [spent EXCEPT ![what] = @ + 1]

UserSends(s) ==
    /\ Spend("sends", MaxSends)
    /\ editor' = s
    /\ UNCHANGED <<replies, writing, vault, recovery, trash, kept>>

Type(text) ==
    /\ Spend("typed", MaxTyped)
    /\ text # editor.draft
    /\ editor' = [editor EXCEPT !.draft = text,
                    !.state = IF @ \in {"conflict", "gone"} THEN @ ELSE "dirty"]
    /\ UNCHANGED <<replies, writing, vault, recovery, trash, kept>>

\* The autosave, or a retry.
Autosave == editor.state \in {"dirty", "failed"} /\ UserSends(Flush(editor))

NewNote == UserSends(Blanked(Flush(editor)))

OpenNote(n) == n # editor.path /\ vault[n] # Absent /\ UserSends(Select(editor, n))

ResolveConflict(mode) ==
    /\ editor.conflict
    /\ UserSends(Post(editor, [op |-> "resolve", mode |-> mode, path |-> editor.disputed,
                               text |-> editor.draft, of |-> editor.shown]))

TrashOpen == editor.path # NoName /\ UserSends(TrashNote(editor))

RestoreTrashed(i) ==
    /\ i \in DOMAIN trash /\ trash[i].listed
    /\ UserSends(Post(editor, [op |-> "restore", id |-> i]))

\* The file was moved or deleted elsewhere: the text becomes a new note.
SaveAsNew ==
    /\ editor.state = "gone"
    /\ UserSends(Flush([editor EXCEPT !.path = NoName, !.base = Absent, !.state = "dirty",
                          !.captures = @ + 1, !.shown = editor.captures + 1]))

\* The window is closed: what could not be saved becomes a recovery draft.
CloseWindow ==
    LET s == Flush(editor) IN
      UserSends(IF s.path # NoName /\ s.draft # Blank /\ s.state \in {"conflict", "gone"}
                  THEN Post(s, [op |-> "draft", path |-> s.path, text |-> s.draft]) ELSE s)

-----------------------------------------------------------------------------
(* The worker. *)

Request == Head(editor.out)

\* The oldest request is answered.
Take(op) ==
    /\ ~writing.active
    /\ editor.out # <<>>
    /\ Request.op = op
    /\ editor' = [editor EXCEPT !.out = Tail(@)]

\* Any write may fail.
Succeeds == UNCHANGED spent
Faults == Spend("events", MaxEvents)

Say(reply) == replies' = Append(replies, reply)

SavedAs(n) == [kind |-> "saved", path |-> n, text |-> Request.text, of |-> Request.of]

\* The answer describes the note, which is read again for it: that may fail after
\* the work is done.
Answer(reply, op) ==
    \/ Succeeds /\ Say(reply)
    \/ Faults /\ Say([kind |-> "failed", op |-> op])

Keep(text) == kept' = kept \cup {text}

Fail(op) ==
    /\ Take(op) /\ Faults
    /\ Say([kind |-> "failed", op |-> op])
    /\ UNCHANGED <<writing, vault, recovery, trash, kept>>

\* A capture earns its filename.
CreateNote ==
    /\ Take("save")
    /\ Request.path = NoName
    /\ \E n \in Free(vault) :
         /\ vault' = [vault EXCEPT ![n] = Request.text]
         /\ Answer(SavedAs(n), "save")
         /\ Keep(Request.text)
    /\ UNCHANGED <<writing, recovery, trash>>

\* Mutant of SameAsBaseline: a note that is there may be replaced.
SameIfThere(request) == vault[request.path] # Absent

SameAsBaseline(request) ==
    vault[request.path] # Absent /\ vault[request.path] = request.base

\* A note that is gone, or changed since the baseline, is not overwritten.
RefuseSave ==
    /\ Take("save") /\ Succeeds
    /\ Request.path # NoName /\ ~SameAsBaseline(Request)
    /\ recovery' = [recovery EXCEPT ![Request.path] = Request.text]
    /\ Say(IF vault[Request.path] = Absent THEN [kind |-> "gone"]
           ELSE [kind |-> "conflict", path |-> Request.path])
    /\ UNCHANGED <<writing, vault, trash, kept>>

SaveUnchanged ==
    /\ Take("save")
    /\ Request.path # NoName /\ SameAsBaseline(Request)
    /\ vault[Request.path] = Request.text
    /\ recovery' = [recovery EXCEPT ![Request.path] = Absent]
    /\ Answer(SavedAs(Request.path), "save")
    /\ Keep(Request.text)
    /\ UNCHANGED <<writing, vault, trash>>

StartWrite(base, unread) ==
    writing' = [active |-> TRUE, path |-> Request.path, text |-> Request.text, base |-> base,
                reply |-> Request.of, op |-> Request.op, raced |-> FALSE, unread |-> unread]

BeginSave ==
    /\ Take("save") /\ Succeeds
    /\ Request.path # NoName /\ SameAsBaseline(Request)
    /\ vault[Request.path] # Request.text
    /\ StartWrite(Request.base, FALSE)
    /\ UNCHANGED <<replies, vault, recovery, trash, kept>>

Replace ==
    /\ writing.active
    /\ vault' = [vault EXCEPT ![writing.path] = writing.text]
    /\ recovery' = [recovery EXCEPT ![writing.path] = Absent]
    /\ Answer([kind |-> "saved", path |-> writing.path, text |-> writing.text,
               of |-> writing.reply], writing.op)
    /\ Keep(writing.text)
    /\ writing' = Nowhere
    /\ UNCHANGED <<editor, trash>>

\* The file system refuses; the text of a save goes to the recovery drafts.
ReplaceFails ==
    /\ writing.active
    /\ recovery' = IF writing.op = "save"
                     THEN [recovery EXCEPT ![writing.path] = writing.text] ELSE recovery
    /\ Say([kind |-> "failed", op |-> writing.op])
    /\ writing' = Nowhere
    /\ Faults
    /\ UNCHANGED <<editor, vault, trash, kept>>

\* Three ways out of a conflict.
ResolveCopy ==
    /\ Take("resolve") /\ Request.mode = "copy"
    /\ \E n \in Free(vault) :
         /\ vault' = [vault EXCEPT ![n] = Request.text]
         /\ Answer(SavedAs(n), "resolve")
         /\ Keep(Request.text)
    /\ recovery' = [recovery EXCEPT ![Request.path] = Absent]
    /\ UNCHANGED <<writing, trash>>

\* What the other version is taken for: a note that cannot be read, whatever the
\* reason, counts as empty.
TakenFor(text) == IF text = Absent THEN {Blank} ELSE {text, Blank}

\* Mutant of Aside: the other version is replaced without a copy.
AsideForgotten(files, text) == {files}

\* The other version is copied to a name of its own, unless it is empty.
Aside(files, text) ==
    IF text = Blank THEN {files} ELSE {[files EXCEPT ![m] = text] : m \in Free(files)}

ResolveMine ==
    /\ Take("resolve") /\ Succeeds /\ Request.mode = "mine"
    /\ LET found == vault[Request.path] IN
         \E text \in TakenFor(found) :
           /\ vault' \in Aside(vault, text)
           /\ StartWrite(IF vault' = vault THEN Absent ELSE found, found \notin {Absent, text})
    /\ UNCHANGED <<replies, recovery, trash, kept>>

ResolveTheirs ==
    /\ Take("resolve") /\ Request.mode = "theirs"
    /\ vault[Request.path] # Absent
    /\ recovery' = [recovery EXCEPT ![Request.path] = Request.text]
    /\ Answer([kind |-> "document", path |-> Request.path, text |-> vault[Request.path]],
              "resolve")
    /\ Keep(vault[Request.path])
    /\ UNCHANGED <<writing, vault, trash>>

ReadNote ==
    /\ Take("read") /\ Succeeds
    /\ vault[Request.path] # Absent
    /\ Say([kind |-> "document", path |-> Request.path, text |-> vault[Request.path]])
    /\ Keep(vault[Request.path])
    /\ UNCHANGED <<writing, vault, recovery, trash>>

\* The file moves first, then the index is written, which may fail: then the
\* file is in the trash and nothing lists it.
MoveToTrash(listed) ==
    /\ Take("trash") /\ IF listed THEN Succeeds ELSE Faults
    /\ vault[Request.path] # Absent
    /\ trash' = Append(trash, [origin |-> Request.path, text |-> vault[Request.path],
                               listed |-> listed])
    /\ vault' = [vault EXCEPT ![Request.path] = Absent]
    /\ IF listed
         THEN /\ recovery' = [recovery EXCEPT ![Request.path] = Absent]
              /\ Say([kind |-> "trashed", files |-> vault'])
         ELSE /\ Say([kind |-> "failed", op |-> "trash"])
              /\ UNCHANGED recovery
    /\ UNCHANGED <<writing, kept>>

MoveBack(saved) ==
    /\ Take("restore") /\ IF saved THEN Succeeds ELSE Faults
    /\ Request.id \in DOMAIN trash
    /\ LET origin == trash[Request.id].origin
           places == IF vault[origin] = Absent THEN {origin} ELSE Free(vault)
       IN \E n \in places :
            /\ vault' = [vault EXCEPT ![n] = trash[Request.id].text]
            /\ Say(IF saved THEN [kind |-> "restored", path |-> n]
                            ELSE [kind |-> "failed", op |-> "restore"])
    /\ trash' = RemoveAt(trash, Request.id)
    /\ UNCHANGED <<writing, recovery, kept>>

KeepDraft ==
    /\ Take("draft") /\ Succeeds
    /\ recovery' = [recovery EXCEPT ![Request.path] = Request.text]
    /\ UNCHANGED <<replies, writing, vault, trash, kept>>

\* The watcher saw a change, of the other editor or of its own worker, and the
\* directory is listed again, without the notes that cannot be read.
List ==
    /\ ~writing.active
    /\ unlisted
    /\ unlisted' = FALSE
    /\ Spend("events", MaxEvents)
    /\ \E unreadable \in SUBSET Names :
         Say([kind |-> "listing",
              files |-> [n \in Names |-> IF n \in unreadable THEN Absent ELSE vault[n]]])
    /\ UNCHANGED <<editor, writing, vault, recovery, trash, kept>>

\* The other editor writes or removes a note.
OtherWrites(n, text) ==
    /\ Spend("events", MaxEvents)
    /\ text # vault[n]
    /\ vault' = [vault EXCEPT ![n] = text]
    /\ writing' = [writing EXCEPT !.raced = @ \/ (writing.active /\ writing.path = n)]
    /\ UNCHANGED <<editor, replies, recovery, trash, kept>>

-----------------------------------------------------------------------------

NewCapture ==
    [path |-> NoName, draft |-> Blank, base |-> Absent, state |-> "idle",
     conflict |-> FALSE, disputed |-> NoName, trashing |-> FALSE,
     captures |-> 0, shown |-> 0, out |-> <<>>]

\* The window starts with a new capture, or has opened the one note there is;
\* another one is in the trash.  Names and texts are interchangeable.
NotesInit ==
    /\ LET n == CHOOSE n \in Names : TRUE
           text == CHOOSE text \in Texts : text # Blank
       IN /\ vault = [m \in Names |-> IF m = n THEN text ELSE Absent]
          /\ editor \in {NewCapture, [NewCapture EXCEPT !.path = n, !.draft = text,
                                       !.base = text, !.shown = n]}
          /\ trash \in {<<[origin |-> m, text |-> text, listed |-> TRUE]>> : m \in Names \ {n}}
    /\ replies = <<>>
    /\ writing = Nowhere
    /\ recovery = [n \in Names |-> Absent]
    /\ spent = [typed |-> 0, sends |-> 0, events |-> 0]
    /\ unlisted = FALSE
    /\ kept = {}

User ==
    \/ \E text \in Texts : Type(text)
    \/ Autosave \/ NewNote \/ TrashOpen \/ SaveAsNew \/ CloseWindow
    \/ \E n \in Names : OpenNote(n)
    \/ \E mode \in {"copy", "mine", "theirs"} : ResolveConflict(mode)
    \/ \E i \in DOMAIN trash : RestoreTrashed(i)

Worker ==
    \/ \E op \in {"save", "resolve", "read", "trash", "restore"} : Fail(op)
    \/ CreateNote \/ RefuseSave \/ SaveUnchanged \/ BeginSave \/ Replace \/ ReplaceFails
    \/ ResolveCopy \/ ResolveMine \/ ResolveTheirs \/ ReadNote
    \/ \E done \in BOOLEAN : MoveToTrash(done) \/ MoveBack(done)
    \/ KeepDraft

NotesNext ==
    \/ List
    \/ /\ \/ User \/ Receive \/ Worker
          \/ \E n \in Names, text \in Texts \cup {Absent} : OtherWrites(n, text)
       /\ unlisted' = (unlisted \/ vault' # vault)

NotesSpec == NotesInit /\ [][NotesNext]_notesVars

-----------------------------------------------------------------------------
(* Properties. *)

Somewhere(text) ==
    (\E n \in Names : vault'[n] = text) \/ \E i \in DOMAIN trash' : trash'[i].text = text

\* The worker never destroys what another editor wrote: a text that leaves a
\* note was the baseline the user's text was made from, or is still in another
\* note or in the trash, or came in the documented gap between the comparison
\* and the replacement, or could not be read by the resolution that replaces it
\* (the exception that ResolvesKeepBoth refuses).
OtherTextsSurvive ==
    [][Worker => \A n \in Names :
         vault[n] \in {Absent, Blank} \/ vault'[n] = vault[n]
         \/ Somewhere(vault[n])
         \/ (writing.active /\ writing.path = n
               /\ (vault[n] = writing.base \/ writing.raced \/ writing.unread))]_notesVars

\* When the window says that its document is saved, exactly the text that is in
\* the editor was in a note: an acknowledgement of an older text does not count
\* for what was typed since.
SavedIsKept == editor.state = "saved" => editor.draft \in kept \cup {Blank}

\* "Save acknowledgements carry request IDs so an older response cannot
\* replace newer edits" (README.md): what the worker writes over a note was
\* typed in that note, not in another document whose path an older
\* acknowledgement set.
SavesItsOwnNote ==
    [][Replace /\ writing.op = "save" => writing.reply = writing.path]_notesVars

\* "The three ways out of a conflict. Each of them keeps both versions."
\* (notes.rs:1077): the version that a resolution replaces was copied before, or
\* was empty, or came in after the resolution looked at the note.
ResolvesKeepBoth ==
    [][Replace /\ writing.op = "resolve" =>
         \/ vault[writing.path] \in {Absent, Blank, writing.base}
         \/ writing.raced]_notesVars
===============================================================================
