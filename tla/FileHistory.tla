---------------------------- MODULE FileHistory ----------------------------
(***************************************************************************)
(* chef_human/tools: the files of the workspace, the tools that change     *)
(* them, the session's store of changes (diff.py, DiffStore) and the tools *)
(* that undo and redo (undo.py, redo.py).  The loop dispatches one tool    *)
(* call after the other and a tool does not wait halfway, so an action is  *)
(* a whole call.  Contents are values; diffs, reports and time stamps are  *)
(* left out.                                                               *)
(***************************************************************************)
EXTENDS Naturals, Sequences, SequencesExt, FiniteSets

CONSTANTS
    Files,
    Texts,          \* what a file may hold that reads as UTF-8
    Empty,          \* the text of no characters
    Opaque,         \* bytes that do not read as UTF-8
    Absent,         \* no file; "None" as a content
    Batch,          \* an entry's path when it is a label, not a file
    MaxEntries      \* bound on the entries of both stacks together

ASSUME FilesAssumption ==
    /\ Empty \in Texts /\ {Opaque, Absent} \cap Texts = {} /\ Opaque # Absent
    /\ Batch \notin Files
    /\ MaxEntries \in Nat

VARIABLES
    disk,           \* the content of each file
    entries,        \* DiffStore._entries
    redo,           \* DiffStore._redo_stack
    base,           \* history: the disk the session began with
    clean           \* history: so far every change was recorded, and what was
                    \* undone was the last change of each of its files

stores   == <<entries, redo>>
history  == <<base, clean>>
fileVars == <<disk, stores, history>>

Contents == Texts \cup {Opaque, Absent}
Change   == [old : Texts \cup {Absent}, new : Texts \cup {Absent}]
\* A change per file of F: a transaction of the store touches no file twice.
Changes  == UNION {[F -> Change] : F \in (SUBSET Files) \ {{}}}
Entry    == [path : Files \cup {Batch}, changes : Changes]

\* The type of the state: what a store records always reads as text.
FileTypeOK ==
    /\ disk \in [Files -> Contents]
    /\ entries \in Seq(Entry) /\ redo \in Seq(Entry)
    /\ base \in [Files -> Contents]
    /\ clean \in BOOLEAN

FileInit ==
    /\ disk \in [Files -> Contents]
    /\ entries = <<>>
    /\ redo = <<>>
    /\ base = disk
    /\ clean = TRUE

\* Slip: bytes that are no text are read with replacement characters.
Present == {f \in Files : disk[f] # Absent}

\* The files read_text reads.
Readable == {f \in Files : disk[f] \in Texts}

\* The disk with each file f of DOMAIN new at new[f].
Set(new) == [f \in Files |-> IF f \in DOMAIN new THEN new[f] ELSE disk[f]]
Old(changes) == [f \in DOMAIN changes |-> changes[f].old]
New(changes) == [f \in DOMAIN changes |-> changes[f].new]
Only(new, F) == [f \in F |-> new[f]]
One(f, content) == [g \in {f} |-> content]

-----------------------------------------------------------------------------
(* Recording.                                                              *)

\* Slip: a file that was not there is taken for an empty one.
AppendEntryBlank(path, new) ==
    /\ Len(entries) < MaxEntries
    /\ entries' = Append(entries, [path |-> path,
                     changes |-> [f \in DOMAIN new |->
                        [old |-> IF disk[f] = Absent THEN Empty ELSE disk[f], new |-> new[f]]]])
    /\ redo' = <<>>

\* _append_entry for the files of DOMAIN new.
AppendEntry(path, new) ==
    /\ Len(entries) < MaxEntries
    /\ entries' = Append(entries, [path |-> path,
                     changes |-> [f \in DOMAIN new |-> [old |-> disk[f], new |-> new[f]]]])
    /\ redo' = <<>>

Unrecorded(new) ==
    /\ disk' = Set(new)
    /\ clean' = (clean /\ disk' = disk)
    /\ UNCHANGED <<stores, base>>

\* compute_diff says nothing of a content that stays, and nothing of an empty
\* file that is new.
DiffOf(f, text) == text # (IF disk[f] = Absent THEN Empty ELSE disk[f])

-----------------------------------------------------------------------------
(* The tools that change files.  A call that fails before it writes leaves *)
(* everything alone and is not an action.  The loop reads what a write, an *)
(* edit or a patch is about to change, and such a call never gets as far   *)
(* as a file that does not read as UTF-8.                                  *)

Write(f, text) ==
    /\ disk[f] # Opaque
    /\ IF DiffOf(f, text)
       THEN /\ AppendEntry(f, One(f, text))
            /\ disk' = Set(One(f, text))
            /\ UNCHANGED history
       ELSE Unrecorded(One(f, text))

\* edit makes a file that is not there, and that is recorded even if empty.
EditNew(f, text) ==
    /\ disk[f] = Absent
    /\ AppendEntry(f, One(f, text))
    /\ disk' = Set(One(f, text))
    /\ UNCHANGED history

\* edit or patch of a file that is there.
Edit(f, text) ==
    /\ disk[f] \in Texts /\ DiffOf(f, text)
    /\ AppendEntry(f, One(f, text))
    /\ disk' = Set(One(f, text))
    /\ UNCHANGED history

\* lint_after_write: the write is taken back, its entry stays.
RolledBack(f, text) ==
    /\ disk[f] \in Texts /\ DiffOf(f, text)
    /\ AppendEntry(f, One(f, text))
    /\ clean' = FALSE
    /\ UNCHANGED <<disk, base>>

\* refactor_symbol: one entry under a label, for all files.
Refactor(new) ==
    /\ \A f \in DOMAIN new : f \in Readable /\ DiffOf(f, new[f])
    /\ AppendEntry(Batch, new)
    /\ disk' = Set(new)
    /\ UNCHANGED history

\* A file that does not read ends the rename where it is; a file that cannot be
\* written has the others restored, which may fail as well.
RefactorFails(new) ==
    /\ DOMAIN new \subseteq Readable
    /\ Unrecorded(new)

\* lint_fix: one entry, under the path if a single file changed.
LintFix(new) ==
    /\ \A f \in DOMAIN new : f \in Readable /\ DiffOf(f, new[f])
    /\ AppendEntry(IF Cardinality(DOMAIN new) = 1 THEN CHOOSE f \in DOMAIN new : TRUE
                   ELSE Batch, new)
    /\ disk' = Set(new)
    /\ UNCHANGED history

\* ruff is stopped by its timeout.
LintFixTimesOut(new) ==
    /\ DOMAIN new \subseteq Readable
    /\ Unrecorded(new)

\* A shell command, or someone at another terminal.
Shell(f, content) == Unrecorded(One(f, content))

-----------------------------------------------------------------------------
(* undo and redo.                                                          *)

Touching(f) == {i \in DOMAIN entries : f \in DOMAIN entries[i].changes}

\* _last_index: of the given path, or of all (Batch stands for no path).
LastIndex(p) ==
    {i \in DOMAIN entries : /\ p = Batch => i = Len(entries)
                            /\ p # Batch => /\ entries[i].path = p
                                            /\ \A j \in i + 1 .. Len(entries) : entries[j].path # p}

\* No later entry touches a file of entry i.
InOrder(i) == \A f \in DOMAIN entries[i].changes : \A j \in Touching(f) : j <= i

Undo(p) ==
    \E i \in LastIndex(p) :
        LET e == entries[i]
        IN  /\ \A f \in DOMAIN e.changes : disk[f] # Opaque
            /\ disk' = Set(Old(e.changes))
            /\ entries' = RemoveAt(entries, i)
            /\ redo' = Append(redo, e)
            /\ clean' = (clean /\ InOrder(i))
            /\ UNCHANGED base

\* When a transaction fails halfway through, the files set so far are restored,
\* but for the ones that cannot be: those keep what the transaction gave them.
Stuck(changes) == (SUBSET {f \in DOMAIN changes : disk[f] # Opaque}) \ {DOMAIN changes}

\* Slip: the entry is gone.
UndoFailsLosing(p) ==
    \E i \in LastIndex(p) : \E stuck \in Stuck(entries[i].changes) :
        /\ disk' = Set(Only(Old(entries[i].changes), stuck))
        /\ entries' = RemoveAt(entries, i)
        /\ clean' = (clean /\ disk' = disk)
        /\ UNCHANGED <<redo, base>>

\* A file cannot be read or written; the entry comes back as the last one.
UndoFails(p) ==
    \E i \in LastIndex(p) : \E stuck \in Stuck(entries[i].changes) :
        /\ disk' = Set(Only(Old(entries[i].changes), stuck))
        /\ entries' = Append(RemoveAt(entries, i), entries[i])
        /\ clean' = (clean /\ disk' = disk /\ InOrder(i))
        /\ UNCHANGED <<redo, base>>

Redo ==
    /\ redo # <<>>
    /\ LET e == Last(redo)
       IN  /\ \A f \in DOMAIN e.changes : disk[f] # Opaque
           /\ disk' = Set(New(e.changes))
           /\ entries' = Append(entries, e)
    /\ redo' = Front(redo)
    /\ UNCHANGED history

RedoFails ==
    /\ redo # <<>>
    /\ \E stuck \in Stuck(Last(redo).changes) :
          Unrecorded(Only(New(Last(redo).changes), stuck))

-----------------------------------------------------------------------------

\* What a batch may make of some readable files.
Rewrites == UNION {[F -> Texts] : F \in (SUBSET Readable) \ {{}}}

FileNext ==
    \/ \E f \in Files, text \in Texts :
          Write(f, text) \/ EditNew(f, text) \/ Edit(f, text) \/ RolledBack(f, text)
    \/ \E new \in Rewrites :
          Refactor(new) \/ RefactorFails(new) \/ LintFix(new) \/ LintFixTimesOut(new)
    \/ \E f \in Files, content \in Contents : Shell(f, content)
    \/ \E p \in Files \cup {Batch} : Undo(p) \/ UndoFails(p)
    \/ Redo \/ RedoFails

FileSpec == FileInit /\ [][FileNext]_fileVars

-----------------------------------------------------------------------------

\* diff.py, undo.py, redo.py: as long as every change of the disk is recorded
\* and undone in order, the two stacks hold the whole history of every file,
\* from what the session found to what is there and on to what can be redone,
\* without a gap, whatever undos and redos succeed, fail or fail halfway.
\* Undoing everything restores the workspace, and a redo never runs over a
\* change made after the undo.
HistoryIsComplete ==
    clean => \A f \in Files :
        /\ Touching(f) = {} => disk[f] = base[f]
        /\ \A i \in Touching(f) :
              LET later == {j \in Touching(f) : j > i}
                  change == entries[i].changes[f]
              IN  /\ later = {} => change.new = disk[f]
                  /\ \A j \in later : (\A k \in later : j <= k) =>
                        entries[j].changes[f].old = change.new
                  /\ (\A j \in Touching(f) : i <= j) => change.old = base[f]
        /\ \A i \in {i \in DOMAIN redo : f \in DOMAIN redo[i].changes} :
              LET sooner == {j \in DOMAIN redo : j > i /\ f \in DOMAIN redo[j].changes}
              IN  /\ sooner = {} => redo[i].changes[f].old = disk[f]
                  /\ \A j \in sooner : (\A k \in sooner : j <= k) =>
                        redo[j].changes[f].new = redo[i].changes[f].old

\* undo.py 44-55, redo.py 38-60: undo and redo, successful or not, only move an
\* entry between the two stacks and never lose or double one; nothing but a new
\* recorded change drops what could be redone.
NothingForgotten ==
    [][\/ redo' = <<>> /\ entries' # <<>> /\ entries = Front(entries')
       \/ ToBag(entries' \o redo') = ToBag(entries \o redo)]_fileVars

\* undo.py 26: "If set, undo the last change to this specific file."  The code
\* skips a transaction recorded under a label (_last_index compares paths), so
\* this fails: the change it undoes may lie below a later rename of that file.
UndoneWasLast ==
    [][Len(redo') > Len(redo) =>
          LET e == Last(redo')
          IN  e.path \in Files =>
                \A i \in Touching(e.path) :
                    (\A j \in Touching(e.path) : j <= i) => entries[i] = e]_fileVars
=============================================================================
