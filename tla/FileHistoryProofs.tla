------------------------- MODULE FileHistoryProofs -------------------------
(***************************************************************************)
(* The types of FileHistory, that the two stacks of the store hold the     *)
(* whole history of every file, and that no entry is lost or doubled, for  *)
(* any number of files, texts and entries.                                 *)
(***************************************************************************)
EXTENDS FileHistory, Functions, FiniteSetTheorems, SequenceTheorems, TLAPS

-----------------------------------------------------------------------------
(* Sequences of entries.                                                   *)

\* What is left is what was there, the entries above one place down.
LEMMA RemoveAtFacts ==
    ASSUME NEW S, NEW s \in Seq(S), NEW i \in DOMAIN s
    PROVE  /\ RemoveAt(s, i) \in Seq(S)
           /\ Len(RemoveAt(s, i)) = Len(s) - 1
           /\ DOMAIN RemoveAt(s, i) = 1 .. Len(s) - 1
           /\ \A k \in 1 .. Len(s) - 1 : RemoveAt(s, i)[k] = IF k < i THEN s[k] ELSE s[k + 1]
<1> DEFINE a == SubSeq(s, 1, i - 1)
           b == SubSeq(s, i + 1, Len(s))
<1>1. i \in 1 .. Len(s) /\ Len(s) \in Nat
  OBVIOUS
<1>2. a \in Seq(S) /\ Len(a) = i - 1 /\ \A k \in 1 .. i - 1 : a[k] = s[k]
  BY <1>1
<1>3. b \in Seq(S) /\ Len(b) = Len(s) - i /\ \A k \in 1 .. Len(s) - i : b[k] = s[k + i]
  BY <1>1
<1> HIDE DEF a, b
<1>4. RemoveAt(s, i) = a \o b
  BY DEF RemoveAt, a, b
<1>5. a \o b \in Seq(S) /\ Len(a \o b) = Len(s) - 1
  BY <1>1, <1>2, <1>3
<1>6. \A k \in 1 .. Len(s) - 1 : (a \o b)[k] = IF k < i THEN s[k] ELSE s[k + 1]
  BY <1>1, <1>2, <1>3
<1> QED  BY <1>4, <1>5, <1>6

LEMMA FrontFacts ==
    ASSUME NEW S, NEW s \in Seq(S), s # <<>>
    PROVE  /\ Front(s) \in Seq(S) /\ Len(Front(s)) = Len(s) - 1
           /\ \A k \in 1 .. Len(s) - 1 : Front(s)[k] = s[k]
           /\ Last(s) \in S /\ Last(s) = s[Len(s)] /\ Len(s) \in Nat \ {0}
<1>1. Len(s) \in Nat \ {0} /\ \A k \in 1 .. Len(s) : s[k] \in S
  OBVIOUS
<1>2. Front(s) = SubSeq(s, 1, Len(s) - 1)
  BY DEF Front
<1>3. /\ SubSeq(s, 1, Len(s) - 1) \in Seq(S) /\ Len(SubSeq(s, 1, Len(s) - 1)) = Len(s) - 1
      /\ \A k \in 1 .. Len(s) - 1 : SubSeq(s, 1, Len(s) - 1)[k] = s[k]
  <2>1. PICK n \in Nat : Len(s) = n + 1
    <3>1. \A m \in Nat \ {0} : m - 1 \in Nat /\ m = m - 1 + 1
      OBVIOUS
    <3> QED  BY <3>1, <1>1
  <2>2. n + 1 - 1 = n /\ \A k \in 1 .. n : s[k] \in S
    BY <1>1, <2>1
  <2>3. /\ SubSeq(s, 1, n) \in Seq(S)
        /\ Len(SubSeq(s, 1, n)) = IF 1 <= n THEN n - 1 + 1 ELSE 0
        /\ \A k \in 1 .. n - 1 + 1 : SubSeq(s, 1, n)[k] = s[1 + k - 1]
    BY <2>2, SubSeqProperties
  <2>4. Len(SubSeq(s, 1, n)) = n /\ \A k \in 1 .. n : SubSeq(s, 1, n)[k] = s[k]
    BY <2>3
  <2> QED  BY <2>1, <2>2, <2>3, <2>4
<1>4. Last(s) = s[Len(s)] /\ Last(s) \in S
  BY <1>1 DEF Last
<1> QED  BY <1>1, <1>2, <1>3, <1>4

-----------------------------------------------------------------------------
(* Types.                                                                  *)

\* What a file is given to hold beside what it held.
LEMMA ChangesType ==
    ASSUME FileTypeOK, NEW new, DOMAIN new \in (SUBSET Files) \ {{}},
           \A f \in DOMAIN new : new[f] \in Texts /\ disk[f] \in Texts \cup {Absent}
    PROVE  [f \in DOMAIN new |-> [old |-> disk[f], new |-> new[f]]] \in Changes
<1>1. [f \in DOMAIN new |-> [old |-> disk[f], new |-> new[f]]] \in [DOMAIN new -> Change]
  BY DEF Change
<1> QED  BY <1>1 DEF Changes

LEMMA ChangeType ==
    ASSUME NEW changes \in Changes
    PROVE  /\ DOMAIN changes \in SUBSET Files
           /\ \A f \in DOMAIN changes : /\ changes[f] \in Change
                                        /\ changes[f].old \in Texts \cup {Absent}
                                        /\ changes[f].new \in Texts \cup {Absent}
BY DEF Changes, Change

LEMMA SetType ==
    ASSUME FileTypeOK, NEW new, \A f \in DOMAIN new : new[f] \in Contents
    PROVE  Set(new) \in [Files -> Contents]
BY DEF Set, FileTypeOK

LEMMA OneType ==
    ASSUME NEW f, NEW content
    PROVE  DOMAIN One(f, content) = {f} /\ One(f, content)[f] = content
BY DEF One

\* What a batch may make of some readable files is a change of each.
LEMMA RewriteType ==
    ASSUME FileTypeOK, NEW new \in Rewrites
    PROVE  /\ DOMAIN new \in (SUBSET Files) \ {{}}
           /\ \A f \in DOMAIN new : new[f] \in Texts /\ disk[f] \in Texts /\ new[f] \in Contents
<1>1. PICK F \in (SUBSET Readable) \ {{}} : new \in [F -> Texts]
  BY DEF Rewrites
<1> QED  BY <1>1 DEF Readable, Contents

LEMMA AppendEntryType ==
    ASSUME FileTypeOK, NEW path \in Files \cup {Batch}, NEW new,
           DOMAIN new \in (SUBSET Files) \ {{}},
           \A f \in DOMAIN new : new[f] \in Texts /\ disk[f] \in Texts \cup {Absent},
           AppendEntry(path, new)
    PROVE  entries' \in Seq(Entry) /\ redo' \in Seq(Entry)
<1> DEFINE e == [path |-> path,
                 changes |-> [f \in DOMAIN new |-> [old |-> disk[f], new |-> new[f]]]]
<1>1. e \in Entry
  BY ChangesType DEF Entry
<1>2. entries' = Append(entries, e) /\ redo' = <<>>
  BY DEF AppendEntry
<1> HIDE DEF e
<1> QED  BY <1>1, <1>2 DEF FileTypeOK

\* A tool that records what it does to the files of DOMAIN new.
LEMMA RecordedType ==
    ASSUME FileTypeOK, NEW path \in Files \cup {Batch}, NEW new,
           DOMAIN new \in (SUBSET Files) \ {{}},
           \A f \in DOMAIN new : new[f] \in Texts /\ disk[f] \in Texts \cup {Absent},
           AppendEntry(path, new), disk' \in {disk, Set(new)}, base' = base,
           clean' \in BOOLEAN
    PROVE  FileTypeOK'
<1>1. Set(new) \in [Files -> Contents]
  BY SetType DEF Contents
<1> QED  BY <1>1, AppendEntryType DEF FileTypeOK

LEMMA UnrecordedType ==
    ASSUME FileTypeOK, NEW new, \A f \in DOMAIN new : new[f] \in Contents, Unrecorded(new)
    PROVE  FileTypeOK'
BY SetType DEF Unrecorded, FileTypeOK, stores

LEMMA EntryChanges ==
    ASSUME NEW e \in Entry
    PROVE  /\ e.changes \in Changes /\ e.path \in Files \cup {Batch}
           /\ DOMAIN e.changes \in SUBSET Files
           /\ \A f \in DOMAIN e.changes : /\ e.changes[f].old \in Texts \cup {Absent}
                                          /\ e.changes[f].new \in Texts \cup {Absent}
<1>1. e.changes \in Changes /\ e.path \in Files \cup {Batch}
  BY DEF Entry
<1> QED  BY <1>1, ChangeType

\* Undoing or redoing an entry, or a part of it, gives files contents.
LEMMA GivenType ==
    ASSUME FileTypeOK, NEW e \in Entry
    PROVE  /\ Set(Old(e.changes)) \in [Files -> Contents]
           /\ Set(New(e.changes)) \in [Files -> Contents]
           /\ \A F \in SUBSET DOMAIN e.changes :
                 /\ Set(Only(Old(e.changes), F)) \in [Files -> Contents]
                 /\ \A f \in F : Only(New(e.changes), F)[f] \in Contents
<1>1. \A f \in DOMAIN e.changes : Old(e.changes)[f] \in Contents /\ New(e.changes)[f] \in Contents
  BY EntryChanges DEF Old, New, Contents
<1>2. DOMAIN Old(e.changes) = DOMAIN e.changes /\ DOMAIN New(e.changes) = DOMAIN e.changes
  BY DEF Old, New
<1>3. Set(Old(e.changes)) \in [Files -> Contents] /\ Set(New(e.changes)) \in [Files -> Contents]
  BY <1>1, <1>2, SetType
<1>4. ASSUME NEW F \in SUBSET DOMAIN e.changes
      PROVE  /\ Set(Only(Old(e.changes), F)) \in [Files -> Contents]
             /\ \A f \in F : Only(New(e.changes), F)[f] \in Contents
  <2>1. DOMAIN Only(Old(e.changes), F) = F
    BY DEF Only
  <2>2. \A f \in F : /\ Only(Old(e.changes), F)[f] \in Contents
                     /\ Only(New(e.changes), F)[f] \in Contents
    BY <1>1 DEF Only
  <2> QED  BY <2>1, <2>2, SetType
<1> QED  BY <1>3, <1>4

\* Where an entry is taken from.
LEMMA LastIndexType ==
    ASSUME FileTypeOK, NEW p, NEW i \in LastIndex(p)
    PROVE  i \in DOMAIN entries /\ entries[i] \in Entry /\ entries \in Seq(Entry)
BY DEF LastIndex, FileTypeOK

LEMMA UndoType ==
    ASSUME FileTypeOK, NEW p, Undo(p)
    PROVE  FileTypeOK'
<1>1. PICK i \in LastIndex(p) : /\ disk' = Set(Old(entries[i].changes))
                                /\ entries' = RemoveAt(entries, i)
                                /\ redo' = Append(redo, entries[i])
                                /\ clean' = (clean /\ InOrder(i))
                                /\ base' = base
  BY DEF Undo
<1>2. entries' \in Seq(Entry) /\ disk' \in [Files -> Contents]
  BY <1>1, LastIndexType, RemoveAtFacts, GivenType
<1>3. redo' \in Seq(Entry)
  BY <1>1, LastIndexType DEF FileTypeOK
<1>4. clean' \in BOOLEAN
  BY <1>1
<1> QED  BY <1>1, <1>2, <1>3, <1>4 DEF FileTypeOK

LEMMA UndoFailsType ==
    ASSUME FileTypeOK, NEW p, UndoFails(p)
    PROVE  FileTypeOK'
<1>1. PICK i \in LastIndex(p) : \E stuck \in Stuck(entries[i].changes) :
         /\ disk' = Set(Only(Old(entries[i].changes), stuck))
         /\ entries' = Append(RemoveAt(entries, i), entries[i])
         /\ clean' = (clean /\ disk' = disk /\ InOrder(i))
         /\ redo' = redo /\ base' = base
  BY DEF UndoFails
<1>2. PICK stuck \in Stuck(entries[i].changes) :
         disk' = Set(Only(Old(entries[i].changes), stuck))
  BY <1>1
<1>3. stuck \in SUBSET DOMAIN entries[i].changes
  BY DEF Stuck
<1>4. disk' \in [Files -> Contents]
  BY <1>2, <1>3, LastIndexType, GivenType
<1>5. entries' \in Seq(Entry)
  BY <1>1, LastIndexType, RemoveAtFacts
<1>6. clean' \in BOOLEAN
  BY <1>1
<1> QED  BY <1>1, <1>4, <1>5, <1>6 DEF FileTypeOK

LEMMA RedoType ==
    ASSUME FileTypeOK, Redo
    PROVE  FileTypeOK'
<1>1. /\ redo # <<>> /\ redo' = Front(redo) /\ history' = history
      /\ disk' = Set(New(Last(redo).changes)) /\ entries' = Append(entries, Last(redo))
  BY DEF Redo
<1>2. Last(redo) \in Entry /\ redo' \in Seq(Entry)
  BY <1>1, FrontFacts DEF FileTypeOK
<1>3. disk' \in [Files -> Contents]
  BY <1>1, <1>2, GivenType
<1> QED  BY <1>1, <1>2, <1>3 DEF FileTypeOK, history

LEMMA RedoFailsType ==
    ASSUME FileTypeOK, RedoFails
    PROVE  FileTypeOK'
<1>1. PICK stuck \in Stuck(Last(redo).changes) :
         redo # <<>> /\ Unrecorded(Only(New(Last(redo).changes), stuck))
  BY DEF RedoFails
<1>2. Last(redo) \in Entry
  BY <1>1, FrontFacts DEF FileTypeOK
<1>3. stuck \in SUBSET DOMAIN Last(redo).changes
  BY DEF Stuck
<1>4. DOMAIN Only(New(Last(redo).changes), stuck) = stuck
  BY DEF Only
<1> QED  BY <1>1, <1>2, <1>3, <1>4, GivenType, UnrecordedType

\* One file, changed by a tool that records it or not.
LEMMA SingleType ==
    ASSUME FileTypeOK, NEW f \in Files, NEW text \in Texts,
           Write(f, text) \/ EditNew(f, text) \/ Edit(f, text) \/ RolledBack(f, text)
    PROVE  FileTypeOK'
<1>1. DOMAIN One(f, text) = {f} /\ One(f, text)[f] = text
  BY OneType
<1>2. DOMAIN One(f, text) \in (SUBSET Files) \ {{}}
  BY <1>1
<1>3. CASE Unrecorded(One(f, text))
  BY <1>1, <1>3, UnrecordedType DEF Contents
<1>4. CASE /\ AppendEntry(f, One(f, text)) /\ disk[f] # Opaque
           /\ disk' \in {disk, Set(One(f, text))} /\ base' = base /\ clean' \in BOOLEAN
  <2>1. disk[f] \in Texts \cup {Absent}
    BY <1>4 DEF FileTypeOK, Contents
  <2> QED  BY <1>1, <1>2, <1>4, <2>1, RecordedType
<1>5. Opaque \notin Texts /\ Opaque # Absent /\ clean \in BOOLEAN
  BY FilesAssumption DEF FileTypeOK
<1> QED  BY <1>3, <1>4, <1>5 DEF Write, EditNew, Edit, RolledBack, history

\* Some files at once.
LEMMA SeveralType ==
    ASSUME FileTypeOK, NEW new \in Rewrites,
           Refactor(new) \/ RefactorFails(new) \/ LintFix(new) \/ LintFixTimesOut(new)
    PROVE  FileTypeOK'
<1>1. /\ DOMAIN new \in (SUBSET Files) \ {{}}
      /\ \A f \in DOMAIN new : new[f] \in Texts /\ disk[f] \in Texts /\ new[f] \in Contents
  BY RewriteType
<1>2. CASE Unrecorded(new)
  BY <1>1, <1>2, UnrecordedType
<1>3. ASSUME NEW path \in Files \cup {Batch}, AppendEntry(path, new), disk' = Set(new),
             UNCHANGED history
      PROVE  FileTypeOK'
  <2>1. base' = base /\ clean' \in BOOLEAN
    BY <1>3 DEF history, FileTypeOK
  <2> QED  BY <1>1, <1>3, <2>1, RecordedType
<1>4. PICK f : f \in DOMAIN new
  BY <1>1
<1>5. (IF Cardinality(DOMAIN new) = 1 THEN CHOOSE g \in DOMAIN new : TRUE ELSE Batch)
          \in Files \cup {Batch}
  BY <1>1, <1>4
<1> QED  BY <1>2, <1>3, <1>5 DEF Refactor, RefactorFails, LintFix, LintFixTimesOut

\* No step breaks the types.
LEMMA FileNextType ==
    ASSUME FileTypeOK, [FileNext]_fileVars
    PROVE  FileTypeOK'
<1>1. ASSUME NEW f \in Files, NEW content \in Contents, Shell(f, content) PROVE FileTypeOK'
  <2>1. \A g \in DOMAIN One(f, content) : One(f, content)[g] \in Contents
    BY DEF One
  <2> QED  BY <1>1, <2>1, UnrecordedType DEF Shell
<1>2. CASE UNCHANGED fileVars
  BY <1>2 DEF fileVars, stores, history, FileTypeOK
<1> QED  BY <1>1, <1>2, SingleType, SeveralType, UndoType, UndoFailsType, RedoType, RedoFailsType
         DEF FileNext

\* Whatever the tools do, and however they fail, the disk holds contents, and what the
\* store records reads as text.
THEOREM FileTyped == FileSpec => []FileTypeOK
<1>1. FileInit => FileTypeOK
  BY DEF FileInit, FileTypeOK
<1>2. FileTypeOK /\ [FileNext]_fileVars => FileTypeOK'
  BY FileNextType
<1> QED  BY <1>1, <1>2, PTL DEF FileSpec

-----------------------------------------------------------------------------
(* The history of a file.                                                  *)

Touches(es, i, f) == i \in DOMAIN es /\ f \in DOMAIN es[i].changes

\* The entries es lead the file f from a to b, one after the other.
Leads(es, f, a, b) ==
    /\ (\A i \in DOMAIN es : ~Touches(es, i, f)) => a = b
    /\ \A i \in DOMAIN es : Touches(es, i, f) =>
          /\ (\A k \in DOMAIN es : k > i => ~Touches(es, k, f)) => es[i].changes[f].new = b
          /\ (\A k \in DOMAIN es : k < i => ~Touches(es, k, f)) => es[i].changes[f].old = a
    /\ \A i, j \in DOMAIN es :
          /\ i < j /\ Touches(es, i, f) /\ Touches(es, j, f)
          /\ \A k \in DOMAIN es : i < k /\ k < j => ~Touches(es, k, f)
          => es[j].changes[f].old = es[i].changes[f].new

\* The last of the entries rs would lead f on from b, the one before it from there.
Continues(rs, f, b) ==
    /\ \A i \in DOMAIN rs :
          /\ Touches(rs, i, f)
          /\ \A k \in DOMAIN rs : k > i => ~Touches(rs, k, f)
          => rs[i].changes[f].old = b
    /\ \A i, j \in DOMAIN rs :
          /\ i < j /\ Touches(rs, i, f) /\ Touches(rs, j, f)
          /\ \A k \in DOMAIN rs : i < k /\ k < j => ~Touches(rs, k, f)
          => rs[j].changes[f].new = rs[i].changes[f].old

LEMMA AppendFacts ==
    ASSUME NEW S, NEW s \in Seq(S), NEW e \in S
    PROVE  /\ Append(s, e) \in Seq(S) /\ Len(s) \in Nat
           /\ DOMAIN Append(s, e) = 1 .. Len(s) + 1 /\ DOMAIN s = 1 .. Len(s)
           /\ \A k \in 1 .. Len(s) : Append(s, e)[k] = s[k]
           /\ Append(s, e)[Len(s) + 1] = e
OBVIOUS

LEMMA AppendTouches ==
    ASSUME NEW es \in Seq(Entry), NEW e \in Entry, NEW f
    PROVE  /\ \A k \in DOMAIN es : Touches(Append(es, e), k, f) <=> Touches(es, k, f)
           /\ Touches(Append(es, e), Len(es) + 1, f) <=> f \in DOMAIN e.changes
BY AppendFacts DEF Touches

\* One more entry leads on, if it starts from what is there.
LEMMA LeadsAppend ==
    ASSUME NEW es \in Seq(Entry), NEW e \in Entry, NEW f, NEW a, NEW b, Leads(es, f, a, b)
    PROVE  /\ f \notin DOMAIN e.changes => Leads(Append(es, e), f, a, b)
           /\ f \in DOMAIN e.changes /\ e.changes[f].old = b =>
                 Leads(Append(es, e), f, a, e.changes[f].new)
<1> DEFINE n == Len(es) + 1
           s == Append(es, e)
<1>1. /\ n \in Nat \ {0} /\ DOMAIN s = 1 .. n /\ DOMAIN es = 1 .. n - 1 /\ s[n] = e
      /\ \A k \in 1 .. n - 1 : s[k] = es[k]
  BY AppendFacts
<1>2. /\ \A k \in 1 .. n - 1 : Touches(s, k, f) <=> Touches(es, k, f)
      /\ Touches(s, n, f) <=> f \in DOMAIN e.changes
  BY <1>1, AppendTouches
<1> HIDE DEF n, s
<1>3. CASE f \notin DOMAIN e.changes
  <2> SUFFICES Leads(s, f, a, b)
    BY <1>3 DEF s
  <2> QED  BY <1>1, <1>2, <1>3 DEF Leads
<1>4. CASE f \in DOMAIN e.changes /\ e.changes[f].old = b
  <2> SUFFICES Leads(s, f, a, e.changes[f].new)
    BY <1>4 DEF s
  <2>1. n \in DOMAIN s /\ Touches(s, n, f)
    BY <1>1, <1>2, <1>4
  <2>2. ASSUME NEW i \in DOMAIN s, Touches(s, i, f)
        PROVE  /\ (\A k \in DOMAIN s : k > i => ~Touches(s, k, f)) =>
                     s[i].changes[f].new = e.changes[f].new
               /\ (\A k \in DOMAIN s : k < i => ~Touches(s, k, f)) => s[i].changes[f].old = a
    <3>1. CASE i = n
      BY <1>1, <1>2, <1>4, <3>1 DEF Leads
    <3>2. CASE i # n
      BY <1>1, <1>2, <1>4, <2>2, <3>2 DEF Leads
    <3> QED  BY <3>1, <3>2
  <2>3. ASSUME NEW i \in DOMAIN s, NEW j \in DOMAIN s, i < j,
               Touches(s, i, f), Touches(s, j, f),
               \A k \in DOMAIN s : i < k /\ k < j => ~Touches(s, k, f)
        PROVE  s[j].changes[f].old = s[i].changes[f].new
    <3>1. CASE j = n
      BY <1>1, <1>2, <1>4, <2>3, <3>1 DEF Leads
    <3>2. CASE j # n
      BY <1>1, <1>2, <2>3, <3>2 DEF Leads
    <3> QED  BY <3>1, <3>2
  <2> QED  BY <2>1, <2>2, <2>3 DEF Leads
<1> QED  BY <1>3, <1>4 DEF s

\* An entry keeps its files when a lower one goes.
LEMMA RemoveTouches ==
    ASSUME NEW es \in Seq(Entry), NEW i \in DOMAIN es, NEW f
    PROVE  \A k \in 1 .. Len(es) - 1 :
              Touches(RemoveAt(es, i), k, f) <=> Touches(es, IF k < i THEN k ELSE k + 1, f)
<1> SUFFICES ASSUME NEW k \in 1 .. Len(es) - 1
             PROVE  Touches(RemoveAt(es, i), k, f) <=>
                       Touches(es, IF k < i THEN k ELSE k + 1, f)
  OBVIOUS
<1>1. /\ DOMAIN RemoveAt(es, i) = 1 .. Len(es) - 1
      /\ RemoveAt(es, i)[k] = IF k < i THEN es[k] ELSE es[k + 1]
  BY RemoveAtFacts
<1>2. DOMAIN es = 1 .. Len(es) /\ Len(es) \in Nat
  OBVIOUS
<1>3. CASE k < i
  BY <1>1, <1>2, <1>3 DEF Touches
<1>4. CASE ~(k < i)
  BY <1>1, <1>2, <1>4 DEF Touches
<1> QED  BY <1>3, <1>4

\* Without the last entry of f, the others lead to what it started from.
LEMMA LeadsRemove ==
    ASSUME NEW es \in Seq(Entry), NEW i \in DOMAIN es, NEW f, NEW a, NEW b, Leads(es, f, a, b)
    PROVE  /\ ~Touches(es, i, f) => Leads(RemoveAt(es, i), f, a, b)
           /\ Touches(es, i, f) /\ (\A k \in DOMAIN es : k > i => ~Touches(es, k, f)) =>
                 /\ Leads(RemoveAt(es, i), f, a, es[i].changes[f].old)
                 /\ es[i].changes[f].new = b
<1> DEFINE n == Len(es)
           s == RemoveAt(es, i)
           at(k) == IF k < i THEN k ELSE k + 1
<1>1. /\ n \in Nat /\ DOMAIN es = 1 .. n /\ i \in 1 .. n /\ DOMAIN s = 1 .. n - 1
      /\ \A k \in 1 .. n - 1 : s[k] = es[at(k)] /\ (Touches(s, k, f) <=> Touches(es, at(k), f))
  BY RemoveAtFacts, RemoveTouches
<1>2. \A k \in 1 .. n - 1 : at(k) \in 1 .. n /\ at(k) # i
  BY <1>1
<1>3. \A j, k \in 1 .. n - 1 : j < k <=> at(j) < at(k)
  BY <1>1
<1>4. \A m \in 1 .. n : m # i => \E k \in 1 .. n - 1 : at(k) = m
  <2> SUFFICES ASSUME NEW m \in 1 .. n, m # i
               PROVE  \E k \in 1 .. n - 1 : at(k) = m
    OBVIOUS
  <2>1. CASE m < i
    <3>1. m \in 1 .. n - 1 /\ at(m) = m
      BY <1>1, <2>1
    <3> QED  BY <3>1
  <2>2. CASE m > i
    <3>1. m - 1 \in 1 .. n - 1 /\ at(m - 1) = m
      BY <1>1, <2>2
    <3> QED  BY <3>1
  <2> QED  BY <1>1, <2>1, <2>2
<1> HIDE DEF n, s, at
<1>5. CASE ~Touches(es, i, f)
  <2>1. \A m \in 1 .. n : Touches(es, m, f) => \E k \in 1 .. n - 1 : at(k) = m
    BY <1>4, <1>5
  <2>2. (\A k \in DOMAIN s : ~Touches(s, k, f)) => a = b
    BY <1>1, <2>1 DEF Leads
  <2>3. ASSUME NEW j \in DOMAIN s, Touches(s, j, f)
        PROVE  /\ (\A k \in DOMAIN s : k > j => ~Touches(s, k, f)) => s[j].changes[f].new = b
               /\ (\A k \in DOMAIN s : k < j => ~Touches(s, k, f)) => s[j].changes[f].old = a
    <3>1. at(j) \in DOMAIN es /\ Touches(es, at(j), f) /\ s[j] = es[at(j)]
      BY <1>1, <1>2, <2>3
    <3>2. (\A k \in DOMAIN s : k > j => ~Touches(s, k, f)) =>
             \A k \in DOMAIN es : k > at(j) => ~Touches(es, k, f)
      BY <1>1, <1>3, <2>1
    <3>3. (\A k \in DOMAIN s : k < j => ~Touches(s, k, f)) =>
             \A k \in DOMAIN es : k < at(j) => ~Touches(es, k, f)
      BY <1>1, <1>3, <2>1
    <3> QED  BY <3>1, <3>2, <3>3 DEF Leads
  <2>4. ASSUME NEW j \in DOMAIN s, NEW k \in DOMAIN s, j < k,
               Touches(s, j, f), Touches(s, k, f),
               \A m \in DOMAIN s : j < m /\ m < k => ~Touches(s, m, f)
        PROVE  s[k].changes[f].old = s[j].changes[f].new
    <3>1. /\ at(j) \in DOMAIN es /\ Touches(es, at(j), f) /\ s[j] = es[at(j)]
          /\ at(k) \in DOMAIN es /\ Touches(es, at(k), f) /\ s[k] = es[at(k)]
          /\ at(j) < at(k)
      BY <1>1, <1>2, <1>3, <2>4
    <3>2. \A m \in DOMAIN es : at(j) < m /\ m < at(k) => ~Touches(es, m, f)
      BY <1>1, <1>3, <2>1, <2>4
    <3> QED  BY <3>1, <3>2 DEF Leads
  <2>5. Leads(s, f, a, b)
    BY <2>2, <2>3, <2>4 DEF Leads
  <2> QED  BY <1>5, <2>5 DEF s
<1>6. CASE Touches(es, i, f) /\ \A k \in DOMAIN es : k > i => ~Touches(es, k, f)
  <2> DEFINE c == es[i].changes[f].old
  <2>1. es[i].changes[f].new = b
    BY <1>6 DEF Leads
  <2>2. \A k \in 1 .. n - 1 : Touches(s, k, f) => k < i /\ s[k] = es[k] /\ Touches(es, k, f)
    BY <1>1, <1>2, <1>6 DEF at
  <2>3. \A k \in 1 .. n : k < i /\ Touches(es, k, f) =>
           k \in 1 .. n - 1 /\ Touches(s, k, f) /\ s[k] = es[k]
    BY <1>1 DEF at
  <2>4. (\A k \in DOMAIN s : ~Touches(s, k, f)) => a = c
    <3>1. SUFFICES ASSUME \A k \in DOMAIN s : ~Touches(s, k, f)
                   PROVE  \A k \in DOMAIN es : k < i => ~Touches(es, k, f)
      BY <1>6 DEF Leads
    <3> QED  BY <1>1, <2>3, <3>1
  <2>5. ASSUME NEW j \in DOMAIN s, Touches(s, j, f)
        PROVE  /\ (\A k \in DOMAIN s : k > j => ~Touches(s, k, f)) => s[j].changes[f].new = c
               /\ (\A k \in DOMAIN s : k < j => ~Touches(s, k, f)) => s[j].changes[f].old = a
    <3>1. j \in 1 .. n /\ j < i /\ s[j] = es[j] /\ Touches(es, j, f)
      BY <1>1, <2>2, <2>5
    <3>2. ASSUME \A k \in DOMAIN s : k > j => ~Touches(s, k, f)
          PROVE  s[j].changes[f].new = c
      <4>1. \A k \in DOMAIN es : j < k /\ k < i => ~Touches(es, k, f)
        BY <1>1, <2>3, <3>2
      <4> QED  BY <1>1, <1>6, <3>1, <4>1 DEF Leads
    <3>3. ASSUME \A k \in DOMAIN s : k < j => ~Touches(s, k, f)
          PROVE  s[j].changes[f].old = a
      <4>1. \A k \in DOMAIN es : k < j => ~Touches(es, k, f)
        BY <1>1, <2>3, <3>1, <3>3
      <4> QED  BY <1>1, <3>1, <4>1 DEF Leads
    <3> QED  BY <3>2, <3>3
  <2>6. ASSUME NEW j \in DOMAIN s, NEW k \in DOMAIN s, j < k,
               Touches(s, j, f), Touches(s, k, f),
               \A m \in DOMAIN s : j < m /\ m < k => ~Touches(s, m, f)
        PROVE  s[k].changes[f].old = s[j].changes[f].new
    <3>1. /\ j \in 1 .. n /\ j < i /\ s[j] = es[j] /\ Touches(es, j, f)
          /\ k \in 1 .. n /\ k < i /\ s[k] = es[k] /\ Touches(es, k, f)
      BY <1>1, <2>2, <2>6
    <3>2. \A m \in DOMAIN es : j < m /\ m < k => ~Touches(es, m, f)
      BY <1>1, <2>3, <2>6, <3>1
    <3> QED  BY <1>1, <2>6, <3>1, <3>2 DEF Leads
  <2> HIDE DEF c
  <2>7. Leads(s, f, a, c)
    BY <2>4, <2>5, <2>6 DEF Leads
  <2> QED  BY <1>6, <2>1, <2>7 DEF s, c
<1> QED  BY <1>5, <1>6

\* An undone entry continues from what it started from.
LEMMA ContinuesAppend ==
    ASSUME NEW rs \in Seq(Entry), NEW e \in Entry, NEW f, NEW b, Continues(rs, f, b)
    PROVE  /\ f \notin DOMAIN e.changes => Continues(Append(rs, e), f, b)
           /\ f \in DOMAIN e.changes /\ e.changes[f].new = b =>
                 Continues(Append(rs, e), f, e.changes[f].old)
<1> DEFINE n == Len(rs) + 1
           s == Append(rs, e)
<1>1. /\ n \in Nat /\ DOMAIN s = 1 .. n /\ DOMAIN rs = 1 .. n - 1 /\ s[n] = e
      /\ \A k \in 1 .. n - 1 : s[k] = rs[k]
  BY AppendFacts
<1>2. /\ \A k \in 1 .. n - 1 : Touches(s, k, f) <=> Touches(rs, k, f)
      /\ Touches(s, n, f) <=> f \in DOMAIN e.changes
  BY <1>1, AppendTouches
<1> HIDE DEF n, s
<1>3. CASE f \notin DOMAIN e.changes
  <2> SUFFICES Continues(s, f, b)
    BY <1>3 DEF s
  <2> QED  BY <1>1, <1>2, <1>3 DEF Continues
<1>4. CASE f \in DOMAIN e.changes /\ e.changes[f].new = b
  <2> SUFFICES Continues(s, f, e.changes[f].old)
    BY <1>4 DEF s
  <2>1. ASSUME NEW i \in DOMAIN s, Touches(s, i, f),
               \A k \in DOMAIN s : k > i => ~Touches(s, k, f)
        PROVE  s[i].changes[f].old = e.changes[f].old
    BY <1>1, <1>2, <1>4, <2>1
  <2>2. ASSUME NEW i \in DOMAIN s, NEW j \in DOMAIN s, i < j,
               Touches(s, i, f), Touches(s, j, f),
               \A k \in DOMAIN s : i < k /\ k < j => ~Touches(s, k, f)
        PROVE  s[j].changes[f].new = s[i].changes[f].old
    <3>1. CASE j = n
      BY <1>1, <1>2, <1>4, <2>2, <3>1 DEF Continues
    <3>2. CASE j # n
      BY <1>1, <1>2, <2>2, <3>2 DEF Continues
    <3> QED  BY <3>1, <3>2
  <2> QED  BY <2>1, <2>2 DEF Continues
<1> QED  BY <1>3, <1>4 DEF s

\* The last undone entry starts from what is there, and the others go on from its end.
LEMMA ContinuesFront ==
    ASSUME NEW rs \in Seq(Entry), rs # <<>>, NEW f, NEW b, Continues(rs, f, b)
    PROVE  /\ f \notin DOMAIN Last(rs).changes => Continues(Front(rs), f, b)
           /\ f \in DOMAIN Last(rs).changes =>
                 /\ Last(rs).changes[f].old = b
                 /\ Continues(Front(rs), f, Last(rs).changes[f].new)
<1> DEFINE n == Len(rs)
           s == Front(rs)
           e == Last(rs)
<1>1. /\ n \in Nat \ {0} /\ DOMAIN rs = 1 .. n /\ DOMAIN s = 1 .. n - 1 /\ rs[n] = e
      /\ \A k \in 1 .. n - 1 : s[k] = rs[k]
  BY FrontFacts
<1>2. /\ \A k \in 1 .. n - 1 : Touches(s, k, f) <=> Touches(rs, k, f)
      /\ Touches(rs, n, f) <=> f \in DOMAIN e.changes
  BY <1>1 DEF Touches
<1> HIDE DEF n, s, e
<1>3. CASE f \notin DOMAIN e.changes
  <2> SUFFICES Continues(s, f, b)
    BY <1>3 DEF s, e
  <2> QED  BY <1>1, <1>2, <1>3 DEF Continues
<1>4. CASE f \in DOMAIN e.changes
  <2>1. e.changes[f].old = b
    BY <1>1, <1>2, <1>4 DEF Continues
  <2>2. ASSUME NEW i \in DOMAIN s, Touches(s, i, f),
               \A k \in DOMAIN s : k > i => ~Touches(s, k, f)
        PROVE  s[i].changes[f].old = e.changes[f].new
    BY <1>1, <1>2, <1>4, <2>2 DEF Continues
  <2>3. ASSUME NEW i \in DOMAIN s, NEW j \in DOMAIN s, i < j,
               Touches(s, i, f), Touches(s, j, f),
               \A k \in DOMAIN s : i < k /\ k < j => ~Touches(s, k, f)
        PROVE  s[j].changes[f].new = s[i].changes[f].old
    BY <1>1, <1>2, <2>3 DEF Continues
  <2>4. Continues(s, f, e.changes[f].new)
    BY <2>2, <2>3 DEF Continues
  <2> QED  BY <1>4, <2>1, <2>4 DEF s, e
<1> QED  BY <1>3, <1>4 DEF s, e

-----------------------------------------------------------------------------
(* The history stays whole.                                                *)

\* HistoryIsComplete, said of the two stacks.
Complete ==
    clean => \A f \in Files :
        Leads(entries, f, base[f], disk[f]) /\ Continues(redo, f, disk[f])

\* Complete says all of HistoryIsComplete.
LEMMA CompleteIsEnough ==
    ASSUME FileTypeOK, Complete
    PROVE  HistoryIsComplete
<1> SUFFICES ASSUME clean, NEW f \in Files
             PROVE
        /\ Touching(f) = {} => disk[f] = base[f]
        /\ \A i \in Touching(f) :
              LET later == {j \in Touching(f) : j > i}
                  change == entries[i].changes[f]
              IN  /\ later = {} => change.new = disk[f]
                  /\ \A j \in later : (\A k \in later : j <= k) =>
                        entries[j].changes[f].old = change.new
                  /\ (\A j \in Touching(f) : i <= j) => change.old = base[f]
        /\ \A i \in {i \in DOMAIN redo : f \in DOMAIN redo[i].changes} :
              LET sooner == {j \in DOMAIN redo : j > i /\ f \in DOMAIN redo[j].changes}
              IN  /\ sooner = {} => redo[i].changes[f].old = disk[f]
                  /\ \A j \in sooner : (\A k \in sooner : j <= k) =>
                        redo[j].changes[f].new = redo[i].changes[f].old
  BY DEF HistoryIsComplete
<1>1. Leads(entries, f, base[f], disk[f]) /\ Continues(redo, f, disk[f])
  BY DEF Complete
<1>2. \A i : i \in Touching(f) <=> i \in DOMAIN entries /\ Touches(entries, i, f)
  BY DEF Touching, Touches
<1>n. DOMAIN entries \in SUBSET Nat /\ DOMAIN redo \in SUBSET Nat
  BY DEF FileTypeOK
<1>3. Touching(f) = {} => disk[f] = base[f]
  BY <1>1, <1>2 DEF Leads
<1>4. ASSUME NEW i \in Touching(f)
      PROVE  /\ {m \in Touching(f) : m > i} = {} => entries[i].changes[f].new = disk[f]
             /\ \A j \in {m \in Touching(f) : m > i} :
                   (\A k \in {m \in Touching(f) : m > i} : j <= k) =>
                      entries[j].changes[f].old = entries[i].changes[f].new
             /\ (\A j \in Touching(f) : i <= j) => entries[i].changes[f].old = base[f]
  <2>1. {m \in Touching(f) : m > i} = {} => entries[i].changes[f].new = disk[f]
    BY <1>1, <1>2 DEF Leads
  <2>2. ASSUME NEW j \in Touching(f), j > i, \A k \in {m \in Touching(f) : m > i} : j <= k
        PROVE  entries[j].changes[f].old = entries[i].changes[f].new
    <3>1. \A k \in DOMAIN entries : i < k /\ k < j => ~Touches(entries, k, f)
      BY <1>2, <1>n, <2>2
    <3> QED  BY <1>1, <1>2, <1>n, <2>2, <3>1 DEF Leads
  <2>3. (\A j \in Touching(f) : i <= j) => entries[i].changes[f].old = base[f]
    <3>1. SUFFICES ASSUME \A j \in Touching(f) : i <= j
                   PROVE  entries[i].changes[f].old = base[f]
      OBVIOUS
    <3>2. \A k \in DOMAIN entries : k < i => ~Touches(entries, k, f)
      BY <1>2, <1>n, <3>1
    <3> QED  BY <1>1, <1>2, <3>2 DEF Leads
  <2> QED  BY <2>1, <2>2, <2>3
<1>5. ASSUME NEW i \in DOMAIN redo, f \in DOMAIN redo[i].changes
      PROVE  /\ {m \in DOMAIN redo : m > i /\ f \in DOMAIN redo[m].changes} = {} =>
                   redo[i].changes[f].old = disk[f]
             /\ \A j \in {m \in DOMAIN redo : m > i /\ f \in DOMAIN redo[m].changes} :
                   (\A k \in {m \in DOMAIN redo : m > i /\ f \in DOMAIN redo[m].changes} :
                      j <= k) => redo[j].changes[f].new = redo[i].changes[f].old
  <2>1. {m \in DOMAIN redo : m > i /\ f \in DOMAIN redo[m].changes} = {} =>
           redo[i].changes[f].old = disk[f]
    BY <1>1, <1>5 DEF Continues, Touches
  <2>2. ASSUME NEW j \in DOMAIN redo, j > i, f \in DOMAIN redo[j].changes,
               \A k \in {m \in DOMAIN redo : m > i /\ f \in DOMAIN redo[m].changes} : j <= k
        PROVE  redo[j].changes[f].new = redo[i].changes[f].old
    <3>1. \A k \in DOMAIN redo : i < k /\ k < j => ~Touches(redo, k, f)
      BY <1>n, <1>5, <2>2 DEF Touches
    <3>2. Touches(redo, i, f) /\ Touches(redo, j, f) /\ i < j
      BY <1>n, <1>5, <2>2 DEF Touches
    <3> QED  BY <1>1, <3>1, <3>2 DEF Continues
  <2> QED  BY <2>1, <2>2
<1> QED  BY <1>3, <1>4, <1>5

LEMMA ContinuesNothing ==
    ASSUME NEW f, NEW b
    PROVE  Continues(<<>>, f, b)
BY DEF Continues

LEMMA SetFacts ==
    ASSUME NEW new, NEW f \in Files
    PROVE  Set(new)[f] = IF f \in DOMAIN new THEN new[f] ELSE disk[f]
BY DEF Set

\* A recorded change goes on from what was there.
LEMMA RecordedComplete ==
    ASSUME FileTypeOK, Complete, NEW path \in Files \cup {Batch}, NEW new,
           DOMAIN new \in (SUBSET Files) \ {{}},
           \A f \in DOMAIN new : new[f] \in Texts /\ disk[f] \in Texts \cup {Absent},
           AppendEntry(path, new), disk' = Set(new), UNCHANGED history
    PROVE  Complete'
<1> DEFINE e == [path |-> path,
                 changes |-> [f \in DOMAIN new |-> [old |-> disk[f], new |-> new[f]]]]
<1>1. e \in Entry
  BY ChangesType DEF Entry
<1>2. entries' = Append(entries, e) /\ redo' = <<>> /\ entries \in Seq(Entry)
  BY DEF AppendEntry, FileTypeOK
<1>3. DOMAIN e.changes = DOMAIN new
  OBVIOUS
<1>4. \A f \in DOMAIN new : e.changes[f].old = disk[f] /\ e.changes[f].new = new[f]
  OBVIOUS
<1> HIDE DEF e
<1>5. ASSUME clean', NEW f \in Files
      PROVE  Leads(entries', f, base'[f], disk'[f]) /\ Continues(redo', f, disk'[f])
  <2>1. clean /\ base' = base /\ disk'[f] = IF f \in DOMAIN new THEN new[f] ELSE disk[f]
    BY <1>5, SetFacts DEF history
  <2>2. Leads(entries, f, base[f], disk[f])
    BY <2>1 DEF Complete
  <2>3. Leads(Append(entries, e), f, base[f], disk'[f])
    BY <1>1, <1>2, <1>3, <1>4, <2>1, <2>2, LeadsAppend
  <2> QED  BY <1>2, <2>1, <2>3, ContinuesNothing
<1> QED  BY <1>5 DEF Complete

\* Without a record, the history is whole only if nothing changed.
LEMMA UnrecordedComplete ==
    ASSUME Complete, NEW new, Unrecorded(new)
    PROVE  Complete'
BY DEF Unrecorded, Complete, stores

LEMMA RolledBackComplete ==
    ASSUME NEW f, NEW text, RolledBack(f, text)
    PROVE  Complete'
BY DEF RolledBack, Complete

\* An entry undone in order leads each of its files back.
LEMMA UndoComplete ==
    ASSUME FileTypeOK, Complete, NEW p, Undo(p)
    PROVE  Complete'
<1>1. PICK i \in LastIndex(p) : /\ disk' = Set(Old(entries[i].changes))
                                /\ entries' = RemoveAt(entries, i)
                                /\ redo' = Append(redo, entries[i])
                                /\ clean' = (clean /\ InOrder(i))
                                /\ base' = base
  BY DEF Undo
<1> DEFINE e == entries[i]
<1>2. i \in DOMAIN entries /\ e \in Entry /\ entries \in Seq(Entry) /\ redo \in Seq(Entry)
  BY LastIndexType DEF FileTypeOK
<1>3. ASSUME clean', NEW f \in Files
      PROVE  Leads(entries', f, base'[f], disk'[f]) /\ Continues(redo', f, disk'[f])
  <2>1. /\ clean /\ InOrder(i) /\ base' = base
        /\ Leads(entries, f, base[f], disk[f]) /\ Continues(redo, f, disk[f])
    BY <1>1, <1>3 DEF Complete
  <2>2. Touches(entries, i, f) <=> f \in DOMAIN e.changes
    BY <1>2 DEF Touches
  <2>3. disk'[f] = IF f \in DOMAIN e.changes THEN e.changes[f].old ELSE disk[f]
    BY <1>1, SetFacts DEF Old
  <2>4. CASE f \notin DOMAIN e.changes
    <3>1. Leads(entries', f, base[f], disk[f])
      BY <1>1, <1>2, <2>1, <2>2, <2>4, LeadsRemove
    <3>2. Continues(redo', f, disk[f])
      BY <1>1, <1>2, <2>1, <2>4, ContinuesAppend
    <3> QED  BY <2>1, <2>3, <2>4, <3>1, <3>2
  <2>5. CASE f \in DOMAIN e.changes
    <3>1. \A k \in DOMAIN entries : k > i => ~Touches(entries, k, f)
      BY <1>2, <2>1, <2>5 DEF InOrder, Touching, Touches
    <3>2. Leads(entries', f, base[f], e.changes[f].old) /\ e.changes[f].new = disk[f]
      BY <1>1, <1>2, <2>1, <2>2, <2>5, <3>1, LeadsRemove
    <3>3. Continues(redo', f, e.changes[f].old)
      BY <1>1, <1>2, <2>1, <2>5, <3>2, ContinuesAppend
    <3> QED  BY <2>1, <2>3, <2>5, <3>2, <3>3
  <2> QED  BY <2>4, <2>5
<1> QED  BY <1>3 DEF Complete

\* An undo that fails and leaves the disk as it was moves an entry that no later one
\* depends on to the end.
LEMMA UndoFailsComplete ==
    ASSUME FileTypeOK, Complete, NEW p, UndoFails(p)
    PROVE  Complete'
<1>1. PICK i \in LastIndex(p) : /\ entries' = Append(RemoveAt(entries, i), entries[i])
                                /\ clean' = (clean /\ disk' = disk /\ InOrder(i))
                                /\ redo' = redo /\ base' = base
  BY DEF UndoFails
<1> DEFINE e == entries[i]
           rest == RemoveAt(entries, i)
<1>2. i \in DOMAIN entries /\ e \in Entry /\ entries \in Seq(Entry) /\ rest \in Seq(Entry)
  BY LastIndexType, RemoveAtFacts
<1>3. ASSUME clean', NEW f \in Files
      PROVE  Leads(entries', f, base'[f], disk'[f]) /\ Continues(redo', f, disk'[f])
  <2>1. /\ clean /\ InOrder(i) /\ base' = base /\ redo' = redo /\ disk' = disk
        /\ Leads(entries, f, base[f], disk[f]) /\ Continues(redo, f, disk[f])
    BY <1>1, <1>3 DEF Complete
  <2>2. Touches(entries, i, f) <=> f \in DOMAIN e.changes
    BY <1>2 DEF Touches
  <2>3. CASE f \notin DOMAIN e.changes
    <3>1. Leads(rest, f, base[f], disk[f])
      BY <1>2, <2>1, <2>2, <2>3, LeadsRemove
    <3>2. Leads(Append(rest, e), f, base[f], disk[f])
      BY <1>2, <2>3, <3>1, LeadsAppend
    <3> QED  BY <1>1, <2>1, <3>2
  <2>4. CASE f \in DOMAIN e.changes
    <3>1. \A k \in DOMAIN entries : k > i => ~Touches(entries, k, f)
      BY <1>2, <2>1, <2>4 DEF InOrder, Touching, Touches
    <3>2. Leads(rest, f, base[f], e.changes[f].old) /\ e.changes[f].new = disk[f]
      BY <1>2, <2>1, <2>2, <2>4, <3>1, LeadsRemove
    <3>3. Leads(Append(rest, e), f, base[f], disk[f])
      BY <1>2, <2>4, <3>2, LeadsAppend
    <3> QED  BY <1>1, <2>1, <3>3
  <2> QED  BY <2>3, <2>4
<1> QED  BY <1>3 DEF Complete

\* What is redone goes on from what is there.
LEMMA RedoComplete ==
    ASSUME FileTypeOK, Complete, Redo
    PROVE  Complete'
<1> DEFINE e == Last(redo)
<1>1. /\ redo # <<>> /\ redo' = Front(redo) /\ base' = base /\ clean' = clean
      /\ disk' = Set(New(e.changes)) /\ entries' = Append(entries, e)
  BY DEF Redo, history
<1>2. e \in Entry /\ entries \in Seq(Entry) /\ redo \in Seq(Entry)
  BY <1>1, FrontFacts DEF FileTypeOK
<1> HIDE DEF e
<1>3. ASSUME clean', NEW f \in Files
      PROVE  Leads(entries', f, base'[f], disk'[f]) /\ Continues(redo', f, disk'[f])
  <2>1. Leads(entries, f, base[f], disk[f]) /\ Continues(redo, f, disk[f])
    BY <1>1, <1>3 DEF Complete
  <2>2. disk'[f] = IF f \in DOMAIN e.changes THEN e.changes[f].new ELSE disk[f]
    BY <1>1, SetFacts DEF New
  <2>3. /\ f \notin DOMAIN e.changes => Continues(redo', f, disk[f])
        /\ f \in DOMAIN e.changes => /\ e.changes[f].old = disk[f]
                                     /\ Continues(redo', f, e.changes[f].new)
    BY <1>1, <1>2, <2>1, ContinuesFront DEF e
  <2>4. Leads(entries', f, base[f], disk'[f])
    BY <1>1, <1>2, <2>1, <2>2, <2>3, LeadsAppend
  <2> QED  BY <1>1, <2>2, <2>3, <2>4
<1> QED  BY <1>3 DEF Complete

LEMMA SingleComplete ==
    ASSUME FileTypeOK, Complete, NEW f \in Files, NEW text \in Texts,
           Write(f, text) \/ EditNew(f, text) \/ Edit(f, text) \/ RolledBack(f, text)
    PROVE  Complete'
<1>1. DOMAIN One(f, text) = {f} /\ One(f, text)[f] = text
  BY OneType
<1>2. DOMAIN One(f, text) \in (SUBSET Files) \ {{}}
  BY <1>1
<1>3. CASE Unrecorded(One(f, text))
  BY <1>3, UnrecordedComplete
<1>4. CASE /\ AppendEntry(f, One(f, text)) /\ disk[f] # Opaque
           /\ disk' = Set(One(f, text)) /\ UNCHANGED history
  <2>1. disk[f] \in Texts \cup {Absent}
    BY <1>4 DEF FileTypeOK, Contents
  <2> QED  BY <1>1, <1>2, <1>4, <2>1, RecordedComplete
<1>5. Opaque \notin Texts /\ Opaque # Absent
  BY FilesAssumption
<1> QED  BY <1>3, <1>4, <1>5, RolledBackComplete DEF Write, EditNew, Edit

LEMMA SeveralComplete ==
    ASSUME FileTypeOK, Complete, NEW new \in Rewrites,
           Refactor(new) \/ RefactorFails(new) \/ LintFix(new) \/ LintFixTimesOut(new)
    PROVE  Complete'
<1>1. /\ DOMAIN new \in (SUBSET Files) \ {{}}
      /\ \A f \in DOMAIN new : new[f] \in Texts /\ disk[f] \in Texts
  BY RewriteType
<1>2. CASE Unrecorded(new)
  BY <1>2, UnrecordedComplete
<1>3. ASSUME NEW path \in Files \cup {Batch}, AppendEntry(path, new), disk' = Set(new),
             UNCHANGED history
      PROVE  Complete'
  BY <1>1, <1>3, RecordedComplete
<1>4. PICK f : f \in DOMAIN new
  BY <1>1
<1>5. (IF Cardinality(DOMAIN new) = 1 THEN CHOOSE g \in DOMAIN new : TRUE ELSE Batch)
          \in Files \cup {Batch}
  BY <1>1, <1>4
<1> QED  BY <1>2, <1>3, <1>5 DEF Refactor, RefactorFails, LintFix, LintFixTimesOut

\* No step opens a gap.
LEMMA FileNextComplete ==
    ASSUME FileTypeOK, Complete, [FileNext]_fileVars
    PROVE  Complete'
<1>1. CASE RedoFails
  BY <1>1, UnrecordedComplete DEF RedoFails
<1>2. ASSUME NEW f, NEW content, Shell(f, content) PROVE Complete'
  BY <1>2, UnrecordedComplete DEF Shell
<1>3. CASE UNCHANGED fileVars
  BY <1>3 DEF fileVars, stores, history, Complete
<1> QED  BY <1>1, <1>2, <1>3, SingleComplete, SeveralComplete, UndoComplete,
            UndoFailsComplete, RedoComplete DEF FileNext

\* As long as every change is recorded and undone in order, the stacks hold the whole
\* history of every file, from what the session found over what is there to what can be
\* redone: undoing everything restores the workspace (diff.py, undo.py, redo.py).
THEOREM HistoryComplete == FileSpec => []HistoryIsComplete
<1>1. FileInit => Complete
  BY DEF FileInit, Complete, Leads, Continues
<1>2. FileTypeOK /\ Complete /\ [FileNext]_fileVars => Complete'
  BY FileNextComplete
<1>3. FileTypeOK /\ Complete => HistoryIsComplete
  BY CompleteIsEnough
<1> QED  BY FileTyped, <1>1, <1>2, <1>3, PTL DEF FileSpec

-----------------------------------------------------------------------------
(* No entry is lost or doubled.                                            *)

\* t is s with the element at a moved up to b.
Moved(s, t, a, b) ==
    /\ Len(t) = Len(s) /\ t[b] = s[a]
    /\ \A k \in 1 .. Len(s) : k < a \/ k > b => t[k] = s[k]
    /\ \A k \in 1 .. Len(s) : a <= k /\ k < b => t[k] = s[k + 1]

\* A move leaves each element as often as it was.
LEMMA MovedBag ==
    ASSUME NEW S, NEW s \in Seq(S), NEW t \in Seq(S),
           NEW a \in 1 .. Len(s), NEW b \in 1 .. Len(s), a <= b, Moved(s, t, a, b)
    PROVE  ToBag(t) = ToBag(s)
<1> DEFINE n == Len(s)
           h(k) == IF k < a \/ k > b THEN k ELSE IF k < b THEN k + 1 ELSE a
           g(k) == IF k < a \/ k > b THEN k ELSE IF k = a THEN b ELSE k - 1
<1>1. n \in Nat /\ DOMAIN s = 1 .. n /\ DOMAIN t = 1 .. n
  BY DEF Moved
<1>2. \A k \in 1 .. n : h(k) \in 1 .. n /\ g(h(k)) = k /\ g(k) \in 1 .. n /\ h(g(k)) = k
  BY <1>1
<1>3. \A k \in 1 .. n : t[k] = s[h(k)]
  <2> TAKE k \in 1 .. n
  <2>1. CASE k < a \/ k > b
    BY <2>1 DEF Moved
  <2>2. CASE a <= k /\ k < b
    BY <1>1, <2>2 DEF Moved
  <2>3. CASE k = b
    BY <1>1, <2>3 DEF Moved
  <2> QED  BY <1>1, <2>1, <2>2, <2>3
<1> HIDE DEF h, g, n
<1>4. \A k \in 1 .. n : s[k] = t[g(k)]
  BY <1>2, <1>3
<1>5. Range(t) = Range(s)
  <2>1. Range(t) = {t[k] : k \in 1 .. n} /\ Range(s) = {s[k] : k \in 1 .. n}
    BY <1>1 DEF Range
  <2>2. \A k \in 1 .. n : t[k] \in Range(s) /\ s[k] \in Range(t)
    BY <1>2, <1>3, <1>4, <2>1
  <2> QED  BY <2>1, <2>2
<1>6. ASSUME NEW x
      PROVE  Cardinality({i \in DOMAIN t : t[i] = x}) = Cardinality({i \in DOMAIN s : s[i] = x})
  <2> DEFINE A == {i \in 1 .. n : t[i] = x}
             B == {i \in 1 .. n : s[i] = x}
             f == [i \in A |-> h(i)]
  <2>1. f \in [A -> B]
    BY <1>2, <1>3
  <2>2. \A i, j \in A : f[i] = f[j] => i = j
    BY <1>2
  <2>3. \A j \in B : g(j) \in A /\ f[g(j)] = j
    BY <1>2, <1>4
  <2> HIDE DEF f
  <2>4. ExistsBijection(A, B)
    <3> HIDE DEF A, B
    <3>1. DOMAIN f = A
      BY <2>1
    <3>2. f \in Injection(A, B)
      BY <2>1, <2>2, <3>1 DEF Injection, IsInjective
    <3>3. f \in Surjection(A, B)
      BY <2>1, <2>3 DEF Surjection
    <3> QED  BY <3>2, <3>3 DEF ExistsBijection, Bijection
  <2>5. IsFiniteSet(A)
    <3>1. IsFiniteSet(1 .. n)
      BY <1>1, FS_Interval
    <3> QED  BY <3>1, FS_Subset
  <2>6. Cardinality(A) = Cardinality(B)
    BY <2>4, <2>5, FS_Bijection
  <2> QED  BY <1>1, <2>6
<1> QED  BY <1>5, <1>6 DEF ToBag

\* A recorded change comes last, and a call without a record leaves the store alone.
LEMMA RecordedKept ==
    ASSUME FileTypeOK, NEW path, NEW new, AppendEntry(path, new)
    PROVE  redo' = <<>> /\ entries' # <<>> /\ entries = Front(entries')
<1> DEFINE e == [path |-> path, changes |-> [f \in DOMAIN new |-> [old |-> disk[f], new |-> new[f]]]]
           t == Append(entries, e)
<1>1. entries \in Seq(Entry) /\ entries' = t /\ redo' = <<>>
  BY DEF FileTypeOK, AppendEntry
<1> HIDE DEF e
<1>2. entries \in Seq(Entry \cup {e}) /\ e \in Entry \cup {e}
  BY <1>1
<1>3. /\ t \in Seq(Entry \cup {e}) /\ Len(t) = Len(entries) + 1 /\ t # <<>> /\ Len(entries) \in Nat
      /\ \A k \in 1 .. Len(entries) : t[k] = entries[k]
  BY <1>2
<1> HIDE DEF t
<1>4. /\ Front(t) \in Seq(Entry \cup {e}) /\ Len(Front(t)) = Len(t) - 1
      /\ \A k \in 1 .. Len(t) - 1 : Front(t)[k] = t[k]
  BY <1>3, FrontFacts
<1>5. Front(t) = entries
  <2>1. Len(Front(t)) = Len(entries) /\ Len(t) - 1 = Len(entries)
    BY <1>3, <1>4
  <2>2. \A k \in 1 .. Len(entries) : Front(t)[k] = entries[k]
    BY <1>3, <1>4, <2>1
  <2>3. Front(t) = [k \in 1 .. Len(Front(t)) |-> Front(t)[k]] /\ entries = [k \in 1 .. Len(entries) |-> entries[k]]
    BY <1>2, <1>4
  <2> QED  BY <2>1, <2>2, <2>3
<1> QED  BY <1>1, <1>3, <1>5

\* An undone entry goes from where it was to the end of both stacks, one behind the other.
LEMMA UndoKept ==
    ASSUME FileTypeOK, NEW p, Undo(p)
    PROVE  ToBag(entries' \o redo') = ToBag(entries \o redo)
<1>1. PICK i \in LastIndex(p) : entries' = RemoveAt(entries, i) /\ redo' = Append(redo, entries[i])
  BY DEF Undo
<1> DEFINE n == Len(entries)
           m == Len(redo)
           e == entries[i]
           s == entries \o redo
           t == RemoveAt(entries, i) \o Append(redo, e)
<1>2. i \in DOMAIN entries /\ e \in Entry /\ entries \in Seq(Entry) /\ redo \in Seq(Entry)
  BY LastIndexType DEF FileTypeOK
<1>3. n \in Nat /\ m \in Nat /\ i \in 1 .. n
  BY <1>2
<1>4. /\ s \in Seq(Entry) /\ Len(s) = n + m
      /\ \A k \in 1 .. n : s[k] = entries[k]
      /\ \A k \in 1 .. m : s[n + k] = redo[k]
  BY <1>2
<1>5. /\ RemoveAt(entries, i) \in Seq(Entry) /\ Len(RemoveAt(entries, i)) = n - 1
      /\ \A k \in 1 .. n - 1 : RemoveAt(entries, i)[k] = IF k < i THEN entries[k] ELSE entries[k + 1]
  BY <1>2, RemoveAtFacts
<1>6. /\ Append(redo, e) \in Seq(Entry) /\ Len(Append(redo, e)) = m + 1 /\ Append(redo, e)[m + 1] = e
      /\ \A k \in 1 .. m : Append(redo, e)[k] = redo[k]
  BY <1>2
<1>7. /\ t \in Seq(Entry) /\ Len(t) = n + m
      /\ \A k \in 1 .. n - 1 : t[k] = RemoveAt(entries, i)[k]
      /\ \A k \in 1 .. m + 1 : t[n - 1 + k] = Append(redo, e)[k]
  <2> DEFINE u == RemoveAt(entries, i)
             v == Append(redo, e)
  <2>1. u \in Seq(Entry) /\ v \in Seq(Entry) /\ Len(u) = n - 1 /\ Len(v) = m + 1
    BY <1>5, <1>6
  <2> HIDE DEF u, v, n, m
  <2>2. /\ u \o v \in Seq(Entry) /\ Len(u \o v) = (n - 1) + (m + 1)
        /\ \A k \in 1 .. n - 1 : (u \o v)[k] = u[k]
        /\ \A k \in 1 .. m + 1 : (u \o v)[n - 1 + k] = v[k]
    BY <1>3, <2>1
  <2>3. (n - 1) + (m + 1) = n + m
    BY <1>3
  <2> QED  BY <2>2, <2>3 DEF u, v
<1> HIDE DEF s, t, n, m
<1>8. Moved(s, t, i, n + m)
  <2>1. Len(t) = Len(s) /\ t[n + m] = s[i]
    <3>1. n - 1 + (m + 1) = n + m /\ m + 1 \in 1 .. m + 1
      BY <1>3
    <3>2. t[n + m] = Append(redo, e)[m + 1]
      BY <1>7, <3>1
    <3> QED  BY <1>3, <1>4, <1>6, <1>7, <3>2
  <2>2. ASSUME NEW k \in 1 .. n + m, k < i \/ k > n + m PROVE t[k] = s[k]
    <3>1. k \in 1 .. n - 1 /\ k \in 1 .. n /\ k < i
      BY <1>3, <2>2
    <3> QED  BY <1>4, <1>5, <1>7, <3>1
  <2>3. ASSUME NEW k \in 1 .. n + m, i <= k, k < n + m PROVE t[k] = s[k + 1]
    <3>1. CASE k <= n - 1
      <4>1. k \in 1 .. n - 1 /\ k + 1 \in 1 .. n /\ ~ (k < i)
        BY <1>3, <2>3, <3>1
      <4> QED  BY <1>4, <1>5, <1>7, <4>1
    <3>2. CASE k > n - 1
      <4> DEFINE j == k - n + 1
      <4>1. j \in 1 .. m /\ j \in 1 .. m + 1 /\ n - 1 + j = k /\ n + j = k + 1
        BY <1>3, <2>3, <3>2
      <4> HIDE DEF j
      <4>2. t[k] = redo[j] /\ s[k + 1] = redo[j]
        BY <1>4, <1>6, <1>7, <4>1
      <4> QED  BY <4>2
    <3> QED  BY <1>3, <3>1, <3>2
  <2> QED  BY <1>4, <2>1, <2>2, <2>3 DEF Moved
<1>9. i \in 1 .. Len(s) /\ n + m \in 1 .. Len(s) /\ i <= n + m
  BY <1>3, <1>4
<1>10. ToBag(t) = ToBag(s)
  BY <1>4, <1>7, <1>8, <1>9, MovedBag
<1> QED  BY <1>1, <1>10 DEF s, t

\* An undo that failed moves its entry to the end of the entries.
LEMMA UndoFailsKept ==
    ASSUME FileTypeOK, NEW p, UndoFails(p)
    PROVE  ToBag(entries' \o redo') = ToBag(entries \o redo)
<1>1. PICK i \in LastIndex(p) : entries' = Append(RemoveAt(entries, i), entries[i]) /\ redo' = redo
  BY DEF UndoFails
<1> DEFINE n == Len(entries)
           m == Len(redo)
           e == entries[i]
           u == Append(RemoveAt(entries, i), e)
           s == entries \o redo
           t == u \o redo
<1>2. i \in DOMAIN entries /\ e \in Entry /\ entries \in Seq(Entry) /\ redo \in Seq(Entry)
  BY LastIndexType DEF FileTypeOK
<1>3. n \in Nat /\ m \in Nat /\ i \in 1 .. n
  BY <1>2
<1>4. /\ s \in Seq(Entry) /\ Len(s) = n + m
      /\ \A k \in 1 .. n : s[k] = entries[k]
      /\ \A k \in 1 .. m : s[n + k] = redo[k]
  BY <1>2
<1>5. /\ u \in Seq(Entry) /\ Len(u) = n /\ u[n] = e
      /\ \A k \in 1 .. n - 1 : u[k] = IF k < i THEN entries[k] ELSE entries[k + 1]
  <2> DEFINE r == RemoveAt(entries, i)
  <2>1. /\ r \in Seq(Entry) /\ Len(r) = n - 1
        /\ \A k \in 1 .. n - 1 : r[k] = IF k < i THEN entries[k] ELSE entries[k + 1]
    BY <1>2, RemoveAtFacts
  <2> HIDE DEF r, n, e
  <2>2. /\ Append(r, e) \in Seq(Entry) /\ Len(Append(r, e)) = Len(r) + 1 /\ Append(r, e)[Len(r) + 1] = e
        /\ \A k \in 1 .. Len(r) : Append(r, e)[k] = r[k]
    BY <1>2, <2>1
  <2>3. Len(r) + 1 = n
    BY <1>3, <2>1
  <2> QED  BY <2>1, <2>2, <2>3 DEF r
<1> HIDE DEF u
<1>6. /\ t \in Seq(Entry) /\ Len(t) = n + m
      /\ \A k \in 1 .. n : t[k] = u[k]
      /\ \A k \in 1 .. m : t[n + k] = redo[k]
  <2>1. u \in Seq(Entry) /\ Len(u) = n /\ redo \in Seq(Entry)
    BY <1>2, <1>5
  <2> QED  BY <2>1
<1> HIDE DEF s, t, n, m
<1>7. Moved(s, t, i, n)
  <2>1. n \in 1 .. n /\ 1 .. n \subseteq 1 .. n + m /\ n + m \in Nat
    BY <1>3
  <2>2. t[n] = s[i]
    BY <1>3, <1>4, <1>5, <1>6, <2>1
  <2>3. ASSUME NEW k \in 1 .. n + m, k < i PROVE t[k] = s[k]
    <3>1. k \in 1 .. n /\ k \in 1 .. n - 1
      BY <1>3, <2>3
    <3> QED  BY <1>4, <1>5, <1>6, <2>3, <3>1
  <2>4. ASSUME NEW k \in 1 .. n + m, k > n PROVE t[k] = s[k]
    <3> DEFINE j == k - n
    <3>1. j \in 1 .. m /\ n + j = k
      BY <1>3, <2>4
    <3> HIDE DEF j
    <3> QED  BY <1>4, <1>6, <3>1
  <2>5. ASSUME NEW k \in 1 .. n + m, i <= k, k < n PROVE t[k] = s[k + 1]
    <3>1. k \in 1 .. n /\ k \in 1 .. n - 1 /\ k + 1 \in 1 .. n /\ ~ (k < i)
      BY <1>3, <2>5
    <3> QED  BY <1>4, <1>5, <1>6, <3>1
  <2> QED  BY <1>4, <1>6, <2>2, <2>3, <2>4, <2>5 DEF Moved
<1>8. i \in 1 .. Len(s) /\ n \in 1 .. Len(s) /\ i <= n
  BY <1>3, <1>4
<1>9. ToBag(t) = ToBag(s)
  BY <1>4, <1>6, <1>7, <1>8, MovedBag
<1> QED  BY <1>1, <1>9 DEF s, t, u

\* What is redone goes from the end of the one stack to the end of the other.
LEMMA RedoKept ==
    ASSUME FileTypeOK, Redo
    PROVE  ToBag(entries' \o redo') = ToBag(entries \o redo)
<1> DEFINE e == Last(redo)
           n == Len(entries)
           m == Len(redo)
           s == entries \o redo
           u == Append(entries, e)
           r == Front(redo)
           t == u \o r
<1>1. redo # <<>> /\ redo' = r /\ entries' = u /\ entries \in Seq(Entry) /\ redo \in Seq(Entry)
  BY DEF Redo, FileTypeOK
<1>2. /\ n \in Nat /\ m \in Nat \ {0} /\ e \in Entry /\ e = redo[m]
      /\ r \in Seq(Entry) /\ Len(r) = m - 1 /\ \A k \in 1 .. m - 1 : r[k] = redo[k]
  <2>1. n \in Nat
    BY <1>1
  <2>2. redo \in Seq(Entry) /\ redo # <<>>
    BY <1>1
  <2> QED  BY <2>1, <2>2, FrontFacts
<1> HIDE DEF r, e
<1>3. /\ s \in Seq(Entry) /\ Len(s) = n + m
      /\ \A k \in 1 .. n : s[k] = entries[k]
      /\ \A k \in 1 .. m : s[n + k] = redo[k]
  BY <1>1
<1>4. /\ u \in Seq(Entry) /\ Len(u) = n + 1 /\ u[n + 1] = e
      /\ \A k \in 1 .. n : u[k] = entries[k]
  BY <1>1, <1>2
<1> HIDE DEF u, n, m
<1>5. /\ t \in Seq(Entry) /\ Len(t) = n + m
      /\ \A k \in 1 .. n + 1 : t[k] = u[k]
      /\ \A k \in 1 .. m - 1 : t[n + 1 + k] = r[k]
  <2>1. /\ t \in Seq(Entry) /\ Len(t) = (n + 1) + (m - 1)
        /\ \A k \in 1 .. n + 1 : t[k] = u[k]
        /\ \A k \in 1 .. m - 1 : t[n + 1 + k] = r[k]
    BY <1>2, <1>4
  <2>2. (n + 1) + (m - 1) = n + m
    BY <1>2
  <2> QED  BY <2>1, <2>2
<1> HIDE DEF s, t
<1>6. Moved(t, s, n + 1, n + m)
  <2>1. s[n + m] = t[n + 1]
    <3>1. m \in 1 .. m /\ n + 1 \in 1 .. n + 1
      BY <1>2
    <3> QED  BY <1>2, <1>3, <1>4, <1>5, <3>1
  <2>2. ASSUME NEW k \in 1 .. n + m, k < n + 1 \/ k > n + m PROVE s[k] = t[k]
    <3>1. k \in 1 .. n /\ k \in 1 .. n + 1
      BY <1>2, <2>2
    <3> QED  BY <1>3, <1>4, <1>5, <3>1
  <2>3. ASSUME NEW k \in 1 .. n + m, n + 1 <= k, k < n + m PROVE s[k] = t[k + 1]
    <3> DEFINE j == k - n
    <3>1. j \in 1 .. m /\ j \in 1 .. m - 1 /\ n + j = k /\ n + 1 + j = k + 1
      BY <1>2, <2>3
    <3> HIDE DEF j
    <3> QED  BY <1>2, <1>3, <1>5, <3>1
  <2> QED  BY <1>3, <1>5, <2>1, <2>2, <2>3 DEF Moved
<1>7. n + 1 \in 1 .. Len(t) /\ n + m \in 1 .. Len(t) /\ n + 1 <= n + m
  BY <1>2, <1>5
<1>8. ToBag(s) = ToBag(t)
  BY <1>3, <1>5, <1>6, <1>7, MovedBag
<1> QED  BY <1>1, <1>8 DEF s, t

\* Nothing that was recorded is lost or doubled, and only a new change drops what could
\* be redone, whatever undos and redos succeed, fail or fail halfway.
THEOREM NothingIsForgotten == FileSpec => NothingForgotten
<1> DEFINE Kept == \/ redo' = <<>> /\ entries' # <<>> /\ entries = Front(entries')
                   \/ ToBag(entries' \o redo') = ToBag(entries \o redo)
<1>1. ASSUME FileTypeOK, [FileNext]_fileVars PROVE [Kept]_fileVars
  <2>1. ASSUME NEW new, Unrecorded(new) PROVE Kept
    BY <2>1 DEF Unrecorded, stores
  <2>2. ASSUME NEW path, NEW new, AppendEntry(path, new) PROVE Kept
    BY <1>1, <2>2, RecordedKept
  <2>3. ASSUME NEW p, Undo(p) PROVE Kept
    BY <1>1, <2>3, UndoKept
  <2>4. ASSUME NEW p, UndoFails(p) PROVE Kept
    BY <1>1, <2>4, UndoFailsKept
  <2>5. CASE Redo
    BY <1>1, <2>5, RedoKept
  <2> HIDE DEF Kept
  <2>6. CASE RedoFails
    BY <2>1, <2>6 DEF RedoFails
  <2>7. ASSUME NEW f, NEW content, Shell(f, content) PROVE Kept
    BY <2>1, <2>7 DEF Shell
  <2>8. ASSUME NEW f, NEW text,
               Write(f, text) \/ EditNew(f, text) \/ Edit(f, text) \/ RolledBack(f, text)
        PROVE  Kept
    BY <2>1, <2>2, <2>8 DEF Write, EditNew, Edit, RolledBack
  <2>9. ASSUME NEW new, Refactor(new) \/ RefactorFails(new) \/ LintFix(new) \/ LintFixTimesOut(new)
        PROVE  Kept
    BY <2>1, <2>2, <2>9 DEF Refactor, RefactorFails, LintFix, LintFixTimesOut
  <2> QED  BY <1>1, <2>3, <2>4, <2>5, <2>6, <2>7, <2>8, <2>9 DEF FileNext
<1> QED  BY <1>1, FileTyped, PTL DEF FileSpec, NothingForgotten
=============================================================================
