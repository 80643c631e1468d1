--------------------------- MODULE StepTurnProofs ---------------------------
(***************************************************************************)
(* The types of StepTurn, that a turn without calls completes no step that *)
(* has to be worked on, and that no step is impossible to complete, for    *)
(* every value of the constants.                                           *)
(***************************************************************************)
EXTENDS StepTurn, OrderProofs

\* A turn that made no call has nothing to show.
IdleIsBlank == turn.calls = 0 => turn = NoTurn

\* What the step wrote was read before, or was new: the loop would not refuse to write
\* it again.
WrittenIsRead == written \cup turn.writes \subseteq filesRead

StepInv == StepTypeOK /\ IdleIsBlank /\ WrittenIsRead

Disks     == {d \in [Files -> AllContents] : \A f \in Files : d[f] \in Contents(f)}
WorldType == [disk : Disks, read : SUBSET Files, turn : Turn]

-----------------------------------------------------------------------------

LEMMA NoTurnType == NoTurn \in Turn /\ NoTurn.calls = 0
<1>1. <<>> \in [{} -> {"broken", "untidy"}]
  OBVIOUS
<1>2. <<>> \in Rolled
  BY <1>1 DEF Rolled
<1> QED  BY <1>2, StepTurnAssumption DEF NoTurn, Turn

LEMMA FileCallType ==
    ASSUME NEW tool, NEW contents, NEW call \in FileCalls(tool, contents)
    PROVE  call.tool = tool /\ call.file \in Files /\ call.content \in contents
BY DEF FileCalls, Call

\* The parts of a call that its tool looks at.
LEMMA CallType ==
    ASSUME NEW call \in Calls, NEW w, Possible(w, call)
    PROVE  /\ call.tool \in {"read", "write", "patch", "bash", "bulk"} => call.file \in Files
           /\ call.tool \in {"write", "patch", "bash", "bulk"} =>
                 call.content \in Contents(call.file)
<1>1. CASE call \in FileCalls("read", {""})
  BY <1>1, FileCallType
<1>2. CASE call \in OtherCalls
  BY <1>2 DEF OtherCalls, NoFile, Call
<1>3. CASE call \in FileCalls("write", AllContents \ {"absent"})
  BY <1>3, FileCallType DEF Possible
<1>4. CASE call \in FileCalls("patch", AllContents \ {"absent"})
  BY <1>4, FileCallType DEF Possible
<1>5. CASE call \in FileCalls("bash", {"absent", "fine"})
  BY <1>5, FileCallType DEF Contents
<1>6. CASE call \in FileCalls("bulk", {"absent", "fine"})
  BY <1>6, FileCallType DEF Contents
<1> QED  BY <1>1, <1>2, <1>3, <1>4, <1>5, <1>6 DEF Calls

LEMMA DiskWritten ==
    ASSUME NEW d \in Disks, NEW f \in Files, NEW c \in Contents(f)
    PROVE  [d EXCEPT ![f] = c] \in Disks
<1>1. c \in AllContents
  BY DEF AllContents
<1> QED  BY <1>1 DEF Disks

\* A write that is taken back is a Python file's.
LEMMA RolledMore ==
    ASSUME NEW r \in Rolled, NEW f \in Files, NEW c \in Contents(f), c \in {"broken", "untidy"}
    PROVE  Put(r, f, c) \in Rolled
<1>1. f \in Python
  BY DEF Contents
<1>2. PICK F \in SUBSET Python : r \in [F -> {"broken", "untidy"}]
  BY DEF Rolled
<1>3. Put(r, f, c) \in [F \cup {f} -> {"broken", "untidy"}]
  BY <1>2 DEF Put
<1>4. F \cup {f} \in SUBSET Python
  BY <1>1
<1> QED  BY <1>3, <1>4 DEF Rolled

\* What a call that is possible makes of a world.
LEMMA AfterType ==
    ASSUME NEW w \in WorldType, NEW c \in Calls, Possible(w, c), w.turn.calls < MaxCalls
    PROVE  /\ After(w, c) \in WorldType
           /\ After(w, c).turn.calls # 0
<1> DEFINE counted == [w EXCEPT !.turn.calls = @ + 1]
           writes  == [counted EXCEPT
                          !.turn.writes = @ \cup {c.file},
                          !.read = IF c.tool = "write" THEN @ \cup {c.file} ELSE @]
<1>1. /\ c.tool \in {"read", "write", "patch", "bash", "bulk"} => c.file \in Files
      /\ c.tool \in {"write", "patch", "bash", "bulk"} => c.content \in Contents(c.file)
  BY CallType
<1>2. counted \in WorldType /\ counted.turn.calls # 0
  BY StepTurnAssumption DEF WorldType, Turn
<1>3. c.tool \in {"write", "patch"} => writes \in WorldType /\ writes.turn.calls # 0
  BY <1>1, <1>2 DEF WorldType, Turn
<1> HIDE DEF counted, writes
<1>4. CASE c.tool = "fail" \/ Blocked(w, c)
  <2>1. After(w, c) = [counted EXCEPT !.turn.failed = TRUE]
    BY <1>4 DEF After, counted
  <2> QED  BY <1>2, <2>1 DEF WorldType, Turn
<1>5. CASE ~(c.tool = "fail" \/ Blocked(w, c)) /\ c.tool = "read"
  <2>1. After(w, c) = [counted EXCEPT !.read = @ \cup {c.file}, !.turn.looked = TRUE]
    BY <1>5 DEF After, counted
  <2>2. counted.read \cup {c.file} \in SUBSET Files
    BY <1>1, <1>2, <1>5 DEF WorldType
  <2>3. [counted EXCEPT !.turn.looked = TRUE] \in WorldType
    BY <1>2 DEF WorldType, Turn
  <2> QED  BY <1>2, <2>1, <2>2, <2>3 DEF WorldType, Turn
<1>6. CASE ~(c.tool = "fail" \/ Blocked(w, c)) /\ c.tool = "look"
  <2>1. After(w, c) = [counted EXCEPT !.turn.looked = TRUE]
    BY <1>6 DEF After, counted
  <2> QED  BY <1>2, <2>1 DEF WorldType, Turn
<1>7. CASE ~(c.tool = "fail" \/ Blocked(w, c)) /\ c.tool = "run"
  <2>1. After(w, c) = [counted EXCEPT !.turn.ran = TRUE]
    BY <1>7 DEF After, counted
  <2> QED  BY <1>2, <2>1 DEF WorldType, Turn
<1>8. CASE ~(c.tool = "fail" \/ Blocked(w, c)) /\ c.tool \in {"bash", "bulk"}
  <2>1. [counted EXCEPT !.disk[c.file] = c.content] \in WorldType
    BY <1>1, <1>2, <1>8, DiskWritten DEF WorldType
  <2>2. CASE c.tool = "bash"
    <3>1. After(w, c) = [counted EXCEPT !.turn.ran = TRUE, !.disk[c.file] = c.content]
      BY <1>8, <2>2 DEF After, counted
    <3> QED  BY <1>2, <2>1, <3>1 DEF WorldType, Turn
  <2>3. CASE c.tool = "bulk"
    <3>1. After(w, c) = [counted EXCEPT !.disk[c.file] = c.content]
      BY <1>8, <2>3 DEF After, counted
    <3> QED  BY <1>2, <2>1, <3>1 DEF WorldType
  <2> QED  BY <1>8, <2>2, <2>3
<1>9. CASE ~(c.tool = "fail" \/ Blocked(w, c)) /\ c.tool \in {"write", "patch"}
  <2>1. CASE TakenBack(w, c)
    <3>1. After(w, c) = [writes EXCEPT !.turn.rolled = Put(@, c.file, c.content)]
      BY <1>9, <2>1 DEF After, counted, writes
    <3>2. Put(writes.turn.rolled, c.file, c.content) \in Rolled
      BY <1>1, <1>3, <1>9, <2>1, RolledMore DEF TakenBack, WorldType, Turn
    <3> QED  BY <1>3, <1>9, <3>1, <3>2 DEF WorldType, Turn
  <2>2. CASE ~TakenBack(w, c)
    <3>1. After(w, c) = [writes EXCEPT !.disk[c.file] = c.content]
      BY <1>9, <2>2 DEF After, counted, writes
    <3>2. [writes.disk EXCEPT ![c.file] = c.content] \in Disks
      BY <1>1, <1>3, <1>9, DiskWritten DEF WorldType
    <3> QED  BY <1>3, <1>9, <3>1, <3>2 DEF WorldType
  <2> QED  BY <2>1, <2>2
<1>10. CASE /\ ~(c.tool = "fail" \/ Blocked(w, c))
            /\ c.tool \notin {"read", "look", "run", "bash", "bulk", "write", "patch"}
  <2>1. After(w, c) = counted
    BY <1>10 DEF After, counted
  <2> QED  BY <1>2, <2>1
<1> QED  BY <1>4, <1>5, <1>6, <1>7, <1>8, <1>9, <1>10

\* A call that is possible forgets nothing that was read, and what it writes was read.
LEMMA AfterRead ==
    ASSUME NEW w \in WorldType, NEW c \in Calls, Possible(w, c), w.turn.calls < MaxCalls,
           w.turn.writes \subseteq w.read
    PROVE  w.read \subseteq After(w, c).read /\ After(w, c).turn.writes \subseteq After(w, c).read
<1> DEFINE counted == [w EXCEPT !.turn.calls = @ + 1]
           writes  == [counted EXCEPT
                          !.turn.writes = @ \cup {c.file},
                          !.read = IF c.tool = "write" THEN @ \cup {c.file} ELSE @]
<1>1. counted.read = w.read /\ counted.turn.writes = w.turn.writes
  BY DEF WorldType, Turn
<1>2. CASE c.tool \in {"write", "patch"} /\ ~Blocked(w, c)
  <2>2. c.tool = "patch" => c.file \in w.read
    BY <1>2 DEF Blocked, Possible
  <2>3. w.read \subseteq writes.read /\ writes.turn.writes \subseteq writes.read
    BY <1>1, <1>2, <2>2 DEF WorldType, Turn
  <2>4. c.file \in Files
    BY <1>2, CallType
  <2>5. counted \in WorldType
    BY StepTurnAssumption DEF WorldType, Turn
  <2>6. writes \in WorldType
    BY <2>4, <2>5 DEF WorldType, Turn
  <2>7. CASE TakenBack(w, c)
    <3>1. After(w, c) = [writes EXCEPT !.turn.rolled = Put(@, c.file, c.content)]
      BY <1>2, <2>7 DEF After
    <3> HIDE DEF writes
    <3>2. After(w, c).read = writes.read /\ After(w, c).turn.writes = writes.turn.writes
      BY <2>6, <3>1 DEF WorldType, Turn
    <3> QED  BY <2>3, <3>2
  <2>8. CASE ~TakenBack(w, c)
    <3>1. After(w, c) = [writes EXCEPT !.disk[c.file] = c.content]
      BY <1>2, <2>8 DEF After
    <3> HIDE DEF writes
    <3>2. After(w, c).read = writes.read /\ After(w, c).turn.writes = writes.turn.writes
      BY <2>6, <3>1 DEF WorldType, Turn
    <3> QED  BY <2>3, <3>2
  <2> QED  BY <2>7, <2>8
<1>3. CASE ~(c.tool \in {"write", "patch"} /\ ~Blocked(w, c))
  <2>1. /\ After(w, c).turn.writes = w.turn.writes
        /\ After(w, c).read \in {w.read, w.read \cup {c.file}}
    BY <1>3 DEF After, WorldType, Turn
  <2> QED  BY <2>1
<1> QED  BY <1>2, <1>3

LEMMA WorldHasType ==
    ASSUME StepTypeOK
    PROVE  World \in WorldType
BY DEF StepTypeOK, World, WorldType, Disks

-----------------------------------------------------------------------------
(* The invariant, action by action.                                        *)

LEMMA StepInitInv == StepInit => StepInv
<1> SUFFICES ASSUME StepInit PROVE StepInv
  OBVIOUS
<1> QED  BY NoTurnType DEF StepInit, StepInv, StepTypeOK, IdleIsBlank, WrittenIsRead, NoTurn

LEMMA CallToolInv ==
    ASSUME StepInv, NEW c \in Calls, CallTool(c)
    PROVE  StepInv'
<1>1. World \in WorldType /\ World.turn.calls < MaxCalls
  BY WorldHasType DEF StepInv, CallTool, World
<1>2. After(World, c) \in WorldType /\ After(World, c).turn.calls # 0
  BY <1>1, AfterType DEF CallTool
<1>3. /\ disk' = After(World, c).disk /\ filesRead' = After(World, c).read
      /\ turn' = After(World, c).turn
      /\ UNCHANGED <<step, lints, missing, written, status, reason>>
  BY DEF CallTool
<1>4. disk' \in Disks /\ filesRead' \subseteq Files /\ turn' \in Turn /\ turn'.calls # 0
  BY <1>2, <1>3 DEF WorldType
<1>5. StepTypeOK'
  BY <1>3, <1>4 DEF StepInv, StepTypeOK, Disks
<1>6. WrittenIsRead'
  <2>1. World.read = filesRead /\ World.turn = turn /\ World.turn.writes \subseteq World.read
    BY DEF World, StepInv, WrittenIsRead
  <2>2. filesRead \subseteq filesRead' /\ turn'.writes \subseteq filesRead' /\ written' = written
    BY <1>1, <1>3, <2>1, AfterRead DEF CallTool
  <2> QED  BY <2>2 DEF StepInv, WrittenIsRead
<1> QED  BY <1>4, <1>5, <1>6 DEF StepInv, IdleIsBlank

LEMMA VerifyInv ==
    ASSUME StepInv, status = "pending", NEW w, w.read \subseteq Files, filesRead \subseteq w.read,
           w.turn.writes \subseteq filesRead, Verify(w)
    PROVE  StepInv'
<1>1. turn' = NoTurn /\ UNCHANGED <<step, lints, missing, disk>>
  BY DEF Verify
<1>2. filesRead' \subseteq Files /\ written' \subseteq filesRead'
  BY DEF Verify, StepInv, WrittenIsRead
<1>3. /\ status' \in {"pending", "completed"} /\ reason' \in {"", "auto", "verdict"}
      /\ status' = "completed" <=> reason' # ""
  BY DEF Verify, StepInv, StepTypeOK
<1>4. StepTypeOK'
  BY <1>1, <1>2, <1>3, NoTurnType DEF StepInv, StepTypeOK
<1> QED  BY <1>1, <1>2, <1>4 DEF StepInv, IdleIsBlank, WrittenIsRead, NoTurn

LEMMA StepNextInv == StepInv /\ [StepNext]_stepVars => StepInv'
<1> SUFFICES ASSUME StepInv, [StepNext]_stepVars PROVE StepInv'
  OBVIOUS
<1>1. /\ World.read = filesRead /\ World.turn = turn
      /\ turn.writes \subseteq filesRead /\ filesRead \subseteq Files /\ turn \in Turn
  BY DEF StepInv, StepTypeOK, WrittenIsRead, World
<1>2. ASSUME NEW c \in Calls, CallTool(c) PROVE StepInv'
  BY <1>2, CallToolInv
<1>3. CASE TurnSucceeds
  BY <1>1, <1>3, VerifyInv DEF TurnSucceeds
<1>4. CASE TurnFails
  <2>1. turn' = NoTurn /\ UNCHANGED <<step, lints, missing, disk, filesRead, written, status, reason>>
    BY <1>4 DEF TurnFails
  <2> QED  BY <2>1, NoTurnType DEF StepInv, StepTypeOK, IdleIsBlank, WrittenIsRead, NoTurn
<1>5. CASE ReasoningTurn
  <2>1. PICK read \in SUBSET {f \in step.named : Sounds("read") /\ There(World, f)} :
          Verify([World EXCEPT !.read = @ \cup read, !.turn.looked = read # {}])
    BY <1>5 DEF ReasoningTurn
  <2>2. step.named \subseteq Files
    BY StepTurnAssumption DEF StepInv, StepTypeOK, Wording
  <2> DEFINE w == [World EXCEPT !.read = @ \cup read, !.turn.looked = read # {}]
  <2>3. w.read \subseteq Files /\ filesRead \subseteq w.read /\ w.turn.writes \subseteq filesRead
    BY <1>1, <2>2 DEF World, Turn
  <2> QED  BY <1>5, <2>1, <2>3, VerifyInv DEF ReasoningTurn
<1>6. CASE FinishTurn
  BY <1>1, <1>6, VerifyInv DEF FinishTurn
<1>7. CASE UNCHANGED stepVars
  BY <1>7 DEF stepVars, StepInv, StepTypeOK, IdleIsBlank, WrittenIsRead
<1> QED  BY <1>2, <1>3, <1>4, <1>5, <1>6, <1>7 DEF StepNext

-----------------------------------------------------------------------------
(* Turns without calls.                                                    *)

\* A world as it is before any call, but for the files that the loop read itself.
LEMMA BlankVerify ==
    ASSUME StepInv, status = "pending", turn.calls = 0, NEW read \in SUBSET step.named,
           NEW w, w.disk = disk, w.read = filesRead \cup read, w.turn.writes = {},
           w.turn.ran = FALSE, w.turn.looked = (read # {}),
           read # {} => Sounds("read"),
           Verify(w), status' = "completed"
    PROVE  WorkShown
<1>1. written \cup w.turn.writes = written /\ turn.writes = {}
  BY DEF StepInv, IdleIsBlank, NoTurn
<1>2. filesRead' = filesRead \cup read
  BY DEF Verify
<1>3. PICK relevant \in BOOLEAN, answer \in Answers, repaired \in Answers :
          Completed(w, written, relevant, Verdict(answer, repaired))
  BY <1>1 DEF Verify
<1>4. CASE read # {}
  BY <1>2, <1>4 DEF WorkShown
<1>5. CASE read = {}
  <2>1. Created(w) => Created(World)
    BY <1>1 DEF Created, Filled, World
  <2>2. Investigative => Uninvestigated(w) \/ ToRead(w) # {}
    BY <1>5 DEF Uninvestigated
  <2>3. Investigative => Uninvestigated(w)
    BY <1>5, <2>2 DEF Uninvestigated
  <2>4. ~Executed(w) /\ ~Investigated(w, relevant)
    BY <2>3 DEF Executed, Investigated
  <2>5. Created(w) \/ Asked(w, written, relevant)
    BY <1>3, <2>4 DEF Completed, Objective
  <2>6. CASE Asked(w, written, relevant)
    <3>1. ~Investigative
      BY <2>3, <2>6 DEF Asked
    <3>2. ~Sounds("execution")
      BY <1>5, <2>6, <3>1 DEF Asked, Unexecuted
    <3>3. Changes => written # {}
      BY <2>6, <3>1 DEF Asked, Unchanged
    <3> QED  BY <3>1, <3>2, <3>3 DEF WorkShown
  <2> QED  BY <2>1, <2>5, <2>6 DEF WorkShown
<1> QED  BY <1>4, <1>5

LEMMA BlankStep ==
    ASSUME StepInv, StepNext, turn.calls = 0, status' = "completed"
    PROVE  WorkShown \/ UNCHANGED stepVars
<1>1. World.disk = disk /\ World.read = filesRead /\ World.turn = NoTurn
  BY DEF World, StepInv, IdleIsBlank
<1>2. ASSUME NEW c \in Calls, CallTool(c) PROVE FALSE
  BY <1>2 DEF CallTool
<1>3. CASE TurnSucceeds \/ TurnFails
  BY <1>3 DEF TurnSucceeds, TurnFails
<1>4. CASE ReasoningTurn
  <2>1. PICK read \in SUBSET {f \in step.named : Sounds("read") /\ There(World, f)} :
          Verify([World EXCEPT !.read = @ \cup read, !.turn.looked = read # {}])
    BY <1>4 DEF ReasoningTurn
  <2> DEFINE w == [World EXCEPT !.read = @ \cup read, !.turn.looked = read # {}]
  <2>2. /\ w.disk = disk /\ w.read = filesRead \cup read /\ w.turn.writes = {}
        /\ w.turn.ran = FALSE /\ w.turn.looked = (read # {})
    BY <1>1 DEF World, NoTurn
  <2>3. read \in SUBSET step.named /\ (read # {} => Sounds("read"))
    OBVIOUS
  <2> QED  BY <1>4, <2>1, <2>2, <2>3, BlankVerify DEF ReasoningTurn
<1>5. CASE FinishTurn
  <2>0. ({} # {}) = FALSE
    OBVIOUS
  <2>1. /\ World.read = filesRead \cup {} /\ World.turn.writes = {}
        /\ World.turn.ran = FALSE /\ World.turn.looked = FALSE
    BY <1>1 DEF NoTurn
  <2> QED  BY <1>1, <1>5, <2>0, <2>1, BlankVerify DEF FinishTurn
<1> QED  BY <1>2, <1>3, <1>4, <1>5 DEF StepNext

-----------------------------------------------------------------------------
(* A turn that completes the step.                                         *)

\* What the calls come to, when one after the other is known.
LEMMA PlayedIs ==
    ASSUME NEW s, Sequence(s), NEW g, g = [i \in 0 .. Len(s) |-> g[i]], g[0] = World,
           \A i \in 1 .. Len(s) : g[i] = After(g[i - 1], s[i])
    PROVE  Played(s) = g[Len(s)]
<1> DEFINE n == Len(s)
           Rec(h) == h = [i \in 0 .. n |-> IF i = 0 THEN World ELSE After(h[i - 1], s[i])]
           upTo == CHOOSE h : Rec(h)
<1>1. n \in Nat
  BY DomainSequence
<1>2. Played(s) = upTo[n]
  BY DEF Played, Scan
<1>3. Rec(g)
  <2> DEFINE next(i) == IF i = 0 THEN World ELSE After(g[i - 1], s[i])
  <2>1. \A i \in 0 .. n : i = 0 \/ i \in 1 .. n
    BY <1>1
  <2>2. \A i \in 0 .. n : g[i] = next(i)
    BY <2>1
  <2> HIDE DEF next
  <2>3. g = [i \in 0 .. n |-> next(i)]
    BY <2>2
  <2> QED  BY <2>3 DEF next
<1> HIDE DEF n
<1>4. Rec(upTo)
  <2> HIDE DEF Rec
  <2> QED  BY <1>3
<1> HIDE DEF upTo
<1>5. upTo[0] = World /\ \A i \in 1 .. n : upTo[i] = After(upTo[i - 1], s[i])
  BY <1>1, <1>4
<1> HIDE DEF Rec
<1> DEFINE T == {i \in 0 .. n : upTo[i] = g[i]}
<1>6. 0 \in T
  BY <1>1, <1>5
<1>7. \A i \in 0 .. n : i \in T /\ i < n => i + 1 \in T
  <2> TAKE i \in 0 .. n
  <2> HAVE i \in T /\ i < n
  <2>1. i + 1 \in 1 .. n /\ i + 1 \in 0 .. n /\ (i + 1) - 1 = i
    BY <1>1
  <2>2. upTo[i + 1] = After(upTo[i], s[i + 1]) /\ g[i + 1] = After(g[i], s[i + 1])
    BY <1>5, <2>1 DEF n
  <2> QED  BY <2>1, <2>2
<1>8. n \in T
  <2> HIDE DEF T
  <2>1. \A i \in 0 .. n : i \in T
    BY <1>1, <1>6, <1>7, Climb
  <2> QED  BY <1>1, <2>1
<1> QED  BY <1>2, <1>8 DEF n

\* The files that the first i calls are for, with one of the tools.
FilesOf(s, i, tools) == {s[j].file : j \in {j \in 1 .. i : s[j].tool \in tools}}

\* Calls that read, look, or write well what may be written.
Helps(s) ==
    \A i \in DOMAIN s :
        \/ s[i].tool = "read" /\ s[i].file \in Files
        \/ s[i].tool = "look"
        \/ /\ s[i].tool = "write" /\ s[i].content = "fine" /\ s[i].file \in Files
           /\ Sounds("investigation") => Sounds("change")
           /\ disk[s[i].file] # "absent" => s[i].file \in filesRead \cup FilesOf(s, i - 1, {"read"})

\* Worlds after calls of which none failed.
Never         == {FALSE}
NothingRolled == {<<>>}
HelpedTurns == [calls : Nat, failed : Never, looked : BOOLEAN, writes : SUBSET Files,
                ran : Never, rolled : NothingRolled]
HelpedWorlds == [disk : Disks, read : SUBSET Files, turn : HelpedTurns]

Shown(d, read, n, looked, writes) ==
    [disk |-> d, read |-> read,
     turn |-> [calls |-> n, failed |-> FALSE, looked |-> looked, writes |-> writes, ran |-> FALSE,
               rolled |-> <<>>]]

\* A world is what it shows.
LEMMA WorldShown ==
    ASSUME NEW w \in HelpedWorlds
    PROVE  w = Shown(w.disk, w.read, w.turn.calls, w.turn.looked, w.turn.writes)
<1>1. w = [disk |-> w.disk, read |-> w.read, turn |-> w.turn] /\ w.turn \in HelpedTurns
  BY DEF HelpedWorlds
<1>2. w.turn = [calls |-> w.turn.calls, failed |-> w.turn.failed, looked |-> w.turn.looked,
                writes |-> w.turn.writes, ran |-> w.turn.ran, rolled |-> w.turn.rolled]
  BY <1>1 DEF HelpedTurns
<1>3. w.turn.failed = FALSE /\ w.turn.ran = FALSE /\ w.turn.rolled = <<>>
  BY <1>1 DEF HelpedTurns, NothingRolled, Never
<1> QED  BY <1>1, <1>2, <1>3 DEF Shown

LEMMA ShownType ==
    ASSUME NEW d \in Disks, NEW read \in SUBSET Files, NEW n \in Nat, NEW looked \in BOOLEAN,
           NEW writes \in SUBSET Files
    PROVE  LET w == Shown(d, read, n, looked, writes) IN
           /\ w \in HelpedWorlds
           /\ w.disk = d /\ w.read = read
           /\ w.turn.calls = n /\ w.turn.looked = looked /\ w.turn.writes = writes
BY DEF Shown, HelpedWorlds, HelpedTurns, NothingRolled, Never

\* What calls make of it.
LEMMA AfterShown ==
    ASSUME NEW w \in HelpedWorlds, NEW c, c.tool \in {"read", "write"} => c.file \in Files
    PROVE  /\ c.tool = "read" =>
                 After(w, c) = Shown(w.disk, w.read \cup {c.file}, w.turn.calls + 1, TRUE,
                                     w.turn.writes)
           /\ c.tool = "look" =>
                 After(w, c) = Shown(w.disk, w.read, w.turn.calls + 1, TRUE, w.turn.writes)
           /\ c.tool = "write" /\ c.content \in Contents(c.file) /\ ~Blocked(w, c) /\ ~TakenBack(w, c) =>
                 After(w, c) = Shown([w.disk EXCEPT ![c.file] = c.content], w.read \cup {c.file},
                                     w.turn.calls + 1, w.turn.looked, w.turn.writes \cup {c.file})
<1> DEFINE counted == [w EXCEPT !.turn.calls = @ + 1]
           Same(v) == /\ v.disk = w.disk /\ v.turn.calls = w.turn.calls + 1
                      /\ v.turn.looked = w.turn.looked
<1>1. /\ counted \in HelpedWorlds /\ Same(counted)
      /\ counted.read = w.read /\ counted.turn.writes = w.turn.writes
  <2> DEFINE now == [w.turn EXCEPT !.calls = @ + 1]
  <2>1. w.turn \in HelpedTurns
    BY DEF HelpedWorlds
  <2>2. /\ now \in HelpedTurns /\ now.calls = w.turn.calls + 1 /\ now.looked = w.turn.looked
        /\ now.writes = w.turn.writes
    <3>1. w.turn.calls + 1 \in Nat
      BY <2>1 DEF HelpedTurns
    <3> DEFINE n == w.turn.calls + 1
    <3> HIDE DEF n
    <3> QED  BY <2>1, <3>1 DEF HelpedTurns, n
  <2>3. counted = [w EXCEPT !.turn = now]
    BY DEF HelpedWorlds
  <2> HIDE DEF counted, now
  <2> QED  BY <2>2, <2>3 DEF HelpedWorlds
<1>2. ASSUME c.tool = "read"
      PROVE  After(w, c) = Shown(w.disk, w.read \cup {c.file}, w.turn.calls + 1, TRUE, w.turn.writes)
  <2> DEFINE v == [counted EXCEPT !.read = @ \cup {c.file}, !.turn.looked = TRUE]
  <2>1. After(w, c) = v
    BY <1>2 DEF After, Blocked
  <2> HIDE DEF counted
  <2>2. v \in HelpedWorlds
    BY <1>1, <1>2 DEF HelpedWorlds, HelpedTurns
  <2>3. /\ v.disk = w.disk /\ v.read = w.read \cup {c.file}
        /\ v.turn.calls = w.turn.calls + 1 /\ v.turn.looked = TRUE /\ v.turn.writes = w.turn.writes
    BY <1>1 DEF HelpedWorlds, HelpedTurns
  <2> HIDE DEF v
  <2> QED  BY <2>1, <2>2, <2>3, WorldShown
<1>3. ASSUME c.tool = "look"
      PROVE  After(w, c) = Shown(w.disk, w.read, w.turn.calls + 1, TRUE, w.turn.writes)
  <2> DEFINE v == [counted EXCEPT !.turn.looked = TRUE]
  <2>1. After(w, c) = v
    BY <1>3 DEF After, Blocked
  <2> HIDE DEF counted
  <2>2. v \in HelpedWorlds
    BY <1>1 DEF HelpedWorlds, HelpedTurns
  <2>3. /\ v.disk = w.disk /\ v.read = w.read
        /\ v.turn.calls = w.turn.calls + 1 /\ v.turn.looked = TRUE /\ v.turn.writes = w.turn.writes
    BY <1>1 DEF HelpedWorlds, HelpedTurns
  <2> HIDE DEF v
  <2> QED  BY <2>1, <2>2, <2>3, WorldShown
<1>4. ASSUME c.tool = "write", c.content \in Contents(c.file), ~Blocked(w, c), ~TakenBack(w, c)
      PROVE  After(w, c) = Shown([w.disk EXCEPT ![c.file] = c.content], w.read \cup {c.file},
                                 w.turn.calls + 1, w.turn.looked, w.turn.writes \cup {c.file})
  <2> DEFINE put == [counted EXCEPT !.turn.writes = @ \cup {c.file}, !.read = @ \cup {c.file}]
             v   == [put EXCEPT !.disk[c.file] = c.content]
  <2>1. After(w, c) = v
    BY <1>4 DEF After
  <2> HIDE DEF counted
  <2>2. put \in HelpedWorlds
    BY <1>1, <1>4 DEF HelpedWorlds, HelpedTurns
  <2>3. /\ Same(put) /\ put.read = w.read \cup {c.file}
        /\ put.turn.writes = w.turn.writes \cup {c.file}
    BY <1>1 DEF HelpedWorlds, HelpedTurns
  <2> HIDE DEF put
  <2>4. [put.disk EXCEPT ![c.file] = c.content] \in Disks
    BY <1>4, <2>2, DiskWritten DEF HelpedWorlds
  <2>5. /\ v \in HelpedWorlds /\ v.disk = [put.disk EXCEPT ![c.file] = c.content]
        /\ v.read = put.read /\ v.turn = put.turn
    BY <2>2, <2>4 DEF HelpedWorlds
  <2> HIDE DEF v
  <2>6. v = Shown(v.disk, v.read, v.turn.calls, v.turn.looked, v.turn.writes)
    BY <2>5, WorldShown
  <2>7. v.disk = [w.disk EXCEPT ![c.file] = c.content]
    BY <2>3, <2>5
  <2>8. /\ v.read = w.read \cup {c.file} /\ v.turn.calls = w.turn.calls + 1
        /\ v.turn.looked = w.turn.looked /\ v.turn.writes = w.turn.writes \cup {c.file}
    BY <2>3, <2>5
  <2> QED  BY <2>1, <2>6, <2>7, <2>8
<1> QED  BY <1>2, <1>3, <1>4

\* The world after the first i of them.
HelpedDisk(s, i) == [f \in Files |-> IF f \in FilesOf(s, i, {"write"}) THEN "fine" ELSE disk[f]]
Looked(s, i)     == \E j \in 1 .. i : s[j].tool \in {"read", "look"}
Helped(s, i) ==
    Shown(HelpedDisk(s, i), filesRead \cup FilesOf(s, i, {"read", "write"}), i, Looked(s, i),
          FilesOf(s, i, {"write"}))

LEMMA HelpedType ==
    ASSUME StepInv, NEW s, Sequence(s), Helps(s), NEW i \in 0 .. Len(s)
    PROVE  LET w == Helped(s, i) IN
           /\ w \in HelpedWorlds
           /\ w.disk = HelpedDisk(s, i)
           /\ w.read = filesRead \cup FilesOf(s, i, {"read", "write"})
           /\ w.turn.calls = i
           /\ w.turn.looked = Looked(s, i)
           /\ w.turn.writes = FilesOf(s, i, {"write"})
<1> DEFINE W == FilesOf(s, i, {"write"})
           d == HelpedDisk(s, i)
           read == filesRead \cup FilesOf(s, i, {"read", "write"})
           looked == Looked(s, i)
<1>1. i \in Nat /\ 1 .. i \subseteq DOMAIN s
  BY DomainSequence
<1>2. FilesOf(s, i, {"read", "write"}) \in SUBSET Files /\ W \in SUBSET Files
  BY <1>1 DEF FilesOf, Helps
<1>3. read \in SUBSET Files /\ looked \in BOOLEAN
  BY <1>2 DEF StepInv, StepTypeOK, Looked
<1>4. \A f \in Files : "fine" \in Contents(f) /\ "fine" \in AllContents
  BY DEF Contents, AllContents
<1>5. d \in Disks
  BY <1>4 DEF StepInv, StepTypeOK, Disks, HelpedDisk
<1>6. Helped(s, i) = Shown(d, read, i, looked, W)
  BY DEF Helped
<1> HIDE DEF d, read, looked, W
<1>7. /\ Helped(s, i) \in HelpedWorlds
      /\ Helped(s, i).disk = d /\ Helped(s, i).read = read
      /\ Helped(s, i).turn.calls = i /\ Helped(s, i).turn.looked = looked
      /\ Helped(s, i).turn.writes = W
  BY <1>1, <1>2, <1>3, <1>5, <1>6, ShownType DEF W
<1> QED  BY <1>7 DEF d, read, looked, W

LEMMA HelpedOnce ==
    ASSUME StepInv, NEW s, Sequence(s), Helps(s), NEW i \in 1 .. Len(s)
    PROVE  After(Helped(s, i - 1), s[i]) = Helped(s, i)
<1> DEFINE c == s[i]
           w == Helped(s, i - 1)
           R(k) == FilesOf(s, k, {"read"})
           W(k) == FilesOf(s, k, {"write"})
           B(k) == FilesOf(s, k, {"read", "write"})
           L(k) == Looked(s, k)
           D(k) == HelpedDisk(s, k)
<1>1. /\ i \in DOMAIN s /\ i \in Nat /\ i - 1 \in 0 .. Len(s)
      /\ 1 .. i = (1 .. i - 1) \cup {i} /\ (i - 1) + 1 = i
  BY DomainSequence
<1>2. ASSUME NEW tools
      PROVE  FilesOf(s, i, tools) = FilesOf(s, i - 1, tools) \cup (IF c.tool \in tools THEN {c.file} ELSE {})
  BY <1>1 DEF FilesOf
<1>3. /\ c.tool \in {"read", "look"} => L(i) = TRUE
      /\ c.tool \notin {"read", "look"} => L(i) = L(i - 1)
  BY <1>1 DEF Looked
<1>4. B(i - 1) = R(i - 1) \cup W(i - 1)
  BY DEF FilesOf
<1>5. /\ w \in HelpedWorlds
      /\ w.disk = D(i - 1) /\ w.read = filesRead \cup B(i - 1)
      /\ w.turn.calls = i - 1 /\ w.turn.looked = L(i - 1) /\ w.turn.writes = W(i - 1)
  <2> DEFINE k == i - 1
  <2>1. k \in 0 .. Len(s)
    BY <1>1
  <2> HIDE DEF k
  <2>2. /\ Helped(s, k) \in HelpedWorlds
        /\ Helped(s, k).disk = D(k) /\ Helped(s, k).read = filesRead \cup B(k)
        /\ Helped(s, k).turn.calls = k /\ Helped(s, k).turn.looked = L(k)
        /\ Helped(s, k).turn.writes = W(k)
    BY <2>1, HelpedType
  <2> HIDE DEF D, B, L, W
  <2> QED  BY <2>2 DEF k
<1>6. Helped(s, i) = Shown(D(i), filesRead \cup B(i), i, L(i), W(i))
  BY DEF Helped
<1> HIDE DEF w
<1>7. CASE c.tool = "read"
  <2>0. L(i) = TRUE
    BY <1>3, <1>7
  <2>1. W(i) = w.turn.writes /\ filesRead \cup B(i) = w.read \cup {c.file}
    BY <1>2, <1>5, <1>7
  <2>2. D(i) = w.disk
    BY <1>5, <2>1 DEF HelpedDisk
  <2>3. c.file \in Files
    BY <1>1, <1>7 DEF Helps
  <2> HIDE DEF c
  <2>4. After(w, c) = Shown(w.disk, w.read \cup {c.file}, w.turn.calls + 1, TRUE, w.turn.writes)
    BY <1>5, <1>7, <2>3, AfterShown
  <2> HIDE DEF W, B, L, D
  <2> QED  BY <1>1, <1>5, <1>6, <2>0, <2>1, <2>2, <2>4 DEF w, c
<1>8. CASE c.tool = "look"
  <2>0. L(i) = TRUE
    BY <1>3, <1>8
  <2>1. W(i) = w.turn.writes /\ filesRead \cup B(i) = w.read
    BY <1>2, <1>5, <1>8
  <2>2. D(i) = w.disk
    BY <1>5, <2>1 DEF HelpedDisk
  <2> HIDE DEF c
  <2>3. After(w, c) = Shown(w.disk, w.read, w.turn.calls + 1, TRUE, w.turn.writes)
    BY <1>5, <1>8, AfterShown
  <2> HIDE DEF W, B, L, D
  <2> QED  BY <1>1, <1>5, <1>6, <2>0, <2>1, <2>2, <2>3 DEF w, c
<1>9. CASE c.tool = "write"
  <2>1. /\ c.content = "fine" /\ c.file \in Files
        /\ Sounds("investigation") => Sounds("change")
        /\ disk[c.file] # "absent" => c.file \in filesRead \cup R(i - 1)
    BY <1>1, <1>9 DEF Helps
  <2>2. ~Blocked(w, c)
    <3>1. w.disk[c.file] # "absent" => c.file \in w.read
      BY <1>4, <1>5, <2>1 DEF HelpedDisk
    <3> QED  BY <1>9, <2>1, <3>1 DEF Blocked
  <2>3. ~TakenBack(w, c)
    BY <2>1 DEF TakenBack
  <2>4. W(i) = w.turn.writes \cup {c.file} /\ filesRead \cup B(i) = w.read \cup {c.file}
    BY <1>2, <1>5, <1>9
  <2>5. L(i) = w.turn.looked
    BY <1>3, <1>5, <1>9
  <2>6. [w.disk EXCEPT ![c.file] = c.content] = D(i)
    <3>1. w.disk = [f \in Files |-> IF f \in w.turn.writes THEN "fine" ELSE disk[f]]
      BY <1>5 DEF HelpedDisk
    <3> HIDE DEF W, c
    <3> QED  BY <2>1, <2>4, <3>1 DEF HelpedDisk, W
  <2>7. c.content \in Contents(c.file)
    BY <2>1 DEF Contents
  <2> HIDE DEF c
  <2>8. After(w, c) = Shown([w.disk EXCEPT ![c.file] = c.content], w.read \cup {c.file},
                            w.turn.calls + 1, w.turn.looked, w.turn.writes \cup {c.file})
    BY <1>5, <1>9, <2>1, <2>2, <2>3, <2>7, AfterShown
  <2> HIDE DEF W, B, L, D
  <2> QED  BY <1>1, <1>5, <1>6, <2>4, <2>5, <2>6, <2>8 DEF w, c
<1> QED  BY <1>1, <1>7, <1>8, <1>9 DEF Helps

LEMMA PlayedHelps ==
    ASSUME StepInv, turn = NoTurn, NEW s, Sequence(s), Helps(s)
    PROVE  Played(s) = Helped(s, Len(s))
<1> DEFINE n == Len(s)
           g == [i \in 0 .. n |-> Helped(s, i)]
<1>1. n \in Nat
  BY DomainSequence
<1>2. Helped(s, 0) = World
  <2>1. 1 .. 0 = {} /\ \A tools : FilesOf(s, 0, tools) = {}
    BY DEF FilesOf
  <2>2. disk = [f \in Files |-> disk[f]]
    BY DEF StepInv, StepTypeOK
  <2>3. Looked(s, 0) = FALSE
    BY <2>1 DEF Looked
  <2>4. HelpedDisk(s, 0) = disk
    BY <2>1, <2>2 DEF HelpedDisk
  <2> QED  BY <2>1, <2>3, <2>4 DEF Helped, Shown, World, NoTurn
<1>3. g[0] = World
  BY <1>1, <1>2
<1>4. \A i \in 1 .. n : g[i] = After(g[i - 1], s[i])
  <2> TAKE i \in 1 .. n
  <2>1. i \in 0 .. n /\ i - 1 \in 0 .. n
    BY <1>1
  <2>2. After(Helped(s, i - 1), s[i]) = Helped(s, i)
    BY HelpedOnce
  <2> QED  BY <2>1, <2>2
<1>5. g = [i \in 0 .. n |-> g[i]] /\ g[n] = Helped(s, n)
  BY <1>1
<1> HIDE DEF g
<1> QED  BY <1>3, <1>4, <1>5, PlayedIs

\* A turn that reads what is there of the files named and looks, and writes V.
LEMMA Completes ==
    ASSUME StepInv, turn = NoTurn, NEW s, Sequence(s), Helps(s), Len(s) > 0,
           NEW V, FilesOf(s, Len(s), {"write"}) = V, V \subseteq step.named \cup written,
           {f \in step.named : There(World, f)} \subseteq FilesOf(s, Len(s), {"read", "write"}),
           V \subseteq FilesOf(s, Len(s), {"read", "write"}),
           Looked(s, Len(s)),
           ~Investigative /\ Changes => written \cup V # {},
           \A f \in Python \cap (written \cup step.named) : disk[f] = "broken" => f \in V
    PROVE  LET w == Played(s)
           IN  /\ w.turn.calls > 0 /\ ~w.turn.failed
               /\ Completed(w, written \cup w.turn.writes, TRUE, "complete")
<1> DEFINE n == Len(s)
           w == Played(s)
           known == written \cup w.turn.writes
<1>1. n \in Nat /\ n \in 0 .. n
  BY DomainSequence
<1>2. w = Helped(s, n)
  BY PlayedHelps
<1>3. /\ w \in HelpedWorlds
      /\ w.disk = HelpedDisk(s, n)
      /\ w.read = filesRead \cup FilesOf(s, n, {"read", "write"})
      /\ w.turn.calls = n
      /\ w.turn.looked = Looked(s, n)
      /\ w.turn.writes = V
  <2> HIDE DEF w, n
  <2>1. n \in 0 .. Len(s)
    BY <1>1 DEF n
  <2>2. /\ Helped(s, n) \in HelpedWorlds
        /\ Helped(s, n).disk = HelpedDisk(s, n)
        /\ Helped(s, n).read = filesRead \cup FilesOf(s, n, {"read", "write"})
        /\ Helped(s, n).turn.calls = n
        /\ Helped(s, n).turn.looked = Looked(s, n)
        /\ Helped(s, n).turn.writes = FilesOf(s, n, {"write"})
    BY <2>1, HelpedType
  <2>3. FilesOf(s, n, {"write"}) = V
    BY DEF n
  <2> QED  BY <1>2, <2>2, <2>3
<1>4. w.turn.failed = FALSE /\ w.turn.rolled = <<>>
  BY <1>3 DEF HelpedWorlds, HelpedTurns, Never, NothingRolled
<1>5. step.named \subseteq Files /\ written \subseteq Files /\ Python \subseteq Files
  BY StepTurnAssumption DEF StepInv, StepTypeOK, Wording
<1>6. \A f \in Files : w.disk[f] = IF f \in V THEN "fine" ELSE disk[f]
  BY <1>3 DEF HelpedDisk
<1> HIDE DEF w
<1>7. ~Uninvestigated(w)
  <2>1. ToRead(w) \subseteq w.read
    <3> SUFFICES ASSUME NEW f \in step.named, There(w, f) PROVE f \in w.read
      BY DEF ToRead
    <3>1. f \in V \/ There(World, f)
      BY <1>5, <1>6 DEF There, World
    <3> QED  BY <1>3, <3>1
  <2>2. w.turn.looked
    BY <1>3
  <2> QED  BY <2>1, <2>2 DEF Uninvestigated
<1>8. ~Unchanged(known)
  BY <1>3 DEF Unchanged
<1>9. ~Unexecuted(w)
  BY <1>3 DEF Unexecuted
<1>10. ~Unparsed(w, known)
  <2> SUFFICES ASSUME NEW f \in Python \cap (known \cup step.named),
                      IF f \in DOMAIN w.turn.rolled THEN w.turn.rolled[f] = "broken"
                      ELSE w.disk[f] = "broken"
               PROVE  FALSE
    BY DEF Unparsed
  <2>1. f \in Files /\ f \in Python \cap (written \cup step.named)
    BY <1>3, <1>5
  <2>2. f \notin DOMAIN w.turn.rolled
    <3>1. DOMAIN w.turn.rolled = {}
      BY <1>4
    <3> QED  BY <3>1
  <2>3. f \notin V /\ disk[f] = "broken"
    BY <1>6, <2>1, <2>2
  <2> QED  BY <2>1, <2>3
<1>11. Completed(w, known, TRUE, "complete")
  BY <1>7, <1>8, <1>9, <1>10 DEF Completed, Asked
<1> QED  BY <1>3, <1>4, <1>11 DEF w

Look == [NoFile EXCEPT !.tool = "look"]

\* Writes of the files vs, and a look elsewhere.
WritesAndLook(vs) ==
    [i \in 1 .. Len(vs) + 1 |-> IF i <= Len(vs) THEN Call("write", vs[i], "fine") ELSE Look]

LEMMA ReadsThem ==
    ASSUME StepInv
    PROVE  LET There0 == {f \in step.named : There(World, f)} IN
           /\ Reads \in Seq({Call("read", f, "") : f \in There0})
           /\ {Reads[i].file : i \in 1 .. Len(Reads)} = There0
<1> DEFINE Named == {f \in step.named : There(World, f)}
           S == {Call("read", f, "") : f \in Named}
           call == [f \in Named |-> Call("read", f, "")]
<1>1. IsFiniteSet(Named)
  BY StepTurnAssumption, FS_Subset DEF StepInv, StepTypeOK, Wording
<1> HIDE DEF Named
<1>2. IsFiniteSet(S)
  <2>1. call \in Surjection(Named, S)
    BY DEF Surjection
  <2> HIDE DEF S, call
  <2> QED  BY <1>1, <2>1, FS_Surjection
<1>3. \A f \in Named : Call("read", f, "").file = f
  BY DEF Call
<1>4. /\ \A c \in S : c.file \in Named
      /\ \A f \in Named : \E c \in S : c.file = f
  BY <1>3
<1>5. Lists(Reads, S)
  BY <1>2, SetToSeqOf DEF Reads, Named
<1> HIDE DEF S
<1>6. Reads \in Seq(S) /\ \A c \in S : \E i \in 1 .. Len(Reads) : Reads[i] = c
  BY <1>5 DEF Lists
<1>7. {Reads[i].file : i \in 1 .. Len(Reads)} = Named
  BY <1>4, <1>6
<1> QED  BY <1>6, <1>7 DEF S, Named

LEMMA WritesAndLookType ==
    ASSUME StepInv, NEW V, V \subseteq step.named \cup written, NEW vs, Lists(vs, V)
    PROVE  /\ WritesAndLook(vs) \in [1 .. Cardinality(V) + 1 -> Helpful]
           /\ WritesAndLook(vs) \in Seq(Helpful)
           /\ Len(WritesAndLook(vs)) = Len(vs) + 1 /\ Len(vs) = Cardinality(V) /\ Len(vs) \in Nat
<1>1. Len(vs) \in Nat /\ Cardinality(V) = Len(vs) /\ \A i \in 1 .. Len(vs) : vs[i] \in V
  BY ListsLength DEF Lists
<1>2. \A f \in V : Call("write", f, "fine") \in Helpful
  BY DEF Helpful
<1>3. Look \in Helpful
  BY DEF Helpful, Look
<1>4. \A i \in 1 .. Len(vs) + 1 : WritesAndLook(vs)[i] \in Helpful
  <2> TAKE i \in 1 .. Len(vs) + 1
  <2>1. WritesAndLook(vs)[i] = IF i <= Len(vs) THEN Call("write", vs[i], "fine") ELSE Look
    BY DEF WritesAndLook
  <2>2. i <= Len(vs) => i \in 1 .. Len(vs)
    BY <1>1
  <2> QED  BY <1>1, <1>2, <1>3, <2>1, <2>2
<1>5. WritesAndLook(vs) \in [1 .. Len(vs) + 1 -> Helpful]
  BY <1>4 DEF WritesAndLook
<1>6. Len(vs) + 1 \in Nat
  BY <1>1
<1>7. WritesAndLook(vs) \in Seq(Helpful) /\ Len(WritesAndLook(vs)) = Len(vs) + 1
  <2> DEFINE k == Len(vs) + 1
             t == WritesAndLook(vs)
  <2> HIDE DEF k, t
  <2>1. t \in [1 .. k -> Helpful] /\ k \in Nat
    BY <1>5, <1>6 DEF k, t
  <2>2. t \in Seq(Helpful) /\ Len(t) = k
    BY <2>1
  <2> QED  BY <2>2 DEF k, t
<1> QED  BY <1>1, <1>5, <1>7

\* Where the calls of such a turn are.
LEMMA TurnCalls ==
    ASSUME StepInv, NEW V, V \subseteq step.named \cup written, NEW vs, Lists(vs, V)
    PROVE  LET s == Reads \o WritesAndLook(vs)
               m == Len(Reads)
               k == Len(vs)
           IN  /\ Sequence(s) /\ m \in Nat /\ k \in Nat /\ Len(s) = m + k + 1
               /\ \A i \in 1 .. m : s[i].tool = "read" /\ s[i].file = Reads[i].file
               /\ \A i \in 1 .. k : /\ s[m + i].tool = "write" /\ s[m + i].file = vs[i]
                                    /\ s[m + i].content = "fine"
               /\ s[m + k + 1].tool = "look"
<1> DEFINE t == WritesAndLook(vs)
           R == {Call("read", f, "") : f \in {f \in step.named : There(World, f)}}
           s == Reads \o t
           m == Len(Reads)
           k == Len(vs)
<1>1. Reads \in Seq(R)
  BY ReadsThem
<1>2. t \in Seq(Helpful) /\ Len(t) = k + 1 /\ k \in Nat
  BY WritesAndLookType
<1>3. \A c \in R : c.tool = "read"
  <2>1. \A f : Call("read", f, "").tool = "read"
    BY DEF Call
  <2> QED  BY <2>1
<1>4. \A i \in 1 .. k + 1 : t[i] = IF i <= k THEN Call("write", vs[i], "fine") ELSE Look
  BY DEF WritesAndLook
<1> HIDE DEF t, R
<1>5. Reads \in Seq(R \cup Helpful) /\ t \in Seq(R \cup Helpful)
  BY <1>1, <1>2, SeqMonotonic
<1>6. s \in Seq(R \cup Helpful) /\ Joins(s, Reads, t)
  BY <1>5, Joined
<1>7. m \in Nat /\ \A i \in 1 .. m : Reads[i] \in R
  BY <1>1
<1> HIDE DEF s, m, k
<1>8. /\ Len(s) = m + (k + 1) /\ \A i \in 1 .. m : s[i] = Reads[i]
      /\ \A i \in 1 .. k + 1 : s[m + i] = t[i]
  BY <1>2, <1>6 DEF Joins, m
<1>9. \A i \in 1 .. k : s[m + i] = Call("write", vs[i], "fine")
  <2> TAKE i \in 1 .. k
  <2>1. i \in 1 .. k + 1 /\ i <= k
    BY <1>2
  <2> QED  BY <1>4, <1>8, <2>1
<1>10. s[m + k + 1] = Look
  <2>1. k + 1 \in 1 .. k + 1 /\ ~(k + 1 <= k) /\ m + k + 1 = m + (k + 1)
    BY <1>2, <1>7
  <2> QED  BY <1>4, <1>8, <2>1
<1>11. \A f : Call("write", f, "fine").tool = "write" /\ Call("write", f, "fine").file = f
              /\ Call("write", f, "fine").content = "fine"
  BY DEF Call
<1>12. Look.tool = "look"
  BY DEF Look, NoFile, Call
<1>13. Sequence(s)
  BY <1>6, SequenceOf
<1>14. \A i \in 1 .. m : s[i].tool = "read" /\ s[i].file = Reads[i].file
  BY <1>3, <1>7, <1>8
<1>15. \A i \in 1 .. k : /\ s[m + i].tool = "write" /\ s[m + i].file = vs[i]
                         /\ s[m + i].content = "fine"
  BY <1>9, <1>11
<1>16. s[m + k + 1].tool = "look" /\ Len(s) = m + k + 1
  BY <1>2, <1>7, <1>8, <1>10, <1>12
<1> QED  BY <1>2, <1>7, <1>13, <1>14, <1>15, <1>16 DEF s, m, k, t

\* It may be made, and it is for these files.
LEMMA TurnHelps ==
    ASSUME StepInv, NEW V, V \subseteq step.named \cup written, NEW vs, Lists(vs, V),
           V # {} => (Sounds("investigation") => Sounds("change"))
    PROVE  LET s == Reads \o WritesAndLook(vs)
           IN  /\ Sequence(s) /\ Helps(s) /\ Len(s) > 0
               /\ FilesOf(s, Len(s), {"write"}) = V
               /\ {f \in step.named : There(World, f)} \subseteq FilesOf(s, Len(s), {"read", "write"})
               /\ V \subseteq FilesOf(s, Len(s), {"read", "write"})
               /\ Looked(s, Len(s))
<1> DEFINE s == Reads \o WritesAndLook(vs)
           m == Len(Reads)
           k == Len(vs)
           n == Len(s)
           Named == {f \in step.named : There(World, f)}
<1>1. /\ Sequence(s) /\ m \in Nat /\ k \in Nat /\ n = m + k + 1
      /\ \A i \in 1 .. m : s[i].tool = "read" /\ s[i].file = Reads[i].file
      /\ \A i \in 1 .. k : /\ s[m + i].tool = "write" /\ s[m + i].file = vs[i]
                           /\ s[m + i].content = "fine"
      /\ s[m + k + 1].tool = "look"
  BY TurnCalls
<1>2. {Reads[i].file : i \in 1 .. m} = Named
  BY ReadsThem
<1>3. /\ \A i \in 1 .. k : vs[i] \in V
      /\ \A f \in V : \E i \in 1 .. k : vs[i] = f
  BY DEF Lists
<1>4. step.named \subseteq Files /\ written \subseteq Files /\ written \subseteq filesRead
  BY StepTurnAssumption DEF StepInv, StepTypeOK, Wording, WrittenIsRead
<1> HIDE DEF s, m, k, n
<1>5. ASSUME NEW i \in 1 .. n
      PROVE  \/ i \in 1 .. m
             \/ \E j \in 1 .. k : i = m + j
             \/ i = m + k + 1
  <2>1. i \in 1 .. m \/ i = m + k + 1 \/ (i - m \in 1 .. k /\ i = m + (i - m))
    BY <1>1
  <2> QED  BY <2>1
<1>6. /\ \A i \in 1 .. m : i \in 1 .. n
      /\ \A j \in 1 .. k : m + j \in 1 .. n /\ \A i \in 1 .. m : i \in 1 .. (m + j) - 1
      /\ m + k + 1 \in 1 .. n
  BY <1>1
<1>7. ASSUME NEW i \in 1 .. n
      PROVE  \/ s[i].tool = "read" /\ s[i].file \in Files
             \/ s[i].tool = "look"
             \/ /\ s[i].tool = "write" /\ s[i].content = "fine" /\ s[i].file \in Files
                /\ Sounds("investigation") => Sounds("change")
                /\ disk[s[i].file] # "absent" => s[i].file \in filesRead \cup FilesOf(s, i - 1, {"read"})
  <2>1. CASE i \in 1 .. m
    <3>1. Reads[i].file \in Named
      BY <1>2, <2>1
    <3> QED  BY <1>1, <1>4, <2>1, <3>1
  <2>2. CASE \E j \in 1 .. k : i = m + j
    <3>1. PICK j \in 1 .. k : i = m + j
      BY <2>2
    <3>2. s[i].tool = "write" /\ s[i].file = vs[j] /\ s[i].content = "fine" /\ vs[j] \in V
      BY <1>1, <1>3, <3>1
    <3>3. ASSUME disk[vs[j]] # "absent", vs[j] \notin filesRead
          PROVE  vs[j] \in FilesOf(s, i - 1, {"read"})
      <4>1. vs[j] \in Named
        BY <1>4, <3>2, <3>3 DEF There, World
      <4>2. PICK o \in 1 .. m : Reads[o].file = vs[j]
        BY <1>2, <4>1
      <4>3. o \in 1 .. i - 1 /\ s[o].tool = "read" /\ s[o].file = vs[j]
        BY <1>1, <1>6, <3>1, <4>2
      <4> QED  BY <4>3 DEF FilesOf
    <3> QED  BY <1>4, <3>2, <3>3
  <2>3. CASE i = m + k + 1
    BY <1>1, <2>3
  <2> QED  BY <1>5, <2>1, <2>2, <2>3
<1>8. Helps(s)
  <2>1. DOMAIN s = 1 .. n
    BY <1>1, DomainSequence DEF n
  <2> QED  BY <1>7, <2>1 DEF Helps
<1>9. FilesOf(s, n, {"write"}) = V
  <2>1. ASSUME NEW j \in 1 .. n, s[j].tool = "write" PROVE s[j].file \in V
    <3>1. PICK i \in 1 .. k : j = m + i
      BY <1>1, <1>5, <2>1
    <3> QED  BY <1>1, <1>3, <3>1
  <2>2. ASSUME NEW f \in V PROVE \E j \in 1 .. n : s[j].tool = "write" /\ s[j].file = f
    <3>1. PICK i \in 1 .. k : vs[i] = f
      BY <1>3
    <3> QED  BY <1>1, <1>6, <3>1
  <2> QED  BY <2>1, <2>2 DEF FilesOf
<1>10. V \subseteq FilesOf(s, n, {"read", "write"})
  BY <1>9 DEF FilesOf
<1>11. Named \subseteq FilesOf(s, n, {"read", "write"})
  <2> SUFFICES ASSUME NEW f \in Named PROVE f \in FilesOf(s, n, {"read", "write"})
    OBVIOUS
  <2>1. PICK i \in 1 .. m : Reads[i].file = f
    BY <1>2
  <2>2. i \in 1 .. n /\ s[i].tool \in {"read", "write"} /\ s[i].file = f
    BY <1>1, <1>6, <2>1
  <2> QED  BY <2>2 DEF FilesOf
<1>12. Looked(s, n)
  BY <1>1, <1>6 DEF Looked
<1>13. n > 0
  BY <1>1
<1> QED  BY <1>1, <1>8, <1>9, <1>10, <1>11, <1>12, <1>13 DEF s, n

LEMMA AlwaysPossible == StepInv => NoStepImpossible
<1> SUFFICES ASSUME StepInv, turn = NoTurn,
                    ~(Sounds("investigation") /\ ~Sounds("change") /\ Unparsed(World, written))
             PROVE  \E calls \in SeqOf(Helpful, 1 + Max({1, Cardinality(Broken)})) :
                       LET w == Played(Reads \o calls)
                       IN  /\ w.turn.calls > 0 /\ ~w.turn.failed
                           /\ Completed(w, written \cup w.turn.writes, TRUE, "complete")
  BY DEF NoStepImpossible
<1> DEFINE b == Cardinality(Broken)
           Fit(calls) == LET w == Played(Reads \o calls)
                         IN  /\ w.turn.calls > 0 /\ ~w.turn.failed
                             /\ Completed(w, written \cup w.turn.writes, TRUE, "complete")
<1>1. step.named \subseteq Files /\ written \subseteq Files /\ IsFiniteSet(Files)
  BY StepTurnAssumption DEF StepInv, StepTypeOK, Wording
<1>2. Broken \subseteq step.named \cup written /\ IsFiniteSet(Broken) /\ b \in Nat
  <2>1. Broken \subseteq step.named \cup written
    BY DEF Broken
  <2> QED  BY <1>1, <2>1, FS_Subset, FS_CardinalityType
<1>3. Max({1, b}) \in Nat /\ Max({1, b}) >= 1 /\ Max({1, b}) >= b
  <2>1. \E x \in {1, b} : \A y \in {1, b} : x >= y
    BY <1>2
  <2> QED  BY <1>2, <2>1 DEF Max
<1>4. ASSUME NEW V, V \subseteq step.named \cup written, IsFiniteSet(V),
             Cardinality(V) \in Nat, Cardinality(V) <= Max({1, b}),
             V # {} => (Sounds("investigation") => Sounds("change")),
             ~Investigative /\ Changes => written \cup V # {},
             Broken \subseteq V
      PROVE  \E calls \in SeqOf(Helpful, 1 + Max({1, b})) : Fit(calls)
  <2> DEFINE vs == SetToSeq(V)
             calls == WritesAndLook(vs)
             s == Reads \o calls
  <2>1. Lists(vs, V)
    BY <1>4, SetToSeqOf
  <2> HIDE DEF vs
  <2>2. calls \in [1 .. Cardinality(V) + 1 -> Helpful]
    BY <1>4, <2>1, WritesAndLookType
  <2>3. calls \in SeqOf(Helpful, 1 + Max({1, b}))
    <3>1. Cardinality(V) + 1 \in 0 .. (1 + Max({1, b}))
      BY <1>3, <1>4
    <3> HIDE DEF calls, b
    <3> QED  BY <2>2, <3>1 DEF SeqOf
  <2>4. /\ Sequence(s) /\ Helps(s) /\ Len(s) > 0
        /\ FilesOf(s, Len(s), {"write"}) = V
        /\ {f \in step.named : There(World, f)} \subseteq FilesOf(s, Len(s), {"read", "write"})
        /\ V \subseteq FilesOf(s, Len(s), {"read", "write"})
        /\ Looked(s, Len(s))
    BY <1>4, <2>1, TurnHelps
  <2>5. \A f \in Python \cap (written \cup step.named) : disk[f] = "broken" => f \in V
    BY <1>4 DEF Broken
  <2> HIDE DEF calls
  <2>6. Fit(calls)
    <3> HIDE DEF s
    <3>1. LET w == Played(s)
          IN  /\ w.turn.calls > 0 /\ ~w.turn.failed
              /\ Completed(w, written \cup w.turn.writes, TRUE, "complete")
      BY <1>4, <2>4, <2>5, Completes
    <3> QED  BY <3>1 DEF s
  <2> HIDE DEF Fit
  <2> QED  BY <2>3, <2>6
<1>5. CASE Sounds("investigation") /\ ~Sounds("change")
  <2>1. Broken = {}
    <3> SUFFICES ASSUME NEW f \in Broken PROVE FALSE
      OBVIOUS
    <3>1. f \in Python \cap (written \cup step.named) /\ disk[f] = "broken"
      BY DEF Broken
    <3>2. DOMAIN World.turn.rolled = {} /\ World.disk[f] = "broken"
      BY <3>1 DEF World, NoTurn
    <3>3. Unparsed(World, written)
      BY <3>1, <3>2 DEF Unparsed, There
    <3> QED  BY <1>5, <3>3
  <2>2. Investigative
    BY <1>5, StepTurnAssumption DEF Investigative, Creates, Sounds, StepInv, StepTypeOK
  <2>3. IsFiniteSet({}) /\ Cardinality({}) = 0
    BY FS_EmptySet
  <2> HIDE DEF Fit, b
  <2>4. /\ {} \subseteq step.named \cup written /\ Broken \subseteq {}
        /\ Cardinality({}) \in Nat /\ Cardinality({}) <= Max({1, b})
    BY <1>3, <2>1, <2>3
  <2>5. \E calls \in SeqOf(Helpful, 1 + Max({1, b})) : Fit(calls)
    BY <1>4, <2>2, <2>3, <2>4
  <2> QED  BY <2>5 DEF Fit, b
<1>6. CASE (Sounds("investigation") => Sounds("change")) /\ Broken # {}
  <2> HIDE DEF Fit, b
  <2>1. \E calls \in SeqOf(Helpful, 1 + Max({1, b})) : Fit(calls)
    BY <1>2, <1>3, <1>4, <1>6 DEF b
  <2> QED  BY <2>1 DEF Fit, b
<1>7. CASE (Sounds("investigation") => Sounds("change")) /\ Broken = {} /\ step.named = {}
  <2>1. IsFiniteSet({}) /\ Cardinality({}) = 0
    BY FS_EmptySet
  <2>2. ~Changes
    BY <1>7 DEF Changes
  <2> HIDE DEF Fit, b
  <2>3. /\ {} \subseteq step.named \cup written /\ Broken \subseteq {}
        /\ Cardinality({}) \in Nat /\ Cardinality({}) <= Max({1, b})
    BY <1>3, <1>7, <2>1
  <2>4. \E calls \in SeqOf(Helpful, 1 + Max({1, b})) : Fit(calls)
    BY <1>4, <2>1, <2>2, <2>3
  <2> QED  BY <2>4 DEF Fit, b
<1>8. CASE (Sounds("investigation") => Sounds("change")) /\ Broken = {} /\ step.named # {}
  <2>1. PICK f \in step.named : TRUE
    BY <1>8
  <2>2. IsFiniteSet({f}) /\ Cardinality({f}) = 1
    BY FS_Singleton
  <2> HIDE DEF Fit, b
  <2>3. /\ {f} \subseteq step.named \cup written /\ Broken \subseteq {f} /\ written \cup {f} # {}
        /\ Cardinality({f}) \in Nat /\ Cardinality({f}) <= Max({1, b})
    BY <1>3, <1>8, <2>1, <2>2
  <2>4. \E calls \in SeqOf(Helpful, 1 + Max({1, b})) : Fit(calls)
    BY <1>4, <1>8, <2>2, <2>3
  <2> QED  BY <2>4 DEF Fit, b
<1> QED  BY <1>5, <1>6, <1>7, <1>8

-----------------------------------------------------------------------------

THEOREM StepInvariant == StepSpec => []StepInv
BY StepInitInv, StepNextInv, PTL DEF StepSpec

\* Whatever the calls of a turn are, the state keeps its type, and a step is completed
\* for a reason and for no other cause.
THEOREM StepTyped == StepSpec => []StepTypeOK
<1>1. StepInv => StepTypeOK
  BY DEF StepInv
<1> QED  BY <1>1, StepInvariant, PTL

\* A turn without calls completes a step only if the loop read a file for it, a file it
\* is to create came to be there, or nothing need be looked at or run and what is to be
\* changed was written in an earlier turn.
THEOREM NoWorkNoStep == StepSpec => ReasoningIsNoWork
<1>1. StepInv /\ [StepNext]_stepVars =>
          [turn.calls = 0 /\ status' = "completed" => WorkShown]_stepVars
  BY BlankStep
<1> QED  BY <1>1, StepInvariant, PTL DEF StepSpec, ReasoningIsNoWork

\* Whatever a step says and whatever became of the files, there is a turn that completes
\* it if the verifier is content; but for an investigation, which must change nothing, of
\* a Python file that does not parse.
THEOREM NoStepIsImpossible == StepSpec => []NoStepImpossible
BY AlwaysPossible, StepInvariant, PTL
=============================================================================
