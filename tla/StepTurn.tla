------------------------------ MODULE StepTurn ------------------------------
(***************************************************************************)
(* react_loop.py: how a step of the plan is worked and judged.  A turn of  *)
(* the model is a few tool calls, or reasoning, or the wish to finish; the *)
(* loop refuses some calls, takes back a write that does not pass lint,    *)
(* and then _verify_and_mark_step goes through a chain of checks, of which *)
(* the verdict of the verifier is the last.  Which checks apply hangs on   *)
(* the wording of the step.                                                *)
(*                                                                         *)
(* One step, from the turn that takes it up until it is completed; what    *)
(* the retries make of a turn that fails is in ReActLoop.  Files have      *)
(* different base names.                                                   *)
(***************************************************************************)
EXTENDS Naturals, Sequences, SequencesExt, FiniteSets, Positions

CONSTANTS
    Files,
    Python,         \* the ones that are Python
    Deep,           \* the ones a step names with their directory
    Steps,          \* wordings of steps
    MaxCalls        \* bound on the calls of a turn

\* What a description sounds like: an investigation (one may begin with "read"), a
\* change (one may be a creation), an execution; and the files it names.
Wording == [sounds : SUBSET {"investigation", "read", "change", "creation", "execution"},
            named  : SUBSET Files]

ASSUME StepTurnAssumption ==
    /\ IsFiniteSet(Files) /\ Python \subseteq Files /\ Deep \subseteq Files
    /\ Steps \subseteq Wording
    /\ \A s \in Steps : /\ "creation" \in s.sounds => "change" \in s.sounds
                        /\ "read" \in s.sounds => "investigation" \in s.sounds
    /\ MaxCalls \in Nat

VARIABLES
    step,           \* the wording of the step
    lints,          \* lint_after_write
    missing,        \* the files _planning_facts says were missing
    disk,
    filesRead,      \* files_read, the local of _execute
    written,        \* files_written of the step's evidence
    turn,           \* what the calls of the turn came to
    status,
    reason          \* last_verdict_reason

stepVars == <<step, lints, missing, disk, filesRead, written, turn, status, reason>>

Contents(f) == {"absent", "empty", "fine"} \cup IF f \in Python THEN {"broken", "untidy"} ELSE {}
AllContents == UNION {Contents(f) : f \in Files}

\* Calls made, one of them failed, one of them read-only, files_written_this_turn,
\* successful_commands_this_turn, and rolled_back_content.
NoTurn == [calls |-> 0, failed |-> FALSE, looked |-> FALSE, writes |-> {}, ran |-> FALSE,
           rolled |-> <<>>]
Rolled == UNION {[F -> {"broken", "untidy"}] : F \in SUBSET Python}
Turn == [calls : 0..MaxCalls, failed : BOOLEAN, looked : BOOLEAN, writes : SUBSET Files,
         ran : BOOLEAN, rolled : Rolled]

Sounds(kind)  == kind \in step.sounds
Creates       == Sounds("creation") /\ step.named # {}
Changes       == Sounds("change") /\ step.named # {}
Investigative == Sounds("investigation") /\ ~Creates

-----------------------------------------------------------------------------
(* The calls of a turn, in the order the model gave.  A world is what they *)
(* act on.                                                                 *)

World == [disk |-> disk, read |-> filesRead, turn |-> turn]

Call(tool, file, content) == [tool |-> tool, file |-> file, content |-> content]
NoFile == Call("", CHOOSE f \in Files : TRUE, "")

FileCalls(tool, contents) == {Call(tool, f, c) : f \in Files, c \in contents}
OtherCalls == {[NoFile EXCEPT !.tool = t] : t \in {"look", "run", "ask", "fail"}}

\* The calls there are: to read or change a file, to look elsewhere, a command that
\* leaves the files alone, a question, and a call that fails.  A command may change a
\* file, and so may a bulk tool that no one asks what it wrote.
Calls ==
    FileCalls("read", {""}) \cup OtherCalls
    \cup FileCalls("write", AllContents \ {"absent"}) \cup FileCalls("patch", AllContents \ {"absent"})
    \cup FileCalls("bash", {"absent", "fine"}) \cup FileCalls("bulk", {"absent", "fine"})

\* Not while investigating, and no file that is there and was not read.
Blocked(w, c) ==
    /\ c.tool \in {"write", "patch"}
    /\ \/ Sounds("investigation") /\ ~Sounds("change")
       \/ w.disk[c.file] # "absent" /\ c.file \notin w.read

Possible(w, c) ==
    /\ c.tool \in {"read", "patch"} => w.disk[c.file] # "absent"
    /\ c.tool \in {"write", "patch"} => c.content \in Contents(c.file)

\* Slip: whatever the linter is run on.
TakenBackAlways(w, c) == lints /\ c.tool = "write" /\ w.disk[c.file] # "absent"

\* lint_after_write takes the write of a file back that was there before.
TakenBack(w, c) ==
    /\ lints /\ c.tool = "write" /\ c.content \in {"broken", "untidy"}
    /\ w.disk[c.file] # "absent"

Put(fn, x, y) == [z \in DOMAIN fn \cup {x} |-> IF z = x THEN y ELSE fn[z]]

After(w, c) ==
    LET counted == [w EXCEPT !.turn.calls = @ + 1]
        writes  == [counted EXCEPT
                       !.turn.writes = @ \cup {c.file},
                       !.read = IF c.tool = "write" THEN @ \cup {c.file} ELSE @]
    IN  IF c.tool = "fail" \/ Blocked(w, c) THEN [counted EXCEPT !.turn.failed = TRUE] ELSE
        CASE c.tool = "read" -> [counted EXCEPT !.read = @ \cup {c.file}, !.turn.looked = TRUE]
          [] c.tool = "look" -> [counted EXCEPT !.turn.looked = TRUE]
          [] c.tool = "run"  -> [counted EXCEPT !.turn.ran = TRUE]
          [] c.tool = "bash" -> [counted EXCEPT !.turn.ran = TRUE, !.disk[c.file] = c.content]
          [] c.tool = "bulk" -> [counted EXCEPT !.disk[c.file] = c.content]
          [] c.tool \in {"write", "patch"} ->
                IF TakenBack(w, c)
                THEN [writes EXCEPT !.turn.rolled = Put(@, c.file, c.content)]
                ELSE [writes EXCEPT !.disk[c.file] = c.content]
          [] OTHER -> counted

-----------------------------------------------------------------------------
(* The checks of _verify_and_mark_step in the world w after a turn, when   *)
(* the files known were written by the step.                               *)

There(w, f)  == w.disk[f] # "absent"
Filled(w, f) == w.disk[f] \notin {"absent", "empty"}

\* Slip: every file named must be read, whether it is there or not.
ToReadAll(w) == step.named

\* The named files an investigation is held to.
ToRead(w) == {f \in step.named : f \in w.read \/ There(w, f)}

\* An investigation that names files has read them all and used a read-only tool in
\* this turn, and even so the verifier is asked; one that names none is done with what
\* such a tool said, or if it does not seem to be about the step, the verifier is asked.
Uninvestigated(w) ==
    /\ Investigative
    /\ IF ToRead(w) # {} THEN ~(ToRead(w) \subseteq w.read /\ w.turn.looked)
       ELSE ~w.turn.looked /\ ~(Sounds("execution") /\ w.turn.ran)
Investigated(w, relevant) ==
    /\ Investigative /\ ~Uninvestigated(w)
    /\ ToRead(w) = {} /\ (w.turn.looked => relevant)

\* A named file is there that the plan found missing, or was written in this turn.
Created(w) ==
    /\ Creates
    /\ \E f \in step.named : Filled(w, f) /\ (f \in missing \/ f \in w.turn.writes \ Deep)

Unchanged(known) == ~Investigative /\ Changes /\ known = {}

Executed(w) == ~Investigative /\ Sounds("execution") /\ w.turn.ran

\* Slip: what was written counts as well.
UnexecutedUnwritten(w) ==
    ~Investigative /\ Sounds("execution") /\ ~w.turn.looked /\ ~w.turn.ran /\ written = {}

Unexecuted(w) == ~Investigative /\ Sounds("execution") /\ ~w.turn.looked /\ ~w.turn.ran

\* The step is completed without a verdict.
Objective(w, known, relevant) ==
    \/ Investigated(w, relevant)
    \/ Created(w)
    \/ ~Unchanged(known) /\ Executed(w)

\* The verifier is asked.
Asked(w, known, relevant) ==
    /\ ~Objective(w, known, relevant)
    /\ ~Uninvestigated(w) /\ ~Unchanged(known) /\ ~Unexecuted(w)

\* _step_python_syntax_errors: of a write that was taken back, what was written counts.
Unparsed(w, known) ==
    \E f \in Python \cap (known \cup step.named) :
        /\ There(w, f)
        /\ IF f \in DOMAIN w.turn.rolled THEN w.turn.rolled[f] = "broken"
           ELSE w.disk[f] = "broken"

\* _verdict_from_prompt: an answer that cannot be read is asked for once more.  When the
\* call raises, the step is as good as not complete.
Answers == {"complete", "partial", "not_complete", "unreadable"}
Verdict(answer, repaired) ==
    IF answer # "unreadable" THEN answer
    ELSE IF repaired # "unreadable" THEN repaired ELSE "not_complete"

Completed(w, known, relevant, verdict) ==
    \/ Objective(w, known, relevant)
    \/ Asked(w, known, relevant) /\ verdict = "complete" /\ ~Unparsed(w, known)

Verify(w) ==
    LET known == written \cup w.turn.writes
    IN  /\ filesRead' = w.read
        /\ written' = known
        /\ \E relevant \in BOOLEAN, answer, repaired \in Answers :
              IF Completed(w, known, relevant, Verdict(answer, repaired))
              THEN /\ status' = "completed"
                   /\ reason' = IF Objective(w, known, relevant) THEN "auto" ELSE "verdict"
              ELSE status' = "pending" /\ reason' = reason
        /\ turn' = NoTurn
        /\ UNCHANGED <<step, lints, missing, disk>>

-----------------------------------------------------------------------------
(* The turns.                                                              *)

CallTool(c) ==
    /\ status = "pending" /\ turn.calls < MaxCalls
    /\ Possible(World, c)
    /\ LET w == After(World, c)
       IN  disk' = w.disk /\ filesRead' = w.read /\ turn' = w.turn
    /\ UNCHANGED <<step, lints, missing, written, status, reason>>

\* No call failed, and they are not the calls of the turn before.
TurnSucceeds ==
    /\ status = "pending" /\ turn.calls > 0 /\ ~turn.failed
    /\ Verify(World)

\* There is no verification, and what the turn wrote is not put down to the step.
TurnFails ==
    /\ status = "pending" /\ turn.calls > 0
    /\ turn' = NoTurn
    /\ UNCHANGED <<step, lints, missing, disk, filesRead, written, status, reason>>

\* A turn without calls.  Files that a step says to read are read for the model, as far
\* as this succeeds; a step that changes files is not verified at all.
ReasoningTurn ==
    /\ status = "pending" /\ turn.calls = 0
    /\ Sounds("change") => Sounds("investigation")
    /\ \E read \in SUBSET {f \in step.named : Sounds("read") /\ There(World, f)} :
          Verify([World EXCEPT !.read = @ \cup read, !.turn.looked = read # {}])

\* finish as the only call: _verify_finish_request
FinishTurn ==
    /\ status = "pending" /\ turn.calls = 0
    /\ Verify(World)

\* The step is taken up; others were worked since the plan was made.
StepInit ==
    /\ step \in Steps /\ lints \in BOOLEAN /\ missing \in SUBSET Files
    /\ disk \in [Files -> AllContents] /\ \A f \in Files : disk[f] \in Contents(f)
    /\ filesRead \in SUBSET Files
    /\ written = {} /\ turn = NoTurn /\ status = "pending" /\ reason = ""

StepNext ==
    \/ \E c \in Calls : CallTool(c)
    \/ TurnSucceeds \/ TurnFails \/ ReasoningTurn \/ FinishTurn

StepSpec == StepInit /\ [][StepNext]_stepVars

-----------------------------------------------------------------------------

\* The type of the state; a step is completed for a reason.
StepTypeOK ==
    /\ step \in Steps /\ lints \in BOOLEAN /\ missing \subseteq Files
    /\ disk \in [Files -> AllContents] /\ \A f \in Files : disk[f] \in Contents(f)
    /\ filesRead \subseteq Files /\ written \subseteq Files
    /\ turn \in Turn
    /\ status \in {"pending", "completed"} /\ reason \in {"", "auto", "verdict"}
    /\ status = "completed" <=> reason # ""

\* To write what is named or was written, and write it well, to look around, to run
\* something.
Helpful == {Call("write", f, "fine") : f \in step.named \cup written}
           \cup {[NoFile EXCEPT !.tool = t] : t \in {"look", "run"}}
Reads   == SetToSeq({Call("read", f, "") : f \in {f \in step.named : There(World, f)}})

Broken  == {f \in Python \cap (written \cup step.named) : disk[f] = "broken"}

Played(calls) == Scan(After, World, calls)

\* react_loop.py 2768-2772 ("requiring a read of a non-existent 'file' is an impossible
\* loop"): whatever a step says and whatever became of the files, there is a turn that
\* completes it if the verifier is content: it reads what the step names, writes what
\* does not parse, or one file, and makes one more call.  The exception: an
\* investigation, which must not change anything, of a Python file that does not parse.
NoStepImpossible ==
    status = "pending" /\ turn = NoTurn =>
        \/ Sounds("investigation") /\ ~Sounds("change") /\ Unparsed(World, written)
        \/ \E calls \in SeqOf(Helpful, 1 + Max({1, Cardinality(Broken)})) :
              LET w == Played(Reads \o calls)
              IN  /\ w.turn.calls > 0 /\ ~w.turn.failed
                  /\ Completed(w, written \cup w.turn.writes, TRUE, "complete")

\* What may complete a step in a turn without calls.
WorkShown ==
    \/ Sounds("read") /\ step.named \cap filesRead' # {}
    \/ Created(World)
    \/ ~Investigative /\ ~Sounds("execution") /\ (Changes => written # {})

\* react_loop.py 198-201 (the guards "prevent reasoning-only turns from hallucinating
\* progress"): a turn without calls, and finish as the only call, complete a step only
\* if the loop read a file for it, a file it is to create came to be there, or nothing
\* need be looked at or run and what is to be changed was written in an earlier turn.
ReasoningIsNoWork == [][turn.calls = 0 /\ status' = "completed" => WorkShown]_stepVars

\* react_loop.py 1929-1933 (after a write is taken back "the step cannot slip through as
\* completed").  This fails: a step that is to create the file is completed because the
\* file is there, which it was before; and for an execution a command is enough.
TakenBackIsNotDone ==
    [][status' = "completed" /\ turn.calls = 1 =>
          \A f \in DOMAIN turn.rolled : turn.rolled[f] # "broken"]_stepVars
=============================================================================
