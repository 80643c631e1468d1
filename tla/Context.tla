------------------------------ MODULE Context ------------------------------
(***************************************************************************)
(* chef_human/agent/context.py, file_context.py and repo_map.py: what the  *)
(* model is told in a turn.  A request is the system prompt, a map of the  *)
(* repository, the contents of the files the session touched, symbols the  *)
(* conversation names, and the conversation.  Each part is a cache of      *)
(* something: of the disk, or of the session so far, cut to a number of    *)
(* tokens.  A text is a value with a cost; the wording is left out.        *)
(***************************************************************************)
EXTENDS Positions, SequencesExt, FiniteSetsExt, Functions

CONSTANTS
    Files,
    Texts,
    Absent,         \* no file
    Cost,           \* the tokens of a text
    MaxFiles,       \* FileContextManager._max_files
    MaxTokens,      \* FileContextManager._max_tokens
    Budget,         \* ContextConfig: max_tokens - max_response_tokens
    SummaryTokens,  \* ContextConfig.summary_tokens
    FileTokens,     \* ContextConfig.file_context_tokens
    MapTokens,      \* what a map of the repository takes
    Prompts,        \* the tokens a system prompt may have
    Weights         \* the tokens a message may have

ASSUME ContextAssumption ==
    /\ Absent \notin Texts /\ Cost \in [Texts -> Nat]
    /\ MaxFiles \in Nat \ {0} /\ {MaxTokens, Budget, SummaryTokens, FileTokens} \subseteq Nat
    /\ MapTokens \in Nat /\ Prompts \subseteq Nat /\ Weights \subseteq Nat

VARIABLES
    disk,           \* the workspace
    files,          \* FileContextManager._files
    order,          \* FileContextManager._access_order, the oldest first
    repoMap,        \* ContextAssembler._repo_map_cache at the budget of an ordinary
                    \* window: Absent, or the texts whose symbols the map shows
    symbols,        \* RepoMap._symbol_cache: the text a file's symbols are from
    messages,       \* ContextManager.messages
    summary,        \* ContextManager._summary is not empty
    turn,           \* where the session is
    behind,         \* history: files changed by what does not refresh the cache
    overtaken,      \* history: a file was made or deleted since the map was made, and
                    \* the map was not invalidated
    unheard         \* history: a run went on with a cleared conversation

fileCache   == <<files, order, behind>>
mapCache    == <<repoMap, symbols>>
talk        == <<messages, summary>>
contextVars == <<disk, fileCache, mapCache, talk, turn, overtaken, unheard>>

Message == [role : {"user", "assistant", "tool"}, cost : Weights]
Turns   == {"idle", "asking", "asked", "acting"}

Tokens(F) == MapThenSumSet(LAMBDA f : Cost[F[f]], DOMAIN F)
Spoken(s) == FoldSeq(LAMBDA m, n : m.cost + n, 0, s)

\* The type of the state; and the cache's two tables hold the same files, within
\* both limits, without which an eviction would never end or a touch would fail.
ContextTypeOK ==
    /\ disk \in [Files -> Texts \cup {Absent}]
    /\ DOMAIN files \subseteq Files /\ Range(files) \subseteq Texts
    /\ Range(order) = DOMAIN files /\ Len(order) = Cardinality(DOMAIN files)
    /\ Len(order) <= MaxFiles /\ Tokens(files) <= MaxTokens
    /\ behind \subseteq DOMAIN files
    /\ repoMap # Absent => DOMAIN repoMap \subseteq Files /\ Range(repoMap) \subseteq Texts
    /\ DOMAIN symbols \subseteq Files /\ Range(symbols) \subseteq Texts
    /\ messages \in Seq(Message)
    /\ {summary, overtaken, unheard} \subseteq BOOLEAN /\ turn \in Turns

ContextInit ==
    /\ disk \in [Files -> Texts \cup {Absent}]
    /\ files = <<>> /\ order = <<>> /\ behind = {}
    /\ repoMap = Absent /\ symbols = <<>>
    /\ messages = <<>> /\ summary = FALSE
    /\ turn = "idle"
    /\ overtaken = FALSE /\ unheard = FALSE

-----------------------------------------------------------------------------
(* The cache of files.                                                     *)

\* _touch: f is now the youngest.
Touched(s, f) == Append(RemoveFirst(s, f), f)

\* Slip: a limit of the number alone.
EvictedByNumber(F, s) == IF Len(s) > MaxFiles THEN Tail(s) ELSE s

\* _evict_if_needed: the oldest go until both limits hold.
Evicted(F, s) ==
    LET Fits(k) == LET kept == Restrict(F, ToSet(SubSeq(s, k + 1, Len(s))))
                   IN  Cardinality(DOMAIN kept) <= MaxFiles /\ Tokens(kept) <= MaxTokens
    IN  SubSeq(s, 1 + Min({k \in 0..Len(s) : Fits(k)}), Len(s))

\* f is now cached with text, in an order s of before; stale holds f if the disk
\* says something else.
TakeIn(s, f, text, stale) ==
    LET all  == [g \in DOMAIN files \cup {f} |-> IF g = f THEN text ELSE files[g]]
        kept == Evicted(all, Touched(s, f))
    IN  /\ order' = kept
        /\ files' = Restrict(all, ToSet(kept))
        /\ behind' = ((behind \ {f}) \cup stale) \cap ToSet(kept)

\* get: a cached text is not compared with the disk, and a file that is gone
\* stays in the cache.
Get(s, f) ==
    IF disk[f] # Absent /\ f \notin DOMAIN files THEN TakeIn(s, f, disk[f], {})
    ELSE /\ order' = IF disk[f] # Absent THEN Touched(s, f) ELSE s
         /\ UNCHANGED <<files, behind>>

\* Slip: what is cached already stays.
RememberNew(f, text) ==
    IF f \in DOMAIN files THEN order' = Touched(order, f) /\ UNCHANGED <<files, behind>>
    ELSE TakeIn(order, f, text, {})

\* remember
Remember(f, text) == TakeIn(order, f, text, {})

-----------------------------------------------------------------------------
(* The conversation.                                                       *)

\* Slip: the first message goes first.
WithoutTop(s, k) == SubSeq(s, k + 1, Len(s))

\* What is left when the next k messages are gone.
Without(s, k) == <<Head(s)>> \o SubSeq(s, k + 2, Len(s))
Users(s) == {i \in DOMAIN s : s[i].role = "user"}

\* The first k messages after the first are popped, one by one, until Stop.
PoppedUntil(Stop(_), s) ==
    IF s = <<>> THEN s
    ELSE Without(s, Min({k \in 0..Len(s) - 1 : Stop(Without(s, k)) \/ k = Len(s) - 1}))

Over(s) == Spoken(s) > Budget - SummaryTokens

\* The last message that is not a user's; 0 if there is none.
LastOther(s) == Max({0} \cup (DOMAIN s \ Users(s)))

Summarised(s) == Over(s) /\ ~summary /\ LastOther(s) > 3

\* _trim_if_needed: the first time, all up to the last message that is not a
\* user's goes at once, in its place a summary that nothing reads.
Trimmed(s) ==
    IF Summarised(s) THEN Without(s, LastOther(s) - 1)
    ELSE PoppedUntil(LAMBDA r : ~Over(r) \/ LastOther(r) < 2, s)

\* add_message
AddMessage(m) ==
    LET s == Append(messages, m)
    IN  /\ messages' = Trimmed(s)
        /\ summary' = (summary \/ Summarised(s))

\* What assemble leaves of the conversation beside prefix tokens of other parts:
\* popped until the request fits, a single message is left, or no user would be.
Reconciled(s, prefix) ==
    PoppedUntil(LAMBDA r : prefix + Spoken(r) <= Budget \/ Users(r) = {}, s)

-----------------------------------------------------------------------------
(* assemble.                                                               *)

\* The files of the cache that can be shown, and the ones that fit, from the
\* oldest on: _build_file_context, _truncate_file_context.
Showable == Picked(order, {i \in DOMAIN order : disk[order[i]] # Absent})
Shown(tokens) ==
    LET Sum(k) == FoldSeq(LAMBDA f, n : Cost[files[f]] + n, 0, SubSeq(Showable, 1, k))
    IN  SubSeq(Showable, 1, Max({0} \cup {k \in DOMAIN Showable : Sum(k) <= tokens}))

Present == {f \in Files : disk[f] # Absent}

\* RepoMap.generate: a map of the files there are, with their symbols, extracted
\* once for each file.
Extracted ==
    [f \in DOMAIN symbols \cup Present |-> IF f \in DOMAIN symbols THEN symbols[f] ELSE disk[f]]
Generate ==
    /\ symbols' = Extracted
    /\ repoMap' = Restrict(Extracted, Present)

\* assemble, with a system prompt of so many tokens.  A symbol the conversation
\* names may make the cache take in its file, once the section of files is made;
\* what such symbols take is bounded by the room beside the map alone.
Assemble(prompt, found, related) ==
    LET room  == IF Budget > prompt + MapTokens THEN Budget - prompt - MapTokens ELSE 0
        shown == Shown(Min({FileTokens, room}))
        given == prompt + MapTokens + FoldSeq(LAMBDA f, n : Cost[files[f]] + n, 0, shown)
        read  == Picked(order, {i \in DOMAIN order : disk[order[i]] = Absent}) \o Showable
    IN  /\ turn = "asking"
        /\ IF repoMap = Absent THEN Generate /\ overtaken' = FALSE
           ELSE UNCHANGED <<mapCache, overtaken>>
        /\ related <= room
        /\ messages' = Reconciled(messages, given + related)
        /\ IF found = Absent THEN order' = read /\ UNCHANGED <<files, behind>>
           ELSE Get(read, found)
        /\ turn' = "asked"
        /\ UNCHANGED <<disk, summary, unheard>>

-----------------------------------------------------------------------------
(* The session around it.                                                  *)

\* run, or main.py for the next task of a session: _execute adds the task.
NewTask(weight) ==
    /\ turn = "idle"
    /\ AddMessage([role |-> "user", cost |-> weight])
    /\ turn' = "asking"
    /\ UNCHANGED <<disk, fileCache, mapCache, overtaken, unheard>>

\* resolve_escalation: the run goes on with the conversation as it is.
GoOn ==
    /\ turn = "idle" /\ turn' = "asking"
    /\ unheard' = (unheard \/ messages = <<>>)
    /\ UNCHANGED <<disk, fileCache, mapCache, talk, overtaken>>

\* The backend fails and the run ends.
NoAnswer ==
    /\ turn = "asked" /\ turn' = "idle"
    /\ UNCHANGED <<disk, fileCache, mapCache, talk, overtaken, unheard>>

Answer(weight) ==
    /\ turn = "asked" /\ turn' = "acting"
    /\ AddMessage([role |-> "assistant", cost |-> weight])
    /\ UNCHANGED <<disk, fileCache, mapCache, overtaken, unheard>>

\* A tool's result, or the verifier's verdict.
Report(weight) ==
    /\ turn = "acting"
    /\ AddMessage([role |-> "tool", cost |-> weight])
    /\ UNCHANGED <<disk, fileCache, mapCache, overtaken, unheard, turn>>

EndTurn ==
    /\ turn = "acting" /\ turn' \in {"asking", "idle"}
    /\ UNCHANGED <<disk, fileCache, mapCache, talk, overtaken, unheard>>

\* read
Read(f) ==
    /\ turn = "acting" /\ disk[f] # Absent
    /\ Remember(f, disk[f])
    /\ UNCHANGED <<disk, mapCache, talk, turn, overtaken, unheard>>

\* goto_definition
Visit(f) ==
    /\ turn = "acting"
    /\ Get(order, f)
    /\ UNCHANGED <<disk, mapCache, talk, turn, overtaken, unheard>>

\* Slip: the map is kept.
MutatedQuietly == UNCHANGED <<mapCache, talk, turn, overtaken, unheard>>

\* A tool that changes files has succeeded: invalidate_repo_map_cache.
Mutated ==
    /\ repoMap' = Absent /\ overtaken' = FALSE
    /\ UNCHANGED <<symbols, talk, turn, unheard>>

\* write and edit.
Change(f, text) ==
    /\ turn = "acting"
    /\ disk' = [disk EXCEPT ![f] = text]
    /\ Remember(f, text)
    /\ Mutated

\* write or edit, and the roll-back when lint finds errors in a file that was
\* there: the cache keeps what was taken back.
ChangeTakenBack(f, text) ==
    /\ turn = "acting" /\ disk[f] \notin {Absent, text}
    /\ TakeIn(order, f, text, {f})
    /\ Mutated
    /\ UNCHANGED disk

\* A file changes, and the cache of files is not told.
ChangeUnseen(f, content) ==
    /\ content # disk[f]
    /\ disk' = [disk EXCEPT ![f] = content]
    /\ behind' = behind \cup ({f} \cap DOMAIN files)
    /\ UNCHANGED <<files, order>>

\* patch, undo, redo, refactor_symbol, lint_fix and bash do not know the cache.
ChangeBehind(f, content) ==
    /\ turn = "acting"
    /\ ChangeUnseen(f, content)
    /\ Mutated

\* Nobody invalidates the map either.
Overtake(f, content) ==
    /\ ChangeUnseen(f, content)
    /\ overtaken' = (overtaken \/ (repoMap # Absent /\ Absent \in {disk[f], content}))
    /\ UNCHANGED <<mapCache, talk, turn, unheard>>

\* A tool that has changed files raises, runs out of time or reports a failure: a
\* command that exits with an error, a rename or a lint_fix that stops half-way.  Only
\* success invalidates the map.
ToolFails(f, content) == turn = "acting" /\ Overtake(f, content)

\* /undo and /redo between two tasks call their tools past the loop.
UndoAtPrompt(f, content) == turn = "idle" /\ Overtake(f, content)

\* Another program changes a file.
Outside(f, content) == Overtake(f, content)

\* /clear
Clear ==
    /\ turn = "idle"
    /\ messages' = <<>>
    /\ UNCHANGED <<disk, fileCache, mapCache, summary, turn, overtaken, unheard>>

\* A new process takes up a saved session: only the messages come back.
Restart ==
    /\ turn = "idle"
    /\ files' = <<>> /\ order' = <<>> /\ behind' = {}
    /\ repoMap' = Absent /\ symbols' = <<>> /\ overtaken' = FALSE
    /\ summary' = FALSE
    /\ UNCHANGED <<disk, messages, turn, unheard>>

ContextNext ==
    \/ \E weight \in Weights : NewTask(weight) \/ Answer(weight) \/ Report(weight)
    \/ \E prompt \in Prompts, found \in Files \cup {Absent}, related \in {0} \cup Weights :
          Assemble(prompt, found, related)
    \/ GoOn \/ NoAnswer \/ EndTurn \/ Clear \/ Restart
    \/ \E f \in Files : Read(f) \/ Visit(f)
    \/ \E f \in Files, text \in Texts : Change(f, text) \/ ChangeTakenBack(f, text)
    \/ \E f \in Files, content \in Texts \cup {Absent} :
          \/ ChangeBehind(f, content) \/ ToolFails(f, content)
          \/ UndoAtPrompt(f, content) \/ Outside(f, content)

ContextSpec == ContextInit /\ [][ContextNext]_contextVars

-----------------------------------------------------------------------------

\* file_context.py 57-62 (remember avoids "returning stale content when a
\* write/edit changes a file that was already cached"): in whatever order files are
\* read, written, evicted and taken in again, the model is shown the text on disk of
\* every cached file but those last changed by what does not tell the cache: another
\* program, a lint roll-back, and every tool but read, write and edit.
CachedFilesCurrent == \A f \in DOMAIN files \ behind : files[f] = disk[f]

\* context.py 137-142 (the map is cached, and the caller is to "invalidate explicitly
\* after a mutation"): the map lists the files there are, unless since it was made a
\* file was made or deleted by one of three: a tool that failed, /undo or /redo at the
\* prompt, or another program.  The first two are the program's own: react_loop.py 1864
\* invalidates the map on success alone, against what 613-615 says of it ("only stale
\* after one of these actually succeeds"), and main.py 715-731 never does.
MapCurrent == repoMap # Absent /\ ~overtaken => DOMAIN repoMap = Present

\* context.py 222 ("so a user turn always survives rendering"): a conversation that
\* is not empty begins with a user's message, through every trim and every
\* reconciliation, in all sessions but the ones where an escalation was resolved
\* after /clear.
UserTurnSurvives == messages # <<>> /\ ~unheard => messages[1].role = "user"
=============================================================================
