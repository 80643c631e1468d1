# Verification of chef-human

chef-human is a coding agent: it has a language model write a plan for a task,
works the plan off step by step with tools that read and change files, has the
model verify every step, and replans what fails. This directory holds TLA+
specifications of its core (`chef_human/` in the repository), the TLC
configurations that check them on small instances, and proofs checked by TLAPS.
Line numbers below refer to the files of the repository.

## 1. Inventory

| Component | Source | State | Operations | Works with |
|---|---|---|---|---|
| Plan tree | `agent/planner.py` (`PlanNode`, `Plan`) | the tree: kind, status and parent of each node | walks (`current_leaf`, `unresolved_steps`, `ready_rollup_branches`), `set_children`, splice, revision | edited by the loop and the planner |
| Agent loop | `agent/react_loop.py` | `_last_failed_node`, `_escalations`, two streaks, steps taken, locals of a turn | `run`, review, `_execute`, verification, rollups, checkpoints, finish, replan, escalate, `resolve_escalation` | everything |
| Step verification | `agent/react_loop.py` (`_execute`'s dispatch, `_verify_and_mark_step`) | files read, files written by the step, what the calls of a turn came to | refuse a call, dispatch, lint and take back, check the evidence, ask the verifier | tools, verifier |
| Retry manager | `agent/retry.py` | failures and replans per node id | `record_iteration`, `on_replan` | called once per turn and replan |
| Step evidence | `agent/react_loop.py` (`StepEvidence`) | files written and read, commands, per node | merge, discard, rebuild | fed by tools, read by the verifier |
| Plan generation | `agent/planner.py` (`Planner`) | the tree as it grows, planning facts | generate, expand, classify, replan, expand a checkpoint, continue after it | the model |
| Change history | `tools/diff.py`, `undo.py`, `redo.py`, `fsutil.py` | entries, redo stack | record, undo, redo, roll-back | the disk |
| File tools | `tools/filesystem.py`, `patch_tool.py`, `refactor.py`, `lint_fix.py` | the disk | write, edit, patch, rename, fix | change history, cache |
| Context | `agent/file_context.py`, `context.py`, `repo_map.py` | cached texts and their order, messages, the map of the repository | get, remember, evict, trim, assemble | file tools, the model |
| Code review tree | `review_tree.py`, `review_network.py`, `review_verify.py` | tree of review nodes, findings | cut, cluster, review leaves concurrently, merge, verify, report | the model |
| Symbol index, retrieval | `agent/symbols/`, `agent/rag/` | definitions and references per file, chunks | index, refresh, look up | context |
| Backends | `llm/` | connection settings | complete, stream, embed | loop, planner |
| Shell, other tools | `tools/shell.py`, `user.py`, `registry.py`, lookups | processes | run, ask, look up | loop |
| Persistence, watcher, benchmark, command line, user interfaces | `agent/persistence.py`, `watcher.py`, `benchmark.py`, `main.py`, `ui/` | session files, snapshots | save, load, run a case, show | loop |

How they interact. One coroutine runs the loop and awaits, in turn, the model's
reply, a tool, the verifier and the planner. While it waits nothing else of the
program changes the plan; what makes it hard is not parallelism but the length
and the interplay of its reactions: a verdict read in one turn is acted on in a
later one, in a tree that has been edited meanwhile. The review of code is a
program of its own: it has many calls of the model under way at once and merges
their answers, which come in any order.

Hard behaviours, and what has to hold:

* *the tree is edited from five sides* (generation, lazy expansion of a
  checkpoint, its continuation, a local replan, a whole-plan revision), and
  dictionaries keyed by node id outlive the nodes: it must stay a tree with
  unique ids, edits must be local, and completed work must not vanish;
* *the tree grows without a limit of depth*: what is too large must be broken
  down, what is a leaf must have been judged one, and a checkpoint must wait;
* *pressure without progress*: every replan mints new nodes with new budgets;
  the streak counters must stop what the budgets cannot, and every run must end;
* *deferred decisions*: finish requests, put-off finish calls, escalations and
  the node remembered as failing are all used after an await;
* *the wording of a step decides how it is checked*: no wording may ask for
  evidence that cannot be given, and none may pass without evidence;
* *evidence* is merged upwards turn by turn and recomputed after a replan: a
  branch must be judged on all the work below it and on none that was discarded;
* *undo and redo* must be inverse to what the tools did, through failed and half
  failed transactions;
* *caches*: what the model is shown of a file, of the repository and of the
  conversation is a copy, cut to a budget, and must be neither stale nor cut in a
  way that the next request is refused;
* *a review's findings* pass through syntheses that may leave any of them out.

`PROJECT.json` lists the hazards one by one, at their lines, with the properties
that cover each of them or the reason why none does.

## 2. Modules

| Module | Models | Role |
|---|---|---|
| `PlanTree` | `PlanNode`, `Plan`, the planner's edits | operators on a plan as a value |
| `RetryManager` | `retry.py` | two variables and operators on them |
| `AgentRun` | what a caller of `run()` may rely on | abstract specification |
| `ReActLoop` | `react_loop.py` | the loop, over the two modules above |
| `StepEvidence` | `StepEvidence` and its ledger in `react_loop.py` | composes the evidence with the loop |
| `StepTurn` | the calls of a turn and `_verify_and_mark_step` | one step, refining what the loop leaves open |
| `PlanGeneration` | `Planner` | how the tree grows, answer by answer |
| `FileHistory` | `diff.py`, `undo.py`, `redo.py` and the tools that write | the disk and its history |
| `Context` | `context.py`, `file_context.py`, `repo_map.py` | what the model is told |
| `ReviewChunks` | cutting, budgets and clusters in `review_tree.py`, `review_network.py` | operators on files as values |
| `ReviewTree` | the run of a review | over `ReviewChunks` |
| `Positions` | a comprehension with a condition, a loop with an accumulator | the part of a sequence at given positions, the fold of a sequence |
| `MC*` | | instances for TLC |
| `PlanTreeProofs`, `OrderProofs` | | lemmas on plans; on sequences, their parts and ranks, on sums and on recursion |
| `ReActLoopProofs` | | theorems and proofs of `ReActLoop` and of `StepEvidence` |
| `StepTurnProofs`, `PlanGenerationProofs`, `FileHistoryProofs`, `ContextProofs`, `ReviewProofs` | | theorems and proofs of the module each is named after (`ReviewProofs` of `ReviewTree`) |

**PlanTree.** A plan is the sequence of its nodes in depth-first pre-order, each
with its depth. This determines the tree, every walk of the code is a quantifier
over positions, `set_children` replaces a block of the sequence and a splice
inserts one, and the proofs need no recursion. The root is left out: no walk of
the code visits it. Statuses `invalidated` and `skipped` are never assigned in
the source, and `in_progress` is only ever seen inside one verification.
Descriptions are abstracted, and with them the text a planner's answer is made
from: an answer is a sequence of depths and kinds from the constant `Forests`.

**ReActLoop.** `phase` names the await the coroutine is at; an action is the
code up to the next one.

| phase | waits for | actions |
|---|---|---|
| `review` | the human, before execution | `Review…` |
| `turn` | (top of the loop) | `StartTurn`, `ExpandCheckpoint`, `OutOfSteps` |
| `reply` | the model and the tools it calls | `BackendFails`, `ParseError`, `MutationGuard`, `PlainReasoning`, `ToolsFail`, `ToolsSucceed`, `AutoFinish`, `FinishComplete`, `FinishRequest` |
| `verify` | the verifier of a step | `VerifyNothing`, `StepNotDone`, `StepDone` |
| `rollup` | the verifier of a branch | `RollupRejects`, `RollupPasses`, `CheckpointPasses`, and when no branch is ready `TurnDone`, `FinishPhrase`, `DeferredFinish`, `AskedSettled` |
| `finish` | the verifier, for a finish request | `AskedDone`, `AskedNotDone`, `FinishAccepted` |
| `replan` | the planner | `ReplanSubtree`, `ReplanOrphan`, `ReplanAll`, `PlannerRaises` |
| `escalate` | (nothing) | `Escalate`, `EscalateRun` |
| `done` | a human | `ResolveEdit`, `ResolveRedecompose`, `ResolveReject`, `ResolveRaises` |

Every verdict, reply and plan is an open choice. The checks in front of the
verifier (mutation verbs, candidate files, evidence of reads and runs, syntax
errors) decide the same question as the verifier does: here they are part of
`StepDone` and `StepNotDone`, and `StepTurn` has them in detail. Ids are reused
in the model when nothing outside the plan refers to them any more, and `Forget`
then clears the counters kept under them; the code draws a fresh uuid instead.
A human may resolve any node of the plan: `main.py` (741) asks for the id of an
escalated one and passes on what is typed, and `resolve_escalation` only looks it up
in the plan. (The root's id is shown nowhere, and the root is left out.)
`orphanOf` remembers the parent of a failing
node that a human's redecompose dropped, as the code's object does.
`BareFinish` chooses whether the model may call `finish` alone with work
unresolved: the finding `granted` below needs it, and the properties about
success hold without it.

**StepEvidence** extends the loop: each of its actions is one of the loop's with
what it does to the buckets. It covers one uninterrupted run; commands are
treated exactly as written files and are left out.

**StepTurn** is one step between the turn that takes it up and its completion.
`CallTool` is a call of the model with its refusal (`Blocked`), its effect and,
for a write that does not pass lint, the roll-back (`TakenBack`); a turn ends as
`TurnSucceeds`, `TurnFails`, `ReasoningTurn` (no call) or `FinishTurn` (finish is
the only call), and all but the second run `Verify`: the early returns of
`_verify_and_mark_step` in their order as `Uninvestigated`, `Investigated`,
`Created`, `Unchanged`, `Executed`, `Unexecuted`, then the verifier's answer with
one repair of an unreadable one, then the syntax check. A description is the set
of what it *sounds like* (the verb lists of the source) and the files it names; a
content is absent, empty, fine, or, of a Python file, broken or untidy. Files
have different base names.

**PlanGeneration.** An action is one answer of the model: `Expand` (a node is
broken down), `Judge` (the atomicity check of one child), `Descend` (on to the
branches of the last answer), `Finish`; `Replan`, `ExpandCheckpoint` and
`Continue` are the other entries of the planner. An answer is a sequence of steps
with a declared type and a name, of which normalisation tells apart what is
conditional, noise, repeated or empty. Ids are 0, the root, to `MaxNodes`.
`given` is a history variable: what became of each node. What lies below a node is
what every set with the node that is closed under children holds. `Noise` names the
steps normalisation throws away; the one assumption about it, `NoiseAssumption`, is
that of the patterns (`planner.py:624-647`): a step that creates a file is noise only
if the same step on a condition is.

**FileHistory.** An action is a whole tool call, as the loop dispatches one after
the other. Contents are values; `Opaque` stands for bytes that are no UTF-8, and
`Absent` for no file. Two history variables say what the promises rest on:
`base` is the disk the session began with, and `clean` holds until a change
escapes the store (a shell command, an unrecorded empty file, a lint roll-back,
a half-failed transaction, a stopped `ruff`) or is undone out of order. Paths are
taken to be spelled one way; the code compares them as strings.

**Context.** A text is a value with a cost in tokens. `files` and `order` are the
cache with its order of access, `repoMap` and `symbols` the cached map,
`messages` the conversation. Actions are the turns of a session (`NewTask`,
`Assemble`, `Answer`, `Report`, `EndTurn`, `GoOn` after an escalation, `Clear`,
`Restart`) and what happens to files: `Read`, `Visit`, `Change` (write, edit),
`ChangeTakenBack` (lint roll-back), `ChangeBehind` (tools that do not know the
cache), `ToolFails` (a tool that changed files and then failed), `UndoAtPrompt`
(`/undo` and `/redo` between tasks, past the loop) and `Outside` (another program).
The last three leave the map as it was. Three history variables say where a property
is not claimed: `behind` holds the files whose cached text nobody has refreshed,
`overtaken` that one of the three made or deleted a file since the map was made, and
`unheard` that a run went on with a cleared conversation. Section 4 says which of these
disagree with a text of the repository.

**ReviewChunks, ReviewTree.** A file is a sequence of lines with a cost, and the
statements at its top level. `ReviewChunks` cuts it into units, an oversized unit
into pieces, a long line into halves, chooses the signatures shown with each
piece and clusters the files; none of it waits, so it is the initial state of
`ReviewTree` (`AllUnits`, `FileClusters`, `Skeleton`). Then `StartLeaf` under the semaphore, `LeafAnswered`
in any order, and bottom-up `Synthesize`, `SkipFile`, `ValidateFile`, the network
node's `NetworkAsks` (a turn in which the model asks for up to `MaxCalls` calls of its
tool), `NetworkReads` (one of these calls; each sees what the ones before it have used)
and `NetworkAnswers`, then `VerifyFinding` and
`WriteReport`; `ReadFails` and `CallRaises` end a review with an exception.
Findings are values, and `KeyOf` says which of them the code takes for the same.

Operators marked `Slip` are plausible mistakes in a definition next to them. No
specification uses them: they serve to confirm that a property can fail.

## 3. What is checked

| Run | Instance | States | Shows |
|---|---|---|---|
| `core` | 4 nodes, 2 failures per replan, 1 replan, 1 review iteration, 6 turns, plans with branches and checkpoints | 76,612 | `PlanShape`, `FailingNodeInPlan`, `RetryBudget`, `SuccessMeansComplete`, `CompletedBranchClosed`, `WholePlanReplanIsLastResort`, `ReplanIsLocal`, `WorkKept`, and `RunsAsPromised`: the loop implements `AgentRun` |
| `resume` | 3 nodes, 5 turns per run, 1 resolution of any node, bare finish requests | 231,858 | `ResolveIsLocal`, `BudgetSurvivesResume`, `FinishVerified`, `FinishNeverUndoes`, `Termination` |
| `evidence` | loop with 4 nodes, 4 turns and 1 file | 359,921 | `WritesReachBranches`, `NoStaleWrites`, `ReadsCreditedOnce`, `CreationSticks` |
| `steps` | 15 wordings, 2 files (one Python, one named with its directory), 2 calls per turn | 268,368 | `NoStepImpossible`, `ReasoningIsNoWork` |
| `plangen` | 4 nodes, answers of 2 steps, neighbourhood of 3 | 158,272 | `LeavesJudged`, `CheckpointsLazy`, `NearbyIsBall`, `NormalizeSound` |
| `history` | 2 files, 2 texts, 3 entries | 104,981 | `HistoryIsComplete`, `NothingForgotten` |
| `context` | 2 files, 2 texts of different cost, a cache of 2 files or 3 tokens, a window of 5 | 1,505,182 | `CachedFilesCurrent`, `MapCurrent`, `UserTurnSurvives` |
| `review` | 7 codebases of 1 or 2 files, 3 findings with 2 keys, 2 leaves at a time, 2 tool calls in an answer | 337,783 | `NothingLost`, `CutSound`, `PromptsFit`, `ReviewEnds` |

Each run has a type invariant besides (`TypeOK`, `LedgerTypeOK`, `StepTypeOK`,
`GenTypeOK`, `FileTypeOK`, `ContextTypeOK`, `ReviewTypeOK`; `resume` leaves it to
`core` and to the theorem). Those of `PlanGeneration`, `Context` and `ReviewTree`
say more than types: the children form a tree, the cache's two tables agree and
keep both limits, the semaphore is respected.

Bounds, and why they are enough.

* *The loop.* Four nodes hold a branch of two levels, a checkpoint with a child
  and a successor, and a splice next to them; every edit and every relation the
  properties speak of involves at most a node, its parent, a sibling and a
  descendant. The limits (`MaxRetries`, `MaxReplans`, both streak limits) are at
  1 or 2 so that each is reached, and passed over by the slips, within the turns
  allowed; replan, widening, escalation and a second escalation happen in six.
  `Forests` and `InitialForests` list the shapes of an answer: nothing, one step,
  one checkpoint, a checkpoint with work after it, a branch. `resume` has
  three nodes and starts from one step, from which replans and expansions make the
  rest: within five turns a run replans, escalates and ends, is resumed by a
  resolution and ends again, and a new breakdown drops the node remembered as failing
  (`ReplanOrphan`). Its four safety properties were also checked with seven turns
  (1,750,469 states), the fewest after which that node can be below an escalated one.
* *A step.* The checks look at one file at a time or at "some file" and "all files"
  of a set: two files of different make tell these apart. Two calls make a turn
  in which a second call depends on what the first did (read, then write; write,
  then write again; write, then run); turns follow each other without bound.
* *Plan generation.* Four nodes below the root are two answers and what a third
  changes about them; `FewBrokenDown` stops after three nodes have been broken
  down. A neighbourhood of three is smaller than the trees, so that the limit
  bites in the middle of a node's neighbours. `NormalizeSound` runs over all
  answers of two steps, among them the ones that only a second pass would change.
* *History.* An entry of both files, an older and a younger one of either: three.
  It was also checked at four entries with its constraint and at three without
  constraint and symmetry, with the same result. The constraint `UncleanIsShort`
  stops at two entries once `clean` is lost, where only the type and
  `NothingForgotten` still say anything.
* *Context.* A text that fits twice and one that fits once, a window that holds
  five messages: eviction by number and by tokens, the first overflow with its
  summary and the ones after it all happen. A conversation never gets longer than
  the window, so it needs no bound.
* *Review.* The codebases were chosen for the cases of the cutting (a class over
  the budget, a method over the budget, no definitions, no text, a syntax error,
  calls between files, files with one name). With two calls in an answer the second
  is judged by what the first has used. `CutSound` besides runs over all texts of up
  to three lines.

Symmetry of the files is sound in `Context.cfg` and `FileHistory.cfg`: no
definition or invariant names a file, and `NothingForgotten` is about a step alone.

Deadlock. It is checked in the loop's runs, where a finished run stutters by the
action `Done`, in `history`, `context` and `review`. `PlanGeneration` and `StepTurn`
switch it off: a plan that has no room left, or a planner that raised, and a
step that is completed really stop.

Fairness. `FairSpec` of the loop assumes weak fairness of the review and of the
loop's step as a whole, nothing about which outcome is chosen. That is what one
coroutine gives as long as what it waits for comes: tools run under `wait_for`, and
the review ends after a fixed number of iterations. That a backend's call returns or
raises is an assumption about the backends, not a fact of this code: the streamed
llama.cpp call (`llm/llamacpp_backend.py:93-112`) waits on a queue whose producer,
in another thread, may raise before it puts its sentinel, and the Ollama client is
given no timeout; a run then waits for ever. Nothing is assumed of a human's
resolutions. Under the assumption `Termination` and the liveness of `RunsAsPromised`
hold of the loop whatever is answered, because every path from the top of the loop
back to it spends a turn or ends the run. `AgentRun` has weak fairness of its ends
alone. `ReviewTree` assumes weak fairness of its step as a whole on the same
assumption (a review only uses `complete`, never the stream), and `gather` resumes
what waited.

## 4. What disagrees

Four runs end with a counterexample. Each states what a text of the repository
says, and each counterexample is a behaviour of the code.

* `granted` / `SuccessMeansComplete`: a finish request verifies the steps that were
  unresolved when it was made; a checkpoint completed on the way adds steps that
  are not among them, and the run ends in success (`react_loop.py:3052`).
* `rollback` / `TakenBackIsNotDone`: a write that does not parse is taken back, and
  the step that says to create the file is completed by it all the same, because
  the file is there: it was before (`react_loop.py:2893`).
* `descent` / `DescentGuarded`: the guard against endless paraphrase knows a node
  that was found too large by the reason of the verdict, which may be empty; its
  lone child is then judged, and broken down, again (`planner.py:747`).
* `path` / `UndoneWasLast`: undo of one path passes over a later rename of several
  files (`diff.py:220`).

`SuccessMeansComplete` is also a property of `core`, where `BareFinish` is FALSE:
the two runs and the theorem together say exactly when it holds.

Further divergences were met while modelling. The models contain the code's
behaviour, no run is spent on them, and the hazards name their lines:

* an escalation after a rejected rollup marks the leaf the turn had just completed
  as failed, not the branch (`react_loop.py:931`; the comment at 779-786 rules
  that guess out);
* a checkpoint that is the first child of another checkpoint's expansion is worked
  as a leaf in that same turn and never decomposed (`react_loop.py:1280`;
  `CONTEXT.md:19`);
* replanning above an escalated node drops it and leaves its record
  (`react_loop.py:1212`; the comment at 787-794), and a resolution by redecompose
  keeps a reference to a node it dropped (`react_loop.py:1231`; 779-786): in a
  resumed run `FailingNodeInPlan` does not hold, and `ReplanOrphan` is what
  comes of it;
* the rebuild of the ancestors' evidence leaves the files read out
  (`react_loop.py:992`; the docstring at 979-981);
* a file found missing when the plan was made stays "missing" (`react_loop.py:2875`;
  the docstring at 2674-2676): once an earlier step has made it, a later one that
  sounds like a creation is completed by any turn that succeeds;
* a tool that made or deleted files and then failed (a command that exits with an
  error, a rename that stops half-way, a call stopped by its timeout) leaves the cached
  map of the repository as it was, because only a success invalidates it
  (`react_loop.py:1864`; 613-615: it "is only stale after one of these actually
  succeeds"; `context.py:137-142`). `/undo` and `/redo` at the prompt change files past
  the loop and do not invalidate it either (`main.py:715-731`). These two, and other
  programs, are what `MapCurrent` excepts by `overtaken`;
* the symbols of a file are never extracted anew while the map around them is
  invalidated after every change (`repo_map.py:130-135`, `context.py:134-142`);
* the first overflow of a conversation drops everything between its first message
  and its last one that is not a user's, the task being worked on included
  (`context.py:92-97`);
* the pieces of an oversized class that does not begin its file do not carry the
  class's header but one line of it (`review_tree.py:819` and 1040; the docstring
  at 1027-1029).

No divergence, but a loss to know of: the class-level statements of an oversized class
that are not methods are in no leaf, as the comment at `review_tree.py:1045` says
openly. `CutSound` names them as the only lines of a unit that are not reviewed.

## 5. What is proved

For every value of the constants that meets the named assumptions
(`NodesAssumption`, `NoNodeAssumption`, `ForestsAssumption`, `RetryAssumption`,
`LoopAssumption`, `StepTurnAssumption`, `FilesAssumption`, `ContextAssumption`,
`PlanGenerationAssumption`, `NoiseAssumption`, `ReviewAssumption`; TLC evaluates each in the runs of its
module):

| Theorem | Says |
|---|---|
| *the loop* | |
| `TypeCorrect` | the types, with `steps <= MaxSteps` and failures at most `MaxRetries` |
| `PlanStaysTree` | the plan is a tree of distinct nodes, always |
| `ReplansBounded` | no node is replanned more than `MaxReplans` times on its own account |
| `StreaksBounded` | both streaks stay below their limits between steps |
| `SuccessIsComplete` | without `BareFinish`, success means a complete plan |
| `FailingNodeLives` | in a run nobody resumed, the failing node is in the plan |
| `BranchesStayClosed` | until a resume and without `BareFinish`, `CompletedBranchClosed` |
| `LastResort` | under the same hypotheses, `WholePlanReplanIsLastResort` |
| `ReplansStayLocal`, `ResolutionsStayLocal` | `ReplanIsLocal`, `ResolveIsLocal` |
| `CompletedWorkKept`, `FinishKeepsWork` | `WorkKept`, `FinishNeverUndoes` |
| `FinishesVerified` | `FinishVerified`, bare finish requests included |
| `BudgetsSurvive` | `BudgetSurvivesResume` |
| `RunImplements` | without resumes and `BareFinish`, every behaviour is one of `AgentRun!Spec`: the safety part of `RunsAsPromised` |
| *the evidence* | |
| `LedgerIsLoop`, `LedgerPlanStaysTree` | the composition implements the loop, so the plan is a tree there as well |
| `LedgerTypeCorrect` | `LedgerTypeOK` |
| `WritesAlwaysReach`, `WritesNeverStale` | `WritesReachBranches`, `NoStaleWrites` |
| `ReadsOnOneLine`, `CreationsStick` | `ReadsCreditedOnce`, `CreationSticks` |
| *a step* | |
| `StepTyped` | the types of a step's verification, and that a step is completed exactly when a reason is recorded |
| `NoWorkNoStep` | `ReasoningIsNoWork`: a turn without calls completes a step only on evidence |
| `NoStepIsImpossible` | `NoStepImpossible`: for every wording, any number of files and whatever became of them, some turn completes the step |
| *plan generation* | |
| `GenTypeCorrect` | `GenTypeOK`: one tree below the root, calls for different nodes of it |
| `LeavesAreJudged`, `CheckpointsWait` | `LeavesJudged`, `CheckpointsLazy` |
| `NormalizedIsSound` | `NormalizeSound`, for answers of any steps |
| `NearbyStaysBall` | `NearbyIsBall`, for trees of any size and any limit |
| *the change history* | |
| `FileTyped` | the types of the disk and the store: what is recorded always reads as text |
| `HistoryComplete` | `HistoryIsComplete`, for any number of files, texts and entries |
| `NothingIsForgotten` | `NothingForgotten` |
| *the context* | |
| `ContextTypeCorrect` | `ContextTypeOK`: the cache's two tables agree and keep both limits |
| `CachedFilesStayCurrent`, `MapStaysCurrent`, `UserIsHeard` | `CachedFilesCurrent`, `MapCurrent`, `UserTurnSurvives` |
| *the review of code* | |
| `ReviewTypeCorrect` | `ReviewTypeOK`: the types, the semaphore's limit and a cluster's budgets |
| `NothingGetsLost` | `NothingLost`, for any codebase and any answers |
| `ClusteringIsSound` | `ClusteringSound` of the clusters of any finite set of files, any weights and any maximum: small enough, none left to merge, the heaviest pair together |
| `PromptsKeepToBudgets` | `PromptsFit`, for any codebase |
| `CutsAreSound`, `SplittingIsSound`, `CuttingIsSound` | `CutSound` (which lines are in which units and leaves), and its two halves for any text and budget and for any file |

**The loop.** `PlanTreeProofs` shows of each edit of a plan (growing an answer,
replacing children, inserting after a subtree, changing a status, keeping part of
the plan) that it preserves the shape, and which ids, statuses and ancestors the
result has. `ReActLoopProofs` proves one inductive invariant, `Inv`, action by
action. None of the first six properties is inductive alone; `Inv` adds

* `TurnInPlan`: the turn's leaf is a node of the plan (replans end a turn, so
  nothing a turn refers to is dropped under it), without which marking it could
  change nothing or the wrong node;
* `TurnOver` and `StepLeft`: there is no turn at the top of the loop or after the
  end, and a turn in progress still has a step to spend; this bounds `steps`;
* `FailingUntilResumed`: `lastFailed` is in the plan as long as `resumes = 0`;
* `ReplanDue`: at an await on the planner for a failure, the charged node has
  budget left, which is what bounds `replans`;
* `EndIsDone`: only a finished run has a result;
* `~BareFinish => NeverAsked /\ SuccessMeansComplete`: without bare requests no
  turn is in the mode that grants one.

`Path` is a second invariant, of runs that nobody resumed, for the two properties
that say where an unfinished node may be. Its main conjunct is `Closed`: below a
completed branch everything is completed or was given up. It survives a splice or a
replan only because these happen under nodes that are not completed themselves and
have no completed ancestor, which the other conjuncts give: the leaf at work is
pending (`LeafAtWork`), so is what is failing (`FailingOpen`), and a turn that knows
of no failing node has a pending leaf, or a node was given up (`SomethingToDo`). The
`...Graft` lemmas say of each edit that the old nodes keep their ancestors and the
new ones hang under open nodes only. Both properties fail after a resume, since a
human may redecompose a node below a completed branch, and with bare requests.

`AskedProgress` says that what a finish request has verified so far is completed and
what it has not is still listed; `FinishesVerified` is its last step. `WorkKept` and
the local properties are proved of one step each, from `Inv`: the lemmas ending in
`StillDone` and `Outside` say of each edit what it leaves as it was.

For `RunImplements` the lemma `GoesOnOrEnds` says that every step of the loop either
goes on with at most one turn spent, or ends the run with the plan as it is; success
then requires that nothing is unresolved (`SuccessMeansComplete`), and the bound on
turns is `TypeOK`'s.

**The evidence.** `LedgerInv` is `Sound` (the three properties of the buckets), that
nodes outside of the plan have no evidence (`Blank`: otherwise an id used again would
bring back what a discarded attempt wrote), that there is none before the review is
over, and that what a bucket has read is remembered as read, which is why no second
one is credited with it. `SoundMoves` carries it over an edit of the plan that keeps
the ancestors of the nodes with evidence. The invariant of the loop is a fact of the
composition, by `LedgerIsLoop`.

**A step.** `StepInv` adds to the types that a turn without calls is blank
(`IdleIsBlank`): nothing was written, run, looked at or rolled back in it. Without
this a `ReasoningTurn` could complete a step on what an earlier turn left in `turn`.
`VerifyInv` shows that `Verify` keeps it in any world that agrees with the state on
the disk; `BlankVerify` goes through the reasons for which `Verify` may complete a
step in a world without calls, and shows that each is in `WorkShown`. `WrittenIsRead`,
the other conjunct, says that what a step wrote is known as read, so that the loop
does not refuse to write it again.

`NoStepIsImpossible` names the turn: it reads what the step names and is there, then
writes what does not parse of the files named or written before (or one file, if the
step asks for a change and none was made), then makes one call more. `Helped` says what is
known after the first of these calls and `PlayedHelps`, by induction along the turn,
that the fold of the model leads there; what is left is to go through the early
returns of `_verify_and_mark_step`, none of which is met. It needs `Files` to be
finite, and the exception stated in the property.

**Plan generation.** `GenInv` has three parts. `Shape`: every node has one parent and
no proper closed part of the tree holds the root, which is to say that everything
hangs below it; said this way it needs no induction on depth, and replacing what is
below a node keeps it (`Regrown`). `Work`: the calls to come are for different nodes,
without children yet, and none of them is among the nodes being judged; otherwise an
answer could replace what another call has just made. `Judged`: a node without
children is one the property allows, or it is still to come as a call, as a leaf to
judge or as a branch of the present answer. The normalisation is proved idempotent
on positions (`Picked`): what is kept is settled, resolving and dropping leave settled
steps alone, and what has no step twice stays as it is. The one case that needs an
assumption, and the proof is how it was found, is a conditional step resolved to one that is noise.

For `NearbyStaysBall` the lineage of a node is shown to be the least set around it
that holds the parents of its nodes (`LineageLeast`: it can grow only as often as
there are nodes). So a node has the lineage of its parent and itself (`LineageStep`),
a step of the tree changes the distance from a node by exactly one (`FarEdge`), and
from every other node there is a step towards it (`Nearer`). `Scanned` is the
invariant of the search: what was found is in order of distance, no farther than a
step beyond the node to be looked at next, and with the nodes looked at it holds all
that is next to them; hence what was not found is farther (`Outside`), also when the
limit cuts the neighbours of a node short. `Topped` says that the part found has one
highest node, which is what the rendering starts from.

**The change history.** `Complete` says `HistoryIsComplete` in a form that survives a
step: for every file the entries lead (`Leads`) from `base` to the disk, neighbours
fitting together, and the redo stack continues from there (`Continues`). The lemmas
say what appending or removing an entry does to each: an append fits if its old
content is what is there; the entry removed must be the last one of each of its
files, which is what `InOrder` records in `clean`. Without `clean` none of this
holds: an undo out of order leaves a gap. `FileTyped` is needed under it, since undo
and redo give a file only what the store holds of it. `NothingIsForgotten` rests on
one fact, `MovedBag`: an entry taken out at one place and put in at another, with
those between moved up by one, leaves every entry as often as it was.

**The context.** `ContextInv` is `DiskInv`, `CacheInv`, `Current(disk)`, `MapInv` and
`TalkInv`. `CacheInv` states the agreement of the two tables as "the order lists the
domain of the table" (`Lists`), which eviction from the front and a touch keep; that
a limit is met again after taking in a text, and that the eviction ends, follows from
the sums over the table. `MapInv` holds `MapCurrent`: the map is dropped by every
change that does not set `overtaken`. `TalkInv` adds that while a turn is on something was said,
unless the conversation was cleared under an escalation: a tool's report is otherwise
the first message. `OrderProofs` holds what both modules need of lists without
repetition, of parts of sequences and of ranks.

**The review of code.** `ReviewInv` is the types and four more parts. `Grown` says
what the review relies on of its tree: every node but the root is below one of
`order`, the root comes last in it, and what is below a node is a leaf or comes
before it. `Complete` says that a result in `order` is made only after those of
everything below it; `Kept` that of the findings of the children each is in the
node's result or among the keys it dropped, which is what `Recover` gives whatever
the answer lists (`RecoverKeeps`); `Judged` that the verdicts belong to the root's
findings. When the root is resolved a finding can be followed from its leaf up, path
by path (`PathsGrow`), until a node drops it or the root has it (`InvNothingLost`).

That `Skeleton` is grown (`SkeletonGrown`) has to go through the cutting of files,
the clusters and the order the nodes are listed in, which are recursive functions and
folds. What is needed of them is proved by a step in a set of naturals
(`Climb`): a recursive function as the code has it exists, because its initial parts
do (`Iterates`), and each of its values is of the right kind; thus a text is cut into
texts (`LineGroupsOf`, `HalvedLineOf`), and every unit that is cut stands before its
file (`LowerOf`). The proof needs of the code under review what `Source` says: its
lines are numbered, and statements are in their text in their order. It is how these
assumptions were found.

*Clusters.* Pairs of clusters are ordered strictly by weight and names, so there is a
first one to merge (`LeastOf`). A merge leaves a partition with one cluster less, so
that after as many rounds as there are files nothing is left to merge; and the first
merge is that of the heaviest pair, which stays together from then on.

*Prompts.* A piece that was cut by lines fits its budget, or is a single character
and is not cut again. The signatures are taken while their tally is within what is
left, and what is shown and what is left add up to the budget (`SumOf` and its
neighbours in `OrderProofs` have the sums).

*Cutting.* Groups of lines are followed through the splitting by what they hold
together: everything collected so far, spread out, is the lines seen so far with their
numbers in order, and each number's share of the cost is kept when a long line is
halved (`SplittingIsSound`). The blocks of a file or of a class lie between rising
marks, so they partition its lines; a method's lines are in some piece, the pieces of
a unit are its leaves, and a unit's lines are those of its blocks (`CuttingIsSound`).

TLC checked each invariant on the instances of the runs before it was proved.

**Only model-checked.** Everything temporal under fairness: `Termination`,
`ReviewEnds`, and that `RunsAsPromised` ends, which is beyond the prover. Every
invariant and every action property of the runs that pass is a theorem. Of
`AgentRun`'s refinement, `RunImplements` leaves out resumes and bare finish requests,
as the run does.

## 6. What is not modelled

* The wording of prompts and of answers, and with it whether the model answers
  well: every answer is an open choice.
* `_ConvergenceTracker`, `_rollup_reject_streak` and the histories of failure
  texts: they change the wording of a message only.
* The finish tool's own failure or timeout after a put-off call: `finish` only
  returns its argument. Cancellation of the coroutine from outside.
* The repository context gathered for planning, approval of commands and
  questions to the user: what comes of them is part of the open choices.
* `RequestReplanTool`, `FileWatcher`, `Plan.archive_subtree`: nothing in the
  source reaches them.
* Files spelled by two paths, or two files of one base name in a step; contents
  finer than the values each module has.
* The syntax trees of the reviewed code, the definition map across languages, the
  Markdown of the report.
* The components marked `not_modelled` in `PROJECT.json`, each with its reason:
  adapters of services and of terminals, functions of a path or a text without
  state, code that nothing reaches, and case data.

## 7. Plan

Done: the plan tree, retries, the loop and its evidence; the verification of a
step; plan generation; the change history; the context; the review of code; the
theorems above.

Possible next steps: to compose `StepTurn` with `ReActLoop`, as `StepEvidence` is,
and the symbol index with `Context`.
