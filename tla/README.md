# Hermes Attractor: a TLA+ model

Hermes Attractor is a plugin that executes *pipelines* (directed graphs of agent
work) on a kanban board.  A *run* of a pipeline is launched once; from then on
nothing of it stays in memory.  Workers finish cards on the board, the board logs
an event, and short-lived *reconcile passes* read the events they have not seen,
decide what follows, create the next cards and save the run.  The correctness of
the program is the correctness of that protocol between a board, two SQLite
tables and any number of processes that may run at once and may die anywhere.
That is what the modules here describe, check and prove.

## 1. The system

| Component | State | Operations | Modelled |
|---|---|---|---|
| run execution, `use_cases/run_execution.py` | none of its own: a pass holds a `Run`, a `Pipeline` and the pending steps in local variables | `launch_run`, `advance_on_completion`, two read-only queries | `RunEngine` |
| reconciler, `use_cases/reconcile.py`, `plugin/reconcile.py` | the stored cursor of each run | `reconcile` over the active runs; called by the `post_tool_call` hook after each `kanban_complete`, by `on_session_start` and by the CLI | the loop over runs and batches: `Reconciler`; the writes inside one advance: `RunEngine` |
| edge selector, `domain/edge_selector.py` | none | `select`: guard, then label, suggested nodes, weight, node id | `EdgeSelector` |
| pipeline and context, `domain/pipeline.py` | immutable values | graph queries, `Context.apply`, `Context.merge`, `validate`, stylesheet resolution | `Pipeline`; `validate` and the stylesheet in `Definition` |
| run state store, `adapters/run_state_store.py`, `domain/run.py` | tables `plugin_runs`, `plugin_run_nodes` | `create_run`, `save_run`, `upsert_node`, queries; each commits on its own | `run`, `rows` of `RunEngine` |
| board and event log adapters, `adapters/kanban_board.py`, `event_log.py`, `task_event_reader.py` | none; the board and `task_events` belong to the host | `create_card` (idempotency key), `block_card`, `complete_card`, terminal events past a cursor | `tasks`, `log` of `RunEngine`; the batches of the log in `Reconciler`; the board itself is external |
| tool registry, `adapters/tool_node_registry.py` | a table of callables | `run` | as the reconcile path uses it (no registry is passed: no effect) |
| guard language, `domain/guard.py` | none | parse, evaluate | `Guard`, over tokens; for `EdgeSelector` a guard is its meaning |
| authoring, `use_cases/authoring.py`, `adapters/pipeline_store.py` | one `.dot` file per pipeline and its git repository | six edits (load, change, save), `validate`, summary | `Definition`, `Authoring` |
| provisioning, `use_cases/provisioning.py`, `adapters/profile_*.py` | the host's profiles | create the missing ones, and set their models | `Provisioning` |
| DOT serializer, renderer | none | text in, text out | no: no state, no protocol |
| plugin tools, schemas | none | argument checks and JSON envelopes | the answer of a failed call in `Authoring`, the provisioning handler in `Provisioning`, the repository of a launch in `Reconciler` |
| health, echo | none | template examples | no: no state |

**Interaction.**  `launch_run` creates the run row and the entry card.  The
workers see only the board.  Each completion fires a hook in the worker's own
process, so *several passes may be under way for the same run*, with no lock
between them.  A pass takes a run that is RUNNING or PAUSED_HUMAN, reads the
events past its cursor, drops those whose task no node row names, and gives the
rest one by one to `advance_on_completion`, which marks the node's row, decides,
creates cards and rows, and saves the run, cursor included, *last*.

**What is hard.**  A crash between any two of those writes, repaired only by
replaying the event; idempotency keys that are or are not the same in the replay;
two passes that read the same row and overwrite each other; an event that
arrives before the row that would make it recognisable; branches that finish in
any order, in one batch or in several; gates at their last attempt; a pause that
itself writes an event; board calls that fail with a payload and not with an
exception.  Around it, one log for all runs that is read in bounded batches, in which most
events belong to somebody else, and where an exception of one run ends the pass
of all.  On the authoring side, a save in five steps without a lock: the file
is emptied, filled, added and committed, in a repository made on the way; guards
that are validated by one evaluation and used in others; and profiles that two
calls may create at once, each in two steps.  `PROJECT.json` lists each hazard at its line with the properties
that watch it.

**What makes it correct.**  Every run that is launched ends (`Termination`) and
never waits for nothing (`NoStall`); no event is passed over (`CursorCovers`); no
finished work is repeated (`NoDuplicateWork`, `DoneStaysDone`) and each retry is
new work (`FreshRetry`); a join waits for
all its branches and merges them in a fixed order (`FanInBarrier`,
`MergeComplete`); gates end runs exactly when they should (`GateWithinLimit`,
`BlockedOnExhaustion`, `SucceededPastGate`); nothing is dispatched without a
cause (`WorkIsCaused`); the end is the end (`TerminalIsFinal`).  To those who see only the board and the
run's status, all this is a short contract (`ImplementsContract`).  Passes end
(`PassEnds`), a run's cursor rests on its own events and passes none over
(`CursorOwn`, `BatchesCover`), and a run waits only behind one that fails
(`Served`).  A definition that launch accepts can be run (`AcceptedIsRunnable`) and
its guards decide as written (`GuardsDecide`); acknowledged edits last
(`NoLostEdit`), commits are whole (`CommitIsComplete`) and errors leave no trace
(`ErrorLeavesFile`).  Acknowledged provisioning is enough for launch
(`ProvisionedIsLaunchable`) and leaves no profile half made (`ModelsComplete`).

## 2. The modules

Each module extends the one before it:

* `EdgeSelector` <- `Pipeline` <- `RunEngine` <- `RunProperties` <- the `MC*` modules of
  runs, and `RunEngine_proofs` <- `RunContract_proofs`, and
  `RunEngine_proofs` <- `RunWork_proofs` <- `Sequential_proofs` <- `Branching_proofs`;
* `Pipeline` <- `RunContract`, which `RunProperties` instantiates as `Contract`;
* `Reconciler` <- `MCReconciler`, and `Reconciler_proofs`;
* `Guard` <- `Definition` <- `Authoring` <- `Provisioning` <- `MCAuthoring`;
  `Definition` <- `Definition_proofs`, and `Authoring_proofs` extends it and
  `Provisioning`.

Execution:

* **EdgeSelector**: `select()` as the set of edges it may return.  The cascade is
  a chain of filters; ties on everything but parallel edges are broken by node
  id, given as `Rank`.  A guard is the set of contexts that satisfy it.
* **Pipeline**: the graph as constants.  A context is the truth of the flags
  guards read; `Apply` is `Context.apply`.  At its end, the graph as properties and
  theorems see it: which nodes get cards (`Carded`), which of these are numbered by
  counting rows (`Counted`), and which pipelines have one card at a time
  (`Sequential`, `Ordered`), no condition on an edge (`Unguarded`), always some
  open edge (`WaysOn`), or forks with their joins and loops of gates (`Structured`,
  `Unnested`).
* **RunEngine**: the protocol of one run.  `run` is the `plugin_runs` row, `rows` the
  `plugin_run_nodes` rows, `tasks` and `log` the board and its terminal events,
  `procs` what each process has in memory.
* **RunProperties**: every property, the inductive invariant `IInv`, the fairness,
  and the refinement mapping into the contract.
* **RunContract**: what execution promises, without processes, rows, cursors,
  contexts or labels: a card is created at most once and for a reason, is closed
  once, and the run changes its status for a reason.
* **Reconciler**: a pass over *all* active runs.  `log` is the board's event log with
  an owner per event, `cursor` the stored cursors, `pass` the local state of each
  process: the runs still to visit, the local read cursor, the batch at hand.
* **MCReview, MCGated, MCApproval, MCFork**: four pipelines `validate()` accepts,
  each drawn at the head of its module.  **MCReconciler**: two runs on one log.

Definitions:

* **Guard**: the recursive-descent parser of guards, which evaluates while it
  parses, as a recursive function over its calls (rule, position, depth), and
  beside it the grammar of its documentation as a relation.
* **Definition**: a stored definition, which may be wrong in every way, its
  stylesheet, and `validate()` as the union of its seven checks.  `RunsInside` says
  independently what execution relies on: the least set of nodes that edges *and
  gate retries* can lead to is declared, has its profiles and guards, and holds
  the exit.
* **Authoring**: the edits of one pipeline by several calls at once, every step of
  `GitPipelineStore.save` an action.
* **Provisioning**: provisioning calls beside those edits: `host` is what the host
  has of each profile, `makers` the calls.
* **MCAuthoring**: a small gated pipeline that exists, lacks a node, or has to be
  created, with the declarations, edges and guards that break it.

### From code to actions

Every durable write is one action; reads that only feed the next write belong to
one action with the decision they feed.

Of one run, in `RunEngine`:

| Action | Code |
|---|---|
| `Launch` | `create_run`, entry edges of `launch_run` |
| `BeginPass` | `reconcile`: active runs, terminal events past the cursor, ownership filter |
| `ReadRun`, `SkipEvent` | head of `advance_on_completion`: node of the task, `get_run`; no node: return |
| `MarkNode` | first `upsert_node`: SUCCEEDED, or PARTIAL for a failed gate |
| `PlanFanOut`, `PlanTooWide` | the fan-out branch, its `MAX_FAN_OUT_WIDTH` exception |
| `PlanExhausted`, `PlanRetry` | a failed gate at, or below, its limit |
| `PlanNoEdge`, `PlanCard`, `PlanHuman`, `PlanExit`, `PlanWait`, `PlanFanIn`, `PlanTool` | one per outcome of edge selection and shape of the target |
| `CreateCard`, `CreateCardFails`, `UpsertRow`, `BlockCard`, `SaveRun`, `LaunchReturns` | the writes, in the handler's order: each card then its row, the block, `save_run` last |
| `Crash` | the process dies, or an exception of a port ends the pass |
| `Complete`, `GiveUp` | external: a worker or a human closes a card, or the worker fails |

Of a pass over all runs, in `Reconciler`:

| Action | Code |
|---|---|
| `BeginPass`, `VisitRun`, `EndPass` | `active_runs`, and the loop over it, which reads each run again |
| `ReadBatch`, `ReadNothing` | `read_since` with its limit; the ownership filter; the definition loaded with the first owned event |
| `LoadRaises`, `Raises` | an exception of the load or of an advance, which ends the pass for every run |
| `Advance` | `advance_fn` on the next owned event |
| `EndBatch` | a batch that is not full is the last; else the local cursor moves past it |
| `Launch`, `Edit`, `Post`, `Crash` | `launch_run` from any repository, an edit that breaks or repairs a definition, the board's log, the death of a process |

Of definitions, in `Authoring` and `Provisioning`:

| Action | Code |
|---|---|
| `CreateGraph`, `AddNode`, `RemoveNode`, `AddEdge`, `RemoveEdge`, `SetStylesheet` | the six edits up to `store.save`: load, parse, change in memory |
| `EnsureRepo`, `Configure` | `ensure_repo`: nothing if `.git` exists; else init, then the two settings |
| `OpenFile`, `WriteFile` | `write_text`, which empties the file first |
| `GitAdd`, `GitCommit`, `CommitFails`, `GitBusy` | the git commands; a non-zero exit code is an error |
| `Reply`, `Interrupt` | the tool's answer; the process dies |
| `StartProvisioning`, `ReportProfiles` | the handler: load, parse, `resolved_worker_profiles`; its answer |
| `CheckProfile` | `registry.exists` for the next name |
| `CreateProfile`, `SetModel`, `CreateRaises` | the two host calls of `create`; the profile exists by now |
| `BreakOff` | the process dies, or a host call raises |

The phase of a process of `RunEngine` says where in the handler it is: `read` (about to take
the next event), `mark` (event and run in hand), `plan` (node marked), `write`
(decided, writing).  A crash returns it to `idle` and loses the rest.

### What is abstracted

* **A task is its idempotency key** `<<node, attempt>>`: one run is modelled and
  the board deduplicates by `run:node:attempt`.  A row therefore names the task of
  its own key or, after a `create_card` that returned `""`, none (`card = FALSE`).
* **Contexts are flags**, lists, the `_merge_conflicts` note and reserved keys are
  left out.  `Merged` keeps what routing can see: per key, the last writer in
  node-id order.
* **A completion's metadata** is a verdict, a label, suggested nodes and updates;
  `Answers` says what a worker of each node may report.
* **Prompts, profiles, timestamps, logging** influence no decision and are left out.
* **Reads taken together**: the run, the log and the ownership filter at the
  start of a pass; the rows a decision reads.  Between these reads the code
  writes nothing.  A process may still be delayed or overtaken between any read
  and the write that uses it.
* **A card's creation order** among the branches of one fan-out is free.
* **`RunEngine` has one run, and a log shorter than a batch**; `Reconciler` has any
  number of runs and batches.  There in turn an advance is one step that keeps,
  pauses, ends or raises, and the owner of an event is known when it is read (the
  run `orphan` is about the case when it is not).  `active_runs` states no order,
  so the runs are visited in any.
* **A TOOL changes nothing**, because `run_reconcile` passes no tool registry.
* **A guard is a sequence of tokens**: the tokeniser, the length limit and the
  splitting of a dotted key are left out; a key that is missing or a path that
  leads nowhere is null.  A value is its type and its rank within the type.
* **A definition's lists are bags**, since DOT text groups repeated declarations by
  name and order decides nothing here; emitting and parsing keep the counts.  A
  text that is not complete is the empty file; of two overlapping writes the
  later is taken whole (the code could mix them).
* **Names and paths are safe**: the confinement of `spec_id` and `repo_path` rejects
  others before any step.  A call that ends before its save (bad argument,
  missing or empty file) changes nothing and is no step.
* **git** commits what the file holds at that moment, and fails without an
  identity, without a change, on an untracked file, or when another git holds the
  index.  A lock left behind by a killed git is not modelled.
* **The host** creates a profile once and raises the second time; nobody deletes
  one.  If a node name is declared twice, which declaration
  `resolved_worker_profiles` keeps is open (it keeps the last of a list that the
  bag does not order), and `WorkersFound` leaves aside names whose declarations
  disagree.

## 3. Runs

All passing runs set `CHECK_DEADLOCK FALSE`: a run that has ended, or whose
bounds are used up, legitimately has no next step; that it stops nowhere else is
what `NoStall` and `Termination` say.

| Run | Instance | Question | States |
|---|---|---|---|
| `serial` | `MCReview`, one process, workers may fail, no crash | Does the whole construct set (fan-out, join, merge, gate with retry, guard, tool) run to a right end? | 19,925 |
| `crash` | `MCGated`, one process, two crashes | Where idempotency keys are stable under replay, is replay exact? | 2,509 |
| `two` | `MCGated`, two processes, one crash | Do concurrent passes converge? | 68,083 |
| `approval` | `MCApproval`, one process, one crash, one board error | Do decisions stay justified, and the contract kept, with humans, labels, over-wide fan-outs, dead ends and faults? | 32,851 |
| `batch` | `MCReconciler`, two runs, one pass at a time, batches of two, one fault | Do passes end, is no event lost between batches, and who waits for whom? | 345,665 |
| `authoring` | `MCAuthoring`, two editors, two provisioning calls, two edits, one interruption | Is what launch accepts runnable, what do edits lose, is provisioning enough? | 188,289 |
| `replay`, `orphan`, `pause`, `race`, `loop`, `board` | the smallest instance that shows it | A sentence of the documentation the code does not keep (section 5) | stops at the counterexample |

What the passing runs show:

* `serial` checks nine properties, the liveness one under `FairSpec`.  With one
  process and no fault, every statement above holds, whatever the workers
  answer and in whatever order they finish.
  `MergeComplete` is about the first card of the join, the only one the merge
  precedes; both branches write the same flag, with either value.  `MCReview`
  asserts `ReviewIsStructured`: with the levels and threads it names it meets the
  hypotheses of the theorems about structured pipelines.
* `crash` is not a repetition of it: `MCGated` uses only the dispatches whose key
  a replay derives again (the entry, a retry, which takes the gate's *own*
  attempt plus one, and a tool's successor).  There, two crashes anywhere leave
  no trace, and a run succeeds only after its last gate passed.  Ordinary successors do not have that property; that is `replay`.
  `MCGated` asserts `GatedIsSequential`: it meets the hypotheses of the theorems of
  section 6 that are about a class of pipelines.
* `two` checks what survives concurrency.  `CursorMonotone`, `TerminalIsFinal`,
  `CursorCovers` and `DoneStaysDone` do not (a slow pass overwrites); that no
  work is duplicated, no gate is tried too often and the run still ends does.
* `batch` checks under fairness that a pass ends although the log grows while it
  reads (`PassEnds`), and that an active run's events are processed in the end,
  unless an active run, this one or another, has an event or a definition that
  makes every pass fail (`Served`).  The exception is real: an exception in one
  run ends the pass for all, the next pass meets it again, and the runs behind
  it starve.  It needs no error of the run's own: launched from a
  repository that is not the default one, its definition is not found by any
  pass.  `CursorOwn` and `BatchesCover` say that foreign events move the local
  cursor only, and that a batch full of them is not the end of the log.
* `authoring` checks at every moment that an accepted file is runnable, overlapping
  edits and half-written files included.  `GuardsDecide` compares the parser with
  the grammar on every text of up to five tokens: a sentence within the nesting
  limit has its one meaning, one beyond it raises, and whether a text raises
  does not depend on the context, which is what makes one evaluation in the
  empty context a validation.  `ProvisionedIsLaunchable` compares two ways to say
  which profiles a run needs: the names the tool resolves, and the workers that
  edges and retries lead to.  `ModelsComplete` excludes interruptions: one between
  the two host calls leaves a profile without its model, and later calls see that
  it exists.  `NoLostEdit`, `CommitIsComplete` and `ErrorLeavesFile` are limited to edits that do not overlap: two that do overlap lose one of them, which
  follows from load, change, save without a lock (two acknowledged edits, one
  file).  `ErrorLeavesFile` also excludes interruptions: a process that
  dies between `git init` and `git config` leaves a repository in which every
  later save rewrites the file and then fails.
* `approval` checks `IInv` and the barrier, exhaustion and cause invariants on an
  instance where each of their parts matters, and that every step is one of
  `RunContract` or none, before and beside their proofs.

## 4. Bounds and fairness

| Bound | Values | Why enough |
|---|---|---|
| `Attempts` | 1..3 (1..2 in `approval`, `orphan`, `pause`) | gates have a limit of 2, so attempt 3 is one more than any may take: a limit off by one is visible.  A dispatch outside `Attempts` is not taken; in `serial`, `crash` and `two` none occurs, or `Termination` would fail there |
| `MaxCrashes` | 0, 1, 2 | the second crash hits the replay of the first |
| `MaxBoardErrors` | 0, 1 | one lost card among several is the interesting case |
| `Procs` | 1, 2 | two overwrite each other in every way a pair of passes can; the proved invariants hold for any number |
| `MaxFanOutWidth` | 2 for the code's 16 | an instance with a fan-out at the limit and one over it |
| branches | 2 | one before and one after the other in node-id order |
| `MaxEdits`, `MaxCopies` | 2, 2 | an acknowledged edit and one that disturbs it, or two that overlap; the starting repositories stand for what came before |
| `Runs`, `Passes` of `batch` | 2, 1 | one run obstructs, the other waits; concurrent passes are covered by the proofs, for any number |
| `BatchSize`, `MaxLog` | 2 for the code's 100, 4 | two full batches, or one and a partial one, foreign or owned |
| `MaxFaults` | 1 | a definition that breaks, or a pass that dies, at each point |
| `GuardTexts`, `MaxGuardDepth` | texts of at most 5 of 9 tokens, 3 for the code's 32 | each pair of operators, a parenthesis around a comparison; `not not not k` is beyond the limit |
| `Makers`, `Profiles` | 2, 2 | both find the same profile missing; one profile has a tier and one has not |
| `Flags` | one or none | one flag decides one guard and can be written by both branches |

**Fairness** (`FairSpec`): weak fairness of `Advance(p)` for each process,
because a hook starts a pass at each `kanban_complete` and each session start,
and a pass that has begun goes on until it is done, throws or dies; weak
fairness of `Complete(k)` for each card, because the host dispatches ready
cards to workers and re-dispatches the cards of lost ones until they close.
`Launch`, `Crash`, `CreateCardFails` and `GiveUp` are not fair: nothing has to
happen to make the run end.  `GiveUp` closes the card too, without a report.
`Advance` is fair per process, not per action: the code is sequential and in
each phase exactly one outcome is enabled, up to the choice of an edge among
equals and of the next branch.

`Reconciler` is fair to `Step(p)` of each process for the same reason: hooks start
passes again and again, and a pass that has begun goes on.  Launches, edits,
events and crashes are not fair.  `Authoring` and `Provisioning` claim safety only.

## 5. Where the code and its documents disagree

Each is a run TLC finds violated; `PROJECT.json` quotes the lines.

* **replay** (`NoDuplicateWork`): the attempt of an ordinary successor is
  "number of its rows plus one".  After a crash between that row and `save_run`
  the replay counts the row it wrote and creates a second card.
* **orphan** (`CursorCovers`): a branch finishes while its row is still unwritten;
  its event looks foreign, and the next owned event moves the cursor past it.
* **pause** (`PauseHolds`): `kanban_block` logs a terminal event for the human's
  card; the next pass handles it as the completion.
* **race** (`TerminalIsFinal`): `save_run` writes the whole row without comparing
  the cursor, so a slow pass revives a run that has ended.
* **loop** (`NoStall`): a fan-out always dispatches attempt 1, so a loop back to
  it finds the finished cards and waits for ever.  `sp-workflow.dot` has it.
* **board** (`ConfirmedBeforeAdvance`): an error payload of `kanban_create` becomes
  the task id `""` and the advance is recorded.

Five more were met without a run of their own.  `guard.py` closes a parenthesis
with *any* one-character operator (`consume("OP1")`), so texts that the grammar
in its own docstring excludes, such as `(a(`, are accepted; `GuardsDecide` is about
the sentences of the grammar.  `domain/run.py:33` says that the transitions of a
run's status are "enforced at the domain layer"; nothing compares the old
status with the new one (`MayBecome` of `RunContract` says what does hold).  And
SUCCEEDED asks only for the gate before EXIT: gates elsewhere may have failed and
been left by another branch.  A retry is filed under its target's name and numbered by
the gate's own attempt (`run_execution.py:473`, `:488`), so of two gates with one target
the second to fail asks for a card that has been used: the finished row is put back
and the run waits for ever, where `research.md:55` promises each retry "fresh task ids"
(`FreshRetry` is that promise; it is proved for structured pipelines).  And a failed gate's row
is PARTIAL, which a join takes for a finished branch (`:573`): a gate that sends its
branch back to another node does not hold the join, and the run may succeed before
the gate has passed.

`NoDuplicateWork` counts cards of a node against the failures that gates
reported, because a failed gate is the only thing that asks for work again in
the pipelines it is checked on; `CursorCovers` is stated with the rows, because a
row is what "applied" leaves behind.

## 6. What is proved

Each theorem holds for every value of the constants that satisfies the
assumptions of the modules it is about (types, attempts that start at 1 without
gaps, distinct node ranks, limits of at least 1, a batch size of at least 1,
finitely many names a definition may use, `Absent` and `Truncated` being no
definitions): what the dataclasses and `validate()` enforce.  The bounds on
crashes, errors, edits and copies are among the constants, so they bound nothing.

| Theorem | Conditions | Statement |
|---|---|---|
| `Justified`, `TypeCorrect` | | `Spec => []IInv`, `[]TypeOK` |
| `BarrierHolds`, `BlockedIsEarned`, `SuccessIsEarned`, `NothingUncaused` | | `Spec => []FanInBarrier`, `[]BlockedOnExhaustion`, `[]SucceededPastGate`, `[]WorkIsCaused` |
| `ContractHolds` | | `Spec => ImplementsContract`: `RunEngine` implements `RunContract` |
| `WorkIsEarned` | | `Spec => []WorkInv`: a card beyond the first of its node was numbered by counting rows or earned by a gate's failure |
| `NothingTwice` | no card numbered by counting rows | `Spec => []NoDuplicateWork` |
| `GateLimited` | gates not numbered so; who retries a gate allows no more tries than it does | `Spec => []GateWithinLimit` |
| `SoloCursorMonotone` | one process | `Spec => CursorMonotone` |
| `EveryEventApplied` | one process, no crash, no board error | `Spec /\ DoneStaysDone => []CursorCovers` |
| `OneTarget` | | the edges `select()` may return lead to the same node |
| `OneCardAtATime` | one process, `OneCard` | `Spec => []SeqInv(p)` |
| `NothingSkipped`, `NothingUndone`, `EndIsFinal` | one process, `OneCard` | `Spec => []CursorCovers`, `DoneStaysDone`, `TerminalIsFinal` |
| `NothingStalls` | one process, `OneCard`, `WaysOn` | `Spec => []NoStall` |
| `OneLineTogether` | `OneCard`, `Unguarded` | `Spec => []LineInv`, for any number of processes |
| `NothingStallsTogether` | `OneCard`, `Unguarded`, `WaysOn` | `Spec => []NoStall`, for any number of processes |
| `TokensMove` | undisturbed, `Structured` | `Spec => []Whole(p)` |
| `DoneForGood`, `EndsForGood`, `RetryIsFresh` | undisturbed, `Structured` | `Spec => DoneStaysDone`, `TerminalIsFinal`, `FreshRetry` |
| `AllApplied`, `NoCardTwice`, `MergesAll` | undisturbed, `Structured` | `Spec => []CursorCovers`, `[]NoDuplicateWork`, `[]MergeComplete` |
| `NeverStuck` | undisturbed, `Structured`, `WaysOn` | `Spec => []NoStall` |
| `TriesBounded` | undisturbed, `Structured`, `Unnested` | `Spec => []GateWithinLimit` |
| `PassesCover`, `CursorOwned`, `NothingPassedOver` | | `Reconciler`: `Spec => []RInv`, `[]CursorOwn`, `[]BatchesCover`, for any number of runs, passes and batches |
| `RaisesWhateverTheContext` | | a guard raises in every context or in none, at every length |
| `SentencesDecide` | | a sentence of the grammar is given its meaning, or raises if it is nested too deep |
| `ValidIsRunnable` | | a definition without issues is one that keeps a run inside (`RunsInside`) |
| `AuthoringInvariant`, `NoEditIsLost`, `CommitsAreComplete` | | `ASpec => []AInv`, `[]NoLostEdit`, `[]CommitIsComplete` |
| `ProvisioningInvariant`, `StoredBesideProvisioning` | | `PSpec => [](AInv /\ PInv)`, and the properties of edits beside provisioning |
| `AcceptedRuns`, `GuardsAlwaysDecide` | | `PSpec => []AcceptedIsRunnable`, `[]GuardsDecide` |
| `ProvisionedLaunches`, `ModelsAreComplete` | | `PSpec => []ProvisionedIsLaunchable`, `[]ModelsComplete` |
| `ErrorsLeaveTheFile` | | `PSpec => ErrorLeavesFile` |

**The conditions** are necessary in kind, and the runs show it.  Counting rows makes
a replay create a second card (`replay`).  A board error leaves a row that names no
task (`board`); `OneCard` therefore includes `MaxBoardErrors = 0`, but no bound on
crashes.  A loop through tools back to a card that exists stalls, as `loop` shows
for a fan-out, so `Ordered` asks for levels.  A crash or an overtaking pass between
a card and its row lets the cursor pass a foreign-looking event (`orphan`); there
the other branch's event moves it, which one card at a time excludes.  Two processes
revive an ended run (`race`), so `EndIsFinal` is about one.  With several and
*guards*, a pass that read an old context may route the same event elsewhere; that
is what `Unguarded` excludes.  `crash` and `two` check instances that meet the
conditions (`GatedIsSequential`, evaluated by TLC), `serial` one that meets those
of `EveryEventApplied` and of the structured pipelines (`ReviewIsStructured`).

**Undisturbed** is one process, no crash and no board error (`Undisturbed(p)`).  A
pipeline is **`Structured`** if it has levels that every edge climbs, except to an exit,
and threads: a fork leads from the main thread to branches, each branch ends at the
fork's one join, and only the main thread leads to an exit (`Threaded`, `Joined`).  The
only way back is a gate's retry, on the main thread, into a loop that is entered at
the target and left through the gate, nested or apart, no two with one target
(`Looped`).  A card that may be numbered 1 whatever cards its node has (after the
entry, a fork or a tool, or of a join) lies on no such loop, unless as its entry
(`OnceOnly`).  There are no humans.  Each part is there because the code fails without
it: a loop around a fork stalls (`loop`), and so do two gates with one target; a gate on
a branch lets the join run early (both in section 5); a human's card is
completed by its own pause (`pause`); with a crash, counted rows make a second card
(`replay`) and a foreign-looking event is lost (`orphan`).  `Unnested` is needed by
`TriesBounded` alone: a gate in a loop is reached again with each round of the outer
one, under the next attempt, and so may be given more cards than its policy allows.

### Execution

**Why an inductive invariant.**  None of the four safety properties is inductive:
a process decides, is delayed while others rewrite rows and run, and then
writes what it decided.  `IInv` therefore adds `Holds`: what a process has in
memory (the run it read, the run it will save, the cards it will create) is
justified by the *log*.  The log is the only state that no process can take
back: rows return to DISPATCHED, the run row is overwritten, but events stay.
So every justification is a statement about events, and the lemmas `Growing`
and `Kept` say that a longer log keeps it.  `DoneReported` links rows to events:
the fan-in looks at rows, so "its branches are done" yields "its branches have
reported" even from a stale row.

**The proof** has one lemma per action.  `DispatchStep` carries the eleven
planning actions: each has only to show that its cards and its saved row are
justified (`KeyCaused`, `SavedOpen`, `SavedSuccess`, `ExhaustedStep`,
`ReadyReported`).  `MemoryOnly` and `MemoryStep` carry the actions that touch only
one process, `Stable` those that leave the log alone.  `NextIInv` combines them.

**`SoloCursorMonotone`** needs a second invariant: with a single process, the run
it read is still the run stored, and the event in hand and all of its batch lie
beyond the cursor, in order.  It is false with two processes (`race` shows the
overwrite), so its hypothesis is `Procs = {p}`.

**`ContractHolds`** maps the board to the contract's `cards`, the log to its `reports`
and the stored status to its `status`; processes, rows and the cursor disappear.
The steps that only read or plan become stutters; a write becomes the contract's
step of that name, whose reason the process must still have when it writes, which
is what `IInv` says of the state it holds in memory.  What `IInv` lacks
is in `CInv`: a pause is stored, or held in memory, only after a node that leads to a
human has reported, what a process holds belongs to a run that has begun, and
the card it is about to block is a human's.

**`WorkInv`** says of every card, on the board or still in some process's memory, what
earned it.  A gate's failure is an event and stays; so a card's reason survives
crashes and other processes.  Distinct attempts of a node were then earned by
distinct failures, and counting them is `NothingTwice`.

**`EveryEventApplied`** is about every pipeline.  Between two passes of a reconciler
that nothing interrupts, every card has a row that names it (`Known`), so the batch
has no gap (`Gapless`), and the event in hand is always the first the cursor has not
passed (`Proceeds`).  What it cannot exclude is that a dispatch puts a finished row
back, which fan-outs and tools do in a loop; hence `DoneStaysDone` on its left, which
`serial` checks on its pipeline.

**One card at a time** (`SeqInv`).  On such a pipeline an event leads to one card,
`Succ`, because `OneTarget` makes the routing a function of event and context, and
to a card that comes later in the order `Before` (levels of nodes, then attempts).
So the cards of a run form a line (`OneLine`).  After a crash the board may be one
event and one card ahead of the saved cursor, but never more, and only with what the
replay of that one event will derive again (`Frontier`, `Recording`): it finds its
own card and row instead of making others, and puts no finished row back.  From this
follow all five theorems about a single process; `NothingStalls` needs besides that
some edge is always open, and that `select()` then finds one (`SomeSelected`: a
smallest set of candidates without a greatest would have a smaller one).

**Several processes** (`LineInv`).  The saved run is then no guide: passes overwrite it
with older cursors.  But where no edge has a condition, whoever processes an event,
with whatever context, derives the same card (`Follows`, `Steady`).  So every card
follows from the event before it, a process creates a missing card only at the end
of the line (`NewCardLast`), and each saved row, in the table or in memory, is of an
event whose successor the engine knows or the process is about to write
(`Settled`, `Extends`).  A run that is stored is therefore always one step behind a
card that is owned: it is either open, or its event is past the stored cursor.

**Branches** (`Whole`, in `Branching_proofs`).  The open work of an undisturbed run is a set
of *tokens* that move through the graph: one on the main thread, or at most one on
each branch of one fork, the others of that fork having reached the join's door.
`Tokens(q, c, T)` says that `T` are the nodes where a token stands and `c[n]` the number of
cards of `n`, and `Flow(c, T, f)`, which knows nothing of rows, cards or processes, what
can be true of them after `f` failures of gates: what lies behind a token was visited
and what lies ahead was not, unless a loop leads back (`Behind`); a gate and its target
were visited equally often, or the target once more if a token is in the loop (`Rounds`);
each visit beyond the first was paid for by a failure (`Paid`).  The first half of the
module proves that each kind of move keeps `Flow`: along an edge, into a fork, to a
join that waits or opens, back to a target, out at an exit.  The second half reads
tables and memory as tokens (`Tally`, `Here`, `Live`) and shows that each of the engine's
plans is one of these moves and that the writes that follow only carry it out.  The
numbers then agree: the card that is dispatched has number `c[n] + 1`, whether it was
found by counting rows, by the gate's own attempt, or is simply 1, so it is new, no
finished row is put back, and a card that is open has its token.  `MergesAll` needs one
part more, `MergedInto`: while the join's card is the latest thing that happened, the
saved context is the merge of its predecessors' answers.  `AllApplied` discharges the
hypothesis `DoneStaysDone` of `EveryEventApplied`.

### Reconciliation

`BatchesCover` is about the *stored* cursor, which several passes may move, each from
what it has read itself.  `RInv` adds, for each pass, that every own event up to its
*local* cursor has been processed or is in the batch it still holds.  A batch is
a prefix of what lies past the local cursor (`IsBatch`), so reading it keeps this;
taking events in id order makes it survive an exception in the middle of a
batch, because the stored cursor stays behind the event that raised.

### Definitions

`AInv` says what a call that has the disk to itself knows of it: what it will
store contains all that is owed and all it adds (`Keeps`); and, without an
interruption, until it writes, the file is what it found and so is the last
commit (`Traceless`).  Both are conditional on `~overlap`, so an overlapping call
has nothing to show, and a call that begins alone takes over from `Clean`, which
every call restores or never disturbed.  `ErrorLeavesFile` follows because an
undisturbed call only fails at the commit, and there only when what it wrote is
what it found.

`PInv` says that every profile a provisioning call was asked for is on the host,
or still on its list, or the one it is at (`Attended`).  Since no call removes a
profile, this survives any other call; when the list is empty it is the
acknowledgement.  From there `ProvisionedLaunches` needs that a node's profile is in
the list (`ResolvedHolds`) and that what a stylesheet resolves to is a profile
(`StyledTyped`: of the rules that select a node one is strongest, by
well-foundedness of the naturals).

A definition without issues keeps a run inside: a run is wherever a *closed* set of
nodes has to be (`RunsInside` takes the least), and the nodes without issues are such
a set; an exit ahead of each comes from the layers of the search that `validate` makes
backwards from the exit.

**Guards.**  A text has no bound on its length, and the provers have no induction over
data.  The proofs use the least counterexample of a set of numbers instead: `NatMin`
says that a set of naturals with an element has a least one, by the well-foundedness
of `<`, which the library states without an operator parameter.  A call of the parser
has a weight that falls with each call it makes (`RaisesWhateverTheContext`: the
lightest call whose outcome depends on the context calls nothing that does); a part
of a text has a size larger than the parts its meanings are made from
(`SentencesDecide`: the parser reads the smallest part it gets wrong as the grammar
says).  What is not a sentence is not the subject of `SentencesDecide`.

### Only model-checked

* `Termination`, `PassEnds` and `Served`: liveness is out of the prover's reach.
* `CursorCovers`, `NoStall`, `NoDuplicateWork`, `TerminalIsFinal`, `DoneStaysDone`,
  `MergeComplete` and `GateWithinLimit` outside the classes of pipelines and conditions
  of the table; where a run shows that one of them fails there, section 5 says so.

## 7. Reading the modules

`M.tla` is checked with `tlc -config X.cfg M` for the rows of section 3 (module
and cfg have the names in `PROJECT.json`), the proofs with `tlapm` on each of
`RunEngine_proofs`, `RunContract_proofs`, `RunWork_proofs`, `Sequential_proofs`,
`Branching_proofs`, `Reconciler_proofs`, `Authoring_proofs` and `Definition_proofs`.  A definition with the comment "Mutant" is never used by the
specification: it is a plausible wrong version of the definition below it, and the
property named with it in `PROJECT.json` fails when it takes that definition's place.

## 8. Not modelled, and the plan

What is left, in the order of its worth:

1. **Gates inside branches**: `RunEngine` takes the step section 5 tells of; a run about
   it, and a theorem for gates that retry themselves there, are worth having.
2. **A definition edited under a run**: each pass loads it anew.  `Reconciler` follows
   edits that break it; one that still parses but changes the graph would need
   the pipeline of `RunEngine` to be a variable.
3. **`Context.merge` with lists** and the `_merge_conflicts` note, and the edge cascade,
   as pure operators against reference definitions.
4. **Proofs**: structured pipelines with humans, once a pause keeps the human's card
   open; crashes on those whose keys a replay derives again, which needs the tokens of
   `Branching_proofs` and the frontier of `Sequential_proofs` at once; the two theorems
   about several processes with guards that no update can change.
5. **`add_edge`** stores an edge to a node that does not exist, where
   `specs/001-attractor-kanban/spec.md:103` asks for an error; the model does so too
   (and `validate` reports it), but no run is about it.

Left out for good: characters (the tokeniser, DOT, rendering, JSON envelopes,
schemas), which keep no state and decide no order; the confinement of names and
paths; the health and echo examples; the board, the workers, git, the host's
profiles and SQLite themselves, which appear only as this code uses them.
