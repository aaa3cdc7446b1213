------------------------------- MODULE RunEngine ------------------------------
(***************************************************************************)
(* Execution of one run: launch_run and advance_on_completion              *)
(* (use_cases/run_execution.py), driven by reconcile passes                *)
(* (use_cases/reconcile.py) of any number of processes: the post_tool_call *)
(* hook of each worker, the on_session_start hook and the CLI.             *)
(*                                                                         *)
(* Every call into the run-state database or the kanban board commits on   *)
(* its own, so each is a step, and steps of several processes interleave.  *)
(* A process keeps in memory what it has read; a crash loses exactly that. *)
(*                                                                         *)
(* The kanban board is external: create_card deduplicates by idempotency   *)
(* key run:node:attempt, so for one run a task is its key <<node, attempt>>*)
(* and a RunNode row names the task of its own key, or no task at all.     *)
(***************************************************************************)
EXTENDS Pipeline, Sequences

CONSTANTS Procs,          \* processes that may launch or reconcile
          Attempts,       \* bound: the attempt numbers 1..k modelled
          Answers,        \* what a worker of each node may report
          FailureKinds,   \* terminal kinds of workers that did not complete
          MaxFanOutWidth, \* MAX_FAN_OUT_WIDTH of domain/constants.py
          MaxCrashes,     \* bound: process crashes in one behaviour
          MaxBoardErrors, \* bound: kanban_create calls answered by an error
          NoKey, NoRow

Key == Nodes \X Attempts

Active   == {"RUNNING", "PAUSED_HUMAN"}
Terminal == {"SUCCEEDED", "FAILED", "BLOCKED"}

\* A row of plugin_runs; "NONE" is the absence of the row.
RunRow == [status : {"NONE"} \union Active \union Terminal,
           cursor : Nat, ctx : Contexts]
NoRun  == [status |-> "NONE", cursor |-> 0, ctx |-> [k \in Flags |-> FALSE]]

\* A row of plugin_run_nodes; card says whether its task_id names a task.
NodeRow == [status : {"DISPATCHED", "SUCCEEDED", "PARTIAL"},
            upd : Updates, card : BOOLEAN]

\* The metadata of a completion: the gate verdict ("fail" stands for every
\* verdict but an explicit pass), the preferred label, the suggested nodes
\* and the context updates.  An event without metadata reports BlankAnswer.
Answer == [verdict : {"pass", "fail"}, label : Labels \union {NoLabel},
           suggest : SUBSET Nodes, upd : Updates]
BlankAnswer == [verdict |-> "fail", label |-> NoLabel,
                suggest |-> {}, upd |-> NoUpdate]

TerminalKinds == {"completed", "blocked", "gave_up", "crashed", "timed_out"}
Event == [task : Key, kind : TerminalKinds, ans : Answer]

ASSUME EngineAssumption ==
    /\ Attempts \subseteq Nat \ {0}
    /\ \A a \in Attempts : 1..a \subseteq Attempts
    /\ 1 \in Attempts
    /\ Answers \in [Nodes -> SUBSET Answer]
    /\ FailureKinds \subseteq {"gave_up", "crashed", "timed_out"}
    /\ MaxFanOutWidth \in Nat
    /\ MaxCrashes \in Nat /\ MaxBoardErrors \in Nat
    /\ NoKey \notin Key /\ NoRow \notin NodeRow

VARIABLES run,      \* the plugin_runs row
          rows,     \* plugin_run_nodes by key
          tasks,    \* the board: state of the task of each key
          log,      \* task_events: the terminal events in id order
          procs,    \* the processes
          crashes, boardErrors

store == <<run, rows>>
board == <<tasks, log>>
faults == <<crashes, boardErrors>>
vars == <<run, rows, tasks, log, procs, crashes, boardErrors>>

(***************************************************************************)
(* A process: what it is doing; the owned events of its batch still to     *)
(* process and the one in hand; the run as get_run returned it; then the   *)
(* rest of the advance: cards to create, the card created last with its    *)
(* row still to write, a card to block, and the run row to save last.      *)
(***************************************************************************)
Proc == [phase : {"idle", "read", "mark", "plan", "write"},
         batch : SUBSET Nat, evt : Nat, snap : RunRow,
         todo : SUBSET Key, cur : Key \union {NoKey}, got : BOOLEAN,
         block : Key \union {NoKey}, save : RunRow]

IdleProc == [phase |-> "idle", batch |-> {}, evt |-> 0, snap |-> NoRun,
             todo |-> {}, cur |-> NoKey, got |-> FALSE, block |-> NoKey,
             save |-> NoRun]

Init ==
    /\ run = NoRun
    /\ rows = [k \in Key |-> NoRow]
    /\ tasks = [k \in Key |-> "none"]
    /\ log = << >>
    /\ procs = [p \in Procs |-> IdleProc]
    /\ crashes = 0
    /\ boardErrors = 0

-----------------------------------------------------------------------------
\* Mutant: any edge counts as an entry.
EntryKeysAnywhere(ctx) ==
    {<<e.dst, 1>> : e \in {d \in Edges : Shape[d.dst] \notin {"START", "EXIT"}}}

(***************************************************************************)
(* launch_run: the run row is created RUNNING, then the entry card and its *)
(* row are written.  An entry of any shape but START and EXIT gets an      *)
(* ordinary card.                                                          *)
(***************************************************************************)
EntryKeys(ctx) ==
    {<<e.dst, 1>> : e \in {d \in Out(Start) :
         /\ IsSelected(d, Out(Start), ctx, NoLabel, {})
         /\ Shape[d.dst] \notin {"START", "EXIT"}}}

Launch(p) ==
    /\ run.status = "NONE"
    /\ procs[p].phase = "idle"
    /\ \E ctx \in Contexts :
         /\ run' = [status |-> "RUNNING", cursor |-> 0, ctx |-> ctx]
         /\ procs' = [procs EXCEPT ![p] =
                [IdleProc EXCEPT !.phase = "write", !.todo = EntryKeys(ctx)]]
    /\ UNCHANGED <<rows, board, faults>>

(***************************************************************************)
(* A reconcile pass: an active run, the events past its stored cursor, and *)
(* of these the ones whose task a RunNode row already names.  The batch is *)
(* fixed here; the log stays below EVENT_LOG_BATCH_SIZE, so one read       *)
(* returns it all and the pass ends with it.  A pass with nothing to do    *)
(* changes nothing and is not a step.                                      *)
(***************************************************************************)
Owned(k) == IF rows[k] = NoRow THEN FALSE ELSE rows[k].card

\* Mutants of Unseen: the first event past the cursor is missed; the stored
\* cursor is not used.
UnseenOffByOne == {i \in 1..Len(log) : i > run.cursor + 1 /\ Owned(log[i].task)}
UnseenAll == {i \in 1..Len(log) : Owned(log[i].task)}

Unseen == {i \in 1..Len(log) : i > run.cursor /\ Owned(log[i].task)}

BeginPass(p) ==
    /\ procs[p].phase = "idle"
    /\ run.status \in Active
    /\ Unseen # {}
    /\ procs' = [procs EXCEPT ![p] =
           [IdleProc EXCEPT !.phase = "read", !.batch = Unseen]]
    /\ UNCHANGED <<store, board, faults>>

\* Mutant: the newest event first.
NewestEvent(p, i) == i \in procs[p].batch /\ \A j \in procs[p].batch : i >= j

(***************************************************************************)
(* advance_on_completion, the reads: the next event of the batch in id     *)
(* order, and the run as it is now.  The run's status is not looked at     *)
(* again, nor is the kind of the event.                                    *)
(***************************************************************************)
NextEvent(p, i) == i \in procs[p].batch /\ \A j \in procs[p].batch : i <= j

ReadRun(p) ==
    /\ procs[p].phase = "read"
    /\ \E i \in procs[p].batch :
         /\ NextEvent(p, i) /\ Owned(log[i].task)
         /\ procs' = [procs EXCEPT ![p] =
                [procs[p] EXCEPT !.phase = "mark", !.batch = @ \ {i},
                                 !.evt = i, !.snap = run]]
    /\ UNCHANGED <<store, board, faults>>

\* The rest of a batch: an empty one ends the pass.
Continue(batch) == IF batch = {} THEN IdleProc
                   ELSE [IdleProc EXCEPT !.phase = "read", !.batch = batch]

\* The row has lost its task since the batch was fixed: the event is ignored.
SkipEvent(p) ==
    /\ procs[p].phase = "read"
    /\ \E i \in procs[p].batch :
         /\ NextEvent(p, i) /\ ~Owned(log[i].task)
         /\ procs' = [procs EXCEPT ![p] = Continue(@.batch \ {i})]
    /\ UNCHANGED <<store, board, faults>>

EventOf(p)  == log[procs[p].evt]
NodeOf(p)   == EventOf(p).task[1]
AnswerOf(p) == EventOf(p).ans

\* Mutant: the verdict is not looked at.
GatePassedAlways(p) == TRUE

\* _gate_verdict_pass: only a gate can fail, and it passes only explicitly.
GatePassed(p) == NodeOf(p) \in Gates => AnswerOf(p).verdict = "pass"

\* The completed node's row: SUCCEEDED, or PARTIAL for a gate that failed,
\* with the context updates kept for a later fan-in.
MarkNode(p) ==
    /\ procs[p].phase = "mark"
    /\ rows' = [rows EXCEPT ![EventOf(p).task] =
           [status |-> IF GatePassed(p) THEN "SUCCEEDED" ELSE "PARTIAL",
            upd |-> AnswerOf(p).upd, card |-> TRUE]]
    /\ procs' = [procs EXCEPT ![p].phase = "plan"]
    /\ UNCHANGED <<run, board, faults>>

-----------------------------------------------------------------------------
(***************************************************************************)
(* Routing.  Each Plan action below is one outcome of the handler's        *)
(* decision: the cards to dispatch, the card to block, and the run row     *)
(* that is saved after everything else, with the event's id as cursor.     *)
(***************************************************************************)
\* run.context after the updates of a node that feeds no fan-in.
CtxOf(p) == IF FeedsFanIn(NodeOf(p)) THEN procs[p].snap.ctx
            ELSE Apply(procs[p].snap.ctx, AnswerOf(p).upd)

\* Mutants of Saved: the cursor jumps to the end of the log; it is not moved.
SavedAtLogEnd(p, status, ctx) ==
    [status |-> status, cursor |-> Len(log), ctx |-> ctx]
SavedBehind(p, status, ctx) ==
    [status |-> status, cursor |-> procs[p].snap.cursor, ctx |-> ctx]

Saved(p, status, ctx) ==
    [status |-> status, cursor |-> procs[p].evt, ctx |-> ctx]

\* Mutant: a paused run becomes pending instead of running.
ResumedPending(status) == IF status = "PAUSED_HUMAN" THEN "PENDING" ELSE status

\* The status of the final save: a paused run resumes.
Resumed(status) == IF status = "PAUSED_HUMAN" THEN "RUNNING" ELSE status

Hint(p) == IF NodeOf(p) \notin Gates THEN AnswerOf(p).label
           ELSE IF GatePassed(p) THEN "pass" ELSE "fail"

\* The edges select() may return out of the completed node.
NextEdges(p) ==
    {e \in Out(NodeOf(p)) :
        IsSelected(e, Out(NodeOf(p)), CtxOf(p), Hint(p), AnswerOf(p).suggest)}

\* The edges select() may return out of a TOOL node, without any hint.
ToolEdges(t, ctx) ==
    {e \in Out(t) : IsSelected(e, Out(t), ctx, NoLabel, {})}

\* len([rows of n]) + 1, read before the card is created.
NextAttempt(n) ==
    Cardinality({a \in Attempts : rows[<<n, a>>] # NoRow}) + 1

\* The rest of the advance.  Bound: attempts outside Attempts are not taken.
Dispatch(p, keys, blocked, saved) ==
    /\ keys \subseteq Key
    /\ procs' = [procs EXCEPT ![p] =
           [procs[p] EXCEPT !.phase = "write", !.todo = keys,
                            !.block = blocked, !.save = saved]]
    /\ UNCHANGED <<store, board, faults>>

\* Fan-out and the gate's retry come before edge selection.
Planning(p) == procs[p].phase = "plan"
IsFanOut(p) == Shape[NodeOf(p)] = "FAN_OUT"
Routing(p)  == Planning(p) /\ ~IsFanOut(p) /\ GatePassed(p)

TooWide(p) == Cardinality(Out(NodeOf(p))) > MaxFanOutWidth

\* Every branch is dispatched as attempt 1, whatever rows it already has.
PlanFanOut(p) ==
    /\ Planning(p) /\ IsFanOut(p) /\ ~TooWide(p)
    /\ Dispatch(p, {<<e.dst, 1>> : e \in Out(NodeOf(p))}, NoKey,
                Saved(p, procs[p].snap.status, CtxOf(p)))

\* The exception ends the whole pass; the cursor stays.
PlanTooWide(p) ==
    /\ Planning(p) /\ IsFanOut(p) /\ TooWide(p)
    /\ procs' = [procs EXCEPT ![p] = IdleProc]
    /\ UNCHANGED <<store, board, faults>>

\* A failed gate: its own attempt number decides, so a replay agrees.
GateFailed(p) == Planning(p) /\ ~IsFanOut(p) /\ ~GatePassed(p)

\* Mutant: the gate's own attempt again.
SameTry(p) == EventOf(p).task[2]

NextTry(p) == EventOf(p).task[2] + 1

\* Mutants of Exhausted: one try too many; one too few.
ExhaustedLate(p) == NextTry(p) > GateLimit[NodeOf(p)] + 1
ExhaustedEarly(p) == NextTry(p) >= GateLimit[NodeOf(p)]

Exhausted(p) == NextTry(p) > GateLimit[NodeOf(p)]

PlanExhausted(p) ==
    /\ GateFailed(p) /\ Exhausted(p)
    /\ Dispatch(p, {}, NoKey, Saved(p, "BLOCKED", CtxOf(p)))

\* Mutant: the attempt counted from the target's rows, as for other cards.
RetryKeyCounted(p) ==
    <<RetryTarget[NodeOf(p)], NextAttempt(RetryTarget[NodeOf(p)])>>

\* The card of a retry: the target, numbered after the gate's attempt.
RetryKey(p) == <<RetryTarget[NodeOf(p)], NextTry(p)>>

PlanRetry(p) ==
    /\ GateFailed(p) /\ ~Exhausted(p)
    /\ Dispatch(p, {RetryKey(p)}, NoKey,
                Saved(p, procs[p].snap.status, CtxOf(p)))

PlanNoEdge(p) ==
    /\ Routing(p)
    /\ NextEdges(p) = {}
    /\ Dispatch(p, {}, NoKey,
                Saved(p, Resumed(procs[p].snap.status), CtxOf(p)))

PlanCard(p) ==
    /\ Routing(p)
    /\ \E e \in NextEdges(p) :
         /\ Shape[e.dst] \in CardShapes
         /\ Dispatch(p, {<<e.dst, NextAttempt(e.dst)>>}, NoKey,
                     Saved(p, Resumed(procs[p].snap.status), CtxOf(p)))

PlanHuman(p) ==
    /\ Routing(p)
    /\ \E e \in NextEdges(p) :
         /\ Shape[e.dst] = "HUMAN"
         /\ LET k == <<e.dst, NextAttempt(e.dst)>>
            IN  Dispatch(p, {k}, k, Saved(p, "PAUSED_HUMAN", CtxOf(p)))

\* No check of other branches or gates: the run is over.
PlanExit(p) ==
    /\ Routing(p)
    /\ \E e \in NextEdges(p) :
         /\ Shape[e.dst] = "EXIT"
         /\ Dispatch(p, {}, NoKey, Saved(p, "SUCCEEDED", CtxOf(p)))

(***************************************************************************)
(* Fan-in: dispatched once the latest attempt of every predecessor is      *)
(* done; until then only the cursor moves.                                 *)
(***************************************************************************)
IsLatest(n, a) ==
    /\ rows[<<n, a>>] # NoRow
    /\ \A b \in Attempts : b > a => rows[<<n, b>>] = NoRow

BranchDone(n) ==
    \E a \in Attempts :
        IsLatest(n, a) /\ rows[<<n, a>>].status \in {"SUCCEEDED", "PARTIAL"}

\* Mutant: one finished branch is enough.
FanInReadyAny(f) == \E n \in Predecessors(f) : BranchDone(n)

FanInReady(f) == \A n \in Predecessors(f) : BranchDone(n)

\* Context.merge over the predecessors' latest updates in node-id order:
\* of several branches that write a key the last in that order wins.
Wrote(n, k) ==
    \E a \in Attempts : IsLatest(n, a) /\ k \in DOMAIN rows[<<n, a>>].upd
WroteTrue(n, k) ==
    \E a \in Attempts : /\ IsLatest(n, a)
                        /\ k \in DOMAIN rows[<<n, a>>].upd
                        /\ rows[<<n, a>>].upd[k]
\* Mutant: the first writer wins.
MergedFirst(ctx, f) ==
    [k \in Flags |->
       LET W == {n \in Predecessors(f) : Wrote(n, k)}
       IN  IF W = {} THEN ctx[k]
           ELSE \E n \in W : WroteTrue(n, k) /\ \A m \in W : Rank[m] >= Rank[n]]

Merged(ctx, f) ==
    [k \in Flags |->
       LET W == {n \in Predecessors(f) : Wrote(n, k)}
       IN  IF W = {} THEN ctx[k]
           ELSE \E n \in W : WroteTrue(n, k) /\ \A m \in W : Rank[m] <= Rank[n]]

PlanWait(p) ==
    /\ Routing(p)
    /\ \E e \in NextEdges(p) :
         /\ Shape[e.dst] = "FAN_IN" /\ ~FanInReady(e.dst)
         /\ Dispatch(p, {}, NoKey,
                     Saved(p, procs[p].snap.status, procs[p].snap.ctx))

PlanFanIn(p) ==
    /\ Routing(p)
    /\ \E e \in NextEdges(p) :
         /\ Shape[e.dst] = "FAN_IN" /\ FanInReady(e.dst)
         /\ Dispatch(p, {<<e.dst, 1>>}, NoKey,
                     Saved(p, Resumed(procs[p].snap.status),
                           Merged(CtxOf(p), e.dst)))

(***************************************************************************)
(* A TOOL node runs inline.  The reconcile path passes no registry, so the *)
(* tool is a no-op on the context; then its own edge is followed at once.  *)
(***************************************************************************)
PlanTool(p) ==
    /\ Routing(p)
    /\ \E e \in NextEdges(p) :
         /\ Shape[e.dst] = "TOOL"
         /\ \/ \E t \in ToolEdges(e.dst, CtxOf(p)) :
                 /\ Shape[t.dst] = "EXIT"
                 /\ Dispatch(p, {}, NoKey, Saved(p, "SUCCEEDED", CtxOf(p)))
            \/ \E t \in ToolEdges(e.dst, CtxOf(p)) :
                 /\ Shape[t.dst] \in CardShapes
                 /\ Dispatch(p, {<<t.dst, 1>>}, NoKey,
                             Saved(p, procs[p].snap.status, CtxOf(p)))
            \/ /\ \A t \in ToolEdges(e.dst, CtxOf(p)) :
                    Shape[t.dst] \in {"TOOL", "HUMAN", "FAN_IN"}
               /\ Dispatch(p, {}, NoKey,
                           Saved(p, procs[p].snap.status, CtxOf(p)))

Plan(p) ==
    \/ PlanFanOut(p) \/ PlanTooWide(p) \/ PlanExhausted(p) \/ PlanRetry(p)
    \/ PlanNoEdge(p) \/ PlanCard(p) \/ PlanHuman(p) \/ PlanExit(p)
    \/ PlanWait(p) \/ PlanFanIn(p) \/ PlanTool(p)

-----------------------------------------------------------------------------
(***************************************************************************)
(* The durable writes, in the handler's order: each card, then its row;    *)
(* then the block of a human card; the run row last.                       *)
(***************************************************************************)
Writing(p) == procs[p].phase = "write"

\* Mutant: the call carries no idempotency key, so a card that exists is made
\* anew.
CreateCardAnew(p) ==
    /\ Writing(p) /\ procs[p].cur = NoKey
    /\ \E k \in procs[p].todo :
         /\ tasks' = [tasks EXCEPT ![k] = "open"]
         /\ procs' = [procs EXCEPT ![p] =
                [procs[p] EXCEPT !.todo = @ \ {k}, !.cur = k, !.got = TRUE]]
    /\ UNCHANGED <<store, log, faults>>

CreateCard(p) ==
    /\ Writing(p) /\ procs[p].cur = NoKey
    /\ \E k \in procs[p].todo :
         /\ tasks' = [tasks EXCEPT ![k] = IF @ = "none" THEN "open" ELSE @]
         /\ procs' = [procs EXCEPT ![p] =
                [procs[p] EXCEPT !.todo = @ \ {k}, !.cur = k, !.got = TRUE]]
    /\ UNCHANGED <<store, log, faults>>

\* kanban_create answers with an error payload: create_card returns "".
CreateCardFails(p) ==
    /\ Writing(p) /\ procs[p].cur = NoKey
    /\ boardErrors < MaxBoardErrors
    /\ boardErrors' = boardErrors + 1
    /\ \E k \in procs[p].todo :
         procs' = [procs EXCEPT ![p] =
                [procs[p] EXCEPT !.todo = @ \ {k}, !.cur = k, !.got = FALSE]]
    /\ UNCHANGED <<store, board, crashes>>

UpsertRow(p) ==
    /\ Writing(p) /\ procs[p].cur # NoKey
    /\ rows' = [rows EXCEPT ![procs[p].cur] =
           [status |-> "DISPATCHED", upd |-> NoUpdate, card |-> procs[p].got]]
    /\ procs' = [procs EXCEPT ![p] =
           [procs[p] EXCEPT !.cur = NoKey, !.got = FALSE]]
    /\ UNCHANGED <<run, board, faults>>

Dispatched(p) == Writing(p) /\ procs[p].cur = NoKey /\ procs[p].todo = {}

\* kanban_block takes a card that is not closed off the workers' queue and
\* logs a terminal event; on any other card it changes nothing.
BlockCard(p) ==
    /\ Dispatched(p) /\ procs[p].block # NoKey
    /\ IF tasks[procs[p].block] = "open"
       THEN /\ tasks' = [tasks EXCEPT ![procs[p].block] = "blocked"]
            /\ log' = Append(log, [task |-> procs[p].block, kind |-> "blocked",
                                   ans |-> BlankAnswer])
       ELSE UNCHANGED board
    /\ procs' = [procs EXCEPT ![p].block = NoKey]
    /\ UNCHANGED <<store, faults>>

\* save_run overwrites the whole row; the pass goes on with its batch.
SaveRun(p) ==
    /\ Dispatched(p) /\ procs[p].block = NoKey /\ procs[p].save # NoRun
    /\ run' = procs[p].save
    /\ procs' = [procs EXCEPT ![p] = Continue(@.batch)]
    /\ UNCHANGED <<rows, board, faults>>

\* launch_run returns without another save.
LaunchReturns(p) ==
    /\ Dispatched(p) /\ procs[p].save = NoRun
    /\ procs' = [procs EXCEPT ![p] = IdleProc]
    /\ UNCHANGED <<store, board, faults>>

Write(p) == CreateCard(p) \/ CreateCardFails(p) \/ UpsertRow(p)
            \/ BlockCard(p) \/ SaveRun(p) \/ LaunchReturns(p)

-----------------------------------------------------------------------------
\* The process dies, or an exception of the database or the board ends it.
Crash(p) ==
    /\ procs[p].phase # "idle"
    /\ crashes < MaxCrashes
    /\ crashes' = crashes + 1
    /\ procs' = [procs EXCEPT ![p] = IdleProc]
    /\ UNCHANGED <<store, board, boardErrors>>

(***************************************************************************)
(* The board (external): a worker, or the human of a blocked card, closes  *)
(* a task once, with a report or, if the worker failed, without one.       *)
(***************************************************************************)
Finish(k, kind, ans) ==
    /\ tasks' = [tasks EXCEPT ![k] = "done"]
    /\ log' = Append(log, [task |-> k, kind |-> kind, ans |-> ans])
    /\ UNCHANGED <<store, procs, faults>>

Complete(k) ==
    /\ tasks[k] \in {"open", "blocked"}
    /\ \E ans \in Answers[k[1]] : Finish(k, "completed", ans)

GiveUp(k) ==
    /\ tasks[k] = "open"
    /\ \E kind \in FailureKinds : Finish(k, kind, BlankAnswer)

Advance(p) == \/ BeginPass(p) \/ ReadRun(p) \/ SkipEvent(p) \/ MarkNode(p)
              \/ Plan(p) \/ Write(p)

Next ==
    \/ \E p \in Procs : Launch(p) \/ Advance(p) \/ Crash(p)
    \/ \E k \in Key : Complete(k) \/ GiveUp(k)

Spec == Init /\ [][Next]_vars
=============================================================================
