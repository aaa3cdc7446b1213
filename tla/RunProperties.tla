----------------------------- MODULE RunProperties ----------------------------
(***************************************************************************)
(* What the execution of a run promises.  Which property holds under which *)
(* conditions (one reconciler or several, crashes, board errors) is the    *)
(* subject of the MC modules.                                              *)
(***************************************************************************)
EXTENDS RunEngine

\* Every variable has its type: the tables keep their shape, and a process
\* only ever holds keys and rows the tables could hold.
TypeOK ==
    /\ run \in RunRow
    /\ rows \in [Key -> NodeRow \union {NoRow}]
    /\ tasks \in [Key -> {"none", "open", "blocked", "done"}]
    /\ log \in Seq(Event)
    /\ procs \in [Procs -> Proc]
    /\ crashes \in 0..MaxCrashes
    /\ boardErrors \in 0..MaxBoardErrors

-----------------------------------------------------------------------------
Done(k) == IF rows[k] = NoRow THEN FALSE
           ELSE rows[k].status \in {"SUCCEEDED", "PARTIAL"}

EventsOf(k) == {i \in 1..Len(log) : log[i].task = k}

Quiet == \A p \in Procs : procs[p].phase = "idle"

\* launch_run has written the entry node's row.
Launched == \E k \in Key : rows[k] # NoRow

GateFailures == {i \in 1..Len(log) : /\ log[i].task[1] \in Gates
                                     /\ log[i].ans.verdict = "fail"}

\* No stall: an active run with nobody working on it and no event left to
\* process has a card that a worker or a human can still finish and whose
\* completion the engine will recognise as its own.
NoStall ==
    run.status \in Active /\ Launched /\ Quiet /\ Unseen = {} =>
        \E k \in Key : tasks[k] \in {"open", "blocked"} /\ Owned(k)

\* No event is skipped: whatever the persisted cursor has passed has been
\* applied to the row of its node (event_log.py: "every event at or below
\* the final cursor is guaranteed to be processed").
CursorCovers == \A i \in 1..run.cursor : Done(log[i].task)

\* Completed nodes are not executed again: beyond its first card a node gets
\* at most one more card for each failure that a goal gate reported.
NoDuplicateWork ==
    \A n \in Nodes :
        LET cards == {a \in Attempts : tasks[<<n, a>>] # "none"}
        IN  cards # {} => Cardinality(cards) <= 1 + Cardinality(GateFailures)

\* The fan-in barrier: the first card of a join exists only after an event of every
\* one of its branches.
BranchesReported(f) ==
    \A n \in Predecessors(f) : \E b \in Attempts : EventsOf(<<n, b>>) # {}
FanInBarrier ==
    \A k \in Key : tasks[k] # "none" /\ Join(k) => BranchesReported(k[1])

\* The merge: the context saved with a join's dispatch holds, for every key
\* some branch wrote, the value of the last of its writers in node-id order.
\* (Stated while the join's card is still the latest thing that happened.)
LastWriter(f, k) ==
    {n \in Predecessors(f) :
        /\ \E i \in EventsOf(<<n, 1>>) : k \in DOMAIN log[i].ans.upd
        /\ \A m \in Predecessors(f) :
              (\E i \in EventsOf(<<m, 1>>) : k \in DOMAIN log[i].ans.upd)
                  => Rank[m] <= Rank[n]}
MergeComplete ==
    \A f \in Nodes : \A k \in Flags : \A n \in LastWriter(f, k) :
        /\ Join(<<f, 1>>) /\ Quiet /\ run.status \in Active
        /\ tasks[<<f, 1>>] = "open"
        => \A i \in EventsOf(<<n, 1>>) : run.ctx[k] = log[i].ans.upd[k]

\* A run is BLOCKED only after a goal gate failed on its last attempt.
GateExhausted ==
    \E i \in GateFailures : log[i].task[2] >= GateLimit[log[i].task[1]]
BlockedOnExhaustion == run.status = "BLOCKED" => GateExhausted

\* A run SUCCEEDED only because a node with a way to EXIT reported, and if
\* that node is a goal gate, because it passed (FR-009).
ExitReached ==
    \E i \in 1..Len(log) :
        /\ EndsAt(log[i].task[1])
        /\ log[i].task[1] \in Gates => log[i].ans.verdict = "pass"
SucceededPastGate == run.status = "SUCCEEDED" => ExitReached

\* No gate is ever tried more often than its policy allows.
GateWithinLimit ==
    \A g \in Gates : \A a \in Attempts :
        tasks[<<g, a>>] # "none" => a <= GateLimit[g]

\* Nothing is dispatched out of nowhere: besides the entry, a card exists only
\* after an event of a node from which the graph or a gate's retry leads to it.
Caused(n) ==
    \/ \E e \in Out(Start) : e.dst = n
    \/ \E i \in 1..Len(log) : LeadsTo(log[i].task[1], n)
WorkIsCaused == \A k \in Key : tasks[k] # "none" => Caused(k[1])

(***************************************************************************)
(* The inductive invariant behind the four properties above: a process may *)
(* be delayed for any time, or overtaken by others, between deciding and   *)
(* writing, so what it holds in memory has to be justified by the log too. *)
(***************************************************************************)
KeyJustified(k) == Caused(k[1]) /\ (Join(k) => BranchesReported(k[1]))

RowJustified(r) == /\ r.status = "BLOCKED" => GateExhausted
                   /\ r.status = "SUCCEEDED" => ExitReached

\* A process works on events of the log, and what it is about to write is
\* justified.
Holds(q) ==
    /\ q.batch \subseteq 1..Len(log)
    /\ q.phase \in {"mark", "plan"} => q.evt \in 1..Len(log)
    /\ RowJustified(q.snap) /\ RowJustified(q.save)
    /\ \A k \in Key : k \in q.todo \/ k = q.cur => KeyJustified(k)

\* No row is finished without an event of its task.
DoneReported == \A k \in Key : Done(k) => EventsOf(k) # {}

\* What holds in every reachable state, for any number of processes, crashes
\* and board errors: decisions in memory and rows in the database are
\* justified by the events that were reported.
IInv ==
    /\ TypeOK
    /\ \A p \in Procs : Holds(procs[p])
    /\ DoneReported
    /\ BlockedOnExhaustion /\ SucceededPastGate
    /\ WorkIsCaused /\ FanInBarrier

-----------------------------------------------------------------------------
(***************************************************************************)
(* The engine implements the contract.  An event reports for its card, and *)
(* passes only with an explicit verdict; what else it says, and where in   *)
(* the log it stands, the contract does not see.                           *)
(***************************************************************************)
Reports == {[card |-> log[i].task, pass |-> log[i].ans.verdict = "pass"] :
               i \in 1..Len(log)}

Contract == INSTANCE RunContract
            WITH status <- run.status, cards <- tasks, reports <- Reports

\* Every step of every process, fault and worker is a step of the contract or
\* invisible to it: cards are created once and for a reason, only a human's card
\* is suspended, each is closed once, and the status follows the reports.
ImplementsContract == Contract!Spec

-----------------------------------------------------------------------------
\* The replay cursor never moves back.
CursorMonotone == [][run'.cursor >= run.cursor]_vars

\* The end of a run is final: no process overwrites a terminal row.
TerminalIsFinal == [][run.status \in Terminal => run' = run]_vars

\* Work that is recorded as done is never put back to DISPATCHED.
DoneStaysDone == [][\A k \in Key : Done(k) => Done(k)']_vars

\* A retry is new work (research.md, D4: "a new acyclic DAG segment with fresh task
\* ids"): the card that a failed gate asks for does not exist yet, though its number
\* is the gate's own and not the target's.
NewCard == \A p \in Procs : PlanRetry(p) => tasks[RetryKey(p)] = "none"
FreshRetry == [][NewCard]_vars

\* A paused run waits for the human: it leaves PAUSED_HUMAN only if the card
\* of a HUMAN node has been completed.
PauseHolds ==
    [][run.status = "PAUSED_HUMAN" /\ run'.status # "PAUSED_HUMAN" =>
          \E k \in Key : Shape[k[1]] = "HUMAN" /\ tasks[k] = "done"]_vars

\* No advance is recorded before its cards are confirmed: when the cursor moves,
\* every row names a task of the board.
ConfirmedBeforeAdvance ==
    [][run'.cursor > run.cursor =>
          \A k \in Key : rows[k] # NoRow => Owned(k)]_vars

\* Every run that has been launched comes to an end.
Termination == Launched ~> run.status \in Terminal

(***************************************************************************)
(* Fairness.  Workers finish their cards and the board records it; a       *)
(* reconcile pass eventually starts when there is something to do (the     *)
(* hooks fire on every kanban_complete and every session start), and a     *)
(* process that has started goes on until it is done or crashes.  Launches *)
(* and faults are not fair.                                                *)
(***************************************************************************)
Fairness ==
    /\ \A p \in Procs : WF_vars(Advance(p))
    /\ \A k \in Key : WF_vars(Complete(k))

FairSpec == Spec /\ Fairness
=============================================================================
