---------------------------- MODULE RunEngine_proofs --------------------------
(***************************************************************************)
(* Theorems about RunEngine for every pipeline, number of processes and    *)
(* number of faults.                                                       *)
(***************************************************************************)
EXTENDS RunProperties, TLAPS

-----------------------------------------------------------------------------
(***************************************************************************)
(* Operators of the model return values of their type.                     *)
(***************************************************************************)
\* Applying updates to a context gives a context (Context.apply).
LEMMA ApplyType ==
    ASSUME NEW ctx \in Contexts, NEW upd \in Updates
    PROVE  Apply(ctx, upd) \in Contexts
<1>1. PICK S \in SUBSET Flags : upd \in [S -> BOOLEAN]
  BY DEF Updates
<1>2. \A k \in Flags : (IF k \in DOMAIN upd THEN upd[k] ELSE ctx[k]) \in BOOLEAN
  BY <1>1 DEF Contexts
<1> QED
  BY <1>2 DEF Apply, Contexts

\* Merging the branches of a fan-in gives a context (Context.merge).
LEMMA MergedType ==
    ASSUME NEW ctx \in Contexts, NEW f
    PROVE  Merged(ctx, f) \in Contexts
<1> DEFINE W(k) == {n \in Predecessors(f) : Wrote(n, k)}
           Val(k) == IF W(k) = {} THEN ctx[k]
                     ELSE \E n \in W(k) : /\ WroteTrue(n, k)
                                          /\ \A m \in W(k) : Rank[m] <= Rank[n]
<1>1. \A k \in Flags : ctx[k] \in BOOLEAN
  BY DEF Contexts
<1>2. \A k \in Flags : Val(k) \in BOOLEAN
  BY <1>1, Zenon
<1>3. Merged(ctx, f) = [k \in Flags |-> Val(k)]
  BY DEF Merged
<1> HIDE DEF Val
<1> QED
  BY <1>2, <1>3 DEF Contexts

\* The absent row, the empty updates and the blank report have their types.
LEMMA BlankTypes ==
    /\ NoRun \in RunRow
    /\ NoUpdate \in Updates
    /\ BlankAnswer \in Answer
<1>1. NoRun \in RunRow
  BY DEF NoRun, RunRow, Contexts
<1>2. NoUpdate \in Updates
  BY DEF NoUpdate, Updates
<1> QED
  BY <1>1, <1>2 DEF BlankAnswer, Answer

\* An idle process has the type of a process, and holds nothing.
LEMMA IdleType == IdleProc \in Proc
  BY BlankTypes DEF IdleProc, Proc

LEMMA IdleHolds == Holds(IdleProc)
  BY EngineAssumption DEF Holds, IdleProc, NoRun, RowJustified

-----------------------------------------------------------------------------
(***************************************************************************)
(* The log only grows, so what it justifies stays justified.               *)
(***************************************************************************)
LogGrows == /\ log' \in Seq(Event)
            /\ Len(log) <= Len(log')
            /\ \A i \in 1..Len(log) : log'[i] = log[i]

\* Every step keeps the log or appends one event.
LEMMA Growing ==
    ASSUME log \in Seq(Event),
           log' = log \/ \E e \in Event : log' = Append(log, e)
    PROVE  LogGrows
<1>1. CASE log' = log
  BY <1>1 DEF LogGrows
<1>2. CASE \E e \in Event : log' = Append(log, e)
  BY <1>2 DEF LogGrows
<1> QED
  BY <1>1, <1>2

LEMMA Kept ==
    ASSUME log \in Seq(Event), LogGrows
    PROVE  /\ GateExhausted => GateExhausted'
           /\ ExitReached => ExitReached'
           /\ \A n : Caused(n) => Caused(n)'
           /\ \A k : EventsOf(k) # {} => (EventsOf(k) # {})'
           /\ \A f : BranchesReported(f) => BranchesReported(f)'
<1>1. /\ 1..Len(log) \subseteq 1..Len(log')
      /\ \A i \in 1..Len(log) : log'[i] = log[i]
  BY DEF LogGrows
<1>2. GateExhausted => GateExhausted'
  BY <1>1 DEF GateExhausted, GateFailures
<1>3. ExitReached => ExitReached'
  BY <1>1 DEF ExitReached
<1>4. \A n : Caused(n) => Caused(n)'
  BY <1>1 DEF Caused
<1>5. \A k : EventsOf(k) # {} => (EventsOf(k) # {})'
  BY <1>1 DEF EventsOf
<1>6. \A f : BranchesReported(f) => BranchesReported(f)'
  BY <1>5 DEF BranchesReported
<1> QED
  BY <1>2, <1>3, <1>4, <1>5, <1>6

\* So what a process holds stays justified while others append events.
LEMMA HoldsKept ==
    ASSUME log \in Seq(Event), LogGrows
    PROVE  \A q : Holds(q) => Holds(q)'
<1>1. 1..Len(log) \subseteq 1..Len(log')
  BY DEF LogGrows
<1>2. \A r : RowJustified(r) => RowJustified(r)'
  BY Kept DEF RowJustified
<1>3. \A k : KeyJustified(k) => KeyJustified(k)'
  BY Kept DEF KeyJustified
<1> QED
  BY <1>1, <1>2, <1>3 DEF Holds

\* A step of one process that leaves it with q keeps the memory part of the
\* invariant if q itself is justified.
LEMMA MemoryStep ==
    ASSUME IInv, LogGrows, NEW p \in Procs, NEW q \in Proc,
           procs' = [procs EXCEPT ![p] = q], Holds(q)'
    PROVE  /\ procs' \in [Procs -> Proc]
           /\ \A r \in Procs : Holds(procs[r])'
<1>1. procs \in [Procs -> Proc] /\ log \in Seq(Event)
  BY DEF IInv, TypeOK
<1>2. ASSUME NEW r \in Procs, r # p PROVE Holds(procs[r])'
  <2>1. procs'[r] = procs[r]
    BY <1>1, <1>2
  <2>2. Holds(procs[r])
    BY DEF IInv
  <2> QED
    BY <1>1, <2>1, <2>2, HoldsKept
<1>3. procs'[p] = q
  BY <1>1
<1> QED
  BY <1>1, <1>2, <1>3

\* The parts of the invariant about the log and one table, when that table
\* does not change (no card is created, in the case of the board).
LEMMA Stable ==
    ASSUME IInv, LogGrows
    PROVE  /\ rows' = rows => DoneReported'
           /\ run' = run => (BlockedOnExhaustion /\ SucceededPastGate)'
           /\ (\A k \in Key : tasks'[k] # "none" => tasks[k] # "none")
                 => (WorkIsCaused /\ FanInBarrier)'
<1> log \in Seq(Event)
  BY DEF IInv, TypeOK
<1>1. rows' = rows => DoneReported'
  BY Kept DEF IInv, DoneReported, Done
<1>2. run' = run => (BlockedOnExhaustion /\ SucceededPastGate)'
  BY Kept DEF IInv, BlockedOnExhaustion, SucceededPastGate
<1>3. ASSUME \A k \in Key : tasks'[k] # "none" => tasks[k] # "none"
      PROVE  (WorkIsCaused /\ FanInBarrier)'
  BY <1>3, Kept DEF IInv, WorkIsCaused, FanInBarrier
<1> QED
  BY <1>1, <1>2, <1>3

-----------------------------------------------------------------------------
(***************************************************************************)
(* Steps that change only the memory of one process.                       *)
(***************************************************************************)
LEMMA MemoryOnly ==
    ASSUME IInv, NEW p \in Procs, NEW q \in Proc, Holds(q),
           procs' = [procs EXCEPT ![p] = q],
           UNCHANGED <<store, board, faults>>
    PROVE  IInv'
<1>0. UNCHANGED <<run, rows, tasks, log, crashes, boardErrors>>
  BY DEF store, board, faults
<1>1. log \in Seq(Event)
  BY DEF IInv, TypeOK
<1>2. LogGrows
  BY <1>0, <1>1, Growing
<1>3. Holds(q)'
  BY <1>1, <1>2, HoldsKept
<1>4. TypeOK'
  BY <1>0, <1>2, <1>3, MemoryStep DEF IInv, TypeOK
<1>5. \A r \in Procs : Holds(procs[r])'
  BY <1>2, <1>3, MemoryStep
<1>6. (DoneReported /\ BlockedOnExhaustion /\ SucceededPastGate)'
  BY <1>0, <1>2, Stable
<1>7. (WorkIsCaused /\ FanInBarrier)'
  BY <1>0, <1>2, Stable
<1> QED
  BY <1>4, <1>5, <1>6, <1>7 DEF IInv

\* What a routing decision dispatches and saves has to be justified.
LEMMA DispatchStep ==
    ASSUME IInv, NEW p \in Procs, NEW keys, NEW blocked \in Key \union {NoKey},
           NEW saved \in RunRow, Dispatch(p, keys, blocked, saved),
           RowJustified(saved), \A k \in keys : KeyJustified(k)
    PROVE  IInv'
<1> DEFINE q == [procs[p] EXCEPT !.phase = "write", !.todo = keys,
                                 !.block = blocked, !.save = saved]
<1>1. procs[p] \in Proc /\ Holds(procs[p])
  BY DEF IInv, TypeOK
<1>2. q \in Proc
  BY <1>1 DEF Proc, Dispatch
<1>3. Holds(q)
  BY <1>1 DEF Holds, Proc
<1>4. procs' = [procs EXCEPT ![p] = q]
  BY DEF Dispatch
<1>5. UNCHANGED <<store, board, faults>>
  BY DEF Dispatch
<1> HIDE DEF q
<1> QED
  BY <1>2, <1>3, <1>4, <1>5, MemoryOnly

\* The event in hand while routing, and what is read off it.
LEMMA InHand ==
    ASSUME IInv, NEW p \in Procs, procs[p].phase \in {"mark", "plan"}
    PROVE  /\ procs[p] \in Proc /\ Holds(procs[p])
           /\ procs[p].evt \in 1..Len(log)
           /\ EventOf(p) = log[procs[p].evt]
           /\ EventOf(p) \in Event
           /\ NodeOf(p) = EventOf(p).task[1] /\ NodeOf(p) \in Nodes
           /\ AnswerOf(p) = EventOf(p).ans /\ AnswerOf(p) \in Answer
           /\ procs[p].snap \in RunRow
           /\ RowJustified(procs[p].snap)
           /\ CtxOf(p) \in Contexts
<1>1. procs[p] \in Proc /\ Holds(procs[p]) /\ log \in Seq(Event)
  BY DEF IInv, TypeOK
<1>2. procs[p].evt \in 1..Len(log)
  BY <1>1 DEF Holds
<1>3. EventOf(p) \in Event
  BY <1>1, <1>2 DEF EventOf
<1>4. NodeOf(p) \in Nodes /\ AnswerOf(p) \in Answer
  BY <1>3 DEF NodeOf, AnswerOf, Event, Key
<1>5. procs[p].snap \in RunRow /\ RowJustified(procs[p].snap)
  BY <1>1 DEF Proc, Holds
<1>6. procs[p].snap.ctx \in Contexts /\ AnswerOf(p).upd \in Updates
  BY <1>4, <1>5 DEF RunRow, Answer
<1>7. CtxOf(p) \in Contexts
  BY <1>6, ApplyType DEF CtxOf
<1> QED
  BY <1>1, <1>2, <1>3, <1>4, <1>5, <1>7 DEF EventOf, NodeOf, AnswerOf

\* The run row of a decision that does not end the run.
LEMMA SavedOpen ==
    ASSUME IInv, NEW p \in Procs, procs[p].phase = "plan", NEW ctx \in Contexts,
           NEW status \in {procs[p].snap.status, Resumed(procs[p].snap.status),
                           "PAUSED_HUMAN"}
    PROVE  /\ Saved(p, status, ctx) \in RunRow
           /\ RowJustified(Saved(p, status, ctx))
<1>1. /\ procs[p].evt \in 1..Len(log) /\ procs[p].snap \in RunRow
      /\ RowJustified(procs[p].snap)
  BY InHand
<1>2. log \in Seq(Event)
  BY DEF IInv, TypeOK
<1>3. procs[p].evt \in Nat
  BY <1>1, <1>2
<1>4. /\ status \in {"NONE"} \union Active \union Terminal
      /\ status \in Terminal => status = procs[p].snap.status
  BY <1>1 DEF RunRow, Resumed, Active, Terminal
<1> QED
  BY <1>1, <1>3, <1>4 DEF Saved, RunRow, RowJustified, Terminal

\* The run row of a decision that succeeds the run.
LEMMA SavedSuccess ==
    ASSUME IInv, NEW p \in Procs, Routing(p), EndsAt(NodeOf(p))
    PROVE  /\ Saved(p, "SUCCEEDED", CtxOf(p)) \in RunRow
           /\ RowJustified(Saved(p, "SUCCEEDED", CtxOf(p)))
<1>1. procs[p].phase = "plan" /\ GatePassed(p)
  BY DEF Routing, Planning
<1>2. /\ procs[p].evt \in 1..Len(log)
      /\ EventOf(p) = log[procs[p].evt]
      /\ NodeOf(p) = EventOf(p).task[1] /\ AnswerOf(p) = EventOf(p).ans
      /\ CtxOf(p) \in Contexts
  BY <1>1, InHand
<1>3. procs[p].evt \in Nat
  BY <1>2 DEF IInv, TypeOK
<1>4. ExitReached
  BY <1>1, <1>2 DEF ExitReached, GatePassed
<1> QED
  BY <1>2, <1>3, <1>4 DEF Saved, RunRow, RowJustified, Terminal

\* What the node in hand leads to is caused; unless it is a join, that is all
\* a card for it needs.
LEMMA KeyCaused ==
    ASSUME IInv, NEW p \in Procs, procs[p].phase = "plan",
           NEW k \in Key, LeadsTo(NodeOf(p), k[1]),
           Join(k) => BranchesReported(k[1])
    PROVE  KeyJustified(k)
  BY InHand DEF KeyJustified, Caused

\* The edges chosen lead out of the node in hand.
LEMMA ChosenEdge ==
    ASSUME NEW p \in Procs
    PROVE  /\ \A e \in NextEdges(p) : e \in Out(NodeOf(p))
           /\ \A t, ctx : \A e \in ToolEdges(t, ctx) : e \in Out(t)
  BY DEF NextEdges, ToolEdges

-----------------------------------------------------------------------------
(***************************************************************************)
(* The routing decisions preserve the invariant.                           *)
(***************************************************************************)
\* One card for a node that is no fan-in, dispatched by an open run.
LEMMA SingleCard ==
    ASSUME IInv, NEW p \in Procs, procs[p].phase = "plan",
           NEW k \in Key, NEW blocked \in Key \union {NoKey},
           NEW status \in {procs[p].snap.status, Resumed(procs[p].snap.status),
                           "PAUSED_HUMAN"},
           LeadsTo(NodeOf(p), k[1]), Join(k) => BranchesReported(k[1]),
           Dispatch(p, {k}, blocked, Saved(p, status, CtxOf(p)))
    PROVE  IInv'
<1>1. CtxOf(p) \in Contexts
  BY InHand
<1>2. /\ Saved(p, status, CtxOf(p)) \in RunRow
      /\ RowJustified(Saved(p, status, CtxOf(p)))
  BY <1>1, SavedOpen
<1>3. KeyJustified(k)
  BY KeyCaused
<1> QED
  BY <1>2, <1>3, DispatchStep

\* No card, whatever the open run saves.
LEMMA NoCard ==
    ASSUME IInv, NEW p \in Procs, NEW saved \in RunRow, RowJustified(saved),
           Dispatch(p, {}, NoKey, saved)
    PROVE  IInv'
  BY DispatchStep

LEMMA FanOutStep ==
    ASSUME IInv, NEW p \in Procs, PlanFanOut(p)
    PROVE  IInv'
<1> DEFINE keys == {<<e.dst, 1>> : e \in Out(NodeOf(p))}
           saved == Saved(p, procs[p].snap.status, CtxOf(p))
<1>1. procs[p].phase = "plan" /\ Shape[NodeOf(p)] = "FAN_OUT"
  BY DEF PlanFanOut, Planning, IsFanOut
<1>2. Dispatch(p, keys, NoKey, saved) /\ keys \subseteq Key
  BY DEF PlanFanOut, Dispatch
<1>3. CtxOf(p) \in Contexts
  BY <1>1, InHand
<1>4. saved \in RunRow /\ RowJustified(saved)
  BY <1>1, <1>3, SavedOpen
<1>5. ASSUME NEW k \in keys PROVE KeyJustified(k)
  <2>1. PICK e \in Out(NodeOf(p)) : k = <<e.dst, 1>>
    OBVIOUS
  <2>2. k \in Key /\ k[1] = e.dst
    BY <1>2, <2>1
  <2>3. LeadsTo(NodeOf(p), k[1])
    BY <2>2 DEF LeadsTo
  <2>4. ~Join(k)
    BY <1>1, <2>2 DEF Join, Predecessors, Out
  <2> QED
    BY <1>1, <2>2, <2>3, <2>4, KeyCaused
<1> HIDE DEF keys, saved
<1> QED
  BY <1>2, <1>4, <1>5, DispatchStep

LEMMA TooWideStep ==
    ASSUME IInv, NEW p \in Procs, PlanTooWide(p)
    PROVE  IInv'
  BY IdleType, IdleHolds, MemoryOnly DEF PlanTooWide

LEMMA ExhaustedStep ==
    ASSUME IInv, NEW p \in Procs, PlanExhausted(p)
    PROVE  IInv'
<1>1. /\ procs[p].phase = "plan" /\ ~GatePassed(p) /\ Exhausted(p)
      /\ Dispatch(p, {}, NoKey, Saved(p, "BLOCKED", CtxOf(p)))
  BY DEF PlanExhausted, GateFailed, Planning
<1>2. /\ procs[p].evt \in 1..Len(log)
      /\ EventOf(p) = log[procs[p].evt] /\ EventOf(p) \in Event
      /\ NodeOf(p) = EventOf(p).task[1] /\ AnswerOf(p) = EventOf(p).ans
      /\ AnswerOf(p) \in Answer /\ CtxOf(p) \in Contexts
  BY <1>1, InHand
<1>3. procs[p].evt \in Nat
  BY <1>2 DEF IInv, TypeOK
<1>4. NodeOf(p) \in Gates /\ AnswerOf(p).verdict = "fail"
  BY <1>1, <1>2 DEF GatePassed, Answer
<1>5. EventOf(p).task[2] \in Nat /\ GateLimit[NodeOf(p)] \in Nat
  BY <1>2, <1>4, EngineAssumption, GateAssumption DEF Event, Key
<1>6. EventOf(p).task[2] >= GateLimit[NodeOf(p)]
  BY <1>1, <1>5 DEF Exhausted, NextTry
<1>7. GateExhausted
  BY <1>2, <1>4, <1>6 DEF GateExhausted, GateFailures
<1>8. /\ Saved(p, "BLOCKED", CtxOf(p)) \in RunRow
      /\ RowJustified(Saved(p, "BLOCKED", CtxOf(p)))
  BY <1>2, <1>3, <1>7 DEF Saved, RunRow, RowJustified, Terminal
<1> QED
  BY <1>1, <1>8, NoCard

LEMMA RetryStep ==
    ASSUME IInv, NEW p \in Procs, PlanRetry(p)
    PROVE  IInv'
<1>1. /\ procs[p].phase = "plan" /\ ~GatePassed(p)
      /\ Dispatch(p, {RetryKey(p)}, NoKey,
                  Saved(p, procs[p].snap.status, CtxOf(p)))
  BY DEF PlanRetry, GateFailed, Planning
<1>2. NodeOf(p) \in Gates
  BY <1>1 DEF GatePassed
<1>3. RetryKey(p) \in Key /\ RetryKey(p)[1] = RetryTarget[NodeOf(p)]
  BY <1>1 DEF Dispatch, RetryKey
<1>4. LeadsTo(NodeOf(p), RetryKey(p)[1])
  BY <1>2, <1>3 DEF LeadsTo
<1>5. ~Join(RetryKey(p))
  <2>1. EventOf(p).task[2] \in Nat \ {0}
    BY <1>1, InHand, EngineAssumption DEF Event, Key
  <2>2. RetryKey(p)[2] = EventOf(p).task[2] + 1
    BY DEF RetryKey, NextTry
  <2> QED
    BY <2>1, <2>2 DEF Join
<1> QED
  BY <1>1, <1>3, <1>4, <1>5, SingleCard

LEMMA NoEdgeStep ==
    ASSUME IInv, NEW p \in Procs, PlanNoEdge(p)
    PROVE  IInv'
<1>1. procs[p].phase = "plan"
  BY DEF PlanNoEdge, Routing, Planning
<1>2. CtxOf(p) \in Contexts
  BY <1>1, InHand
<1> QED
  BY <1>1, <1>2, SavedOpen, NoCard DEF PlanNoEdge

LEMMA CardStep ==
    ASSUME IInv, NEW p \in Procs, PlanCard(p)
    PROVE  IInv'
<1>1. PICK e \in NextEdges(p) :
         /\ Shape[e.dst] \in CardShapes
         /\ Dispatch(p, {<<e.dst, NextAttempt(e.dst)>>}, NoKey,
                     Saved(p, Resumed(procs[p].snap.status), CtxOf(p)))
  BY DEF PlanCard
<1> DEFINE k == <<e.dst, NextAttempt(e.dst)>>
<1>2. procs[p].phase = "plan"
  BY DEF PlanCard, Routing, Planning
<1>3. k \in Key /\ k[1] = e.dst
  BY <1>1 DEF Dispatch
<1>4. LeadsTo(NodeOf(p), k[1])
  BY <1>3, ChosenEdge DEF LeadsTo
<1>5. ~Join(k)
  BY <1>1, <1>3 DEF Join, CardShapes
<1> HIDE DEF k
<1> QED
  BY <1>1, <1>2, <1>3, <1>4, <1>5, SingleCard DEF k

LEMMA HumanStep ==
    ASSUME IInv, NEW p \in Procs, PlanHuman(p)
    PROVE  IInv'
<1>1. PICK e \in NextEdges(p) :
         /\ Shape[e.dst] = "HUMAN"
         /\ LET k == <<e.dst, NextAttempt(e.dst)>>
            IN  Dispatch(p, {k}, k, Saved(p, "PAUSED_HUMAN", CtxOf(p)))
  BY DEF PlanHuman
<1> DEFINE k == <<e.dst, NextAttempt(e.dst)>>
<1>2. procs[p].phase = "plan"
  BY DEF PlanHuman, Routing, Planning
<1>3. k \in Key /\ k[1] = e.dst
  BY <1>1 DEF Dispatch
<1>4. LeadsTo(NodeOf(p), k[1])
  BY <1>3, ChosenEdge DEF LeadsTo
<1>5. ~Join(k)
  BY <1>1, <1>3 DEF Join
<1>6. Dispatch(p, {k}, k, Saved(p, "PAUSED_HUMAN", CtxOf(p)))
  BY <1>1
<1> HIDE DEF k
<1> QED
  BY <1>2, <1>3, <1>4, <1>5, <1>6, SingleCard

LEMMA ExitStep ==
    ASSUME IInv, NEW p \in Procs, PlanExit(p)
    PROVE  IInv'
<1>1. PICK e \in NextEdges(p) :
         /\ Shape[e.dst] = "EXIT"
         /\ Dispatch(p, {}, NoKey, Saved(p, "SUCCEEDED", CtxOf(p)))
  BY DEF PlanExit
<1>2. EndsAt(NodeOf(p))
  BY <1>1, ChosenEdge DEF EndsAt
<1> QED
  BY <1>1, <1>2, SavedSuccess, NoCard DEF PlanExit

LEMMA WaitStep ==
    ASSUME IInv, NEW p \in Procs, PlanWait(p)
    PROVE  IInv'
<1>1. procs[p].phase = "plan"
  BY DEF PlanWait, Routing, Planning
<1>2. procs[p].snap.ctx \in Contexts
  BY <1>1, InHand DEF RunRow
<1> QED
  BY <1>1, <1>2, SavedOpen, NoCard DEF PlanWait

\* A fan-in whose branches are all done has an event of every branch.
LEMMA ReadyReported ==
    ASSUME IInv, NEW f, FanInReady(f)
    PROVE  BranchesReported(f)
<1> SUFFICES ASSUME NEW n \in Predecessors(f)
             PROVE  \E b \in Attempts : EventsOf(<<n, b>>) # {}
  BY DEF BranchesReported
<1>1. n \in Nodes
  BY PipelineAssumption DEF Predecessors, Edge
<1>2. PICK a \in Attempts :
         IsLatest(n, a) /\ rows[<<n, a>>].status \in {"SUCCEEDED", "PARTIAL"}
  BY DEF FanInReady, BranchDone
<1>3. <<n, a>> \in Key /\ Done(<<n, a>>)
  BY <1>1, <1>2 DEF Key, Done, IsLatest
<1> QED
  BY <1>3 DEF IInv, DoneReported

LEMMA FanInStep ==
    ASSUME IInv, NEW p \in Procs, PlanFanIn(p)
    PROVE  IInv'
<1>1. PICK e \in NextEdges(p) :
         /\ Shape[e.dst] = "FAN_IN" /\ FanInReady(e.dst)
         /\ Dispatch(p, {<<e.dst, 1>>}, NoKey,
                     Saved(p, Resumed(procs[p].snap.status),
                           Merged(CtxOf(p), e.dst)))
  BY DEF PlanFanIn
<1> DEFINE k == <<e.dst, 1>>
           saved == Saved(p, Resumed(procs[p].snap.status),
                          Merged(CtxOf(p), e.dst))
<1>2. procs[p].phase = "plan"
  BY DEF PlanFanIn, Routing, Planning
<1>3. k \in Key /\ k[1] = e.dst
  BY <1>1 DEF Dispatch
<1>4. KeyJustified(k)
  <2>1. LeadsTo(NodeOf(p), k[1])
    BY <1>3, ChosenEdge DEF LeadsTo
  <2>2. BranchesReported(k[1])
    BY <1>1, <1>3, ReadyReported
  <2> QED
    BY <1>2, <1>3, <2>1, <2>2, KeyCaused
<1>5. Merged(CtxOf(p), e.dst) \in Contexts
  BY <1>2, InHand, MergedType
<1>6. saved \in RunRow /\ RowJustified(saved)
  BY <1>2, <1>5, SavedOpen
<1>7. Dispatch(p, {k}, NoKey, saved)
  BY <1>1
<1> HIDE DEF k, saved
<1> QED
  BY <1>4, <1>6, <1>7, DispatchStep

LEMMA ToolStep ==
    ASSUME IInv, NEW p \in Procs, PlanTool(p)
    PROVE  IInv'
<1>1. PICK e \in NextEdges(p) :
         /\ Shape[e.dst] = "TOOL"
         /\ \/ \E t \in ToolEdges(e.dst, CtxOf(p)) :
                 /\ Shape[t.dst] = "EXIT"
                 /\ Dispatch(p, {}, NoKey, Saved(p, "SUCCEEDED", CtxOf(p)))
            \/ \E t \in ToolEdges(e.dst, CtxOf(p)) :
                 /\ Shape[t.dst] \in CardShapes
                 /\ Dispatch(p, {<<t.dst, 1>>}, NoKey,
                             Saved(p, procs[p].snap.status, CtxOf(p)))
            \/ Dispatch(p, {}, NoKey,
                        Saved(p, procs[p].snap.status, CtxOf(p)))
  BY DEF PlanTool
<1>2. /\ Routing(p) /\ procs[p].phase = "plan"
      /\ e \in Out(NodeOf(p)) /\ CtxOf(p) \in Contexts
  BY ChosenEdge, InHand DEF PlanTool, Routing, Planning
<1>3. CASE \E t \in ToolEdges(e.dst, CtxOf(p)) :
              /\ Shape[t.dst] = "EXIT"
              /\ Dispatch(p, {}, NoKey, Saved(p, "SUCCEEDED", CtxOf(p)))
  <2>1. EndsAt(NodeOf(p))
    BY <1>1, <1>2, <1>3, ChosenEdge DEF EndsAt
  <2> QED
    BY <1>2, <1>3, <2>1, SavedSuccess, NoCard
<1>4. CASE \E t \in ToolEdges(e.dst, CtxOf(p)) :
              /\ Shape[t.dst] \in CardShapes
              /\ Dispatch(p, {<<t.dst, 1>>}, NoKey,
                          Saved(p, procs[p].snap.status, CtxOf(p)))
  <2>1. PICK t \in ToolEdges(e.dst, CtxOf(p)) :
              /\ Shape[t.dst] \in CardShapes
              /\ Dispatch(p, {<<t.dst, 1>>}, NoKey,
                          Saved(p, procs[p].snap.status, CtxOf(p)))
    BY <1>4
  <2> DEFINE k == <<t.dst, 1>>
  <2>2. k \in Key /\ k[1] = t.dst
    BY <2>1 DEF Dispatch
  <2>3. LeadsTo(NodeOf(p), k[1])
    BY <1>1, <1>2, <2>2, ChosenEdge DEF LeadsTo
  <2>4. ~Join(k)
    BY <2>1, <2>2 DEF Join, CardShapes
  <2>5. Dispatch(p, {k}, NoKey, Saved(p, procs[p].snap.status, CtxOf(p)))
    BY <2>1
  <2> HIDE DEF k
  <2> QED
    BY <1>2, <2>2, <2>3, <2>4, <2>5, SingleCard
<1>5. CASE Dispatch(p, {}, NoKey, Saved(p, procs[p].snap.status, CtxOf(p)))
  BY <1>2, <1>5, SavedOpen, NoCard
<1> QED
  BY <1>1, <1>3, <1>4, <1>5

LEMMA PlanStep ==
    ASSUME IInv, NEW p \in Procs, Plan(p)
    PROVE  IInv'
  BY FanOutStep, TooWideStep, ExhaustedStep, RetryStep, NoEdgeStep, CardStep,
     HumanStep, ExitStep, WaitStep, FanInStep, ToolStep DEF Plan

-----------------------------------------------------------------------------
(***************************************************************************)
(* The other steps of a pass.                                              *)
(***************************************************************************)
LEMMA LaunchStep ==
    ASSUME IInv, NEW p \in Procs, Launch(p)
    PROVE  IInv'
<1>1. PICK ctx \in Contexts :
         /\ run' = [status |-> "RUNNING", cursor |-> 0, ctx |-> ctx]
         /\ procs' = [procs EXCEPT ![p] =
                [IdleProc EXCEPT !.phase = "write", !.todo = EntryKeys(ctx)]]
  BY DEF Launch
<1> DEFINE q == [IdleProc EXCEPT !.phase = "write", !.todo = EntryKeys(ctx)]
<1>2. rows' = rows /\ tasks' = tasks /\ log' = log /\ UNCHANGED faults
  BY DEF Launch, board
<1>3. log \in Seq(Event) /\ LogGrows
  BY <1>2, Growing DEF IInv, TypeOK
<1>4. ASSUME NEW k \in EntryKeys(ctx) PROVE k \in Key /\ KeyJustified(k)
  <2>1. PICK e \in Out(Start) : k = <<e.dst, 1>>
    BY DEF EntryKeys
  <2>2. k \in Key /\ k[1] = e.dst
    BY <2>1, PipelineAssumption, EngineAssumption DEF Out, Edge, Key
  <2>3. ~Join(k)
    BY <2>2, PipelineAssumption DEF Join, Predecessors, Out
  <2> QED
    BY <2>2, <2>3 DEF KeyJustified, Caused
<1>5. q \in Proc /\ Holds(q)
  <2>1. EntryKeys(ctx) \subseteq Key
    BY <1>4
  <2>2. q \in Proc
    BY <2>1, IdleType DEF Proc
  <2>3. Holds(q)
    BY <1>4, IdleHolds, IdleType, EngineAssumption DEF Holds, Proc, IdleProc
  <2> QED
    BY <2>2, <2>3
<1>6. procs' = [procs EXCEPT ![p] = q]
  BY <1>1
<1> HIDE DEF q
<1>7. Holds(q)'
  BY <1>3, <1>5, HoldsKept
<1>8. procs' \in [Procs -> Proc] /\ \A r \in Procs : Holds(procs[r])'
  BY <1>3, <1>5, <1>6, <1>7, MemoryStep
<1>9. run' \in RunRow
  BY <1>1 DEF RunRow, Active
<1>10. (DoneReported /\ WorkIsCaused /\ FanInBarrier)'
  BY <1>2, <1>3, Stable
<1>11. (BlockedOnExhaustion /\ SucceededPastGate)'
  BY <1>1 DEF BlockedOnExhaustion, SucceededPastGate
<1> QED
  BY <1>2, <1>8, <1>9, <1>10, <1>11 DEF IInv, TypeOK, faults

LEMMA BeginPassStep ==
    ASSUME IInv, NEW p \in Procs, BeginPass(p)
    PROVE  IInv'
<1> DEFINE q == [IdleProc EXCEPT !.phase = "read", !.batch = Unseen]
<1>1. log \in Seq(Event)
  BY DEF IInv, TypeOK
<1>2. Unseen \subseteq 1..Len(log)
  BY DEF Unseen
<1>3. Unseen \in SUBSET Nat
  BY <1>1, <1>2
<1>4. q \in Proc
  BY <1>3, IdleType DEF Proc
<1>5. Holds(q)
  BY <1>2, IdleHolds, IdleType DEF Holds, Proc
<1>6. procs' = [procs EXCEPT ![p] = q] /\ UNCHANGED <<store, board, faults>>
  BY DEF BeginPass
<1> HIDE DEF q
<1> QED
  BY <1>4, <1>5, <1>6, MemoryOnly

LEMMA ReadRunStep ==
    ASSUME IInv, NEW p \in Procs, ReadRun(p)
    PROVE  IInv'
<1>1. PICK i \in procs[p].batch :
         procs' = [procs EXCEPT ![p] =
                [procs[p] EXCEPT !.phase = "mark",
                                 !.batch = procs[p].batch \ {i},
                                 !.evt = i, !.snap = run]]
  BY DEF ReadRun
<1> DEFINE q == [procs[p] EXCEPT !.phase = "mark",
                                 !.batch = procs[p].batch \ {i},
                                 !.evt = i, !.snap = run]
<1>2. procs[p] \in Proc /\ procs \in [Procs -> Proc] /\ Holds(procs[p])
      /\ run \in RunRow /\ RowJustified(run)
  BY DEF IInv, TypeOK, RowJustified, BlockedOnExhaustion, SucceededPastGate
<1>3. q \in Proc
  BY <1>2 DEF Proc
<1>4. Holds(q)
  BY <1>2 DEF Holds, Proc
<1>5. procs' = [procs EXCEPT ![p] = q]
  BY <1>1
<1> HIDE DEF q
<1> QED
  BY <1>3, <1>4, <1>5, MemoryOnly DEF ReadRun

LEMMA ContinueHolds ==
    ASSUME NEW batch \in SUBSET Nat, batch \subseteq 1..Len(log)
    PROVE  Continue(batch) \in Proc /\ Holds(Continue(batch))
<1> DEFINE q == [IdleProc EXCEPT !.phase = "read", !.batch = batch]
<1>1. q \in Proc
  BY IdleType DEF Proc
<1>2. Holds(q)
  BY IdleHolds, IdleType DEF Holds, Proc
<1> HIDE DEF q
<1> QED
  BY <1>1, <1>2, IdleType, IdleHolds DEF Continue, q

LEMMA SkipEventStep ==
    ASSUME IInv, NEW p \in Procs, SkipEvent(p)
    PROVE  IInv'
<1>1. PICK i \in procs[p].batch :
         procs' = [procs EXCEPT ![p] = Continue(procs[p].batch \ {i})]
  BY DEF SkipEvent, IInv, TypeOK
<1>2. procs[p] \in Proc /\ Holds(procs[p])
  BY DEF IInv, TypeOK
<1>3. /\ procs[p].batch \ {i} \in SUBSET Nat
      /\ procs[p].batch \ {i} \subseteq 1..Len(log)
  BY <1>2 DEF Proc, Holds
<1> QED
  BY <1>1, <1>3, ContinueHolds, MemoryOnly DEF SkipEvent

\* The one step that finishes a row: it has the event in hand.
LEMMA MarkNodeStep ==
    ASSUME IInv, NEW p \in Procs, MarkNode(p)
    PROVE  IInv'
<1>0. PICK q : q = [procs[p] EXCEPT !.phase = "plan"]
  OBVIOUS
<1>1. /\ procs[p].phase = "mark"
      /\ rows' = [rows EXCEPT ![EventOf(p).task] =
           [status |-> IF GatePassed(p) THEN "SUCCEEDED" ELSE "PARTIAL",
            upd |-> AnswerOf(p).upd, card |-> TRUE]]
      /\ procs' = [procs EXCEPT ![p] = q]
      /\ run' = run /\ tasks' = tasks /\ log' = log /\ UNCHANGED faults
  BY <1>0 DEF MarkNode, board
<1>2. /\ procs[p] \in Proc /\ Holds(procs[p])
      /\ procs[p].evt \in 1..Len(log) /\ EventOf(p) = log[procs[p].evt]
      /\ EventOf(p) \in Event /\ AnswerOf(p) \in Answer
  BY <1>1, InHand
<1>3. log \in Seq(Event) /\ LogGrows
  BY <1>1, Growing DEF IInv, TypeOK
<1>4. q \in Proc /\ Holds(q)
  <2>1. q \in Proc
    BY <1>0, <1>2 DEF Proc
  <2>2. Holds(q)
    BY <1>0, <1>1, <1>2 DEF Holds, Proc
  <2> QED
    BY <2>1, <2>2
<1>5. Holds(q)'
  BY <1>3, <1>4, HoldsKept
<1>6. procs' \in [Procs -> Proc] /\ \A r \in Procs : Holds(procs[r])'
  BY <1>1, <1>3, <1>4, <1>5, MemoryStep
<1>7. rows' \in [Key -> NodeRow \union {NoRow}]
  BY <1>1, <1>2 DEF IInv, TypeOK, NodeRow, Answer, Event
<1>8. DoneReported'
  <2>1. EventsOf(EventOf(p).task) # {}
    BY <1>2 DEF EventsOf
  <2>2. \A k \in Key : Done(k)' => k = EventOf(p).task \/ Done(k)
    BY <1>1, <1>2 DEF Done, IInv, TypeOK, Event
  <2> QED
    BY <1>1, <2>1, <2>2 DEF IInv, DoneReported, EventsOf
<1>9. (BlockedOnExhaustion /\ SucceededPastGate /\ WorkIsCaused /\ FanInBarrier)'
  BY <1>1, <1>3, Stable
<1> QED
  BY <1>1, <1>6, <1>7, <1>8, <1>9 DEF IInv, TypeOK, faults

LEMMA CrashStep ==
    ASSUME IInv, NEW p \in Procs, Crash(p)
    PROVE  IInv'
<1>1. /\ procs' = [procs EXCEPT ![p] = IdleProc] /\ crashes' = crashes + 1
      /\ run' = run /\ rows' = rows /\ tasks' = tasks /\ log' = log
      /\ boardErrors' = boardErrors /\ crashes < MaxCrashes
  BY DEF Crash, store, board
<1>2. log \in Seq(Event) /\ LogGrows
  BY <1>1, Growing DEF IInv, TypeOK
<1>3. Holds(IdleProc)'
  BY <1>2, IdleHolds, HoldsKept
<1>4. procs' \in [Procs -> Proc] /\ \A r \in Procs : Holds(procs[r])'
  BY <1>1, <1>2, <1>3, IdleType, MemoryStep
<1>5. (DoneReported /\ BlockedOnExhaustion /\ SucceededPastGate
         /\ WorkIsCaused /\ FanInBarrier)'
  BY <1>1, <1>2, Stable
<1>6. crashes' \in 0..MaxCrashes
  BY <1>1, EngineAssumption DEF IInv, TypeOK
<1> QED
  BY <1>1, <1>4, <1>5, <1>6 DEF IInv, TypeOK

-----------------------------------------------------------------------------
(***************************************************************************)
(* The durable writes: each only writes what was justified in memory.      *)
(***************************************************************************)
\* The process has taken key k off its list, or just dropped its last one.
LEMMA SmallerHolds ==
    ASSUME IInv, NEW p \in Procs, NEW q \in Proc,
           q.phase = procs[p].phase, q.evt = procs[p].evt,
           q.batch = procs[p].batch,
           q.snap = procs[p].snap, q.save = procs[p].save,
           \A k \in Key : k \in q.todo \/ k = q.cur =>
                           k \in procs[p].todo \/ k = procs[p].cur
    PROVE  Holds(q)
<1>1. Holds(procs[p])
  BY DEF IInv
<1> QED
  BY <1>1 DEF Holds

LEMMA CreateCardStep ==
    ASSUME IInv, NEW p \in Procs, CreateCard(p)
    PROVE  IInv'
<1>1. PICK k \in procs[p].todo :
         /\ tasks' = [tasks EXCEPT ![k] = IF tasks[k] = "none" THEN "open"
                                          ELSE tasks[k]]
         /\ procs' = [procs EXCEPT ![p] =
                [procs[p] EXCEPT !.todo = procs[p].todo \ {k}, !.cur = k,
                                 !.got = TRUE]]
  BY DEF CreateCard
<1>2. run' = run /\ rows' = rows /\ log' = log /\ UNCHANGED faults
  BY DEF CreateCard, store
<1>3. log \in Seq(Event) /\ LogGrows
  BY <1>2, Growing DEF IInv, TypeOK
<1>4. procs[p] \in Proc /\ Holds(procs[p]) /\ k \in Key
  BY <1>1 DEF IInv, TypeOK, Proc
<1>5. PICK q : q = [procs[p] EXCEPT !.todo = procs[p].todo \ {k}, !.cur = k,
                                    !.got = TRUE]
  OBVIOUS
<1>6. q \in Proc
  BY <1>4, <1>5 DEF Proc
<1>7. Holds(q)
  BY <1>1, <1>4, <1>5, <1>6, SmallerHolds DEF Proc
<1>8. Holds(q)'
  BY <1>3, <1>7, HoldsKept
<1>9. procs' \in [Procs -> Proc] /\ \A r \in Procs : Holds(procs[r])'
  BY <1>1, <1>3, <1>5, <1>6, <1>8, MemoryStep
<1>10. tasks' \in [Key -> {"none", "open", "blocked", "done"}]
  BY <1>1, <1>4 DEF IInv, TypeOK
<1>11. (WorkIsCaused /\ FanInBarrier)'
  <2>1. KeyJustified(k)
    BY <1>1, <1>4 DEF Holds
  <2>2. \A j \in Key : tasks'[j] # "none" => j = k \/ tasks[j] # "none"
    BY <1>1, <1>4 DEF IInv, TypeOK
  <2> QED
    BY <1>3, <2>1, <2>2, Kept DEF IInv, KeyJustified, WorkIsCaused, FanInBarrier
<1>12. (DoneReported /\ BlockedOnExhaustion /\ SucceededPastGate)'
  BY <1>2, <1>3, Stable
<1> QED
  BY <1>2, <1>9, <1>10, <1>11, <1>12 DEF IInv, TypeOK, faults

LEMMA CreateCardFailsStep ==
    ASSUME IInv, NEW p \in Procs, CreateCardFails(p)
    PROVE  IInv'
<1>1. PICK k \in procs[p].todo :
         procs' = [procs EXCEPT ![p] =
                [procs[p] EXCEPT !.todo = procs[p].todo \ {k}, !.cur = k,
                                 !.got = FALSE]]
  BY DEF CreateCardFails
<1>2. /\ run' = run /\ rows' = rows /\ tasks' = tasks /\ log' = log
      /\ crashes' = crashes /\ boardErrors < MaxBoardErrors
      /\ boardErrors' = boardErrors + 1
  BY DEF CreateCardFails, store, board
<1>3. log \in Seq(Event) /\ LogGrows
  BY <1>2, Growing DEF IInv, TypeOK
<1>4. procs[p] \in Proc /\ k \in Key
  BY <1>1 DEF IInv, TypeOK, Proc
<1>5. PICK q : q = [procs[p] EXCEPT !.todo = procs[p].todo \ {k}, !.cur = k,
                                    !.got = FALSE]
  OBVIOUS
<1>6. q \in Proc
  BY <1>4, <1>5 DEF Proc
<1>7. Holds(q)
  BY <1>1, <1>4, <1>5, <1>6, SmallerHolds DEF Proc
<1>8. Holds(q)'
  BY <1>3, <1>7, HoldsKept
<1>9. procs' \in [Procs -> Proc] /\ \A r \in Procs : Holds(procs[r])'
  BY <1>1, <1>3, <1>5, <1>6, <1>8, MemoryStep
<1>10. boardErrors' \in 0..MaxBoardErrors
  BY <1>2, EngineAssumption DEF IInv, TypeOK
<1>11. (DoneReported /\ BlockedOnExhaustion /\ SucceededPastGate
          /\ WorkIsCaused /\ FanInBarrier)'
  BY <1>2, <1>3, Stable
<1> QED
  BY <1>2, <1>9, <1>10, <1>11 DEF IInv, TypeOK

LEMMA UpsertRowStep ==
    ASSUME IInv, NEW p \in Procs, UpsertRow(p)
    PROVE  IInv'
<1>1. /\ procs[p].cur # NoKey
      /\ rows' = [rows EXCEPT ![procs[p].cur] =
           [status |-> "DISPATCHED", upd |-> NoUpdate, card |-> procs[p].got]]
      /\ procs' = [procs EXCEPT ![p] =
           [procs[p] EXCEPT !.cur = NoKey, !.got = FALSE]]
      /\ run' = run /\ tasks' = tasks /\ log' = log /\ UNCHANGED faults
  BY DEF UpsertRow, board
<1>2. log \in Seq(Event) /\ LogGrows
  BY <1>1, Growing DEF IInv, TypeOK
<1>3. procs[p] \in Proc /\ procs[p].cur \in Key /\ procs[p].got \in BOOLEAN
  BY <1>1 DEF IInv, TypeOK, Proc
<1>4. PICK q : q = [procs[p] EXCEPT !.cur = NoKey, !.got = FALSE]
  OBVIOUS
<1>5. q \in Proc
  BY <1>3, <1>4 DEF Proc
<1>6. Holds(q)
  BY <1>3, <1>4, <1>5, EngineAssumption, SmallerHolds DEF Proc
<1>7. Holds(q)'
  BY <1>2, <1>6, HoldsKept
<1>8. procs' \in [Procs -> Proc] /\ \A r \in Procs : Holds(procs[r])'
  BY <1>1, <1>2, <1>4, <1>5, <1>7, MemoryStep
<1>9. rows' \in [Key -> NodeRow \union {NoRow}]
  BY <1>1, <1>3, BlankTypes DEF IInv, TypeOK, NodeRow
<1>10. DoneReported'
  <2>1. \A k \in Key : Done(k)' => Done(k)
    BY <1>1, <1>3 DEF Done, IInv, TypeOK
  <2> QED
    BY <1>1, <2>1 DEF IInv, DoneReported, EventsOf
<1>11. (BlockedOnExhaustion /\ SucceededPastGate /\ WorkIsCaused /\ FanInBarrier)'
  BY <1>1, <1>2, Stable
<1> QED
  BY <1>1, <1>8, <1>9, <1>10, <1>11 DEF IInv, TypeOK, faults

\* A step that appends an event and leaves the board without new cards.
LEMMA BoardStep ==
    ASSUME IInv, NEW k \in Key, tasks[k] # "none", NEW e \in Event,
           NEW state \in {"blocked", "done"},
           tasks' = [tasks EXCEPT ![k] = state], log' = Append(log, e)
    PROVE  /\ LogGrows
           /\ tasks' \in [Key -> {"none", "open", "blocked", "done"}]
           /\ (WorkIsCaused /\ FanInBarrier)'
<1>1. log \in Seq(Event) /\ tasks \in [Key -> {"none", "open", "blocked", "done"}]
  BY DEF IInv, TypeOK
<1>2. LogGrows
  BY <1>1, Growing
<1>3. \A j \in Key : tasks'[j] # "none" => tasks[j] # "none"
  BY <1>1
<1> QED
  BY <1>1, <1>2, <1>3, Stable

LEMMA BlockCardStep ==
    ASSUME IInv, NEW p \in Procs, BlockCard(p)
    PROVE  IInv'
<1>1. /\ procs[p].block # NoKey
      /\ procs' = [procs EXCEPT ![p].block = NoKey]
      /\ run' = run /\ rows' = rows /\ UNCHANGED faults
  BY DEF BlockCard, store
<1>2. procs[p] \in Proc /\ procs[p].block \in Key /\ procs \in [Procs -> Proc]
      /\ log \in Seq(Event)
  BY <1>1 DEF IInv, TypeOK, Proc
<1>3. PICK q : q = [procs[p] EXCEPT !.block = NoKey]
  OBVIOUS
<1>4. q \in Proc
  BY <1>2, <1>3 DEF Proc
<1>5. Holds(q)
  BY <1>2, <1>3, <1>4, SmallerHolds DEF Proc
<1>6. procs' = [procs EXCEPT ![p] = q]
  BY <1>1, <1>2, <1>3
<1>7. /\ LogGrows
      /\ tasks' \in [Key -> {"none", "open", "blocked", "done"}]
      /\ (WorkIsCaused /\ FanInBarrier)'
  <2>1. CASE tasks[procs[p].block] = "open"
    <3>1. PICK k \in Key : k = procs[p].block
      BY <1>2
    <3>2. PICK e : e = [task |-> k, kind |-> "blocked", ans |-> BlankAnswer]
      OBVIOUS
    <3>3. e \in Event
      BY <3>1, <3>2, BlankTypes DEF Event, TerminalKinds
    <3>4. /\ tasks' = [tasks EXCEPT ![k] = "blocked"]
          /\ log' = Append(log, e) /\ tasks[k] # "none"
      BY <2>1, <3>1, <3>2 DEF BlockCard
    <3> QED
      BY <3>3, <3>4, BoardStep
  <2>2. CASE tasks[procs[p].block] # "open"
    <3>1. tasks' = tasks /\ log' = log
      BY <2>2 DEF BlockCard, board
    <3>2. LogGrows
      BY <1>2, <3>1, Growing
    <3> QED
      BY <3>1, <3>2, Stable DEF IInv, TypeOK
  <2> QED
    BY <2>1, <2>2
<1>8. Holds(q)'
  BY <1>2, <1>5, <1>7, HoldsKept
<1>9. procs' \in [Procs -> Proc] /\ \A r \in Procs : Holds(procs[r])'
  BY <1>4, <1>6, <1>7, <1>8, MemoryStep
<1>10. (DoneReported /\ BlockedOnExhaustion /\ SucceededPastGate)'
  BY <1>1, <1>7, Stable
<1> QED
  BY <1>1, <1>7, <1>9, <1>10 DEF IInv, TypeOK, faults, LogGrows

LEMMA SaveRunStep ==
    ASSUME IInv, NEW p \in Procs, SaveRun(p)
    PROVE  IInv'
<1>1. /\ run' = procs[p].save
      /\ procs' = [procs EXCEPT ![p] = Continue(procs[p].batch)]
      /\ rows' = rows /\ tasks' = tasks /\ log' = log /\ UNCHANGED faults
  BY DEF SaveRun, board, IInv, TypeOK
<1>2. log \in Seq(Event) /\ LogGrows
  BY <1>1, Growing DEF IInv, TypeOK
<1>3. procs[p] \in Proc /\ Holds(procs[p])
  BY DEF IInv, TypeOK
<1>4. procs[p].batch \in SUBSET Nat /\ procs[p].batch \subseteq 1..Len(log)
  BY <1>3 DEF Proc, Holds
<1>5. PICK q : q = Continue(procs[p].batch)
  OBVIOUS
<1>6. q \in Proc /\ Holds(q)
  BY <1>4, <1>5, ContinueHolds
<1>7. Holds(q)'
  BY <1>2, <1>6, HoldsKept
<1>8. procs' \in [Procs -> Proc] /\ \A r \in Procs : Holds(procs[r])'
  BY <1>1, <1>2, <1>5, <1>6, <1>7, MemoryStep
<1>9. run' \in RunRow /\ RowJustified(procs[p].save)
  BY <1>1, <1>3 DEF Proc, Holds
<1>10. (BlockedOnExhaustion /\ SucceededPastGate)'
  BY <1>1, <1>2, <1>9, Kept
     DEF RowJustified, BlockedOnExhaustion, SucceededPastGate
<1>11. (DoneReported /\ WorkIsCaused /\ FanInBarrier)'
  BY <1>1, <1>2, Stable
<1> QED
  BY <1>1, <1>8, <1>9, <1>10, <1>11 DEF IInv, TypeOK, faults

LEMMA LaunchReturnsStep ==
    ASSUME IInv, NEW p \in Procs, LaunchReturns(p)
    PROVE  IInv'
  BY IdleType, IdleHolds, MemoryOnly DEF LaunchReturns

-----------------------------------------------------------------------------
\* A worker or a human closes a task: the log gains its event.
LEMMA FinishStep ==
    ASSUME IInv, NEW k \in Key, tasks[k] # "none", NEW kind \in TerminalKinds,
           NEW ans \in Answer, Finish(k, kind, ans)
    PROVE  IInv'
<1>1. PICK e \in Event : log' = Append(log, e)
  BY DEF Finish, Event
<1>2. /\ tasks' = [tasks EXCEPT ![k] = "done"]
      /\ run' = run /\ rows' = rows /\ procs' = procs /\ UNCHANGED faults
  BY DEF Finish, store
<1>3. /\ LogGrows
      /\ tasks' \in [Key -> {"none", "open", "blocked", "done"}]
      /\ (WorkIsCaused /\ FanInBarrier)'
  BY <1>1, <1>2, BoardStep
<1>4. \A r \in Procs : Holds(procs[r])'
  BY <1>2, <1>3, HoldsKept DEF IInv, TypeOK
<1>5. (DoneReported /\ BlockedOnExhaustion /\ SucceededPastGate)'
  BY <1>2, <1>3, Stable
<1> QED
  BY <1>2, <1>3, <1>4, <1>5 DEF IInv, TypeOK, faults, LogGrows

LEMMA CompleteStep ==
    ASSUME IInv, NEW k \in Key, Complete(k)
    PROVE  IInv'
<1>1. PICK ans \in Answers[k[1]] : Finish(k, "completed", ans)
  BY DEF Complete
<1>2. ans \in Answer
  BY EngineAssumption DEF Key
<1> QED
  BY <1>1, <1>2, FinishStep DEF Complete, TerminalKinds

LEMMA GiveUpStep ==
    ASSUME IInv, NEW k \in Key, GiveUp(k)
    PROVE  IInv'
<1>1. PICK kind \in FailureKinds : Finish(k, kind, BlankAnswer)
  BY DEF GiveUp
<1>2. kind \in TerminalKinds
  BY EngineAssumption DEF TerminalKinds
<1> QED
  BY <1>1, <1>2, BlankTypes, FinishStep DEF GiveUp

-----------------------------------------------------------------------------
(***************************************************************************)
(* The invariant is inductive.                                             *)
(***************************************************************************)
LEMMA InitIInv == Init => IInv
<1> SUFFICES ASSUME Init PROVE IInv
  OBVIOUS
<1> USE DEF Init
<1>1. TypeOK
  BY BlankTypes, IdleType, EngineAssumption DEF TypeOK
<1>2. \A p \in Procs : Holds(procs[p])
  BY IdleHolds
<1>3. DoneReported
  BY DEF DoneReported, Done
<1>4. BlockedOnExhaustion /\ SucceededPastGate
  BY DEF BlockedOnExhaustion, SucceededPastGate, NoRun
<1>5. WorkIsCaused /\ FanInBarrier
  BY DEF WorkIsCaused, FanInBarrier
<1> QED
  BY <1>1, <1>2, <1>3, <1>4, <1>5 DEF IInv

LEMMA StutterIInv == IInv /\ UNCHANGED vars => IInv'
<1> SUFFICES ASSUME IInv, UNCHANGED vars PROVE IInv'
  OBVIOUS
<1>1. /\ run' = run /\ rows' = rows /\ tasks' = tasks /\ log' = log
      /\ procs' = procs /\ crashes' = crashes /\ boardErrors' = boardErrors
  BY DEF vars
<1>2. log \in Seq(Event) /\ LogGrows
  BY <1>1, Growing DEF IInv, TypeOK
<1>3. \A p \in Procs : Holds(procs[p])'
  BY <1>1, <1>2, HoldsKept DEF IInv
<1>4. (DoneReported /\ BlockedOnExhaustion /\ SucceededPastGate
         /\ WorkIsCaused /\ FanInBarrier)'
  BY <1>1, <1>2, Stable
<1> QED
  BY <1>1, <1>3, <1>4 DEF IInv, TypeOK

LEMMA NextIInv == IInv /\ [Next]_vars => IInv'
<1> SUFFICES ASSUME IInv, [Next]_vars PROVE IInv'
  OBVIOUS
<1>1. ASSUME NEW p \in Procs, Launch(p) PROVE IInv'
  BY <1>1, LaunchStep
<1>2. ASSUME NEW p \in Procs, Advance(p) PROVE IInv'
  <2>1. ASSUME Write(p) PROVE IInv'
    BY <2>1, CreateCardStep, CreateCardFailsStep, UpsertRowStep, BlockCardStep,
       SaveRunStep, LaunchReturnsStep DEF Write
  <2> QED
    BY <1>2, <2>1, BeginPassStep, ReadRunStep, SkipEventStep, MarkNodeStep,
       PlanStep DEF Advance
<1>3. ASSUME NEW p \in Procs, Crash(p) PROVE IInv'
  BY <1>3, CrashStep
<1>4. ASSUME NEW k \in Key, Complete(k) \/ GiveUp(k) PROVE IInv'
  BY <1>4, CompleteStep, GiveUpStep
<1>5. CASE UNCHANGED vars
  BY <1>5, StutterIInv
<1> QED
  BY <1>1, <1>2, <1>3, <1>4, <1>5 DEF Next

\* In every reachable state what the tables hold, and what any process still
\* holds in memory, is justified by the events that the board reported.
THEOREM Justified == Spec => []IInv
  BY InitIInv, NextIInv, PTL DEF Spec

\* The tables, the board and the processes only ever hold values of their type.
THEOREM TypeCorrect == Spec => []TypeOK
<1>1. IInv => TypeOK
  BY DEF IInv
<1> QED
  BY <1>1, Justified, PTL

\* No interleaving of passes, crash or board error dispatches the card of a
\* join before every branch has reported.
THEOREM BarrierHolds == Spec => []FanInBarrier
<1>1. IInv => FanInBarrier
  BY DEF IInv
<1> QED
  BY <1>1, Justified, PTL

\* A run is BLOCKED only after a goal gate failed its last permitted attempt,
\* even if a process with an old copy of the run row saves it late.
THEOREM BlockedIsEarned == Spec => []BlockedOnExhaustion
<1>1. IInv => BlockedOnExhaustion
  BY DEF IInv
<1> QED
  BY <1>1, Justified, PTL

\* A run SUCCEEDED only after a node with a way to EXIT reported, and passed
\* if it is a goal gate.
THEOREM SuccessIsEarned == Spec => []SucceededPastGate
<1>1. IInv => SucceededPastGate
  BY DEF IInv
<1> QED
  BY <1>1, Justified, PTL

\* Every card is the entry's or follows, along the graph or a gate's retry,
\* from an event of some node.
THEOREM NothingUncaused == Spec => []WorkIsCaused
<1>1. IInv => WorkIsCaused
  BY DEF IInv
<1> QED
  BY <1>1, Justified, PTL

-----------------------------------------------------------------------------
(***************************************************************************)
(* One reconciler.  Its copy of the run row is current, and the events it  *)
(* still has to process lie beyond the cursor it is about to save.  Two    *)
(* reconcilers do not have this (the run "race" shows what they do).       *)
(***************************************************************************)
SoloInv(p) ==
    LET q == procs[p]
    IN  /\ run.status = "NONE" => run.cursor = 0
        /\ q.phase = "read" => /\ run.status # "NONE"
                               /\ \A i \in q.batch : i > run.cursor
        /\ q.phase \in {"mark", "plan"} => /\ run.status # "NONE"
                                           /\ q.snap = run
                                           /\ q.evt > run.cursor
                                           /\ \A i \in q.batch : i > q.evt
        /\ q.phase = "write" /\ q.save # NoRun =>
               /\ q.save.status # "NONE"
               /\ q.save.cursor > run.cursor
               /\ \A i \in q.batch : i > q.save.cursor

\* Every routing decision saves the event in hand as the cursor.
LEMMA PlanSaves ==
    ASSUME NEW p \in Procs, Plan(p), ~PlanTooWide(p)
    PROVE  \E keys, blocked, ctx :
             \E status \in {procs[p].snap.status, Resumed(procs[p].snap.status),
                            "PAUSED_HUMAN", "SUCCEEDED", "BLOCKED"} :
               Dispatch(p, keys, blocked, Saved(p, status, ctx))
  BY DEF Plan, PlanFanOut, PlanExhausted, PlanRetry, PlanNoEdge, PlanCard,
         PlanHuman, PlanExit, PlanWait, PlanFanIn, PlanTool

LEMMA PlanSolo ==
    ASSUME NEW p \in Procs, IInv, SoloInv(p), Plan(p)
    PROVE  SoloInv(p)' /\ run' = run
<1>1. procs \in [Procs -> Proc] /\ procs[p] \in Proc
  BY DEF IInv, TypeOK
<1>2. procs[p].phase = "plan"
  BY DEF Plan, PlanFanOut, PlanTooWide, PlanExhausted, PlanRetry, PlanNoEdge,
         PlanCard, PlanHuman, PlanExit, PlanWait, PlanFanIn, PlanTool,
         Routing, GateFailed, Planning
<1>3. CASE PlanTooWide(p)
  BY <1>1, <1>3 DEF PlanTooWide, store, SoloInv, IdleProc
<1>4. CASE ~PlanTooWide(p)
  <2>0. PICK keys, blocked, ctx :
           \E status \in {procs[p].snap.status, Resumed(procs[p].snap.status),
                          "PAUSED_HUMAN", "SUCCEEDED", "BLOCKED"} :
               Dispatch(p, keys, blocked, Saved(p, status, ctx))
    BY <1>4, PlanSaves
  <2>1. PICK status \in {procs[p].snap.status, Resumed(procs[p].snap.status),
                         "PAUSED_HUMAN", "SUCCEEDED", "BLOCKED"} :
               Dispatch(p, keys, blocked, Saved(p, status, ctx))
    BY <2>0
  <2>2. PICK saved : saved = Saved(p, status, ctx)
    OBVIOUS
  <2>3. saved.cursor = procs[p].evt /\ saved.status = status
    BY <2>2 DEF Saved
  <2>4. procs' = [procs EXCEPT ![p] =
           [procs[p] EXCEPT !.phase = "write", !.todo = keys,
                            !.block = blocked, !.save = saved]]
    BY <2>1, <2>2 DEF Dispatch
  <2>5. /\ procs'[p].phase = "write" /\ procs'[p].save = saved
        /\ procs'[p].batch = procs[p].batch
    BY <1>1, <2>4 DEF Proc
  <2>6. run' = run
    BY <2>1 DEF Dispatch, store
  <2>7. status # "NONE"
    BY <1>2 DEF SoloInv, Resumed
  <2> QED
    BY <1>2, <2>3, <2>5, <2>6, <2>7 DEF SoloInv
<1> QED
  BY <1>3, <1>4

LEMMA AdvanceSolo ==
    ASSUME NEW p \in Procs, IInv, SoloInv(p), Advance(p)
    PROVE  SoloInv(p)' /\ run'.cursor >= run.cursor
<1>1. /\ procs \in [Procs -> Proc] /\ procs[p] \in Proc
      /\ run \in RunRow /\ run.cursor \in Nat /\ procs[p].batch \subseteq Nat
  BY DEF IInv, TypeOK, RunRow, Proc
<1>2. CASE BeginPass(p)
  <2>1. /\ procs'[p].phase = "read" /\ procs'[p].batch = Unseen /\ run' = run
        /\ run.status # "NONE"
    BY <1>1, <1>2 DEF BeginPass, IdleProc, store, Active
  <2> QED
    BY <1>1, <2>1 DEF SoloInv, Unseen
<1>3. CASE ReadRun(p)
  <2>1. PICK i \in procs[p].batch :
           /\ NextEvent(p, i)
           /\ procs' = [procs EXCEPT ![p] =
                 [procs[p] EXCEPT !.phase = "mark",
                                  !.batch = procs[p].batch \ {i},
                                  !.evt = i, !.snap = run]]
    BY <1>3 DEF ReadRun
  <2>2. /\ procs'[p].phase = "mark" /\ procs'[p].batch = procs[p].batch \ {i}
        /\ procs'[p].evt = i /\ procs'[p].snap = run
    BY <1>1, <2>1 DEF Proc
  <2>3. run' = run /\ procs[p].phase = "read"
    BY <1>3 DEF ReadRun, store
  <2>4. \A j \in procs[p].batch \ {i} : j > i
    BY <1>1, <2>1 DEF NextEvent
  <2> QED
    BY <1>1, <2>2, <2>3, <2>4 DEF SoloInv
<1>4. CASE SkipEvent(p)
  <2>1. PICK i \in procs[p].batch :
           procs' = [procs EXCEPT ![p] = Continue(procs[p].batch \ {i})]
    BY <1>1, <1>4 DEF SkipEvent
  <2>2. procs'[p] = Continue(procs[p].batch \ {i})
    BY <1>1, <2>1
  <2>3. run' = run /\ procs[p].phase = "read"
    BY <1>4 DEF SkipEvent, store
  <2> QED
    BY <1>1, <2>2, <2>3 DEF SoloInv, Continue, IdleProc
<1>5. CASE MarkNode(p)
  <2>1. /\ procs'[p] = [procs[p] EXCEPT !.phase = "plan"]
        /\ run' = run /\ procs[p].phase = "mark"
    BY <1>1, <1>5 DEF MarkNode
  <2>2. /\ procs'[p].phase = "plan" /\ procs'[p].snap = procs[p].snap
        /\ procs'[p].evt = procs[p].evt /\ procs'[p].batch = procs[p].batch
    BY <1>1, <2>1 DEF Proc
  <2> QED
    BY <1>1, <2>1, <2>2 DEF SoloInv
<1>6. CASE Plan(p)
  BY <1>1, <1>6, PlanSolo
<1>7. CASE SaveRun(p)
  <2>1. /\ procs'[p] = Continue(procs[p].batch) /\ run' = procs[p].save
        /\ procs[p].phase = "write" /\ procs[p].save # NoRun
    BY <1>1, <1>7 DEF SaveRun, Dispatched, Writing
  <2>2. procs[p].save.cursor \in Nat
    BY <1>1 DEF Proc, RunRow
  <2> QED
    BY <1>1, <2>1, <2>2 DEF SoloInv, Continue, IdleProc
<1>8. CASE CreateCard(p) \/ CreateCardFails(p) \/ UpsertRow(p) \/ BlockCard(p)
  <2>1. /\ procs'[p].phase = procs[p].phase /\ procs'[p].save = procs[p].save
        /\ procs'[p].batch = procs[p].batch /\ run' = run
    <3>1. CASE CreateCard(p)
      BY <1>1, <3>1 DEF CreateCard, Proc, store
    <3>2. CASE CreateCardFails(p)
      BY <1>1, <3>2 DEF CreateCardFails, Proc, store
    <3>3. CASE UpsertRow(p)
      BY <1>1, <3>3 DEF UpsertRow, Proc
    <3>4. CASE BlockCard(p)
      BY <1>1, <3>4 DEF BlockCard, Proc, store
    <3> QED
      BY <1>8, <3>1, <3>2, <3>3, <3>4
  <2>2. procs[p].phase = "write"
    BY <1>8 DEF CreateCard, CreateCardFails, UpsertRow, BlockCard, Dispatched,
                Writing
  <2> QED
    BY <1>1, <2>1, <2>2 DEF SoloInv
<1>9. CASE LaunchReturns(p)
  <2>1. procs'[p] = IdleProc /\ run' = run
    BY <1>1, <1>9 DEF LaunchReturns, store
  <2> QED
    BY <1>1, <2>1 DEF SoloInv, IdleProc
<1> QED
  BY <1>2, <1>3, <1>4, <1>5, <1>6, <1>7, <1>8, <1>9 DEF Advance, Write

LEMMA NextSolo ==
    ASSUME NEW p, Procs = {p}, IInv, SoloInv(p), [Next]_vars
    PROVE  SoloInv(p)' /\ (run'.cursor >= run.cursor \/ UNCHANGED vars)
<1>1. /\ procs \in [Procs -> Proc] /\ run.cursor \in Nat /\ p \in Procs
  BY DEF IInv, TypeOK, RunRow
<1>2. CASE Launch(p)
  <2>1. PICK ctx \in Contexts :
          /\ run' = [status |-> "RUNNING", cursor |-> 0, ctx |-> ctx]
          /\ procs' = [procs EXCEPT ![p] =
                 [IdleProc EXCEPT !.phase = "write", !.todo = EntryKeys(ctx)]]
    BY <1>2 DEF Launch
  <2>2. procs'[p].phase = "write" /\ procs'[p].save = NoRun
    BY <1>1, <2>1 DEF IdleProc
  <2>3. run.status = "NONE"
    BY <1>2 DEF Launch
  <2> QED
    BY <2>1, <2>2, <2>3 DEF SoloInv
<1>3. CASE Advance(p)
  BY <1>1, <1>3, AdvanceSolo
<1>4. CASE Crash(p)
  <2>1. procs'[p] = IdleProc /\ run' = run
    BY <1>1, <1>4 DEF Crash, store
  <2> QED
    BY <1>1, <2>1 DEF SoloInv, IdleProc
<1>5. CASE \E k \in Key : Complete(k) \/ GiveUp(k)
  <2>1. procs' = procs /\ run' = run
    BY <1>5 DEF Complete, GiveUp, Finish, store
  <2> QED
    BY <1>1, <2>1 DEF SoloInv
<1>6. CASE UNCHANGED vars
  BY <1>6 DEF vars, SoloInv
<1> QED
  BY <1>2, <1>3, <1>4, <1>5, <1>6 DEF Next

\* With one reconciler the replay cursor never moves back, whatever crashes or
\* fails on the board.
THEOREM SoloCursorMonotone ==
    ASSUME NEW p, Procs = {p}
    PROVE  Spec => CursorMonotone
<1>1. Init => SoloInv(p)
  BY DEF Init, SoloInv, NoRun, IdleProc
<1>2. IInv /\ SoloInv(p) /\ [Next]_vars =>
         SoloInv(p)' /\ [run'.cursor >= run.cursor]_vars
  BY NextSolo
<1> QED
  BY <1>1, <1>2, Justified, PTL DEF Spec, CursorMonotone
=============================================================================
