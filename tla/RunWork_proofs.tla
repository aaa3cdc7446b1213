------------------------------ MODULE RunWork_proofs ----------------------------
(***************************************************************************)
(* No work is repeated: how often a node may get a card, for any pipeline, *)
(* any number of processes, crashes and board errors.  And none is passed  *)
(* over: what an undisturbed reconciler has done when it moves its cursor. *)
(***************************************************************************)
EXTENDS RunEngine_proofs, FiniteSetTheorems

-----------------------------------------------------------------------------
(***************************************************************************)
(* The inductive invariant.  A card that is neither the first of its node  *)
(* nor numbered by counting rows was earned by a failure that a gate       *)
(* reported in its previous attempt, and is within the gate's limit.       *)
(***************************************************************************)
Retried(k, i) ==
    LET g == log[i].task[1]
    IN  /\ RetryTarget[g] = k[1] /\ k[2] = log[i].task[2] + 1
        /\ k[2] <= GateLimit[g]

Earned(k) ==
    /\ Carded(k[1])
    /\ Counted(k[1]) \/ k[2] = 1 \/ \E i \in GateFailures : Retried(k, i)

Held(q) == {k \in Key : k \in q.todo \/ k = q.cur}

\* Cards, and what a process is about to create, are earned; events are of cards.
WorkInv ==
    /\ \A k \in Key : tasks[k] # "none" => Earned(k)
    /\ \A p \in Procs : \A k \in Held(procs[p]) : Earned(k)
    /\ \A i \in 1..Len(log) : tasks[log[i].task] # "none"

-----------------------------------------------------------------------------
(***************************************************************************)
(* What each step does to the log and to the cards in memory.              *)
(***************************************************************************)
LEMMA LogStep ==
    ASSUME IInv, [Next]_vars
    PROVE  /\ log' = log \/ \E e \in Event : log' = Append(log, e)
           /\ log \in Seq(Event) /\ LogGrows
<1>1. ASSUME NEW p \in Procs, Launch(p) PROVE log' = log
  BY <1>1 DEF Launch, board
<1>2. ASSUME NEW p \in Procs, Crash(p) PROVE log' = log
  BY <1>2 DEF Crash, board
<1>3. ASSUME NEW p \in Procs, Advance(p)
      PROVE  log' = log \/ \E e \in Event : log' = Append(log, e)
  <2>1. CASE BlockCard(p)
    <3>1. procs[p] \in Proc
      BY DEF IInv, TypeOK
    <3>2. procs[p].block \in Key
      BY <2>1, <3>1 DEF BlockCard, Proc
    <3>3. [task |-> procs[p].block, kind |-> "blocked", ans |-> BlankAnswer] \in Event
      BY <3>2, BlankTypes DEF Event, TerminalKinds
    <3> QED
      BY <2>1, <3>3 DEF BlockCard, board
  <2>2. CASE Plan(p)
    BY <2>2 DEF Plan, PlanFanOut, PlanTooWide, PlanExhausted, PlanRetry, PlanNoEdge,
                PlanCard, PlanHuman, PlanExit, PlanWait, PlanFanIn, PlanTool,
                Dispatch, board
  <2>3. CASE BeginPass(p) \/ ReadRun(p) \/ SkipEvent(p) \/ MarkNode(p)
    BY <2>3 DEF BeginPass, ReadRun, SkipEvent, MarkNode, board
  <2>4. CASE CreateCard(p) \/ CreateCardFails(p) \/ UpsertRow(p) \/ SaveRun(p)
                \/ LaunchReturns(p)
    BY <2>4 DEF CreateCard, CreateCardFails, UpsertRow, SaveRun, LaunchReturns, board
  <2> QED
    BY <1>3, <2>1, <2>2, <2>3, <2>4 DEF Advance, Write
<1>4. ASSUME NEW k \in Key, Complete(k)
      PROVE  \E e \in Event : log' = Append(log, e)
  <2>1. PICK ans \in Answers[k[1]] : Finish(k, "completed", ans)
    BY <1>4 DEF Complete
  <2>2. ans \in Answer
    BY EngineAssumption DEF Key
  <2>3. [task |-> k, kind |-> "completed", ans |-> ans] \in Event
    BY <2>2 DEF Event, TerminalKinds
  <2> QED
    BY <2>1, <2>3 DEF Finish
<1>5. ASSUME NEW k \in Key, GiveUp(k)
      PROVE  \E e \in Event : log' = Append(log, e)
  <2>1. PICK kind \in FailureKinds : Finish(k, kind, BlankAnswer)
    BY <1>5 DEF GiveUp
  <2>2. [task |-> k, kind |-> kind, ans |-> BlankAnswer] \in Event
    BY EngineAssumption, BlankTypes DEF Event, TerminalKinds
  <2> QED
    BY <2>1, <2>2 DEF Finish
<1>6. ASSUME UNCHANGED vars PROVE log' = log
  BY <1>6 DEF vars
<1>7. log' = log \/ \E e \in Event : log' = Append(log, e)
  BY <1>1, <1>2, <1>3, <1>4, <1>5, <1>6 DEF Next
<1>8. log \in Seq(Event)
  BY DEF IInv, TypeOK
<1>9. LogGrows
  BY <1>7, <1>8, Growing
<1> QED
  BY <1>7, <1>8, <1>9, Zenon

\* What was earned stays earned while the log grows.
LEMMA EarnedKept ==
    ASSUME log \in Seq(Event), LogGrows
    PROVE  \A k : Earned(k) => Earned(k)'
<1>1. /\ 1..Len(log) \subseteq 1..Len(log')
      /\ \A i \in 1..Len(log) : log'[i] = log[i]
  BY DEF LogGrows
<1>2. \A i \in GateFailures : i \in GateFailures' /\ log'[i] = log[i]
  BY <1>1 DEF GateFailures
<1>3. \A n : Carded(n)' = Carded(n) /\ Counted(n)' = Counted(n)
  BY DEF Carded, Counted
<1> QED
  BY <1>2, <1>3 DEF Earned, Retried

\* A routing decision dispatches earned cards, or ends the pass.
LEMMA PlansEarned ==
    ASSUME IInv, WorkInv, NEW p \in Procs, Plan(p)
    PROVE  \/ PlanTooWide(p)
           \/ \E keys, blocked, saved :
                 /\ Dispatch(p, keys, blocked, saved)
                 /\ \A k \in keys : Earned(k)
<1>1. procs[p].phase = "plan"
  BY DEF Plan, PlanFanOut, PlanTooWide, PlanExhausted, PlanRetry, PlanNoEdge,
         PlanCard, PlanHuman, PlanExit, PlanWait, PlanFanIn, PlanTool,
         Routing, GateFailed, Planning
<1>2. /\ procs[p].evt \in 1..Len(log) /\ EventOf(p) = log[procs[p].evt]
      /\ EventOf(p) \in Event /\ EventOf(p).task \in Key
      /\ NodeOf(p) = EventOf(p).task[1] /\ AnswerOf(p) = EventOf(p).ans
      /\ AnswerOf(p) \in Answer /\ NodeOf(p) \in Nodes
  BY <1>1, InHand DEF Event
<1>3. Carded(NodeOf(p))
  BY <1>2 DEF WorkInv, Earned
<1>4. \A e \in NextEdges(p) : e \in Edges /\ e.src = NodeOf(p)
  BY ChosenEdge DEF Out
<1>5. ASSUME NEW e \in NextEdges(p), Routing(p),
             Shape[e.dst] \in CardShapes \union {"HUMAN"}
      PROVE  Carded(e.dst) /\ Counted(e.dst)
  <2>1. Shape[NodeOf(p)] # "FAN_OUT"
    BY <1>5 DEF Routing, IsFanOut
  <2> QED
    BY <1>3, <1>4, <1>5, <2>1 DEF Carded, Counted, CardShapes
<1>6. CASE PlanFanOut(p)
  <2>1. \A e \in Out(NodeOf(p)) : Carded(e.dst)
    BY <1>6 DEF PlanFanOut, IsFanOut, Carded, Out
  <2>2. \A k \in {<<e.dst, 1>> : e \in Out(NodeOf(p))} : Earned(k)
    BY <2>1 DEF Earned
  <2> QED
    BY <1>6, <2>2 DEF PlanFanOut
<1>7. CASE PlanRetry(p)
  <2>1. /\ NodeOf(p) \in Gates /\ AnswerOf(p).verdict = "fail" /\ ~Exhausted(p)
        /\ Dispatch(p, {RetryKey(p)}, NoKey, Saved(p, procs[p].snap.status, CtxOf(p)))
    BY <1>2, <1>7 DEF PlanRetry, GateFailed, GatePassed, Answer
  <2>2. procs[p].evt \in GateFailures
    BY <1>2, <2>1 DEF GateFailures
  <2>3. EventOf(p).task[2] \in Nat /\ GateLimit[NodeOf(p)] \in Nat
    BY <1>2, <2>1, EngineAssumption, GateAssumption DEF Event, Key
  <2>4. PICK k : k = RetryKey(p)
    OBVIOUS
  <2>5. k[1] = RetryTarget[NodeOf(p)] /\ k[2] = EventOf(p).task[2] + 1
    BY <2>4 DEF RetryKey, NextTry
  <2>6. Retried(k, procs[p].evt)
    BY <1>2, <2>1, <2>3, <2>5 DEF Retried, Exhausted, NextTry
  <2>7. Earned(k)
    BY <2>1, <2>2, <2>5, <2>6 DEF Earned, Carded
  <2> QED
    BY <2>1, <2>4, <2>7
<1>8. CASE PlanCard(p)
  <2>1. PICK e \in NextEdges(p) :
           /\ Shape[e.dst] \in CardShapes
           /\ Dispatch(p, {<<e.dst, NextAttempt(e.dst)>>}, NoKey,
                       Saved(p, Resumed(procs[p].snap.status), CtxOf(p)))
    BY <1>8 DEF PlanCard
  <2>2. Earned(<<e.dst, NextAttempt(e.dst)>>)
    BY <1>5, <1>8, <2>1 DEF PlanCard, Earned
  <2> QED
    BY <2>1, <2>2
<1>9. CASE PlanHuman(p)
  <2>1. PICK e \in NextEdges(p) :
           /\ Shape[e.dst] = "HUMAN"
           /\ LET k == <<e.dst, NextAttempt(e.dst)>>
              IN  Dispatch(p, {k}, k, Saved(p, "PAUSED_HUMAN", CtxOf(p)))
    BY <1>9 DEF PlanHuman
  <2>2. Earned(<<e.dst, NextAttempt(e.dst)>>)
    BY <1>5, <1>9, <2>1 DEF PlanHuman, Earned
  <2> QED
    BY <2>1, <2>2
<1>10. CASE PlanFanIn(p)
  <2>1. PICK e \in NextEdges(p) :
           /\ Shape[e.dst] = "FAN_IN"
           /\ Dispatch(p, {<<e.dst, 1>>}, NoKey,
                       Saved(p, Resumed(procs[p].snap.status),
                             Merged(CtxOf(p), e.dst)))
    BY <1>10 DEF PlanFanIn
  <2>2. Earned(<<e.dst, 1>>)
    BY <1>4, <2>1 DEF Earned, Carded
  <2> QED
    BY <2>1, <2>2
<1>11. CASE PlanTool(p)
  <2>1. PICK e \in NextEdges(p) :
           \/ \E saved : Dispatch(p, {}, NoKey, saved)
           \/ \E t \in ToolEdges(e.dst, CtxOf(p)) :
                 /\ Shape[t.dst] \in CardShapes
                 /\ Dispatch(p, {<<t.dst, 1>>}, NoKey,
                             Saved(p, procs[p].snap.status, CtxOf(p)))
    BY <1>11 DEF PlanTool
  <2>2. CASE \E saved : Dispatch(p, {}, NoKey, saved)
    BY <2>2
  <2>3. ASSUME NEW t \in ToolEdges(e.dst, CtxOf(p)), Shape[t.dst] \in CardShapes,
               Dispatch(p, {<<t.dst, 1>>}, NoKey,
                        Saved(p, procs[p].snap.status, CtxOf(p)))
        PROVE  \E keys, blocked, saved :
                 /\ Dispatch(p, keys, blocked, saved)
                 /\ \A k \in keys : Earned(k)
    <3>1. Earned(<<t.dst, 1>>)
      BY <2>3, ChosenEdge DEF Earned, Carded, CardShapes, Out
    <3> QED
      BY <2>3, <3>1
  <2> QED
    BY <2>1, <2>2, <2>3
<1>12. CASE PlanExhausted(p) \/ PlanNoEdge(p) \/ PlanExit(p) \/ PlanWait(p)
  BY <1>12 DEF PlanExhausted, PlanNoEdge, PlanExit, PlanWait
<1> QED
  BY <1>6, <1>7, <1>8, <1>9, <1>10, <1>11, <1>12 DEF Plan

\* A process comes to hold only earned cards.
LEMMA HoldsEarned ==
    ASSUME IInv, WorkInv, [Next]_vars, NEW p \in Procs, NEW k \in Held(procs[p])'
    PROVE  Earned(k)
<1>1. /\ procs \in [Procs -> Proc] /\ procs[p] \in Proc
      /\ k \in Key /\ (k \in procs'[p].todo \/ k = procs'[p].cur)
  BY DEF IInv, TypeOK, Held, Key
<1>2. k \in procs[p].todo \/ k = procs[p].cur => Earned(k)
  BY <1>1 DEF WorkInv, Held
<1>3. procs'[p] # IdleProc
  BY <1>1, EngineAssumption DEF IdleProc
<1>4. \A batch : procs'[p] # Continue(batch)
  BY <1>1, <1>3, EngineAssumption DEF Continue, IdleProc
<1>5. ASSUME NEW r \in Procs, Launch(r) PROVE Earned(k)
  <2>1. PICK ctx \in Contexts : procs' = [procs EXCEPT ![r] =
                [IdleProc EXCEPT !.phase = "write", !.todo = EntryKeys(ctx)]]
    BY <1>5 DEF Launch
  <2>2. CASE k \in EntryKeys(ctx)
    <3>1. PICK e \in Out(Start) :
             k = <<e.dst, 1>> /\ Shape[e.dst] \notin {"START", "EXIT"}
      BY <2>2 DEF EntryKeys
    <3>2. k[1] = e.dst /\ k[2] = 1
      BY <3>1
    <3>3. e \in Edges /\ e.src = Start
      BY DEF Out
    <3>4. Carded(e.dst)
      BY <3>1, <3>3 DEF Carded
    <3> QED
      BY <3>2, <3>4 DEF Earned
  <2>3. CASE k \notin EntryKeys(ctx)
    BY <1>1, <1>2, <2>1, <2>3, EngineAssumption DEF IdleProc
  <2> QED
    BY <2>2, <2>3
<1>6. ASSUME NEW r \in Procs, Crash(r) PROVE Earned(k)
  BY <1>1, <1>2, <1>3, <1>6 DEF Crash
<1>7. ASSUME NEW r \in Procs, Plan(r) PROVE Earned(k)
  <2>1. CASE PlanTooWide(r)
    BY <1>1, <1>2, <1>3, <2>1 DEF PlanTooWide
  <2>2. CASE ~PlanTooWide(r)
    <3>1. PICK keys, blocked, saved :
             /\ Dispatch(r, keys, blocked, saved)
             /\ \A j \in keys : Earned(j)
      BY <1>7, <2>2, PlansEarned
    <3>2. procs[r] \in Proc
      BY <1>1
    <3> QED
      BY <1>1, <1>2, <3>1, <3>2 DEF Dispatch, Proc
  <2> QED
    BY <2>1, <2>2
<1>8. ASSUME NEW r \in Procs, Write(r) PROVE Earned(k)
  <2>0. procs[r] \in Proc
    BY <1>1
  <2>1. CASE CreateCard(r)
    BY <1>1, <1>2, <2>0, <2>1 DEF CreateCard, Proc
  <2>2. CASE CreateCardFails(r)
    BY <1>1, <1>2, <2>0, <2>2 DEF CreateCardFails, Proc
  <2>3. CASE UpsertRow(r)
    BY <1>1, <1>2, <2>0, <2>3, EngineAssumption DEF UpsertRow, Proc
  <2>4. CASE BlockCard(r)
    BY <1>1, <1>2, <2>0, <2>4 DEF BlockCard, Proc
  <2>5. CASE SaveRun(r)
    BY <1>1, <1>2, <1>4, <2>5 DEF SaveRun
  <2>6. CASE LaunchReturns(r)
    BY <1>1, <1>2, <1>3, <2>6 DEF LaunchReturns
  <2> QED
    BY <1>8, <2>1, <2>2, <2>3, <2>4, <2>5, <2>6 DEF Write
<1>9. ASSUME NEW r \in Procs, BeginPass(r) PROVE Earned(k)
  BY <1>1, <1>2, <1>9, EngineAssumption DEF BeginPass, IdleProc
<1>10. ASSUME NEW r \in Procs, ReadRun(r) PROVE Earned(k)
  <2> procs[r] \in Proc
    BY <1>1
  <2> QED
    BY <1>1, <1>2, <1>10 DEF ReadRun, Proc
<1>11. ASSUME NEW r \in Procs, SkipEvent(r) PROVE Earned(k)
  BY <1>1, <1>2, <1>4, <1>11 DEF SkipEvent
<1>12. ASSUME NEW r \in Procs, MarkNode(r) PROVE Earned(k)
  <2> procs[r] \in Proc
    BY <1>1
  <2> QED
    BY <1>1, <1>2, <1>12 DEF MarkNode, Proc
<1>13. CASE procs' = procs
  BY <1>1, <1>2, <1>13
<1>14. ASSUME NEW j \in Key, Complete(j) \/ GiveUp(j) PROVE procs' = procs
  BY <1>14 DEF Complete, GiveUp, Finish
<1>15. UNCHANGED vars => procs' = procs
  BY DEF vars
<1> QED
  BY <1>5, <1>6, <1>7, <1>8, <1>9, <1>10, <1>11, <1>12, <1>13, <1>14, <1>15
     DEF Next, Advance

\* A step creates a card only from what a process holds, and never removes one.
LEMMA CardsStay ==
    ASSUME IInv, [Next]_vars, NEW k \in Key
    PROVE  /\ tasks[k] # "none" => tasks'[k] # "none"
           /\ tasks'[k] # "none" =>
                 tasks[k] # "none" \/ \E p \in Procs : k \in Held(procs[p])
<1>1. /\ tasks \in [Key -> {"none", "open", "blocked", "done"}]
      /\ procs \in [Procs -> Proc]
  BY DEF IInv, TypeOK
<1>2. ASSUME NEW p \in Procs, CreateCard(p)
      PROVE  \E j \in procs[p].todo : tasks' = [tasks EXCEPT ![j] =
                 IF tasks[j] = "none" THEN "open" ELSE tasks[j]]
  BY <1>2 DEF CreateCard
<1>3. ASSUME NEW p \in Procs, NEW j \in procs[p].todo,
             tasks' = [tasks EXCEPT ![j] =
                 IF tasks[j] = "none" THEN "open" ELSE tasks[j]]
      PROVE  /\ tasks[k] # "none" => tasks'[k] # "none"
             /\ tasks'[k] # "none" => tasks[k] # "none" \/ k \in Held(procs[p])
  BY <1>1, <1>3 DEF Held
<1>4. ASSUME NEW p \in Procs, Advance(p), ~CreateCard(p), ~BlockCard(p)
      PROVE  tasks' = tasks
  BY <1>4 DEF Advance, Write, Plan, PlanFanOut, PlanTooWide, PlanExhausted,
              PlanRetry, PlanNoEdge, PlanCard, PlanHuman, PlanExit, PlanWait,
              PlanFanIn, PlanTool, Dispatch, board, BeginPass, ReadRun,
              SkipEvent, MarkNode, CreateCardFails, UpsertRow, SaveRun,
              LaunchReturns
<1>5. ASSUME NEW p \in Procs, BlockCard(p)
      PROVE  \/ tasks' = tasks
             \/ \E j \in Key : /\ tasks' = [tasks EXCEPT ![j] = "blocked"]
                               /\ tasks[j] # "none"
  <2>1. procs[p].block \in Key
    BY <1>1, <1>5 DEF BlockCard, Proc
  <2>2. CASE tasks[procs[p].block] = "open"
    BY <1>5, <2>1, <2>2 DEF BlockCard
  <2>3. CASE tasks[procs[p].block] # "open"
    BY <1>5, <2>3 DEF BlockCard, board
  <2> QED
    BY <2>2, <2>3
<1>6. ASSUME NEW j \in Key, Complete(j) \/ GiveUp(j)
      PROVE  tasks' = [tasks EXCEPT ![j] = "done"] /\ tasks[j] # "none"
  BY <1>6 DEF Complete, GiveUp, Finish
<1>7. ASSUME NEW p \in Procs, Launch(p) \/ Crash(p) PROVE tasks' = tasks
  BY <1>7 DEF Launch, Crash, board
<1>8. ASSUME UNCHANGED vars PROVE tasks' = tasks
  BY <1>8 DEF vars
<1> QED
  BY <1>1, <1>2, <1>3, <1>4, <1>5, <1>6, <1>7, <1>8 DEF Next

\* An event is of a card.
LEMMA EventStep ==
    ASSUME IInv, WorkInv, [Next]_vars
    PROVE  \A i \in 1..Len(log') : tasks'[log'[i].task] # "none"
<1>1. tasks \in [Key -> {"none", "open", "blocked", "done"}] /\ log \in Seq(Event)
  BY DEF IInv, TypeOK
<1>2. \A i \in 1..Len(log) : log[i].task \in Key /\ tasks[log[i].task] # "none"
  <2>1. \A i \in 1..Len(log) : log[i] \in Event
    BY <1>1
  <2>2. \A e \in Event : e.task \in Key
    BY DEF Event
  <2> QED
    BY <2>1, <2>2 DEF WorkInv
<1>3. ASSUME log' = log PROVE \A i \in 1..Len(log') : tasks'[log'[i].task] # "none"
  BY <1>2, <1>3, CardsStay
<1>4. ASSUME NEW e, log' = Append(log, e), e.task \in Key, tasks'[e.task] # "none"
      PROVE  \A i \in 1..Len(log') : tasks'[log'[i].task] # "none"
  <2> SUFFICES ASSUME NEW i \in 1..Len(log') PROVE tasks'[log'[i].task] # "none"
    OBVIOUS
  <2>1. CASE i \in 1..Len(log)
    <3>1. log'[i] = log[i]
      BY <1>1, <1>4, <2>1
    <3> QED
      BY <1>2, <2>1, <3>1, CardsStay
  <2>2. CASE i = Len(log) + 1
    <3>1. log'[i] = e
      BY <1>1, <1>4, <2>2
    <3> QED
      BY <1>4, <3>1
  <2> QED
    BY <1>1, <1>4, <2>1, <2>2
<1>5. ASSUME NEW p \in Procs, BlockCard(p)
      PROVE  \A i \in 1..Len(log') : tasks'[log'[i].task] # "none"
  <2>1. procs[p].block \in Key
    BY <1>5 DEF BlockCard, IInv, TypeOK, Proc
  <2>2. CASE tasks[procs[p].block] = "open"
    <3>1. PICK e : /\ e = [task |-> procs[p].block, kind |-> "blocked",
                           ans |-> BlankAnswer]
                   /\ log' = Append(log, e)
      BY <1>5, <2>2 DEF BlockCard
    <3>2. e.task = procs[p].block
      BY <3>1
    <3>3. tasks'[e.task] # "none"
      BY <2>1, <2>2, <3>2, CardsStay
    <3> QED
      BY <1>4, <2>1, <3>1, <3>2, <3>3
  <2>3. CASE tasks[procs[p].block] # "open"
    BY <1>3, <1>5, <2>3 DEF BlockCard, board
  <2> QED
    BY <2>2, <2>3
<1>6. ASSUME NEW k \in Key, NEW kind, NEW ans, Finish(k, kind, ans)
      PROVE  \A i \in 1..Len(log') : tasks'[log'[i].task] # "none"
  <2>1. PICK e : /\ e = [task |-> k, kind |-> kind, ans |-> ans]
                 /\ log' = Append(log, e) /\ tasks' = [tasks EXCEPT ![k] = "done"]
    BY <1>6 DEF Finish
  <2>2. e.task = k /\ tasks'[k] # "none"
    BY <1>1, <2>1
  <2> QED
    BY <1>4, <2>1, <2>2
<1>7. ASSUME NEW k \in Key, Complete(k) \/ GiveUp(k)
      PROVE  \A i \in 1..Len(log') : tasks'[log'[i].task] # "none"
  BY <1>6, <1>7 DEF Complete, GiveUp
<1>8. ASSUME NEW p \in Procs, Launch(p) \/ Crash(p) PROVE log' = log
  BY <1>8 DEF Launch, Crash, board
<1>9. ASSUME NEW p \in Procs, Advance(p), ~BlockCard(p) PROVE log' = log
  BY <1>9 DEF Advance, Write, Plan, PlanFanOut, PlanTooWide, PlanExhausted,
              PlanRetry, PlanNoEdge, PlanCard, PlanHuman, PlanExit, PlanWait,
              PlanFanIn, PlanTool, Dispatch, board, BeginPass, ReadRun,
              SkipEvent, MarkNode, CreateCard, CreateCardFails, UpsertRow,
              SaveRun, LaunchReturns
<1>10. ASSUME UNCHANGED vars PROVE log' = log
  BY <1>10 DEF vars
<1> QED
  BY <1>3, <1>5, <1>7, <1>8, <1>9, <1>10 DEF Next

-----------------------------------------------------------------------------
LEMMA WorkInit == Init => WorkInv
<1> SUFFICES ASSUME Init PROVE WorkInv
  OBVIOUS
<1>1. \A p \in Procs : Held(procs[p]) = {}
  BY EngineAssumption DEF Init, Held, IdleProc
<1> QED
  BY <1>1 DEF Init, WorkInv

LEMMA WorkStep == IInv /\ WorkInv /\ [Next]_vars => WorkInv'
<1> SUFFICES ASSUME IInv, WorkInv, [Next]_vars PROVE WorkInv'
  OBVIOUS
<1>1. \A k : Earned(k) => Earned(k)'
  BY LogStep, EarnedKept
<1>2. \A p \in Procs : \A k \in Held(procs[p])' : Earned(k)'
  BY <1>1, HoldsEarned
<1>3. \A k \in Key : tasks'[k] # "none" => Earned(k)'
  <2> SUFFICES ASSUME NEW k \in Key, tasks'[k] # "none" PROVE Earned(k)
    BY <1>1
  <2> QED
    BY CardsStay DEF WorkInv
<1>4. \A i \in 1..Len(log') : tasks'[log'[i].task] # "none"
  BY EventStep
<1> QED
  BY <1>2, <1>3, <1>4 DEF WorkInv, Key

\* Every card is the first of its node, is numbered by counting rows, or was
\* earned by a failure a gate reported (run_execution.py, _dispatch_node and the
\* gate's retry), whatever the processes, crashes and board errors.
THEOREM WorkIsEarned == Spec => []WorkInv
<1>1. IInv /\ WorkInv /\ [Next]_vars => WorkInv'
  BY WorkStep
<1> QED
  BY <1>1, WorkInit, Justified, PTL DEF Spec

\* A gate whose cards do not depend on counting rows is never tried beyond its
\* limit, if the gates that retry it allow no more tries than it does itself.
THEOREM GateLimited ==
    ASSUME \A g \in Gates : ~Counted(g),
           \A g, h \in Gates : RetryTarget[h] = g => GateLimit[h] <= GateLimit[g]
    PROVE  Spec => []GateWithinLimit
<1>1. ASSUME IInv, WorkInv, NEW g \in Gates, NEW a \in Attempts,
             tasks[<<g, a>>] # "none"
      PROVE  a <= GateLimit[g]
  <2>1. <<g, a>> \in Key /\ GateLimit[g] \in Nat \ {0} /\ a \in Nat
    BY GateAssumption, EngineAssumption DEF Key
  <2>2. Earned(<<g, a>>)
    BY <1>1, <2>1 DEF WorkInv
  <2>3. CASE a = 1
    BY <2>1, <2>3
  <2>4. CASE a # 1
    <3>1. PICK i \in GateFailures : Retried(<<g, a>>, i)
      BY <2>2, <2>4 DEF Earned
    <3>2. PICK h \in Gates : h = log[i].task[1]
      BY <3>1 DEF GateFailures
    <3>3. RetryTarget[h] = g /\ a <= GateLimit[h]
      BY <3>1, <3>2 DEF Retried
    <3>4. GateLimit[h] <= GateLimit[g] /\ GateLimit[h] \in Nat
      BY <3>3, GateAssumption
    <3> QED
      BY <2>1, <3>3, <3>4
  <2> QED
    BY <2>3, <2>4
<1>2. IInv /\ WorkInv => GateWithinLimit
  BY <1>1 DEF GateWithinLimit
<1> QED
  BY <1>2, Justified, WorkIsEarned, PTL

\* Where no card is numbered by counting rows, no crash, replay or overtaking
\* makes completed work run again: a node gets one card, and at most one more
\* for each failure that a gate reported.
THEOREM NothingTwice ==
    ASSUME \A n \in Nodes : ~Counted(n)
    PROVE  Spec => []NoDuplicateWork
<1>1. ASSUME IInv, WorkInv, NEW n \in Nodes
      PROVE  LET cards == {a \in Attempts : tasks[<<n, a>>] # "none"}
             IN  cards # {} => Cardinality(cards) <= 1 + Cardinality(GateFailures)
  <2> DEFINE cards == {a \in Attempts : tasks[<<n, a>>] # "none"}
             earned == {log[i].task[2] + 1 : i \in GateFailures}
  <2>1. log \in Seq(Event)
    BY <1>1 DEF IInv, TypeOK
  <2>2. IsFiniteSet(GateFailures)
    <3>1. IsFiniteSet(1..Len(log))
      BY <2>1, FS_Interval
    <3> QED
      BY <3>1, FS_Subset DEF GateFailures
  <2>3. IsFiniteSet(earned) /\ Cardinality(earned) <= Cardinality(GateFailures)
    <3>1. PICK f : f = [i \in GateFailures |-> log[i].task[2] + 1]
      OBVIOUS
    <3>2. f \in Surjection(GateFailures, earned)
      BY <3>1 DEF Surjection
    <3> HIDE DEF earned
    <3> QED
      BY <2>2, <3>2, FS_Surjection
  <2>4. cards \subseteq earned \union {1}
    <3> SUFFICES ASSUME NEW a \in cards, a # 1 PROVE a \in earned
      OBVIOUS
    <3>1. <<n, a>> \in Key
      BY DEF Key
    <3>2. PICK i \in GateFailures : Retried(<<n, a>>, i)
      BY <1>1, <3>1 DEF WorkInv, Earned
    <3> QED
      BY <3>2 DEF Retried
  <2>5. /\ IsFiniteSet(earned \union {1})
        /\ Cardinality(earned \union {1}) <= Cardinality(earned) + 1
    BY <2>3, FS_AddElement, FS_CardinalityType
  <2>6. Cardinality(cards) <= Cardinality(earned \union {1}) /\ IsFiniteSet(cards)
    BY <2>4, <2>5, FS_Subset
  <2>7. /\ Cardinality(GateFailures) \in Nat /\ Cardinality(earned) \in Nat
        /\ Cardinality(cards) \in Nat /\ Cardinality(earned \union {1}) \in Nat
    BY <2>2, <2>3, <2>5, <2>6, FS_CardinalityType
  <2> HIDE DEF cards, earned
  <2>8. Cardinality(cards) <= 1 + Cardinality(GateFailures)
    BY <2>3, <2>5, <2>6, <2>7
  <2> QED
    BY <2>8 DEF cards
<1>2. IInv /\ WorkInv => NoDuplicateWork
  BY <1>1 DEF NoDuplicateWork
<1> QED
  BY <1>2, Justified, WorkIsEarned, PTL

-----------------------------------------------------------------------------
(***************************************************************************)
(* No event is passed over: one reconciler, of any pipeline, that nothing  *)
(* interrupts.  Between its passes every card has a row that names it, so  *)
(* a pass takes all events past the cursor and applies one after another.  *)
(***************************************************************************)
LEMMA Tables ==
    ASSUME IInv
    PROVE  /\ procs \in [Procs -> Proc] /\ run \in RunRow /\ run.cursor \in Nat
           /\ rows \in [Key -> NodeRow \union {NoRow}]
           /\ tasks \in [Key -> {"none", "open", "blocked", "done"}]
           /\ log \in Seq(Event) /\ Len(log) \in Nat
           /\ \A i \in 1..Len(log) : log[i] \in Event /\ log[i].task \in Key
<1>1. /\ procs \in [Procs -> Proc] /\ run \in RunRow /\ log \in Seq(Event)
      /\ rows \in [Key -> NodeRow \union {NoRow}]
      /\ tasks \in [Key -> {"none", "open", "blocked", "done"}]
  BY DEF IInv, TypeOK
<1>2. run.cursor \in Nat
  BY <1>1 DEF RunRow
<1>3. \A e \in Event : e.task \in Key
  BY DEF Event
<1>4. Len(log) \in Nat /\ \A i \in 1..Len(log) : log[i] \in Event
  BY <1>1
<1> QED
  BY <1>1, <1>2, <1>3, <1>4

\* The events of a batch are the next ones after c, without a gap.
Gapless(batch, c) ==
    \A i \in batch : /\ i \in 1..Len(log) /\ i > c
                     /\ \A j \in 1..i : j > c => j \in batch

\* Where a pass is: the event in hand is the first that the cursor has not passed.
Proceeds(q) ==
    /\ q.phase = "read" => Gapless(q.batch, run.cursor)
    /\ q.phase \in {"mark", "plan"} =>
           q.evt = run.cursor + 1 /\ q.evt <= Len(log) /\ Gapless(q.batch, q.evt)
    /\ q.phase = "plan" => Done(log[q.evt].task)
    /\ q.phase = "write" /\ q.save # NoRun =>
           /\ q.save.cursor = run.cursor + 1 /\ q.save.cursor <= Len(log)
           /\ Done(log[q.save.cursor].task)
           /\ Gapless(q.batch, q.save.cursor)

\* Every card has its row, but for the one whose row is being written.
Known(q) ==
    /\ \A k \in Key : tasks[k] # "none" => Owned(k) \/ k = q.cur
    /\ q.cur # NoKey => q.phase = "write" /\ q.got

CoverInv(p) ==
    /\ \A k \in Key : rows[k] # NoRow => rows[k].card
    /\ run.cursor <= Len(log) /\ CursorCovers
    /\ Known(procs[p]) /\ Proceeds(procs[p])

\* Nothing interrupts the only reconciler.
Undisturbed(p) == Procs = {p} /\ MaxCrashes = 0 /\ MaxBoardErrors = 0

\* A step that changes only what the process remembers.
LEMMA CoverMemory ==
    ASSUME IInv, NEW p \in Procs, CoverInv(p), NEW q, procs'[p] = q,
           UNCHANGED <<run, rows, tasks, log>>, Known(q), Proceeds(q)
    PROVE  CoverInv(p)'
  BY DEF CoverInv, CursorCovers, Known, Proceeds, Gapless, Owned, Done

LEMMA IdleCovers ==
    ASSUME NEW q, Known(q), q.cur = NoKey
    PROVE  Known(IdleProc) /\ Proceeds(IdleProc)
<1>1. IdleProc.phase = "idle" /\ IdleProc.cur = NoKey
  BY DEF IdleProc
<1>2. \A k \in Key : k # NoKey
  BY EngineAssumption
<1> QED
  BY <1>1, <1>2 DEF Known, Proceeds

LEMMA CoverBeginPass ==
    ASSUME IInv, WorkInv, NEW p \in Procs, CoverInv(p), BeginPass(p)
    PROVE  CoverInv(p)'
<1>1. PICK q : q = [IdleProc EXCEPT !.phase = "read", !.batch = Unseen] /\ procs'[p] = q
  BY Tables DEF BeginPass
<1>2. q.phase = "read" /\ q.batch = Unseen /\ q.cur = NoKey
  BY <1>1 DEF IdleProc
<1>3. UNCHANGED <<run, rows, tasks, log>>
  BY DEF BeginPass, store, board
<1>4. procs[p].cur = NoKey
  BY DEF BeginPass, CoverInv, Known
<1>5. \A k \in Key : tasks[k] # "none" => Owned(k)
  <2>1. \A k \in Key : k # NoKey
    BY EngineAssumption
  <2> QED
    BY <1>4, <2>1 DEF CoverInv, Known
<1>6. \A i \in 1..Len(log) : Owned(log[i].task)
  BY <1>5, Tables DEF WorkInv
<1>7. Gapless(Unseen, run.cursor)
  <2>1. \A i \in 1..Len(log) : \A j \in 1..i : j \in 1..Len(log)
    BY Tables
  <2>2. \A i : i \in Unseen <=> i \in 1..Len(log) /\ i > run.cursor
    BY <1>6 DEF Unseen
  <2> QED
    BY <2>1, <2>2 DEF Gapless
<1>8. Known(q) /\ Proceeds(q)
  BY <1>2, <1>5, <1>7 DEF Known, Proceeds
<1> QED
  BY <1>1, <1>3, <1>8, CoverMemory

LEMMA CoverReadRun ==
    ASSUME IInv, NEW p \in Procs, CoverInv(p), ReadRun(p)
    PROVE  CoverInv(p)'
<1>1. PICK i \in procs[p].batch :
         /\ NextEvent(p, i)
         /\ procs' = [procs EXCEPT ![p] =
                [procs[p] EXCEPT !.phase = "mark", !.batch = procs[p].batch \ {i},
                                 !.evt = i, !.snap = run]]
  BY DEF ReadRun
<1>2. PICK q : /\ q = [procs[p] EXCEPT !.phase = "mark",
                                       !.batch = procs[p].batch \ {i},
                                       !.evt = i, !.snap = run]
               /\ procs'[p] = q
  BY <1>1, Tables
<1>3. /\ q.phase = "mark" /\ q.batch = procs[p].batch \ {i} /\ q.evt = i
      /\ q.cur = procs[p].cur
  <2>1. procs[p] \in Proc
    BY Tables
  <2> QED
    BY <1>2, <2>1 DEF Proc
<1>4. /\ UNCHANGED <<run, rows, tasks, log>>
      /\ Gapless(procs[p].batch, run.cursor) /\ procs[p].cur = NoKey
  BY DEF ReadRun, store, board, CoverInv, Proceeds, Known
<1>5. i = run.cursor + 1 /\ i <= Len(log)
  <2>1. i \in 1..Len(log) /\ i > run.cursor
    BY <1>1, <1>4 DEF Gapless
  <2>2. run.cursor + 1 \in 1..i /\ run.cursor + 1 > run.cursor
    BY <2>1, Tables
  <2>3. run.cursor + 1 \in procs[p].batch
    BY <1>1, <1>4, <2>2 DEF Gapless
  <2> QED
    BY <1>1, <2>1, <2>2, <2>3, Tables DEF NextEvent
<1>6. Gapless(q.batch, i)
  <2>1. \A j \in q.batch : j \in 1..Len(log) /\ j > i
    BY <1>3, <1>4, <1>5, Tables DEF Gapless
  <2>2. \A j \in q.batch : \A h \in 1..j : h > i => h \in q.batch
    BY <1>3, <1>4, <1>5, Tables DEF Gapless
  <2> QED
    BY <2>1, <2>2 DEF Gapless
<1>7. Known(q) /\ Proceeds(q)
  BY <1>3, <1>4, <1>5, <1>6 DEF CoverInv, Known, Proceeds
<1> QED
  BY <1>2, <1>4, <1>7, CoverMemory

LEMMA CoverSkipEvent ==
    ASSUME IInv, WorkInv, NEW p \in Procs, CoverInv(p), SkipEvent(p)
    PROVE  FALSE
<1>1. PICK i \in procs[p].batch : ~Owned(log[i].task)
  BY DEF SkipEvent
<1>2. procs[p].cur = NoKey /\ i \in 1..Len(log)
  BY DEF SkipEvent, CoverInv, Known, Proceeds, Gapless
<1>3. log[i].task \in Key /\ log[i].task # NoKey /\ tasks[log[i].task] # "none"
  BY <1>2, Tables, EngineAssumption DEF WorkInv
<1> QED
  BY <1>1, <1>2, <1>3 DEF CoverInv, Known

LEMMA CoverMarkNode ==
    ASSUME IInv, NEW p \in Procs, CoverInv(p), MarkNode(p),
           \A k \in Key : Done(k) => Done(k)'
    PROVE  CoverInv(p)'
<1>1. PICK row : /\ row = [status |-> IF GatePassed(p) THEN "SUCCEEDED" ELSE "PARTIAL",
                           upd |-> AnswerOf(p).upd, card |-> TRUE]
                 /\ rows' = [rows EXCEPT ![EventOf(p).task] = row]
  BY DEF MarkNode
<1>2. procs[p].phase = "mark" /\ UNCHANGED <<run, tasks, log>>
  BY DEF MarkNode, board
<1>3. PICK k \in Key : EventOf(p).task = k /\ log[procs[p].evt].task = k
  BY <1>2, InHand, Tables DEF EventOf
<1>4. row \in NodeRow /\ row.card = TRUE /\ row.status \in {"SUCCEEDED", "PARTIAL"}
  BY <1>1, <1>2, InHand DEF NodeRow, Answer
<1>5. row # NoRow
  BY <1>4, EngineAssumption
<1>6. rows'[k] = row /\ \A l \in Key : l # k => rows'[l] = rows[l]
  BY <1>1, <1>3, Tables
<1>7. PICK q : q = [procs[p] EXCEPT !.phase = "plan"] /\ procs'[p] = q
  BY Tables DEF MarkNode
<1>8. /\ q.phase = "plan" /\ q.evt = procs[p].evt /\ q.batch = procs[p].batch
      /\ q.cur = procs[p].cur
  <2>1. procs[p] \in Proc
    BY Tables
  <2> QED
    BY <1>7, <2>1 DEF Proc
<1>9. procs[p].cur = NoKey
  BY <1>2 DEF CoverInv, Known
<1>10. /\ \A l \in Key : rows'[l] # NoRow => rows'[l].card
       /\ \A l \in Key : Owned(l) => Owned(l)'
       /\ Done(k)'
  BY <1>4, <1>5, <1>6 DEF CoverInv, Owned, Done
<1>11. Known(q)'
  BY <1>2, <1>8, <1>9, <1>10 DEF CoverInv, Known
<1>12. Proceeds(q)'
  BY <1>2, <1>3, <1>8, <1>10 DEF CoverInv, Proceeds, Gapless
<1>13. CursorCovers'
  BY <1>2, Tables DEF CoverInv, CursorCovers
<1> QED
  BY <1>2, <1>7, <1>10, <1>11, <1>12, <1>13 DEF CoverInv, Known, Proceeds, Gapless

\* The log grows, and no card comes to be.
LEMMA CoverGrows ==
    ASSUME IInv, NEW p \in Procs, CoverInv(p), NEW q, procs'[p] = q,
           UNCHANGED <<run, rows>>, LogGrows,
           \A k \in Key : tasks'[k] # "none" => tasks[k] # "none",
           Known(q), Proceeds(q)
    PROVE  CoverInv(p)'
<1>1. /\ 1..Len(log) \subseteq 1..Len(log') /\ Len(log) <= Len(log')
      /\ Len(log) \in Nat /\ Len(log') \in Nat
      /\ \A i \in 1..Len(log) : log'[i] = log[i]
  <2>1. Len(log') \in Nat
    BY DEF LogGrows
  <2> QED
    BY <2>1, Tables DEF LogGrows
<1>2. \A k \in Key : (Owned(k)' <=> Owned(k)) /\ (Done(k)' <=> Done(k))
  BY DEF Owned, Done
<1>3. \A batch, c : Gapless(batch, c) => Gapless(batch, c)'
  BY <1>1 DEF Gapless
<1>4. \A i \in 1..Len(log) : Done(log[i].task) => Done(log[i].task)'
  BY <1>1, <1>2, Tables
<1>5. CursorCovers' /\ run'.cursor <= Len(log')
  <2>1. \A i \in 1..run.cursor : i \in 1..Len(log)
    BY Tables DEF CoverInv
  <2>2. run.cursor <= Len(log')
    BY <1>1, Tables DEF CoverInv
  <2> QED
    BY <1>4, <2>1, <2>2 DEF CoverInv, CursorCovers
<1>6. Known(q)'
  BY <1>2 DEF Known
<1>7. Proceeds(q)'
  <2>1. q.phase = "read" => Gapless(q.batch, run.cursor)'
    BY <1>3 DEF Proceeds
  <2>2. q.phase \in {"mark", "plan"} =>
            q.evt = run.cursor + 1 /\ q.evt <= Len(log') /\ Gapless(q.batch, q.evt)'
    BY <1>1, <1>3, Tables DEF Proceeds
  <2>3. q.phase = "plan" => Done(log[q.evt].task)'
    <3> SUFFICES ASSUME q.phase = "plan" PROVE Done(log[q.evt].task)'
      OBVIOUS
    <3>1. q.evt \in 1..Len(log) /\ Done(log[q.evt].task)
      BY Tables DEF Proceeds
    <3> QED
      BY <1>4, <3>1
  <2>4. q.phase = "write" /\ q.save # NoRun =>
            /\ q.save.cursor = run.cursor + 1 /\ q.save.cursor <= Len(log')
            /\ Done(log[q.save.cursor].task)'
            /\ Gapless(q.batch, q.save.cursor)'
    <3> SUFFICES ASSUME q.phase = "write", q.save # NoRun
                 PROVE  /\ q.save.cursor = run.cursor + 1 /\ q.save.cursor <= Len(log')
                        /\ Done(log[q.save.cursor].task)'
                        /\ Gapless(q.batch, q.save.cursor)'
      OBVIOUS
    <3>1. /\ q.save.cursor = run.cursor + 1 /\ q.save.cursor \in 1..Len(log)
          /\ Done(log[q.save.cursor].task)
          /\ Gapless(q.batch, q.save.cursor)
      BY Tables DEF Proceeds
    <3> QED
      BY <1>1, <1>3, <1>4, <3>1
  <2> QED
    BY <2>1, <2>2, <2>3, <2>4 DEF Proceeds, Gapless
<1> QED
  BY <1>5, <1>6, <1>7 DEF CoverInv, Known, Proceeds, Gapless

LEMMA CoverFinish ==
    ASSUME IInv, NEW p \in Procs, CoverInv(p), [Next]_vars,
           NEW k \in Key, Complete(k) \/ GiveUp(k)
    PROVE  CoverInv(p)'
<1>1. PICK kind, ans : Finish(k, kind, ans)
  BY DEF Complete, GiveUp
<1>2. tasks' = [tasks EXCEPT ![k] = "done"] /\ UNCHANGED <<run, rows, procs>>
  BY <1>1 DEF Finish, store
<1>3. tasks[k] # "none"
  BY DEF Complete, GiveUp
<1>4. \A l \in Key : tasks'[l] # "none" => tasks[l] # "none"
  BY <1>2, <1>3, Tables
<1>5. LogGrows
  BY LogStep
<1>6. PICK q : q = procs[p] /\ procs'[p] = q
  BY <1>2
<1>7. Known(q) /\ Proceeds(q)
  BY <1>6 DEF CoverInv
<1> QED
  BY <1>2, <1>4, <1>5, <1>6, <1>7, CoverGrows

LEMMA CoverBlockCard ==
    ASSUME IInv, NEW p \in Procs, CoverInv(p), [Next]_vars, BlockCard(p)
    PROVE  CoverInv(p)'
<1>1. procs[p] \in Proc /\ procs[p].phase = "write"
  BY Tables DEF BlockCard, Dispatched, Writing
<1>2. PICK q : q = [procs[p] EXCEPT !.block = NoKey] /\ procs'[p] = q
  BY Tables DEF BlockCard
<1>3. /\ q.phase = "write" /\ q.cur = procs[p].cur /\ q.got = procs[p].got
      /\ q.batch = procs[p].batch /\ q.save = procs[p].save
  BY <1>1, <1>2 DEF Proc
<1>4. Known(q) /\ Proceeds(q)
  BY <1>1, <1>3 DEF CoverInv, Known, Proceeds
<1>5. \A l \in Key : tasks'[l] # "none" => tasks[l] # "none"
  <2>1. CASE tasks[procs[p].block] = "open"
    <3>1. tasks' = [tasks EXCEPT ![procs[p].block] = "blocked"]
      BY <2>1 DEF BlockCard
    <3> QED
      BY <2>1, <3>1, Tables
  <2>2. CASE tasks[procs[p].block] # "open"
    BY <2>2 DEF BlockCard, board
  <2> QED
    BY <2>1, <2>2
<1>6. LogGrows /\ UNCHANGED <<run, rows>>
  BY LogStep DEF BlockCard, store
<1> QED
  BY <1>2, <1>4, <1>5, <1>6, CoverGrows

LEMMA CoverLaunch ==
    ASSUME IInv, NEW p \in Procs, CoverInv(p), Launch(p)
    PROVE  CoverInv(p)'
<1>1. PICK ctx \in Contexts :
         /\ run' = [status |-> "RUNNING", cursor |-> 0, ctx |-> ctx]
         /\ procs' = [procs EXCEPT ![p] =
                [IdleProc EXCEPT !.phase = "write", !.todo = EntryKeys(ctx)]]
  BY DEF Launch
<1>2. run'.cursor = 0
  BY <1>1
<1>3. PICK q : /\ q = [IdleProc EXCEPT !.phase = "write", !.todo = EntryKeys(ctx)]
               /\ procs'[p] = q
  BY <1>1, Tables
<1>4. q.phase = "write" /\ q.save = NoRun /\ q.cur = NoKey
  BY <1>3 DEF IdleProc
<1>5. procs[p].cur = NoKey /\ UNCHANGED <<rows, tasks, log>>
  BY DEF Launch, board, CoverInv, Known
<1>6. Known(q)' /\ Proceeds(q)'
  BY <1>4, <1>5 DEF CoverInv, Known, Proceeds, Owned
<1>7. CursorCovers' /\ run'.cursor <= Len(log')
  BY <1>2, <1>5, Tables DEF CursorCovers
<1> QED
  BY <1>3, <1>5, <1>6, <1>7 DEF CoverInv, Known, Proceeds, Gapless

LEMMA CoverPlan ==
    ASSUME IInv, NEW p \in Procs, CoverInv(p), Plan(p)
    PROVE  CoverInv(p)'
<1>1. procs[p].phase = "plan" /\ UNCHANGED <<run, rows, tasks, log>>
  BY DEF Plan, PlanFanOut, PlanTooWide, PlanExhausted, PlanRetry, PlanNoEdge,
         PlanCard, PlanHuman, PlanExit, PlanWait, PlanFanIn, PlanTool,
         Routing, GateFailed, Planning, Dispatch, store, board
<1>2. /\ procs[p].evt = run.cursor + 1 /\ procs[p].evt <= Len(log)
      /\ Gapless(procs[p].batch, procs[p].evt) /\ Done(log[procs[p].evt].task)
      /\ procs[p].cur = NoKey
  BY <1>1 DEF CoverInv, Proceeds, Known
<1>3. CASE PlanTooWide(p)
  <2>1. procs'[p] = IdleProc
    BY <1>3, Tables DEF PlanTooWide
  <2> QED
    BY <1>1, <1>2, <2>1, IdleCovers, CoverMemory DEF CoverInv
<1>4. CASE ~PlanTooWide(p)
  <2>1. PICK keys, blocked, ctx :
           \E status \in {procs[p].snap.status, Resumed(procs[p].snap.status),
                          "PAUSED_HUMAN", "SUCCEEDED", "BLOCKED"} :
               Dispatch(p, keys, blocked, Saved(p, status, ctx))
    BY <1>4, PlanSaves
  <2>2. PICK saved : /\ Dispatch(p, keys, blocked, saved)
                     /\ saved.cursor = procs[p].evt
    BY <2>1 DEF Saved
  <2>3. PICK q : /\ q = [procs[p] EXCEPT !.phase = "write", !.todo = keys,
                                         !.block = blocked, !.save = saved]
                 /\ procs'[p] = q
    BY <2>2, Tables DEF Dispatch
  <2>4. /\ q.phase = "write" /\ q.save = saved /\ q.batch = procs[p].batch
        /\ q.cur = NoKey
    <3>1. procs[p] \in Proc
      BY Tables
    <3> QED
      BY <1>2, <2>3, <3>1 DEF Proc
  <2>5. Known(q) /\ Proceeds(q)
    BY <1>2, <2>2, <2>4 DEF CoverInv, Known, Proceeds
  <2> QED
    BY <1>1, <2>3, <2>5, CoverMemory
<1> QED
  BY <1>3, <1>4

LEMMA CoverCreateCard ==
    ASSUME IInv, NEW p \in Procs, CoverInv(p), CreateCard(p)
    PROVE  CoverInv(p)'
<1>1. PICK k \in procs[p].todo :
         /\ tasks' = [tasks EXCEPT ![k] = IF tasks[k] = "none" THEN "open" ELSE tasks[k]]
         /\ procs' = [procs EXCEPT ![p] =
                [procs[p] EXCEPT !.todo = procs[p].todo \ {k}, !.cur = k, !.got = TRUE]]
  BY DEF CreateCard
<1>2. PICK q : /\ q = [procs[p] EXCEPT !.todo = procs[p].todo \ {k},
                                       !.cur = k, !.got = TRUE]
               /\ procs'[p] = q
  BY <1>1, Tables
<1>3. procs[p] \in Proc
  BY Tables
<1>4. /\ q.phase = "write" /\ q.save = procs[p].save /\ q.batch = procs[p].batch
      /\ q.cur = k /\ q.got = TRUE
      /\ procs[p].phase = "write" /\ procs[p].cur = NoKey
      /\ UNCHANGED <<run, rows, log>>
  BY <1>2, <1>3 DEF Proc, CreateCard, Writing, store
<1>5. k \in Key
  BY <1>3 DEF Proc
<1>6. \A l \in Key : l # NoKey /\ (l # k => tasks'[l] = tasks[l])
  BY <1>1, <1>5, Tables, EngineAssumption
<1>7. Known(q)'
  BY <1>4, <1>6 DEF CoverInv, Known, Owned
<1>8. Proceeds(q)'
  BY <1>4 DEF CoverInv, Proceeds, Gapless, Done
<1>9. CursorCovers'
  BY <1>4 DEF CoverInv, CursorCovers, Done
<1> QED
  BY <1>2, <1>4, <1>7, <1>8, <1>9 DEF CoverInv, Known, Proceeds, Gapless

LEMMA CoverUpsertRow ==
    ASSUME IInv, NEW p \in Procs, CoverInv(p), UpsertRow(p),
           \A k \in Key : Done(k) => Done(k)'
    PROVE  CoverInv(p)'
<1>1. PICK k : k = procs[p].cur
  OBVIOUS
<1>2. PICK row : /\ row = [status |-> "DISPATCHED", upd |-> NoUpdate,
                           card |-> procs[p].got]
                 /\ rows' = [rows EXCEPT ![k] = row]
  BY <1>1 DEF UpsertRow
<1>3. procs[p] \in Proc
  BY Tables
<1>4. /\ procs[p].phase = "write" /\ k \in Key /\ procs[p].got = TRUE
      /\ UNCHANGED <<run, tasks, log>>
  <2>1. procs[p].got \in BOOLEAN
    BY <1>3 DEF Proc
  <2> QED
    BY <1>1, <1>3, <2>1 DEF UpsertRow, Writing, board, Proc, CoverInv, Known
<1>5. row.card = TRUE
  BY <1>2, <1>4
<1>6. row # NoRow
  <2>1. row \in NodeRow
    BY <1>2, <1>4, BlankTypes DEF NodeRow
  <2> QED
    BY <2>1, EngineAssumption
<1>7. rows'[k] = row /\ \A l \in Key : l # k => rows'[l] = rows[l]
  BY <1>2, <1>4, Tables
<1>8. PICK q : /\ q = [procs[p] EXCEPT !.cur = NoKey, !.got = FALSE]
               /\ procs'[p] = q
  BY Tables DEF UpsertRow
<1>9. /\ q.phase = "write" /\ q.save = procs[p].save /\ q.batch = procs[p].batch
      /\ q.cur = NoKey
  BY <1>3, <1>4, <1>8 DEF Proc
<1>10. /\ \A l \in Key : rows'[l] # NoRow => rows'[l].card
       /\ \A l \in Key : Owned(l) => Owned(l)'
       /\ Owned(k)'
  BY <1>5, <1>6, <1>7 DEF CoverInv, Owned
<1>11. Known(q)'
  BY <1>1, <1>4, <1>9, <1>10 DEF CoverInv, Known
<1>12. Proceeds(q)'
  <2> SUFFICES ASSUME q.save # NoRun PROVE Proceeds(q)'
    BY <1>9 DEF Proceeds
  <2>1. PICK c : c = q.save.cursor
    OBVIOUS
  <2>2. c = run.cursor + 1 /\ c <= Len(log) /\ Done(log[c].task) /\ Gapless(q.batch, c)
    BY <1>4, <1>9, <2>1 DEF CoverInv, Proceeds
  <2>3. c \in 1..Len(log)
    BY <2>2, Tables
  <2>4. Done(log[c].task)'
    BY <1>4, <2>2, <2>3, Tables
  <2> QED
    BY <1>4, <1>9, <2>1, <2>2, <2>4 DEF Proceeds, Gapless
<1>13. CursorCovers'
  BY <1>4, Tables DEF CoverInv, CursorCovers
<1> QED
  BY <1>4, <1>8, <1>10, <1>11, <1>12, <1>13 DEF CoverInv, Known, Proceeds, Gapless

LEMMA CoverSaveRun ==
    ASSUME IInv, NEW p \in Procs, CoverInv(p), SaveRun(p)
    PROVE  CoverInv(p)'
<1>1. /\ procs[p].phase = "write" /\ procs[p].cur = NoKey
      /\ procs[p].save # NoRun /\ run' = procs[p].save
      /\ UNCHANGED <<rows, tasks, log>>
  BY DEF SaveRun, Dispatched, Writing, board
<1>2. PICK batch : batch = procs[p].batch
  OBVIOUS
<1>3. PICK q : q = Continue(batch) /\ procs'[p] = q
  BY <1>2, Tables DEF SaveRun
<1>4. /\ run'.cursor = run.cursor + 1 /\ run'.cursor <= Len(log)
      /\ Done(log[run'.cursor].task) /\ Gapless(batch, run'.cursor)
  BY <1>1, <1>2 DEF CoverInv, Proceeds
<1>5. /\ q.cur = NoKey
      /\ q.phase = "idle" \/ (q.phase = "read" /\ q.batch = batch)
  <2>1. CASE batch = {}
    BY <1>3, <2>1 DEF Continue, IdleProc
  <2>2. CASE batch # {}
    BY <1>3, <2>2 DEF Continue, IdleProc
  <2> QED
    BY <2>1, <2>2
<1>6. Known(q)' /\ Proceeds(q)'
  BY <1>1, <1>4, <1>5 DEF CoverInv, Known, Proceeds, Gapless, Owned
<1>7. CursorCovers'
  <2>1. \A i \in 1..(run.cursor + 1) : i \in 1..run.cursor \/ i = run.cursor + 1
    BY Tables
  <2> QED
    BY <1>1, <1>4, <2>1 DEF CoverInv, CursorCovers, Done
<1> QED
  BY <1>1, <1>3, <1>4, <1>6, <1>7 DEF CoverInv, Known, Proceeds, Gapless

LEMMA CoverStep ==
    ASSUME NEW p, Undisturbed(p), IInv, WorkInv, CoverInv(p), [Next]_vars,
           [\A k \in Key : Done(k) => Done(k)']_vars
    PROVE  CoverInv(p)'
<1>1. p \in Procs
  BY DEF Undisturbed
<1>2. CASE UNCHANGED vars
  <2>1. UNCHANGED <<run, rows, tasks, log, procs>>
    BY <1>2 DEF vars
  <2> QED
    BY <1>1, <2>1, CoverMemory DEF CoverInv
<1>3. CASE \A k \in Key : Done(k) => Done(k)'
  <2>1. ~CreateCardFails(p) /\ ~Crash(p)
    BY DEF CreateCardFails, Crash, Undisturbed, IInv, TypeOK
  <2>2. CASE LaunchReturns(p)
    <3>1. procs'[p] = IdleProc /\ UNCHANGED <<run, rows, tasks, log>>
      BY <1>1, <2>2, Tables DEF LaunchReturns, store, board
    <3>2. procs[p].cur = NoKey
      BY <2>2 DEF LaunchReturns, Dispatched
    <3> QED
      BY <1>1, <3>1, <3>2, IdleCovers, CoverMemory DEF CoverInv
  <2>3. CASE Write(p)
    BY <1>1, <1>3, <2>1, <2>2, <2>3, CoverCreateCard, CoverUpsertRow, CoverBlockCard,
       CoverSaveRun DEF Write
  <2>4. CASE Advance(p)
    BY <1>1, <1>3, <2>3, <2>4, CoverBeginPass, CoverReadRun, CoverSkipEvent,
       CoverMarkNode, CoverPlan DEF Advance
  <2>5. CASE \E k \in Key : Complete(k) \/ GiveUp(k)
    BY <1>1, <2>5, CoverFinish
  <2>6. CASE Launch(p)
    BY <1>1, <2>6, CoverLaunch
  <2>7. CASE Next
    BY <2>1, <2>4, <2>5, <2>6, <2>7 DEF Next, Undisturbed
  <2> QED
    BY <1>1, <1>2, <2>7
<1> QED
  BY <1>2, <1>3

LEMMA CoverInit ==
    ASSUME NEW p, Undisturbed(p), Init PROVE CoverInv(p)
<1>1. procs[p] = IdleProc /\ run.cursor = 0 /\ Len(log) = 0
  BY DEF Init, Undisturbed, NoRun
<1>2. IdleProc.phase = "idle" /\ IdleProc.cur = NoKey
  BY DEF IdleProc
<1> QED
  BY <1>1, <1>2 DEF Init, CoverInv, CursorCovers, Known, Proceeds

\* Of any pipeline, fan-outs, gates and humans included: when nothing interrupts
\* the only reconciler, its cursor passes no event that was not applied, unless
\* a dispatch puts finished work back (event_log.py: "every event at or below the
\* final cursor is guaranteed to be processed").
THEOREM EveryEventApplied ==
    ASSUME NEW p, Undisturbed(p)
    PROVE  Spec /\ DoneStaysDone => []CursorCovers
<1>1. Init => CoverInv(p)
  BY CoverInit
<1>2. IInv /\ WorkInv /\ CoverInv(p) /\ [Next]_vars
         /\ [\A k \in Key : Done(k) => Done(k)']_vars => CoverInv(p)'
  BY CoverStep
<1>3. CoverInv(p) => CursorCovers
  BY DEF CoverInv
<1> QED
  BY <1>1, <1>2, <1>3, Justified, WorkIsEarned, PTL DEF Spec, DoneStaysDone
=============================================================================
