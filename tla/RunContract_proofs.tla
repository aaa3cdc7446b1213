--------------------------- MODULE RunContract_proofs --------------------------
(***************************************************************************)
(* The engine implements the contract, for every pipeline, any number of   *)
(* processes and any number of faults.                                     *)
(***************************************************************************)
EXTENDS RunEngine_proofs

-----------------------------------------------------------------------------
(***************************************************************************)
(* What the contract asks beyond IInv: a run pauses only after a node that *)
(* leads to a human has reported, it never fails, and nothing happens      *)
(* before it has begun.                                                    *)
(***************************************************************************)
HumanReached == \E i \in 1..Len(log) : AsksHuman(log[i].task[1])

StatusJustified(r) == /\ r.status # "FAILED"
                      /\ r.status = "PAUSED_HUMAN" => HumanReached

Begun(q) ==
    /\ q.phase # "idle" => run.status # "NONE"
    /\ q.phase \in {"mark", "plan"} => q.snap.status # "NONE"
    /\ q.phase = "write" /\ q.save # NoRun => q.save.status # "NONE"
    /\ StatusJustified(q.snap) /\ StatusJustified(q.save)
    /\ q.block # NoKey => Shape[q.block[1]] = "HUMAN"

CInv == StatusJustified(run) /\ \A p \in Procs : Begun(procs[p])

\* A step of the engine is a step of the contract, or invisible to it.
Visible == Contract!Next \/ UNCHANGED Contract!cvars

-----------------------------------------------------------------------------
(***************************************************************************)
(* The reasons of the engine are reasons of the contract.                  *)
(***************************************************************************)
LEMMA SameGraph ==
    /\ Contract!Card = Key
    /\ \A m, n : Contract!LeadsTo(m, n) <=> LeadsTo(m, n)
    /\ \A n : Contract!EndsAt(n) <=> EndsAt(n)
    /\ \A n : Contract!AsksHuman(n) <=> AsksHuman(n)
    /\ \A k : Contract!Join(k) <=> Join(k)
    /\ \A n : Contract!Predecessors(n) = Predecessors(n)
    /\ \A n : Contract!Out(n) = Out(n)
  BY DEF Contract!Card, Key, Contract!LeadsTo, LeadsTo, Contract!EndsAt, EndsAt,
         Contract!AsksHuman, AsksHuman, Contract!Join, Join,
         Contract!Predecessors, Predecessors, Contract!Out, Out

ReportOf(i) == [card |-> log[i].task, pass |-> log[i].ans.verdict = "pass"]

LEMMA Logged ==
    \A i \in 1..Len(log) : ReportOf(i) \in Reports
  BY DEF Reports, ReportOf

LEMMA KeyOpens ==
    ASSUME NEW k \in Key, KeyJustified(k)
    PROVE  Contract!MayOpen(k)
<1>1. Contract!HasCause(k[1])
  <2>1. CASE \E e \in Out(Start) : e.dst = k[1]
    BY <2>1, SameGraph DEF Contract!HasCause
  <2>2. CASE \E i \in 1..Len(log) : LeadsTo(log[i].task[1], k[1])
    <3>1. PICK i \in 1..Len(log) : LeadsTo(log[i].task[1], k[1])
      BY <2>2
    <3>2. ReportOf(i) \in Reports /\ ReportOf(i).card = log[i].task
      BY Logged DEF ReportOf
    <3> QED
      BY <3>1, <3>2, SameGraph DEF Contract!HasCause
  <2> QED
    BY <2>1, <2>2 DEF KeyJustified, Caused
<1>2. ASSUME Join(k), NEW n \in Predecessors(k[1])
      PROVE  Contract!HasReported(n)
  <2>1. PICK b \in Attempts : EventsOf(<<n, b>>) # {}
    BY <1>2 DEF KeyJustified, BranchesReported
  <2>2. PICK i \in 1..Len(log) : log[i].task = <<n, b>>
    BY <2>1 DEF EventsOf
  <2>3. ReportOf(i) \in Reports /\ ReportOf(i).card[1] = n
    BY <2>2, Logged DEF ReportOf
  <2> QED
    BY <2>3 DEF Contract!HasReported
<1> QED
  BY <1>1, <1>2, SameGraph DEF Contract!MayOpen

LEMMA RowBecomes ==
    ASSUME NEW r \in RunRow, r.status # "NONE", RowJustified(r),
           StatusJustified(r)
    PROVE  /\ r.status \in {"RUNNING", "PAUSED_HUMAN", "SUCCEEDED", "BLOCKED"}
           /\ Contract!MayBecome(r.status)
<1>1. r.status \in {"RUNNING", "PAUSED_HUMAN", "SUCCEEDED", "BLOCKED"}
  BY DEF RunRow, Active, Terminal, StatusJustified
<1>2. CASE r.status = "RUNNING"
  BY <1>2 DEF Contract!MayBecome
<1>3. CASE r.status = "PAUSED_HUMAN"
  <2>1. PICK i \in 1..Len(log) : AsksHuman(log[i].task[1])
    BY <1>3 DEF StatusJustified, HumanReached
  <2>2. ReportOf(i) \in Reports /\ ReportOf(i).card = log[i].task
    BY Logged DEF ReportOf
  <2> QED
    BY <1>3, <2>1, <2>2, SameGraph DEF Contract!MayBecome
<1>4. CASE r.status = "SUCCEEDED"
  <2>1. PICK i \in 1..Len(log) :
           /\ EndsAt(log[i].task[1])
           /\ log[i].task[1] \in Gates => log[i].ans.verdict = "pass"
    BY <1>4 DEF RowJustified, ExitReached
  <2>2. /\ ReportOf(i) \in Reports /\ ReportOf(i).card = log[i].task
        /\ log[i].ans.verdict = "pass" => ReportOf(i).pass
    BY Logged DEF ReportOf
  <2> QED
    BY <1>4, <2>1, <2>2, SameGraph DEF Contract!MayBecome
<1>5. CASE r.status = "BLOCKED"
  <2>1. PICK i \in GateFailures : log[i].task[2] >= GateLimit[log[i].task[1]]
    BY <1>5 DEF RowJustified, GateExhausted
  <2>2. /\ i \in 1..Len(log) /\ log[i].task[1] \in Gates
        /\ log[i].ans.verdict = "fail"
    BY <2>1 DEF GateFailures
  <2>3. /\ ReportOf(i) \in Reports /\ ReportOf(i).card = log[i].task
        /\ ~ReportOf(i).pass
    BY <2>2, Logged DEF ReportOf
  <2> QED
    BY <1>5, <2>1, <2>2, <2>3 DEF Contract!MayBecome
<1> QED
  BY <1>1, <1>2, <1>3, <1>4, <1>5

-----------------------------------------------------------------------------
(***************************************************************************)
(* What a step leaves justified.                                           *)
(***************************************************************************)
\* While the log grows and the run stays begun, so do the processes.
LEMMA BegunKept ==
    ASSUME log \in Seq(Event), LogGrows, run.status # "NONE" => run'.status # "NONE"
    PROVE  /\ \A r : StatusJustified(r) => StatusJustified(r)'
           /\ \A q : Begun(q) => Begun(q)'
<1>1. HumanReached => HumanReached'
  BY DEF LogGrows, HumanReached
<1>2. \A r : StatusJustified(r) => StatusJustified(r)'
  BY <1>1 DEF StatusJustified
<1> QED
  BY <1>2 DEF Begun

\* A step of one process that leaves it with q.
LEMMA CMemory ==
    ASSUME TypeOK, CInv, LogGrows, NEW p \in Procs, NEW q,
           procs' = [procs EXCEPT ![p] = q], Begun(q)',
           run.status # "NONE" => run'.status # "NONE", StatusJustified(run)'
    PROVE  CInv'
<1>1. procs \in [Procs -> Proc] /\ log \in Seq(Event)
  BY DEF TypeOK
<1>2. \A r \in Procs : procs'[r] = IF r = p THEN q ELSE procs[r]
  BY <1>1
<1>3. \A r \in Procs : Begun(procs[r]) => (r # p => Begun(procs[r])')
  BY <1>1, <1>2, BegunKept DEF Begun
<1> QED
  BY <1>2, <1>3 DEF CInv

\* A step that only changes what one process has in memory is invisible.
LEMMA CSilent ==
    ASSUME TypeOK, CInv, NEW p \in Procs, NEW q,
           procs' = [procs EXCEPT ![p] = q], Begun(q),
           run' = run, tasks' = tasks, log' = log
    PROVE  CInv' /\ Visible
<1>1. log \in Seq(Event) /\ LogGrows
  BY Growing DEF TypeOK
<1>2. Begun(q)' /\ StatusJustified(run)'
  BY <1>1, BegunKept DEF CInv
<1>3. CInv'
  BY <1>1, <1>2, CMemory
<1>4. Reports' = Reports
  BY DEF Reports
<1> QED
  BY <1>3, <1>4 DEF Visible, Contract!cvars

\* An idle process has nothing to justify.
LEMMA IdleBegun == Begun(IdleProc)
  BY DEF Begun, IdleProc, StatusJustified, NoRun

\* The rest of a batch is empty-handed.
LEMMA ContinueBegun ==
    ASSUME NEW batch, run.status # "NONE"
    PROVE  Begun(Continue(batch))
<1>1. Continue(batch) = IdleProc \/
         Continue(batch) = [IdleProc EXCEPT !.phase = "read", !.batch = batch]
  BY DEF Continue
<1>2. PICK q : q = [IdleProc EXCEPT !.phase = "read", !.batch = batch]
  OBVIOUS
<1>3. /\ q.phase = "read" /\ q.snap = NoRun /\ q.save = NoRun
      /\ q.block = NoKey
  BY <1>2 DEF IdleProc
<1>4. Begun(q)
  BY <1>3 DEF Begun, StatusJustified, NoRun
<1> QED
  BY <1>1, <1>2, <1>4, IdleBegun

-----------------------------------------------------------------------------
(***************************************************************************)
(* The steps that neither the board nor the status shows.                  *)
(***************************************************************************)
LEMMA BeginPassVisible ==
    ASSUME TypeOK, CInv, NEW p \in Procs, BeginPass(p)
    PROVE  CInv' /\ Visible
<1>1. PICK q : q = [IdleProc EXCEPT !.phase = "read", !.batch = Unseen]
  OBVIOUS
<1>2. /\ procs' = [procs EXCEPT ![p] = q] /\ run.status # "NONE"
      /\ run' = run /\ tasks' = tasks /\ log' = log
  BY <1>1 DEF BeginPass, store, board, Active
<1>3. /\ q.phase = "read" /\ q.snap = NoRun /\ q.save = NoRun
      /\ q.block = NoKey
  BY <1>1 DEF IdleProc
<1>4. Begun(q)
  BY <1>2, <1>3 DEF Begun, StatusJustified, NoRun
<1> QED
  BY <1>2, <1>4, CSilent

LEMMA ReadRunVisible ==
    ASSUME TypeOK, CInv, NEW p \in Procs, ReadRun(p)
    PROVE  CInv' /\ Visible
<1>0. procs[p] \in Proc /\ Begun(procs[p]) /\ procs[p].phase = "read"
  BY DEF TypeOK, CInv, ReadRun
<1>1. PICK i \in procs[p].batch :
         procs' = [procs EXCEPT ![p] =
               [procs[p] EXCEPT !.phase = "mark", !.batch = procs[p].batch \ {i},
                                !.evt = i, !.snap = run]]
  BY DEF ReadRun
<1>2. PICK q : q = [procs[p] EXCEPT !.phase = "mark",
                                    !.batch = procs[p].batch \ {i},
                                    !.evt = i, !.snap = run]
  OBVIOUS
<1>3. /\ q.phase = "mark" /\ q.snap = run /\ q.save = procs[p].save
      /\ q.block = procs[p].block
  BY <1>0, <1>2 DEF Proc
<1>4. Begun(q)
  BY <1>0, <1>3 DEF Begun, CInv
<1>5. run' = run /\ tasks' = tasks /\ log' = log
  BY DEF ReadRun, store, board
<1> QED
  BY <1>1, <1>2, <1>4, <1>5, CSilent

LEMMA SkipEventVisible ==
    ASSUME TypeOK, CInv, NEW p \in Procs, SkipEvent(p)
    PROVE  CInv' /\ Visible
<1>1. procs[p].phase = "read" /\ Begun(procs[p]) /\ procs \in [Procs -> Proc]
  BY DEF TypeOK, CInv, SkipEvent
<1>2. PICK i \in procs[p].batch :
         procs' = [procs EXCEPT ![p] = Continue(procs[p].batch \ {i})]
  BY <1>1 DEF SkipEvent
<1>3. run.status # "NONE"
  BY <1>1 DEF Begun
<1>4. PICK q : q = Continue(procs[p].batch \ {i})
  OBVIOUS
<1>5. Begun(q)
  BY <1>3, <1>4, ContinueBegun
<1>6. run' = run /\ tasks' = tasks /\ log' = log
  BY DEF SkipEvent, store, board
<1> QED
  BY <1>2, <1>4, <1>5, <1>6, CSilent

LEMMA MarkNodeVisible ==
    ASSUME TypeOK, CInv, NEW p \in Procs, MarkNode(p)
    PROVE  CInv' /\ Visible
<1>0. procs[p] \in Proc /\ Begun(procs[p]) /\ procs[p].phase = "mark"
  BY DEF TypeOK, CInv, MarkNode
<1>1. PICK q : q = [procs[p] EXCEPT !.phase = "plan"]
  OBVIOUS
<1>2. procs' = [procs EXCEPT ![p] = q]
  BY <1>1 DEF MarkNode, TypeOK
<1>3. /\ q.phase = "plan" /\ q.snap = procs[p].snap /\ q.save = procs[p].save
      /\ q.block = procs[p].block
  BY <1>0, <1>1 DEF Proc
<1>4. Begun(q)
  BY <1>0, <1>3 DEF Begun
<1>5. run' = run /\ tasks' = tasks /\ log' = log
  BY DEF MarkNode, board
<1> QED
  BY <1>2, <1>4, <1>5, CSilent

\* A routing decision saves a status that can be explained, and blocks no card
\* but a human's.
LEMMA DispatchVisible ==
    ASSUME TypeOK, CInv, NEW p \in Procs, procs[p].phase = "plan",
           NEW keys, NEW blocked, NEW saved, Dispatch(p, keys, blocked, saved),
           saved.status # "NONE", StatusJustified(saved),
           blocked # NoKey => Shape[blocked[1]] = "HUMAN"
    PROVE  CInv' /\ Visible
<1>0. procs[p] \in Proc /\ Begun(procs[p])
  BY DEF TypeOK, CInv
<1>1. PICK q : q = [procs[p] EXCEPT !.phase = "write", !.todo = keys,
                                    !.block = blocked, !.save = saved]
  OBVIOUS
<1>2. /\ q.phase = "write" /\ q.snap = procs[p].snap /\ q.save = saved
      /\ q.block = blocked
  BY <1>0, <1>1 DEF Proc
<1>3. Begun(q)
  BY <1>0, <1>2 DEF Begun
<1>4. /\ procs' = [procs EXCEPT ![p] = q]
      /\ run' = run /\ tasks' = tasks /\ log' = log
  BY <1>1 DEF Dispatch, store, board
<1> QED
  BY <1>3, <1>4, CSilent

\* PlanHuman pauses the run and blocks the human's card; every other decision
\* blocks nothing and keeps, resumes or ends the run.
LEMMA PlanShapes ==
    ASSUME NEW p \in Procs, Plan(p), ~PlanTooWide(p), ~PlanHuman(p)
    PROVE  \E keys, ctx :
             \E status \in {procs[p].snap.status, Resumed(procs[p].snap.status),
                            "SUCCEEDED", "BLOCKED"} :
               Dispatch(p, keys, NoKey, Saved(p, status, ctx))
  BY DEF Plan, PlanFanOut, PlanExhausted, PlanRetry, PlanNoEdge, PlanCard,
         PlanExit, PlanWait, PlanFanIn, PlanTool

LEMMA PlanVisible ==
    ASSUME IInv, CInv, NEW p \in Procs, Plan(p)
    PROVE  CInv' /\ Visible
<1>0. TypeOK /\ procs[p].phase = "plan" /\ Begun(procs[p])
  BY DEF IInv, CInv, Plan, PlanFanOut, PlanTooWide, PlanExhausted, PlanRetry,
         PlanNoEdge, PlanCard, PlanHuman, PlanExit, PlanWait, PlanFanIn,
         PlanTool, Routing, GateFailed, Planning
<1>1. CASE PlanTooWide(p)
  BY <1>0, <1>1, IdleBegun, CSilent DEF PlanTooWide, store, board
<1>2. CASE PlanHuman(p)
  <2>1. PICK e \in NextEdges(p) :
           /\ Shape[e.dst] = "HUMAN"
           /\ Dispatch(p, {<<e.dst, NextAttempt(e.dst)>>},
                       <<e.dst, NextAttempt(e.dst)>>,
                       Saved(p, "PAUSED_HUMAN", CtxOf(p)))
    BY <1>2 DEF PlanHuman
  <2>2. PICK saved : saved = Saved(p, "PAUSED_HUMAN", CtxOf(p))
    OBVIOUS
  <2>3. AsksHuman(NodeOf(p))
    BY <2>1, ChosenEdge DEF AsksHuman
  <2>4. HumanReached
    BY <1>0, <2>3, InHand DEF HumanReached
  <2>5. saved.status # "NONE" /\ StatusJustified(saved)
    BY <2>2, <2>4 DEF Saved, StatusJustified
  <2>6. PICK k : k = <<e.dst, NextAttempt(e.dst)>>
    OBVIOUS
  <2>7. Dispatch(p, {k}, k, saved) /\ Shape[k[1]] = "HUMAN"
    BY <2>1, <2>2, <2>6
  <2> QED
    BY <1>0, <2>5, <2>7, DispatchVisible
<1>3. CASE ~PlanTooWide(p) /\ ~PlanHuman(p)
  <2>1. PICK keys, ctx :
           \E status \in {procs[p].snap.status, Resumed(procs[p].snap.status),
                          "SUCCEEDED", "BLOCKED"} :
               Dispatch(p, keys, NoKey, Saved(p, status, ctx))
    BY <1>3, PlanShapes
  <2>2. PICK status \in {procs[p].snap.status, Resumed(procs[p].snap.status),
                         "SUCCEEDED", "BLOCKED"} :
               Dispatch(p, keys, NoKey, Saved(p, status, ctx))
    BY <2>1
  <2>3. PICK saved : saved = Saved(p, status, ctx)
    OBVIOUS
  <2>4. saved.status = status
    BY <2>3 DEF Saved
  <2>5. procs[p].snap.status # "NONE" /\ StatusJustified(procs[p].snap)
    BY <1>0 DEF Begun
  <2>6. saved.status # "NONE" /\ StatusJustified(saved)
    BY <2>4, <2>5 DEF StatusJustified, Resumed
  <2> QED
    BY <1>0, <2>2, <2>3, <2>6, DispatchVisible
<1> QED
  BY <1>1, <1>2, <1>3

\* Steps that leave a process writing what it already meant to write.
LEMMA StillWriting ==
    ASSUME TypeOK, CInv, NEW p \in Procs, NEW q, q.phase = procs[p].phase,
           q.snap = procs[p].snap, q.save = procs[p].save,
           q.block \in {procs[p].block, NoKey}
    PROVE  Begun(q)
  BY DEF CInv, Begun

LEMMA FailsVisible ==
    ASSUME TypeOK, CInv, NEW p \in Procs,
           CreateCardFails(p) \/ UpsertRow(p) \/ LaunchReturns(p) \/ Crash(p)
    PROVE  CInv' /\ Visible
<1>0. procs[p] \in Proc
  BY DEF TypeOK
<1>1. run' = run /\ tasks' = tasks /\ log' = log
  BY DEF CreateCardFails, UpsertRow, LaunchReturns, Crash, store, board
<1>2. CASE CreateCardFails(p)
  <2>1. PICK k \in procs[p].todo :
           procs' = [procs EXCEPT ![p] =
              [procs[p] EXCEPT !.todo = procs[p].todo \ {k}, !.cur = k,
                               !.got = FALSE]]
    BY <1>2 DEF CreateCardFails
  <2>2. PICK q : q = [procs[p] EXCEPT !.todo = procs[p].todo \ {k}, !.cur = k,
                                      !.got = FALSE]
    OBVIOUS
  <2>3. Begun(q)
    BY <1>0, <2>2, StillWriting DEF Proc
  <2> QED
    BY <1>1, <2>1, <2>2, <2>3, CSilent
<1>3. CASE UpsertRow(p)
  <2>1. PICK q : q = [procs[p] EXCEPT !.cur = NoKey, !.got = FALSE]
    OBVIOUS
  <2>2. Begun(q) /\ procs' = [procs EXCEPT ![p] = q]
    BY <1>0, <1>3, <2>1, StillWriting DEF Proc, UpsertRow
  <2> QED
    BY <1>1, <2>2, CSilent
<1>4. CASE LaunchReturns(p) \/ Crash(p)
  BY <1>1, <1>4, IdleBegun, CSilent DEF LaunchReturns, Crash
<1> QED
  BY <1>2, <1>3, <1>4

-----------------------------------------------------------------------------
(***************************************************************************)
(* The steps that the board or the status shows.                           *)
(***************************************************************************)
LEMMA LaunchVisible ==
    ASSUME TypeOK, CInv, NEW p \in Procs, Launch(p)
    PROVE  CInv' /\ Visible
<1>1. PICK ctx \in Contexts :
         /\ run' = [status |-> "RUNNING", cursor |-> 0, ctx |-> ctx]
         /\ procs' = [procs EXCEPT ![p] =
                [IdleProc EXCEPT !.phase = "write", !.todo = EntryKeys(ctx)]]
  BY DEF Launch
<1>2. PICK q : q = [IdleProc EXCEPT !.phase = "write", !.todo = EntryKeys(ctx)]
  OBVIOUS
<1>3. /\ q.phase = "write" /\ q.snap = NoRun /\ q.save = NoRun
      /\ q.block = NoKey
  BY <1>2 DEF IdleProc
<1>4. tasks' = tasks /\ log' = log /\ run.status = "NONE"
  BY DEF Launch, board
<1>5. log \in Seq(Event) /\ LogGrows
  BY <1>4, Growing DEF TypeOK
<1>6. run'.status = "RUNNING"
  BY <1>1
<1>7. Begun(q)' /\ StatusJustified(run)'
  BY <1>3, <1>6 DEF Begun, StatusJustified, NoRun
<1>8. CInv'
  BY <1>1, <1>2, <1>4, <1>5, <1>7, CMemory
<1>9. Reports' = Reports
  BY <1>4 DEF Reports
<1>10. Contract!Begin
  BY <1>4, <1>6, <1>9 DEF Contract!Begin
<1> QED
  BY <1>8, <1>10 DEF Visible, Contract!Next

LEMMA CreateCardVisible ==
    ASSUME IInv, CInv, NEW p \in Procs, CreateCard(p)
    PROVE  CInv' /\ Visible
<1>0. /\ TypeOK /\ procs[p] \in Proc /\ procs[p].phase = "write"
      /\ run' = run /\ log' = log
  BY DEF IInv, TypeOK, CreateCard, Writing, store
<1>1. PICK k \in procs[p].todo :
         /\ tasks' = [tasks EXCEPT ![k] = IF tasks[k] = "none" THEN "open"
                                          ELSE tasks[k]]
         /\ procs' = [procs EXCEPT ![p] =
                [procs[p] EXCEPT !.todo = procs[p].todo \ {k}, !.cur = k,
                                 !.got = TRUE]]
  BY DEF CreateCard
<1>2. k \in Key /\ KeyJustified(k)
  BY <1>0, <1>1 DEF IInv, Holds, Proc
<1>3. PICK q : q = [procs[p] EXCEPT !.todo = procs[p].todo \ {k}, !.cur = k,
                                    !.got = TRUE]
  OBVIOUS
<1>4. Begun(q)
  BY <1>0, <1>3, StillWriting DEF Proc
<1>5. log \in Seq(Event) /\ LogGrows
  BY <1>0, Growing DEF TypeOK
<1>6. Begun(q)' /\ StatusJustified(run)'
  BY <1>0, <1>4, <1>5, BegunKept DEF CInv
<1>7. CInv'
  BY <1>0, <1>1, <1>3, <1>5, <1>6, CMemory
<1>8. Reports' = Reports
  BY <1>0 DEF Reports
<1>9. CASE tasks[k] = "none"
  <2>1. run.status # "NONE"
    BY <1>0 DEF CInv, Begun
  <2>2. tasks' = [tasks EXCEPT ![k] = "open"]
    BY <1>1, <1>9
  <2>3. Contract!MayOpen(k)
    BY <1>2, KeyOpens
  <2>4. Contract!Open(k)
    BY <1>0, <1>8, <1>9, <2>1, <2>2, <2>3 DEF Contract!Open
  <2> QED
    BY <1>2, <1>7, <2>4, SameGraph DEF Visible, Contract!Next
<1>10. CASE tasks[k] # "none"
  <2>1. tasks' = tasks
    BY <1>0, <1>1, <1>2, <1>10 DEF TypeOK
  <2> QED
    BY <1>0, <1>7, <1>8, <2>1 DEF Visible, Contract!cvars
<1> QED
  BY <1>9, <1>10

\* A new event is a new report.
LEMMA NewReport ==
    ASSUME log \in Seq(Event), NEW e \in Event, log' = Append(log, e)
    PROVE  /\ LogGrows
           /\ Reports' = Reports \union
                 {[card |-> e.task, pass |-> e.ans.verdict = "pass"]}
<1>1. LogGrows
  BY Growing
<1>2. /\ Len(log') = Len(log) + 1 /\ Len(log) \in Nat
      /\ \A i \in 1..Len(log) : log'[i] = log[i]
      /\ log'[Len(log')] = e
  OBVIOUS
<1>3. 1..Len(log') = 1..Len(log) \union {Len(log')}
  BY <1>2
<1> QED
  BY <1>1, <1>2, <1>3 DEF Reports

LEMMA BlockCardVisible ==
    ASSUME TypeOK, CInv, NEW p \in Procs, BlockCard(p)
    PROVE  CInv' /\ Visible
<1>0. /\ procs[p] \in Proc /\ procs[p].block \in Key
      /\ Shape[procs[p].block[1]] = "HUMAN"
  BY DEF TypeOK, CInv, Begun, BlockCard, Proc
<1>1. PICK q : q = [procs[p] EXCEPT !.block = NoKey]
  OBVIOUS
<1>2. Begun(q) /\ procs' = [procs EXCEPT ![p] = q] /\ run' = run
  BY <1>0, <1>1, StillWriting DEF Proc, BlockCard, store, TypeOK
<1>3. CASE tasks[procs[p].block] = "open"
  <2>1. PICK k \in Key : k = procs[p].block
    BY <1>0
  <2>2. PICK e : e = [task |-> k, kind |-> "blocked", ans |-> BlankAnswer]
    OBVIOUS
  <2>3. e \in Event
    BY <2>1, <2>2, BlankTypes DEF Event, TerminalKinds
  <2>4. tasks' = [tasks EXCEPT ![k] = "blocked"] /\ log' = Append(log, e)
    BY <1>3, <2>1, <2>2 DEF BlockCard
  <2>5. e.task = k /\ (e.ans.verdict = "pass") = FALSE
    BY <2>2 DEF BlankAnswer
  <2>6. log \in Seq(Event) /\ LogGrows
    BY <2>3, <2>4, NewReport DEF TypeOK
  <2>7. Reports' = Reports \union {[card |-> k, pass |-> FALSE]}
    BY <2>3, <2>4, <2>5, <2>6, NewReport
  <2>8. Begun(q)' /\ StatusJustified(run)'
    BY <1>2, <2>6, BegunKept DEF CInv
  <2>9. CInv'
    BY <1>2, <2>6, <2>8, CMemory
  <2>10. Contract!Suspend(k)
    BY <1>0, <1>2, <1>3, <2>1, <2>4, <2>7 DEF Contract!Suspend
  <2> QED
    BY <2>9, <2>10, SameGraph DEF Visible, Contract!Next
<1>4. CASE tasks[procs[p].block] # "open"
  BY <1>2, <1>4, CSilent DEF BlockCard, board
<1> QED
  BY <1>3, <1>4

LEMMA SaveRunVisible ==
    ASSUME IInv, CInv, NEW p \in Procs, SaveRun(p)
    PROVE  CInv' /\ Visible
<1>0. /\ TypeOK /\ procs[p] \in Proc /\ procs \in [Procs -> Proc]
      /\ procs[p].phase = "write"
      /\ procs[p].save # NoRun
      /\ Begun(procs[p]) /\ Holds(procs[p])
  BY DEF IInv, TypeOK, CInv, SaveRun, Dispatched, Writing
<1>1. /\ run' = procs[p].save /\ tasks' = tasks /\ log' = log
      /\ procs' = [procs EXCEPT ![p] = Continue(procs[p].batch)]
  BY <1>0 DEF SaveRun, board
<1>2. /\ run' \in RunRow /\ run.status # "NONE" /\ run'.status # "NONE"
      /\ RowJustified(run') /\ StatusJustified(run')
  BY <1>0, <1>1 DEF Proc, Begun, Holds
<1>3. log \in Seq(Event) /\ LogGrows
  BY <1>0, <1>1, Growing DEF TypeOK
<1>4. PICK q : q = Continue(procs[p].batch)
  OBVIOUS
<1>5. Begun(q)
  BY <1>2, <1>4, ContinueBegun
<1>6. Begun(q)'
  BY <1>2, <1>3, <1>5, BegunKept
<1>7. StatusJustified(run)'
  BY <1>0, <1>1, <1>2, <1>3, BegunKept DEF Begun
<1>8. CInv'
  BY <1>0, <1>1, <1>2, <1>3, <1>4, <1>6, <1>7, CMemory
<1>9. Contract!MayBecome(run'.status)
      /\ run'.status \in {"RUNNING", "PAUSED_HUMAN", "SUCCEEDED", "BLOCKED"}
  BY <1>2, RowBecomes
<1>10. Reports' = Reports
  BY <1>1 DEF Reports
<1>11. Contract!Decide(run'.status)
  BY <1>1, <1>2, <1>9, <1>10 DEF Contract!Decide
<1> QED
  BY <1>8, <1>9, <1>11 DEF Visible, Contract!Next

LEMMA FinishVisible ==
    ASSUME TypeOK, CInv, NEW k \in Key, tasks[k] \in {"open", "blocked"},
           NEW kind \in TerminalKinds, NEW ans \in Answer, Finish(k, kind, ans)
    PROVE  CInv' /\ Visible
<1>1. PICK e : e = [task |-> k, kind |-> kind, ans |-> ans]
  OBVIOUS
<1>2. e \in Event /\ e.task = k
  BY <1>1 DEF Event
<1>3. /\ tasks' = [tasks EXCEPT ![k] = "done"] /\ log' = Append(log, e)
      /\ run' = run /\ procs' = procs
  BY <1>1 DEF Finish, store
<1>4. PICK pass \in BOOLEAN : pass = (e.ans.verdict = "pass")
  OBVIOUS
<1>5. log \in Seq(Event) /\ LogGrows
  BY <1>2, <1>3, NewReport DEF TypeOK
<1>6. Reports' = Reports \union {[card |-> k, pass |-> pass]}
  BY <1>2, <1>3, <1>4, <1>5, NewReport
<1>7. CInv'
  BY <1>3, <1>5, BegunKept DEF CInv
<1>8. Contract!Close(k)
  BY <1>3, <1>4, <1>6 DEF Contract!Close
<1> QED
  BY <1>7, <1>8, SameGraph DEF Visible, Contract!Next

LEMMA WorkerVisible ==
    ASSUME TypeOK, CInv, NEW k \in Key, Complete(k) \/ GiveUp(k)
    PROVE  CInv' /\ Visible
<1>1. CASE Complete(k)
  <2>1. PICK ans \in Answers[k[1]] : Finish(k, "completed", ans)
    BY <1>1 DEF Complete
  <2>2. ans \in Answer
    BY EngineAssumption DEF Key
  <2> QED
    BY <1>1, <2>1, <2>2, FinishVisible DEF Complete, TerminalKinds
<1>2. CASE GiveUp(k)
  <2>1. PICK kind \in FailureKinds : Finish(k, kind, BlankAnswer)
    BY <1>2 DEF GiveUp
  <2>2. kind \in TerminalKinds
    BY EngineAssumption DEF TerminalKinds
  <2> QED
    BY <1>2, <2>1, <2>2, BlankTypes, FinishVisible DEF GiveUp
<1> QED
  BY <1>1, <1>2

-----------------------------------------------------------------------------
LEMMA NextVisible == IInv /\ CInv /\ [Next]_vars => CInv' /\ Visible
<1> SUFFICES ASSUME IInv, CInv, [Next]_vars PROVE CInv' /\ Visible
  OBVIOUS
<1>0. TypeOK
  BY DEF IInv
<1>1. ASSUME NEW p \in Procs, Launch(p) PROVE CInv' /\ Visible
  BY <1>0, <1>1, LaunchVisible
<1>2. ASSUME NEW p \in Procs, Advance(p) PROVE CInv' /\ Visible
  BY <1>0, <1>2, BeginPassVisible, ReadRunVisible, SkipEventVisible,
     MarkNodeVisible, PlanVisible, CreateCardVisible, FailsVisible,
     BlockCardVisible, SaveRunVisible DEF Advance, Write
<1>3. ASSUME NEW p \in Procs, Crash(p) PROVE CInv' /\ Visible
  BY <1>0, <1>3, FailsVisible
<1>4. ASSUME NEW k \in Key, Complete(k) \/ GiveUp(k) PROVE CInv' /\ Visible
  BY <1>0, <1>4, WorkerVisible
<1>5. CASE UNCHANGED vars
  <2>1. run' = run /\ tasks' = tasks /\ log' = log /\ procs' = procs
    BY <1>5 DEF vars
  <2> QED
    BY <2>1 DEF CInv, Begun, StatusJustified, HumanReached, Visible,
                Contract!cvars, Reports
<1> QED
  BY <1>1, <1>2, <1>3, <1>4, <1>5 DEF Next

LEMMA InitVisible == Init => CInv /\ Contract!Init
<1> SUFFICES ASSUME Init PROVE CInv /\ Contract!Init
  OBVIOUS
<1>1. CInv
  BY IdleBegun DEF Init, CInv, StatusJustified, NoRun
<1>2. Reports = {}
  BY DEF Init, Reports
<1>3. Contract!Init
  BY <1>2, SameGraph DEF Init, Contract!Init, NoRun
<1> QED
  BY <1>1, <1>3

\* The engine implements the contract: whatever the passes do to each other and
\* wherever they die, the board and the status show only what RunContract allows.
THEOREM ContractHolds == Spec => ImplementsContract
<1>1. Init => IInv /\ CInv /\ Contract!Init
  BY InitIInv, InitVisible
<1>2. IInv /\ CInv /\ [Next]_vars =>
         IInv' /\ CInv' /\ [Contract!Next]_(Contract!cvars)
  BY NextIInv, NextVisible DEF Visible
<1> QED
  BY <1>1, <1>2, PTL DEF Spec, ImplementsContract, Contract!Spec
=============================================================================
