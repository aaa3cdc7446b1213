--------------------------- MODULE Sequential_proofs ---------------------------
(***************************************************************************)
(* Pipelines that have one card at a time (Sequential), for any number of  *)
(* crashes.  With one reconciler nothing stalls, no event is skipped, no   *)
(* work is undone, and the end of a run is final.  With several nothing    *)
(* stalls either, where no edge has a condition.                           *)
(***************************************************************************)
EXTENDS RunWork_proofs

-----------------------------------------------------------------------------
(***************************************************************************)
(* Edge selection: the sort keys are totally ordered, so a finite set of   *)
(* candidates has a greatest, and the greatest ones share their target.    *)
(***************************************************************************)
Scores == Int \X Int \X Int \X Int \X Int

LEMMA ScoreType ==
    ASSUME NEW e \in Edges, NEW hint, NEW suggested
    PROVE  /\ Score(e, hint, suggested) \in Scores
           /\ Score(e, hint, suggested)[5] = -Rank[e.dst]
<1>1. e.weight \in Int /\ e.dst \in Nodes
  BY PipelineAssumption DEF Edge
<1>2. Rank[e.dst] \in Int
  BY <1>1, RankAssumption
<1>3. \A b \in BOOLEAN : Bit(b) \in Int
  BY DEF Bit
<1>4. \A b : Bit(b) \in Int
  BY DEF Bit
<1> HIDE DEF Bit
<1> QED
  BY <1>1, <1>2, <1>4 DEF Score, Scores

LEMMA ExceedsOrder ==
    ASSUME NEW s \in Scores, NEW t \in Scores
    PROVE  Exceeds(s, t) <=>
             \/ s[1] > t[1]
             \/ s[1] = t[1] /\ s[2] > t[2]
             \/ s[1] = t[1] /\ s[2] = t[2] /\ s[3] > t[3]
             \/ s[1] = t[1] /\ s[2] = t[2] /\ s[3] = t[3] /\ s[4] > t[4]
             \/ s[1] = t[1] /\ s[2] = t[2] /\ s[3] = t[3] /\ s[4] = t[4] /\ s[5] > t[5]
<1>1. 1..5 = {1, 2, 3, 4, 5} /\ 1..(1 - 1) = {} /\ 1..(2 - 1) = {1}
      /\ 1..(3 - 1) = {1, 2} /\ 1..(4 - 1) = {1, 2, 3} /\ 1..(5 - 1) = {1, 2, 3, 4}
  OBVIOUS
<1> DEFINE G(i) == s[i] > t[i] /\ \A j \in 1..(i - 1) : s[j] = t[j]
<1>2. Exceeds(s, t) <=> G(1) \/ G(2) \/ G(3) \/ G(4) \/ G(5)
  BY <1>1 DEF Exceeds
<1>3. G(1) <=> s[1] > t[1]
  BY <1>1
<1>4. G(2) <=> s[1] = t[1] /\ s[2] > t[2]
  BY <1>1
<1>5. G(3) <=> s[1] = t[1] /\ s[2] = t[2] /\ s[3] > t[3]
  BY <1>1
<1>6. G(4) <=> s[1] = t[1] /\ s[2] = t[2] /\ s[3] = t[3] /\ s[4] > t[4]
  BY <1>1
<1>7. G(5) <=> s[1] = t[1] /\ s[2] = t[2] /\ s[3] = t[3] /\ s[4] = t[4] /\ s[5] > t[5]
  BY <1>1
<1> HIDE DEF G
<1> QED
  BY <1>2, <1>3, <1>4, <1>5, <1>6, <1>7

LEMMA ExceedsStrict ==
    ASSUME NEW s \in Scores, NEW t \in Scores, NEW u \in Scores
    PROVE  /\ ~Exceeds(s, s)
           /\ Exceeds(s, t) /\ Exceeds(t, u) => Exceeds(s, u)
           /\ ~Exceeds(s, t) /\ ~Exceeds(t, s) => s[5] = t[5]
<1>1. \A i \in 1..5 : s[i] \in Int /\ t[i] \in Int /\ u[i] \in Int
  BY DEF Scores
<1>2. ~Exceeds(s, s)
  BY <1>1, ExceedsOrder
<1>3. Exceeds(s, t) /\ Exceeds(t, u) => Exceeds(s, u)
  BY <1>1, ExceedsOrder
<1>4. ~Exceeds(s, t) /\ ~Exceeds(t, s) => s[5] = t[5]
  BY <1>1, ExceedsOrder
<1> QED
  BY <1>2, <1>3, <1>4

\* select() is deterministic: whatever edge it returns, the target is the same
\* (edge_selector.py: "target id breaks the tie").
THEOREM OneTarget ==
    ASSUME NEW E \in SUBSET Edges, NEW ctx, NEW hint, NEW suggested,
           NEW d, NEW e, IsSelected(d, E, ctx, hint, suggested),
           IsSelected(e, E, ctx, hint, suggested)
    PROVE  d.dst = e.dst
<1>1. d \in Edges /\ e \in Edges
  BY DEF IsSelected, Candidates
<1>2. d.dst \in Nodes /\ e.dst \in Nodes
  BY <1>1, PipelineAssumption DEF Edge
<1>3. /\ ~Exceeds(Score(d, hint, suggested), Score(e, hint, suggested))
      /\ ~Exceeds(Score(e, hint, suggested), Score(d, hint, suggested))
  BY DEF IsSelected
<1>4. -Rank[d.dst] = -Rank[e.dst]
  BY <1>1, <1>3, ScoreType, ExceedsStrict
<1> QED
  BY <1>2, <1>4, RankAssumption

\* A smallest set of candidates without a greatest would have a smaller one.
LEMMA SomeSelected ==
    ASSUME NEW E \in SUBSET Edges, IsFiniteSet(E), NEW ctx, NEW hint, NEW suggested,
           Candidates(E, ctx) # {}
    PROVE  \E e \in E : IsSelected(e, E, ctx, hint, suggested)
<1> DEFINE S(e) == Score(e, hint, suggested)
           C == Candidates(E, ctx)
           Top(U) == \E e \in U : \A f \in U : ~Exceeds(S(f), S(e))
           Bad == {U \in FiniteSubsetsOf(C) : U # {} /\ ~Top(U)}
<1>1. C \subseteq E /\ IsFiniteSet(C)
  <2>1. C \subseteq E
    BY DEF Candidates
  <2> QED
    BY <2>1, FS_Subset
<1>2. \A e \in C : S(e) \in Scores
  BY <1>1, ScoreType
<1> HIDE DEF S, C
<1>3. Bad = {}
  <2>1. SUFFICES ASSUME Bad # {} PROVE FALSE
    OBVIOUS
  <2>2. Bad \subseteq FiniteSubsetsOf(C)
    OBVIOUS
  <2>3. PICK R : R = StrictSubsetOrdering(C)
    OBVIOUS
  <2>4. IsWellFoundedOn(R, FiniteSubsetsOf(C))
    BY <2>3, FS_StrictSubsetOrderingWellFounded
  <2> HIDE DEF Bad
  <2>5. PICK U \in Bad : \A V \in Bad : ~(<<V, U>> \in R)
    BY <2>1, <2>2, <2>4, WFMin
  <2> USE DEF Bad
  <2>6. U \subseteq C /\ IsFiniteSet(U) /\ U # {} /\ ~Top(U)
    BY <2>5 DEF FiniteSubsetsOf
  <2>7. PICK x \in U : TRUE
    BY <2>6
  <2>8. U \ {x} \in FiniteSubsetsOf(C)
    BY <2>6, FS_RemoveElement DEF FiniteSubsetsOf
  <2>9. <<U \ {x}, U>> \in R
    BY <2>3, <2>6, <2>7 DEF StrictSubsetOrdering
  <2>10. U \ {x} \notin Bad
    BY <2>5, <2>9
  <2>11. CASE U \ {x} = {}
    <3>1. U = {x}
      BY <2>7, <2>11
    <3>2. ~Exceeds(S(x), S(x))
      BY <1>2, <2>6, <2>7, ExceedsStrict
    <3> QED
      BY <2>6, <3>1, <3>2
  <2>12. CASE U \ {x} # {}
    <3>1. Top(U \ {x})
      BY <2>8, <2>10, <2>12
    <3>2. PICK m \in U \ {x} : \A f \in U \ {x} : ~Exceeds(S(f), S(m))
      BY <3>1
    <3>3. CASE ~Exceeds(S(x), S(m))
      BY <2>6, <3>2, <3>3
    <3>4. CASE Exceeds(S(x), S(m))
      <4>1. ASSUME NEW f \in U PROVE ~Exceeds(S(f), S(x))
        <5>1. S(f) \in Scores /\ S(x) \in Scores /\ S(m) \in Scores
          BY <1>2, <2>6, <2>7, <3>2
        <5>2. CASE f = x
          BY <5>1, <5>2, ExceedsStrict
        <5>3. CASE f # x
          BY <3>2, <3>4, <5>1, <5>3, ExceedsStrict
        <5> QED
          BY <5>2, <5>3
      <4> QED
        BY <2>6, <2>7, <4>1
    <3> QED
      BY <3>3, <3>4
  <2> QED
    BY <2>11, <2>12
<1>4. C \in FiniteSubsetsOf(C) /\ C # {}
  BY <1>1 DEF C, FiniteSubsetsOf
<1>5. Top(C)
  BY <1>3, <1>4
<1> QED
  BY <1>1, <1>5 DEF C, S, IsSelected

-----------------------------------------------------------------------------
(***************************************************************************)
(* The order of the cards.  What an event leads to is decided by the event *)
(* and the context saved with the one before it, so a replay after a crash *)
(* leads to the same card.                                                 *)
(***************************************************************************)
Level == CHOOSE level \in [Nodes -> Nat] : Ordered(level)

\* The pipelines considered, and a board that answers every call.
OneCard == /\ Sequential
           /\ \E level \in [Nodes -> Nat] : Ordered(level)
           /\ MaxBoardErrors = 0

Before(k, l) == \/ Level[k[1]] < Level[l[1]]
                \/ k[1] = l[1] /\ k[2] < l[2]

\* The next try of a gate that failed.
Again(ev, k) ==
    /\ ev.task[1] \in Gates /\ ev.ans.verdict # "pass"
    /\ ev.task[2] + 1 <= GateLimit[ev.task[1]]
    /\ k = <<ev.task[1], ev.task[2] + 1>>

HintOf(ev) == IF ev.task[1] \in Gates THEN "pass" ELSE ev.ans.label

\* The card behind the tool that the completed node leads to.
Onward(ev, ctx, k) ==
    /\ ev.task[1] \in Gates => ev.ans.verdict = "pass"
    /\ \E e \in Out(ev.task[1]) :
          /\ IsSelected(e, Out(ev.task[1]), ctx, HintOf(ev), ev.ans.suggest)
          /\ Shape[e.dst] = "TOOL"
          /\ \E t \in Out(e.dst) : /\ IsSelected(t, Out(e.dst), ctx, NoLabel, {})
                                   /\ Shape[t.dst] \in CardShapes
                                   /\ k = <<t.dst, 1>>

Succ(ev, saved, k) == Again(ev, k) \/ Onward(ev, Apply(saved, ev.ans.upd), k)

LEMMA LevelOrders ==
    ASSUME OneCard
    PROVE  Level \in [Nodes -> Nat] /\ Ordered(Level)
  BY DEF OneCard, Level

LEMMA BeforeStrict ==
    ASSUME OneCard, NEW k \in Key, NEW l \in Key, NEW m \in Key
    PROVE  /\ ~Before(k, k)
           /\ Before(k, l) /\ Before(l, m) => Before(k, m)
<1>1. /\ Level[k[1]] \in Nat /\ Level[l[1]] \in Nat /\ Level[m[1]] \in Nat
      /\ k[2] \in Nat /\ l[2] \in Nat /\ m[2] \in Nat
  BY LevelOrders, EngineAssumption DEF Key
<1> HIDE DEF Level
<1> QED
  BY <1>1 DEF Before

LEMMA SuccUnique ==
    ASSUME NEW ev, NEW saved, NEW k, NEW l, Succ(ev, saved, k), Succ(ev, saved, l)
    PROVE  k = l
<1> DEFINE ctx == Apply(saved, ev.ans.upd)
<1>1. \A n : Out(n) \in SUBSET Edges
  BY DEF Out
<1>2. CASE Again(ev, k)
  BY <1>2 DEF Succ, Again, Onward
<1>3. CASE Onward(ev, ctx, k)
  <2>1. Onward(ev, ctx, l)
    BY <1>3 DEF Succ, Again, Onward
  <2> HIDE DEF ctx
  <2>2. PICK e \in Out(ev.task[1]) :
           /\ IsSelected(e, Out(ev.task[1]), ctx, HintOf(ev), ev.ans.suggest)
           /\ \E t \in Out(e.dst) : /\ IsSelected(t, Out(e.dst), ctx, NoLabel, {})
                                    /\ k = <<t.dst, 1>>
    BY <1>3 DEF Onward
  <2>3. PICK d \in Out(ev.task[1]) :
           /\ IsSelected(d, Out(ev.task[1]), ctx, HintOf(ev), ev.ans.suggest)
           /\ \E t \in Out(d.dst) : /\ IsSelected(t, Out(d.dst), ctx, NoLabel, {})
                                    /\ l = <<t.dst, 1>>
    BY <2>1 DEF Onward
  <2>4. e.dst = d.dst
    BY <1>1, <2>2, <2>3, OneTarget
  <2>5. PICK t \in Out(e.dst) : /\ IsSelected(t, Out(e.dst), ctx, NoLabel, {})
                                /\ k = <<t.dst, 1>>
    BY <2>2
  <2>6. PICK u \in Out(e.dst) : /\ IsSelected(u, Out(e.dst), ctx, NoLabel, {})
                                /\ l = <<u.dst, 1>>
    BY <2>3, <2>4
  <2>7. t.dst = u.dst
    BY <1>1, <2>5, <2>6, OneTarget
  <2> QED
    BY <2>5, <2>6, <2>7
<1> QED
  BY <1>2, <1>3 DEF Succ

LEMMA SuccBefore ==
    ASSUME OneCard, NEW ev \in Event, NEW saved, NEW k, Succ(ev, saved, k)
    PROVE  Before(ev.task, k)
<1>1. ev.task \in Key /\ ev.task[2] \in Nat
  BY EngineAssumption DEF Event, Key
<1>2. CASE Again(ev, k)
  BY <1>1, <1>2 DEF Again, Before
<1>3. CASE Onward(ev, Apply(saved, ev.ans.upd), k)
  <2>0. PICK e \in Out(ev.task[1]) :
           /\ Shape[e.dst] = "TOOL"
           /\ \E t \in Out(e.dst) : k = <<t.dst, 1>>
    BY <1>3 DEF Onward
  <2>1. PICK t \in Out(e.dst) : Shape[e.dst] = "TOOL" /\ k = <<t.dst, 1>>
    BY <2>0
  <2>2. /\ e \in Edges /\ t \in Edges /\ e.src = ev.task[1] /\ t.src = e.dst
        /\ k[1] = t.dst
    BY <2>1 DEF Out
  <2>3. Level[e.src] < Level[t.dst]
    BY <2>1, <2>2, LevelOrders DEF Ordered
  <2> QED
    BY <2>2, <2>3 DEF Before
<1> QED
  BY <1>2, <1>3 DEF Succ

-----------------------------------------------------------------------------
(***************************************************************************)
(* The inductive invariant.                                                *)
(***************************************************************************)
\* The cards come one after the other: an event per card, in order, and at most
\* one open card, which comes last.
OneLine ==
    /\ \A i, j \in 1..Len(log) : i < j => Before(log[i].task, log[j].task)
    /\ \A i \in 1..Len(log) : tasks[log[i].task] = "done"
    /\ \A k \in Key : tasks[k] \in {"blocked", "done"} =>
          \E i \in 1..Len(log) : log[i].task = k
    /\ \A k, l \in Key : tasks[k] = "open" /\ tasks[l] = "open" => k = l
    /\ \A k \in Key : tasks[k] = "open" =>
          \A i \in 1..Len(log) : Before(log[i].task, k)

\* The first event the saved cursor has not passed, when there is one: cards
\* beyond it are where it leads.
Front == run.cursor + 1

Frontier ==
    /\ run.cursor <= Len(log)
    /\ \A i \in 1..Len(log) :
          i > Front => Succ(log[Front], run.ctx, log[i].task)
    /\ Front <= Len(log) =>
          \A k \in Key : tasks[k] = "open" => Succ(log[Front], run.ctx, k)

\* The card whose event is the next to be processed.
Due(k) == IF Front <= Len(log) THEN k = log[Front].task ELSE tasks[k] = "open"

Recorded ==
    /\ \A k \in Key : rows[k] # NoRow => rows[k].card /\ tasks[k] # "none"
    /\ \A i \in 1..Len(log) : i < Front => Done(log[i].task)
    /\ \A k \in Key : Done(k) =>
          \E i \in 1..Len(log) : i <= Front /\ log[i].task = k
    /\ Launched => \A k \in Key : Due(k) => Owned(k)

\* An active run goes on; one that has ended, or has not begun, has no open card
\* and nobody works on it.
GoesOn ==
    run.status \in Active /\ Launched /\ Len(log) = run.cursor /\ WaysOn =>
        \E k \in Key : tasks[k] = "open"

Over(q) ==
    run.status \in Terminal => /\ Len(log) = run.cursor /\ q.phase = "idle"
                               /\ \A k \in Key : tasks[k] # "open"

Unborn(q) ==
    run.status = "NONE" => /\ run.cursor = 0 /\ Len(log) = 0 /\ q.phase = "idle"
                           /\ \A k \in Key : rows[k] = NoRow /\ tasks[k] = "none"

Ahead(batch) == \A i \in batch : /\ i \in 1..Len(log) /\ i > Front
                                 /\ Owned(log[i].task)

Reading(q) == q.phase = "read" =>
    /\ run.status \in Active /\ Front \in q.batch /\ Front <= Len(log)
    /\ Owned(log[Front].task) /\ Ahead(q.batch \ {Front})

Advancing(q) == q.phase \in {"mark", "plan"} =>
    /\ run.status \in Active /\ q.snap = run
    /\ q.evt = Front /\ Front <= Len(log) /\ Ahead(q.batch)
    /\ q.phase = "plan" => Done(log[Front].task)

\* What an advance is about to write: the successor's card, and then the cursor.
Decides(keys, saved) ==
    /\ saved.status \in Active \union Terminal
    /\ saved.cursor = Front
    /\ \A k \in keys : Succ(log[Front], run.ctx, k)
    /\ saved.status \in Terminal => \A k \in Key : ~Succ(log[Front], run.ctx, k)
    /\ saved.status \in Active /\ WaysOn =>
          \E k \in Key : Succ(log[Front], run.ctx, k)

Recording(q) == q.phase = "write" /\ q.save # NoRun =>
    /\ run.status \in Active /\ Front <= Len(log)
    /\ Ahead(q.batch) /\ Done(log[Front].task)
    /\ Decides(Held(q), q.save)
    /\ \A k \in Key : Succ(log[Front], run.ctx, k) => k \in Held(q) \/ Owned(k)

\* launch_run: the entry's card is the only one.
Launching(q) == q.phase = "write" /\ q.save = NoRun =>
    /\ run.status \in Active /\ run.cursor = 0
    /\ \A k \in Key : ~Done(k)
    /\ \A k, l \in Key : (k \in Held(q) \/ tasks[k] # "none")
                          /\ (l \in Held(q) \/ tasks[l] # "none") => k = l

InMemory(q) ==
    /\ q.block = NoKey
    /\ q.phase # "write" => q.cur = NoKey
    /\ q.cur # NoKey => q.got /\ tasks[q.cur] # "none"
    /\ Reading(q) /\ Advancing(q) /\ Recording(q) /\ Launching(q)

SeqInv(p) == /\ OneLine /\ Frontier /\ Recorded /\ GoesOn
             /\ Over(procs[p]) /\ Unborn(procs[p])
             /\ InMemory(procs[p])

\* The order and the successor depend on the pipeline alone.
LEMMA Rigid ==
    /\ \A k, l : Before(k, l)' <=> Before(k, l)
    /\ \A ev, saved, k : Succ(ev, saved, k)' <=> Succ(ev, saved, k)
    /\ WaysOn' <=> WaysOn
<1>1. \A k, l : Before(k, l)' <=> Before(k, l)
  BY DEF Before, Level, Ordered
<1>2. \A ev, saved, k : Succ(ev, saved, k)' <=> Succ(ev, saved, k)
  BY DEF Succ, Again, Onward, HintOf, Out, Apply, IsSelected, Candidates, Passes,
         Exceeds, Score, Bit, CardShapes
<1>3. WaysOn' <=> WaysOn
  BY DEF WaysOn, Carded, Out
<1> QED
  BY <1>1, <1>2, <1>3

-----------------------------------------------------------------------------
(***************************************************************************)
(* The steps.                                                              *)
(***************************************************************************)
LEMMA Typed ==
    ASSUME IInv
    PROVE  /\ procs \in [Procs -> Proc]
           /\ run \in RunRow /\ run.cursor \in Nat
           /\ rows \in [Key -> NodeRow \union {NoRow}]
           /\ tasks \in [Key -> {"none", "open", "blocked", "done"}]
           /\ Len(log) \in Nat /\ log \in Seq(Event)
           /\ \A i \in 1..Len(log) : log[i] \in Event /\ log[i].task \in Key
           /\ Front \in Nat /\ Front > run.cursor
<1>1. Front \in Nat /\ Front > run.cursor
  BY Tables DEF Front
<1> QED
  BY <1>1, Tables

LEMMA Types ==
    ASSUME IInv, NEW p \in Procs
    PROVE  /\ procs \in [Procs -> Proc] /\ procs[p] \in Proc
           /\ run \in RunRow /\ run.cursor \in Nat
           /\ rows \in [Key -> NodeRow \union {NoRow}]
           /\ tasks \in [Key -> {"none", "open", "blocked", "done"}]
           /\ Len(log) \in Nat /\ log \in Seq(Event)
           /\ \A i \in 1..Len(log) : log[i] \in Event /\ log[i].task \in Key
           /\ Front \in Nat /\ Front > run.cursor
  BY Typed

\* A step that changes only what the process remembers.
LEMMA MemoryKept ==
    ASSUME NEW p \in Procs, SeqInv(p), NEW q, procs'[p] = q,
           UNCHANGED <<run, rows, tasks, log>>, InMemory(q),
           run.status \in Active \/ q.phase = "idle"
    PROVE  SeqInv(p)'
<1>1. OneLine'
  BY Rigid DEF SeqInv, OneLine
<1>2. Frontier'
  BY Rigid DEF SeqInv, Frontier, Front
<1>3. Recorded'
  BY DEF SeqInv, Recorded, Front, Done, Owned, Due, Launched
<1>4. GoesOn'
  BY Rigid DEF SeqInv, GoesOn, Launched
<1>5. (Over(procs[p]) /\ Unborn(procs[p]))'
  BY DEF SeqInv, Over, Unborn, Active, Terminal
<1>6. Reading(procs[p])' /\ Advancing(procs[p])'
  BY DEF InMemory, Reading, Advancing, Front, Done, Owned, Ahead
<1>7. Launching(procs[p])'
  BY DEF InMemory, Launching, Done, Held
<1>8. Recording(procs[p])'
  BY Rigid DEF InMemory, Recording, Decides, Front, Done, Owned, Ahead, Held
<1> QED
  BY <1>1, <1>2, <1>3, <1>4, <1>5, <1>6, <1>7, <1>8 DEF SeqInv, InMemory

LEMMA IdleInMemory == InMemory(IdleProc)
  BY DEF InMemory, IdleProc, Reading, Advancing, Recording, Launching

LEMMA SeqInit == ASSUME NEW p \in Procs, Init PROVE SeqInv(p)
<1>1. procs[p] = IdleProc
  BY DEF Init
<1>2. Len(log) = 0 /\ run.cursor = 0 /\ run.status = "NONE"
  BY DEF Init, NoRun
<1>3. /\ \A k \in Key : tasks[k] = "none" /\ rows[k] = NoRow
      /\ IdleProc.phase = "idle"
  BY DEF Init, IdleProc
<1> QED
  BY <1>1, <1>2, <1>3, IdleInMemory
     DEF SeqInv, OneLine, Frontier, Front, Recorded, Done, Launched, GoesOn, Over,
         Unborn, Active, Terminal

\* launch_run creates one card at most.
LEMMA OneEntry ==
    ASSUME NEW ctx, NEW k \in EntryKeys(ctx), NEW l \in EntryKeys(ctx) PROVE k = l
<1>1. PICK d \in Out(Start) :
         IsSelected(d, Out(Start), ctx, NoLabel, {}) /\ k = <<d.dst, 1>>
  BY DEF EntryKeys
<1>2. PICK e \in Out(Start) :
         IsSelected(e, Out(Start), ctx, NoLabel, {}) /\ l = <<e.dst, 1>>
  BY DEF EntryKeys
<1>3. Out(Start) \in SUBSET Edges
  BY DEF Out
<1>4. d.dst = e.dst
  BY <1>1, <1>2, <1>3, OneTarget
<1> QED
  BY <1>1, <1>2, <1>4

LEMMA SeqLaunch ==
    ASSUME IInv, NEW p \in Procs, SeqInv(p), Launch(p)
    PROVE  SeqInv(p)'
<1>1. PICK ctx \in Contexts :
         /\ run' = [status |-> "RUNNING", cursor |-> 0, ctx |-> ctx]
         /\ procs' = [procs EXCEPT ![p] =
                [IdleProc EXCEPT !.phase = "write", !.todo = EntryKeys(ctx)]]
  BY DEF Launch
<1>2. /\ run.status = "NONE" /\ run.cursor = 0 /\ Len(log) = 0
      /\ \A k \in Key : rows[k] = NoRow /\ tasks[k] = "none"
      /\ UNCHANGED <<rows, tasks, log>>
  BY DEF Launch, SeqInv, Unborn, board
<1>3. run'.status = "RUNNING" /\ run'.cursor = 0
  BY <1>1
<1>4. PICK q : /\ q = [IdleProc EXCEPT !.phase = "write", !.todo = EntryKeys(ctx)]
               /\ procs'[p] = q
  BY <1>1, Types
<1>5. /\ q.phase = "write" /\ q.save = NoRun /\ q.todo = EntryKeys(ctx)
      /\ q.cur = NoKey /\ q.block = NoKey
  BY <1>4 DEF IdleProc
<1>6. \A k, l \in EntryKeys(ctx) : k = l
  BY OneEntry
<1>7. \A k \in Key : ~Done(k)' /\ tasks'[k] = "none" /\ rows'[k] = NoRow
  BY <1>2 DEF Done
<1>8. \A k \in Held(q) : k \in EntryKeys(ctx)
  BY <1>5, EngineAssumption DEF Held
<1>9. Launching(procs[p])'
  BY <1>3, <1>4, <1>6, <1>7, <1>8 DEF Launching, Held, Active
<1>10. InMemory(procs[p])'
  BY <1>4, <1>5, <1>9 DEF InMemory, Reading, Advancing, Recording
<1>11. (OneLine /\ Frontier /\ Recorded /\ GoesOn)'
  BY <1>2, <1>3, <1>7 DEF OneLine, Frontier, Front, Recorded, Launched, GoesOn
<1> QED
  BY <1>3, <1>10, <1>11 DEF SeqInv, Over, Unborn, Terminal

LEMMA SeqBeginPass ==
    ASSUME IInv, NEW p \in Procs, SeqInv(p), BeginPass(p)
    PROVE  SeqInv(p)'
<1>1. PICK q : /\ q = [IdleProc EXCEPT !.phase = "read", !.batch = Unseen]
               /\ procs'[p] = q
  BY Types DEF BeginPass
<1>2. /\ q.phase = "read" /\ q.batch = Unseen /\ q.cur = NoKey /\ q.block = NoKey
  BY <1>1 DEF IdleProc
<1>3. run.status \in Active /\ UNCHANGED <<run, rows, tasks, log>>
  BY DEF BeginPass, store, board
<1>4. PICK i \in 1..Len(log) : i > run.cursor /\ Owned(log[i].task)
  BY DEF BeginPass, Unseen
<1>5. log[i].task \in Key /\ i >= Front /\ Front \in 1..Len(log)
  BY <1>4, Types DEF Front
<1>6. Launched
  BY <1>4, <1>5 DEF Owned, Launched
<1>7. Owned(log[Front].task)
  BY <1>5, <1>6, Types DEF SeqInv, Recorded, Due
<1>8. Front \in Unseen /\ Ahead(Unseen \ {Front})
  BY <1>5, <1>7, Types DEF Unseen, Ahead, Front
<1>9. InMemory(q)
  BY <1>2, <1>3, <1>5, <1>7, <1>8 DEF InMemory, Reading, Advancing, Recording, Launching
<1> QED
  BY <1>1, <1>3, <1>9, MemoryKept

LEMMA SeqReadRun ==
    ASSUME IInv, NEW p \in Procs, SeqInv(p), ReadRun(p)
    PROVE  SeqInv(p)'
<1>1. procs[p].phase = "read" /\ UNCHANGED <<run, rows, tasks, log>>
  BY DEF ReadRun, store, board
<1>2. PICK i \in procs[p].batch :
         /\ NextEvent(p, i)
         /\ procs' = [procs EXCEPT ![p] =
                [procs[p] EXCEPT !.phase = "mark", !.batch = procs[p].batch \ {i},
                                 !.evt = i, !.snap = run]]
  BY DEF ReadRun
<1>3. PICK q : /\ q = [procs[p] EXCEPT !.phase = "mark",
                                       !.batch = procs[p].batch \ {i},
                                       !.evt = i, !.snap = run]
               /\ procs'[p] = q
  BY <1>2, Types
<1>4. /\ q.phase = "mark" /\ q.batch = procs[p].batch \ {i} /\ q.evt = i
      /\ q.snap = run /\ q.cur = procs[p].cur /\ q.block = procs[p].block
  BY <1>3, Types DEF Proc
<1>5. /\ run.status \in Active /\ Front \in procs[p].batch /\ Front <= Len(log)
      /\ Ahead(procs[p].batch \ {Front})
      /\ procs[p].cur = NoKey /\ procs[p].block = NoKey
  BY <1>1 DEF SeqInv, InMemory, Reading
<1>6. i = Front
  BY <1>2, <1>5, Types DEF NextEvent, Ahead
<1>7. InMemory(q)
  BY <1>4, <1>5, <1>6 DEF InMemory, Reading, Advancing, Recording, Launching
<1> QED
  BY <1>1, <1>3, <1>5, <1>7, MemoryKept

\* A row that was found keeps its task: no event is passed over.
LEMMA SeqSkipEvent ==
    ASSUME IInv, NEW p \in Procs, SeqInv(p), SkipEvent(p)
    PROVE  FALSE
<1>1. PICK i \in procs[p].batch : NextEvent(p, i) /\ ~Owned(log[i].task)
  BY DEF SkipEvent
<1>2. /\ Owned(log[Front].task) /\ Ahead(procs[p].batch \ {Front})
  BY DEF SkipEvent, SeqInv, InMemory, Reading
<1> QED
  BY <1>1, <1>2 DEF Ahead

LEMMA SeqStop ==
    ASSUME NEW p \in Procs, IInv, SeqInv(p), Crash(p) \/ LaunchReturns(p)
    PROVE  SeqInv(p)'
<1>1. procs'[p] = IdleProc /\ UNCHANGED <<run, rows, tasks, log>>
  BY Types DEF Crash, LaunchReturns, store, board
<1> QED
  BY <1>1, IdleInMemory, MemoryKept DEF IdleProc

LEMMA SeqMarkNode ==
    ASSUME IInv, NEW p \in Procs, SeqInv(p), MarkNode(p)
    PROVE  SeqInv(p)' /\ \A k \in Key : Done(k) => Done(k)'
<1>0. PICK row : /\ row = [status |-> IF GatePassed(p) THEN "SUCCEEDED" ELSE "PARTIAL",
                           upd |-> AnswerOf(p).upd, card |-> TRUE]
                 /\ rows' = [rows EXCEPT ![EventOf(p).task] = row]
  BY DEF MarkNode
<1>1. row.status \in {"SUCCEEDED", "PARTIAL"} /\ row.card = TRUE
  BY <1>0
<1>2. procs[p].phase = "mark" /\ UNCHANGED <<run, tasks, log>>
  BY DEF MarkNode, board
<1>3. /\ run.status \in Active /\ procs[p].snap = run /\ procs[p].evt = Front
      /\ Front <= Len(log) /\ Ahead(procs[p].batch)
      /\ procs[p].cur = NoKey /\ procs[p].block = NoKey
  BY <1>2 DEF SeqInv, InMemory, Advancing
<1>4. PICK k \in Key : k = log[Front].task /\ EventOf(p).task = k
  BY <1>3, Types DEF EventOf
<1>5. row \in NodeRow
  BY <1>0, <1>2, InHand DEF NodeRow, Answer
<1>6. row # NoRow
  BY <1>5, EngineAssumption
<1>7. /\ rows'[k] = row /\ \A l \in Key : l # k => rows'[l] = rows[l]
  BY <1>0, <1>4, Types
<1>8. /\ Done(k)' /\ Owned(k)'
      /\ \A l \in Key : /\ Done(l) => Done(l)'
                        /\ Owned(l) => Owned(l)'
                        /\ Done(l)' => Done(l) \/ l = k
  <2>1. Done(k)' /\ Owned(k)'
    BY <1>1, <1>6, <1>7 DEF Done, Owned
  <2>2. \A l \in Key : l # k => (Done(l)' <=> Done(l)) /\ (Owned(l)' <=> Owned(l))
    BY <1>7 DEF Done, Owned
  <2> QED
    BY <2>1, <2>2, Zenon
<1>9. \A i \in 1..Len(log) : log[i].task \in Key
  BY Types
<1>10. OneLine' /\ Frontier'
  BY <1>2, Rigid DEF SeqInv, OneLine, Frontier, Front
<1>11. tasks[k] # "none"
  BY <1>3, <1>4, Types DEF SeqInv, OneLine
<1>12. Recorded'
  <2>1. \A l \in Key : rows'[l] # NoRow => rows'[l].card /\ tasks'[l] # "none"
    BY <1>1, <1>2, <1>7, <1>11 DEF SeqInv, Recorded
  <2>2. \A i \in 1..Len(log) : i < Front => Done(log[i].task)'
    BY <1>2, <1>8, <1>9 DEF SeqInv, Recorded
  <2>3. \A l \in Key : Done(l)' => \E i \in 1..Len(log) : i <= Front /\ log[i].task = l
    <3>1. Front \in 1..Len(log) /\ Front <= Front
      BY <1>3, Types
    <3> QED
      BY <1>4, <1>8, <3>1 DEF SeqInv, Recorded
  <2>4. \A l \in Key : Due(l)' => Owned(l)'
    BY <1>2, <1>3, <1>4, <1>8 DEF Due, Front
  <2> QED
    BY <1>2, <2>1, <2>2, <2>3, <2>4 DEF Recorded, Front
<1>13. GoesOn'
  BY <1>2, <1>3, Types DEF GoesOn, Front
<1>14. PICK q : q = [procs[p] EXCEPT !.phase = "plan"] /\ procs'[p] = q
  BY Types DEF MarkNode
<1>15. /\ q.phase = "plan" /\ q.snap = procs[p].snap /\ q.evt = procs[p].evt
       /\ q.batch = procs[p].batch /\ q.cur = NoKey /\ q.block = NoKey
  BY <1>3, <1>14, Types DEF Proc
<1>16. Ahead(q.batch)'
  BY <1>2, <1>3, <1>8, <1>9, <1>15 DEF Ahead, Front
<1>17. Done(log[Front].task)'
  BY <1>2, <1>4, <1>8 DEF Front
<1>18. Advancing(procs[p])'
  BY <1>2, <1>3, <1>14, <1>15, <1>16, <1>17 DEF Advancing, Front, Ahead
<1>19. InMemory(procs[p])'
  BY <1>14, <1>15, <1>18 DEF InMemory, Reading, Recording, Launching
<1> QED
  BY <1>2, <1>3, <1>8, <1>10, <1>12, <1>13, <1>19
     DEF SeqInv, Over, Unborn, Active, Terminal

\* The board answers every call, and there is no card to block.
LEMMA SeqNever ==
    ASSUME IInv, OneCard, NEW p \in Procs, SeqInv(p),
           CreateCardFails(p) \/ BlockCard(p)
    PROVE  FALSE
<1>1. ~CreateCardFails(p)
  BY DEF CreateCardFails, OneCard, IInv, TypeOK
<1>2. ~BlockCard(p)
  BY DEF BlockCard, SeqInv, InMemory
<1> QED
  BY <1>1, <1>2

\* What an advance leads to comes after everything that has happened.
LEMMA SuccLast ==
    ASSUME IInv, OneCard, NEW p \in Procs, SeqInv(p), Front <= Len(log),
           NEW k \in Key, Succ(log[Front], run.ctx, k)
    PROVE  /\ \A i \in 1..Len(log) : i <= Front => Before(log[i].task, k)
           /\ \A i \in 1..Len(log) : i > Front => log[i].task = k
           /\ \A l \in Key : tasks[l] = "open" => l = k
           /\ ~Done(k)
           /\ tasks[k] = "none" =>
                 Len(log) = Front /\ \A l \in Key : tasks[l] # "open"
<1>1. Front \in 1..Len(log)
  <2>1. Front > 0 /\ Front \in Nat
    BY Types DEF Front
  <2> QED
    BY <2>1, Types
<1>2. Before(log[Front].task, k)
  BY <1>1, Types, SuccBefore
<1>3. ASSUME NEW i \in 1..Len(log), i <= Front PROVE Before(log[i].task, k)
  <2>1. CASE i = Front
    BY <1>2, <2>1
  <2>2. CASE i # Front
    <3>1. Before(log[i].task, log[Front].task)
      BY <1>1, <1>3, <2>2, Types DEF SeqInv, OneLine
    <3> QED
      BY <1>1, <1>2, <3>1, Types, BeforeStrict
  <2> QED
    BY <2>1, <2>2
<1>4. \A i \in 1..Len(log) : i > Front => log[i].task = k
  BY SuccUnique DEF SeqInv, Frontier
<1>5. \A l \in Key : tasks[l] = "open" => l = k
  BY SuccUnique DEF SeqInv, Frontier
<1>6. ~Done(k)
  BY <1>3, BeforeStrict DEF SeqInv, Recorded
<1>7. ASSUME tasks[k] = "none"
      PROVE  Len(log) = Front /\ \A l \in Key : tasks[l] # "open"
  <2>1. \A i \in 1..Len(log) : tasks[log[i].task] = "done"
    BY DEF SeqInv, OneLine
  <2>2. \A i \in 1..Len(log) : ~(i > Front)
    BY <1>4, <1>7, <2>1
  <2> QED
    BY <1>1, <1>5, <1>7, <2>2, Types
<1> QED
  BY <1>3, <1>4, <1>5, <1>6, <1>7

LEMMA SeqCreateCard ==
    ASSUME IInv, OneCard, NEW p \in Procs, SeqInv(p), CreateCard(p)
    PROVE  SeqInv(p)'
<1>1. PICK k \in procs[p].todo :
         /\ tasks' = [tasks EXCEPT ![k] = IF tasks[k] = "none" THEN "open" ELSE tasks[k]]
         /\ procs' = [procs EXCEPT ![p] =
                [procs[p] EXCEPT !.todo = procs[p].todo \ {k}, !.cur = k, !.got = TRUE]]
  BY DEF CreateCard
<1>2. PICK q : /\ q = [procs[p] EXCEPT !.todo = procs[p].todo \ {k},
                                       !.cur = k, !.got = TRUE]
               /\ procs'[p] = q
  BY <1>1, Types
<1>3. /\ q.phase = procs[p].phase /\ q.batch = procs[p].batch /\ q.save = procs[p].save
      /\ q.todo = procs[p].todo \ {k} /\ q.cur = k /\ q.got = TRUE
      /\ q.block = procs[p].block
  BY <1>2, Types DEF Proc
<1>4. /\ procs[p].phase = "write" /\ procs[p].cur = NoKey
      /\ UNCHANGED <<run, rows, log>>
  BY DEF CreateCard, Writing, store
<1>5. k \in Key /\ procs[p].block = NoKey
  BY Types DEF Proc, SeqInv, InMemory
<1>6. Held(q) = Held(procs[p]) /\ k \in Held(q)
  BY <1>3, <1>4, <1>5, EngineAssumption DEF Held
<1>7. /\ tasks'[k] # "none"
      /\ tasks[k] # "none" => tasks'[k] = tasks[k]
      /\ tasks[k] = "none" => tasks'[k] = "open"
      /\ \A l \in Key : l # k => tasks'[l] = tasks[l]
  BY <1>1, <1>5, Types
<1>8. run.status \in Active
  BY <1>4 DEF SeqInv, InMemory, Recording, Launching
<1>9. Recording(procs[p])'
  <2>1. Recording(q)
    BY <1>3, <1>4, <1>6 DEF SeqInv, InMemory, Recording
  <2> QED
    BY <1>2, <1>4, <2>1, Rigid
       DEF Recording, Decides, Front, Done, Owned, Ahead, Held
<1>10. Launching(procs[p])'
  <2> SUFFICES ASSUME q.save = NoRun PROVE Launching(procs[p])'
    BY <1>2 DEF Launching
  <2>1. /\ run.status \in Active /\ run.cursor = 0
        /\ \A l \in Key : ~Done(l)
        /\ \A m, l \in Key : (m \in Held(q) \/ tasks[m] # "none")
                              /\ (l \in Held(q) \/ tasks[l] # "none") => m = l
    BY <1>3, <1>4, <1>6 DEF SeqInv, InMemory, Launching
  <2>2. \A l \in Key : l \in Held(q) \/ tasks'[l] # "none" =>
            l \in Held(q) \/ tasks[l] # "none"
    BY <1>6, <1>7
  <2> QED
    BY <1>2, <1>4, <2>1, <2>2 DEF Launching, Held, Done
<1>11. InMemory(procs[p])'
  BY <1>2, <1>3, <1>4, <1>5, <1>7, <1>9, <1>10 DEF InMemory, Reading, Advancing
<1>12. CASE tasks[k] # "none"
  <2>1. tasks' = tasks
    BY <1>1, <1>5, <1>12, Types
  <2>2. OneLine' /\ Frontier' /\ Recorded' /\ GoesOn'
    BY <1>4, <2>1, Rigid DEF SeqInv, OneLine, Frontier, Front, Recorded, Done, Owned,
                             Due, Launched, GoesOn
  <2> QED
    BY <1>4, <1>8, <1>11, <2>2 DEF SeqInv, Over, Unborn, Active, Terminal
<1>13. CASE tasks[k] = "none"
  <2>1. /\ \A l \in Key : tasks[l] # "open"
        /\ \A i \in 1..Len(log) : Before(log[i].task, k)
        /\ run.cursor <= Len(log)
        /\ \A i \in 1..Len(log) : ~(i > Front)
        /\ Front <= Len(log) => Succ(log[Front], run.ctx, k)
        /\ Launched /\ Front > Len(log) => FALSE
    <3>1. CASE procs[p].save = NoRun
      <4>0. /\ run.cursor = 0
            /\ \A m, l \in Key : (m \in Held(procs[p]) \/ tasks[m] # "none")
                        /\ (l \in Held(procs[p]) \/ tasks[l] # "none") => m = l
        BY <1>4, <3>1 DEF SeqInv, InMemory, Launching
      <4>1. run.cursor = 0 /\ \A l \in Key : tasks[l] = "none"
        BY <1>5, <1>6, <1>13, <4>0
      <4>2. Len(log) = 0
        BY <4>1, Types DEF SeqInv, OneLine
      <4>3. ~Launched
        BY <4>1 DEF SeqInv, Recorded, Launched
      <4> QED
        BY <4>1, <4>2, <4>3, Types DEF Front
    <3>2. CASE procs[p].save # NoRun
      <4>1. Front <= Len(log) /\ Succ(log[Front], run.ctx, k)
        BY <1>4, <1>6, <3>2 DEF SeqInv, InMemory, Recording, Decides
      <4> QED
        BY <1>5, <1>13, <4>1, SuccLast, Types
    <3> QED
      BY <3>1, <3>2
  <2>2. OneLine'
    <3>1. \A i \in 1..Len(log) : log[i].task \in Key /\ log[i].task # k
      BY <1>13, Types DEF SeqInv, OneLine
    <3> QED
      BY <1>4, <1>5, <1>7, <1>13, <2>1, <3>1, Rigid DEF SeqInv, OneLine
  <2>3. Frontier'
    BY <1>4, <1>7, <1>13, <2>1, Rigid DEF Frontier, Front
  <2>4. Recorded'
    <3>1. Launched' => Front <= Len(log) /\ Launched
      BY <1>4, <2>1, Types DEF Launched
    <3>2. \A l \in Key : tasks[l] # "none" => tasks'[l] # "none"
      BY <1>7
    <3> QED
      BY <1>4, <3>1, <3>2 DEF SeqInv, Recorded, Front, Done, Owned, Due
  <2>5. GoesOn'
    BY <1>4, <2>1, Types DEF GoesOn, Launched, Front
  <2> QED
    BY <1>4, <1>8, <1>11, <2>2, <2>3, <2>4, <2>5
       DEF SeqInv, Over, Unborn, Active, Terminal
<1> QED
  BY <1>12, <1>13

LEMMA SeqUpsertRow ==
    ASSUME IInv, OneCard, NEW p \in Procs, SeqInv(p), UpsertRow(p)
    PROVE  SeqInv(p)' /\ \A k \in Key : Done(k) => Done(k)'
<1>1. PICK k : k = procs[p].cur
  OBVIOUS
<1>2. PICK row : /\ row = [status |-> "DISPATCHED", upd |-> NoUpdate,
                           card |-> procs[p].got]
                 /\ rows' = [rows EXCEPT ![k] = row]
  BY <1>1 DEF UpsertRow
<1>3. /\ procs[p].phase = "write" /\ k \in Key
      /\ UNCHANGED <<run, tasks, log>>
      /\ procs[p].got = TRUE /\ tasks[k] # "none" /\ procs[p].block = NoKey
  <2>1. procs[p].got \in BOOLEAN
    BY Types DEF Proc
  <2> QED
    BY <1>1, <2>1, Types DEF UpsertRow, Writing, board, Proc, SeqInv, InMemory
<1>4. row.status = "DISPATCHED" /\ row.card = TRUE
  BY <1>2, <1>3
<1>5. row # NoRow
  <2>1. row \in NodeRow
    BY <1>2, <1>3, BlankTypes DEF NodeRow
  <2> QED
    BY <2>1, EngineAssumption
<1>6. rows'[k] = row /\ \A l \in Key : l # k => rows'[l] = rows[l]
  BY <1>2, <1>3, Types
<1>7. PICK q : /\ q = [procs[p] EXCEPT !.cur = NoKey, !.got = FALSE]
               /\ procs'[p] = q
  BY Types DEF UpsertRow
<1>8. /\ q.phase = procs[p].phase /\ q.batch = procs[p].batch /\ q.save = procs[p].save
      /\ q.todo = procs[p].todo /\ q.cur = NoKey /\ q.block = procs[p].block
  BY <1>7, Types DEF Proc
<1>9. /\ k \in Held(procs[p])
      /\ \A l \in Held(procs[p]) : l = k \/ l \in Held(q)
      /\ \A l \in Held(q) : l \in Held(procs[p])
  BY <1>1, <1>3, <1>8, EngineAssumption DEF Held
<1>10. /\ run.status \in Active
       /\ ~Done(k)
       /\ Launched => \A l \in Key : Due(l) => Owned(l)
       /\ \A l \in Key : Due(l) => Owned(l) \/ l = k
  <2>1. CASE procs[p].save = NoRun
    <3>1. /\ run.status \in Active /\ ~Done(k) /\ run.cursor = 0
          /\ \A l \in Key : tasks[l] # "none" => l = k
      BY <1>3, <1>9, <2>1 DEF SeqInv, InMemory, Launching
    <3>2. \A l \in Key : Due(l) => tasks[l] # "none"
      <4>1. Front <= Len(log) => tasks[log[Front].task] = "done"
        BY <3>1, Types DEF SeqInv, OneLine, Front
      <4> QED
        BY <4>1 DEF Due
    <3> QED
      BY <3>1, <3>2 DEF SeqInv, Recorded
  <2>2. CASE procs[p].save # NoRun
    <3>1. /\ run.status \in Active /\ Front <= Len(log) /\ Done(log[Front].task)
          /\ Succ(log[Front], run.ctx, k)
      BY <1>3, <1>9, <2>2 DEF SeqInv, InMemory, Recording, Decides
    <3>2. ~Done(k)
      BY <1>3, <3>1, SuccLast
    <3>3. log[Front].task \in Key
      <4>1. Front > 0
        BY Types DEF Front
      <4> QED
        BY <3>1, <4>1, Types
    <3>4. Launched
      BY <3>1, <3>3 DEF Done, Launched
    <3> QED
      BY <3>1, <3>2, <3>4 DEF SeqInv, Recorded
  <2> QED
    BY <2>1, <2>2
<1>11. /\ ~Done(k)' /\ Owned(k)'
       /\ \A l \in Key : l # k => (Done(l)' <=> Done(l)) /\ (Owned(l)' <=> Owned(l))
  BY <1>4, <1>5, <1>6 DEF Done, Owned
<1>12. \A l \in Key : (Done(l)' <=> Done(l)) /\ (Owned(l) => Owned(l)')
  BY <1>10, <1>11, Zenon
<1>13. \A i \in 1..Len(log) : log[i].task \in Key
  BY Types
<1>14. OneLine' /\ Frontier'
  BY <1>3, Rigid DEF SeqInv, OneLine, Frontier, Front
<1>15. Recorded'
  <2>1. \A l \in Key : rows'[l] # NoRow => rows'[l].card /\ tasks'[l] # "none"
    BY <1>3, <1>4, <1>6 DEF SeqInv, Recorded
  <2>2. \A i \in 1..Len(log) : i < Front => Done(log[i].task)'
    BY <1>3, <1>12, <1>13 DEF SeqInv, Recorded
  <2>3. \A l \in Key : Done(l)' => \E i \in 1..Len(log) : i <= Front /\ log[i].task = l
    BY <1>12 DEF SeqInv, Recorded
  <2>4. \A l \in Key : Due(l)' => Owned(l)'
    BY <1>3, <1>10, <1>11, <1>12 DEF Due, Front
  <2> QED
    BY <1>3, <2>1, <2>2, <2>3, <2>4 DEF Recorded, Front
<1>16. GoesOn'
  <2>1. CASE procs[p].save = NoRun
    <3>1. Len(log) = run.cursor => tasks[k] = "open"
      <4>1. procs[p].phase = "write" /\ run.cursor = 0
        BY <1>3, <2>1 DEF SeqInv, InMemory, Launching
      <4>2. Len(log) = 0 => tasks[k] \notin {"blocked", "done"}
        BY <1>3 DEF SeqInv, OneLine
      <4> QED
        BY <1>3, <4>1, <4>2, Types
    <3> QED
      BY <1>3, <3>1 DEF GoesOn
  <2>2. CASE procs[p].save # NoRun
    <3>1. Front <= Len(log)
      BY <1>3, <2>2 DEF SeqInv, InMemory, Recording
    <3> QED
      BY <1>3, <3>1, Types DEF GoesOn, Front
  <2> QED
    BY <2>1, <2>2
<1>17. Recording(procs[p])'
  <2> SUFFICES ASSUME q.save # NoRun PROVE Recording(procs[p])'
    BY <1>7 DEF Recording
  <2>1. /\ run.status \in Active /\ Front <= Len(log)
        /\ Ahead(q.batch) /\ Done(log[Front].task)
        /\ Decides(Held(procs[p]), q.save)
        /\ \A l \in Key : Succ(log[Front], run.ctx, l) => l \in Held(procs[p]) \/ Owned(l)
    BY <1>3, <1>8 DEF SeqInv, InMemory, Recording
  <2>2. Decides(Held(q), q.save)
    BY <1>9, <2>1 DEF Decides
  <2>3. Ahead(q.batch)'
    BY <1>3, <1>7, <1>12, <1>13, <2>1 DEF Ahead, Front
  <2>4. Done(log[Front].task)'
    <3>1. Front > 0
      BY Types DEF Front
    <3> QED
      BY <1>3, <1>12, <1>13, <2>1, <3>1, Types DEF Front
  <2>5. \A l \in Key : Succ(log[Front], run.ctx, l) => l \in Held(q) \/ Owned(l)'
    BY <1>9, <1>11, <1>12, <2>1
  <2>6. Decides(Held(procs[p]), procs[p].save)'
    BY <1>3, <1>7, <2>2, Rigid DEF Decides, Front, Held
  <2> QED
    BY <1>3, <1>7, <2>1, <2>3, <2>4, <2>5, <2>6, Rigid DEF Recording, Front, Held, Ahead
<1>18. Launching(procs[p])'
  BY <1>3, <1>7, <1>8, <1>9, <1>12 DEF SeqInv, InMemory, Launching, Held
<1>19. InMemory(procs[p])'
  BY <1>3, <1>7, <1>8, <1>17, <1>18 DEF InMemory, Reading, Advancing
<1> QED
  BY <1>3, <1>10, <1>12, <1>14, <1>15, <1>16, <1>19
     DEF SeqInv, Over, Unborn, Active, Terminal

\* A worker finishes the open card, the only one there is.
\* A completion, or a worker's failure, closes the open card: it is the last
\* event, and there is no open card then.
LEMMA FinishLine ==
    ASSUME IInv, OneLine, NEW k \in Key, Complete(k) \/ GiveUp(k)
    PROVE  /\ OneLine' /\ UNCHANGED <<run, rows, procs>> /\ tasks[k] = "open"
           /\ Len(log') = Len(log) + 1 /\ log'[Len(log) + 1].task = k
           /\ \A i \in 1..Len(log) : log'[i] = log[i]
           /\ tasks'[k] = "done" /\ \A l \in Key : l # k => tasks'[l] = tasks[l]
           /\ \A l \in Key : tasks[l] # "none" <=> tasks'[l] # "none"
           /\ \A l \in Key : tasks[l] = "open" => l = k
           /\ \A l \in Key : tasks'[l] # "open"
<1>1. PICK kind, ans : Finish(k, kind, ans)
  BY DEF Complete, GiveUp
<1>2. PICK ev : /\ ev = [task |-> k, kind |-> kind, ans |-> ans]
                /\ log' = Append(log, ev) /\ tasks' = [tasks EXCEPT ![k] = "done"]
  BY <1>1 DEF Finish
<1>3. ev.task = k /\ UNCHANGED <<run, rows, procs>>
  BY <1>1, <1>2 DEF Finish, store
<1>4. tasks[k] = "open"
  BY DEF Complete, GiveUp, OneLine
<1>5. /\ Len(log') = Len(log) + 1 /\ log'[Len(log) + 1].task = k
      /\ \A i \in 1..Len(log) : log'[i] = log[i]
  BY <1>2, <1>3, Typed
<1>a. tasks'[k] = "done" /\ \A l \in Key : l # k => tasks'[l] = tasks[l]
  BY <1>2, Typed
<1>b. \A l \in Key : tasks[l] = "open" => l = k
  BY <1>4 DEF OneLine
<1>6. /\ \A l \in Key : tasks[l] # "none" <=> tasks'[l] # "none"
      /\ \A l \in Key : tasks'[l] # "open"
  BY <1>4, <1>a, <1>b
<1>8. /\ \A i \in 1..Len(log) : log[i].task \in Key /\ tasks[log[i].task] = "done"
      /\ \A i \in 1..Len(log) : Before(log[i].task, k)
  BY <1>4, Typed DEF OneLine
<1>9. /\ \A i \in 1..Len(log') : i \in 1..Len(log) \/ i = Len(log) + 1
      /\ 1..Len(log) \subseteq 1..Len(log') /\ Len(log) + 1 \in 1..Len(log')
      /\ Len(log) \in Nat
  BY <1>5, Typed
<1>10. OneLine'
  <2>1. \A i, j \in 1..Len(log') : i < j => Before(log'[i].task, log'[j].task)
    <3> SUFFICES ASSUME NEW i \in 1..Len(log'), NEW j \in 1..Len(log'), i < j
                 PROVE  Before(log'[i].task, log'[j].task)
      OBVIOUS
    <3>1. i \in 1..Len(log) /\ log'[i] = log[i]
      BY <1>5, <1>9
    <3>2. CASE j \in 1..Len(log)
      BY <1>5, <3>1, <3>2 DEF OneLine
    <3>3. CASE j = Len(log) + 1
      BY <1>5, <1>8, <3>1, <3>3
    <3> QED
      BY <1>9, <3>2, <3>3
  <2>2. \A i \in 1..Len(log') : tasks'[log'[i].task] = "done"
    BY <1>5, <1>6, <1>8, <1>9, <1>a
  <2>3. ASSUME NEW l \in Key, tasks'[l] \in {"blocked", "done"}
        PROVE  \E i \in 1..Len(log') : log'[i].task = l
    <3>1. CASE l = k
      BY <1>5, <1>9, <3>1
    <3>2. CASE l # k
      <4>1. PICK i \in 1..Len(log) : log[i].task = l
        BY <1>6, <1>a, <2>3, <3>2 DEF OneLine
      <4> QED
        BY <1>5, <1>9, <4>1
    <3> QED
      BY <3>1, <3>2
  <2> QED
    BY <1>6, <2>1, <2>2, <2>3, Rigid DEF OneLine
<1> QED
  BY <1>3, <1>4, <1>5, <1>6, <1>10, <1>a, <1>b

LEMMA SeqFinish ==
    ASSUME IInv, NEW p \in Procs, SeqInv(p), NEW k \in Key,
           Complete(k) \/ GiveUp(k)
    PROVE  SeqInv(p)'
<1>1. OneLine
  BY DEF SeqInv
<1>3. UNCHANGED <<run, rows, procs>>
  BY <1>1, FinishLine
<1>4. tasks[k] = "open"
  BY <1>1, FinishLine
<1>5. /\ Len(log') = Len(log) + 1 /\ log'[Len(log) + 1].task = k
      /\ \A i \in 1..Len(log) : log'[i] = log[i]
  BY <1>1, FinishLine
<1>6. /\ tasks'[k] = "done" /\ \A l \in Key : l # k => tasks'[l] = tasks[l]
      /\ \A l \in Key : tasks[l] # "none" => tasks'[l] # "none"
      /\ \A l \in Key : tasks'[l] # "none" => tasks[l] # "none"
      /\ \A l \in Key : tasks'[l] # "open"
  BY <1>1, FinishLine
<1>7. /\ run.status \notin Terminal /\ run.status # "NONE"
  BY <1>4 DEF SeqInv, Over, Unborn
<1>8. /\ \A i \in 1..Len(log) : log[i].task \in Key /\ tasks[log[i].task] = "done"
      /\ \A i \in 1..Len(log) : Before(log[i].task, k)
  BY <1>1, <1>4, Types DEF OneLine
<1>9. /\ \A i \in 1..Len(log') : i \in 1..Len(log) \/ i = Len(log) + 1
      /\ 1..Len(log) \subseteq 1..Len(log') /\ Len(log) + 1 \in 1..Len(log')
      /\ Len(log) \in Nat
  BY <1>5, Types
<1>10. OneLine'
  BY <1>1, FinishLine
<1>11. /\ run.cursor <= Len(log) /\ Front > 0 /\ Front \in Nat
       /\ Front <= Len(log) => log'[Front] = log[Front]
  <2>1. Front > 0 /\ Front \in Nat
    BY Types DEF Front
  <2> QED
    BY <1>5, <1>9, <2>1 DEF SeqInv, Frontier
<1>12. Frontier'
  <2>1. ASSUME NEW i \in 1..Len(log'), i > Front
        PROVE  Succ(log'[Front], run.ctx, log'[i].task)
    <3>1. CASE i \in 1..Len(log)
      <4>1. Front <= Len(log)
        BY <1>11, <2>1, <3>1
      <4>2. Succ(log[Front], run.ctx, log[i].task)
        BY <2>1, <3>1 DEF SeqInv, Frontier
      <4> QED
        BY <1>5, <1>11, <3>1, <4>1, <4>2
    <3>2. CASE i = Len(log) + 1
      <4>1. Front <= Len(log)
        BY <1>9, <1>11, <2>1, <3>2
      <4>2. Succ(log[Front], run.ctx, k)
        BY <1>4, <4>1 DEF SeqInv, Frontier
      <4> QED
        BY <1>5, <1>11, <3>2, <4>1, <4>2
    <3> QED
      BY <1>9, <3>1, <3>2
  <2>2. run.cursor <= Len(log')
    BY <1>5, <1>9, <1>11, Types
  <2> QED
    BY <1>3, <1>6, <2>1, <2>2, Rigid DEF Frontier, Front
<1>13. /\ \A l \in Key : (Done(l)' <=> Done(l)) /\ (Owned(l)' <=> Owned(l))
       /\ Launched' <=> Launched
  BY <1>3 DEF Done, Owned, Launched
<1>14. Recorded'
  <2>1. \A l \in Key : rows[l] # NoRow => rows[l].card /\ tasks'[l] # "none"
    BY <1>6 DEF SeqInv, Recorded
  <2>2. \A i \in 1..Len(log') : i < Front => Done(log'[i].task)
    <3>1. \A i \in 1..Len(log') : i < Front => i \in 1..Len(log)
      BY <1>9, <1>11, Types DEF Front
    <3> QED
      BY <1>5, <3>1 DEF SeqInv, Recorded
  <2>3. \A l \in Key : Done(l) => \E i \in 1..Len(log') : i <= Front /\ log'[i].task = l
    BY <1>5, <1>9 DEF SeqInv, Recorded
  <2>4. ASSUME Launched, NEW l \in Key, Due(l)' PROVE Owned(l)
    <3>1. CASE Front <= Len(log)
      <4>1. l = log[Front].task
        BY <1>3, <1>5, <1>9, <1>11, <2>4, <3>1 DEF Due, Front
      <4> QED
        BY <2>4, <3>1, <4>1 DEF SeqInv, Recorded, Due
    <3>2. CASE ~(Front <= Len(log))
      <4>1. Front = Len(log) + 1
        BY <1>9, <1>11, <3>2, Types DEF Front
      <4>2. l = k
        BY <1>3, <1>5, <1>9, <2>4, <4>1 DEF Due, Front
      <4> QED
        BY <1>4, <2>4, <3>2, <4>2 DEF SeqInv, Recorded, Due
    <3> QED
      BY <3>1, <3>2
  <2>5. \A i \in 1..Len(log') : log'[i].task \in Key
    BY <1>3, <1>5, <1>8, <1>9
  <2> QED
    BY <1>3, <1>13, <2>1, <2>2, <2>3, <2>4, <2>5 DEF Recorded, Front
<1>15. GoesOn'
  BY <1>3, <1>5, <1>9, <1>11, Types DEF GoesOn
<1>16. \A S : Ahead(S) => Ahead(S)'
  BY <1>3, <1>5, <1>8, <1>9, <1>13 DEF Ahead, Front
<1>17. Front <= Len(log) => Front <= Len(log') /\ log'[Front] = log[Front]
                            /\ log[Front].task \in Key
  BY <1>5, <1>8, <1>9, <1>11
<1>18. PICK q : q = procs[p] /\ procs'[p] = q
  BY <1>3
<1>19. Reading(procs[p])' /\ Advancing(procs[p])'
  <2>1. Reading(procs[p])'
    BY <1>3, <1>13, <1>16, <1>17, <1>18 DEF SeqInv, InMemory, Reading, Front, Ahead
  <2>2. Advancing(procs[p])'
    BY <1>3, <1>13, <1>16, <1>17, <1>18 DEF SeqInv, InMemory, Advancing, Front, Ahead
  <2> QED
    BY <2>1, <2>2
<1>20. Launching(procs[p])'
  BY <1>3, <1>6, <1>13, <1>18 DEF SeqInv, InMemory, Launching, Held
<1>21. Recording(procs[p])'
  BY <1>3, <1>13, <1>16, <1>17, <1>18, Rigid
     DEF SeqInv, InMemory, Recording, Decides, Front, Held, Ahead
<1>22. InMemory(procs[p])'
  <2>1. q.block = NoKey /\ (q.phase # "write" => q.cur = NoKey)
    BY <1>18 DEF SeqInv, InMemory
  <2>2. q.cur # NoKey => q.got /\ tasks'[q.cur] # "none"
    BY <1>6, <1>18, Types DEF SeqInv, InMemory, Proc
  <2> QED
    BY <1>18, <1>19, <1>20, <1>21, <2>1, <2>2 DEF InMemory
<1> QED
  BY <1>3, <1>7, <1>10, <1>12, <1>14, <1>15, <1>22 DEF SeqInv, Over, Unborn

LEMMA SeqSaveRun ==
    ASSUME IInv, OneCard, NEW p \in Procs, SeqInv(p), SaveRun(p)
    PROVE  SeqInv(p)' /\ run.status \in Active
<1>1. /\ procs[p].phase = "write" /\ procs[p].cur = NoKey /\ procs[p].todo = {}
      /\ procs[p].save # NoRun /\ run' = procs[p].save
      /\ UNCHANGED <<rows, tasks, log>>
  BY DEF SaveRun, Dispatched, Writing, board
<1>2. PICK batch : batch = procs[p].batch
  OBVIOUS
<1>3. procs'[p] = Continue(batch)
  BY <1>2, Types DEF SaveRun
<1>4. Held(procs[p]) = {}
  BY <1>1, EngineAssumption DEF Held
<1>5. /\ run.status \in Active /\ Front <= Len(log) /\ Ahead(batch)
      /\ Done(log[Front].task) /\ Decides(Held(procs[p]), run')
      /\ \A k \in Key : Succ(log[Front], run.ctx, k) => Owned(k)
  BY <1>1, <1>2, <1>4 DEF SeqInv, InMemory, Recording
<1>6. Front \in 1..Len(log) /\ Front > 0
  BY <1>5, Types DEF Front
<1>7. /\ run'.cursor = Front /\ run'.status \in Active \union Terminal
      /\ run'.status \in Terminal => \A k \in Key : ~Succ(log[Front], run.ctx, k)
      /\ run'.status \in Active /\ WaysOn =>
            \E k \in Key : Succ(log[Front], run.ctx, k)
  BY <1>5 DEF Decides
<1>8. /\ \A i \in 1..Len(log) : i > Front => Succ(log[Front], run.ctx, log[i].task)
      /\ \A k \in Key : tasks[k] = "open" => Succ(log[Front], run.ctx, k)
  BY <1>5 DEF SeqInv, Frontier
<1>9. \A i \in 1..Len(log) : i > Front => i = Front + 1
  <2> SUFFICES ASSUME NEW i \in 1..Len(log), i > Front + 1 PROVE FALSE
    BY <1>6, Types
  <2>1. Front + 1 \in 1..Len(log) /\ Front + 1 > Front
    BY <1>6, Types
  <2>2. /\ Succ(log[Front], run.ctx, log[i].task)
        /\ Succ(log[Front], run.ctx, log[Front + 1].task)
    BY <1>6, <1>8, <2>1, Types
  <2>3. log[i].task = log[Front + 1].task
    BY <2>2, SuccUnique
  <2>4. Before(log[Front + 1].task, log[i].task)
    BY <2>1 DEF SeqInv, OneLine
  <2> QED
    BY <2>1, <2>3, <2>4, Types, BeforeStrict
<1>10. Front' = Front + 1
  BY <1>7 DEF Front
<1>11. Front + 1 <= Len(log) =>
          /\ Front + 1 \in 1..Len(log) /\ log[Front + 1].task \in Key
          /\ Succ(log[Front], run.ctx, log[Front + 1].task)
          /\ tasks[log[Front + 1].task] = "done"
  BY <1>6, <1>8, Types DEF SeqInv, OneLine
<1>12. OneLine'
  BY <1>1, Rigid DEF SeqInv, OneLine
<1>13. \A k \in Key : Front + 1 <= Len(log) => tasks[k] # "open"
  <2> SUFFICES ASSUME NEW k \in Key, Front + 1 <= Len(log), tasks[k] = "open"
               PROVE  FALSE
    OBVIOUS
  <2>1. k = log[Front + 1].task
    BY <1>8, <1>11, SuccUnique
  <2> QED
    BY <1>11, <2>1
<1>14. Frontier'
  <2>1. \A i \in 1..Len(log) : ~(i > Front + 1)
    BY <1>6, <1>9, Types
  <2> QED
    BY <1>1, <1>5, <1>7, <1>10, <1>13, <2>1 DEF Frontier
<1>15. /\ \A k \in Key : (Done(k)' <=> Done(k)) /\ (Owned(k)' <=> Owned(k))
       /\ \A i \in 1..Len(log) : log[i].task \in Key
  BY <1>1, Types DEF Done, Owned
<1>16. Recorded'
  <2>1. \A i \in 1..Len(log) : i < Front + 1 => Done(log[i].task)
    <3>1. \A i \in 1..Len(log) : i < Front + 1 => i < Front \/ i = Front
      BY <1>6, Types
    <3> QED
      BY <1>5, <3>1 DEF SeqInv, Recorded
  <2>2. \A k \in Key : Done(k) => \E i \in 1..Len(log) : i <= Front + 1 /\ log[i].task = k
    <3>1. \A i \in 1..Len(log) : i <= Front => i <= Front + 1
      BY <1>6, Types
    <3> QED
      BY <3>1 DEF SeqInv, Recorded
  <2>3. \A k \in Key : Due(k)' => Owned(k)
    BY <1>1, <1>5, <1>8, <1>10, <1>11 DEF Due
  <2> QED
    BY <1>1, <1>10, <1>15, <2>1, <2>2, <2>3 DEF SeqInv, Recorded
<1>17. GoesOn'
  <2> SUFFICES ASSUME run'.status \in Active, Len(log) = Front, WaysOn
               PROVE  \E k \in Key : tasks[k] = "open"
    BY <1>1, <1>7, Rigid DEF GoesOn
  <2>1. PICK k \in Key : Succ(log[Front], run.ctx, k)
    BY <1>7
  <2>2. tasks[k] # "none"
    <3>1. rows[k] # NoRow
      BY <1>5, <2>1 DEF Owned
    <3> QED
      BY <3>1 DEF SeqInv, Recorded
  <2>3. \A i \in 1..Len(log) : log[i].task # k
    <3>1. \A i \in 1..Len(log) : Before(log[i].task, k)
      BY <1>5, <2>1, SuccLast
    <3> QED
      BY <3>1, BeforeStrict
  <2>4. tasks[k] \notin {"blocked", "done"}
    BY <2>3 DEF SeqInv, OneLine
  <2> QED
    BY <2>2, <2>4, Types
<1>18. run'.status \in Terminal => Len(log) = Front /\ \A k \in Key : tasks[k] # "open"
  <2> SUFFICES ASSUME run'.status \in Terminal
               PROVE  Len(log) = Front /\ \A k \in Key : tasks[k] # "open"
    OBVIOUS
  <2>1. ~(Front + 1 <= Len(log))
    BY <1>7, <1>11
  <2> QED
    BY <1>6, <1>7, <1>8, <2>1, Types
<1>19. CASE batch = {}
  <2>1. procs'[p] = IdleProc
    BY <1>3, <1>19 DEF Continue
  <2>2. InMemory(procs[p])'
    BY <2>1 DEF InMemory, IdleProc, Reading, Advancing, Recording, Launching
  <2>3. procs'[p].phase = "idle"
    BY <2>1 DEF IdleProc
  <2> QED
    BY <1>1, <1>5, <1>7, <1>12, <1>14, <1>16, <1>17, <1>18, <2>2, <2>3
       DEF SeqInv, Over, Unborn, Active, Terminal
<1>20. CASE batch # {}
  <2>1. PICK q : /\ q = [IdleProc EXCEPT !.phase = "read", !.batch = batch]
                 /\ procs'[p] = q
    BY <1>3, <1>20 DEF Continue
  <2>2. /\ q.phase = "read" /\ q.batch = batch /\ q.cur = NoKey /\ q.block = NoKey
    BY <2>1 DEF IdleProc
  <2>3. \A i \in batch : i \in 1..Len(log) /\ i = Front + 1 /\ Owned(log[i].task)
    BY <1>5, <1>9 DEF Ahead
  <2>4. Front + 1 \in batch /\ Front + 1 <= Len(log) /\ Owned(log[Front + 1].task)
    BY <1>20, <2>3, Types
  <2>5. run'.status \in Active
    BY <1>7, <1>11, <2>4
  <2>6. Reading(procs[p])'
    BY <1>1, <1>10, <1>11, <1>15, <2>1, <2>2, <2>3, <2>4, <2>5 DEF Reading, Ahead
  <2>7. InMemory(procs[p])'
    BY <2>1, <2>2, <2>6 DEF InMemory, Advancing, Recording, Launching
  <2> QED
    BY <1>1, <1>5, <1>12, <1>14, <1>16, <1>17, <2>5, <2>7
       DEF SeqInv, Over, Unborn, Active, Terminal
<1> QED
  BY <1>19, <1>20

-----------------------------------------------------------------------------
(***************************************************************************)
(* The routing decision dispatches the successor, or there is none.        *)
(***************************************************************************)
LEMMA PlanPhase ==
    ASSUME NEW p \in Procs, Plan(p)
    PROVE  procs[p].phase = "plan"
  BY DEF Plan, PlanFanOut, PlanTooWide, PlanExhausted, PlanRetry, PlanNoEdge,
         PlanCard, PlanHuman, PlanExit, PlanWait, PlanFanIn, PlanTool,
         Routing, GateFailed, Planning

\* What the event in hand leads to, with the run that was read with it.
Leads(p, k) == Succ(EventOf(p), procs[p].snap.ctx, k)

\* What the process has in hand while it decides.
LEMMA Deciding ==
    ASSUME IInv, WorkInv, OneCard, NEW p \in Procs, Plan(p)
    PROVE  /\ procs[p].evt \in 1..Len(log)
           /\ EventOf(p) = log[procs[p].evt] /\ EventOf(p) \in Event
           /\ EventOf(p).task \in Key
           /\ NodeOf(p) \in Nodes /\ AnswerOf(p) \in Answer
           /\ CtxOf(p) = Apply(procs[p].snap.ctx, EventOf(p).ans.upd)
           /\ Carded(NodeOf(p))
           /\ ~IsFanOut(p)
           /\ \A e \in NextEdges(p) : /\ e \in Edges /\ e.src = NodeOf(p)
                                      /\ e.dst \in Nodes
                                      /\ Shape[e.dst] \in {"TOOL", "EXIT"}
<1>1. procs[p].phase = "plan"
  BY PlanPhase
<1>3. /\ procs[p].evt \in 1..Len(log) /\ EventOf(p) = log[procs[p].evt]
      /\ NodeOf(p) \in Nodes /\ AnswerOf(p) \in Answer
      /\ EventOf(p) \in Event /\ EventOf(p).task \in Key
  BY <1>1, InHand DEF Event, EventOf
<1>4. Carded(NodeOf(p))
  BY <1>3 DEF WorkInv, Earned, NodeOf
<1>5. /\ Shape[NodeOf(p)] # "FAN_OUT"
      /\ \A e \in Out(NodeOf(p)) : Shape[e.dst] \in {"TOOL", "EXIT"}
  BY <1>3, <1>4 DEF OneCard, Sequential
<1>6. ~FeedsFanIn(NodeOf(p))
  BY <1>5 DEF FeedsFanIn
<1>7. CtxOf(p) = Apply(procs[p].snap.ctx, EventOf(p).ans.upd)
  BY <1>6 DEF CtxOf, AnswerOf
<1>8. \A e \in Edges : e.dst \in Nodes
  BY PipelineAssumption DEF Edge
<1>9. \A e \in NextEdges(p) : /\ e \in Edges /\ e.src = NodeOf(p)
                              /\ e.dst \in Nodes
                              /\ Shape[e.dst] \in {"TOOL", "EXIT"}
  BY <1>5, <1>8, ChosenEdge DEF Out
<1> QED
  BY <1>3, <1>4, <1>5, <1>7, <1>9 DEF IsFanOut

LEMMA SuccDecided ==
    ASSUME IInv, WorkInv, OneCard, NEW p \in Procs, Plan(p), NEW k
    PROVE  /\ GatePassed(p) =>
                (Leads(p, k) <=>
                    \E e \in NextEdges(p) :
                       /\ Shape[e.dst] = "TOOL"
                       /\ \E t \in ToolEdges(e.dst, CtxOf(p)) :
                             Shape[t.dst] \in CardShapes /\ k = <<t.dst, 1>>)
           /\ ~GatePassed(p) =>
                (Leads(p, k) <=> ~Exhausted(p) /\ k = RetryKey(p))
<1>0. PICK ev : ev = EventOf(p)
  OBVIOUS
<1>1. /\ NodeOf(p) = ev.task[1] /\ AnswerOf(p) = ev.ans
      /\ CtxOf(p) = Apply(procs[p].snap.ctx, ev.ans.upd)
      /\ Leads(p, k) <=> Succ(ev, procs[p].snap.ctx, k)
  BY <1>0, Deciding DEF NodeOf, AnswerOf, Leads
<1>2. ASSUME GatePassed(p)
      PROVE  ~Again(ev, k) /\ Hint(p) = HintOf(ev)
  <2>1. ~Again(ev, k)
    BY <1>1, <1>2 DEF GatePassed, Again
  <2>2. CASE NodeOf(p) \in Gates
    BY <1>1, <1>2, <2>1, <2>2 DEF Hint, HintOf
  <2>3. CASE NodeOf(p) \notin Gates
    BY <1>1, <2>1, <2>3 DEF Hint, HintOf
  <2> QED
    BY <2>2, <2>3
<1>3. ASSUME GatePassed(p)
      PROVE  Leads(p, k) <=>
                 \E e \in NextEdges(p) :
                    /\ Shape[e.dst] = "TOOL"
                    /\ \E t \in ToolEdges(e.dst, CtxOf(p)) :
                          Shape[t.dst] \in CardShapes /\ k = <<t.dst, 1>>
  <2>1. Leads(p, k) <=> Onward(ev, CtxOf(p), k)
    BY <1>1, <1>2, <1>3 DEF Succ
  <2>2. ev.task[1] \in Gates => ev.ans.verdict = "pass"
    BY <1>1, <1>3 DEF GatePassed
  <2> QED
    BY <1>1, <1>2, <1>3, <2>1, <2>2, Zenon DEF Onward, NextEdges, ToolEdges
<1>4. ASSUME ~GatePassed(p)
      PROVE  Leads(p, k) <=> ~Exhausted(p) /\ k = RetryKey(p)
  <2>1. /\ ev.task[1] \in Gates /\ ev.ans.verdict # "pass"
        /\ RetryTarget[ev.task[1]] = ev.task[1]
    BY <1>1, <1>4 DEF GatePassed, OneCard, Sequential
  <2>2. Leads(p, k) <=> Again(ev, k)
    BY <1>1, <2>1 DEF Succ, Onward
  <2>3. ev.task[2] \in Nat /\ GateLimit[ev.task[1]] \in Nat
    <3>1. ev.task \in Key
      BY <1>0, Deciding
    <3> QED
      BY <2>1, <3>1, EngineAssumption, GateAssumption DEF Key
  <2> QED
    BY <1>0, <1>1, <2>1, <2>2, <2>3 DEF Again, Exhausted, RetryKey, NextTry
<1> QED
  BY <1>3, <1>4

\* Where some way on is always open, select() finds an edge.
LEMMA AlwaysSelects ==
    ASSUME WaysOn, NEW n \in Nodes, Carded(n) \/ Shape[n] = "TOOL",
           NEW ctx, NEW hint, NEW suggested
    PROVE  \E e \in Out(n) : IsSelected(e, Out(n), ctx, hint, suggested)
<1>1. Out(n) \in SUBSET Edges /\ IsFiniteSet(Out(n))
  <2>1. Out(n) \in SUBSET Edges
    BY DEF Out
  <2> QED
    BY <2>1, FS_Subset DEF WaysOn
<1>2. PICK e \in Out(n) : ~e.guarded
  BY DEF WaysOn
<1>3. Candidates(Out(n), ctx) # {}
  BY <1>2 DEF Candidates, Passes
<1> QED
  BY <1>1, <1>3, SomeSelected

\* The run row that a decision saves.
LEMMA SavedRow ==
    ASSUME NEW p \in Procs, NEW status, NEW ctx
    PROVE  /\ Saved(p, status, ctx).status = status
           /\ Saved(p, status, ctx).cursor = procs[p].evt
  BY DEF Saved

\* A decision: the card that follows, if any, and the run to save.  Unless the
\* pipeline has no way on, a run that stays active has a card that follows.
Decision(p, keys, saved) ==
    /\ saved.cursor = procs[p].evt
    /\ keys \subseteq Key
    /\ \A k \in Key : Leads(p, k) <=> k \in keys
    /\ saved.status \in {"BLOCKED", "SUCCEEDED"}
       \/ saved.status \in {procs[p].snap.status, Resumed(procs[p].snap.status)}
    /\ saved.status \in {"BLOCKED", "SUCCEEDED"} /\ procs[p].snap.status \in Active =>
          keys = {}
    /\ saved.status \in Active /\ WaysOn => keys # {}

LEMMA PlanDecides ==
    ASSUME IInv, WorkInv, OneCard, NEW p \in Procs, Plan(p)
    PROVE  \E keys, saved : Dispatch(p, keys, NoKey, saved) /\ Decision(p, keys, saved)
<1> DEFINE Good == \E keys, saved :
                     Dispatch(p, keys, NoKey, saved) /\ Decision(p, keys, saved)
           Next1 == \E k \in Key : Leads(p, k)
           stay(status) == status \in {procs[p].snap.status,
                                       Resumed(procs[p].snap.status)}
<1>1. /\ procs[p].snap.status \in Active => Resumed(procs[p].snap.status) \in Active
      /\ \A status \in Active : status \notin {"BLOCKED", "SUCCEEDED"}
  BY DEF Resumed, Active
\* Nothing follows: the run ends, or the pipeline has no way on.
<1>2. ASSUME NEW saved, Dispatch(p, {}, NoKey, saved), saved.cursor = procs[p].evt,
             ~WaysOn, stay(saved.status), ~Next1
      PROVE  Good
  <2>1. Decision(p, {}, saved)
    BY <1>1, <1>2 DEF Decision
  <2> QED
    BY <1>2, <2>1
<1>b. ASSUME NEW status \in {"BLOCKED", "SUCCEEDED"}, NEW ctx,
             Dispatch(p, {}, NoKey, Saved(p, status, ctx)), ~Next1
      PROVE  Good
  <2>1. PICK saved : saved = Saved(p, status, ctx)
    OBVIOUS
  <2>2. saved.cursor = procs[p].evt /\ saved.status = status
    BY <2>1, SavedRow
  <2>3. Decision(p, {}, saved)
    BY <1>1, <1>b, <2>2 DEF Decision
  <2> QED
    BY <1>b, <2>1, <2>3
\* One card follows.
<1>3. ASSUME NEW k, NEW saved, Dispatch(p, {k}, NoKey, saved),
             saved.cursor = procs[p].evt, stay(saved.status), Leads(p, k)
      PROVE  Good
  <2>1. {k} \subseteq Key
    BY <1>3 DEF Dispatch
  <2>2. \A l \in Key : Leads(p, l) <=> l \in {k}
    BY <1>3, SuccUnique DEF Leads
  <2>3. Decision(p, {k}, saved)
    BY <1>1, <1>3, <2>1, <2>2 DEF Decision
  <2> QED
    BY <1>3, <2>3
<1> SUFFICES Good
  OBVIOUS
<1>a. stay(procs[p].snap.status) /\ stay(Resumed(procs[p].snap.status))
  OBVIOUS
<1> HIDE DEF Good, Next1, stay
<1>4. CASE PlanExhausted(p)
  <2>1. ~Next1
    BY <1>4, SuccDecided DEF Next1, PlanExhausted, GateFailed
  <2> QED
    BY <1>b, <1>4, <2>1 DEF PlanExhausted
<1>5. CASE PlanRetry(p)
  <2>1. Leads(p, RetryKey(p))
    BY <1>5, SuccDecided DEF PlanRetry, GateFailed
  <2> QED
    BY <1>a, <1>3, <1>5, <2>1, SavedRow DEF PlanRetry
<1>6. CASE PlanNoEdge(p)
  <2>1. NextEdges(p) = {} /\ GatePassed(p)
    BY <1>6 DEF PlanNoEdge, Routing
  <2>2. ~Next1
    BY <2>1, SuccDecided DEF Next1
  <2>3. ~WaysOn
    <3> SUFFICES ASSUME WaysOn PROVE FALSE
      OBVIOUS
    <3>1. \E e \in Out(NodeOf(p)) :
             IsSelected(e, Out(NodeOf(p)), CtxOf(p), Hint(p), AnswerOf(p).suggest)
      BY Deciding, AlwaysSelects
    <3> QED
      BY <2>1, <3>1 DEF NextEdges
  <2> QED
    BY <1>a, <1>2, <1>6, <2>2, <2>3, SavedRow DEF PlanNoEdge
<1>7. ASSUME NEW e \in NextEdges(p), Routing(p)
      PROVE  /\ GatePassed(p) /\ Shape[e.dst] \in {"TOOL", "EXIT"}
             /\ e.dst \in Nodes
             /\ \A d \in NextEdges(p) : d.dst = e.dst
             /\ \A t, u \in ToolEdges(e.dst, CtxOf(p)) : t.dst = u.dst
             /\ \A t \in ToolEdges(e.dst, CtxOf(p)) :
                   Shape[e.dst] = "TOOL" => Shape[t.dst] \in CardShapes \union {"EXIT"}
  <2>1. \A n : Out(n) \in SUBSET Edges
    BY DEF Out
  <2>2. \A d \in NextEdges(p) : d.dst = e.dst
    BY <2>1, OneTarget DEF NextEdges
  <2>3. \A t, u \in ToolEdges(e.dst, CtxOf(p)) : t.dst = u.dst
    BY <2>1, OneTarget DEF ToolEdges
  <2>4. \A t \in ToolEdges(e.dst, CtxOf(p)) :
           Shape[e.dst] = "TOOL" => Shape[t.dst] \in CardShapes \union {"EXIT"}
    BY ChosenEdge DEF Out, OneCard, Sequential
  <2> QED
    BY <1>7, <2>2, <2>3, <2>4, Deciding DEF Routing
<1>8. CASE PlanExit(p)
  <2>1. PICK e \in NextEdges(p) :
           /\ Shape[e.dst] = "EXIT"
           /\ Dispatch(p, {}, NoKey, Saved(p, "SUCCEEDED", CtxOf(p)))
    BY <1>8 DEF PlanExit
  <2>2. ~Next1
    BY <1>7, <1>8, <2>1, SuccDecided DEF PlanExit, Next1
  <2> QED
    BY <1>b, <2>1, <2>2
<1>9. CASE PlanTool(p)
  <2>1. PICK e \in NextEdges(p) :
           /\ Shape[e.dst] = "TOOL"
           /\ \/ \E t \in ToolEdges(e.dst, CtxOf(p)) :
                    /\ Shape[t.dst] = "EXIT"
                    /\ Dispatch(p, {}, NoKey, Saved(p, "SUCCEEDED", CtxOf(p)))
              \/ \E t \in ToolEdges(e.dst, CtxOf(p)) :
                    /\ Shape[t.dst] \in CardShapes
                    /\ Dispatch(p, {<<t.dst, 1>>}, NoKey,
                                Saved(p, procs[p].snap.status, CtxOf(p)))
              \/ /\ \A t \in ToolEdges(e.dst, CtxOf(p)) :
                       Shape[t.dst] \in {"TOOL", "HUMAN", "FAN_IN"}
                 /\ Dispatch(p, {}, NoKey,
                             Saved(p, procs[p].snap.status, CtxOf(p)))
    BY <1>9 DEF PlanTool
  <2>2. Routing(p) /\ GatePassed(p)
    BY <1>9 DEF PlanTool, Routing
  <2>3. \A k : Leads(p, k) <=>
                  \E t \in ToolEdges(e.dst, CtxOf(p)) :
                     Shape[t.dst] \in CardShapes /\ k = <<t.dst, 1>>
    BY <1>7, <2>1, <2>2, SuccDecided
  <2>4. ASSUME NEW t \in ToolEdges(e.dst, CtxOf(p)), Shape[t.dst] = "EXIT",
               Dispatch(p, {}, NoKey, Saved(p, "SUCCEEDED", CtxOf(p)))
        PROVE  Good
    <3>1. ~Next1
      BY <1>7, <2>2, <2>3, <2>4 DEF Next1, CardShapes
    <3> QED
      BY <1>b, <2>4, <3>1
  <2>5. ASSUME NEW t \in ToolEdges(e.dst, CtxOf(p)), Shape[t.dst] \in CardShapes,
               Dispatch(p, {<<t.dst, 1>>}, NoKey,
                        Saved(p, procs[p].snap.status, CtxOf(p)))
        PROVE  Good
    <3>1. Leads(p, <<t.dst, 1>>)
      BY <2>3, <2>5
    <3>2. PICK saved : saved = Saved(p, procs[p].snap.status, CtxOf(p))
      OBVIOUS
    <3>3. saved.cursor = procs[p].evt /\ stay(saved.status)
      BY <1>a, <3>2, SavedRow
    <3> QED
      BY <1>3, <2>5, <3>1, <3>2, <3>3
  <2>6. ASSUME \A t \in ToolEdges(e.dst, CtxOf(p)) :
                  Shape[t.dst] \in {"TOOL", "HUMAN", "FAN_IN"},
               Dispatch(p, {}, NoKey, Saved(p, procs[p].snap.status, CtxOf(p)))
        PROVE  Good
    <3>1. ToolEdges(e.dst, CtxOf(p)) = {}
      BY <1>7, <2>1, <2>2, <2>6 DEF CardShapes
    <3>2. ~Next1
      BY <2>3, <3>1 DEF Next1
    <3>3. ~WaysOn
      <4> SUFFICES ASSUME WaysOn PROVE FALSE
        OBVIOUS
      <4>1. \E t \in Out(e.dst) : IsSelected(t, Out(e.dst), CtxOf(p), NoLabel, {})
        BY <1>7, <2>1, <2>2, AlwaysSelects
      <4> QED
        BY <3>1, <4>1 DEF ToolEdges
    <3> QED
      BY <1>a, <1>2, <2>6, <3>2, <3>3, SavedRow
  <2> QED
    BY <2>1, <2>4, <2>5, <2>6
<1>10. ~PlanFanOut(p) /\ ~PlanTooWide(p)
  BY Deciding DEF PlanFanOut, PlanTooWide
<1>11. ~PlanCard(p) /\ ~PlanHuman(p) /\ ~PlanWait(p) /\ ~PlanFanIn(p)
  BY <1>7 DEF PlanCard, PlanHuman, PlanWait, PlanFanIn, CardShapes
<1> QED
  BY <1>4, <1>5, <1>6, <1>8, <1>9, <1>10, <1>11 DEF Plan

LEMMA SeqPlan ==
    ASSUME IInv, WorkInv, OneCard, NEW p \in Procs, SeqInv(p), Plan(p)
    PROVE  SeqInv(p)'
<1>1. procs[p].phase = "plan"
  BY PlanPhase
<1>2. /\ run.status \in Active /\ Front <= Len(log) /\ Ahead(procs[p].batch)
      /\ Done(log[Front].task) /\ procs[p].cur = NoKey
  BY <1>1 DEF SeqInv, InMemory, Advancing
<1>0. PICK keys, saved : Dispatch(p, keys, NoKey, saved) /\ Decision(p, keys, saved)
  BY PlanDecides
<1>3. /\ keys \subseteq Key
      /\ Dispatch(p, keys, NoKey, saved) /\ Decides(keys, saved)
      /\ \A k \in Key : Succ(log[Front], run.ctx, k) => k \in keys
  <2>1. procs[p].evt = Front /\ procs[p].snap = run /\ run.status \in Active
    BY <1>1 DEF SeqInv, InMemory, Advancing
  <2>2. \A k : Leads(p, k) <=> Succ(log[Front], run.ctx, k)
    BY <2>1 DEF Leads, EventOf
  <2>3. /\ saved.status \in Active \union {"BLOCKED", "SUCCEEDED"}
        /\ saved.status \in Terminal => saved.status \in {"BLOCKED", "SUCCEEDED"}
    BY <1>0, <2>1 DEF Decision, Resumed, Active, Terminal
  <2>4. {"BLOCKED", "SUCCEEDED"} \subseteq Terminal
    BY DEF Terminal
  <2> QED
    BY <1>0, <2>1, <2>2, <2>3, <2>4 DEF Decision, Decides
<1>4. PICK q : /\ q = [procs[p] EXCEPT !.phase = "write", !.todo = keys,
                                       !.block = NoKey, !.save = saved]
               /\ procs'[p] = q
  BY <1>3, Types DEF Dispatch
<1>5. /\ q.phase = "write" /\ q.todo = keys /\ q.block = NoKey /\ q.save = saved
      /\ q.cur = NoKey /\ q.batch = procs[p].batch
  BY <1>2, <1>4, Types DEF Proc
<1>6. UNCHANGED <<run, rows, tasks, log>>
  BY <1>3 DEF Dispatch, store, board
<1>7. Held(q) = keys
  BY <1>3, <1>5, EngineAssumption DEF Held
<1>8. saved # NoRun
  BY <1>3, Types DEF Decides, NoRun, Active, Terminal
<1>9. Recording(q)
  BY <1>2, <1>3, <1>5, <1>7 DEF Recording
<1>10. InMemory(q)
  BY <1>5, <1>8, <1>9 DEF InMemory, Reading, Advancing, Launching
<1> QED
  BY <1>2, <1>4, <1>6, <1>10, MemoryKept

-----------------------------------------------------------------------------
(***************************************************************************)
(* The theorems.                                                           *)
(***************************************************************************)
\* Every step: the invariant, and what a step may not do.
LEMMA SeqStep ==
    ASSUME NEW p, Procs = {p}, OneCard, IInv, WorkInv, SeqInv(p), [Next]_vars
    PROVE  /\ SeqInv(p)'
           /\ \A k \in Key : Done(k) => Done(k)'
           /\ run.status \in Terminal => run' = run
<1>0. p \in Procs
  OBVIOUS
<1>1. CASE Launch(p)
  <2>1. rows' = rows /\ run.status = "NONE"
    BY <1>1 DEF Launch
  <2> QED
    BY <1>0, <1>1, <2>1, SeqLaunch DEF Done, Terminal
<1>2. CASE BeginPass(p) \/ ReadRun(p)
  <2>1. rows' = rows /\ run' = run
    BY <1>2 DEF BeginPass, ReadRun, store
  <2> QED
    BY <1>0, <1>2, <2>1, SeqBeginPass, SeqReadRun DEF Done
<1>3. CASE SkipEvent(p) \/ CreateCardFails(p) \/ BlockCard(p)
  BY <1>0, <1>3, SeqSkipEvent, SeqNever
<1>4. CASE MarkNode(p)
  <2>1. run' = run
    BY <1>4 DEF MarkNode
  <2> QED
    BY <1>0, <1>4, <2>1, SeqMarkNode
<1>5. CASE Plan(p)
  <2>1. rows' = rows /\ run' = run
    BY <1>5 DEF Plan, PlanFanOut, PlanTooWide, PlanExhausted, PlanRetry, PlanNoEdge,
                PlanCard, PlanHuman, PlanExit, PlanWait, PlanFanIn, PlanTool,
                Dispatch, store
  <2> QED
    BY <1>0, <1>5, <2>1, SeqPlan DEF Done
<1>6. CASE CreateCard(p)
  <2>1. rows' = rows /\ run' = run
    BY <1>6 DEF CreateCard, store
  <2> QED
    BY <1>0, <1>6, <2>1, SeqCreateCard DEF Done
<1>7. CASE UpsertRow(p)
  <2>1. run' = run
    BY <1>7 DEF UpsertRow
  <2> QED
    BY <1>0, <1>7, <2>1, SeqUpsertRow
<1>8. CASE SaveRun(p)
  <2>1. rows' = rows
    BY <1>8 DEF SaveRun
  <2> QED
    BY <1>0, <1>8, <2>1, SeqSaveRun DEF Done, Active, Terminal
<1>9. CASE Crash(p) \/ LaunchReturns(p)
  <2>1. rows' = rows /\ run' = run
    BY <1>9 DEF Crash, LaunchReturns, store
  <2> QED
    BY <1>0, <1>9, <2>1, SeqStop DEF Done
<1>10. ASSUME NEW k \in Key, Complete(k) \/ GiveUp(k)
       PROVE  /\ SeqInv(p)'
              /\ \A l \in Key : Done(l) => Done(l)'
              /\ run.status \in Terminal => run' = run
  <2>1. rows' = rows /\ run' = run
    BY <1>10 DEF Complete, GiveUp, Finish, store
  <2> QED
    BY <1>0, <1>10, <2>1, SeqFinish DEF Done
<1>11. CASE UNCHANGED vars
  <2>1. UNCHANGED <<run, rows, tasks, log, procs>>
    BY <1>11 DEF vars
  <2>2. InMemory(procs[p]) /\ (run.status \in Active \/ procs[p].phase = "idle")
    <3>1. run.status \in Active \union Terminal \union {"NONE"}
      BY <1>0, Types DEF RunRow
    <3> QED
      BY <3>1 DEF SeqInv, Over, Unborn
  <2>3. SeqInv(p)'
    BY <1>0, <2>1, <2>2, MemoryKept
  <2> QED
    BY <2>1, <2>3 DEF Done
<1> QED
  BY <1>1, <1>2, <1>3, <1>4, <1>5, <1>6, <1>7, <1>8, <1>9, <1>10, <1>11
     DEF Next, Advance, Write

\* One reconciler keeps the invariant, whatever crashes.
THEOREM OneCardAtATime ==
    ASSUME NEW p, Procs = {p}, OneCard
    PROVE  Spec => []SeqInv(p)
<1>1. Init => SeqInv(p)
  BY SeqInit
<1>2. IInv /\ WorkInv /\ SeqInv(p) /\ [Next]_vars => SeqInv(p)'
  BY SeqStep
<1> QED
  BY <1>1, <1>2, Justified, WorkIsEarned, PTL DEF Spec

\* Every event at or below the saved cursor has been applied to its row
\* (event_log.py), and no crash between the writes of an advance loses one.
THEOREM NothingSkipped ==
    ASSUME NEW p, Procs = {p}, OneCard
    PROVE  Spec => []CursorCovers
<1>1. IInv /\ SeqInv(p) => CursorCovers
  <2> SUFFICES ASSUME IInv, SeqInv(p) PROVE CursorCovers
    OBVIOUS
  <2>1. \A i \in 1..run.cursor : i \in 1..Len(log) /\ i < Front
    BY Types DEF SeqInv, Frontier, Front
  <2> QED
    BY <2>1 DEF SeqInv, Recorded, CursorCovers
<1> QED
  BY <1>1, Justified, OneCardAtATime, PTL

\* An active run that was launched is never stuck: when the reconciler has no
\* event to process, some card is still open, and the engine knows it as its own.
THEOREM NothingStalls ==
    ASSUME NEW p, Procs = {p}, OneCard, WaysOn
    PROVE  Spec => []NoStall
<1>1. IInv /\ SeqInv(p) => NoStall
  <2> SUFFICES ASSUME IInv, SeqInv(p), run.status \in Active, Launched, Unseen = {}
               PROVE  \E k \in Key : tasks[k] \in {"open", "blocked"} /\ Owned(k)
    BY DEF NoStall
  <2>1. ~(Front <= Len(log))
    <3> SUFFICES ASSUME Front <= Len(log) PROVE FALSE
      OBVIOUS
    <3>1. Front \in 1..Len(log) /\ log[Front].task \in Key
      <4>1. Front > 0
        BY Types DEF Front
      <4> QED
        BY <4>1, Types
    <3>2. Owned(log[Front].task)
      BY <3>1 DEF SeqInv, Recorded, Due
    <3> QED
      BY <3>1, <3>2, Types DEF Unseen
  <2>2. Len(log) = run.cursor
    BY <2>1, Types DEF SeqInv, Frontier, Front
  <2>3. PICK k \in Key : tasks[k] = "open"
    BY <2>2 DEF SeqInv, GoesOn
  <2>4. Owned(k)
    BY <2>1, <2>3 DEF SeqInv, Recorded, Due
  <2> QED
    BY <2>3, <2>4
<1> QED
  BY <1>1, Justified, OneCardAtATime, PTL

\* Work recorded as done is never put back to DISPATCHED, although the advance
\* that dispatched it may be replayed after a crash.
THEOREM NothingUndone ==
    ASSUME NEW p, Procs = {p}, OneCard
    PROVE  Spec => DoneStaysDone
<1>1. IInv /\ WorkInv /\ SeqInv(p) /\ [Next]_vars =>
         [\A k \in Key : Done(k) => Done(k)']_vars
  BY SeqStep
<1> QED
  BY <1>1, Justified, WorkIsEarned, OneCardAtATime, PTL DEF Spec, DoneStaysDone

\* A run that has ended is never written again.
THEOREM EndIsFinal ==
    ASSUME NEW p, Procs = {p}, OneCard
    PROVE  Spec => TerminalIsFinal
<1>1. IInv /\ WorkInv /\ SeqInv(p) /\ [Next]_vars =>
         [run.status \in Terminal => run' = run]_vars
  BY SeqStep
<1> QED
  BY <1>1, Justified, WorkIsEarned, OneCardAtATime, PTL DEF Spec, TerminalIsFinal

-----------------------------------------------------------------------------
(***************************************************************************)
(* Any number of reconcilers.  A pass that was overtaken decides with an   *)
(* old context and overwrites the run, so nothing but the cards tells how  *)
(* far the run has come.  Where no edge has a condition every pass derives *)
(* the same card from the same event, and there is still one line of them. *)
(***************************************************************************)
\* The card that an event leads to, in whatever context.
Follows(ev, k) == Succ(ev, NoRun.ctx, k)

LEMMA Steady ==
    ASSUME Unguarded, NEW ev, NEW saved, NEW k
    PROVE  Succ(ev, saved, k) <=> Follows(ev, k)
<1>1. \A E \in SUBSET Edges : \A c : Candidates(E, c) = E
  BY DEF Unguarded, Candidates, Passes
<1>2. \A n : Out(n) \in SUBSET Edges
  BY DEF Out
<1>3. \A n, e, c, d, hint, suggested :
         IsSelected(e, Out(n), c, hint, suggested)
         <=> IsSelected(e, Out(n), d, hint, suggested)
  BY <1>1, <1>2 DEF IsSelected
<1>4. \A c, d : Onward(ev, c, k) <=> Onward(ev, d, k)
  BY <1>3, Zenon DEF Onward
<1> QED
  BY <1>4, Zenon DEF Succ, Follows

LEMMA FollowsOne ==
    ASSUME NEW ev, NEW k, NEW l, Follows(ev, k), Follows(ev, l) PROVE k = l
  BY SuccUnique DEF Follows

LEMMA RigidFollows ==
    /\ \A ev, k : Follows(ev, k)' <=> Follows(ev, k)
    /\ \A k, l : Before(k, l)' <=> Before(k, l)
    /\ WaysOn' <=> WaysOn
<1>1. NoRun.ctx' = NoRun.ctx
  BY DEF NoRun
<1> QED
  BY <1>1, Rigid DEF Follows

\* The line of the cards: each follows from the event before it.
Chained ==
    /\ \A i \in 1..Len(log) : i < Len(log) => Follows(log[i], log[i + 1].task)
    /\ Len(log) > 0 => \A k \in Key : tasks[k] = "open" => Follows(log[Len(log)], k)

\* The entry's card.
First(k) == IF Len(log) = 0 THEN tasks[k] = "open" ELSE k = log[1].task

Recognised ==
    /\ \A k \in Key : rows[k] # NoRow => rows[k].card /\ tasks[k] # "none"
    /\ Launched => \A k \in Key : First(k) => Owned(k)

\* A saved row is of an event whose successor is known to the engine.
Settled(saved) ==
    /\ saved.cursor \in 0..Len(log)
    /\ saved.cursor > 0 /\ saved.status \in Active /\ WaysOn =>
          \E k \in Key : Follows(log[saved.cursor], k)
    /\ saved.cursor > 0 => \A k \in Key : Follows(log[saved.cursor], k) => Owned(k)

Unlaunched == run.status = "NONE" =>
    Len(log) = 0 /\ \A k \in Key : rows[k] = NoRow /\ tasks[k] = "none"

Shared == OneLine /\ Chained /\ Recognised /\ Settled(run) /\ Unlaunched

\* Of a process: launch_run, or an advance.
Launches(q) == q.phase = "write" /\ q.save = NoRun
Advances(q) == q.phase = "write" /\ q.save # NoRun

Begun(q) ==
    /\ q.phase # "idle" => run.status # "NONE"
    /\ q.phase \in {"mark", "plan"} => q.snap.status # "NONE"
    /\ q.phase \in {"read", "mark", "plan"} \/ Advances(q) => Launched

Enters(q) == Launches(q) =>
    \A k \in Held(q) : \A l \in Key : First(l) \/ l \in Held(q) => l = k

Extends(q) == Advances(q) =>
    /\ q.save.status # "NONE" /\ q.save.cursor \in 1..Len(log)
    /\ \A k \in Key : k \in Held(q) => Follows(log[q.save.cursor], k)
    /\ \A k \in Key : Follows(log[q.save.cursor], k) => k \in Held(q) \/ Owned(k)
    /\ q.save.status \in Active /\ WaysOn =>
          \E k \in Key : Follows(log[q.save.cursor], k)

Knows(q) ==
    /\ q.block = NoKey
    /\ q.phase # "write" => q.cur = NoKey
    /\ q.cur # NoKey => q.got /\ tasks[q.cur] # "none"
    /\ Begun(q) /\ Enters(q) /\ Extends(q)

\* The invariant; the run is launched once.
LineInv ==
    /\ Shared
    /\ \A p \in Procs : Knows(procs[p])
    /\ \A p, q \in Procs : Launches(procs[p]) /\ Launches(procs[q]) => p = q

LEMMA LineInit == ASSUME Init PROVE LineInv
<1>1. /\ run = NoRun /\ run.status = "NONE" /\ run.cursor = 0 /\ Len(log) = 0
      /\ \A k \in Key : rows[k] = NoRow /\ tasks[k] = "none"
      /\ \A p \in Procs : procs[p] = IdleProc
  BY DEF Init, NoRun
<1>2. /\ IdleProc.phase = "idle" /\ IdleProc.cur = NoKey /\ IdleProc.block = NoKey
  BY DEF IdleProc
<1>3. Shared
  BY <1>1 DEF Shared, OneLine, Chained, Recognised, Launched, Settled, Unlaunched
<1>4. Knows(IdleProc)
  BY <1>2 DEF Knows, Begun, Enters, Extends, Launches, Advances
<1> QED
  BY <1>1, <1>2, <1>3, <1>4 DEF LineInv, Launches

\* What other processes know survives a step that takes nothing back.
LEMMA KnowsKept ==
    ASSUME IInv, NEW q, q \in Proc, Knows(q),
           run.status # "NONE" => run'.status # "NONE",
           \A k \in Key : Owned(k) => Owned(k)', Launched => Launched',
           \A k \in Key : tasks[k] # "none" => tasks'[k] # "none",
           Len(log') \in Nat, Len(log') >= Len(log),
           \A i \in 1..Len(log) : log'[i] = log[i],
           Launches(q) => \A k \in Key : First(k)' => First(k)
    PROVE  Knows(q)'
<1>1. Begun(q)'
  BY DEF Knows, Begun, Advances
<1>2. Enters(q)'
  BY DEF Knows, Enters, Launches, Held
<1>3. Extends(q)'
  <2> SUFFICES ASSUME Advances(q) PROVE Extends(q)'
    BY DEF Extends, Advances
  <2>1. q.save.cursor \in 1..Len(log') /\ log'[q.save.cursor] = log[q.save.cursor]
    BY Typed DEF Knows, Extends
  <2> QED
    BY <2>1, RigidFollows DEF Knows, Extends, Advances, Held
<1>4. q.cur # NoKey => q.got /\ tasks'[q.cur] # "none"
  BY DEF Knows, Proc
<1> QED
  BY <1>1, <1>2, <1>3, <1>4 DEF Knows

LEMMA LineKept ==
    ASSUME IInv, LineInv, NEW p \in Procs, NEW q, procs' = [procs EXCEPT ![p] = q],
           Shared', Knows(q)', Launches(q) => Launches(procs[p]),
           run.status # "NONE" => run'.status # "NONE",
           \A k \in Key : Owned(k) => Owned(k)', Launched => Launched',
           \A k \in Key : tasks[k] # "none" => tasks'[k] # "none",
           Len(log') \in Nat, Len(log') >= Len(log),
           \A i \in 1..Len(log) : log'[i] = log[i],
           ~Launches(procs[p]) => \A k \in Key : First(k)' => First(k)
    PROVE  LineInv'
<1>1. \A r \in Procs : procs'[r] = IF r = p THEN q ELSE procs[r]
  BY Typed
<1>2. ASSUME NEW r \in Procs PROVE Knows(procs[r])'
  <2>1. CASE r = p
    <3>1. procs'[r] = q
      BY <1>1, <2>1
    <3> QED
      BY <3>1 DEF Knows, Begun, Enters, Extends, Launches, Advances, Held
  <2>2. CASE r # p
    <3>1. PICK o : o = procs[r] /\ procs'[r] = o
      BY <1>1, <2>2
    <3>2. o \in Proc /\ Knows(o)
      BY <3>1, Typed DEF LineInv
    <3>3. Launches(o) => \A k \in Key : First(k)' => First(k)
      BY <2>2, <3>1 DEF LineInv
    <3>4. Knows(o)'
      BY <3>2, <3>3, KnowsKept
    <3> QED
      BY <3>1, <3>4 DEF Knows, Begun, Enters, Extends, Launches, Advances, Held
  <2> QED
    BY <2>1, <2>2
<1>3. \A r \in Procs : Launches(procs[r])' => Launches(procs[r])
  <2> SUFFICES ASSUME NEW r \in Procs, Launches(procs'[r])
               PROVE  Launches(procs[r])
    BY DEF Launches
  <2> QED
    BY <1>1
<1>4. \A r, o \in Procs : Launches(procs[r])' /\ Launches(procs[o])' => r = o
  BY <1>3 DEF LineInv
<1> QED
  BY <1>2, <1>4 DEF LineInv

\* A step that changes only what one process remembers.
LEMMA LineMemory ==
    ASSUME IInv, LineInv, NEW p \in Procs, NEW q, procs' = [procs EXCEPT ![p] = q],
           UNCHANGED <<run, rows, tasks, log>>, Knows(q),
           Launches(q) => Launches(procs[p])
    PROVE  LineInv'
<1>1. Shared'
  BY RigidFollows DEF LineInv, Shared, OneLine, Chained, Recognised, Settled, Unlaunched,
                      First, Launched, Owned
<1>2. Knows(q)'
  BY RigidFollows DEF Knows, Begun, Enters, Extends, Launches, Advances, Held, First,
                      Owned, Launched
<1>3. /\ \A k \in Key : Owned(k) => Owned(k)'
      /\ Launched => Launched'
      /\ \A k \in Key : First(k)' => First(k)
  BY DEF Owned, Launched, First
<1>4. /\ run'.status = run.status /\ Len(log') \in Nat /\ Len(log') >= Len(log)
      /\ \A k \in Key : tasks'[k] = tasks[k]
      /\ \A i \in 1..Len(log) : log'[i] = log[i]
  BY Typed
<1> QED
  BY <1>1, <1>2, <1>3, <1>4, LineKept

LEMMA IdleKnows == Knows(IdleProc)
<1>1. /\ IdleProc.phase = "idle" /\ IdleProc.cur = NoKey /\ IdleProc.block = NoKey
  BY DEF IdleProc
<1> QED
  BY <1>1 DEF Knows, Begun, Enters, Extends, Launches, Advances

LEMMA LineLaunch ==
    ASSUME IInv, LineInv, NEW p \in Procs, Launch(p)
    PROVE  LineInv'
<1>1. PICK ctx \in Contexts :
         /\ run' = [status |-> "RUNNING", cursor |-> 0, ctx |-> ctx]
         /\ procs' = [procs EXCEPT ![p] =
                [IdleProc EXCEPT !.phase = "write", !.todo = EntryKeys(ctx)]]
  BY DEF Launch
<1>2. /\ run.status = "NONE" /\ Len(log) = 0
      /\ \A k \in Key : rows[k] = NoRow /\ tasks[k] = "none"
      /\ \A r \in Procs : procs[r].phase = "idle"
      /\ UNCHANGED <<rows, tasks, log>>
  BY DEF Launch, LineInv, Shared, Unlaunched, Knows, Begun, board
<1>3. run'.status = "RUNNING" /\ run'.cursor = 0
  BY <1>1
<1>4. PICK q : /\ q = [IdleProc EXCEPT !.phase = "write", !.todo = EntryKeys(ctx)]
               /\ \A r \in Procs : procs'[r] = IF r = p THEN q ELSE procs[r]
  BY <1>1, Typed
<1>5. /\ q.phase = "write" /\ q.save = NoRun /\ q.todo = EntryKeys(ctx)
      /\ q.cur = NoKey /\ q.block = NoKey
  BY <1>4 DEF IdleProc
<1>6. \A k \in Held(q) : k \in EntryKeys(ctx)
  BY <1>5, EngineAssumption DEF Held
<1>7. \A k, l \in Held(q) : k = l
  BY <1>6, OneEntry
<1>8. \A l \in Key : ~First(l)'
  BY <1>2 DEF First
<1>9. Knows(procs[p])'
  <2>1. procs'[p] = q
    BY <1>4
  <2> QED
    BY <1>3, <1>5, <1>7, <1>8, <2>1
       DEF Knows, Begun, Enters, Extends, Launches, Advances, Held
<1>10. ASSUME NEW r \in Procs, r # p PROVE Knows(procs[r])' /\ ~Launches(procs[r])'
  <2>1. procs'[r] = procs[r]
    BY <1>4, <1>10
  <2> QED
    BY <1>2, <1>10, <2>1
       DEF LineInv, Knows, Begun, Enters, Extends, Launches, Advances
<1>11. Shared'
  BY <1>2, <1>3
     DEF Shared, OneLine, Chained, Recognised, Launched, Settled, Unlaunched
<1> QED
  BY <1>9, <1>10, <1>11 DEF LineInv

\* A pass that begins, or goes on with its batch.
LEMMA ReadingKnows ==
    ASSUME run.status # "NONE", Launched, NEW batch
    PROVE  /\ Knows([IdleProc EXCEPT !.phase = "read", !.batch = batch])
           /\ ~Launches([IdleProc EXCEPT !.phase = "read", !.batch = batch])
<1>1. PICK q : q = [IdleProc EXCEPT !.phase = "read", !.batch = batch]
  OBVIOUS
<1>2. q.phase = "read" /\ q.cur = NoKey /\ q.block = NoKey
  BY <1>1 DEF IdleProc
<1>3. Knows(q) /\ ~Launches(q)
  BY <1>2 DEF Knows, Begun, Enters, Extends, Launches, Advances
<1> QED
  BY <1>1, <1>3

LEMMA ContinueKnows ==
    ASSUME run.status # "NONE", Launched, NEW batch
    PROVE  Knows(Continue(batch)) /\ ~Launches(Continue(batch))
<1>1. ~Launches(IdleProc)
  BY DEF Launches, IdleProc
<1> QED
  BY <1>1, IdleKnows, ReadingKnows DEF Continue

LEMMA LineBeginPass ==
    ASSUME IInv, LineInv, NEW p \in Procs, BeginPass(p)
    PROVE  LineInv'
<1>1. PICK q : /\ q = [IdleProc EXCEPT !.phase = "read", !.batch = Unseen]
               /\ procs' = [procs EXCEPT ![p] = q]
  BY DEF BeginPass
<1>2. UNCHANGED <<run, rows, tasks, log>>
  BY DEF BeginPass, store, board
<1>3. run.status # "NONE"
  BY DEF BeginPass, Active
<1>4. Launched
  <2>1. PICK i \in 1..Len(log) : Owned(log[i].task)
    BY DEF BeginPass, Unseen
  <2>2. log[i].task \in Key
    BY Typed
  <2> QED
    BY <2>1, <2>2 DEF Owned, Launched
<1>5. Knows(q) /\ ~Launches(q)
  BY <1>1, <1>3, <1>4, ReadingKnows
<1> QED
  BY <1>1, <1>2, <1>5, LineMemory

LEMMA LineReadRun ==
    ASSUME IInv, LineInv, NEW p \in Procs, ReadRun(p)
    PROVE  LineInv'
<1>1. procs[p].phase = "read" /\ UNCHANGED <<run, rows, tasks, log>>
  BY DEF ReadRun, store, board
<1>2. PICK i \in procs[p].batch :
         procs' = [procs EXCEPT ![p] =
                [procs[p] EXCEPT !.phase = "mark", !.batch = procs[p].batch \ {i},
                                 !.evt = i, !.snap = run]]
  BY DEF ReadRun
<1>3. PICK q : /\ q = [procs[p] EXCEPT !.phase = "mark",
                                       !.batch = procs[p].batch \ {i},
                                       !.evt = i, !.snap = run]
               /\ procs' = [procs EXCEPT ![p] = q]
  BY <1>2
<1>4. /\ q.phase = "mark" /\ q.snap = run
      /\ q.cur = procs[p].cur /\ q.block = procs[p].block
  <2>1. procs[p] \in Proc
    BY Typed
  <2> QED
    BY <1>3, <2>1 DEF Proc
<1>5. /\ run.status # "NONE" /\ Launched
      /\ procs[p].cur = NoKey /\ procs[p].block = NoKey
  BY <1>1 DEF LineInv, Knows, Begun
<1>6. Knows(q) /\ ~Launches(q)
  BY <1>4, <1>5 DEF Knows, Begun, Enters, Extends, Launches, Advances
<1> QED
  BY <1>1, <1>3, <1>6, LineMemory

LEMMA LineSkipEvent ==
    ASSUME IInv, LineInv, NEW p \in Procs, SkipEvent(p)
    PROVE  LineInv'
<1>1. PICK batch : procs' = [procs EXCEPT ![p] = Continue(batch)]
  BY DEF SkipEvent
<1>2. run.status # "NONE" /\ Launched /\ UNCHANGED <<run, rows, tasks, log>>
  BY DEF SkipEvent, store, board, LineInv, Knows, Begun
<1>3. PICK q : q = Continue(batch)
  OBVIOUS
<1>4. Knows(q) /\ ~Launches(q)
  BY <1>2, <1>3, ContinueKnows
<1> QED
  BY <1>1, <1>2, <1>3, <1>4, LineMemory

LEMMA LineStop ==
    ASSUME IInv, LineInv, NEW p \in Procs, Crash(p) \/ LaunchReturns(p)
    PROVE  LineInv'
<1>1. PICK q : q = IdleProc /\ procs' = [procs EXCEPT ![p] = q]
  BY DEF Crash, LaunchReturns
<1>2. UNCHANGED <<run, rows, tasks, log>>
  BY DEF Crash, LaunchReturns, store, board
<1>3. Knows(q) /\ ~Launches(q)
  BY <1>1, IdleKnows DEF Launches, IdleProc
<1> QED
  BY <1>1, <1>2, <1>3, LineMemory

LEMMA LineMarkNode ==
    ASSUME IInv, WorkInv, LineInv, NEW p \in Procs, MarkNode(p)
    PROVE  LineInv'
<1>1. PICK row : /\ row = [status |-> IF GatePassed(p) THEN "SUCCEEDED" ELSE "PARTIAL",
                           upd |-> AnswerOf(p).upd, card |-> TRUE]
                 /\ rows' = [rows EXCEPT ![EventOf(p).task] = row]
  BY DEF MarkNode
<1>2. procs[p].phase = "mark" /\ UNCHANGED <<run, tasks, log>>
  BY DEF MarkNode, board
<1>3. PICK k : /\ k \in Key /\ EventOf(p).task = k
               /\ procs[p].evt \in 1..Len(log) /\ log[procs[p].evt].task = k
  BY <1>2, InHand, Typed DEF EventOf
<1>4. row \in NodeRow /\ row.card = TRUE
  BY <1>1, <1>2, InHand DEF NodeRow, Answer
<1>5. row # NoRow
  BY <1>4, EngineAssumption
<1>6. rows'[k] = row /\ \A l \in Key : l # k => rows'[l] = rows[l]
  BY <1>1, <1>3, Typed
<1>7. tasks[k] # "none"
  BY <1>3 DEF WorkInv
<1>8. /\ \A l \in Key : Owned(l) => Owned(l)'
      /\ Launched => Launched'
      /\ \A l \in Key : First(l)' <=> First(l)
  BY <1>2, <1>4, <1>5, <1>6 DEF Owned, Launched, First
<1>9. PICK q : q = [procs[p] EXCEPT !.phase = "plan"] /\ procs' = [procs EXCEPT ![p] = q]
  BY DEF MarkNode
<1>10. /\ q.phase = "plan" /\ q.snap = procs[p].snap
       /\ q.cur = procs[p].cur /\ q.block = procs[p].block
  <2>1. procs[p] \in Proc
    BY Typed
  <2> QED
    BY <1>9, <2>1 DEF Proc
<1>11. /\ run.status # "NONE" /\ procs[p].snap.status # "NONE" /\ Launched
       /\ procs[p].cur = NoKey /\ procs[p].block = NoKey
  BY <1>2 DEF LineInv, Knows, Begun
<1>12. Knows(q)' /\ ~Launches(q)
  BY <1>2, <1>8, <1>10, <1>11 DEF Knows, Begun, Enters, Extends, Launches, Advances
<1>13. Shared'
  <2>1. OneLine' /\ Chained'
    BY <1>2, RigidFollows DEF LineInv, Shared, OneLine, Chained
  <2>2. Recognised'
    <3>1. \A l \in Key : rows'[l] # NoRow => rows'[l].card /\ tasks[l] # "none"
      BY <1>4, <1>6, <1>7 DEF LineInv, Shared, Recognised
    <3> QED
      BY <1>2, <1>8, <1>11, <3>1 DEF LineInv, Shared, Recognised
  <2>3. Settled(run)' /\ Unlaunched'
    BY <1>2, <1>8, <1>11, RigidFollows DEF LineInv, Shared, Settled, Unlaunched
  <2> QED
    BY <2>1, <2>2, <2>3 DEF Shared
<1>14. /\ Len(log') \in Nat /\ Len(log') >= Len(log) /\ run'.status = run.status
       /\ \A l \in Key : tasks'[l] = tasks[l]
       /\ \A i \in 1..Len(log) : log'[i] = log[i]
  BY <1>2, Typed
<1> QED
  BY <1>8, <1>9, <1>12, <1>13, <1>14, LineKept

\* Every pass decides on the card that the event leads to, whatever run it read.
LEMMA LinePlan ==
    ASSUME IInv, WorkInv, OneCard, Unguarded, LineInv, NEW p \in Procs, Plan(p)
    PROVE  LineInv'
<1>1. PICK keys, saved : Dispatch(p, keys, NoKey, saved) /\ Decision(p, keys, saved)
  BY PlanDecides
<1>2. procs[p].phase = "plan"
  BY PlanPhase
<1>3. /\ run.status # "NONE" /\ procs[p].snap.status # "NONE" /\ Launched
      /\ procs[p].cur = NoKey
  BY <1>2 DEF LineInv, Knows, Begun
<1>4. PICK ev : ev = log[procs[p].evt] /\ procs[p].evt \in 1..Len(log)
  BY Deciding
<1>5. \A k \in Key : Follows(ev, k) <=> k \in keys
  <2>1. \A k \in Key : Leads(p, k) <=> k \in keys
    BY <1>1 DEF Decision
  <2>2. \A k : Leads(p, k) <=> Succ(ev, procs[p].snap.ctx, k)
    BY <1>4 DEF Leads, EventOf
  <2>3. \A k : Succ(ev, procs[p].snap.ctx, k) <=> Follows(ev, k)
    BY Steady
  <2> QED
    BY <2>1, <2>2, <2>3
<1>6. /\ saved.status # "NONE" /\ saved.cursor = procs[p].evt /\ keys \subseteq Key
      /\ saved.status \in Active /\ WaysOn => keys # {}
  BY <1>1, <1>3 DEF Decision, Resumed
<1>7. saved # NoRun
  BY <1>6 DEF NoRun
<1>8. PICK q : /\ q = [procs[p] EXCEPT !.phase = "write", !.todo = keys,
                                       !.block = NoKey, !.save = saved]
               /\ procs' = [procs EXCEPT ![p] = q]
  BY <1>1 DEF Dispatch
<1>9. /\ q.phase = "write" /\ q.todo = keys /\ q.block = NoKey /\ q.save = saved
      /\ q.cur = NoKey
  <2>1. procs[p] \in Proc
    BY Typed
  <2> QED
    BY <1>3, <1>8, <2>1 DEF Proc
<1>10. UNCHANGED <<run, rows, tasks, log>>
  BY <1>1 DEF Dispatch, store, board
<1>11. \A k \in Key : k \in Held(q) <=> k \in keys
  BY <1>9, EngineAssumption DEF Held
<1>12. Extends(q)
  BY <1>4, <1>5, <1>6, <1>9, <1>11 DEF Extends
<1>13. Knows(q) /\ ~Launches(q)
  BY <1>3, <1>7, <1>9, <1>12 DEF Knows, Begun, Enters, Launches
<1> QED
  BY <1>8, <1>10, <1>13, LineMemory

\* A card that does not exist yet is the first, or the end of the line.
LEMMA NewCardLast ==
    ASSUME IInv, OneCard, LineInv, NEW p \in Procs, procs[p].phase = "write",
           NEW k \in Key, k \in Held(procs[p]), tasks[k] = "none"
    PROVE  /\ \A l \in Key : tasks[l] # "open"
           /\ \A i \in 1..Len(log) : Before(log[i].task, k)
           /\ Len(log) > 0 => Follows(log[Len(log)], k)
           /\ Launches(procs[p]) => Len(log) = 0 /\ ~Launched
           /\ Advances(procs[p]) => Len(log) > 0 /\ Launched
<1>1. \A i \in 1..Len(log) : log[i].task \in Key /\ tasks[log[i].task] = "done"
  BY Typed DEF LineInv, Shared, OneLine
<1>2. CASE Launches(procs[p])
  <2>1. \A l \in Key : First(l) => l = k
    BY <1>2 DEF LineInv, Knows, Enters
  <2>2. Len(log) = 0
    <3> SUFFICES ASSUME Len(log) > 0 PROVE FALSE
      BY Typed
    <3>1. 1 \in 1..Len(log)
      BY Typed
    <3>2. log[1].task = k
      BY <1>1, <2>1, <3>1 DEF First
    <3> QED
      BY <1>1, <3>1, <3>2
  <2>3. \A l \in Key : tasks[l] # "open"
    BY <2>1, <2>2 DEF First
  <2>4. \A l \in Key : tasks[l] = "none"
    <3>1. \A l \in Key : tasks[l] \notin {"blocked", "done"}
      BY <2>2 DEF LineInv, Shared, OneLine
    <3> QED
      BY <2>3, <3>1, Typed
  <2>5. ~Launched
    BY <2>4 DEF Launched, LineInv, Shared, Recognised
  <2> QED
    BY <1>2, <2>2, <2>3, <2>5 DEF Advances, Launches
<1>3. CASE Advances(procs[p])
  <2>1. PICK c : /\ c = procs[p].save.cursor /\ c \in 1..Len(log)
                 /\ Follows(log[c], k)
    BY <1>3 DEF LineInv, Knows, Extends
  <2>2. c = Len(log)
    <3> SUFFICES ASSUME c < Len(log) PROVE FALSE
      BY <2>1, Typed
    <3>1. c + 1 \in 1..Len(log) /\ Follows(log[c], log[c + 1].task)
      BY <2>1, Typed DEF LineInv, Shared, Chained
    <3>2. k = log[c + 1].task
      BY <2>1, <3>1, FollowsOne
    <3> QED
      BY <1>1, <3>1, <3>2
  <2>3. Len(log) > 0 /\ Launched
    BY <1>3, <2>1, Typed DEF LineInv, Knows, Begun
  <2>4. \A l \in Key : tasks[l] # "open"
    <3> SUFFICES ASSUME NEW l \in Key, tasks[l] = "open" PROVE FALSE
      OBVIOUS
    <3>1. Follows(log[c], l)
      BY <2>2, <2>3 DEF LineInv, Shared, Chained
    <3>2. l = k
      BY <2>1, <3>1, FollowsOne
    <3> QED
      BY <3>2
  <2>5. Before(log[c].task, k)
    <3>1. log[c] \in Event
      BY <2>1, Typed
    <3> QED
      BY <2>1, <3>1, SuccBefore DEF Follows
  <2>6. ASSUME NEW i \in 1..Len(log) PROVE Before(log[i].task, k)
    <3>1. CASE i = c
      BY <2>5, <3>1
    <3>2. CASE i # c
      <4>1. Before(log[i].task, log[c].task)
        BY <2>1, <2>2, <3>2, Typed DEF LineInv, Shared, OneLine
      <4> QED
        BY <1>1, <2>1, <2>5, <4>1, BeforeStrict
    <3> QED
      BY <3>1, <3>2
  <2> QED
    BY <1>3, <2>1, <2>2, <2>3, <2>4, <2>6 DEF Advances, Launches
<1> QED
  BY <1>2, <1>3 DEF Launches, Advances

LEMMA LineCreateCard ==
    ASSUME IInv, OneCard, LineInv, NEW p \in Procs, CreateCard(p)
    PROVE  LineInv'
<1>1. PICK k \in procs[p].todo :
         /\ tasks' = [tasks EXCEPT ![k] = IF tasks[k] = "none" THEN "open" ELSE tasks[k]]
         /\ procs' = [procs EXCEPT ![p] =
                [procs[p] EXCEPT !.todo = procs[p].todo \ {k}, !.cur = k, !.got = TRUE]]
  BY DEF CreateCard
<1>2. PICK q : /\ q = [procs[p] EXCEPT !.todo = procs[p].todo \ {k},
                                       !.cur = k, !.got = TRUE]
               /\ procs' = [procs EXCEPT ![p] = q]
  BY <1>1
<1>3. procs[p] \in Proc
  BY Typed
<1>4. /\ q.phase = "write" /\ q.save = procs[p].save
      /\ q.todo = procs[p].todo \ {k} /\ q.cur = k /\ q.got = TRUE
      /\ q.block = procs[p].block
      /\ procs[p].phase = "write" /\ procs[p].cur = NoKey
      /\ UNCHANGED <<run, rows, log>>
  BY <1>2, <1>3 DEF Proc, CreateCard, Writing, store
<1>5. k \in Key /\ procs[p].block = NoKey
  BY <1>3 DEF Proc, LineInv, Knows
<1>6. Held(q) = Held(procs[p]) /\ k \in Held(procs[p])
  BY <1>4, <1>5, EngineAssumption DEF Held
<1>7. /\ tasks'[k] # "none"
      /\ tasks[k] # "none" => tasks'[k] = tasks[k]
      /\ tasks[k] = "none" => tasks'[k] = "open"
      /\ \A l \in Key : l # k => tasks'[l] = tasks[l]
  BY <1>1, <1>5, Typed
<1>8. /\ Launches(q) <=> Launches(procs[p])
      /\ Advances(q) <=> Advances(procs[p])
  BY <1>4 DEF Launches, Advances
<1>9. Begun(q) /\ Enters(q) /\ Extends(q)
  BY <1>4, <1>6, <1>8 DEF LineInv, Knows, Begun, Enters, Extends
<1>10. CASE tasks[k] # "none"
  <2>1. tasks' = tasks
    BY <1>1, <1>10, Typed
  <2>2. Knows(q)
    BY <1>4, <1>5, <1>9, <1>10 DEF Knows
  <2> QED
    BY <1>2, <1>4, <1>8, <2>1, <2>2, LineMemory
<1>11. CASE tasks[k] = "none"
  <2>1. /\ \A l \in Key : tasks[l] # "open"
        /\ \A i \in 1..Len(log) : Before(log[i].task, k)
        /\ Len(log) > 0 => Follows(log[Len(log)], k)
        /\ Launches(procs[p]) => Len(log) = 0 /\ ~Launched
        /\ Advances(procs[p]) => Len(log) > 0 /\ Launched
    BY <1>4, <1>5, <1>6, <1>11, NewCardLast
  <2>2. \A l \in Key : tasks'[l] = "open" => l = k
    BY <1>7, <2>1
  <2>3. \A l \in Key : tasks[l] # "none" => tasks'[l] # "none"
    BY <1>7
  <2>4. Launched' <=> Launched
    BY <1>4 DEF Launched
  <2>5. \A l \in Key : Owned(l)' <=> Owned(l)
    BY <1>4 DEF Owned
  <2>6. OneLine'
    <3>1. \A i \in 1..Len(log) : /\ log[i].task \in Key /\ tasks[log[i].task] = "done"
                                 /\ tasks'[log[i].task] = "done"
      BY <1>7, <1>11, Typed DEF LineInv, Shared, OneLine
    <3>2. \A l \in Key : tasks'[l] \in {"blocked", "done"} =>
              \E i \in 1..Len(log) : log[i].task = l
      BY <1>7, <1>11 DEF LineInv, Shared, OneLine
    <3> QED
      BY <1>4, <2>1, <2>2, <3>1, <3>2, Rigid DEF LineInv, Shared, OneLine
  <2>7. Chained'
    BY <1>4, <2>1, <2>2, RigidFollows DEF LineInv, Shared, Chained
  <2>8. ASSUME Len(log) > 0 PROVE \A l \in Key : First(l)' <=> First(l)
    BY <1>4, <2>8 DEF First
  <2>9. ASSUME Len(log) = 0 PROVE \A l \in Key : First(l)' => l = k
    BY <1>4, <2>2, <2>9 DEF First
  <2>10. Launches(procs[p]) \/ Advances(procs[p])
    BY <1>4 DEF Launches, Advances
  <2>11. Recognised'
    <3>1. \A l \in Key : rows'[l] # NoRow => rows'[l].card /\ tasks'[l] # "none"
      BY <1>4, <2>3 DEF LineInv, Shared, Recognised
    <3>2. Launched => \A l \in Key : First(l)' => Owned(l)
      BY <2>1, <2>8, <2>10 DEF LineInv, Shared, Recognised
    <3> QED
      BY <2>4, <2>5, <3>1, <3>2 DEF Recognised
  <2>12. Shared'
    BY <1>4, <2>5, <2>6, <2>7, <2>11, RigidFollows
       DEF LineInv, Shared, Settled, Unlaunched, Knows, Begun
  <2>13. Enters(q)'
    <3> SUFFICES ASSUME Launches(q) PROVE Enters(q)'
      BY DEF Enters, Launches
    <3>1. \A a \in Held(q) : \A l \in Key : l \in Held(q) => l = a
      BY <1>9 DEF Enters
    <3>2. Len(log) = 0
      BY <1>8, <2>1
    <3>3. \A a \in Held(q) : \A l \in Key : First(l)' => l = a
      BY <1>5, <1>6, <2>9, <3>1, <3>2
    <3> QED
      BY <3>1, <3>3 DEF Enters, Held
  <2>14. Extends(q)'
    BY <1>4, <1>9, <2>5, RigidFollows DEF Extends, Advances, Held
  <2>15. Begun(q)'
    BY <1>4, <1>9, <2>4 DEF Begun, Advances
  <2>16. Knows(q)'
    BY <1>4, <1>5, <1>7, <2>13, <2>14, <2>15 DEF Knows
  <2>17. ~Launches(procs[p]) => \A l \in Key : First(l)' => First(l)
    BY <2>1, <2>8, <2>10
  <2>18. /\ Len(log') \in Nat /\ Len(log') >= Len(log) /\ run' = run
         /\ \A i \in 1..Len(log) : log'[i] = log[i]
    BY <1>4, Typed
  <2> QED
    BY <1>2, <1>8, <2>3, <2>4, <2>5, <2>12, <2>16, <2>17, <2>18, LineKept
<1> QED
  BY <1>10, <1>11

LEMMA LineUpsertRow ==
    ASSUME IInv, LineInv, NEW p \in Procs, UpsertRow(p)
    PROVE  LineInv'
<1>1. PICK k : k = procs[p].cur
  OBVIOUS
<1>2. PICK row : /\ row = [status |-> "DISPATCHED", upd |-> NoUpdate,
                           card |-> procs[p].got]
                 /\ rows' = [rows EXCEPT ![k] = row]
  BY <1>1 DEF UpsertRow
<1>3. /\ procs[p].phase = "write" /\ k \in Key
      /\ UNCHANGED <<run, tasks, log>>
      /\ procs[p].got = TRUE /\ tasks[k] # "none" /\ procs[p].block = NoKey
  <2>1. procs[p].got \in BOOLEAN
    BY Typed DEF Proc
  <2> QED
    BY <1>1, <2>1, Typed DEF UpsertRow, Writing, board, Proc, LineInv, Knows
<1>4. row.status = "DISPATCHED" /\ row.card = TRUE
  BY <1>2, <1>3
<1>5. row # NoRow
  <2>1. row \in NodeRow
    BY <1>2, <1>3, BlankTypes DEF NodeRow
  <2> QED
    BY <2>1, EngineAssumption
<1>6. rows'[k] = row /\ \A l \in Key : l # k => rows'[l] = rows[l]
  BY <1>2, <1>3, Typed
<1>7. PICK q : /\ q = [procs[p] EXCEPT !.cur = NoKey, !.got = FALSE]
               /\ procs' = [procs EXCEPT ![p] = q]
  BY DEF UpsertRow
<1>8. /\ q.phase = "write" /\ q.save = procs[p].save
      /\ q.todo = procs[p].todo /\ q.cur = NoKey /\ q.block = NoKey
  <2>1. procs[p] \in Proc
    BY Typed
  <2> QED
    BY <1>3, <1>7, <2>1 DEF Proc
<1>9. /\ k \in Held(procs[p])
      /\ \A l \in Held(procs[p]) : l = k \/ l \in Held(q)
      /\ \A l \in Held(q) : l \in Held(procs[p])
  BY <1>1, <1>3, <1>8, EngineAssumption DEF Held
<1>10. /\ Owned(k)' /\ \A l \in Key : Owned(l) => Owned(l)'
       /\ Launched'
       /\ \A l \in Key : First(l)' <=> First(l)
  BY <1>3, <1>4, <1>5, <1>6 DEF Owned, Launched, First
<1>11. /\ Launches(q) <=> Launches(procs[p])
       /\ Advances(q) <=> Advances(procs[p])
  BY <1>3, <1>8 DEF Launches, Advances
<1>12. /\ run.status # "NONE"
       /\ Enters(procs[p]) /\ Extends(procs[p])
  BY <1>3 DEF LineInv, Knows, Begun
<1>13. Recognised'
  <2>1. \A l \in Key : rows'[l] # NoRow => rows'[l].card /\ tasks[l] # "none"
    BY <1>3, <1>4, <1>6 DEF LineInv, Shared, Recognised
  <2>2. CASE Launches(procs[p])
    <3>1. \A l \in Key : First(l) => l = k
      BY <1>9, <1>12, <2>2 DEF Enters
    <3> QED
      BY <1>3, <1>10, <2>1, <3>1 DEF Recognised
  <2>3. CASE Advances(procs[p])
    <3>1. Launched
      BY <2>3 DEF LineInv, Knows, Begun
    <3> QED
      BY <1>3, <1>10, <2>1, <3>1 DEF LineInv, Shared, Recognised
  <2> QED
    BY <1>3, <2>2, <2>3 DEF Launches, Advances
<1>14. Shared'
  BY <1>3, <1>10, <1>12, <1>13, RigidFollows
     DEF LineInv, Shared, OneLine, Chained, Settled, Unlaunched
<1>15. Enters(q)'
  <2> SUFFICES ASSUME Launches(q) PROVE Enters(q)'
    BY DEF Enters, Launches
  <2>1. \A a \in Held(q) : \A l \in Key : First(l)' \/ l \in Held(q) => l = a
    BY <1>9, <1>10, <1>11, <1>12 DEF Enters
  <2> QED
    BY <2>1 DEF Enters, Held
<1>16. Extends(q)'
  <2> SUFFICES ASSUME Advances(q) PROVE Extends(q)'
    BY DEF Extends, Advances
  <2>1. /\ q.save.status # "NONE" /\ q.save.cursor \in 1..Len(log)
        /\ q.save.status \in Active /\ WaysOn =>
              \E l \in Key : Follows(log[q.save.cursor], l)
    BY <1>8, <1>11, <1>12 DEF Extends
  <2>2. \A l \in Key : l \in Held(q) => Follows(log[q.save.cursor], l)
    BY <1>8, <1>9, <1>11, <1>12 DEF Extends
  <2>3. \A l \in Key : Follows(log[q.save.cursor], l) => l \in Held(q) \/ Owned(l)'
    BY <1>8, <1>9, <1>10, <1>11, <1>12 DEF Extends
  <2> QED
    BY <1>3, <2>1, <2>2, <2>3, RigidFollows DEF Extends, Held
<1>17. Knows(q)'
  BY <1>3, <1>8, <1>10, <1>12, <1>15, <1>16 DEF Knows, Begun
<1>18. /\ Len(log') \in Nat /\ Len(log') >= Len(log) /\ run' = run
       /\ \A l \in Key : tasks'[l] = tasks[l]
       /\ \A i \in 1..Len(log) : log'[i] = log[i]
  BY <1>3, Typed
<1> QED
  BY <1>7, <1>10, <1>11, <1>14, <1>17, <1>18, LineKept

LEMMA LineSaveRun ==
    ASSUME IInv, LineInv, NEW p \in Procs, SaveRun(p)
    PROVE  LineInv'
<1>1. /\ procs[p].phase = "write" /\ procs[p].cur = NoKey /\ procs[p].todo = {}
      /\ procs[p].save # NoRun /\ run' = procs[p].save
      /\ UNCHANGED <<rows, tasks, log>>
  BY DEF SaveRun, Dispatched, Writing, board
<1>2. PICK q : /\ q = Continue(procs[p].batch) /\ procs' = [procs EXCEPT ![p] = q]
  BY DEF SaveRun
<1>3. \A k \in Key : k \notin Held(procs[p])
  BY <1>1, EngineAssumption DEF Held
<1>4. /\ Launched /\ run.status # "NONE"
      /\ run'.status # "NONE" /\ run'.cursor \in 1..Len(log)
      /\ \A k \in Key : Follows(log[run'.cursor], k) => Owned(k)
      /\ run'.status \in Active /\ WaysOn =>
            \E k \in Key : Follows(log[run'.cursor], k)
  BY <1>1, <1>3 DEF LineInv, Knows, Begun, Extends, Advances
<1>5. /\ q.phase \in {"idle", "read"} /\ q.cur = NoKey /\ q.block = NoKey
  <2>1. CASE procs[p].batch = {}
    BY <1>2, <2>1 DEF Continue, IdleProc
  <2>2. CASE procs[p].batch # {}
    BY <1>2, <2>2 DEF Continue, IdleProc
  <2> QED
    BY <2>1, <2>2
<1>6. /\ \A k \in Key : (Owned(k)' <=> Owned(k)) /\ (First(k)' <=> First(k))
      /\ Launched' <=> Launched
  BY <1>1 DEF Owned, First, Launched
<1>7. Knows(q)' /\ ~Launches(q)
  BY <1>4, <1>5, <1>6 DEF Knows, Begun, Enters, Extends, Launches, Advances
<1>8. OneLine' /\ Chained' /\ Recognised'
  BY <1>1, <1>6, RigidFollows DEF LineInv, Shared, OneLine, Chained, Recognised
<1>9. Settled(run)' /\ Unlaunched'
  BY <1>1, <1>4, <1>6, RigidFollows, Typed DEF Settled, Unlaunched
<1>10. /\ Len(log') \in Nat /\ Len(log') >= Len(log)
       /\ \A l \in Key : tasks'[l] = tasks[l]
       /\ \A i \in 1..Len(log) : log'[i] = log[i]
  BY <1>1, Typed
<1>11. Shared'
  BY <1>8, <1>9 DEF Shared
<1> QED
  BY <1>2, <1>4, <1>6, <1>7, <1>10, <1>11, LineKept

LEMMA LineFinish ==
    ASSUME IInv, LineInv, NEW k \in Key, Complete(k) \/ GiveUp(k)
    PROVE  LineInv'
<1>1. OneLine
  BY DEF LineInv, Shared
<1>2. OneLine' /\ UNCHANGED <<run, rows, procs>> /\ tasks[k] = "open"
  BY <1>1, FinishLine
<1>3. /\ Len(log') = Len(log) + 1 /\ log'[Len(log) + 1].task = k
      /\ \A i \in 1..Len(log) : log'[i] = log[i]
  BY <1>1, FinishLine
<1>4. /\ \A l \in Key : tasks[l] # "none" <=> tasks'[l] # "none"
      /\ \A l \in Key : tasks'[l] # "open"
  BY <1>1, FinishLine
<1>5. /\ \A i \in 1..Len(log') : i \in 1..Len(log) \/ i = Len(log) + 1
      /\ Len(log) \in Nat /\ Len(log') \in Nat /\ Len(log') >= Len(log)
  BY <1>3, Typed
<1>6. /\ Launched' <=> Launched
      /\ \A l \in Key : Owned(l)' <=> Owned(l)
  BY <1>2 DEF Launched, Owned
<1>7. \A l \in Key : First(l)' => First(l)
  <2>1. CASE Len(log) = 0
    BY <1>2, <1>3, <2>1 DEF First
  <2>2. CASE Len(log) # 0
    <3>1. log'[1] = log[1] /\ Len(log') # 0
      BY <1>3, <1>5, <2>2
    <3> QED
      BY <2>2, <3>1 DEF First
  <2> QED
    BY <2>1, <2>2
<1>8. Chained'
  <2>1. ASSUME NEW i \in 1..Len(log'), i < Len(log')
        PROVE  Follows(log'[i], log'[i + 1].task)
    <3>1. i \in 1..Len(log) /\ log'[i] = log[i]
      BY <1>3, <1>5, <2>1
    <3>2. CASE i < Len(log)
      <4>1. i + 1 \in 1..Len(log) /\ log'[i + 1] = log[i + 1]
        BY <1>3, <1>5, <3>1, <3>2
      <4> QED
        BY <3>1, <3>2, <4>1 DEF LineInv, Shared, Chained
    <3>3. CASE i = Len(log)
      BY <1>2, <1>3, <1>5, <3>1, <3>3 DEF LineInv, Shared, Chained
    <3> QED
      BY <1>5, <3>1, <3>2, <3>3
  <2> QED
    BY <1>4, <2>1, RigidFollows DEF Chained
<1>9. Recognised'
  BY <1>2, <1>4, <1>6, <1>7 DEF LineInv, Shared, Recognised
<1>10. Settled(run)'
  <2>1. run.cursor \in 0..Len(log) /\ run.cursor \in 0..Len(log')
    BY <1>5 DEF LineInv, Shared, Settled
  <2>2. run.cursor > 0 => log'[run.cursor] = log[run.cursor]
    BY <1>3, <1>5, <2>1
  <2> QED
    BY <1>2, <1>6, <2>1, <2>2, RigidFollows DEF LineInv, Shared, Settled
<1>11. Shared'
  BY <1>2, <1>8, <1>9, <1>10 DEF LineInv, Shared, Unlaunched
<1>12. ASSUME NEW r \in Procs PROVE Knows(procs[r])'
  <2>1. PICK o : o = procs[r] /\ procs'[r] = o /\ o \in Proc /\ Knows(o)
    BY <1>2, Typed DEF LineInv
  <2>2. Knows(o)'
    BY <1>2, <1>3, <1>4, <1>5, <1>6, <1>7, <2>1, KnowsKept
  <2> QED
    BY <2>1, <2>2 DEF Knows, Begun, Enters, Extends, Launches, Advances, Held
<1>13. \A r, o \in Procs : Launches(procs[r])' /\ Launches(procs[o])' => r = o
  BY <1>2 DEF LineInv, Launches
<1> QED
  BY <1>11, <1>12, <1>13 DEF LineInv

LEMMA LineStep ==
    ASSUME OneCard, Unguarded, IInv, WorkInv, LineInv, [Next]_vars
    PROVE  LineInv'
<1>1. ASSUME NEW p \in Procs, Launch(p) \/ Advance(p) \/ Crash(p) PROVE LineInv'
  <2>1. ~CreateCardFails(p)
    BY DEF CreateCardFails, OneCard, IInv, TypeOK
  <2>2. ~BlockCard(p)
    BY DEF BlockCard, LineInv, Knows
  <2>3. CASE Plan(p)
    BY <2>3, LinePlan
  <2>4. CASE CreateCard(p)
    BY <2>4, LineCreateCard
  <2>5. CASE Write(p)
    BY <2>1, <2>2, <2>4, <2>5, LineUpsertRow, LineSaveRun, LineStop DEF Write
  <2>6. CASE Advance(p)
    BY <2>3, <2>5, <2>6, LineBeginPass, LineReadRun, LineSkipEvent, LineMarkNode
       DEF Advance
  <2> QED
    BY <1>1, <2>6, LineLaunch, LineStop
<1>2. ASSUME NEW k \in Key, Complete(k) \/ GiveUp(k) PROVE LineInv'
  BY <1>2, LineFinish
<1>3. CASE UNCHANGED vars
  <2>1. UNCHANGED <<run, rows, tasks, log, procs>>
    BY <1>3 DEF vars
  <2>2. /\ Launched' <=> Launched
        /\ \A k \in Key : (Owned(k)' <=> Owned(k)) /\ (First(k)' <=> First(k))
    BY <2>1 DEF Launched, Owned, First
  <2>3. Shared'
    BY <2>1, <2>2, RigidFollows
       DEF LineInv, Shared, OneLine, Chained, Recognised, Settled, Unlaunched
  <2>4. ASSUME NEW r \in Procs PROVE Knows(procs[r])'
    BY <2>1, <2>2, RigidFollows
       DEF LineInv, Knows, Begun, Enters, Extends, Launches, Advances, Held
  <2>5. \A r, o \in Procs : Launches(procs[r])' /\ Launches(procs[o])' => r = o
    BY <2>1 DEF LineInv, Launches
  <2> QED
    BY <2>3, <2>4, <2>5 DEF LineInv
<1> QED
  BY <1>1, <1>2, <1>3 DEF Next

\* Reconcilers that overtake each other, launch_run among them, and any crashes
\* keep one line of cards: one card is open at a time, whoever created it.
THEOREM OneLineTogether ==
    ASSUME OneCard, Unguarded
    PROVE  Spec => []LineInv
<1>1. Init => LineInv
  BY LineInit
<1>2. IInv /\ WorkInv /\ LineInv /\ [Next]_vars => LineInv'
  BY LineStep
<1> QED
  BY <1>1, <1>2, Justified, WorkIsEarned, PTL DEF Spec

\* However many reconcilers there are, and wherever each is interrupted, an
\* active run that was launched has an event to process or a card that is open
\* and known to be its own: no interleaving loses the card in between.
THEOREM NothingStallsTogether ==
    ASSUME OneCard, Unguarded, WaysOn
    PROVE  Spec => []NoStall
<1>1. IInv /\ LineInv => NoStall
  <2> SUFFICES ASSUME IInv, LineInv, run.status \in Active, Launched, Unseen = {}
               PROVE  \E k \in Key : tasks[k] \in {"open", "blocked"} /\ Owned(k)
    BY DEF NoStall
  <2>1. PICK c : c = run.cursor /\ c \in 0..Len(log)
    BY DEF LineInv, Shared, Settled
  <2>2. \A i \in 1..Len(log) : i > c => ~Owned(log[i].task)
    BY <2>1 DEF Unseen
  <2>3. PICK k \in Key : Owned(k) /\ \A i \in 1..Len(log) : i <= c => log[i].task # k
    <3>1. CASE c = 0
      <4>1. PICK l \in Key : First(l)
        <5>1. CASE Len(log) = 0
          <6>1. PICK l \in Key : rows[l] # NoRow
            BY DEF Launched
          <6>2. tasks[l] \notin {"none", "blocked", "done"}
            BY <5>1, <6>1 DEF LineInv, Shared, Recognised, OneLine
          <6> QED
            BY <5>1, <6>2, Typed DEF First
        <5>2. CASE Len(log) # 0
          <6>1. 1 \in 1..Len(log)
            BY <5>2, Typed
          <6> QED
            BY <5>2, <6>1, Typed DEF First
        <5> QED
          BY <5>1, <5>2
      <4>2. Owned(l)
        BY <4>1 DEF LineInv, Shared, Recognised
      <4> QED
        BY <3>1, <4>2, Typed
    <3>2. CASE c > 0
      <4>1. PICK l \in Key : Follows(log[c], l)
        BY <2>1, <3>2 DEF LineInv, Shared, Settled
      <4>2. Owned(l)
        BY <2>1, <3>2, <4>1 DEF LineInv, Shared, Settled
      <4>3. c \in 1..Len(log) /\ log[c] \in Event /\ log[c].task \in Key
        BY <2>1, <3>2, Typed
      <4>4. Before(log[c].task, l)
        BY <4>1, <4>3, SuccBefore DEF Follows
      <4>5. ASSUME NEW i \in 1..Len(log), i <= c, log[i].task = l PROVE FALSE
        <5>1. CASE i = c
          BY <4>3, <4>4, <4>5, <5>1, BeforeStrict
        <5>2. CASE i < c
          <6>1. Before(l, log[c].task)
            BY <4>3, <4>5, <5>2 DEF LineInv, Shared, OneLine
          <6> QED
            BY <4>3, <4>4, <6>1, BeforeStrict
        <5> QED
          BY <4>3, <4>5, <5>1, <5>2, Typed
      <4> QED
        BY <4>2, <4>5
    <3> QED
      BY <2>1, <3>1, <3>2, Typed
  <2>4. \A i \in 1..Len(log) : log[i].task # k
    BY <2>1, <2>2, <2>3, Typed
  <2>5. tasks[k] \notin {"none", "blocked", "done"}
    BY <2>3, <2>4 DEF LineInv, Shared, Recognised, OneLine, Owned
  <2> QED
    BY <2>3, <2>5, Typed
<1> QED
  BY <1>1, Justified, OneLineTogether, PTL
=============================================================================
