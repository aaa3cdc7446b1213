--------------------------- MODULE Reconciler_proofs ---------------------------
(***************************************************************************)
(* The batch loop of reconcile, for any number of runs, passes, faults and *)
(* any batch size.                                                         *)
(***************************************************************************)
EXTENDS Reconciler, TLAPS

LEMMA IdleTyped == Idle \in Pass /\ Covered(Idle)
  BY DEF Idle, Pass, Covered

\* A pass that looks at no run has nothing to answer for.
LEMMA FreeCovered ==
    ASSUME NEW q, q.phase \notin {"read", "advance"}
    PROVE  Covered(q)
  BY DEF Covered

LEMMA ToVisitTyped ==
    ASSUME NEW S \in SUBSET Runs
    PROVE  ToVisit(S) \in Pass /\ ToVisit(S).phase = "next"
  BY DEF ToVisit, Pass

\* More events processed, and a longer log, leave a pass covered.
LEMMA CoveredKept ==
    ASSUME TypeOK, NEW q \in Pass, Covered(q),
           Len(log') >= Len(log), log' \in Seq([owner : Runs \union {Nobody},
                                                effect : Effects]),
           \A i \in 1..Len(log) : log'[i] = log[i], applied \subseteq applied'
    PROVE  Covered(q)'
<1>1. CASE q.phase \notin {"read", "advance"}
  BY <1>1 DEF Covered
<1>2. CASE q.phase \in {"read", "advance"}
  <2>1. /\ Len(log) \in Nat /\ Len(log') \in Nat
        /\ q.cur \in Nat /\ q.cur <= Len(log)
    BY <1>2 DEF Covered, Pass, TypeOK
  <2>2. q.batch \subseteq OwnEvents(q.run)'
    BY <1>2, <2>1 DEF Covered, OwnEvents, IsTerminal
  <2>3. ASSUME NEW i \in OwnEvents(q.run)', i <= q.cur
        PROVE  i \in OwnEvents(q.run)
    BY <2>1, <2>3 DEF OwnEvents, IsTerminal
  <2> QED
    BY <1>2, <2>1, <2>2, <2>3 DEF Covered
<1> QED
  BY <1>1, <1>2

\* A step that only changes one pass keeps the invariant if that pass is
\* covered afterwards.
LEMMA PassStep ==
    ASSUME RInv, NEW p \in Passes, NEW q \in Pass, Covered(q),
           pass' = [pass EXCEPT ![p] = q],
           UNCHANGED <<status, cursor, broken, log, applied>>,
           faults' \in 0..MaxFaults
    PROVE  RInv'
<1>0. TypeOK /\ CursorOwn /\ BatchesCover
  BY DEF RInv
<1>1. TypeOK'
  BY <1>0 DEF TypeOK
<1>2. CursorOwn' /\ BatchesCover'
  BY <1>0 DEF CursorOwn, BatchesCover, OwnEvents, IsTerminal
<1>3. ASSUME NEW r \in Passes PROVE Covered(pass[r])'
  <2>1. pass'[r] = IF r = p THEN q ELSE pass[r]
    BY <1>0 DEF TypeOK
  <2>2. Covered(pass[r]) /\ log' = log /\ applied' = applied
    BY DEF RInv
  <2> QED
    BY <2>1, <2>2 DEF Covered, OwnEvents, IsTerminal
<1> QED
  BY <1>1, <1>2, <1>3 DEF RInv

-----------------------------------------------------------------------------
(***************************************************************************)
(* The steps that only change a pass.                                      *)
(***************************************************************************)
\* The end of a pass, whatever ends it.
LEMMA BecomesIdle ==
    ASSUME RInv, NEW p \in Passes, pass' = [pass EXCEPT ![p] = Idle],
           UNCHANGED <<status, cursor, broken, log, applied>>,
           faults' \in 0..MaxFaults
    PROVE  RInv'
  BY IdleTyped, PassStep

LEMMA EndingSteps ==
    ASSUME RInv, NEW p \in Passes,
           EndPass(p) \/ LoadRaises(p) \/ Raises(p) \/ Crash(p)
    PROVE  RInv'
<1>1. faults \in 0..MaxFaults /\ MaxFaults \in Nat
  BY ReconcilerAssumption DEF RInv, TypeOK
<1>2. faults' \in 0..MaxFaults
  BY <1>1 DEF EndPass, LoadRaises, Raises, Crash
<1>3. /\ pass' = [pass EXCEPT ![p] = Idle]
      /\ UNCHANGED <<status, cursor, broken, log, applied>>
  BY DEF EndPass, LoadRaises, Raises, Crash
<1> QED
  BY <1>2, <1>3, BecomesIdle

LEMMA BeginPassKeeps ==
    ASSUME RInv, NEW p \in Passes, BeginPass(p)
    PROVE  RInv'
<1>1. PICK q : q = ToVisit({r \in Runs : status[r] = "ACTIVE"})
  OBVIOUS
<1>2. q \in Pass /\ q.phase = "next"
  BY <1>1, ToVisitTyped
<1>3. /\ pass' = [pass EXCEPT ![p] = q]
      /\ UNCHANGED <<status, cursor, broken, log, applied, faults>>
  BY <1>1 DEF BeginPass
<1> QED
  BY <1>2, <1>3, FreeCovered, PassStep DEF RInv, TypeOK

LEMMA VisitRunKeeps ==
    ASSUME RInv, NEW p \in Passes, VisitRun(p)
    PROVE  RInv'
<1>0. /\ TypeOK /\ CursorOwn /\ BatchesCover /\ pass[p] \in Pass
      /\ faults' \in 0..MaxFaults
      /\ UNCHANGED <<status, cursor, broken, log, applied>>
  BY DEF RInv, TypeOK, VisitRun
<1>1. PICK r \in pass[p].todo :
         pass' = [pass EXCEPT ![p] =
            IF status[r] = "ACTIVE"
            THEN ToRead(pass[p].todo \ {r}, r, FALSE, cursor[r])
            ELSE ToVisit(pass[p].todo \ {r})]
  BY DEF VisitRun
<1>2. r \in Runs /\ pass[p].todo \ {r} \in SUBSET Runs /\ cursor[r] \in Nat
  BY <1>0, <1>1 DEF Pass, TypeOK
<1>3. CASE status[r] # "ACTIVE"
  <2>1. PICK q : q = ToVisit(pass[p].todo \ {r})
    OBVIOUS
  <2>2. q \in Pass /\ q.phase = "next" /\ pass' = [pass EXCEPT ![p] = q]
    BY <1>1, <1>2, <1>3, <2>1, ToVisitTyped
  <2> QED
    BY <1>0, <2>2, FreeCovered, PassStep
<1>4. CASE status[r] = "ACTIVE"
  <2>1. PICK q : q = ToRead(pass[p].todo \ {r}, r, FALSE, cursor[r])
    OBVIOUS
  <2>2. /\ q \in Pass /\ q.phase = "read" /\ q.run = r /\ q.cur = cursor[r]
        /\ q.batch = {} /\ pass' = [pass EXCEPT ![p] = q]
    <3>1. pass' = [pass EXCEPT ![p] = q]
      BY <1>1, <1>4, <2>1
    <3>2. q.phase = "read" /\ q.run = r /\ q.cur = cursor[r] /\ q.batch = {}
      BY <2>1, Zenon DEF ToRead
    <3>3. q \in Pass
      BY <1>2, <2>1 DEF ToRead, Pass
    <3> QED
      BY <3>1, <3>2, <3>3
  <2>3. cursor[r] <= Len(log)
    BY <1>0, <1>2 DEF CursorOwn, OwnEvents, TypeOK
  <2>4. Covered(q)
    BY <1>0, <1>2, <2>2, <2>3 DEF Covered, BatchesCover
  <2> QED
    BY <1>0, <2>2, <2>4, PassStep
<1> QED
  BY <1>3, <1>4

LEMMA ReadNothingKeeps ==
    ASSUME RInv, NEW p \in Passes, ReadNothing(p)
    PROVE  RInv'
<1>0. /\ pass[p] \in Pass /\ faults' \in 0..MaxFaults
      /\ UNCHANGED <<status, cursor, broken, log, applied>>
  BY DEF RInv, TypeOK, ReadNothing
<1>1. PICK q : q = ToVisit(pass[p].todo)
  OBVIOUS
<1>2. q \in Pass /\ q.phase = "next" /\ pass' = [pass EXCEPT ![p] = q]
  BY <1>0, <1>1, ToVisitTyped DEF ReadNothing, Pass
<1> QED
  BY <1>0, <1>2, FreeCovered, PassStep

\* A batch holds every event of the run between the read cursor and its end.
LEMMA ReadBatchKeeps ==
    ASSUME RInv, NEW p \in Passes, ReadBatch(p)
    PROVE  RInv'
<1>0. /\ TypeOK /\ pass[p] \in Pass /\ Covered(pass[p])
      /\ pass[p].phase = "read" /\ faults' \in 0..MaxFaults
      /\ UNCHANGED <<status, cursor, broken, log, applied>>
      /\ Len(log) \in Nat
  BY DEF RInv, TypeOK, ReadBatch
<1>1. PICK B \in SUBSET Fresh(pass[p].cur) : \E top \in B :
         /\ IsBatch(B, pass[p].cur) /\ \A j \in B : j <= top
         /\ pass' = [pass EXCEPT ![p] = Batch(pass[p], B, top)]
  BY DEF ReadBatch
<1>top. PICK top \in B :
         /\ IsBatch(B, pass[p].cur) /\ \A j \in B : j <= top
         /\ pass' = [pass EXCEPT ![p] = Batch(pass[p], B, top)]
  BY <1>1
<1>2. PICK q : q = Batch(pass[p], B, top)
  OBVIOUS
<1>3. top \in 1..Len(log) /\ B \subseteq 1..Len(log)
  BY <1>1, <1>top DEF Fresh
<1>4. /\ q.phase = "advance" /\ q.cur = top /\ q.run = pass[p].run
      /\ q.batch = Mine(pass[p].run, B)
  <2>1. /\ Batch(pass[p], B, top).phase = "advance"
        /\ Batch(pass[p], B, top).cur = top
        /\ Batch(pass[p], B, top).run = pass[p].run
        /\ Batch(pass[p], B, top).batch = Mine(pass[p].run, B)
    BY Zenon DEF Batch
  <2> QED
    BY <1>2, <2>1
<1>5. q \in Pass
  <2>0. B \subseteq Nat
    BY <1>0, <1>3
  <2>1. Mine(pass[p].run, B) \subseteq Nat
    BY <2>0, Zenon DEF Mine
  <2>2. /\ (Mine(pass[p].run, B) # {}) \in BOOLEAN
        /\ (pass[p].loaded \/ Mine(pass[p].run, B) # {}) \in BOOLEAN
        /\ (Cardinality(B) = BatchSize) \in BOOLEAN
    OBVIOUS
  <2> QED
    BY <1>0, <1>2, <1>3, <2>1, <2>2 DEF Pass, Batch
<1>6. q.run \in Runs /\ q.cur <= Len(log)
  BY <1>0, <1>3, <1>4 DEF Covered
<1>7. q.batch \subseteq OwnEvents(q.run) /\ \A i \in q.batch : i <= q.cur
  BY <1>top, <1>3, <1>4 DEF Mine, OwnEvents, Fresh
<1>8. ASSUME NEW i \in OwnEvents(q.run), i <= q.cur
      PROVE  i \in applied \/ i \in q.batch
  <2>1. CASE i <= pass[p].cur
    BY <1>0, <1>4, <1>8, <2>1 DEF Covered
  <2>2. CASE ~(i <= pass[p].cur)
    <3>1. i \in Fresh(pass[p].cur)
      BY <1>0, <1>8, <2>2 DEF Fresh, OwnEvents, Pass
    <3>2. i \in B
      BY <1>top, <1>3, <1>4, <1>8, <3>1 DEF IsBatch, Fresh
    <3> QED
      BY <1>4, <1>8, <3>2 DEF Mine, OwnEvents
  <2> QED
    BY <2>1, <2>2
<1>9. Covered(q)
  BY <1>4, <1>6, <1>7, <1>8 DEF Covered
<1>10. pass' = [pass EXCEPT ![p] = q]
  BY <1>top, <1>2
<1> QED
  BY <1>0, <1>5, <1>9, <1>10, PassStep

\* The read cursor only passes what has been read.
LEMMA EndBatchKeeps ==
    ASSUME RInv, NEW p \in Passes, EndBatch(p)
    PROVE  RInv'
<1>0. /\ TypeOK /\ CursorOwn /\ BatchesCover
      /\ pass[p] \in Pass /\ Covered(pass[p])
      /\ pass[p].phase = "advance" /\ pass[p].batch = {}
      /\ faults' \in 0..MaxFaults
      /\ UNCHANGED <<status, cursor, broken, log, applied>>
  BY DEF RInv, TypeOK, EndBatch
<1>1. CASE LastBatch(pass[p])
  <2>1. PICK q : q = ToVisit(pass[p].todo)
    OBVIOUS
  <2>2. q \in Pass /\ q.phase = "next" /\ pass' = [pass EXCEPT ![p] = q]
    BY <1>0, <1>1, <2>1, ToVisitTyped DEF EndBatch, Pass
  <2> QED
    BY <1>0, <2>2, FreeCovered, PassStep
<1>2. CASE ~LastBatch(pass[p])
  <2>1. PICK q : q = ToRead(pass[p].todo, pass[p].run, pass[p].loaded,
                            NextCursor(pass[p]))
    OBVIOUS
  <2>2. pass[p].run \in Runs /\ cursor[pass[p].run] \in Nat
    BY <1>0 DEF Covered, TypeOK
  <2>3. /\ NextCursor(pass[p]) \in Nat
        /\ NextCursor(pass[p]) \in {pass[p].cur, cursor[pass[p].run]}
    BY <1>0, <2>2 DEF NextCursor, Pass
  <2>4. /\ q \in Pass /\ q.phase = "read" /\ q.run = pass[p].run
        /\ q.cur = NextCursor(pass[p]) /\ q.batch = {}
    <3>1. pass[p].todo \in SUBSET Runs /\ pass[p].loaded \in BOOLEAN
      BY <1>0 DEF Pass
    <3>2. /\ q.phase = "read" /\ q.run = pass[p].run
          /\ q.cur = NextCursor(pass[p]) /\ q.batch = {}
      BY <2>1, Zenon DEF ToRead
    <3>3. q \in Pass
      BY <2>1, <2>2, <2>3, <3>1 DEF ToRead, Pass
    <3> QED
      BY <3>2, <3>3
  <2>5. q.cur <= Len(log)
    BY <1>0, <2>2, <2>3, <2>4 DEF Covered, CursorOwn, OwnEvents, TypeOK
  <2>6. \A i \in OwnEvents(q.run) : i <= q.cur => i \in applied
    BY <1>0, <2>2, <2>3, <2>4 DEF Covered, BatchesCover
  <2>7. Covered(q)
    BY <2>2, <2>4, <2>5, <2>6 DEF Covered
  <2>8. pass' = [pass EXCEPT ![p] = q]
    BY <1>2, <2>1 DEF EndBatch
  <2> QED
    BY <1>0, <2>4, <2>7, <2>8, PassStep
<1> QED
  BY <1>1, <1>2
-----------------------------------------------------------------------------
(***************************************************************************)
(* The steps that change what the passes have read.                        *)
(***************************************************************************)
\* The event an advance takes is the first of its run not yet processed.
LEMMA AdvanceKeeps ==
    ASSUME RInv, NEW p \in Passes, Advance(p)
    PROVE  RInv'
<1>0. /\ TypeOK /\ CursorOwn /\ BatchesCover
      /\ pass[p] \in Pass /\ Covered(pass[p])
      /\ pass[p].phase = "advance" /\ Len(log) \in Nat
      /\ UNCHANGED <<broken, log, faults>>
  BY DEF RInv, TypeOK, Advance
<1>1. PICK i \in pass[p].batch :
         /\ Takes(p, i) /\ cursor' = [cursor EXCEPT ![pass[p].run] = i]
         /\ \E s \in After(log[i].effect, status[pass[p].run]) :
               status' = [status EXCEPT ![pass[p].run] = s]
         /\ applied' = applied \union {i}
         /\ pass' = [pass EXCEPT ![p].batch = @ \ {i}]
  BY DEF Advance
<1>2. PICK run : run = pass[p].run
  OBVIOUS
<1>3. /\ run \in Runs /\ i \in OwnEvents(run) /\ i \in 1..Len(log)
      /\ pass[p].batch \subseteq OwnEvents(run) /\ pass[p].cur <= Len(log)
  BY <1>0, <1>1, <1>2 DEF Covered, OwnEvents
<1>4. PICK q : q = [pass[p] EXCEPT !.batch = pass[p].batch \ {i}]
  OBVIOUS
<1>5. /\ q \in Pass /\ q.phase = "advance" /\ q.run = run
      /\ q.cur = pass[p].cur /\ q.batch = pass[p].batch \ {i}
  BY <1>0, <1>2, <1>4 DEF Pass
<1>6. pass' = [pass EXCEPT ![p] = q]
  BY <1>0, <1>1, <1>4 DEF TypeOK
<1>7. TypeOK'
  <2>1. cursor' \in [Runs -> Nat]
    BY <1>0, <1>1, <1>2, <1>3 DEF TypeOK
  <2>2. status' \in [Runs -> {"NONE", "ACTIVE", "ENDED"}]
    BY <1>0, <1>1, <1>2, <1>3 DEF TypeOK, After
  <2>3. applied' \subseteq 1..Len(log')
    BY <1>0, <1>1, <1>3 DEF TypeOK
  <2> QED
    BY <1>0, <1>5, <1>6, <2>1, <2>2, <2>3 DEF TypeOK
<1>8. \A r \in Runs : OwnEvents(r)' = OwnEvents(r)
  BY <1>0 DEF OwnEvents, IsTerminal
<1>9. \A r \in Runs : cursor'[r] = IF r = run THEN i ELSE cursor[r]
  BY <1>0, <1>1, <1>2 DEF TypeOK
<1>10. CursorOwn'
  BY <1>0, <1>3, <1>8, <1>9 DEF CursorOwn
<1>11. \A j \in OwnEvents(run) : j <= i => j \in applied'
  <2>1. TAKE j \in OwnEvents(run)
  <2>2. HAVE j <= i
  <2>3. i <= pass[p].cur /\ i \in Nat /\ j \in Nat /\ pass[p].cur \in Nat
    BY <1>0, <1>1, <1>3 DEF Covered, OwnEvents, Pass
  <2>4. j <= pass[p].cur
    BY <2>2, <2>3
  <2>5. j \in applied \/ j \in pass[p].batch
    BY <1>0, <1>2, <2>4 DEF Covered
  <2>6. j \in pass[p].batch => j = i
    BY <1>1, <2>2, <2>3 DEF Takes
  <2> QED
    BY <1>1, <2>5, <2>6
<1>12. BatchesCover'
  BY <1>0, <1>1, <1>8, <1>9, <1>11 DEF BatchesCover
<1>13. Covered(q)'
  BY <1>0, <1>1, <1>2, <1>3, <1>5, <1>8 DEF Covered
<1>14. ASSUME NEW r \in Passes PROVE Covered(pass[r])'
  <2>1. CASE r = p
    <3>1. pass'[r] = q
      BY <1>0, <1>6, <2>1 DEF TypeOK
    <3> QED
      BY <1>13, <3>1 DEF Covered
  <2>2. CASE r # p
    <3>1. PICK o : o = pass[r]
      OBVIOUS
    <3>2. /\ pass'[r] = o /\ o \in Pass /\ Covered(o)
          /\ log' \in Seq([owner : Runs \union {Nobody}, effect : Effects])
          /\ Len(log') >= Len(log) /\ applied \subseteq applied'
          /\ \A j \in 1..Len(log) : log'[j] = log[j]
      BY <1>0, <1>1, <1>6, <2>2, <3>1 DEF TypeOK, RInv
    <3>3. Covered(o)'
      BY <1>0, <3>2, CoveredKept
    <3> QED
      BY <3>2, <3>3 DEF Covered
  <2> QED
    BY <2>1, <2>2
<1> QED
  BY <1>7, <1>10, <1>12, <1>14 DEF RInv

LEMMA LaunchEditKeep ==
    ASSUME RInv, NEW r \in Runs, Launch(r) \/ Edit(r)
    PROVE  RInv'
<1>1. /\ TypeOK /\ CursorOwn /\ BatchesCover
      /\ UNCHANGED <<cursor, log, applied, pass>> /\ MaxFaults \in Nat
  BY ReconcilerAssumption DEF RInv, Launch, Edit
<1>2. TypeOK'
  <2>1. CASE Launch(r)
    BY <1>1, <2>1 DEF TypeOK, Launch
  <2>2. CASE Edit(r)
    <3>1. faults' \in 0..MaxFaults /\ status' = status
      BY <1>1, <2>2 DEF TypeOK, Edit
    <3>2. broken' \in [Runs -> BOOLEAN]
      BY <1>1, <2>2, Zenon DEF TypeOK, Edit
    <3> QED
      BY <1>1, <3>1, <3>2 DEF TypeOK
  <2> QED
    BY <2>1, <2>2
<1>3. CursorOwn' /\ BatchesCover'
  BY <1>1 DEF CursorOwn, BatchesCover, OwnEvents, IsTerminal
<1>4. \A p \in Passes : Covered(pass[p])'
  BY <1>1 DEF RInv, Covered, OwnEvents, IsTerminal
<1> QED
  BY <1>2, <1>3, <1>4 DEF RInv

\* A new event is past every cursor, the stored ones and those of the passes.
LEMMA PostKeeps ==
    ASSUME RInv, NEW o \in Runs \union {Nobody}, Post(o)
    PROVE  RInv'
<1>0. /\ TypeOK /\ CursorOwn /\ BatchesCover /\ Len(log) \in Nat
      /\ UNCHANGED <<status, cursor, broken, applied, pass, faults>>
  BY DEF RInv, TypeOK, Post
<1>1. PICK ev : ev \in [owner : Runs \union {Nobody}, effect : Effects]
                /\ log' = Append(log, ev)
  BY ReconcilerAssumption DEF Post
<1>2. /\ Len(log') = Len(log) + 1 /\ \A i \in 1..Len(log) : log'[i] = log[i]
      /\ log' \in Seq([owner : Runs \union {Nobody}, effect : Effects])
  BY <1>0, <1>1 DEF TypeOK
<1>3. TypeOK'
  BY <1>0, <1>2 DEF TypeOK
<1>4. \A r \in Runs : /\ OwnEvents(r) \subseteq OwnEvents(r)'
                      /\ \A i \in OwnEvents(r)' : i <= Len(log) => i \in OwnEvents(r)
  BY <1>0, <1>2 DEF OwnEvents, IsTerminal
<1>5. CursorOwn'
  BY <1>0, <1>4 DEF CursorOwn
<1>6. BatchesCover'
  <2>1. \A r \in Runs : cursor[r] \in Nat /\ cursor[r] <= Len(log)
    BY <1>0 DEF CursorOwn, OwnEvents, TypeOK
  <2>2. \A r \in Runs : \A i \in OwnEvents(r)' : i \in Nat
    BY DEF OwnEvents
  <2> QED
    BY <1>0, <1>4, <2>1, <2>2 DEF BatchesCover
<1>7. ASSUME NEW p \in Passes PROVE Covered(pass[p])'
  <2>1. PICK q : q = pass[p]
    OBVIOUS
  <2>2. q \in Pass /\ Covered(q) /\ pass'[p] = q /\ applied \subseteq applied'
    BY <1>0, <2>1 DEF RInv, TypeOK
  <2>3. Len(log') >= Len(log)
    BY <1>0, <1>2
  <2>4. Covered(q)'
    BY <1>0, <1>2, <2>2, <2>3, CoveredKept
  <2> QED
    BY <2>2, <2>4 DEF Covered
<1> QED
  BY <1>3, <1>5, <1>6, <1>7 DEF RInv

-----------------------------------------------------------------------------
LEMMA InitKeeps == Init => RInv
<1>1. ASSUME Init PROVE RInv
  <2>1. TypeOK
    BY <1>1, IdleTyped, ReconcilerAssumption DEF Init, TypeOK
  <2>2. CursorOwn /\ BatchesCover
    BY <1>1 DEF Init, CursorOwn, BatchesCover, OwnEvents
  <2>3. \A p \in Passes : Covered(pass[p])
    BY <1>1 DEF Init, Idle, Covered
  <2> QED
    BY <2>1, <2>2, <2>3 DEF RInv
<1> QED
  BY <1>1

LEMMA NextKeeps == RInv /\ [Next]_vars => RInv'
<1> SUFFICES ASSUME RInv, [Next]_vars PROVE RInv'
  OBVIOUS
<1>1. CASE \E p \in Passes : Step(p) \/ Crash(p)
  BY <1>1, BeginPassKeeps, VisitRunKeeps, ReadNothingKeeps, ReadBatchKeeps,
     AdvanceKeeps, EndBatchKeeps, EndingSteps DEF Step
<1>2. CASE \E r \in Runs : Launch(r) \/ Edit(r)
  BY <1>2, LaunchEditKeep
<1>3. CASE \E o \in Runs \union {Nobody} : Post(o)
  BY <1>3, PostKeeps
<1>4. CASE UNCHANGED vars
  <2>1. /\ TypeOK /\ CursorOwn /\ BatchesCover
        /\ UNCHANGED <<status, cursor, broken, log, applied, pass, faults>>
    BY <1>4 DEF RInv, vars
  <2>2. TypeOK'
    BY <2>1 DEF TypeOK
  <2>3. CursorOwn' /\ BatchesCover'
    BY <2>1 DEF CursorOwn, BatchesCover, OwnEvents, IsTerminal
  <2>4. \A p \in Passes : Covered(pass[p])'
    BY <2>1 DEF RInv, Covered, OwnEvents, IsTerminal
  <2> QED
    BY <2>2, <2>3, <2>4 DEF RInv
<1> QED
  BY <1>1, <1>2, <1>3, <1>4 DEF Next

\* The invariant the argument rests on: besides the two claims below, each pass
\* has processed, or still holds, all it has read of its run.
THEOREM PassesCover == Spec => []RInv
  BY InitKeeps, NextKeeps, PTL DEF Spec

\* The stored cursor of a run only rests on its own events, for any number of
\* runs and passes, any batch size, and passes that die or raise at any step.
THEOREM CursorOwned == Spec => []CursorOwn
<1>1. RInv => CursorOwn
  BY DEF RInv
<1> QED
  BY <1>1, PassesCover, PTL

\* The batch loop passes over no event of a run: every one at or below its
\* stored cursor has been processed.
THEOREM NothingPassedOver == Spec => []BatchesCover
<1>1. RInv => BatchesCover
  BY DEF RInv
<1> QED
  BY <1>1, PassesCover, PTL
=============================================================================
