------------------------------- MODULE Reconciler ------------------------------
(***************************************************************************)
(* A reconcile pass over all active runs (use_cases/reconcile.py,          *)
(* plugin/reconcile.py): every run in turn reads the one event log of the  *)
(* board in bounded batches and picks out its own events.                  *)
(*                                                                         *)
(* What advance_on_completion does with an event is the subject of         *)
(* RunEngine; here it is one step that moves the run's cursor to the event *)
(* and keeps, pauses or ends the run, or raises.  An event's owner is      *)
(* known when the event is read (RunEngine says what follows when not).    *)
(***************************************************************************)
EXTENDS Integers, Sequences, FiniteSets

CONSTANTS Runs,       \* the run ids
          Nobody,     \* the owner of an event whose task no run has created
          Passes,     \* processes that may reconcile
          BatchSize,  \* EVENT_LOG_BATCH_SIZE
          Outcomes,   \* what the events of each owner may do
          MaxLog,     \* bound: the length of the event log
          MaxFaults   \* bound: definitions edited and passes that die

\* "note" is an event of a kind that does not end a task.
Effects == {"note", "go", "end", "raise"}

ASSUME ReconcilerAssumption ==
    /\ Nobody \notin Runs
    /\ BatchSize \in Nat \ {0}
    /\ Outcomes \in [Runs \union {Nobody} -> SUBSET Effects]
    /\ MaxLog \in Nat /\ MaxFaults \in Nat

VARIABLES status,   \* of each run: no row, active or ended
          cursor,   \* last_seen_event_id of each run
          broken,   \* store.load or parse raises for the run's definition
          log,      \* task_events in id order
          applied,  \* the events some advance has been completed for
          pass,     \* the processes
          faults

vars == <<status, cursor, broken, log, applied, pass, faults>>

(***************************************************************************)
(* A pass: the active runs it has still to visit; the run at hand, whether *)
(* its pipeline is loaded, and the local read cursor: all up to it has been *)
(* read; of the last batch, whether it was full, whether it held events of *)
(* the run, and the ones still to process.                                 *)
(***************************************************************************)
Pass == [phase : {"idle", "next", "read", "advance"}, todo : SUBSET Runs,
         run : Runs \union {Nobody}, loaded : BOOLEAN, cur : Nat,
         full : BOOLEAN, owned : BOOLEAN, batch : SUBSET Nat]
Idle == [phase |-> "idle", todo |-> {}, run |-> Nobody, loaded |-> FALSE,
         cur |-> 0, full |-> FALSE, owned |-> FALSE, batch |-> {}]
ToVisit(todo) ==
    [phase |-> "next", todo |-> todo, run |-> Nobody, loaded |-> FALSE,
     cur |-> 0, full |-> FALSE, owned |-> FALSE, batch |-> {}]
ToRead(todo, run, loaded, c) ==
    [phase |-> "read", todo |-> todo, run |-> run, loaded |-> loaded,
     cur |-> c, full |-> FALSE, owned |-> FALSE, batch |-> {}]

Init ==
    /\ status = [r \in Runs |-> "NONE"]
    /\ cursor = [r \in Runs |-> 0]
    /\ broken = [r \in Runs |-> FALSE]
    /\ log = << >>
    /\ applied = {}
    /\ pass = [p \in Passes |-> Idle]
    /\ faults = 0

-----------------------------------------------------------------------------
IsTerminal(i) == log[i].effect # "note"

\* The terminal events past a cursor.
Fresh(c) == {i \in 1..Len(log) : i > c /\ IsTerminal(i)}

\* Mutant: the limit counts the rows of every kind.
IsBatchOfRows(B, c) ==
    B = {i \in Fresh(c) : Cardinality({j \in 1..i : j > c}) <= BatchSize}

\* read_since: the first BatchSize of them in id order.
IsBatch(B, c) ==
    /\ \A i \in B : \A j \in Fresh(c) : j < i => j \in B
    /\ Cardinality(B) <= BatchSize
    /\ B = Fresh(c) \/ Cardinality(B) = BatchSize

\* Mutant: no filter by owner.
MineAny(r, B) == B

\* The events of a batch whose task belongs to the run.
Mine(r, B) == {i \in B : log[i].owner = r}

BeginPass(p) ==
    /\ pass[p].phase = "idle"
    /\ LET active == {r \in Runs : status[r] = "ACTIVE"}
       IN  /\ active # {}
           /\ pass' = [pass EXCEPT ![p] = ToVisit(active)]
    /\ UNCHANGED <<status, cursor, broken, log, applied, faults>>

\* The run is read again; active_runs states no order.
VisitRun(p) ==
    /\ pass[p].phase = "next"
    /\ \E r \in pass[p].todo :
         LET left == pass[p].todo \ {r}
         IN  pass' = [pass EXCEPT ![p] =
                IF status[r] = "ACTIVE" THEN ToRead(left, r, FALSE, cursor[r])
                ELSE ToVisit(left)]
    /\ UNCHANGED <<status, cursor, broken, log, applied, faults>>

EndPass(p) ==
    /\ pass[p].phase = "next" /\ pass[p].todo = {}
    /\ pass' = [pass EXCEPT ![p] = Idle]
    /\ UNCHANGED <<status, cursor, broken, log, applied, faults>>

\* The log holds nothing past the read cursor.
ReadNothing(p) ==
    /\ pass[p].phase = "read" /\ Fresh(pass[p].cur) = {}
    /\ pass' = [pass EXCEPT ![p] = ToVisit(pass[p].todo)]
    /\ UNCHANGED <<status, cursor, broken, log, applied, faults>>

\* The batch B of which q processes its own events, read up to top.
Batch(q, B, top) ==
    LET own == Mine(q.run, B)
    IN  [phase |-> "advance", todo |-> q.todo, run |-> q.run,
         loaded |-> q.loaded \/ own # {}, cur |-> top,
         full |-> Cardinality(B) = BatchSize, owned |-> own # {},
         batch |-> own]

Loadable(q, own) == own = {} \/ q.loaded \/ ~broken[q.run]

\* One batch, and the pipeline with the first that holds an owned event.
ReadBatch(p) ==
    LET q == pass[p]
    IN  /\ q.phase = "read"
        /\ \E B \in SUBSET Fresh(q.cur) : \E top \in B :
             /\ IsBatch(B, q.cur) /\ \A j \in B : j <= top
             /\ Loadable(q, Mine(q.run, B))
             /\ pass' = [pass EXCEPT ![p] = Batch(q, B, top)]
        /\ UNCHANGED <<status, cursor, broken, log, applied, faults>>

\* store.load or parse raises, which ends the pass for all runs.
LoadRaises(p) ==
    LET q == pass[p]
    IN  /\ q.phase = "read"
        /\ \E B \in SUBSET Fresh(q.cur) :
             IsBatch(B, q.cur) /\ ~Loadable(q, Mine(q.run, B))
        /\ pass' = [pass EXCEPT ![p] = Idle]
        /\ UNCHANGED <<status, cursor, broken, log, applied, faults>>

\* Mutant: the newest event of the batch first.
TakesNewest(p, i) == i \in pass[p].batch /\ \A j \in pass[p].batch : i >= j

Takes(p, i) == i \in pass[p].batch /\ \A j \in pass[p].batch : i <= j

\* An event that does not end the run keeps its status, or pauses it at a human:
\* then even a run that has ended is active again.
After(effect, s) == IF effect = "end" THEN {"ENDED"} ELSE {s, "ACTIVE"}

\* advance_fn: whatever the run's status has become.
Advance(p) ==
    /\ pass[p].phase = "advance"
    /\ \E i \in pass[p].batch :
         /\ Takes(p, i) /\ log[i].effect # "raise"
         /\ cursor' = [cursor EXCEPT ![pass[p].run] = i]
         /\ \E s \in After(log[i].effect, status[pass[p].run]) :
               status' = [status EXCEPT ![pass[p].run] = s]
         /\ applied' = applied \union {i}
         /\ pass' = [pass EXCEPT ![p].batch = @ \ {i}]
    /\ UNCHANGED <<broken, log, faults>>

\* An exception of advance_fn ends the pass for all runs; the hook swallows it.
Raises(p) ==
    /\ pass[p].phase = "advance"
    /\ \E i \in pass[p].batch : Takes(p, i) /\ log[i].effect = "raise"
    /\ pass' = [pass EXCEPT ![p] = Idle]
    /\ UNCHANGED <<status, cursor, broken, log, applied, faults>>

\* Mutants of LastBatch: a batch without an owned event is the last.  Of
\* NextCursor: the stored cursor is used alone; one event is passed over.
LastBatchForeign(q) == ~q.full \/ ~q.owned
NextCursorStored(q) == cursor[q.run]
NextCursorBeyond(q) == q.cur + 1

LastBatch(q) == ~q.full

\* The local cursor passes the batch, whoever owns it.
NextCursor(q) == IF q.owned /\ cursor[q.run] > q.cur THEN cursor[q.run]
                 ELSE q.cur

EndBatch(p) ==
    /\ pass[p].phase = "advance" /\ pass[p].batch = {}
    /\ LET q == pass[p]
       IN  pass' = [pass EXCEPT ![p] =
              IF LastBatch(q) THEN ToVisit(q.todo)
              ELSE ToRead(q.todo, q.run, q.loaded, NextCursor(q))]
    /\ UNCHANGED <<status, cursor, broken, log, applied, faults>>

Crash(p) ==
    /\ pass[p].phase # "idle" /\ faults < MaxFaults
    /\ faults' = faults + 1
    /\ pass' = [pass EXCEPT ![p] = Idle]
    /\ UNCHANGED <<status, cursor, broken, log, applied>>

-----------------------------------------------------------------------------
(***************************************************************************)
(* The others.  launch_run takes the definition from the repository its    *)
(* caller names, a pass always from the default one, so the pass may not   *)
(* find it; and any edit may break or repair it later.                     *)
(***************************************************************************)
Launch(r) ==
    /\ status[r] = "NONE"
    /\ status' = [status EXCEPT ![r] = "ACTIVE"]
    /\ \E b \in BOOLEAN : broken' = [broken EXCEPT ![r] = b]
    /\ UNCHANGED <<cursor, log, applied, pass, faults>>

Edit(r) ==
    /\ faults < MaxFaults
    /\ faults' = faults + 1
    /\ broken' = [broken EXCEPT ![r] = ~@]
    /\ UNCHANGED <<status, cursor, log, applied, pass>>

\* The board logs an event of a task of r, or of nobody's.
Post(o) ==
    /\ Len(log) < MaxLog
    /\ o \in Runs => status[o] # "NONE"
    /\ \E e \in Outcomes[o] : log' = Append(log, [owner |-> o, effect |-> e])
    /\ UNCHANGED <<status, cursor, broken, applied, pass, faults>>

Step(p) == \/ BeginPass(p) \/ VisitRun(p) \/ EndPass(p)
           \/ ReadNothing(p) \/ ReadBatch(p) \/ LoadRaises(p)
           \/ Advance(p) \/ Raises(p) \/ EndBatch(p)

Next ==
    \/ \E p \in Passes : Step(p) \/ Crash(p)
    \/ \E r \in Runs : Launch(r) \/ Edit(r)
    \/ \E o \in Runs \union {Nobody} : Post(o)

\* The hooks start a pass again and again, and a pass that has begun goes on.
Spec == Init /\ [][Next]_vars /\ \A p \in Passes : WF_vars(Step(p))

-----------------------------------------------------------------------------
TypeOK ==
    /\ status \in [Runs -> {"NONE", "ACTIVE", "ENDED"}]
    /\ cursor \in [Runs -> Nat]
    /\ broken \in [Runs -> BOOLEAN]
    /\ log \in Seq([owner : Runs \union {Nobody}, effect : Effects])
    /\ applied \subseteq 1..Len(log)
    /\ pass \in [Passes -> Pass]
    /\ faults \in 0..MaxFaults

OwnEvents(r) == {i \in 1..Len(log) : log[i].owner = r /\ IsTerminal(i)}

\* The stored cursor of a run rests on events of that run only, whatever else
\* the batches it read contained (reconcile.py, zym.41: "run A's stored cursor
\* only moves on run A's events").
CursorOwn == \A r \in Runs : cursor[r] = 0 \/ cursor[r] \in OwnEvents(r)

\* Every event of a run at or below its stored cursor has been processed, for
\* any number of batches, foreign events and concurrent passes.
BatchesCover ==
    \A r \in Runs : \A i \in OwnEvents(r) : i <= cursor[r] => i \in applied

\* A pass has processed, or still holds, whatever it has read of its run.
Covered(q) ==
    q.phase \in {"read", "advance"} =>
        /\ q.run \in Runs /\ q.cur <= Len(log)
        /\ q.batch \subseteq OwnEvents(q.run)
        /\ \A i \in q.batch : i <= q.cur
        /\ \A i \in OwnEvents(q.run) :
              i <= q.cur => i \in applied \/ (q.phase = "advance" /\ i \in q.batch)

\* The inductive invariant of any number of passes.
RInv == /\ TypeOK /\ CursorOwn /\ BatchesCover
        /\ \A p \in Passes : Covered(pass[p])

\* A pass comes to an end, also over batches that hold nothing for the run
\* (reconcile.py, zym.48: no infinite loop).
PassEnds == \A p \in Passes : pass[p].phase # "idle" ~> pass[p].phase = "idle"

\* Events of an active run that some pass will choke on.
Pending(r) == {i \in OwnEvents(r) : i > cursor[r]}
Obstructs(r) == /\ status[r] = "ACTIVE" /\ Pending(r) # {}
                /\ broken[r] \/ \E i \in Pending(r) : log[i].effect = "raise"

\* What an active run has not processed is processed in the end, unless the run
\* ends before, or an active run, this one or any other, makes the passes fail.
Waits(r) == status[r] = "ACTIVE" /\ ~(OwnEvents(r) \subseteq applied)
Served ==
    \A r \in Runs : Waits(r) ~> (~Waits(r) \/ \E q \in Runs : Obstructs(q))
=============================================================================
