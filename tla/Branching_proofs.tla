---------------------------- MODULE Branching_proofs ---------------------------
(***************************************************************************)
(* Forks, joins and the loops of gates: one reconciler that nothing        *)
(* interrupts, on any structured pipeline.                                 *)
(*                                                                         *)
(* A run is a set of tokens that move through the graph.  A token stands   *)
(* at the newest card of a node as long as the events of that card have    *)
(* not been decided on; there is one on the main thread, or at most one on *)
(* each branch of one join.  What was visited is what lies behind.         *)
(***************************************************************************)
EXTENDS Sequential_proofs

\* Some levels and threads that structure the pipeline, and show that its loops are
\* not nested if they are not.
Height == CHOOSE level \in [Nodes -> Nat] :
              /\ \E thread \in [Nodes -> Nodes] : Layered(level, thread)
              /\ Unnested => \A g \in Gates : OnceOnly(level, RetryTarget[g])
Thread == CHOOSE thread \in [Nodes -> Nodes] : Layered(Height, thread)

Main(n) == Thread[n] = Start
Inside(g, n) == Within(Height, g, n)
Once(n) == OnceOnly(Height, n)

\* m and n lie on different branches of one join.
Apart(m, n) ==
    /\ Thread[m] # Thread[n]
    /\ \E j \in Nodes : /\ Shape[j] = "FAN_IN"
                        /\ Thread[m] \in Predecessors(j)
                        /\ Thread[n] \in Predecessors(j)

(***************************************************************************)
(* Where a run may be: c counts the cards of each node, T are the nodes    *)
(* where a token stands, f is the number of gate failures decided on.      *)
(***************************************************************************)
\* Several tokens are on branches of one join.
Spread(T) == \A m, n \in T : m # n => Apart(m, n)

Standing(c, T) == \A m \in T : c[m] >= 1

\* What no gate leads back to has been visited only if it is behind the token.
Behind(c, T) ==
    \A m \in T, n \in Nodes :
        Once(n) /\ c[n] > 0 /\ ~Apart(m, n) => Height[n] <= Height[m]

BranchOnce(c) == \A n \in Nodes : ~Main(n) => c[n] <= 1

\* A gate and its target have been visited equally often, or the target once more
\* if a token is in the loop.
Rounds(c, T) ==
    \A g \in Gates :
        /\ c[g] <= c[RetryTarget[g]]
        /\ T # {} => c[RetryTarget[g]] = IF \E m \in T : Inside(g, m)
                                         THEN c[g] + 1 ELSE c[g]

\* Each visit beyond the first was paid for by a failure, and for what is ahead of
\* a token there is one to spare.
Paid(c, T, f) ==
    \A n \in Nodes :
        /\ c[n] <= f + 1
        /\ \A m \in T : Height[m] < Height[n] /\ ~Apart(m, n) => c[n] <= f

\* A loop that no other contains is entered once, and each further round is a retry.
WithinLimits(c) ==
    \A g \in Gates : Once(RetryTarget[g]) => c[RetryTarget[g]] <= GateLimit[g]

\* A join that is still to come will be reached: each of its branches has a
\* token or has come to its end, if any was begun.
JoinAhead(c, T) ==
    WaysOn => \A j \in Nodes :
        /\ Shape[j] = "FAN_IN" /\ c[j] = 0
        /\ \E n \in Nodes : Thread[n] \in Predecessors(j) /\ c[n] > 0
        => \A t \in Predecessors(j) : c[t] >= 1 \/ \E m \in T : Thread[m] = t

Flow(c, T, f) ==
    /\ Spread(T) /\ Standing(c, T) /\ Behind(c, T) /\ BranchOnce(c)
    /\ Rounds(c, T) /\ Paid(c, T, f) /\ WithinLimits(c) /\ JoinAhead(c, T)

-----------------------------------------------------------------------------
(***************************************************************************)
(* The graph.                                                              *)
(***************************************************************************)
LEMMA Layers ==
    ASSUME Structured
    PROVE  /\ Height \in [Nodes -> Nat] /\ Thread \in [Nodes -> Nodes]
           /\ Layered(Height, Thread)
           /\ Unnested => \A g \in Gates : Once(RetryTarget[g])
<1>1. \E level \in [Nodes -> Nat] :
         /\ \E thread \in [Nodes -> Nodes] : Layered(level, thread)
         /\ Unnested => \A g \in Gates : OnceOnly(level, RetryTarget[g])
  <2>1. CASE Unnested
    BY <2>1, Zenon DEF Unnested
  <2>2. CASE ~Unnested
    BY <2>2, Zenon DEF Structured
  <2> QED
    BY <2>1, <2>2
<1>2. /\ Height \in [Nodes -> Nat]
      /\ \E thread \in [Nodes -> Nodes] : Layered(Height, thread)
      /\ Unnested => \A g \in Gates : OnceOnly(Height, RetryTarget[g])
  BY <1>1, Zenon DEF Height
<1>3. Thread \in [Nodes -> Nodes] /\ Layered(Height, Thread)
  BY <1>2, Zenon DEF Thread
<1> QED
  BY <1>2, <1>3 DEF Once

\* A step along an edge or through a tool climbs, enters a loop at its target and
\* leaves it through its gate.
Way(m, n) ==
    /\ Height[m] < Height[n]
    /\ \A g \in Gates :
          /\ Inside(g, n) \/ n = g => Inside(g, m) \/ n = RetryTarget[g]
          /\ Inside(g, m) => Inside(g, n) \/ n = g

Along(m, n) == Way(m, n) /\ Thread[n] = Thread[m]

Joins(m, n) == /\ Way(m, n) /\ Shape[n] = "FAN_IN" /\ Main(n)
               /\ Thread[m] = m /\ m \in Predecessors(n)

LEMMA EdgeEnds ==
    ASSUME NEW e \in Edges PROVE e.src \in Nodes /\ e.dst \in Nodes
  BY PipelineAssumption DEF Edge

LEMMA EdgeWay ==
    ASSUME Structured, NEW e \in Edges, Shape[e.dst] # "EXIT"
    PROVE  Way(e.src, e.dst)
<1>1. Height[e.src] < Height[e.dst]
  BY Layers DEF Layered, Ascending
<1>2. ASSUME NEW g \in Gates
      PROVE  /\ Inside(g, e.dst) \/ e.dst = g =>
                    Inside(g, e.src) \/ e.dst = RetryTarget[g]
             /\ Inside(g, e.src) => Inside(g, e.dst) \/ e.dst = g
  BY Layers DEF Layered, Looped, Inside
<1> QED
  BY <1>1, <1>2 DEF Way

LEMMA EdgeAlong ==
    ASSUME Structured, NEW e \in Edges, Shape[e.src] # "FAN_OUT",
           Shape[e.dst] \notin {"EXIT", "FAN_IN"}
    PROVE  Along(e.src, e.dst)
<1>1. Thread[e.dst] = Thread[e.src]
  BY Layers DEF Layered, Threaded
<1> QED
  BY <1>1, EdgeWay DEF Along

LEMMA EdgeJoins ==
    ASSUME Structured, NEW e \in Edges, Shape[e.dst] = "FAN_IN"
    PROVE  Joins(e.src, e.dst) /\ ~Main(e.src) /\ Shape[e.src] # "FAN_OUT"
<1>1. /\ Thread[e.dst] = Start /\ Thread[e.src] = e.src /\ e.src # Start
      /\ Shape[e.src] # "FAN_OUT"
  BY Layers DEF Layered, Threaded
<1>2. e.src \in Predecessors(e.dst)
  BY DEF Predecessors
<1> QED
  BY <1>1, <1>2, EdgeWay DEF Joins, Main

\* Through a tool that runs inline.
LEMMA ToolAlong ==
    ASSUME Structured, NEW d \in Edges, NEW e \in Edges,
           Shape[d.src] # "FAN_OUT", Shape[d.dst] = "TOOL", e.src = d.dst,
           Shape[e.dst] # "EXIT"
    PROVE  Along(d.src, e.dst)
<1>1. Shape[e.dst] \in CardShapes
  BY DEF Structured
<1>2. Along(d.src, d.dst) /\ Along(d.dst, e.dst)
  BY <1>1, EdgeAlong DEF CardShapes
<1>3. d.src \in Nodes /\ d.dst \in Nodes /\ e.dst \in Nodes
  BY EdgeEnds
<1>4. Height[d.src] < Height[e.dst]
  BY <1>2, <1>3, Layers DEF Along, Way
<1>5. ASSUME NEW g \in Gates
      PROVE  /\ Inside(g, e.dst) \/ e.dst = g =>
                    Inside(g, d.src) \/ e.dst = RetryTarget[g]
             /\ Inside(g, d.src) => Inside(g, e.dst) \/ e.dst = g
  <2>1. d.dst # g /\ d.dst # RetryTarget[g]
    BY Layers DEF Layered, Looped
  <2> QED
    BY <1>2, <2>1 DEF Along, Way
<1> QED
  BY <1>2, <1>4, <1>5 DEF Along, Way

\* Only the main thread leads to an exit, directly or through a tool.
LEMMA ExitMain ==
    ASSUME Structured, NEW e \in Edges, Shape[e.dst] = "EXIT"
    PROVE  /\ Main(e.src)
           /\ \A d \in Edges : /\ d.dst = e.src /\ Shape[d.dst] = "TOOL"
                               /\ Shape[d.src] # "FAN_OUT"
                               => Main(d.src)
<1>1. Thread[e.src] = Start
  BY Layers DEF Layered, Threaded
<1>2. ASSUME NEW d \in Edges, d.dst = e.src, Shape[d.dst] = "TOOL",
             Shape[d.src] # "FAN_OUT"
      PROVE  Thread[d.src] = Start
  <2>1. Along(d.src, d.dst)
    BY <1>2, EdgeAlong
  <2> QED
    BY <1>1, <1>2, <2>1 DEF Along
<1> QED
  BY <1>1, <1>2 DEF Main

\* The last nodes of branches lead to one join each.
LEMMA OneJoin ==
    ASSUME Structured, NEW i \in Nodes, NEW j \in Nodes,
           Shape[i] = "FAN_IN", Shape[j] = "FAN_IN",
           NEW t \in Predecessors(i), t \in Predecessors(j)
    PROVE  i = j
<1>1. PICK e \in Edges : e.dst = i /\ e.src = t
  BY DEF Predecessors
<1>2. e.dst = j
  BY <1>1, Layers DEF Layered, Joined
<1> QED
  BY <1>1, <1>2

\* The last node of a branch.
LEMMA Tails ==
    ASSUME Structured, NEW j \in Nodes, Shape[j] = "FAN_IN", NEW t \in Predecessors(j)
    PROVE  /\ t \in Nodes /\ t # Start /\ Thread[t] = t
           /\ \A n \in Nodes : Thread[n] = t => Height[n] <= Height[t]
           /\ Height[t] < Height[j]
<1>1. PICK e \in Edges : e.dst = j /\ e.src = t
  BY DEF Predecessors
<1>2. Joins(t, j) /\ ~Main(t) /\ t \in Nodes
  BY <1>1, EdgeJoins, EdgeEnds
<1>3. ASSUME NEW n \in Nodes, Thread[n] = t PROVE Height[n] <= Height[t]
  <2>1. t # Start
    BY <1>2 DEF Joins, Main
  <2>2. n # t => Height[n] < Height[t]
    BY <1>3, <2>1, Layers DEF Layered, Threaded
  <2> QED
    BY <1>2, <2>2, Layers
<1> QED
  BY <1>2, <1>3 DEF Joins, Main, Way

\* Nodes apart are on branches, and symmetrically so.
LEMMA ApartFacts ==
    ASSUME Structured, NEW m \in Nodes, NEW n \in Nodes, Apart(m, n)
    PROVE  ~Main(m) /\ ~Main(n) /\ Apart(n, m)
<1>1. PICK j \in Nodes : /\ Shape[j] = "FAN_IN"
                         /\ Thread[m] \in Predecessors(j)
                         /\ Thread[n] \in Predecessors(j)
  BY DEF Apart
<1>2. Thread[m] # Start /\ Thread[n] # Start
  BY <1>1, Tails
<1> QED
  BY <1>2 DEF Apart, Main

\* Branches are in no loop.
LEMMA BranchOutside ==
    ASSUME Structured, NEW n \in Nodes, ~Main(n)
    PROVE  /\ Once(n)
           /\ \A g \in Gates : ~Inside(g, n) /\ n # g /\ n # RetryTarget[g]
<1>1. ASSUME NEW g \in Gates
      PROVE  /\ ~Inside(g, n) /\ n # g /\ n # RetryTarget[g]
             /\ ~(Height[RetryTarget[g]] < Height[n] /\ Height[n] <= Height[g])
  <2>1. /\ ~Within(Height, g, n) /\ Height[n] # Height[g]
        /\ Thread[g] = Start /\ Thread[RetryTarget[g]] = Start
    BY Layers DEF Layered, Looped, Main
  <2>2. g \in Nodes /\ RetryTarget[g] \in Nodes
    BY GateAssumption
  <2>3. Height[g] \in Nat /\ Height[n] \in Nat /\ Height[RetryTarget[g]] \in Nat
    BY <2>2, Layers
  <2> QED
    BY <2>1, <2>3 DEF Inside, Within, Main
<1> QED
  BY <1>1 DEF Once, OnceOnly

-----------------------------------------------------------------------------
(***************************************************************************)
(* How a token may move: it disappears, goes to one next node, leaves for  *)
(* the branches of a fork, or back to the target of a gate.                *)
(***************************************************************************)
Visit(c, N) == [n \in Nodes |-> IF n \in N THEN c[n] + 1 ELSE c[n]]

LEMMA VisitTyped ==
    ASSUME NEW c \in [Nodes -> Nat], NEW N
    PROVE  /\ Visit(c, N) \in [Nodes -> Nat]
           /\ \A n \in Nodes : /\ n \in N => Visit(c, N)[n] = c[n] + 1
                               /\ n \notin N => Visit(c, N)[n] = c[n]
                               /\ c[n] \in Nat
  BY DEF Visit

LEMMA MainAlone ==
    ASSUME Structured, NEW T \in SUBSET Nodes, Spread(T), NEW m \in T, Main(m)
    PROVE  T = {m}
  BY ApartFacts DEF Spread

LEMMA FlowDrop ==
    ASSUME Structured, NEW c \in [Nodes -> Nat], NEW T \in SUBSET Nodes,
           NEW f \in Nat, Flow(c, T, f), NEW m \in T, NEW f2 \in Nat, f2 >= f,
           WaysOn => Main(m) \/ Thread[m] = m
    PROVE  Flow(c, T \ {m}, f2)
<1> DEFINE U == T \ {m}
<1>1. \A n \in Nodes : c[n] \in Nat
  OBVIOUS
<1>2. Spread(U) /\ Standing(c, U) /\ Behind(c, U) /\ BranchOnce(c) /\ WithinLimits(c)
  BY DEF Flow, Spread, Standing, Behind
<1>3. Rounds(c, U)
  <2> SUFFICES ASSUME NEW g \in Gates
               PROVE  /\ c[g] <= c[RetryTarget[g]]
                      /\ U # {} => c[RetryTarget[g]] = IF \E n \in U : Inside(g, n)
                                                       THEN c[g] + 1 ELSE c[g]
    BY DEF Rounds
  <2>1. /\ c[g] <= c[RetryTarget[g]]
        /\ c[RetryTarget[g]] = IF \E n \in T : Inside(g, n) THEN c[g] + 1 ELSE c[g]
    BY DEF Flow, Rounds
  <2>2. ASSUME U # {} PROVE ~Inside(g, m)
    <3>1. T # {m}
      BY <2>2
    <3>2. ~Main(m)
      BY <3>1, MainAlone DEF Flow
    <3> QED
      BY <3>2, BranchOutside
  <2>3. U # {} => ((\E n \in U : Inside(g, n)) <=> \E n \in T : Inside(g, n))
    BY <2>2
  <2> QED
    BY <2>1, <2>3
<1>4. Paid(c, U, f2)
  <2> SUFFICES ASSUME NEW n \in Nodes
               PROVE  /\ c[n] <= f2 + 1
                      /\ \A k \in U : Height[k] < Height[n] /\ ~Apart(k, n) => c[n] <= f2
    BY DEF Paid
  <2>1. c[n] <= f + 1 /\ c[n] \in Nat
    BY DEF Flow, Paid
  <2>2. ASSUME NEW k \in U, Height[k] < Height[n], ~Apart(k, n) PROVE c[n] <= f
    BY <2>2 DEF Flow, Paid
  <2> QED
    BY <2>1, <2>2
<1>5. JoinAhead(c, U)
  <2> SUFFICES ASSUME WaysOn, NEW j \in Nodes, Shape[j] = "FAN_IN", c[j] = 0,
                      \E n \in Nodes : Thread[n] \in Predecessors(j) /\ c[n] > 0,
                      NEW t \in Predecessors(j)
               PROVE  c[t] >= 1 \/ \E n \in U : Thread[n] = t
    BY DEF JoinAhead
  <2>1. c[t] >= 1 \/ \E n \in T : Thread[n] = t
    BY DEF Flow, JoinAhead
  <2>2. ASSUME Thread[m] = t PROVE c[t] >= 1
    <3>1. t # Start /\ Thread[m] = m
      BY <2>2, Tails DEF Main
    <3> QED
      BY <2>2, <3>1 DEF Flow, Standing
  <2> QED
    BY <2>1, <2>2
<1> QED
  BY <1>2, <1>3, <1>4, <1>5 DEF Flow

\* What lies ahead on a branch, or ahead of the main thread outside of all loops,
\* has not been visited.
LEMMA AheadFresh ==
    ASSUME Structured, NEW c \in [Nodes -> Nat], NEW T \in SUBSET Nodes,
           Behind(c, T), NEW m \in T, NEW n \in Nodes, Once(n),
           Height[m] < Height[n], ~Apart(m, n)
    PROVE  c[n] = 0
<1>1. c[n] > 0 => Height[n] <= Height[m]
  BY DEF Behind
<1>2. Height[m] \in Nat /\ Height[n] \in Nat /\ c[n] \in Nat
  BY Layers
<1> QED
  BY <1>1, <1>2

\* How a token that goes on changes the count of rounds.
LEMMA RoundsGo ==
    ASSUME Structured, NEW c \in [Nodes -> Nat], NEW T \in SUBSET Nodes,
           NEW m \in T, NEW n \in Nodes, Way(m, n), Rounds(c, T),
           Main(m) \/ Main(n) => T = {m}
    PROVE  Rounds(Visit(c, {n}), (T \ {m}) \union {n})
<1> DEFINE d == Visit(c, {n})
           U == (T \ {m}) \union {n}
<1> SUFFICES ASSUME NEW g \in Gates
             PROVE  /\ d[g] <= d[RetryTarget[g]]
                    /\ d[RetryTarget[g]] = IF \E k \in U : Inside(g, k)
                                           THEN d[g] + 1 ELSE d[g]
  BY DEF Rounds
<1>1. PICK r \in Nodes : r = RetryTarget[g]
  BY GateAssumption
<1>2. g \in Nodes /\ c[g] \in Nat /\ c[r] \in Nat
  BY GateAssumption
<1>3. c[r] = IF \E k \in T : Inside(g, k) THEN c[g] + 1 ELSE c[g]
  BY <1>1 DEF Rounds
<1>4. \A k \in Nodes : d[k] = IF k = n THEN c[k] + 1 ELSE c[k]
  BY DEF Visit
<1>5. CASE ~Main(m) /\ ~Main(n)
  <2>1. ~Inside(g, m) /\ ~Inside(g, n) /\ n # g /\ n # r
    BY <1>1, <1>5, BranchOutside
  <2> QED
    BY <1>1, <1>2, <1>3, <1>4, <2>1
<1>6. CASE T = {m}
  <2>1. U = {n}
    BY <1>6
  <2>2. /\ Inside(g, n) \/ n = g => Inside(g, m) \/ n = r
        /\ Inside(g, m) => Inside(g, n) \/ n = g
    BY <1>1 DEF Way
  <2>3. /\ Height[r] = Height[g] => r = g
        /\ Height[r] <= Height[g] /\ Height[m] < Height[n]
        /\ Height[r] \in Nat /\ Height[g] \in Nat /\ Height[m] \in Nat
        /\ Height[n] \in Nat
    BY <1>1, <1>2, Layers DEF Layered, Looped, Way
  <2>4. \A k : Inside(g, k) <=> Height[r] <= Height[k] /\ Height[k] < Height[g]
    BY <1>1 DEF Inside, Within
  <2>5. CASE r = g
    BY <1>1, <1>2, <1>3, <1>4, <1>6, <2>1, <2>3, <2>4, <2>5
  <2>6. CASE r # g /\ n = r
    <3>1. ~Inside(g, m) /\ Inside(g, n)
      BY <2>3, <2>4, <2>6
    <3> QED
      BY <1>1, <1>2, <1>3, <1>4, <1>6, <2>1, <2>6, <3>1
  <2>7. CASE r # g /\ n = g
    <3>1. Inside(g, m) /\ ~Inside(g, n)
      BY <2>2, <2>3, <2>4, <2>7
    <3> QED
      BY <1>1, <1>2, <1>3, <1>4, <1>6, <2>1, <2>7, <3>1
  <2>8. CASE n # r /\ n # g
    <3>1. Inside(g, m) <=> Inside(g, n)
      BY <2>2, <2>8
    <3> QED
      BY <1>1, <1>2, <1>3, <1>4, <1>6, <2>1, <2>8, <3>1
  <2> QED
    BY <2>5, <2>6, <2>7, <2>8
<1> QED
  BY <1>5, <1>6

\* A visit within the limits: not of the target of an outermost loop, or its first.
LEMMA LimitsGo ==
    ASSUME NEW c \in [Nodes -> Nat], NEW N \in SUBSET Nodes, WithinLimits(c),
           \A n \in N : Once(n) => c[n] = 0
    PROVE  WithinLimits(Visit(c, N))
<1> SUFFICES ASSUME NEW g \in Gates, Once(RetryTarget[g])
             PROVE  Visit(c, N)[RetryTarget[g]] <= GateLimit[g]
  BY DEF WithinLimits
<1>1. PICK r \in Nodes : r = RetryTarget[g]
  BY GateAssumption
<1>2. GateLimit[g] \in Nat /\ GateLimit[g] >= 1 /\ c[r] \in Nat
  BY GateAssumption
<1>3. c[r] <= GateLimit[g]
  BY <1>1 DEF WithinLimits
<1>4. r \in N => c[r] = 0
  BY <1>1
<1>5. Visit(c, N)[r] = IF r \in N THEN c[r] + 1 ELSE c[r]
  BY DEF Visit
<1> QED
  BY <1>1, <1>2, <1>3, <1>4, <1>5

\* A token goes on along its thread.
LEMMA FlowAlong ==
    ASSUME Structured, NEW c \in [Nodes -> Nat], NEW T \in SUBSET Nodes,
           NEW f \in Nat, Flow(c, T, f), NEW m \in T, NEW f2 \in Nat, f2 >= f,
           NEW n \in Nodes, Along(m, n)
    PROVE  Flow(Visit(c, {n}), (T \ {m}) \union {n}, f2)
<1> DEFINE d == Visit(c, {n})
           U == (T \ {m}) \union {n}
<1>1. /\ Thread[n] = Thread[m] /\ Height[m] < Height[n] /\ Way(m, n)
      /\ \A k \in Nodes : Height[k] \in Nat
  BY Layers DEF Along, Way
<1>2. \A k \in Nodes : /\ Apart(n, k) <=> Apart(m, k)
                       /\ Apart(k, n) <=> Apart(k, m)
  BY <1>1 DEF Apart
<1>3. \A k \in Nodes : c[k] \in Nat /\ d[k] = IF k = n THEN c[k] + 1 ELSE c[k]
  BY DEF Visit
<1>4. ~Apart(m, n) /\ ~Apart(n, n)
  BY <1>1 DEF Apart
<1>5. \A k \in T : k # m => Apart(m, k) /\ Apart(k, m) /\ Apart(n, k) /\ Apart(k, n)
  BY <1>2 DEF Flow, Spread
<1>6. Main(m) \/ Main(n) => T = {m}
  BY <1>1, MainAlone DEF Flow, Main
<1> HIDE DEF d, U
<1>7. \A k : k \in U <=> k = n \/ (k \in T /\ k # m)
  BY DEF U
<1>8. Spread(U)
  BY <1>5, <1>7 DEF Spread, Flow
<1>9. Standing(d, U)
  <2> SUFFICES ASSUME NEW k \in U PROVE d[k] >= 1
    BY DEF Standing
  <2>1. k \in T => c[k] >= 1
    BY DEF Flow, Standing
  <2> QED
    BY <1>3, <1>7, <2>1
<1>10. Behind(d, U)
  <2> SUFFICES ASSUME NEW k \in U, NEW l \in Nodes, Once(l), d[l] > 0, ~Apart(k, l)
               PROVE  Height[l] <= Height[k]
    BY DEF Behind
  <2>0. k \in Nodes
    BY <1>7
  <2>1. \A h \in T : c[l] > 0 /\ ~Apart(h, l) => Height[l] <= Height[h]
    BY DEF Flow, Behind
  <2>2. CASE k = n
    <3>1. l = n \/ (c[l] > 0 /\ ~Apart(m, l))
      BY <1>2, <1>3, <2>2
    <3> QED
      BY <1>1, <2>1, <2>2, <3>1
  <2>3. CASE k # n
    <3>1. k \in T /\ Apart(k, n)
      BY <1>5, <1>7, <2>3
    <3>2. l # n
      BY <3>1
    <3> QED
      BY <1>3, <2>1, <3>1, <3>2
  <2> QED
    BY <2>2, <2>3
<1>11. Once(n) => c[n] = 0
  BY <1>1, <1>4, AheadFresh DEF Flow
<1>12. BranchOnce(d)
  <2> SUFFICES ASSUME NEW k \in Nodes, ~Main(k) PROVE d[k] <= 1
    BY DEF BranchOnce
  <2>1. c[k] <= 1 /\ Once(k)
    BY BranchOutside DEF Flow, BranchOnce
  <2> QED
    BY <1>3, <1>11, <2>1
<1>13. Rounds(d, U)
  BY <1>1, <1>6, RoundsGo DEF Flow, d, U
<1>14. Paid(d, U, f2)
  <2> SUFFICES ASSUME NEW k \in Nodes
               PROVE  /\ d[k] <= f2 + 1
                      /\ \A h \in U : Height[h] < Height[k] /\ ~Apart(h, k) => d[k] <= f2
    BY DEF Paid
  <2>1. /\ c[k] <= f + 1
        /\ \A h \in T : Height[h] < Height[k] /\ ~Apart(h, k) => c[k] <= f
    BY DEF Flow, Paid
  <2>2. d[k] <= f2 + 1
    BY <1>1, <1>3, <1>4, <2>1
  <2>3. ASSUME NEW h \in U, Height[h] < Height[k], ~Apart(h, k) PROVE d[k] <= f2
    <3>1. k # n
      BY <1>1, <1>5, <1>7, <2>3
    <3>2. CASE h = n
      <4>1. Height[m] < Height[k] /\ ~Apart(m, k)
        BY <1>1, <1>2, <2>3, <3>2
      <4> QED
        BY <1>3, <2>1, <3>1, <4>1
    <3>3. CASE h # n
      BY <1>3, <1>7, <2>1, <2>3, <3>1, <3>3
    <3> QED
      BY <3>2, <3>3
  <2> QED
    BY <2>2, <2>3
<1>15. WithinLimits(d)
  BY <1>11, LimitsGo DEF Flow, d
<1>16. JoinAhead(d, U)
  <2> SUFFICES ASSUME WaysOn, NEW j \in Nodes, Shape[j] = "FAN_IN", d[j] = 0,
                      NEW k \in Nodes, Thread[k] \in Predecessors(j), d[k] > 0,
                      NEW t \in Predecessors(j)
               PROVE  d[t] >= 1 \/ \E h \in U : Thread[h] = t
    BY DEF JoinAhead
  <2>1. c[j] = 0 /\ t \in Nodes /\ t # Start
    BY <1>3, Tails
  <2>2. \E l \in Nodes : Thread[l] \in Predecessors(j) /\ c[l] > 0
    <3>1. k = n => Thread[m] \in Predecessors(j) /\ c[m] > 0
      BY <1>1 DEF Flow, Standing
    <3> QED
      BY <1>3, <3>1
  <2>3. c[t] >= 1 \/ \E h \in T : Thread[h] = t
    BY <2>1, <2>2 DEF Flow, JoinAhead
  <2> QED
    BY <1>1, <1>3, <1>7, <2>1, <2>3
<1> QED
  BY <1>8, <1>9, <1>10, <1>12, <1>13, <1>14, <1>15, <1>16 DEF Flow, d, U

\* The last token of the branches passes their join.
LEMMA FlowJoin ==
    ASSUME Structured, NEW c \in [Nodes -> Nat], NEW T \in SUBSET Nodes,
           NEW f \in Nat, Flow(c, T, f), NEW m \in Nodes, T = {m},
           NEW f2 \in Nat, f2 >= f, NEW n \in Nodes, Joins(m, n), Once(n)
    PROVE  Flow(Visit(c, {n}), {n}, f2)
<1> DEFINE d == Visit(c, {n})
<1>1. /\ Shape[n] = "FAN_IN" /\ Main(n) /\ Thread[m] = m /\ m \in Predecessors(n)
      /\ Way(m, n) /\ Height[m] < Height[n]
      /\ \A k \in Nodes : Height[k] \in Nat
  BY Layers DEF Joins, Way
<1>2. \A k \in Nodes : c[k] \in Nat /\ d[k] = IF k = n THEN c[k] + 1 ELSE c[k]
  BY DEF Visit
<1>3. \A k \in Nodes : ~Apart(n, k) /\ ~Apart(k, n)
  BY <1>1, ApartFacts
<1>4. \A k \in Nodes : Apart(m, k) => Height[k] < Height[n]
  <2> SUFFICES ASSUME NEW k \in Nodes, Apart(m, k) PROVE Height[k] < Height[n]
    OBVIOUS
  <2>1. PICK j \in Nodes : /\ Shape[j] = "FAN_IN" /\ m \in Predecessors(j)
                           /\ Thread[k] \in Predecessors(j)
    BY <1>1 DEF Apart
  <2>2. j = n
    BY <1>1, <2>1, OneJoin
  <2>3. /\ Thread[k] \in Nodes /\ Height[k] <= Height[Thread[k]]
        /\ Height[Thread[k]] < Height[n]
    BY <1>1, <2>1, <2>2, Tails
  <2> QED
    BY <1>1, <2>3
<1>5. c[n] = 0
  BY <1>1, <1>3, AheadFresh DEF Flow
<1> HIDE DEF d
<1>6. Spread({n}) /\ Standing(d, {n})
  BY <1>2 DEF Spread, Standing
<1>7. Behind(d, {n})
  <2> SUFFICES ASSUME NEW l \in Nodes, Once(l), d[l] > 0
               PROVE  Height[l] <= Height[n]
    BY DEF Behind
  <2>1. c[l] > 0 /\ ~Apart(m, l) => Height[l] <= Height[m]
    BY DEF Flow, Behind
  <2> QED
    BY <1>1, <1>2, <1>4, <2>1
<1>8. BranchOnce(d)
  BY <1>1, <1>2 DEF Flow, BranchOnce
<1>9. Rounds(d, {n})
  <2>1. Rounds(d, (T \ {m}) \union {n})
    BY <1>1, RoundsGo DEF Flow, d
  <2>2. (T \ {m}) \union {n} = {n}
    OBVIOUS
  <2> QED
    BY <2>1, <2>2
<1>10. Paid(d, {n}, f2)
  <2> SUFFICES ASSUME NEW k \in Nodes
               PROVE  d[k] <= f2 + 1 /\ (Height[n] < Height[k] => d[k] <= f2)
    BY DEF Paid
  <2>1. c[k] <= f + 1 /\ (Height[m] < Height[k] /\ ~Apart(m, k) => c[k] <= f)
    BY DEF Flow, Paid
  <2>2. CASE k = n
    BY <1>1, <1>2, <1>5, <2>2
  <2>3. CASE k # n
    <3>1. Height[n] < Height[k] => Height[m] < Height[k] /\ ~Apart(m, k)
      BY <1>1, <1>4
    <3> QED
      BY <1>2, <2>1, <2>3, <3>1
  <2> QED
    BY <2>2, <2>3
<1>11. WithinLimits(d)
  BY <1>5, LimitsGo DEF Flow, d
<1>12. JoinAhead(d, {n})
  <2> SUFFICES ASSUME WaysOn, NEW j \in Nodes, Shape[j] = "FAN_IN", d[j] = 0,
                      NEW k \in Nodes, Thread[k] \in Predecessors(j), d[k] > 0,
                      NEW t \in Predecessors(j)
               PROVE  d[t] >= 1
    BY DEF JoinAhead
  <2>1. c[j] = 0 /\ j # n
    BY <1>2
  <2>2. k # n
    BY <1>1, Tails DEF Main
  <2>3. c[t] >= 1 \/ Thread[m] = t
    BY <1>2, <2>1, <2>2 DEF Flow, JoinAhead
  <2>4. Thread[m] # t
    BY <1>1, <2>1, OneJoin
  <2> QED
    BY <1>2, <2>3, <2>4, Tails
<1> QED
  BY <1>6, <1>7, <1>8, <1>9, <1>10, <1>11, <1>12 DEF Flow, d

\* The heads of the branches of a fork.
HeadsOf(m) == {e.dst : e \in Out(m)}

LEMMA Heads ==
    ASSUME Structured, NEW m \in Nodes, Shape[m] = "FAN_OUT", HeadsOf(m) # {}
    PROVE  /\ Main(m) /\ HeadsOf(m) \subseteq Nodes
           /\ \E j \in Nodes : /\ Shape[j] = "FAN_IN"
                               /\ Predecessors(j) = {Thread[h] : h \in HeadsOf(m)}
           /\ \A h \in HeadsOf(m) :
                 ~Main(h) /\ Way(m, h) /\ Once(h) /\ Shape[h] # "FAN_IN"
           /\ \A h, k \in HeadsOf(m) : h # k => Apart(h, k)
<1>1. \A e \in Out(m) : e \in Edges /\ e.src = m /\ e.dst \in Nodes
  BY EdgeEnds DEF Out
<1>2. \A e \in Out(m) : Shape[e.dst] \notin {"EXIT", "FAN_IN"}
  <2> SUFFICES ASSUME NEW e \in Out(m) PROVE Shape[e.dst] \notin {"EXIT", "FAN_IN"}
    OBVIOUS
  <2>1. Carded(e.dst)
    BY <1>1 DEF Carded
  <2>2. Shape[e.dst] # "EXIT"
    BY <1>1, <2>1 DEF Structured, CardShapes
  <2>3. Shape[e.dst] # "FAN_IN"
    BY <1>1, EdgeJoins
  <2> QED
    BY <2>2, <2>3
<1>3. \A e \in Out(m) : Thread[m] = Start /\ Thread[e.dst] # Start
  BY <1>1, <1>2, Layers DEF Layered, Threaded
<1>4. PICK j \in Nodes : /\ Shape[j] = "FAN_IN"
                         /\ Predecessors(j) = {Thread[e.dst] : e \in Out(m)}
  BY Layers DEF Layered, Joined
<1>5. Predecessors(j) = {Thread[h] : h \in HeadsOf(m)}
  BY <1>4 DEF HeadsOf
<1>6. \A h \in HeadsOf(m) :
         ~Main(h) /\ Way(m, h) /\ Once(h) /\ Shape[h] # "FAN_IN"
  BY <1>1, <1>2, <1>3, EdgeWay, BranchOutside DEF HeadsOf, Main
<1>7. \A h, k \in HeadsOf(m) : h # k => Apart(h, k)
  <2> SUFFICES ASSUME NEW h \in HeadsOf(m), NEW k \in HeadsOf(m), h # k
               PROVE  Apart(h, k)
    OBVIOUS
  <2>1. Thread[h] # Thread[k]
    BY Layers DEF Layered, Joined, HeadsOf
  <2>2. Thread[h] \in Predecessors(j) /\ Thread[k] \in Predecessors(j)
    BY <1>5
  <2> QED
    BY <1>4, <2>1, <2>2 DEF Apart
<1> QED
  BY <1>1, <1>3, <1>4, <1>5, <1>6, <1>7 DEF HeadsOf, Main

\* The token of the main thread leaves for the branches of a fork.
LEMMA FlowFork ==
    ASSUME Structured, NEW c \in [Nodes -> Nat], NEW T \in SUBSET Nodes,
           NEW f \in Nat, Flow(c, T, f), NEW m \in T, NEW f2 \in Nat, f2 >= f,
           Shape[m] = "FAN_OUT", NEW H, H = HeadsOf(m), H # {}
    PROVE  /\ \A h \in H : c[h] = 0
           /\ Flow(Visit(c, H), (T \ {m}) \union H, f2)
<1> DEFINE d == Visit(c, H)
<1>1. /\ Main(m) /\ H \subseteq Nodes
      /\ \A h \in H : ~Main(h) /\ Way(m, h) /\ Once(h) /\ Height[m] < Height[h]
      /\ \A h, k \in H : h # k => Apart(h, k)
      /\ \A k \in Nodes : Height[k] \in Nat
  BY Heads, Layers DEF Way
<1>2. T = {m} /\ (T \ {m}) \union H = H
  BY <1>1, MainAlone DEF Flow
<1>3. \A k \in Nodes : ~Apart(m, k)
  BY <1>1, ApartFacts
<1>4. \A h \in H : c[h] = 0
  BY <1>1, <1>3, AheadFresh DEF Flow
<1>5. \A k \in Nodes : c[k] \in Nat /\ d[k] = IF k \in H THEN c[k] + 1 ELSE c[k]
  BY DEF Visit
<1> HIDE DEF d
<1>6. Spread(H) /\ Standing(d, H)
  BY <1>1, <1>5 DEF Spread, Standing
<1>7. Behind(d, H)
  <2> SUFFICES ASSUME NEW h \in H, NEW l \in Nodes, Once(l), d[l] > 0, ~Apart(h, l)
               PROVE  Height[l] <= Height[h]
    BY DEF Behind
  <2>1. CASE l \in H
    <3>1. l = h
      BY <1>1, <2>1
    <3> QED
      BY <1>1, <3>1
  <2>2. CASE l \notin H
    <3>1. c[l] > 0 /\ ~Apart(m, l)
      BY <1>3, <1>5, <2>2
    <3>2. Height[l] <= Height[m]
      BY <3>1 DEF Flow, Behind
    <3> QED
      BY <1>1, <3>2
  <2> QED
    BY <2>1, <2>2
<1>8. BranchOnce(d)
  <2> SUFFICES ASSUME NEW k \in Nodes, ~Main(k) PROVE d[k] <= 1
    BY DEF BranchOnce
  <2>1. c[k] <= 1
    BY DEF Flow, BranchOnce
  <2> QED
    BY <1>4, <1>5, <2>1
<1>9. Rounds(d, H)
  <2> SUFFICES ASSUME NEW g \in Gates
               PROVE  d[RetryTarget[g]] = d[g] /\ d[g] \in Nat
                      /\ \A h \in H : ~Inside(g, h)
    BY DEF Rounds
  <2>1. \A h \in H : ~Inside(g, h) /\ h # g /\ h # RetryTarget[g]
    BY <1>1, BranchOutside
  <2>2. ~Inside(g, m)
    BY <1>1, <2>1 DEF Way
  <2>3. c[RetryTarget[g]] = c[g]
    BY <1>2, <2>2 DEF Flow, Rounds
  <2> QED
    BY <1>5, <2>1, <2>3, GateAssumption
<1>10. Paid(d, H, f2)
  <2> SUFFICES ASSUME NEW k \in Nodes
               PROVE  /\ d[k] <= f2 + 1
                      /\ \A h \in H : Height[h] < Height[k] /\ ~Apart(h, k) => d[k] <= f2
    BY DEF Paid
  <2>1. c[k] <= f + 1 /\ (Height[m] < Height[k] => c[k] <= f)
    BY <1>3 DEF Flow, Paid
  <2>2. CASE k \in H
    <3>1. d[k] = 1
      BY <1>4, <1>5, <2>2
    <3>2. \A h \in H : h = k \/ Apart(h, k)
      BY <1>1, <2>2
    <3> QED
      BY <1>1, <3>1, <3>2
  <2>3. CASE k \notin H
    <3>1. \A h \in H : Height[h] < Height[k] => Height[m] < Height[k]
      BY <1>1
    <3> QED
      BY <1>5, <2>1, <2>3, <3>1
  <2> QED
    BY <2>2, <2>3
<1>11. WithinLimits(d)
  BY <1>1, <1>4, LimitsGo DEF Flow, d
<1>12. JoinAhead(d, H)
  <2> SUFFICES ASSUME WaysOn, NEW j \in Nodes, Shape[j] = "FAN_IN", d[j] = 0,
                      NEW k \in Nodes, Thread[k] \in Predecessors(j), d[k] > 0,
                      NEW t \in Predecessors(j)
               PROVE  d[t] >= 1 \/ \E h \in H : Thread[h] = t
    BY DEF JoinAhead
  <2>1. PICK i \in Nodes : /\ Shape[i] = "FAN_IN"
                          /\ Predecessors(i) = {Thread[h] : h \in H}
    BY Heads
  <2>2. CASE i = j
    BY <2>1, <2>2
  <2>3. CASE i # j
    <3>1. k \notin H
      BY <2>1, <2>3, OneJoin
    <3>2. c[k] > 0 /\ c[j] = 0
      BY <1>5, <3>1
    <3>3. c[t] >= 1 \/ Thread[m] = t
      BY <1>2, <3>2 DEF Flow, JoinAhead
    <3>4. t \in Nodes /\ t # Start
      BY Tails
    <3> QED
      BY <1>1, <1>5, <3>3, <3>4 DEF Main
  <2> QED
    BY <2>2, <2>3
<1>13. Flow(d, H, f2)
  BY <1>6, <1>7, <1>8, <1>9, <1>10, <1>11, <1>12 DEF Flow
<1> QED
  BY <1>2, <1>4, <1>13 DEF d

\* A gate that failed sends its token back to its target, which has been visited
\* as often as the gate.
LEMMA FlowRetry ==
    ASSUME Structured, NEW c \in [Nodes -> Nat], NEW T \in SUBSET Nodes,
           NEW f \in Nat, Flow(c, T, f), NEW g \in Gates, g \in T,
           NEW f2 \in Nat, f2 >= f + 1, NEW r, r = RetryTarget[g]
    PROVE  /\ c[r] = c[g] /\ T = {g}
           /\ c[g] + 1 <= GateLimit[g] => Flow(Visit(c, {r}), {r}, f2)
<1> DEFINE d == Visit(c, {r})
<1>1. /\ g \in Nodes /\ r \in Nodes /\ Main(g) /\ Main(r)
      /\ Height[r] <= Height[g] /\ (Height[r] = Height[g] => r = g)
      /\ \A k \in Nodes : Height[k] \in Nat
  BY Layers, GateAssumption DEF Layered, Looped, Main
<1>2. T = {g} /\ ~Inside(g, g)
  BY <1>1, MainAlone DEF Flow, Inside, Within
<1>3. c[r] = c[g]
  BY <1>2 DEF Flow, Rounds
<1>4. \A k \in Nodes : c[k] \in Nat /\ d[k] = IF k = r THEN c[k] + 1 ELSE c[k]
  BY DEF Visit
<1>5. \A k \in Nodes : ~Apart(g, k) /\ ~Apart(r, k)
  BY <1>1, ApartFacts
<1>6. \A h \in Gates \ {g} : /\ r \notin {h, RetryTarget[h]}
                             /\ Inside(h, g) <=> Inside(h, r)
  <2> SUFFICES ASSUME NEW h \in Gates, h # g
               PROVE  /\ r \notin {h, RetryTarget[h]}
                      /\ Inside(h, g) <=> Inside(h, r)
    OBVIOUS
  <2>1. /\ RetryTarget[g] \notin {h, RetryTarget[h]}
        /\ Within(Height, h, g) <=> Within(Height, h, RetryTarget[g])
    BY Layers DEF Layered, Looped
  <2> QED
    BY <2>1 DEF Inside
<1> HIDE DEF d
<1>7. Spread({r}) /\ Standing(d, {r})
  BY <1>1, <1>4 DEF Spread, Standing
<1>8. Behind(d, {r})
  <2> SUFFICES ASSUME NEW l \in Nodes, Once(l), d[l] > 0 PROVE Height[l] <= Height[r]
    BY DEF Behind
  <2>1. CASE l = r
    BY <1>1, <2>1
  <2>2. CASE l # r
    <3>1. Height[l] <= Height[g]
      BY <1>4, <1>5, <2>2 DEF Flow, Behind
    <3> QED
      BY <1>1, <3>1 DEF Once, OnceOnly
  <2> QED
    BY <2>1, <2>2
<1>9. BranchOnce(d)
  BY <1>1, <1>4 DEF Flow, BranchOnce
<1>10. Rounds(d, {r})
  <2> SUFFICES ASSUME NEW h \in Gates
               PROVE  /\ d[h] <= d[RetryTarget[h]]
                      /\ d[RetryTarget[h]] = IF Inside(h, r) THEN d[h] + 1 ELSE d[h]
    BY DEF Rounds
  <2>1. CASE h = g
    <3>1. Inside(g, r) <=> r # g
      BY <1>1 DEF Inside, Within
    <3> QED
      BY <1>1, <1>3, <1>4, <2>1, <3>1
  <2>2. CASE h # g
    <3>1. PICK s \in Nodes : s = RetryTarget[h]
      BY GateAssumption
    <3>2. c[h] <= c[s] /\ c[s] = IF Inside(h, g) THEN c[h] + 1 ELSE c[h]
      BY <1>2, <3>1 DEF Flow, Rounds
    <3>3. h \in Nodes /\ h # r /\ s # r
      BY <1>6, <2>2, <3>1, GateAssumption
    <3> QED
      BY <1>4, <1>6, <2>2, <3>1, <3>2, <3>3
  <2> QED
    BY <2>1, <2>2
<1>11. Paid(d, {r}, f2)
  <2> SUFFICES ASSUME NEW k \in Nodes
               PROVE  d[k] <= f2 + 1 /\ (Height[r] < Height[k] => d[k] <= f2)
    BY DEF Paid
  <2>1. c[k] <= f + 1
    BY DEF Flow, Paid
  <2> QED
    BY <1>1, <1>4, <2>1
<1>12. ASSUME c[g] + 1 <= GateLimit[g] PROVE WithinLimits(d)
  <2> SUFFICES ASSUME NEW h \in Gates, Once(RetryTarget[h])
               PROVE  d[RetryTarget[h]] <= GateLimit[h]
    BY DEF WithinLimits
  <2>1. RetryTarget[h] \in Nodes
    BY GateAssumption
  <2>2. h # g => RetryTarget[h] # r
    BY <1>6
  <2>3. c[RetryTarget[h]] <= GateLimit[h]
    BY DEF Flow, WithinLimits
  <2> QED
    BY <1>3, <1>4, <1>12, <2>1, <2>2, <2>3
<1>13. JoinAhead(d, {r})
  <2> SUFFICES ASSUME WaysOn, NEW j \in Nodes, Shape[j] = "FAN_IN", d[j] = 0,
                      NEW k \in Nodes, Thread[k] \in Predecessors(j), d[k] > 0,
                      NEW t \in Predecessors(j)
               PROVE  d[t] >= 1
    BY DEF JoinAhead
  <2>1. t \in Nodes /\ t # Start /\ Thread[k] # Start
    BY Tails
  <2>2. c[k] > 0 /\ c[j] = 0
    BY <1>1, <1>4, <2>1 DEF Main
  <2>3. c[t] >= 1 \/ Thread[g] = t
    BY <1>2, <2>2 DEF Flow, JoinAhead
  <2> QED
    BY <1>1, <1>4, <2>1, <2>3 DEF Main
<1> QED
  BY <1>2, <1>3, <1>7, <1>8, <1>9, <1>10, <1>11, <1>12, <1>13 DEF Flow, d

\* Nothing has been visited, and the entry is visited first.
LEMMA FlowNothing ==
    ASSUME Structured, NEW f \in Nat
    PROVE  Flow([n \in Nodes |-> 0], {}, f)
<1>1. \A n \in Nodes : [k \in Nodes |-> 0][n] = 0
  OBVIOUS
<1>2. \A g \in Gates : GateLimit[g] \in Nat /\ g \in Nodes /\ RetryTarget[g] \in Nodes
  BY GateAssumption
<1> QED
  BY <1>1, <1>2 DEF Flow, Spread, Standing, Behind, BranchOnce, Rounds, Paid,
                    WithinLimits, JoinAhead

LEMMA FlowEntry ==
    ASSUME Structured, NEW n \in Nodes, Along(Start, n)
    PROVE  Flow([k \in Nodes |-> IF k = n THEN 1 ELSE 0], {n}, 0)
<1> DEFINE d == [k \in Nodes |-> IF k = n THEN 1 ELSE 0]
<1>1. \A k \in Nodes : d[k] = IF k = n THEN 1 ELSE 0
  OBVIOUS
<1>2. /\ Thread[n] = Start /\ Way(Start, n)
      /\ \A k \in Nodes : Height[k] \in Nat
  BY Layers DEF Along, Layered, Threaded
<1>3. \A k \in Nodes : ~Apart(n, k)
  BY <1>2, ApartFacts DEF Main
<1> HIDE DEF d
<1>4. Spread({n}) /\ Standing(d, {n}) /\ BranchOnce(d)
  BY <1>1, <1>2 DEF Spread, Standing, BranchOnce
<1>5. Behind(d, {n})
  BY <1>1, <1>2 DEF Behind
<1>6. Rounds(d, {n}) /\ WithinLimits(d)
  <2> SUFFICES ASSUME NEW g \in Gates
               PROVE  /\ d[g] <= d[RetryTarget[g]]
                      /\ d[RetryTarget[g]] = IF Inside(g, n) THEN d[g] + 1 ELSE d[g]
                      /\ d[RetryTarget[g]] <= GateLimit[g]
    BY DEF Rounds, WithinLimits
  <2>1. PICK r \in Nodes : r = RetryTarget[g]
    BY GateAssumption
  <2>2. /\ g \in Nodes /\ GateLimit[g] \in Nat /\ GateLimit[g] >= 1
    BY GateAssumption
  <2>3. /\ ~Inside(g, Start)
        /\ Height[r] <= Height[g] /\ (Height[r] = Height[g] => r = g)
    BY <2>1, Layers DEF Layered, Looped, Inside
  <2>4. Inside(g, n) \/ n = g => n = r
    BY <1>2, <2>1, <2>3 DEF Way
  <2>5. Inside(g, r) <=> r # g
    BY <1>2, <2>1, <2>2, <2>3 DEF Inside, Within
  <2> QED
    BY <1>1, <2>1, <2>2, <2>4, <2>5
<1>7. Paid(d, {n}, 0)
  BY <1>1, <1>2 DEF Paid
<1>8. JoinAhead(d, {n})
  <2>1. \A j \in Nodes, k \in Nodes :
           Shape[j] = "FAN_IN" /\ Thread[k] \in Predecessors(j) => d[k] = 0
    BY <1>1, <1>2, Tails
  <2> QED
    BY <2>1 DEF JoinAhead
<1> QED
  BY <1>4, <1>5, <1>6, <1>7, <1>8 DEF Flow, d

-----------------------------------------------------------------------------
(***************************************************************************)
(* Where a run is.  An advance counts as done as soon as it is decided:    *)
(* its cards are there, or still to create, and the run is as it will be   *)
(* saved.                                                                  *)
(***************************************************************************)
Current(q) == IF q.phase = "write" /\ q.save # NoRun THEN q.save ELSE run

Here(q, k) == tasks[k] # "none" \/ k \in q.todo
Live(q, k) == Here(q, k) /\ \A i \in EventsOf(k) : i > Current(q).cursor
FailuresSeen(q) == {i \in GateFailures : i <= Current(q).cursor}

\* The cards of a node are numbered without gaps; of those with a token the last
\* is undecided.
Tally(q, c, T) ==
    \A k \in Key : /\ Here(q, k) <=> k[2] <= c[k[1]]
                   /\ Live(q, k) <=> k[1] \in T /\ k[2] = c[k[1]]

\* While a join is the newest card, the context is what its branches reported.
MergedInto(q, c, T) ==
    \A j \in T : Shape[j] = "FAN_IN" /\ c[j] = 1 =>
        /\ \A n \in Predecessors(j) : tasks[<<n, 1>>] = "done"
        /\ \A k \in Flags : \A n \in LastWriter(j, k) :
              \A i \in EventsOf(<<n, 1>>) : Current(q).ctx[k] = log[i].ans.upd[k]

\* Only an active run has tokens, and it always has one if there is a way on.
Goes(q, T) ==
    /\ T # {} => Current(q).status \in Active
    /\ WaysOn /\ Current(q).status \in Active /\ (\E k \in Key : Here(q, k)) => T # {}

Tokens(q, c, T) ==
    /\ Tally(q, c, T) /\ MergedInto(q, c, T) /\ Goes(q, T)
    /\ \E f \in Nat : f = Cardinality(FailuresSeen(q)) /\ Flow(c, T, f)

\* Each card is created, reported and decided on once.
TidyTables ==
    /\ \A k \in Key : /\ rows[k] # NoRow => tasks[k] # "none"
                      /\ tasks[k] # "blocked"
                      /\ tasks[k] = "done" <=> EventsOf(k) # {}
                      /\ Done(k) => \E i \in EventsOf(k) :
                            i <= run.cursor + 1 /\ rows[k].upd = log[i].ans.upd
    /\ \A i, j \in 1..Len(log) : log[i].task = log[j].task => i = j
    /\ run.status = "NONE" => \A k \in Key : tasks[k] = "none"

Tidy(q) ==
    /\ TidyTables
    /\ \A k \in Key : k \in q.todo => tasks[k] = "none"
    /\ q.cur # NoKey =>
          q.phase = "write" /\ rows[q.cur] = NoRow /\ tasks[q.cur] # "none"
    /\ q.phase # "write" => q.todo = {}
    /\ q.block = NoKey
    /\ q.phase # "idle" => run.status \in Active
    /\ run.status # "PAUSED_HUMAN" /\ q.save.status # "PAUSED_HUMAN"

Counts == [Nodes -> Attempts \union {0}]

BranchInv(p) ==
    /\ Tidy(procs[p])
    /\ \E c \in Counts, T \in SUBSET Nodes : Tokens(procs[p], c, T)

-----------------------------------------------------------------------------
LEMMA RigidFlow ==
    /\ \A c, T, f : Flow(c, T, f)' <=> Flow(c, T, f)
    /\ WaysOn' <=> WaysOn
    /\ \A j : Predecessors(j)' = Predecessors(j)
<1>1. WaysOn' <=> WaysOn
  BY Rigid
<1>2. \A j : Predecessors(j)' = Predecessors(j)
  BY DEF Predecessors
<1>3. \A c, T, f : Flow(c, T, f)' <=> Flow(c, T, f)
  BY <1>1, <1>2
     DEF Flow, Spread, Standing, Behind, BranchOnce, Rounds, Paid, WithinLimits,
         JoinAhead, Apart, Once, OnceOnly, Main, Inside, Within
<1> QED
  BY <1>1, <1>2, <1>3

LEMMA CountsNat == ASSUME NEW c \in Counts PROVE c \in [Nodes -> Nat]
<1>1. Attempts \union {0} \subseteq Nat
  BY EngineAssumption
<1> QED
  BY <1>1 DEF Counts

LEMMA Retold ==
    ASSUME NEW p, NEW q, procs'[p] = q, Tidy(q)',
           NEW c \in Counts, NEW T \in SUBSET Nodes, Tokens(q, c, T)'
    PROVE  BranchInv(p)'
<1>1. Tidy(procs[p])'
  BY DEF Tidy
<1>2. Tokens(procs[p], c, T)'
  BY DEF Tokens, Tally, MergedInto, Goes, Here, Live, Current, FailuresSeen
<1> QED
  BY <1>1, <1>2 DEF BranchInv

LEMMA Keys ==
    ASSUME NEW k \in Key
    PROVE  /\ k[1] \in Nodes /\ k[2] \in Attempts /\ k[2] \in Nat /\ k[2] > 0
           /\ k = <<k[1], k[2]>>
<1>1. k[1] \in Nodes /\ k[2] \in Attempts /\ k = <<k[1], k[2]>>
  BY DEF Key
<1> QED
  BY <1>1, EngineAssumption

\* A decision is not disturbed by what happens behind the current cursor.
LEMMA TokensKept ==
    ASSUME log \in Seq(Event), LogGrows, NEW q, NEW r,
           NEW c \in Counts, NEW T \in SUBSET Nodes, Tokens(q, c, T),
           Current(q).cursor \in Nat, Current(q).cursor <= Len(log),
           Current(r)' = Current(q),
           \A k \in Key : Here(r, k)' <=> Here(q, k),
           \A k \in Key : tasks[k] = "done" =>
                 tasks'[k] = "done" /\ EventsOf(k)' = EventsOf(k)
    PROVE  Tokens(r, c, T)'
<1>1. /\ Len(log) \in Nat /\ Len(log') \in Nat /\ Len(log) <= Len(log')
      /\ \A i \in 1..Len(log) : log'[i] = log[i] /\ i \in 1..Len(log')
  BY DEF LogGrows
<1>2. \A i : i <= Current(q).cursor /\ i \in 1..Len(log') => i \in 1..Len(log)
  BY <1>1
<1>3. ASSUME NEW k \in Key PROVE Live(r, k)' <=> Live(q, k)
  <2>1. (\A i \in EventsOf(k)' : i > Current(q).cursor)
           <=> \A i \in EventsOf(k) : i > Current(q).cursor
    BY <1>1, <1>2 DEF EventsOf
  <2> QED
    BY <2>1 DEF Live
<1>4. Tally(r, c, T)'
  BY <1>3 DEF Tokens, Tally
<1>5. FailuresSeen(r)' = FailuresSeen(q)
  BY <1>1, <1>2 DEF FailuresSeen, GateFailures
<1>6. \E f \in Nat : f = Cardinality(FailuresSeen(r))' /\ Flow(c, T, f)'
  BY <1>5, RigidFlow DEF Tokens
<1>7. MergedInto(r, c, T)'
  <2> SUFFICES ASSUME NEW j \in T, Shape[j] = "FAN_IN", c[j] = 1
               PROVE  /\ \A n \in Predecessors(j) : tasks'[<<n, 1>>] = "done"
                      /\ \A k \in Flags : \A n \in LastWriter(j, k)' :
                            \A i \in EventsOf(<<n, 1>>)' :
                               Current(r)'.ctx[k] = log'[i].ans.upd[k]
    BY RigidFlow DEF MergedInto
  <2>1. \A n \in Predecessors(j) : tasks[<<n, 1>>] = "done"
    BY DEF Tokens, MergedInto
  <2>2. \A n \in Predecessors(j) : <<n, 1>> \in Key
    BY EngineAssumption, EdgeEnds DEF Predecessors, Key
  <2>3. \A n \in Predecessors(j) : tasks'[<<n, 1>>] = "done"
                                   /\ EventsOf(<<n, 1>>)' = EventsOf(<<n, 1>>)
    BY <2>1, <2>2
  <2>4. \A n : \A i \in EventsOf(<<n, 1>>) : log'[i] = log[i]
    BY <1>1 DEF EventsOf
  <2>5. \A k : LastWriter(j, k)' = LastWriter(j, k)
    BY <2>3, <2>4, RigidFlow DEF LastWriter
  <2>6. \A k : \A n \in LastWriter(j, k) : n \in Predecessors(j)
    BY DEF LastWriter
  <2>7. ASSUME NEW k \in Flags, NEW n \in LastWriter(j, k), NEW i \in EventsOf(<<n, 1>>)'
        PROVE  Current(r)'.ctx[k] = log'[i].ans.upd[k]
    <3>1. i \in EventsOf(<<n, 1>>) /\ log'[i] = log[i]
      BY <2>3, <2>4, <2>6, <2>7
    <3>2. Current(q).ctx[k] = log[i].ans.upd[k]
      BY <3>1, <2>7 DEF Tokens, MergedInto
    <3> QED
      BY <3>1, <3>2
  <2> QED
    BY <2>3, <2>5, <2>7
<1>8. Goes(r, T)'
  BY RigidFlow DEF Tokens, Goes
<1> QED
  BY <1>4, <1>6, <1>7, <1>8 DEF Tokens

LEMMA BranchInit ==
    ASSUME Structured, NEW p \in Procs, Init
    PROVE  BranchInv(p)
<1> DEFINE c == [n \in Nodes |-> 0]
<1>1. procs[p] = IdleProc /\ run = NoRun /\ log = << >>
  BY DEF Init
<1>2. /\ \A k \in Key : tasks[k] = "none" /\ rows[k] = NoRow
      /\ Len(log) = 0 /\ \A k : EventsOf(k) = {}
  BY <1>1 DEF Init, EventsOf
<1>3. Tidy(procs[p])
  BY <1>1, <1>2 DEF Tidy, TidyTables, IdleProc, NoRun, Done
<1>4. /\ Current(procs[p]) = run /\ procs[p].todo = {}
      /\ FailuresSeen(procs[p]) = {}
  BY <1>1, <1>2 DEF Current, IdleProc, FailuresSeen, GateFailures
<1>5. c \in Counts /\ \A n \in Nodes : c[n] = 0
  BY DEF Counts
<1>6. \A k \in Key : k[1] \in Nodes /\ k[2] \in Nat /\ k[2] > 0
  BY Keys
<1> HIDE DEF c
<1>7. Tally(procs[p], c, {})
  BY <1>2, <1>4, <1>5, <1>6 DEF Tally, Here, Live
<1>8. MergedInto(procs[p], c, {}) /\ Goes(procs[p], {})
  BY <1>2, <1>4 DEF MergedInto, Goes, Here
<1>9. Flow(c, {}, 0) /\ 0 = Cardinality(FailuresSeen(procs[p]))
  BY <1>4, FlowNothing, FS_EmptySet DEF c
<1>10. Tokens(procs[p], c, {})
  BY <1>7, <1>8, <1>9 DEF Tokens
<1> QED
  BY <1>3, <1>5, <1>10 DEF BranchInv

-----------------------------------------------------------------------------
(***************************************************************************)
(* The steps that decide nothing.                                          *)
(***************************************************************************)
Whole(p) == IInv /\ WorkInv /\ CoverInv(p) /\ SoloInv(p) /\ BranchInv(p)

LEMMA CurrentTyped ==
    ASSUME NEW p \in Procs, Whole(p)
    PROVE  /\ Current(procs[p]).cursor \in Nat
           /\ Current(procs[p]).cursor <= Len(log)
           /\ run.cursor <= Len(log)
           /\ run.cursor <= Current(procs[p]).cursor
           /\ Current(procs[p]).cursor <= run.cursor + 1
<1>1. run.cursor \in Nat /\ run.cursor <= Len(log)
  BY Types DEF Whole, CoverInv
<1>2. CASE procs[p].phase = "write" /\ procs[p].save # NoRun
  BY <1>1, <1>2, Types DEF Whole, CoverInv, Proceeds, Current
<1>3. CASE ~(procs[p].phase = "write" /\ procs[p].save # NoRun)
  BY <1>1, <1>3 DEF Current
<1> QED
  BY <1>2, <1>3

LEMMA BranchKept ==
    ASSUME NEW p \in Procs, Whole(p), NEW q, procs'[p] = q, LogGrows, Tidy(q)',
           Current(q)' = Current(procs[p]),
           \A k \in Key : Here(q, k)' <=> Here(procs[p], k),
           \A k \in Key : tasks[k] = "done" =>
                 tasks'[k] = "done" /\ EventsOf(k)' = EventsOf(k)
    PROVE  BranchInv(p)'
<1>1. PICK o : o = procs[p]
  OBVIOUS
<1>2. PICK c \in Counts, T \in SUBSET Nodes : Tokens(o, c, T)
  BY <1>1 DEF Whole, BranchInv
<1>3. log \in Seq(Event)
  BY Types DEF Whole
<1>4. Tokens(q, c, T)'
  BY <1>1, <1>2, <1>3, CurrentTyped, TokensKept
<1> QED
  BY <1>2, <1>4, Retold

\* A step that changes only what the process remembers.
LEMMA BranchMemory ==
    ASSUME NEW p \in Procs, Whole(p), NEW q, procs'[p] = q,
           UNCHANGED <<run, rows, tasks, log>>, Tidy(q),
           Current(q) = Current(procs[p]), q.todo = procs[p].todo
    PROVE  BranchInv(p)'
<1>1. LogGrows
  BY Types DEF Whole, LogGrows
<1>2. Tidy(q)'
  BY DEF Tidy, TidyTables, Done, EventsOf
<1>3. Current(q)' = Current(procs[p])
  BY DEF Current
<1>4. \A k \in Key : /\ Here(q, k)' <=> Here(procs[p], k)
                     /\ EventsOf(k)' = EventsOf(k)
  BY DEF Here, EventsOf
<1> QED
  BY <1>1, <1>2, <1>3, <1>4, BranchKept

LEMMA TidyIdle ==
    ASSUME NEW q, Tidy(q) PROVE Tidy(IdleProc)
  BY DEF Tidy, IdleProc, NoRun

LEMMA TidyBusy ==
    ASSUME NEW q, Tidy(q), run.status \in Active, NEW phase \in {"read", "mark", "plan"},
           NEW batch, NEW r, r.phase = phase, r.batch = batch, r.todo = {},
           r.cur = NoKey, r.block = NoKey, r.save.status # "PAUSED_HUMAN"
    PROVE  Tidy(r) /\ Current(r) = run
  BY DEF Tidy, Current

LEMMA BranchBeginPass ==
    ASSUME NEW p \in Procs, Whole(p), BeginPass(p)
    PROVE  BranchInv(p)'
<1>1. PICK q : /\ q = [IdleProc EXCEPT !.phase = "read", !.batch = Unseen]
               /\ procs'[p] = q
  BY Types DEF Whole, BeginPass
<1>2. /\ q.phase = "read" /\ q.batch = Unseen /\ q.todo = {} /\ q.cur = NoKey
      /\ q.block = NoKey /\ q.save = NoRun
  BY <1>1 DEF IdleProc
<1>3. /\ run.status \in Active /\ procs[p].phase = "idle"
      /\ UNCHANGED <<run, rows, tasks, log>>
  BY DEF BeginPass, store, board
<1>4. Tidy(procs[p])
  BY DEF Whole, BranchInv
<1>5. Tidy(q) /\ Current(q) = run
  BY <1>2, <1>3, <1>4, TidyBusy DEF NoRun
<1>6. Current(procs[p]) = run /\ procs[p].todo = {}
  BY <1>3, <1>4 DEF Current, Tidy
<1> QED
  BY <1>1, <1>2, <1>3, <1>5, <1>6, BranchMemory

LEMMA BranchReadRun ==
    ASSUME NEW p \in Procs, Whole(p), ReadRun(p)
    PROVE  BranchInv(p)'
<1>1. PICK i \in procs[p].batch :
         procs' = [procs EXCEPT ![p] =
                     [procs[p] EXCEPT !.phase = "mark", !.batch = procs[p].batch \ {i},
                                      !.evt = i, !.snap = run]]
  BY DEF ReadRun
<1>2. PICK q : /\ q = [procs[p] EXCEPT !.phase = "mark", !.batch = procs[p].batch \ {i},
                                       !.evt = i, !.snap = run]
               /\ procs'[p] = q
  BY <1>1, Types DEF Whole
<1>3. /\ procs[p].phase = "read" /\ UNCHANGED <<run, rows, tasks, log>>
  BY DEF ReadRun, store, board
<1>4. Tidy(procs[p])
  BY DEF Whole, BranchInv
<1>5. /\ q.phase = "mark" /\ q.todo = procs[p].todo /\ q.cur = procs[p].cur
      /\ q.block = procs[p].block /\ q.save = procs[p].save
  BY <1>2, Types DEF Whole, Proc
<1>6. /\ run.status \in Active /\ procs[p].todo = {} /\ procs[p].cur = NoKey
      /\ procs[p].block = NoKey /\ procs[p].save.status # "PAUSED_HUMAN"
  BY <1>3, <1>4 DEF Tidy
<1>7. Tidy(q) /\ Current(q) = run
  BY <1>4, <1>5, <1>6, TidyBusy
<1>8. Current(procs[p]) = run
  BY <1>3 DEF Current
<1> QED
  BY <1>2, <1>3, <1>5, <1>7, <1>8, BranchMemory

\* A pass or a launch that ends.
LEMMA BranchStop ==
    ASSUME NEW p \in Procs, Whole(p), LaunchReturns(p) \/ PlanTooWide(p)
    PROVE  BranchInv(p)'
<1>1. procs'[p] = IdleProc /\ UNCHANGED <<run, rows, tasks, log>>
  BY Types DEF Whole, LaunchReturns, PlanTooWide, store, board
<1>2. Tidy(procs[p])
  BY DEF Whole, BranchInv
<1>3. Current(procs[p]) = run /\ procs[p].todo = {}
  BY <1>2 DEF LaunchReturns, PlanTooWide, Planning, Dispatched, Writing, Current, Tidy
<1>4. Current(IdleProc) = run /\ IdleProc.todo = {}
  BY DEF Current, IdleProc
<1> QED
  BY <1>1, <1>2, <1>3, <1>4, TidyIdle, BranchMemory

LEMMA BranchMarkNode ==
    ASSUME NEW p \in Procs, Whole(p), MarkNode(p)
    PROVE  BranchInv(p)' /\ \A k \in Key : Done(k) => Done(k)'
<1>1. PICK row : /\ row = [status |-> IF GatePassed(p) THEN "SUCCEEDED" ELSE "PARTIAL",
                           upd |-> AnswerOf(p).upd, card |-> TRUE]
                 /\ rows' = [rows EXCEPT ![EventOf(p).task] = row]
  BY DEF MarkNode
<1>2. procs[p].phase = "mark" /\ UNCHANGED <<run, tasks, log>>
  BY DEF MarkNode, board
<1>3. PICK e \in 1..Len(log) : /\ e = procs[p].evt /\ e = run.cursor + 1
                               /\ EventOf(p) = log[e] /\ AnswerOf(p) = log[e].ans
  BY <1>2, InHand DEF Whole, CoverInv, Proceeds, AnswerOf
<1>4. PICK l \in Key : l = log[e].task
  BY Types DEF Whole
<1>5. /\ row \in NodeRow /\ row # NoRow /\ row.upd = log[e].ans.upd
      /\ row.status \in {"SUCCEEDED", "PARTIAL"}
  <2>1. row \in NodeRow
    BY <1>1, <1>2, InHand DEF Whole, NodeRow, Answer
  <2> QED
    BY <1>1, <1>3, <2>1, EngineAssumption
<1>6. rows'[l] = row /\ \A k \in Key : k # l => rows'[k] = rows[k]
  BY <1>1, <1>3, <1>4, Types DEF Whole
<1>7. Tidy(procs[p])
  BY DEF Whole, BranchInv
<1>8. tasks[l] # "none" /\ e \in EventsOf(l)
  BY <1>4 DEF Whole, WorkInv, EventsOf
<1>9. ASSUME NEW k \in Key
      PROVE  /\ rows'[k] # NoRow => tasks[k] # "none"
             /\ Done(k)' => \E i \in EventsOf(k) :
                               i <= run.cursor + 1 /\ rows'[k].upd = log[i].ans.upd
             /\ Done(k) => Done(k)'
  <2>1. CASE k = l
    <3>1. e <= run.cursor + 1 /\ rows'[k].upd = log[e].ans.upd /\ Done(k)'
      BY <1>3, <1>5, <1>6, <2>1 DEF Done
    <3> QED
      BY <1>8, <2>1, <3>1
  <2>2. CASE k # l
    <3>1. rows'[k] = rows[k]
      BY <1>6, <2>2
    <3>2. Done(k)' <=> Done(k)
      BY <3>1 DEF Done
    <3> QED
      BY <1>7, <3>1, <3>2 DEF Tidy, TidyTables
  <2> QED
    BY <2>1, <2>2
<1>10. TidyTables'
  <2>1. \A k \in Key : EventsOf(k)' = EventsOf(k)
    BY <1>2 DEF EventsOf
  <2> QED
    BY <1>2, <1>7, <1>9, <2>1 DEF Tidy, TidyTables
<1>11. PICK q : q = [procs[p] EXCEPT !.phase = "plan"] /\ procs'[p] = q
  BY Types DEF Whole, MarkNode
<1>12. /\ q.phase = "plan" /\ q.todo = procs[p].todo /\ q.cur = procs[p].cur
       /\ q.block = procs[p].block /\ q.save = procs[p].save
  BY <1>11, Types DEF Whole, Proc
<1>13. Tidy(q)'
  BY <1>2, <1>7, <1>10, <1>12 DEF Tidy
<1>14. LogGrows
  BY <1>2, Types DEF Whole, LogGrows
<1>15. /\ Current(q)' = Current(procs[p])
       /\ \A k \in Key : (Here(q, k)' <=> Here(procs[p], k)) /\ EventsOf(k)' = EventsOf(k)
  BY <1>2, <1>12 DEF Current, Here, EventsOf
<1>16. BranchInv(p)'
  BY <1>2, <1>11, <1>13, <1>14, <1>15, BranchKept
<1> QED
  BY <1>9, <1>16

LEMMA BranchCreateCard ==
    ASSUME NEW p \in Procs, Whole(p), CreateCard(p)
    PROVE  BranchInv(p)'
<1>1. PICK l \in procs[p].todo :
         /\ tasks' = [tasks EXCEPT ![l] = IF @ = "none" THEN "open" ELSE @]
         /\ procs' = [procs EXCEPT ![p] =
                [procs[p] EXCEPT !.todo = procs[p].todo \ {l}, !.cur = l, !.got = TRUE]]
  BY DEF CreateCard
<1>2. Tidy(procs[p])
  BY DEF Whole, BranchInv
<1>3. l \in Key /\ tasks[l] = "none"
  BY <1>2, Types DEF Whole, Proc, Tidy
<1>4. /\ tasks'[l] = "open" /\ \A k \in Key : k # l => tasks'[k] = tasks[k]
      /\ UNCHANGED <<run, rows, log>> /\ procs[p].phase = "write"
  BY <1>1, <1>3, Types DEF Whole, CreateCard, store, Writing
<1>5. PICK q : /\ q = [procs[p] EXCEPT !.todo = procs[p].todo \ {l}, !.cur = l,
                                       !.got = TRUE]
               /\ procs'[p] = q
  BY <1>1, Types DEF Whole
<1>6. /\ q.phase = "write" /\ q.todo = procs[p].todo \ {l} /\ q.cur = l
      /\ q.block = procs[p].block /\ q.save = procs[p].save
  BY <1>4, <1>5, Types DEF Whole, Proc
<1>7. rows[l] = NoRow /\ ~Done(l) /\ EventsOf(l) = {}
  <2>1. rows[l] = NoRow /\ EventsOf(l) = {}
    BY <1>2, <1>3 DEF Tidy, TidyTables
  <2> QED
    BY <2>1 DEF Done
<1>8. \A k \in Key : EventsOf(k)' = EventsOf(k) /\ (Done(k)' <=> Done(k))
  BY <1>4 DEF EventsOf, Done
<1>9. run.status # "NONE"
  BY <1>2, <1>4 DEF Tidy, Active
<1>10. TidyTables'
  <2>1. ASSUME NEW k \in Key
        PROVE  /\ rows[k] # NoRow => tasks'[k] # "none"
               /\ tasks'[k] # "blocked"
               /\ tasks'[k] = "done" <=> EventsOf(k) # {}
    BY <1>2, <1>4, <1>7 DEF Tidy, TidyTables
  <2>2. \A k \in Key : Done(k) => \E i \in EventsOf(k) :
                          i <= run.cursor + 1 /\ rows[k].upd = log[i].ans.upd
    BY <1>2 DEF Tidy, TidyTables
  <2>3. \A i, j \in 1..Len(log) : log[i].task = log[j].task => i = j
    BY <1>2 DEF Tidy, TidyTables
  <2> QED
    BY <1>4, <1>8, <1>9, <2>1, <2>2, <2>3 DEF TidyTables
<1>11. Tidy(q)'
  <2>1. \A k \in Key : k \in q.todo => tasks'[k] = "none"
    BY <1>2, <1>4, <1>6 DEF Tidy
  <2> QED
    BY <1>2, <1>4, <1>6, <1>7, <1>10, <2>1 DEF Tidy
<1>12. LogGrows
  BY <1>4, Types DEF Whole, LogGrows
<1>13. Current(q)' = Current(procs[p])
  BY <1>4, <1>6 DEF Current
<1>14. \A k \in Key : Here(q, k)' <=> Here(procs[p], k)
  BY <1>3, <1>4, <1>6 DEF Here
<1>15. \A k \in Key : tasks[k] = "done" => tasks'[k] = "done"
  BY <1>3, <1>4
<1> QED
  BY <1>5, <1>8, <1>11, <1>12, <1>13, <1>14, <1>15, BranchKept

LEMMA BranchUpsertRow ==
    ASSUME NEW p \in Procs, Whole(p), UpsertRow(p)
    PROVE  BranchInv(p)' /\ \A k \in Key : Done(k) => Done(k)'
<1>1. Tidy(procs[p])
  BY DEF Whole, BranchInv
<1>2. PICK l \in Key : /\ l = procs[p].cur /\ rows[l] = NoRow /\ tasks[l] # "none"
                       /\ procs[p].phase = "write"
  BY <1>1, Types DEF Whole, Proc, UpsertRow, Tidy
<1>3. PICK row : /\ row = [status |-> "DISPATCHED", upd |-> NoUpdate,
                           card |-> procs[p].got]
                 /\ rows' = [rows EXCEPT ![l] = row]
  BY <1>2 DEF UpsertRow
<1>4. /\ rows'[l] = row /\ row.status = "DISPATCHED"
      /\ \A k \in Key : k # l => rows'[k] = rows[k]
      /\ UNCHANGED <<run, tasks, log>>
  BY <1>3, Types DEF Whole, UpsertRow, board
<1>5. PICK q : /\ q = [procs[p] EXCEPT !.cur = NoKey, !.got = FALSE] /\ procs'[p] = q
  BY Types DEF Whole, UpsertRow
<1>6. /\ q.phase = "write" /\ q.todo = procs[p].todo /\ q.cur = NoKey
      /\ q.block = procs[p].block /\ q.save = procs[p].save
  BY <1>2, <1>5, Types DEF Whole, Proc
<1>7. \A k \in Key : /\ rows'[k] # NoRow => tasks[k] # "none"
                     /\ Done(k)' <=> Done(k) /\ k # l
                     /\ Done(k) => k # l
  <2>1. ~Done(l) /\ ~Done(l)'
    BY <1>2, <1>4 DEF Done
  <2>2. ASSUME NEW k \in Key, k # l PROVE Done(k)' <=> Done(k)
    BY <1>4, <2>2 DEF Done
  <2>3. \A k \in Key : rows'[k] # NoRow => tasks[k] # "none"
    BY <1>1, <1>2, <1>4 DEF Tidy, TidyTables
  <2> QED
    BY <2>1, <2>2, <2>3
<1>8. \A k \in Key : EventsOf(k)' = EventsOf(k)
  BY <1>4 DEF EventsOf
<1>9. TidyTables'
  <2>1. \A k \in Key : Done(k)' => \E i \in EventsOf(k) :
                          i <= run.cursor + 1 /\ rows'[k].upd = log[i].ans.upd
    BY <1>1, <1>4, <1>7 DEF Tidy, TidyTables
  <2> QED
    BY <1>1, <1>4, <1>7, <1>8, <2>1 DEF Tidy, TidyTables
<1>10. Tidy(q)'
  BY <1>1, <1>2, <1>4, <1>6, <1>9 DEF Tidy
<1>11. LogGrows
  BY <1>4, Types DEF Whole, LogGrows
<1>12. /\ Current(q)' = Current(procs[p])
       /\ \A k \in Key : Here(q, k)' <=> Here(procs[p], k)
  BY <1>2, <1>4, <1>6 DEF Current, Here
<1>13. BranchInv(p)'
  BY <1>4, <1>5, <1>8, <1>10, <1>11, <1>12, BranchKept
<1> QED
  BY <1>7, <1>13

LEMMA BranchFinish ==
    ASSUME NEW p \in Procs, Whole(p), NEW l \in Key, Complete(l) \/ GiveUp(l)
    PROVE  BranchInv(p)'
<1>1. Tidy(procs[p])
  BY DEF Whole, BranchInv
<1>2. tasks[l] = "open"
  BY <1>1 DEF Complete, GiveUp, Tidy, TidyTables
<1>3. PICK e : /\ e.task = l /\ log' = Append(log, e) /\ e \in Event
               /\ tasks' = [tasks EXCEPT ![l] = "done"]
  <2>1. ASSUME Complete(l) PROVE \E ans \in Answer : Finish(l, "completed", ans)
    BY <2>1, EngineAssumption, Keys DEF Complete
  <2>2. ASSUME GiveUp(l) PROVE \E kind \in TerminalKinds : Finish(l, kind, BlankAnswer)
    BY <2>2, EngineAssumption DEF GiveUp, TerminalKinds
  <2>3. \E kind \in TerminalKinds, ans \in Answer : Finish(l, kind, ans)
    BY <2>1, <2>2, BlankTypes DEF TerminalKinds
  <2> QED
    BY <2>3 DEF Finish, Event
<1>4. UNCHANGED <<run, rows, procs>>
  BY DEF Complete, GiveUp, Finish, store
<1>5. /\ Len(log) \in Nat /\ Len(log') = Len(log) + 1 /\ log'[Len(log) + 1] = e
      /\ \A i \in 1..Len(log) : log'[i] = log[i]
      /\ log \in Seq(Event) /\ log' \in Seq(Event)
  BY <1>3, Types DEF Whole
<1>6. LogGrows
  BY <1>5 DEF LogGrows
<1>7. \A i : i \in 1..Len(log') <=> i \in 1..Len(log) \/ i = Len(log) + 1
  BY <1>5
<1>8. /\ EventsOf(l) = {} /\ EventsOf(l)' = {Len(log) + 1}
      /\ \A k \in Key : k # l => EventsOf(k)' = EventsOf(k)
  <2>1. EventsOf(l) = {}
    BY <1>1, <1>2 DEF Tidy, TidyTables
  <2>2. EventsOf(l)' = {Len(log) + 1}
    BY <1>3, <1>5, <1>7, <2>1 DEF EventsOf
  <2>3. ASSUME NEW k \in Key, k # l PROVE EventsOf(k)' = EventsOf(k)
    BY <1>3, <1>5, <1>7, <2>3 DEF EventsOf
  <2> QED
    BY <2>1, <2>2, <2>3
<1>9. tasks'[l] = "done" /\ \A k \in Key : k # l => tasks'[k] = tasks[k]
  BY <1>3, Types DEF Whole
<1>10. \A k \in Key : Done(k)' <=> Done(k)
  BY <1>4 DEF Done
<1>11. TidyTables'
  <2>1. ASSUME NEW k \in Key
        PROVE  /\ rows[k] # NoRow => tasks'[k] # "none"
               /\ tasks'[k] # "blocked"
               /\ tasks'[k] = "done" <=> EventsOf(k)' # {}
               /\ Done(k) => \E i \in EventsOf(k)' :
                     i <= run.cursor + 1 /\ rows[k].upd = log'[i].ans.upd
    <3>1. ~Done(l)
      BY <1>1, <1>8 DEF Tidy, TidyTables
    <3>2. \A i \in EventsOf(k) : log'[i] = log[i]
      BY <1>5 DEF EventsOf
    <3>3. CASE k = l
      BY <1>8, <1>9, <3>1, <3>3
    <3>4. CASE k # l
      BY <1>1, <1>8, <1>9, <3>2, <3>4 DEF Tidy, TidyTables
    <3> QED
      BY <3>3, <3>4
  <2>2. \A i, j \in 1..Len(log') : log'[i].task = log'[j].task => i = j
    <3>1. \A i \in 1..Len(log) : log[i].task # l
      BY <1>8 DEF EventsOf
    <3> QED
      BY <1>1, <1>3, <1>5, <1>7, <3>1 DEF Tidy, TidyTables
  <2>3. run.status = "NONE" => \A k \in Key : tasks'[k] = "none"
    BY <1>1, <1>2, <1>9 DEF Tidy, TidyTables
  <2> QED
    BY <1>4, <1>10, <2>1, <2>2, <2>3 DEF TidyTables
<1>12. PICK q : q = procs[p] /\ procs'[p] = q
  BY <1>4
<1>13. Tidy(q)'
  <2>1. \A k \in Key : k \in q.todo => tasks'[k] = "none"
    BY <1>1, <1>2, <1>9, <1>12 DEF Tidy
  <2>2. q.cur # NoKey => q.phase = "write" /\ rows[q.cur] = NoRow /\ tasks'[q.cur] # "none"
    <3>1. q.cur # NoKey => q.cur \in Key
      BY <1>12, Types DEF Whole, Proc
    <3> QED
      BY <1>1, <1>9, <1>12, <3>1 DEF Tidy
  <2> QED
    BY <1>1, <1>4, <1>11, <1>12, <2>1, <2>2 DEF Tidy
<1>14. /\ Current(q)' = Current(procs[p])
       /\ \A k \in Key : Here(q, k)' <=> Here(procs[p], k)
  BY <1>2, <1>4, <1>9, <1>12 DEF Current, Here
<1>15. \A k \in Key : tasks[k] = "done" =>
            tasks'[k] = "done" /\ EventsOf(k)' = EventsOf(k)
  BY <1>2, <1>8, <1>9
<1> QED
  BY <1>6, <1>12, <1>13, <1>14, <1>15, BranchKept

\* The last advance of a run leaves nothing behind: no token, so no further event
\* of its cards.
LEMMA BranchSaveRun ==
    ASSUME NEW p \in Procs, Whole(p), SaveRun(p)
    PROVE  BranchInv(p)'
<1>1. Tidy(procs[p])
  BY DEF Whole, BranchInv
<1>2. /\ procs[p].phase = "write" /\ procs[p].cur = NoKey /\ procs[p].todo = {}
      /\ procs[p].block = NoKey /\ procs[p].save # NoRun
      /\ run' = procs[p].save /\ UNCHANGED <<rows, tasks, log>>
  BY DEF SaveRun, Dispatched, Writing, board
<1>3. PICK q : q = Continue(procs[p].batch) /\ procs'[p] = q
  BY Types DEF Whole, SaveRun
<1>4. Current(procs[p]) = run' /\ Current(procs[p]) = procs[p].save
  BY <1>2 DEF Current
<1>5. /\ q.todo = {} /\ q.cur = NoKey /\ q.block = NoKey /\ q.save = NoRun
      /\ q.phase = IF procs[p].batch = {} THEN "idle" ELSE "read"
  BY <1>3 DEF Continue, IdleProc
<1>6. /\ run'.cursor = run.cursor + 1 /\ run'.cursor <= Len(log)
      /\ Gapless(procs[p].batch, run'.cursor)
  BY <1>2 DEF Whole, CoverInv, Proceeds
<1>7. procs[p].batch # {} => run'.status \in Active
  <2> SUFFICES ASSUME NEW i \in procs[p].batch PROVE run'.status \in Active
    OBVIOUS
  <2>1. i \in 1..Len(log) /\ i > run'.cursor
    BY <1>6 DEF Gapless
  <2>2. PICK k \in Key : k = log[i].task
    BY <2>1, Types DEF Whole
  <2>3. tasks[k] # "none" /\ EventsOf(k) = {i}
    BY <1>1, <2>1, <2>2 DEF Whole, WorkInv, Tidy, TidyTables, EventsOf
  <2>4. Live(procs[p], k)
    BY <1>4, <2>1, <2>3 DEF Live, Here
  <2>5. PICK c \in Counts, T \in SUBSET Nodes : Tokens(procs[p], c, T)
    BY DEF Whole, BranchInv
  <2>6. T # {}
    BY <2>4, <2>5 DEF Tokens, Tally
  <2> QED
    BY <1>4, <2>5, <2>6 DEF Tokens, Goes
<1>8. run'.status # "NONE" /\ run'.status # "PAUSED_HUMAN"
  <2>1. run'.status # "NONE"
    BY <1>2 DEF Whole, SoloInv
  <2> QED
    BY <1>1, <1>2, <2>1 DEF Tidy
<1>9. TidyTables'
  <2>1. \A k \in Key : EventsOf(k)' = EventsOf(k) /\ (Done(k)' <=> Done(k))
    BY <1>2 DEF EventsOf, Done
  <2>2. ASSUME NEW k \in Key, Done(k)
        PROVE  \E i \in EventsOf(k) : i <= run'.cursor + 1 /\ rows[k].upd = log[i].ans.upd
    <3>1. PICK i \in EventsOf(k) : i <= run.cursor + 1 /\ rows[k].upd = log[i].ans.upd
      BY <1>1, <2>2 DEF Tidy, TidyTables
    <3>2. i \in Nat /\ run.cursor \in Nat
      BY Types DEF Whole, EventsOf
    <3>3. i <= run'.cursor + 1
      BY <1>6, <3>1, <3>2
    <3> QED
      BY <3>1, <3>3
  <2> QED
    BY <1>1, <1>2, <1>8, <2>1, <2>2 DEF Tidy, TidyTables
<1>10. Tidy(q)'
  BY <1>5, <1>7, <1>8, <1>9 DEF Tidy, NoRun
<1>11. LogGrows
  BY <1>2, Types DEF Whole, LogGrows
<1>12. Current(q)' = Current(procs[p])
  BY <1>4, <1>5 DEF Current
<1>13. \A k \in Key : /\ Here(q, k)' <=> Here(procs[p], k)
                      /\ EventsOf(k)' = EventsOf(k)
  BY <1>2, <1>5 DEF Here, EventsOf
<1> QED
  BY <1>2, <1>3, <1>10, <1>11, <1>12, <1>13, BranchKept

\* The board answers every call, nothing crashes, and there is no card to block.
LEMMA BranchNever ==
    ASSUME NEW p \in Procs, Whole(p), Undisturbed(p),
           CreateCardFails(p) \/ BlockCard(p) \/ Crash(p)
    PROVE  FALSE
<1>1. boardErrors = 0 /\ crashes = 0
  BY DEF Whole, IInv, TypeOK, Undisturbed
<1>2. procs[p].block = NoKey
  BY DEF Whole, BranchInv, Tidy
<1> QED
  BY <1>1, <1>2 DEF CreateCardFails, BlockCard, Crash, Undisturbed

-----------------------------------------------------------------------------
(***************************************************************************)
(* The decisions.                                                          *)
(***************************************************************************)
\* What the process has in hand: the card of a token.
LEMMA Deciders ==
    ASSUME Structured, NEW p \in Procs, Whole(p), Planning(p),
           NEW c \in Counts, NEW T \in SUBSET Nodes, Tokens(procs[p], c, T)
    PROVE  /\ procs[p].evt = run.cursor + 1 /\ procs[p].evt \in 1..Len(log)
           /\ EventOf(p) = log[procs[p].evt] /\ EventOf(p) \in Event
           /\ EventOf(p).task = <<NodeOf(p), c[NodeOf(p)]>>
           /\ EventOf(p).task \in Key
           /\ procs[p].snap = run /\ run.status = "RUNNING"
           /\ Current(procs[p]) = run /\ procs[p].todo = {} /\ procs[p].cur = NoKey
           /\ NodeOf(p) \in T /\ NodeOf(p) \in Nodes
           /\ Carded(NodeOf(p))
           /\ Shape[NodeOf(p)] \in CardShapes \union {"FAN_IN", "TOOL"}
           /\ \A n \in Nodes : c[n] \in Nat
<1> DEFINE e == procs[p].evt
           m == NodeOf(p)
<1>1. procs[p].phase = "plan"
  BY DEF Planning
<1>2. /\ e = run.cursor + 1 /\ e \in 1..Len(log) /\ EventOf(p) = log[e]
      /\ EventOf(p) \in Event /\ m = EventOf(p).task[1] /\ m \in Nodes
      /\ procs[p].snap = run
  BY <1>1, InHand DEF Whole, CoverInv, Proceeds, SoloInv
<1>3. Tidy(procs[p])
  BY DEF Whole, BranchInv
<1>4. /\ run.status = "RUNNING" /\ Current(procs[p]) = run /\ procs[p].todo = {}
      /\ procs[p].cur = NoKey
  BY <1>1, <1>3 DEF Tidy, Current, Active
<1>5. PICK k \in Key : k = EventOf(p).task
  BY <1>2 DEF Event
<1>6. tasks[k] # "none"
  BY <1>2, <1>5 DEF Whole, WorkInv
<1>7. \A i \in EventsOf(k) : i = e
  BY <1>2, <1>3, <1>5 DEF Tidy, TidyTables, EventsOf
<1>8. Live(procs[p], k)
  <2>1. e > run.cursor
    BY <1>2, Types DEF Whole
  <2> QED
    BY <1>4, <1>6, <1>7, <2>1 DEF Live, Here
<1>9. k[1] \in T /\ k[2] = c[k[1]]
  BY <1>8 DEF Tokens, Tally
<1>10. Carded(m)
  BY <1>2, <1>5, <1>6 DEF Whole, WorkInv, Earned
<1>11. \A n \in Nodes : c[n] \in Nat
  BY CountsNat
<1>12. k = <<k[1], k[2]>>
  BY Keys
<1> QED
  BY <1>2, <1>4, <1>5, <1>9, <1>10, <1>11, <1>12 DEF Structured

\* The attempt number is counted from the rows.
LEMMA NextCount ==
    ASSUME Structured, NEW p \in Procs, Whole(p), Planning(p),
           NEW c \in Counts, NEW T \in SUBSET Nodes, Tokens(procs[p], c, T),
           NEW n \in Nodes
    PROVE  NextAttempt(n) = c[n] + 1
<1>1. c[n] \in Attempts \union {0} /\ c[n] \in Nat
  BY CountsNat DEF Counts
<1>2. procs[p].todo = {} /\ procs[p].cur = NoKey
  BY Deciders
<1>3. ASSUME NEW a \in Attempts PROVE rows[<<n, a>>] # NoRow <=> a <= c[n]
  <2>1. <<n, a>> \in Key
    BY DEF Key
  <2>2. tasks[<<n, a>>] # "none" <=> a <= c[n]
    BY <1>2, <2>1 DEF Tokens, Tally, Here
  <2>3. rows[<<n, a>>] # NoRow => tasks[<<n, a>>] # "none"
    BY <2>1 DEF Whole, BranchInv, Tidy, TidyTables
  <2>4. tasks[<<n, a>>] # "none" => rows[<<n, a>>] # NoRow
    <3>1. <<n, a>> # NoKey
      BY <2>1, EngineAssumption
    <3> QED
      BY <1>2, <2>1, <3>1 DEF Whole, CoverInv, Known, Owned
  <2> QED
    BY <2>2, <2>3, <2>4
<1>4. {a \in Attempts : rows[<<n, a>>] # NoRow} = 1..c[n]
  <2>1. \A a \in Attempts : a \in Nat /\ a >= 1
    BY EngineAssumption
  <2>2. \A a \in 1..c[n] : a \in Attempts
    BY <1>1, EngineAssumption
  <2> QED
    BY <1>1, <1>3, <2>1, <2>2
<1>5. Cardinality(1..c[n]) = c[n]
  BY <1>1, FS_Interval
<1> QED
  BY <1>4, <1>5 DEF NextAttempt

\* One more event decided on.
LEMMA OneMoreSeen ==
    ASSUME NEW S, NEW L \in Nat, S \subseteq 1..L, NEW e \in 1..L
    PROVE  /\ Cardinality({i \in S : i <= e - 1}) \in Nat
           /\ Cardinality({i \in S : i <= e}) \in Nat
           /\ Cardinality({i \in S : i <= e}) >= Cardinality({i \in S : i <= e - 1})
           /\ e \in S => Cardinality({i \in S : i <= e})
                             >= Cardinality({i \in S : i <= e - 1}) + 1
<1> DEFINE A == {i \in S : i <= e - 1}
           B == {i \in S : i <= e}
<1>1. IsFiniteSet(1..L)
  BY FS_Interval
<1>2. A \subseteq 1..L /\ B \subseteq 1..L
  OBVIOUS
<1>0. /\ \A i \in A : i \in B /\ i # e
      /\ \A i \in B : i \in A \/ i = e
      /\ e \in S => e \in B
  <2>0. e <= e
    OBVIOUS
  <2> SUFFICES ASSUME NEW i \in S PROVE i <= e <=> i <= e - 1 \/ i = e
    BY <2>0
  <2>1. i \in Nat /\ e \in Nat
    OBVIOUS
  <2> QED
    BY <2>1
<1>3. A \subseteq B
  BY <1>0
<1>4. IsFiniteSet(A) /\ IsFiniteSet(B)
  BY <1>1, <1>2, FS_Subset
<1>5. /\ Cardinality(A) \in Nat /\ Cardinality(B) \in Nat
      /\ Cardinality(A) <= Cardinality(B)
  BY <1>3, <1>4, FS_CardinalityType, FS_Subset
<1>6. ASSUME e \in S PROVE Cardinality(B) = Cardinality(A) + 1
  <2> HIDE DEF A, B
  <2>1. B = A \union {e} /\ e \notin A
    BY <1>0, <1>6
  <2> QED
    BY <1>4, <2>1, FS_AddElement
<1> HIDE DEF A, B
<1>7. Cardinality(B) >= Cardinality(A)
  BY <1>5
<1>8. e \in S => Cardinality(B) >= Cardinality(A) + 1
  BY <1>5, <1>6
<1> QED
  BY <1>5, <1>7, <1>8 DEF A, B

\* The failures decided on before and after the event in hand.
SeenTo(i) == Cardinality({j \in GateFailures : j <= i})

\* What a decision does to the tokens: the one in hand leaves for the nodes N.
LEMMA BranchDecides ==
    ASSUME Structured, NEW p \in Procs, Whole(p), Planning(p),
           NEW c \in Counts, NEW T \in SUBSET Nodes, Tokens(procs[p], c, T),
           NEW N \in SUBSET Nodes, NEW keys, keys = {<<n, c[n] + 1>> : n \in N},
           NEW saved, Dispatch(p, keys, NoKey, saved), saved # NoRun,
           saved.cursor = procs[p].evt, saved.status # "PAUSED_HUMAN",
           NEW U, U = (T \ {NodeOf(p)}) \union N, N \intersect (T \ {NodeOf(p)}) = {},
           Flow(Visit(c, N), U, SeenTo(procs[p].evt)),
           U # {} => saved.status \in Active,
           WaysOn /\ saved.status \in Active => U # {},
           \A j \in N : Shape[j] = "FAN_IN" /\ c[j] = 0 =>
               /\ \A n \in Predecessors(j) : tasks[<<n, 1>>] = "done"
               /\ \A k \in Flags : \A n \in LastWriter(j, k) :
                     \A i \in EventsOf(<<n, 1>>) : saved.ctx[k] = log[i].ans.upd[k]
    PROVE  BranchInv(p)'
<1>1. PICK m, e, d : m = NodeOf(p) /\ e = procs[p].evt /\ d = Visit(c, N)
  OBVIOUS
<1>2. /\ e = run.cursor + 1 /\ e \in 1..Len(log) /\ log[e].task = <<m, c[m]>>
      /\ <<m, c[m]>> \in Key /\ run.status = "RUNNING"
      /\ Current(procs[p]) = run /\ procs[p].todo = {} /\ procs[p].cur = NoKey
      /\ m \in T /\ m \in Nodes /\ \A n \in Nodes : c[n] \in Nat
  BY <1>1, Deciders
<1>3. PICK q : /\ q = [procs[p] EXCEPT !.phase = "write", !.todo = keys,
                                       !.block = NoKey, !.save = saved]
               /\ procs'[p] = q /\ keys \subseteq Key
  BY Types DEF Whole, Dispatch
<1>4. /\ q.phase = "write" /\ q.todo = keys /\ q.block = NoKey /\ q.save = saved
      /\ q.cur = NoKey
  BY <1>2, <1>3, Types DEF Whole, Proc
<1>5. UNCHANGED <<run, rows, tasks, log>>
  BY DEF Dispatch, store, board
<1>6. Tidy(procs[p])
  BY DEF Whole, BranchInv
<1>7. \A n \in Nodes : d[n] = IF n \in N THEN c[n] + 1 ELSE c[n]
  BY <1>1 DEF Visit
<1>8. d \in Counts
  <2>1. ASSUME NEW n \in N PROVE c[n] + 1 \in Attempts
    <3>1. <<n, c[n] + 1>> \in Key
      BY <1>3
    <3> QED
      BY <3>1 DEF Key
  <2> QED
    BY <1>1, <2>1 DEF Counts, Visit
<1>9. \A k \in Key : k \in keys <=> k[1] \in N /\ k[2] = c[k[1]] + 1
  <2> SUFFICES ASSUME NEW k \in Key
               PROVE  k \in keys <=> k[1] \in N /\ k[2] = c[k[1]] + 1
    OBVIOUS
  <2>1. k = <<k[1], k[2]>>
    BY Keys
  <2> QED
    BY <2>1
<1>10. \A k \in Key : tasks[k] # "none" <=> k[2] <= c[k[1]]
  BY <1>2 DEF Tokens, Tally, Here
<1>11. \A k \in keys : tasks[k] = "none"
  <2> SUFFICES ASSUME NEW k \in keys PROVE tasks[k] = "none"
    OBVIOUS
  <2>1. k \in Key /\ k[1] \in N /\ k[2] = c[k[1]] + 1 /\ c[k[1]] \in Nat
    BY <1>2, <1>3, <1>9, Keys
  <2> QED
    BY <1>10, <2>1
<1>12. Tidy(q)'
  <2>1. TidyTables'
    BY <1>5, <1>6 DEF Tidy, TidyTables, EventsOf, Done
  <2> QED
    BY <1>2, <1>4, <1>5, <1>11, <2>1 DEF Tidy, Active
<1>13. Current(q)' = saved
  BY <1>4 DEF Current
\* Of the old cards only those of the other tokens remain undecided.
<1>14. ASSUME NEW k \in Key, tasks[k] # "none", k[1] \notin T \ {m}
       PROVE  ~(\A i \in EventsOf(k) : i > e)
  <2>1. CASE k[1] = m /\ k[2] = c[m]
    <3>1. e \in EventsOf(k) /\ ~(e > e)
      BY <1>2, <2>1, Keys DEF EventsOf
    <3> QED
      BY <3>1
  <2>2. CASE ~(k[1] = m /\ k[2] = c[m])
    <3>1. ~Live(procs[p], k)
      BY <1>14, <2>2 DEF Tokens, Tally
    <3>2. PICK i \in EventsOf(k) : ~(i > run.cursor)
      BY <1>2, <1>14, <3>1 DEF Live, Here
    <3>3. i \in Nat /\ run.cursor \in Nat
      BY Types DEF Whole, EventsOf
    <3>4. ~(i > e)
      BY <1>2, <3>2, <3>3
    <3> QED
      BY <3>4
  <2> QED
    BY <2>1, <2>2
<1>15. ASSUME NEW k \in Key
       PROVE  /\ Here(q, k)' <=> k[2] <= d[k[1]]
              /\ Live(q, k)' <=> k[1] \in U /\ k[2] = d[k[1]]
  <2>1. k[1] \in Nodes /\ k[2] \in Nat /\ c[k[1]] \in Nat /\ k = <<k[1], k[2]>>
    BY <1>2, Keys
  <2>2. Here(q, k)' <=> tasks[k] # "none" \/ k \in keys
    BY <1>4, <1>5 DEF Here
  <2>3. Here(q, k)' <=> k[2] <= d[k[1]]
    BY <1>7, <1>9, <1>10, <2>1, <2>2
  <2>4. Live(q, k)' <=> Here(q, k)' /\ \A i \in EventsOf(k) : i > e
    BY <1>1, <1>5, <1>13 DEF Live, EventsOf
  <2>5. CASE k \in keys
    <3>1. EventsOf(k) = {}
      BY <1>6, <1>11, <2>5 DEF Tidy, TidyTables
    <3>2. k[1] \in U /\ k[2] = d[k[1]]
      BY <1>7, <1>9, <2>1, <2>5
    <3> QED
      BY <2>2, <2>3, <2>4, <2>5, <3>1, <3>2
  <2>6. CASE k \notin keys /\ k[1] \in N
    <3>1. k[2] # d[k[1]]
      BY <1>7, <1>9, <2>1, <2>6
    <3>2. tasks[k] # "none" => ~(\A i \in EventsOf(k) : i > e)
      BY <1>1, <1>14, <2>6
    <3> QED
      BY <2>2, <2>3, <2>4, <2>6, <3>1, <3>2
  <2>7. CASE k[1] \notin N
    <3>1. d[k[1]] = c[k[1]] /\ k \notin keys
      BY <1>7, <1>9, <2>1, <2>7
    <3>2. CASE k[1] = m
      <4>1. k[1] \notin U
        BY <1>1, <2>7, <3>2
      <4>2. tasks[k] # "none" => ~(\A i \in EventsOf(k) : i > e)
        BY <1>14, <3>2
      <4> QED
        BY <2>2, <2>3, <2>4, <3>1, <4>1, <4>2
    <3>3. CASE k[1] # m
      <4>1. \A i \in EventsOf(k) : i > e <=> i > run.cursor
        <5> SUFFICES ASSUME NEW i \in EventsOf(k) PROVE i > e <=> i > run.cursor
          OBVIOUS
        <5>1. i # e /\ i \in Nat /\ run.cursor \in Nat
          BY <1>2, <3>3, Types DEF Whole, EventsOf
        <5> QED
          BY <1>2, <5>1
      <4>2. Live(q, k)' <=> Live(procs[p], k)
        BY <1>2, <2>2, <2>4, <3>1, <4>1 DEF Live, Here
      <4>3. k[1] \in U <=> k[1] \in T
        BY <1>1, <2>7, <3>3
      <4> QED
        BY <2>3, <3>1, <4>2, <4>3 DEF Tokens, Tally
    <3> QED
      BY <3>2, <3>3
  <2> QED
    BY <2>3, <2>5, <2>6, <2>7
<1>16. Tally(q, d, U)'
  BY <1>15 DEF Tally
<1>17. \E f \in Nat : f = Cardinality(FailuresSeen(q))' /\ Flow(d, U, f)'
  <2>1. FailuresSeen(q)' = {j \in GateFailures : j <= e}
    BY <1>1, <1>5, <1>13 DEF FailuresSeen, GateFailures
  <2>2. SeenTo(e) \in Nat
    <3>1. GateFailures \subseteq 1..Len(log) /\ Len(log) \in Nat
      BY Types DEF Whole, GateFailures
    <3>2. PICK S, L : S = GateFailures /\ L = Len(log)
      OBVIOUS
    <3>3. S \subseteq 1..L /\ L \in Nat /\ e \in 1..L
      BY <1>2, <3>1, <3>2
    <3>4. Cardinality({j \in S : j <= e}) \in Nat
      BY <3>3, OneMoreSeen
    <3> QED
      BY <3>2, <3>4 DEF SeenTo
  <2> QED
    BY <1>1, <2>1, <2>2, RigidFlow DEF SeenTo
<1>18. Goes(q, U)'
  BY <1>13, RigidFlow DEF Goes
<1>19. MergedInto(q, d, U)'
  <2> SUFFICES ASSUME NEW j \in U, Shape[j] = "FAN_IN", d[j] = 1
               PROVE  /\ \A n \in Predecessors(j) : tasks'[<<n, 1>>] = "done"
                      /\ \A k \in Flags : \A n \in LastWriter(j, k)' :
                            \A i \in EventsOf(<<n, 1>>)' :
                               Current(q)'.ctx[k] = log'[i].ans.upd[k]
    BY RigidFlow DEF MergedInto
  <2>1. \A k : LastWriter(j, k)' = LastWriter(j, k)
    BY <1>5, RigidFlow DEF LastWriter, EventsOf
  <2>2. \A n : EventsOf(<<n, 1>>)' = EventsOf(<<n, 1>>)
    BY <1>5 DEF EventsOf
  <2>3. CASE j \in N
    <3>1. c[j] = 0
      BY <1>2, <1>7, <2>3
    <3> QED
      BY <1>5, <1>13, <2>1, <2>2, <2>3, <3>1
  <2>4. CASE j \notin N
    <3>1. Predecessors(j) = {}
      <4> SUFFICES ASSUME NEW t \in Predecessors(j) PROVE FALSE
        OBVIOUS
      <4>1. PICK y \in Edges : y.dst = j /\ y.src = t
        BY DEF Predecessors
      <4>2. Main(j)
        BY <4>1, EdgeJoins DEF Joins
      <4>3. T = {j}
        BY <2>4, <4>2, MainAlone DEF Tokens, Flow
      <4> QED
        BY <1>1, <1>2, <2>4, <4>3
    <3>2. \A k : LastWriter(j, k) = {}
      BY <3>1 DEF LastWriter
    <3> QED
      BY <2>1, <3>1, <3>2
  <2> QED
    BY <2>3, <2>4
<1>20. Tokens(q, d, U)'
  BY <1>16, <1>17, <1>18, <1>19 DEF Tokens
<1>21. U \in SUBSET Nodes
  OBVIOUS
<1> QED
  BY <1>3, <1>8, <1>12, <1>20, <1>21, Retold

LEMMA DecidersFlow ==
    ASSUME Structured, NEW p \in Procs, Whole(p), Planning(p),
           NEW c \in Counts, NEW T \in SUBSET Nodes, Tokens(procs[p], c, T)
    PROVE  /\ SeenTo(procs[p].evt) \in Nat
           /\ \E f \in Nat : /\ Flow(c, T, f) /\ SeenTo(procs[p].evt) >= f
                             /\ GateFailed(p) => SeenTo(procs[p].evt) >= f + 1
<1>1. PICK S, L, e : S = GateFailures /\ L = Len(log) /\ e = procs[p].evt
  OBVIOUS
<1>2. /\ e = run.cursor + 1 /\ e \in 1..L /\ L \in Nat /\ S \subseteq 1..L
      /\ EventOf(p) = log[e] /\ EventOf(p) \in Event /\ Current(procs[p]) = run
      /\ run.cursor = e - 1
  <2>1. /\ e = run.cursor + 1 /\ e \in 1..L /\ EventOf(p) = log[e]
        /\ EventOf(p) \in Event /\ Current(procs[p]) = run
    BY <1>1, Deciders
  <2>2. run.cursor \in Nat /\ Len(log) \in Nat
    BY Types DEF Whole
  <2>3. S \subseteq 1..L
    BY <1>1 DEF GateFailures
  <2> QED
    BY <1>1, <2>1, <2>2, <2>3
<1>3. FailuresSeen(procs[p]) = {i \in S : i <= e - 1}
  BY <1>1, <1>2 DEF FailuresSeen
<1>4. PICK f \in Nat : f = Cardinality({i \in S : i <= e - 1}) /\ Flow(c, T, f)
  BY <1>3 DEF Tokens
<1>5. /\ SeenTo(e) \in Nat /\ SeenTo(e) >= f
      /\ e \in S => SeenTo(e) >= f + 1
  <2>1. SeenTo(e) = Cardinality({i \in S : i <= e})
    BY <1>1 DEF SeenTo
  <2> QED
    BY <1>2, <1>4, <2>1, OneMoreSeen
<1>6. GateFailed(p) => e \in S
  <2>1. GateFailed(p) => NodeOf(p) \in Gates /\ AnswerOf(p).verdict # "pass"
    BY DEF GateFailed, GatePassed
  <2> QED
    BY <1>1, <1>2, <2>1 DEF NodeOf, AnswerOf, GateFailures, Event, Answer
<1> QED
  BY <1>1, <1>4, <1>5, <1>6

LEMMA SavedFields ==
    ASSUME NEW p, NEW status, NEW ctx, status # "NONE"
    PROVE  /\ Saved(p, status, ctx).status = status
           /\ Saved(p, status, ctx).cursor = procs[p].evt
           /\ Saved(p, status, ctx).ctx = ctx
           /\ Saved(p, status, ctx) # NoRun
<1>1. /\ Saved(p, status, ctx).status = status
      /\ Saved(p, status, ctx).cursor = procs[p].evt
      /\ Saved(p, status, ctx).ctx = ctx
  BY DEF Saved
<1>2. NoRun.status = "NONE"
  BY DEF NoRun
<1> QED
  BY <1>1, <1>2

\* No card: the token disappears.
LEMMA DecideDrop ==
    ASSUME Structured, NEW p \in Procs, Whole(p), Planning(p),
           NEW c \in Counts, NEW T \in SUBSET Nodes, Tokens(procs[p], c, T),
           NEW status, NEW ctx, Dispatch(p, {}, NoKey, Saved(p, status, ctx)),
           status \in {"RUNNING", "SUCCEEDED", "BLOCKED"},
           WaysOn => Main(NodeOf(p)) \/ Thread[NodeOf(p)] = NodeOf(p),
           IF T \ {NodeOf(p)} = {} THEN WaysOn => status # "RUNNING"
                                   ELSE status = "RUNNING"
    PROVE  BranchInv(p)'
<1>1. PICK m, U, saved, fs :
         /\ m = NodeOf(p) /\ U = (T \ {m}) \union {} /\ saved = Saved(p, status, ctx)
         /\ fs = SeenTo(procs[p].evt)
  OBVIOUS
<1>2. /\ saved.status = status /\ saved.cursor = procs[p].evt /\ saved # NoRun
  BY <1>1, SavedFields
<1>3. m \in T /\ \A n \in Nodes : c[n] \in Nat
  BY <1>1, Deciders
<1>4. c \in [Nodes -> Nat] /\ Visit(c, {}) = c
  BY CountsNat DEF Visit
<1>5. Flow(c, U, fs)
  <2>1. PICK f \in Nat : Flow(c, T, f) /\ fs >= f /\ fs \in Nat
    BY <1>1, DecidersFlow
  <2> QED
    BY <1>1, <1>3, <1>4, <2>1, FlowDrop
<1>6. PICK N : N = {}
  OBVIOUS
<1>7. /\ N \in SUBSET Nodes /\ {} = {<<n, c[n] + 1>> : n \in N}
      /\ N \intersect (T \ {m}) = {} /\ U = (T \ {m}) \union N /\ U = T \ {m}
  BY <1>1, <1>6
<1>8. /\ saved.status \in Active <=> status = "RUNNING"
      /\ saved.status # "PAUSED_HUMAN"
  BY <1>2 DEF Active
<1>9. /\ U # {} => saved.status \in Active
      /\ WaysOn /\ saved.status \in Active => U # {}
  BY <1>1, <1>7, <1>8
<1>10. Flow(Visit(c, N), U, fs) /\ Dispatch(p, {}, NoKey, saved)
  BY <1>1, <1>4, <1>5, <1>6
<1> QED
  BY <1>1, <1>2, <1>6, <1>7, <1>8, <1>9, <1>10, BranchDecides

\* The next card on the same thread.
LEMMA DecideAlong ==
    ASSUME Structured, NEW p \in Procs, Whole(p), Planning(p),
           NEW c \in Counts, NEW T \in SUBSET Nodes, Tokens(procs[p], c, T),
           NEW n \in Nodes, Along(NodeOf(p), n), Shape[n] # "FAN_IN", NEW ctx,
           Dispatch(p, {<<n, c[n] + 1>>}, NoKey, Saved(p, "RUNNING", ctx))
    PROVE  BranchInv(p)'
<1>1. PICK m, U, saved, fs :
         /\ m = NodeOf(p) /\ U = (T \ {m}) \union {n} /\ saved = Saved(p, "RUNNING", ctx)
         /\ fs = SeenTo(procs[p].evt)
  OBVIOUS
<1>2. /\ saved.status = "RUNNING" /\ saved.cursor = procs[p].evt /\ saved # NoRun
  BY <1>1, SavedFields
<1>3. m \in T /\ c \in [Nodes -> Nat]
  BY <1>1, Deciders, CountsNat
<1>4. PICK f \in Nat : Flow(c, T, f) /\ fs >= f /\ fs \in Nat
  BY <1>1, DecidersFlow
<1>5. Flow(Visit(c, {n}), U, fs)
  BY <1>1, <1>3, <1>4, FlowAlong
<1>6. {n} \intersect (T \ {m}) = {}
  <2> SUFFICES ASSUME n \in T, n # m PROVE FALSE
    OBVIOUS
  <2>1. Thread[n] = Thread[m]
    BY <1>1 DEF Along
  <2> QED
    BY <1>3, <1>4, <2>1 DEF Flow, Spread, Apart
<1>7. {<<n, c[n] + 1>>} = {<<k, c[k] + 1>> : k \in {n}}
  OBVIOUS
<1> QED
  BY <1>1, <1>2, <1>5, <1>6, <1>7, BranchDecides DEF Active

\* The branches of a fork.
LEMMA DecideFork ==
    ASSUME Structured, NEW p \in Procs, Whole(p), PlanFanOut(p)
    PROVE  BranchInv(p)'
<1>1. Planning(p) /\ IsFanOut(p)
  BY DEF PlanFanOut
<1>2. PICK c \in Counts, T \in SUBSET Nodes : Tokens(procs[p], c, T)
  BY DEF Whole, BranchInv
<1>3. PICK m, H, U, saved, fs :
         /\ m = NodeOf(p) /\ H = HeadsOf(m) /\ U = (T \ {m}) \union H
         /\ saved = Saved(p, "RUNNING", CtxOf(p)) /\ fs = SeenTo(procs[p].evt)
  OBVIOUS
<1>4. /\ m \in T /\ m \in Nodes /\ c \in [Nodes -> Nat] /\ procs[p].snap.status = "RUNNING"
      /\ Carded(m) /\ Shape[m] = "FAN_OUT"
  BY <1>1, <1>2, <1>3, Deciders, CountsNat DEF IsFanOut
<1>5. PICK f \in Nat : Flow(c, T, f) /\ fs >= f /\ fs \in Nat
  BY <1>1, <1>2, <1>3, DecidersFlow
<1>6. Dispatch(p, {<<n, 1>> : n \in H}, NoKey, saved)
  <2>1. {<<e.dst, 1>> : e \in Out(m)} = {<<n, 1>> : n \in H}
    BY <1>3 DEF HeadsOf
  <2> QED
    BY <1>3, <1>4, <2>1 DEF PlanFanOut
<1>7. CASE H = {}
  <2>1. ~WaysOn
    BY <1>3, <1>4, <1>7 DEF WaysOn, HeadsOf
  <2>2. Dispatch(p, {}, NoKey, saved)
    BY <1>6, <1>7
  <2> QED
    BY <1>1, <1>2, <1>3, <2>1, <2>2, DecideDrop
<1>8. CASE H # {}
  <2>1. (\A h \in H : c[h] = 0) /\ Flow(Visit(c, H), U, fs)
    BY <1>3, <1>4, <1>5, <1>8, FlowFork
  <2>2. /\ H \subseteq Nodes /\ Main(m)
        /\ \A h \in H : ~Main(h) /\ Shape[h] # "FAN_IN"
    BY <1>3, <1>4, <1>8, Heads
  <2>3. {<<n, 1>> : n \in H} = {<<n, c[n] + 1>> : n \in H}
    BY <2>1
  <2>4. T = {m}
    BY <1>4, <1>5, <2>2, MainAlone DEF Flow
  <2>5. /\ saved.status = "RUNNING" /\ saved.cursor = procs[p].evt /\ saved # NoRun
    BY <1>3, SavedFields
  <2> QED
    BY <1>1, <1>2, <1>3, <1>6, <1>8, <2>1, <2>2, <2>3, <2>4, <2>5, BranchDecides
       DEF Active
<1> QED
  BY <1>7, <1>8

\* The gate's target has as many cards as the gate, so the retry's is new.
LEMMA DecideRetry ==
    ASSUME Structured, NEW p \in Procs, Whole(p), PlanRetry(p)
    PROVE  BranchInv(p)' /\ tasks[RetryKey(p)] = "none"
<1>1. Planning(p) /\ GateFailed(p)
  BY DEF PlanRetry, GateFailed
<1>2. PICK c \in Counts, T \in SUBSET Nodes : Tokens(procs[p], c, T)
  BY DEF Whole, BranchInv
<1>3. PICK m, r, saved, fs :
         /\ m = NodeOf(p) /\ r = RetryTarget[m]
         /\ saved = Saved(p, "RUNNING", CtxOf(p)) /\ fs = SeenTo(procs[p].evt)
  OBVIOUS
<1>4. /\ m \in T /\ c \in [Nodes -> Nat] /\ procs[p].snap.status = "RUNNING"
      /\ EventOf(p).task = <<m, c[m]>> /\ procs[p].todo = {}
  BY <1>1, <1>2, <1>3, Deciders, CountsNat
<1>5. m \in Gates /\ r \in Nodes
  BY <1>1, <1>3, GateAssumption DEF GateFailed, GatePassed
<1>6. PICK f \in Nat : Flow(c, T, f) /\ fs >= f + 1 /\ fs \in Nat
  BY <1>1, <1>2, <1>3, DecidersFlow
<1>7. /\ c[r] = c[m] /\ T = {m}
      /\ c[m] + 1 <= GateLimit[m] => Flow(Visit(c, {r}), {r}, fs)
  BY <1>3, <1>4, <1>5, <1>6, FlowRetry
<1>8. NextTry(p) = c[r] + 1
  BY <1>4, <1>7 DEF NextTry
<1>9. c[m] + 1 <= GateLimit[m]
  <2>1. ~(c[m] + 1 > GateLimit[m])
    BY <1>3, <1>7, <1>8 DEF PlanRetry, Exhausted
  <2>2. c[m] \in Nat /\ GateLimit[m] \in Nat
    BY <1>3, <1>4, <1>5, Deciders, GateAssumption
  <2> QED
    BY <2>1, <2>2
<1>10. RetryKey(p) = <<r, c[r] + 1>>
  BY <1>3, <1>8 DEF RetryKey
<1>11. Dispatch(p, {<<k, c[k] + 1>> : k \in {r}}, NoKey, saved)
  <2>1. {<<k, c[k] + 1>> : k \in {r}} = {RetryKey(p)}
    BY <1>10
  <2> QED
    BY <1>3, <1>4, <2>1 DEF PlanRetry
<1>12. c[r] # 0
  BY <1>4, <1>6, <1>7 DEF Flow, Standing
<1>13. saved.status = "RUNNING" /\ saved.cursor = procs[p].evt /\ saved # NoRun
  BY <1>3, SavedFields
<1>14. BranchInv(p)'
  <2>1. PICK U : U = (T \ {m}) \union {r}
    OBVIOUS
  <2>2. U = {r} /\ {r} \intersect (T \ {m}) = {}
    BY <1>7, <2>1
  <2>3. Flow(Visit(c, {r}), U, fs)
    BY <1>7, <1>9, <2>2
  <2> QED
    BY <1>1, <1>2, <1>3, <1>5, <1>11, <1>12, <1>13, <2>1, <2>2, <2>3, BranchDecides
       DEF Active
<1>15. tasks[RetryKey(p)] = "none"
  <2>1. RetryKey(p) \in Key
    BY DEF PlanRetry, Dispatch
  <2>2. ~(c[r] + 1 <= c[r])
    BY <1>4, <1>5
  <2>3. ~Here(procs[p], RetryKey(p))
    BY <1>2, <1>10, <2>1, <2>2 DEF Tokens, Tally
  <2> QED
    BY <2>3 DEF Here
<1> QED
  BY <1>14, <1>15

LEMMA DecideExhausted ==
    ASSUME Structured, NEW p \in Procs, Whole(p), PlanExhausted(p)
    PROVE  BranchInv(p)'
<1>1. /\ Planning(p) /\ GateFailed(p) /\ NodeOf(p) \in Gates
      /\ Dispatch(p, {}, NoKey, Saved(p, "BLOCKED", CtxOf(p)))
  BY DEF PlanExhausted, GateFailed, GatePassed
<1>2. PICK c \in Counts, T \in SUBSET Nodes : Tokens(procs[p], c, T)
  BY DEF Whole, BranchInv
<1>3. Main(NodeOf(p))
  BY <1>1, Layers DEF Layered, Looped, Main
<1>4. NodeOf(p) \in T /\ \E f : Flow(c, T, f)
  BY <1>1, <1>2, Deciders, DecidersFlow
<1>5. T = {NodeOf(p)}
  BY <1>3, <1>4, MainAlone DEF Flow
<1> QED
  BY <1>1, <1>2, <1>3, <1>5, DecideDrop

LEMMA DecideNoEdge ==
    ASSUME Structured, NEW p \in Procs, Whole(p), PlanNoEdge(p)
    PROVE  BranchInv(p)'
<1>1. Planning(p) /\ NextEdges(p) = {}
  BY DEF PlanNoEdge, Routing
<1>2. PICK c \in Counts, T \in SUBSET Nodes : Tokens(procs[p], c, T)
  BY DEF Whole, BranchInv
<1>3. procs[p].snap.status = "RUNNING" /\ Carded(NodeOf(p)) /\ NodeOf(p) \in Nodes
  BY <1>1, <1>2, Deciders
<1>4. ~WaysOn
  BY <1>1, <1>3, AlwaysSelects DEF NextEdges
<1>5. Dispatch(p, {}, NoKey, Saved(p, "RUNNING", CtxOf(p)))
  BY <1>3 DEF PlanNoEdge, Resumed
<1> QED
  BY <1>1, <1>2, <1>4, <1>5, DecideDrop

LEMMA DecideExit ==
    ASSUME Structured, NEW p \in Procs, Whole(p), Planning(p), Main(NodeOf(p)),
           Dispatch(p, {}, NoKey, Saved(p, "SUCCEEDED", CtxOf(p)))
    PROVE  BranchInv(p)'
<1>1. PICK c \in Counts, T \in SUBSET Nodes : Tokens(procs[p], c, T)
  BY DEF Whole, BranchInv
<1>2. NodeOf(p) \in T /\ \E f : Flow(c, T, f)
  BY <1>1, Deciders, DecidersFlow
<1>3. T = {NodeOf(p)}
  BY <1>2, MainAlone DEF Flow
<1> QED
  BY <1>1, <1>3, DecideDrop

\* An ordinary card.
LEMMA DecideCard ==
    ASSUME Structured, NEW p \in Procs, Whole(p), PlanCard(p)
    PROVE  BranchInv(p)'
<1>1. Planning(p) /\ ~IsFanOut(p)
  BY DEF PlanCard, Routing
<1>2. PICK c \in Counts, T \in SUBSET Nodes : Tokens(procs[p], c, T)
  BY DEF Whole, BranchInv
<1>3. PICK e \in NextEdges(p) :
         /\ Shape[e.dst] \in CardShapes
         /\ Dispatch(p, {<<e.dst, NextAttempt(e.dst)>>}, NoKey,
                     Saved(p, Resumed(procs[p].snap.status), CtxOf(p)))
  BY DEF PlanCard
<1>4. e \in Edges /\ e.src = NodeOf(p) /\ e.dst \in Nodes
  BY <1>3, ChosenEdge, EdgeEnds DEF Out
<1>5. Along(NodeOf(p), e.dst) /\ Shape[e.dst] # "FAN_IN"
  BY <1>1, <1>3, <1>4, EdgeAlong DEF CardShapes, IsFanOut
<1>6. NextAttempt(e.dst) = c[e.dst] + 1 /\ procs[p].snap.status = "RUNNING"
  BY <1>1, <1>2, <1>4, NextCount, Deciders
<1>7. Dispatch(p, {<<e.dst, c[e.dst] + 1>>}, NoKey, Saved(p, "RUNNING", CtxOf(p)))
  BY <1>3, <1>6 DEF Resumed
<1> QED
  BY <1>1, <1>2, <1>4, <1>5, <1>7, DecideAlong

\* Through a tool: to the exit, to a card behind it, or nowhere.
LEMMA DecideTool ==
    ASSUME Structured, NEW p \in Procs, Whole(p), PlanTool(p)
    PROVE  BranchInv(p)'
<1>1. Planning(p) /\ ~IsFanOut(p)
  BY DEF PlanTool, Routing
<1>2. PICK c \in Counts, T \in SUBSET Nodes : Tokens(procs[p], c, T)
  BY DEF Whole, BranchInv
<1>3. PICK d \in NextEdges(p) :
         /\ Shape[d.dst] = "TOOL"
         /\ \/ \E t \in ToolEdges(d.dst, CtxOf(p)) :
                 /\ Shape[t.dst] = "EXIT"
                 /\ Dispatch(p, {}, NoKey, Saved(p, "SUCCEEDED", CtxOf(p)))
            \/ \E t \in ToolEdges(d.dst, CtxOf(p)) :
                 /\ Shape[t.dst] \in CardShapes
                 /\ Dispatch(p, {<<t.dst, 1>>}, NoKey,
                             Saved(p, procs[p].snap.status, CtxOf(p)))
            \/ /\ \A t \in ToolEdges(d.dst, CtxOf(p)) :
                    Shape[t.dst] \in {"TOOL", "HUMAN", "FAN_IN"}
               /\ Dispatch(p, {}, NoKey,
                           Saved(p, procs[p].snap.status, CtxOf(p)))
  BY DEF PlanTool
<1>4. /\ d \in Edges /\ d.src = NodeOf(p) /\ d.dst \in Nodes
      /\ Shape[d.src] # "FAN_OUT" /\ NodeOf(p) \in Nodes
  BY <1>1, <1>3, ChosenEdge, EdgeEnds DEF Out, IsFanOut
<1>5. \A t \in ToolEdges(d.dst, CtxOf(p)) :
         t \in Edges /\ t.src = d.dst /\ Shape[t.dst] \in CardShapes \union {"EXIT"}
  BY <1>3, ChosenEdge DEF Out, Structured
<1>6. procs[p].snap.status = "RUNNING"
  BY <1>1, <1>2, Deciders
<1>7. CASE \E t \in ToolEdges(d.dst, CtxOf(p)) :
              /\ Shape[t.dst] = "EXIT"
              /\ Dispatch(p, {}, NoKey, Saved(p, "SUCCEEDED", CtxOf(p)))
  <2>1. Main(NodeOf(p))
    BY <1>3, <1>4, <1>5, <1>7, ExitMain
  <2> QED
    BY <1>1, <1>7, <2>1, DecideExit
<1>8. CASE \E t \in ToolEdges(d.dst, CtxOf(p)) :
              /\ Shape[t.dst] \in CardShapes
              /\ Dispatch(p, {<<t.dst, 1>>}, NoKey,
                          Saved(p, procs[p].snap.status, CtxOf(p)))
  <2>1. PICK t \in ToolEdges(d.dst, CtxOf(p)) :
           /\ Shape[t.dst] \in CardShapes
           /\ Dispatch(p, {<<t.dst, 1>>}, NoKey, Saved(p, "RUNNING", CtxOf(p)))
    BY <1>6, <1>8
  <2>2. /\ t \in Edges /\ t.src = d.dst /\ t.dst \in Nodes
        /\ Shape[t.dst] \notin {"EXIT", "FAN_IN"}
    BY <1>5, <2>1, EdgeEnds DEF CardShapes
  <2>3. Along(NodeOf(p), t.dst)
    BY <1>3, <1>4, <2>2, ToolAlong
  <2>4. c[t.dst] = 0
    <3>1. Once(t.dst)
      <4>1. Fixed(t.dst)
        BY <1>3, <2>2 DEF Fixed
      <4> QED
        BY <2>2, <4>1, Layers DEF Layered, Once
    <3>2. Height[NodeOf(p)] < Height[t.dst] /\ ~Apart(NodeOf(p), t.dst)
      BY <2>3 DEF Along, Way, Apart
    <3>3. NodeOf(p) \in T /\ Behind(c, T) /\ c \in [Nodes -> Nat]
      BY <1>1, <1>2, Deciders, DecidersFlow, CountsNat DEF Flow
    <3> QED
      BY <2>2, <3>1, <3>2, <3>3, AheadFresh
  <2>5. Dispatch(p, {<<t.dst, c[t.dst] + 1>>}, NoKey, Saved(p, "RUNNING", CtxOf(p)))
    BY <2>1, <2>4
  <2> QED
    BY <1>1, <1>2, <2>2, <2>3, <2>5, DecideAlong
<1>9. CASE /\ \A t \in ToolEdges(d.dst, CtxOf(p)) :
                Shape[t.dst] \in {"TOOL", "HUMAN", "FAN_IN"}
           /\ Dispatch(p, {}, NoKey,
                       Saved(p, procs[p].snap.status, CtxOf(p)))
  <2>1. ToolEdges(d.dst, CtxOf(p)) = {}
    BY <1>5, <1>9 DEF CardShapes
  <2>2. ~WaysOn
    BY <1>3, <1>4, <2>1, AlwaysSelects DEF ToolEdges
  <2>3. Dispatch(p, {}, NoKey, Saved(p, "RUNNING", CtxOf(p)))
    BY <1>6, <1>9
  <2> QED
    BY <1>1, <1>2, <2>2, <2>3, DecideDrop
<1> QED
  BY <1>3, <1>7, <1>8, <1>9

-----------------------------------------------------------------------------
(***************************************************************************)
(* Joins.                                                                  *)
(***************************************************************************)
\* The rows of a branch's last node.
LEMMA TailRows ==
    ASSUME Structured, NEW p \in Procs, Whole(p), Planning(p),
           NEW c \in Counts, NEW T \in SUBSET Nodes, Tokens(procs[p], c, T),
           NEW j \in Nodes, Shape[j] = "FAN_IN", NEW n \in Predecessors(j)
    PROVE  /\ n \in Nodes /\ <<n, 1>> \in Key /\ c[n] \in Nat /\ c[n] <= 1
           /\ \A a \in Attempts : IsLatest(n, a) <=> a = 1 /\ rows[<<n, 1>>] # NoRow
           /\ tasks[<<n, 1>>] # "none" <=> c[n] = 1
           /\ BranchDone(n) <=> Done(<<n, 1>>)
<1>1. n \in Nodes /\ ~Main(n)
  BY Tails DEF Main
<1>2. c[n] \in Nat /\ c[n] <= 1
  BY <1>1, CountsNat DEF Tokens, Flow, BranchOnce
<1>3. 1 \in Attempts /\ \A a \in Attempts : a \in Nat /\ a >= 1
  BY EngineAssumption
<1>4. procs[p].todo = {}
  BY Deciders
<1>5. \A a \in Attempts : /\ <<n, a>> \in Key
                          /\ tasks[<<n, a>>] # "none" <=> a <= c[n]
                          /\ rows[<<n, a>>] # NoRow => tasks[<<n, a>>] # "none"
  BY <1>1, <1>4 DEF Key, Tokens, Tally, Here, Whole, BranchInv, Tidy, TidyTables
<1>6. \A a \in Attempts : a # 1 => rows[<<n, a>>] = NoRow
  BY <1>2, <1>3, <1>5
<1>7. \A a \in Attempts : IsLatest(n, a) <=> a = 1 /\ rows[<<n, 1>>] # NoRow
  BY <1>3, <1>6 DEF IsLatest
<1>8. tasks[<<n, 1>>] # "none" <=> c[n] = 1
  BY <1>2, <1>3, <1>5
<1>9. BranchDone(n) <=> Done(<<n, 1>>)
  BY <1>3, <1>7 DEF BranchDone, Done
<1> QED
  BY <1>1, <1>2, <1>3, <1>5, <1>7, <1>8, <1>9

\* What a finished branch reported is in its row.
LEMMA Reported ==
    ASSUME Structured, NEW p \in Procs, Whole(p), Planning(p),
           NEW c \in Counts, NEW T \in SUBSET Nodes, Tokens(procs[p], c, T),
           NEW j \in Nodes, Shape[j] = "FAN_IN", NEW n \in Predecessors(j),
           BranchDone(n)
    PROVE  \E i \in 1..Len(log) :
              /\ EventsOf(<<n, 1>>) = {i} /\ i <= run.cursor + 1
              /\ rows[<<n, 1>>].upd = log[i].ans.upd
              /\ tasks[<<n, 1>>] = "done"
              /\ \A a \in Attempts : IsLatest(n, a) <=> a = 1
<1>1. <<n, 1>> \in Key /\ Done(<<n, 1>>)
  BY TailRows
<1>2. TidyTables
  BY DEF Whole, BranchInv, Tidy
<1>3. PICK i \in EventsOf(<<n, 1>>) :
         i <= run.cursor + 1 /\ rows[<<n, 1>>].upd = log[i].ans.upd
  BY <1>1, <1>2 DEF TidyTables
<1>4. EventsOf(<<n, 1>>) = {i} /\ i \in 1..Len(log)
  BY <1>2, <1>3 DEF TidyTables, EventsOf
<1>5. tasks[<<n, 1>>] = "done"
  BY <1>1, <1>2, <1>3 DEF TidyTables
<1>6. \A a \in Attempts : IsLatest(n, a) <=> a = 1
  BY <1>1, TailRows DEF Done
<1> QED
  BY <1>3, <1>4, <1>5, <1>6

\* What the merge gives: each flag has the value of its last writer.
LEMMA MergedRight ==
    ASSUME Structured, NEW p \in Procs, Whole(p), Planning(p),
           NEW c \in Counts, NEW T \in SUBSET Nodes, Tokens(procs[p], c, T),
           NEW j \in Nodes, Shape[j] = "FAN_IN", FanInReady(j),
           NEW ctx, NEW k \in Flags, NEW n \in LastWriter(j, k),
           NEW i \in EventsOf(<<n, 1>>)
    PROVE  Merged(ctx, j)[k] = log[i].ans.upd[k]
<1> DEFINE W == {l \in Predecessors(j) : Wrote(l, k)}
           Said(l) == \E h \in EventsOf(<<l, 1>>) : k \in DOMAIN log[h].ans.upd
<1>0. 1 \in Attempts
  BY EngineAssumption
<1>1. ASSUME NEW l \in Predecessors(j)
      PROVE  /\ Wrote(l, k) <=> k \in DOMAIN rows[<<l, 1>>].upd
             /\ WroteTrue(l, k) <=> /\ k \in DOMAIN rows[<<l, 1>>].upd
                                    /\ rows[<<l, 1>>].upd[k]
             /\ \A h \in EventsOf(<<l, 1>>) : rows[<<l, 1>>].upd = log[h].ans.upd
             /\ EventsOf(<<l, 1>>) # {}
  <2>1. BranchDone(l)
    BY DEF FanInReady
  <2> QED
    BY <1>0, <2>1, Reported DEF Wrote, WroteTrue
<1>2. \A l \in Predecessors(j) : Wrote(l, k) <=> Said(l)
  BY <1>1
<1>3. /\ n \in Predecessors(j) /\ Said(n)
      /\ \A m \in Predecessors(j) : Said(m) => Rank[m] <= Rank[n]
  BY DEF LastWriter
<1>4. n \in W /\ \A m \in W : Rank[m] <= Rank[n] /\ m \in Predecessors(j)
  BY <1>2, <1>3
<1>5. \A m \in W : m \in Nodes /\ Rank[m] \in Int
  BY <1>4, EdgeEnds, RankAssumption DEF Predecessors
<1>6. \A m \in W : (\A l \in W : Rank[l] <= Rank[m]) => m = n
  <2> SUFFICES ASSUME NEW m \in W, \A l \in W : Rank[l] <= Rank[m] PROVE m = n
    OBVIOUS
  <2> HIDE DEF W
  <2>1. Rank[n] <= Rank[m] /\ Rank[m] <= Rank[n]
    BY <1>4
  <2>2. Rank[m] = Rank[n]
    BY <1>4, <1>5, <2>1
  <2> QED
    BY <1>4, <1>5, <2>2, RankAssumption
<1>7. Merged(ctx, j)[k] = \E m \in W : WroteTrue(m, k) /\ \A l \in W : Rank[l] <= Rank[m]
  BY <1>4 DEF Merged
<1>8. Merged(ctx, j)[k] = WroteTrue(n, k)
  <2> HIDE DEF W
  <2>1. (\E m \in W : WroteTrue(m, k) /\ \A l \in W : Rank[l] <= Rank[m])
           <=> WroteTrue(n, k)
    BY <1>4, <1>6
  <2>2. WroteTrue(n, k) \in BOOLEAN
    BY DEF WroteTrue
  <2>3. CASE WroteTrue(n, k) = TRUE
    BY <1>7, <2>1, <2>3
  <2>4. CASE WroteTrue(n, k) = FALSE
    BY <1>7, <2>1, <2>4
  <2> QED
    BY <2>2, <2>3, <2>4
<1>9. /\ k \in DOMAIN log[i].ans.upd
      /\ WroteTrue(n, k) <=> log[i].ans.upd[k]
  BY <1>1, <1>2, <1>3
<1>10. log[i].ans.upd[k] \in BOOLEAN
  <2>1. log[i].ans.upd \in Updates
    BY Types DEF Whole, EventsOf, Event, Answer
  <2> QED
    BY <1>9, <2>1 DEF Updates
<1>11. WroteTrue(n, k) \in BOOLEAN
  BY DEF WroteTrue
<1> QED
  BY <1>8, <1>9, <1>10, <1>11

LEMMA JoinFresh ==
    ASSUME Structured, NEW c \in [Nodes -> Nat], NEW T \in SUBSET Nodes,
           Behind(c, T), NEW m \in T, NEW j \in Nodes, Joins(m, j)
    PROVE  Once(j) /\ c[j] = 0
<1>1. Once(j)
  BY Layers DEF Joins, Layered, Fixed, Once
<1>2. Height[m] < Height[j] /\ ~Apart(m, j)
  BY ApartFacts DEF Joins, Way
<1> QED
  BY <1>1, <1>2, AheadFresh

\* The branches are all finished only when the last of their tokens is in hand.
LEMMA LastBranch ==
    ASSUME Structured, NEW p \in Procs, Whole(p), Planning(p),
           NEW c \in Counts, NEW T \in SUBSET Nodes, Tokens(procs[p], c, T),
           NEW j \in Nodes, Joins(NodeOf(p), j), FanInReady(j)
    PROVE  T = {NodeOf(p)}
<1>1. PICK m : m = NodeOf(p)
  OBVIOUS
<1>2. /\ m \in T /\ m \in Nodes /\ procs[p].evt = run.cursor + 1
      /\ log[procs[p].evt].task = <<m, c[m]>> /\ Current(procs[p]) = run
  BY <1>1, Deciders
<1>3. Shape[j] = "FAN_IN" /\ Thread[m] = m /\ m \in Predecessors(j)
  BY <1>1 DEF Joins
<1> SUFFICES ASSUME NEW k \in T, k # m PROVE FALSE
  BY <1>1, <1>2
<1>4. \E f : Flow(c, T, f)
  BY DecidersFlow
<1>5. Apart(m, k)
  BY <1>2, <1>4 DEF Flow, Spread
<1>6. PICK t : t = Thread[k] /\ t \in Predecessors(j)
  <2>1. PICK i \in Nodes : /\ Shape[i] = "FAN_IN" /\ Thread[m] \in Predecessors(i)
                           /\ Thread[k] \in Predecessors(i)
    BY <1>5 DEF Apart
  <2>2. i = j
    BY <1>3, <2>1, OneJoin
  <2> QED
    BY <2>1, <2>2
<1>7. /\ t \in Nodes /\ t # Start /\ Thread[t] = t /\ k \in Nodes
      /\ Height[k] \in Nat /\ Height[t] \in Nat
  BY <1>3, <1>6, Tails, Layers
<1>8. Done(<<t, 1>>) /\ <<t, 1>> \in Key /\ c[t] \in Nat /\ c[t] <= 1
  BY <1>3, <1>6, TailRows DEF FanInReady
<1>9. PICK i \in 1..Len(log) :
         /\ EventsOf(<<t, 1>>) = {i} /\ i <= run.cursor + 1 /\ tasks[<<t, 1>>] = "done"
  BY <1>3, <1>6, Reported DEF FanInReady
<1>10. c[t] = 1
  <2>1. tasks[<<t, 1>>] # "none"
    BY <1>9
  <2>2. tasks[<<t, 1>>] # "none" <=> c[t] = 1
    BY <1>3, <1>6, TailRows
  <2> QED
    BY <2>1, <2>2
<1>11. k = t
  <2>1. Once(t) /\ ~Apart(k, t)
    BY <1>6, <1>7, BranchOutside DEF Apart, Main
  <2>2. Height[t] <= Height[k]
    BY <1>4, <1>7, <1>10, <2>1 DEF Flow, Behind
  <2>3. k # t => Height[k] < Height[t]
    BY <1>6, <1>7, Layers DEF Layered, Threaded
  <2> QED
    BY <1>7, <2>2, <2>3
<1>12. Live(procs[p], <<t, 1>>)
  BY <1>8, <1>10, <1>11 DEF Tokens, Tally
<1>13. i > run.cursor
  BY <1>2, <1>9, <1>12 DEF Live
<1>14. i = procs[p].evt
  BY <1>2, <1>9, <1>13, Types DEF Whole
<1>15. log[i].task = <<t, 1>>
  BY <1>9 DEF EventsOf
<1> QED
  BY <1>2, <1>11, <1>14, <1>15

LEMMA DecideFanIn ==
    ASSUME Structured, NEW p \in Procs, Whole(p), PlanFanIn(p)
    PROVE  BranchInv(p)'
<1>1. Planning(p)
  BY DEF PlanFanIn, Routing
<1>2. PICK c \in Counts, T \in SUBSET Nodes : Tokens(procs[p], c, T)
  BY DEF Whole, BranchInv
<1>3. PICK e \in NextEdges(p) :
         /\ Shape[e.dst] = "FAN_IN" /\ FanInReady(e.dst)
         /\ Dispatch(p, {<<e.dst, 1>>}, NoKey,
                     Saved(p, Resumed(procs[p].snap.status), Merged(CtxOf(p), e.dst)))
  BY DEF PlanFanIn
<1>4. e \in Edges /\ e.src = NodeOf(p) /\ e.dst \in Nodes
  BY <1>3, ChosenEdge, EdgeEnds DEF Out
<1>5. PICK m, j, saved, fs :
         /\ m = NodeOf(p) /\ j = e.dst /\ fs = SeenTo(procs[p].evt)
         /\ saved = Saved(p, "RUNNING", Merged(CtxOf(p), j))
  OBVIOUS
<1>6. Joins(m, j) /\ j \in Nodes /\ Shape[j] = "FAN_IN"
  BY <1>3, <1>4, <1>5, EdgeJoins
<1>7. T = {m} /\ m \in Nodes /\ procs[p].snap.status = "RUNNING"
  BY <1>1, <1>2, <1>3, <1>5, <1>6, LastBranch, Deciders
<1>8. PICK f \in Nat : Flow(c, T, f) /\ fs >= f /\ fs \in Nat
  BY <1>1, <1>2, <1>5, DecidersFlow
<1>9. c \in [Nodes -> Nat]
  BY CountsNat
<1>10. Once(j) /\ c[j] = 0
  BY <1>6, <1>7, <1>8, <1>9, JoinFresh DEF Flow
<1>11. PICK U : U = (T \ {m}) \union {j}
  OBVIOUS
<1>12. U = {j} /\ {j} \intersect (T \ {m}) = {}
  BY <1>7, <1>11
<1>13. Flow(Visit(c, {j}), U, fs)
  BY <1>6, <1>7, <1>8, <1>9, <1>10, <1>12, FlowJoin
<1>14. /\ saved.status = "RUNNING" /\ saved.cursor = procs[p].evt /\ saved # NoRun
       /\ saved.ctx = Merged(CtxOf(p), j)
  BY <1>5, SavedFields
<1>15. Dispatch(p, {<<n, c[n] + 1>> : n \in {j}}, NoKey, saved)
  <2>1. {<<n, c[n] + 1>> : n \in {j}} = {<<j, 1>>}
    BY <1>10
  <2> QED
    BY <1>3, <1>5, <1>7, <2>1 DEF Resumed
<1>16. /\ \A n \in Predecessors(j) : tasks[<<n, 1>>] = "done"
       /\ \A k \in Flags : \A n \in LastWriter(j, k) :
             \A i \in EventsOf(<<n, 1>>) : saved.ctx[k] = log[i].ans.upd[k]
  <2>1. FanInReady(j)
    BY <1>3, <1>5
  <2>2. \A n \in Predecessors(j) : tasks[<<n, 1>>] = "done"
    BY <1>1, <1>2, <1>6, <2>1, Reported DEF FanInReady
  <2>3. ASSUME NEW k \in Flags, NEW n \in LastWriter(j, k), NEW i \in EventsOf(<<n, 1>>)
        PROVE  Merged(CtxOf(p), j)[k] = log[i].ans.upd[k]
    BY <1>1, <1>2, <1>6, <2>1, <2>3, MergedRight
  <2> QED
    BY <1>14, <2>2, <2>3
<1>17. U # {} /\ saved.status \in Active /\ saved.status # "PAUSED_HUMAN"
  BY <1>12, <1>14 DEF Active
<1>18. PICK N, keys : N = {j} /\ keys = {<<n, c[n] + 1>> : n \in N}
  OBVIOUS
<1>19. /\ N \in SUBSET Nodes /\ U = (T \ {NodeOf(p)}) \union N
       /\ N \intersect (T \ {NodeOf(p)}) = {}
       /\ Dispatch(p, keys, NoKey, saved)
       /\ Flow(Visit(c, N), U, SeenTo(procs[p].evt))
  BY <1>5, <1>6, <1>11, <1>12, <1>13, <1>15, <1>18
<1>20. \A l \in N : Shape[l] = "FAN_IN" /\ c[l] = 0 =>
          /\ \A n \in Predecessors(l) : tasks[<<n, 1>>] = "done"
          /\ \A k \in Flags : \A n \in LastWriter(l, k) :
                \A i \in EventsOf(<<n, 1>>) : saved.ctx[k] = log[i].ans.upd[k]
  BY <1>16, <1>18
<1> QED
  BY <1>1, <1>2, <1>14, <1>17, <1>18, <1>19, <1>20, BranchDecides

\* Without another token the join would have been ready.
LEMMA WaitsForAnother ==
    ASSUME Structured, WaysOn, NEW p \in Procs, Whole(p), Planning(p),
           NEW c \in Counts, NEW T \in SUBSET Nodes, Tokens(procs[p], c, T),
           NEW j \in Nodes, Joins(NodeOf(p), j), T = {NodeOf(p)}
    PROVE  FanInReady(j)
<1>1. PICK m : m = NodeOf(p)
  OBVIOUS
<1>2. /\ m \in Nodes /\ procs[p].evt = run.cursor + 1 /\ procs[p].evt \in 1..Len(log)
      /\ log[procs[p].evt].task = <<m, c[m]>> /\ Current(procs[p]) = run
  BY <1>1, Deciders
<1>3. Shape[j] = "FAN_IN" /\ Thread[m] = m /\ m \in Predecessors(j)
  BY <1>1 DEF Joins
<1>4. \E f : Flow(c, T, f)
  BY DecidersFlow
<1>5. c[m] >= 1 /\ c[j] = 0
  BY <1>1, <1>4, CountsNat, JoinFresh DEF Flow, Standing
<1> SUFFICES ASSUME NEW t \in Predecessors(j) PROVE BranchDone(t)
  BY DEF FanInReady
<1>6. t \in Nodes /\ <<t, 1>> \in Key /\ c[t] \in Nat /\ c[t] <= 1
  BY <1>3, TailRows
<1>7. c[t] = 1
  <2>1. \E n \in Nodes : Thread[n] \in Predecessors(j) /\ c[n] > 0
    <3>1. c[m] > 0
      BY <1>2, <1>5, CountsNat
    <3> QED
      BY <1>2, <1>3, <3>1
  <2>2. c[t] >= 1 \/ \E n \in T : Thread[n] = t
    BY <1>3, <1>4, <1>5, <2>1 DEF Flow, JoinAhead
  <2>3. c[t] >= 1
    BY <1>1, <1>3, <1>5, <2>2
  <2> QED
    BY <1>6, <2>3
<1>8. Done(<<t, 1>>)
  <2>1. CASE t = m
    BY <1>1, <1>2, <1>7, <2>1 DEF Whole, CoverInv, Proceeds, Planning
  <2>2. CASE t # m
    <3>1. tasks[<<t, 1>>] # "none"
      BY <1>3, <1>7, TailRows
    <3>2. ~Live(procs[p], <<t, 1>>)
      BY <1>1, <1>6, <2>2 DEF Tokens, Tally
    <3>3. PICK i \in EventsOf(<<t, 1>>) : ~(i > run.cursor)
      BY <1>2, <3>1, <3>2 DEF Live, Here
    <3>4. i \in 1..run.cursor /\ log[i].task = <<t, 1>>
      BY <3>3, Types DEF Whole, EventsOf
    <3> QED
      BY <3>4 DEF Whole, CoverInv, CursorCovers
  <2> QED
    BY <2>1, <2>2
<1> QED
  BY <1>3, <1>8, TailRows

LEMMA DecideWait ==
    ASSUME Structured, NEW p \in Procs, Whole(p), PlanWait(p)
    PROVE  BranchInv(p)'
<1>1. Planning(p)
  BY DEF PlanWait, Routing
<1>2. PICK c \in Counts, T \in SUBSET Nodes : Tokens(procs[p], c, T)
  BY DEF Whole, BranchInv
<1>3. PICK e \in NextEdges(p) :
         /\ Shape[e.dst] = "FAN_IN" /\ ~FanInReady(e.dst)
         /\ Dispatch(p, {}, NoKey, Saved(p, procs[p].snap.status, procs[p].snap.ctx))
  BY DEF PlanWait
<1>4. e \in Edges /\ e.src = NodeOf(p) /\ e.dst \in Nodes
  BY <1>3, ChosenEdge, EdgeEnds DEF Out
<1>5. Joins(NodeOf(p), e.dst)
  BY <1>3, <1>4, EdgeJoins
<1>6. procs[p].snap.status = "RUNNING" /\ NodeOf(p) \in T
  BY <1>1, <1>2, Deciders
<1>7. WaysOn => T \ {NodeOf(p)} # {}
  <2> SUFFICES ASSUME WaysOn, T \ {NodeOf(p)} = {} PROVE FALSE
    OBVIOUS
  <2>1. T = {NodeOf(p)}
    BY <1>6
  <2> QED
    BY <1>1, <1>2, <1>3, <1>4, <1>5, <2>1, WaitsForAnother
<1>8. Thread[NodeOf(p)] = NodeOf(p)
  BY <1>5 DEF Joins
<1>9. Dispatch(p, {}, NoKey, Saved(p, "RUNNING", procs[p].snap.ctx))
  BY <1>3, <1>6
<1> QED
  BY <1>1, <1>2, <1>7, <1>8, <1>9, DecideDrop

LEMMA DecidePlan ==
    ASSUME Structured, NEW p \in Procs, Whole(p), Plan(p)
    PROVE  BranchInv(p)' /\ UNCHANGED <<run, rows>>
<1>1. ASSUME PlanExit(p) PROVE BranchInv(p)'
  <2>1. PICK e \in NextEdges(p) :
           /\ Shape[e.dst] = "EXIT"
           /\ Dispatch(p, {}, NoKey, Saved(p, "SUCCEEDED", CtxOf(p)))
    BY <1>1 DEF PlanExit
  <2>2. e \in Edges /\ e.src = NodeOf(p)
    BY <2>1, ChosenEdge DEF Out
  <2>3. Main(NodeOf(p)) /\ Planning(p)
    BY <1>1, <2>1, <2>2, ExitMain DEF PlanExit, Routing
  <2> QED
    BY <2>1, <2>3, DecideExit
<1>2. ASSUME PlanHuman(p) PROVE FALSE
  <2>1. PICK e \in NextEdges(p) : Shape[e.dst] = "HUMAN"
    BY <1>2 DEF PlanHuman
  <2>2. e \in Edges /\ e.dst \in Nodes
    BY <2>1, ChosenEdge, EdgeEnds DEF Out
  <2>3. Carded(e.dst)
    BY <2>1, <2>2 DEF Carded
  <2> QED
    BY <2>1, <2>2, <2>3 DEF Structured, CardShapes
<1>3. BranchInv(p)'
  BY <1>1, <1>2, DecideFork, BranchStop, DecideExhausted, DecideRetry, DecideNoEdge,
     DecideCard, DecideWait, DecideFanIn, DecideTool DEF Plan
<1>4. UNCHANGED <<run, rows>>
  BY DEF Plan, PlanFanOut, PlanTooWide, PlanExhausted, PlanRetry, PlanNoEdge, PlanCard,
         PlanHuman, PlanExit, PlanWait, PlanFanIn, PlanTool, Dispatch, store
<1> QED
  BY <1>3, <1>4

-----------------------------------------------------------------------------
(***************************************************************************)
(* The launch, and every step.                                             *)
(***************************************************************************)
LEMMA EntryAlong ==
    ASSUME Structured, NEW ctx, NEW k \in EntryKeys(ctx)
    PROVE  \E n \in Nodes : k = <<n, 1>> /\ Along(Start, n) /\ Shape[n] # "FAN_IN"
<1>1. PICK e \in Out(Start) : k = <<e.dst, 1>> /\ Shape[e.dst] \notin {"START", "EXIT"}
  BY DEF EntryKeys
<1>2. e \in Edges /\ e.src = Start /\ e.dst \in Nodes
  BY <1>1, EdgeEnds DEF Out
<1>3. Shape[e.src] = "START"
  BY <1>2, PipelineAssumption
<1>4. Shape[e.dst] # "FAN_IN"
  BY <1>2, EdgeJoins, Layers DEF Main, Layered, Threaded
<1>5. Along(Start, e.dst)
  BY <1>1, <1>2, <1>3, <1>4, EdgeAlong
<1> QED
  BY <1>1, <1>2, <1>4, <1>5

LEMMA BranchLaunch ==
    ASSUME Structured, NEW p \in Procs, Whole(p), Launch(p)
    PROVE  BranchInv(p)'
<1>1. Tidy(procs[p])
  BY DEF Whole, BranchInv
<1>2. /\ run.status = "NONE" /\ procs[p].phase = "idle" /\ UNCHANGED <<rows, tasks, log>>
  BY DEF Launch, board
<1>3. PICK ctx \in Contexts :
         /\ run' = [status |-> "RUNNING", cursor |-> 0, ctx |-> ctx]
         /\ procs' = [procs EXCEPT ![p] =
                [IdleProc EXCEPT !.phase = "write", !.todo = EntryKeys(ctx)]]
  BY DEF Launch
<1>4. PICK q, keys : /\ keys = EntryKeys(ctx)
                     /\ q = [IdleProc EXCEPT !.phase = "write", !.todo = keys]
                     /\ procs'[p] = q
  BY <1>3, Types DEF Whole
<1>5. /\ q.phase = "write" /\ q.todo = keys /\ q.cur = NoKey /\ q.block = NoKey
      /\ q.save = NoRun
  BY <1>4 DEF IdleProc
<1>6. /\ run'.status = "RUNNING" /\ run'.cursor = 0 /\ Current(q)' = run'
  BY <1>3, <1>5 DEF Current
<1>7. \A k \in Key : tasks[k] = "none" /\ rows[k] = NoRow /\ EventsOf(k) = {} /\ ~Done(k)
  BY <1>1, <1>2 DEF Tidy, TidyTables
<1>8. 1..Len(log) = {}
  <2> SUFFICES ASSUME NEW i \in 1..Len(log) PROVE FALSE
    OBVIOUS
  <2>1. log[i].task \in Key
    BY Types DEF Whole
  <2> QED
    BY <1>7, <2>1 DEF EventsOf
<1>9. Tidy(q)'
  <2>1. \A k : EventsOf(k)' = EventsOf(k) /\ (Done(k)' <=> Done(k))
    BY <1>2 DEF EventsOf, Done
  <2>2. TidyTables'
    BY <1>1, <1>2, <1>6, <1>7, <1>8, <2>1 DEF Tidy, TidyTables
  <2> QED
    BY <1>2, <1>5, <1>6, <1>7, <2>2 DEF Tidy, NoRun, Active
<1>10. \A k \in Key : /\ Here(q, k)' <=> k \in keys
                      /\ Live(q, k)' <=> k \in keys
  <2>1. \A k \in Key : EventsOf(k)' = {}
    BY <1>2, <1>7 DEF EventsOf
  <2>2. \A k \in Key : Here(q, k)' <=> k \in keys
    BY <1>2, <1>5, <1>7 DEF Here
  <2> QED
    BY <2>1, <2>2 DEF Live
<1>11. FailuresSeen(q)' = {}
  BY <1>2, <1>8 DEF FailuresSeen, GateFailures
<1>12. Cardinality(FailuresSeen(q))' = 0
  BY <1>11, FS_EmptySet
<1>13. CASE keys = {}
  <2> DEFINE c == [n \in Nodes |-> 0]
  <2>1. c \in Counts /\ \A n \in Nodes : c[n] = 0
    BY DEF Counts
  <2>2. Flow(c, {}, 0)
    BY FlowNothing
  <2> HIDE DEF c
  <2>3. Tally(q, c, {})'
    BY <1>10, <1>13, <2>1, Keys DEF Tally
  <2>4. MergedInto(q, c, {})' /\ Goes(q, {})'
    BY <1>10, <1>13 DEF MergedInto, Goes
  <2>5. Tokens(q, c, {})'
    BY <1>12, <2>2, <2>3, <2>4, RigidFlow DEF Tokens
  <2> QED
    BY <1>4, <1>9, <2>1, <2>5, Retold
<1>14. CASE keys # {}
  <2>1. PICK n \in Nodes : <<n, 1>> \in keys /\ Along(Start, n) /\ Shape[n] # "FAN_IN"
    BY <1>4, <1>14, EntryAlong
  <2>2. \A k \in keys : k = <<n, 1>>
    BY <1>4, <2>1, OneEntry
  <2> DEFINE c == [m \in Nodes |-> IF m = n THEN 1 ELSE 0]
  <2>3. c \in Counts /\ \A m \in Nodes : c[m] = IF m = n THEN 1 ELSE 0
    BY EngineAssumption DEF Counts
  <2>4. Flow(c, {n}, 0)
    BY <2>1, FlowEntry
  <2> HIDE DEF c
  <2>5. Tally(q, c, {n})'
    <3> SUFFICES ASSUME NEW k \in Key
                 PROVE  /\ Here(q, k)' <=> k[2] <= c[k[1]]
                        /\ Live(q, k)' <=> k[1] \in {n} /\ k[2] = c[k[1]]
      BY DEF Tally
    <3>1. k[1] \in Nodes /\ k[2] \in Nat /\ k[2] > 0 /\ k = <<k[1], k[2]>>
      BY Keys
    <3>2. k \in keys <=> k[1] = n /\ k[2] = 1
      BY <2>1, <2>2, <3>1
    <3> QED
      BY <1>10, <2>3, <3>1, <3>2
  <2>6. MergedInto(q, c, {n})' /\ Goes(q, {n})'
    BY <1>6, <2>1 DEF MergedInto, Goes, Active
  <2>7. Tokens(q, c, {n})'
    BY <1>12, <2>4, <2>5, <2>6, RigidFlow DEF Tokens
  <2> QED
    BY <1>4, <1>9, <2>3, <2>7, Retold
<1> QED
  BY <1>13, <1>14

\* Every step, and what no step does.
LEMMA BranchStep ==
    ASSUME Structured, NEW p, Undisturbed(p), Whole(p), [Next]_vars
    PROVE  /\ BranchInv(p)'
           /\ \A k \in Key : Done(k) => Done(k)'
           /\ run.status \in Terminal => run' = run
<1>0. p \in Procs /\ Procs = {p}
  BY DEF Undisturbed
<1> DEFINE Remains == \A k \in Key : Done(k) => Done(k)'
           Final   == run.status \in Terminal => run' = run
<1>1. rows' = rows => Remains
  BY DEF Done
<1>2. Tidy(procs[p])
  BY DEF Whole, BranchInv
<1>3. procs[p].phase # "idle" => Final
  BY <1>2 DEF Tidy, Active, Terminal
<1>4. CASE UNCHANGED vars
  <2>1. PICK q : q = procs[p]
    OBVIOUS
  <2>2. Tidy(q) /\ procs'[p] = q /\ UNCHANGED <<run, rows, tasks, log>>
    BY <1>2, <1>4, <2>1 DEF vars
  <2>3. BranchInv(p)'
    BY <1>0, <2>1, <2>2, BranchMemory
  <2> QED
    BY <1>1, <1>4, <2>3 DEF vars
<1>5. CASE Launch(p)
  <2>1. rows' = rows /\ run.status \notin Terminal
    BY <1>5 DEF Launch, Terminal
  <2> QED
    BY <1>0, <1>1, <1>5, <2>1, BranchLaunch
<1>6. CASE BeginPass(p) \/ ReadRun(p)
  <2>1. UNCHANGED <<run, rows>>
    BY <1>6 DEF BeginPass, ReadRun, store
  <2> QED
    BY <1>0, <1>1, <1>6, <2>1, BranchBeginPass, BranchReadRun
<1>7. CASE SkipEvent(p)
  BY <1>0, <1>7, CoverSkipEvent DEF Whole
<1>8. CASE MarkNode(p)
  BY <1>0, <1>8, BranchMarkNode DEF MarkNode
<1>9. CASE Plan(p)
  BY <1>0, <1>1, <1>9, DecidePlan
<1>10. CASE CreateCard(p)
  <2>1. UNCHANGED <<run, rows>>
    BY <1>10 DEF CreateCard, store
  <2> QED
    BY <1>0, <1>1, <1>10, <2>1, BranchCreateCard
<1>11. CASE UpsertRow(p)
  BY <1>0, <1>11, BranchUpsertRow DEF UpsertRow
<1>12. CASE SaveRun(p)
  <2>1. rows' = rows /\ procs[p].phase = "write"
    BY <1>12 DEF SaveRun, Dispatched, Writing
  <2> QED
    BY <1>0, <1>1, <1>3, <1>12, <2>1, BranchSaveRun
<1>13. CASE LaunchReturns(p)
  <2>1. UNCHANGED <<run, rows>>
    BY <1>13 DEF LaunchReturns, store
  <2> QED
    BY <1>0, <1>1, <1>13, <2>1, BranchStop
<1>14. CASE CreateCardFails(p) \/ BlockCard(p) \/ Crash(p)
  BY <1>0, <1>14, BranchNever
<1>15. CASE \E k \in Key : Complete(k) \/ GiveUp(k)
  <2>1. UNCHANGED <<run, rows>>
    BY <1>15 DEF Complete, GiveUp, Finish, store
  <2> QED
    BY <1>0, <1>1, <1>15, <2>1, BranchFinish
<1>16. \/ UNCHANGED vars \/ Launch(p) \/ Advance(p) \/ Crash(p)
       \/ \E k \in Key : Complete(k) \/ GiveUp(k)
  BY <1>0 DEF Next
<1> QED
  BY <1>4, <1>5, <1>6, <1>7, <1>8, <1>9, <1>10, <1>11, <1>12, <1>13, <1>14, <1>15, <1>16
     DEF Advance, Write

-----------------------------------------------------------------------------
(***************************************************************************)
(* What a run of a structured pipeline promises when nothing interrupts    *)
(* its only reconciler.  Reports may come in any order, at any time.       *)
(***************************************************************************)
LEMMA WholeStep ==
    ASSUME Structured, NEW p, Undisturbed(p), Whole(p), [Next]_vars
    PROVE  /\ Whole(p)'
           /\ [\A k \in Key : Done(k) => Done(k)']_vars
           /\ [run.status \in Terminal => run' = run]_vars
<1>1. /\ BranchInv(p)'
      /\ [\A k \in Key : Done(k) => Done(k)']_vars
      /\ [run.status \in Terminal => run' = run]_vars
  BY BranchStep
<1>2. CoverInv(p)'
  BY <1>1, CoverStep DEF Whole
<1>3. IInv' /\ WorkInv' /\ SoloInv(p)'
  BY NextIInv, WorkStep, NextSolo DEF Whole, Undisturbed
<1> QED
  BY <1>1, <1>2, <1>3 DEF Whole

\* Forks, joins and retries move tokens through the graph: at every moment of a
\* run its cards are those behind, at and between the tokens (_route_after_completion
\* and the branches it calls never create a card for any other reason).
THEOREM TokensMove ==
    ASSUME NEW p, Undisturbed(p), Structured
    PROVE  Spec => []Whole(p)
<1>1. Init => Whole(p)
  <2> SUFFICES ASSUME Init PROVE Whole(p)
    OBVIOUS
  <2>1. p \in Procs
    BY DEF Undisturbed
  <2>2. SoloInv(p)
    BY <2>1 DEF Init, SoloInv, NoRun, IdleProc
  <2> QED
    BY <2>1, <2>2, InitIInv, WorkInit, CoverInit, BranchInit DEF Whole
<1>2. Whole(p) /\ [Next]_vars => Whole(p)'
  BY WholeStep
<1> QED
  BY <1>1, <1>2, PTL DEF Spec

\* A finished node is never put back to DISPATCHED: on a structured pipeline every
\* card that is dispatched, a join's or a retry's included, has a number of its own.
THEOREM DoneForGood ==
    ASSUME NEW p, Undisturbed(p), Structured
    PROVE  Spec => DoneStaysDone
<1>1. Whole(p) /\ [Next]_vars => [\A k \in Key : Done(k) => Done(k)']_vars
  BY WholeStep
<1> QED
  BY <1>1, TokensMove, PTL DEF Spec, DoneStaysDone

\* Every retry is new work: no gate asks for a card that exists, although it numbers
\* the card by its own attempt.  (Gates with a target in common do.)
THEOREM RetryIsFresh ==
    ASSUME NEW p, Undisturbed(p), Structured
    PROVE  Spec => FreshRetry
<1>1. Whole(p) /\ [Next]_vars => [NewCard]_vars
  BY DecideRetry DEF Undisturbed, NewCard
<1> QED
  BY <1>1, TokensMove, PTL DEF Spec, FreshRetry

\* Whatever the saved cursor has passed was applied to the row of its node, with
\* several branches open and their events in one batch (event_log.py).
THEOREM AllApplied ==
    ASSUME NEW p, Undisturbed(p), Structured
    PROVE  Spec => []CursorCovers
<1>1. Whole(p) => CursorCovers
  BY DEF Whole, CoverInv
<1> QED
  BY <1>1, TokensMove, PTL

\* A terminal run is never written again: when an exit or an exhausted gate ends the
\* run, no branch is open whose event would make the pass go on.
THEOREM EndsForGood ==
    ASSUME NEW p, Undisturbed(p), Structured
    PROVE  Spec => TerminalIsFinal
<1>1. Whole(p) /\ [Next]_vars => [run.status \in Terminal => run' = run]_vars
  BY WholeStep
<1> QED
  BY <1>1, TokensMove, PTL DEF Spec, TerminalIsFinal

\* The tokens between two passes.
LEMMA AtRest ==
    ASSUME NEW p, Undisturbed(p), Whole(p), Quiet
    PROVE  /\ p \in Procs /\ Current(procs[p]) = run
           /\ \A k \in Key : Here(procs[p], k) <=> tasks[k] # "none"
           /\ \A k \in Key : tasks[k] # "none" => Owned(k)
           /\ \E c \in Counts, T \in SUBSET Nodes :
                 c \in [Nodes -> Nat] /\ Tokens(procs[p], c, T)
<1>1. p \in Procs
  BY DEF Undisturbed
<1>2. procs[p].phase = "idle" /\ Tidy(procs[p])
  BY <1>1 DEF Quiet, Whole, BranchInv
<1>3. Current(procs[p]) = run /\ procs[p].todo = {} /\ procs[p].cur = NoKey
  BY <1>2 DEF Current, Tidy
<1>4. \A k \in Key : Here(procs[p], k) <=> tasks[k] # "none"
  BY <1>3 DEF Here
<1>5. \A k \in Key : tasks[k] # "none" => Owned(k)
  <2>1. \A k \in Key : k # NoKey
    BY EngineAssumption
  <2> QED
    BY <1>3, <2>1 DEF Whole, CoverInv, Known
<1>6. \E c \in Counts, T \in SUBSET Nodes :
         c \in [Nodes -> Nat] /\ Tokens(procs[p], c, T)
  BY CountsNat DEF Whole, BranchInv
<1> QED
  BY <1>1, <1>3, <1>4, <1>5, <1>6

\* An active run that was launched is never stuck: with no event to process, some
\* card is open that the engine knows, since a join that waits waits for a branch
\* that is still running.
THEOREM NeverStuck ==
    ASSUME NEW p, Undisturbed(p), Structured, WaysOn
    PROVE  Spec => []NoStall
<1>1. Whole(p) => NoStall
  <2> SUFFICES ASSUME Whole(p), run.status \in Active, Launched, Quiet, Unseen = {}
               PROVE  \E k \in Key : tasks[k] \in {"open", "blocked"} /\ Owned(k)
    BY DEF NoStall
  <2>1. PICK c \in Counts, T \in SUBSET Nodes :
           c \in [Nodes -> Nat] /\ Tokens(procs[p], c, T)
    BY AtRest
  <2>2. TidyTables
    BY DEF Whole, BranchInv, Tidy
  <2>3. \E k \in Key : Here(procs[p], k)
    BY <2>2, AtRest DEF Launched, TidyTables
  <2>4. PICK m \in T : TRUE
    BY <2>1, <2>3, AtRest DEF Tokens, Goes
  <2>5. c[m] \in Attempts
    <3>1. c[m] \in Nat /\ c[m] >= 1
      BY <2>1 DEF Tokens, Flow, Standing
    <3>2. c[m] \in Attempts \union {0}
      BY DEF Counts
    <3> QED
      BY <3>1, <3>2
  <2>6. PICK k \in Key : k = <<m, c[m]>>
    BY <2>5 DEF Key
  <2>7. Live(procs[p], k)
    BY <2>1, <2>6 DEF Tokens, Tally
  <2>8. tasks[k] # "none" /\ Owned(k)
    BY <2>7, AtRest DEF Live
  <2>9. EventsOf(k) = {}
    <3> SUFFICES ASSUME NEW i \in EventsOf(k) PROVE FALSE
      OBVIOUS
    <3>1. i \in 1..Len(log) /\ log[i].task = k /\ i > run.cursor
      BY <2>7, AtRest DEF Live, EventsOf
    <3> QED
      BY <2>8, <3>1 DEF Unseen
  <2>10. tasks[k] = "open"
    BY <2>2, <2>8, <2>9, Tables DEF TidyTables, Whole
  <2> QED
    BY <2>8, <2>10
<1> QED
  BY <1>1, TokensMove, PTL

\* The merge: the context saved with a join's dispatch is that of the last writer
\* of each key in node-id order, whichever branch came in last (_merge_fan_in).
THEOREM MergesAll ==
    ASSUME NEW p, Undisturbed(p), Structured
    PROVE  Spec => []MergeComplete
<1>1. Whole(p) => MergeComplete
  <2> SUFFICES ASSUME Whole(p), NEW f \in Nodes, NEW k \in Flags, NEW n \in LastWriter(f, k),
                      Join(<<f, 1>>), Quiet, run.status \in Active,
                      tasks[<<f, 1>>] = "open", NEW i \in EventsOf(<<n, 1>>)
               PROVE  run.ctx[k] = log[i].ans.upd[k]
    BY DEF MergeComplete
  <2>1. PICK c \in Counts, T \in SUBSET Nodes : Tokens(procs[p], c, T)
    BY AtRest
  <2>2. <<f, 1>> \in Key
    BY EngineAssumption DEF Key
  <2>3. EventsOf(<<f, 1>>) = {}
    BY <2>2 DEF Whole, BranchInv, Tidy, TidyTables
  <2>4. Live(procs[p], <<f, 1>>)
    BY <2>2, <2>3, AtRest DEF Live
  <2>5. f \in T /\ c[f] = 1
    BY <2>1, <2>2, <2>4 DEF Tokens, Tally
  <2>6. Shape[f] = "FAN_IN"
    BY DEF Join
  <2> QED
    BY <2>1, <2>5, <2>6, AtRest DEF Tokens, MergedInto
<1> QED
  BY <1>1, TokensMove, PTL

\* Beyond its first card a node gets at most one more for each failure of a gate:
\* neither a fork, nor a join, nor a tool makes the run repeat what it has done.
THEOREM NoCardTwice ==
    ASSUME NEW p, Undisturbed(p), Structured
    PROVE  Spec => []NoDuplicateWork
<1>1. Whole(p) => NoDuplicateWork
  <2> SUFFICES ASSUME Whole(p), NEW n \in Nodes
               PROVE  Cardinality({a \in Attempts : tasks[<<n, a>>] # "none"})
                         <= 1 + Cardinality(GateFailures)
    BY DEF NoDuplicateWork
  <2>1. PICK c \in Counts, T \in SUBSET Nodes : Tokens(procs[p], c, T)
    BY DEF Whole, BranchInv
  <2>2. PICK f \in Nat : f = Cardinality(FailuresSeen(procs[p])) /\ Flow(c, T, f)
    BY <2>1 DEF Tokens
  <2>3. c[n] \in Nat /\ c[n] <= f + 1
    BY <2>2, CountsNat DEF Flow, Paid
  <2>4. PICK cards : cards = {a \in Attempts : tasks[<<n, a>>] # "none"}
    OBVIOUS
  <2>5. cards \subseteq 1..c[n]
    <3> SUFFICES ASSUME NEW a \in cards PROVE a \in 1..c[n]
      OBVIOUS
    <3>0. a \in Attempts
      BY <2>4
    <3>1. a \in Attempts /\ a \in Nat /\ a >= 1
      <4>1. \A x \in Attempts : x \in Nat /\ x >= 1
        BY EngineAssumption
      <4> QED
        BY <3>0, <4>1
    <3>2. <<n, a>> \in Key /\ tasks[<<n, a>>] # "none"
      BY <2>4, <3>1 DEF Key
    <3>3. a <= c[n]
      BY <2>1, <3>2 DEF Tokens, Tally, Here
    <3> QED
      BY <2>3, <3>1, <3>3
  <2>6. /\ IsFiniteSet(cards) /\ Cardinality(cards) \in Nat
        /\ Cardinality(cards) <= c[n]
    <3>1. IsFiniteSet(1..c[n]) /\ Cardinality(1..c[n]) = c[n]
      BY <2>3, FS_Interval
    <3> QED
      BY <2>5, <3>1, FS_Subset, FS_CardinalityType
  <2>7. Cardinality(GateFailures) \in Nat /\ f <= Cardinality(GateFailures)
    <3>1. IsFiniteSet(1..Len(log)) /\ GateFailures \subseteq 1..Len(log)
      BY Tables, FS_Interval DEF Whole, GateFailures
    <3>2. IsFiniteSet(GateFailures) /\ FailuresSeen(procs[p]) \subseteq GateFailures
      BY <3>1, FS_Subset DEF FailuresSeen
    <3> QED
      BY <2>2, <3>2, FS_Subset, FS_CardinalityType
  <2>8. Cardinality(cards) <= 1 + Cardinality(GateFailures)
    BY <2>2, <2>3, <2>6, <2>7
  <2> QED
    BY <2>4, <2>8
<1> QED
  BY <1>1, TokensMove, PTL

\* No gate is tried more often than its policy allows, although the cards inside a
\* loop are numbered by counting rows: each round of the loop is one try of the gate.
THEOREM TriesBounded ==
    ASSUME NEW p, Undisturbed(p), Structured, Unnested
    PROVE  Spec => []GateWithinLimit
<1>1. Whole(p) => GateWithinLimit
  <2> SUFFICES ASSUME Whole(p), NEW g \in Gates, NEW a \in Attempts,
                      tasks[<<g, a>>] # "none"
               PROVE  a <= GateLimit[g]
    BY DEF GateWithinLimit
  <2>1. PICK c \in Counts, T \in SUBSET Nodes : Tokens(procs[p], c, T)
    BY DEF Whole, BranchInv
  <2>2. /\ g \in Nodes /\ RetryTarget[g] \in Nodes /\ GateLimit[g] \in Nat /\ a \in Nat
        /\ Once(RetryTarget[g])
    BY GateAssumption, EngineAssumption, Layers
  <2>3. /\ c[g] \in Nat /\ c[RetryTarget[g]] \in Nat
        /\ c[g] <= c[RetryTarget[g]] /\ c[RetryTarget[g]] <= GateLimit[g]
    BY <2>1, <2>2, CountsNat DEF Tokens, Flow, Rounds, WithinLimits
  <2>4. <<g, a>> \in Key
    BY <2>2 DEF Key
  <2>5. a <= c[g]
    BY <2>1, <2>4 DEF Tokens, Tally, Here
  <2> QED
    BY <2>2, <2>3, <2>5
<1> QED
  BY <1>1, TokensMove, PTL
=============================================================================
