------------------------------- MODULE Pipeline -------------------------------
(***************************************************************************)
(* The pipeline graph a run executes (domain/pipeline.py), as constants: a *)
(* pipeline that launch_run has loaded and validated does not change while *)
(* the run executes.  Contexts are abstracted to the truth of the flags    *)
(* that guards read; a missing key is a flag that is FALSE.                *)
(***************************************************************************)
EXTENDS EdgeSelector, FiniteSets

CONSTANTS Start,        \* the START node
          Shape,        \* Node.shape
          Edges,        \* Pipeline.edges
          Gates,        \* the nodes with a GoalGatePolicy
          RetryTarget,  \* GoalGatePolicy.retry_target
          GateLimit,    \* GoalGatePolicy.max_attempts
          Flags,        \* context keys that guards read
          Labels        \* the edge labels in use

Shapes == {"START", "EXIT", "CODERGEN", "CONDITIONAL", "TOOL", "FAN_OUT",
           "FAN_IN", "HUMAN"}

Contexts == [Flags -> BOOLEAN]

\* A context_updates mapping: some flags, each with its new value.
Updates == UNION {[S -> BOOLEAN] : S \in SUBSET Flags}
NoUpdate == [k \in {} |-> FALSE]

Edge == [src : Nodes, dst : Nodes, label : Labels \union {NoLabel},
         weight : Int, guarded : BOOLEAN, cond : SUBSET Contexts]

ASSUME PipelineAssumption ==
    /\ Start \in Nodes
    /\ Shape \in [Nodes -> Shapes]
    /\ Shape[Start] = "START"
    /\ Edges \subseteq Edge
    /\ NoLabel \notin Labels

ASSUME GateAssumption ==
    /\ Gates \subseteq Nodes
    /\ RetryTarget \in [Gates -> Nodes]
    /\ GateLimit \in [Gates -> Nat \ {0}]

-----------------------------------------------------------------------------
Out(n) == {e \in Edges : e.src = n}

\* Context.apply: the updated keys take their new value.
Apply(ctx, upd) ==
    [k \in Flags |-> IF k \in DOMAIN upd THEN upd[k] ELSE ctx[k]]

\* The node completes a branch of a fan-in: its updates wait for the merge.
FeedsFanIn(n) == \E e \in Out(n) : Shape[e.dst] = "FAN_IN"

Predecessors(f) == {e.src : e \in {d \in Edges : d.dst = f}}

\* Shapes dispatched as an ordinary card, by a card-driven or a tool step.
CardShapes == {"START", "CODERGEN", "CONDITIONAL", "FAN_OUT"}

-----------------------------------------------------------------------------
(***************************************************************************)
(* The graph as the properties of a run see it.                            *)
(***************************************************************************)
\* A report of m can lead to a card of n: along an edge, through a TOOL, or
\* by the retry of a gate.
LeadsTo(m, n) ==
    \/ \E e \in Out(m) : e.dst = n
    \/ \E e \in Out(m) : Shape[e.dst] = "TOOL" /\ \E t \in Out(e.dst) : t.dst = n
    \/ m \in Gates /\ RetryTarget[m] = n

\* The nodes whose completion can end the run: an edge to EXIT, directly or
\* through a TOOL.
EndsAt(n) ==
    \E e \in Out(n) :
        \/ Shape[e.dst] = "EXIT"
        \/ Shape[e.dst] = "TOOL" /\ \E t \in Out(e.dst) : Shape[t.dst] = "EXIT"

\* The nodes whose completion can pause the run.
AsksHuman(n) == \E e \in Out(n) : Shape[e.dst] = "HUMAN"

\* The first card of a fan-in whose predecessors are all branches (the others
\* are retries that a gate asked for).
Join(k) ==
    /\ Shape[k[1]] = "FAN_IN" /\ k[2] = 1
    /\ \A n \in Predecessors(k[1]) : Shape[n] \notin {"START", "FAN_OUT"}

\* A card of n may come to be: from the entry, a fan-out or a retry, or along an
\* edge unless n is a tool or an exit (those are followed inline).
Carded(n) ==
    \/ \E e \in Edges :
          /\ e.dst = n
          /\ \/ Shape[n] \notin {"TOOL", "EXIT"}
             \/ Shape[e.src] = "FAN_OUT"
             \/ e.src = Start /\ Shape[n] = "TOOL"
    \/ \E g \in Gates : RetryTarget[g] = n

\* A card of n may be numbered by counting the rows of n, so that a replay of
\* the step that creates it may number it differently.
Counted(n) ==
    /\ Shape[n] \in CardShapes \union {"HUMAN"}
    /\ \E e \in Edges : e.dst = n /\ Carded(e.src) /\ Shape[e.src] # "FAN_OUT"

\* One card at a time: a card leads on only through tools, or to the exit, and a
\* gate retries itself.
Sequential ==
    /\ \A n \in Nodes : Carded(n) =>
          /\ Shape[n] # "FAN_OUT"
          /\ \A e \in Out(n) : Shape[e.dst] \in {"TOOL", "EXIT"}
    /\ \A e \in Edges : Shape[e.src] = "TOOL" =>
          Shape[e.dst] \in CardShapes \union {"EXIT"}
    /\ \A g \in Gates : RetryTarget[g] = g

\* No way through tools leads back.
Ordered(level) ==
    \A d, e \in Edges : Shape[d.dst] = "TOOL" /\ e.src = d.dst =>
        level[d.src] < level[e.dst]

\* Every edge climbs, but those to an exit.
Ascending(level) ==
    \A e \in Edges : Shape[e.dst] # "EXIT" => level[e.src] < level[e.dst]

\* A branch is named by its last node, the main thread by Start: a fork leads from
\* the main thread to branches, a branch to its join, and only the main thread to
\* an exit.
Threaded(level, thread) ==
    /\ thread[Start] = Start
    /\ \A n \in Nodes : thread[n] # Start =>
          /\ thread[thread[n]] = thread[n]
          /\ n # thread[n] => level[n] < level[thread[n]]
    /\ \A e \in Edges :
          \/ Shape[e.dst] = "EXIT" /\ thread[e.src] = Start
          \/ /\ Shape[e.dst] # "EXIT" /\ Shape[e.src] = "FAN_OUT"
             /\ Shape[e.dst] # "FAN_IN"
             /\ thread[e.src] = Start /\ thread[e.dst] # Start
          \/ /\ Shape[e.dst] = "FAN_IN" /\ Shape[e.src] # "FAN_OUT"
             /\ thread[e.dst] = Start /\ thread[e.src] = e.src /\ e.src # Start
          \/ /\ Shape[e.dst] \notin {"EXIT", "FAN_IN"} /\ Shape[e.src] # "FAN_OUT"
             /\ thread[e.dst] = thread[e.src]

\* The branches of a fork are those of one join, which is all they lead to.
Joined(thread) ==
    /\ \A f \in Nodes : Shape[f] = "FAN_OUT" =>
          /\ \E j \in Nodes : /\ Shape[j] = "FAN_IN"
                              /\ Predecessors(j) = {thread[e.dst] : e \in Out(f)}
          /\ \A d, e \in Out(f) : thread[d.dst] = thread[e.dst] => d.dst = e.dst
    /\ \A j \in Nodes : Shape[j] = "FAN_IN" =>
          \A e \in Edges : e.src \in Predecessors(j) => e.dst = j

\* n lies in the loop that gate g closes; g itself does not.
Within(level, g, n) ==
    level[RetryTarget[g]] <= level[n] /\ level[n] < level[g]

\* The loops of gates: on the main thread, entered at the retry target and left
\* through the gate, nested or apart, and without a target in common.
Looped(level, thread) ==
    \A g \in Gates :
        /\ thread[g] = Start /\ thread[RetryTarget[g]] = Start
        /\ "TOOL" \notin {Shape[g], Shape[RetryTarget[g]]}
        /\ level[RetryTarget[g]] <= level[g]
        /\ level[RetryTarget[g]] = level[g] => RetryTarget[g] = g
        /\ ~Within(level, g, Start)
        /\ \A e \in Edges : Shape[e.dst] # "EXIT" =>
              /\ Within(level, g, e.dst) \/ e.dst = g =>
                    Within(level, g, e.src) \/ e.dst = RetryTarget[g]
              /\ Within(level, g, e.src) => Within(level, g, e.dst) \/ e.dst = g
        /\ \A h \in Gates \ {g} :
              /\ RetryTarget[h] \notin {g, RetryTarget[g]}
              /\ Within(level, g, h) <=> Within(level, g, RetryTarget[h])
        /\ \A n \in Nodes : thread[n] # Start =>
              ~Within(level, g, n) /\ level[n] # level[g]

\* No gate's retry leads back from behind n to before it.
OnceOnly(level, n) ==
    \A g \in Gates : ~(level[RetryTarget[g]] < level[n] /\ level[n] <= level[g])

\* A card of n may be numbered 1 whatever cards n has.
Fixed(n) ==
    \/ Shape[n] = "FAN_IN"
    \/ \E e \in Edges : /\ e.dst = n
                        /\ e.src = Start \/ Shape[e.src] \in {"FAN_OUT", "TOOL"}

Layered(level, thread) ==
    /\ Ascending(level) /\ Threaded(level, thread)
    /\ Joined(thread) /\ Looped(level, thread)
    /\ \A n \in Nodes : Fixed(n) /\ Shape[n] # "EXIT" => OnceOnly(level, n)

\* Forks with their joins, and loops of gates between them: no human, and no card
\* is asked for twice under the same number.
Structured ==
    /\ \A n \in Nodes : Carded(n) => Shape[n] \in CardShapes \union {"FAN_IN", "TOOL"}
    /\ \A e \in Edges : Shape[e.src] = "TOOL" =>
          Shape[e.dst] \in CardShapes \union {"EXIT"}
    /\ \E level \in [Nodes -> Nat], thread \in [Nodes -> Nodes] : Layered(level, thread)

\* Of a structured pipeline: no loop lies within another, so that each is entered once.
Unnested ==
    \E level \in [Nodes -> Nat], thread \in [Nodes -> Nodes] :
        Layered(level, thread) /\ \A g \in Gates : OnceOnly(level, RetryTarget[g])

\* No edge has a condition, so routing does not depend on the context.
Unguarded == \A e \in Edges : ~e.guarded

\* Wherever a card or a tool stands, some edge is open in every context.
WaysOn ==
    /\ IsFiniteSet(Edges)
    /\ \A n \in Nodes : Carded(n) \/ Shape[n] = "TOOL" =>
          \E e \in Out(n) : ~e.guarded
=============================================================================
