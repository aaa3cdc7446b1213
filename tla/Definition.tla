------------------------------ MODULE Definition ------------------------------
(***************************************************************************)
(* A stored pipeline definition and Pipeline.validate (domain/pipeline.py).*)
(* Unlike the graph a run executes (module Pipeline), a definition under   *)
(* construction may be wrong in every way: duplicate or missing nodes,     *)
(* dangling edges, gates that retry nothing.                               *)
(*                                                                         *)
(* The lists of nodes and edges are bags: the DOT text groups repeated     *)
(* declarations by name, and validate does not look at their order.  A     *)
(* stylesheet is a sequence of rules.                                      *)
(***************************************************************************)
EXTENDS Guard, FiniteSets

CONSTANTS Ids,        \* node names
          Classes,    \* node classes
          Profiles,   \* profile names
          Decls,      \* node declarations
          Arcs,       \* edge declarations
          NoTarget,   \* a node without a goal gate
          NoProfile,  \* a node without a profile of its own, or without any
          NoGuard     \* an edge without a condition

DefShapes == {"START", "EXIT", "CODERGEN", "TOOL", "HUMAN", "FAN_OUT", "FAN_IN",
              "CONDITIONAL"}
Decl == [id : Ids, shape : DefShapes, target : Ids \union {NoTarget},
         profile : Profiles \union {NoProfile}, class : Classes]
Arc  == [src : Ids, dst : Ids, label : {"none", "some"},
         guard : Seq(Tokens) \union {NoGuard}]

\* A rule selects every node, or those of a shape, of a class, or of a name.
Rule == [by : {"*", "shape", "class", "id"}, of : DefShapes \union Classes \union Ids,
         profile : Profiles]

ASSUME DefinitionAssumption ==
    /\ IsFiniteSet(Ids)
    /\ Decls \subseteq Decl /\ Arcs \subseteq Arc
    /\ NoTarget \notin Ids /\ NoProfile \notin Profiles /\ NoGuard \notin Seq(Tokens)

\* A definition: how often each declaration occurs, and the stylesheet.
Definitions == [nodes : [Decls -> Nat], arcs : [Arcs -> Nat], style : Seq(Rule)]
EmptyDefinition == [nodes |-> [n \in Decls |-> 0], arcs |-> [a \in Arcs |-> 0],
                    style |-> << >>]

\* A definition with other nodes, other edges, or another stylesheet.
WithNodes(d, nodes) == [nodes |-> nodes, arcs |-> d.arcs, style |-> d.style]
WithArcs(d, arcs)   == [nodes |-> d.nodes, arcs |-> arcs, style |-> d.style]
WithStyle(d, style) == [nodes |-> d.nodes, arcs |-> d.arcs, style |-> style]

NodesOf(d) == {n \in Decls : d.nodes[n] > 0}
ArcsOf(d)  == {a \in Arcs : d.arcs[a] > 0}
IdsOf(d)   == {n.id : n \in NodesOf(d)}
Named(d, shape) == {n.id : n \in {m \in NodesOf(d) : m.shape = shape}}

\* One declaration, written once, has the shape.
Single(d, shape) ==
    \E n \in Decls : /\ n.shape = shape /\ d.nodes[n] = 1
                     /\ \A m \in NodesOf(d) \ {n} : m.shape # shape

-----------------------------------------------------------------------------
Selects(rule, n) == \/ rule.by = "*"
                    \/ rule.by = "shape" /\ n.shape = rule.of
                    \/ rule.by = "class" /\ n.class = rule.of
                    \/ rule.by = "id" /\ n.id = rule.of

Specificity(rule) ==
    CASE rule.by = "*" -> 0 [] rule.by = "shape" -> 1
      [] rule.by = "class" -> 2 [] rule.by = "id" -> 3

\* The most specific rule that selects the node, the last one of several.
Styled(style, n) ==
    LET hits == {i \in DOMAIN style : Selects(style[i], n)}
        Beats(i, j) == \/ Specificity(style[i]) > Specificity(style[j])
                       \/ Specificity(style[i]) = Specificity(style[j]) /\ i >= j
    IN  IF hits = {} THEN NoProfile
        ELSE style[CHOOSE i \in hits : \A j \in hits : Beats(i, j)].profile

ResolveProfile(d, n) ==
    IF n.profile # NoProfile THEN n.profile ELSE Styled(d.style, n)

Workers(d) == {n \in NodesOf(d) : n.shape \notin {"START", "EXIT"}}

-----------------------------------------------------------------------------
(***************************************************************************)
(* validate(): the union of seven checks, each a set of issues.            *)
(***************************************************************************)
Issue(element, reason) == [element |-> element, reason |-> reason]

StructureIssues(d) ==
    {Issue("pipeline", s) : s \in {t \in {"START", "EXIT"} : ~Single(d, t)}}

EdgeIssues(d) ==
    {Issue(x, "dangling") :
        x \in (UNION {{a.src, a.dst} : a \in ArcsOf(d)}) \ IdsOf(d)}

\* Only declared nodes have an adjacency list; a list may name any node.
Adjacent(d, x) ==
    IF x \in IdsOf(d) THEN {a.dst : a \in {b \in ArcsOf(d) : b.src = x}} ELSE {}

\* The search from the start node, a layer at a time.
FindReachable(d, s) ==
    LET seen[i \in 0..Cardinality(Ids)] ==
            IF i = 0 THEN {s}
            ELSE seen[i - 1] \union UNION {Adjacent(d, x) : x \in seen[i - 1]}
    IN  seen[Cardinality(Ids)]

\* Empty unless there is exactly one START.
Reachable(d) ==
    IF Single(d, "START")
    THEN UNION {FindReachable(d, s) : s \in Named(d, "START")} ELSE {}

ReachabilityIssues(d) ==
    IF ~Single(d, "START") THEN {}
    ELSE {Issue(x, "unreachable") : x \in IdsOf(d) \ Reachable(d)}

\* Mutant: only the reachability of a retry target is checked, if it exists.
GateIssuesReachedOnly(d) ==
    {Issue(n.id, "gate") : n \in
        {m \in NodesOf(d) : m.target \in IdsOf(d) \ Reachable(d)}}

GateIssues(d) ==
    {Issue(n.id, "gate") : n \in
        {m \in NodesOf(d) :
            /\ m.target # NoTarget
            /\ \/ m.target \notin IdsOf(d)
               \/ Reachable(d) # {} /\ m.target \notin Reachable(d)}}

ProfileIssues(d) ==
    {Issue(n.id, "profile") : n \in
        {m \in Workers(d) : ResolveProfile(d, m) = NoProfile}}

ToolIssues(d) ==
    {Issue(a.src, "tool") : a \in
        {b \in ArcsOf(d) : {b.src, b.dst} \subseteq Named(d, "TOOL")}}

\* Each condition is evaluated once, in the empty context.
Unparseable ==
    {a \in Arcs : a.guard # NoGuard /\ Evaluate(a.guard, EmptyContext).raised}

GuardIssues(d) == {Issue(a.src, "guard") : a \in ArcsOf(d) \intersect Unparseable}

Issues(d) ==
    StructureIssues(d) \union EdgeIssues(d) \union ReachabilityIssues(d)
    \union GateIssues(d) \union ProfileIssues(d) \union ToolIssues(d)
    \union GuardIssues(d)

-----------------------------------------------------------------------------
(***************************************************************************)
(* What the execution of a run relies on, stated without reference to the  *)
(* checks: Visited is the least set of names that holds the start and is   *)
(* closed under every edge and every retry that a run could take.          *)
(***************************************************************************)
Follows(d, x) ==
    {a.dst : a \in {b \in ArcsOf(d) : b.src = x}}
    \union ({n.target : n \in {m \in NodesOf(d) : m.id = x}} \ {NoTarget})

Visited(d) ==
    LET next == [y \in Ids |-> Follows(d, y)]
        closed == {S \in SUBSET Ids : /\ Named(d, "START") \subseteq S
                                       /\ \A y \in S : next[y] \subseteq S}
    IN  {x \in Ids : \A S \in closed : x \in S}

\* A run starts at one place, stays among declared nodes with a profile for
\* every worker, can evaluate every guard in every context, never has two tools
\* in a row, and has an exit ahead of it.
RunsInside(d) ==
    LET visited == Visited(d)
    IN  /\ \E s \in Ids : Named(d, "START") = {s}
        /\ visited \subseteq IdsOf(d)
        /\ visited \intersect Named(d, "EXIT") # {}
        /\ \A n \in NodesOf(d) : n.id \in visited =>
              \/ n.shape \in {"START", "EXIT"} \/ n.profile # NoProfile
              \/ \E i \in DOMAIN d.style : Selects(d.style[i], n)
        /\ \A a \in ArcsOf(d) : a.src \in visited =>
              /\ a.guard = NoGuard
                    \/ \A ctx \in GuardContexts : ~Evaluate(a.guard, ctx).raised
              /\ ~(a.src \in Named(d, "TOOL") /\ a.dst \in Named(d, "TOOL"))
=============================================================================
