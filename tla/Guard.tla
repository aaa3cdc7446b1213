--------------------------------- MODULE Guard ---------------------------------
(***************************************************************************)
(* The guard language of edge conditions (domain/guard.py): the parser     *)
(* that evaluates while it parses, and the grammar it is documented with.  *)
(*                                                                         *)
(* A text is a sequence of tokens.  A value is its type and a rank that    *)
(* orders the values of the type, 0 for the falsy one; true and false are  *)
(* the numbers 1 and 0, as in Python.  A context gives each key its value: *)
(* a key the context lacks, or a path that leads nowhere, is null.         *)
(***************************************************************************)
EXTENDS Integers, Sequences

CONSTANTS Keys,           \* key tokens
          Literals,       \* the value of each literal token
          GuardContexts,  \* contexts a run may have
          GuardTexts,     \* bound: the texts whose meaning is checked
          MaxGuardDepth   \* MAX_GUARD_DEPTH

Value == [type : {"null", "number", "string", "mapping"}, rank : Nat]
Null  == [type |-> "null", rank |-> 0]
EmptyContext == [k \in Keys |-> Null]

OP1 == {"<", ">", "(", ")"}
Comparators == {"==", "!=", "<", "<=", ">", ">="}
Operands == Keys \union DOMAIN Literals
Tokens == OP1 \union Comparators \union {"and", "or", "not"} \union Operands

ASSUME GuardAssumption ==
    /\ Operands \intersect (OP1 \union Comparators \union {"and", "or", "not"}) = {}
    /\ \A t \in DOMAIN Literals : Literals[t] \in Value
    /\ GuardContexts \subseteq [Keys -> Value] /\ EmptyContext \in GuardContexts
    /\ GuardTexts \subseteq Seq(Tokens)
    /\ MaxGuardDepth \in Nat

ValueOf(t, ctx) == IF t \in Keys THEN ctx[t] ELSE Literals[t]

Truthy(v) == v.rank # 0

\* Values of different types are unequal, and no order holds between them.
Compare(op, v, w) ==
    LET ordered == v.type = w.type /\ v.type \in {"number", "string"}
    IN  \/ op = "==" /\ v = w
        \/ op = "!=" /\ v # w
        \/ op = "<"  /\ ordered /\ v.rank < w.rank
        \/ op = "<=" /\ ordered /\ v.rank <= w.rank
        \/ op = ">"  /\ ordered /\ v.rank > w.rank
        \/ op = ">=" /\ ordered /\ v.rank >= w.rank

-----------------------------------------------------------------------------
(***************************************************************************)
(* The parser.  A result is whether PipelineValidationError was raised,    *)
(* else the value and the position after it.                               *)
(***************************************************************************)
Raised == [raised |-> TRUE, val |-> FALSE, pos |-> 0]
Parsed(v, i) == [raised |-> FALSE, val |-> v, pos |-> i]

TokenAt(toks, i) == IF i <= Len(toks) THEN toks[i] ELSE "end"

Comparison(toks, ctx, i) ==
    LET left == TokenAt(toks, i)
        op == TokenAt(toks, i + 1)
        right == TokenAt(toks, i + 2)
    IN  IF left \notin Operands THEN Raised
        ELSE IF op \notin Comparators THEN Parsed(Truthy(ValueOf(left, ctx)), i + 1)
        ELSE IF right \notin Operands THEN Raised
        ELSE Parsed(Compare(op, ValueOf(left, ctx), ValueOf(right, ctx)), i + 3)

\* Mutant: the right operand is skipped once the left one has decided.
ReadsRightLazily(word, left) == left = (word = "and")

\* The right operand is parsed whatever the left one is.
ReadsRight(word, left) == TRUE

\* What a word makes of the values of its operands, and the rule of the operands.
Joined(word, v, w) == IF word = "or" THEN v \/ w ELSE v /\ w

Operand(rule) == IF rule = "or" THEN "and" ELSE "not"

\* One call of a rule at a token: what the calls return that it makes in turn is
\* given by P.  The loops of _parse_or and _parse_and, from the right: both words
\* are associative.  Any token of kind OP1 closes a parenthesis.
Calls == {"or", "and", "not"} \X Nat \X Nat

ParseBinary(P, toks, rule, i, depth) ==
    LET left == P[<<Operand(rule), i, depth>>]
        right == IF ReadsRight(rule, left.val) THEN P[<<rule, left.pos + 1, depth>>]
                 ELSE Parsed(left.val, left.pos + 1)
    IN  IF left.raised \/ TokenAt(toks, left.pos) # rule THEN left
        ELSE IF right.raised THEN Raised
        ELSE Parsed(Joined(rule, left.val, right.val), right.pos)

ParseNot(P, toks, ctx, i, depth) ==
    IF depth = MaxGuardDepth THEN Raised
    ELSE IF TokenAt(toks, i) = "not" THEN
        LET r == P[<<"not", i + 1, depth + 1>>]
        IN  IF r.raised THEN Raised ELSE Parsed(~r.val, r.pos)
    ELSE IF TokenAt(toks, i) = "(" THEN
        LET r == P[<<"or", i + 1, depth + 1>>]
        IN  IF r.raised \/ TokenAt(toks, r.pos) \notin OP1 THEN Raised
            ELSE Parsed(r.val, r.pos + 1)
    ELSE Comparison(toks, ctx, i)

ParseCall(P, toks, ctx, call) ==
    IF call[1] = "not" THEN ParseNot(P, toks, ctx, call[2], call[3])
    ELSE ParseBinary(P, toks, call[1], call[2], call[3])

Parse(toks, ctx) ==
    LET P[call \in Calls] == ParseCall(P, toks, ctx, call)
    IN  P[<<"or", 1, 0>>]

\* evaluate: nothing may be left over.
Evaluate(toks, ctx) ==
    LET r == Parse(toks, ctx) IN IF r.pos = Len(toks) + 1 THEN r ELSE Raised

-----------------------------------------------------------------------------
(***************************************************************************)
(* The grammar at the head of the file: the meanings of a text, each with  *)
(* the nesting depth of its derivation.                                    *)
(***************************************************************************)
Atoms(toks, ctx, i, j) ==
    LET V(k) == ValueOf(toks[k], ctx)
    IN  {m \in [val : BOOLEAN, depth : {1}] :
            \/ /\ j = i /\ toks[i] \in Operands
               /\ m.val = Truthy(V(i))
            \/ /\ j = i + 2 /\ {toks[i], toks[j]} \subseteq Operands
               /\ toks[i + 1] \in Comparators
               /\ m.val = Compare(toks[i + 1], V(i), V(j))}

Deeper(M) == {[val |-> m.val, depth |-> m.depth + 1] : m \in M}

Negated(M) == {[val |-> ~m.val, depth |-> m.depth] : m \in M}

Both(word, L, R) ==
    {[val |-> Joined(word, l.val, r.val),
      depth |-> IF l.depth > r.depth THEN l.depth ELSE r.depth] : l \in L, r \in R}

\* The meanings, under one rule, of the tokens from one place to another, given
\* by M for the shorter texts and the rules below.
MeansBinary(M, toks, rule, i, j) ==
    M[<<Operand(rule), i, j>>] \union
    UNION {Both(rule, M[<<Operand(rule), i, k - 1>>], M[<<rule, k + 1, j>>]) :
              k \in {k \in (i + 1)..(j - 1) : toks[k] = rule}}

MeansNot(M, toks, ctx, i, j) ==
    Atoms(toks, ctx, i, j)
    \union (IF toks[i] = "not" THEN Deeper(Negated(M[<<"not", i + 1, j>>])) ELSE {})
    \union (IF toks[i] = "(" /\ toks[j] = ")"
            THEN Deeper(M[<<"or", i + 1, j - 1>>]) ELSE {})

Means(M, toks, ctx, span) ==
    IF span[2] > span[3] THEN {}
    ELSE IF span[1] = "not" THEN MeansNot(M, toks, ctx, span[2], span[3])
    ELSE MeansBinary(M, toks, span[1], span[2], span[3])

Meanings(toks, ctx) ==
    LET M[span \in Calls] == Means(M, toks, ctx, span)
    IN  M[<<"or", 1, Len(toks)>>]

\* A text decides in ctx as the grammar says: a sentence that is not too deep
\* has its one meaning, and one that is too deep raises.
DecidesAsWritten(toks, ctx) ==
    \A m \in Meanings(toks, ctx) :
        LET r == Evaluate(toks, ctx)
        IN  IF m.depth <= MaxGuardDepth THEN ~r.raised /\ r.val = m.val ELSE r.raised

\* Whether a text raises does not depend on the context.
RaisesAlways(toks) ==
    \A ctx \in GuardContexts :
        Evaluate(toks, ctx).raised = Evaluate(toks, EmptyContext).raised

WellEvaluated(toks) ==
    RaisesAlways(toks) /\ \A ctx \in GuardContexts : DecidesAsWritten(toks, ctx)

AllWellEvaluated == \A toks \in GuardTexts : WellEvaluated(toks)
=============================================================================
