------------------------------ MODULE MCAuthoring ------------------------------
(***************************************************************************)
(* Two editors and two provisioning calls on a small pipeline              *)
(*                                                                         *)
(*   s -> v (tool) -> w (goal gate that retries v) -> x                    *)
(*                                                                         *)
(* which exists, lacks v, or has to be created.  The declarations and      *)
(* edges at hand can break it in each way validate looks for.              *)
(***************************************************************************)
EXTENDS Provisioning, TLC

D(i, s, t, p, c) == [id |-> i, shape |-> s, target |-> t, profile |-> p, class |-> c]
A(s, d) == [src |-> s, dst |-> d, label |-> "none", guard |-> NoGuard]
R(b, o, p) == [by |-> b, of |-> o, profile |-> p]

MCIds == {"s", "v", "w", "x"}
MCStart == D("s", "START", NoTarget, NoProfile, "plain")
MCWork == D("w", "CODERGEN", "v", NoProfile, "code")
MCTool == D("v", "TOOL", NoTarget, "runner", "plain")
MCExit == D("x", "EXIT", NoTarget, NoProfile, "plain")
MCDecls == {MCStart, MCWork, MCTool, MCExit, D("w", "TOOL", NoTarget, "runner", "plain")}

\* An accepted guard that a context decides, and one that is no sentence.
MCShort == [A("s", "w") EXCEPT !.label = "some", !.guard = <<"not", "k", "and", "l">>]
MCWrong == [A("s", "w") EXCEPT !.guard = <<"k", "or">>]
MCArcs == {A("s", "v"), A("v", "w"), A("w", "x"), MCShort, MCWrong}

\* Two rules for w, the more specific one first; two rules equal but in order.
MCSheet == << R("class", "code", "coder"), R("*", "w", "runner") >>
MCSheets == {<< >>, << R("*", "w", "runner"), R("*", "w", "coder") >>}

Built(N, C) == [nodes |-> [n \in MCDecls |-> IF n \in N THEN 1 ELSE 0],
                arcs |-> [a \in MCArcs |-> IF a \in C THEN 1 ELSE 0],
                style |-> MCSheet]
MCExisting ==
    {Built({MCStart, MCWork, MCTool, MCExit}, 
           {A("s", "v"), A("v", "w"), A("w", "x")}),
     Built({MCStart, MCWork, MCExit}, {MCShort, A("w", "x")})}

One == [type |-> "number", rank |-> 1]
Word == [type |-> "string", rank |-> 1]
MCLiterals == [t \in {"1"} |-> One]
C(v, w) == [c \in {"k", "l"} |-> IF c = "k" THEN v ELSE w]
MCContexts == {C(Null, Null), C(One, Null), C(Word, One)}

\* Every text of at most five of these tokens.
MCAlphabet == {"k", "1", "<", "==", "and", "or", "not", "(", ")"}
MCTexts == UNION {[1..n -> MCAlphabet] : n \in 0..5}

\* The processes of a kind are interchangeable.
MCSymmetry == Permutations(Editors) \union Permutations(Makers)
=============================================================================
