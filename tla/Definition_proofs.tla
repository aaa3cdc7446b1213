---------------------------- MODULE Definition_proofs ----------------------------
(***************************************************************************)
(* What the seven checks of Pipeline.validate give a run, for every        *)
(* definition; and, for one of them, that the parser of guards raises in   *)
(* every context or in none, and decides as the grammar says.              *)
(***************************************************************************)
EXTENDS Definition, TLAPS, WellFoundedInduction, FiniteSetTheorems

(***************************************************************************)
(* The least number of a set: induction, for proofs by a least             *)
(* counterexample.                                                         *)
(***************************************************************************)
LEMMA NatMin ==
    ASSUME NEW T, T \subseteq Nat, T # {}
    PROVE  \E x \in T : \A y \in T : x <= y
<1>0. \A y, z \in Nat : <<y, z>> \in OpToRel(<, Nat) <=> y < z
  BY DEF OpToRel
<1>1. PICK R : R = OpToRel(<, Nat)
  OBVIOUS
<1>2. IsWellFoundedOn(R, Nat)
  BY <1>1, NatLessThanWellFounded
<1>3. PICK x \in T : \A y \in T : ~(<<y, x>> \in R)
  BY <1>2, WFMin
<1>4. \A y, z \in Nat : <<y, z>> \in R <=> y < z
  BY <1>0, <1>1, Zenon
<1>5. \A y \in T : ~(y < x)
  BY <1>3, <1>4
<1>6. \A y \in T : x <= y
  BY <1>5
<1> QED
  BY <1>6

\* A set of numbers that holds 0, and with each number its successor.
LEMMA NatAll ==
    ASSUME NEW T, 0 \in T, \A n \in Nat : n \in T => n + 1 \in T
    PROVE  Nat \subseteq T
<1> SUFFICES ASSUME Nat \ T # {} PROVE FALSE
  OBVIOUS
<1>1. PICK n \in Nat \ T : \A m \in Nat \ T : n <= m
  BY NatMin
<1>2. n # 0 /\ n - 1 \in Nat /\ n = (n - 1) + 1
  BY <1>1
<1>3. n - 1 \in T
  BY <1>1, <1>2
<1> QED
  BY <1>1, <1>2, <1>3

-----------------------------------------------------------------------------
(***************************************************************************)
(* The parser.  A call is heavier than the calls it makes: the positions   *)
(* grow, and at one position the rules descend.                            *)
(***************************************************************************)
Rules == {"or", "and", "not"}

Level(rule) == IF rule = "or" THEN 2 ELSE IF rule = "and" THEN 1 ELSE 0

Left(toks, i) == IF i > Len(toks) THEN 0 ELSE Len(toks) + 1 - i

Weight(toks, rule, i) == 3 * Left(toks, i) + Level(rule)

\* A result that raises or has read something.
Good(r, i) == r.raised \in BOOLEAN /\ (~r.raised => r.pos \in Nat /\ r.pos > i)

\* Two results that both raise or end at the same place.
Alike(r, s) == r.raised = s.raised /\ (~r.raised => r.pos = s.pos)

LEMMA RaisedIs == Raised.raised = TRUE
  BY DEF Raised

LEMMA ParsedIs ==
    ASSUME NEW v, NEW i
    PROVE  Parsed(v, i).raised = FALSE /\ Parsed(v, i).val = v /\ Parsed(v, i).pos = i
  BY DEF Parsed

LEMMA GoodIs ==
    ASSUME NEW i
    PROVE  /\ Good(Raised, i)
           /\ \A v, j : j \in Nat /\ j > i => Good(Parsed(v, j), i)
<1>1. Good(Raised, i)
  BY DEF Raised, Good
<1>2. \A v, j : j \in Nat /\ j > i => Good(Parsed(v, j), i)
  BY DEF Parsed, Good
<1> QED
  BY <1>1, <1>2

LEMMA WeightNat ==
    ASSUME NEW toks \in Seq(Tokens), NEW rule \in Rules, NEW i \in Nat
    PROVE  Weight(toks, rule, i) \in Nat /\ Weight(toks, rule, i) < 3 * (Len(toks) + 1) + 3
<1>1. Level(rule) \in 0..2
  BY DEF Level
<1>2. Left(toks, i) \in 0..(Len(toks) + 1) /\ Len(toks) \in Nat
  BY DEF Left
<1>3. \A a \in 0..(Len(toks) + 1), b \in 0..2 :
         3 * a + b \in Nat /\ 3 * a + b < 3 * (Len(toks) + 1) + 3
  BY <1>2
<1> QED
  BY <1>1, <1>2, <1>3 DEF Weight

LEMMA RulesDescend ==
    ASSUME NEW toks \in Seq(Tokens), NEW i \in Nat
    PROVE  /\ Weight(toks, "and", i) < Weight(toks, "or", i)
           /\ Weight(toks, "not", i) < Weight(toks, "and", i)
  BY DEF Weight, Left, Level

LEMMA OperandsAdvance ==
    ASSUME NEW toks \in Seq(Tokens), NEW i \in Nat, NEW j \in Nat, j > i,
           NEW rule \in {"or", "and"}, TokenAt(toks, j) = rule
    PROVE  Weight(toks, rule, j + 1) < Weight(toks, rule, i)
<1>1. j <= Len(toks)
  BY DEF TokenAt
<1>2. Left(toks, j + 1) < Left(toks, i) /\ Left(toks, j + 1) \in Nat /\ Left(toks, i) \in Nat
  BY <1>1 DEF Left
<1> QED
  BY <1>2 DEF Weight, Level

LEMMA PrefixesAdvance ==
    ASSUME NEW toks \in Seq(Tokens), NEW i \in Nat, TokenAt(toks, i) \in {"not", "("}
    PROVE  /\ Weight(toks, "not", i + 1) < Weight(toks, "not", i)
           /\ Weight(toks, "or", i + 1) < Weight(toks, "not", i)
<1>1. i <= Len(toks)
  BY DEF TokenAt
<1> QED
  BY <1>1 DEF Weight, Left, Level

\* Where a comparison ends, and whether it raises, does not depend on the context.
LEMMA ComparisonEnds ==
    ASSUME NEW toks, NEW i \in Nat, NEW c, NEW k
    PROVE  /\ Good(Comparison(toks, c, i), i)
           /\ Alike(Comparison(toks, c, i), Comparison(toks, k, i))
<1> DEFINE left == TokenAt(toks, i)
           op == TokenAt(toks, i + 1)
           right == TokenAt(toks, i + 2)
           raises == left \notin Operands \/ (op \in Comparators /\ right \notin Operands)
           end == IF op \in Comparators THEN i + 3 ELSE i + 1
<1>1. ASSUME NEW x
      PROVE  /\ raises => Comparison(toks, x, i) = Raised
             /\ ~raises => \E v : Comparison(toks, x, i) = Parsed(v, end)
  <2>1. raises => Comparison(toks, x, i) = Raised
    BY Zenon DEF Comparison
  <2>2. ~raises /\ op \notin Comparators =>
           Comparison(toks, x, i) = Parsed(Truthy(ValueOf(left, x)), end)
    BY Zenon DEF Comparison
  <2>3. ~raises /\ op \in Comparators =>
           Comparison(toks, x, i) =
             Parsed(Compare(op, ValueOf(left, x), ValueOf(right, x)), end)
    BY Zenon DEF Comparison
  <2> QED
    BY <2>1, <2>2, <2>3, Zenon
<1>2. end \in Nat /\ end > i
  OBVIOUS
<1> HIDE DEF raises, end
<1>3. CASE raises
  BY <1>1, <1>3, RaisedIs DEF Good, Alike
<1>4. CASE ~raises
  <2>1. \A x : Comparison(toks, x, i).raised = FALSE /\ Comparison(toks, x, i).pos = end
    <3> TAKE x
    <3>1. PICK v : Comparison(toks, x, i) = Parsed(v, end)
      BY <1>1, <1>4
    <3> QED
      BY <3>1 DEF Parsed
  <2>2. Good(Comparison(toks, c, i), i)
    BY <1>2, <2>1, Zenon DEF Good
  <2>3. Alike(Comparison(toks, c, i), Comparison(toks, k, i))
    BY <2>1, Zenon DEF Alike
  <2> QED
    BY <2>2, <2>3
<1> QED
  BY <1>3, <1>4

At(rule, i, d) == <<rule, i, d>>

\* f and g agree on the calls lighter than w, where f raises or reads on.
Agree(toks, f, g, w) ==
    \A rule \in Rules, i \in Nat, d \in Nat : Weight(toks, rule, i) < w =>
        /\ Good(f[At(rule, i, d)], i)
        /\ f[At(rule, i, d)] = g[At(rule, i, d)]

EndAlike(toks, f, g, w) ==
    \A rule \in Rules, i \in Nat, d \in Nat : Weight(toks, rule, i) < w =>
        /\ Good(f[At(rule, i, d)], i)
        /\ Alike(f[At(rule, i, d)], g[At(rule, i, d)])

LEMMA CallIs ==
    ASSUME NEW f, NEW toks, NEW c, NEW rule, NEW i, NEW d
    PROVE  /\ rule # "not" => ParseCall(f, toks, c, At(rule, i, d))
                              = ParseBinary(f, toks, rule, i, d)
           /\ ParseCall(f, toks, c, At("not", i, d)) = ParseNot(f, toks, c, i, d)
<1>1. \A r : At(r, i, d)[1] = r /\ At(r, i, d)[2] = i /\ At(r, i, d)[3] = d
  BY DEF At
<1> QED
  BY <1>1, Zenon DEF ParseCall

Opposite(r) == ~r.val

\* What a call returns depends on the lighter calls alone, and ends after its start
\* as they do after theirs.
LEMMA BinaryAgrees ==
    ASSUME NEW toks \in Seq(Tokens), NEW f, NEW g,
           NEW rule \in Rules, rule # "not", NEW i \in Nat, NEW d \in Nat,
           Agree(toks, f, g, Weight(toks, rule, i))
    PROVE  /\ ParseBinary(f, toks, rule, i, d) = ParseBinary(g, toks, rule, i, d)
           /\ Good(ParseBinary(f, toks, rule, i, d), i)
<1>1. Operand(rule) \in Rules /\ Weight(toks, Operand(rule), i) < Weight(toks, rule, i)
  BY RulesDescend DEF Operand, Rules
<1> DEFINE x == ParseBinary(f, toks, rule, i, d)
           y == ParseBinary(g, toks, rule, i, d)
<1>3. PICK l : l = f[At(Operand(rule), i, d)]
  OBVIOUS
<1>4. Good(l, i) /\ l = g[At(Operand(rule), i, d)]
  BY <1>1, <1>3 DEF Agree
<1>5. CASE l.raised \/ TokenAt(toks, l.pos) # rule
  <2>1. x = l
    BY <1>3, <1>5, Zenon DEF ParseBinary, ReadsRight, At
  <2>2. y = l
    BY <1>4, <1>5, Zenon DEF ParseBinary, ReadsRight, At
  <2> QED
    BY <1>4, <2>1, <2>2
<1>6. CASE ~(l.raised \/ TokenAt(toks, l.pos) # rule)
  <2>1. l.pos \in Nat /\ l.pos > i /\ l.pos + 1 \in Nat
    BY <1>4, <1>6 DEF Good
  <2>2. Weight(toks, rule, l.pos + 1) < Weight(toks, rule, i)
    BY <1>6, <2>1, OperandsAdvance DEF Rules
  <2>3. PICK r : r = f[At(rule, l.pos + 1, d)]
    OBVIOUS
  <2>4. Good(r, l.pos + 1) /\ r = g[At(rule, l.pos + 1, d)]
    BY <2>1, <2>2, <2>3 DEF Agree, Rules
  <2>5. \/ r.raised /\ x = Raised
        \/ ~r.raised /\ x = Parsed(Joined(rule, l.val, r.val), r.pos)
    BY <1>3, <1>6, <2>3, Zenon DEF ParseBinary, ReadsRight, At
  <2>6. \/ r.raised /\ y = Raised
        \/ ~r.raised /\ y = Parsed(Joined(rule, l.val, r.val), r.pos)
    BY <1>4, <1>6, <2>4, Zenon DEF ParseBinary, ReadsRight, At
  <2>7. x = y
    BY <2>5, <2>6
  <2>8. ~r.raised => r.pos \in Nat /\ r.pos > i
    BY <2>1, <2>4 DEF Good
  <2>9. Good(x, i)
    BY <2>5, <2>8, GoodIs
  <2> QED
    BY <2>7, <2>9
<1> QED
  BY <1>5, <1>6

LEMMA NotAgrees ==
    ASSUME NEW toks \in Seq(Tokens), NEW c, NEW f, NEW g, NEW i \in Nat, NEW d \in Nat,
           Agree(toks, f, g, Weight(toks, "not", i))
    PROVE  /\ ParseNot(f, toks, c, i, d) = ParseNot(g, toks, c, i, d)
           /\ Good(ParseNot(f, toks, c, i, d), i)
<1> DEFINE x == ParseNot(f, toks, c, i, d)
           y == ParseNot(g, toks, c, i, d)
<1>2. PICK n, p : n = f[At("not", i + 1, d + 1)] /\ p = f[At("or", i + 1, d + 1)]
  OBVIOUS
<1>3. "not" \in Rules /\ "or" \in Rules /\ i + 1 \in Nat /\ d + 1 \in Nat
  BY DEF Rules
<1>4. CASE d = MaxGuardDepth
  <2>1. x = Raised /\ y = Raised
    BY <1>4, Zenon DEF ParseNot
  <2> QED
    BY <2>1, GoodIs
<1>5. CASE d # MaxGuardDepth /\ TokenAt(toks, i) = "not"
  <2>1. Good(n, i + 1) /\ n = g[At("not", i + 1, d + 1)]
    BY <1>2, <1>3, <1>5, PrefixesAdvance DEF Agree
  <2>2. \/ n.raised /\ x = Raised
        \/ ~n.raised /\ x = Parsed(Opposite(n), n.pos)
    BY <1>2, <1>5, Zenon DEF ParseNot, At, Opposite
  <2>3. \/ n.raised /\ y = Raised
        \/ ~n.raised /\ y = Parsed(Opposite(n), n.pos)
    BY <1>5, <2>1, Zenon DEF ParseNot, At, Opposite
  <2>4. ~n.raised => n.pos \in Nat /\ n.pos > i
    BY <2>1 DEF Good
  <2>5. Good(x, i) /\ x = y
    BY <2>2, <2>3, <2>4, GoodIs
  <2> QED
    BY <2>5
<1>6. CASE d # MaxGuardDepth /\ TokenAt(toks, i) = "("
  <2>1. Good(p, i + 1) /\ p = g[At("or", i + 1, d + 1)]
    BY <1>2, <1>3, <1>6, PrefixesAdvance DEF Agree
  <2>3. \/ (p.raised \/ TokenAt(toks, p.pos) \notin OP1) /\ x = Raised
        \/ /\ ~(p.raised \/ TokenAt(toks, p.pos) \notin OP1)
           /\ x = Parsed(p.val, p.pos + 1)
    BY <1>2, <1>6, Zenon DEF ParseNot, At, Opposite
  <2>4. \/ (p.raised \/ TokenAt(toks, p.pos) \notin OP1) /\ y = Raised
        \/ /\ ~(p.raised \/ TokenAt(toks, p.pos) \notin OP1)
           /\ y = Parsed(p.val, p.pos + 1)
    BY <1>6, <2>1, Zenon DEF ParseNot, At, Opposite
  <2>5. ~p.raised => p.pos + 1 \in Nat /\ p.pos + 1 > i
    BY <2>1 DEF Good
  <2>6. Good(x, i) /\ x = y
    BY <2>3, <2>4, <2>5, GoodIs
  <2> QED
    BY <2>6
<1>7. CASE d # MaxGuardDepth /\ TokenAt(toks, i) \notin {"not", "("}
  <2>1. /\ ParseNot(f, toks, c, i, d) = Comparison(toks, c, i)
        /\ ParseNot(g, toks, c, i, d) = Comparison(toks, c, i)
    BY <1>7, Zenon DEF ParseNot, At, Opposite
  <2> QED
    BY <2>1, ComparisonEnds
<1> QED
  BY <1>4, <1>5, <1>6, <1>7

LEMMA StepAgrees ==
    ASSUME NEW toks \in Seq(Tokens), NEW c, NEW f, NEW g,
           NEW rule \in Rules, NEW i \in Nat, NEW d \in Nat,
           Agree(toks, f, g, Weight(toks, rule, i))
    PROVE  /\ ParseCall(f, toks, c, At(rule, i, d)) = ParseCall(g, toks, c, At(rule, i, d))
           /\ Good(ParseCall(f, toks, c, At(rule, i, d)), i)
<1>1. CASE rule \in {"or", "and"}
  <2>1. rule # "not"
    BY <1>1
  <2>2. /\ ParseCall(f, toks, c, At(rule, i, d)) = ParseBinary(f, toks, rule, i, d)
        /\ ParseCall(g, toks, c, At(rule, i, d)) = ParseBinary(g, toks, rule, i, d)
    BY <2>1, CallIs
  <2>3. Agree(toks, f, g, Weight(toks, rule, i))
    OBVIOUS
  <2>4. /\ ParseBinary(f, toks, rule, i, d) = ParseBinary(g, toks, rule, i, d)
        /\ Good(ParseBinary(f, toks, rule, i, d), i)
    BY <2>1, <2>3, BinaryAgrees
  <2> QED
    BY <2>2, <2>4
<1>2. CASE rule = "not"
  BY <1>2, CallIs, NotAgrees
<1> QED
  BY <1>1, <1>2 DEF Rules

\* Whether a call raises and where it ends depends on no more than that of the
\* lighter calls, whatever the context.
LEMMA AlikeIs ==
    /\ Alike(Raised, Raised)
    /\ \A v, w, j : Alike(Parsed(v, j), Parsed(w, j))
<1>1. Alike(Raised, Raised)
  BY DEF Alike
<1>2. \A v, w, j : Alike(Parsed(v, j), Parsed(w, j))
  BY DEF Alike, Parsed
<1> QED
  BY <1>1, <1>2

LEMMA BinaryAlike ==
    ASSUME NEW toks \in Seq(Tokens), NEW f, NEW g,
           NEW rule \in {"or", "and"}, NEW i \in Nat, NEW d \in Nat,
           EndAlike(toks, f, g, Weight(toks, rule, i))
    PROVE  Alike(ParseBinary(f, toks, rule, i, d), ParseBinary(g, toks, rule, i, d))
<1> DEFINE x == ParseBinary(f, toks, rule, i, d)
           y == ParseBinary(g, toks, rule, i, d)
<1>1. Operand(rule) \in Rules /\ Weight(toks, Operand(rule), i) < Weight(toks, rule, i)
  BY RulesDescend DEF Operand, Rules
<1>2. PICK l, m : l = f[At(Operand(rule), i, d)] /\ m = g[At(Operand(rule), i, d)]
  OBVIOUS
<1>3. Good(l, i) /\ Alike(l, m)
  BY <1>1, <1>2 DEF EndAlike
<1>4. l.raised = m.raised /\ (~l.raised => l.pos = m.pos)
  BY <1>3 DEF Alike
<1>5. CASE l.raised \/ TokenAt(toks, l.pos) # rule
  <2>1. x = l
    BY <1>2, <1>5, Zenon DEF ParseBinary, ReadsRight, At
  <2>2. m.raised \/ TokenAt(toks, m.pos) # rule
    BY <1>4, <1>5
  <2>3. y = m
    BY <1>2, <2>2, Zenon DEF ParseBinary, ReadsRight, At
  <2> QED
    BY <1>3, <2>1, <2>3
<1>6. CASE ~(l.raised \/ TokenAt(toks, l.pos) # rule)
  <2>1. l.pos \in Nat /\ l.pos > i /\ l.pos + 1 \in Nat
    BY <1>3, <1>6 DEF Good
  <2>2. Weight(toks, rule, l.pos + 1) < Weight(toks, rule, i)
    BY <1>6, <2>1, OperandsAdvance
  <2>3. ~(m.raised \/ TokenAt(toks, m.pos) # rule) /\ m.pos = l.pos
    BY <1>4, <1>6
  <2>4. PICK r, t : r = f[At(rule, l.pos + 1, d)] /\ t = g[At(rule, m.pos + 1, d)]
    OBVIOUS
  <2>5. Alike(r, t)
    BY <2>1, <2>2, <2>3, <2>4 DEF EndAlike, Rules
  <2>6. \/ r.raised /\ x = Raised
        \/ ~r.raised /\ x = Parsed(Joined(rule, l.val, r.val), r.pos)
    BY <1>2, <1>6, <2>4, Zenon DEF ParseBinary, ReadsRight, At
  <2>7. \/ t.raised /\ y = Raised
        \/ ~t.raised /\ y = Parsed(Joined(rule, m.val, t.val), t.pos)
    BY <1>2, <2>3, <2>4, Zenon DEF ParseBinary, ReadsRight, At
  <2>8. r.raised = t.raised /\ (~r.raised => r.pos = t.pos)
    BY <2>5 DEF Alike
  <2> QED
    BY <2>6, <2>7, <2>8, AlikeIs
<1> QED
  BY <1>5, <1>6

LEMMA NotAlike ==
    ASSUME NEW toks \in Seq(Tokens), NEW c, NEW k, NEW f, NEW g,
           NEW i \in Nat, NEW d \in Nat, EndAlike(toks, f, g, Weight(toks, "not", i))
    PROVE  Alike(ParseNot(f, toks, c, i, d), ParseNot(g, toks, k, i, d))
<1> DEFINE x == ParseNot(f, toks, c, i, d)
           y == ParseNot(g, toks, k, i, d)
<1>3. "not" \in Rules /\ "or" \in Rules /\ i + 1 \in Nat /\ d + 1 \in Nat
  BY DEF Rules
<1>4. CASE d = MaxGuardDepth
  <2>1. x = Raised /\ y = Raised
    BY <1>4, Zenon DEF ParseNot
  <2> QED
    BY <2>1, AlikeIs
<1>5. CASE d # MaxGuardDepth /\ TokenAt(toks, i) = "not"
  <2>1. PICK n, m : n = f[At("not", i + 1, d + 1)] /\ m = g[At("not", i + 1, d + 1)]
    OBVIOUS
  <2>2. Alike(n, m)
    BY <1>3, <1>5, <2>1, PrefixesAdvance DEF EndAlike
  <2>3. \/ n.raised /\ x = Raised
        \/ ~n.raised /\ x = Parsed(Opposite(n), n.pos)
    BY <1>5, <2>1, Zenon DEF ParseNot, At, Opposite
  <2>4. \/ m.raised /\ y = Raised
        \/ ~m.raised /\ y = Parsed(Opposite(m), m.pos)
    BY <1>5, <2>1, Zenon DEF ParseNot, At, Opposite
  <2>5. n.raised = m.raised /\ (~n.raised => n.pos = m.pos)
    BY <2>2 DEF Alike
  <2> QED
    BY <2>3, <2>4, <2>5, AlikeIs
<1>6. CASE d # MaxGuardDepth /\ TokenAt(toks, i) = "("
  <2>1. PICK p, q : p = f[At("or", i + 1, d + 1)] /\ q = g[At("or", i + 1, d + 1)]
    OBVIOUS
  <2>2. Alike(p, q)
    BY <1>3, <1>6, <2>1, PrefixesAdvance DEF EndAlike
  <2>3. \/ (p.raised \/ TokenAt(toks, p.pos) \notin OP1) /\ x = Raised
        \/ /\ ~(p.raised \/ TokenAt(toks, p.pos) \notin OP1)
           /\ x = Parsed(p.val, p.pos + 1)
    BY <1>6, <2>1, Zenon DEF ParseNot, At, Opposite
  <2>4. \/ (q.raised \/ TokenAt(toks, q.pos) \notin OP1) /\ y = Raised
        \/ /\ ~(q.raised \/ TokenAt(toks, q.pos) \notin OP1)
           /\ y = Parsed(q.val, q.pos + 1)
    BY <1>6, <2>1, Zenon DEF ParseNot, At, Opposite
  <2>5. p.raised = q.raised /\ (~p.raised => p.pos = q.pos)
    BY <2>2 DEF Alike
  <2> QED
    BY <2>3, <2>4, <2>5, AlikeIs
<1>7. CASE d # MaxGuardDepth /\ TokenAt(toks, i) \notin {"not", "("}
  <2>1. x = Comparison(toks, c, i) /\ y = Comparison(toks, k, i)
    BY <1>7, Zenon DEF ParseNot, At, Opposite
  <2> QED
    BY <2>1, ComparisonEnds
<1> QED
  BY <1>4, <1>5, <1>6, <1>7

LEMMA StepAlike ==
    ASSUME NEW toks \in Seq(Tokens), NEW c, NEW k, NEW f, NEW g,
           NEW rule \in Rules, NEW i \in Nat, NEW d \in Nat,
           EndAlike(toks, f, g, Weight(toks, rule, i))
    PROVE  /\ Alike(ParseCall(f, toks, c, At(rule, i, d)),
                    ParseCall(g, toks, k, At(rule, i, d)))
           /\ Good(ParseCall(f, toks, c, At(rule, i, d)), i)
<1>3. Agree(toks, f, f, Weight(toks, rule, i))
  BY DEF EndAlike, Agree
<1>1. CASE rule \in {"or", "and"}
  <2>1. rule # "not"
    BY <1>1
  <2>2. /\ ParseCall(f, toks, c, At(rule, i, d)) = ParseBinary(f, toks, rule, i, d)
        /\ ParseCall(g, toks, k, At(rule, i, d)) = ParseBinary(g, toks, rule, i, d)
    BY <2>1, CallIs
  <2>3. Alike(ParseBinary(f, toks, rule, i, d), ParseBinary(g, toks, rule, i, d))
    BY <1>1, BinaryAlike
  <2>4. Good(ParseCall(f, toks, c, At(rule, i, d)), i)
    BY <1>3, StepAgrees
  <2> QED
    BY <2>2, <2>3, <2>4
<1>2. CASE rule = "not"
  <2>1. /\ ParseCall(f, toks, c, At(rule, i, d)) = ParseNot(f, toks, c, i, d)
        /\ ParseCall(g, toks, k, At(rule, i, d)) = ParseNot(g, toks, k, i, d)
    BY <1>2, CallIs
  <2>2. Alike(ParseNot(f, toks, c, i, d), ParseNot(g, toks, k, i, d))
    BY <1>2, NotAlike
  <2>3. Good(ParseCall(f, toks, c, At(rule, i, d)), i)
    BY <1>3, StepAgrees
  <2> QED
    BY <2>1, <2>2, <2>3
<1> QED
  BY <1>1, <1>2 DEF Rules

-----------------------------------------------------------------------------
(***************************************************************************)
(* The calls have results: those of the calls lighter than w exist for     *)
(* every w, and no call is heavier than the text is long.                  *)
(***************************************************************************)
Solves(toks, c, f, w) ==
    \A rule \in Rules, i \in Nat, d \in Nat : Weight(toks, rule, i) < w =>
        /\ Good(f[At(rule, i, d)], i)
        /\ f[At(rule, i, d)] = ParseCall(f, toks, c, At(rule, i, d))

LEMMA CallOf ==
    /\ \A rule \in Rules, i \in Nat, d \in Nat : At(rule, i, d) \in Calls
    /\ \A x \in Calls : /\ x[1] \in Rules /\ x[2] \in Nat /\ x[3] \in Nat
                        /\ x = At(x[1], x[2], x[3])
    /\ \A rule, i, d : /\ At(rule, i, d)[1] = rule /\ At(rule, i, d)[2] = i
                       /\ At(rule, i, d)[3] = d
  BY DEF Calls, At, Rules

LEMMA SolvedBelow ==
    ASSUME NEW toks \in Seq(Tokens), NEW c
    PROVE  \A w \in Nat : \E f : Solves(toks, c, f, w)
<1>1. PICK T : T = {w \in Nat : \E f : Solves(toks, c, f, w)}
  OBVIOUS
<1>2. 0 \in T
  <2>1. \A f : Solves(toks, c, f, 0)
    BY WeightNat DEF Solves
  <2> QED
    BY <1>1, <2>1
<1>3. ASSUME NEW w \in Nat, w \in T PROVE w + 1 \in T
  <2>1. PICK f : Solves(toks, c, f, w)
    BY <1>1, <1>3
  <2>2. PICK g : g = [x \in Calls |-> IF Weight(toks, x[1], x[2]) < w THEN f[x]
                                     ELSE ParseCall(f, toks, c, x)]
    OBVIOUS
  <2>3. ASSUME NEW rule \in Rules, NEW i \in Nat, NEW d \in Nat
        PROVE  g[At(rule, i, d)] = IF Weight(toks, rule, i) < w THEN f[At(rule, i, d)]
                                     ELSE ParseCall(f, toks, c, At(rule, i, d))
    BY <2>2, CallOf
  <2>4. ASSUME NEW rule \in Rules, NEW i \in Nat, NEW d \in Nat,
               Weight(toks, rule, i) < w + 1
        PROVE  /\ Good(g[At(rule, i, d)], i)
               /\ g[At(rule, i, d)] = ParseCall(g, toks, c, At(rule, i, d))
    <3>1. Weight(toks, rule, i) \in Nat /\ Weight(toks, rule, i) <= w
      BY <2>4, WeightNat
    <3>2. Agree(toks, f, g, Weight(toks, rule, i))
      <4>1. ASSUME NEW u \in Rules, NEW j \in Nat, NEW e \in Nat,
                   Weight(toks, u, j) < Weight(toks, rule, i)
            PROVE  Good(f[At(u, j, e)], j) /\ f[At(u, j, e)] = g[At(u, j, e)]
        <5>1. Weight(toks, u, j) < w
          BY <3>1, <4>1, WeightNat
        <5> QED
          BY <2>1, <2>3, <5>1 DEF Solves
      <4> QED
        BY <4>1 DEF Agree
    <3>3. g[At(rule, i, d)] = ParseCall(f, toks, c, At(rule, i, d))
      BY <2>1, <2>3 DEF Solves
    <3> QED
      BY <3>2, <3>3, StepAgrees
  <2>5. Solves(toks, c, g, w + 1)
    BY <2>4 DEF Solves
  <2> QED
    BY <1>1, <2>5
<1> QED
  BY <1>1, <1>2, <1>3, NatAll

\* The results that Parse is defined by.
LEMMA Solved ==
    ASSUME NEW toks \in Seq(Tokens), NEW c
    PROVE  \E P : /\ P = [x \in Calls |-> ParseCall(P, toks, c, x)]
                 /\ Parse(toks, c) = P[At("or", 1, 0)]
<1>1. 3 * (Len(toks) + 1) + 3 \in Nat
  OBVIOUS
<1>2. PICK f : Solves(toks, c, f, 3 * (Len(toks) + 1) + 3)
  BY <1>1, SolvedBelow
<1>3. PICK h : h = [x \in Calls |-> f[x]]
  OBVIOUS
<1>4. ASSUME NEW rule \in Rules, NEW i \in Nat, NEW d \in Nat
      PROVE  h[At(rule, i, d)] = ParseCall(h, toks, c, At(rule, i, d))
  <2>1. h[At(rule, i, d)] = f[At(rule, i, d)]
    BY <1>3, CallOf
  <2>2. f[At(rule, i, d)] = ParseCall(f, toks, c, At(rule, i, d))
    BY <1>2, WeightNat DEF Solves
  <2>3. Agree(toks, f, h, Weight(toks, rule, i))
    BY <1>2, <1>3, CallOf, WeightNat DEF Solves, Agree
  <2> QED
    BY <2>1, <2>2, <2>3, StepAgrees
<1>5. h = [x \in Calls |-> ParseCall(h, toks, c, x)]
  <2>1. \A x \in Calls : f[x] = ParseCall(h, toks, c, x)
    BY <1>3, <1>4, CallOf
  <2> QED
    BY <1>3, <2>1
<1>6. PICK P : P = CHOOSE Q : Q = [x \in Calls |-> ParseCall(Q, toks, c, x)]
  OBVIOUS
<1>7. P = [x \in Calls |-> ParseCall(P, toks, c, x)]
  BY <1>5, <1>6, Zenon
<1>8. Parse(toks, c) = P[At("or", 1, 0)]
  BY <1>6, Zenon DEF Parse, At
<1> QED
  BY <1>7, <1>8

\* Whatever the context, a text raises or it does not (guard.py evaluate): what
\* validate finds out in the empty context holds in the context of every run.
THEOREM RaisesWhateverTheContext ==
    \A toks \in Seq(Tokens) : RaisesAlways(toks)
<1> SUFFICES ASSUME NEW toks \in Seq(Tokens), NEW c, NEW k
             PROVE  Evaluate(toks, c).raised = Evaluate(toks, k).raised
  BY DEF RaisesAlways
<1>1. PICK P : /\ P = [x \in Calls |-> ParseCall(P, toks, c, x)]
               /\ Parse(toks, c) = P[At("or", 1, 0)]
  BY Solved
<1>2. PICK Q : /\ Q = [x \in Calls |-> ParseCall(Q, toks, k, x)]
               /\ Parse(toks, k) = Q[At("or", 1, 0)]
  BY Solved
<1>3. \A rule \in Rules, i \in Nat, d \in Nat :
         /\ P[At(rule, i, d)] = ParseCall(P, toks, c, At(rule, i, d))
         /\ Q[At(rule, i, d)] = ParseCall(Q, toks, k, At(rule, i, d))
  BY <1>1, <1>2, CallOf
<1>4. PICK T : T = {w \in Nat : EndAlike(toks, P, Q, w)}
  OBVIOUS
<1>5. 0 \in T
  BY <1>4, WeightNat DEF EndAlike
<1>6. ASSUME NEW w \in Nat, w \in T PROVE w + 1 \in T
  <2>1. ASSUME NEW rule \in Rules, NEW i \in Nat, NEW d \in Nat,
               Weight(toks, rule, i) < w + 1
        PROVE  /\ Good(P[At(rule, i, d)], i)
               /\ Alike(P[At(rule, i, d)], Q[At(rule, i, d)])
    <3>1. EndAlike(toks, P, Q, Weight(toks, rule, i))
      <4>1. ASSUME NEW u \in Rules, NEW j \in Nat, NEW e \in Nat,
                   Weight(toks, u, j) < Weight(toks, rule, i)
            PROVE  Good(P[At(u, j, e)], j) /\ Alike(P[At(u, j, e)], Q[At(u, j, e)])
        <5>1. Weight(toks, u, j) < w
          BY <2>1, <4>1, WeightNat
        <5>2. EndAlike(toks, P, Q, w)
          BY <1>4, <1>6
        <5> QED
          BY <5>1, <5>2 DEF EndAlike
      <4> QED
        BY <4>1 DEF EndAlike
    <3> QED
      BY <1>3, <3>1, StepAlike
  <2>2. EndAlike(toks, P, Q, w + 1)
    BY <2>1 DEF EndAlike
  <2> QED
    BY <1>4, <2>2
<1>7. 3 * (Len(toks) + 1) + 3 \in T
  BY <1>5, <1>6, NatAll
<1>8. PICK r, s : r = Parse(toks, c) /\ s = Parse(toks, k)
  OBVIOUS
<1>9. Alike(r, s) /\ r.raised \in BOOLEAN
  <2>1. "or" \in Rules /\ 1 \in Nat /\ 0 \in Nat
    BY DEF Rules
  <2>2. Weight(toks, "or", 1) < 3 * (Len(toks) + 1) + 3
    BY <2>1, WeightNat
  <2> QED
    BY <1>1, <1>2, <1>4, <1>7, <1>8, <2>1, <2>2 DEF EndAlike, Good
<1>10. /\ Evaluate(toks, c) = r \/ Evaluate(toks, c) = Raised
       /\ Evaluate(toks, k) = s \/ Evaluate(toks, k) = Raised
       /\ (Evaluate(toks, c) = r /\ r.pos = Len(toks) + 1)
             \/ (Evaluate(toks, c) = Raised /\ r.pos # Len(toks) + 1)
       /\ (Evaluate(toks, k) = s /\ s.pos = Len(toks) + 1)
             \/ (Evaluate(toks, k) = Raised /\ s.pos # Len(toks) + 1)
  BY <1>8, Zenon DEF Evaluate
<1> QED
  BY <1>9, <1>10, RaisedIs DEF Alike

-----------------------------------------------------------------------------
(***************************************************************************)
(* The grammar.  A part of a text is larger than the parts its meanings    *)
(* are made from.                                                          *)
(***************************************************************************)
Size(rule, i, j) == 3 * (IF i > j THEN 0 ELSE j + 1 - i) + Level(rule)

LEMMA SizeNat ==
    ASSUME NEW rule \in Rules, NEW i \in Nat, NEW j \in Nat
    PROVE  Size(rule, i, j) \in Nat
<1>1. Level(rule) \in 0..2
  BY DEF Level
<1> QED
  BY <1>1 DEF Size

LEMMA PartsSmaller ==
    ASSUME NEW i \in Nat, NEW j \in Nat, i <= j
    PROVE  /\ \A rule \in Rules : rule # "not" =>
                 /\ Operand(rule) \in Rules
                 /\ Size(Operand(rule), i, j) < Size(rule, i, j)
                 /\ \A k \in (i + 1)..(j - 1) :
                       /\ Size(Operand(rule), i, k - 1) < Size(rule, i, j)
                       /\ Size(rule, k + 1, j) < Size(rule, i, j)
           /\ Size("not", i + 1, j) < Size("not", i, j)
           /\ i < j => Size("or", i + 1, j - 1) < Size("not", i, j)
<1>1. ASSUME NEW rule \in Rules, rule # "not"
      PROVE  Operand(rule) \in Rules /\ Level(Operand(rule)) < Level(rule)
             /\ Level(rule) \in 0..2 /\ Level(Operand(rule)) \in 0..2
  BY <1>1 DEF Rules, Operand, Level
<1>2. Level("not") = 0 /\ Level("or") = 2
  BY DEF Level
<1>3. ASSUME NEW rule \in Rules, rule # "not"
      PROVE  /\ Operand(rule) \in Rules
             /\ Size(Operand(rule), i, j) < Size(rule, i, j)
  BY <1>1, <1>3 DEF Size
<1>4. ASSUME NEW rule \in Rules, rule # "not", NEW k \in (i + 1)..(j - 1)
      PROVE  /\ Size(Operand(rule), i, k - 1) < Size(rule, i, j)
             /\ Size(rule, k + 1, j) < Size(rule, i, j)
  BY <1>1, <1>4 DEF Size
<1>5. /\ Size("not", i + 1, j) < Size("not", i, j)
      /\ i < j => Size("or", i + 1, j - 1) < Size("not", i, j)
  BY <1>2 DEF Size
<1> QED
  BY <1>3, <1>4, <1>5

LEMMA MeansIs ==
    ASSUME NEW M, NEW toks, NEW c, NEW rule \in Rules, NEW i \in Nat, NEW j \in Nat
    PROVE  /\ i > j => Means(M, toks, c, At(rule, i, j)) = {}
           /\ i <= j /\ rule # "not" =>
                 Means(M, toks, c, At(rule, i, j)) = MeansBinary(M, toks, rule, i, j)
           /\ i <= j /\ rule = "not" =>
                 Means(M, toks, c, At(rule, i, j)) = MeansNot(M, toks, c, i, j)
<1>1. \A r : At(r, i, j)[1] = r /\ At(r, i, j)[2] = i /\ At(r, i, j)[3] = j
  BY DEF At
<1>2. i <= j <=> ~(i > j)
  OBVIOUS
<1> QED
  BY <1>1, <1>2, Zenon DEF Means

\* The same parts have the same meanings in f and in g.
SameParts(f, g, w) ==
    \A rule \in Rules, i \in Nat, j \in Nat : Size(rule, i, j) < w =>
        f[At(rule, i, j)] = g[At(rule, i, j)]

LEMMA BinarySame ==
    ASSUME NEW toks, NEW f, NEW g, NEW rule \in Rules, rule # "not",
           NEW i \in Nat, NEW j \in Nat, i <= j, SameParts(f, g, Size(rule, i, j))
    PROVE  MeansBinary(f, toks, rule, i, j) = MeansBinary(g, toks, rule, i, j)
<1> DEFINE K == {k \in (i + 1)..(j - 1) : toks[k] = rule}
           F(k) == Both(rule, f[At(Operand(rule), i, k - 1)], f[At(rule, k + 1, j)])
           G(k) == Both(rule, g[At(Operand(rule), i, k - 1)], g[At(rule, k + 1, j)])
<1>1. f[At(Operand(rule), i, j)] = g[At(Operand(rule), i, j)]
  BY PartsSmaller DEF SameParts
<1>2. ASSUME NEW k \in K
      PROVE  F(k) = G(k)
  <2>1. k - 1 \in Nat /\ k + 1 \in Nat /\ k \in (i + 1)..(j - 1)
    OBVIOUS
  <2>2. f[At(Operand(rule), i, k - 1)] = g[At(Operand(rule), i, k - 1)]
    BY <2>1, PartsSmaller DEF SameParts
  <2>3. f[At(rule, k + 1, j)] = g[At(rule, k + 1, j)]
    BY <2>1, PartsSmaller DEF SameParts
  <2> QED
    BY <2>2, <2>3
<1>3. MeansBinary(f, toks, rule, i, j)
         = f[At(Operand(rule), i, j)] \union UNION {F(k) : k \in K}
  BY Zenon DEF MeansBinary, At
<1>4. MeansBinary(g, toks, rule, i, j)
         = g[At(Operand(rule), i, j)] \union UNION {G(k) : k \in K}
  BY Zenon DEF MeansBinary, At
<1> HIDE DEF K, F, G
<1>5. {F(k) : k \in K} = {G(k) : k \in K}
  BY <1>2
<1> QED
  BY <1>1, <1>3, <1>4, <1>5

LEMMA NotSame ==
    ASSUME NEW toks, NEW c, NEW f, NEW g, NEW i \in Nat, NEW j \in Nat, i <= j,
           SameParts(f, g, Size("not", i, j))
    PROVE  MeansNot(f, toks, c, i, j) = MeansNot(g, toks, c, i, j)
<1> DEFINE N(h) == IF toks[i] = "not" THEN Deeper(Negated(h[At("not", i + 1, j)])) ELSE {}
           P(h) == IF toks[i] = "(" /\ toks[j] = ")"
                   THEN Deeper(h[At("or", i + 1, j - 1)]) ELSE {}
<1>1. "not" \in Rules /\ "or" \in Rules
  BY DEF Rules
<1>2. f[At("not", i + 1, j)] = g[At("not", i + 1, j)]
  BY <1>1, PartsSmaller DEF SameParts
<1>3. N(f) = N(g)
  BY <1>2
<1>4. P(f) = P(g)
  <2>1. CASE toks[i] = "(" /\ toks[j] = ")"
    <3>1. i < j /\ j - 1 \in Nat
      BY <2>1
    <3>2. f[At("or", i + 1, j - 1)] = g[At("or", i + 1, j - 1)]
      BY <1>1, <3>1, PartsSmaller DEF SameParts
    <3> QED
      BY <3>2
  <2>2. CASE ~(toks[i] = "(" /\ toks[j] = ")")
    BY <2>2
  <2> QED
    BY <2>1, <2>2
<1>5. MeansNot(f, toks, c, i, j) = Atoms(toks, c, i, j) \union N(f) \union P(f)
  BY Zenon DEF MeansNot, At
<1>6. MeansNot(g, toks, c, i, j) = Atoms(toks, c, i, j) \union N(g) \union P(g)
  BY Zenon DEF MeansNot, At
<1> QED
  BY <1>3, <1>4, <1>5, <1>6, Zenon

LEMMA MeansSame ==
    ASSUME NEW toks, NEW c, NEW f, NEW g, NEW rule \in Rules, NEW i \in Nat,
           NEW j \in Nat, SameParts(f, g, Size(rule, i, j))
    PROVE  Means(f, toks, c, At(rule, i, j)) = Means(g, toks, c, At(rule, i, j))
<1>1. CASE i > j
  BY <1>1, MeansIs
<1>2. CASE i <= j /\ rule # "not"
  <2>1. /\ Means(f, toks, c, At(rule, i, j)) = MeansBinary(f, toks, rule, i, j)
        /\ Means(g, toks, c, At(rule, i, j)) = MeansBinary(g, toks, rule, i, j)
    BY <1>2, MeansIs
  <2> QED
    BY <1>2, <2>1, BinarySame
<1>3. CASE i <= j /\ rule = "not"
  <2>1. /\ Means(f, toks, c, At(rule, i, j)) = MeansNot(f, toks, c, i, j)
        /\ Means(g, toks, c, At(rule, i, j)) = MeansNot(g, toks, c, i, j)
    BY <1>3, MeansIs
  <2> QED
    BY <1>3, <2>1, NotSame
<1> QED
  BY <1>1, <1>2, <1>3

MeansBelow(toks, c, f, w) ==
    \A rule \in Rules, i \in Nat, j \in Nat : Size(rule, i, j) < w =>
        f[At(rule, i, j)] = Means(f, toks, c, At(rule, i, j))

LEMMA MeaningsBelow ==
    ASSUME NEW toks, NEW c
    PROVE  \A w \in Nat : \E f : MeansBelow(toks, c, f, w)
<1>1. PICK T : T = {w \in Nat : \E f : MeansBelow(toks, c, f, w)}
  OBVIOUS
<1>2. 0 \in T
  <2>1. \A f : MeansBelow(toks, c, f, 0)
    BY SizeNat DEF MeansBelow
  <2> QED
    BY <1>1, <2>1
<1>3. ASSUME NEW w \in Nat, w \in T PROVE w + 1 \in T
  <2>1. PICK f : MeansBelow(toks, c, f, w)
    BY <1>1, <1>3
  <2>2. PICK g : g = [x \in Calls |-> IF Size(x[1], x[2], x[3]) < w THEN f[x]
                                     ELSE Means(f, toks, c, x)]
    OBVIOUS
  <2>3. ASSUME NEW rule \in Rules, NEW i \in Nat, NEW j \in Nat
        PROVE  g[At(rule, i, j)] = IF Size(rule, i, j) < w THEN f[At(rule, i, j)]
                                     ELSE Means(f, toks, c, At(rule, i, j))
    BY <2>2, CallOf
  <2>4. ASSUME NEW rule \in Rules, NEW i \in Nat, NEW j \in Nat, Size(rule, i, j) < w + 1
        PROVE  g[At(rule, i, j)] = Means(g, toks, c, At(rule, i, j))
    <3>1. Size(rule, i, j) \in Nat /\ Size(rule, i, j) <= w
      BY <2>4, SizeNat
    <3>2. ASSUME NEW u \in Rules, NEW k \in Nat, NEW l \in Nat,
                 Size(u, k, l) < Size(rule, i, j)
          PROVE  f[At(u, k, l)] = g[At(u, k, l)]
      <4>1. Size(u, k, l) < w
        BY <3>1, <3>2, SizeNat
      <4> QED
        BY <2>3, <4>1
    <3>3. SameParts(f, g, Size(rule, i, j))
      BY <3>2 DEF SameParts
    <3>4. g[At(rule, i, j)] = Means(f, toks, c, At(rule, i, j))
      BY <2>1, <2>3 DEF MeansBelow
    <3> QED
      BY <3>3, <3>4, MeansSame
  <2>5. MeansBelow(toks, c, g, w + 1)
    BY <2>4 DEF MeansBelow
  <2> QED
    BY <1>1, <2>5
<1> QED
  BY <1>1, <1>2, <1>3, NatAll

LEMMA MeaningsUnique ==
    ASSUME NEW toks, NEW c, NEW f, NEW g, NEW w \in Nat,
           MeansBelow(toks, c, f, w), MeansBelow(toks, c, g, w)
    PROVE  SameParts(f, g, w)
<1>1. PICK T : T = {v \in Nat : v <= w => SameParts(f, g, v)}
  OBVIOUS
<1>2. 0 \in T
  <2>1. SameParts(f, g, 0)
    BY SizeNat DEF SameParts
  <2> QED
    BY <1>1, <2>1
<1>3. ASSUME NEW v \in Nat, v \in T PROVE v + 1 \in T
  <2> SUFFICES ASSUME v + 1 <= w PROVE SameParts(f, g, v + 1)
    BY <1>1
  <2>1. SameParts(f, g, v)
    BY <1>1, <1>3
  <2>2. ASSUME NEW rule \in Rules, NEW i \in Nat, NEW j \in Nat, Size(rule, i, j) < v + 1
        PROVE  f[At(rule, i, j)] = g[At(rule, i, j)]
    <3>1. Size(rule, i, j) \in Nat /\ Size(rule, i, j) <= v /\ Size(rule, i, j) < w
      <4>1. Size(rule, i, j) \in Nat
        BY SizeNat
      <4> QED
        BY <2>2, <4>1
    <3>2. ASSUME NEW u \in Rules, NEW k \in Nat, NEW l \in Nat,
                 Size(u, k, l) < Size(rule, i, j)
          PROVE  f[At(u, k, l)] = g[At(u, k, l)]
      <4>1. Size(u, k, l) < v
        BY <3>1, <3>2, SizeNat
      <4> QED
        BY <2>1, <4>1 DEF SameParts
    <3>3. SameParts(f, g, Size(rule, i, j))
      BY <3>2 DEF SameParts
    <3>4. /\ f[At(rule, i, j)] = Means(f, toks, c, At(rule, i, j))
          /\ g[At(rule, i, j)] = Means(g, toks, c, At(rule, i, j))
      BY <3>1 DEF MeansBelow
    <3> QED
      BY <3>3, <3>4, MeansSame
  <2> QED
    BY <2>2 DEF SameParts
<1>4. w \in T
  BY <1>2, <1>3, NatAll
<1> QED
  BY <1>1, <1>4

\* The meanings that Meanings is defined by.
LEMMA Meant ==
    ASSUME NEW toks \in Seq(Tokens), NEW c
    PROVE  \E M : /\ M = [x \in Calls |-> Means(M, toks, c, x)]
                 /\ Meanings(toks, c) = M[At("or", 1, Len(toks))]
<1>1. PICK F : F = [w \in Nat |-> CHOOSE f : MeansBelow(toks, c, f, w)]
  OBVIOUS
<1>2. \A w \in Nat : MeansBelow(toks, c, F[w], w)
  <2> TAKE w \in Nat
  <2>1. F[w] = CHOOSE f : MeansBelow(toks, c, f, w)
    BY <1>1
  <2>2. \E f : MeansBelow(toks, c, f, w)
    BY MeaningsBelow
  <2> QED
    BY <2>1, <2>2, Zenon
<1>3. PICK h : h = [x \in Calls |-> F[Size(x[1], x[2], x[3]) + 1][x]]
  OBVIOUS
<1>4. ASSUME NEW rule \in Rules, NEW i \in Nat, NEW j \in Nat
      PROVE  h[At(rule, i, j)] = F[Size(rule, i, j) + 1][At(rule, i, j)]
  BY <1>3, CallOf
<1>5. ASSUME NEW w \in Nat PROVE SameParts(F[w], h, w)
  <2>1. ASSUME NEW rule \in Rules, NEW i \in Nat, NEW j \in Nat, Size(rule, i, j) < w
        PROVE  F[w][At(rule, i, j)] = h[At(rule, i, j)]
    <3>1. PICK n : n = Size(rule, i, j) + 1
      OBVIOUS
    <3>2. n \in Nat /\ n <= w /\ Size(rule, i, j) < n
      <4>1. Size(rule, i, j) \in Nat
        BY SizeNat
      <4> QED
        BY <2>1, <3>1, <4>1
    <3>3. MeansBelow(toks, c, F[w], n)
      <4>1. ASSUME NEW u \in Rules, NEW k \in Nat, NEW l \in Nat, Size(u, k, l) < n
            PROVE  F[w][At(u, k, l)] = Means(F[w], toks, c, At(u, k, l))
        <5>1. Size(u, k, l) < w
          <6>1. Size(u, k, l) \in Nat
            BY SizeNat
          <6> QED
            BY <3>2, <4>1, <6>1
        <5> QED
          BY <1>2, <5>1 DEF MeansBelow
      <4> QED
        BY <4>1 DEF MeansBelow
    <3>4. SameParts(F[w], F[n], n)
      BY <1>2, <3>2, <3>3, MeaningsUnique
    <3>5. F[w][At(rule, i, j)] = F[n][At(rule, i, j)]
      BY <3>2, <3>4 DEF SameParts
    <3> QED
      BY <1>4, <3>1, <3>5
  <2> QED
    BY <2>1 DEF SameParts
<1>6. ASSUME NEW rule \in Rules, NEW i \in Nat, NEW j \in Nat
      PROVE  h[At(rule, i, j)] = Means(h, toks, c, At(rule, i, j))
  <2>1. PICK n : n = Size(rule, i, j) + 1
    OBVIOUS
  <2>2. Size(rule, i, j) \in Nat /\ n \in Nat /\ Size(rule, i, j) < n
    <3>1. Size(rule, i, j) \in Nat
      BY SizeNat
    <3> QED
      BY <2>1, <3>1
  <2>3. SameParts(F[n], h, Size(rule, i, j))
    <3>1. ASSUME NEW u \in Rules, NEW k \in Nat, NEW l \in Nat,
                 Size(u, k, l) < Size(rule, i, j)
          PROVE  F[n][At(u, k, l)] = h[At(u, k, l)]
      <4>1. Size(u, k, l) < n
        <5>1. Size(u, k, l) \in Nat /\ Size(rule, i, j) \in Nat
          BY SizeNat
        <5> QED
          BY <2>2, <3>1, <5>1
      <4> QED
        BY <1>5, <2>2, <4>1 DEF SameParts
    <3> QED
      BY <3>1 DEF SameParts
  <2>4. F[n][At(rule, i, j)] = Means(F[n], toks, c, At(rule, i, j))
    BY <1>2, <2>2 DEF MeansBelow
  <2>5. Means(F[n], toks, c, At(rule, i, j)) = Means(h, toks, c, At(rule, i, j))
    BY <2>3, MeansSame
  <2> QED
    BY <1>4, <2>1, <2>4, <2>5
<1>7. h = [x \in Calls |-> Means(h, toks, c, x)]
  <2>1. \A x \in Calls : h[x] = Means(h, toks, c, x)
    BY <1>6, CallOf
  <2>2. h = [x \in Calls |-> h[x]]
    BY <1>3
  <2> QED
    BY <2>1, <2>2
<1>8. PICK M : M = CHOOSE N : N = [x \in Calls |-> Means(N, toks, c, x)]
  OBVIOUS
<1>9. M = [x \in Calls |-> Means(M, toks, c, x)]
  BY <1>7, <1>8, Zenon
<1>10. Meanings(toks, c) = M[At("or", 1, Len(toks))]
  BY <1>8, Zenon DEF Meanings, At
<1> QED
  BY <1>9, <1>10

-----------------------------------------------------------------------------
(***************************************************************************)
(* The parser finds the meaning.  A part of a text is read to its end when *)
(* the token after it does not go on with it.                              *)
(***************************************************************************)
Ends(rule, t) == /\ t \notin Comparators
                 /\ rule # "not" => t # "and"
                 /\ rule = "or" => t # "or"

\* A call at depth d returns the meaning m of a part that ends at j, or m is too deep.
Yields(r, m, d, j) ==
    /\ d + m.depth <= MaxGuardDepth => r = Parsed(m.val, j + 1)
    /\ d + m.depth > MaxGuardDepth => r.raised = TRUE

Reads(P, toks, m, rule, i, j) ==
    /\ m.depth \in Nat /\ m.depth >= 1
    /\ \A d \in 0..MaxGuardDepth :
          Ends(rule, TokenAt(toks, j + 1)) => Yields(P[At(rule, i, d)], m, d, j)

ReadsBelow(M, P, toks, w) ==
    \A rule \in Rules, i \in Nat, j \in 0..Len(toks) :
        i > 0 /\ Size(rule, i, j) < w =>
            \A m \in M[At(rule, i, j)] : Reads(P, toks, m, rule, i, j)

LEMMA InBinary ==
    ASSUME NEW M, NEW toks, NEW rule, NEW i, NEW j, NEW m \in MeansBinary(M, toks, rule, i, j)
    PROVE  \/ m \in M[At(Operand(rule), i, j)]
           \/ \E k \in (i + 1)..(j - 1) :
                 /\ toks[k] = rule
                 /\ \E x \in M[At(Operand(rule), i, k - 1)] :
                    \E y \in M[At(rule, k + 1, j)] :
                       /\ m.val = Joined(rule, x.val, y.val)
                       /\ m.depth = IF x.depth > y.depth THEN x.depth ELSE y.depth
<1>1. CASE m \in M[At(Operand(rule), i, j)]
  BY <1>1
<1>2. CASE m \notin M[At(Operand(rule), i, j)]
  <2>1. m \in UNION {Both(rule, M[At(Operand(rule), i, k - 1)], M[At(rule, k + 1, j)]) :
                       k \in {k \in (i + 1)..(j - 1) : toks[k] = rule}}
    BY <1>2, Zenon DEF MeansBinary, At
  <2>2. PICK k \in (i + 1)..(j - 1) : /\ toks[k] = rule
                 /\ m \in Both(rule, M[At(Operand(rule), i, k - 1)], M[At(rule, k + 1, j)])
    BY <2>1
  <2>3. PICK x \in M[At(Operand(rule), i, k - 1)], y \in M[At(rule, k + 1, j)] :
           m = [val |-> Joined(rule, x.val, y.val),
                depth |-> IF x.depth > y.depth THEN x.depth ELSE y.depth]
    BY <2>2 DEF Both
  <2>4. /\ m.val = Joined(rule, x.val, y.val)
        /\ m.depth = IF x.depth > y.depth THEN x.depth ELSE y.depth
    BY <2>3, Zenon
  <2> QED
    BY <2>2, <2>4
<1> QED
  BY <1>1, <1>2

LEMMA EndsOperand ==
    ASSUME NEW rule \in Rules, rule # "not", NEW t
    PROVE  /\ Ends(rule, t) => Ends(Operand(rule), t) /\ t # rule
           /\ Ends(Operand(rule), rule)
<1>1. CASE rule = "or"
  BY <1>1 DEF Ends, Operand, Comparators
<1>2. CASE rule = "and"
  BY <1>2 DEF Ends, Operand, Comparators
<1> QED
  BY <1>1, <1>2 DEF Rules

LEMMA BinaryReads ==
    ASSUME NEW toks \in Seq(Tokens), NEW M, NEW P, NEW rule \in Rules, rule # "not",
           NEW i \in Nat, NEW j \in 0..Len(toks), i > 0, i <= j,
           ReadsBelow(M, P, toks, Size(rule, i, j)),
           NEW m \in MeansBinary(M, toks, rule, i, j)
    PROVE  /\ m.depth \in Nat /\ m.depth >= 1
           /\ \A d \in 0..MaxGuardDepth :
                 Ends(rule, TokenAt(toks, j + 1)) =>
                     Yields(ParseBinary(P, toks, rule, i, d), m, d, j)
<1>0. Operand(rule) \in Rules /\ j \in Nat /\ MaxGuardDepth \in Nat
  BY PartsSmaller, GuardAssumption
<1>1. CASE m \in M[At(Operand(rule), i, j)]
  <2>1. Reads(P, toks, m, Operand(rule), i, j)
    BY <1>0, <1>1, PartsSmaller DEF ReadsBelow
  <2> SUFFICES ASSUME NEW d \in 0..MaxGuardDepth, Ends(rule, TokenAt(toks, j + 1))
               PROVE  Yields(ParseBinary(P, toks, rule, i, d), m, d, j)
    BY <2>1 DEF Reads
  <2>2. PICK l : l = P[At(Operand(rule), i, d)]
    OBVIOUS
  <2>3. Yields(l, m, d, j) /\ TokenAt(toks, j + 1) # rule
    BY <2>1, <2>2, EndsOperand DEF Reads
  <2>4. l.raised \/ TokenAt(toks, l.pos) # rule
    <3>1. CASE d + m.depth <= MaxGuardDepth
      <4>1. l.pos = j + 1
        BY <2>3, <3>1 DEF Yields, Parsed
      <4> QED
        BY <2>3, <4>1
    <3>2. CASE d + m.depth > MaxGuardDepth
      BY <2>3, <3>2 DEF Yields
    <3> QED
      BY <2>1, <3>1, <3>2, <1>0 DEF Reads
  <2>5. ParseBinary(P, toks, rule, i, d) = l
    BY <2>2, <2>4, Zenon DEF ParseBinary, ReadsRight, At
  <2> QED
    BY <2>3, <2>5
<1>2. CASE m \notin M[At(Operand(rule), i, j)]
  <2>1. PICK k \in (i + 1)..(j - 1) :
           /\ toks[k] = rule
           /\ \E x \in M[At(Operand(rule), i, k - 1)] :
              \E y \in M[At(rule, k + 1, j)] :
                 /\ m.val = Joined(rule, x.val, y.val)
                 /\ m.depth = IF x.depth > y.depth THEN x.depth ELSE y.depth
    BY <1>2, InBinary
  <2>2. PICK x \in M[At(Operand(rule), i, k - 1)], y \in M[At(rule, k + 1, j)] :
           /\ m.val = Joined(rule, x.val, y.val)
           /\ m.depth = IF x.depth > y.depth THEN x.depth ELSE y.depth
    BY <2>1
  <2>3. /\ k \in Nat /\ k - 1 \in 0..Len(toks) /\ k + 1 \in Nat /\ k + 1 > 0
        /\ k <= Len(toks) /\ (k - 1) + 1 = k
    BY <1>0
  <2>4. Reads(P, toks, x, Operand(rule), i, k - 1)
    BY <1>0, <2>3, PartsSmaller DEF ReadsBelow
  <2>5. Reads(P, toks, y, rule, k + 1, j)
    BY <1>0, <2>3, PartsSmaller DEF ReadsBelow
  <2>6. /\ x.depth \in Nat /\ y.depth \in Nat /\ x.depth >= 1
        /\ m.depth \in Nat /\ m.depth >= x.depth /\ m.depth >= y.depth
        /\ m.depth = x.depth \/ m.depth = y.depth
    BY <2>2, <2>4, <2>5 DEF Reads
  <2> SUFFICES ASSUME NEW d \in 0..MaxGuardDepth, Ends(rule, TokenAt(toks, j + 1))
               PROVE  Yields(ParseBinary(P, toks, rule, i, d), m, d, j)
    BY <2>6
  <2>7. TokenAt(toks, k) = rule
    BY <2>1, <2>3 DEF TokenAt
  <2>8. PICK l : l = P[At(Operand(rule), i, d)]
    OBVIOUS
  <2>9. PICK r : r = P[At(rule, k + 1, d)]
    OBVIOUS
  <2>10. Yields(l, x, d, k - 1)
    BY <2>3, <2>4, <2>7, <2>8, EndsOperand DEF Reads
  <2>11. Yields(r, y, d, j)
    BY <2>5, <2>9 DEF Reads
  <2>12. CASE d + x.depth > MaxGuardDepth
    <3>1. l.raised
      BY <2>10, <2>12 DEF Yields
    <3>2. ParseBinary(P, toks, rule, i, d) = l
      BY <2>8, <3>1, Zenon DEF ParseBinary, ReadsRight, At
    <3> QED
      BY <1>0, <2>6, <2>10, <2>12, <3>2 DEF Yields
  <2>13. CASE d + x.depth <= MaxGuardDepth
    <3>1. l = Parsed(x.val, k)
      BY <2>3, <2>10, <2>13 DEF Yields
    <3>2. ~l.raised /\ l.pos = k /\ l.val = x.val
      BY <3>1, Zenon DEF Parsed
    <3>3. ~(l.raised \/ TokenAt(toks, l.pos) # rule) /\ r = P[At(rule, l.pos + 1, d)]
      BY <2>7, <2>9, <3>2
    <3>4. /\ r.raised => ParseBinary(P, toks, rule, i, d) = Raised
          /\ ~r.raised => ParseBinary(P, toks, rule, i, d)
                            = Parsed(Joined(rule, l.val, r.val), r.pos)
      BY <2>8, <3>3, Zenon DEF ParseBinary, ReadsRight, At
    <3>5. CASE d + y.depth > MaxGuardDepth
      <4>1. r.raised
        BY <2>11, <3>5 DEF Yields
      <4>2. ParseBinary(P, toks, rule, i, d).raised = TRUE
        BY <3>4, <4>1, RaisedIs
      <4> QED
        BY <1>0, <2>6, <3>5, <4>2 DEF Yields
    <3>6. CASE d + y.depth <= MaxGuardDepth
      <4>1. r = Parsed(y.val, j + 1)
        BY <2>11, <3>6 DEF Yields
      <4>2. ~r.raised /\ r.pos = j + 1 /\ r.val = y.val
        BY <4>1, Zenon DEF Parsed
      <4>3. ParseBinary(P, toks, rule, i, d) = Parsed(m.val, j + 1)
        BY <2>2, <3>2, <3>4, <4>2
      <4> QED
        BY <1>0, <2>6, <2>13, <3>6, <4>3 DEF Yields
    <3> QED
      BY <1>0, <2>6, <3>5, <3>6
  <2> QED
    BY <1>0, <2>6, <2>12, <2>13
<1> QED
  BY <1>1, <1>2

LEMMA InNot ==
    ASSUME NEW M, NEW toks, NEW c, NEW i, NEW j, NEW m \in MeansNot(M, toks, c, i, j)
    PROVE  \/ /\ m.depth = 1 /\ j = i /\ toks[i] \in Operands
              /\ m.val = Truthy(ValueOf(toks[i], c))
           \/ /\ m.depth = 1 /\ j = i + 2 /\ toks[i] \in Operands /\ toks[j] \in Operands
              /\ toks[i + 1] \in Comparators
              /\ m.val = Compare(toks[i + 1], ValueOf(toks[i], c), ValueOf(toks[j], c))
           \/ /\ toks[i] = "not"
              /\ \E x \in M[At("not", i + 1, j)] : m.val = ~x.val /\ m.depth = x.depth + 1
           \/ /\ toks[i] = "(" /\ toks[j] = ")"
              /\ \E x \in M[At("or", i + 1, j - 1)] : m.val = x.val /\ m.depth = x.depth + 1
<1>1. CASE m \in Atoms(toks, c, i, j)
  <2>1. /\ m \in [val : BOOLEAN, depth : {1}]
        /\ \/ /\ j = i /\ toks[i] \in Operands
              /\ m.val = Truthy(ValueOf(toks[i], c))
           \/ /\ j = i + 2 /\ {toks[i], toks[j]} \subseteq Operands
              /\ toks[i + 1] \in Comparators
              /\ m.val = Compare(toks[i + 1], ValueOf(toks[i], c), ValueOf(toks[j], c))
    BY <1>1, Zenon DEF Atoms
  <2>2. m.depth = 1
    BY <2>1
  <2> QED
    BY <2>1, <2>2, Zenon
<1>2. CASE toks[i] = "not" /\ m \in Deeper(Negated(M[At("not", i + 1, j)]))
  <2>1. PICK n \in Negated(M[At("not", i + 1, j)]) : m = [val |-> n.val, depth |-> n.depth + 1]
    BY <1>2, Zenon DEF Deeper
  <2>2. PICK x \in M[At("not", i + 1, j)] : n = [val |-> ~x.val, depth |-> x.depth]
    BY <2>1, Zenon DEF Negated
  <2>3. n.val = ~x.val /\ n.depth = x.depth
    BY <2>2, Zenon
  <2>4. m.val = n.val /\ m.depth = n.depth + 1
    BY <2>1, Zenon
  <2>5. m.val = ~x.val /\ m.depth = x.depth + 1
    BY <2>3, <2>4, Zenon
  <2> QED
    BY <1>2, <2>5, Zenon
<1>3. CASE toks[i] = "(" /\ toks[j] = ")" /\ m \in Deeper(M[At("or", i + 1, j - 1)])
  <2>1. PICK x \in M[At("or", i + 1, j - 1)] : m = [val |-> x.val, depth |-> x.depth + 1]
    BY <1>3, Zenon DEF Deeper
  <2>2. m.val = x.val /\ m.depth = x.depth + 1
    BY <2>1, Zenon
  <2> QED
    BY <1>3, <2>2, Zenon
<1>4. \/ m \in Atoms(toks, c, i, j)
      \/ toks[i] = "not" /\ m \in Deeper(Negated(M[At("not", i + 1, j)]))
      \/ toks[i] = "(" /\ toks[j] = ")" /\ m \in Deeper(M[At("or", i + 1, j - 1)])
  BY Zenon DEF MeansNot, At
<1> QED
  BY <1>1, <1>2, <1>3, <1>4

LEMMA NotReads ==
    ASSUME NEW toks \in Seq(Tokens), NEW c, NEW M, NEW P,
           NEW i \in Nat, NEW j \in 0..Len(toks), i > 0, i <= j,
           ReadsBelow(M, P, toks, Size("not", i, j)),
           NEW m \in MeansNot(M, toks, c, i, j)
    PROVE  /\ m.depth \in Nat /\ m.depth >= 1
           /\ \A d \in 0..MaxGuardDepth :
                 Ends("not", TokenAt(toks, j + 1)) =>
                     Yields(ParseNot(P, toks, c, i, d), m, d, j)
<1> DEFINE R(d) == ParseNot(P, toks, c, i, d)
<1>0. /\ j \in Nat /\ MaxGuardDepth \in Nat /\ "not" \in Rules /\ "or" \in Rules
      /\ TokenAt(toks, i) = toks[i] /\ TokenAt(toks, j) = toks[j]
  BY GuardAssumption DEF Rules, TokenAt
<1>1. \A d : d = MaxGuardDepth => R(d).raised = TRUE
  <2> TAKE d
  <2>1. d = MaxGuardDepth => R(d) = Raised
    BY Zenon DEF ParseNot
  <2> QED
    BY <2>1, RaisedIs
<1>2. CASE m.depth = 1 /\ toks[i] \in Operands /\
           \/ j = i /\ m.val = Truthy(ValueOf(toks[i], c))
           \/ /\ j = i + 2 /\ toks[j] \in Operands
              /\ toks[i + 1] \in Comparators
              /\ m.val = Compare(toks[i + 1], ValueOf(toks[i], c), ValueOf(toks[j], c))
  <2> SUFFICES ASSUME NEW d \in 0..MaxGuardDepth, Ends("not", TokenAt(toks, j + 1))
               PROVE  Yields(R(d), m, d, j)
    BY <1>2
  <2>1. d # MaxGuardDepth => R(d) = Comparison(toks, c, i)
    <3>1. toks[i] \notin {"not", "("}
      BY <1>2, GuardAssumption DEF OP1
    <3> QED
      BY <1>0, <3>1, Zenon DEF ParseNot
  <2>2. Comparison(toks, c, i) = Parsed(m.val, j + 1)
    <3>1. CASE j = i /\ m.val = Truthy(ValueOf(toks[i], c))
      <4>1. TokenAt(toks, i + 1) \notin Comparators
        BY <3>1 DEF Ends
      <4> QED
        BY <1>0, <1>2, <3>1, <4>1, Zenon DEF Comparison
    <3>2. CASE /\ j = i + 2 /\ toks[j] \in Operands
               /\ toks[i + 1] \in Comparators
               /\ m.val = Compare(toks[i + 1], ValueOf(toks[i], c), ValueOf(toks[j], c))
      <4>1. /\ TokenAt(toks, i + 1) = toks[i + 1] /\ TokenAt(toks, i + 2) = toks[j]
            /\ j + 1 = i + 3
        BY <3>2 DEF TokenAt
      <4>2. Comparison(toks, c, i) =
               Parsed(Compare(toks[i + 1], ValueOf(toks[i], c), ValueOf(toks[j], c)), i + 3)
        BY <1>0, <1>2, <3>2, <4>1, Zenon DEF Comparison
      <4> QED
        BY <3>2, <4>1, <4>2
    <3> QED
      BY <1>2, <3>1, <3>2
  <2> QED
    BY <1>0, <1>1, <1>2, <2>1, <2>2 DEF Yields
<1>3. ASSUME toks[i] = "not",
             NEW x \in M[At("not", i + 1, j)], m.val = ~x.val, m.depth = x.depth + 1
      PROVE  /\ m.depth \in Nat /\ m.depth >= 1
             /\ \A d \in 0..MaxGuardDepth :
                   Ends("not", TokenAt(toks, j + 1)) => Yields(R(d), m, d, j)
  <2>1. Reads(P, toks, x, "not", i + 1, j)
    <3>1. Size("not", i + 1, j) < Size("not", i, j) /\ i + 1 \in Nat /\ i + 1 > 0
      BY <1>0, PartsSmaller
    <3> QED
      BY <1>0, <1>3, <3>1 DEF ReadsBelow
  <2>2. x.depth \in Nat /\ m.depth \in Nat /\ m.depth >= 1
    BY <1>3, <2>1 DEF Reads
  <2> SUFFICES ASSUME NEW d \in 0..MaxGuardDepth, Ends("not", TokenAt(toks, j + 1)),
                      d # MaxGuardDepth
               PROVE  Yields(R(d), m, d, j)
    <3>1. \A d \in 0..MaxGuardDepth : d = MaxGuardDepth => Yields(R(d), m, d, j)
      <4>1. MaxGuardDepth + m.depth > MaxGuardDepth
        BY <1>0, <2>2
      <4>2. ~(MaxGuardDepth + m.depth <= MaxGuardDepth)
        BY <1>0, <2>2
      <4> QED
        BY <1>1, <4>1, <4>2, Zenon DEF Yields
    <3> QED
      BY <2>2, <3>1
  <2>3. PICK n : n = P[At("not", i + 1, d + 1)]
    OBVIOUS
  <2>4. Yields(n, x, d + 1, j)
    BY <1>0, <2>1, <2>3 DEF Reads
  <2>5. /\ n.raised => R(d) = Raised
        /\ ~n.raised => R(d) = Parsed(Opposite(n), n.pos)
    BY <1>0, <1>3, <2>3, Zenon DEF ParseNot, At, Opposite
  <2>6. CASE d + 1 + x.depth <= MaxGuardDepth
    <3>1. n = Parsed(x.val, j + 1)
      BY <2>4, <2>6 DEF Yields
    <3>2. ~n.raised /\ n.pos = j + 1 /\ n.val = x.val
      BY <3>1, Zenon DEF Parsed
    <3>3. Opposite(n) = m.val
      BY <1>3, <3>2, Zenon DEF Opposite
    <3>4. R(d) = Parsed(m.val, j + 1)
      BY <2>5, <3>2, <3>3
    <3> QED
      BY <1>0, <1>3, <2>2, <2>6, <3>4 DEF Yields
  <2>7. CASE d + 1 + x.depth > MaxGuardDepth
    <3>1. n.raised
      BY <2>4, <2>7 DEF Yields
    <3>2. R(d).raised = TRUE
      BY <2>5, <3>1, RaisedIs
    <3> QED
      BY <1>0, <1>3, <2>2, <2>7, <3>2 DEF Yields
  <2> QED
    BY <1>0, <2>2, <2>6, <2>7
<1>4. ASSUME toks[i] = "(", toks[j] = ")",
             NEW x \in M[At("or", i + 1, j - 1)], m.val = x.val, m.depth = x.depth + 1
      PROVE  /\ m.depth \in Nat /\ m.depth >= 1
             /\ \A d \in 0..MaxGuardDepth : Yields(R(d), m, d, j)
  <2>0. i < j /\ j - 1 \in 0..Len(toks) /\ (j - 1) + 1 = j
    BY <1>0, <1>4
  <2>1. Reads(P, toks, x, "or", i + 1, j - 1)
    <3>1. Size("or", i + 1, j - 1) < Size("not", i, j) /\ i + 1 \in Nat /\ i + 1 > 0
      BY <1>0, <2>0, PartsSmaller
    <3> QED
      BY <1>0, <1>4, <2>0, <3>1 DEF ReadsBelow
  <2>2. x.depth \in Nat /\ m.depth \in Nat /\ m.depth >= 1
    BY <1>4, <2>1 DEF Reads
  <2> SUFFICES ASSUME NEW d \in 0..MaxGuardDepth, d # MaxGuardDepth
               PROVE  Yields(R(d), m, d, j)
    <3>1. \A d \in 0..MaxGuardDepth : d = MaxGuardDepth => Yields(R(d), m, d, j)
      <4>1. MaxGuardDepth + m.depth > MaxGuardDepth
        BY <1>0, <2>2
      <4>2. ~(MaxGuardDepth + m.depth <= MaxGuardDepth)
        BY <1>0, <2>2
      <4> QED
        BY <1>1, <4>1, <4>2, Zenon DEF Yields
    <3> QED
      BY <2>2, <3>1
  <2>3. PICK p : p = P[At("or", i + 1, d + 1)]
    OBVIOUS
  <2>4. Yields(p, x, d + 1, j - 1)
    <3>1. Ends("or", TokenAt(toks, j))
      BY <1>0, <1>4 DEF Ends, Comparators
    <3> QED
      BY <1>0, <2>0, <2>1, <2>3, <3>1 DEF Reads
  <2>5. /\ p.raised \/ TokenAt(toks, p.pos) \notin OP1 => R(d) = Raised
        /\ ~(p.raised \/ TokenAt(toks, p.pos) \notin OP1) => R(d) = Parsed(p.val, p.pos + 1)
    <3>1. TokenAt(toks, i) = "(" /\ TokenAt(toks, i) # "not"
      BY <1>0, <1>4
    <3> QED
      BY <2>3, <3>1, Zenon DEF ParseNot, At
  <2>6. CASE d + 1 + x.depth <= MaxGuardDepth
    <3>1. p = Parsed(x.val, j)
      BY <2>0, <2>4, <2>6 DEF Yields
    <3>2. ~p.raised /\ p.pos = j /\ p.val = x.val
      BY <3>1, Zenon DEF Parsed
    <3>3. TokenAt(toks, j) \in OP1
      BY <1>0, <1>4 DEF OP1
    <3>4. R(d) = Parsed(m.val, j + 1)
      BY <1>4, <2>5, <3>2, <3>3
    <3> QED
      BY <1>0, <1>4, <2>2, <2>6, <3>4 DEF Yields
  <2>7. CASE d + 1 + x.depth > MaxGuardDepth
    <3>1. p.raised
      BY <2>4, <2>7 DEF Yields
    <3>2. R(d).raised = TRUE
      BY <2>5, <3>1, RaisedIs
    <3> QED
      BY <1>0, <1>4, <2>2, <2>7, <3>2 DEF Yields
  <2> QED
    BY <1>0, <2>2, <2>6, <2>7
<1> HIDE DEF R
<1> QED
  BY <1>2, <1>3, <1>4, InNot DEF R

LEMMA PartRead ==
    ASSUME NEW toks \in Seq(Tokens), NEW c, NEW M, NEW P,
           NEW rule \in Rules, NEW i \in Nat, NEW j \in 0..Len(toks), i > 0,
           ReadsBelow(M, P, toks, Size(rule, i, j)),
           M[At(rule, i, j)] = Means(M, toks, c, At(rule, i, j)),
           \A d \in Nat : P[At(rule, i, d)] = ParseCall(P, toks, c, At(rule, i, d)),
           NEW m \in M[At(rule, i, j)]
    PROVE  Reads(P, toks, m, rule, i, j)
<1>0. j \in Nat /\ 0..MaxGuardDepth \subseteq Nat
  BY GuardAssumption
<1>1. i <= j
  BY <1>0, MeansIs
<1>2. CASE rule # "not"
  <2>1. M[At(rule, i, j)] = MeansBinary(M, toks, rule, i, j)
    BY <1>0, <1>1, <1>2, MeansIs
  <2>2. \A d \in 0..MaxGuardDepth : P[At(rule, i, d)] = ParseBinary(P, toks, rule, i, d)
    BY <1>0, <1>2, CallIs
  <2>3. /\ m.depth \in Nat /\ m.depth >= 1
        /\ \A d \in 0..MaxGuardDepth :
              Ends(rule, TokenAt(toks, j + 1)) =>
                  Yields(ParseBinary(P, toks, rule, i, d), m, d, j)
    BY <1>1, <1>2, <2>1, BinaryReads
  <2> QED
    BY <2>2, <2>3 DEF Reads
<1>3. CASE rule = "not"
  <2>1. M[At(rule, i, j)] = MeansNot(M, toks, c, i, j)
    BY <1>0, <1>1, <1>3, MeansIs
  <2>2. \A d \in 0..MaxGuardDepth : P[At(rule, i, d)] = ParseNot(P, toks, c, i, d)
    BY <1>0, <1>3, CallIs
  <2>3. /\ m.depth \in Nat /\ m.depth >= 1
        /\ \A d \in 0..MaxGuardDepth :
              Ends("not", TokenAt(toks, j + 1)) => Yields(ParseNot(P, toks, c, i, d), m, d, j)
    BY <1>1, <1>3, <2>1, NotReads
  <2> QED
    BY <1>3, <2>2, <2>3 DEF Reads
<1> QED
  BY <1>2, <1>3

\* Every sentence of the grammar has the meaning that evaluate (guard.py) gives it,
\* in every context and at every length, unless it is nested too deep: then, and
\* only then, evaluate raises.  So a sentence within the limit has one meaning.
THEOREM SentencesDecide ==
    \A toks \in Seq(Tokens) : \A ctx : DecidesAsWritten(toks, ctx)
<1> SUFFICES ASSUME NEW toks \in Seq(Tokens), NEW c, NEW m \in Meanings(toks, c)
             PROVE  IF m.depth <= MaxGuardDepth
                    THEN ~Evaluate(toks, c).raised /\ Evaluate(toks, c).val = m.val
                    ELSE Evaluate(toks, c).raised
  BY Zenon DEF DecidesAsWritten
<1>1. PICK P : /\ P = [x \in Calls |-> ParseCall(P, toks, c, x)]
               /\ Parse(toks, c) = P[At("or", 1, 0)]
  BY Solved
<1>2. PICK M : /\ M = [x \in Calls |-> Means(M, toks, c, x)]
               /\ Meanings(toks, c) = M[At("or", 1, Len(toks))]
  BY Meant
<1>3. \A rule \in Rules, i \in Nat, d \in Nat :
         P[At(rule, i, d)] = ParseCall(P, toks, c, At(rule, i, d))
  BY <1>1, CallOf
<1>4. \A rule \in Rules, i \in Nat, j \in Nat :
         M[At(rule, i, j)] = Means(M, toks, c, At(rule, i, j))
  BY <1>2, CallOf
<1>5. PICK T : T = {w \in Nat : ReadsBelow(M, P, toks, w)}
  OBVIOUS
<1>6. 0 \in T
  <2>1. ASSUME NEW rule \in Rules, NEW i \in Nat, NEW j \in 0..Len(toks)
        PROVE  ~(Size(rule, i, j) < 0)
    <3>1. j \in Nat
      OBVIOUS
    <3>2. Size(rule, i, j) \in Nat
      BY <3>1, SizeNat
    <3> QED
      BY <3>2
  <2>2. ReadsBelow(M, P, toks, 0)
    BY <2>1, Zenon DEF ReadsBelow
  <2> QED
    BY <1>5, <2>2
<1>7. ASSUME NEW w \in Nat, w \in T PROVE w + 1 \in T
  <2>1. ReadsBelow(M, P, toks, w)
    BY <1>5, <1>7
  <2>2. ASSUME NEW rule \in Rules, NEW i \in Nat, NEW j \in 0..Len(toks), i > 0,
               Size(rule, i, j) < w + 1, NEW n \in M[At(rule, i, j)]
        PROVE  Reads(P, toks, n, rule, i, j)
    <3>1. ASSUME NEW u \in Rules, NEW k \in Nat, NEW l \in 0..Len(toks),
                 Size(u, k, l) < Size(rule, i, j)
          PROVE  Size(u, k, l) < w
      <4>1. j \in Nat /\ l \in Nat
        OBVIOUS
      <4>2. Size(u, k, l) \in Nat
        BY <4>1, SizeNat
      <4>3. Size(rule, i, j) \in Nat
        BY <4>1, SizeNat
      <4> QED
        BY <2>2, <3>1, <4>2, <4>3
    <3>2. ReadsBelow(M, P, toks, Size(rule, i, j))
      BY <2>1, <3>1 DEF ReadsBelow
    <3>3. j \in Nat
      OBVIOUS
    <3>4. M[At(rule, i, j)] = Means(M, toks, c, At(rule, i, j))
      BY <1>4, <3>3
    <3>5. \A d \in Nat : P[At(rule, i, d)] = ParseCall(P, toks, c, At(rule, i, d))
      BY <1>3
    <3> QED
      BY <2>2, <3>2, <3>4, <3>5, PartRead
  <2>3. ReadsBelow(M, P, toks, w + 1)
    BY <2>2 DEF ReadsBelow
  <2> QED
    BY <1>5, <2>3
<1>8. Nat \subseteq T
  BY <1>6, <1>7, NatAll
<1>9. Reads(P, toks, m, "or", 1, Len(toks))
  <2>1. "or" \in Rules /\ Len(toks) \in 0..Len(toks) /\ Len(toks) \in Nat
    BY DEF Rules
  <2>2. PICK n : n = Size("or", 1, Len(toks))
    OBVIOUS
  <2>3. n \in Nat
    BY <2>1, <2>2, SizeNat
  <2>4. n + 1 \in T
    BY <1>8, <2>3
  <2>5. ReadsBelow(M, P, toks, n + 1)
    BY <1>5, <2>4
  <2>6. Size("or", 1, Len(toks)) < n + 1
    BY <2>2, <2>3
  <2>7. \A x \in M[At("or", 1, Len(toks))] : Reads(P, toks, x, "or", 1, Len(toks))
    BY <2>1, <2>5, <2>6 DEF ReadsBelow
  <2> QED
    BY <1>2, <2>7
<1>10. PICK r : r = Parse(toks, c)
  OBVIOUS
<1>11. Yields(r, m, 0, Len(toks)) /\ m.depth \in Nat
  <2>1. Ends("or", TokenAt(toks, Len(toks) + 1))
    BY DEF Ends, TokenAt, Comparators
  <2>2. 0 \in 0..MaxGuardDepth
    BY GuardAssumption
  <2> QED
    BY <1>1, <1>9, <1>10, <2>1, <2>2 DEF Reads
<1>12. /\ r.pos = Len(toks) + 1 => Evaluate(toks, c) = r
       /\ r.pos # Len(toks) + 1 => Evaluate(toks, c) = Raised
  BY <1>10, Zenon DEF Evaluate
<1>13. CASE m.depth <= MaxGuardDepth
  <2>1. r = Parsed(m.val, Len(toks) + 1)
    BY <1>11, <1>13, GuardAssumption DEF Yields
  <2>2. ~r.raised /\ r.pos = Len(toks) + 1 /\ r.val = m.val
    BY <2>1, Zenon DEF Parsed
  <2> QED
    BY <1>12, <1>13, <2>2
<1>14. CASE ~(m.depth <= MaxGuardDepth)
  <2>1. r.raised = TRUE
    BY <1>11, <1>14, GuardAssumption DEF Yields
  <2> QED
    BY <1>12, <1>14, <2>1, RaisedIs
<1> QED
  BY <1>13, <1>14

-----------------------------------------------------------------------------
(***************************************************************************)
(* What each check gives.                                                  *)
(***************************************************************************)
LEMMA DeclarationsTyped ==
    ASSUME NEW d
    PROVE  /\ IdsOf(d) \subseteq Ids
           /\ \A n \in NodesOf(d) : n \in Decl /\ n.id \in IdsOf(d)
           /\ \A a \in ArcsOf(d) : a \in Arc
  BY DefinitionAssumption DEF NodesOf, ArcsOf, IdsOf, Decl

LEMMA SingleIsNamed ==
    ASSUME NEW d, NEW shape, Single(d, shape)
    PROVE  \E s \in IdsOf(d) : Named(d, shape) = {s}
<1>1. PICK n \in Decls : /\ n.shape = shape /\ d.nodes[n] = 1
                         /\ \A m \in NodesOf(d) \ {n} : m.shape # shape
  BY DEF Single
<1>2. n \in NodesOf(d)
  BY <1>1 DEF NodesOf
<1>3. \A m \in NodesOf(d) : m.shape = shape <=> m = n
  BY <1>1
<1>4. \A x : x \in Named(d, shape) <=> x = n.id
  BY <1>2, <1>3, Zenon DEF Named
<1>5. n.id \in IdsOf(d)
  BY <1>2 DEF IdsOf
<1> QED
  BY <1>4, <1>5

\* One start and one exit.
LEMMA StructureSound ==
    ASSUME NEW d, StructureIssues(d) = {}
    PROVE  Single(d, "START") /\ Single(d, "EXIT")
<1>1. ASSUME NEW t \in {"START", "EXIT"}, ~Single(d, t) PROVE FALSE
  <2>1. Issue("pipeline", t) \in StructureIssues(d)
    BY <1>1 DEF StructureIssues
  <2> QED
    BY <2>1
<1> QED
  BY <1>1

\* Edges and retries stay among the declared names.
LEMMA FollowsDeclared ==
    ASSUME NEW d, EdgeIssues(d) = {}, GateIssues(d) = {}, NEW x
    PROVE  Follows(d, x) \subseteq IdsOf(d)
<1>1. ASSUME NEW a \in ArcsOf(d) PROVE a.dst \in IdsOf(d)
  <2>1. a.dst \in UNION {{b.src, b.dst} : b \in ArcsOf(d)}
    OBVIOUS
  <2>2. a.dst \in IdsOf(d) \/ Issue(a.dst, "dangling") \in EdgeIssues(d)
    BY <2>1 DEF EdgeIssues
  <2> QED
    BY <2>2
<1>2. ASSUME NEW m \in NodesOf(d), m.target # NoTarget PROVE m.target \in IdsOf(d)
  <2>1. m.target \in IdsOf(d) \/ Issue(m.id, "gate") \in GateIssues(d)
    BY <1>2, Zenon DEF GateIssues
  <2> QED
    BY <2>1
<1> QED
  BY <1>1, <1>2 DEF Follows

-----------------------------------------------------------------------------
(***************************************************************************)
(* The search finds no more than what is reachable.                        *)
(***************************************************************************)
Layer(d, s, f, i) ==
    IF i = 0 THEN {s} ELSE f[i - 1] \union UNION {Adjacent(d, x) : x \in f[i - 1]}

LEMMA LayersBelow ==
    ASSUME NEW d, NEW s
    PROVE  \A m \in Nat : \E f : \A i \in 0..m : f[i] = Layer(d, s, f, i)
<1>1. PICK T : T = {m \in Nat : \E f : \A i \in 0..m : f[i] = Layer(d, s, f, i)}
  OBVIOUS
<1>2. 0 \in T
  <2>1. PICK f : f = [i \in 0..0 |-> {s}]
    OBVIOUS
  <2>2. \A i \in 0..0 : f[i] = Layer(d, s, f, i)
    BY <2>1 DEF Layer
  <2> QED
    BY <1>1, <2>2
<1>3. ASSUME NEW m \in Nat, m \in T PROVE m + 1 \in T
  <2>1. PICK f : \A i \in 0..m : f[i] = Layer(d, s, f, i)
    BY <1>1, <1>3
  <2>2. PICK g : g = [i \in 0..(m + 1) |-> IF i <= m THEN f[i] ELSE Layer(d, s, f, i)]
    OBVIOUS
  <2>3. \A i \in 0..(m + 1) : g[i] = Layer(d, s, f, i)
    BY <2>1, <2>2
  <2>4. \A i \in 0..(m + 1) : Layer(d, s, f, i) = Layer(d, s, g, i)
    <3> TAKE i \in 0..(m + 1)
    <3>1. CASE i = 0
      BY <3>1 DEF Layer
    <3>2. CASE i # 0
      <4>1. g[i - 1] = f[i - 1]
        BY <2>2, <3>2
      <4> QED
        BY <4>1, Zenon DEF Layer
    <3> QED
      BY <3>1, <3>2
  <2>5. \A i \in 0..(m + 1) : g[i] = Layer(d, s, g, i)
    BY <2>3, <2>4
  <2> QED
    BY <1>1, <2>5
<1>4. Nat \subseteq T
  BY <1>2, <1>3, NatAll
<1> QED
  BY <1>1, <1>4

\* find_reachable (domain/pipeline.py) returns nothing outside a set that holds
\* the start and is closed under the edges.
LEMMA SearchSound ==
    ASSUME NEW d, NEW s, NEW S, s \in S, \A x \in S : Adjacent(d, x) \subseteq S
    PROVE  FindReachable(d, s) \subseteq S
<1>1. PICK n : n = Cardinality(Ids)
  OBVIOUS
<1>2. n \in Nat
  BY <1>1, DefinitionAssumption, FS_CardinalityType
<1>3. PICK f : \A i \in 0..n : f[i] = Layer(d, s, f, i)
  BY <1>2, LayersBelow
<1>4. PICK g : g = [i \in 0..n |-> f[i]]
  OBVIOUS
<1>5. g = [i \in 0..n |-> Layer(d, s, g, i)]
  <2>1. ASSUME NEW i \in 0..n PROVE Layer(d, s, f, i) = Layer(d, s, g, i)
    <3>1. CASE i = 0
      BY <3>1 DEF Layer
    <3>2. CASE i # 0
      <4>1. g[i - 1] = f[i - 1]
        BY <1>2, <1>4, <3>2
      <4> QED
        BY <4>1, Zenon DEF Layer
    <3> QED
      BY <3>1, <3>2
  <2>2. \A i \in 0..n : f[i] = Layer(d, s, g, i)
    BY <1>3, <2>1
  <2> QED
    BY <1>4, <2>2
<1>6. PICK h : h = CHOOSE seen : seen = [i \in 0..n |->
                      IF i = 0 THEN {s}
                      ELSE seen[i - 1] \union UNION {Adjacent(d, x) : x \in seen[i - 1]}]
  OBVIOUS
<1>7. h = [i \in 0..n |-> IF i = 0 THEN {s}
                          ELSE h[i - 1] \union UNION {Adjacent(d, x) : x \in h[i - 1]}]
  BY <1>5, <1>6, Zenon DEF Layer
<1>8. FindReachable(d, s) = h[n]
  BY <1>1, <1>6, Zenon DEF FindReachable
<1>9. PICK T : T = {i \in Nat : i <= n => h[i] \subseteq S}
  OBVIOUS
<1>10. 0 \in T
  BY <1>2, <1>7, <1>9
<1>11. ASSUME NEW i \in Nat, i \in T PROVE i + 1 \in T
  <2> SUFFICES ASSUME i + 1 <= n PROVE h[i + 1] \subseteq S
    BY <1>9
  <2>1. h[i] \subseteq S
    BY <1>2, <1>9, <1>11
  <2>2. i + 1 \in 0..n /\ i + 1 # 0 /\ (i + 1) - 1 = i
    BY <1>2
  <2>3. h[i + 1] = h[i] \union UNION {Adjacent(d, x) : x \in h[i]}
    BY <1>7, <2>2
  <2> QED
    BY <2>1, <2>3
<1> QED
  BY <1>2, <1>8, <1>9, <1>10, <1>11, NatAll

-----------------------------------------------------------------------------
\* A definition in which validate (domain/pipeline.py) finds nothing keeps every
\* run inside its graph: one start, declared names only, an exit ahead, a profile
\* for every worker, guards that can be evaluated wherever the run is, and no two
\* tools in a row.
THEOREM ValidIsRunnable ==
    ASSUME NEW d \in Definitions, Issues(d) = {}
    PROVE  RunsInside(d)
<1>1. /\ StructureIssues(d) = {} /\ EdgeIssues(d) = {} /\ ReachabilityIssues(d) = {}
      /\ GateIssues(d) = {} /\ ProfileIssues(d) = {} /\ ToolIssues(d) = {}
      /\ GuardIssues(d) = {}
  BY DEF Issues
<1>2. Single(d, "START") /\ Single(d, "EXIT")
  BY <1>1, StructureSound
<1>3. PICK s \in IdsOf(d) : Named(d, "START") = {s}
  BY <1>2, SingleIsNamed
<1>4. PICK e \in IdsOf(d) : Named(d, "EXIT") = {e}
  BY <1>2, SingleIsNamed
<1> DEFINE next == [y \in Ids |-> Follows(d, y)]
           Closed(S) == Named(d, "START") \subseteq S /\ \A y \in S : next[y] \subseteq S
           closed == {S \in SUBSET Ids : Closed(S)}
<1>5. IdsOf(d) \in closed
  BY <1>1, <1>3, DeclarationsTyped, FollowsDeclared
<1>6. Visited(d) = {x \in Ids : \A S \in closed : x \in S}
  BY Zenon DEF Visited
<1>7. Visited(d) \subseteq IdsOf(d)
  BY <1>5, <1>6
<1>8. e \in Visited(d)
  <2> SUFFICES ASSUME NEW S \in closed PROVE e \in S
    BY <1>4, <1>6, DeclarationsTyped
  <2>1. Reachable(d) = FindReachable(d, s)
    BY <1>2, <1>3 DEF Reachable
  <2>2. e \in Reachable(d) \/ Issue(e, "unreachable") \in ReachabilityIssues(d)
    BY <1>2, <1>4, Zenon DEF ReachabilityIssues
  <2>3. \A x \in S : Adjacent(d, x) \subseteq S
    <3> TAKE x \in S
    <3>1. Follows(d, x) \subseteq S
      OBVIOUS
    <3>2. Adjacent(d, x) \subseteq Follows(d, x)
      BY DEF Adjacent, Follows
    <3> QED
      BY <3>1, <3>2
  <2>4. s \in S
    BY <1>3
  <2>5. FindReachable(d, s) \subseteq S
    BY <2>3, <2>4, SearchSound
  <2> QED
    BY <1>1, <2>1, <2>2, <2>5
<1>9. ASSUME NEW n \in NodesOf(d)
      PROVE  \/ n.shape \in {"START", "EXIT"} \/ n.profile # NoProfile
             \/ \E i \in DOMAIN d.style : Selects(d.style[i], n)
  <2> SUFFICES ASSUME n \in Workers(d), n.profile = NoProfile
               PROVE  \E i \in DOMAIN d.style : Selects(d.style[i], n)
    BY DEF Workers
  <2>1. \/ ResolveProfile(d, n) # NoProfile
        \/ Issue(n.id, "profile") \in ProfileIssues(d)
    BY DEF ProfileIssues
  <2>2. Styled(d.style, n) # NoProfile
    BY <1>1, <2>1 DEF ResolveProfile
  <2>3. {i \in DOMAIN d.style : Selects(d.style[i], n)} # {}
    BY <2>2, Zenon DEF Styled
  <2> QED
    BY <2>3
<1>10. ASSUME NEW a \in ArcsOf(d), a.guard # NoGuard, NEW ctx \in GuardContexts
       PROVE  ~Evaluate(a.guard, ctx).raised
  <2>1. a \in Arcs /\ a.guard \in Seq(Tokens)
    BY <1>10, DeclarationsTyped DEF ArcsOf, Arc
  <2>2. a \notin Unparseable
    <3>1. a \in Unparseable => Issue(a.src, "guard") \in GuardIssues(d)
      BY DEF GuardIssues
    <3> QED
      BY <1>1, <3>1
  <2>3. ~Evaluate(a.guard, EmptyContext).raised
    BY <1>10, <2>1, <2>2 DEF Unparseable
  <2>4. Evaluate(a.guard, ctx).raised = Evaluate(a.guard, EmptyContext).raised
    BY <2>1, RaisesWhateverTheContext DEF RaisesAlways
  <2> QED
    BY <2>3, <2>4
<1>11. ASSUME NEW a \in ArcsOf(d)
       PROVE  ~(a.src \in Named(d, "TOOL") /\ a.dst \in Named(d, "TOOL"))
  <2>1. {a.src, a.dst} \subseteq Named(d, "TOOL") => Issue(a.src, "tool") \in ToolIssues(d)
    BY DEF ToolIssues
  <2> QED
    BY <1>1, <2>1
<1>12. \E x \in Ids : Named(d, "START") = {x}
  BY <1>3, DeclarationsTyped
<1>13. Visited(d) \intersect Named(d, "EXIT") # {}
  BY <1>4, <1>8
<1> HIDE DEF closed, Closed, next
<1> QED
  BY <1>7, <1>9, <1>10, <1>11, <1>12, <1>13, Zenon DEF RunsInside
=============================================================================
