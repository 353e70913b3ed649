------------------------------ MODULE CStatements ------------------------------
(***************************************************************************)
(* What C says the statements of a function do, over the AST alone and     *)
(* with no code generated: the abstract specification of cgen.c.           *)
(*                                                                         *)
(* A control point is a pair <<mode, node>>.  From a silent point there is *)
(* one next point; at a visible one the program evaluates an expression or *)
(* returns, and where it goes depends on the value.                        *)
(*                                                                         *)
(* The statements of a function as the parser hands them to the code       *)
(* generator.  A node is a record whose k is its AST kind and whose kids   *)
(* are its substatements in source order (then_stmt and else_stmt of an    *)
(* if, loop_body of a loop, the stmts of a block or a switch):             *)
(*   k = "expr", "return"        a: the expression, or None                *)
(*   k = "if", "while", "do", "switch"     a: the controlling expression   *)
(*   k = "for"                   init, a, step: expressions, or None       *)
(*   k = "case"                  lo, hi; "default", "break", "continue",   *)
(*   k = "goto", "label"         name                                      *)
(* An expression is opaque: evaluating it is the one thing an observer of  *)
(* the program sees.                                                       *)
(***************************************************************************)
EXTENDS Integers, Sequences

None == "none"

Loops == {"while", "do", "for"}

(* nodes is the sequence of all nodes; 0 stands above a function's body.   *)
IsKid(nodes, n, p) == \E i \in DOMAIN nodes[p].kids : nodes[p].kids[i] = n

Parent(nodes, n) == IF \E p \in DOMAIN nodes : IsKid(nodes, n, p)
                    THEN CHOOSE p \in DOMAIN nodes : IsKid(nodes, n, p)
                    ELSE 0

Rank(nodes, n, p) == CHOOSE i \in DOMAIN nodes[p].kids : nodes[p].kids[i] = n

(* The innermost statement around n whose kind is one of ks, or 0.         *)
Enclosing(nodes, n, ks) ==
  LET up[m \in 0 .. Len(nodes)] ==
        IF m = 0 THEN 0
        ELSE IF nodes[m].k \in ks THEN m ELSE up[Parent(nodes, m)]
  IN  up[Parent(nodes, n)]

(* The body of the function that n is in.                                  *)
Root(nodes, n) ==
  LET up[m \in 1 .. Len(nodes)] ==
        IF Parent(nodes, m) = 0 THEN m ELSE up[Parent(nodes, m)]
  IN  up[n]

-------------------------------------------------------------------------------

At(mode, n) == <<mode, n>>

(* The expression evaluated at a control point; None at a silent one.      *)
Evaluates(nodes, c) ==
  LET n == nodes[c[2]]
  IN  CASE c[1] = "enter" /\ n.k \in {"expr", "return"} -> n.a
        [] c[1] = "init" -> n.init
        [] c[1] = "test" -> n.a
        [] c[1] = "step" -> n.step
        [] OTHER -> None

Visible(nodes, c) == c[1] = "ret" \/ Evaluates(nodes, c) # None

(* Where control goes when statement n is complete.                        *)
After(nodes, n) ==
  LET p == Parent(nodes, n)
  IN  IF p = 0 THEN At("ret", n)
      ELSE CASE nodes[p].k \in {"while", "do"} -> At("test", p)
             [] nodes[p].k = "for" -> At("step", p)
             [] nodes[p].k = "if" -> At("leave", p)
             [] OTHER ->
                  IF Rank(nodes, n, p) < Len(nodes[p].kids)
                  THEN At("enter", nodes[p].kids[Rank(nodes, n, p) + 1])
                  ELSE At("leave", p)

LabelNode(nodes, n) ==
  CHOOSE m \in DOMAIN nodes : /\ nodes[m].k = "label"
                              /\ nodes[m].name = nodes[n].name
                              /\ Root(nodes, m) = Root(nodes, n)

Enter(nodes, n) ==
  LET x == nodes[n]
  IN  CASE x.k = "block" /\ x.kids # <<>> -> At("enter", x.kids[1])
        [] x.k \in {"if", "while", "switch"} -> At("test", n)
        [] x.k = "for" -> At("init", n)
        [] x.k = "do" -> At("enter", x.kids[1])
        [] x.k = "return" -> At("ret", n)
        [] x.k = "break" ->
             At("leave", Enclosing(nodes, n, Loops \cup {"switch"}))
        [] x.k = "continue" ->
             LET l == Enclosing(nodes, n, Loops)
             IN  At(IF nodes[l].k = "for" THEN "step" ELSE "test", l)
        [] x.k = "goto" -> At("leave", LabelNode(nodes, n))
        [] OTHER -> At("leave", n)

(* The next point after a silent one; a missing expression of a for is     *)
(* passed over, and a missing condition is true.                           *)
Silent(nodes, c) ==
  CASE c[1] = "enter" -> Enter(nodes, c[2])
    [] c[1] = "leave" -> After(nodes, c[2])
    [] c[1] \in {"init", "step"} -> At("test", c[2])
    [] c[1] = "test" -> At("enter", nodes[c[2]].kids[1])

(* The case of a switch that takes v: a case label belongs to the          *)
(* innermost switch around it, however deep it stands.                     *)
LabelsOf(nodes, n) == {m \in DOMAIN nodes : nodes[m].k \in {"case", "default"}
                                  /\ Enclosing(nodes, m, {"switch"}) = n}
Takes(nodes, n, v) ==
  LET match == {m \in LabelsOf(nodes, n) :
                  nodes[m].k = "case" /\ v \in nodes[m].lo .. nodes[m].hi}
      dflt  == {m \in LabelsOf(nodes, n) : nodes[m].k = "default"}
  IN  CASE match # {} -> At("leave", CHOOSE m \in match : TRUE)
        [] match = {} /\ dflt # {} -> At("leave", CHOOSE m \in dflt : TRUE)
        [] OTHER -> At("leave", n)

(* The next point after a visible one at which the value is v.             *)
OnValue(nodes, c, v) ==
  LET n == c[2]
      x == nodes[n]
  IN  CASE c[1] = "enter" /\ x.k = "return" -> At("ret", n)
        [] c[1] = "enter" /\ x.k = "expr" -> At("leave", n)
        [] c[1] \in {"init", "step"} -> At("test", n)
        [] c[1] = "test" /\ x.k = "switch" -> Takes(nodes, n, v)
        [] c[1] = "test" /\ x.k = "if" ->
             (CASE v # 0 -> At("enter", x.kids[1])
                [] v = 0 /\ Len(x.kids) = 2 -> At("enter", x.kids[2])
                [] OTHER -> At("leave", n))
        [] c[1] = "test" /\ x.k \in Loops ->
             IF v # 0 THEN At("enter", x.kids[1]) ELSE At("leave", n)
=============================================================================
