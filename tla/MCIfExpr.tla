--------------------------------- MODULE MCIfExpr ---------------------------------
(***************************************************************************)
(* Every pair of operators, grouped by precedence or by parentheses, every *)
(* triple of precedences, unary operators and names in every operand.      *)
(***************************************************************************)
EXTENDS IfExpr

Binary == UNION {Levels[l] : l \in DOMAIN Levels}
OnePerLevel == {"||", "&&", "|", "^", "&", "==", "<", "<<", "-", "/"}

N(v) == <<Num(v)>>
O(o) == <<Op(o)>>
Par(s) == <<LP>> \o s \o <<RP>>
DefinedA == {<<DefinedWord, Id("A")>>, <<DefinedWord, LP, Id("A"), RP>>}

Pairs == {N(a) \o O(o) \o N(b) \o O(p) \o N(c) :
            a \in {0, 3}, b \in {1, 2}, c \in {0, 3}, o \in Binary, p \in Binary}
Grouped == {N(3) \o O(o) \o Par(N(b) \o O(p) \o N(2)) :
              b \in {0, 5}, o \in Binary, p \in Binary}
           \cup {Par(N(3) \o O(o) \o N(b)) \o O(p) \o N(2) :
              b \in {0, 5}, o \in Binary, p \in Binary}
Triples == {N(a) \o O(o) \o N(2) \o O(p) \o N(1) \o O(q) \o N(3) :
              a \in {0, 5}, o \in OnePerLevel, p \in OnePerLevel,
              q \in OnePerLevel}
Unaries == {O(u) \o x \o O(o) \o O(v) \o y :
              u \in {"+", "-", "~", "!"}, v \in {"-", "!"}, o \in Binary,
              x \in {N(2), <<Id("A")>>, Par(N(1) \o O("-") \o N(2))} \cup DefinedA,
              y \in {N(3), <<Id("B")>>, O("-") \o N(1)}}

AllConditions == Pairs \cup Grouped \cup Triples \cup Unaries

(* Values that are one operand.                                            *)
SimpleMacros == {[n \in {} |-> <<>>], [n \in {"A"} |-> N(2)],
                 [n \in {"A", "B"} |-> IF n = "A" THEN <<Id("B")>>
                                       ELSE Par(N(1) \o O("+") \o N(2))]}

(* #define A 1 + 2                                                         *)
SumMacro     == {[n \in {"A"} |-> N(1) \o O("+") \o N(2)]}
SumCondition == {<<Id("A")>> \o O("*") \o N(2)}

(* #define A A                                                             *)
SelfMacro     == {[n \in {"A"} |-> <<Id("A")>>]}
SelfCondition == {<<Id("A")>> \o O("+") \o N(1)}
=============================================================================
