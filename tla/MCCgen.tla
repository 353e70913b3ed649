--------------------------------- MODULE MCCgen ---------------------------------
(***************************************************************************)
(* Functions of one or two loops and a switch around every combination of  *)
(* simple statements and jumps.                                            *)
(***************************************************************************)
EXTENDS CgenRun

E(a)     == [k |-> "expr", a |-> a, kids |-> <<>>]
Ret(a)   == [k |-> "return", a |-> a, kids |-> <<>>]
Leaf(k)  == [k |-> k, kids |-> <<>>]
Goto(l)  == [k |-> "goto", name |-> l, kids |-> <<>>]
Label(l) == [k |-> "label", name |-> l, kids |-> <<>>]
Block(s) == [k |-> "block", kids |-> s]
If(a, s) == [k |-> "if", a |-> a, kids |-> s]
Switch(a, s) == [k |-> "switch", a |-> a, kids |-> s]
Case(l, h)   == [k |-> "case", lo |-> l, hi |-> h, kids |-> <<>>]
While(a, n)  == [k |-> "while", a |-> a, kids |-> <<n>>]
Do(a, n)     == [k |-> "do", a |-> a, kids |-> <<n>>]
For(i, a, s, n) == [k |-> "for", init |-> i, a |-> a, step |-> s, kids |-> <<n>>]

File1(nodes) == [nodes |-> nodes, funcs |-> <<1>>]

(* The loops over body n whose condition is a.                             *)
LoopsOver(a, n) == {While(a, n), For("i", a, "s", n), For(None, a, None, n)}
Endless(n)      == {For(None, None, "s", n)}

JumpsOut == {Leaf("break"), Leaf("continue"), Goto("L"), Ret("r")}
NoJump   == {E("x"), Leaf("null"), Block(<<>>)}

(* loop { if (c) X; else Y;  e; }  L: f;      and L inside the loop.       *)
LoopIf(loops) ==
  {File1(<<Block(<<2, 7, 8>>), l, Block(<<4, 9>>), If("c", <<5, 6>>), x, y,
           Label("L"), E("f"), E("e")>>)
     : l \in loops, x \in JumpsOut, y \in JumpsOut \cup NoJump}
LoopIfInside(loops) ==
  {File1(<<Block(<<2, 8>>), l, Block(<<4, 7, 9>>), If("c", <<5>>), x, y,
           Label("L"), Ret(None), E("e")>>)
     : l \in loops, x \in JumpsOut, y \in {Leaf("null")}}

(* do without continue.                                                    *)
DoFiles ==
  {File1(<<Block(<<2, 7, 8>>), Do("w", 3), Block(<<4, 9>>), If("c", <<5, 6>>),
           x, y, Label("L"), E("f"), E("e")>>)
     : x \in JumpsOut \ {Leaf("continue")}, y \in {E("x"), Leaf("break")}}

(* loop { switch (c) { case 0: X  mark: Y  mark: Z }  e; }  L: f;          *)
SwitchFiles ==
  {File1(<<Block(<<2, 11, 12>>), l, Block(<<4, 13>>),
           Switch("c", <<5, 6, 7, 8, 9, 10>>),
           Case(0, 0), x, m, y, d, z, Label("L"), E("f"), E("e")>>)
     : l \in {While("w", 3), For("i", "w", "s", 3), Do("w", 3)},
       x \in {E("x"), Leaf("break"), Goto("L")},
       m \in {Case(1, 2), Case(1, 1), Leaf("default")},
       y \in {E("y"), Leaf("break")},
       d \in {Case(2, 2), Leaf("default")},
       z \in {Leaf("break"), Ret("r"), Goto("L")}}
OneDefault(f) == ~(f.nodes[7].k = "default" /\ f.nodes[9].k = "default")
Distinct(f)   == ~(f.nodes[7].k = "case" /\ f.nodes[9].k = "case"
                   /\ f.nodes[7].hi = f.nodes[9].lo)

(* A loop and a continue inside a switch inside a loop.                    *)
ContinueInSwitch ==
  {File1(<<Block(<<2>>), l, Switch("c", <<4, 5, 7, 8, 9>>), Case(0, 0),
           While("v", 6), x, Leaf("break"), Leaf("default"), Leaf("continue")>>)
     : l \in {While("w", 3), For("i", "w", "s", 3)}, x \in JumpsOut \ {Goto("L")}}

(* loop { loop { if (c) X; e; } Y }  f;                                    *)
Nested ==
  {File1(<<Block(<<2, 10>>), l, Block(<<4, 9>>), m, Block(<<6, 8>>),
           If("c", <<7>>), x, E("e"), y, Ret(None)>>)
     : l \in LoopsOver("w", 3), m \in LoopsOver("v", 5) \cup Endless(5),
       x \in {Leaf("break"), Leaf("continue")},
       y \in {E("y"), Leaf("break"), Leaf("continue")}}

(* Two functions that each use the label L, the second backwards.          *)
TwoFunctions ==
  {[nodes |-> <<Block(<<2, 3, 4>>), x, y, E("e"),
                Block(<<6, 7, 9>>), Label("L"), If("d", <<8>>), Goto("L"), Ret("r"),
                E("y")>>,
    funcs |-> <<1, 5>>] : x \in {E("x"), While("w", 10)}, y \in {Ret("r"), Leaf("null")}}

(* Four cases, three goto names, and more jumps forward than there is room *)
(* for: the limits.                                                        *)
TooLarge ==
  {File1(<<Block(<<2>>), Switch("c", <<3, 4, 5, 6, 7>>), Case(0, 0), Case(1, 1),
           Case(2, 2), Case(3, 3), Leaf("break")>>),
   File1(<<Block(<<2, 3, 4>>), Label("L"), Label("M"), Label("N")>>),
   File1(<<Block([i \in 1 .. 13 |-> i + 1])>> \o [i \in 1 .. 12 |-> Goto("L")]
         \o <<Label("L")>>),
   File1(<<Block([i \in 1 .. 6 |-> i + 1])>> \o [i \in 1 .. 6 |-> Do("w", i + 7)]
         \o [i \in 1 .. 6 |-> E("e")])}

GoodFiles ==
  LoopIf(LoopsOver("w", 3) \cup Endless(3)) \cup LoopIfInside(LoopsOver("w", 3))
  \cup DoFiles \cup {f \in SwitchFiles : OneDefault(f) /\ Distinct(f)}
  \cup ContinueInSwitch \cup Nested \cup TwoFunctions \cup TooLarge

(* continue in a do.                                                       *)
DoContinue ==
  {File1(<<Block(<<2>>), Do("w", 3), Block(<<4, 6>>), If("c", <<5>>),
           Leaf("continue"), E("e")>>)}

(* The last statement of a switch is not a jump.                           *)
FallsOff ==
  {File1(<<Block(<<2, 7>>), Switch("c", <<3, 4, 5, 6>>), Case(0, 0), Leaf("break"),
           Case(1, 1), E("x"), E("e")>>)}

(* A case label in a block of its switch.                                  *)
CaseInBlock ==
  {File1(<<Block(<<2, 8>>), Switch("c", <<3, 4, 7>>), Case(0, 0), Block(<<5, 6>>),
           Case(1, 1), E("x"), Leaf("break"), E("e")>>)}

(* if (c) return;  at the end of a function.                               *)
ReturnInIf == {File1(<<Block(<<2>>), If("c", <<3>>), Ret(None)>>)}

(* A function whose last statement is an assignment to a local variable 61 *)
(* bytes below rbp: mov [rbp-61], eax ends in the byte C3.                 *)
EndsInThatByte == {File1(<<Block(<<2>>), E("c3")>>)}

MCPlain == {Plainly("eval", 3, a) : a \in {"c", "d", "e", "f", "i", "r", "s", "v",
                                           "w", "x", "y", "c3"}}
           \cup {Plainly("cmp", 5, v) : v \in 0 .. 3}
           \cup {Plainly("push", 1, None), Plainly("pop", 1, None),
                 Plainly("prologue", 4, None), Plainly("ret", 5, None)}
=============================================================================
