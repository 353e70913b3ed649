--------------------------------- MODULE MCNames ---------------------------------
(***************************************************************************)
(* Functions made of three statements around two names, and files of       *)
(* several functions and variables.                                        *)
(***************************************************************************)
EXTENDS NamesAsC, SequencesExt

B(k)      == [k |-> k]
N(k, n)   == [k |-> k, name |-> n, wide |-> FALSE]
Wide(n)   == [k |-> "set", name |-> n, wide |-> TRUE]
D(n, s)   == [k |-> "decl", name |-> n, size |-> s, init |-> TRUE]
Bare(n, s) == [k |-> "decl", name |-> n, size |-> s, init |-> FALSE]
S(n, init) == [k |-> "static", name |-> n, size |-> 4, init |-> init]
Block(s)  == <<B("open")>> \o s \o <<B("close")>>
For(s)    == <<B("for")>> \o s \o <<B("endfor")>>

Var(n, sz, init) ==
  [k |-> "var", name |-> n, size |-> sz, init |-> init, static |-> FALSE]
StaticVar(n, init) == [Var(n, 4, init) EXCEPT !.static = TRUE]
Fun(n, params, items) ==
  [k |-> "func", name |-> n, static |-> FALSE, big |-> FALSE, variadic |-> FALSE,
   params |-> params, items |-> items]
P(n, sz) == [name |-> n, size |-> sz]

(* Statements: a declaration, an assignment and a use, a block of two, a   *)
(* block in a block and a for that declares x, whose x is used after it    *)
(* unless it comes last.                                                   *)
Plain1 == {<<D("x", 4)>>, <<N("set", "x"), N("get", "x")>>}
Nested1 == {Block(s \o t) : s \in Plain1, t \in Plain1}
           \cup {Block(s \o Block(t)) : s \in Plain1, t \in Plain1}
           \cup {For(<<D("x", 4)>> \o s) : s \in {Block(u) : u \in Plain1}
                                                   \cup {<<N("get", "x")>>}}
Stmts3 == Plain1 \cup Nested1

AllFunctions ==
  {<<Var("x", 4, TRUE), Fun("main", <<>>, s \o t \o u \o <<N("get", "x")>>)>>
     : s \in Stmts3, t \in Stmts3, u \in Stmts3}
  \cup {<<Var("x", 4, TRUE), Fun("main", <<>>, s \o t)>> : s \in Stmts3, t \in Stmts3}

(* Those whose variables the search for a name distinguishes.              *)
Shadowing ==
  {f \in AllFunctions : \A x \in DOMAIN f : f[x].k = "func" => Unambiguous(f[x])}

-----------------------------------------------------------------------------
(* Parameters and locals of every width, in registers and on the stack,    *)
(* hidden pointers and save areas.                                         *)
Sizes == {1, 2, 4, 8}
All(names) == [x \in DOMAIN names |-> N("get", names[x])]
Frames ==
  {<<[Fun("f", <<P("a", s), P("b", t), P("c", u)>>,
          <<D("x", t), D("y", 12), N("set", "a"), B("va")>> \o All(<<"a", "b", "c", "x", "y">>)
          \o <<B("return")>>)
      EXCEPT !.big = g, !.variadic = v]>>
     : s \in Sizes, t \in Sizes, u \in Sizes, g \in BOOLEAN, v \in {TRUE}}
  \cup {<<Fun("f", <<P("a", 8), P("b", 1), P("c", 4), P("d", 2), P("e", 4), P("g", 1),
                     P("h", 8)>>,
              All(<<"a", "b", "c", "d", "e", "g", "h">>))>>}

(* Variables of the file, statics, functions called before and after they  *)
(* are defined, names no declaration of the file defines, a variable       *)
(* declared twice, and a call through a local variable.                    *)
GlobalUses == <<N("set", "u"), N("get", "u"), Wide("u"), N("get", "u"), N("get", "v"),
                N("get", "w")>>
Programs ==
  {<<Var("u", s, g), Var("v", 8, h), Var("w", 4, TRUE),
     Fun("f", <<>>, GlobalUses \o <<S("n", FALSE), N("get", "n"), N("set", "n"), N("get", "n")>>),
     Fun("main", <<P("p", 8)>>, <<N("call", "f"), N("call", "g"), N("call", "p")>> \o GlobalUses),
     [Fun("g", <<>>, <<S("m", FALSE), N("set", "m"), N("call", "ext")>> \o GlobalUses
                     \o <<N("get", "m")>>) EXCEPT !.static = FALSE]>>
     : s \in {4, 8}, g \in BOOLEAN, h \in BOOLEAN}
  \cup {<<StaticVar("u", TRUE), [Fun("f", <<>>, <<N("set", "u")>>) EXCEPT !.static = TRUE],
          Fun("main", <<>>, <<N("call", "f"), N("get", "u"), N("call", "g")>>),
          Fun("g", <<>>, <<N("call", "f"), N("set", "u"), N("get", "u")>>)>>,
        <<Fun("f", <<>>, <<S("g", FALSE), N("set", "g"), N("get", "g")>>), Fun("g", <<>>, <<>>)>>,
        <<Var("u", 4, FALSE), Var("u", 4, FALSE),
          Fun("main", <<>>, <<N("set", "u"), N("get", "u"), N("set", "e"), N("get", "e")>>)>>}

(* More names, locals, blocks and data than there is room for.                 *)
TooMany ==
  {<<Fun("main", <<>>, [x \in 1 .. 9 |-> Bare("x", 4)])>>,
   <<Fun("main", <<>>, Block(Block(Block(Block(<<>>)))))>>,
   <<Fun("main", <<>>, [x \in 1 .. 11 |-> N("call", ToString(x))])>>,
   [x \in 1 .. 11 |-> Var("u", 4, FALSE)],
   <<Fun("main", <<>>, [x \in 1 .. 11 |-> S("n", FALSE)])>>,
   [x \in 1 .. 4 |-> Var(ToString(x), 8, TRUE)],
   [x \in 1 .. 10 |-> Var(ToString(x), 4, FALSE)]
     \o <<Fun("main", <<>>, <<N("get", "u"), N("call", "2")>>)>>}

GoodFiles == Shadowing \cup Frames \cup Programs \cup TooMany

-----------------------------------------------------------------------------
(* int x = 1; { int x = 2; } { x = 3; } use x;                             *)
SiblingBlock ==
  {<<Fun("main", <<>>, <<D("x", 4)>> \o Block(<<D("x", 4)>>) \o Block(<<N("set", "x")>>)
                       \o <<N("get", "x")>>)>>}

(* static int f(void); called before it is defined.                        *)
StaticForward ==
  {<<Fun("main", <<>>, <<N("call", "f")>>), [Fun("f", <<>>, <<>>) EXCEPT !.static = TRUE]>>}

(* Two functions with a static variable each, of one name.                 *)
StaticsOfOneName ==
  {<<Fun("f", <<>>, <<S("n", FALSE), N("set", "n")>>),
     Fun("main", <<>>, <<S("n", FALSE), N("get", "n")>>)>>}

(* static int n = 1;                                                       *)
StaticInitialised == {<<Fun("main", <<>>, <<S("n", TRUE), N("get", "n")>>)>>}

(* More initialised variables than the data buffer has room for.           *)
MuchData == {[x \in 1 .. 5 |-> Var(ToString(x), 8, TRUE)]}

(* char u; in the file, assigned and used.                                 *)
CharGlobal ==
  {<<Var("u", 1, FALSE), Fun("main", <<>>, <<N("set", "u"), N("get", "u")>>)>>}

(* int v = 1; in a file without main.                                      *)
WithoutMain == {<<Var("v", 4, TRUE), Fun("f", <<>>, <<N("get", "v")>>)>>}
=============================================================================
