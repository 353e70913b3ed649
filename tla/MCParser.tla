---------------------------------- MODULE MCParser ----------------------------------
(* The programs that the parser is run on.                                 *)
EXTENDS ParseUnit

B(o, x, y)  == [Tree("binop", <<x, y>>) EXCEPT !.op = o]
V(x)        == [Tree("var", <<>>) EXCEPT !.n = x]
K(i)        == [Tree("const", <<>>) EXCEPT !.v = i]
U(o, x)     == [Tree("unary", <<x>>) EXCEPT !.op = o]
Post(x, o)  == [Tree("postfix", <<x>>) EXCEPT !.op = o]
Asg(o, x, y) == [Tree("assign", <<x, y>>) EXCEPT !.op = o]
If3(x, y, z) == Tree("cond", <<x, y, z>>)
At(x, i)    == B("[]", x, i)
Dot(x, m)   == [Tree("member", <<x>>) EXCEPT !.op = ".", !.n = m]
Arrow(x, m) == [Tree("member", <<x>>) EXCEPT !.op = "->", !.n = m]
CallE(f, c) == Tree("call", <<V(f)>> \o c)
To_(ty, x)  == [Tree("cast", <<x>>) EXCEPT !.ty = ty]
SizeT(ty)   == [Tree("sizeoft", <<>>) EXCEPT !.ty = ty]
SizeE(x)    == Tree("sizeofe", <<x>>)

Ty(b)  == Type(b, 0, <<>>)
Ptr(b) == Type(b, 1, <<>>)
Arr(b, d) == Type(b, 0, d)
Field(n, ty) == [n |-> n, ty |-> ty]
Var(n, ty)  == [Tree("var", <<>>) EXCEPT !.n = n, !.ty = ty]
Set(n, ty, i) == [Tree("var", <<i>>) EXCEPT !.n = n, !.ty = ty]
Decls(ds)   == Tree("decls", ds)
Full(t)     == t @@ [fields |-> <<>>, ps |-> <<>>]
StructD(tag, fs) == [Full(Tree("struct", <<>>)) EXCEPT !.n = tag, !.fields = fs]
TypedefD(n, ty, fs) == [Full(Tree("typedef", <<>>)) EXCEPT !.n = n, !.ty = ty, !.fields = fs]
EnumItem(n, c) == [Tree("item", c) EXCEPT !.n = n]
EnumD(c)    == Tree("enum", c)
Func(n, ty, ps, c) == [Full(Tree("func", c)) EXCEPT !.n = n, !.ty = ty, !.ps = ps]
Proto(n, ty, ps) == [Func(n, ty, ps, <<>>) EXCEPT !.op = "proto"]
Main(c)     == Func("main", IntT, <<>>, c)
Do(e)       == Tree("expr", <<e>>)

-----------------------------------------------------------------------------
(* Expressions, in a function with variables of many types.                *)
Plain(e) == <<Main(<<Decls(<<Var("a", IntT), Var("b", IntT), Var("c", IntT)>>), Do(e)>>)>>
Known_ ==
  <<StructD("o", <<Field("d", Ty("long")), Field("b", Ty("char")), Field("a", IntT)>>),
    StructD("s", <<Field("a", IntT), Field("b", Ty("char")), Field("n", Struct("s", 1, <<>>)),
                   Field("i", Struct("o", 0, <<>>)), Field("j", Struct("o", 1, <<>>)),
                   Field("z", Type("short", 0, <<3>>))>>),
    Proto("f", IntT, <<Var("x", IntT), Var("y", Ptr("char"))>>),
    Proto("g", Struct("s", 0, <<>>), <<>>)>>
Locals ==
  <<Decls(<<Var("v", Arr("int", <<3>>)), Var("a", IntT), Var("b", IntT), Var("p", Ptr("int"))>>),
    Decls(<<Var("c", Ty("char")), Var("q", Ptr("char"))>>), Decls(<<Var("u", Ty("uint"))>>),
    Decls(<<Var("w", Arr("int", <<2, 3>>))>>),
    Decls(<<Var("k", Struct("s", 0, <<2>>)), Var("t", Struct("s", 0, <<>>)),
            Var("r", Struct("s", 1, <<>>))>>)>>
With(e) == Known_ \o <<Main(Locals \o <<Do(e)>>)>>

a == V("a")
b == V("b")
c == V("c")
BOps == {"||", "&&", "|", "^", "&", "!=", "<", ">>", "+", "-", "*", "/"}
Pairs == {B(o, B(p, a, b), c) : o \in BOps, p \in BOps} \cup {B(o, a, B(p, b, c)) : o \in BOps, p \in BOps}
UOps  == {"-", "~", "!", "*", "&"}
Mixed ==
  {B(o, If3(a, b, c), a) : o \in BOps} \cup {If3(B(o, a, b), B(o, b, c), B(o, c, a)) : o \in BOps}
  \cup {U(o, B("+", a, b)) : o \in UOps} \cup {B("*", U(o, a), b) : o \in UOps}
  \cup {U(o, U("-", a)) : o \in UOps} \cup {U(o, Post(a, "++")) : o \in UOps}
  \cup {Asg(o, x, B("+", a, b)) : o \in {"=", "+=", "-=", "<<=", "&="},
                                  x \in {a, V("u"), At(V("v"), a), Dot(V("t"), "a"), U("*", V("p"))}}
  \cup {If3(a, If3(b, c, a), b), If3(a, b, If3(b, c, a)), If3(If3(a, b, c), a, b),
        Asg("=", a, Asg("=", b, c)), Asg("=", a, If3(b, c, a)), If3(a, Asg("=", b, c), b),
        B(",", Asg("=", a, b), c), Asg("=", a, B(",", b, c)), B(",", B(",", a, b), c),
        Post(U("*", V("p")), "++"), U("*", Post(V("p"), "++")), U("++", U("*", V("p"))),
        U("&", At(V("v"), a)), At(V("w"), K(1)), At(At(V("w"), K(1)), K(2)), At(V("p"), B("+", a, b)),
        CallE("f", <<a, V("q")>>), CallE("f", <<Asg("=", a, b), V("q")>>),
        B("+", CallE("f", <<B("*", a, b), V("q")>>), c), At(V("v"), CallE("f", <<K(1), V("q")>>))}
Members ==
  LET t == V("t")
      r == V("r")
      k == V("k")
      whole == {t, At(k, a), CallE("g", <<>>)}
      ptrs  == {r, Dot(t, "n"), Arrow(r, "n"), Arrow(Dot(At(k, K(1)), "n"), "n"),
                Dot(CallE("g", <<>>), "n")}
      Of(m) == {Dot(x, m) : x \in whole} \cup {Arrow(x, m) : x \in ptrs}
  IN  UNION {Of(m) : m \in {"a", "b", "n"}}
      \cup UNION {{Dot(x, m) : x \in Of("i")} \cup {Arrow(x, m) : x \in Of("j")} : m \in {"a", "b"}}
      \cup {Dot(At(x, a), "a") : x \in Of("j")}
      \cup {At(x, a) : x \in Of("z") \cup Of("j")} \cup {B("+", x, a) : x \in Of("j")}
Bases == {"char", "uchar", "short", "ushort", "int", "uint", "long", "ulong"}
Casts ==
  {To_(ty, x) : ty \in {Type(t, i, <<>>) : t \in Bases, i \in 0 .. 1}, x \in {a, V("u"), V("q"), K(5)}}
  \cup {U("*", To_(Ptr(t), V("q"))) : t \in Bases} \cup {At(To_(Ptr(t), V("q")), a) : t \in Bases}
  \cup {To_(Ty(t), B("+", a, b)) : t \in Bases} \cup {B("+", To_(Ty(t), a), b) : t \in Bases}
  \cup {To_(Ty(t), U("-", a)) : t \in Bases}
  \cup {To_(Ty("char"), K(300)), To_(Ty("char"), K(200)), To_(Ty("short"), K(70000)),
        To_(Ty("short"), K(40000)), To_(Ty("uchar"), K(200))}
Sizes ==
  {SizeT(Type(t, i, <<>>)) : t \in Bases, i \in 0 .. 2}
  \cup {SizeT(Struct("s", i, <<>>)) : i \in 0 .. 1}
  \cup {SizeE(V(x)) : x \in {"a", "c", "p", "q", "v", "w", "u", "t", "r", "k"}}
  \cup {SizeE(At(V(x), K(0))) : x \in {"v", "w", "k"}}
ExprPrograms == {Plain(e) : e \in Pairs} \cup {With(e) : e \in Mixed \cup Members \cup Casts \cup Sizes}

-----------------------------------------------------------------------------
(* Structures of every sequence of up to three members of these types.     *)
MemberTypes == {Ty("char"), Ty("short"), Ty("int"), Ty("long"), Ptr("char"), Arr("char", <<3>>),
                Arr("int", <<3>>), Ty("fptr"), Struct("o", 0, <<2>>)}
Outer == StructD("o", <<Field("d", Ty("long")), Field("e", Ty("char"))>>)
FieldName(i) == <<"x", "y", "z">>[i]
Layouts == UNION {[1 .. n -> MemberTypes] : n \in 1 .. 3}
LayoutProgram(L) ==
  <<Outer, StructD("s", [i \in DOMAIN L |-> Field(FieldName(i), L[i])]),
    Decls(<<Var("v", Struct("s", 0, <<>>))>>), Decls(<<Var("w", Struct("s", 0, <<2>>))>>),
    Func("main", IntT, <<Var("r", Struct("s", 1, <<>>))>>,
         <<Decls(<<Var("l", Struct("s", 0, <<>>))>>),
           Do(Dot(V("l"), FieldName(Len(L)))), Do(Arrow(V("r"), FieldName(Len(L)))),
           Do(SizeT(Struct("s", 0, <<>>)))>>)>>
LayoutPrograms == {LayoutProgram(L) : L \in Layouts}

(* Declarations, of the file and of a function.                            *)
VarTypes == {Type(t, i, d) : t \in {"char", "short", "int", "long"}, i \in 0 .. 2, d \in {<<>>, <<3>>, <<2, 3>>}}
            \cup {Struct("o", i, d) : i \in 0 .. 1, d \in {<<>>, <<2>>}} \cup {Ty("fptr")}
Same_(x, y) == x.b = y.b /\ x.tag = y.tag
Pairs_(dims) == {<<x, y>> \in VarTypes \X VarTypes : Same_(x, y) /\ x.b # "fptr" /\ (dims \/ y.dims = <<>>)}
DeclProgram(g, l) ==
  <<Outer, Decls(<<Var("x", g[1]), Var("y", g[2])>>),
    Main(<<Decls(<<Var("p", l[1]), Var("q", l[2])>>)>>)>>
(* In a function only the first variable of a declaration is an array.     *)
Bare(ty) == [ty EXCEPT !.dims = <<>>]
PairPrograms == {DeclProgram(g, <<g[1], Bare(g[2])>>) : g \in Pairs_(TRUE)}

(* Initialisers, of the file and of a function.                            *)
Braces(is) == Tree("braces", is)
Str(n) == [Tree("str", <<>>) EXCEPT !.v = n]
Ks(n)  == Braces([i \in 1 .. n |-> K(i)])
Scalars == {Set("x", Ty(t), K(7)) : t \in {"char", "short", "int", "long"}} \cup {Set("x", Ptr("char"), Str(3))}
Arrays == {Set("x", Arr(t, <<n>>), Ks(3)) : t \in {"char", "short", "int", "long"}, n \in {0, 3}}
          \cup {Set("x", Type("char", 1, <<n>>), Braces(<<Str(1), Str(2)>>)) : n \in {0, 2}}
InitPrograms ==
  {<<Decls(<<d, Var("y", Bare(d.ty))>>), Main(<<>>)>> : d \in Scalars \cup {e \in Arrays : e.ty.ptr = 0}}
  \cup {<<Outer, Main(<<Decls(<<d, Var("y", Bare(d.ty))>>), Do(SizeT(IntT))>>)>>
           : d \in Scalars \cup Arrays \cup {Set("x", Arr("char", <<n>>), Str(3)) : n \in {0, 4}}
                    \cup {Set("x", Struct("o", 0, <<>>), Ks(2))}}
DeclPrograms == PairPrograms \cup InitPrograms

(* Names of types, enumerations, and what else a file may have.            *)
NamedT(n, p) == Called(n, p, <<>>)
Two == <<Field("x", Ty("char")), Field("y", Ty("long"))>>
Def(n, ty) == TypedefD(n, ty, <<>>)
TypedefPrograms ==
  {<<Outer, Def("T", ty), Def("P", NamedT("T", 1)), Decls(<<Var("g", NamedT("T", 0)), Var("h", NamedT("T", 1))>>),
     Main(<<Decls(<<Var("x", NamedT("T", 0)), Var("y", NamedT("T", 1))>>), Decls(<<Var("z", Called("T", 0, <<3>>))>>),
            Decls(<<Var("p", NamedT("P", 0))>>), Do(SizeT(NamedT("T", 0))), Do(SizeT(NamedT("P", 0)))>>)>>
     : ty \in {Ty("char"), Ty("short"), Ty("long"), Struct("o", 0, <<>>)}}
  \cup {<<Outer, Def("T", ty), Main(<<Decls(<<Var("x", NamedT("T", 0))>>), Decls(<<Var("z", Called("T", 0, <<3>>))>>),
                                    Do(SizeT(NamedT("T", 0)))>>)>>
          : ty \in {Ptr("char"), Ptr("int"), Struct("o", 1, <<>>)}}
  \cup {<<TypedefD("T", Struct(tag, 0, <<>>), Two), Def("P", NamedT("T", 1)),
          Func("main", IntT, <<Var("r", NamedT("T", 1))>>,
               <<Decls(<<Var("x", NamedT("T", 0))>>), Decls(<<Var("y", Called("T", 0, <<2>>))>>),
                 Decls(<<Var("s", NamedT("P", 0))>>), Do(Arrow(V("r"), m)), Do(Arrow(V("s"), m)),
                 Do(Dot(V("x"), m)), Do(Dot(At(V("y"), K(1)), m)),
                 Do(SizeE(V("x"))), Do(SizeE(V("y"))), Do(SizeT(NamedT("T", 0)))>>)>>
         : tag \in {"s", "", "T"}, m \in {"x", "y"}}
EnumPrograms ==
  {<<EnumD(<<EnumItem("A", i), EnumItem("B", j), EnumItem("C", <<>>)>>),
     Main(<<Decls(<<Var("x", IntT)>>), Tree("switch", <<V("x"), Tree("case", <<V("B")>>), Do(V("A")),
                                                        Tree("case", <<V("C")>>), Tree("default", <<>>)>>),
            Decls(<<Set("y", IntT, B("+", V("B"), V("C")))>>)>>)>>
     : i \in {<<>>, <<K(5)>>, <<B("<<", K(1), K(4))>>, <<SizeT(Ptr("char"))>>, <<U("-", K(2))>>},
       j \in {<<>>, <<K(3)>>, <<B("*", V("A"), K(2))>>, <<B("+", V("A"), K(1))>>}}
OtherPrograms ==
  {<<Tree("asm", <<>>), Main(<<Tree("asm", <<>>)>>)>>,
   <<Tree("extern", <<Decls(<<Var("x", IntT)>>)>>), Decls(<<Var("y", IntT)>>), Main(<<>>)>>}
TypePrograms == TypedefPrograms \cup EnumPrograms \cup OtherPrograms

-----------------------------------------------------------------------------
(* Statements within statements.                                           *)
None_ == Tree("none", <<>>)
Asgn == Asg("=", a, b)
Leaves == {Do(Asgn), Tree("break", <<>>), Tree("continue", <<>>), Tree("empty", <<>>), Tree("return", <<a>>),
           Tree("return", <<None_>>), Tree("block", <<>>), [Tree("goto", <<>>) EXCEPT !.n = "L"]}
Loop(i, e, x, s) == Tree("for", <<i, e, x, s>>)
Around(s) ==
  {Tree("if", <<a, s, None_>>), Tree("if", <<a, Do(Asgn), s>>), Tree("if", <<a, Tree("block", <<s>>), Do(b)>>),
   Tree("while", <<B("<", a, b), s>>), Tree("do", <<s, a>>), Tree("block", <<s, Do(Asgn)>>),
   Loop(Do(Asgn), B("<", a, b), Post(a, "++"), s), Loop(None_, None_, None_, s),
   Loop(Decls(<<Set("i", IntT, K(0))>>), V("i"), B(",", Asgn, Post(V("i"), "++")), s),
   Tree("switch", <<a, Tree("case", <<K(1)>>), s, Do(b), Tree("default", <<>>), s>>)}
Nested == UNION {Around(s) : s \in Leaves}
Deep   == UNION {Around(s) : s \in Nested}
StmtProgram(s) ==
  <<Main(<<Decls(<<Var("a", IntT), Var("b", IntT)>>), s, [Tree("label", <<>>) EXCEPT !.n = "L"], Do(Asgn)>>)>>
StmtPrograms == {StmtProgram(s) : s \in Leaves \cup Nested \cup Deep}

-----------------------------------------------------------------------------
(* Programs that are also read with a bracket missing.                     *)
CutBodies == {<<s>> : s \in Around(Tree("block", <<Do(Asgn)>>))}
             \cup {<<Decls(<<Set("v", Arr("int", <<3>>), Ks(3))>>)>>,
                   <<Do(At(a, CallE("f", <<B("*", B("+", a, b), a)>>)))>>,
                   <<Do(SizeT(Ptr("int"))), Do(To_(Ptr("char"), a)), Do(SizeE(V("a")))>>,
                   <<Tree("asm", <<>>)>>}
CutPrograms ==
  {<<Main(<<Decls(<<Var("a", IntT), Var("b", IntT)>>)>> \o c0), Proto("f", IntT, <<Var("x", IntT)>>)>> : c0 \in CutBodies}
  \cup {<<Outer, Decls(<<Set("x", Arr("int", <<2>>), Ks(2))>>), Proto("f", IntT, <<Var("x", IntT)>>),
          Decls(<<Var("p", Ty("fptr"))>>), Main(<<>>)>>}
Brackets == {"(", ")", "{", "}", "[", "]"}
(* The end of a list of parameters and of an initialiser of the file:      *)
(* without it the parser does not end.                                     *)
NeverEnds(p, i) ==
  LET t == ProgramText(p)
  IN  /\ i > 1
      /\ \/ t[i].t = ")" /\ (t[i - 1].t = "void" \/ t[i - 1] = Id("x"))
         \/ t[i].t = "}" /\ t[i - 1].t = "num" /\ p[1] = Outer
BracketsOf(p) == {i \in DOMAIN ProgramText(p) : ProgramText(p)[i].t \in Brackets}
CutAt(p, I) == {[p |-> p, cut |-> i] : i \in I}
MCCuts == UNION {CutAt(p, {i \in BracketsOf(p) : ~NeverEnds(p, i)}) : p \in CutPrograms}
MCHangs == UNION {CutAt(p, {i \in BracketsOf(p) : NeverEnds(p, i)}) : p \in CutPrograms}

Whole(P) == {[p |-> p, cut |-> 0] : p \in P}
MCPrograms == Whole(ExprPrograms) \cup Whole(LayoutPrograms) \cup Whole(DeclPrograms) \cup Whole(TypePrograms)
              \cup Whole(StmtPrograms) \cup MCCuts
=============================================================================
