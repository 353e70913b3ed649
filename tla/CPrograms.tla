--------------------------------- MODULE CPrograms ---------------------------------
(***************************************************************************)
(* What C says of a source file: the text of a program and the tree the    *)
(* grammar gives it, with the sizes, offsets and constants the types give. *)
(* Written from C, not from the parser.                                    *)
(*                                                                         *)
(* A program is a sequence of trees [k, op, n, v, ty, c].  A type is a     *)
(* base (a word, or a structure's tag), stars and dimensions.              *)
(***************************************************************************)
EXTENDS Integers, Sequences, FiniteSets, SequencesExt, ParseTables

Type(b, ptr, dims) == [b |-> b, tag |-> "", ptr |-> ptr, dims |-> dims]
Called(x, ptr, dims) == [b |-> "named", tag |-> x, ptr |-> ptr, dims |-> dims]
Struct(tag, ptr, dims) == [b |-> "struct", tag |-> tag, ptr |-> ptr, dims |-> dims]
IntT == Type("int", 0, <<>>)
Tree(k, c) == [k |-> k, op |-> "", n |-> "", v |-> 0, ty |-> IntT, c |-> c]

-----------------------------------------------------------------------------
(* Sizes and layout.  tags: the structures, with fields [n, ty], and the   *)
(* names of types, with the type ty, each defined by earlier ones.         *)
BaseSize == [b \in {"char", "uchar", "short", "ushort", "int", "uint", "long", "ulong", "fptr"} |->
               CASE b \in {"char", "uchar"} -> 1 [] b \in {"short", "ushort"} -> 2
                 [] b \in {"int", "uint"} -> 4 [] OTHER -> 8]
Product(s) == FoldLeft(LAMBDA a, b : a * b, 1, s)
Scalar(ty)   == ty.ptr = 0 /\ ty.dims = <<>> /\ ty.b \notin {"struct", "fptr"}
Unsigned(ty) == Scalar(ty) /\ ty.b \in {"uchar", "ushort", "uint", "ulong"}
Deref(ty)    == IF ty.dims # <<>> THEN [ty EXCEPT !.dims = Tail(@)] ELSE [ty EXCEPT !.ptr = @ - 1]

RECURSIVE SizeofC(_, _), AlignC(_, _), OffsetC(_, _, _), Resolved(_, _)
Multiple(n, a) == CHOOSE m \in n .. n + a : m % a = 0
Entry(tags, k, x) == CHOOSE t \in Range(tags) : t.k = k /\ t.n = x
Fields(tags, tag) == Entry(tags, "struct", tag).fields
(* What a name of a type stands for.                                       *)
Resolved(tags, ty) ==
  LET t == Resolved(tags, Entry(tags, "typedef", ty.tag).ty)
  IN  IF ty.b = "named" THEN [t EXCEPT !.ptr = @ + ty.ptr, !.dims = ty.dims \o @] ELSE ty
SizeofC(tags, raw) ==
  LET ty == Resolved(tags, raw)
      F == Fields(tags, ty.tag)
      one == IF ty.ptr > 0 THEN 8
             ELSE IF ty.b = "struct"
             THEN Multiple(OffsetC(tags, F, Len(F)) + SizeofC(tags, F[Len(F)].ty), AlignC(tags, ty))
             ELSE BaseSize[ty.b]
  IN  Product(ty.dims) * one
AlignC(tags, raw) ==
  LET ty == Resolved(tags, raw)
  IN
  IF ty.ptr = 0 /\ ty.b = "struct"
  THEN LET A == {AlignC(tags, f.ty) : f \in Range(Fields(tags, ty.tag))}
       IN  CHOOSE a \in A : \A b \in A : b <= a
  ELSE SizeofC(tags, [ty EXCEPT !.dims = <<>>])
OffsetC(tags, F, i) ==
  IF i = 1 THEN 0
  ELSE Multiple(OffsetC(tags, F, i - 1) + SizeofC(tags, F[i - 1].ty), AlignC(tags, F[i].ty))
FieldNo(F, m) == CHOOSE i \in DOMAIN F : F[i].n = m

-----------------------------------------------------------------------------
(* The text, with as few parentheses as the grammar of C allows.           *)
Words(s) == [i \in DOMAIN s |-> Tk(s[i])]
Kw(s)    == <<Tk(s)>>
BaseText(ty) ==
  CASE ty.b = "struct" -> <<Tk("struct"), Id(ty.tag)>>
    [] ty.b = "named"  -> <<Id(ty.tag)>>
    [] ty.b = "uchar"  -> Words(<<"unsigned", "char">>)
    [] ty.b = "ushort" -> Words(<<"unsigned", "short">>)
    [] ty.b = "uint"   -> Words(<<"unsigned", "int">>)
    [] ty.b = "ulong"  -> Words(<<"unsigned", "long">>)
    [] ty.b = "fptr"   -> Kw("int")
    [] OTHER           -> Kw(ty.b)
Stars(n) == [i \in 1 .. n |-> Tk("*")]
(* A first dimension 0 is left out: the initialiser gives it.              *)
DimText(ty) == FoldLeft(LAMBDA a, d : a \o Kw("[") \o (IF d = 0 THEN <<>> ELSE <<Lit(d)>>) \o Kw("]"),
                        <<>>, ty.dims)
DeclaratorText(ty, x) ==
  IF ty.b = "fptr" THEN Words(<<"(", "*">>) \o <<Id(x)>> \o Words(<<")", "(", "int", ")">>)
  ELSE Stars(ty.ptr) \o <<Id(x)>> \o DimText(ty)
TypeText(ty) == BaseText(ty) \o Stars(ty.ptr)

Precedences == <<{","}, {"="}, {"?"}, {"||"}, {"&&"}, {"|"}, {"^"}, {"&"}, {"==", "!="},
                 {"<", ">", "<=", ">="}, {"<<", ">>"}, {"+", "-"}, {"*", "/", "%"}>>
PrecOf(o) == CHOOSE i \in DOMAIN Precedences : o \in Precedences[i]
Prec(e) ==
  CASE e.k = "binop" /\ e.op # "[]" -> PrecOf(e.op)
    [] e.k = "assign" -> 2 [] e.k = "cond" -> 3
    [] e.k \in {"unary", "cast", "sizeoft", "sizeofe"} -> 14
    [] e.k \in {"const", "var", "str"} -> 16
    [] OTHER -> 15

Bracketed(o, s, c) == Kw(o) \o s \o Kw(c)
(* s_1 , s_2 , ...                                                         *)
Commas(ss) == IF ss = <<>> THEN <<>>
              ELSE FoldLeft(LAMBDA a, s : a \o Kw(",") \o s, ss[1], Tail(ss))
RECURSIVE Text(_, _)
ExprText(e) ==
  LET a == Text(e.c[1], 1)
      Op(l, r) == Text(e.c[1], l) \o Kw(e.op) \o Text(e.c[2], r)
  IN  CASE e.k = "const"   -> <<Lit(e.v)>>
        [] e.k = "var"     -> <<Id(e.n)>>
        [] e.k = "str"     -> <<Quote(e.v)>>
        [] e.k = "binop" /\ e.op = "[]" -> Text(e.c[1], 15) \o Bracketed("[", Text(e.c[2], 1), "]")
        [] e.k = "binop" /\ e.op # "[]" -> Op(Prec(e), Prec(e) + 1)
        [] e.k = "assign"  -> Op(14, 2)
        [] e.k = "cond"    -> Text(e.c[1], 4) \o Kw("?") \o Text(e.c[2], 1) \o Kw(":")
                              \o Text(e.c[3], 3)
        [] e.k = "unary"   -> Kw(e.op) \o Text(e.c[1], 14)
        [] e.k = "postfix" -> Text(e.c[1], 15) \o Kw(e.op)
        [] e.k = "cast"    -> Bracketed("(", TypeText(e.ty), ")") \o Text(e.c[1], 14)
        [] e.k = "sizeoft" -> Kw("sizeof") \o Bracketed("(", TypeText(e.ty), ")")
        [] e.k = "sizeofe" -> Kw("sizeof") \o (IF e.op = "bare" THEN Text(e.c[1], 14)
                                               ELSE Bracketed("(", a, ")"))
        [] e.k = "member"  -> Text(e.c[1], 15) \o Kw(e.op) \o <<Id(e.n)>>
        [] e.k = "call"    -> Text(e.c[1], 15) \o
             Bracketed("(", Commas([i \in 1 .. Len(e.c) - 1 |-> Text(e.c[i + 1], 2)]), ")")
Text(e, min) == IF Prec(e) < min THEN Bracketed("(", ExprText(e), ")") ELSE ExprText(e)

RECURSIVE InitText(_), StmtText(_)
InitText(i) == IF i.k = "braces" THEN Bracketed("{", Commas([j \in DOMAIN i.c |-> InitText(i.c[j])]), "}")
               ELSE Text(i, 2)
VarText(d) == DeclaratorText(d.ty, d.n) \o (IF d.c = <<>> THEN <<>> ELSE Kw("=") \o InitText(d.c[1]))
(* One declaration of several variables.                                   *)
DeclsText(ds) == BaseText(ds[1].ty) \o Commas([i \in DOMAIN ds |-> VarText(ds[i])]) \o Kw(";")
FieldText(f)  == BaseText(f.ty) \o DeclaratorText(f.ty, f.n) \o Kw(";")
StructText(t) == Kw("struct") \o (IF t.n = "" THEN <<>> ELSE <<Id(t.n)>>)
                 \o Bracketed("{", FlattenSeq([i \in DOMAIN t.fields |-> FieldText(t.fields[i])]), "}")
EnumText(t)   == Kw("enum") \o Bracketed("{", Commas([i \in DOMAIN t.c |->
                   <<Id(t.c[i].n)>> \o (IF t.c[i].c = <<>> THEN <<>>
                                        ELSE Kw("=") \o Text(t.c[i].c[1], 2))]), "}")
Opt(e, min) == IF e.k = "none" THEN <<>> ELSE Text(e, min)
Body(c) == FlattenSeq([i \in DOMAIN c |-> StmtText(c[i])])
StmtText(s) ==
  LET cond == Bracketed("(", Text(s.c[1], 1), ")")
  IN  CASE s.k = "expr"    -> Text(s.c[1], 1) \o Kw(";")
        [] s.k = "return"  -> Kw("return") \o Opt(s.c[1], 1) \o Kw(";")
        [] s.k = "if"      -> Kw("if") \o cond \o StmtText(s.c[2])
                              \o (IF s.c[3].k = "none" THEN <<>> ELSE Kw("else") \o StmtText(s.c[3]))
        [] s.k = "while"   -> Kw("while") \o cond \o StmtText(s.c[2])
        [] s.k = "do"      -> Kw("do") \o StmtText(s.c[1]) \o Kw("while")
                              \o Bracketed("(", Text(s.c[2], 1), ")") \o Kw(";")
        [] s.k = "for"     -> Words(<<"for", "(">>)
                              \o (IF s.c[1].k = "none" THEN Kw(";") ELSE StmtText(s.c[1]))
                              \o Opt(s.c[2], 1) \o Kw(";") \o Opt(s.c[3], 1) \o Kw(")") \o StmtText(s.c[4])
        [] s.k = "switch"  -> Kw("switch") \o cond \o Bracketed("{", Body(Tail(s.c)), "}")
        [] s.k = "block"   -> Bracketed("{", Body(s.c), "}")
        [] s.k = "case"    -> Kw("case") \o Text(s.c[1], 3) \o Kw(":")
        [] s.k = "default" -> Words(<<"default", ":">>)
        [] s.k = "label"   -> <<Id(s.n), Tk(":")>>
        [] s.k = "goto"    -> <<Tk("goto"), Id(s.n), Tk(";")>>
        [] s.k = "decls"   -> DeclsText(s.c)
        [] s.k = "typedef" -> Kw("typedef") \o (IF s.fields = <<>> THEN BaseText(s.ty)
                                                ELSE StructText([s EXCEPT !.n = s.ty.tag]))
                              \o DeclaratorText(s.ty, s.n) \o Kw(";")
        [] s.k = "struct"  -> StructText(s) \o Kw(";")
        [] s.k = "enum"    -> EnumText(s) \o Kw(";")
        [] s.k = "asm"     -> Words(<<"asm", "(">>) \o <<Quote(s.v)>> \o Words(<<")", ";">>)
        [] s.k = "extern"  -> <<Tk("extern"), Quote(1)>> \o Bracketed("{", Body(s.c), "}")
        [] s.k = "empty"   -> Kw(";")
        [] s.k = "func"    -> BaseText(s.ty) \o Stars(s.ty.ptr) \o <<Id(s.n)>>
                              \o Bracketed("(", IF s.ps = <<>> THEN Kw("void")
                                   ELSE Commas([i \in DOMAIN s.ps |-> BaseText(s.ps[i].ty)
                                                  \o DeclaratorText(s.ps[i].ty, s.ps[i].n)]), ")")
                              \o (IF s.op = "proto" THEN Kw(";") ELSE Bracketed("{", Body(s.c), "}"))
        [] OTHER           -> Kw(s.k) \o Kw(";")
ProgramText(p) == Body(p)

-----------------------------------------------------------------------------
(* The meaning.  G: the types of the names, the structures, the values of  *)
(* the enumeration.  X: a node that must have kind k, the fields f and     *)
(* children c.                                                             *)
X(k, f, c) == [k |-> k, f |-> f, c |-> c]
None == Tree("none", <<>>)
NoX  == X("null", <<>>, <<>>)

RECURSIVE TypeOf(_, _)
TypeOf(G, e) ==
  CASE e.k \in {"var", "call"} -> G.v[IF e.k = "var" THEN e.n ELSE e.c[1].n]
    [] e.k = "binop" /\ e.op = "[]" -> Deref(TypeOf(G, e.c[1]))
    [] e.k = "unary" /\ e.op = "*"  -> Deref(TypeOf(G, e.c[1]))
    [] e.k = "unary" /\ e.op = "&"  -> [TypeOf(G, e.c[1]) EXCEPT !.ptr = @ + 1]
    [] e.k = "cast"   -> Resolved(G.tags, e.ty)
    [] e.k = "member" -> LET F == Fields(G.tags, TypeOf(G, e.c[1]).tag) IN Resolved(G.tags, F[FieldNo(F, e.n)].ty)
    [] OTHER -> IntT

(* The value of a constant converted to a type of that many bits.          *)
Convert(v, ty) ==
  LET m == v % 2^(8 * BaseSize[ty.b])
  IN  IF BaseSize[ty.b] >= 4 THEN v
      ELSE IF Unsigned(ty) \/ 2 * m < 2^(8 * BaseSize[ty.b]) THEN m ELSE m - 2^(8 * BaseSize[ty.b])

RECURSIVE Meaning(_, _), ConstOf(_, _)
ConstX(v) == X("const", [v |-> v], <<>>)
Meanings(G, c) == [i \in DOMAIN c |-> Meaning(G, c[i])]
ConstOf(G, e) ==
  LET a == ConstOf(G, e.c[1])
      b == ConstOf(G, e.c[2])
  IN  CASE e.k = "const" -> e.v [] e.k = "var" -> G.e[e.n]
        [] e.k = "unary" -> (IF e.op = "-" THEN -a ELSE a)
        [] e.k = "sizeoft" -> SizeofC(G.tags, e.ty)
        [] e.op = "+" -> a + b [] e.op = "-" -> a - b [] e.op = "*" -> a * b [] e.op = "<<" -> a * 2^b
CastX(G, e) ==
  LET x  == Meaning(G, e.c[1])
      ty == Resolved(G.tags, e.ty)
      f  == IF Scalar(ty) THEN [sz |-> SizeofC(G.tags, ty), u |-> Unsigned(ty)]
            ELSE [el |-> SizeofC(G.tags, Deref(ty))]
      g  == IF x.k = "const" /\ Scalar(ty) THEN [v |-> Convert(x.f.v, ty)] ELSE <<>>
  IN  [x EXCEPT !.f = f @@ g @@ [h \in DOMAIN @ \ {"u"} |-> @[h]]]
(* The size of what a pointer or an array has elements of.                *)
Elements(G, ty) ==
  IF ty.ptr > 0 \/ Product(ty.dims) > 1 THEN [el |-> SizeofC(G.tags, Deref(ty))] ELSE <<>>
MemberX(G, e) ==
  LET F == Fields(G.tags, TypeOf(G, e.c[1]).tag)
      i == FieldNo(F, e.n)
  IN  X("member", [op |-> e.op, m |-> e.n, v |-> OffsetC(G.tags, F, i), sz |-> SizeofC(G.tags, F[i].ty)],
        Meanings(G, e.c))
(* A member that is indexed or added to steps by its elements.             *)
Stepped(G, e, x) == IF e.k = "member" THEN [x EXCEPT !.f = Elements(G, TypeOf(G, e)) @@ @] ELSE x
Meaning(G, e) ==
  LET c == Meanings(G, e.c)
  IN  CASE e.k = "const"   -> ConstX(e.v)
        [] e.k = "str"     -> X("str", [v |-> e.v], <<>>)
        [] e.k = "sizeoft" -> ConstX(SizeofC(G.tags, e.ty))
        [] e.k = "sizeofe" -> ConstX(SizeofC(G.tags, TypeOf(G, e.c[1])))
        [] e.k = "cast"    -> CastX(G, e)
        [] e.k = "member"  -> MemberX(G, e)
        [] e.k = "call"    -> X("call", <<>>, c)
        [] e.k = "cond"    -> X("cond", <<>>, c)
        [] e.k = "var" -> IF e.n \in DOMAIN G.e THEN ConstX(G.e[e.n])
                          ELSE X("var", [n |-> e.n] @@ (IF Scalar(G.v[e.n]) THEN [u |-> Unsigned(G.v[e.n])]
                                                        ELSE <<>>), <<>>)
        [] e.k = "assign" /\ e.op # "=" ->
             X("assign", [op |-> "="],
               <<c[1], X("binop", [op |-> CHOOSE o \in UNION Range(Precedences) : o \o "=" = e.op],
                         <<[c[1] EXCEPT !.f = [g \in DOMAIN @ \ {"u"} |-> @[g]]], c[2]>>)>>)
        [] e.k = "none" -> NoX
        [] e.op \in {"[]", "+", "-"} -> X(e.k, [op |-> e.op], <<Stepped(G, e.c[1], c[1])>> \o Tail(c))
        [] OTHER -> X(e.k, [op |-> e.op], c)

(* A declaration of variables: what each takes and what it is set to.      *)
RECURSIVE InitX(_, _)
InitX(G, i) == IF i.k = "braces" THEN FlattenSeq([j \in DOMAIN i.c |-> InitX(G, i.c[j])])
               ELSE <<Meaning(G, i)>>
Completed(d) ==
  IF d.ty.dims = <<>> \/ d.ty.dims[1] # 0 THEN d.ty
  ELSE [d.ty EXCEPT !.dims[1] = IF d.c[1].k = "str" THEN d.c[1].v + 1 ELSE Len(d.c[1].c)]
DeclX(G, d) ==
  X("decl", [n |-> d.n, v |-> SizeofC(G.tags, Completed(d))]
            @@ Elements(G, Resolved(G.tags, Completed(d))),
    IF d.c = <<>> THEN <<>> ELSE InitX(G, d.c[1]))
Decayed(ty) == IF ty.dims = <<>> THEN ty ELSE [ty EXCEPT !.dims = <<>>, !.ptr = @ + 1]
WithVars(G, ds) == [G EXCEPT !.v = [x \in {d.n : d \in Range(ds)} |->
                                      Resolved(G.tags, Completed(CHOOSE d \in Range(ds) : d.n = x))] @@ @]

RECURSIVE EnumOf(_, _, _), StmtsX(_, _), StmtX(_, _)
EnumOf(G, c, v) ==
  IF c = <<>> THEN G
  ELSE LET w == IF c[1].c = <<>> THEN v ELSE ConstOf(G, c[1].c[1])
       IN  EnumOf([G EXCEPT !.e = (c[1].n :> w) @@ @], Tail(c), w + 1)
(* What a declaration adds to what is known.                               *)
Known(G, s) ==
  CASE s.k = "decls"  -> WithVars(G, s.c)
    [] s.k = "func"   -> WithVars(G, <<s>>)
    [] s.k = "struct" -> [G EXCEPT !.tags = Append(@, s)]
    [] s.k = "typedef" ->
         [G EXCEPT !.tags = @ \o (IF s.fields = <<>> THEN <<>>
                                  ELSE <<[s EXCEPT !.k = "struct", !.n = s.ty.tag]>>) \o <<s>>]
    [] s.k = "enum"   -> EnumOf(G, s.c, 0)
    [] OTHER          -> G
StmtX(G, s) ==
  CASE s.k = "decls" -> [i \in DOMAIN s.c |-> DeclX(WithVars(G, s.c), s.c[i])]
    [] s.k \in {"struct", "typedef", "enum", "extern"} -> <<>>
    [] s.k = "func" /\ s.op = "proto" -> <<>>
    [] s.k = "func" /\ s.op # "proto" ->
         LET ps == [i \in DOMAIN s.ps |-> [s.ps[i] EXCEPT !.ty = Decayed(@)]]
             H  == WithVars(WithVars(G, <<s>>), ps)
         IN  <<X("func", [n |-> s.n, v |-> Len(ps)],
                 [i \in DOMAIN ps |-> DeclX(G, ps[i])] \o StmtsX(H, s.c))>>
    [] s.k = "block" -> <<X("block", <<>>, StmtsX(G, s.c))>>
    [] s.k = "switch" -> <<X("switch", <<>>, <<Meaning(G, s.c[1])>> \o StmtsX(G, Tail(s.c)))>>
    [] s.k = "case" -> <<X("case", [v |-> ConstOf(G, s.c[1]), sz |-> ConstOf(G, s.c[1])], <<>>)>>
    [] s.k \in {"label", "goto"} -> <<X(s.k, [n |-> s.n], <<>>)>>
    [] s.k \in {"if", "while", "do", "for"} ->
         LET H == IF s.c[1].k = "decls" THEN WithVars(G, s.c[1].c) ELSE G
             Sub(t) == IF t.k \in {"expr", "block", "if", "while", "do", "for", "switch", "return", "decls",
                                   "break", "continue", "goto", "empty"}
                       THEN StmtX(H, t)[1] ELSE Meaning(H, t)
         IN  <<X(s.k, <<>>, [i \in DOMAIN s.c |-> Sub(s.c[i])])>>
    [] OTHER -> <<X(s.k, <<>>, Meanings(G, s.c))>>
StmtsX(G, c) == IF c = <<>> THEN <<>> ELSE StmtX(G, c[1]) \o StmtsX(Known(G, c[1]), Tail(c))
ProgramX(p) == StmtsX([v |-> <<>>, e |-> <<>>, tags |-> <<>>], p)

-----------------------------------------------------------------------------
(* break, continue, case and default stand where C wants them.             *)
RECURSIVE Placed(_, _, _)
Placed(s, loop, switch) ==
  CASE s.k = "break"    -> loop \/ switch
    [] s.k = "continue" -> loop
    [] s.k \in {"case", "default"} -> switch
    [] s.k \in {"while", "for", "do"} -> \A i \in DOMAIN s.c : Placed(s.c[i], TRUE, switch)
    [] s.k = "switch"   -> \A i \in DOMAIN s.c : Placed(s.c[i], loop, TRUE)
    [] OTHER            -> \A i \in DOMAIN s.c : Placed(s.c[i], loop, switch)
=============================================================================
