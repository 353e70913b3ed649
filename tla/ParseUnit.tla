--------------------------------- MODULE ParseUnit ---------------------------------
(***************************************************************************)
(* parse.c: parameters, initialisers of the file level and parse_program,  *)
(* a step of which reads one declaration of the file.                      *)
(*                                                                         *)
(* A function is a node of kind func: name n, parameters v, size of what   *)
(* it returns sz, children the declarations of its parameters and then     *)
(* its statements; arr says that it is variadic and op that it is static.  *)
(* An item of an initialiser is its value; a string has none here.         *)
(***************************************************************************)
EXTENDS Parser, CPrograms

-----------------------------------------------------------------------------
(* parse_parameter_list: the declarations in ms, n is variadic or not.     *)
(* [] makes a pointer.  A loop that reads nothing never ends: stuck.       *)
ParamNode(x, sz, psz, ptr, u) ==
  [New("decl") EXCEPT !.n = x, !.v = sz, !.sz = sz, !.u = u,
                      !.el = IF ptr > 1 THEN 8 ELSE IF ptr = 1 THEN psz ELSE 0]

ParamTag(S, tag) ==
  LET i == IF Kind(S) # "id" THEN 0
           ELSE StructTypedef(S, Peek(S).n)
  IN  IF tag # "" THEN tag ELSE IF i = 0 THEN "" ELSE S.tdefs[i].name
Variadic(S, b) == Ret(S, [Null EXCEPT !.arr = b])

DeclareParam(S, d, tag) ==
  LET A == PvarAdd(S, d.n, tag, d.u, d.sz)
  IN  IF d.n = "" THEN S ELSE IF tag = "" THEN A ELSE SetStruct(A, d.n, ResolveStruct(S, tag))
ParamsEnd(S, ds, more) == [Variadic(Expect(S, ")"), more) EXCEPT !.ms = ds]

RECURSIVE Params(_, _)
NextParam(S, p, ds) == IF S.p = p THEN [S EXCEPT !.stuck = TRUE] ELSE Params(S, ds)
AddParam(S, d, p, ds) ==
  NextParam(Match(DeclareParam(S, d, ParamTag(S, S.ltag)), ","), p, IF d.n = "" THEN ds ELSE Append(ds, d))
SizeParam(S, x, ts, ptr, p, ds) ==
  AddParam(S, ParamNode(x, IF ptr > 0 THEN 8 ELSE Min1(ts, 4), ts, ptr, ptr = 0 /\ S.uns), p, ds)
NameParam(D, ts, p, ds) ==
  SizeParam(ArraySuffixes(D), D.n.n, ts, D.z + (IF Kind(D) = "[" THEN 1 ELSE 0), p, ds)
TypeParam(T, p, ds) == NameParam(Declarator(T), T.z, p, ds)
Params(S, ds) ==
  LET Q == SkipQuals(S)
      V == Consume(Q)
  IN  CASE Kind(S) \in {")", "eof"} -> ParamsEnd(S, ds, FALSE)
        [] Kind(S) = "..." -> ParamsEnd(Consume(S), ds, TRUE)
        [] Kind(Q) = "void" /\ Kind(V) = ")" -> ParamsEnd(V, ds, FALSE)
        [] Kind(Q) = "void" /\ Kind(V) = "," -> Params(Consume(V), ds)
        [] OTHER -> TypeParam(IF Kind(Q) = "void" THEN [RetSz(V, 0) EXCEPT !.uns = FALSE]
                              ELSE ParseType(Q), S.p, ds)
ParameterList(S) ==
  IF Kind(S) # "(" THEN [Variadic(S, FALSE) EXCEPT !.ms = <<>>] ELSE Params(Consume(S), <<>>)

-----------------------------------------------------------------------------
(* parse_one_init, parse_init_list: the items in ms, the number of         *)
(* elements of the outermost list in z.                                    *)
OneInit(S) == IF Kind(S) = "str" THEN Ret(Consume(S), Null) ELSE ParseExpr(S)
InitItem(E, string, items) ==
  [E EXCEPT !.ms = Append(items, IF string \/ IsNull(E.n) THEN 0 ELSE ConstValue(E.n))]
RECURSIVE InitItems(_, _, _)
NextInit(W, p, n) ==
  LET C == Match(W, ",")
  IN  IF C.p = p \/ C.stuck THEN [C EXCEPT !.stuck = TRUE] ELSE InitItems(C, C.ms, n + 1)
InitItems(S, items, n) ==
  CASE Kind(S) \in {"}", "eof"} -> [RetSz(Match(S, "}"), n) EXCEPT !.ms = items]
    [] Kind(S) = "{" -> NextInit(InitItems(Consume(S), items, 0), S.p, n)
    [] OTHER         -> NextInit(InitItem(OneInit(S), Kind(S) = "str", items), S.p, n)
InitList(S) == InitItems(Consume(S), <<>>, 0)

(* The commas of the outermost level, and one more.                        *)
RECURSIVE CountElems(_, _, _, _)
CountElems(S, braces, parens, n) ==
  LET b == CASE Kind(S) = "{" -> braces + 1 [] Kind(S) = "}" -> braces - 1 [] OTHER -> braces
      q == CASE Kind(S) = "(" -> parens + 1
             [] Kind(S) = ")" /\ parens > 0 -> parens - 1 [] OTHER -> parens
  IN  IF braces = 0 \/ Kind(S) = "eof" THEN n + 1
      ELSE CountElems(Consume(S), b, q,
                      IF Kind(S) = "," /\ braces = 1 /\ parens = 0 THEN n + 1 ELSE n)

-----------------------------------------------------------------------------
(* Typedefs of the file.  One that is known gets the size and the members  *)
(* of the structure read last.                                             *)
Retype(S, i, d, sz) ==
  LET t == FindTag(S, d.name)
      A == [S EXCEPT !.tdefs[i] = d]
  IN  IF S.lmem = <<>> \/ sz <= 0 THEN S
      ELSE IF t = 0 THEN A ELSE [A EXCEPT !.tags[t] = [@ EXCEPT !.ms = S.lmem, !.sz = sz]]
FileTypedef(D, T, d, i) ==
  IF d.name = "" THEN D ELSE IF i = 0 THEN AddTypedef(D, d, T.z) ELSE Retype(D, i, d, T.z)
FileTypedefNamed(T, D) ==
  FileTypedef(D, T, TypedefOf(D, D.n.n, T, D.z), FindTypedef(D, D.n.n))
EndTypedef(T) ==
  IF Kind(T) = ";" THEN Consume(T) ELSE Expect(FileTypedefNamed(T, Declarator(T)), ";")
TypedefDecl(S) == EndTypedef(ParseType(SkipAttributes(Consume(S), Quals)))

(* extern "C" { ... }: nothing in it is read.                              *)
ExternBlock(S) ==
  LET N == Consume(Consume(S)) IN IF Kind(N) = "{" THEN SkipBalanced(N, "{", "}") ELSE N

(* An enumeration of the file: the variables after it are passed over.     *)
SkipInit(S) == IF Kind(S) = "{" THEN SkipBalanced(S, "{", "}") ELSE ParseExpr(S)
RECURSIVE SkipNames(_)
NextName(I) == IF Kind(I) = "," THEN SkipNames(Consume(I)) ELSE I
SkipNames(S) ==
  LET A == ArraySuffixes(Consume(S))
  IN  IF Kind(S) # "id" THEN S ELSE NextName(IF Kind(A) = "=" THEN SkipInit(Consume(A)) ELSE A)
EnumDecl(S) == Expect(SkipNames(ParseType(S)), ";")

-----------------------------------------------------------------------------
(* Functions.  T: the state after the type of what it returns, whose       *)
(* structure, if it has more than 8 bytes, is kept for calls of it, and    *)
(* from a prototype its size.                                              *)
RecordReturn(S, x, stars, T) ==
  LET st == FindTag(S, T.ltag)
  IN  IF stars = 0 /\ T.z > 8 /\ st # 0
      THEN [S EXCEPT !.rets = Append(@, [name |-> x, st |-> st])] ELSE S
RecordSize(S, x, stars, T) ==
  IF stars = 0 /\ T.z > 8 THEN [S EXCEPT !.protos = Append(@, [name |-> x, sz |-> T.z])] ELSE S
Prototype(P, x, stars, T) ==
  [s |-> Consume(RecordReturn(RecordSize(P, x, stars, T), x, stars, T)), c |-> <<>>]
PointerInit(P) == [s |-> Expect(SkipInit(Consume(P)), ";"), c |-> <<>>]
FunctionNode(P, c, x, stars, T, static) ==
  [New("func") EXCEPT !.n = x, !.v = Len(P.ms), !.c = P.ms \o c, !.arr = P.n.arr,
                      !.sz = IF stars > 0 THEN 8 ELSE T.z, !.op = static]
FunctionBody(B, P, x, stars, T, static) ==
  [s |-> RecordReturn([B EXCEPT !.funcs = @ - 1], x, stars, T),
   c |-> <<FunctionNode(P, B.n.c, x, stars, T, static)>>]
FunctionDef(P, x, stars, T, static) ==
  FunctionBody(ParseCompound([P EXCEPT !.funcs = @ + 1]), P, x, stars, T, static)
(* P: the state after the parameters.                                      *)
FunctionDecl(P, x, stars, T, static) ==
  CASE P.stuck        -> [s |-> P, c |-> <<>>]
    [] Kind(P) = ";"  -> Prototype(P, x, stars, T)
    [] Kind(P) = "="  -> PointerInit(P)
    [] OTHER          -> FunctionDef(P, x, stars, T, static)
FunctionNamed(D, T, static) == FunctionDecl(ParameterList(D), D.n.n, D.z, T, static)

-----------------------------------------------------------------------------
(* Variables of the file.                                                  *)
GlobalSizes(D, unit) ==
  [total |-> IF D.size > 1 THEN unit * D.size ELSE unit,
   at |-> IF D.brackets <= 1 THEN unit
          ELSE IF D.first > 0 THEN unit * (D.size \div D.first) ELSE unit * D.size]
Tagged(S, tag) == IF tag # "" THEN tag ELSE S.ltag
RegisterGlobal(S, x, tag, D, z) ==
  LET t == Tagged(S, tag)
      A == PvarAdd(S, x, t, FALSE, z.total)
      B == IF t = "" THEN A ELSE SetStruct(A, x, ResolveStruct(A, t))
  IN  IF D.brackets > 0 THEN SetElemSize(B, x, z.at) ELSE B
GlobalNode(S, x, tag, D, z, stars, unit, static) ==
  LET t == IF tag # "" THEN tag ELSE IF S.lmem # <<>> THEN S.ltag ELSE ""
  IN  [New("decl") EXCEPT !.n = x, !.v = z.total, !.sz = z.total, !.op = static,
                          !.arr = D.brackets > 0, !.st = ResolveStruct(S, t),
                          !.el = IF D.size > 1 THEN z.at
                                 ELSE IF stars > 1 THEN 8 ELSE IF stars = 1 THEN unit ELSE 0]

(* { ... } at S.  A dimension that is not given is the number of elements; *)
(* in the end the size is that of as many units as there are elements.     *)
(* There is room for eight items of each.                                  *)
Resize(S, d, v) == [s |-> UpdateSize(S, d.n, v), d |-> [d EXCEPT !.v = v, !.sz = v]]
SizedByItems(L, d, unit) ==
  LET e == [d EXCEPT !.c = [i \in DOMAIN L.ms |-> NumberNode(L.ms[i])]]
  IN  IF L.z > 0 /\ unit * L.z # d.v THEN Resize(L, e, unit * L.z) ELSE [s |-> L, d |-> e]
Counted(S, d, D, unit) ==
  IF D.open THEN Resize(S, [d EXCEPT !.el = unit, !.arr = TRUE],
                        unit * D.size * CountElems(Consume(S), 1, 0, 0))
  ELSE [s |-> S, d |-> d]
Kept(L, most) == [L EXCEPT !.ms = SubSeq(@, 1, Min({Len(@), most, MaxItems}))]
ListInit(R, unit) ==
  SizedByItems(Kept(InitList(R.s), 8 * CountElems(Consume(R.s), 1, 0, 0)), R.d, unit)
GlobalBraces(S, d, D, unit) == ListInit(Counted(S, d, D, unit), unit)

(* One variable at S; ts is the size of the type, tag that of a type name. *)
BracesVar(B) == [s |-> B.s, c |-> <<B.d>>]
ValueVar(E, d, extern) == [s |-> E, c |-> IF extern THEN <<>> ELSE <<[d EXCEPT !.c = <<E.n>>]>>]
GlobalInit(S, d, D, unit, extern) ==
  LET I == Consume(S)
  IN  IF Kind(S) # "=" THEN [s |-> S, c |-> IF extern THEN <<>> ELSE <<d>>]
      ELSE IF Kind(I) = "{" /\ ~extern THEN BracesVar(GlobalBraces(I, d, D, unit))
      ELSE ValueVar(SkipInit(I), d, extern)
GlobalSized(W, x, ts, stars, unit, z, tag, static, extern) ==
  LET R == RegisterGlobal(W.S, x, tag, W.D, z)
  IN  GlobalInit(R, GlobalNode(R, x, tag, W.D, z, stars, Min1(ts, 4), static), W.D, unit, extern)
GlobalDims(W, x, ts, stars, unit, tag, static, extern) ==
  GlobalSized(W, x, ts, stars, unit, GlobalSizes(W.D, unit), tag, static, extern)
GlobalNamed(P, stars, ts, tag, static, extern) ==
  IF Kind(P) # "id" THEN [s |-> Err(P), c |-> <<>>]
  ELSE GlobalDims(Dims(Consume(P), NoDims), Peek(P).n, ts, stars,
                  IF stars > 0 THEN 8 ELSE Min1(ts, 4), tag, static, extern)
GlobalVar(S, ts, tag, static, extern) ==
  LET P == Skip(S, {"*"}) IN GlobalNamed(P, P.p - S.p, ts, tag, static, extern)
RECURSIVE Globals(_, _, _, _, _, _)
NextGlobal(V, ts, tag, static, extern, c) ==
  IF Kind(V.s) = "," /\ ~V.s.stuck THEN Globals(Consume(V.s), ts, tag, static, extern, c \o V.c)
  ELSE [s |-> Expect(V.s, ";"), c |-> c \o V.c]
Globals(S, ts, tag, static, extern, c) ==
  NextGlobal(GlobalVar(S, ts, tag, static, extern), ts, tag, static, extern, c)

-----------------------------------------------------------------------------
(* parse_program.  par: the parser, prog: the nodes of the file, phase:    *)
(* whether it goes on.                                                     *)
VARIABLES par, prog, phase
vars == <<par, prog, phase>>

SpecWords == Quals \cup {"static", "extern", "register", "inline"}
Begin == SkipAttributes(par, SpecWords)
HasWord(w) == \E i \in par.p .. Begin.p - 1 : par.ts[i].t = w
StaticWord == IF HasWord("static") THEN "static" ELSE ""
TypedefTag ==
  LET i == IF Kind(Begin) # "id" THEN 0
           ELSE StructTypedef(Begin, Peek(Begin).n)
  IN  IF i = 0 THEN "" ELSE Begin.tdefs[i].name

(* What follows the type that T is the state after: a function, or what    *)
(* may be one, has a parenthesis at once or after its name.                *)
Ahead(T) == SkipAttributes(Skip(T, {"*"}), {})
Begins(A) == Kind(A) = "(" \/ (Kind(A) = "id" /\ Kind(Consume(A)) = "(")
Looked(T) == [T EXCEPT !.errs = Ahead(T).errs]

Reads(w) == phase = "reading" /\ Kind(par) = w
To(S, c) ==
  /\ par' = [S EXCEPT !.n = Null, !.z = 0, !.ms = <<>>]
  /\ prog' = prog \o c
  /\ phase' = IF S.stuck THEN "stuck" ELSE "reading"
Stop(S) == par' = [S EXCEPT !.n = Null] /\ phase' = "ended" /\ UNCHANGED prog

TopAsm     == Reads("asm") /\ \E A \in {ParseStatement(par)} : To(A, <<A.n>>)
TopTypedef == Reads("typedef") /\ To(TypedefDecl(par), <<>>)
TopExtern  == Reads("extern") /\ Kind(Consume(par)) = "str" /\ To(ExternBlock(par), <<>>)
TopEnum    == Reads("enum") /\ To(EnumDecl(par), <<>>)

Other ==
  /\ phase = "reading" /\ Kind(par) \notin {"asm", "typedef", "enum", "eof"}
  /\ ~(Kind(par) = "extern" /\ Kind(Consume(par)) = "str")
Typed == IF Other THEN {ParseType(Begin)} ELSE {}
(* Mutant: the file is read on from where a type is missing.               *)
NoTypeGoesOn == \E T \in Typed : T.z < 0 /\ To(Err(T), <<>>)
NoType    == \E T \in Typed : T.z < 0 /\ Stop(Err(T))
TypeAlone == \E T \in Typed : T.z >= 0 /\ Kind(T) = ";" /\ To(Consume(T), <<>>)
Declares(T) == T.z >= 0 /\ Kind(T) # ";"
NoName    == \E T \in Typed :
               Declares(T) /\ Kind(Ahead(T)) \notin {"(", "id"} /\ Stop(Err(Looked(T)))
Function  ==
  \E T \in Typed :
    /\ Declares(T) /\ Begins(Ahead(T))
    /\ \E R \in {FunctionNamed(Declarator(Looked(T)), T, StaticWord)} : To(R.s, R.c)
Variables ==
  \E T \in Typed :
    /\ Declares(T) /\ ~Begins(Ahead(T)) /\ Kind(Ahead(T)) = "id"
    /\ \E R \in {Globals(Looked(T), T.z, TypedefTag, StaticWord, HasWord("extern"), <<>>)} : To(R.s, R.c)
Finish == phase = "reading" /\ Kind(par) = "eof" /\ Stop(par)

Next == \/ TopAsm \/ TopTypedef \/ TopExtern \/ TopEnum \/ NoType \/ TypeAlone \/ NoName
        \/ Function \/ Variables \/ Finish

-----------------------------------------------------------------------------
(* The parser run on the text of a program, compared with what C says of   *)
(* the program: the nodes, and in them the offsets, sizes and values that  *)
(* the code generator takes from the parser.                               *)

CONSTANT Inputs   \* records [p, cut]: a program, a sequence of the
                  \* declarations of a file as trees, and the number of the
                  \* token that its text lacks, 0 for none
ASSUME InputsAssumption == \A x \in Inputs : x.cut \in 0 .. Len(ProgramText(x.p))

VARIABLES src, cut
allVars == <<par, prog, phase, src, cut>>

Without(s, i) == SubSeq(s, 1, i - 1) \o SubSeq(s, i + 1, Len(s))
Init ==
  /\ \E x \in Inputs : src = x.p /\ cut = x.cut
  /\ par = ParserInit(IF cut = 0 THEN ProgramText(src) ELSE Without(ProgramText(src), cut))
  /\ prog = <<>> /\ phase = "reading"
Step == Next /\ UNCHANGED <<src, cut>>
Spec == Init /\ [][Step]_allVars

-----------------------------------------------------------------------------
(* The initialisers of a declaration; in a function those in braces are    *)
(* assignments to parts of the variable.                                   *)
Inits(n) ==
  [i \in DOMAIN n.c |->
     IF n.c[i].k = "assign" /\ n.c[i].c[1].k \in {"member", "binop"}
        /\ n.c[i].c[1].c[1] = VarNode(n.n)
     THEN n.c[i].c[2] ELSE n.c[i]]
Children(n) == IF n.k = "decl" THEN Inits(n) ELSE n.c

(* Node n is x: of its kind, with its children, equal to it in the fields  *)
(* F of the nodes of the kinds K.                                          *)
RECURSIVE Same(_, _, _, _)
SameAll(c, d, K, F) == Len(c) = Len(d) /\ \A i \in DOMAIN c : Same(c[i], d[i], K, F)
Same(n, x, K, F) ==
  /\ n.k = x.k
  /\ n.k \in K => \A f \in F \cap DOMAIN x.f : n[f] = x.f[f]
  /\ SameAll(Children(n), x.c, K, F)

Right == \A i \in DOMAIN src : Placed(src[i], FALSE, FALSE)
Read  == phase = "ended" /\ cut = 0 /\ Right
Nodes == {"const", "var", "str", "binop", "unary", "postfix", "assign", "cond", "member", "call",
          "decl", "func", "case", "label", "goto"}
Agrees(K, F) == Read => SameAll(prog, ProgramX(src), K, F)

(* A program of C is accepted, and the nodes group operands, statements    *)
(* and declarations as its grammar does, whatever surrounds them, with the *)
(* names and operators of the text.                                        *)
GroupedAsC == Agrees(Nodes, {"op", "n", "m"}) /\ (Read => par.errs = 0)
(* A variable takes the bytes its declaration gives it, whatever it is     *)
(* declared together with, and a function has its parameters.              *)
StorageAsC == Agrees({"decl", "func"}, {"v", "el"})
(* A member is where the layout of its structure puts it, with its size,   *)
(* when the structure is reached through names, pointers, elements, calls  *)
(* and other members.                                                      *)
MembersAsC == Agrees({"member"}, {"v", "sz", "el"})
(* Constants, sizes, enumerators and cases have the values C gives them; a *)
(* value converted or read from a variable has the size and sign of its    *)
(* type, a pointer the size of what it points to.                          *)
ValuesAsC == Agrees({"const", "case", "str"}, {"v", "sz"})
             /\ Agrees({"var", "const", "unary", "binop"}, {"sz", "u", "el"})

(* A text with a bracket too few, and a break, continue, case or default   *)
(* that has nothing to belong to, are reported.  For the next declaration  *)
(* the parser is in no loop, switch, block or function, whatever the one   *)
(* before had wrong.                                                       *)
Outside == \A f \in {"loops", "switches", "blocks", "funcs"} : par[f] = 0
MistakesReported ==
  Outside /\ (phase = "ended" /\ (cut # 0 \/ ~Right) => par.errs \in 1 .. MaxErrors)
(* Every declaration that is read takes the parser further in the text, so *)
(* that it ends, with or without errors in the text.                       *)
Advances == [][phase' = "ended" \/ (phase' = "reading" /\ par'.p > par.p)]_allVars
=============================================================================
