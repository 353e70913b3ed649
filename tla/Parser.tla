-------------------------------- MODULE Parser --------------------------------
(***************************************************************************)
(* parse.c: expressions, types, declarations of functions and statements.  *)
(* The children of a node are in the order                                 *)
(*   binop, assign: left, right     cond: condition, then, else            *)
(*   call: target, arguments        unary, postfix, member: operand        *)
(* and of a statement in that of the source; one that could not be read is *)
(* Null.  A declaration is a node decl: name n, size v, size of a value sz *)
(* and of an element el, and in c its initialisers.                        *)
(*                                                                         *)
(* Abstracted: the sizes of the elements of elements and their sign, the   *)
(* text of strings (a string is its length) and floating point.            *)
(***************************************************************************)
EXTENDS ParseTables

(* The functions that call each other: Parse(f, S) is what f does at S.    *)
RECURSIVE Parse(_, _)
ParseUnary(S)     == Parse("unary", S)
ParseTernary(S)   == Parse("ternary", S)
ParseExpr(S)      == Parse("assign", S)
ParseComma(S)     == Parse("comma", S)
ParseType(S)      == Parse("type", S)
ParseStatement(S) == Parse("statement", S)
ParseCompound(S)  == Parse("compound", S)

Node(k, c) == [New(k) EXCEPT !.c = c]
Min1(n, other) == IF n > 0 THEN n ELSE other

-----------------------------------------------------------------------------
(* eval_const_expr.  A quotient by 0 stops the compiler; no input has one. *)
RECURSIVE ConstValue(_)
Quotient(a, b) == IF (a < 0) = (b < 0) THEN a \div b ELSE -((-a) \div b)
ConstOp(o, a, b) ==
  CASE o = "+" -> a + b  [] o = "-" -> a - b  [] o = "*" -> a * b
    [] o = "/" -> Quotient(a, b)  [] o = "%" -> a - b * Quotient(a, b)
    [] o = "&" -> a & b  [] o = "|" -> a | b  [] o = "^" -> a ^^ b
    [] o = "<<" -> a * 2^b  [] o = ">>" -> a \div 2^b
    [] OTHER -> 0
ConstValue(n) ==
  LET x == ConstValue(n.c[1])
  IN  CASE n.k = "const" -> n.v
        [] n.k = "unary" -> (CASE n.op = "-" -> -x [] n.op = "~" -> -x - 1
                               [] n.op = "!" -> (IF x = 0 THEN 1 ELSE 0) [] OTHER -> x)
        [] n.k = "binop" -> ConstOp(n.op, x, ConstValue(n.c[2]))
        [] OTHER -> 0

-----------------------------------------------------------------------------
(* parse_primary.                                                          *)
NameWords == {"id", "va_start", "va_arg", "va_end", "va_list", "asm", "attribute"}
NumberNode(v) == [New("const") EXCEPT !.v = v]
(* Strings after each other are one.                                       *)
RECURSIVE Strings(_, _, _)
Strings(S, n, some) ==
  IF Kind(S) = "str" /\ some < MaxStrings THEN Strings(Consume(S), n + Peek(S).v, some + 1)
  ELSE Ret(S, [New("str") EXCEPT !.v = n])
Primary(S) ==
  LET t == Peek(S)
      P == Consume(S)
  IN  CASE t.t = "num" ->
             Ret(P, [NumberNode(t.v) EXCEPT !.sz = IF t.w THEN 8 ELSE 4, !.u = t.u \/ t.w])
        [] t.t \in NameWords ->
             LET x == IF t.t = "id" THEN t.n ELSE t.t
                 e == FindEnum(S, x)
                 v == PvarFind(S, x)
             IN  IF t.t = "id" /\ e # 0 THEN Ret(P, NumberNode(S.enums[e].v))
                 ELSE Ret(P, [New("var") EXCEPT !.n = x, !.u = v.u, !.st = v.st])
        [] t.t = "str" ->
             Strings(S, 0, 0)
        [] t.t = "(" -> Expect(ParseComma(P), ")")
        [] t.t = "error" -> Ret(Consume(Err(S)), Null)
        [] OTHER -> Ret(Err(S), Null)

(* The arguments of a call of a name may be types (of va_arg): the         *)
(* argument is their size, and of a type of size 0 nothing, after which    *)
(* another type is looked for.  An expression that yields nothing has      *)
(* reported an error, and a type is tried in its place.                    *)
TypeWords == {"int", "char", "short", "long", "void", "double", "unsigned", "signed",
              "const", "volatile"}
RECURSIVE StarsSize(_, _)
StarsSize(S, K) ==
  IF Kind(S) \in K \cup {"*"}
  THEN StarsSize(IF Kind(S) = "*" THEN RetSz(Consume(S), 8) ELSE Consume(S), K) ELSE S
TypeArg(S, K) ==
  LET T == StarsSize(ParseType(S), K)
  IN  Ret(T, IF T.z > 0 THEN NumberNode(T.z) ELSE Null)

RECURSIVE Args(_, _)
FirstTry(S, call) ==
  IF call.n # "" /\ Kind(S) \in TypeWords THEN TypeArg(S, Quals) ELSE ParseExpr(S)
SecondTry(A, call) == IF IsNull(A.n) /\ call.n # "" THEN TypeArg(A, {"const"}) ELSE A
AddArg(B, call) ==
  LET c == IF IsNull(B.n) THEN call ELSE [call EXCEPT !.c = Append(@, B.n)]
  IN  IF Kind(B) = "," THEN Args(Consume(B), c) ELSE Ret(B, c)
Args(S, call) ==
  IF Kind(S) \in {")", "eof"} THEN Ret(S, call)
  ELSE AddArg(SecondTry(FirstTry(S, call), call), call)

(* A call of a function declared to return a structure has its type.       *)
CallNode(A) ==
  LET i == Lowest({j \in DOMAIN A.rets : A.rets[j].name = A.n.n})
  IN  Ret(A, [A.n EXCEPT !.st = IF A.n.n = "" \/ i = 0 THEN 0 ELSE A.rets[i].st])
CallOf(S, left) ==
  CallNode(Expect(Args(Consume(S), [New("call") EXCEPT !.n = left.n, !.c = <<left>>]), ")"))

IndexOf(S, left) ==
  LET I == ParseExpr(Consume(S))
  IN  Ret(Expect(I, "]"), [New("binop") EXCEPT !.op = "[]", !.c = <<left, I.n>>, !.st = left.st])

(* The structure on the left: the type of the node, or the tag of the      *)
(* variable.                                                               *)
StructOf(S, left) ==
  IF left.st # 0 THEN left.st
  ELSE IF left.k = "var" THEN FindTag(S, PvarFind(S, left.n).tag)
  ELSE IF left.k = "binop" /\ left.op = "[]" /\ left.c[1].k = "var"
       THEN FindTag(S, PvarFind(S, left.c[1].n).tag)
  ELSE 0
MemberOf(S, n, f, dot) ==
  [n EXCEPT !.v = f.off, !.sz = f.sz, !.u = f.u, !.el = f.el,
            !.arr = dot /\ f.arr, !.st = IF f.tag = "" THEN @ ELSE FindTag(S, f.tag)]

(* A member that the structure does not have, or any of an unknown one for *)
(* "->", is looked for in all structures; it is taken if only one has it.  *)
OnlyMember(S, n, dot, all) ==
  LET f == CHOOSE x \in all : \A y \in all : x[1] < y[1] \/ (x[1] = y[1] /\ x[2] <= y[2])
      g == MemberOf(S, n, S.tags[f[1]].ms[f[2]], dot)
  IN  IF all = {} THEN n ELSE IF Cardinality(all) = 1 THEN g ELSE [g EXCEPT !.v = -1]
FoundMember(S, n, dot, st) ==
  LET i == IF st = 0 THEN 0 ELSE FindMember(S.tags[st].ms, n.m)
  IN  IF i = 0 THEN n ELSE MemberOf(S, n, S.tags[st].ms[i], dot)
Searched(S, n, dot, left) ==
  IF n.v = -1 /\ (~dot \/ left.st # 0) THEN OnlyMember(S, n, dot, MembersNamed(S, n.m)) ELSE n
EndMember(S, n, left) == Ret(IF n.v = -1 /\ left.st # 0 THEN Err(S) ELSE S, n)
SelectMember(S, left) ==
  LET dot == Kind(S) = "."
      M   == Consume(S)
      n   == [New("member") EXCEPT !.op = Kind(S), !.m = IF Kind(M) = "id" THEN Peek(M).n ELSE Kind(M),
                                   !.c = <<left>>, !.v = -1]
  IN  EndMember(Consume(M), Searched(S, FoundMember(S, n, dot, StructOf(S, left)), dot, left), left)

(* parse_postfix.                                                          *)
RECURSIVE PostfixOps(_)
PostfixOps(S) ==
  CASE Kind(S) = "(" -> PostfixOps(CallOf(S, S.n))
    [] Kind(S) = "[" -> PostfixOps(IndexOf(S, S.n))
    [] Kind(S) \in {".", "->"} -> PostfixOps(SelectMember(S, S.n))
    [] Kind(S) \in {"++", "--"} ->
         PostfixOps(Ret(Consume(S), [New("postfix") EXCEPT !.op = Kind(S), !.c = <<S.n>>]))
    [] OTHER -> S
Postfix(S) == LET P == Primary(S) IN IF IsNull(P.n) THEN P ELSE PostfixOps(P)

-----------------------------------------------------------------------------
(* parse_unary.                                                            *)
PrefixOps == {"++", "--", "&", "*", "+", "-", "~", "!"}
Back(T, S) == [T EXCEPT !.p = S.p]

(* sizeof: of a type with stars; else of an expression, which is 8 but for *)
(* a variable and an element of one; without parentheses 4, and the        *)
(* operand is not read.                                                    *)
SizeofType(T) ==
  LET P == Skip(T, {"*"})
  IN  RetSz(SkipQuals(P), IF P.p > T.p THEN 8 ELSE IF T.z > 0 THEN T.z ELSE 4)
SizeofValue(S, e) ==
  LET v == PvarFind(S, e.n).sz
      el == FindElemSize(S, e.c[1].n)
  IN  IF e.k = "var" /\ v > 0 THEN v
      ELSE IF e.k = "binop" /\ e.op = "[]" /\ e.c[1].k = "var" /\ el > 0 THEN el ELSE 8
Sizeof(S) ==
  LET T == ParseType(Consume(S))
      Q == SizeofType(T)
      E == ParseExpr(Consume(Back(T, S)))
  IN  IF Kind(S) # "(" THEN Ret(S, NumberNode(4))
      ELSE IF T.z >= 0 /\ Kind(Q) = ")" THEN Ret(Consume(Q), NumberNode(Q.z))
      ELSE Ret(Expect(E, ")"), NumberNode(SizeofValue(E, E.n)))

(* A cast changes the node of its operand: the size and sign of a value,   *)
(* the element size of a pointer.  Constants cast to signed char or short  *)
(* are cut.                                                                *)
Signed(v, bits) == LET m == v % 2^bits IN IF m >= 2^(bits - 1) THEN m - 2^bits ELSE m
CutConst(n, sz, u) ==
  IF n.k = "const" /\ sz \in {1, 2} /\ ~u THEN [n EXCEPT !.v = Signed(@, 8 * sz)] ELSE n
(* Mutant: a cast to a pointer keeps what the operand has elements of.     *)
CastNodeKeepsElements(n, sz, u, pointer) ==
  IF IsNull(n) THEN n
  ELSE IF pointer THEN [n EXCEPT !.u = u]
  ELSE [CutConst(n, sz, u) EXCEPT !.sz = sz, !.u = u]
CastNode(n, sz, u, pointer) ==
  IF IsNull(n) THEN n
  ELSE IF pointer THEN [n EXCEPT !.el = sz, !.u = u]
  ELSE [CutConst(n, sz, u) EXCEPT !.sz = sz, !.u = u]

RECURSIVE AbstractSuffix(_), ArraySuffixes(_)
ArraySuffixes(S) == IF Kind(S) = "[" THEN ArraySuffixes(SkipBalanced(S, "[", "]")) ELSE S
AbstractSuffix(S) ==
  IF Kind(S) = "(" THEN AbstractSuffix(ArraySuffixes(SkipBalanced(S, "(", ")"))) ELSE S

CastEnd(S, T, R, pointer) ==
  LET X == ParseUnary(Consume(R))
  IN  IF T.z >= 0 /\ Kind(R) = ")" THEN Ret(X, CastNode(X.n, T.z, X.uns, pointer))
      ELSE Postfix(Back(IF T.z >= 0 THEN R ELSE T, S))
CastStars(S, T, Q) ==
  LET P == Skip(Q, {"*"} \cup (IF Kind(Q) = "*" THEN Quals ELSE {}))
  IN  CastEnd(S, T, AbstractSuffix(P), P.p > Q.p)
Cast(S) == LET T == ParseType(SkipQuals(Consume(S))) IN CastStars(S, T, SkipQuals(T))

Unary(S) ==
  CASE Kind(S) \in PrefixOps ->
         LET X == ParseUnary(Consume(S))
         IN  Ret(X, [New("unary") EXCEPT !.op = Kind(S), !.c = <<X.n>>])
    [] Kind(S) = "sizeof" -> Sizeof(Consume(S))
    [] Kind(S) = "(" -> Cast(S)
    [] OTHER -> Postfix(S)

-----------------------------------------------------------------------------
(* parse_or to parse_mul: each level reads operands of the next one and    *)
(* groups them to the left.                                                *)
Levels == <<{"||"}, {"&&"}, {"|"}, {"^"}, {"&"}, {"==", "!="}, {"<", ">", "<=", ">="},
            {"<<", ">>"}, {"+", "-"}, {"*", "/", "%"}>>
RECURSIVE Binary(_, _), BinaryRest(_, _)
Operand(S, l) == IF l = Len(Levels) THEN ParseUnary(S) ELSE Binary(S, l + 1)
Binop(o, l, r) == [New("binop") EXCEPT !.op = o, !.c = <<l, r>>]
Binary(S, l) == BinaryRest(Operand(S, l), l)
(* Mutant: the right operand is of the same level.                         *)
BinaryRestRight(S, l) ==
  IF Kind(S) \notin Levels[l] THEN S
  ELSE LET R == Binary(Consume(S), l)
       IN  BinaryRest(Ret(R, Binop(Kind(S), S.n, R.n)), l)
BinaryRest(S, l) ==
  IF Kind(S) \notin Levels[l] THEN S
  ELSE LET R == Operand(Consume(S), l)
       IN  BinaryRest(Ret(R, Binop(Kind(S), S.n, R.n)), l)

Ternary(S) ==
  LET C == Binary(S, 1)
      T == Expect(ParseExpr(Consume(C)), ":")
      E == ParseTernary(T)
  IN  IF Kind(C) # "?" THEN C
      ELSE Ret(E, [New("cond") EXCEPT !.c = <<C.n, T.n, E.n>>])

(* parse_assign: a op= b becomes a = a op b; a variable is copied without  *)
(* its structure and sign, another left operand is the same node twice.    *)
OpAssign == {"+=", "-=", "*=", "/=", "%=", "<<=", ">>=", "&=", "|=", "^="}
OpOf(o) == CASE o = "+=" -> "+" [] o = "-=" -> "-" [] o = "*=" -> "*" [] o = "/=" -> "/"
             [] o = "%=" -> "%" [] o = "<<=" -> "<<" [] o = ">>=" -> ">>"
             [] o = "&=" -> "&" [] o = "|=" -> "|" [] o = "^=" -> "^"
Copied(n) == IF n.k = "var" THEN [New("var") EXCEPT !.n = n.n, !.sz = n.sz] ELSE n
AssignNode(l, r) == [New("assign") EXCEPT !.op = "=", !.c = <<l, r>>]
Assign(S) ==
  LET L == ParseTernary(S)
      R == ParseExpr(Consume(L))
  IN  IF Kind(L) = "=" THEN Ret(R, AssignNode(L.n, R.n))
      ELSE IF Kind(L) \in OpAssign
      THEN Ret(R, AssignNode(L.n, Binop(OpOf(Kind(L)), Copied(L.n), R.n)))
      ELSE L

RECURSIVE CommaRest(_)
CommaRest(S) ==
  LET R == ParseExpr(Consume(S))
  IN  IF Kind(S) = "," THEN CommaRest(Ret(R, Binop(",", S.n, R.n))) ELSE S
Comma(S) == CommaRest(ParseExpr(S))

-----------------------------------------------------------------------------
(* Types.  parse_struct_body: B holds the members ms found, the next       *)
(* offset off, the largest alignment al.  A member is aligned by its size, *)
(* an array by the size of an element; every declaration ends with an      *)
(* expected ";".                                                           *)
(* Mutant: nothing is aligned to more than 4 bytes.                        *)
AlignOfFour(sz) == IF sz >= 4 THEN 4 ELSE IF sz >= 2 THEN 2 ELSE 1
AlignOf(sz)   == IF sz >= 8 THEN 8 ELSE IF sz >= 4 THEN 4 ELSE IF sz >= 2 THEN 2 ELSE 1
RoundUp(o, a) == ((o + a - 1) \div a) * a
AddMember(B, f, al) ==
  LET off == RoundUp(B.off, al)
  IN  [ms |-> Append(B.ms, [f EXCEPT !.off = off]), off |-> off + f.sz,
       al |-> IF al > B.al THEN al ELSE B.al]

(* [N] after a member: only a number right after the bracket counts.       *)
Dim(S) == IF Peek(Consume(S)).t = "num" /\ Peek(Consume(S)).v > 0 THEN Peek(Consume(S)).v ELSE 1
MemberSuffix(S) == IF Kind(S) = "[" THEN SkipBalanced(S, "[", "]") ELSE S
(* The member named by the token S is at: sz is the size of what precedes  *)
(* the name, base that of the type, stars the number of stars, elem the    *)
(* size of an array's element for its alignment.                           *)
MemberOfDecl(S, sz, base, stars, tag) ==
  LET array == Kind(Consume(S)) = "["
  IN  [name |-> Peek(S).n, off |-> 0, sz |-> IF array THEN sz * Dim(Consume(S)) ELSE sz,
       u |-> S.uns, el |-> IF array THEN sz ELSE IF stars = 1 THEN base
                           ELSE IF stars > 1 THEN 8 ELSE 0,
       arr |-> array, tag |-> tag]

(* After a comma the size is the full size of the member before.           *)
RECURSIVE CommaMembers(_, _, _, _, _)
CommaMembers(S, B, sz, base, tag) ==
  LET P == Skip(Consume(S), {"*"})
      f == MemberOfDecl(P, sz, base, P.p - S.p - 1, tag)
  IN  IF Kind(S) # "," THEN [S |-> S, B |-> B]
      ELSE IF Kind(P) # "id" THEN CommaMembers(P, B, sz, base, tag)
      ELSE IF Len(B.ms) >= MaxMembers THEN [S |-> Err(MemberSuffix(Consume(P))), B |-> B]
      ELSE CommaMembers(MemberSuffix(Consume(P)),
                        AddMember(B, f, AlignOf(IF f.arr THEN base ELSE f.sz)), f.sz, base, tag)

(* ")(parameters)" of a function pointer, and the width of a bit-field.    *)
AfterMember(S, sz) ==
  LET C == IF sz = 8 /\ Kind(S) = ")" THEN Consume(S) ELSE S
      D == IF C.p > S.p /\ Kind(C) = "(" THEN SkipBalanced(C, "(", ")") ELSE C
  IN  IF Kind(D) = ":" THEN SkipTo(Consume(D), {";"}) ELSE D

(* The name of a member, perhaps in parentheses, after z stars.            *)
MemberName(T) ==
  LET P == Skip(T, {"*"})
      Q == Match(Consume(P), "*")
  IN  IF Kind(P) # "(" THEN RetSz(P, P.p - T.p) ELSE RetSz(Q, Q.p - T.p - 1)
RECURSIVE StructBody(_, _, _)
EndMembers(M, outer) == StructBody(Expect(M.S, ";"), M.B, outer)
MoreMembers(N, B, sz, base, tag, outer) ==
  EndMembers(CommaMembers(AfterMember(N, sz), B, sz, base, tag), outer)
(* The member at Q of type size base; sz is its size but for an array.     *)
FirstMember(Q, B, sz, base, tag, outer) ==
  LET f == MemberOfDecl(Q, sz, base, Q.z, tag)
      N == MemberSuffix(Consume(Q))
  IN  IF Kind(Q) # "id" THEN MoreMembers(Q, B, sz, base, tag, outer)
      ELSE IF Len(B.ms) >= MaxMembers THEN [S |-> Err(N), B |-> B]
      ELSE MoreMembers(N, AddMember(B, f, AlignOf(IF f.arr THEN sz ELSE f.sz)), f.sz, base, tag, outer)
TypedMember(T, Q, B, outer) ==
  IF T.z < 0 THEN [S |-> Err(T), B |-> B]
  ELSE FirstMember(Q, B, IF Q.z > 0 THEN 8 ELSE T.z, T.z, IF T.ltag # "" THEN T.ltag ELSE outer, outer)
StructBody(S, B, outer) ==
  LET T == ParseType(SkipQuals(S))
  IN  IF Kind(S) \in {"}", "eof"} THEN [S |-> S, B |-> B] ELSE TypedMember(T, MemberName(T), B, outer)

(* parse_struct_type: a body always makes a new entry of the tag table; a  *)
(* structure without a tag gets one of its own.                            *)
StructDone(R, B, tag) ==
  LET name == IF tag = "" THEN "@" \o ToString(R.anon) ELSE tag
      size == RoundUp(B.off, B.al)
  IN  RetSz(AddTag([R EXCEPT !.ltag = name, !.lmem = B.ms,
                             !.anon = IF tag = "" THEN @ + 1 ELSE @], name, B.ms, size), size)
EndStruct(W, tag) == StructDone(SkipAttributes(Expect(W.S, "}"), {}), W.B, tag)
DefineStruct(S, tag) ==
  EndStruct(StructBody([Expect(S, "{") EXCEPT !.ltag = tag], [ms |-> <<>>, off |-> 0, al |-> 1], tag), tag)
StructSpec(S) ==
  LET N   == Match(S, "id")
      tag == IF N.p > S.p THEN Peek(S).n ELSE ""
      i   == FindTag(S, tag)
      ok(T) == [T EXCEPT !.z = IF @ > 0 THEN @ ELSE 4]
  IN  IF Kind(N) = "{" THEN ok(DefineStruct(N, tag))
      ELSE IF i = 0 THEN RetSz(N, 4)
      ELSE ok([N EXCEPT !.ltag = tag, !.lmem = S.tags[i].ms, !.z = S.tags[i].sz])

(* The values of an enumeration: v is that of an item with none written.   *)
RECURSIVE EnumValues(_, _)
EnumNext(I, x, w, v) ==
  LET A == AddEnum(I, x, w) IN IF Kind(A) = "," THEN EnumValues(Consume(A), w + 1) ELSE A
EnumWritten(E, x, v) == EnumNext(E, x, IF IsNull(E.n) THEN v ELSE ConstValue(E.n), v)
EnumValues(S, v) ==
  LET N == Consume(S)
  IN  CASE Kind(S) \in {"}", "eof"} -> S
        [] Kind(S) = "," -> EnumValues(N, v)
        [] Kind(S) = "id" -> IF Kind(N) = "=" THEN EnumWritten(ParseExpr(Consume(N)), Peek(S).n, v)
                             ELSE EnumNext(N, Peek(S).n, v, v)
        [] OTHER -> S
EnumSpec(S) ==
  LET N == Match(S, "id")
  IN  RetSz(IF Kind(N) = "{" THEN Match(EnumValues(Consume(N), 0), "}") ELSE N, 4)

(* parse_type_specifier: the size, -1 if there is no type.                 *)
LongSpec(S) == RetSz(Match(Match(S, "long"), "int"), 8)
SignSpec(S) ==
  CASE Kind(S) = "char"  -> RetSz(Consume(S), 1)
    [] Kind(S) = "short" -> RetSz(Match(Consume(S), "int"), 2)
    [] Kind(S) = "long"  -> LongSpec(Consume(S))
    [] OTHER             -> RetSz(Match(S, "int"), 4)
PlainSize == [k \in {"int", "char", "short", "double", "va_list", "void"} |->
                CASE k = "int" -> 4 [] k = "char" -> 1 [] k = "short" -> 2
                  [] k = "double" -> 8 [] k = "va_list" -> 24 [] k = "void" -> 0]
TypeSpec(S) ==
  LET d == IF Kind(S) = "id" THEN FindTypedef(S, Peek(S).n) ELSE 0
      C == [Consume(S) EXCEPT !.ltag = "", !.uns = Kind(S) = "unsigned"]
  IN  IF d # 0
      THEN [C EXCEPT !.uns = S.tdefs[d].u, !.z = S.tdefs[d].sz,
                     !.ltag = IF S.tdefs[d].ms = <<>> THEN "" ELSE S.tdefs[d].name]
      ELSE CASE Kind(S) \in DOMAIN PlainSize -> RetSz(C, PlainSize[Kind(S)])
             [] Kind(S) = "long"             -> LongSpec(C)
             [] Kind(S) \in {"struct", "union"} -> StructSpec(C)
             [] Kind(S) = "enum"             -> EnumSpec(C)
             [] Kind(S) \in {"unsigned", "signed"} -> SignSpec(C)
             [] OTHER                        -> RetSz([S EXCEPT !.ltag = ""], -1)

-----------------------------------------------------------------------------
(* parse_declarator: the name in n.n, the number of stars in z.            *)
Named(S, x, stars) == RetSz(Ret(S, [New("name") EXCEPT !.n = x]), stars)
RECURSIVE FptrDims(_)
FptrDims(S) ==
  LET N == Consume(S)
      D == IF S.fdim = 0 /\ Kind(N) = "num" THEN [S EXCEPT !.fdim = Peek(N).v] ELSE S
  IN  IF Kind(S) = "[" THEN FptrDims(SkipBalanced(D, "[", "]")) ELSE S
FptrEnd(D, x, stars) == Named(IF Kind(D) = "(" THEN SkipBalanced(D, "(", ")") ELSE D, x, stars)
FptrDeclarator(Q, stars) ==
  FptrEnd(Expect(FptrDims([Match(Q, "id") EXCEPT !.fdim = 0]), ")"),
          IF Kind(Q) = "id" THEN Peek(Q).n ELSE "", stars + 1)
StarredName(S, stars) ==
  LET F == Consume(S)
  IN  CASE Kind(S) = "id" -> Named(F, Peek(S).n, stars)
        [] Kind(S) = "(" /\ Kind(F) = "*" -> FptrDeclarator(SkipQuals(Consume(F)), stars)
        [] OTHER -> Named(Err(IF Kind(S) = "(" THEN F ELSE S), "", stars)
Declarator(S) == LET P == Skip(S, {"*"}) IN StarredName(SkipQuals(P), P.p - S.p)

(* skip_register_asm.                                                      *)
RegisterName(N) ==
  LET A == Match(Expect(Consume(N), "("), "str") IN IF Kind(N) = "asm" THEN Expect(A, ")") ELSE N
RegisterInit(S) == Expect(IF Kind(S) = "=" THEN ParseExpr(Consume(S)) ELSE S, ";")
RegisterAsm(S)  == RegisterInit(RegisterName(Match(ParseType(Consume(S)), "id")))

-----------------------------------------------------------------------------
(* A typedef in a function.  One of a name that is known is ignored.  The  *)
(* members of the structure read last are taken for those of the type.     *)
TypedefOf(S, x, T, stars) ==
  [name |-> x, sz |-> IF stars > 0 THEN 8 ELSE T.z, ptr |-> stars,
   to |-> IF stars > 0 THEN T.z ELSE 0, u |-> FALSE, ms |-> S.lmem]
AddTypedef(S, d, sz) ==
  LET A == [S EXCEPT !.tdefs = Append(@, d)]
  IN  IF S.lmem # <<>> /\ FindTag(S, d.name) = 0 THEN AddTag(A, d.name, S.lmem, sz) ELSE A
NewTypedef(D, T, x) ==
  IF x = "" \/ FindTypedef(D, x) # 0 THEN D ELSE AddTypedef(D, TypedefOf(D, x, T, D.z), T.z)
TypedefNamed(T, D) == Expect(NewTypedef(D, T, D.n.n), ";")
LocalTypedef(S) ==
  LET T == ParseType(Skip(S, Quals \cup {"attribute"})) IN TypedefNamed(T, Declarator(T))

(* The type name at S: what it points to if it names a pointer, else 0,    *)
(* and the members of the structure it names.                              *)
StructTypedef(S, x) == Lowest({i \in DOMAIN S.tdefs : S.tdefs[i].name = x /\ S.tdefs[i].ms # <<>>})
PointedTo(S) ==
  LET i == IF Kind(S) # "id" THEN 0
           ELSE Lowest({j \in DOMAIN S.tdefs : S.tdefs[j].name = Peek(S).n /\ S.tdefs[j].ptr > 0})
  IN  IF i = 0 THEN 0 ELSE S.tdefs[i].to
MembersOf(S) ==
  LET i == IF Kind(S) # "id" THEN 0 ELSE StructTypedef(S, Peek(S).n)
  IN  IF i = 0 THEN <<>> ELSE S.tdefs[i].ms

(* The structure of a variable of size ts: its tag, which is the name of   *)
(* the type if it has one, or, if no structure was read yet, a structure   *)
(* type of the same size.                                                  *)
TagOf(S, ts, tag) ==
  LET i == Lowest({j \in DOMAIN S.tdefs : S.tdefs[j].ms # <<>> /\ S.tdefs[j].sz = ts})
  IN  IF tag # "" \/ S.lmem # <<>> \/ i = 0 THEN tag ELSE S.tdefs[i].name
Declare(S, x, tag, u, sz) ==
  IF x = "" THEN S ELSE SetStruct(PvarAdd(S, x, tag, u, sz), x, ResolveStruct(S, tag))

(* The dimensions of the first variable, and the members of its type name. *)
NoDims == [size |-> 1, first |-> 0, n |-> 0, brackets |-> 0, open |-> FALSE, ms |-> <<>>]
RECURSIVE Dims(_, _)
Dims(S, D) ==
  LET E == ParseExpr(Consume(S))
      v == IF IsNull(E.n) THEN 0 ELSE ConstValue(E.n)
      B == [D EXCEPT !.brackets = @ + 1]
  IN  IF Kind(S) # "[" THEN [S |-> S, D |-> D]
      ELSE IF Kind(Consume(S)) = "]" THEN Dims(Consume(Consume(S)), [B EXCEPT !.open = TRUE])
      ELSE Dims(CloseAt(E, 1, "[", "]"),
                IF v <= 0 THEN B
                ELSE [B EXCEPT !.size = @ * v, !.n = @ + 1, !.first = IF D.n = 0 THEN v ELSE @])

(* Mutant: the size of an array is that of its first dimension.            *)
DeclSizesFirst(d, ts, stars, D) ==
  LET v    == d.v * (IF D.first > 0 THEN D.first ELSE 1)
      elem == IF stars > 0 THEN 8 ELSE Min1(ts, 4)
  IN  IF D.n > 0 THEN [d EXCEPT !.v = v, !.arr = TRUE, !.el = IF D.n > 1 THEN v \div D.first ELSE elem]
      ELSE [d EXCEPT !.el = IF stars > 0 /\ D.brackets > 0 THEN 8 ELSE @]
DeclSizes(d, ts, stars, D) ==
  LET v    == d.v * D.size
      elem == IF stars > 0 THEN 8 ELSE Min1(ts, 4)
  IN  IF D.n > 0 THEN [d EXCEPT !.v = v, !.arr = TRUE, !.el = IF D.n > 1 THEN v \div D.first ELSE elem]
      ELSE [d EXCEPT !.el = IF stars > 0 /\ D.brackets > 0 THEN 8 ELSE @]
(* The size that sizeof reports changes only if it is above 4.             *)
Sized(S, d, D) ==
  LET A == IF D.n > 0 THEN SetElemSize(S, d.n, d.el) ELSE S
      i == LatestVar(A, d.n)
  IN  IF i # 0 /\ d.v > 4 THEN [A EXCEPT !.pvars[i].sz = d.v] ELSE A

(* { ... }: assignments to members of a structure, then to elements.  The  *)
(* structure is that of the type name, or else the one read last.          *)
VarNode(x) == [New("var") EXCEPT !.n = x]
InitAssign(x, i, e, ms, ts) ==
  LET f == ms[i + 1]
  IN  IF i < Len(ms)
      THEN [Node("assign", <<[New("member") EXCEPT !.m = f.name, !.v = f.off, !.sz = f.sz,
                                                   !.c = <<VarNode(x)>>], e>>) EXCEPT !.sz = f.sz]
      ELSE [Node("assign", <<Binop("[]", VarNode(x), NumberNode(i)), e>>) EXCEPT !.sz = Min1(ts, 4)]
RECURSIVE BraceItems(_, _, _, _, _)
BraceItems(S, d, i, ms, ts) ==
  LET E == ParseExpr(S)
      c == IF IsNull(E.n) THEN d ELSE [d EXCEPT !.c = Append(@, InitAssign(d.n, i, E.n, ms, ts))]
  IN  IF Kind(S) \in {"}", "eof"} THEN [S |-> Match(S, "}"), d |-> d, n |-> i]
      ELSE IF IsNull(E.n) /\ E.p = S.p THEN BraceItems(Consume(E), d, i, ms, ts)
      ELSE BraceItems(Match(E, ","), c, i + 1, ms, ts)
BraceInit(S, d, ts, stars, D) ==
  LET ms   == IF stars # 0 \/ ts <= 0 \/ D.brackets # 0 THEN <<>>
              ELSE IF D.ms # <<>> THEN D.ms ELSE S.lmem
      B    == BraceItems(Consume(S), d, 0, ms, ts)
      elem == IF stars > 0 THEN 8 ELSE Min1(ts, 4)
      a    == [B.d EXCEPT !.v = B.n * elem, !.el = elem, !.arr = TRUE]
  IN  IF ms = <<>> /\ D.n = 0 /\ B.n > 0 THEN Ret(UpdateSize(B.S, d.n, a.v), a)
      ELSE Ret(B.S, B.d)
ExprInit(S, d, ts, D) ==
  LET E == ParseExpr(S)
      n == [d EXCEPT !.c = <<E.n>>]
  IN  IF ts = 1 /\ D.brackets > 0 /\ D.n = 0 /\ E.n.k = "str"
      THEN Ret(SetElemSize(E, d.n, 1), [n EXCEPT !.v = E.n.v + 1, !.el = 1, !.arr = TRUE])
      ELSE Ret(E, n)

(* The first variable of a declaration of type T, the size of what a       *)
(* pointer type points to being pts, the members of a type name ms.        *)
FirstNode(N, ts, pts, static) ==
  LET stars == N.z
      fp == stars > 0 /\ N.fdim > 0
      sz == IF stars > 0 THEN 8 ELSE Min1(ts, 4)
  IN  [New("decl") EXCEPT !.n = N.n.n, !.v = IF fp THEN 8 * N.fdim ELSE sz, !.sz = sz,
         !.u = stars = 0 /\ N.uns, !.op = static,
         !.el = IF fp THEN 8 ELSE IF stars = 0 /\ ts > 0 /\ pts > 0 THEN pts
                ELSE IF stars > 1 THEN 8 ELSE IF stars = 1 THEN ts ELSE 0]
FirstInit(S, d, ts, stars, D) ==
  LET I == Consume(S)
  IN  IF Kind(S) # "=" THEN Ret(S, d)
      ELSE IF Kind(I) = "{" THEN BraceInit(I, d, ts, stars, D) ELSE ExprInit(I, d, ts, D)
FirstSized(W, d, ts, stars) == FirstInit(Sized(W.S, d, W.D), d, ts, stars, W.D)
FirstDims(W, d, ts, stars)  == FirstSized(W, DeclSizes(d, ts, stars, W.D), ts, stars)
FirstNamed(N, T, d, ms) ==
  FirstDims(Dims([Declare(N, d.n, TagOf(N, T.z, T.ltag), d.u, d.v) EXCEPT !.fdim = 0, !.ltag = ""],
                 [NoDims EXCEPT !.ms = ms]), d, T.z, N.z)
FirstDecl(T, pts, ms, static) ==
  LET N == Declarator(T) IN FirstNamed(N, T, FirstNode(N, T.z, pts, static), ms)

(* The variables after commas: only a number right after a bracket is a    *)
(* dimension, and initialisers in braces are passed over.                  *)
RECURSIVE NumberDims(_, _)
NumberDims(S, v) ==
  IF Kind(S) = "[" THEN NumberDims(SkipBalanced(S, "[", "]"), v * Dim(S)) ELSE [S |-> S, v |-> v]
CommaNode(N, ts, static) ==
  [New("decl") EXCEPT !.n = N.n.n, !.sz = IF N.z > 0 THEN 8 ELSE Min1(ts, 4), !.u = N.z = 0 /\ N.uns,
                      !.el = IF N.z > 1 THEN 8 ELSE IF N.z = 1 THEN ts ELSE 0, !.op = static]
CommaInit(S, d) ==
  LET I == Consume(S)
      E == ParseExpr(I)
  IN  IF Kind(S) # "=" THEN Ret(S, d)
      ELSE IF Kind(I) = "{" THEN Ret(SkipBalanced(I, "{", "}"), d) ELSE Ret(E, [d EXCEPT !.c = <<E.n>>])
CommaSized(W, p, d) ==
  CommaInit(IF W.v > 4 THEN UpdateSize(W.S, d.n, W.v) ELSE W.S,
            [d EXCEPT !.v = W.v, !.arr = W.S.p > p /\ d.el > 0])
CommaNamed(N, T, d) ==
  CommaSized(NumberDims(Declare(N, d.n, T.ltag, d.u, d.sz), d.sz), N.p, d)
CommaDecl(S, T, static) == LET N == Declarator(S) IN CommaNamed(N, T, CommaNode(N, T.z, static))
RECURSIVE CommaDecls(_, _, _, _)
AddDecl(C, T, static, ds) == CommaDecls(C, T, static, Append(ds, C.n))
CommaDecls(S, T, static, ds) ==
  IF Kind(S) # "," THEN Ret(S, Node("decls", ds)) ELSE AddDecl(CommaDecl(Consume(S), T, static), T, static, ds)

(* A declaration in a function: a node of its variables, of none for a     *)
(* prototype.                                                              *)
EndDecls(W) ==
  IF Kind(W) = "(" THEN Ret(Expect(SkipBalanced(W, "(", ")"), ";"), Node("decls", <<>>))
  ELSE Expect(W, ";")
LocalDecl(T, pts, ms, static) == EndDecls(AddDecl(FirstDecl(T, pts, ms, static), T, static, <<>>))

-----------------------------------------------------------------------------
(* Statements.  One that needs a parenthesis and has none is given up up   *)
(* to the next ";" or "}".                                                 *)
GiveUp(S) == Ret(Recover(Err(S)), Null)

Return(S) ==
  LET N == Consume(S)
      E == IF Kind(N) = ";" THEN Ret(N, Null) ELSE ParseComma(N)
  IN  IF S.funcs = 0 THEN Ret(Recover(Consume(Err(S))), Null)
      ELSE Ret(Expect(E, ";"), Node("return", <<E.n>>))

Condition(P) == Expect(ParseExpr(Consume(P)), ")")
If(S) ==
  LET P == Consume(S)
      C == Condition(P)
      T == ParseStatement(C)
      E == IF Kind(T) = "else" THEN ParseStatement(Consume(T)) ELSE Ret(T, Null)
  IN  IF Kind(P) # "(" THEN GiveUp(P) ELSE Ret(E, Node("if", <<C.n, T.n, E.n>>))

(* The body of a loop, in which break and continue may stand.              *)
(* Mutant: the end of the loop is not counted.                             *)
LoopBodyStays(S) == ParseStatement([S EXCEPT !.loops = @ + 1])
LoopBody(S) == LET B == ParseStatement([S EXCEPT !.loops = @ + 1]) IN [B EXCEPT !.loops = @ - 1]
While(S) ==
  LET P == Consume(S)
      C == Condition(P)
      B == LoopBody(C)
  IN  IF Kind(P) # "(" THEN GiveUp(P) ELSE Ret(B, Node("while", <<C.n, B.n>>))

ForNode(N, ts) ==
  LET sz == IF N.z > 0 THEN 8 ELSE Min1(ts, 4)
  IN  [New("decl") EXCEPT !.n = N.n.n, !.v = sz, !.sz = sz, !.u = N.z = 0 /\ N.uns]
ForValue(S, d) ==
  LET I == ParseComma(Consume(S)) IN IF Kind(S) = "=" THEN Ret(I, [d EXCEPT !.c = <<I.n>>]) ELSE Ret(S, d)
ForNamed(N, d, tag) == ForValue(Declare(N, d.n, tag, d.u, 0), d)
ForDecl(T, N) == ForNamed(N, ForNode(N, T.z), T.ltag)
ForInit(S) ==
  LET T == ParseType(SkipQuals(S))
      X == ParseComma(T)
  IN  IF Kind(S) = ";" THEN Ret(S, Null)
      ELSE IF T.z < 0 THEN Ret(X, Node("expr", <<X.n>>)) ELSE ForDecl(T, Declarator(T))
ForBody(T, c) == LET B == LoopBody(Expect(T, ")")) IN Ret(B, Node("for", c \o <<T.n, B.n>>))
ForStep(C, c) ==
  LET S == Expect(C, ";")
  IN  ForBody(IF Kind(S) = ")" THEN Ret(S, Null) ELSE ParseComma(S), Append(c, C.n))
ForCondition(I) ==
  LET S == Expect(I, ";")
  IN  ForStep(IF Kind(S) = ";" THEN Ret(S, Null) ELSE ParseExpr(S), <<I.n>>)
For(S) ==
  LET P == Consume(S) IN IF Kind(P) # "(" THEN GiveUp(P) ELSE ForCondition(ForInit(Consume(P)))

DoWhile(S) ==
  LET B == LoopBody(Consume(S))
      C == ParseExpr(Expect(Expect(B, "while"), "("))
  IN  Ret(Expect(Expect(C, ")"), ";"), Node("do", <<B.n, C.n>>))

(* Only a body in braces is read.                                          *)
Switch(S) ==
  LET P == Consume(S)
      C == Condition(P)
      D == [C EXCEPT !.switches = @ + 1]
      B == IF Kind(D) = "{" THEN ParseCompound(D) ELSE Ret(D, Node("block", <<>>))
  IN  IF Kind(P) # "(" THEN GiveUp(P)
      ELSE Ret([B EXCEPT !.switches = @ - 1], Node("switch", <<C.n>> \o B.n.c))

Break(S) ==
  IF S.loops = 0 /\ S.switches = 0 THEN Ret(Recover(Consume(Err(S))), Null)
  ELSE Ret(Expect(Consume(S), ";"), New("break"))
Continue(S) ==
  IF S.loops = 0 THEN Ret(Recover(Consume(Err(S))), Null)
  ELSE Ret(Expect(Consume(S), ";"), New("continue"))

(* The value of a case is that of a constant; of anything else it is 0.    *)
CaseValue(n) == IF n.k = "const" THEN n.v ELSE 0
Case(S) ==
  LET X == SkipTo(Consume(Err(S)), {";", "}", ":"})
      V == ParseExpr(Consume(S))
      R == ParseExpr(Consume(V))
      last == IF Kind(V) = "..." THEN CaseValue(R.n) ELSE CaseValue(V.n)
  IN  IF S.switches = 0 THEN Ret(IF Kind(X) \in {":", ";"} THEN Consume(X) ELSE X, Null)
      ELSE Ret(Expect(IF Kind(V) = "..." THEN R ELSE V, ":"),
               [New("case") EXCEPT !.v = CaseValue(V.n), !.sz = last])
Default(S) ==
  IF S.switches = 0 THEN Ret(Recover(Consume(Err(S))), Null)
  ELSE Ret(Expect(Consume(S), ":"), New("default"))

Goto(S) ==
  LET N == Consume(S)
  IN  IF Kind(N) # "id" THEN Ret(Err(N), Null)
      ELSE Ret(Expect(Consume(N), ";"), [New("goto") EXCEPT !.n = Peek(N).n])

(* asm: the operands are children, constraints and clobbers are left out.  *)
RECURSIVE AsmOperands(_, _), AsmClobbers(_, _)
MaxAsmOps == 16
AsmOperands(S, c) ==
  LET N == IF Kind(S) = "[" THEN Expect(Consume(Consume(S)), "]") ELSE S
      E == ParseComma(Expect(Consume(N), "("))
  IN  IF Kind(S) \in {":", ")", "eof"} THEN Ret(S, Node("asm", c))
      ELSE IF Len(c) >= MaxAsmOps THEN Ret(Err(S), Node("asm", c))
      ELSE IF Kind(N) # "str" THEN Ret(Err(N), Node("asm", c))
      ELSE AsmOperands(Match(Expect(E, ")"), ","), Append(c, E.n))
AsmClobbers(S, n) ==
  IF Kind(S) \in {")", "eof"} THEN S
  ELSE IF n >= MaxAsmOps THEN Err(S)
  ELSE IF Kind(S) # "str" THEN S ELSE AsmClobbers(Match(Consume(S), ","), n + 1)
AsmList(S) == IF Kind(S) = ":" THEN AsmOperands(Consume(S), <<>>) ELSE Ret(S, Node("asm", <<>>))
AsmEnd(I, c) ==
  LET C == IF Kind(I) = ":" THEN AsmClobbers(Consume(I), 0) ELSE I
  IN  Ret(Expect(Expect(C, ")"), ";"), Node("asm", c \o I.n.c))
AsmInputs(O) == AsmEnd(AsmList(O), O.n.c)
Asm(S) ==
  AsmInputs(AsmList(Match(Expect(Match(Consume(S), "volatile"), "("), "str")))

ExprStatement(S) ==
  LET E == ParseComma(S)
      T == IF Kind(E) = ";" THEN Consume(E) ELSE Recover(Err(E))
  IN  Ret(T, IF IsNull(E.n) THEN Null ELSE Node("expr", <<E.n>>))

(* parse_statement.                                                        *)
Statement(S) ==
  CASE Kind(S) = "return"   -> Return(S)
    [] Kind(S) = "if"       -> If(S)
    [] Kind(S) = "while"    -> While(S)
    [] Kind(S) = "for"      -> For(S)
    [] Kind(S) = "do"       -> DoWhile(S)
    [] Kind(S) = "switch"   -> Switch(S)
    [] Kind(S) = "case"     -> Case(S)
    [] Kind(S) = "default"  -> Default(S)
    [] Kind(S) = "break"    -> Break(S)
    [] Kind(S) = "continue" -> Continue(S)
    [] Kind(S) = "goto"     -> Goto(S)
    [] Kind(S) = "asm"      -> Asm(S)
    [] Kind(S) = "{"        -> ParseCompound(S)
    [] Kind(S) = ";"        -> Ret(Consume(S), New("empty"))
    [] OTHER                -> ExprStatement(S)

-----------------------------------------------------------------------------
(* parse_compound_statement.  Qualifiers that no type follows are read     *)
(* again as the beginning of a statement.                                  *)
StorageWords == Quals \cup {"static", "extern", "inline", "typedef"}
Item(S) ==
  LET Q      == Skip(S, StorageWords)
      has(w) == \E i \in S.p .. Q.p - 1 : S.ts[i].t = w
      T      == ParseType(Q)
      X      == ParseStatement(IF Q.p > S.p THEN Back(T, S) ELSE T)
  IN  CASE Kind(S) = "id" /\ Kind(Consume(S)) = ":" ->
             Ret(Consume(Consume(S)), [New("label") EXCEPT !.n = Peek(S).n])
        [] Kind(S) = "register" -> Ret(RegisterAsm(S), Null)
        [] has("typedef") -> Ret(LocalTypedef(Q), Null)
        [] OTHER -> IF T.z < 0 THEN X
                    ELSE LocalDecl(T, PointedTo(Q), MembersOf(Q), IF has("static") THEN "static" ELSE "")
RECURSIVE Items(_, _)
AddItem(I, p, c) ==
  IF I.p = p THEN Ret(I, Node("block", c))
  ELSE Items(I, CASE I.n.k = "null"  -> c
                  [] I.n.k = "decls" -> c \o I.n.c
                  [] OTHER           -> Append(c, I.n))
Items(S, c) ==
  IF Kind(S) \in {"}", "eof"} THEN Ret(S, Node("block", c)) ELSE AddItem(Item(S), S.p, c)
EndBlock(B) == Ret([Expect(B, "}") EXCEPT !.blocks = @ - 1], B.n)
Compound(S) ==
  LET O == IF Kind(S) = "{" THEN Consume(S) ELSE Recover(Err(S))
  IN  EndBlock(Items([O EXCEPT !.blocks = @ + 1], <<>>))

-----------------------------------------------------------------------------
Parse(f, S) ==
  CASE f = "unary"     -> Unary(S)
    [] f = "ternary"   -> Ternary(S)
    [] f = "assign"    -> Assign(S)
    [] f = "comma"     -> Comma(S)
    [] f = "type"      -> TypeSpec(S)
    [] f = "statement" -> Statement(S)
    [] f = "compound"  -> Compound(S)
=============================================================================
