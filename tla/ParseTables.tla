-------------------------------- MODULE ParseTables --------------------------------
(***************************************************************************)
(* parse.c: the tokens, the tables of names and the errors of the parser.  *)
(* A parsing function takes the state of the parser and returns the state  *)
(* it leaves, with what it returns in n (a node) or z (a size).            *)
(*                                                                         *)
(* A token is [t |-> kind]; an identifier also has a name n, a number a    *)
(* value v, whether it is wider than int (w) and unsigned (u), a string a  *)
(* text v.  Abstracted: the text of messages, what floating-point          *)
(* constants add to a node, and the sizes of the tables, which the code    *)
(* checks and leaves the compiler for; only a structure's members stop at  *)
(* MaxMembers, strings that are joined at MaxStrings, the items of an      *)
(* initialiser at MaxItems and the errors at MaxErrors.                    *)
(***************************************************************************)
EXTENDS Integers, Sequences, FiniteSets, SequencesExt, FiniteSetsExt, Bitwise

MaxErrors  == 8
MaxMembers == 256
MaxStrings == 64
MaxItems   == 65536

Tk(t)    == [t |-> t]
Id(x)    == [t |-> "id", n |-> x]
Lit(v)   == [t |-> "num", v |-> v, w |-> FALSE, u |-> FALSE]
Quote(v) == [t |-> "str", v |-> v]

(* new_ast: children c, size sz, signedness u, size of an element el,      *)
(* structure st (an entry of the tag table, 0 for none), member name m.    *)
New(k) == [k |-> k, op |-> "", n |-> "", m |-> "", v |-> 0, c |-> <<>>,
           sz |-> 4, u |-> FALSE, el |-> 0, st |-> 0, arr |-> FALSE]
Null   == New("null")
IsNull(n) == n.k = "null"

(* parser_init, and the tables as the program starts with them.            *)
ParserInit(ts) ==
  [ts |-> ts, p |-> 1, errs |-> 0, n |-> Null, z |-> 0, ms |-> <<>>,
   pvars |-> <<>>, rets |-> <<>>, protos |-> <<>>, tags |-> <<>>, tdefs |-> <<>>, enums |-> <<>>,
   ltag |-> "", lmem |-> <<>>, uns |-> FALSE, fdim |-> 0, anon |-> 0,
   loops |-> 0, switches |-> 0, blocks |-> 0, funcs |-> 0, stuck |-> FALSE]

Eof     == Tk("eof")
Peek(S) == IF S.p <= Len(S.ts) THEN S.ts[S.p] ELSE Eof
Kind(S) == Peek(S).t
Ret(S, n)  == [S EXCEPT !.n = n]
RetSz(S, z) == [S EXCEPT !.z = z]

(* error_at; the message of expect counts the same way.                    *)
Err(S) == [S EXCEPT !.errs = IF @ < MaxErrors THEN @ + 1 ELSE @]

Consume(S)    == IF Kind(S) = "eof" THEN S ELSE [S EXCEPT !.p = @ + 1]
Match(S, k)   == IF Kind(S) = k THEN Consume(S) ELSE S
(* What is expected and missing is reported, and nothing is consumed.      *)
Expect(S, k)  == IF Kind(S) = k THEN Consume(S) ELSE Err(S)

RECURSIVE Skip(_, _), SkipTo(_, _), CloseAt(_, _, _, _)
Skip(S, K)   == IF Kind(S) \in K THEN Skip(Consume(S), K) ELSE S
SkipTo(S, K) == IF Kind(S) \in K \cup {"eof"} THEN S ELSE SkipTo(Consume(S), K)

(* Past the closer of the opener just consumed.                            *)
CloseAt(S, d, o, c) ==
  LET k == Kind(S)
      e == IF k = o THEN d + 1 ELSE IF k = c THEN d - 1 ELSE d
  IN  IF k = "eof" THEN S ELSE IF e = 0 THEN Consume(S) ELSE CloseAt(Consume(S), e, o, c)
SkipBalanced(S, o, c) == CloseAt(Consume(S), 1, o, c)

(* error_recover.  Its count of braces never matters: a "}" ends the loop. *)
Recover(S) == SkipTo(S, {";", "}"})

Quals     == {"const", "volatile", "restrict"}
SkipQuals(S) == Skip(S, Quals)

(* Past attributes, each with two parentheses, and the words of K.         *)
RECURSIVE SkipAttributes(_, _)
SkipAttributes(S, K) ==
  LET A == Expect(Expect(Consume(S), "("), "(")
  IN  IF Kind(S) = "attribute" THEN SkipAttributes(CloseAt(A, 2, "(", ")"), K)
      ELSE IF Kind(S) \in K THEN SkipAttributes(Consume(S), K) ELSE S

-----------------------------------------------------------------------------
(* The tables.  A later entry of pvars hides an earlier one, except for    *)
(* element sizes and for pvar_update_size, which find the first; entries   *)
(* are never removed.  In the other tables the first entry counts.         *)
Lowest(I)  == IF I = {} THEN 0 ELSE CHOOSE i \in I : \A j \in I : i <= j
Highest(I) == IF I = {} THEN 0 ELSE CHOOSE i \in I : \A j \in I : i >= j
NoVar == [name |-> "", tag |-> "", u |-> FALSE, sz |-> 0, el |-> 0, st |-> 0]
PvarAdd(S, x, tag, u, sz) ==
  IF x = "" THEN S
  ELSE [S EXCEPT !.pvars = Append(@, [NoVar EXCEPT !.name = x, !.tag = tag, !.u = u, !.sz = sz])]
Vars(S, x)      == {i \in DOMAIN S.pvars : S.pvars[i].name = x}
FirstVar(S, x)  == Lowest(Vars(S, x))
LatestVar(S, x) == Highest(Vars(S, x))
PvarFind(S, x)  == LET i == LatestVar(S, x) IN IF i = 0 THEN NoVar ELSE S.pvars[i]
FindElemSize(S, x) == LET i == FirstVar(S, x) IN IF i = 0 THEN 0 ELSE S.pvars[i].el
SetElemSize(S, x, el) ==
  LET i == FirstVar(S, x) IN IF i = 0 THEN S ELSE [S EXCEPT !.pvars[i].el = el]
UpdateSize(S, x, sz) ==
  LET i == FirstVar(S, x) IN IF i = 0 THEN S ELSE [S EXCEPT !.pvars[i].sz = sz]
SetStruct(S, x, st) ==
  LET i == LatestVar(S, x) IN IF i = 0 THEN S ELSE [S EXCEPT !.pvars[i].st = st]

FindTag(S, tag) == IF tag = "" THEN 0 ELSE Lowest({i \in DOMAIN S.tags : S.tags[i].tag = tag})
AddTag(S, tag, ms, sz) == [S EXCEPT !.tags = Append(@, [tag |-> tag, ms |-> ms, sz |-> sz])]
FindTypedef(S, x) == Lowest({i \in DOMAIN S.tdefs : S.tdefs[i].name = x})
FindEnum(S, x)    == Lowest({i \in DOMAIN S.enums : S.enums[i].name = x})
AddEnum(S, x, v)  == [S EXCEPT !.enums = Append(@, [name |-> x, v |-> v])]

(* find_member_*: the first member of that name, 0 for none.               *)
FindMember(ms, m) == Lowest({i \in DOMAIN ms : ms[i].name = m})
(* resolve_struct_type.                                                    *)
ResolveStruct(S, tag) == FindTag(S, tag)

(* "." and "->" on an unknown structure: the members of that name of all   *)
(* structures.                                                             *)
MembersNamed(S, m) ==
  UNION {{<<t, i>> : i \in {j \in DOMAIN S.tags[t].ms : S.tags[t].ms[j].name = m}}
           : t \in DOMAIN S.tags}
=============================================================================
