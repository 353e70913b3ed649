--------------------------------- MODULE MCExpr ---------------------------------
(***************************************************************************)
(* Expressions of every kind around operands that are variables, constants *)
(* and calls, and calls of every number of arguments.                      *)
(***************************************************************************)
EXTENDS ExprRun

V(x)            == [k |-> "var", x |-> x]
C(c)            == [k |-> "const", c |-> c]
N(n)            == [k |-> "num", n |-> n]
SV(s, n)        == [k |-> "svar", s |-> s, n |-> n]
Two(k, l, r)    == [k |-> k, l |-> l, r |-> r]
Cond(c, t, e)   == [k |-> "cond", c |-> c, t |-> t, e |-> e]
Index(l, r, m)  == [k |-> "index", l |-> l, r |-> r, m |-> m]
PAdd(l, r, p, m) == [k |-> "padd", l |-> l, r |-> r, ptr |-> p, m |-> m]
(* l - r: an integer, or a pointer whose size of an element is known.      *)
Less(l, r, m)    == [k |-> "psub", l |-> l, r |-> r, m |-> m, two |-> FALSE, known |-> FALSE]
Apart(l, r, m)   == [Less(l, r, m) EXCEPT !.two = TRUE, !.known = TRUE]
Deref(e)        == [k |-> "deref", e |-> e]
AddrOf(e)       == [k |-> "addr", e |-> e]
Neg(e)          == [k |-> "un", e |-> e, op |-> "neg"]
Not(e, wide)    == [k |-> "not", e |-> e, wide |-> wide]
Inc(e, post)    == [k |-> "inc", e |-> e, op |-> "inc", post |-> post]
Member(e, w, n) == [k |-> "member", e |-> e, w |-> w, n |-> n]
Arrow(e, w, n)  == [k |-> "arrow", e |-> e, w |-> w, n |-> n]
Assign(l, r)    == [k |-> "assign", l |-> l, r |-> r]
Call(f, args)   == [k |-> "call", via |-> "name", fn |-> f, args |-> args, words |-> 1]
CallPtr(x, args) == [Call(x, args) EXCEPT !.via = "local"]
CallAt(e, args) == [k |-> "call", via |-> "expr", fn |-> "", target |-> e, args |-> args,
                    words |-> 1]
Struct(f, args, n) == [Call(f, args) EXCEPT !.words = n]

A == V("a")
F == Call("f", <<A>>)
G == Call("g", <<>>)
S(n) == Struct("s", <<C("k")>>, n)

-----------------------------------------------------------------------------
(* Calls of n arguments, argument j of them e and the others constants.    *)
Plain(n)       == [j \in 1 .. n |-> N(j)]
With(n, j, e)  == [Plain(n) EXCEPT ![j] = e]
SomeArgs(max)  == {Plain(n) : n \in 0 .. max}
                  \cup {With(n, j, Call("f", Plain(7))) : n \in {max}, j \in 1 .. max}
                  \cup {With(2, 1, Member(Struct("s", Plain(2), 3), 2, 1))}
                  \cup {With(max, 2, Cond(A, F, G))}
Calls ==
  {Call("h", args) : args \in SomeArgs(9)}
  \cup {CallPtr("p", args) : args \in SomeArgs(6)}
  \cup {CallAt(e, args) : e \in {Index(V("q"), G, 1), Cond(A, V("p"), V("q"))},
                          args \in SomeArgs(6)}
  \cup {Member(Struct("s", args, n), w, 1) : args \in SomeArgs(5), n \in {2, 3}, w \in {0, 1}}

-----------------------------------------------------------------------------
(* Every kind of expression with small operands.                           *)
Small   == {A, C("k"), F, Member(S(2), 1, 1), Inc(V("b"), TRUE)}
Pointers(m) == {A, PAdd(A, F, "left", m), PAdd(V("q"), V("b"), "left", m), Less(V("p"), G, m)}
Differences ==
  UNION {{Less(l, r, m) : l \in Pointers(m), r \in Small} \cup {Apart(l, r, m) : l, r \in Pointers(m)}
           : m \in {1, 3}}
Lvalues == {V("c"), Index(V("q"), G, 1), Index(V("q"), C("k"), 3), Deref(V("p")),
            Member(SV("t", 6), 2, 1), Arrow(V("p"), 0, 1), Arrow(G, 2, 1)}
(* Those whose place is computed by a call.                                *)
Calling == {Index(V("q"), G, 1), Arrow(G, 2, 1)}
Over(E) ==
  {Two(k, l, r) : k \in {"op", "and", "or", "comma"}, l \in E, r \in E}
  \cup {Cond(c, t, e) : c \in {A, F}, t \in E, e \in E}
  \cup {PAdd(l, r, p, m) : l \in E, r \in E, p \in {"left", "right"}, m \in {1, 3}}
  \cup {Index(V("q"), e, m) : e \in E, m \in {1, 3}}
  \cup {Index(e, A, 1) : e \in E}
  \cup {Neg(e) : e \in E} \cup {Not(e, FALSE) : e \in E}
  \cup {Deref(e) : e \in E} \cup {Arrow(e, w, 1) : e \in E, w \in {0, 1}}
  \cup {Assign(V("c"), e) : e \in E}
Kinds ==
  Over(Small) \cup Differences
  \cup {Assign(l, e) : l \in Lvalues, e \in Small}
  \cup {Inc(l, post) : l \in Lvalues \ Calling, post \in BOOLEAN}
  \cup {AddrOf(l) : l \in Lvalues} \cup {Deref(AddrOf(V("a")))}

Deep ==
  {Two(k, l, r) : k \in {"op", "and", "or"}, l \in {F, Two("or", A, G), Cond(A, F, G)},
                  r \in {Two("and", G, F), Two("op", F, A), Cond(F, A, G)}}
  \cup {Two("and", Not(e, FALSE), F) : e \in {Two("or", A, F), Assign(V("b"), G)}}
  \cup {Two("and", Assign(V("b"), G), Call("f", <<V("b")>>)),
        Two("comma", Assign(V("c"), F), Two("op", V("c"), V("c"))),
        Assign(V("b"), Assign(V("c"), F)),
        Call("f", <<Call("f", <<Call("f", <<A, G>>), A>>), Two("op", A, G)>>)}

(* Structures: copied, passed through members, arrays in them.             *)
Structs ==
  {Assign(SV("t", 6), e) : e \in {SV("u", 6), S(6), Struct("s", Plain(5), 6)}}
  \cup {Assign(Member(SV("t", 6), w, 3), S(3)) : w \in {0, 3}}
  \cup {Assign(Arrow(V("p"), 0, 3), S(3))}
  \cup {Assign(Index(V("q"), i, 3), S(3)) : i \in {C("k"), G}}
  \cup {Index(Member(S(6), 2, 4), N(i), 1) : i \in 0 .. 3}
  \cup {Member(Index(Member(S(6), 0, 6), N(i), 3), w, 1) : i \in 0 .. 1, w \in 0 .. 2}
  \cup {Member(Index(V("q"), e, 3), w, 1) : e \in {A, F}, w \in {0, 2}}
  \cup {Two("op", Member(S(2), 1, 1), Member(S(3), 2, 1)),
        Index(Member(SV("t", 6), 2, 4), N(1), 1)}

-----------------------------------------------------------------------------
(* Inline assembly: system calls of up to six arguments as tcc_need.h      *)
(* writes them, numbers in the template, locked exchanges.                 *)
In(c, e)  == [c |-> c, e |-> e]
Out(x)    == [x |-> x, far |-> FALSE, local |-> TRUE]
Moved(k, r) == [of |-> k, reg |-> r]
Asm(instr, ins, outs) == [k |-> "asm", instr |-> instr, ins |-> ins, outs |-> outs,
                          moves |-> <<>>, num |-> <<>>, src |-> "rax"]
Operands(n, e) == SubSeq(<<In("a", e), In("D", A), In("S", V("b")), In("d", N(3)),
                           In("r", C("k")), In("r", V("c")), In("r", V("p"))>>, 1, n + 1)
Moves(n)       == SubSeq(<<Moved(5, "r10"), Moved(6, "r8"), Moved(7, "r9")>>, 1, n - 3)
Syscalls ==
  {[Asm("syscall", Operands(n, e), outs) EXCEPT !.moves = Moves(n)] :
     n \in 0 .. 6, e \in {N(60), A, Two("op", A, C("k")), Deref(V("p"))}, outs \in {<<>>, <<Out("b")>>}}
  \cup {[Asm("syscall", <<In("D", e), In("d", A)>>, <<Out("a")>>) EXCEPT !.num = <<39>>] :
          e \in {A, F, Index(V("q"), A, 1), Assign(V("b"), A), Cond(A, C("k"), V("b"))}}
  \cup {Asm("syscall", <<In("S", Index(V("q"), A, 3)), In(c, A), In("a", N(1))>>, <<>>) : c \in {"b", "c", "d"}}
Lockeds ==
  {Asm(i, <<In("d", e), In("a", C("k"))>>, <<Out("c")>>) :
     i \in {"xadd", "cmpxchg"}, e \in {AddrOf(V("a")), V("p"), AddrOf(Member(SV("t", 6), 2, 1))}}
  \cup {Asm("fs", <<>>, <<Out("a"), Out("b")>>)}
Assemblies == Syscalls \cup Lockeds

GoodExprs == Calls \cup Kinds \cup Deep \cup Structs \cup Assemblies

-----------------------------------------------------------------------------
TheScalars == {"a", "b", "c", "p", "q"}
TheStructs == "t" :> 6 @@ "u" :> 6
Named      == TheScalars \cup {"k", "f", "g", "h", "s"}
Vary(how)  == {[x \in Named |-> IF x = "a" THEN i ELSE IF x = "f" THEN j
                                ELSE IF x = "g" THEN l ELSE "low"] : i \in how, j \in how, l \in how}
NarrowBits == Vary({"zero", "low"})
WideBits   == Vary({"zero", "low", "high"})

(* A call through a pointer with an argument on the stack.                 *)
SevenThroughPointer == {CallPtr("p", Plain(7))}
(* A function with six parameters that returns a structure.                *)
SixAndStruct == {Member(Struct("s", Plain(6), 3), 0, 1)}
(* s.m = f() with a structure of 16 bytes, p->m = f() with one of 24.      *)
MemberGetsStruct == {Assign(Member(SV("t", 6), 0, 2), S(2))}
ArrowGetsStruct  == {Assign(Arrow(V("p"), 3, 3), S(3))}
(* A function of fifteen parameters.                                       *)
Fifteen == {Call("h", Plain(15))}
(* An operand whose code uses the register of one before it.               *)
AsmOperandOverwritten ==
  {Asm("syscall", <<In("a", N(1)), In("S", A), In("d", Index(V("q"), A, 1))>>, <<>>),
   Asm("syscall", <<In("a", F), In("D", A)>>, <<>>)}
(* Moves in a template, a result beyond a byte's offset or of the file, a  *)
(* new value that is not in rax.                                           *)
AsmMoves    == {[Asm("syscall", <<In("a", N(1)), In("r", A)>>, <<>>) EXCEPT !.moves = <<Moved(2, "rdi")>>]}
AsmOutputs  == {Asm("syscall", <<In("a", N(1))>>, <<o>>) :
                  o \in {[Out("b") EXCEPT !.far = TRUE], [Out("b") EXCEPT !.local = FALSE]}}
AsmExchange == {[Asm("cmpxchg", <<In("d", V("p")), In("c", V("b")), In("a", A)>>, <<>>) EXCEPT !.src = "rcx"]}
(* A pointer less a pointer that a call returns, which no table knows.     *)
PointerFromCall == {[Apart(A, F, 1) EXCEPT !.known = FALSE]}
(* q[g()]++ and ++g()->m.                                                  *)
PlaceComputedTwice == {Inc(l, post) : l \in Calling, post \in BOOLEAN}
(* x && y with x a long.                                                   *)
LongCondition == {Two("and", A, F)}
=============================================================================
