--------------------------------- MODULE Exprs ---------------------------------
(***************************************************************************)
(* The expressions of the compiled language (the expression kinds of       *)
(* AstNode in tcc.h) and what C says of each: its value, what it stores    *)
(* and which calls it makes, in which order.  Memory is counted in words   *)
(* of 8 bytes, the unit of the stack; arithmetic is symbolic: the value of *)
(* l op r is the term <<op, l, r>>, so that a value tells how it was       *)
(* computed.                                                               *)
(*                                                                         *)
(* A variable env has the values of the scalars (vars) and of the          *)
(* structures (structs, a sequence of words each) of the function.         *)
(***************************************************************************)
EXTENDS Integers, SequencesExt

(* How a value compares with 0: "zero", "low" when its low 32 bits are not *)
(* all 0, "high" when only bits above are set.  bits gives it for the      *)
(* values of variables, constants and functions by name; a computed value  *)
(* is "low".                                                               *)
Bits(bits, t) ==
  CASE t[1] = "imm"                   -> IF t[2] = 0 THEN "zero" ELSE "low"
    [] t[1] \in {"v", "c"}            -> bits[t[2]]
    [] t[1] = "call" /\ t[2][1] = "fn" -> bits[t[2][2]]
    [] OTHER                          -> "low"
IsTrue(bits, t) == Bits(bits, t) # "zero"

Num(n)  == <<"imm", n>>
Bool(b) == Num(IF b THEN 1 ELSE 0)

(* Addresses: a word of a structure of the function, a scalar of the       *)
(* function, a word of the stack, or a term.                               *)
Plus(a, b) ==
  CASE a[1] = "fld" /\ b[1] = "imm" -> <<"fld", a[2], a[3] + b[2]>>
    [] a[1] = "sp" /\ b[1] = "imm"  -> <<"sp", a[2] + b[2]>>
    [] b = Num(0)                   -> a
    [] OTHER                        -> <<"+", a, b>>
Quotient(m, t) == <<"quotient", m, t>>
Scaled(m, t) == IF t[1] = "imm" THEN Num(m * t[2]) ELSE <<"scale", m, t>>

(* A term for a word of the memory outside the function.                   *)
Cell(a) == <<"*", a>>
(* The words of the structure that a call returns.                         *)
Result(t, n) == [w \in 1 .. n |-> <<"word", t, w>>]

-----------------------------------------------------------------------------
(* Whether evaluating e does more than yield a value.                      *)
RECURSIVE Acts(_)
Parts(e) ==
  CASE e.k \in {"op", "and", "or", "comma", "index", "padd", "psub", "assign"} -> {e.l, e.r}
    [] e.k = "cond"                                   -> {e.c, e.t, e.e}
    [] e.k \in {"un", "not", "deref", "member", "arrow"} -> {e.e}
    [] OTHER                                          -> {}
Acts(e) == e.k \in {"call", "assign", "inc"} \/ \E p \in Parts(e) : Acts(p)

(* Eval(e, env, bits): the outcomes C allows - value v, variables env and  *)
(* the events tr: calls <<function, arguments>> and stores outside the     *)
(* function <<"store", address, words>>.  Operands and arguments are       *)
(* evaluated in any order.                                                 *)
RECURSIVE Eval(_, _, _)
Outcome(v, env, tr) == [v |-> v, env |-> env, tr |-> tr]

Then(e, o, bits) ==
  {[x EXCEPT !.tr = o.tr \o x.tr] : x \in Eval(e, o.env, bits)}

Both(l, r, env, bits) ==
  UNION {{[l |-> a.v, r |-> b.v, env |-> b.env, tr |-> b.tr] : b \in Then(r, a, bits)}
           : a \in Eval(l, env, bits)}
  \cup UNION {{[l |-> a.v, r |-> b.v, env |-> a.env, tr |-> a.tr] : a \in Then(l, b, bits)}
           : b \in Eval(r, env, bits)}

(* The arguments still to be evaluated are todo; those that do nothing but *)
(* yield a value come first.                                               *)
RECURSIVE EvalArgs(_, _, _, _)
EvalArgs(args, todo, o, bits) ==
  IF todo = {} THEN {o}
  ELSE LET quiet == {j \in todo : ~Acts(args[j])}
           next  == IF quiet = {} THEN todo ELSE {CHOOSE j \in quiet : TRUE}
       IN  UNION {UNION {EvalArgs(args, todo \ {j},
                                  [x EXCEPT !.v = [o.v EXCEPT ![j] = x.v]], bits)
                           : x \in Then(args[j], o, bits)} : j \in next}

Logical(e, env, bits) ==
  UNION {IF IsTrue(bits, a.v) = (e.k = "or")
         THEN {[a EXCEPT !.v = Bool(e.k = "or")]}
         ELSE {[b EXCEPT !.v = Bool(IsTrue(bits, b.v))] : b \in Then(e.r, a, bits)}
           : a \in Eval(e.l, env, bits)}

Called(e, env, bits) ==
  LET none  == Outcome([j \in DOMAIN e.args |-> Num(0)], env, <<>>)
      fs    == IF e.via = "name" THEN {Outcome(<<"fn", e.fn>>, env, <<>>)}
               ELSE IF e.via = "local" THEN {Outcome(env.vars[e.fn], env, <<>>)}
               ELSE Eval(e.target, env, bits)
      Call(f, x) == LET t == <<"call", f, x.v>>
                    IN  Outcome(IF e.words > 1 THEN Result(t, e.words) ELSE t,
                                x.env, Append(x.tr, <<f, x.v>>))
  IN  UNION {{Call(f.v, x) : x \in EvalArgs(e.args, DOMAIN e.args,
                                            [none EXCEPT !.env = f.env, !.tr = f.tr], bits)}
               : f \in fs}

(* The outcomes of the address of an lvalue.                               *)
Place(e, env, bits) ==
  CASE e.k = "var"    -> {Outcome(<<"&", e.x>>, env, <<>>)}
    [] e.k = "svar"   -> {Outcome(<<"fld", e.s, 0>>, env, <<>>)}
    [] e.k = "member" -> {Outcome(<<"fld", e.e.s, e.w>>, env, <<>>)}
    [] e.k = "arrow"  -> {[x EXCEPT !.v = Plus(x.v, Num(e.w))] : x \in Eval(e.e, env, bits)}
    [] e.k = "deref"  -> Eval(e.e, env, bits)
    [] e.k = "index"  -> {Outcome(Plus(x.l, Scaled(e.m, x.r)), x.env, x.tr)
                            : x \in Both(e.l, e.r, env, bits)}

(* The value v, a word or a structure, stored at address a.                *)
IsWide(e)   == e.k = "svar" \/ (e.k = "call" /\ e.words > 1)
Words(e, v) == IF IsWide(e) THEN v ELSE <<v>>
Stored(o, a, ws) ==
  CASE a[1] = "&"   -> [o EXCEPT !.env.vars[a[2]] = ws[1]]
    [] a[1] = "fld" -> [o EXCEPT !.env.structs[a[2]] =
                          [w \in DOMAIN @ |-> IF w - a[3] \in DOMAIN ws THEN ws[w - a[3]]
                                              ELSE @[w]]]
    [] OTHER        -> [o EXCEPT !.tr = Append(@, <<"store", a, ws>>)]
Contents(env, a) ==
  CASE a[1] = "&"   -> env.vars[a[2]]
    [] a[1] = "fld" -> env.structs[a[2]][a[3] + 1]
    [] OTHER        -> Cell(a)

Assigned(e, env, bits) ==
  UNION {{Stored([a EXCEPT !.v = v.v], a.v, Words(e.r, v.v)) : a \in {[p EXCEPT !.tr = v.tr \o p.tr]
             : p \in Place(e.l, v.env, bits)}} : v \in Eval(e.r, env, bits)}
  \cup UNION {{Stored(v, a.v, Words(e.r, v.v)) : v \in Then(e.r, a, bits)}
                : a \in Place(e.l, env, bits)}

Incremented(e, env, bits) ==
  {LET old == Contents(a.env, a.v)
       new == <<e.op, old>>
   IN  Stored([a EXCEPT !.v = IF e.post THEN old ELSE new], a.v, <<new>>)
     : a \in Place(e.e, env, bits)}

(* Element i of m words of a base that is an array returned in a structure *)
(* or a pointer.                                                           *)
Element(e, env, base, i) ==
  IF e.l.k = "member" /\ e.l.n > 1
  THEN LET ws == SubSeq(base, e.m * i[2] + 1, e.m * i[2] + e.m)
       IN  IF e.m = 1 THEN ws[1] ELSE ws
  ELSE LET a == Plus(base, Scaled(e.m, i)) IN IF e.m = 1 THEN Contents(env, a) ELSE a
(* A structure that is an element of an array in memory is known by its    *)
(* address.                                                                *)
ByAddress(e) == e.k = "index" /\ ~(e.l.k = "member" /\ e.l.n > 1)
Field(e, env, v) ==
  IF ByAddress(e.e) THEN Contents(env, Plus(v, Num(e.w)))
  ELSE IF e.n = 1 THEN v[e.w + 1] ELSE SubSeq(v, e.w + 1, e.w + e.n)

-----------------------------------------------------------------------------
(* An inline assembly statement: operands ins (constraint c, expression    *)
(* e) and outs (x, the variable that gets rax; far when its slot is more   *)
(* than 128 bytes below rbp; local unless it is a variable of the file),   *)
(* and a template: moves of operands (of) to registers (reg), perhaps a    *)
(* constant for rax (num), and one instruction (ins).                      *)
LetterReg == [a |-> "rax", D |-> "rdi", S |-> "rsi", d |-> "rdx", b |-> "rbx", c |-> "rcx"]
Bound(e) == {<<LetterReg[e.ins[j].c], j>> : j \in {i \in DOMAIN e.ins : e.ins[i].c # "r"}}
            \cup {<<m.reg, m.of>> : m \in Range(e.moves)}
Asked(e) == {b[1] : b \in Bound(e)} \cup (IF e.num = <<>> THEN {} ELSE {"rax"})
(* What the registers hold when the instruction is executed.               *)
Loaded(e, values) ==
  [r \in Asked(e) |-> IF r = "rax" /\ e.num # <<>> THEN Num(e.num[1])
                      ELSE values[CHOOSE j \in DOMAIN e.ins : <<r, j>> \in Bound(e)]]
Exchanged(o, old, rax, new) == IF o = "xadd" THEN <<o, old, rax>> ELSE <<o, old, rax, new>>

(* The instruction: the value it leaves in rax, and its event or store.    *)
Executed(e, o, regs) ==
  CASE e.instr = "syscall" -> [o EXCEPT !.v = <<"syscall", regs>>, !.tr = Append(@, <<"syscall", regs>>)]
    [] e.instr = "fs"      -> [o EXCEPT !.v = <<"fs:0">>]
    [] OTHER -> LET old == Contents(o.env, regs["rdx"])
                IN  Stored([o EXCEPT !.v = old], regs["rdx"],
                           <<Exchanged(e.instr, old, regs["rax"], regs[e.src])>>)
Assembled(e, env, bits) ==
  LET none == Outcome([j \in DOMAIN e.ins |-> Num(0)], env, <<>>)
      Out(o) == [o EXCEPT !.env.vars = [x \in DOMAIN @ |->
                   IF \E y \in Range(e.outs) : y.x = x THEN o.v ELSE @[x]]]
  IN  {Out(Executed(e, o, Loaded(e, o.v)))
         : o \in EvalArgs([j \in DOMAIN e.ins |-> e.ins[j].e], DOMAIN e.ins, none, bits)}

-----------------------------------------------------------------------------
Eval(e, env, bits) ==
  CASE e.k = "const" -> {Outcome(<<"c", e.c>>, env, <<>>)}
    [] e.k = "num"   -> {Outcome(Num(e.n), env, <<>>)}
    [] e.k = "var"   -> {Outcome(env.vars[e.x], env, <<>>)}
    [] e.k = "svar"  -> {Outcome(env.structs[e.s], env, <<>>)}
    [] e.k = "addr"  -> Place(e.e, env, bits)
    [] e.k = "op"    -> {Outcome(<<"op", x.l, x.r>>, x.env, x.tr) : x \in Both(e.l, e.r, env, bits)}
    [] e.k = "padd"  -> {Outcome(IF e.ptr = "left" THEN Plus(x.l, Scaled(e.m, x.r))
                                 ELSE Plus(x.r, Scaled(e.m, x.l)), x.env, x.tr)
                           : x \in Both(e.l, e.r, env, bits)}
    [] e.k = "psub"  -> {Outcome(IF e.two THEN Quotient(e.m, <<"-", x.l, x.r>>)
                                 ELSE <<"-", x.l, Scaled(e.m, x.r)>>, x.env, x.tr)
                           : x \in Both(e.l, e.r, env, bits)}
    [] e.k \in {"and", "or"} -> Logical(e, env, bits)
    [] e.k = "comma" -> UNION {Then(e.r, a, bits) : a \in Eval(e.l, env, bits)}
    [] e.k = "cond"  -> UNION {Then(IF IsTrue(bits, c.v) THEN e.t ELSE e.e, c, bits)
                                 : c \in Eval(e.c, env, bits)}
    [] e.k = "un"    -> {[x EXCEPT !.v = <<e.op, @>>] : x \in Eval(e.e, env, bits)}
    [] e.k = "not"   -> {[x EXCEPT !.v = Bool(~IsTrue(bits, @))] : x \in Eval(e.e, env, bits)}
    [] e.k = "deref" -> {[x EXCEPT !.v = Contents(x.env, @)] : x \in Eval(e.e, env, bits)}
    [] e.k = "index" -> {Outcome(Element(e, x.env, x.l, x.r), x.env, x.tr) : x \in Both(e.l, e.r, env, bits)}
    [] e.k = "member" -> {[x EXCEPT !.v = Field(e, x.env, @)] : x \in Eval(e.e, env, bits)}
    [] e.k = "arrow" -> {[x EXCEPT !.v = IF e.n = 1 THEN Contents(x.env, Plus(@, Num(e.w)))
                                           ELSE Plus(@, Num(e.w))]
                            : x \in Eval(e.e, env, bits)}
    [] e.k = "inc"   -> Incremented(e, env, bits)
    [] e.k = "assign" -> Assigned(e, env, bits)
    [] e.k = "call"  -> Called(e, env, bits)
    [] e.k = "asm"   -> Assembled(e, env, bits)

(* Whether the value of e is a structure, which has no place in a register,*)
(* or e is a statement, which has none.                                    *)
IsStruct(e) == IsWide(e) \/ (e.k = "assign" /\ IsWide(e.r)) \/ e.k = "asm"
=============================================================================
