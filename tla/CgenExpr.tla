-------------------------------- MODULE CgenExpr --------------------------------
(***************************************************************************)
(* cgen_expr.c: the code of an expression.  The value ends in rax; a       *)
(* binary operation saves its left operand on the stack, where the         *)
(* arguments of a call, the pointer of an indirect call and the buffer of  *)
(* a returned structure are put too.                                       *)
(*                                                                         *)
(* Abstracted: which bytes encode an instruction; the width of operands    *)
(* (everything is a word), except for the tests of conditions, which look  *)
(* at eax; where a variable lives (module Names), so a variable of the     *)
(* file is loaded like a local one; va_start and va_arg; floating point,   *)
(* which the build leaves out.  A node carries what the compiler looks up  *)
(* in its tables: the size of an element m and of a structure, in words.   *)
(***************************************************************************)
EXTENDS Exprs

Ins(op)         == [op |-> op]
Imm(t)          == [op |-> "imm", t |-> t]
Push            == Ins("push")
Pop(r)          == [op |-> "pop", r |-> r]
Mov(d, s)       == [op |-> "mov", d |-> d, s |-> s]
LoadVar(x)      == [op |-> "loadvar", x |-> x]
StoreVar(x)     == [op |-> "storevar", x |-> x]
Lea(r, a)       == [op |-> "lea", r |-> r, a |-> a]
Load(r)         == [op |-> "load", r |-> r]
Store           == Ins("store")
Alu(o)          == [op |-> "alu", o |-> o]
Un(o)           == [op |-> "un", o |-> o]
Shift(m)        == [op |-> "shift", m |-> m]
MulTop          == Ins("multop")
DivBy(m)        == [op |-> "div", m |-> m]
Xchg            == Ins("xchg")
Test(w)         == [op |-> "test", wide |-> w]
Setz            == Ins("setz")
Jump(c, d)      == [op |-> "jump", c |-> c, d |-> d]
MoveSp(n)       == [op |-> "movesp", n |-> n]
LeaSp           == Ins("leasp")
Copy(n)         == [op |-> "copy", n |-> n]
CallFn(f, n, w) == [op |-> "call", f |-> f, n |-> n, w |-> w]
CallReg(r, n)   == [op |-> "callreg", r |-> r, n |-> n]
Syscall(rs)     == [op |-> "syscall", rs |-> rs]
Locked(o)       == [op |-> "locked", o |-> o]

ArgRegs == <<"rdi", "rsi", "rdx", "rcx", "r8", "r9">>

RECURSIVE Gen(_), Addr(_)

-----------------------------------------------------------------------------
(* rax, an index, times the size of an element: a shift when the size is   *)
(* one of shifts, else a product with the index saved on the stack.        *)
Scale(m, shifts) ==
  IF m \in shifts THEN <<Shift(m)>>
  ELSE <<Push, Imm(Num(m)), MulTop, MoveSp(1)>>

(* The base and the offset of a member change places so that the sum can   *)
(* be formed: rax = index, rcx = base.                                     *)
Exchange == <<Mov("rsi", "rax"), Mov("rax", "rcx"), Mov("rcx", "rsi")>>

(* Mutant: the base is computed, and saved, before the index.              *)
IndexAddrBaseFirst(e) ==
  Gen(e.l) \o <<Push>> \o Gen(e.r) \o <<Pop("rcx")>> \o Scale(e.m, {1, 2}) \o <<Alu("+")>>
IndexAddr(e) ==
  Gen(e.r) \o <<Push>> \o Gen(e.l) \o <<Pop("rcx")>> \o Exchange \o Scale(e.m, {1, 2}) \o <<Alu("+")>>
(* An element of several words is known by its address.                    *)
LoadElement(e) == IF e.m = 1 THEN <<Load("rax")>> ELSE <<>>
GenIndex(e) == IndexAddr(e) \o LoadElement(e)

GenOp(e) == Gen(e.l) \o <<Push>> \o Gen(e.r) \o <<Pop("rcx"), Alu("op")>>

(* pointer + integer and integer + pointer.                                *)
GenPointerAdd(e) ==
  Gen(e.l) \o <<Push>> \o Gen(e.r) \o <<Pop("rcx")>>
  \o (IF e.ptr = "right" THEN <<Xchg>> ELSE <<>>) \o Scale(e.m, {1}) \o <<Alu("+")>>

(* pointer - integer and pointer - pointer.  known: the table of the right *)
(* operand's variable, or its node, has the size of an element; otherwise  *)
(* it is taken for an integer.  The operand is scaled before the           *)
(* subtraction, or the difference of addresses divided after it; elements  *)
(* of one byte, which need neither, are left out.                          *)
ScaledRight(e) == IF e.known THEN <<>> ELSE Scale(e.m, {1})
Divided(e) == IF e.known THEN <<DivBy(e.m)>> ELSE <<>>
GenPointerSub(e) ==
  Gen(e.l) \o <<Push>> \o Gen(e.r) \o <<Pop("rcx")>> \o ScaledRight(e) \o <<Alu("-")>> \o Divided(e)

-----------------------------------------------------------------------------
(* && and ||: the jumps out of both operands are patched to the place      *)
(* after the value of the other outcome; displacements count from the      *)
(* instruction after the jump.                                             *)
GenLogical(e) ==
  LET L   == Gen(e.l)
      R   == Gen(e.r)
      cc  == IF e.k = "or" THEN "nz" ELSE "z"
      j1  == Len(L) + 2
      j2  == j1 + Len(R) + 2
      ep  == j2 + 2
      out == ep + 1
      end == out + 1
  IN  L \o <<Test(FALSE), Jump(cc, out - (j1 + 1))>>
      \o R \o <<Test(FALSE), Jump(cc, out - (j2 + 1)),
                Imm(Bool(e.k = "and")), Jump("always", end - (ep + 1)), Imm(Bool(e.k = "or"))>>

GenComma(e) == Gen(e.l) \o Gen(e.r)

GenCond(e) ==
  LET C == Gen(e.c)
      T == Gen(e.t)
      E == Gen(e.e)
      je   == Len(C) + 2
      jmp  == je + Len(T) + 2
      else == jmp + 1
      end  == else + Len(E) + 1
  IN  C \o <<Test(FALSE), Jump("z", else - (je + 1))>>
      \o T \o <<Push, Jump("always", end - (jmp + 1))>>
      \o E \o <<Push, Pop("rax")>>

-----------------------------------------------------------------------------
(* The address of an lvalue, or of a structure that a call returns.        *)
AddOffset(w) == IF w = 0 THEN <<>> ELSE <<Mov("rcx", "rax"), Imm(Num(w)), Alu("+")>>
ArrowAddr(e) ==
  Gen(e.e) \o IF e.w = 0 THEN <<>> ELSE <<Push, Imm(Num(e.w)), Pop("rcx"), Alu("+")>>
MemberAddr(e) ==
  IF e.e.k = "svar" THEN <<Lea("rax", <<"fld", e.e.s, e.w>>)>> ELSE Addr(e.e) \o AddOffset(e.w)
Addr(e) ==
  CASE e.k = "var"    -> <<Lea("rax", <<"&", e.x>>)>>
    [] e.k = "svar"   -> <<Lea("rax", <<"fld", e.s, 0>>)>>
    [] e.k = "index"  -> IndexAddr(e)
    [] e.k = "member" -> MemberAddr(e)
    [] e.k = "arrow"  -> ArrowAddr(e)
    [] e.k = "deref"  -> Gen(e.e)
    [] OTHER          -> Gen(e)

LoadOne(e)   == IF e.n = 1 THEN <<Load("rax")>> ELSE <<>>
GenMember(e) == MemberAddr(e) \o LoadOne(e)
GenArrow(e)  == ArrowAddr(e) \o LoadOne(e)

GenAddressOf(e) == Addr(e.e)
GenDeref(e)     == Gen(e.e) \o <<Load("rax")>>
GenUnary(e)     == Gen(e.e) \o <<Un(e.op)>>
GenNot(e)       == Gen(e.e) \o <<Test(e.wide), Setz>>

(* The operand of every unary operator but & is evaluated first: that of   *)
(* ++ and -- for nothing, since its address is computed after it.          *)
GenIncDec(e) ==
  Gen(e.e) \o Addr(e.e) \o <<Push, Pop("rcx")>>
  \o (IF e.post THEN <<Load("rcx"), Push>> ELSE <<>>)
  \o <<Load("rcx"), Un(e.op), Store>>
  \o (IF e.post THEN <<Pop("rax")>> ELSE <<>>)

-----------------------------------------------------------------------------
(* Assignments.  rcx is the address; a structure is copied from rax.       *)
CopyWords(n) == <<Mov("rsi", "rax"), Mov("rdi", "rcx"), Copy(n)>>
Size(e) == IF e.k = "call" /\ e.words > 1 THEN e.words ELSE IF e.k = "svar" THEN e.n ELSE 1
StoreWords(e) == IF Size(e.r) = 1 THEN <<Store>> ELSE CopyWords(Size(e.r))

AssignIndex(e) ==
  Gen(e.l.l) \o <<Push>> \o Gen(e.l.r) \o <<Pop("rcx")>> \o Scale(e.l.m, {1, 2}) \o <<Alu("+"), Push>>
  \o Gen(e.r) \o <<Pop("rcx")>> \o StoreWords(e)
AssignDeref(e) == Gen(e.l.e) \o <<Push>> \o Gen(e.r) \o <<Pop("rcx"), Store>>
AssignStruct(e) ==
  Addr(e.r) \o <<Mov("rsi", "rax"), Lea("rdi", <<"fld", e.l.s, 0>>), Copy(e.l.n)>>
AssignVar(e) == Gen(e.r) \o <<StoreVar(e.l.x)>>
AssignMember(e) ==
  Gen(e.r) \o <<Push>> \o Addr(e.l) \o <<Mov("rcx", "rax"), Pop("rax")>> \o StoreWords(e)
GenAssign(e) ==
  CASE e.l.k = "index"              -> AssignIndex(e)
    [] e.l.k = "deref"              -> AssignDeref(e)
    [] e.l.k = "svar"               -> AssignStruct(e)
    [] e.l.k = "var"                -> AssignVar(e)
    [] e.l.k \in {"member", "arrow"} -> AssignMember(e)

-----------------------------------------------------------------------------
(* Calls.  Arguments 7 and later are pushed from the last to the seventh,  *)
(* then space for a returned structure and its address, then arguments 1   *)
(* to 6, which are popped into their registers.                            *)
Argc(e)     == IF Len(e.args) > 14 THEN 14 ELSE Len(e.args)
OnStack(e)  == IF Argc(e) > 6 THEN Argc(e) - 6 ELSE 0
InRegs(e)   == Argc(e) - OnStack(e)
IsIndirect(e) == e.via # "name"
HasHidden(e)  == e.via = "name" /\ e.words > 1
Buffer(e)     == IF HasHidden(e) THEN 2 * ((e.words + 1) \div 2) ELSE 0

PushTarget(e) ==
  CASE e.via = "name"  -> <<>>
    [] e.via = "local" -> <<LoadVar(e.fn), Push>>
    [] e.via = "expr"  -> Gen(e.target) \o <<Push>>

PushStackArgs(e) ==
  FlattenSeq([j \in 1 .. OnStack(e) |-> Gen(e.args[Argc(e) + 1 - j]) \o <<Push>>])

PushHidden(e) == IF HasHidden(e) THEN <<MoveSp(-Buffer(e)), LeaSp, Push>> ELSE <<>>
PushRegArgs(e) == FlattenSeq([j \in 1 .. InRegs(e) |-> Gen(e.args[j]) \o <<Push>>])

(* The arguments are popped from the last to the first; one whose place    *)
(* is beyond the sixth register stays.  A returned structure's address was *)
(* pushed first, is popped last and takes the first register.              *)
PopArg(e, ai) ==
  IF ai >= 6 THEN <<>> ELSE <<Pop("rax"), Mov(ArgRegs[ai + 1], "rax")>>
PopArgs(e) ==
  LET total == Argc(e) + IF HasHidden(e) THEN 1 ELSE 0
  IN  FlattenSeq([j \in 1 .. total |-> PopArg(e, total - j)])

CallIt(e) ==
  IF ~IsIndirect(e) THEN <<CallFn(e.fn, Len(e.args), IF HasHidden(e) THEN e.words ELSE 0)>>
  ELSE IF Argc(e) > 3 THEN <<Pop("rax"), Mov("r10", "rax"), CallReg("r10", Len(e.args))>>
  ELSE <<Pop("rcx"), CallReg("rcx", Len(e.args))>>

CleanUp(e) == (IF OnStack(e) > 0 THEN <<MoveSp(OnStack(e))>> ELSE <<>>)
              \o (IF Buffer(e) > 0 THEN <<MoveSp(Buffer(e))>> ELSE <<>>)

GenCall(e) ==
  PushTarget(e) \o PushStackArgs(e) \o PushHidden(e) \o PushRegArgs(e) \o PopArgs(e)
  \o CallIt(e) \o CleanUp(e)

-----------------------------------------------------------------------------
(* cgen_asm.c.  The operands are computed in their order, but for the      *)
(* first "a", which comes last as every one passes through rax; moves in   *)
(* the template are not looked at: "r" stands for r10, r8, r9 in turn.     *)
(* The template is recognised by its instruction, which is emitted with    *)
(* the registers it has there; a set of registers is noted with a system   *)
(* call, whose number the model leaves open.  Of the results only those    *)
(* that are variables found in locals are stored, at an offset of a byte.  *)
ExtRegs == <<"r10", "r8", "r9">>
ToReg(e, j) ==
  LET r == Cardinality({i \in 1 .. j : e.ins[i].c = "r"})
  IN  CASE e.ins[j].c = "a" -> <<>>
        [] e.ins[j].c = "r" -> IF r <= 3 THEN <<Mov(ExtRegs[r], "rax")>> ELSE <<>>
        [] OTHER            -> <<Mov(LetterReg[e.ins[j].c], "rax")>>
AsmInputs(e) ==
  LET As   == {j \in DOMAIN e.ins : e.ins[j].c = "a"}
      Rax == {j \in As : \A i \in As : j <= i}
  IN  FlattenSeq([j \in DOMAIN e.ins |-> IF j \in Rax THEN <<>> ELSE Gen(e.ins[j].e) \o ToReg(e, j)])
      \o FlattenSeq([j \in DOMAIN e.ins |-> IF j \in Rax THEN Gen(e.ins[j].e) ELSE <<>>])
AsmTemplate(e) ==
  CASE e.instr = "syscall" -> (IF e.num = <<>> THEN <<>> ELSE <<Imm(Num(e.num[1]))>>) \o <<Syscall(Asked(e))>>
    [] e.instr = "fs"      -> <<Imm(<<"fs:0">>)>>
    [] OTHER               -> <<Locked(e.instr)>>
AsmOutput(o) == IF ~o.local THEN <<>>
                ELSE IF o.far THEN <<Lea("rcx", <<"elsewhere", o.x>>), Store>>
                ELSE <<StoreVar(o.x)>>
GenAsm(e) ==
  AsmInputs(e) \o (IF e.instr = "unknown" THEN <<>>
                   ELSE AsmTemplate(e) \o FlattenSeq([j \in DOMAIN e.outs |-> AsmOutput(e.outs[j])]))

-----------------------------------------------------------------------------
Gen(e) ==
  CASE e.k = "const"  -> <<Imm(<<"c", e.c>>)>>
    [] e.k = "num"    -> <<Imm(Num(e.n))>>
    [] e.k = "var"    -> <<LoadVar(e.x)>>
    [] e.k = "svar"   -> <<Lea("rax", <<"fld", e.s, 0>>)>>
    [] e.k = "op"     -> GenOp(e)
    [] e.k = "padd"   -> GenPointerAdd(e)
    [] e.k = "psub"   -> GenPointerSub(e)
    [] e.k \in {"and", "or"} -> GenLogical(e)
    [] e.k = "comma"  -> GenComma(e)
    [] e.k = "cond"   -> GenCond(e)
    [] e.k = "index"  -> GenIndex(e)
    [] e.k = "member" -> GenMember(e)
    [] e.k = "arrow"  -> GenArrow(e)
    [] e.k = "addr"   -> GenAddressOf(e)
    [] e.k = "deref"  -> GenDeref(e)
    [] e.k = "un"     -> GenUnary(e)
    [] e.k = "not"    -> GenNot(e)
    [] e.k = "inc"    -> GenIncDec(e)
    [] e.k = "assign" -> GenAssign(e)
    [] e.k = "call"   -> GenCall(e)
    [] e.k = "asm"    -> GenAsm(e)
=============================================================================
