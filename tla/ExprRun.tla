-------------------------------- MODULE ExprRun --------------------------------
(***************************************************************************)
(* The code of one expression runs on the processor, inside a function     *)
(* with scalars Scalars and structures (their sizes in words in            *)
(* StructSizes).  A called function takes its arguments from where         *)
(* cgen_func_def has it look for them, may change every register that is   *)
(* not preserved and the stack below its frame, and writes a returned      *)
(* structure through the address in rdi.                                   *)
(***************************************************************************)
EXTENDS CgenExpr

CONSTANTS Exprs,        \* the expressions compiled
          Scalars, StructSizes,
          BitsOf,       \* how the values of names may compare with 0
          StackWords    \* the stack that is modelled

ASSUME SizesAssumption ==
  /\ StructSizes \in [DOMAIN StructSizes -> Nat]
  /\ StackWords \in Nat

VARIABLES expr, bits, code, ip, reg, zero, sp, mem, vars, structs, tr
machine == <<ip, reg, zero, sp, mem, vars, structs, tr>>
allVars == <<expr, bits, code, machine>>

Regs == {"rax", "rbx", "r10"} \cup {ArgRegs[j] : j \in 1 .. 6}
Junk == <<"junk">>
Top  == StackWords + 1

Start == [vars |-> [x \in Scalars |-> <<"v", x>>],
          structs |-> [s \in DOMAIN StructSizes |->
                         [w \in 1 .. StructSizes[s] |-> <<"init", s, w>>]]]

Init ==
  /\ expr \in Exprs
  /\ bits \in BitsOf
  /\ code = Gen(expr)
  /\ ip = 1
  /\ reg = [r \in Regs |-> Junk]
  /\ zero = FALSE
  /\ sp = Top
  /\ mem = [a \in 1 .. StackWords |-> Junk]
  /\ vars = Start.vars
  /\ structs = Start.structs
  /\ tr = <<>>

-----------------------------------------------------------------------------
Word(a) == IF a \in DOMAIN mem THEN mem[a] ELSE Junk
Read(a) ==
  CASE a[1] = "sp"  -> Word(a[2])
    [] a[1] = "fld" -> LET s == structs[a[2]] IN IF a[3] + 1 \in DOMAIN s THEN s[a[3] + 1] ELSE Junk
    [] a[1] = "&"   -> vars[a[2]]
    [] OTHER        -> Cell(a)

(* The words ws are written from address a on.                             *)
Write(a, ws) ==
  /\ mem' = IF a[1] # "sp" THEN mem
            ELSE [b \in DOMAIN mem |-> IF b - a[2] + 1 \in DOMAIN ws THEN ws[b - a[2] + 1] ELSE mem[b]]
  /\ vars' = IF a[1] # "&" THEN vars ELSE [vars EXCEPT ![a[2]] = ws[1]]
  /\ structs' = IF a[1] # "fld" THEN structs
                ELSE [structs EXCEPT ![a[2]] =
                        [w \in DOMAIN @ |-> IF w - a[3] \in DOMAIN ws THEN ws[w - a[3]] ELSE @[w]]]
  /\ tr' = IF a[1] \in {"sp", "&", "fld"} THEN tr ELSE Append(tr, <<"store", a, ws>>)

At(op) == ip <= Len(code) /\ code[ip].op = op
I      == code[ip]
NextIp == ip' = ip + 1
Fixed  == UNCHANGED <<expr, bits, code>>
(* rax, or another register, gets a value.                                 *)
Gets(r, v) == /\ reg' = [reg EXCEPT ![r] = v]
              /\ NextIp /\ Fixed /\ UNCHANGED <<zero, sp, mem, vars, structs, tr>>

DoImm     == At("imm") /\ Gets("rax", I.t)
DoMov     == At("mov") /\ Gets(I.d, reg[I.s])
DoLoadVar == At("loadvar") /\ Gets("rax", vars[I.x])
DoLea     == At("lea") /\ Gets(I.r, I.a)
DoLoad    == At("load") /\ Gets("rax", Read(reg[I.r]))
DoAlu     == At("alu") /\ Gets("rax", IF I.o = "+" THEN Plus(reg["rcx"], reg["rax"])
                                      ELSE <<I.o, reg["rcx"], reg["rax"]>>)
DoUn      == At("un") /\ Gets("rax", <<I.o, reg["rax"]>>)
DoShift   == At("shift") /\ Gets("rax", Scaled(I.m, reg["rax"]))
DoMulTop  == At("multop") /\ Gets("rax", Scaled(reg["rax"][2], Word(sp)))
(* cdq; mov ecx, m; idiv ecx.                                              *)
DoDiv ==
  /\ At("div")
  /\ reg' = [reg EXCEPT !["rax"] = Quotient(I.m, reg["rax"]), !["rcx"] = Num(I.m), !["rdx"] = Junk]
  /\ NextIp /\ Fixed /\ UNCHANGED <<zero, sp, mem, vars, structs, tr>>
DoLeaSp   == At("leasp") /\ Gets("rax", <<"sp", sp>>)
DoSetz    == At("setz") /\ Gets("rax", Bool(zero))

DoXchg ==
  /\ At("xchg")
  /\ reg' = [reg EXCEPT !["rax"] = reg["rcx"], !["rcx"] = reg["rax"]]
  /\ NextIp /\ Fixed /\ UNCHANGED <<zero, sp, mem, vars, structs, tr>>

DoPush ==
  /\ At("push")
  /\ sp' = sp - 1
  /\ mem' = [mem EXCEPT ![sp - 1] = reg["rax"]]
  /\ NextIp /\ Fixed /\ UNCHANGED <<reg, zero, vars, structs, tr>>

DoPop ==
  /\ At("pop")
  /\ sp' = sp + 1
  /\ reg' = [reg EXCEPT ![I.r] = Word(sp)]
  /\ NextIp /\ Fixed /\ UNCHANGED <<zero, mem, vars, structs, tr>>

DoMoveSp ==
  /\ At("movesp")
  /\ sp' = sp + I.n
  /\ NextIp /\ Fixed /\ UNCHANGED <<reg, zero, mem, vars, structs, tr>>

DoStoreVar ==
  /\ At("storevar")
  /\ Write(<<"&", I.x>>, <<reg["rax"]>>)
  /\ NextIp /\ Fixed /\ UNCHANGED <<reg, zero, sp>>

DoStore ==
  /\ At("store")
  /\ Write(reg["rcx"], <<reg["rax"]>>)
  /\ NextIp /\ Fixed /\ UNCHANGED <<reg, zero, sp>>

DoCopy ==
  /\ At("copy")
  /\ Write(reg["rdi"], [w \in 1 .. I.n |-> Read(Plus(reg["rsi"], Num(w - 1)))])
  /\ reg' = [reg EXCEPT !["rsi"] = Junk, !["rdi"] = Junk, !["rcx"] = Junk]
  /\ NextIp /\ Fixed /\ UNCHANGED <<zero, sp>>

(* test eax, eax sees the low half only; test rax, rax all of it.          *)
DoTest ==
  /\ At("test")
  /\ LET b == Bits(bits, reg["rax"])
     IN  zero' = (b = "zero" \/ (b = "high" /\ ~I.wide))
  /\ NextIp /\ Fixed /\ UNCHANGED <<reg, sp, mem, vars, structs, tr>>

DoJump ==
  /\ At("jump")
  /\ ip' = ip + 1 + IF I.c = "always" \/ (I.c = "z" /\ zero) \/ (I.c = "nz" /\ ~zero)
                    THEN I.d ELSE 0
  /\ Fixed /\ UNCHANGED <<reg, zero, sp, mem, vars, structs, tr>>

(* Parameter j of a function: an integer register, shifted by one when rdi *)
(* has the address of the structure returned, or the stack above its       *)
(* return address and saved rbp, [rbp + 10h].                              *)
Received(j, hidden) ==
  LET r == j - 1 + hidden
  IN  IF r < 6 THEN reg[ArgRegs[r + 1]] ELSE Word(sp + r - 6)
Invoke(f, n, w) ==
  LET t  == <<"call", f, [j \in 1 .. n |-> Received(j, IF w > 1 THEN 1 ELSE 0)]>>
      at == IF w > 1 /\ reg["rdi"][1] = "sp" THEN reg["rdi"][2] ELSE 0
  IN  /\ mem' = [b \in DOMAIN mem |->
                   IF at > 0 /\ b - at + 1 \in 1 .. w THEN Result(t, w)[b - at + 1]
                   ELSE IF b < sp THEN Junk ELSE mem[b]]
      /\ reg' = [r \in Regs |-> IF r # "rax" THEN Junk ELSE IF w > 1 THEN reg["rdi"] ELSE t]
      /\ tr' = Append(tr, <<f, t[3]>>)
      /\ NextIp /\ Fixed /\ UNCHANGED <<zero, sp, vars, structs>>

DoCall    == At("call") /\ Invoke(<<"fn", I.f>>, I.n, I.w)
DoCallReg == At("callreg") /\ Invoke(reg[I.r], I.n, 0)

(* The processor keeps its return address in rcx.                          *)
DoSyscall ==
  /\ At("syscall")
  /\ LET t == <<"syscall", [r \in I.rs |-> reg[r]]>>
     IN  /\ reg' = [reg EXCEPT !["rax"] = t, !["rcx"] = Junk]
         /\ tr' = Append(tr, t)
  /\ NextIp /\ Fixed /\ UNCHANGED <<zero, sp, mem, vars, structs>>

(* xadd [rdx], rax and cmpxchg [rdx], rax.                                 *)
DoLocked ==
  /\ At("locked")
  /\ LET old == Read(reg["rdx"])
     IN  /\ Write(reg["rdx"], <<Exchanged(I.o, old, reg["rax"], reg["rax"])>>)
         /\ reg' = [reg EXCEPT !["rax"] = old]
  /\ NextIp /\ Fixed /\ UNCHANGED <<zero, sp>>

Next ==
  \/ DoImm \/ DoMov \/ DoLoadVar \/ DoLea \/ DoLoad \/ DoAlu \/ DoUn \/ DoShift
  \/ DoMulTop \/ DoLeaSp \/ DoSetz \/ DoXchg \/ DoPush \/ DoPop \/ DoMoveSp
  \/ DoStoreVar \/ DoStore \/ DoCopy \/ DoTest \/ DoJump \/ DoCall \/ DoCallReg
  \/ DoSyscall \/ DoLocked \/ DoDiv

Spec == Init /\ [][Next]_allVars

-----------------------------------------------------------------------------
Done == ip > Len(code)

(* The processor stays within the code it was given, the stack and the     *)
(* registers that exist.                                                   *)
InBounds ==
  /\ expr \in Exprs /\ bits \in BitsOf
  /\ ip \in 1 .. Len(code) + 1
  /\ DOMAIN reg = Regs /\ zero \in BOOLEAN
  /\ sp \in 1 .. Top /\ DOMAIN mem = 1 .. StackWords
  /\ DOMAIN vars = Scalars
  /\ \A s \in DOMAIN StructSizes : Len(structs[s]) = StructSizes[s]

(* When the code of an expression ends, rax has its value, the variables   *)
(* and structures of the function have changed as C says, and the calls    *)
(* and stores made were those of C, each call with its arguments and in an *)
(* order C allows: every operand, argument, function pointer and returned  *)
(* structure outlived what was computed after it (cgen_expr).  rsp is      *)
(* where it was, and on the way nothing was taken from the stack that the  *)
(* expression's own code had not put there (push_rax, pop_rcx and the rsp  *)
(* adjustments around calls).                                              *)
ComputesAsC ==
  /\ InBounds
  /\ Done => sp = Top /\ \E o \in Eval(expr, Start, bits) :
                /\ IsStruct(expr) \/ o.v = reg["rax"]
                /\ o.env = [vars |-> vars, structs |-> structs]
                /\ o.tr = tr
=============================================================================
