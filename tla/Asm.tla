-------------------------------- MODULE Asm --------------------------------
(* What an assembly source says, what the bytes of its object mean to an     *)
(* x86-64 processor, and that tas makes the second from the first.           *)
(*                                                                          *)
(* A program is a sequence of fragments, each with its tokens (text) and     *)
(* what it means: an instruction, a label, a directive, or nothing.          *)
EXTENDS Tas

CONSTANT Programs

VARIABLE prog

-----------------------------------------------------------------------------
(* Operands, as written and as a processor sees them: registers are numbers *)
(* there, and an address has a base, an index (-1: none), a scale and a     *)
(* displacement.                                                            *)

T(c) == [c |-> c, s |-> c, v |-> 0]
Name(n) == [c |-> "a", s |-> n, v |-> 0]
Num(v) == [c |-> "0", s |-> "", v |-> v]
Reg1(n) == <<[c |-> "%", s |-> n, v |-> 0]>>

R(n) == [k |-> "reg", n |-> n]
I(v) == [k |-> "imm", v |-> v]
Mem(base, index, scale, disp) == [k |-> "mem", base |-> base, index |-> index,
                                  scale |-> scale, disp |-> disp]

W(text_, means, size) == [text |-> text_, means |-> means, size |-> size]
WReg(n) == W(Reg1(n), R(Reg[n].n), Reg[n].size)
WImm(v) == W(<<[c |-> "$", s |-> "", v |-> v]>>, I(v), 0)
WHex(ds, v) == W(<<[c |-> "$", s |-> "0x", v |-> 0, ds |-> ds]>>, I(v), 0)
WAt(b) == W(<<T("(")>> \o Reg1(b) \o <<T(")")>>, Mem(Reg[b].n, -1, 1, 0), 0)
WMem(d, b) == W(<<Num(d), T("(")>> \o Reg1(b) \o <<T(")")>>, Mem(Reg[b].n, -1, 1, d), 0)
WSib(d, b, i, s) ==
  W(<<Num(d), T("(")>> \o Reg1(b) \o <<T(",")>> \o Reg1(i)
    \o (IF s = 1 THEN <<>> ELSE <<T(","), Num(s)>>) \o <<T(")")>>,
    Mem(Reg[b].n, Reg[i].n, s, d), 0)

-----------------------------------------------------------------------------
(* Fragments.                                                               *)

Newline == <<T("\n")>>
Says(k, n, t) == [k |-> k, n |-> n, text |-> t]
Blank == Says("nothing", "", Newline)
NumLabel(v) == [k |-> "local", v |-> v, text |-> <<Num(v), T(":")>> \o Newline]
OnLine(f) == [f EXCEPT !.text = Front(@)]      \* the next fragment's line
NameLabel(n) == Says("label", n, <<Name(n), T(":")>> \o Newline)
Directed(d, n) == Says(IF d = ".global" THEN ".globl" ELSE d, n, <<[c |-> ".", s |-> d, v |-> 0], Name(n)>> \o Newline)

Ins(m, text_, a, b, w) == [k |-> "ins", text |-> <<Name(m)>> \o text_ \o Newline,
                           means |-> [m |-> m, a |-> a, b |-> b, w |-> w]]
No == [k |-> "none"]
(* A 32-bit register is extended with zeros.                                *)
Two(m, a, b) ==
  Ins(m, a.text \o <<T(",")>> \o b.text, a.means, b.means,
      IF b.size = 32 /\ a.means.k = "imm" /\ a.means.v >= 0 THEN 64
      ELSE IF b.size # 0 THEN b.size ELSE a.size)
One(m, a) == Ins(m, a.text, a.means, No, 64)
Plain(m) == Ins(m, <<>>, No, No, 64)
CallReg(r) == Ins("call", <<T("*")>> \o Reg1(r), R(Reg[r].n), No, 64)
CallTo(n) == [k |-> "call", n |-> n, text |-> <<Name("call"), Name(n)>> \o Newline]
JumpTo(m, v, s) == [k |-> "jump", m |-> m, v |-> v, s |-> s,
                    text |-> <<Name(m), [c |-> "0", s |-> s, v |-> v]>> \o Newline]

(* A line that is reported; what a jump to no label leaves is not looked at. *)
Wrong(k, t) == Says(k, "", t \o Newline)

TextOf(p) == FlattenSeq([i \in DOMAIN p |-> p[i].text])

Init == \E p \in Programs : prog = p /\ TasInit(TextOf(p))
Stopped == pc \in {"done", "exit"} /\ UNCHANGED <<tasVars, prog>>
Next == (TasNext /\ UNCHANGED prog) \/ Stopped
Spec == Init /\ [][Next]_<<tasVars, prog>>

-----------------------------------------------------------------------------
(* The instruction set: what begins at code[k].                             *)

Byte(k) == IF k \in DOMAIN code THEN code[k] ELSE 0
Bit(v, n) == (v \div 2 ^ n) % 2
Signed(b) == IF b >= 128 THEN b - 256 ELSE b
Signed32(k) == Byte(k) + 256 * Byte(k + 1) + 65536 * Byte(k + 2)
               + 16777216 * Signed(Byte(k + 3))

HasRex(k) == Byte(k) \in 64..79
RexAt(k) == IF HasRex(k) THEN Byte(k) ELSE 0
RegField(k, rex) == ((Byte(k) \div 8) % 8) + 8 * Bit(rex, 2)

(* The operand a ModRM byte at k stands for, and where it ends.             *)
Effective(k, rex) ==
  LET mod   == Byte(k) \div 64
      sib   == Byte(k) % 8 = 4
      low   == IF sib THEN Byte(k + 1) % 8 ELSE Byte(k) % 8
      base  == low + 8 * Bit(rex, 0)
      inner == ((Byte(k + 1) \div 8) % 8) + 8 * Bit(rex, 1)
      index == IF sib /\ inner # 4 THEN inner ELSE -1
      scale == IF index = -1 THEN 1 ELSE 2 ^ (Byte(k + 1) \div 64)
      d     == IF sib THEN k + 2 ELSE k + 1
  IN  CASE mod = 3 -> [op |-> R((Byte(k) % 8) + 8 * Bit(rex, 0)), end |-> k + 1]
        [] mod = 0 /\ low = 5 -> [op |-> Mem(-2, index, scale, Signed32(d)), end |-> d + 4]
        [] mod = 0 /\ low # 5 -> [op |-> Mem(base, index, scale, 0), end |-> d]
        [] mod = 1 -> [op |-> Mem(base, index, scale, Signed(Byte(d))), end |-> d + 1]
        [] mod = 2 -> [op |-> Mem(base, index, scale, Signed32(d)), end |-> d + 4]

StoreOps == (137 :> "mov") @@ (49 :> "xor") @@ (133 :> "test")
LoadOps == (139 :> "mov") @@ (141 :> "lea")
Conditions == (117 :> "jne") @@ (116 :> "je") @@ (235 :> "jmp")
Singles == (244 :> "hlt") @@ (195 :> "ret") @@ (144 :> "nop")

X(m, a, b, w, end) == [ins |-> [m |-> m, a |-> a, b |-> b, w |-> w], end |-> end]

InsAt(k) ==
  LET o   == IF HasRex(k) THEN k + 1 ELSE k
      rex == RexAt(k)
      b   == Byte(o)
      w   == IF Bit(rex, 3) = 1 THEN 64 ELSE 32
      ea  == Effective(o + 1, rex)
      reg == R(RegField(o + 1, rex))
      ext == (Byte(o + 1) \div 8) % 8
      low == R((b % 8) + 8 * Bit(rex, 0))
  IN  CASE b \in DOMAIN StoreOps -> X(StoreOps[b], reg, ea.op, w, ea.end)
        [] b \in DOMAIN LoadOps -> X(LoadOps[b], ea.op, reg, w, ea.end)
        [] b = 199 /\ ext = 0 -> X("mov", I(Signed32(ea.end)), ea.op, w, ea.end + 4)
        [] b = 131 /\ ext \in {4, 5} -> X(IF ext = 4 THEN "and" ELSE "sub",
                                          I(Signed(Byte(ea.end))), ea.op, w, ea.end + 1)
        [] b \in 176..179 -> X("mov", I(Byte(o + 1)), low, 8, o + 2)
        [] b = 255 /\ ext = 2 -> X("call", ea.op, No, 64, ea.end)
        [] b = 15 /\ Byte(o + 1) = 5 -> X("syscall", No, No, 64, o + 2)
        [] b \in 88..95 -> X("pop", low, No, 64, o + 1)
        [] b \in 80..87 -> X("push", low, No, 64, o + 1)
        [] b \in DOMAIN Singles -> X(Singles[b], No, No, 64, o + 1)
        [] b = 232 -> X("call to", No, No, 64, o + 5)
        [] b \in DOMAIN Conditions -> X(Conditions[b], o + 1 + Signed(Byte(o + 1)), No, 64, o + 2)
        [] OTHER -> X("undefined", No, No, 64, o + 1)

(* The instructions of the code, each with its offset.                      *)
Listing ==
  LET from[k \in Nat] ==
        IF k > Len(code) THEN <<>>
        ELSE LET x == InsAt(k) IN <<[at |-> k - 1, ins |-> x.ins]>> \o from[x.end]
  IN  from[1]

-----------------------------------------------------------------------------
(* What a program means.                                                    *)

Executable(i) == prog[i].k \in {"ins", "jump", "call", "broken"}
Nth(i) == Cardinality({j \in 1..i - 1 : Executable(j)}) + 1
Offset(list, i) == IF Nth(i) > Len(list) THEN Len(code) ELSE list[Nth(i)].at

At(k, n) == {i \in DOMAIN prog : prog[i].k = k /\ prog[i].n = n}
(* Nf is the next label N, Nb the one before.                               *)
Target(i) == LET L == {l \in DOMAIN prog : prog[l].k = "local" /\ prog[l].v = prog[i].v}
             IN  IF prog[i].s = "f" THEN Min({l \in L : l > i}) ELSE Max({l \in L : l < i})
Spelled(m) == IF m = "jnz" THEN "jne" ELSE m

(* mov of a byte: the value is eight bits.                                  *)
Truncated(x) == IF x.w = 8 /\ x.a.k = "imm" THEN [x EXCEPT !.a.v = @ % 256] ELSE x

Means(list, i, x) ==
  CASE prog[i].k = "ins" -> x = Truncated(prog[i].means)
    [] prog[i].k = "jump" -> x.m = Spelled(prog[i].m) /\ x.a = Offset(list, Target(i))
    [] prog[i].k = "call" -> x.m = "call to"
    [] prog[i].k = "broken" -> TRUE

(* What no table of tas has room for: every .extern takes an entry, and     *)
(* every name that is called may.                                           *)
Count(S(_)) == Cardinality({i \in DOMAIN prog : S(i)})
Called == {prog[i].n : i \in {j \in DOMAIN prog : prog[j].k = "call"}}
TooLarge ==
  \/ Count(LAMBDA i : prog[i].k \in {"label", ".extern"}) + Cardinality(Called) > MaxSyms
  \/ Count(LAMBDA i : prog[i].k = "call") > MaxRels
  \/ \E n \in 1..MaxLocal - 1 :
       Count(LAMBDA i : prog[i].k = "jump" /\ prog[i].v = n /\ prog[i].s = "f") > MaxFixups
  \/ \E i \in DOMAIN prog : prog[i].k = "local" /\ prog[i].v >= MaxLocal
  \/ Len(code) + 7 > CodeSize

(* An object holds the instructions of the source, in their order: each    *)
(* with the operands written, jumps to the labels meant (encode_instr,      *)
(* parse_operand, apply_local_fixups); and a source is only given up when   *)
(* a table is full.                                                         *)
InstructionsAsWritten ==
  /\ pc = "done" =>
       LET list == Listing
       IN  /\ Len(list) = Count(Executable)
           /\ \A i \in DOMAIN prog : Executable(i) => Means(list, i, list[Nth(i)].ins)
  /\ pc = "exit" => TooLarge

(* Directives say it of a name, wherever they stand.                        *)
Marked(d, n) == At(d, n) # {}
NextLabel(i) == {j \in DOMAIN prog : j > i /\ prog[j].k = "label"}
LabelSymbol(list, i) ==
  [name |-> prog[i].n, offset |-> Offset(list, i),
   size |-> (IF NextLabel(i) = {} THEN Len(code) ELSE Offset(list, Min(NextLabel(i))))
            - Offset(list, i),
   global |-> Marked(".globl", prog[i].n), func |-> Marked(".type", prog[i].n),
   text |-> TRUE]

(* Every label is a symbol with the offset, size and marks of the source;   *)
(* the symbol a call is relocated by leads the linker to what is called:    *)
(* the label of that name if it can see it, else another file's (add_sym,   *)
(* find_sym, add_rel).                                                      *)
SymbolsAsWritten ==
  pc = "done" =>
    LET list == Listing
    IN  /\ {syms[k] : k \in {j \in DOMAIN syms : syms[j].text}}
             = {LabelSymbol(list, i) : i \in {j \in DOMAIN prog : prog[j].k = "label"}}
        /\ \A i \in DOMAIN prog : prog[i].k = "call" =>
             \E r \in DOMAIN rels :
               /\ rels[r].offset = Offset(list, i) + 1
               /\ syms[rels[r].sym].name = prog[i].n
               /\ \/ syms[rels[r].sym].text
                  \/ At("label", prog[i].n) = {} \/ Marked(".globl", prog[i].n)
        /\ Len(rels) = Count(LAMBDA i : prog[i].k = "call")
=============================================================================
