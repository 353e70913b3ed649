-------------------------------- MODULE Tas --------------------------------
(* tas.c, the assembler: one pass over a source, a line at a time, that      *)
(* puts bytes into elf_code_buf and fills the tables elf_write_object       *)
(* writes (ObjWriter).                                                      *)
(*                                                                          *)
(* A source is the sequence of its tokens, blanks left out, line ends kept.  *)
(* A token has the class its first character gives it - "%" a register, "$" *)
(* an immediate, "0" a number (or the reference 1f), "." a directive, "a" a *)
(* name, any other character itself - with its text s and value v; $0x has  *)
(* its digits ds as well, a capital as 16 more.  A blank or the line's end   *)
(* follows the name in a call, and no name holds digits before an f or b.   *)
EXTENDS Integers, SequencesExt, TLC

CONSTANTS MaxLocal,               \* MAX_LOCAL_LABELS
          MaxFixups,              \* fixups of one local label
          MaxSyms,                \* TAS_MAX_SYMS
          MaxRels,                \* ELF_MAX_RELS
          CodeSize                \* ELF_CODE_BUF_SIZE

ASSUME LimitsAssumption ==
  {MaxLocal, MaxFixups, MaxSyms, MaxRels, CodeSize} \subseteq Nat \ {0}

VARIABLES
  text,                           \* the source
  line,                           \* where the rest of the source begins
  pc,                             \* "line", "instruction", "done" or "exit"
  code,                           \* elf_code_buf
  syms,                           \* elf_syms
  rels,                           \* elf_rels
  offsets,                        \* local_offsets, -1 where undefined
  fixups,                         \* local_fixups, for each local label
  lastLabel,                      \* last_label_sym, 0 for none
  nextGlobal, nextFunc            \* next_is_global, next_is_func

tasVars == <<text, line, pc, code, syms, rels, offsets, fixups, lastLabel,
             nextGlobal, nextFunc>>

-----------------------------------------------------------------------------
(* Registers: their numbers, and the three widths they are named by.        *)

Low == <<"ax", "cx", "dx", "bx", "sp", "bp", "si", "di">>
Numbered == <<"r8", "r9", "r10", "r11", "r12", "r13", "r14", "r15">>
Bytes == <<"al", "cl", "dl", "bl", "spl", "bpl", "sil", "dil">>

RegTable ==
  {<<"r" \o Low[i], i - 1, 64>> : i \in 1..8} \cup
  {<<"e" \o Low[i], i - 1, 32>> : i \in 1..8} \cup
  {<<Bytes[i], i - 1, 8>> : i \in 1..8} \cup
  {<<Numbered[i], i + 7, 64>> : i \in 1..8} \cup
  {<<Numbered[i] \o "d", i + 7, 32>> : i \in 3..8} \cup
  {<<Numbered[i] \o "b", i + 7, 8>> : i \in 3..8}

(* find_reg *)
RegNames == {r[1] : r \in RegTable}
Reg == [n \in RegNames |-> LET r == CHOOSE x \in RegTable : x[1] = n
                           IN  [n |-> r[2], size |-> r[3]]]

-----------------------------------------------------------------------------
(* Operands.  next_tok finds nothing at the end of a line, or at a comment. *)

Nothing == [c |-> "", s |-> "", v |-> 0]
Tok(p) == IF p > Len(text) \/ text[p].c \in {"\n", "#"} THEN Nothing ELSE text[p]
Is(p, c) == Tok(p).c = c
IsReg(p) == Is(p, "%") /\ Tok(p).s \in RegNames

NoOperand == [kind |-> "none", reg |-> -1, size |-> 64, reg2 |-> -1,
              scale |-> 1, imm |-> 0, label |-> ""]
(* What parse_operand makes of digits: those of $0x are read in three runs,  *)
(* 0-9, a-f, A-F, whatever follows; an f or b after a number is a digit.    *)
HexRead(ds) ==
  LET Run(d) == CASE d < 10 -> 1 [] d \in 10..15 -> 2 [] OTHER -> 3
      n == Max({k \in 0..Len(ds) : \A j \in 2..k : Run(ds[j - 1]) <= Run(ds[j])})
  IN  FoldLeft(LAMBDA v, d : 16 * v + (d % 16), 0, SubSeq(ds, 1, n))
Value(t) == CASE t.s = "0x" -> HexRead(t.ds)
              [] t.s = "-0x" -> -HexRead(t.ds)
              [] t.s = "f" -> 10 * t.v + 54
              [] t.s = "b" -> 10 * t.v + 50
              [] OTHER -> t.v

Parsed(op, q) == [ok |-> TRUE, op |-> op, end |-> q]
Fails(p) == [ok |-> FALSE, op |-> NoOperand, end |-> p]

Named(kind, p) == [NoOperand EXCEPT !.kind = kind, !.reg = Reg[Tok(p).s].n,
                                    !.size = Reg[Tok(p).s].size]

(* disp(%base) and disp(%base,%index,scale); p is behind the parenthesis.   *)
Memory(p, start, kind, disp) ==
  LET scaled == Is(p + 3, ",")
      digits == scaled /\ Is(p + 4, "0") /\ Tok(p + 4).s = "" /\ Tok(p + 4).v >= 0
      close  == IF ~scaled THEN p + 3 ELSE IF digits THEN p + 5 ELSE p + 4
      scale  == IF digits /\ Tok(p + 4).v # 0 THEN Tok(p + 4).v ELSE 1
  IN  CASE ~IsReg(p) -> Fails(start)
        [] Is(p + 1, ")") -> Parsed([Named(kind, p) EXCEPT !.imm = disp], p + 2)
        [] Is(p + 1, ",") /\ IsReg(p + 2) /\ Is(close, ")") ->
             Parsed([Named("sib", p) EXCEPT !.imm = disp, !.scale = scale,
                                            !.reg2 = Reg[Tok(p + 2).s].n], close + 1)
        [] OTHER -> Fails(start)

(* (%base) and (%base,%index,scale), and the operand of a call.             *)
NoDisplacement(p) == Memory(p + 1, p, "mem", 0)
LabelOperand(p) ==
  Parsed([NoOperand EXCEPT !.kind = "imm", !.label = Tok(p).s], p + 1)

(* parse_operand *)
Operand(p) ==
  LET t == Tok(p)
  IN  CASE t.c = "" -> Parsed(NoOperand, p)
        [] t.c = "0" /\ Is(p + 1, "(") -> Memory(p + 2, p, "disp", Value(t))
        [] t.c = "(" -> NoDisplacement(p)
        [] t.c \in {"0", "$"} ->
             Parsed([NoOperand EXCEPT !.kind = "imm", !.imm = Value(t)], p + 1)
        [] t.c = "%" /\ IsReg(p) -> Parsed(Named("reg", p), p + 1)
        [] t.c = "*" /\ IsReg(p + 1) -> Parsed(Named("indirect", p + 1), p + 2)
        [] t.c \in {"a", "."} -> LabelOperand(p)
        [] OTHER -> Fails(p)

(* The operands of the mnemonic at p: the second one only behind a comma.   *)
Given(p) ==
  LET o0 == Operand(p + 1)
      o1 == Operand(o0.end + 1)
      none == Fails(p)
  IN  IF Is(p + 1, "") THEN <<none, none>>
      ELSE IF Is(o0.end, ",") THEN <<o0, o1>> ELSE <<o0, none>>

-----------------------------------------------------------------------------
(* Instructions.                                                            *)

Jumps == {"jnz", "jne", "je", "jmp"}
InMemory == {"mem", "disp"}

(* The format tas_assemble takes a mnemonic and its operands for.           *)
FormatOfTwo(a, b) ==
  CASE a.kind = "imm" /\ b.kind = "reg" -> IF b.size = 8 THEN "IR8" ELSE "IR"
    [] a.kind = "reg" /\ b.kind = "reg" -> "RR"
    [] a.kind \in InMemory /\ b.kind = "reg" -> "MR"
    [] a.kind = "reg" /\ b.kind \in InMemory -> "RM"
    [] a.kind = "sib" /\ b.kind = "reg" -> "LEA_MI"
    [] OTHER -> "NONE"
FormatOfCall(a) == CASE a.kind \in {"indirect", "reg"} -> "CALL_IND"
                     [] a.label # "" -> "CALL_DIR"
                     [] OTHER -> "NONE"
Format(m, o) ==
  LET a == o[1].op  b == o[2].op
  IN  CASE m = "call" -> IF o[1].ok THEN FormatOfCall(a) ELSE "NONE"
        [] m = "lea" -> IF a.kind = "sib" THEN "LEA_MI" ELSE "LEA_MR"
        [] m \in Jumps -> "JCC8"
        [] m \in {"ret", "hlt", "nop", "syscall"} -> "NONE"
        [] m = "pop" -> "POP"
        [] m = "push" -> "PUSH"
        [] o[1].ok /\ o[2].ok -> FormatOfTwo(a, b)
        [] OTHER -> "NONE"

(* find_instr_def and instr_enc: opcode and extension.                      *)
InstrTable ==
  [x \in {<<"mov", "RR">>, <<"mov", "RM">>} |-> [op |-> <<137>>, ext |-> 0]] @@
  (<<"mov", "IR">> :> [op |-> <<199>>, ext |-> 0]) @@
  (<<"mov", "IR8">> :> [op |-> <<176>>, ext |-> 0]) @@
  (<<"mov", "MR">> :> [op |-> <<139>>, ext |-> 0]) @@
  [x \in {<<"lea", "LEA_MR">>, <<"lea", "LEA_MI">>} |-> [op |-> <<141>>, ext |-> 0]] @@
  (<<"call", "CALL_DIR">> :> [op |-> <<232>>, ext |-> 0]) @@
  (<<"call", "CALL_IND">> :> [op |-> <<255>>, ext |-> 2]) @@
  (<<"syscall", "NONE">> :> [op |-> <<15, 5>>, ext |-> 0]) @@
  (<<"xor", "RR">> :> [op |-> <<49>>, ext |-> 0]) @@
  (<<"and", "IR">> :> [op |-> <<131>>, ext |-> 4]) @@
  (<<"sub", "IR">> :> [op |-> <<131>>, ext |-> 5]) @@
  (<<"test", "RR">> :> [op |-> <<133>>, ext |-> 0]) @@
  [x \in {<<"jnz", "JCC8">>, <<"jne", "JCC8">>} |-> [op |-> <<117>>, ext |-> 0]] @@
  (<<"je", "JCC8">> :> [op |-> <<116>>, ext |-> 0]) @@
  (<<"jmp", "JCC8">> :> [op |-> <<235>>, ext |-> 0]) @@
  (<<"pop", "POP">> :> [op |-> <<88>>, ext |-> 0]) @@
  (<<"push", "PUSH">> :> [op |-> <<80>>, ext |-> 0]) @@
  (<<"hlt", "NONE">> :> [op |-> <<244>>, ext |-> 0]) @@
  (<<"ret", "NONE">> :> [op |-> <<195>>, ext |-> 0]) @@
  (<<"nop", "NONE">> :> [op |-> <<144>>, ext |-> 0])

E1(v) == <<v % 256>>
E4(v) == [k \in 1..4 |-> (v \div 256 ^ (k - 1)) % 256]
Hi(r) == r \div 8
Rex(w, r, x, b) == LET v == 8 * w + 4 * r + 2 * x + b
                   IN  IF v = 0 THEN <<>> ELSE <<64 + v>>
ModRM(mod, reg, rm) == 64 * mod + 8 * (reg % 8) + (rm % 8)
ScaleBits(s) == CASE s = 8 -> 3 [] s = 4 -> 2 [] s = 2 -> 1 [] OTHER -> 0
Short(d) == d \in -128..127

(* ModRM with what follows it, for a base and no index.  Base 4 needs SIB.  *)
Sib(base) == IF base = 4 THEN <<ModRM(0, 4, 4)>> ELSE <<>>
Address(direct, reg, base, disp) ==
  CASE direct -> <<ModRM(0, reg, base)>> \o Sib(base)
    [] ~direct /\ Short(disp) -> <<ModRM(1, reg, base)>> \o Sib(base) \o E1(disp)
    [] OTHER -> <<ModRM(2, reg, base)>> \o Sib(base) \o E4(disp)

(* Which addresses have no displacement when a register is loaded.          *)
DirectLoad(a) == IF a.kind = "mem" THEN a.reg # 5 ELSE a.imm = 0 /\ a.reg # 4
(* Mutant: base 5 without a displacement, which means rip.                  *)
DirectAtBase5(a) == a.imm = 0 /\ a.reg # 4
DirectLea(a) == a.imm = 0 /\ a.reg \notin {4, 5}

Number(op) == IF op.reg < 0 THEN 0 ELSE op.reg

ScaledAddress(a, reg, base) ==
  LET sib == ModRM(ScaleBits(a.scale), a.reg2, base)
  IN  IF Short(a.imm) THEN <<ModRM(1, reg, 4), sib>> \o E1(a.imm)
      ELSE <<ModRM(2, reg, 4), sib>> \o E4(a.imm)

(* push and pop *)
StackInstr(def, reg) == (IF reg >= 8 THEN <<65>> ELSE <<>>) \o <<def.op[1] + (reg % 8)>>

(* encode_instr, for the instructions that refer to no label.               *)
Encoding(f, def, a, b) ==
  LET r0 == Number(a)  r1 == Number(b)
      wide == IF 64 \in {a.size, b.size} THEN 1 ELSE 0
  IN  CASE f = "NONE" -> def.op
        [] f = "RR" -> Rex(wide, Hi(r0), 0, Hi(r1)) \o def.op \o <<ModRM(3, r0, r1)>>
        [] f = "IR" -> Rex(1, Hi(def.ext), 0, Hi(r1)) \o def.op
                       \o <<ModRM(3, def.ext, r1)>>
                       \o (IF def.op = <<131>> THEN E1(a.imm) ELSE E4(a.imm))
        [] f = "IR8" -> <<def.op[1] + r1>> \o E1(a.imm)
        [] f = "MR" -> Rex(1, Hi(r1), 0, Hi(r0)) \o def.op
                       \o Address(DirectLoad(a), r1, r0, a.imm)
        [] f = "RM" -> Rex(1, Hi(r0), 0, Hi(r1)) \o def.op \o Address(TRUE, r0, r1, 0)
        [] f = "LEA_MR" -> Rex(1, Hi(r1), 0, Hi(a.reg % 16)) \o def.op
                           \o Address(DirectLea(a), r1, a.reg % 16, a.imm)
        [] f = "LEA_MI" -> Rex(1, Hi(r1), Hi(a.reg2), Hi(r0)) \o def.op
                           \o ScaledAddress(a, r1, r0)
        [] f = "CALL_IND" -> Rex(0, 0, 0, Hi(r0)) \o def.op \o <<ModRM(3, def.ext, r0)>>
        [] f \in {"POP", "PUSH"} -> StackInstr(def, r0)

-----------------------------------------------------------------------------
(* The tables.                                                              *)

(* reset_locals *)
ResetLocals ==
  /\ offsets = [n \in 0..MaxLocal - 1 |-> -1]
  /\ fixups = [n \in 0..MaxLocal - 1 |-> <<>>]

TasInit(t) ==
  /\ text = t /\ line = 1 /\ pc = "line"
  /\ code = <<>> /\ syms = <<>> /\ rels = <<>> /\ ResetLocals
  /\ lastLabel = 0 /\ nextGlobal = FALSE /\ nextFunc = FALSE

Here == Len(code)
(* add_sym and add_rel: what they append; what is no room for, they reject. *)
Sym(n, offset, global, func, intext) ==
  [name |-> n, offset |-> offset, size |-> 0, global |-> global, func |-> func, text |-> intext]
Undef(n) == Sym(n, 0, TRUE, TRUE, FALSE)
Label(n) == Sym(n, Here, nextGlobal, nextFunc, TRUE)
SymsFull(n) == n > MaxSyms
RelTo(k) == [offset |-> Here + 1, sym |-> k]
RelsFull == Len(rels) = MaxRels

(* find_sym: the first symbol of the name, or 0.                            *)
FirstOf(S) == IF S = {} THEN 0 ELSE Min(S)
FindSym(n) == FirstOf({k \in DOMAIN syms : syms[k].name = n})

(* The last label ends where the next one begins, or the code.              *)
Ended == [k \in DOMAIN syms |->
            IF k = lastLabel THEN [syms[k] EXCEPT !.size = Here - syms[k].offset]
            ELSE syms[k]]

(* Where the next line begins; a backslash-n always stands on its own.      *)
LineEnd == FirstOf({p \in line..Len(text) : text[p].c = "\n"})
NextLine == IF LineEnd = 0 THEN Len(text) + 1 ELSE LineEnd + 1

GoOn == line' = NextLine /\ pc' = "line"
Exit == pc' = "exit" /\ UNCHANGED line
Tables == <<code, syms, rels, offsets, fixups>>
Flags == <<lastLabel, nextGlobal, nextFunc>>

-----------------------------------------------------------------------------
(* Lines.                                                                   *)

AtLine(c) == pc = "line" /\ line <= Len(text) /\ text[line].c = c

SkipLine == /\ AtLine("\n") \/ AtLine("#")
            /\ GoOn
            /\ UNCHANGED <<text, Tables, Flags>>

(* A block comment: what is behind it is a line of its own.                 *)
BlockComment ==
  LET close == FirstOf({p \in line + 1..Len(text) : text[p].c = "*/"})
  IN  /\ AtLine("/*")
      /\ line' = IF close = 0 THEN Len(text) + 1 ELSE close + 1
      /\ UNCHANGED <<text, pc, Tables, Flags>>

(* .globl and .type mark the label that comes next, whatever name they say. *)
Directive ==
  /\ AtLine(".")
  /\ text[line].s # ".extern" \/ Is(line + 1, "")
  /\ nextGlobal' = (nextGlobal \/ text[line].s \in {".globl", ".global"})
  /\ nextFunc' = (nextFunc \/ text[line].s = ".type")
  /\ GoOn
  /\ UNCHANGED <<text, Tables, lastLabel>>

Extern ==
  /\ AtLine(".")
  /\ text[line].s = ".extern" /\ ~Is(line + 1, "")
  /\ IF SymsFull(Len(syms) + 1) THEN Exit /\ UNCHANGED syms
     ELSE syms' = Append(syms, Undef(Tok(line + 1).s)) /\ GoOn
  /\ UNCHANGED <<text, code, rels, offsets, fixups, Flags>>

AtName  == AtLine("a") /\ Is(line + 1, ":")
AtLocal == AtLine("0") /\ text[line].s = "" /\ Is(line + 1, ":")

(* Mutant: the marks are not taken back.                                    *)
MarksStay ==
  /\ AtName
  /\ IF SymsFull(Len(syms) + 1) THEN Exit /\ UNCHANGED <<syms, lastLabel>>
     ELSE /\ syms' = Append(Ended, Label(text[line].s))
          /\ lastLabel' = Len(syms) + 1
          /\ line' = line + 2 /\ pc' = "instruction"
  /\ UNCHANGED <<text, code, rels, offsets, fixups, nextGlobal, nextFunc>>

NamedLabel ==
  /\ AtName
  /\ IF SymsFull(Len(syms) + 1) THEN Exit /\ UNCHANGED <<syms, Flags>>
     ELSE /\ syms' = Append(Ended, Label(text[line].s))
          /\ lastLabel' = Len(syms) + 1
          /\ nextGlobal' = FALSE /\ nextFunc' = FALSE
          /\ line' = line + 2 /\ pc' = "instruction"
  /\ UNCHANGED <<text, code, rels, offsets, fixups>>

LocalLabel ==
  /\ AtLocal
  /\ IF text[line].v >= MaxLocal THEN Exit /\ UNCHANGED offsets
     ELSE /\ offsets' = [offsets EXCEPT ![text[line].v] = Here]
          /\ line' = line + 2 /\ pc' = "instruction"
  /\ UNCHANGED <<text, code, syms, rels, fixups, Flags>>

OtherLine ==
  /\ pc = "line" /\ line <= Len(text)
  /\ text[line].c \notin {"\n", "#", "/*", "."}
  /\ ~AtName /\ ~AtLocal
  /\ pc' = "instruction"
  /\ UNCHANGED <<text, line, Tables, Flags>>

-----------------------------------------------------------------------------
(* Instructions.                                                            *)

Mnemonic == Tok(line).s
Ops == Given(line)
Wanted == Format(Mnemonic, Ops)
Known == <<Mnemonic, Wanted>> \in DOMAIN InstrTable
Def == InstrTable[<<Mnemonic, Wanted>>]
AtInstr == pc = "instruction" /\ ~Is(line, "")

(* After a label and nothing else.                                          *)
NoInstruction == /\ pc = "instruction" /\ Is(line, "")
                 /\ GoOn
                 /\ UNCHANGED <<text, Tables, Flags>>

(* Reported, and assembly goes on with the next line.                       *)
UnknownInstruction == /\ AtInstr /\ ~Known
                      /\ GoOn
                      /\ UNCHANGED <<text, Tables, Flags>>

Emits(bytes) == IF Here + Len(bytes) > CodeSize THEN Exit /\ UNCHANGED code
                ELSE code' = code \o bytes /\ GoOn

(* lea needs both operands; an error is reported and the line is dropped.   *)
IncompleteLea == /\ AtInstr /\ Known /\ Mnemonic = "lea"
                 /\ ~(Ops[1].ok /\ Ops[2].ok)
                 /\ GoOn
                 /\ UNCHANGED <<text, Tables, Flags>>

(* Behind a comma and nothing else, the register is what the stack held.    *)
Registers(o) == IF o.ok /\ o.op.kind = "none" THEN 0..15 ELSE {o.op.reg}
Encode ==
  /\ AtInstr /\ Known /\ Wanted \notin {"CALL_DIR", "JCC8"}
  /\ Mnemonic = "lea" => Ops[1].ok /\ Ops[2].ok
  /\ \E r \in Registers(Ops[2]) :
       Emits(Encoding(Wanted, Def, Ops[1].op, [Ops[2].op EXCEPT !.reg = r]))
  /\ UNCHANGED <<text, syms, rels, offsets, fixups, Flags>>

(* A name that is not a symbol yet becomes an undefined one.                *)
CallDirect ==
  LET name == Ops[1].op.label
      si   == IF FindSym(name) = 0 THEN Len(syms) + 1 ELSE FindSym(name)
  IN  /\ AtInstr /\ Known /\ Wanted = "CALL_DIR"
      /\ IF SymsFull(si) \/ RelsFull \/ Here + 5 > CodeSize
         THEN Exit /\ UNCHANGED <<code, syms, rels>>
         ELSE /\ syms' = IF si > Len(syms) THEN Append(syms, Undef(name)) ELSE syms
              /\ code' = code \o Def.op \o E4(0)
              /\ rels' = Append(rels, RelTo(si))
              /\ GoOn
      /\ UNCHANGED <<text, offsets, fixups, Flags>>

(* scan_local_ref: the first digits that an f or b follows, from p on, on    *)
(* any line; 0 if there are none.  The names %r10b to %r15b have some too.  *)
RefIn(t) ==
  LET n == CASE t.c = "0" /\ t.s = "f" -> t.v
             [] t.c = "0" /\ t.s = "b" -> -t.v
             [] t.c = "%" /\ t.s \in RegNames /\ Reg[t.s].size = 8 /\ Reg[t.s].n >= 10 ->
                  -Reg[t.s].n
             [] OTHER -> 0
  IN  IF n \in 1 - MaxLocal..MaxLocal - 1 THEN n ELSE 0
Ref(p) == LET r == FirstOf({q \in p..Len(text) : RefIn(text[q]) # 0})
          IN  IF r = 0 THEN 0 ELSE RefIn(text[r])

AtJump == AtInstr /\ Known /\ Wanted = "JCC8"

JumpForward ==
  LET n == Ref(line)
  IN  /\ AtJump /\ n > 0
      /\ IF Len(fixups[n]) = MaxFixups THEN Exit /\ UNCHANGED <<code, fixups>>
         ELSE /\ fixups' = [fixups EXCEPT ![n] = Append(@, Here + 1)]
              /\ Emits(Def.op \o E1(0))
      /\ UNCHANGED <<text, syms, rels, offsets, Flags>>

JumpBack ==
  LET n == -Ref(line)
  IN  /\ AtJump /\ n > 0 /\ offsets[n] >= 0
      /\ Emits(Def.op \o E1(offsets[n] - (Here + 2)))
      /\ UNCHANGED <<text, syms, rels, offsets, fixups, Flags>>

(* The first byte of the jump is out when the missing label is reported.    *)
JumpNowhere ==
  LET n == -Ref(line)
  IN  /\ AtJump /\ n >= 0 /\ (n = 0 \/ offsets[n] < 0)
      /\ Emits(Def.op)
      /\ UNCHANGED <<text, syms, rels, offsets, fixups, Flags>>

-----------------------------------------------------------------------------
(* apply_local_fixups: every forward jump goes to the last label of its     *)
(* number.                                                                  *)
Patched ==
  [k \in DOMAIN code |->
     LET N == {n \in DOMAIN fixups : offsets[n] >= 0
                                     /\ \E j \in DOMAIN fixups[n] : fixups[n][j] = k - 1}
     IN  IF N = {} THEN code[k]
         ELSE (offsets[CHOOSE n \in N : TRUE] - k) % 256]

Finish == /\ pc = "line" /\ line > Len(text)
          /\ code' = Patched
          /\ syms' = Ended
          /\ pc' = "done"
          /\ UNCHANGED <<text, line, rels, offsets, fixups, Flags>>

TasNext == \/ SkipLine \/ BlockComment \/ Directive \/ Extern \/ NamedLabel
           \/ LocalLabel \/ OtherLine \/ NoInstruction \/ UnknownInstruction
           \/ IncompleteLea \/ Encode \/ CallDirect \/ JumpForward \/ JumpBack
           \/ JumpNowhere \/ Finish
=============================================================================
