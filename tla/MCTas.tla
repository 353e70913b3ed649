-------------------------------- MODULE MCTas --------------------------------
(* Assembly sources.                                                        *)
EXTENDS Asm

R64 == {r[1] : r \in {x \in RegTable : x[3] = 64}}
R32 == {r[1] : r \in {x \in RegTable : x[3] = 32}}
Plain8 == {"al", "cl", "dl", "bl"}
Disps == {0, 8, -8, 127, 128, -128, -129, 100000}
Some == {"rax", "rsp", "rdi", "r15"}

-----------------------------------------------------------------------------
(* One instruction.  Left out, because another instruction is assembled:    *)
(* a store with a displacement or to rbp, any address with base r12, one    *)
(* of a load with base rbp or r13 and none, 32-bit loads, negative numbers  *)
(* for 32-bit registers, arithmetic with more than a byte, and byte moves   *)
(* but of a number to al, cl, dl, bl.                                       *)

RegReg == {Two(m, WReg(a), WReg(b)) : m \in {"mov", "xor", "test"}, a, b \in R64}
          \cup {Two(m, WReg(a), WReg(b)) : m \in {"mov", "xor", "test"}, a, b \in R32}
ImmReg == {Two("mov", WImm(v), WReg(r)) : v \in Disps \cup {60, 2147483647}, r \in R64}
          \cup {Two("mov", WImm(v), WReg(r)) : v \in {0, 60, 2147483647}, r \in R32}
          \cup {Two("mov", WImm(v), WReg(r)) : v \in {0, 56, 255, -1}, r \in Plain8}
          \cup {Two(m, WImm(v), WReg(r)) : m \in {"and", "sub"}, v \in {8, -16, 127, -128},
                                           r \in R64}
          \cup {Two("mov", h, WReg("rdi")) :
                  h \in {WHex(<<0>>, 0), WHex(<<1, 15>>, 31), WHex(<<4, 0, 10, 28>>, 16556)}}
Bases == R64 \ {"r12"}
Loads == {Two(m, WAt(b), WReg(r)) : m \in {"mov", "lea"}, b \in Bases \ {"r13"}, r \in Some}
         \cup {Two("mov", WMem(d, b), WReg(r)) : d \in Disps \ {0}, b \in Bases, r \in Some}
         \cup {Two("lea", WMem(d, b), WReg(r)) : d \in Disps \ {0}, b \in Bases, r \in Some}
         \cup {Two("mov", WMem(0, b), WReg(r)) : b \in Bases \ {"rbp", "r13"}, r \in Some}
Stores == {Two("mov", WReg(r), WAt(b)) : r \in Some, b \in Bases \ {"rbp", "r13"}}
Indexed == {Two("lea", WSib(d, b, i, s), WReg("rcx")) :
              d \in {0, -8, 200}, b \in {"rax", "rsp", "rbp", "r12", "r13"},
              i \in {"rax", "rbp", "r12", "r15"}, s \in {1, 2, 4, 8}}
OneReg == {One(m, WReg(r)) : m \in {"push", "pop"}, r \in R64} \cup {CallReg(r) : r \in R64}
Bare == {Plain(m) : m \in {"syscall", "ret", "hlt", "nop"}}

Single == {<<x>> : x \in RegReg \cup ImmReg \cup Loads \cup Stores \cup Indexed \cup OneReg \cup Bare}

-----------------------------------------------------------------------------
(* Labels and jumps.  Left out: a forward jump to a number that is defined   *)
(* again later (it goes to the last), a jump to a name (to the next number  *)
(* the file mentions, or nowhere), and one of more than 127 bytes.          *)

Comment == Says("nothing", "", <<T("/*"), Num(1), T(":"), T("\n"), T("*/")>>)
Remark == Says("nothing", "", <<T("#"), Name("jmp")>> \o Newline)
Load7 == Two("mov", WMem(8, "rsp"), WReg("rdi"))
Seqs(S, n) == UNION {[1..k -> S] : k \in 1..n}
LabelsOf(p, k, n) == {j \in DOMAIN p : p[j].k = k /\ p[j].n = n}
HasLine(p) ==
  \A i \in DOMAIN p : p[i] = OnLine(NumLabel(2)) =>
    i < Len(p) /\ p[i + 1].k \in {"ins", "jump", "call"}

JumpsMeant(p) ==
  \A i \in DOMAIN p : p[i].k = "jump" =>
    LET L == {j \in DOMAIN p : p[j].k = "local" /\ p[j].v = p[i].v}
    IN  IF p[i].s = "f" THEN Cardinality({j \in L : j > i}) = 1 ELSE \E j \in L : j < i
Jumping ==
  {p \in Seqs({NumLabel(1), OnLine(NumLabel(2)), JumpTo("jmp", 1, "f"), JumpTo("jnz", 1, "b"),
               JumpTo("je", 2, "b"), JumpTo("jne", 2, "f"), Load7, Comment}, 5) :
     JumpsMeant(p) /\ HasLine(p) /\ \E i \in DOMAIN p : p[i].k = "jump"}
Times(n, x) == [i \in 1..n |-> x]
Far == {<<JumpTo("jmp", 1, "f")>> \o Times(25, Load7) \o Times(2, Plain("nop")) \o <<NumLabel(1)>>,
        <<NumLabel(1)>> \o Times(25, Load7) \o <<Plain("nop"), JumpTo("je", 1, "b")>>}

-----------------------------------------------------------------------------
(* Symbols.  Left out: .globl and .type that stand not before their label,   *)
(* and a call to a local label that stands before it.                       *)

DirectivesMeant(p) ==
  \A i \in DOMAIN p : p[i].k \in {".globl", ".type"} =>
    LET L == {j \in DOMAIN p : p[j].k = "label"}
        next == {j \in L : j > i}
    IN  IF next = {} THEN LabelsOf(p, "label", p[i].n) = {} ELSE p[Min(next)].n = p[i].n
CallsMeant(p) ==
  \A i \in DOMAIN p : p[i].k \in {"call", ".extern"} =>
    \A l \in LabelsOf(p, "label", p[i].n) : l < i \/ LabelsOf(p, ".globl", p[i].n) # {}
Unique(p) == \A n \in {"f", "g"} : Cardinality(LabelsOf(p, "label", n)) <= 1
Symbolic ==
  {p \in Seqs({NameLabel("f"), OnLine(NameLabel("g")), CallTo("f"), CallTo("g"),
               Directed(".globl", "f"), Directed(".global", "g"), Directed(".type", "f"),
               Directed(".extern", "g"), Plain("ret")}, 4) :
     /\ Unique(p) /\ DirectivesMeant(p) /\ CallsMeant(p)
     /\ \A i \in DOMAIN p : p[i] = OnLine(NameLabel("g")) =>
          i < Len(p) /\ p[i + 1].k \in {"ins", "call"}}

Full == Times(27, Load7) \o Times(4, Plain("nop"))        \* all but one byte
Others ==
  {<<Directed(".text", ""), Remark, Blank, Wrong("nothing", <<Name("inc")>> \o Reg1("rax")),
     Plain("ret")>>,
   <<Wrong("nothing", <<Name("lea")>> \o Reg1("rax")), Wrong("nothing", <<Name("mov"), T(",")>>)>>,
   <<Wrong("broken", <<Name("jmp"), Name("out")>>)>>,
   <<Wrong("broken", <<Name("jmp"), [c |-> "0", s |-> "b", v |-> 1]>>)>>,
   <<NumLabel(3)>>, <<NumLabel(4)>>, <<Plain("nop"), Directed(".extern", "f"), CallTo("f")>>,
   <<CallTo("a"), CallTo("b")>>, <<CallTo("a"), CallTo("b"), CallTo("a")>>,
   [i \in 1..4 |-> NameLabel(<<"a", "b", "c", "d">>[i])],
   [i \in 1..4 |-> Directed(".extern", <<"a", "b", "c", "d">>[i])],
   Times(4, CallTo("a")), Times(141, Plain("nop")),
   Full \o <<JumpTo("jmp", 1, "f"), NumLabel(1)>>, <<NumLabel(1)>> \o Full \o <<JumpTo("je", 1, "b")>>,
   Full \o <<Plain("nop"), Wrong("broken", <<Name("jmp"), Name("out")>>)>>}
Start ==            \* tcc_rt_start.S
  <<Remark, Blank, Directed(".text", ""), Directed(".globl", "_start"), Directed(".type", "_start"),
    NameLabel("_start"), Remark, Two("mov", WAt("rsp"), WReg("rdi")),
    Two("lea", WMem(8, "rsp"), WReg("rsi")), CallTo("main"), Two("mov", WReg("rax"), WReg("rdi")),
    Two("mov", WImm(60), WReg("rax")), Plain("syscall")>>

-----------------------------------------------------------------------------
(* Sources left out of MCPrograms, of which tas makes other programs.        *)

StoreDisplaced == {<<Two("mov", WReg("rax"), WMem(8, "rdi"))>>}
BaseR12 == {<<Two("mov", WAt("r12"), WReg("rax"))>>}
BaseR13 == {<<Two("mov", WAt("r13"), WReg("rax"))>>}
ZeroAtRbp == {<<Two("mov", WMem(0, "rbp"), WReg("rax"))>>}
Load32 == {<<Two("mov", WAt("rdi"), WReg("eax"))>>}
Negative32 == {<<Two("mov", WImm(-1), WReg("eax"))>>}
MixedHex == {<<Two("mov", WHex(<<10, 1>>, 161), WReg("rax"))>>}
SubWide == {<<Two("sub", WImm(128), WReg("rsp"))>>}
ByteMove == {<<Two("mov", WReg("al"), WReg("bl"))>>}
ByteOfR10 == {<<Two("mov", WImm(1), WReg("r10b"))>>}
Redefined == {<<JumpTo("jmp", 1, "f"), NumLabel(1), Load7, NumLabel(1)>>}
TooFar == {<<JumpTo("jmp", 1, "f")>> \o Times(26, Load7) \o <<NumLabel(1)>>}
CallBeforeLocal == {<<CallTo("f"), NameLabel("f")>>}
MarkBeforeOther == {<<Directed(".globl", "g"), NameLabel("f"), NameLabel("g")>>}

-----------------------------------------------------------------------------
MCPrograms == Single \cup Jumping \cup Far \cup Symbolic \cup Others \cup {Start}
=============================================================================
