---------------------------------- MODULE Data ----------------------------------
(***************************************************************************)
(* cgen_program: the variables of the file level, their initialisers in    *)
(* braces (cgen_emit_data_init), the code of the functions and the string  *)
(* literals, which are put after all code.  A string is a sequence of      *)
(* character codes, a byte of code is 0.                                   *)
(*                                                                         *)
(* The program is a declaration of each variable in terms of C, [name,     *)
(* members (the sizes of what an element consists of), stars, rows, cols,  *)
(* array, open, given ("none", "scalar" or "list"), init (the items of     *)
(* each element)], and the functions, [name, uses].  An item is [str, v]   *)
(* or [str, s]; a use of a string s, or of a variable or function x, is    *)
(* [u, x, s].                                                              *)
(***************************************************************************)
EXTENDS Integers, Sequences, FiniteSets, Functions

CONSTANTS Programs,                     \* [vars, funcs]: sequences
          STRPOOL_SIZE, MAX_STRINGS,    \* characters of all strings; strings
          MAX_SYMS,                     \* symbols
          MAX_RELS, ELF_MAX_RELS,       \* relocations of the code and the data
          DATA_BUF_SIZE, CODE_BUF_SIZE  \* bytes

VARIABLES prog, pc,             \* "vars", "funcs", "done" or "failed"
          at, use,              \* the variable or function, and the use in it
          begin,                \* where the code of the function begins
          data, dataOffset, bssOffset, dataRels,
          code, rels,
          syms, pool, strInfos,
          used                  \* where the code uses what: [off, use]
vars == <<prog, pc, at, use, begin, data, dataOffset, bssOffset, dataRels,
          code, rels, syms, pool, strInfos, used>>

-----------------------------------------------------------------------------
Zeros(n)    == [i \in 1 .. n |-> 0]
PadTo(s, n) == s \o Zeros(n - Len(s))
Up(n, m)    == ((n + m - 1) \div m) * m
Most(S)     == CHOOSE x \in S : \A y \in S : y <= x
Joined(ss)  == LET upto[i \in 0 .. Len(ss)] == IF i = 0 THEN <<>> ELSE upto[i - 1] \o ss[i]
               IN  upto[Len(ss)]
(* Byte i of v, which needs no more than 32 bits.                          *)
Weight      == <<1, 256, 65536, 16777216>>
Byte(v, i)  == IF i < 4 THEN (v \div Weight[i + 1]) % 256 ELSE IF v < 0 THEN 255 ELSE 0
Bytes(v, n) == [i \in 1 .. n |-> Byte(v, i - 1)]

(* What C says of the layout of an element and where its items are:        *)
(* <<offset, size, item>>, those that are not given being 0.               *)
Offsets(ms) == LET o[i \in DOMAIN ms] ==
                     IF i = 1 THEN 0 ELSE Up(o[i - 1] + ms[i - 1], ms[i]) IN o
StructSize(ms) == Up(Offsets(ms)[Len(ms)] + ms[Len(ms)], Most({ms[i] : i \in DOMAIN ms}))
Members(d)  == IF d.stars > 0 THEN <<8>> ELSE d.members
Unit(d)     == StructSize(Members(d))
Rows(d)     == IF d.open THEN Len(d.init) ELSE d.rows
CSize(d)    == Unit(d) * Rows(d) * d.cols
Item(d, r, k) == IF r \in DOMAIN d.init /\ k \in DOMAIN d.init[r] THEN d.init[r][k]
                 ELSE [str |-> FALSE, v |-> 0]
Image(d) ==
  LET ms == Members(d)
  IN  {<<Unit(d) * ((r - 1) * d.cols + c - 1) + Offsets(ms)[m], ms[m],
         Item(d, r, (c - 1) * Len(ms) + m)>> : r \in 1 .. Rows(d), c \in 1 .. d.cols, m \in DOMAIN ms}

-----------------------------------------------------------------------------
(* The declaration of the file level that the parser makes of d: ival,     *)
(* elem_size, init_items, and how many items it counts for an element.     *)
(* The outermost elements of a single structure are its members.  There is *)
(* room for eight items of each.                                           *)
Given(d)    == IF d.given = "list" THEN Joined(d.init) ELSE <<>>
Elements(d) == IF d.array THEN Len(d.init) ELSE Len(Given(d))
Stored(d)   == SubSeq(Given(d), 1, IF Len(Given(d)) <= 8 * Elements(d) THEN Len(Given(d))
                                   ELSE 8 * Elements(d))
Node(d) ==
  LET n     == d.rows * d.cols
      elems == Elements(d)
      items == Stored(d)
  IN  [name |-> d.name, expr |-> d.given # "none", items |-> items,
       ival |-> Unit(d) * (IF d.given = "list" /\ elems > 0 THEN elems
                           ELSE IF d.open THEN d.cols ELSE n),
       elem |-> IF d.open THEN Unit(d)
                ELSE IF n > 1 THEN Unit(d) * d.cols
                ELSE IF d.stars > 1 THEN 8 ELSE IF d.stars = 1 THEN StructSize(d.members) ELSE 0,
       per  |-> IF elems > 0 /\ Len(items) >= elems THEN Len(items) \div elems ELSE Len(items)]

-----------------------------------------------------------------------------
(* A string literal: room in the pool, a name .LC and a local symbol of    *)
(* the code section whose offset is set later.  R has pool, strs, syms.    *)
StringFits(R, s) ==
  /\ Len(R.pool) + Len(s) + 1 <= STRPOOL_SIZE
  /\ Len(R.strs) < MAX_STRINGS
  /\ Len(R.syms) < MAX_SYMS
Symbol(name, offset, size, shndx) ==
  [name |-> name, offset |-> offset, size |-> size, shndx |-> shndx]
AddString(R, s) ==
  [R EXCEPT !.pool = @ \o Append(s, 0),
            !.syms = Append(@, Symbol(<<"LC", Len(R.strs)>>, 0, Len(s) + 1, 1)),
            !.strs = Append(@, [poolOffset |-> Len(R.pool), sym |-> Len(R.syms) + 1])]

(* cgen_emit_data_init.  bytes and idx count within the element; elements  *)
(* are filled up with zeros.                                               *)
Width(elem) == IF elem \in {1, 2} THEN elem ELSE 4
EmitString(R, s) ==
  IF ~StringFits(R, s) \/ Len(R.rels) >= ELF_MAX_RELS THEN [R EXCEPT !.failed = TRUE]
  ELSE [AddString(R, s) EXCEPT
          !.rels = Append(@, [off |-> Len(R.data), sym |-> Len(R.syms) + 1]),
          !.data = @ \o Zeros(8), !.bytes = @ + 8]
EmitInt(R, v, elem) ==
  [R EXCEPT !.data = @ \o Bytes(v, Width(elem)), !.bytes = @ + Width(elem)]
Fill(R, node) ==
  IF R.idx + 1 < node.per THEN [R EXCEPT !.idx = @ + 1]
  ELSE [R EXCEPT !.data = @ \o Zeros(node.elem - R.bytes), !.idx = 0, !.bytes = 0]
EmitItem(R, it, node) ==
  IF R.failed THEN R
  ELSE Fill(IF it.str THEN EmitString(R, it.s) ELSE EmitInt(R, it.v, node.elem), node)
EmitInit(R, node) ==
  LET upto[i \in 0 .. Len(node.items)] ==
        IF i = 0 THEN R ELSE EmitItem(upto[i - 1], node.items[i], node)
      end == upto[Len(node.items)]
  IN  IF end.bytes > 0 THEN [end EXCEPT !.data = @ \o Zeros(node.elem - end.bytes)] ELSE end

-----------------------------------------------------------------------------
(* cgen_init.                                                              *)
Init ==
  /\ prog \in Programs
  /\ pc = "vars" /\ at = 1 /\ use = 0 /\ begin = 0
  /\ data = <<>> /\ dataOffset = 0 /\ bssOffset = 0 /\ dataRels = <<>>
  /\ code = <<>> /\ rels = <<>>
  /\ syms = <<>> /\ pool = <<>> /\ strInfos = <<>>
  /\ used = {}

Fail == pc' = "failed" /\ UNCHANGED <<prog, at, use, begin, data, dataOffset, bssOffset, dataRels,
                                      code, rels, syms, pool, strInfos, used>>

(* The first loop of cgen_program.                                         *)
AtVar == pc = "vars" /\ at <= Len(prog.vars)
Initialised(node) ==
  LET off == Up(dataOffset, 8)
      R   == EmitInit([data |-> PadTo(data, off), rels |-> dataRels, syms |-> syms,
                       pool |-> pool, strs |-> strInfos, bytes |-> 0, idx |-> 0,
                       failed |-> FALSE], node)
  IN  IF R.failed \/ Len(R.syms) >= MAX_SYMS THEN Fail
      ELSE /\ data' = R.data /\ dataRels' = R.rels /\ pool' = R.pool /\ strInfos' = R.strs
           /\ dataOffset' = off + node.ival
           /\ syms' = Append(R.syms, Symbol(node.name, off, node.ival, 3))
           /\ at' = at + 1
           /\ UNCHANGED <<prog, pc, use, begin, bssOffset, code, rels, used>>
InitialisedVar == AtVar /\ Node(prog.vars[at]).expr /\ Initialised(Node(prog.vars[at]))

BssVar ==
  /\ AtVar /\ ~Node(prog.vars[at]).expr
  /\ LET node == Node(prog.vars[at])
         off  == Up(bssOffset, 8)
     IN  IF Len(syms) >= MAX_SYMS THEN Fail
         ELSE /\ bssOffset' = off + node.ival
              /\ syms' = Append(syms, Symbol(node.name, off, node.ival, 5))
              /\ at' = at + 1
              /\ UNCHANGED <<prog, pc, use, begin, data, dataOffset, dataRels, code, rels, pool, strInfos, used>>

VarsEnd ==
  /\ pc = "vars" /\ at > Len(prog.vars)
  /\ IF dataOffset > DATA_BUF_SIZE THEN Fail
     ELSE /\ data' = PadTo(data, dataOffset)
          /\ pc' = "funcs" /\ at' = 1
          /\ UNCHANGED <<prog, use, begin, dataOffset, bssOffset, dataRels, code, rels, syms, pool, strInfos, used>>

(* The second loop.  Instructions have an opcode and the 4 bytes that the  *)
(* linker fills in.                                                        *)
AtFunc    == pc = "funcs" /\ at <= Len(prog.funcs)
Func      == prog.funcs[at]
Opcode(u) == CASE u = "call" -> 1 [] u = "var" -> 2 [] u = "str" -> 3
Prologue  == 4
Epilogue  == 2
FunctionBegins ==
  /\ AtFunc /\ use = 0
  /\ code' = code \o Zeros(Prologue) /\ use' = 1 /\ begin' = Len(code)
  /\ UNCHANGED <<prog, pc, at, data, dataOffset, bssOffset, dataRels, rels, syms, pool, strInfos, used>>

AtUse(k) == AtFunc /\ use \in DOMAIN Func.uses /\ Func.uses[use].u = k
Placed(op) == /\ code' = code \o Zeros(Opcode(op) + 4)
              /\ used' = used \cup {[off |-> Len(code) + Opcode(op), use |-> Func.uses[use]]}
              /\ use' = use + 1
Reloc(op, sym) == [off |-> Len(code) + Opcode(op), sym |-> sym]
(* A literal and a variable without room for a relocation go on without.   *)
RelocIfRoom(op, sym) == rels' = IF Len(rels) < MAX_RELS THEN Append(rels, Reloc(op, sym)) ELSE rels

UseString ==
  /\ AtUse("str")
  /\ LET s == Func.uses[use].s
         R == [pool |-> pool, syms |-> syms, strs |-> strInfos]
         A == AddString(R, s)
     IN  IF ~StringFits(R, s) THEN Fail
         ELSE /\ pool' = A.pool /\ syms' = A.syms /\ strInfos' = A.strs
              /\ Placed("str") /\ RelocIfRoom("str", Len(A.syms))
              /\ UNCHANGED <<prog, pc, at, begin, data, dataOffset, bssOffset, dataRels>>

(* The first symbol of that name, or a new one of no section.              *)
Named(name)  == {i \in DOMAIN syms : syms[i].name = name}
Lowest(S)    == CHOOSE i \in S : \A j \in S : i <= j
Found(name)  == IF Named(name) = {} THEN Len(syms) + 1 ELSE Lowest(Named(name))
NoRoom(name) == Named(name) = {} /\ Len(syms) >= MAX_SYMS
WithSymbol(name) == IF Named(name) = {} THEN Append(syms, Symbol(name, 0, 0, 0)) ELSE syms

(* Without room for the symbol a variable is the constant 0.               *)
UseVariable ==
  /\ AtUse("var")
  /\ LET x == Func.uses[use].x
     IN  /\ Placed("var")
         /\ IF NoRoom(x) THEN UNCHANGED <<syms, rels>>
            ELSE syms' = WithSymbol(x) /\ RelocIfRoom("var", Found(x))
         /\ UNCHANGED <<prog, pc, at, begin, data, dataOffset, bssOffset, dataRels, pool, strInfos>>
UseFunction ==
  /\ AtUse("call")
  /\ LET f == Func.uses[use].x
     IN  IF NoRoom(f) \/ Len(rels) >= MAX_RELS THEN Fail
         ELSE /\ syms' = WithSymbol(f)
              /\ rels' = Append(rels, Reloc("call", Found(f)))
              /\ Placed("call")
              /\ UNCHANGED <<prog, pc, at, begin, data, dataOffset, bssOffset, dataRels, pool, strInfos>>

(* add_sym: a symbol of that name and of no section gets its place.        *)
AddSym(symbol) ==
  LET open == {i \in Named(symbol.name) : syms[i].shndx = 0}
  IN  IF open # {} THEN [syms EXCEPT ![Lowest(open)] = symbol] ELSE Append(syms, symbol)
FunctionEnds ==
  /\ AtFunc /\ use > Len(Func.uses)
  /\ LET end    == Len(code) + Epilogue
         after  == AddSym(Symbol(Func.name, begin, end - begin, 1))
     IN  IF Len(after) > MAX_SYMS THEN Fail
         ELSE /\ code' = code \o Zeros(Epilogue) /\ syms' = after
              /\ at' = at + 1 /\ use' = 0
              /\ UNCHANGED <<prog, pc, begin, data, dataOffset, bssOffset, dataRels, rels, pool, strInfos, used>>

(* The strings are put after the code and their symbols get their places.  *)
(* Mutant: the symbols keep the places they have in the pool.              *)
MovedNot(i, from) ==
  IF \E k \in DOMAIN strInfos : strInfos[k].sym = i
  THEN [syms[i] EXCEPT !.offset = strInfos[CHOOSE k \in DOMAIN strInfos :
                                            strInfos[k].sym = i].poolOffset]
  ELSE syms[i]
Moved(i, from) ==
  IF \E k \in DOMAIN strInfos : strInfos[k].sym = i
  THEN [syms[i] EXCEPT !.offset = from + strInfos[CHOOSE k \in DOMAIN strInfos :
                                                   strInfos[k].sym = i].poolOffset]
  ELSE syms[i]
PlaceStrings ==
  /\ pc = "funcs" /\ at > Len(prog.funcs)
  /\ IF pool # <<>> /\ Len(code) + Len(pool) > CODE_BUF_SIZE THEN Fail
     ELSE /\ code' = code \o pool
          /\ syms' = [i \in DOMAIN syms |-> Moved(i, Len(code))]
          /\ pc' = "done"
          /\ UNCHANGED <<prog, at, use, begin, data, dataOffset, bssOffset, dataRels, rels, pool, strInfos, used>>

Next == InitialisedVar \/ BssVar \/ VarsEnd \/ FunctionBegins \/ UseString \/ UseVariable
          \/ UseFunction \/ FunctionEnds \/ PlaceStrings
Spec == Init /\ [][Next]_vars

-----------------------------------------------------------------------------
(* What the linker makes of a symbol: the string there, or a place.        *)
StringAt(sym, s) ==
  /\ sym.shndx = 1 /\ sym.offset + Len(s) < Len(code)
  /\ SubSeq(code, sym.offset + 1, sym.offset + Len(s) + 1) = Append(s, 0)
SymbolOf(x)   == syms[Lowest({i \in DOMAIN syms : syms[i].name = x /\ syms[i].shndx # 0})]

(* A variable holds what its declaration says; what has a value that is    *)
(* stored at the start of main, or none, is 0.                             *)
Holds(d, sym) ==
  \A c \in Image(d) :
    LET from == sym.offset + c[1]
        here == {k \in DOMAIN dataRels : dataRels[k].off + 8 > from /\ dataRels[k].off < from + c[2]}
    IN  IF d.given = "list" /\ c[3].str
        THEN \E k \in here : /\ here = {k} /\ dataRels[k].off = from
                             /\ StringAt(syms[dataRels[k].sym], c[3].s)
        ELSE /\ here = {}
             /\ SubSeq(data, from + 1, from + c[2])
                  = IF d.given = "list" THEN Bytes(c[3].v, c[2]) ELSE Zeros(c[2])
Apart(sym, other) ==
  \/ sym.shndx # other.shndx
  \/ sym.offset + sym.size <= other.offset \/ other.offset + other.size <= sym.offset
VariableAsC(d) ==
  LET sym == SymbolOf(d.name)
  IN  /\ sym.size >= CSize(d)
      /\ sym.offset + sym.size <= IF sym.shndx = 3 THEN dataOffset ELSE bssOffset
      /\ \A e \in Range(prog.vars) \ {d} : Apart(sym, SymbolOf(e.name))
      /\ IF d.given = "none" THEN sym.shndx = 5 ELSE sym.shndx = 3 /\ Holds(d, sym)

(* What is used at u is what the linker puts there.                        *)
Resolved(u) ==
  \E k \in DOMAIN rels :
    /\ {j \in DOMAIN rels : rels[j].off = u.off} = {k}
    /\ LET sym == syms[rels[k].sym]
       IN  IF u.use.u = "str" THEN StringAt(sym, u.use.s)
           ELSE /\ sym.name = u.use.x
                /\ sym.shndx # 0 \/ \A i \in Named(u.use.x) : syms[i].shndx = 0

(* What C has of each in the file is more than there is room for.          *)
Texts(items)   == Joined([i \in DOMAIN items |-> IF items[i].str THEN <<items[i].s>> ELSE <<>>])
Literals(uses) == Joined([i \in DOMAIN uses |-> IF uses[i].u = "str" THEN <<uses[i].s>> ELSE <<>>])
InVars  == Joined([i \in DOMAIN prog.vars |-> Texts(Given(prog.vars[i]))])
InFuncs == Joined([i \in DOMAIN prog.funcs |-> prog.funcs[i].uses])
Strings == InVars \o Joined([i \in DOMAIN prog.funcs |-> Literals(prog.funcs[i].uses)])
Names   == {v.name : v \in Range(prog.vars)} \cup {f.name : f \in Range(prog.funcs)}
             \cup {u.x : u \in {v \in Range(InFuncs) : v.u # "str"}}
OutOfRoom ==
  \/ Len(Joined([i \in DOMAIN Strings |-> Append(Strings[i], 0)])) > STRPOOL_SIZE
  \/ Len(Strings) > MAX_STRINGS
  \/ Len(Strings) + Cardinality(Names) > MAX_SYMS
  \/ Len(InVars) > ELF_MAX_RELS \/ Len(InFuncs) > MAX_RELS
  \/ dataOffset > DATA_BUF_SIZE \/ Len(code) + Len(pool) > CODE_BUF_SIZE

(* A file that is compiled has, in every variable with an initialiser, the *)
(* values that C gives it, each string being where its reference leads,    *)
(* in variables that do not overlap; what its functions use is what they   *)
(* name; a file is rejected only when a table is full; no byte of the data *)
(* is written outside its buffer.                                          *)
ImageAsC ==
  /\ pc = "done" => /\ \A i \in DOMAIN prog.vars : VariableAsC(prog.vars[i])
                    /\ \A u \in used : Resolved(u)
  /\ pc = "failed" => OutOfRoom
  /\ Len(data) <= DATA_BUF_SIZE

-----------------------------------------------------------------------------
(* Files of which both agree.                                              *)

(* What a program is made of.  No name of C is that of a string.           *)
Sizes == {1, 2, 4, 8}
Items == [str : {TRUE}, s : Seq(Nat)] \cup [str : {FALSE}, v : Int]
OfC(name) == name \in STRING \X Nat /\ name[1] # "LC"
IsVar(d) ==
  /\ OfC(d.name)
  /\ d.members \in Seq(Sizes) /\ d.members # <<>>
  /\ d.stars \in Nat /\ d.rows \in Nat \ {0} /\ d.cols \in Nat \ {0}
  /\ d.array \in BOOLEAN /\ d.open \in BOOLEAN
  /\ d.given \in {"none", "scalar", "list"} /\ d.init \in Seq(Seq(Items))
IsUse(u) == u.u \in {"call", "var", "str"} /\ OfC(u.x) /\ u.s \in Seq(Nat)
IsFunc(f) == OfC(f.name) /\ f.uses \in Seq({u \in Range(f.uses) : IsUse(u)})
ASSUME SizesAssumption ==
  /\ STRPOOL_SIZE \in Nat /\ MAX_STRINGS \in Nat /\ MAX_SYMS \in Nat /\ MAX_RELS \in Nat
  /\ ELF_MAX_RELS \in Nat /\ DATA_BUF_SIZE \in Nat /\ CODE_BUF_SIZE \in Nat
ASSUME ProgramsAssumption ==
  \A p \in Programs : /\ p.vars \in Seq({v \in Range(p.vars) : IsVar(v)})
                      /\ p.funcs \in Seq({f \in Range(p.funcs) : IsFunc(f)})

(* Where the items of an element begin in it.                              *)
Wide(d, it) == IF it.str THEN 8 ELSE Width(Node(d).elem)
Begin(d, row) ==
  LET b[k \in 1 .. Len(row) + 1] == IF k = 1 THEN 0 ELSE b[k - 1] + Wide(d, row[k - 1]) IN b

(* Each item of a variable is where C has it, as wide as C has it, or the  *)
(* last of an element and the bytes that are not written are 0.            *)
LaidAsC(d) ==
  LET ms   == Members(d)
      node == Node(d)
      n    == Len(d.init)
  IN  /\ d.cols = 1 /\ n > 0 /\ n = Rows(d) /\ CSize(d) <= node.ival
      /\ node.items = Given(d)
      /\ node.elem = Unit(d) \/ (n = 1 /\ node.elem <= node.ival)
      /\ \A r \in 1 .. n :
           LET row == d.init[r]
           IN  /\ Len(row) \in 1 .. Len(ms)
               /\ node.per = Len(row) \/ (n = 1 /\ node.elem = 0)
               /\ \A k \in DOMAIN row :
                    /\ Begin(d, row)[k] = Offsets(ms)[k]
                    /\ IF row[k].str THEN ms[k] = 8
                       ELSE \A i \in Width(node.elem) .. ms[k] - 1 : Byte(row[k].v, i) = 0
                    /\ Wide(d, row[k]) <= ms[k]

Agreed ==
  \A i \in DOMAIN prog.vars :
    LET d == prog.vars[i] IN IF d.given = "list" THEN LaidAsC(d) ELSE ~d.open

(* No name is defined twice.                                               *)
Distinct ==
  /\ \A i, j \in DOMAIN prog.vars : prog.vars[i].name = prog.vars[j].name => i = j
  /\ \A i, j \in DOMAIN prog.funcs : prog.funcs[i].name = prog.funcs[j].name => i = j
  /\ \A i \in DOMAIN prog.vars, j \in DOMAIN prog.funcs : prog.vars[i].name # prog.funcs[j].name

Room == dataOffset <= DATA_BUF_SIZE
        /\ (pc = "done" => Len(rels) < MAX_RELS /\ Len(syms) < MAX_SYMS)
=============================================================================
