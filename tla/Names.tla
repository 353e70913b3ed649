--------------------------------- MODULE Names ---------------------------------
(***************************************************************************)
(* Variables and functions in cgen.c and cgen_expr.c: where each is put    *)
(* (cgen_program, collect_locals, the prologue of cgen_func_def, add_sym)  *)
(* and what each use of a name refers to (SEARCH_LOCAL, the search in syms *)
(* and emit_call).                                                         *)
(*                                                                         *)
(* A function is compiled in two passes over its body.  collect_locals     *)
(* gives every local variable a slot of the frame and the number of the    *)
(* block that declares it; then code is generated, the blocks are numbered *)
(* again, and a use looks its name up among ALL the function's locals.     *)
(*                                                                         *)
(* A file is a sequence of its external declarations:                      *)
(*   k = "var"   name, size, init (has a scalar initialiser), static       *)
(*   k = "func"  name, static, big (returns more than 8 bytes), variadic,  *)
(*               params: [name, size], items                               *)
(* and the items of a function are what concerns names, in source order:   *)
(*   "open", "close"    the braces of a block (AST_BLOCK)                  *)
(*   "for", "endfor"    a for statement, or a switch and its braces: a     *)
(*                      scope in C and none here                           *)
(*   "decl", "static"   name, size, init: a local variable                 *)
(*   "get", "call"      name                                               *)
(*   "set"              name, wide: the value assigned has 8 bytes         *)
(*   "return", "va"     (__builtin_va_arg)                                 *)
(***************************************************************************)
EXTENDS Integers, Sequences

CONSTANTS
  Files,        \* the files to compile
  MaxLocals,    \* MAX_LOCALS
  MaxScopeIds,  \* MAX_SCOPE_IDS
  MaxSyms,      \* MAX_SYMS
  MaxData       \* DATA_BUF_SIZE

ASSUME NamesLimits ==
  /\ MaxLocals \in Nat /\ MaxScopeIds \in Nat
  /\ MaxSyms \in Nat /\ MaxData \in Nat

VARIABLES
  file,       \* the file being compiled
  phase,      \* what cgen_program is doing
  d,          \* the external declaration it is at
  i,          \* the item of the function it is at
  locals,     \* locals and local_count
  frameSize,  \* frame_size
  chain,      \* scope_chain; its length is scope_chain_count and scope_depth
  nextId,     \* next_scope_id
  hidden,     \* current_hidden_ptr_offset
  saveArea,   \* reg_save_offset
  syms,       \* syms
  size,       \* data_offset and bss_offset (elf_bss_size)
  code        \* the stores, loads and calls emitted

vars == <<file, phase, d, i, locals, frameSize, chain, nextId, hidden, saveArea,
          syms, size, code>>
frameVars == <<locals, frameSize, hidden, saveArea>>

Decl == file[d]

(* parse_program puts the parameters in front of the body's statements.    *)
Param(p) == [k |-> "decl", name |-> p.name, size |-> p.size, init |-> FALSE]
Body(f)  == <<[k |-> "open"]>> \o [p \in DOMAIN f.params |-> Param(f.params[p])]
            \o f.items \o <<[k |-> "close"]>>
Item == Body(Decl)[i]

(* The parser gives every variable a positive size.                        *)
Size  == Nat \ {0}
Items == [k : {"open", "close", "for", "endfor", "return", "va"}]
         \cup [k : {"get", "set", "call"}, name : STRING, wide : BOOLEAN]
         \cup [k : {"decl", "static"}, name : STRING, size : Size, init : BOOLEAN]
VarDecls  == [k : {"var"}, name : STRING, size : Size, init : BOOLEAN, static : BOOLEAN]
FuncDecls == [k : {"func"}, name : STRING, static : BOOLEAN, big : BOOLEAN,
              variadic : BOOLEAN, params : Seq([name : STRING, size : Size]),
              items : Seq(Items)]
ASSUME FilesAssumption == Files \subseteq Seq(VarDecls \cup FuncDecls)

MaxOf(S) == CHOOSE x \in S : \A y \in S : y <= x
MinOf(S) == CHOOSE x \in S : \A y \in S : x <= y
Align8(n) == ((n + 7) \div 8) * 8

-----------------------------------------------------------------------------
(* The symbol table.                                                       *)

Symbol(n, sect, off, sz, glob) ==
  [name |-> n, sect |-> sect, offset |-> off, size |-> sz, global |-> glob]

Undefined(n) == Symbol(n, "undef", 0, 0, TRUE)

Named(n) == {s \in DOMAIN syms : syms[s].name = n}

(* The symbol a reference to n refers to, and the table with it.           *)
SymbolOf(n) == IF Named(n) = {} THEN Len(syms) + 1 ELSE MinOf(Named(n))
WithSymbol(n) == IF Named(n) = {} THEN Append(syms, Undefined(n)) ELSE syms

(* Mutant: MAX_SYMS is not checked.                                        *)
NoRoomNever(n) == FALSE
NoRoomFor(n) == Named(n) = {} /\ Len(syms) >= MaxSyms

(* add_sym: an undefined symbol of that name becomes the definition, so    *)
(* that the relocations against it need not change.                        *)
Waiting(n) == {s \in Named(n) : syms[s].sect = "undef"}

(* Mutant: add_sym never looks for the name.                               *)
AddSymAlways(n, glob) == Append(syms, Symbol(n, "text", Len(syms), 0, glob))

(* Mutant: add_sym takes any symbol of that name.                          *)
AddSymOverDefinition(n, glob) ==
  IF Named(n) # {}
  THEN [syms EXCEPT ![MinOf(Named(n))].sect = "text"]
  ELSE Append(syms, Symbol(n, "text", Len(syms), 0, glob))

AddSym(n, glob) ==
  IF Waiting(n) # {}
  THEN [syms EXCEPT ![MinOf(Waiting(n))].sect = "text"]
  ELSE Append(syms, Symbol(n, "text", Len(syms), 0, glob))

-----------------------------------------------------------------------------
Init == /\ file \in Files
        /\ phase = "globals"
        /\ d = 1
        /\ i = 0
        /\ locals = <<>>
        /\ frameSize = 0
        /\ chain = <<>>
        /\ nextId = 0
        /\ hidden = 0
        /\ saveArea = 0
        /\ syms = <<>>
        /\ size = [data |-> 0, bss |-> 0]
        /\ code = <<>>

Exit == /\ phase' = "exited"
        /\ UNCHANGED <<file, d, i, frameVars, chain, nextId, syms, size, code>>

(* cgen_program, phase 1: variables with an initialiser go to .data, the   *)
(* others to .bss.                                                         *)
GlobalVar ==
  /\ phase = "globals" /\ d <= Len(file) /\ Decl.k = "var"
  /\ LET sect == IF Decl.init THEN "data" ELSE "bss"
         off  == Align8(size[sect])
     IN  IF Len(syms) >= MaxSyms
         THEN Exit
         ELSE /\ syms' = Append(syms, Symbol(Decl.name, sect, off, Decl.size,
                                             ~Decl.static))
              /\ size' = [size EXCEPT ![sect] = off + Decl.size]
              /\ d' = d + 1
              /\ UNCHANGED <<file, phase, i, frameVars, chain, nextId, code>>

SkipFunction ==
  /\ phase = "globals" /\ d <= Len(file) /\ Decl.k = "func"
  /\ d' = d + 1
  /\ UNCHANGED <<file, phase, i, frameVars, chain, nextId, syms, size, code>>

Functions ==
  /\ phase = "globals" /\ d > Len(file)
  /\ IF size.data > MaxData
     THEN Exit
     ELSE /\ phase' = "functions"
          /\ d' = 1
          /\ UNCHANGED <<file, i, frameVars, chain, nextId, syms, size, code>>

SkipVar ==
  /\ phase = "functions" /\ d <= Len(file) /\ Decl.k = "var"
  /\ d' = d + 1
  /\ UNCHANGED <<file, phase, i, frameVars, chain, nextId, syms, size, code>>

Compiled ==
  /\ phase = "functions" /\ d > Len(file)
  /\ phase' = "done"
  /\ UNCHANGED <<file, d, i, frameVars, chain, nextId, syms, size, code>>

-----------------------------------------------------------------------------
(* collect_locals                                                          *)

StartFunction ==
  /\ phase = "functions" /\ d <= Len(file) /\ Decl.k = "func"
  /\ phase' = "collect"
  /\ i' = 1
  /\ locals' = <<>>
  /\ frameSize' = 0
  /\ hidden' = 0
  /\ saveArea' = 0
  /\ chain' = <<>>
  /\ nextId' = 0
  /\ UNCHANGED <<file, d, syms, size, code>>

Collecting == phase = "collect" /\ i <= Len(Body(Decl))

CollectOpen ==
  /\ Collecting /\ Item.k = "open"
  /\ IF Len(chain) >= MaxScopeIds
     THEN Exit
     ELSE /\ nextId' = nextId + 1
          /\ chain' = Append(chain, nextId + 1)
          /\ i' = i + 1
          /\ UNCHANGED <<file, phase, d, frameVars, syms, size, code>>

CloseBlock == /\ chain' = SubSeq(chain, 1, Len(chain) - 1)
              /\ i' = i + 1
              /\ UNCHANGED <<file, phase, d, frameVars, nextId, syms, size, code>>

CollectClose == Collecting /\ Item.k = "close" /\ CloseBlock

(* The block the scope chain ends in.                                      *)
ScopeId == IF chain = <<>> THEN 0 ELSE chain[Len(chain)]

(* Mutant: the slot begins where the previous one does.                    *)
SlotAbove(x) == [name |-> x.name, size |-> x.size, offset |-> -frameSize,
                 depth |-> Len(chain), id |-> ScopeId]

(* The slot of a local variable, at the bottom of the frame.               *)
Slot(x) == [name |-> x.name, size |-> x.size, offset |-> -(frameSize + x.size),
            depth |-> Len(chain), id |-> ScopeId]

CollectDecl ==
  /\ Collecting /\ Item.k = "decl"
  /\ IF Len(locals) >= MaxLocals
     THEN Exit
     ELSE /\ locals' = Append(locals, Slot(Item))
          /\ frameSize' = frameSize + Item.size
          /\ i' = i + 1
          /\ UNCHANGED <<file, phase, d, chain, nextId, hidden, saveArea, syms,
                         size, code>>

(* A static local variable is a symbol in .bss.                            *)
CollectStatic ==
  /\ Collecting /\ Item.k = "static"
  /\ IF Len(syms) >= MaxSyms
     THEN Exit
     ELSE /\ syms' = Append(syms, Symbol(Item.name, "bss", Align8(size.bss),
                                         Item.size, FALSE))
          /\ size' = [size EXCEPT !.bss = Align8(@) + Item.size]
          /\ i' = i + 1
          /\ UNCHANGED <<file, phase, d, frameVars, chain, nextId, code>>

CollectOther ==
  /\ Collecting
  /\ Item.k \notin {"open", "close", "decl", "static"}
  /\ i' = i + 1
  /\ UNCHANGED <<file, phase, d, frameVars, chain, nextId, syms, size, code>>

-----------------------------------------------------------------------------
(* What is emitted: op on len bytes of memory for item at of function (or, *)
(* for the initialisers in main, variable) fn.                             *)

Ins(op, fn, at, mem, len) ==
  [op |-> op, fn |-> fn, at |-> at, mem |-> mem, len |-> len]
InFrame(off) == [in |-> "frame", pos |-> off]
InSymbol(s)  == [in |-> "symbol", pos |-> s]

(* The width of a move to or from a variable; more than 8 bytes are copied *)
(* with rep movsb.                                                         *)
Width(sz) == IF sz > 8 \/ sz \in {1, 2, 8} THEN sz ELSE 4

(* Parameters are always moved from a register, 4 bytes at least but for   *)
(* char and short.                                                         *)
ParamWidth(sz) == IF sz \in {1, 2, 8} THEN sz ELSE 4

FirstLocal(n) == MinOf({l \in DOMAIN locals : locals[l].name = n})

SaveParams ==
  [p \in DOMAIN Decl.params |->
     LET l == locals[FirstLocal(Decl.params[p].name)]
     IN  Ins("store", d, p + 1, InFrame(l.offset), ParamWidth(l.size))]

(* main begins with the initialisers of all scalar variables of its file.  *)
Initialised == {v \in DOMAIN file : file[v].k = "var" /\ file[v].init}
InitStore(v) ==
  IF v \in Initialised
  THEN <<Ins("store", v, 0, InSymbol(SymbolOf(file[v].name)),
             IF file[v].size = 8 THEN 8 ELSE 4)>>
  ELSE <<>>
InitStores[v \in 0 .. Len(file)] ==
  IF v = 0 THEN <<>> ELSE InitStores[v - 1] \o InitStore(v)
InitGlobals == IF Decl.name = "main" THEN InitStores[Len(file)] ELSE <<>>

WithSaveArea(n) == n + (IF Decl.variadic THEN 48 ELSE 0)

(* The frame grows by the slot of the hidden pointer and the register save *)
(* area, the scopes are reset, and the prologue stores what the caller     *)
(* passed.                                                                 *)
Prologue ==
  /\ phase = "collect" /\ i > Len(Body(Decl))
  /\ LET withHidden == frameSize + (IF Decl.big THEN 8 ELSE 0)
         all        == WithSaveArea(withHidden)
     IN  /\ frameSize' = all
         /\ hidden' = IF Decl.big THEN -withHidden ELSE 0
         /\ saveArea' = IF Decl.variadic THEN -all ELSE 0
         /\ code' = code
              \o (IF Decl.big THEN <<Ins("store", d, -1, InFrame(-withHidden), 8)>>
                  ELSE <<>>)
              \o InitGlobals \o SaveParams
              \o (IF Decl.variadic THEN <<Ins("store", d, -2, InFrame(-all), 48)>>
                  ELSE <<>>)
  /\ phase' = "generate"
  /\ i' = 1
  /\ chain' = <<>>
  /\ nextId' = 0
  /\ UNCHANGED <<file, d, locals, syms, size>>

-----------------------------------------------------------------------------
(* The generation of code for the body.                                    *)

Generating == phase = "generate" /\ i <= Len(Body(Decl))

(* Mutant: a block gets the number of its depth.                           *)
GenOpenByDepth == /\ Generating /\ Item.k = "open"
                  /\ nextId' = Len(chain) + 1
                  /\ chain' = Append(chain, Len(chain) + 1)
                  /\ i' = i + 1
                  /\ UNCHANGED <<file, phase, d, frameVars, syms, size, code>>

GenOpen == /\ Generating /\ Item.k = "open"
           /\ IF Len(chain) < MaxScopeIds
              THEN /\ nextId' = nextId + 1
                   /\ chain' = Append(chain, nextId + 1)
              ELSE UNCHANGED <<nextId, chain>>
           /\ i' = i + 1
           /\ UNCHANGED <<file, phase, d, frameVars, syms, size, code>>

GenClose == Generating /\ Item.k = "close" /\ CloseBlock

(* SEARCH_LOCAL: the last local of that name whose block is not deeper nor *)
(* numbered higher than the current one; failing that, the last one whose  *)
(* block is not deeper.                                                    *)
NotDeeper(n) == {l \in DOMAIN locals : locals[l].name = n
                                       /\ locals[l].depth <= Len(chain)}
Filtered(n) == {l \in NotDeeper(n) : locals[l].id <= ScopeId}
(* Mutant: the search begins with the first local.                         *)
SearchLocalForward(n) ==
  IF Filtered(n) # {} THEN MinOf(Filtered(n))
  ELSE IF NotDeeper(n) # {} THEN MinOf(NotDeeper(n)) ELSE 0

SearchLocal(n) == IF Filtered(n) # {} THEN MaxOf(Filtered(n))
                  ELSE IF NotDeeper(n) # {} THEN MaxOf(NotDeeper(n)) ELSE 0

Next1 == /\ i' = i + 1
         /\ UNCHANGED <<file, phase, d, frameVars, chain, nextId, size>>

Access(op, l) ==
  /\ code' = Append(code, Ins(op, d, i, InFrame(locals[l].offset),
                              Width(locals[l].size)))
  /\ Next1
  /\ UNCHANGED syms

(* An initialiser is stored in whatever local its name finds; a static     *)
(* variable is not among the locals.                                       *)
GenDecl ==
  /\ Generating /\ Item.k \in {"decl", "static"}
  /\ LET l == SearchLocal(Item.name)
     IN  IF Item.init /\ l # 0 THEN Access("store", l)
         ELSE Next1 /\ UNCHANGED <<syms, code>>

(* A variable with a symbol is loaded as 8 bytes or 4, and stored with its *)
(* width or that of the value.                                             *)
SizeKnown(n) == IF Named(n) = {} THEN 0 ELSE syms[SymbolOf(n)].size
LoadWidth(n) == IF SizeKnown(n) = 8 THEN 8 ELSE 4
StoreWidth(x) == IF x.wide THEN 8 ELSE Width(SizeKnown(x.name))

(* If the table is full, a reference to a new name emits nothing that      *)
(* refers to it.                                                           *)
GenUse ==
  /\ Generating /\ Item.k \in {"get", "set"}
  /\ LET l  == SearchLocal(Item.name)
         op == IF Item.k = "get" THEN "load" ELSE "store"
     IN  IF l # 0 THEN Access(op, l)
         ELSE /\ IF NoRoomFor(Item.name)
                 THEN UNCHANGED <<syms, code>>
                 ELSE /\ syms' = WithSymbol(Item.name)
                      /\ code' = Append(code,
                           Ins(op, d, i, InSymbol(SymbolOf(Item.name)),
                               IF op = "load" THEN LoadWidth(Item.name)
                               ELSE StoreWidth(Item)))
              /\ Next1

(* A call of a local variable loads the pointer it holds.                  *)
GenCall ==
  /\ Generating /\ Item.k = "call"
  /\ LET l == SearchLocal(Item.name)
     IN  IF l # 0
         THEN /\ code' = Append(code, Ins("load", d, i, InFrame(locals[l].offset), 8))
              /\ Next1
              /\ UNCHANGED syms
         ELSE IF NoRoomFor(Item.name) THEN Exit
         ELSE /\ syms' = WithSymbol(Item.name)
              /\ code' = Append(code,
                           Ins("call", d, i, InSymbol(SymbolOf(Item.name)), 0))
              /\ Next1

(* A return of a large structure loads the hidden pointer, va_arg reads    *)
(* the save area.                                                          *)
GenReturn ==
  /\ Generating /\ Item.k = "return"
  /\ code' = IF Decl.big THEN Append(code, Ins("load", d, i, InFrame(hidden), 8))
             ELSE code
  /\ Next1
  /\ UNCHANGED syms

GenVa ==
  /\ Generating /\ Item.k = "va"
  /\ code' = Append(code, Ins("load", d, i, InFrame(saveArea), 48))
  /\ Next1
  /\ UNCHANGED syms

GenOther ==
  /\ Generating /\ Item.k \in {"for", "endfor"}
  /\ Next1
  /\ UNCHANGED <<syms, code>>

EndFunction ==
  /\ phase = "generate" /\ i > Len(Body(Decl))
  /\ IF Waiting(Decl.name) = {} /\ Len(syms) >= MaxSyms
     THEN Exit
     ELSE /\ syms' = AddSym(Decl.name, ~Decl.static)
          /\ phase' = "functions"
          /\ d' = d + 1
          /\ UNCHANGED <<file, i, frameVars, chain, nextId, size, code>>

-----------------------------------------------------------------------------
Next == \/ GlobalVar \/ SkipFunction \/ Functions \/ SkipVar \/ Compiled
        \/ StartFunction \/ CollectOpen \/ CollectClose \/ CollectDecl
        \/ CollectStatic \/ CollectOther \/ Prologue
        \/ GenOpen \/ GenClose \/ GenDecl \/ GenUse \/ GenCall \/ GenReturn
        \/ GenVa \/ GenOther \/ EndFunction

Spec == Init /\ [][Next]_vars
=============================================================================
