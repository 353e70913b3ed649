-------------------------------- MODULE NamesAsC --------------------------------
(***************************************************************************)
(* What C says the names of a file mean, and what must then be true of     *)
(* Names: in C a declaration is visible from where it stands to the end of *)
(* the innermost block, for or switch around it, unless another one hides  *)
(* it.                                                                     *)
(***************************************************************************)
EXTENDS Names, FiniteSets

Opens  == {"open", "for"}
Closes == {"close", "endfor"}

(* How many scopes of the body b are open at each position; a brace is     *)
(* outside the scope it delimits.                                          *)
Levels(b) ==
  LET level[p \in 0 .. Len(b)] ==
        IF p = 0 THEN 0
        ELSE level[p - 1] + (IF p > 1 /\ b[p - 1].k \in Opens THEN 1 ELSE 0)
             - (IF b[p].k \in Closes THEN 1 ELSE 0)
  IN  level

Declares(b, p, n) == b[p].k \in {"decl", "static"} /\ b[p].name = n

(* The declarations of n visible at q; the one declared last hides the     *)
(* others.  0 stands for the declarations outside the function.            *)
Visible(b, q, n) ==
  LET level == Levels(b)
  IN  {p \in 1 .. q : Declares(b, p, n) /\ \A r \in p .. q : level[r] >= level[p]}
DeclarationOf(b, q, n) == MaxOf({0} \cup Visible(b, q, n))

Bodies == [f \in {x \in DOMAIN file : file[x].k = "func"} |-> Body(file[f])]

(* The object that item p of function f reads or writes.                   *)
Object(f, p) ==
  LET q == DeclarationOf(Bodies[f], p, Bodies[f][p].name)
  IN  IF q = 0 THEN <<0, Bodies[f][p].name>> ELSE <<f, q>>

IsParam(f, p) == p \in 2 .. Len(file[f].params) + 1

Reads(f)  == {p \in DOMAIN Bodies[f] : Bodies[f][p].k = "get"}
Writes(f) == {p \in DOMAIN Bodies[f] :
                \/ Bodies[f][p].k = "set"
                \/ Bodies[f][p].k = "decl" /\ (Bodies[f][p].init \/ IsParam(f, p))}
StaticInits(f) == {p \in DOMAIN Bodies[f] :
                     Bodies[f][p].k = "static" /\ Bodies[f][p].init}

(* An execution: the initialisers of static variables and of the file's    *)
(* variables, then every function once, in order, each item once.  An      *)
(* event is <<function, item>>, <<-function, item>> for the initialiser of *)
(* a static variable and <<0, v>> for that of the file's variable v.       *)
Before(x, y) == x[1] < y[1] \/ (x[1] = y[1] /\ x[2] < y[2])

WritesOf(object) ==
  {w \in UNION {{f} \X Writes(f) : f \in DOMAIN Bodies} : Object(w[1], w[2]) = object}
  \cup {<<-e[1], e[2]>> : e \in {object} \cap
                       UNION {{f} \X StaticInits(f) : f \in DOMAIN Bodies}}
  \cup {<<0, v>> : v \in {x \in Initialised : object = <<0, file[x].name>>}}

(* The last write to what <<f, p>> reads, or <<>>.                         *)
LastWrite(f, p) ==
  LET W == {w \in WritesOf(Object(f, p)) : Before(w, <<f, p>>)}
  IN  IF W = {} THEN <<>>
      ELSE CHOOSE w \in W : \A u \in W : u = w \/ Before(u, w)

Automatic(object) == object[1] # 0 /\ Bodies[object[1]][object[2]].k = "decl"

SizeOf(object) ==
  IF object[1] # 0 THEN Bodies[object[1]][object[2]].size
  ELSE LET V == {v \in DOMAIN file : file[v].k = "var" /\ file[v].name = object[2]}
       IN  IF V = {} THEN 4 ELSE file[MinOf(V)].size

-----------------------------------------------------------------------------
(* The same execution of the code emitted.                                 *)

Event(c) == IF c.at = 0 THEN <<0, c.fn>> ELSE <<c.fn, c.at>>

(* Byte b of what c moves: a frame is the function's own.                  *)
Byte(c, b) ==
  IF c.mem.in = "frame" THEN <<"frame", c.fn, c.mem.pos + b>>
  ELSE LET s == syms[c.mem.pos]
       IN  IF s.sect = "undef" THEN <<"undef", c.mem.pos, b>>
             ELSE <<s.sect, 0, s.offset + b>>

Stores == {c \in DOMAIN code : code[c].op = "store"}
Covers(c, byte) == \E b \in 0 .. code[c].len - 1 : Byte(code[c], b) = byte

(* Instructions are emitted in the order in which they are executed but    *)
(* for the initialisers, which come first.                                 *)
Sooner(x, y) == IF code[x].at = 0 /\ code[y].at # 0 THEN TRUE
                ELSE IF code[y].at = 0 /\ code[x].at # 0 THEN FALSE ELSE x < y

LastStore(c, byte) ==
  LET S == {x \in Stores : Sooner(x, c) /\ Covers(x, byte)}
  IN  IF S = {} THEN <<>>
      ELSE Event(code[CHOOSE x \in S : \A y \in S : y = x \/ Sooner(y, x)])

LoadsFor(f, p) == {c \in DOMAIN code : /\ code[c].op = "load"
                                       /\ code[c].fn = f /\ code[c].at = p}

(* The hidden pointer and the register save area still hold at every       *)
(* return and va_arg what the prologue stored.                             *)
PrologueKept ==
  \A c \in DOMAIN code :
    code[c].op = "load" /\ Bodies[code[c].fn][code[c].at].k \in {"return", "va"} =>
      \A b \in 0 .. code[c].len - 1 :
        LastStore(c, Byte(code[c], b)) \in {<<code[c].fn, -1>>, <<code[c].fn, -2>>}

(* Every read of a variable loads all its bytes, as the last write to that *)
(* variable left them: no other variable's store came between, under the   *)
(* same name or through an overlapping slot; and so does every read of     *)
(* what the prologue stored.                                               *)
ReadsLastWrite ==
  /\ PrologueKept
  /\ phase = "done" =>
       \A f \in DOMAIN Bodies : \A p \in Reads(f) :
         LET w == LastWrite(f, p)
             o == Object(f, p)
         IN  \/ w = <<>> /\ Automatic(o)
             \/ \E c \in LoadsFor(f, p) :
                  /\ code[c].len = SizeOf(o)
                  /\ \A b \in 0 .. code[c].len - 1 :
                       LastStore(c, Byte(code[c], b)) = w

-----------------------------------------------------------------------------
(* Files of which both agree.                                              *)

(* A body without its for statements.                                      *)
Braces(b) == [p \in DOMAIN b |-> IF b[p].k \in {"open", "close"} THEN b[p]
                                 ELSE [k |-> "get"]]

(* Scopes are nested: as long as none of those around p is closed, no      *)
(* block and no for around p is; and no brace closes what none opened.     *)
WellNested(b) ==
  LET level == Levels(b)
      block == Levels(Braces(b))
  IN  /\ \A p \in 1 .. Len(b) : block[p] >= 0
      /\ \A p \in 1 .. Len(b) : \A q \in p .. Len(b) :
           (\A r \in p .. q : level[r] >= level[p]) =>
             /\ block[p] <= block[q]
             /\ block[q] - block[p] <= level[q] - level[p]

LocalsOf(b, n) == {p \in 1 .. Len(b) : b[p].k = "decl" /\ b[p].name = n}
UsesOf(b, n)   == {q \in 1 .. Len(b) : b[q].k \in {"get", "set", "decl"} /\ b[q].name = n}

(* Declaration p is in the way of a use at q that means declaration c: it  *)
(* comes later, in a block that is not deeper and was opened before q.     *)
InTheWay(b, p, q, c) ==
  LET block == Levels(Braces(b))
  IN  /\ p > c /\ block[p] <= block[q]
      /\ p < q \/ c = 0 \/ \A r \in q .. p : block[r] >= block[p]

Ways(b, q, n) == {p \in LocalsOf(b, n) : InTheWay(b, p, q, DeclarationOf(b, q, n))}

(* A name whose declarations may hide each other, but none is in the way   *)
(* of a use,                                                               *)
Clear(b, n) == \A q \in UsesOf(b, n) : Ways(b, q, n) = {}

(* or whose declarations stand beside each other, as those of for          *)
(* statements do: they have one size and may share a slot.                 *)
Beside(b, n) ==
  /\ \A p \in LocalsOf(b, n) : Visible(b, p, n) = {p}
  /\ \A p, q \in LocalsOf(b, n) : b[p].size = b[q].size
  /\ \A q \in UsesOf(b, n) : DeclarationOf(b, q, n) = 0 => Ways(b, q, n) = {}

(* The parameters of a function have different names, and each of its      *)
(* local variables is of one of the two kinds.                             *)
Unambiguous(x) ==
  LET b == Body(x)
      P == x.params
  IN  /\ \A p \in 1 .. Len(b) : b[p].k = "decl" =>
           \/ Clear(b, b[p].name)
           \/ Beside(b, b[p].name) /\ \A y \in DOMAIN P : P[y].name # b[p].name
      /\ \A y, z \in DOMAIN P : P[y].name = P[z].name => y = z

(* Variables have the widths of C's types where values are moved, and a    *)
(* name of the file has one size.                                          *)
Widths ==
  /\ \A f \in DOMAIN Bodies : \A p \in Reads(f) \cup Writes(f) :
       LET o == Object(f, p)
       IN  IF ~Automatic(o) THEN SizeOf(o) \in {4, 8}
           ELSE IF IsParam(f, o[2]) THEN SizeOf(o) \in {1, 2, 4, 8}
           ELSE SizeOf(o) \notin {3, 5, 6, 7}
  /\ \A v \in Initialised : file[v].size \in {4, 8}
  /\ \A v, w \in DOMAIN file :
       file[v].k = "var" /\ file[w].k = "var" /\ file[v].name = file[w].name
         => file[v].size = file[w].size

(* A static variable of a function has no initialiser and a name that      *)
(* means it wherever the file mentions it.                                 *)
StaticsApart ==
  \A f \in DOMAIN Bodies : \A q \in DOMAIN Bodies[f] : Bodies[f][q].k = "static" =>
    /\ ~Bodies[f][q].init
    /\ \A x \in DOMAIN file : file[x].name # Bodies[f][q].name
    /\ \A g \in DOMAIN Bodies : \A p \in DOMAIN Bodies[g] :
         /\ Bodies[g][p].k \in {"decl", "static", "get", "set", "call"}
         /\ Bodies[g][p].name = Bodies[f][q].name
         => Object(g, p) = <<f, q>>

(* No function has the name of a variable of the file, or is assigned.     *)
FunctionsFixed ==
  \A x \in DOMAIN file : file[x].k = "func" =>
    /\ \A v \in DOMAIN file : file[v].k = "var" => file[v].name # file[x].name
    /\ \A f \in DOMAIN Bodies : \A p \in Writes(f) : Object(f, p) # <<0, file[x].name>>

(* Variables of the file are initialised where there is one main.          *)
OneMain ==
  Initialised # {} =>
    \E x \in DOMAIN file :
      /\ file[x].k = "func" /\ file[x].name = "main"
      /\ \A y \in DOMAIN file : file[y].k = "func" /\ file[y].name = "main" => y = x

Agreed ==
  /\ \A x \in DOMAIN file : file[x].k = "func" =>
       WellNested(Body(file[x])) /\ Unambiguous(file[x])
  /\ Widths /\ StaticsApart /\ FunctionsFixed /\ OneMain

-----------------------------------------------------------------------------
Locals  == [name : STRING, size : Nat, offset : Int, depth : Nat, id : Nat]
Symbols == [name : STRING, sect : {"undef", "text", "data", "bss"}, offset : Nat,
            size : Nat, global : BOOLEAN]

TypeOK ==
  /\ phase \in {"globals", "functions", "collect", "generate", "done", "exited"}
  /\ d \in 1 .. Len(file) + 1
  /\ i \in Nat
  /\ phase \in {"collect", "generate"} => d <= Len(file) /\ Decl.k = "func" /\ i >= 1
  /\ locals \in Seq(Locals) /\ Len(locals) <= MaxLocals
  /\ frameSize \in Nat
  /\ chain \in Seq(Nat) /\ Len(chain) <= MaxScopeIds
  /\ nextId \in Nat
  /\ hidden \in Int /\ saveArea \in Int
  /\ syms \in Seq(Symbols) /\ Len(syms) <= MaxSyms
  /\ size \in [{"data", "bss"} -> Nat]

(* The slots of a function's locals lie in its frame, one beside the       *)
(* other, below the saved rbp and above the hidden pointer.                *)
SlotsDisjoint ==
  \A l \in DOMAIN locals :
    /\ -frameSize <= locals[l].offset
    /\ locals[l].offset + locals[l].size <= 0
    /\ hidden # 0 => hidden + 8 <= locals[l].offset
    /\ \A m \in 1 .. l - 1 : locals[l].offset + locals[l].size <= locals[m].offset

(* The number of the block that declares a variable is the same in both    *)
(* passes: the one the declaration is in when code is generated for it.    *)
SameScopes ==
  Generating =>
    (Item.k = "decl" =>
       LET l == locals[Cardinality({p \in 1 .. i : Body(Decl)[p].k = "decl"})]
       IN  l.name = Item.name /\ l.id = ScopeId /\ l.depth = Len(chain))

(* A function or file-level variable is visible to the linker if and only  *)
(* if it is not static.  When the file is compiled every call is against a *)
(* symbol of its name, and none against an undefined one if the file       *)
(* defines the function.                                                   *)
Linked ==
  \A x \in DOMAIN file : \E s \in DOMAIN syms :
    /\ syms[s].name = file[x].name
    /\ syms[s].sect = (IF file[x].k = "func" THEN "text"
                       ELSE IF file[x].init THEN "data" ELSE "bss")
    /\ syms[s].global = ~file[x].static
CallsBound ==
  \A c \in DOMAIN code :
    code[c].op = "call" =>
      LET s == syms[code[c].mem.pos]
          n == Bodies[code[c].fn][code[c].at].name
      IN  /\ s.name = n
          /\ (\E x \in DOMAIN file : file[x].k = "func" /\ file[x].name = n)
               => s.sect = "text"
LinkedAsC == phase = "done" => Linked /\ CallsBound

(* The data buffer is filled up to every variable with an initialiser: it  *)
(* has room for what is before the last one.                               *)
DataFits == \A s \in DOMAIN syms : syms[s].sect = "data" => syms[s].offset <= MaxData

(* Relocations hold the numbers of symbols: no step gives a number to      *)
(* another name, or to another place once the symbol is defined.           *)
SymbolsStay ==
  [][\A s \in DOMAIN syms :
       /\ s \in DOMAIN syms'
       /\ syms'[s].name = syms[s].name
       /\ syms[s].sect # "undef" => syms'[s] = syms[s]]_vars
=============================================================================
