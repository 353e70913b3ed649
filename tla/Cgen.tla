---------------------------------- MODULE Cgen ----------------------------------
(***************************************************************************)
(* The statement part of cgen.c: cgen_stmt and the cgen_* functions of the *)
(* statements, cgen_func_def, and the jumps they emit.                     *)
(*                                                                         *)
(* The code generator is recursive.  Here its call stack is "work": what   *)
(* the functions still being executed have left to do, in order.  An item  *)
(* is a statement to generate or one call of a function of Labels.  A      *)
(* statement's action does what its function does before its first         *)
(* emission and puts the rest of the function in front of work.            *)
(***************************************************************************)
EXTENDS Labels, CStatements, FiniteSets

CONSTANTS
  Files,       \* the files to compile: [nodes, funcs], funcs the bodies
  EndingC3,    \* the expressions whose code ends in a byte 0xC3
  MaxCases,    \* MAX_CASES
  MaxGotos     \* MAX_GOTO_LABELS

ASSUME GotosAssumption == MaxGotos \in Nat

VARIABLES
  src,         \* the file being compiled
  fn,          \* the function being compiled, counted from 1
  work,        \* what remains to be done for it
  brk,         \* break_target_label
  cont,        \* continue_target_label
  gotoTab,     \* goto_label_names and goto_label_ids
  symbols      \* what add_sym recorded of the functions compiled

genVars == <<src, fn, work, brk, cont, gotoTab, symbols>>
cgenVars == <<labelVars, genVars>>

Nodes == src.nodes

(* The items of work.                                                      *)
Stmt(n)     == [do |-> "stmt", n |-> n]
Jmp(op, id) == [do |-> "jump", op |-> op, id |-> id]
Set(id)     == [do |-> "set", id |-> id]
Put1(ins)   == [do |-> "emit", ins |-> ins]
Test(n, id) == [do |-> "test", n |-> n, id |-> id]
Restore(b, c) == [do |-> "restore", brk |-> b, cont |-> c]

(* Instructions that are not jumps.  Lengths other than those of the jumps *)
(* do not matter as long as they differ from zero.                         *)
Plainly(op, len, arg) == [op |-> op, len |-> len, arg |-> arg]
Eval(a)  == Put1(Plainly("eval", 3, a))
Push     == Put1(Plainly("push", 1, None))
Pop      == Put1(Plainly("pop", 1, None))
Cmp(v)   == Put1(Plainly("cmp", 5, v))
Prologue == Put1(Plainly("prologue", 4, None))
Epilogue == Put1(Plainly("ret", 5, None))

EvalIf(a) == IF a = None THEN <<>> ELSE <<Eval(a)>>
Stmts(ns) == [i \in DOMAIN ns |-> Stmt(ns[i])]

(* What a file is: every statement has the substatements and expressions   *)
(* of its kind, and a break or continue stands in a loop or a switch.      *)
Simple == {"expr", "return", "null", "case", "default", "break", "continue",
           "goto", "label"}
Evaluated(a) == Plainly("eval", 3, a) \in Plain
Around(f, n) == Enclosing(f.nodes, n, Loops \cup {"switch"})
Shaped(f) ==
  \A n \in DOMAIN f.nodes : LET x == f.nodes[n]
    IN  /\ x.kids \in Seq(DOMAIN f.nodes)
        /\ x.k \in Loops => Len(x.kids) = 1
        /\ x.k = "if" => Len(x.kids) \in {1, 2}
        /\ x.k \in Simple => x.kids = <<>>
        /\ x.k \in {"if", "while", "do", "switch"} => x.a # None /\ Evaluated(x.a)
        /\ x.k \in {"expr", "return", "for"} => x.a = None \/ Evaluated(x.a)
        /\ x.k = "for" => \A a \in {x.init, x.step} : a = None \/ Evaluated(a)
        /\ x.k = "case" => \A v \in {x.lo, x.hi} : v \in Int /\ Plainly("cmp", 5, v) \in Plain
        /\ x.k \in {"break", "continue"} => Around(f, n) # 0
        /\ x.k \notin Loops \cup {"switch"} =>
             \A i \in DOMAIN x.kids : Around(f, x.kids[i]) # 0 => Around(f, n) # 0

(* Its statements form trees: a statement is part of one other at most,    *)
(* which has a smaller number, and the body of a function of none.         *)
Trees(f) ==
  /\ Len(f.nodes) \in Nat /\ DOMAIN f.nodes = 1 .. Len(f.nodes)
  /\ \A n \in DOMAIN f.nodes : \A i \in DOMAIN f.nodes[n].kids :
       /\ f.nodes[n].kids[i] > n
       /\ \A m \in DOMAIN f.nodes : \A j \in DOMAIN f.nodes[m].kids :
            f.nodes[m].kids[j] = f.nodes[n].kids[i] => m = n /\ j = i
       /\ \A g \in DOMAIN f.funcs : f.funcs[g] # f.nodes[n].kids[i]
ASSUME FilesAssumption ==
  /\ \A f \in Files : /\ Shaped(f) /\ Trees(f)
                      /\ f.funcs \in Seq(DOMAIN f.nodes) /\ Len(f.funcs) > 0
                      /\ \A i \in DOMAIN f.funcs : Around(f, f.funcs[i]) = 0
  /\ {Plainly("prologue", 4, None), Plainly("ret", 5, None),
      Plainly("push", 1, None), Plainly("pop", 1, None)} \subseteq Plain

Init == /\ LabelsInit
        /\ src \in Files
        /\ fn = 1
        /\ work = <<Prologue, Stmt(src.funcs[1])>>
        /\ brk = 0
        /\ cont = 0
        /\ gotoTab = <<>>
        /\ symbols = <<>>

Head1 == work[1]
Rest  == Tail(work)

(* The statement to generate is of kind k.                                 *)
At1(k) == /\ ~exited
          /\ work # <<>>
          /\ Head1.do = "stmt"
          /\ Nodes[Head1.n].k = k
X == Nodes[Head1.n]

KeepTargets == UNCHANGED <<src, fn, brk, cont, gotoTab, symbols>>

---------------------------------------------------------------------------
(* cgen_stmt's branches.                                                   *)

GenExpr == /\ At1("expr")
           /\ work' = EvalIf(X.a) \o Rest
           /\ UNCHANGED labelVars /\ KeepTargets

GenReturn == /\ At1("return")
             /\ work' = EvalIf(X.a) \o <<Epilogue>> \o Rest
             /\ UNCHANGED labelVars /\ KeepTargets

GenBlock == /\ At1("block")
            /\ work' = Stmts(X.kids) \o Rest
            /\ UNCHANGED labelVars /\ KeepTargets

(* cgen_if *)
GenIf ==
  /\ At1("if")
  /\ NewLabels(2)
  /\ LET else == counter
         end  == counter + 1
     IN  work' = <<Eval(X.a), Jmp("jz", else), Stmt(X.kids[1])>>
                 \o (IF Len(X.kids) = 2
                     THEN <<Jmp("jmp", end), Set(else), Stmt(X.kids[2]), Set(end)>>
                     ELSE <<Set(else)>>)
                 \o Rest
  /\ KeepTargets

(* cgen_while *)
GenWhile ==
  /\ At1("while")
  /\ NewLabels(2)
  /\ LET start == counter
         end   == counter + 1
     IN  /\ brk' = end
         /\ cont' = start
         /\ work' = <<Set(start), Eval(X.a), Jmp("jz", end), Stmt(X.kids[1]),
                      Jmp("jmp", start), Set(end), Restore(brk, cont)>> \o Rest
  /\ UNCHANGED <<src, fn, gotoTab, symbols>>

(* cgen_for *)
(* Mutant: continue skips the step, as it may in a while.                  *)
GenForContinueAtTest ==
  /\ At1("for")
  /\ NewLabels(3)
  /\ LET start == counter
         end   == counter + 1
         step  == counter + 2
     IN  /\ brk' = end
         /\ cont' = start
         /\ work' = EvalIf(X.init) \o <<Set(start)>> \o EvalIf(X.a)
                    \o (IF X.a = None THEN <<>> ELSE <<Jmp("jz", end)>>)
                    \o <<Stmt(X.kids[1]), Set(step)>> \o EvalIf(X.step)
                    \o <<Jmp("jmp", start), Set(end), Restore(brk, cont)>> \o Rest
  /\ UNCHANGED <<src, fn, gotoTab, symbols>>

GenFor ==
  /\ At1("for")
  /\ NewLabels(3)
  /\ LET start == counter
         end   == counter + 1
         step  == counter + 2
     IN  /\ brk' = end
         /\ cont' = step
         /\ work' = EvalIf(X.init) \o <<Set(start)>> \o EvalIf(X.a)
                    \o (IF X.a = None THEN <<>> ELSE <<Jmp("jz", end)>>)
                    \o <<Stmt(X.kids[1]), Set(step)>> \o EvalIf(X.step)
                    \o <<Jmp("jmp", start), Set(end), Restore(brk, cont)>> \o Rest
  /\ UNCHANGED <<src, fn, gotoTab, symbols>>

GenDoWhile ==
  /\ At1("do")
  /\ NewLabels(2)
  /\ LET start == counter
         end   == counter + 1
     IN  /\ brk' = end
         /\ cont' = start
         /\ work' = <<Set(start), Stmt(X.kids[1]), Eval(X.a), Jmp("jnz", start),
                      Set(end), Restore(brk, cont)>> \o Rest
  /\ UNCHANGED <<src, fn, gotoTab, symbols>>

---------------------------------------------------------------------------
(* cgen_switch: the case and default statements directly in the body get a *)
(* label each, the value is pushed, the body is generated, and after it    *)
(* the dispatch, which pops the value and compares it with every case.     *)

IsMark(n)  == Nodes[n].k \in {"case", "default"}
IsRange(n) == Nodes[n].k = "case" /\ Nodes[n].hi # Nodes[n].lo
Marks(kids)    == {i \in DOMAIN kids : IsMark(kids[i])}
Cases(kids)    == {i \in DOMAIN kids : Nodes[kids[i]].k = "case"}
Defaults(kids) == {i \in DOMAIN kids : Nodes[kids[i]].k = "default"}

(* The label of the i-th statement of the body, a case or default.         *)
MarkLabel(kids, i) == counter + Cardinality({j \in Marks(kids) : j < i})

(* Mutant: the label to skip to is set before the comparisons.             *)
CaseTestSkipFirst(n, label, skip) ==
  IF IsRange(n)
  THEN <<Set(skip), Cmp(Nodes[n].lo), Jmp("jl", skip), Cmp(Nodes[n].hi),
         Jmp("jg", skip), Jmp("jmp", label)>>
  ELSE <<Cmp(Nodes[n].lo), Jmp("jz", label)>>

CaseTest(n, label, skip) ==
  IF IsRange(n)
  THEN <<Cmp(Nodes[n].lo), Jmp("jl", skip), Cmp(Nodes[n].hi), Jmp("jg", skip),
         Jmp("jmp", label), Set(skip)>>
  ELSE <<Cmp(Nodes[n].lo), Jmp("jz", label)>>

(* The entries of cases: what is no case has none.                         *)
Tests(kids) == [i \in DOMAIN kids |-> Test(kids[i], MarkLabel(kids, i))]

ToDefault(kids) ==
  IF Defaults(kids) = {} THEN <<>>
  ELSE <<Jmp("jmp", MarkLabel(kids, CHOOSE i \in Defaults(kids) :
                                      \A j \in Defaults(kids) : j <= i))>>

Body(kids) == [i \in DOMAIN kids |-> IF IsMark(kids[i]) THEN Set(MarkLabel(kids, i))
                                     ELSE Stmt(kids[i])]

GenSwitch ==
  /\ At1("switch")
  /\ Cardinality(Cases(X.kids)) <= MaxCases
  /\ LET kids     == X.kids
         dispatch == counter + Cardinality(Marks(kids))
         end      == dispatch + 1
     IN  /\ NewLabels(Cardinality(Marks(kids)) + 2)
         /\ brk' = end
         /\ work' = <<Eval(X.a), Push, Jmp("jmp", dispatch)>> \o Body(kids)
                    \o <<Set(dispatch), Pop>> \o Tests(kids)
                    \o ToDefault(kids) \o <<Set(end), Restore(brk, cont)>> \o Rest
  /\ UNCHANGED <<src, fn, cont, gotoTab, symbols>>

TooManyCases == /\ At1("switch")
                /\ Cardinality(Cases(X.kids)) > MaxCases
                /\ Exit
                /\ UNCHANGED genVars

---------------------------------------------------------------------------
(* Jumps out of statements, goto and its labels.                           *)

GenBreak == /\ At1("break")
            /\ work' = (IF brk >= 0 THEN <<Jmp("jmp", brk)>> ELSE <<>>) \o Rest
            /\ UNCHANGED labelVars /\ KeepTargets

GenContinue == /\ At1("continue")
               /\ work' = (IF cont >= 0 THEN <<Jmp("jmp", cont)>> ELSE <<>>) \o Rest
               /\ UNCHANGED labelVars /\ KeepTargets

(* get_or_create_goto_label: the label of that name, and what the next     *)
(* step does with it.                                                      *)
Known(name)  == \E i \in DOMAIN gotoTab : gotoTab[i].name = name
IdOf(name)   == gotoTab[CHOOSE i \in DOMAIN gotoTab : gotoTab[i].name = name].id
NameItem(id) == IF X.k = "goto" THEN Jmp("jmp", id) ELSE Set(id)

GenNamed == /\ At1("goto") \/ At1("label")
            /\ IF Known(X.name)
               THEN /\ work' = <<NameItem(IdOf(X.name))>> \o Rest
                    /\ UNCHANGED <<labelVars, gotoTab>>
               ELSE /\ Len(gotoTab) < MaxGotos
                    /\ NewLabels(1)
                    /\ gotoTab' = Append(gotoTab, [name |-> X.name, id |-> counter])
                    /\ work' = <<NameItem(counter)>> \o Rest
            /\ UNCHANGED <<src, fn, brk, cont, symbols>>

TooManyGotos == /\ At1("goto") \/ At1("label")
                /\ ~Known(X.name)
                /\ Len(gotoTab) >= MaxGotos
                /\ Exit
                /\ UNCHANGED genVars

(* An empty statement; and a case or default that is not directly in the   *)
(* body of its switch, for which cgen_stmt does nothing.                   *)
GenNothing == /\ At1("null") \/ At1("case") \/ At1("default")
              /\ work' = Rest
              /\ UNCHANGED labelVars /\ KeepTargets

---------------------------------------------------------------------------
(* The other items.                                                        *)

Item(d) == ~exited /\ work # <<>> /\ Head1.do = d

DoEmit == /\ Item("emit")
          /\ Emit(Head1.ins)
          /\ work' = Rest
          /\ KeepTargets

DoJump == /\ Item("jump")
          /\ EmitJump(Head1.op, Head1.id)
          /\ work' = Rest
          /\ KeepTargets

DoSet == /\ Item("set")
         /\ SetLabel(Head1.id)
         /\ work' = Rest
         /\ KeepTargets

(* One turn of the loop over cases; a range needs a label to skip to.      *)
DoTest == /\ Item("test")
          /\ IF IsRange(Head1.n) THEN NewLabels(1) ELSE UNCHANGED labelVars
          /\ work' = (IF Nodes[Head1.n].k = "case"
                      THEN CaseTest(Head1.n, Head1.id, counter) ELSE <<>>) \o Rest
          /\ KeepTargets

DoRestore == /\ Item("restore")
             /\ brk' = Head1.brk
             /\ cont' = Head1.cont
             /\ work' = Rest
             /\ UNCHANGED labelVars
             /\ UNCHANGED <<src, fn, gotoTab, symbols>>

Overflow == /\ \/ Item("set") /\ LabelOverflow
               \/ Item("jump") /\ FixupOverflow(Head1.id)
            /\ UNCHANGED genVars

---------------------------------------------------------------------------
(* The end of cgen_func_def: a return is added unless the last byte of the *)
(* code is C3, the fixups are applied and the symbol is recorded.          *)

LastIns == code[CHOOSE o \in DOMAIN code : o + code[o].len = codeSize]
EndsInC3 == \/ LastIns.op = "ret"
            \/ LastIns.op = "eval" /\ LastIns.arg \in EndingC3

(* Mutant: the forward jumps are never patched.                            *)
FinishFunctionUnpatched ==
  /\ ~exited /\ work = <<>> /\ ~patched
  /\ EndsInC3
  /\ patched' = TRUE
  /\ symbols' = Append(symbols, [start |-> funcStart,
                                 size |-> codeSize - funcStart])
  /\ UNCHANGED <<src, fn, work, brk, cont, gotoTab, code, codeSize, labelTab,
                 fixups, counter, funcStart, exited>>

FinishFunction == /\ ~exited /\ work = <<>> /\ ~patched
                  /\ EndsInC3
                  /\ ApplyFixups
                  /\ symbols' = Append(symbols, [start |-> funcStart,
                                                 size |-> codeSize - funcStart])
                  /\ UNCHANGED <<src, fn, work, brk, cont, gotoTab>>

(* The implicit return is one more item of work.                           *)
ImplicitReturn == /\ ~exited /\ work = <<>> /\ ~patched
                  /\ ~EndsInC3
                  /\ work' = <<Epilogue>>
                  /\ UNCHANGED labelVars /\ KeepTargets

(* cgen_func_def of the next function.                                     *)
NextFunction == /\ ~exited /\ patched
                /\ fn < Len(src.funcs)
                /\ StartFunction
                /\ fn' = fn + 1
                /\ work' = <<Prologue, Stmt(src.funcs[fn + 1])>>
                /\ gotoTab' = <<>>
                /\ UNCHANGED <<src, brk, cont, symbols>>

Compiled == ~exited /\ patched /\ fn = Len(src.funcs)

CgenNext == \/ GenExpr \/ GenReturn \/ GenBlock \/ GenIf \/ GenWhile \/ GenFor
            \/ GenDoWhile \/ GenSwitch \/ TooManyCases \/ GenBreak \/ GenContinue
            \/ GenNamed \/ TooManyGotos \/ GenNothing
            \/ DoEmit \/ DoJump \/ DoSet \/ DoTest \/ DoRestore \/ Overflow
            \/ FinishFunction \/ ImplicitReturn \/ NextFunction

CgenSpec == Init /\ [][CgenNext]_cgenVars
=============================================================================
