-------------------------------- MODULE CgenRun --------------------------------
(***************************************************************************)
(* The code that Cgen generates, executed beside what C says of the        *)
(* statements it was generated from.                                       *)
(*                                                                         *)
(* The processor executes instructions that nobody sees (jumps, pushes,    *)
(* comparisons) until it is to evaluate an expression or to return; then   *)
(* CStatements moves to its next visible point.  If the two are about to   *)
(* do the same, they do it together, with one value chosen for the         *)
(* expression.                                                             *)
(***************************************************************************)
EXTENDS Cgen

CONSTANT Values   \* the values an expression may have

ASSUME ValuesAssumption == Values \subseteq Int

VARIABLES
  status,   \* "compiling", "running" or "returned"
  ip,       \* the offset of the instruction to execute
  rax,
  flag,     \* the sign of the last test or comparison
  stack,    \* what the function has pushed
  under,    \* it has popped what it had not pushed
  pt        \* the control point of CStatements

runVars == <<status, ip, rax, flag, stack, under, pt>>
vars == <<cgenVars, runVars>>

RunInit == /\ Init
           /\ status = "compiling"
           /\ ip = 0 /\ rax = 0 /\ flag = 0 /\ stack = <<>> /\ under = FALSE
           /\ pt = At("ret", 0)

Compile == CgenNext /\ UNCHANGED runVars

(* One of the functions is called.                                         *)
Call == /\ status = "compiling"
        /\ Compiled
        /\ \E f \in DOMAIN symbols :
             /\ ip' = symbols[f].start
             /\ pt' = At("enter", src.funcs[f])
        /\ status' = "running"
        /\ UNCHANGED <<cgenVars, rax, flag, stack, under>>

---------------------------------------------------------------------------
(* The processor.                                                          *)

InCode == ip \in DOMAIN code
CodeVisible == IF InCode THEN code[ip].op \in {"eval", "ret"} ELSE TRUE
Sign(v) == IF v < 0 THEN -1 ELSE IF v = 0 THEN 0 ELSE 1

Taken(op) == CASE op = "jmp" -> TRUE
               [] op = "jz"  -> flag = 0
               [] op = "jnz" -> flag # 0
               [] op = "jl"  -> flag < 0
               [] op = "jg"  -> flag > 0

NextIp == ip + code[ip].len

Step(op) == status = "running" /\ InCode /\ code[ip].op = op

ExecJump == /\ \E op \in JumpOps :
                 /\ Step(op)
                 /\ ip' = IF Taken(op) THEN NextIp + code[ip].disp ELSE NextIp
            /\ UNCHANGED <<cgenVars, status, rax, flag, stack, under, pt>>

ExecPush == /\ Step("push")
            /\ stack' = Append(stack, rax)
            /\ ip' = NextIp
            /\ UNCHANGED <<cgenVars, status, rax, flag, under, pt>>

(* Popping an empty stack reads the frame of the function, or its caller.  *)
ExecPop == /\ Step("pop")
           /\ IF stack # <<>>
              THEN /\ rax' = stack[Len(stack)]
                   /\ stack' = SubSeq(stack, 1, Len(stack) - 1)
                   /\ UNCHANGED under
              ELSE /\ rax' \in Values
                   /\ under' = TRUE
                   /\ UNCHANGED stack
           /\ ip' = NextIp
           /\ UNCHANGED <<cgenVars, status, flag, pt>>

ExecCmp == /\ Step("cmp")
           /\ flag' = Sign(rax - code[ip].arg)
           /\ ip' = NextIp
           /\ UNCHANGED <<cgenVars, status, rax, stack, under, pt>>

ExecPrologue == /\ Step("prologue")
                /\ ip' = NextIp
                /\ UNCHANGED <<cgenVars, status, rax, flag, stack, under, pt>>

---------------------------------------------------------------------------
(* The statements.                                                         *)

Both == status = "running" /\ CodeVisible

PtSilent == /\ Both
            /\ ~Visible(Nodes, pt)
            /\ pt' = Silent(Nodes, pt)
            /\ UNCHANGED <<cgenVars, status, ip, rax, flag, stack, under>>

CodeEvent == IF ~InCode THEN "off the end"
             ELSE IF code[ip].op = "ret" THEN "ret" ELSE code[ip].arg
PtEvent == IF pt[1] = "ret" THEN "ret" ELSE Evaluates(Nodes, pt)

Evaluate == /\ Both /\ Visible(Nodes, pt)
            /\ CodeEvent = PtEvent /\ PtEvent # "ret"
            /\ \E v \in Values :
                 /\ rax' = v
                 /\ flag' = Sign(v)
                 /\ pt' = OnValue(Nodes, pt, v)
            /\ ip' = NextIp
            /\ UNCHANGED <<cgenVars, status, stack, under>>

Return == /\ Both /\ Visible(Nodes, pt)
          /\ CodeEvent = "ret" /\ PtEvent = "ret"
          /\ status' = "returned"
          /\ UNCHANGED <<cgenVars, ip, rax, flag, stack, under, pt>>

Stopped == (status = "returned" \/ exited) /\ UNCHANGED vars

Execute == \/ ExecJump \/ ExecPush \/ ExecPop \/ ExecCmp \/ ExecPrologue
Next == \/ Compile \/ Call \/ Execute \/ PtSilent \/ Evaluate \/ Return \/ Stopped

(* The processor does not stop in the middle of a function.                *)
Spec == RunInit /\ [][Next]_vars /\ WF_vars(Execute)

---------------------------------------------------------------------------
(* Properties.                                                             *)

TypeOK == /\ LabelsTypeOK
          /\ fn \in DOMAIN src.funcs
          /\ brk \in Nat /\ cont \in Nat
          /\ Len(symbols) <= fn
          /\ Len(gotoTab) <= MaxGotos
          /\ status \in {"compiling", "running", "returned"}
          /\ ip \in Int /\ flag \in {-1, 0, 1}

(* A switch keeps its value on the stack from its condition to its         *)
(* dispatch and no further, whatever leaves or repeats it: the function    *)
(* never pops what it did not push, and nothing is left on the stack when  *)
(* an expression is evaluated, which may call with an aligned stack.       *)
StackBalanced == ~under /\ (Both => stack = <<>>)

(* The generated code does what C says of the statements, for every value  *)
(* of every expression: whenever both are about to do something that can   *)
(* be seen, it is the same thing, on a balanced stack.                     *)
ExecutesAsC ==
  /\ TypeOK /\ StackBalanced
  /\ (Both /\ Visible(Nodes, pt)) => CodeEvent = PtEvent

(* Where the code cannot be what C says: a continue in a do, a case that   *)
(* is not directly in the body of its switch, a switch whose last          *)
(* statement does not leave it, for the code falls into the dispatch.      *)
(* The rest C itself demands.                                              *)
Jumping == {"break", "continue", "goto", "return"}
LastKid(nodes, n) == nodes[n].kids[Len(nodes[n].kids)]
(* The smallest set that has the jumps and the blocks that end in one.     *)
Leaving(nodes) ==
  {n \in DOMAIN nodes :
     \A S \in SUBSET DOMAIN nodes :
       (\A m \in DOMAIN nodes :
          \/ nodes[m].k \in Jumping
          \/ nodes[m].k = "block" /\ nodes[m].kids # <<>> /\ LastKid(nodes, m) \in S
          => m \in S)
       => n \in S}
Span(m) == Nodes[m].lo .. Nodes[m].hi
OrdinarySwitch(n) ==
  LET kids == Nodes[n].kids
  IN  /\ kids # <<>> => LastKid(Nodes, n) \in Leaving(Nodes)
      /\ \A i, j \in Cases(kids) : i # j => Span(kids[i]) \cap Span(kids[j]) = {}
      /\ \A i, j \in Defaults(kids) : i = j
SameLabel(m, n) == /\ Nodes[m].k = "label" /\ Nodes[m].name = Nodes[n].name
                   /\ Root(Nodes, m) = Root(Nodes, n)
OrdinaryStatement(n) ==
  LET k == Nodes[n].k
  IN  /\ k = "continue" => \E l \in DOMAIN Nodes : /\ l = Enclosing(Nodes, n, Loops)
                                                  /\ Nodes[l].k # "do"
      /\ k = "switch" => OrdinarySwitch(n)
      /\ IsMark(n) => \E p \in DOMAIN Nodes : IsKid(Nodes, n, p) /\ Nodes[p].k = "switch"
      /\ k = "goto" => \E m \in DOMAIN Nodes : SameLabel(m, n)
      /\ k = "label" => \A m \in DOMAIN Nodes : SameLabel(m, n) => m = n

(* And where a function's code ends in the byte C3, that is a return that  *)
(* nothing jumps behind.                                                   *)
EndsInReturn ==
  ~exited /\ work = <<>> /\ ~patched /\ EndsInC3 =>
    /\ LastIns.op = "ret"
    /\ \A k \in DOMAIN labelTab : labelTab[k].off # codeSize

Ordinary == EndsInReturn /\ \A n \in DOMAIN Nodes : OrdinaryStatement(n)

(* The processor never runs through jumps and dispatches for ever: between *)
(* two visible events there is a finite number of others.                  *)
ReachesEvent == []<>(status # "running" \/ CodeVisible)

(* Code generation implements the machine of labels and fixups.            *)
ImplementsLabels == LabelsSpec
=============================================================================
