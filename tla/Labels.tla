-------------------------------- MODULE Labels --------------------------------
(***************************************************************************)
(* The labels, jumps and fixups of cgen.c: new_label, set_label,           *)
(* find_label_offset, emit_jmp, emit_jcc, apply_fixups and reset_labels.   *)
(*                                                                         *)
(* A jump to a label that is already set is emitted with its displacement; *)
(* a jump to one that is not is emitted with a placeholder and recorded as *)
(* a fixup, which apply_fixups patches when the function is complete.  The *)
(* code buffer is shared by all the functions of the file; the tables of   *)
(* labels and fixups belong to the function being compiled.                *)
(***************************************************************************)
EXTENDS Integers, Sequences

CONSTANTS
  MaxLabels,   \* MAX_LABELS
  MaxFixups,   \* MAX_FIXUPS
  Plain        \* the other instructions: records with an op and a len

ASSUME LimitsAssumption == MaxLabels \in Nat /\ MaxFixups \in Nat
ASSUME PlainAssumption ==
  \A x \in Plain : x.len \in Nat \ {0} /\ x.op \notin {"jmp", "jz", "jnz", "jl", "jg"}

VARIABLES
  code,       \* code_buf: the instruction that begins at an offset
  codeSize,   \* code_size
  labelTab,   \* label_ids and label_offsets
  fixups,     \* fixup_label, fixup_offset and fixup_is_jmp
  counter,    \* the counter of new_label
  funcStart,  \* func_start
  patched,    \* apply_fixups has run for this function
  exited      \* __exit(1)

labelVars == <<code, codeSize, labelTab, fixups, counter, funcStart, patched,
               exited>>

JumpOps == {"jmp", "jz", "jnz", "jl", "jg"}

(* E9 with a 32-bit displacement, or 0F 8x with one.                       *)
JumpLen(op) == IF op = "jmp" THEN 5 ELSE 6

(* The bytes 11 22 33 44 of an unpatched jmp, 55 66 77 88 of a jcc.        *)
Placeholder(op) == IF op = "jmp" THEN 1144201745 ELSE -2005440939

(* find_label_offset: the first entry with that id, or -1.                 *)
IsSet(id) == \E k \in DOMAIN labelTab : labelTab[k].id = id
FirstOf(id) == CHOOSE k \in DOMAIN labelTab :
                 /\ labelTab[k].id = id
                 /\ \A j \in 1 .. k - 1 : labelTab[j].id # id
FindLabel(id) == IF IsSet(id) THEN labelTab[FirstOf(id)].off ELSE -1

LabelsInit == /\ code = <<>>
              /\ codeSize = 0
              /\ labelTab = <<>>
              /\ fixups = <<>>
              /\ counter = 0
              /\ funcStart = 0
              /\ patched = FALSE
              /\ exited = FALSE

(* new_label, called k times.                                              *)
NewLabels(k) == /\ counter' = counter + k
                /\ UNCHANGED <<code, codeSize, labelTab, fixups, funcStart,
                               patched, exited>>

SetLabel(id) == /\ Len(labelTab) < MaxLabels
                /\ labelTab' = Append(labelTab, [id |-> id, off |-> codeSize])
                /\ UNCHANGED <<code, codeSize, fixups, counter, funcStart,
                               patched, exited>>

Exit == /\ exited' = TRUE
        /\ UNCHANGED <<code, codeSize, labelTab, fixups, counter, funcStart,
                       patched>>

LabelOverflow == Len(labelTab) >= MaxLabels /\ Exit

Put(ins) == /\ code' = [o \in DOMAIN code \cup {codeSize} |->
                          IF o = codeSize THEN ins ELSE code[o]]
            /\ codeSize' = codeSize + ins.len

Emit(ins) == /\ Put(ins)
             /\ UNCHANGED <<labelTab, fixups, counter, funcStart, patched,
                            exited>>

(* A jump instruction.  "to" is not in the machine code: it remembers the  *)
(* label, for the properties.                                              *)
Jump(op, id, disp) ==
  [op |-> op, len |-> JumpLen(op), disp |-> disp, to |-> id]

(* emit_jmp and emit_jcc to a label that is set.                           *)
EmitBackward(op, id) ==
  /\ IsSet(id)
  /\ Emit(Jump(op, id, FindLabel(id) - (codeSize + JumpLen(op))))

(* emit_jmp and emit_jcc to a label that is not set yet.                   *)
EmitForward(op, id) ==
  /\ ~IsSet(id)
  /\ Len(fixups) < MaxFixups
  /\ Put(Jump(op, id, Placeholder(op)))
  /\ fixups' = Append(fixups, [label |-> id, off |-> codeSize,
                               isJmp |-> op = "jmp"])
  /\ UNCHANGED <<labelTab, counter, funcStart, patched, exited>>

FixupOverflow(id) == ~IsSet(id) /\ Len(fixups) >= MaxFixups /\ Exit

EmitJump(op, id) == EmitBackward(op, id) \/ EmitForward(op, id)

(* apply_fixups: the fixups whose label was set are patched, the others    *)
(* skipped.                                                                *)
Patches(o) == {k \in DOMAIN fixups : fixups[k].off = o /\ IsSet(fixups[k].label)}

(* Mutant: every fixup is patched as a jmp.                                *)
PatchedAsJmp(o) ==
  LET f == fixups[CHOOSE k \in Patches(o) : TRUE]
  IN  FindLabel(f.label) - (o + 5)

PatchedDisp(o) ==
  LET f == fixups[CHOOSE k \in Patches(o) : TRUE]
  IN  FindLabel(f.label) - (o + (IF f.isJmp THEN 5 ELSE 6))

ApplyFixups ==
  /\ ~patched
  /\ code' = [o \in DOMAIN code |->
                IF Patches(o) # {}
                THEN [code[o] EXCEPT !.disp = PatchedDisp(o)] ELSE code[o]]
  /\ patched' = TRUE
  /\ UNCHANGED <<codeSize, labelTab, fixups, counter, funcStart, exited>>

(* The next function: reset_labels, and func_start = code_size.            *)
(* Mutant: reset_labels starts the labels from 0 and keeps the fixups.     *)
StartFunctionKeepsFixups == /\ patched
                            /\ labelTab' = <<>>
                            /\ counter' = 0
                            /\ funcStart' = codeSize
                            /\ patched' = FALSE
                            /\ UNCHANGED <<code, codeSize, fixups, exited>>

StartFunction == /\ patched
                 /\ labelTab' = <<>>
                 /\ fixups' = <<>>
                 /\ funcStart' = codeSize
                 /\ patched' = FALSE
                 /\ UNCHANGED <<code, codeSize, counter, exited>>

(* What cgen.c may do with them: a label used is one new_label returned,   *)
(* and the program may exit for any reason of its own.                     *)
LabelsNext ==
  /\ ~exited
  /\ \/ counter' \in Nat /\ counter' > counter /\ NewLabels(counter' - counter)
     \/ ~patched /\ \E id \in 0 .. counter - 1 : SetLabel(id)
     \/ Exit
     \/ ~patched /\ \E ins \in Plain : Emit(ins)
     \/ ~patched /\ \E op \in JumpOps, id \in 0 .. counter - 1 : EmitJump(op, id)
     \/ ApplyFixups
     \/ StartFunction

LabelsSpec == LabelsInit /\ [][LabelsNext]_labelVars

---------------------------------------------------------------------------
(* Properties.                                                             *)

LabelsTypeOK == /\ codeSize \in Nat
                /\ DOMAIN code \subseteq 0 .. codeSize - 1
                /\ labelTab \in Seq([id : Nat, off : Nat])
                /\ fixups \in Seq([label : Nat, off : Nat, isJmp : BOOLEAN])
                /\ Len(labelTab) <= MaxLabels
                /\ Len(fixups) <= MaxFixups
                /\ counter \in Nat
                /\ funcStart \in 0 .. codeSize
                /\ patched \in BOOLEAN
                /\ exited \in BOOLEAN

Jumps == {o \in DOMAIN code : o >= funcStart /\ code[o].op \in JumpOps}

(* When apply_fixups has run, every jump of the function to a label that   *)
(* was set lands on it, and a label is where an instruction begins or      *)
(* where the function ends: the two encodings of a jump, the two ways a    *)
(* displacement is computed and the size of each instruction agree.        *)
JumpsLand ==
  patched => \A o \in Jumps :
    IsSet(code[o].to) =>
      /\ o + code[o].len + code[o].disp = FindLabel(code[o].to)
      /\ FindLabel(code[o].to) \in DOMAIN code \cup {codeSize}

(* Compiling one function never changes the code of those before it,       *)
(* although the fixups and the buffer are shared.                          *)
EarlierCodeKept ==
  [][\A o \in DOMAIN code : o < funcStart => o \in DOMAIN code' /\ code'[o] = code[o]]_labelVars
=============================================================================
