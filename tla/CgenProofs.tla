------------------------------- MODULE CgenProofs -------------------------------
(***************************************************************************)
(* The labels, jumps and fixups of cgen.c, for every limit and every set   *)
(* of other instructions: the state keeps its types, and when a function   *)
(* is complete each of its jumps lands on its label.                       *)
(*                                                                         *)
(* The statement part of cgen.c keeps the rules that these need: for every *)
(* file, and for every limit, compiling it is a run of Labels, so that     *)
(* what is proved of Labels holds of it.                                   *)
(*                                                                         *)
(* And for every file of ordinary statements the code generated does what  *)
(* C says of them.  The invariant (Good) gives each offset of the code the *)
(* states that may come there, each a control point of C with what is in   *)
(* rax, the flag and on the stack; it says that every instruction takes    *)
(* its states to where they may come, and that the work left will go on    *)
(* from there to where the statement it is for ends.                       *)
(***************************************************************************)
EXTENDS CgenRun, SequenceTheorems, FiniteSetTheorems, NaturalsInduction,
        WellFoundedInduction, TLAPS

Label == [id : Nat, off : Nat]
Fixup == [label : Nat, off : Nat, isJmp : BOOLEAN]

(* k is the first entry of table t for the label. *)
FirstIn(t, id, k) == /\ k \in DOMAIN t
                     /\ t[k].id = id
                     /\ \A j \in 1 .. k - 1 : t[j].id # id

SetIn(t, id) == \E k \in DOMAIN t : t[k].id = id

FindIn(t, id) == IF SetIn(t, id)
                 THEN t[CHOOSE k \in DOMAIN t :
                          /\ t[k].id = id
                          /\ \A j \in 1 .. k - 1 : t[j].id # id].off
                 ELSE -1

(* Every label of the table has a first entry. *)
Firsts(t) == \A k \in DOMAIN t : \E j \in DOMAIN t : FirstIn(t, t[k].id, j)

(* The operators of Labels, by table. *)
LEMMA ByTable ==
  /\ \A id : IsSet(id) = SetIn(labelTab, id)
  /\ \A id : FindLabel(id) = FindIn(labelTab, id)
  BY DEF IsSet, FindLabel, FirstOf, SetIn, FindIn

(* The same after a step. *)
LEMMA ByTablePrime ==
  /\ \A id : IsSet(id)' = SetIn(labelTab', id)
  /\ \A id : FindLabel(id)' = FindIn(labelTab', id)
  BY DEF IsSet, FindLabel, FirstOf, SetIn, FindIn

(* find_label_offset returns the first entry. *)
LEMMA FindsFirst ==
  ASSUME NEW t \in Seq(Label), NEW id, NEW k, FirstIn(t, id, k)
  PROVE  SetIn(t, id) /\ FindIn(t, id) = t[k].off
  <1> DEFINE First(j) == /\ t[j].id = id
                         /\ \A l \in 1 .. j - 1 : t[l].id # id
  <1>1. k \in DOMAIN t /\ First(k)
    BY DEF FirstIn
  <1>2. DOMAIN t = 1 .. Len(t) /\ Len(t) \in Nat
    BY LenProperties
  <1>3. ASSUME NEW j \in DOMAIN t, First(j)  PROVE  j = k
    <2>1. ~(j < k)
      BY <1>1, <1>2, <1>3
    <2>2. ~(k < j)
      BY <1>1, <1>2, <1>3
    <2>3. QED
      BY <1>1, <1>2, <2>1, <2>2
  <1>4. SetIn(t, id)
    BY <1>1 DEF SetIn
  <1>5. (CHOOSE j \in DOMAIN t : First(j)) = k
    BY <1>1, <1>3
  <1>6. QED
    BY <1>4, <1>5 DEF FindIn

(* t is s with one more element, e. *)
Longer(s, e, t) == /\ Len(t) = Len(s) + 1
                   /\ DOMAIN s = 1 .. Len(s)
                   /\ DOMAIN t = 1 .. Len(s) + 1
                   /\ Len(s) \in Nat
                   /\ t[Len(s) + 1] = e
                   /\ \A i \in 1 .. Len(s) : t[i] = s[i]

(* Append makes a sequence longer by its element. *)
LEMMA OneMore ==
  ASSUME NEW S, NEW s \in Seq(S), NEW e \in S
  PROVE  Longer(s, e, Append(s, e)) /\ Append(s, e) \in Seq(S)
  BY AppendProperties, LenProperties DEF Longer

(* Setting a label moves no label that is set already. *)
LEMMA LabelsStay ==
  ASSUME NEW t \in Seq(Label), NEW e \in Label, Firsts(t), NEW u,
         u = Append(t, e)
  PROVE  /\ u \in Seq(Label)
         /\ Firsts(u)
         /\ \A id : SetIn(t, id) => SetIn(u, id) /\ FindIn(u, id) = FindIn(t, id)
  <1>1. Longer(t, e, u) /\ u \in Seq(Label)
    BY OneMore
  <1>2. ASSUME NEW id, NEW k, FirstIn(t, id, k)  PROVE  FirstIn(u, id, k)
    BY <1>1, <1>2 DEF FirstIn, Longer
  <1>3. Firsts(u)
    <2> SUFFICES ASSUME NEW k \in DOMAIN u
                 PROVE  \E j \in DOMAIN u : FirstIn(u, u[k].id, j)
      BY DEF Firsts
    <2>1. CASE k \in DOMAIN t
      <3>1. PICK j \in DOMAIN t : FirstIn(t, t[k].id, j)
        BY <2>1 DEF Firsts
      <3>2. u[k] = t[k] /\ j \in DOMAIN u
        BY <1>1, <2>1 DEF Longer
      <3>3. QED
        BY <1>2, <3>1, <3>2
    <2>2. CASE k \notin DOMAIN t /\ SetIn(t, e.id)
      <3>1. u[k] = e
        BY <1>1, <2>2 DEF Longer
      <3>2. PICK l \in DOMAIN t : t[l].id = e.id
        BY <2>2 DEF SetIn
      <3>3. PICK j \in DOMAIN t : FirstIn(t, e.id, j)
        BY <3>2 DEF Firsts
      <3>4. j \in DOMAIN u
        BY <1>1 DEF Longer
      <3>5. QED
        BY <1>2, <3>1, <3>3, <3>4
    <2>3. CASE k \notin DOMAIN t /\ ~SetIn(t, e.id)
      <3>1. k = Len(t) + 1 /\ u[k] = e
        BY <1>1, <2>3 DEF Longer
      <3>2. \A j \in 1 .. k - 1 : u[j].id # e.id
        BY <1>1, <2>3, <3>1 DEF Longer, SetIn
      <3>3. FirstIn(u, u[k].id, k)
        BY <3>1, <3>2 DEF FirstIn
      <3>4. QED
        BY <3>3
    <2>4. QED
      BY <2>1, <2>2, <2>3
  <1>4. ASSUME NEW id, SetIn(t, id)
        PROVE  SetIn(u, id) /\ FindIn(u, id) = FindIn(t, id)
    <2>1. PICK l \in DOMAIN t : t[l].id = id
      BY <1>4 DEF SetIn
    <2>2. PICK k \in DOMAIN t : FirstIn(t, id, k)
      BY <2>1 DEF Firsts
    <2>3. FindIn(t, id) = t[k].off
      BY <2>2, FindsFirst
    <2>4. SetIn(u, id) /\ FindIn(u, id) = u[k].off
      BY <1>1, <1>2, <2>2, FindsFirst
    <2>5. u[k] = t[k]
      BY <1>1 DEF Longer
    <2>6. QED
      BY <2>3, <2>4, <2>5
  <1>5. QED
    BY <1>1, <1>3, <1>4

(* A label that is set has a natural offset. *)
LEMMA FindType ==
  ASSUME NEW t \in Seq(Label), Firsts(t), NEW id, SetIn(t, id)
  PROVE  \E k \in DOMAIN t : FindIn(t, id) = t[k].off /\ t[k].off \in Nat
  <1>1. PICK l \in DOMAIN t : t[l].id = id
    BY DEF SetIn
  <1>2. PICK k \in DOMAIN t : FirstIn(t, id, k)
    BY <1>1 DEF Firsts
  <1>3. t[k] \in Label
    BY ElementOfSeq, LenProperties
  <1>4. QED
    BY <1>2, <1>3, FindsFirst DEF Label

---------------------------------------------------------------------------
(* The inductive invariant.  JumpsLand says nothing until the fixups are   *)
(* applied; until then a jump is either right or waits in a fixup that     *)
(* describes it as it is.                                                  *)

JumpIns == [op : JumpOps, len : Nat, disp : Int, to : Nat]

JumpIsWell(o) == /\ code[o] \in JumpIns
                 /\ code[o].len = JumpLen(code[o].op)

Lands(o) == o + code[o].len + code[o].disp = FindIn(labelTab, code[o].to)
Waits(o) == \E k \in DOMAIN fixups : fixups[k].off = o
Settled(o) == \/ SetIn(labelTab, code[o].to) /\ Lands(o)
              \/ Waits(o)

CodeOK == /\ DOMAIN code \subseteq 0 .. codeSize - 1
          /\ \A o \in Jumps : JumpIsWell(o)
LabelsOK == /\ labelTab \in Seq(Label)
            /\ Firsts(labelTab)
            /\ \A k \in DOMAIN labelTab :
                 labelTab[k].off \in DOMAIN code \cup {codeSize}
FixupsOK == /\ fixups \in Seq(Fixup)
            /\ \A k \in DOMAIN fixups :
                 /\ fixups[k].off \in Jumps
                 /\ fixups[k].label = code[fixups[k].off].to
                 /\ fixups[k].isJmp = (code[fixups[k].off].op = "jmp")
JumpsOK == /\ ~patched => \A o \in Jumps : Settled(o)
           /\ patched => \A o \in Jumps :
                SetIn(labelTab, code[o].to) => Lands(o)
LabelsInv == /\ LabelsTypeOK
             /\ CodeOK
             /\ LabelsOK
             /\ FixupsOK
             /\ JumpsOK

(* The invariant says what is to be proved. *)
LEMMA InvLands == LabelsInv => JumpsLand
  <1> SUFFICES ASSUME LabelsInv, patched, NEW o \in Jumps, IsSet(code[o].to)
               PROVE  /\ o + code[o].len + code[o].disp = FindLabel(code[o].to)
                      /\ FindLabel(code[o].to) \in DOMAIN code \cup {codeSize}
    BY DEF JumpsLand
  <1>1. SetIn(labelTab, code[o].to)
    BY ByTable
  <1>2. Lands(o)
    BY <1>1 DEF LabelsInv, JumpsOK
  <1>3. PICK k \in DOMAIN labelTab :
          FindIn(labelTab, code[o].to) = labelTab[k].off
    BY <1>1, FindType DEF LabelsInv, LabelsOK
  <1>4. QED
    BY <1>2, <1>3, ByTable DEF Lands, LabelsInv, LabelsOK

(* The invariant holds at first. *)
LEMMA InitInv == LabelsInit => LabelsInv
  <1> SUFFICES ASSUME LabelsInit PROVE LabelsInv
    OBVIOUS
  <1>1. DOMAIN code = {} /\ DOMAIN labelTab = {} /\ DOMAIN fixups = {}
    BY DEF LabelsInit
  <1>2. labelTab \in Seq(Label) /\ fixups \in Seq(Fixup)
        /\ Len(labelTab) = 0 /\ Len(fixups) = 0
    BY DEF LabelsInit
  <1>3. Jumps = {}
    BY <1>1 DEF Jumps
  <1>4. LabelsTypeOK
    <2>1. codeSize \in Nat /\ DOMAIN code \subseteq 0 .. codeSize - 1
      BY <1>1 DEF LabelsInit
    <2>2. Len(labelTab) <= MaxLabels /\ Len(fixups) <= MaxFixups
      BY <1>2, LimitsAssumption
    <2>3. counter \in Nat /\ funcStart \in 0 .. codeSize
      BY DEF LabelsInit
    <2>4. patched \in BOOLEAN /\ exited \in BOOLEAN
      BY Zenon DEF LabelsInit
    <2>5. QED
      BY <1>2, <2>1, <2>2, <2>3, <2>4 DEF LabelsTypeOK, Label, Fixup
  <1>5. QED
    BY <1>1, <1>2, <1>3, <1>4
    DEF LabelsInv, CodeOK, LabelsOK, FixupsOK, JumpsOK, Firsts

(* A step that leaves the tables and the code alone keeps the invariant. *)
LEMMA SameTables ==
  ASSUME LabelsInv, counter' \in Nat, exited' \in BOOLEAN,
         UNCHANGED <<code, codeSize, labelTab, fixups, funcStart, patched>>
  PROVE  LabelsInv'
  <1>1. Jumps' = Jumps
    BY DEF Jumps
  <1>2. LabelsTypeOK'
    BY DEF LabelsInv, LabelsTypeOK
  <1>3. CodeOK' /\ LabelsOK' /\ FixupsOK'
    BY <1>1 DEF LabelsInv, CodeOK, LabelsOK, FixupsOK, JumpIsWell
  <1>4. JumpsOK'
    BY <1>1 DEF LabelsInv, JumpsOK, Settled, Lands, Waits
  <1>5. QED
    BY <1>2, <1>3, <1>4 DEF LabelsInv

---------------------------------------------------------------------------
(* set_label. *)

LEMMA SetLabelInv ==
  ASSUME LabelsInv, NEW id \in Nat, SetLabel(id), ~patched
  PROVE  LabelsInv'
  <1> DEFINE e == [id |-> id, off |-> codeSize]
  <1>0. /\ labelTab \in Seq(Label) /\ Firsts(labelTab) /\ codeSize \in Nat
        /\ labelTab' = Append(labelTab, e) /\ Len(labelTab) < MaxLabels
        /\ UNCHANGED <<code, codeSize, fixups, counter, funcStart, patched,
                       exited>>
    BY DEF LabelsInv, LabelsOK, LabelsTypeOK, SetLabel
  <1>1. e \in Label
    BY <1>0 DEF Label
  <1> HIDE DEF e
  <1>2. /\ labelTab' \in Seq(Label)
        /\ Firsts(labelTab')
        /\ \A x : SetIn(labelTab, x) =>
              SetIn(labelTab', x) /\ FindIn(labelTab', x) = FindIn(labelTab, x)
    <2>1. labelTab' = Append(labelTab, e)
      BY <1>0
    <2>2. QED
      BY <1>0, <1>1, <2>1, LabelsStay, Zenon
  <1>3. Longer(labelTab, e, labelTab')
    BY <1>0, <1>1, OneMore
  <1> USE DEF e
  <1>4. Jumps' = Jumps
    BY <1>0 DEF Jumps
  <1>5. LabelsTypeOK'
    BY <1>0, <1>2, <1>3, LimitsAssumption
    DEF LabelsInv, LabelsTypeOK, Label, Longer
  <1>6. CodeOK' /\ FixupsOK'
    BY <1>0, <1>4 DEF LabelsInv, CodeOK, FixupsOK, JumpIsWell
  <1>7. LabelsOK'
    <2>1. ASSUME NEW k \in DOMAIN labelTab'
          PROVE  labelTab'[k].off \in DOMAIN code \cup {codeSize}
      <3>1. CASE k \in DOMAIN labelTab
        BY <1>3, <3>1 DEF Longer, LabelsInv, LabelsOK
      <3>2. CASE k \notin DOMAIN labelTab
        BY <1>3, <3>2 DEF Longer
      <3>3. QED
        BY <3>1, <3>2
    <2>2. QED
      BY <1>0, <1>2, <2>1 DEF LabelsOK
  <1>8. JumpsOK'
    <2>1. ASSUME NEW o \in Jumps  PROVE  Settled(o)'
      BY <1>0, <1>2, <2>1 DEF LabelsInv, JumpsOK, Settled, Lands, Waits
    <2>2. QED
      BY <1>0, <1>4, <2>1 DEF JumpsOK
  <1>9. QED
    BY <1>5, <1>6, <1>7, <1>8 DEF LabelsInv

---------------------------------------------------------------------------
(* Emitting.  What Put does, and what it leaves of the invariant. *)

LEMMA PutGrows ==
  ASSUME LabelsInv, NEW ins, ins.len \in Nat \ {0}, Put(ins)
  PROVE  /\ codeSize' \in Nat
         /\ codeSize < codeSize'
         /\ DOMAIN code' = DOMAIN code \cup {codeSize}
         /\ codeSize \notin DOMAIN code
         /\ code'[codeSize] = ins
         /\ \A o \in DOMAIN code : code'[o] = code[o]
         /\ DOMAIN code' \subseteq 0 .. codeSize' - 1
  <1>0. codeSize \in Nat /\ DOMAIN code \subseteq 0 .. codeSize - 1
    BY DEF LabelsInv, LabelsTypeOK
  <1>1. codeSize \notin DOMAIN code
    BY <1>0
  <1>2. /\ DOMAIN code' = DOMAIN code \cup {codeSize}
        /\ code'[codeSize] = ins
        /\ \A o \in DOMAIN code : code'[o] = code[o]
    BY <1>1 DEF Put
  <1>3. codeSize' \in Nat /\ codeSize < codeSize'
    BY <1>0 DEF Put
  <1>4. DOMAIN code' \subseteq 0 .. codeSize' - 1
    BY <1>0, <1>2, <1>3
  <1>5. QED
    BY <1>1, <1>2, <1>3, <1>4

(* The parts of the invariant that do not depend on the instruction. *)
LEMMA PutKeeps ==
  ASSUME LabelsInv, NEW ins, ins.len \in Nat \ {0}, Put(ins),
         UNCHANGED <<labelTab, counter, funcStart, patched, exited>>
  PROVE  /\ LabelsOK'
         /\ Jumps \subseteq Jumps'
         /\ Jumps' \subseteq Jumps \cup {codeSize}
         /\ codeSize \in Jumps' => ins.op \in JumpOps
         /\ \A o \in Jumps : JumpIsWell(o)'
         /\ \A o \in Jumps : Lands(o) => Lands(o)'
         /\ fixups' \in Seq(Fixup) /\ Len(fixups') <= MaxFixups
              => LabelsTypeOK'
  <1>1. /\ codeSize' \in Nat
        /\ codeSize < codeSize'
        /\ DOMAIN code' = DOMAIN code \cup {codeSize}
        /\ codeSize \notin DOMAIN code
        /\ code'[codeSize] = ins
        /\ \A o \in DOMAIN code : code'[o] = code[o]
        /\ DOMAIN code' \subseteq 0 .. codeSize' - 1
    BY PutGrows
  <1>2. LabelsOK'
    <2>1. /\ labelTab \in Seq(Label) /\ Firsts(labelTab)
          /\ \A k \in DOMAIN labelTab :
               labelTab[k].off \in DOMAIN code \cup {codeSize}
      BY DEF LabelsInv, LabelsOK
    <2>2. \A k \in DOMAIN labelTab :
            labelTab[k].off \in DOMAIN code' \cup {codeSize'}
      BY <1>1, <2>1
    <2>3. QED
      BY <2>1, <2>2 DEF LabelsOK
  <1>3. /\ Jumps \subseteq Jumps'
        /\ Jumps' \subseteq Jumps \cup {codeSize}
        /\ codeSize \in Jumps' => ins.op \in JumpOps
    BY <1>1 DEF Jumps
  <1>4. \A o \in Jumps : code'[o] = code[o]
    BY <1>1 DEF Jumps
  <1>5. \A o \in Jumps : JumpIsWell(o)'
    BY <1>4 DEF LabelsInv, CodeOK, JumpIsWell
  <1>6. \A o \in Jumps : Lands(o) => Lands(o)'
    BY <1>4 DEF Lands
  <1>7. ASSUME fixups' \in Seq(Fixup), Len(fixups') <= MaxFixups
        PROVE  LabelsTypeOK'
    <2>1. /\ codeSize \in Nat /\ funcStart \in 0 .. codeSize
          /\ labelTab \in Seq([id : Nat, off : Nat])
          /\ Len(labelTab) <= MaxLabels /\ counter \in Nat
          /\ patched \in BOOLEAN /\ exited \in BOOLEAN
      BY DEF LabelsInv, LabelsTypeOK
    <2>2. funcStart' \in 0 .. codeSize'
      BY <1>1, <2>1
    <2>3. QED
      BY <1>1, <1>7, <2>1, <2>2 DEF LabelsTypeOK, Fixup
  <1>8. QED
    BY <1>2, <1>3, <1>5, <1>6, <1>7

(* An instruction that is not a jump. *)
LEMMA EmitInv ==
  ASSUME LabelsInv, NEW ins \in Plain, Emit(ins), ~patched
  PROVE  LabelsInv'
  <1>0. /\ ins.len \in Nat \ {0} /\ ins.op \notin JumpOps
        /\ Put(ins)
        /\ UNCHANGED <<labelTab, fixups, counter, funcStart, patched, exited>>
    BY PlainAssumption DEF Emit, JumpOps
  <1>1. /\ DOMAIN code' \subseteq 0 .. codeSize' - 1
        /\ \A o \in DOMAIN code : code'[o] = code[o]
    BY <1>0, PutGrows
  <1>2. /\ LabelsOK'
        /\ Jumps \subseteq Jumps'
        /\ Jumps' \subseteq Jumps \cup {codeSize}
        /\ codeSize \in Jumps' => ins.op \in JumpOps
        /\ \A o \in Jumps : JumpIsWell(o)'
        /\ \A o \in Jumps : Lands(o) => Lands(o)'
        /\ fixups' \in Seq(Fixup) /\ Len(fixups') <= MaxFixups
              => LabelsTypeOK'
    BY <1>0, PutKeeps
  <1>3. Jumps' = Jumps
    BY <1>0, <1>2
  <1>4. \A o \in Jumps : code'[o] = code[o]
    BY <1>1 DEF Jumps
  <1>5. LabelsTypeOK'
    <2>1. fixups' \in Seq(Fixup) /\ Len(fixups') <= MaxFixups
      BY <1>0 DEF LabelsInv, LabelsTypeOK, FixupsOK
    <2>2. QED
      BY <1>2, <2>1
  <1>6. CodeOK'
    BY <1>1, <1>2, <1>3 DEF CodeOK
  <1>7. FixupsOK'
    <2>1. /\ fixups \in Seq(Fixup)
          /\ \A k \in DOMAIN fixups :
               /\ fixups[k].off \in Jumps
               /\ fixups[k].label = code[fixups[k].off].to
               /\ fixups[k].isJmp = (code[fixups[k].off].op = "jmp")
      BY DEF LabelsInv, FixupsOK
    <2>2. QED
      BY <1>0, <1>3, <1>4, <2>1 DEF FixupsOK
  <1>8. JumpsOK'
    <2>1. \A o \in Jumps : Settled(o)
      BY DEF LabelsInv, JumpsOK
    <2>2. \A o \in Jumps : Settled(o)'
      BY <1>0, <1>2, <1>4, <2>1 DEF Settled, Waits
    <2>3. QED
      BY <1>0, <1>3, <2>2 DEF JumpsOK
  <1>9. QED
    BY <1>2, <1>5, <1>6, <1>7, <1>8 DEF LabelsInv

(* What a jump instruction is. *)
LEMMA JumpIs ==
  ASSUME NEW op \in JumpOps, NEW id \in Nat, NEW d \in Int
  PROVE  /\ Jump(op, id, d) \in JumpIns
         /\ Jump(op, id, d).len \in {5, 6}
         /\ Jump(op, id, d).len = JumpLen(Jump(op, id, d).op)
         /\ Jump(op, id, d).to = id
         /\ Jump(op, id, d).op = op
         /\ Jump(op, id, d).disp = d
  BY DEF Jump, JumpIns, JumpLen

(* A jump, backwards or forwards: what is left to show is that the new     *)
(* jump is settled and that the fixups describe the jumps.                 *)
LEMMA JumpInv ==
  ASSUME LabelsInv, ~patched,
         NEW op \in JumpOps, NEW id \in Nat, NEW d \in Int,
         Put(Jump(op, id, d)),
         UNCHANGED <<labelTab, counter, funcStart, patched, exited>>,
         fixups' \in Seq(Fixup), Len(fixups') <= MaxFixups,
         \A k \in DOMAIN fixups :
           k \in DOMAIN fixups' /\ fixups'[k] = fixups[k],
         \A k \in DOMAIN fixups' \ DOMAIN fixups :
           fixups'[k] = [label |-> id, off |-> codeSize, isJmp |-> op = "jmp"],
         \A o \in Jumps' : o = codeSize => Settled(o)'
  PROVE  LabelsInv'
  <1> DEFINE ins == Jump(op, id, d)
  <1>0. /\ ins \in JumpIns /\ ins.len \in Nat \ {0} /\ ins.len = JumpLen(ins.op)
        /\ ins.to = id /\ ins.op = op /\ Put(ins)
    <2>1. /\ ins \in JumpIns /\ ins.len = JumpLen(ins.op)
          /\ ins.to = id /\ ins.op = op /\ Put(ins)
      BY SMTT(30) DEF Jump, JumpIns, JumpLen
    <2>2. ins.len \in Nat \ {0}
      BY DEF Jump, JumpLen
    <2>3. QED
      BY <2>1, <2>2
  <1> HIDE DEF ins
  <1>1. /\ DOMAIN code' \subseteq 0 .. codeSize' - 1
        /\ DOMAIN code' = DOMAIN code \cup {codeSize}
        /\ code'[codeSize] = ins
        /\ \A o \in DOMAIN code : code'[o] = code[o]
    BY <1>0, PutGrows
  <1>2. /\ LabelsOK'
        /\ Jumps \subseteq Jumps'
        /\ Jumps' \subseteq Jumps \cup {codeSize}
        /\ \A o \in Jumps : JumpIsWell(o)'
        /\ \A o \in Jumps : Lands(o) => Lands(o)'
        /\ fixups' \in Seq(Fixup) /\ Len(fixups') <= MaxFixups
              => LabelsTypeOK'
    BY <1>0, PutKeeps
  <1>3. \A o \in Jumps : code'[o] = code[o]
    BY <1>1 DEF Jumps
  <1>4. codeSize \in Jumps'
    <2>1. funcStart \in 0 .. codeSize /\ codeSize \in Nat
      BY DEF LabelsInv, LabelsTypeOK
    <2>2. QED
      BY <1>0, <1>1, <2>1 DEF Jumps
  <1>5. \A o \in {codeSize} : JumpIsWell(o)'
    BY <1>0, <1>1 DEF JumpIsWell
  <1>6. CodeOK'
    BY <1>1, <1>2, <1>5 DEF CodeOK
  <1>7. FixupsOK'
    <2>1. /\ fixups \in Seq(Fixup)
          /\ \A k \in DOMAIN fixups :
               /\ fixups[k].off \in Jumps
               /\ fixups[k].label = code[fixups[k].off].to
               /\ fixups[k].isJmp = (code[fixups[k].off].op = "jmp")
      BY DEF LabelsInv, FixupsOK
    <2>2. ASSUME NEW k \in DOMAIN fixups'
          PROVE  /\ fixups'[k].off \in Jumps'
                 /\ fixups'[k].label = code'[fixups'[k].off].to
                 /\ fixups'[k].isJmp = (code'[fixups'[k].off].op = "jmp")
      <3>1. CASE k \in DOMAIN fixups
        BY <1>2, <1>3, <2>1, <3>1
      <3>2. CASE k \notin DOMAIN fixups
        BY <1>0, <1>1, <1>4, <2>2, <3>2
      <3>3. QED
        BY <3>1, <3>2
    <2>3. QED
      BY <2>2 DEF FixupsOK
  <1>8. JumpsOK'
    <2>1. \A o \in Jumps : Settled(o)
      BY DEF LabelsInv, JumpsOK
    <2>2. \A o \in Jumps : Settled(o)'
      BY <1>2, <1>3, <2>1 DEF Settled, Waits
    <2>3. \A o \in Jumps' : Settled(o)'
      BY <1>2, <1>4, <2>2
    <2>4. QED
      BY <2>3 DEF JumpsOK
  <1>9. QED
    BY <1>2, <1>6, <1>7, <1>8 DEF LabelsInv

(* A jump to a label that is set lands on it at once. *)
LEMMA BackwardInv ==
  ASSUME LabelsInv, ~patched, NEW op \in JumpOps, NEW id \in Nat,
         EmitBackward(op, id)
  PROVE  LabelsInv'
  <1> DEFINE d == FindLabel(id) - (codeSize + JumpLen(op))
  <1>1. /\ SetIn(labelTab, id)
        /\ FindLabel(id) = FindIn(labelTab, id)
        /\ Put(Jump(op, id, d))
        /\ UNCHANGED <<labelTab, fixups, counter, funcStart, patched, exited>>
    BY ByTable DEF EmitBackward, Emit
  <1>2. FindIn(labelTab, id) \in Nat
    BY <1>1, FindType DEF LabelsInv, LabelsOK
  <1>3. codeSize \in Nat /\ JumpLen(op) \in Nat
    BY DEF LabelsInv, LabelsTypeOK, JumpLen
  <1>4. d \in Int /\ codeSize + JumpLen(op) + d = FindIn(labelTab, id)
    BY <1>1, <1>2, <1>3
  <1> HIDE DEF d
  <1>5. /\ Jump(op, id, d).len = JumpLen(op)
        /\ Jump(op, id, d).len \in Nat \ {0}
        /\ Jump(op, id, d).to = id
        /\ Jump(op, id, d).disp = d
    BY <1>4, JumpIs DEF Jump, JumpLen
  <1>6. code'[codeSize] = Jump(op, id, d)
    BY <1>1, <1>5, PutGrows
  <1>7. \A o \in Jumps' : o = codeSize => Settled(o)'
    BY <1>1, <1>4, <1>5, <1>6 DEF Settled, Lands
  <1>8. fixups' \in Seq(Fixup) /\ Len(fixups') <= MaxFixups
    BY <1>1 DEF LabelsInv, LabelsTypeOK, FixupsOK
  <1>9. QED
    BY <1>1, <1>4, <1>7, <1>8, JumpInv

(* A jump to a label that is not yet set is left with a fixup. *)
LEMMA ForwardInv ==
  ASSUME LabelsInv, ~patched, NEW op \in JumpOps, NEW id \in Nat,
         EmitForward(op, id)
  PROVE  LabelsInv'
  <1> DEFINE d == Placeholder(op)
             f == [label |-> id, off |-> codeSize, isJmp |-> op = "jmp"]
  <1>1. /\ Put(Jump(op, id, d))
        /\ Len(fixups) < MaxFixups
        /\ fixups' = Append(fixups, f)
        /\ UNCHANGED <<labelTab, counter, funcStart, patched, exited>>
    BY DEF EmitForward
  <1>2. d \in Int
    BY DEF Placeholder
  <1>3. codeSize \in Nat /\ fixups \in Seq(Fixup)
    BY DEF LabelsInv, LabelsTypeOK, FixupsOK
  <1>4. (op = "jmp") \in BOOLEAN
    OBVIOUS
  <1>5. f \in Fixup
    BY <1>3, <1>4 DEF Fixup
  <1> HIDE DEF d, f
  <1>6. Longer(fixups, f, fixups') /\ fixups' \in Seq(Fixup)
    BY <1>1, <1>3, <1>5, OneMore
  <1>7. Len(fixups') <= MaxFixups
    BY <1>1, <1>6, LimitsAssumption DEF Longer
  <1>8. \A k \in DOMAIN fixups : k \in DOMAIN fixups' /\ fixups'[k] = fixups[k]
    BY <1>6 DEF Longer
  <1>9. /\ \A k \in DOMAIN fixups' \ DOMAIN fixups : fixups'[k] = f
        /\ \E k \in DOMAIN fixups' : fixups'[k] = f
    BY <1>6 DEF Longer
  <1> USE DEF f
  <1>10. \A o \in Jumps' : o = codeSize => Settled(o)'
    BY <1>9 DEF Settled, Waits
  <1>11. QED
    BY <1>1, <1>2, <1>6, <1>7, <1>8, <1>9, <1>10, JumpInv

---------------------------------------------------------------------------
(* apply_fixups.  Whichever fixup is chosen for a jump, it describes that  *)
(* jump, so the displacement it gives is the right one.                    *)

LEMMA PatchLands ==
  ASSUME LabelsInv, NEW o \in DOMAIN code, Patches(o) # {}
  PROVE  /\ o \in Jumps
         /\ SetIn(labelTab, code[o].to)
         /\ PatchedDisp(o) \in Int
         /\ o + code[o].len + PatchedDisp(o) = FindIn(labelTab, code[o].to)
  <1> DEFINE k == CHOOSE j \in Patches(o) : TRUE
  <1>1. k \in Patches(o)
    OBVIOUS
  <1>2. PatchedDisp(o) = FindLabel(fixups[k].label)
                         - (o + (IF fixups[k].isJmp THEN 5 ELSE 6))
    BY DEF PatchedDisp
  <1> HIDE DEF k
  <1>3. k \in DOMAIN fixups /\ fixups[k].off = o /\ IsSet(fixups[k].label)
    BY <1>1 DEF Patches
  <1>4. /\ o \in Jumps
        /\ fixups[k].label = code[o].to
        /\ fixups[k].isJmp = (code[o].op = "jmp")
    BY <1>3 DEF LabelsInv, FixupsOK
  <1>5. SetIn(labelTab, code[o].to)
        /\ FindLabel(code[o].to) = FindIn(labelTab, code[o].to)
    BY <1>3, <1>4, ByTable
  <1>6. FindIn(labelTab, code[o].to) \in Nat
    BY <1>5, FindType DEF LabelsInv, LabelsOK
  <1>7. code[o].len = IF fixups[k].isJmp THEN 5 ELSE 6
    BY <1>4 DEF LabelsInv, CodeOK, JumpIsWell, JumpLen
  <1>8. o \in Nat
    BY DEF LabelsInv, LabelsTypeOK
  <1>9. PatchedDisp(o) = FindIn(labelTab, code[o].to) - (o + code[o].len)
    BY <1>2, <1>4, <1>5, <1>7
  <1>10. code[o].len \in Nat
    BY <1>7
  <1>11. QED
    BY <1>4, <1>5, <1>6, <1>8, <1>9, <1>10

(* Applying the fixups makes every jump that waits land. *)
LEMMA ApplyInv ==
  ASSUME LabelsInv, ApplyFixups
  PROVE  LabelsInv'
  <1>0. /\ ~patched /\ patched' = TRUE
        /\ DOMAIN code' = DOMAIN code
        /\ \A o \in DOMAIN code :
             code'[o] = IF Patches(o) # {}
                        THEN [code[o] EXCEPT !.disp = PatchedDisp(o)]
                        ELSE code[o]
        /\ UNCHANGED <<codeSize, labelTab, fixups, counter, funcStart, exited>>
    BY DEF ApplyFixups
  <1>1. /\ DOMAIN code \subseteq 0 .. codeSize - 1
        /\ \A o \in Jumps : code[o] \in JumpIns /\ code[o].len = JumpLen(code[o].op)
    BY DEF LabelsInv, CodeOK, JumpIsWell
  <1>2. ASSUME NEW o \in Jumps
        PROVE  /\ code'[o] \in JumpIns
               /\ code'[o].op = code[o].op
               /\ code'[o].len = code[o].len
               /\ code'[o].to = code[o].to
               /\ Patches(o) # {} => code'[o].disp = PatchedDisp(o)
               /\ Patches(o) = {} => code'[o] = code[o]
    <2>1. o \in DOMAIN code
      BY DEF Jumps
    <2>2. CASE Patches(o) # {}
      <3>1. PatchedDisp(o) \in Int
        BY <2>1, <2>2, PatchLands
      <3>2. code'[o] = [code[o] EXCEPT !.disp = PatchedDisp(o)]
        BY <1>0, <2>1, <2>2
      <3>3. QED
        BY <1>1, <2>2, <3>1, <3>2 DEF JumpIns
    <2>3. CASE Patches(o) = {}
      BY <1>0, <1>1, <2>1, <2>3
    <2>4. QED
      BY <2>2, <2>3
  <1>3. ASSUME NEW o \in DOMAIN code, o \notin Jumps  PROVE  code'[o] = code[o]
    BY <1>0, <1>3, PatchLands
  <1>4. Jumps' = Jumps
    <2>1. \A o \in DOMAIN code : code'[o].op = code[o].op
      BY <1>2, <1>3
    <2>2. QED
      BY <1>0, <2>1 DEF Jumps
  <1>5. LabelsTypeOK'
    BY <1>0 DEF LabelsInv, LabelsTypeOK
  <1>6. CodeOK'
    BY <1>0, <1>1, <1>2, <1>4 DEF CodeOK, JumpIsWell
  <1>7. LabelsOK'
    BY <1>0 DEF LabelsInv, LabelsOK
  <1>8. FixupsOK'
    BY <1>0, <1>2, <1>4 DEF LabelsInv, FixupsOK
  <1>9. JumpsOK'
    <2> SUFFICES ASSUME NEW o \in Jumps, SetIn(labelTab, code'[o].to)
                 PROVE  o + code'[o].len + code'[o].disp
                        = FindIn(labelTab, code'[o].to)
      BY <1>0, <1>4 DEF JumpsOK, Lands
    <2>1. o \in DOMAIN code /\ SetIn(labelTab, code[o].to)
      BY <1>2 DEF Jumps
    <2>2. CASE Patches(o) # {}
      BY <1>2, <2>1, <2>2, PatchLands
    <2>3. CASE Patches(o) = {}
      <3>1. ~Waits(o)
        <4> SUFFICES ASSUME NEW k \in DOMAIN fixups, fixups[k].off = o
                     PROVE  FALSE
          BY DEF Waits
        <4>1. fixups[k].label = code[o].to
          BY DEF LabelsInv, FixupsOK
        <4>2. QED
          BY <2>1, <2>3, <4>1, ByTable DEF Patches
      <3>2. Lands(o)
        BY <1>0, <3>1 DEF LabelsInv, JumpsOK, Settled
      <3>3. QED
        BY <1>2, <2>3, <3>2 DEF Lands
    <2>4. QED
      BY <2>2, <2>3
  <1>10. QED
    BY <1>5, <1>6, <1>7, <1>8, <1>9 DEF LabelsInv

(* Resetting the tables leaves no jump waiting. *)
LEMMA StartInv ==
  ASSUME LabelsInv, StartFunction
  PROVE  LabelsInv'
  <1>0. /\ labelTab' = <<>> /\ fixups' = <<>> /\ funcStart' = codeSize
        /\ patched' = FALSE /\ UNCHANGED <<code, codeSize, counter, exited>>
    BY DEF StartFunction
  <1>1. /\ labelTab' \in Seq(Label) /\ fixups' \in Seq(Fixup)
        /\ Len(labelTab') = 0 /\ Len(fixups') = 0
        /\ DOMAIN labelTab' = {} /\ DOMAIN fixups' = {}
    BY <1>0
  <1>2. /\ codeSize \in Nat /\ DOMAIN code \subseteq 0 .. codeSize - 1
        /\ counter \in Nat /\ exited \in BOOLEAN
    BY DEF LabelsInv, LabelsTypeOK
  <1>3. Jumps' = {}
    BY <1>0, <1>2 DEF Jumps
  <1>4. LabelsTypeOK'
    <2>1. funcStart' \in 0 .. codeSize'
      BY <1>0, <1>2
    <2>2. patched' \in BOOLEAN
      BY <1>0
    <2>3. QED
      BY <1>0, <1>1, <1>2, <2>1, <2>2, LimitsAssumption
      DEF LabelsTypeOK, Label, Fixup
  <1>5. QED
    BY <1>0, <1>1, <1>2, <1>3, <1>4
    DEF LabelsInv, CodeOK, LabelsOK, FixupsOK, JumpsOK, Firsts

---------------------------------------------------------------------------
(* The theorems. *)

LEMMA NextInv == LabelsInv /\ [LabelsNext]_labelVars => LabelsInv'
  <1> SUFFICES ASSUME LabelsInv, [LabelsNext]_labelVars  PROVE  LabelsInv'
    OBVIOUS
  <1>0. counter \in Nat /\ exited \in BOOLEAN
    BY DEF LabelsInv, LabelsTypeOK
  <1>1. CASE counter' \in Nat /\ NewLabels(counter' - counter)
    BY <1>0, <1>1, SameTables DEF NewLabels
  <1>2. ASSUME NEW id \in 0 .. counter - 1, ~patched, SetLabel(id)
        PROVE  LabelsInv'
    BY <1>0, <1>2, SetLabelInv
  <1>3. CASE Exit
    BY <1>0, <1>3, SameTables DEF Exit
  <1>4. ASSUME NEW ins \in Plain, ~patched, Emit(ins)  PROVE  LabelsInv'
    BY <1>4, EmitInv
  <1>5. ASSUME NEW op \in JumpOps, NEW id \in 0 .. counter - 1, ~patched,
               EmitJump(op, id)
        PROVE  LabelsInv'
    BY <1>0, <1>5, BackwardInv, ForwardInv DEF EmitJump
  <1>6. CASE ApplyFixups
    BY <1>6, ApplyInv
  <1>7. CASE StartFunction
    BY <1>7, StartInv
  <1>8. CASE UNCHANGED labelVars
    BY <1>0, <1>8, SameTables DEF labelVars
  <1>9. QED
    BY <1>1, <1>2, <1>3, <1>4, <1>5, <1>6, <1>7, <1>8 DEF LabelsNext

(* Every table, index and offset stays in its range: type correctness. *)
THEOREM LabelsTypeCorrect == LabelsSpec => []LabelsTypeOK
  <1>1. LabelsInv => LabelsTypeOK
    BY DEF LabelsInv
  <1>2. QED
    BY InitInv, NextInv, <1>1, PTL DEF LabelsSpec

(* When the fixups of a function are applied, each of its jumps to a label *)
(* that was set lands on that label, which is where an instruction begins  *)
(* or the function ends.                                                   *)
THEOREM JumpsLandCorrect == LabelsSpec => []JumpsLand
  BY InitInv, NextInv, InvLands, PTL DEF LabelsSpec

(* A step never changes the code of a function that is complete. *)
LEMMA KeepsEarlier ==
  ASSUME LabelsInv, LabelsNext, NEW o \in DOMAIN code, o < funcStart
  PROVE  o \in DOMAIN code' /\ code'[o] = code[o]
  <1>0. codeSize \in Nat /\ funcStart \in 0 .. codeSize
        /\ DOMAIN code \subseteq 0 .. codeSize - 1
    BY DEF LabelsInv, LabelsTypeOK
  <1>1. ASSUME NEW ins, Put(ins)  PROVE  o \in DOMAIN code' /\ code'[o] = code[o]
    BY <1>0, <1>1 DEF Put
  <1>2. CASE ApplyFixups
    <2>1. Patches(o) = {}
      <3>1. o \notin Jumps
        BY <1>0 DEF Jumps
      <3>2. QED
        BY <3>1, PatchLands
    <2>2. QED
      BY <1>2, <2>1 DEF ApplyFixups
  <1>3. CASE UNCHANGED code
    BY <1>3
  <1>4. QED
    BY <1>1, <1>2, <1>3
    DEF LabelsNext, NewLabels, SetLabel, Exit, Emit, EmitJump, EmitBackward,
        EmitForward, StartFunction

(* Compiling one function leaves the code of those before it as it is. *)
THEOREM EarlierCodeCorrect == LabelsSpec => EarlierCodeKept
  <1>1. LabelsInv /\ [LabelsNext]_labelVars =>
          [\A o \in DOMAIN code : o < funcStart =>
             o \in DOMAIN code' /\ code'[o] = code[o]]_labelVars
    BY KeepsEarlier
  <1>2. QED
    BY InitInv, NextInv, <1>1, PTL DEF LabelsSpec, EarlierCodeKept

---------------------------------------------------------------------------
(* The inductive invariant: whatever is left to do uses labels that        *)
(* new_label has returned.  break_target_label and continue_target_label   *)
(* start as 0, which is a label only when new_label has returned it; until *)
(* then no statement in a loop or a switch is reached.                     *)

Ids(c)        == 0 .. c - 1
Targets(c)    == {0} \cup Ids(c)
Reached(f, c) == {n \in DOMAIN f.nodes : Around(f, n) # 0 => c > 0}
Names(f)      == {f.nodes[n].name : n \in DOMAIN f.nodes}
Goto(f, c)    == [name : Names(f), id : Ids(c)]

StmtItems(f, c)    == [do : {"stmt"}, n : Reached(f, c)]
JumpItems(c)       == [do : {"jump"}, op : JumpOps, id : Ids(c)]
SetItems(c)        == [do : {"set"}, id : Ids(c)]
EmitItems          == [do : {"emit"}, ins : Plain]
TestItems(f, c)    == [do : {"test"}, n : DOMAIN f.nodes, id : Ids(c)]
RestoreItems(c)    == [do : {"restore"}, brk : Targets(c), cont : Targets(c)]
Items(f, c) == StmtItems(f, c) \cup JumpItems(c) \cup SetItems(c) \cup EmitItems
               \cup TestItems(f, c) \cup RestoreItems(c)

CgenInv ==
  /\ src \in Files /\ fn \in DOMAIN src.funcs
  /\ counter \in Nat
  /\ work \in Seq(Items(src, counter))
  /\ brk \in Targets(counter) /\ cont \in Targets(counter)
  /\ gotoTab \in Seq(Goto(src, counter))
  /\ patched => work = <<>>

---------------------------------------------------------------------------
(* Sequences. *)

LEMMA SeqGrows ==
  ASSUME NEW S, NEW T, S \subseteq T, NEW s \in Seq(S)
  PROVE  s \in Seq(T)
OBVIOUS

(* Two sequences of items one after the other are a sequence of items. *)
LEMMA Joined ==
  ASSUME NEW S, NEW s \in Seq(S), NEW t \in Seq(S)
  PROVE  s \o t \in Seq(S)
BY ConcatProperties

(* Nothing to do is a sequence of items, *)
LEMMA Nothing == ASSUME NEW S PROVE <<>> \in Seq(S)
OBVIOUS

(* and so is a single item. *)
LEMMA One == ASSUME NEW S, NEW a \in S PROVE <<a>> \in Seq(S)
OBVIOUS

(* The first item of the work is an item, and the rest is work. *)
LEMMA FirstAndRest ==
  ASSUME NEW S, NEW s \in Seq(S), s # <<>>
  PROVE  s[1] \in S /\ Tail(s) \in Seq(S)
BY HeadTailProperties, ElementOfSeq, EmptySeq, LenProperties

---------------------------------------------------------------------------
(* Items. *)

LEMMA IdsGrow ==
  ASSUME NEW c \in Nat, NEW d \in Nat, c <= d
  PROVE  Ids(c) \subseteq Ids(d) /\ Targets(c) \subseteq Targets(d)
BY DEF Ids, Targets

(* Items stay items when more labels are returned. *)
LEMMA ItemsGrow ==
  ASSUME NEW f, NEW c \in Nat, NEW d \in Nat, c <= d
  PROVE  Items(f, c) \subseteq Items(f, d) /\ Goto(f, c) \subseteq Goto(f, d)
<1>1. Ids(c) \subseteq Ids(d) /\ Targets(c) \subseteq Targets(d)
  BY IdsGrow
<1>2. Reached(f, c) \subseteq Reached(f, d)
  BY DEF Reached
<1>3. /\ StmtItems(f, c) \subseteq StmtItems(f, d)
      /\ JumpItems(c) \subseteq JumpItems(d)
      /\ SetItems(c) \subseteq SetItems(d)
      /\ TestItems(f, c) \subseteq TestItems(f, d)
      /\ RestoreItems(c) \subseteq RestoreItems(d)
  BY <1>1, <1>2 DEF StmtItems, JumpItems, SetItems, TestItems, RestoreItems
<1>4. Goto(f, c) \subseteq Goto(f, d)
  BY <1>1 DEF Goto
<1>5. QED
  BY <1>3, <1>4 DEF Items

(* What the constructors of Cgen make. *)
LEMMA Made ==
  ASSUME NEW f, NEW c
  PROVE  /\ \A n \in Reached(f, c) : Stmt(n) \in Items(f, c)
         /\ \A op \in JumpOps, id \in Ids(c) : Jmp(op, id) \in Items(f, c)
         /\ \A id \in Ids(c) : Set(id) \in Items(f, c)
         /\ \A ins \in Plain : Put1(ins) \in Items(f, c)
         /\ \A n \in DOMAIN f.nodes, id \in Ids(c) : Test(n, id) \in Items(f, c)
         /\ \A b \in Targets(c), d \in Targets(c) : Restore(b, d) \in Items(f, c)
<1>1. \A n \in Reached(f, c) : Stmt(n) \in StmtItems(f, c)
  BY DEF Stmt, StmtItems
<1>2. \A op \in JumpOps, id \in Ids(c) : Jmp(op, id) \in JumpItems(c)
  BY DEF Jmp, JumpItems
<1>3. \A id \in Ids(c) : Set(id) \in SetItems(c)
  BY DEF Set, SetItems
<1>4. \A ins \in Plain : Put1(ins) \in EmitItems
  BY DEF Put1, EmitItems
<1>5. \A n \in DOMAIN f.nodes, id \in Ids(c) : Test(n, id) \in TestItems(f, c)
  BY DEF Test, TestItems
<1>6. \A b \in Targets(c), d \in Targets(c) : Restore(b, d) \in RestoreItems(c)
  BY DEF Restore, RestoreItems
<1>7. QED
  BY <1>1, <1>2, <1>3, <1>4, <1>5, <1>6 DEF Items

(* What an item holds. *)
LEMMA Held ==
  ASSUME NEW f, NEW c, NEW i \in Items(f, c)
  PROVE  /\ i.do = "stmt" => i.n \in Reached(f, c)
         /\ i.do = "jump" => i.op \in JumpOps /\ i.id \in Ids(c)
         /\ i.do = "set" => i.id \in Ids(c)
         /\ i.do = "emit" => i.ins \in Plain
         /\ i.do = "test" => i.n \in DOMAIN f.nodes /\ i.id \in Ids(c)
         /\ i.do = "restore" => i.brk \in Targets(c) /\ i.cont \in Targets(c)
<1>1. i \in StmtItems(f, c) => i.do = "stmt" /\ i.n \in Reached(f, c)
  BY DEF StmtItems
<1>2. i \in JumpItems(c) => i.do = "jump" /\ i.op \in JumpOps /\ i.id \in Ids(c)
  BY DEF JumpItems
<1>3. i \in SetItems(c) => i.do = "set" /\ i.id \in Ids(c)
  BY DEF SetItems
<1>4. i \in EmitItems => i.do = "emit" /\ i.ins \in Plain
  BY DEF EmitItems
<1>5. i \in TestItems(f, c) => i.do = "test" /\ i.n \in DOMAIN f.nodes /\ i.id \in Ids(c)
  BY DEF TestItems
<1>6. i \in RestoreItems(c) =>
        i.do = "restore" /\ i.brk \in Targets(c) /\ i.cont \in Targets(c)
  BY DEF RestoreItems
<1>7. QED
  BY <1>1, <1>2, <1>3, <1>4, <1>5, <1>6 DEF Items

(* The next item and the others. *)
LEMMA Next1 ==
  ASSUME CgenInv, work # <<>>
  PROVE  /\ Head1 \in Items(src, counter) /\ Rest \in Seq(Items(src, counter))
         /\ ~patched
BY FirstAndRest DEF CgenInv, Head1, Rest

---------------------------------------------------------------------------
(* The part of a step all actions share: an item is replaced by others. *)

LEMMA Replaced ==
  ASSUME CgenInv, work # <<>>, counter' \in Nat, counter <= counter',
         NEW s \in Seq(Items(src, counter')), work' = s \o Rest,
         UNCHANGED <<src, fn, patched>>,
         brk' \in Targets(counter'), cont' \in Targets(counter'),
         gotoTab' \in Seq(Goto(src, counter'))
  PROVE  CgenInv'
<1>1. Rest \in Seq(Items(src, counter)) /\ ~patched
  BY Next1
<1>2. Items(src, counter) \subseteq Items(src, counter')
  BY ItemsGrow DEF CgenInv
<1>3. Rest \in Seq(Items(src, counter'))
  BY <1>1, <1>2, SeqGrows
<1>4. work' \in Seq(Items(src, counter'))
  BY <1>3, Joined
<1>5. QED
  BY <1>1, <1>4 DEF CgenInv

(* So do the targets and the labels of goto. *)
LEMMA Kept ==
  ASSUME CgenInv, counter' \in Nat, counter <= counter'
  PROVE  /\ brk \in Targets(counter') /\ cont \in Targets(counter')
         /\ gotoTab \in Seq(Goto(src, counter'))
<1>1. Targets(counter) \subseteq Targets(counter')
  BY IdsGrow DEF CgenInv
<1>2. Goto(src, counter) \subseteq Goto(src, counter')
  BY ItemsGrow DEF CgenInv
<1>3. QED
  BY <1>1, <1>2, SeqGrows DEF CgenInv

(* new_label. *)
LEMMA NewLabelsStep ==
  ASSUME counter \in Nat, ~exited, NEW k \in Nat \ {0}, NewLabels(k)
  PROVE  /\ counter' = counter + k /\ counter' \in Nat /\ counter < counter'
         /\ patched' = patched /\ LabelsNext
<1>1. counter' = counter + k /\ counter' \in Nat /\ counter < counter'
  BY DEF NewLabels
<1>2. counter' - counter = k
  BY <1>1
<1>3. NewLabels(counter' - counter) /\ patched' = patched
  BY <1>2 DEF NewLabels
<1>4. QED
  BY <1>1, <1>3 DEF LabelsNext

(* The statement to generate. *)
LEMMA AtStatement ==
  ASSUME CgenInv, NEW k, At1(k)
  PROVE  /\ work # <<>> /\ ~exited /\ ~patched
         /\ Head1.n \in Reached(src, counter) /\ Head1.n \in DOMAIN src.nodes
         /\ X = src.nodes[Head1.n] /\ X.k = k
         /\ X.kids \in Seq(DOMAIN src.nodes)
         /\ Shaped(src)
<1>1. work # <<>> /\ ~exited /\ Head1.do = "stmt" /\ X.k = k /\ X = src.nodes[Head1.n]
  BY DEF At1, X, Nodes
<1>2. Head1.n \in Reached(src, counter) /\ ~patched
  BY <1>1, Next1, Held
<1>3. Head1.n \in DOMAIN src.nodes
  BY <1>2 DEF Reached
<1>4. Shaped(src)
  BY FilesAssumption DEF CgenInv
<1>5. X.kids \in Seq(DOMAIN src.nodes)
  BY <1>1, <1>3, <1>4 DEF Shaped
<1>6. QED
  BY <1>1, <1>2, <1>3, <1>4, <1>5

(* The evaluation of an expression is an item. *)
LEMMA EvalMade ==
  ASSUME NEW f, NEW c
  PROVE  /\ \A a : Evaluated(a) => Eval(a) \in Items(f, c)
         /\ \A a : a = None \/ Evaluated(a) => EvalIf(a) \in Seq(Items(f, c))
<1>1. \A a : Evaluated(a) => Eval(a) \in Items(f, c)
  BY Made DEF Evaluated, Eval
<1>2. \A a : a = None \/ Evaluated(a) => EvalIf(a) \in Seq(Items(f, c))
  BY <1>1, One, Nothing DEF EvalIf
<1>3. QED
  BY <1>1, <1>2

(* So are the instructions that are the same everywhere. *)
LEMMA FixedMade ==
  ASSUME NEW f, NEW c
  PROVE  /\ Push \in Items(f, c) /\ Pop \in Items(f, c)
         /\ Prologue \in Items(f, c) /\ Epilogue \in Items(f, c)
BY Made, FilesAssumption DEF Push, Pop, Prologue, Epilogue

(* Past the first label every statement may be reached. *)
LEMMA AllReached ==
  ASSUME NEW f, NEW c \in Nat \ {0}, NEW kids \in Seq(DOMAIN f.nodes)
  PROVE  \A i \in DOMAIN kids : Stmt(kids[i]) \in Items(f, c)
<1>1. \A i \in DOMAIN kids : kids[i] \in Reached(f, c)
  BY DEF Reached
<1>2. QED
  BY <1>1, Made

---------------------------------------------------------------------------
(* The statements. *)

LEMMA SimpleSteps ==
  ASSUME CgenInv, GenExpr \/ GenReturn \/ GenBlock \/ GenNothing
  PROVE  CgenInv' /\ UNCHANGED labelVars
<1> DEFINE I == Items(src, counter)
<1>1. UNCHANGED labelVars /\ UNCHANGED <<src, fn, brk, cont, gotoTab>>
  BY DEF GenExpr, GenReturn, GenBlock, GenNothing, KeepTargets
<1>2. counter' = counter /\ counter \in Nat /\ patched' = patched
  BY <1>1 DEF labelVars, CgenInv
<1>3. ASSUME work # <<>>, NEW s \in Seq(I), work' = s \o Rest PROVE CgenInv'
  <2>1. counter' \in Nat /\ counter <= counter' /\ s \in Seq(Items(src, counter'))
    BY <1>2
  <2>2. /\ brk' \in Targets(counter') /\ cont' \in Targets(counter')
        /\ gotoTab' \in Seq(Goto(src, counter'))
    BY <1>1, <2>1, Kept
  <2>3. QED
    BY <1>1, <1>2, <1>3, <2>1, <2>2, Replaced
<1>4. CASE GenExpr
  <2>1. work # <<>> /\ (X.a = None \/ Evaluated(X.a))
    BY <1>4, AtStatement DEF GenExpr, Shaped
  <2>2. EvalIf(X.a) \in Seq(I) /\ work' = EvalIf(X.a) \o Rest
    BY <1>4, <2>1, EvalMade DEF GenExpr
  <2>3. QED
    BY <1>1, <1>3, <2>1, <2>2
<1>5. CASE GenReturn
  <2>1. work # <<>> /\ (X.a = None \/ Evaluated(X.a))
    BY <1>5, AtStatement DEF GenReturn, Shaped
  <2>2. EvalIf(X.a) \in Seq(I) /\ <<Epilogue>> \in Seq(I)
    BY <2>1, EvalMade, FixedMade, One
  <2>3. EvalIf(X.a) \o <<Epilogue>> \in Seq(I)
    BY <2>2, Joined
  <2>4. QED
    BY <1>1, <1>3, <1>5, <2>1, <2>3 DEF GenReturn
<1>6. CASE GenBlock
  <2>1. /\ work # <<>> /\ Head1.n \in Reached(src, counter) /\ Head1.n \in DOMAIN src.nodes
        /\ X = src.nodes[Head1.n] /\ X.k = "block" /\ Shaped(src)
        /\ X.kids \in Seq(DOMAIN src.nodes)
    BY <1>6, AtStatement DEF GenBlock
  <2>2. "block" \notin Loops \cup {"switch"}
    BY DEF Loops
  <2>3. \A i \in DOMAIN X.kids : Around(src, X.kids[i]) # 0 => Around(src, Head1.n) # 0
    BY <2>1, <2>2 DEF Shaped
  <2>4. \A i \in DOMAIN X.kids : X.kids[i] \in Reached(src, counter)
    BY <2>1, <2>3 DEF Reached
  <2>5. \A i \in DOMAIN X.kids : Stmt(X.kids[i]) \in I
    BY <2>4, Made
  <2>6. Stmts(X.kids) \in Seq(I)
    BY <2>1, <2>5 DEF Stmts
  <2>7. QED
    BY <1>1, <1>3, <1>6, <2>1, <2>6 DEF GenBlock
<1>7. CASE GenNothing
  <2>1. work # <<>> /\ Rest \in Seq(I)
    BY <1>7, Next1 DEF GenNothing, At1
  <2>2. work' = <<>> \o Rest
    BY <1>7, <2>1, ConcatEmptySeq DEF GenNothing
  <2>3. QED
    BY <1>1, <1>3, <2>1, <2>2, Nothing
<1>8. QED
  BY <1>4, <1>5, <1>6, <1>7

(* cgen_if takes labels with new_label alone, and leaves work that uses    *)
(* them.                                                                   *)
LEMMA IfStep ==
  ASSUME CgenInv, GenIf
  PROVE  CgenInv' /\ LabelsNext
<1> DEFINE I == Items(src, counter')
           s1 == <<Eval(X.a), Jmp("jz", counter), Stmt(X.kids[1])>>
           s2 == IF Len(X.kids) = 2
                 THEN <<Jmp("jmp", counter + 1), Set(counter), Stmt(X.kids[2]), Set(counter + 1)>>
                 ELSE <<Set(counter)>>
<1>1. At1("if") /\ NewLabels(2) /\ work' = s1 \o s2 \o Rest /\ UNCHANGED <<src, fn, brk, cont, gotoTab>>
  BY DEF GenIf, KeepTargets
<1>2. /\ work # <<>> /\ X.kids \in Seq(DOMAIN src.nodes)
      /\ Evaluated(X.a) /\ Len(X.kids) \in {1, 2}
  BY <1>1, AtStatement DEF Shaped
<1>3. /\ counter \in Nat /\ ~exited
  BY <1>1 DEF CgenInv, At1
<1>4. counter' = counter + 2 /\ counter' \in Nat \ {0} /\ patched' = patched /\ LabelsNext
  BY <1>1, <1>3, NewLabelsStep
<1>5. counter \in Ids(counter') /\ counter + 1 \in Ids(counter')
  BY <1>3, <1>4 DEF Ids
<1>6. /\ Jmp("jz", counter) \in I /\ Jmp("jmp", counter + 1) \in I
      /\ Set(counter) \in I /\ Set(counter + 1) \in I
  BY <1>5, Made DEF JumpOps
<1>7. Eval(X.a) \in I /\ \A i \in 1 .. Len(X.kids) : Stmt(X.kids[i]) \in I
  BY <1>2, <1>4, EvalMade, AllReached
<1> HIDE DEF I
<1>8. s1 \in Seq(I) /\ s2 \in Seq(I)
  BY <1>2, <1>6, <1>7
<1>9. s1 \o s2 \in Seq(I)
  BY <1>8, Joined
<1>10. brk' \in Targets(counter') /\ cont' \in Targets(counter') /\ gotoTab' \in Seq(Goto(src, counter'))
  BY <1>1, <1>3, <1>4, Kept
<1> HIDE DEF s1, s2
<1>11. counter' \in Nat /\ counter <= counter' /\ s1 \o s2 \in Seq(Items(src, counter'))
  BY <1>3, <1>4, <1>9 DEF I
<1>12. CgenInv'
  BY <1>1, <1>2, <1>4, <1>10, <1>11, Replaced
<1>13. QED
  BY <1>4, <1>12

(* A loop: its labels, its body and the targets to restore. *)
LEMMA LoopParts ==
  ASSUME CgenInv, NEW k \in Loops, At1(k), NEW n \in {2, 3}, NewLabels(n)
  PROVE  /\ work # <<>> /\ counter \in Nat /\ counter' = counter + n /\ counter' \in Nat
         /\ counter <= counter' /\ patched' = patched /\ LabelsNext
         /\ \A i \in 0 .. n - 1 : counter + i \in Ids(counter')
         /\ Stmt(X.kids[1]) \in Items(src, counter')
         /\ Restore(brk, cont) \in Items(src, counter')
         /\ gotoTab \in Seq(Goto(src, counter'))
<1>1. /\ work # <<>> /\ X.kids \in Seq(DOMAIN src.nodes) /\ Len(X.kids) = 1 /\ ~exited
  BY AtStatement DEF Shaped
<1>2. counter \in Nat /\ n \in Nat \ {0}
  BY DEF CgenInv
<1>3. /\ counter' = counter + n /\ counter' \in Nat /\ counter < counter'
      /\ patched' = patched /\ LabelsNext
  BY <1>1, <1>2, NewLabelsStep
<1>4. \A i \in 0 .. n - 1 : counter + i \in Ids(counter')
  BY <1>2, <1>3 DEF Ids
<1>5. counter' \in Nat \ {0} /\ counter <= counter'
  BY <1>2, <1>3
<1>6. Stmt(X.kids[1]) \in Items(src, counter')
  BY <1>1, <1>5, AllReached
<1>7. Restore(brk, cont) \in Items(src, counter') /\ gotoTab \in Seq(Goto(src, counter'))
  BY <1>5, Kept, Made
<1>8. QED
  BY <1>1, <1>2, <1>3, <1>4, <1>5, <1>6, <1>7

(* The same for while, *)
LEMMA WhileStep ==
  ASSUME CgenInv, GenWhile
  PROVE  CgenInv' /\ LabelsNext
<1> DEFINE I == Items(src, counter')
           s == <<Set(counter), Eval(X.a), Jmp("jz", counter + 1), Stmt(X.kids[1]),
                  Jmp("jmp", counter), Set(counter + 1), Restore(brk, cont)>>
<1>1. /\ At1("while") /\ NewLabels(2) /\ work' = s \o Rest /\ UNCHANGED <<src, fn, gotoTab>>
      /\ brk' = counter + 1 /\ cont' = counter
  BY DEF GenWhile
<1>2. /\ work # <<>> /\ counter \in Nat /\ counter' \in Nat /\ counter <= counter'
      /\ patched' = patched /\ LabelsNext
      /\ \A i \in 0 .. 1 : counter + i \in Ids(counter')
      /\ Stmt(X.kids[1]) \in I /\ Restore(brk, cont) \in I
      /\ gotoTab \in Seq(Goto(src, counter'))
  BY <1>1, LoopParts DEF Loops
<1>3. counter \in Ids(counter') /\ counter + 1 \in Ids(counter')
  BY <1>2
<1>4. /\ Jmp("jz", counter + 1) \in I /\ Jmp("jmp", counter) \in I
      /\ Set(counter) \in I /\ Set(counter + 1) \in I
  BY <1>3, Made DEF JumpOps
<1>5. Eval(X.a) \in I
  BY <1>1, AtStatement, EvalMade DEF Shaped
<1> HIDE DEF I
<1>6. s \in Seq(I)
  BY <1>2, <1>4, <1>5
<1> HIDE DEF s
<1>7. brk' \in Targets(counter') /\ cont' \in Targets(counter')
  BY <1>1, <1>3 DEF Targets
<1>8. CgenInv'
  BY <1>1, <1>2, <1>6, <1>7, Replaced DEF I
<1>9. QED
  BY <1>2, <1>8

(* do, *)
LEMMA DoStep ==
  ASSUME CgenInv, GenDoWhile
  PROVE  CgenInv' /\ LabelsNext
<1> DEFINE I == Items(src, counter')
           s == <<Set(counter), Stmt(X.kids[1]), Eval(X.a), Jmp("jnz", counter),
                  Set(counter + 1), Restore(brk, cont)>>
<1>1. /\ At1("do") /\ NewLabels(2) /\ work' = s \o Rest /\ UNCHANGED <<src, fn, gotoTab>>
      /\ brk' = counter + 1 /\ cont' = counter
  BY DEF GenDoWhile
<1>2. /\ work # <<>> /\ counter \in Nat /\ counter' \in Nat /\ counter <= counter'
      /\ patched' = patched /\ LabelsNext
      /\ \A i \in 0 .. 1 : counter + i \in Ids(counter')
      /\ Stmt(X.kids[1]) \in I /\ Restore(brk, cont) \in I
      /\ gotoTab \in Seq(Goto(src, counter'))
  BY <1>1, LoopParts DEF Loops
<1>3. counter \in Ids(counter') /\ counter + 1 \in Ids(counter')
  BY <1>2
<1>4. Jmp("jnz", counter) \in I /\ Set(counter) \in I /\ Set(counter + 1) \in I
  BY <1>3, Made DEF JumpOps
<1>5. Eval(X.a) \in I
  BY <1>1, AtStatement, EvalMade DEF Shaped
<1> HIDE DEF I
<1>6. s \in Seq(I)
  BY <1>2, <1>4, <1>5
<1> HIDE DEF s
<1>7. brk' \in Targets(counter') /\ cont' \in Targets(counter')
  BY <1>1, <1>3 DEF Targets
<1>8. CgenInv'
  BY <1>1, <1>2, <1>6, <1>7, Replaced DEF I
<1>9. QED
  BY <1>2, <1>8

(* for *)
LEMMA ForStep ==
  ASSUME CgenInv, GenFor
  PROVE  CgenInv' /\ LabelsNext
<1> DEFINE I == Items(src, counter')
           exit == IF X.a = None THEN <<>> ELSE <<Jmp("jz", counter + 1)>>
           body == <<Stmt(X.kids[1]), Set(counter + 2)>>
           last == <<Jmp("jmp", counter), Set(counter + 1), Restore(brk, cont)>>
           s == EvalIf(X.init) \o <<Set(counter)>> \o EvalIf(X.a) \o exit
                \o body \o EvalIf(X.step) \o last
<1>1. /\ At1("for") /\ NewLabels(3) /\ work' = s \o Rest /\ UNCHANGED <<src, fn, gotoTab>>
      /\ brk' = counter + 1 /\ cont' = counter + 2
  BY DEF GenFor
<1>2. /\ work # <<>> /\ counter \in Nat /\ counter' \in Nat /\ counter <= counter'
      /\ patched' = patched /\ LabelsNext
      /\ \A i \in 0 .. 2 : counter + i \in Ids(counter')
      /\ Stmt(X.kids[1]) \in I /\ Restore(brk, cont) \in I
      /\ gotoTab \in Seq(Goto(src, counter'))
  BY <1>1, LoopParts DEF Loops
<1>3. counter \in Ids(counter') /\ counter + 1 \in Ids(counter') /\ counter + 2 \in Ids(counter')
  BY <1>2
<1>4. /\ Jmp("jz", counter + 1) \in I /\ Jmp("jmp", counter) \in I
      /\ Set(counter) \in I /\ Set(counter + 1) \in I /\ Set(counter + 2) \in I
  BY <1>3, Made DEF JumpOps
<1>5. \A a \in {X.init, X.a, X.step} : a = None \/ Evaluated(a)
  <2>1. /\ Head1.n \in DOMAIN src.nodes /\ X = src.nodes[Head1.n] /\ X.k = "for" /\ Shaped(src)
    BY <1>1, AtStatement
  <2>2. \A a \in {X.init, X.step} : a = None \/ Evaluated(a)
    BY <2>1 DEF Shaped
  <2>3. X.a = None \/ Evaluated(X.a)
    BY <2>1 DEF Shaped
  <2>4. QED
    BY <2>2, <2>3
<1>6. EvalIf(X.init) \in Seq(I) /\ EvalIf(X.a) \in Seq(I) /\ EvalIf(X.step) \in Seq(I)
  BY <1>5, EvalMade
<1> HIDE DEF I
<1>7. /\ <<Set(counter)>> \in Seq(I) /\ exit \in Seq(I) /\ body \in Seq(I) /\ last \in Seq(I)
  BY <1>2, <1>4
<1> HIDE DEF exit, body, last
<1>8. s \in Seq(I)
  <2>1. EvalIf(X.init) \o <<Set(counter)>> \in Seq(I)
    BY <1>6, <1>7, Joined
  <2>2. EvalIf(X.init) \o <<Set(counter)>> \o EvalIf(X.a) \in Seq(I)
    BY <1>6, <2>1, Joined
  <2>3. EvalIf(X.init) \o <<Set(counter)>> \o EvalIf(X.a) \o exit \in Seq(I)
    BY <1>7, <2>2, Joined
  <2>4. EvalIf(X.init) \o <<Set(counter)>> \o EvalIf(X.a) \o exit \o body \in Seq(I)
    BY <1>7, <2>3, Joined
  <2>5. EvalIf(X.init) \o <<Set(counter)>> \o EvalIf(X.a) \o exit \o body
        \o EvalIf(X.step) \in Seq(I)
    BY <1>6, <2>4, Joined
  <2>6. QED
    BY <1>7, <2>5, Joined
<1> HIDE DEF s
<1>9. brk' \in Targets(counter') /\ cont' \in Targets(counter')
  BY <1>1, <1>3 DEF Targets
<1>10. CgenInv'
  BY <1>1, <1>2, <1>8, <1>9, Replaced DEF I
<1>11. QED
  BY <1>2, <1>10

(* The labels of a switch: one for each mark, and two more. *)
LEMMA MarkLabels ==
  ASSUME counter \in Nat, NEW D, NEW kids \in Seq(D)
  PROVE  /\ Cardinality(Marks(kids)) \in Nat
         /\ \A i : MarkLabel(kids, i) \in counter .. counter + Cardinality(Marks(kids))
<1>1. IsFiniteSet(DOMAIN kids)
  BY FS_Interval
<1>2. IsFiniteSet(Marks(kids))
  BY <1>1, FS_Subset DEF Marks
<1>3. Cardinality(Marks(kids)) \in Nat
  BY <1>2, FS_CardinalityType
<1>4. ASSUME NEW i
      PROVE  MarkLabel(kids, i) \in counter .. counter + Cardinality(Marks(kids))
  <2> DEFINE before == {j \in Marks(kids) : j < i}
  <2>1. before \subseteq Marks(kids)
    OBVIOUS
  <2>2. IsFiniteSet(before) /\ Cardinality(before) <= Cardinality(Marks(kids))
    BY <1>2, <2>1, FS_Subset
  <2>3. Cardinality(before) \in Nat
    BY <2>2, FS_CardinalityType
  <2>4. MarkLabel(kids, i) = counter + Cardinality(before)
    BY DEF MarkLabel
  <2> HIDE DEF before
  <2>5. QED
    BY <1>3, <2>2, <2>3, <2>4
<1>5. QED
  BY <1>3, <1>4

(* and switch. *)
LEMMA SwitchStep ==
  ASSUME CgenInv, GenSwitch
  PROVE  CgenInv' /\ LabelsNext
<1> DEFINE I == Items(src, counter')
           kids == X.kids
           dispatch == counter + Cardinality(Marks(kids))
           end == dispatch + 1
           first == <<Eval(X.a), Push, Jmp("jmp", dispatch)>>
           last == <<Set(end), Restore(brk, cont)>>
           s == first \o Body(kids) \o <<Set(dispatch), Pop>> \o Tests(kids)
                \o ToDefault(kids) \o last
<1>1. /\ At1("switch") /\ NewLabels(Cardinality(Marks(kids)) + 2) /\ work' = s \o Rest
      /\ UNCHANGED <<src, fn, cont, gotoTab>> /\ brk' = end
  BY DEF GenSwitch
<1>2. /\ work # <<>> /\ ~exited /\ kids \in Seq(DOMAIN src.nodes) /\ Evaluated(X.a)
  BY <1>1, AtStatement DEF Shaped
<1>3. counter \in Nat
  BY DEF CgenInv
<1>4. Cardinality(Marks(kids)) \in Nat
  BY <1>2, <1>3, MarkLabels
<1>5. Cardinality(Marks(kids)) + 2 \in Nat \ {0}
  BY <1>4
<1>6. /\ counter' = counter + (Cardinality(Marks(kids)) + 2) /\ counter' \in Nat
      /\ counter < counter' /\ patched' = patched /\ LabelsNext
  BY <1>1, <1>2, <1>3, <1>5, NewLabelsStep
<1>7. dispatch \in Ids(counter') /\ end \in Ids(counter')
  BY <1>3, <1>4, <1>6 DEF Ids
<1>8. \A i : MarkLabel(kids, i) \in Ids(counter')
  BY <1>2, <1>3, <1>4, <1>6, MarkLabels DEF Ids
<1>9. counter' \in Nat \ {0} /\ counter <= counter'
  BY <1>3, <1>6
<1>10. /\ cont \in Targets(counter') /\ Restore(brk, cont) \in I
       /\ gotoTab \in Seq(Goto(src, counter'))
  BY <1>9, Kept, Made
<1>11. /\ Jmp("jmp", dispatch) \in I /\ Set(end) \in I /\ Set(dispatch) \in I
       /\ \A i : Jmp("jmp", MarkLabel(kids, i)) \in I /\ Set(MarkLabel(kids, i)) \in I
  BY <1>7, <1>8, Made DEF JumpOps
<1>12. Eval(X.a) \in I /\ Push \in I /\ Pop \in I
  BY <1>2, EvalMade, FixedMade
<1>13. \A i \in DOMAIN kids : /\ Stmt(kids[i]) \in I
                              /\ Test(kids[i], MarkLabel(kids, i)) \in I
  <2>1. \A i \in DOMAIN kids : Stmt(kids[i]) \in I
    BY <1>2, <1>9, AllReached
  <2>2. \A i \in DOMAIN kids : kids[i] \in DOMAIN src.nodes
    BY <1>2
  <2>3. QED
    BY <1>8, <2>1, <2>2, Made
<1> HIDE DEF I, dispatch, end
<1>14. first \in Seq(I) /\ last \in Seq(I) /\ <<Set(dispatch), Pop>> \in Seq(I)
  BY <1>10, <1>11, <1>12
<1> HIDE DEF first, last
<1>15. Body(kids) \in Seq(I) /\ Tests(kids) \in Seq(I)
  <2>1. DOMAIN kids = 1 .. Len(kids) /\ Len(kids) \in Nat
    BY <1>2
  <2>2. Body(kids) \in [1 .. Len(kids) -> I] /\ Tests(kids) \in [1 .. Len(kids) -> I]
    BY <1>11, <1>13, <2>1 DEF Body, Tests
  <2>3. QED
    BY <2>1, <2>2
<1>16. ToDefault(kids) \in Seq(I)
  BY <1>11, One, Nothing DEF ToDefault
<1> HIDE DEF kids
<1>17. s \in Seq(I)
  <2>1. first \o Body(kids) \in Seq(I)
    BY <1>14, <1>15, Joined
  <2>2. first \o Body(kids) \o <<Set(dispatch), Pop>> \in Seq(I)
    BY <1>14, <2>1, Joined
  <2>3. first \o Body(kids) \o <<Set(dispatch), Pop>> \o Tests(kids) \in Seq(I)
    BY <1>15, <2>2, Joined
  <2>4. first \o Body(kids) \o <<Set(dispatch), Pop>> \o Tests(kids) \o ToDefault(kids) \in Seq(I)
    BY <1>16, <2>3, Joined
  <2>5. QED
    BY <1>14, <2>4, Joined
<1> HIDE DEF s
<1>18. brk' \in Targets(counter') /\ cont' \in Targets(counter')
  BY <1>1, <1>7, <1>10 DEF Targets
<1>19. gotoTab' \in Seq(Goto(src, counter'))
  BY <1>1, <1>10
<1>20. CgenInv'
  BY <1>1, <1>2, <1>6, <1>9, <1>17, <1>18, <1>19, Replaced DEF I
<1>21. QED
  BY <1>6, <1>20

(* A step that adds no label and changes none of the tables. *)
LEMMA ReplacedAlike ==
  ASSUME CgenInv, work # <<>>, UNCHANGED <<counter, patched, src, fn, gotoTab>>,
         NEW s \in Seq(Items(src, counter)), work' = s \o Rest,
         brk' \in Targets(counter), cont' \in Targets(counter)
  PROVE  CgenInv'
<1>1. /\ counter' \in Nat /\ counter <= counter' /\ s \in Seq(Items(src, counter'))
      /\ brk' \in Targets(counter') /\ cont' \in Targets(counter')
      /\ gotoTab' \in Seq(Goto(src, counter')) /\ UNCHANGED <<src, fn, patched>>
  BY DEF CgenInv
<1>2. QED
  BY <1>1, Replaced

(* break and continue jump to a label there is, return leaves the          *)
(* function.                                                               *)
LEMMA JumpOutSteps ==
  ASSUME CgenInv, GenBreak \/ GenContinue
  PROVE  CgenInv' /\ UNCHANGED labelVars
<1> DEFINE I == Items(src, counter)
           to == IF X.k = "break" THEN brk ELSE cont
           s == IF to >= 0 THEN <<Jmp("jmp", to)>> ELSE <<>>
<1>1. UNCHANGED labelVars /\ UNCHANGED <<src, fn, brk, cont, gotoTab>>
  BY DEF GenBreak, GenContinue, KeepTargets
<1>2. /\ work # <<>> /\ work' = s \o Rest /\ X.k \in {"break", "continue"}
      /\ Head1.n \in Reached(src, counter) /\ Head1.n \in DOMAIN src.nodes
      /\ X = src.nodes[Head1.n] /\ Shaped(src)
  <2>1. CASE GenBreak
    BY <2>1, AtStatement DEF GenBreak
  <2>2. CASE GenContinue
    BY <2>2, AtStatement DEF GenContinue
  <2>3. QED
    BY <2>1, <2>2
<1>3. Around(src, Head1.n) # 0
  BY <1>2 DEF Shaped
<1>4. counter \in Nat \ {0} /\ brk \in Targets(counter) /\ cont \in Targets(counter)
  BY <1>2, <1>3 DEF Reached, CgenInv
<1>5. to \in Ids(counter)
  BY <1>4 DEF Targets, Ids
<1> HIDE DEF to
<1>6. Jmp("jmp", to) \in I
  BY <1>5, Made DEF JumpOps
<1>7. s \in Seq(I)
  BY <1>6
<1> HIDE DEF s
<1>8. UNCHANGED <<counter, patched, src, fn, gotoTab>> /\ brk' \in Targets(counter) /\ cont' \in Targets(counter)
  BY <1>1, <1>4 DEF labelVars
<1>9. CgenInv'
  BY <1>2, <1>7, <1>8, ReplacedAlike
<1>10. QED
  BY <1>1, <1>9

(* A label of goto is one that new_label returned for its name. *)
LEMMA NamedStep ==
  ASSUME CgenInv, GenNamed
  PROVE  CgenInv' /\ (LabelsNext \/ UNCHANGED labelVars)
<1>1. /\ work # <<>> /\ ~exited /\ counter \in Nat /\ X.name \in Names(src)
  <2>1. work # <<>> /\ ~exited /\ Head1.n \in DOMAIN src.nodes /\ X = src.nodes[Head1.n]
    <3>1. CASE At1("goto")
      BY <3>1, AtStatement
    <3>2. CASE At1("label")
      BY <3>2, AtStatement
    <3>3. QED
      BY <3>1, <3>2 DEF GenNamed
  <2>2. QED
    BY <2>1 DEF Names, CgenInv
<1>2. UNCHANGED <<src, fn, brk, cont>>
  BY DEF GenNamed
<1>3. \A c \in Nat : \A id \in Ids(c) : <<NameItem(id)>> \in Seq(Items(src, c))
  <2>1. \A c \in Nat : \A id \in Ids(c) : NameItem(id) \in Items(src, c)
    BY Made DEF NameItem, JumpOps
  <2>2. QED
    BY <2>1, One
<1>4. CASE Known(X.name)
  <2>1. /\ UNCHANGED <<labelVars, gotoTab>> /\ work' = <<NameItem(IdOf(X.name))>> \o Rest
    BY <1>4 DEF GenNamed
  <2>2. PICK i \in DOMAIN gotoTab : IdOf(X.name) = gotoTab[i].id
    BY <1>4 DEF Known, IdOf
  <2>3. gotoTab[i] \in Goto(src, counter)
    BY DEF CgenInv
  <2>4. IdOf(X.name) \in Ids(counter)
    BY <2>2, <2>3 DEF Goto
  <2>5. <<NameItem(IdOf(X.name))>> \in Seq(Items(src, counter))
    BY <1>1, <1>3, <2>4
  <2>6. /\ UNCHANGED <<counter, patched, src, fn, gotoTab>>
        /\ brk' \in Targets(counter) /\ cont' \in Targets(counter)
    BY <1>2, <2>1 DEF labelVars, CgenInv
  <2>7. CgenInv'
    BY <1>1, <2>1, <2>5, <2>6, ReplacedAlike
  <2>8. QED
    BY <2>1, <2>7
<1>5. CASE ~Known(X.name)
  <2> DEFINE e == [name |-> X.name, id |-> counter]
  <2>1. /\ NewLabels(1) /\ gotoTab' = Append(gotoTab, e) /\ work' = <<NameItem(counter)>> \o Rest
    BY <1>5 DEF GenNamed
  <2>2. /\ counter' = counter + 1 /\ counter' \in Nat /\ counter < counter'
        /\ patched' = patched /\ LabelsNext
    BY <1>1, <2>1, NewLabelsStep
  <2>3. counter <= counter' /\ counter \in Ids(counter')
    BY <1>1, <2>2 DEF Ids
  <2>4. <<NameItem(counter)>> \in Seq(Items(src, counter'))
    BY <1>3, <2>2, <2>3
  <2>5. e \in Goto(src, counter')
    BY <1>1, <2>3 DEF Goto
  <2>6. /\ brk \in Targets(counter') /\ cont \in Targets(counter')
        /\ gotoTab \in Seq(Goto(src, counter'))
    BY <2>2, <2>3, Kept
  <2> HIDE DEF e
  <2>7. gotoTab' \in Seq(Goto(src, counter'))
    BY <2>1, <2>5, <2>6, AppendProperties
  <2>8. CgenInv'
    BY <1>1, <1>2, <2>1, <2>2, <2>3, <2>4, <2>6, <2>7, Replaced
  <2>9. QED
    BY <2>2, <2>8
<1>6. QED
  BY <1>4, <1>5

---------------------------------------------------------------------------
(* The other items. *)

LEMMA ItemSteps ==
  ASSUME CgenInv, DoEmit \/ DoJump \/ DoSet
  PROVE  CgenInv' /\ LabelsNext
<1>1. /\ work # <<>> /\ ~exited /\ ~patched /\ Head1 \in Items(src, counter)
      /\ Rest \in Seq(Items(src, counter)) /\ counter \in Nat
      /\ work' = Rest /\ UNCHANGED <<src, fn, brk, cont, gotoTab>>
  BY Next1 DEF DoEmit, DoJump, DoSet, Item, KeepTargets, CgenInv
<1>2. LabelsNext /\ UNCHANGED <<counter, patched>>
  <2>1. CASE DoEmit
    <3>1. Head1.do = "emit" /\ Emit(Head1.ins)
      BY <2>1 DEF DoEmit, Item
    <3>2. Head1.ins \in Plain
      BY <1>1, <3>1, Held
    <3>3. QED
      BY <1>1, <3>1, <3>2 DEF LabelsNext, Emit
  <2>2. CASE DoJump
    <3>1. Head1.do = "jump" /\ EmitJump(Head1.op, Head1.id)
      BY <2>2 DEF DoJump, Item
    <3>2. Head1.op \in JumpOps /\ Head1.id \in 0 .. counter - 1
      BY <1>1, <3>1, Held DEF Ids
    <3>3. UNCHANGED <<counter, patched>>
      BY <3>1 DEF EmitJump, EmitBackward, EmitForward, Emit
    <3>4. QED
      BY <1>1, <3>1, <3>2, <3>3 DEF LabelsNext
  <2>3. CASE DoSet
    <3>1. Head1.do = "set" /\ SetLabel(Head1.id)
      BY <2>3 DEF DoSet, Item
    <3>2. Head1.id \in 0 .. counter - 1
      BY <1>1, <3>1, Held DEF Ids
    <3>3. QED
      BY <1>1, <3>1, <3>2 DEF LabelsNext, SetLabel
  <2>4. QED
    BY <2>1, <2>2, <2>3
<1>3. CgenInv'
  BY <1>1, <1>2 DEF CgenInv
<1>4. QED
  BY <1>2, <1>3

(* A case of the dispatch compares and jumps. *)
LEMMA TestStep ==
  ASSUME CgenInv, DoTest
  PROVE  CgenInv' /\ (LabelsNext \/ UNCHANGED labelVars)
<1> DEFINE n == Head1.n
           id == Head1.id
           s == IF Nodes[n].k = "case" THEN CaseTest(n, id, counter) ELSE <<>>
<1>1. /\ work # <<>> /\ ~exited /\ counter \in Nat /\ Head1.do = "test"
      /\ n \in DOMAIN src.nodes /\ id \in Ids(counter)
      /\ work' = s \o Rest /\ UNCHANGED <<src, fn, brk, cont, gotoTab>>
  <2>1. work # <<>> /\ ~exited /\ Head1.do = "test"
    BY DEF DoTest, Item
  <2>2. n \in DOMAIN src.nodes /\ id \in Ids(counter)
    BY <2>1, Next1, Held
  <2>3. QED
    BY <2>1, <2>2 DEF DoTest, KeepTargets, CgenInv
<1>2. Nodes[n].k = "case" => /\ Plainly("cmp", 5, Nodes[n].lo) \in Plain
                             /\ Plainly("cmp", 5, Nodes[n].hi) \in Plain
  BY <1>1, FilesAssumption DEF CgenInv, Shaped, Nodes
<1>3. ASSUME NEW c \in Nat, counter <= c, IsRange(n) => counter \in Ids(c)
      PROVE  s \in Seq(Items(src, c))
  <2>1. CASE Nodes[n].k = "case"
    <3>1. Cmp(Nodes[n].lo) \in Items(src, c) /\ Cmp(Nodes[n].hi) \in Items(src, c)
      BY <1>2, <2>1, Made DEF Cmp
    <3>2. id \in Ids(c)
      BY <1>1, <1>3, IdsGrow
    <3>3. Jmp("jz", id) \in Items(src, c) /\ Jmp("jmp", id) \in Items(src, c)
      BY <3>2, Made DEF JumpOps
    <3>4. IsRange(n) => /\ Jmp("jl", counter) \in Items(src, c)
                        /\ Jmp("jg", counter) \in Items(src, c) /\ Set(counter) \in Items(src, c)
      BY <1>3, Made DEF JumpOps
    <3>5. CaseTest(n, id, counter) \in Seq(Items(src, c))
      BY <3>1, <3>3, <3>4 DEF CaseTest
    <3>6. QED
      BY <2>1, <3>5
  <2>2. CASE Nodes[n].k # "case"
    BY <2>2, Nothing
  <2>3. QED
    BY <2>1, <2>2
<1> HIDE DEF s
<1>4. CASE IsRange(n)
  <2>1. NewLabels(1)
    BY <1>4 DEF DoTest
  <2>2. /\ counter' = counter + 1 /\ counter' \in Nat /\ counter < counter'
        /\ patched' = patched /\ LabelsNext
    BY <1>1, <2>1, NewLabelsStep
  <2>3. counter <= counter' /\ counter \in Ids(counter')
    BY <1>1, <2>2 DEF Ids
  <2>4. s \in Seq(Items(src, counter'))
    BY <1>3, <2>2, <2>3
  <2>5. /\ brk' \in Targets(counter') /\ cont' \in Targets(counter')
        /\ gotoTab' \in Seq(Goto(src, counter'))
    BY <1>1, <2>2, <2>3, Kept
  <2>6. CgenInv'
    BY <1>1, <2>2, <2>3, <2>4, <2>5, Replaced
  <2>7. QED
    BY <2>2, <2>6
<1>5. CASE ~IsRange(n)
  <2>1. UNCHANGED labelVars
    BY <1>5 DEF DoTest
  <2>2. s \in Seq(Items(src, counter))
    BY <1>1, <1>3, <1>5
  <2>3. /\ UNCHANGED <<counter, patched, src, fn, gotoTab>>
        /\ brk' \in Targets(counter) /\ cont' \in Targets(counter)
    BY <1>1, <2>1 DEF labelVars, CgenInv
  <2>4. CgenInv'
    BY <1>1, <2>2, <2>3, ReplacedAlike
  <2>5. QED
    BY <2>1, <2>4
<1>6. QED
  BY <1>4, <1>5

(* The targets restored are those saved. *)
LEMMA RestoreStep ==
  ASSUME CgenInv, DoRestore
  PROVE  CgenInv' /\ UNCHANGED labelVars
<1>1. /\ work # <<>> /\ Head1.do = "restore" /\ brk' = Head1.brk /\ cont' = Head1.cont
      /\ work' = Rest /\ UNCHANGED labelVars /\ UNCHANGED <<src, fn, gotoTab>>
  BY DEF DoRestore, Item
<1>2. brk' \in Targets(counter) /\ cont' \in Targets(counter) /\ Rest \in Seq(Items(src, counter))
      /\ ~patched
  BY <1>1, Next1, Held
<1>3. QED
  BY <1>1, <1>2 DEF CgenInv, labelVars

(* A limit is exceeded: the compiler exits. *)
LEMMA ExitSteps ==
  ASSUME CgenInv, TooManyCases \/ TooManyGotos \/ Overflow
  PROVE  CgenInv' /\ LabelsNext
<1>1. ~exited /\ Exit /\ UNCHANGED genVars
  BY DEF TooManyCases, TooManyGotos, Overflow, At1, Item, LabelOverflow, FixupOverflow
<1>2. QED
  BY <1>1 DEF CgenInv, LabelsNext, Exit, genVars

(* Between functions labels are reset and fixups applied, and no work is   *)
(* left.                                                                   *)
LEMMA FunctionSteps ==
  ASSUME CgenInv, FinishFunction \/ ImplicitReturn \/ NextFunction
  PROVE  CgenInv' /\ (LabelsNext \/ UNCHANGED labelVars)
<1>1. CASE FinishFunction
  <2>1. /\ ~exited /\ work = <<>> /\ ApplyFixups /\ counter' = counter
        /\ UNCHANGED <<src, fn, work, brk, cont, gotoTab>>
    BY <1>1 DEF FinishFunction, ApplyFixups
  <2>2. CgenInv'
    BY <2>1 DEF CgenInv
  <2>3. QED
    BY <2>1, <2>2 DEF LabelsNext
<1>2. CASE ImplicitReturn
  <2>1. /\ ~patched /\ work' = <<Epilogue>> /\ UNCHANGED labelVars
        /\ UNCHANGED <<src, fn, brk, cont, gotoTab>>
    BY <1>2 DEF ImplicitReturn, KeepTargets
  <2>2. <<Epilogue>> \in Seq(Items(src, counter))
    BY FixedMade, One
  <2>3. QED
    BY <2>1, <2>2 DEF CgenInv, labelVars
<1>3. CASE NextFunction
  <2>1. /\ ~exited /\ fn < Len(src.funcs) /\ StartFunction /\ fn' = fn + 1
        /\ work' = <<Prologue, Stmt(src.funcs[fn + 1])>> /\ gotoTab' = <<>>
        /\ UNCHANGED <<src, brk, cont, counter>> /\ ~patched'
    BY <1>3 DEF NextFunction, StartFunction
  <2>2. src.funcs \in Seq(DOMAIN src.nodes) /\ \A i \in DOMAIN src.funcs : Around(src, src.funcs[i]) = 0
    BY FilesAssumption DEF CgenInv
  <2>3. fn + 1 \in DOMAIN src.funcs
    BY <2>1, <2>2 DEF CgenInv
  <2>4. src.funcs[fn + 1] \in Reached(src, counter)
    BY <2>2, <2>3 DEF Reached
  <2>5. Stmt(src.funcs[fn + 1]) \in Items(src, counter) /\ Prologue \in Items(src, counter)
    BY <2>4, Made, FixedMade
  <2>6. work' \in Seq(Items(src, counter)) /\ gotoTab' \in Seq(Goto(src, counter))
    BY <2>1, <2>5
  <2>7. CgenInv'
    BY <2>1, <2>3, <2>6 DEF CgenInv
  <2>8. QED
    BY <2>1, <2>7 DEF LabelsNext
<1>4. QED
  BY <1>1, <1>2, <1>3

---------------------------------------------------------------------------
(* The invariant holds at first. *)
LEMMA CgenInitInv == RunInit => CgenInv
<1> SUFFICES ASSUME RunInit PROVE CgenInv
  OBVIOUS
<1>1. /\ src \in Files /\ fn = 1 /\ counter = 0 /\ brk = 0 /\ cont = 0
      /\ gotoTab = <<>> /\ patched = FALSE /\ work = <<Prologue, Stmt(src.funcs[1])>>
  BY DEF RunInit, Init, LabelsInit
<1>2. /\ src.funcs \in Seq(DOMAIN src.nodes) /\ Len(src.funcs) > 0
      /\ \A i \in DOMAIN src.funcs : Around(src, src.funcs[i]) = 0
  BY <1>1, FilesAssumption
<1>3. 1 \in DOMAIN src.funcs
  BY <1>2
<1>4. src.funcs[1] \in Reached(src, 0)
  BY <1>2, <1>3 DEF Reached
<1>5. Stmt(src.funcs[1]) \in Items(src, 0) /\ Prologue \in Items(src, 0)
  BY <1>4, Made, FixedMade
<1>6. work \in Seq(Items(src, counter)) /\ gotoTab \in Seq(Goto(src, counter))
  BY <1>1, <1>5
<1>7. QED
  BY <1>1, <1>3, <1>6 DEF CgenInv, Targets

(* Each step of the compiler is a step of Labels, or none. *)
LEMMA CgenNextInv ==
  ASSUME CgenInv, [Next]_vars
  PROVE  CgenInv' /\ [LabelsNext]_labelVars
<1>1. CASE CgenNext
  BY <1>1, SimpleSteps, IfStep, WhileStep, ForStep, DoStep, SwitchStep, JumpOutSteps,
     NamedStep, ItemSteps, TestStep, RestoreStep, ExitSteps, FunctionSteps DEF CgenNext
<1>2. CASE UNCHANGED cgenVars
  BY <1>2 DEF CgenInv, cgenVars, genVars, labelVars
<1>3. QED
  BY <1>1, <1>2 DEF Next, Compile, Call, Execute, ExecJump, ExecPush, ExecPop, ExecCmp,
                    ExecPrologue, PtSilent, Evaluate, Return, Stopped, vars

(* Compiling any file uses the labels, jumps and fixups as Labels says:    *)
(* only labels that new_label returned are set and jumped to, nothing is   *)
(* emitted between apply_fixups and reset_labels, and the compiler stops   *)
(* at every limit.                                                         *)
THEOREM CgenRefinesLabels == Spec => ImplementsLabels
<1>1. RunInit => LabelsInit
  BY DEF RunInit, Init
<1>2. QED
  BY CgenInitInv, CgenNextInv, <1>1, PTL DEF Spec, LabelsSpec, ImplementsLabels

(* Hence, for every file, when a function is compiled each of its jumps    *)
(* lands on its label,                                                     *)
THEOREM CgenJumpsLand == Spec => []JumpsLand
BY CgenRefinesLabels, JumpsLandCorrect, PTL DEF ImplementsLabels

(* and compiling the next one leaves it as it is. *)
THEOREM CgenEarlierCode == Spec => EarlierCodeKept
BY CgenRefinesLabels, EarlierCodeCorrect, PTL DEF ImplementsLabels

---------------------------------------------------------------------------
(* The trees of a file. *)

Tree(N) ==
  /\ Len(N) \in Nat /\ DOMAIN N = 1 .. Len(N)
  /\ \A n \in DOMAIN N : N[n].kids \in Seq(DOMAIN N)
  /\ \A n \in DOMAIN N : \A i \in DOMAIN N[n].kids : N[n].kids[i] > n
  /\ \A n \in DOMAIN N : \A i \in DOMAIN N[n].kids :
       \A m \in DOMAIN N : \A j \in DOMAIN N[m].kids :
         N[m].kids[j] = N[n].kids[i] => m = n /\ j = i

(* The statements of a file form trees, with the bodies of its functions   *)
(* at the roots.                                                           *)
LEMMA FileIsTree ==
  ASSUME NEW f \in Files
  PROVE  /\ Tree(f.nodes)
         /\ f.funcs \in Seq(DOMAIN f.nodes)
         /\ \A g \in DOMAIN f.funcs : \A n \in DOMAIN f.nodes : ~IsKid(f.nodes, f.funcs[g], n)
<1>1. Trees(f) /\ Shaped(f) /\ f.funcs \in Seq(DOMAIN f.nodes)
  BY FilesAssumption
<1>2. \A n \in DOMAIN f.nodes : f.nodes[n].kids \in Seq(DOMAIN f.nodes)
  BY <1>1 DEF Shaped
<1>3. Tree(f.nodes)
  BY <1>1, <1>2 DEF Trees, Tree
<1>4. QED
  BY <1>1, <1>3 DEF Trees, IsKid

(* A nonempty set of numbers has a least one. *)
LEMMA Least ==
  ASSUME NEW S, S \subseteq Nat, S # {}
  PROVE  \E x \in S : \A y \in S : x <= y
<1> DEFINE R == {ss \in Nat \X Nat : ss[1] < ss[2]}
<1>1. IsWellFoundedOn(R, Nat)
  BY NatLessThanWellFounded DEF OpToRel
<1>2. \A x, y \in Nat : <<y, x>> \in R <=> y < x
  OBVIOUS
<1> HIDE DEF R
<1>3. PICK x \in S : \A y \in S : ~ (<<y, x>> \in R)
  BY <1>1, WFMin, Zenon
<1>4. \A y \in S : x <= y
  <2> TAKE y \in S
  <2>1. x \in Nat /\ y \in Nat
    OBVIOUS
  <2>2. ~ (y < x)
    BY <1>2, <1>3, <2>1, Zenon
  <2>3. QED
    BY <2>1, <2>2
<1>5. QED
  BY <1>4

(* The statement around another has a smaller number. *)
LEMMA ParentOf ==
  ASSUME NEW N, Tree(N), NEW n \in DOMAIN N
  PROVE  /\ Parent(N, n) \in Nat /\ Parent(N, n) < n
         /\ Parent(N, n) # 0 => /\ Parent(N, n) \in DOMAIN N
                                /\ \E i \in DOMAIN N[Parent(N, n)].kids :
                                     N[Parent(N, n)].kids[i] = n
<1>1. CASE \E p \in DOMAIN N : IsKid(N, n, p)
  <2>1. Parent(N, n) \in DOMAIN N /\ IsKid(N, n, Parent(N, n))
    BY <1>1 DEF Parent
  <2>2. PICK i \in DOMAIN N[Parent(N, n)].kids : N[Parent(N, n)].kids[i] = n
    BY <2>1 DEF IsKid
  <2>3. n > Parent(N, n) /\ Parent(N, n) \in Nat /\ n \in Nat
    BY <2>1, <2>2 DEF Tree
  <2>4. QED
    BY <2>1, <2>2, <2>3
<1>2. CASE ~\E p \in DOMAIN N : IsKid(N, n, p)
  <2>1. Parent(N, n) = 0
    BY <1>2 DEF Parent
  <2>2. n \in Nat /\ n > 0
    BY DEF Tree
  <2>3. QED
    BY <2>1, <2>2
<1>3. QED
  BY <1>1, <1>2

(* A substatement and its place. *)
LEMMA KidOf ==
  ASSUME NEW N, Tree(N), NEW p \in DOMAIN N, NEW i \in DOMAIN N[p].kids
  PROVE  /\ N[p].kids[i] \in DOMAIN N /\ N[p].kids[i] # 0 /\ p # 0
         /\ Parent(N, N[p].kids[i]) = p
         /\ Rank(N, N[p].kids[i], p) = i
         /\ i \in 1 .. Len(N[p].kids) /\ Len(N[p].kids) \in Nat
<1> DEFINE n == N[p].kids[i]
<1>1. N[p].kids \in Seq(DOMAIN N) /\ DOMAIN N = 1 .. Len(N) /\ Len(N) \in Nat
  BY DEF Tree
<1>2. n \in DOMAIN N /\ i \in 1 .. Len(N[p].kids) /\ Len(N[p].kids) \in Nat
  BY <1>1
<1>3. n # 0 /\ p # 0
  BY <1>1, <1>2
<1>4. \A q \in DOMAIN N : \A j \in DOMAIN N[q].kids : N[q].kids[j] = n => q = p /\ j = i
  BY DEF Tree
<1>5. IsKid(N, n, p) /\ \A q \in DOMAIN N : IsKid(N, n, q) => q = p
  BY <1>4 DEF IsKid
<1>6. Parent(N, n) = p
  BY <1>5 DEF Parent
<1>7. Rank(N, n, p) = i
  BY <1>4 DEF Rank
<1>8. QED
  BY <1>2, <1>3, <1>6, <1>7

---------------------------------------------------------------------------
(* What Enclosing and Root find by climbing: the first number of the set   *)
(* "stop" on the way up.                                                   *)

Climbs(f, S, stop, par) == f = [m \in S |-> IF m \in stop THEN m ELSE f[par[m]]]
Way(S, stop, par) ==
  /\ S \subseteq Nat /\ stop \subseteq S
  /\ \A m \in S \ stop : par[m] \in S /\ par[m] < m

(* A function that climbs a way ends where it stops, wherever it begins. *)
LEMMA ClimbStops ==
  ASSUME NEW S, NEW stop, NEW par, Way(S, stop, par), NEW f, Climbs(f, S, stop, par)
  PROVE  \A m \in S : f[m] \in stop
<1> DEFINE bad == {m \in S : f[m] \notin stop}
<1>1. \A m \in S : f[m] = IF m \in stop THEN m ELSE f[par[m]]
  BY DEF Climbs
<1>2. SUFFICES ASSUME bad # {} PROVE FALSE
  OBVIOUS
<1>3. bad \subseteq Nat
  BY DEF Way
<1> HIDE DEF bad
<1>4. PICK x \in bad : \A y \in bad : x <= y
  BY <1>2, <1>3, Least
<1>5. x \in S /\ f[x] \notin stop /\ x \in Nat
  BY <1>3 DEF bad
<1>6. x \notin stop /\ f[x] = f[par[x]]
  BY <1>1, <1>5
<1>7. par[x] \in S /\ par[x] < x /\ par[x] \in Nat
  BY <1>5, <1>6 DEF Way
<1>8. par[x] \in bad
  BY <1>5, <1>6, <1>7 DEF bad
<1>9. QED
  BY <1>4, <1>5, <1>7, <1>8

(* There is such a function, for a way goes on to smaller numbers only. *)
LEMMA ClimbThere ==
  ASSUME NEW S, NEW stop, NEW par, Way(S, stop, par)
  PROVE  \E f : Climbs(f, S, stop, par)
<1> DEFINE Below(k) == {m \in S : m < k}
           P(f, k) == f = [m \in Below(k) |-> IF m \in stop THEN m ELSE f[par[m]]]
           bad == {k \in Nat : ~\E f : P(f, k)}
<1>1. bad = {}
  <2>1. SUFFICES ASSUME bad # {} PROVE FALSE
    OBVIOUS
  <2>2. bad \subseteq Nat
    OBVIOUS
  <2>3. PICK x \in bad : \A y \in bad : x <= y
    <3> HIDE DEF bad
    <3>1. QED
      BY <2>1, <2>2, Least
  <2>4. x \in Nat /\ ~\E f : P(f, x)
    BY <2>3
  <2>5. x # 0
    <3> SUFFICES ASSUME x = 0 PROVE FALSE
      OBVIOUS
    <3> DEFINE e == [m \in Below(x) |-> 0]
    <3>1. \A m \in Below(x) : FALSE
      BY DEF Way
    <3> HIDE DEF Below
    <3>2. P(e, x)
      BY <3>1
    <3>3. QED
      BY <2>4, <3>2
  <2>6. x - 1 \in Nat /\ x - 1 \notin bad
    <3>1. x - 1 \in Nat /\ ~(x <= x - 1)
      BY <2>4, <2>5
    <3>2. QED
      BY <2>3, <3>1
  <2>7. PICK f : P(f, x - 1)
    BY <2>6
  <2> DEFINE e == IF x - 1 \in stop THEN x - 1 ELSE f[par[x - 1]]
             g == [m \in Below(x) |-> IF m = x - 1 THEN e ELSE f[m]]
  <2>8. \A m \in Below(x) : m = x - 1 \/ m \in Below(x - 1)
    BY <2>4 DEF Way
  <2>9. \A m \in Below(x - 1) : m \in Below(x) /\ m # x - 1
    BY <2>4 DEF Way
  <2>10. \A m \in Below(x) : m \notin stop => par[m] \in Below(x - 1)
    <3> TAKE m \in Below(x)
    <3> HAVE m \notin stop
    <3>1. par[m] \in S /\ par[m] < m /\ m < x /\ m \in Nat /\ par[m] \in Nat
      BY DEF Way
    <3>2. QED
      BY <2>4, <3>1
  <2>11. \A m \in Below(x - 1) : f[m] = IF m \in stop THEN m ELSE f[par[m]]
    BY <2>7
  <2>12. ASSUME NEW m \in Below(x)
         PROVE  g[m] = IF m \in stop THEN m ELSE g[par[m]]
    <3> HIDE DEF P, Below
    <3>1. m \notin stop => g[par[m]] = f[par[m]]
      BY <2>9, <2>10, <2>12
    <3>2. CASE m = x - 1
      BY <2>12, <3>1, <3>2
    <3>3. CASE m # x - 1
      <4>1. m \in Below(x - 1) /\ g[m] = f[m]
        BY <2>8, <2>12, <3>3
      <4>2. QED
        BY <2>11, <3>1, <4>1
    <3>4. QED
      BY <3>2, <3>3
  <2>13. P(g, x)
    <3>1. g = [m \in Below(x) |-> g[m]]
      OBVIOUS
    <3> HIDE DEF g
    <3>2. QED
      BY <2>12, <3>1
  <2>14. QED
    BY <2>4, <2>13
<1>2. \A k \in Nat : \E f : P(f, k)
  BY <1>1
<1> DEFINE F(k) == CHOOSE f : P(f, k)
           h == [m \in S |-> F(m + 1)[m]]
<1>3. \A k \in Nat : P(F(k), k)
  BY <1>2
<1>4. \A k \in Nat : \A m \in Below(k) : F(k)[m] = IF m \in stop THEN m ELSE F(k)[par[m]]
  <2> TAKE k \in Nat
  <2>1. P(F(k), k)
    BY <1>3
  <2> HIDE DEF F
  <2>2. QED
    BY <2>1
<1> HIDE DEF F
<1>5. \A m \in S : \A k \in Nat : m < k => F(k)[m] = F(m + 1)[m]
  <2> DEFINE off == {m \in S : ~\A k \in Nat : m < k => F(k)[m] = F(m + 1)[m]}
  <2>1. SUFFICES ASSUME off # {} PROVE FALSE
    OBVIOUS
  <2>2. off \subseteq Nat
    BY DEF Way
  <2>3. PICK x \in off : \A y \in off : x <= y
    <3> HIDE DEF off
    <3>1. QED
      BY <2>1, <2>2, Least
  <2>4. x \in S /\ x \in Nat /\ x + 1 \in Nat /\ x < x + 1
    BY <2>2, <2>3
  <2>5. PICK k \in Nat : x < k /\ F(k)[x] # F(x + 1)[x]
    BY <2>3
  <2>6. x \in Below(k) /\ x \in Below(x + 1)
    BY <2>4, <2>5
  <2>7. /\ F(k)[x] = IF x \in stop THEN x ELSE F(k)[par[x]]
        /\ F(x + 1)[x] = IF x \in stop THEN x ELSE F(x + 1)[par[x]]
    BY <1>4, <2>4, <2>6
  <2>8. x \notin stop
    BY <2>5, <2>7
  <2>9. par[x] \in S /\ par[x] < x /\ par[x] \in Nat
    BY <2>4, <2>8 DEF Way
  <2>10. par[x] \notin off
    BY <2>3, <2>4, <2>9
  <2>11. F(k)[par[x]] = F(par[x] + 1)[par[x]] /\ F(x + 1)[par[x]] = F(par[x] + 1)[par[x]]
    BY <2>4, <2>5, <2>9, <2>10
  <2>12. QED
    BY <2>5, <2>7, <2>11
<1>6. ASSUME NEW m \in S
      PROVE  h[m] = IF m \in stop THEN m ELSE h[par[m]]
  <2>1. m \in Nat /\ m + 1 \in Nat /\ m \in Below(m + 1)
    BY DEF Way
  <2>2. h[m] = IF m \in stop THEN m ELSE F(m + 1)[par[m]]
    BY <1>4, <1>6, <2>1
  <2>3. m \notin stop => F(m + 1)[par[m]] = h[par[m]]
    <3> SUFFICES ASSUME m \notin stop PROVE F(m + 1)[par[m]] = h[par[m]]
      OBVIOUS
    <3>0. par[m] \in S /\ par[m] \in Nat /\ par[m] < m
      BY DEF Way
    <3>1. par[m] \in S /\ par[m] < m + 1 /\ par[m] \in Nat
      BY <2>1, <3>0
    <3>2. h[par[m]] = F(par[m] + 1)[par[m]]
      BY <3>1
    <3> HIDE DEF h
    <3>3. F(m + 1)[par[m]] = F(par[m] + 1)[par[m]]
      BY <1>5, <2>1, <3>1
    <3>4. QED
      BY <3>2, <3>3
  <2>4. QED
    BY <2>2, <2>3
<1>7. h = [m \in S |-> h[m]]
  OBVIOUS
<1>8. \A m \in S : h[m] = IF m \in stop THEN m ELSE h[par[m]]
  BY <1>6
<1> HIDE DEF h
<1>9. Climbs(h, S, stop, par)
  BY <1>7, <1>8 DEF Climbs
<1>10. QED
  BY <1>9

(* The innermost statement around another of certain kinds is the next one *)
(* up or the innermost one around that.                                    *)
LEMMA EnclosingOf ==
  ASSUME NEW N, Tree(N), NEW ks
  PROVE  \A n \in DOMAIN N :
           /\ Enclosing(N, n, ks) = IF Parent(N, n) = 0 THEN 0
                                    ELSE IF N[Parent(N, n)].k \in ks THEN Parent(N, n)
                                    ELSE Enclosing(N, Parent(N, n), ks)
           /\ Enclosing(N, n, ks) # 0 => /\ Enclosing(N, n, ks) \in DOMAIN N
                                         /\ N[Enclosing(N, n, ks)].k \in ks
<1> DEFINE S    == 0 .. Len(N)
           stop == {0} \cup {m \in DOMAIN N : N[m].k \in ks}
           par  == [m \in DOMAIN N |-> Parent(N, m)]
           Up(f) == f = [m \in 0 .. Len(N) |->
                           IF m = 0 THEN 0 ELSE IF N[m].k \in ks THEN m ELSE f[Parent(N, m)]]
           up == CHOOSE f : Up(f)
<1>1. \A n \in DOMAIN N : Enclosing(N, n, ks) = up[Parent(N, n)]
  BY DEF Enclosing
<1>2. Len(N) \in Nat /\ DOMAIN N = 1 .. Len(N)
  BY DEF Tree
<1>3. \A m \in S : m # 0 => m \in DOMAIN N /\ par[m] = Parent(N, m) /\ par[m] \in S /\ par[m] < m
  <2> SUFFICES ASSUME NEW m \in S, m # 0
               PROVE  m \in DOMAIN N /\ par[m] = Parent(N, m) /\ par[m] \in S /\ par[m] < m
    OBVIOUS
  <2>1. m \in DOMAIN N /\ par[m] = Parent(N, m)
    BY <1>2
  <2>2. Parent(N, m) \in Nat /\ Parent(N, m) < m
    BY <2>1, ParentOf
  <2>3. QED
    BY <1>2, <2>1, <2>2
<1>4. Way(S, stop, par)
  <2>1. S \subseteq Nat /\ stop \subseteq S
    BY <1>2
  <2>2. \A m \in S \ stop : m # 0
    OBVIOUS
  <2>3. QED
    BY <1>3, <2>1, <2>2 DEF Way
<1>5. \A f : \A m \in S : (IF m \in stop THEN m ELSE f[par[m]])
                        = IF m = 0 THEN 0 ELSE IF N[m].k \in ks THEN m ELSE f[Parent(N, m)]
  BY <1>3
<1>6. \A f : Climbs(f, S, stop, par) <=> Up(f)
  <2> TAKE f
  <2>1. \A m \in S : (IF m \in stop THEN m ELSE f[par[m]])
                        = IF m = 0 THEN 0 ELSE IF N[m].k \in ks THEN m ELSE f[Parent(N, m)]
    BY <1>5
  <2> HIDE DEF stop, par
  <2>2. [m \in S |-> IF m \in stop THEN m ELSE f[par[m]]]
        = [m \in S |-> IF m = 0 THEN 0 ELSE IF N[m].k \in ks THEN m ELSE f[Parent(N, m)]]
    BY <2>1
  <2>3. QED
    BY <2>2 DEF Climbs
<1> HIDE DEF par, S
<1>7. \E f : Up(f)
  BY <1>4, <1>6, ClimbThere
<1> HIDE DEF Up
<1>8. Up(up)
  BY <1>7
<1>9. \A m \in S : up[m] \in stop
  BY <1>4, <1>6, <1>8, ClimbStops
<1> HIDE DEF up
<1>10. \A m \in S : up[m] = IF m = 0 THEN 0 ELSE IF N[m].k \in ks THEN m ELSE up[Parent(N, m)]
  <2> TAKE m \in S
  <2>1. up = [l \in 0 .. Len(N) |->
                IF l = 0 THEN 0 ELSE IF N[l].k \in ks THEN l ELSE up[Parent(N, l)]]
    BY <1>8, Zenon DEF Up
  <2>2. QED
    BY <2>1 DEF S
<1>11. ASSUME NEW n \in DOMAIN N
       PROVE  /\ up[Parent(N, n)] = IF Parent(N, n) = 0 THEN 0
                                    ELSE IF N[Parent(N, n)].k \in ks THEN Parent(N, n)
                                    ELSE Enclosing(N, Parent(N, n), ks)
              /\ up[Parent(N, n)] # 0 => /\ up[Parent(N, n)] \in DOMAIN N
                                         /\ N[up[Parent(N, n)]].k \in ks
  <2>1. Parent(N, n) \in S /\ (Parent(N, n) # 0 => Parent(N, n) \in DOMAIN N)
    <3>1. Parent(N, n) \in Nat /\ (Parent(N, n) # 0 => Parent(N, n) \in DOMAIN N)
      BY ParentOf
    <3>2. QED
      BY <1>2, <3>1 DEF S
  <2>2. Parent(N, n) # 0 => Enclosing(N, Parent(N, n), ks) = up[Parent(N, Parent(N, n))]
    BY <1>1, <2>1
  <2>3. up[Parent(N, n)] \in stop
    BY <1>9, <2>1
  <2> HIDE DEF stop
  <2>4. up[Parent(N, n)] = IF Parent(N, n) = 0 THEN 0
                           ELSE IF N[Parent(N, n)].k \in ks THEN Parent(N, n)
                           ELSE up[Parent(N, Parent(N, n))]
    BY <1>10, <2>1
  <2>5. up[Parent(N, n)] # 0 => /\ up[Parent(N, n)] \in DOMAIN N
                                /\ N[up[Parent(N, n)]].k \in ks
    BY <2>3 DEF stop
  <2>6. QED
    BY <2>2, <2>4, <2>5
<1>12. QED
  BY <1>1, <1>11

(* The body of the function around a statement is that around the next one *)
(* up.                                                                     *)
LEMMA RootOf ==
  ASSUME NEW N, Tree(N)
  PROVE  \A n \in DOMAIN N :
           Root(N, n) = IF Parent(N, n) = 0 THEN n ELSE Root(N, Parent(N, n))
<1> DEFINE S    == 1 .. Len(N)
           stop == {m \in S : Parent(N, m) = 0}
           par  == [m \in S |-> Parent(N, m)]
           Up(f) == f = [m \in 1 .. Len(N) |->
                           IF Parent(N, m) = 0 THEN m ELSE f[Parent(N, m)]]
           up == CHOOSE f : Up(f)
<1>1. \A n \in DOMAIN N : Root(N, n) = up[n]
  BY DEF Root
<1>2. Len(N) \in Nat /\ DOMAIN N = S
  BY DEF Tree
<1>3. \A m \in S : /\ Parent(N, m) \in Nat /\ Parent(N, m) < m
                   /\ Parent(N, m) # 0 => Parent(N, m) \in S
  BY <1>2, ParentOf
<1>4. Way(S, stop, par)
  BY <1>2, <1>3 DEF Way
<1>5. \A f : Climbs(f, S, stop, par) <=> Up(f)
  <2> TAKE f
  <2>1. [m \in S |-> IF m \in stop THEN m ELSE f[par[m]]]
        = [m \in S |-> IF Parent(N, m) = 0 THEN m ELSE f[Parent(N, m)]]
    OBVIOUS
  <2>2. QED
    BY <2>1 DEF Climbs
<1> HIDE DEF par, stop
<1>6. \E f : Up(f)
  BY <1>4, <1>5, ClimbThere
<1> HIDE DEF Up
<1>7. Up(up)
  BY <1>6
<1> HIDE DEF up
<1>8. ASSUME NEW m \in S
      PROVE  up[m] = IF Parent(N, m) = 0 THEN m ELSE up[Parent(N, m)]
  <2>1. up = [l \in 1 .. Len(N) |-> IF Parent(N, l) = 0 THEN l ELSE up[Parent(N, l)]]
    BY <1>7, Zenon DEF Up
  <2>2. QED
    BY <2>1
<1>9. QED
  BY <1>1, <1>2, <1>3, <1>8

(* What is in a statement: m is n or in one of the statements of n. *)
Under(N, m, n) ==
  \A S \in SUBSET DOMAIN N :
    n \in S /\ (\A x \in S : \A i \in DOMAIN N[x].kids : N[x].kids[i] \in S) => m \in S

(* A statement is under itself, *)
LEMMA UnderSelf == ASSUME NEW N, NEW n PROVE Under(N, n, n)
BY DEF Under

(* as are the statements in it, and theirs. *)
LEMMA UnderKid ==
  ASSUME NEW N, NEW p \in DOMAIN N, NEW r, Under(N, p, r),
         NEW i \in DOMAIN N[p].kids
  PROVE  Under(N, N[p].kids[i], r)
BY DEF Under

(* What is under a statement and not the statement itself is under one of  *)
(* those in it.                                                            *)
LEMMA UnderIs ==
  ASSUME NEW N, Tree(N), NEW m, NEW n \in DOMAIN N, Under(N, m, n), m # n
  PROVE  \E i \in DOMAIN N[n].kids : Under(N, m, N[n].kids[i])
<1> DEFINE T == {x \in DOMAIN N : \E i \in DOMAIN N[n].kids : Under(N, x, N[n].kids[i])}
           S == {n} \cup T
<1>1. \A x \in DOMAIN N : \A i \in DOMAIN N[x].kids : N[x].kids[i] \in DOMAIN N
  BY KidOf
<1>2. S \in SUBSET DOMAIN N /\ n \in S
  OBVIOUS
<1>3. ASSUME NEW x \in S, NEW i \in DOMAIN N[x].kids PROVE N[x].kids[i] \in S
  <2>1. CASE x = n
    BY <1>1, <2>1, UnderSelf
  <2>2. CASE x # n
    <3>1. x \in DOMAIN N
      BY <2>2
    <3>2. PICK j \in DOMAIN N[n].kids : Under(N, x, N[n].kids[j])
      BY <2>2
    <3>3. Under(N, N[x].kids[i], N[n].kids[j])
      BY <3>1, <3>2, UnderKid
    <3>4. N[x].kids[i] \in DOMAIN N
      BY <1>1, <3>1
    <3>5. QED
      BY <3>3, <3>4
  <2>3. QED
    BY <2>1, <2>2
<1> HIDE DEF S
<1>4. m \in S
  BY <1>2, <1>3 DEF Under
<1>5. QED
  BY <1>4 DEF S

(* Every statement is in the body of its function. *)
LEMMA UnderRoot ==
  ASSUME NEW N, Tree(N)
  PROVE  \A m \in DOMAIN N : Under(N, m, Root(N, m))
<1> DEFINE bad == {m \in DOMAIN N : ~Under(N, m, Root(N, m))}
<1>1. SUFFICES ASSUME bad # {} PROVE FALSE
  OBVIOUS
<1>2. bad \subseteq Nat
  BY DEF Tree
<1>3. PICK x \in bad : \A y \in bad : x <= y
  <2> HIDE DEF bad
  <2>1. QED
    BY <1>1, <1>2, Least
<1>4. x \in DOMAIN N /\ ~Under(N, x, Root(N, x)) /\ x \in Nat
  BY <1>2, <1>3
<1>5. CASE Parent(N, x) = 0
  BY <1>4, <1>5, RootOf, UnderSelf
<1>6. CASE Parent(N, x) # 0
  <2>1. /\ Parent(N, x) \in DOMAIN N /\ Parent(N, x) < x /\ Parent(N, x) \in Nat
        /\ \E i \in DOMAIN N[Parent(N, x)].kids : N[Parent(N, x)].kids[i] = x
    BY <1>4, <1>6, ParentOf
  <2>2. Root(N, x) = Root(N, Parent(N, x))
    BY <1>4, <1>6, RootOf
  <2>3. Parent(N, x) \notin bad
    BY <1>3, <1>4, <2>1
  <2>4. Under(N, Parent(N, x), Root(N, x))
    BY <2>1, <2>2, <2>3, Zenon
  <2>5. PICK i \in DOMAIN N[Parent(N, x)].kids : N[Parent(N, x)].kids[i] = x
    BY <2>1
  <2>6. QED
    BY <1>4, <2>1, <2>4, <2>5, UnderKid
<1>7. QED
  BY <1>5, <1>6

---------------------------------------------------------------------------
(* States of the program: the control point of C and what the processor    *)
(* has in hand.                                                            *)

Modes     == {"enter", "leave", "init", "test", "step", "ret"}
Points(N) == Modes \X DOMAIN N
Signs     == {-1, 0, 1}
State(N)  == [pt : Points(N), rax : Int, flag : Signs, stack : Seq(Int)]
Now(p, r, f, s) == [pt |-> p, rax |-> r, flag |-> f, stack |-> s]

(* Silent steps of C lead from p to q. *)
Leads(N, p, q) ==
  \A S \in SUBSET Points(N) :
    q \in S /\ (\A x \in Points(N) : ~Visible(N, x) /\ Silent(N, x) \in S => x \in S)
      => p \in S

(* The states on their way to q. *)
On(N, q) == {s \in State(N) : q \in Points(N) /\ Leads(N, s.pt, q) /\ s.stack = <<>>}

(* What leads to a silent point leads to the next one as well. *)
LEMMA LeadsOn ==
  ASSUME NEW N, NEW q \in Points(N), ~Visible(N, q), NEW p, Leads(N, p, q)
  PROVE  Leads(N, p, Silent(N, q))
<1> SUFFICES ASSUME NEW S \in SUBSET Points(N), Silent(N, q) \in S,
                    \A x \in Points(N) : ~Visible(N, x) /\ Silent(N, x) \in S => x \in S
             PROVE  p \in S
  BY DEF Leads
<1>1. q \in S
  OBVIOUS
<1>2. QED
  BY <1>1, Zenon DEF Leads

(* From what leads to a point, and is not that point, one silent step      *)
(* leads there too.                                                        *)
LEMMA LeadsFrom ==
  ASSUME NEW N, NEW q \in Points(N), NEW p, Leads(N, p, q)
  PROVE  /\ p \in Points(N)
         /\ p # q => ~Visible(N, p) /\ Leads(N, Silent(N, p), q)
<1>0. Leads(N, q, q)
  BY DEF Leads
<1>1. p \in Points(N)
  BY Zenon DEF Leads
<1> DEFINE S == {x \in Points(N) : x = q \/ (~Visible(N, x) /\ Leads(N, Silent(N, x), q))}
<1>2. ASSUME NEW x \in Points(N), ~Visible(N, x), Silent(N, x) \in S
      PROVE  x \in S
  <2>1. CASE Silent(N, x) = q
    BY <1>0, <1>2, <2>1
  <2>2. CASE Silent(N, x) # q
    <3> DEFINE y == Silent(N, x)
    <3>1. y \in Points(N) /\ ~Visible(N, y) /\ Leads(N, Silent(N, y), q)
      BY <1>2, <2>2
    <3>2. Leads(N, y, q)
      <4> SUFFICES ASSUME NEW T \in SUBSET Points(N), q \in T,
                          \A z \in Points(N) : ~Visible(N, z) /\ Silent(N, z) \in T => z \in T
                   PROVE  y \in T
        BY DEF Leads
      <4>1. Silent(N, y) \in T
        BY <3>1, Zenon DEF Leads
      <4>2. QED
        BY <3>1, <4>1
    <3>3. QED
      BY <1>2, <3>2
  <2>3. QED
    BY <2>1, <2>2
<1>3. S \in SUBSET Points(N) /\ q \in S
  OBVIOUS
<1> HIDE DEF S
<1>4. p \in S
  BY <1>2, <1>3, Zenon DEF Leads
<1>5. QED
  BY <1>1, <1>4 DEF S

(* Where nothing is to be seen a state is on its way to the next point as  *)
(* well.                                                                   *)
LEMMA OnStep ==
  ASSUME NEW N, NEW q \in Points(N), ~Visible(N, q), Silent(N, q) \in Points(N)
  PROVE  On(N, q) \subseteq On(N, Silent(N, q))
BY LeadsOn DEF On

(* A state at a point is on its way to it. *)
LEMMA OnAt ==
  ASSUME NEW N, NEW q \in Points(N), NEW r \in Int, NEW f \in Signs
  PROVE  Now(q, r, f, <<>>) \in On(N, q)
<1>1. Leads(N, q, q)
  BY DEF Leads
<1>2. QED
  BY <1>1 DEF On, Now, State

(* Control points of a statement. *)
LEMMA PointsAre ==
  ASSUME NEW N, NEW n \in DOMAIN N
  PROVE  /\ At("enter", n) \in Points(N) /\ At("leave", n) \in Points(N)
         /\ At("init", n) \in Points(N) /\ At("test", n) \in Points(N)
         /\ At("step", n) \in Points(N) /\ At("ret", n) \in Points(N)
BY DEF At, Points, Modes

(* What is seen at a point. *)
LEMMA Seen ==
  ASSUME NEW N, NEW n \in DOMAIN N
  PROVE  /\ N[n].k \notin {"expr", "return"} => Evaluates(N, At("enter", n)) = None
         /\ N[n].k \in {"expr", "return"} => Evaluates(N, At("enter", n)) = N[n].a
         /\ Evaluates(N, At("leave", n)) = None
         /\ Evaluates(N, At("init", n)) = N[n].init
         /\ Evaluates(N, At("test", n)) = N[n].a
         /\ Evaluates(N, At("step", n)) = N[n].step
         /\ \A m \in {"enter", "leave", "init", "test", "step"} :
              Visible(N, At(m, n)) = (Evaluates(N, At(m, n)) # None)
         /\ Visible(N, At("ret", n))
BY DEF Evaluates, Visible, At

(* Where a silent step goes. *)
LEMMA SilentIs ==
  ASSUME NEW N, NEW n
  PROVE  /\ Silent(N, At("enter", n)) = Enter(N, n)
         /\ Silent(N, At("leave", n)) = After(N, n)
         /\ Silent(N, At("init", n)) = At("test", n)
         /\ Silent(N, At("step", n)) = At("test", n)
         /\ Silent(N, At("test", n)) = At("enter", N[n].kids[1])
BY DEF Silent, At

(* Complete statements: control goes on behind them, *)
LEMMA Leave ==
  ASSUME NEW N, Tree(N), NEW p \in DOMAIN N, NEW i \in DOMAIN N[p].kids
  PROVE  LET n == N[p].kids[i]
             left == On(N, At("leave", n))
         IN  /\ N[p].k \in {"while", "do"} => left \subseteq On(N, At("test", p))
             /\ N[p].k = "for" => left \subseteq On(N, At("step", p))
             /\ N[p].k = "if" => left \subseteq On(N, At("leave", p))
             /\ N[p].k \in {"block", "switch"} =>
                  IF i < Len(N[p].kids)
                  THEN left \subseteq On(N, At("enter", N[p].kids[i + 1]))
                  ELSE left \subseteq On(N, At("leave", p))
<1> DEFINE n == N[p].kids[i]
<1>1. /\ n \in DOMAIN N /\ p # 0 /\ Parent(N, n) = p /\ Rank(N, n, p) = i
      /\ i \in 1 .. Len(N[p].kids) /\ Len(N[p].kids) \in Nat
  BY KidOf
<1> HIDE DEF n
<1>2. After(N, n) = CASE N[p].k \in {"while", "do"} -> At("test", p)
                      [] N[p].k = "for" -> At("step", p)
                      [] N[p].k = "if" -> At("leave", p)
                      [] OTHER -> IF i < Len(N[p].kids)
                                  THEN At("enter", N[p].kids[i + 1])
                                  ELSE At("leave", p)
  BY <1>1 DEF After
<1>3. ~Visible(N, At("leave", n)) /\ At("leave", n) \in Points(N)
      /\ Silent(N, At("leave", n)) = After(N, n)
  BY <1>1, Seen, PointsAre, SilentIs
<1>4. i < Len(N[p].kids) => N[p].kids[i + 1] \in DOMAIN N
  <2>1. i < Len(N[p].kids) => i + 1 \in DOMAIN N[p].kids
    BY <1>1 DEF Tree
  <2>2. QED
    BY <2>1, KidOf
<1>5. After(N, n) \in Points(N) => On(N, At("leave", n)) \subseteq On(N, After(N, n))
  BY <1>3, OnStep
<1>6. N[p].k \in {"while", "do"} => On(N, At("leave", n)) \subseteq On(N, At("test", p))
  BY <1>2, <1>5, PointsAre
<1>7. N[p].k = "for" => On(N, At("leave", n)) \subseteq On(N, At("step", p))
  BY <1>2, <1>5, PointsAre
<1>8. N[p].k = "if" => On(N, At("leave", n)) \subseteq On(N, At("leave", p))
  BY <1>2, <1>5, PointsAre
<1>9. N[p].k \in {"block", "switch"} =>
         IF i < Len(N[p].kids)
         THEN On(N, At("leave", n)) \subseteq On(N, At("enter", N[p].kids[i + 1]))
         ELSE On(N, At("leave", n)) \subseteq On(N, At("leave", p))
  BY <1>2, <1>4, <1>5, PointsAre
<1>10. QED
  BY <1>6, <1>7, <1>8, <1>9 DEF n

(* or to the end of the function. *)
LEMMA LeaveRoot ==
  ASSUME NEW N, NEW n \in DOMAIN N, Parent(N, n) = 0
  PROVE  On(N, At("leave", n)) \subseteq On(N, At("ret", n))
<1>1. After(N, n) = At("ret", n)
  BY DEF After
<1>2. Silent(N, At("leave", n)) = At("ret", n)
  BY <1>1, SilentIs
<1>3. ~Visible(N, At("leave", n)) /\ At("leave", n) \in Points(N)
  BY Seen, PointsAre
<1>4. At("ret", n) \in Points(N)
  BY PointsAre
<1>5. QED
  BY <1>2, <1>3, <1>4, OnStep

(* Statements begun. *)
LEMMA EnterStep ==
  ASSUME NEW N, NEW n \in DOMAIN N, N[n].k \notin {"expr", "return"} \/ N[n].a = None,
         Enter(N, n) \in Points(N)
  PROVE  On(N, At("enter", n)) \subseteq On(N, Enter(N, n))
<1>1. ~Visible(N, At("enter", n)) /\ At("enter", n) \in Points(N)
  BY Seen, PointsAre
<1>2. Silent(N, At("enter", n)) = Enter(N, n)
  BY SilentIs
<1>3. QED
  BY <1>1, <1>2, OnStep

Nothing1 == {"expr", "null", "case", "default", "label"}

(* Where entering a statement leads, for each kind of statement. *)
LEMMA EnterIs ==
  ASSUME NEW N, NEW n
  PROVE  LET x == N[n]
         IN  /\ x.k \in Nothing1 => Enter(N, n) = At("leave", n)
             /\ x.k = "return" => Enter(N, n) = At("ret", n)
             /\ x.k = "block" /\ x.kids # <<>> => Enter(N, n) = At("enter", x.kids[1])
             /\ x.k = "block" /\ x.kids = <<>> => Enter(N, n) = At("leave", n)
             /\ x.k \in {"if", "while", "switch"} => Enter(N, n) = At("test", n)
             /\ x.k = "for" => Enter(N, n) = At("init", n)
             /\ x.k = "do" => Enter(N, n) = At("enter", x.kids[1])
             /\ x.k = "break" =>
                  Enter(N, n) = At("leave", Enclosing(N, n, Loops \cup {"switch"}))
             /\ x.k = "continue" =>
                  LET l == Enclosing(N, n, Loops)
                  IN  Enter(N, n) = At(IF N[l].k = "for" THEN "step" ELSE "test", l)
             /\ x.k = "goto" => Enter(N, n) = At("leave", LabelNode(N, n))
BY DEF Enter, Nothing1

(* A simple statement that does nothing. *)
LEMMA EnterNothing ==
  ASSUME NEW N, NEW n \in DOMAIN N, N[n].k \in Nothing1, N[n].k = "expr" => N[n].a = None
  PROVE  On(N, At("enter", n)) \subseteq On(N, At("leave", n))
<1>1. Enter(N, n) = At("leave", n)
  BY EnterIs
<1>2. QED
  BY <1>1, EnterStep, PointsAre DEF Nothing1

(* A return without a value. *)
LEMMA EnterReturn ==
  ASSUME NEW N, NEW n \in DOMAIN N, N[n].k = "return", N[n].a = None
  PROVE  On(N, At("enter", n)) \subseteq On(N, At("ret", n))
<1>1. Enter(N, n) = At("ret", n)
  BY EnterIs
<1>2. QED
  BY <1>1, EnterStep, PointsAre

(* Statements with a condition, and for. *)
LEMMA EnterTest ==
  ASSUME NEW N, NEW n \in DOMAIN N
  PROVE  /\ N[n].k \in {"if", "while", "switch"} =>
              On(N, At("enter", n)) \subseteq On(N, At("test", n))
         /\ N[n].k = "for" => On(N, At("enter", n)) \subseteq On(N, At("init", n))
<1>1. N[n].k \in {"if", "while", "switch"} => Enter(N, n) = At("test", n)
  BY EnterIs
<1>2. N[n].k = "for" => Enter(N, n) = At("init", n)
  BY EnterIs
<1>3. QED
  BY <1>1, <1>2, EnterStep, PointsAre

(* A block or a do goes on with its first statement. *)
LEMMA EnterFirst ==
  ASSUME NEW N, Tree(N), NEW n \in DOMAIN N, N[n].k \in {"block", "do"}, N[n].kids # <<>>
  PROVE  On(N, At("enter", n)) \subseteq On(N, At("enter", N[n].kids[1]))
<1>1. 1 \in DOMAIN N[n].kids
  BY DEF Tree
<1>2. N[n].kids[1] \in DOMAIN N
  BY <1>1, KidOf
<1>3. Enter(N, n) = At("enter", N[n].kids[1])
  BY EnterIs
<1>4. QED
  BY <1>2, <1>3, EnterStep, PointsAre

(* An empty block is left at once. *)
LEMMA EnterEmpty ==
  ASSUME NEW N, NEW n \in DOMAIN N, N[n].k = "block", N[n].kids = <<>>
  PROVE  On(N, At("enter", n)) \subseteq On(N, At("leave", n))
<1>1. Enter(N, n) = At("leave", n)
  BY EnterIs
<1>2. QED
  BY <1>1, EnterStep, PointsAre

(* Parts of a for that are missing are passed over. *)
LEMMA Missing ==
  ASSUME NEW N, NEW n \in DOMAIN N
  PROVE  /\ N[n].init = None => On(N, At("init", n)) \subseteq On(N, At("test", n))
         /\ N[n].step = None => On(N, At("step", n)) \subseteq On(N, At("test", n))
         /\ N[n].a = None /\ N[n].kids[1] \in DOMAIN N =>
              On(N, At("test", n)) \subseteq On(N, At("enter", N[n].kids[1]))
<1>1. N[n].init = None => On(N, At("init", n)) \subseteq On(N, At("test", n))
  <2>1. N[n].init = None => ~Visible(N, At("init", n))
    BY Seen
  <2>2. QED
    BY <2>1, SilentIs, PointsAre, OnStep
<1>2. N[n].step = None => On(N, At("step", n)) \subseteq On(N, At("test", n))
  <2>1. N[n].step = None => ~Visible(N, At("step", n))
    BY Seen
  <2>2. QED
    BY <2>1, SilentIs, PointsAre, OnStep
<1>3. N[n].a = None /\ N[n].kids[1] \in DOMAIN N =>
              On(N, At("test", n)) \subseteq On(N, At("enter", N[n].kids[1]))
  <2>1. N[n].a = None => ~Visible(N, At("test", n))
    BY Seen
  <2>2. QED
    BY <2>1, SilentIs, PointsAre, OnStep
<1>4. QED
  BY <1>1, <1>2, <1>3

---------------------------------------------------------------------------
(* What instructions do to states: those that come to one, the set U, are  *)
(* in the set V behind it.                                                 *)

Jumped(op, f) == \/ op = "jmp"
                 \/ op = "jz" /\ f = 0
                 \/ op = "jnz" /\ f # 0
                 \/ op = "jl" /\ f < 0
                 \/ op = "jg" /\ f > 0

(* Those that take a jump are in T. *)
Parts(op, U, T, V) == \A s \in U : IF Jumped(op, s.flag) THEN s \in T ELSE s \in V

(* What comes of a visible point, for each value. *)
Valued(N, q) == {Now(OnValue(N, q, v), v, Sign(v), <<>>) : v \in Values}

Does(N, ins, U, T, V) ==
  \/ /\ ins.op = "eval" /\ ins.arg # None
     /\ \E q \in Points(N) : /\ Evaluates(N, q) = ins.arg
                             /\ U = On(N, q) /\ Valued(N, q) \subseteq V
  \/ /\ ins.op = "ret"
     /\ \E q \in Points(N) : q[1] = "ret" /\ U = On(N, q)
  \/ /\ ins.op = "push"
     /\ \A s \in U : Now(s.pt, s.rax, s.flag, Append(s.stack, s.rax)) \in V
  \/ /\ ins.op = "pop"
     /\ \A s \in U : /\ s.stack # <<>>
                     /\ Now(s.pt, s.stack[Len(s.stack)], s.flag,
                            SubSeq(s.stack, 1, Len(s.stack) - 1)) \in V
  \/ /\ ins.op = "cmp"
     /\ \A s \in U : Now(s.pt, s.rax, Sign(s.rax - ins.arg), s.stack) \in V
  \/ ins.op = "prologue" /\ U \subseteq V
  \/ ins.op \in JumpOps /\ Parts(ins.op, U, T, V)

(* The comparison with a case, whatever flag it leaves. *)
Sorts(N, n, U, T, V) ==
  \A s \in U : /\ s.rax \in Int
               /\ \A f \in Signs :
                    IF s.rax \in N[n].lo .. N[n].hi
                    THEN Now(s.pt, s.rax, f, s.stack) \in T
                    ELSE Now(s.pt, s.rax, f, s.stack) \in V

(* What work does: a stage lies before and behind each item, with the      *)
(* states that may come there and the targets of break and continue.  L    *)
(* has for each label the states that come to it, r is the body of the     *)
(* function.                                                               *)
Stage(U, b, c) == [set |-> U, brk |-> b, cont |-> c]

Goal(N, l) == At(IF N[l].k = "for" THEN "step" ELSE "test", l)
Aims(N, L, n, b, c) ==
  /\ LET l == Enclosing(N, n, Loops \cup {"switch"})
     IN  l # 0 => b \in DOMAIN L /\ On(N, At("leave", l)) \subseteq L[b]
  /\ LET l == Enclosing(N, n, Loops)
     IN  l # 0 => /\ c \in DOMAIN L
                  /\ N[l].k # "do" => On(N, Goal(N, l)) \subseteq L[c]

FitsStatement(N, r, L, n, e, f) ==
  /\ n \in DOMAIN N /\ Root(N, n) = r
  /\ e.set \subseteq On(N, At("enter", n))
  /\ On(N, At("leave", n)) \subseteq f.set \/ n \in Leaving(N)
  /\ Aims(N, L, n, e.brk, e.cont)

Fits(N, r, L, i, e, f) ==
  /\ e = Stage(e.set, e.brk, e.cont) /\ f = Stage(f.set, f.brk, f.cont)
  /\ i.do # "restore" => f.brk = e.brk /\ f.cont = e.cont
  /\ i.do = "restore" => f.brk = i.brk /\ f.cont = i.cont /\ e.set \subseteq f.set
  /\ i.do = "emit" => \E W : e.set \subseteq W /\ Does(N, i.ins, W, {}, f.set)
  /\ i.do = "jump" => i.id \in DOMAIN L /\ Parts(i.op, e.set, L[i.id], f.set)
  /\ i.do = "set" => i.id \in DOMAIN L /\ e.set \subseteq L[i.id] /\ L[i.id] \subseteq f.set
  /\ i.do = "test" =>
       IF N[i.n].k = "case" THEN i.id \in DOMAIN L /\ Sorts(N, i.n, e.set, L[i.id], f.set)
       ELSE e.set \subseteq f.set
  /\ i.do = "stmt" => FitsStatement(N, r, L, i.n, e, f)

Listed(w) == \E S : w \in Seq(S)
Chain(N, r, L, w, e, f) ==
  /\ Listed(w)
  /\ \E p : /\ p[1] = e /\ p[Len(w) + 1] = f
            /\ \A i \in DOMAIN w : Fits(N, r, L, w[i], p[i], p[i + 1])

---------------------------------------------------------------------------
(* Chains. *)

(* No work leaves a stage as it is, *)
LEMMA ChainNone ==
  ASSUME NEW N, NEW r, NEW L, NEW e
  PROVE  Chain(N, r, L, <<>>, e, e)
<1> DEFINE p == [i \in {1} |-> e]
<1>1. p[1] = e /\ p[Len(<<>>) + 1] = e
  OBVIOUS
<1> HIDE DEF p
<1>2. <<>> \in Seq({})
  OBVIOUS
<1>3. QED
  BY <1>1, <1>2 DEF Chain, Listed

(* one item takes it where the item fits, *)
LEMMA ChainOne ==
  ASSUME NEW N, NEW r, NEW L, NEW i, NEW e, NEW f, Fits(N, r, L, i, e, f)
  PROVE  Chain(N, r, L, <<i>>, e, f)
<1> DEFINE p == [j \in {1, 2} |-> IF j = 1 THEN e ELSE f]
<1>1. p[1] = e /\ p[2] = f /\ Len(<<i>>) + 1 = 2
  OBVIOUS
<1> HIDE DEF p
<1>2. \A j \in DOMAIN <<i>> : Fits(N, r, L, <<i>>[j], p[j], p[j + 1])
  BY <1>1
<1>3. <<i>> \in Seq({i})
  OBVIOUS
<1>4. Listed(<<i>>)
  BY <1>3, Zenon DEF Listed
<1>5. QED
  BY <1>1, <1>2, <1>4, Zenon DEF Chain

(* lists of items one after the other are a list, *)
LEMMA ListedJoin ==
  ASSUME NEW v, Listed(v), NEW w, Listed(w)
  PROVE  \E S : v \in Seq(S) /\ w \in Seq(S) /\ v \o w \in Seq(S)
<1>1. PICK S : v \in Seq(S)
  BY DEF Listed
<1>2. PICK T : w \in Seq(T)
  BY DEF Listed
<1>3. v \in Seq(S \cup T) /\ w \in Seq(S \cup T)
  BY <1>1, <1>2, SeqGrows
<1>4. v \o w \in Seq(S \cup T)
  BY <1>3, Joined
<1>5. QED
  BY <1>3, <1>4

(* and so are chains. *)
LEMMA ChainJoin ==
  ASSUME NEW N, NEW r, NEW L, NEW v, NEW w, NEW e, NEW g, NEW f,
         Chain(N, r, L, v, e, g), Chain(N, r, L, w, g, f)
  PROVE  Chain(N, r, L, v \o w, e, f)
<1>0. PICK S : v \in Seq(S) /\ w \in Seq(S) /\ v \o w \in Seq(S)
  BY ListedJoin DEF Chain
<1>1. PICK p : /\ p[1] = e /\ p[Len(v) + 1] = g
               /\ \A i \in DOMAIN v : Fits(N, r, L, v[i], p[i], p[i + 1])
  BY DEF Chain
<1>2. PICK q : /\ q[1] = g /\ q[Len(w) + 1] = f
               /\ \A i \in DOMAIN w : Fits(N, r, L, w[i], q[i], q[i + 1])
  BY DEF Chain
<1> DEFINE t == [i \in 1 .. Len(v) + Len(w) + 1 |->
                   IF i <= Len(v) THEN p[i] ELSE q[i - Len(v)]]
<1>3. /\ Len(v) \in Nat /\ Len(w) \in Nat /\ Len(v \o w) = Len(v) + Len(w)
      /\ DOMAIN v = 1 .. Len(v) /\ DOMAIN w = 1 .. Len(w)
      /\ DOMAIN (v \o w) = 1 .. Len(v) + Len(w)
  BY <1>0
<1>4. t[Len(v \o w) + 1] = f
  BY <1>2, <1>3
<1>5. t[1] = e
  <2>1. CASE Len(v) = 0
    <3>1. t[1] = q[1]
      BY <1>0, <1>3, <2>1
    <3>2. QED
      BY <1>1, <1>2, <2>1, <3>1
  <2>2. CASE Len(v) # 0
    BY <1>1, <1>3, <2>2
  <2>3. QED
    BY <2>1, <2>2
<1>6. ASSUME NEW i \in DOMAIN (v \o w)
      PROVE  Fits(N, r, L, (v \o w)[i], t[i], t[i + 1])
  <2>1. CASE i <= Len(v)
    <3>1. i \in DOMAIN v /\ (v \o w)[i] = v[i] /\ t[i] = p[i]
      BY <1>0, <1>3, <2>1
    <3>2. t[i + 1] = p[i + 1]
      <4>1. CASE i < Len(v)
        BY <1>3, <4>1
      <4>2. CASE i = Len(v)
        <5>1. t[i + 1] = q[1]
          BY <1>3, <4>2
        <5>2. QED
          BY <1>1, <1>2, <4>2, <5>1
      <4>3. QED
        BY <1>3, <2>1, <4>1, <4>2
    <3> HIDE DEF t
    <3>3. QED
      BY <1>1, <3>1, <3>2
  <2>2. CASE ~(i <= Len(v))
    <3>1. i - Len(v) \in DOMAIN w /\ (v \o w)[i] = w[i - Len(v)] /\ t[i] = q[i - Len(v)]
      BY <1>0, <1>3, <2>2
    <3>2. t[i + 1] = q[(i - Len(v)) + 1]
      BY <1>0, <1>3, <2>2
    <3> HIDE DEF t
    <3>3. QED
      BY <1>2, <3>1, <3>2
  <2>3. QED
    BY <2>1, <2>2
<1> HIDE DEF t
<1>7. QED
  BY <1>0, <1>4, <1>5, <1>6 DEF Chain, Listed

(* The first item of a chain fits, and the rest is a chain. *)
LEMMA ChainFirst ==
  ASSUME NEW N, NEW r, NEW L, NEW w, w # <<>>, NEW e, NEW f,
         Chain(N, r, L, w, e, f)
  PROVE  \E g : Fits(N, r, L, w[1], e, g) /\ Chain(N, r, L, Tail(w), g, f)
<1>0. PICK S : w \in Seq(S)
  BY DEF Chain, Listed
<1>1. PICK p : /\ p[1] = e /\ p[Len(w) + 1] = f
               /\ \A i \in DOMAIN w : Fits(N, r, L, w[i], p[i], p[i + 1])
  BY DEF Chain
<1> DEFINE q == [i \in 1 .. Len(w) |-> p[i + 1]]
<1>2. /\ Len(w) \in Nat /\ Len(w) # 0 /\ DOMAIN w = 1 .. Len(w) /\ Len(Tail(w)) = Len(w) - 1
      /\ DOMAIN Tail(w) = 1 .. Len(w) - 1 /\ \A i \in 1 .. Len(w) - 1 : Tail(w)[i] = w[i + 1]
  BY <1>0
<1>3. q[1] = p[2] /\ q[Len(Tail(w)) + 1] = f
  BY <1>1, <1>2
<1>4. ASSUME NEW i \in DOMAIN Tail(w)
      PROVE  Fits(N, r, L, Tail(w)[i], q[i], q[i + 1])
  <2>1. i + 1 \in DOMAIN w /\ Tail(w)[i] = w[i + 1] /\ q[i] = p[i + 1] /\ q[i + 1] = p[(i + 1) + 1]
    BY <1>2
  <2> HIDE DEF q
  <2>2. QED
    BY <1>1, <2>1
<1>5. Fits(N, r, L, w[1], e, p[2])
  <2>1. 1 \in DOMAIN w /\ 1 + 1 = 2
    BY <1>2
  <2>2. QED
    BY <1>1, <2>1
<1> HIDE DEF q
<1>6. Chain(N, r, L, Tail(w), p[2], f)
  <2>1. Tail(w) \in Seq(S)
    BY <1>0, FirstAndRest
  <2>2. QED
    BY <1>3, <1>4, <2>1 DEF Chain, Listed
<1>7. QED
  BY <1>5, <1>6

(* More labels change nothing. *)
Extends(L, M) == DOMAIN L \subseteq DOMAIN M /\ \A id \in DOMAIN L : M[id] = L[id]

(* An item that fits still fits when there are more labels, *)
LEMMA FitsMore ==
  ASSUME NEW N, NEW r, NEW L, NEW M, Extends(L, M), NEW i, NEW e, NEW f, Fits(N, r, L, i, e, f)
  PROVE  Fits(N, r, M, i, e, f)
<1>1. \A n, b, c : Aims(N, L, n, b, c) => Aims(N, M, n, b, c)
  BY DEF Aims, Extends
<1>2. \A n : FitsStatement(N, r, L, n, e, f) => FitsStatement(N, r, M, n, e, f)
  BY <1>1 DEF FitsStatement
<1>3. QED
  BY <1>2 DEF Fits, Extends

(* and so does a chain. *)
LEMMA ChainMore ==
  ASSUME NEW N, NEW r, NEW L, NEW M, Extends(L, M), NEW w, NEW e, NEW f,
         Chain(N, r, L, w, e, f)
  PROVE  Chain(N, r, M, w, e, f)
BY FitsMore DEF Chain

---------------------------------------------------------------------------
(* What each item fits. *)

(* What a stage has. *)
LEMMA StageIs ==
  ASSUME NEW U, NEW b, NEW c
  PROVE  /\ Stage(U, b, c).set = U /\ Stage(U, b, c).brk = b /\ Stage(U, b, c).cont = c
         /\ Stage(U, b, c) = Stage(Stage(U, b, c).set, Stage(U, b, c).brk, Stage(U, b, c).cont)
BY DEF Stage

(* An expression takes the states on their way to it to all that its       *)
(* values lead to.                                                         *)
LEMMA FitsEval ==
  ASSUME NEW N, NEW r, NEW L, NEW q \in Points(N), NEW a, Evaluates(N, q) = a, a # None,
         NEW U, U \subseteq On(N, q), NEW V, Valued(N, q) \subseteq V, NEW b, NEW c
  PROVE  Fits(N, r, L, Eval(a), Stage(U, b, c), Stage(V, b, c))
<1>1. Does(N, Plainly("eval", 3, a), On(N, q), {}, V)
  BY DEF Does, Plainly
<1>2. Eval(a).do = "emit" /\ Eval(a).ins = Plainly("eval", 3, a)
  BY DEF Eval, Put1
<1>3. QED
  BY <1>1, <1>2, StageIs DEF Fits

(* A return takes the states that are on their way to one. *)
LEMMA FitsReturn ==
  ASSUME NEW N, NEW r, NEW L, NEW q \in Points(N), q[1] = "ret",
         NEW U, U \subseteq On(N, q), NEW V, NEW b, NEW c
  PROVE  Fits(N, r, L, Epilogue, Stage(U, b, c), Stage(V, b, c))
<1>1. Does(N, Plainly("ret", 5, None), On(N, q), {}, V)
  BY DEF Does, Plainly
<1>2. Epilogue.do = "emit" /\ Epilogue.ins = Plainly("ret", 5, None)
  BY DEF Epilogue, Put1
<1>3. QED
  BY <1>1, <1>2, StageIs DEF Fits

(* The prologue changes nothing, *)
LEMMA FitsPrologue ==
  ASSUME NEW N, NEW r, NEW L, NEW U, NEW b, NEW c
  PROVE  Fits(N, r, L, Prologue, Stage(U, b, c), Stage(U, b, c))
<1>1. Does(N, Plainly("prologue", 4, None), U, {}, U)
  BY DEF Does, Plainly
<1>2. Prologue.do = "emit" /\ Prologue.ins = Plainly("prologue", 4, None)
  BY DEF Prologue, Put1
<1>3. QED
  BY <1>1, <1>2, StageIs DEF Fits

(* a push puts rax on the stack, *)
LEMMA FitsPush ==
  ASSUME NEW N, NEW r, NEW L, NEW U, NEW V, NEW b, NEW c,
         \A s \in U : Now(s.pt, s.rax, s.flag, Append(s.stack, s.rax)) \in V
  PROVE  Fits(N, r, L, Push, Stage(U, b, c), Stage(V, b, c))
<1>1. Does(N, Plainly("push", 1, None), U, {}, V)
  BY DEF Does, Plainly
<1>2. Push.do = "emit" /\ Push.ins = Plainly("push", 1, None)
  BY DEF Push, Put1
<1>3. QED
  BY <1>1, <1>2, StageIs DEF Fits

(* a pop takes it back, *)
LEMMA FitsPop ==
  ASSUME NEW N, NEW r, NEW L, NEW U, NEW V, NEW b, NEW c,
         \A s \in U : /\ s.stack # <<>>
                      /\ Now(s.pt, s.stack[Len(s.stack)], s.flag,
                             SubSeq(s.stack, 1, Len(s.stack) - 1)) \in V
  PROVE  Fits(N, r, L, Pop, Stage(U, b, c), Stage(V, b, c))
<1>1. Does(N, Plainly("pop", 1, None), U, {}, V)
  BY DEF Does, Plainly
<1>2. Pop.do = "emit" /\ Pop.ins = Plainly("pop", 1, None)
  BY DEF Pop, Put1
<1>3. QED
  BY <1>1, <1>2, StageIs DEF Fits

(* and a comparison sets the flag. *)
LEMMA FitsCmp ==
  ASSUME NEW N, NEW r, NEW L, NEW x, NEW U, NEW V, NEW b, NEW c,
         \A s \in U : Now(s.pt, s.rax, Sign(s.rax - x), s.stack) \in V
  PROVE  Fits(N, r, L, Cmp(x), Stage(U, b, c), Stage(V, b, c))
<1>1. Does(N, Plainly("cmp", 5, x), U, {}, V)
  BY DEF Does, Plainly
<1>2. Cmp(x).do = "emit" /\ Cmp(x).ins = Plainly("cmp", 5, x)
  BY DEF Cmp, Put1
<1>3. QED
  BY <1>1, <1>2, StageIs DEF Fits

(* A jump splits the states by the flag. *)
LEMMA FitsJmp ==
  ASSUME NEW N, NEW r, NEW L, NEW op, NEW id \in DOMAIN L, NEW U, NEW V, NEW b, NEW c,
         Parts(op, U, L[id], V)
  PROVE  Fits(N, r, L, Jmp(op, id), Stage(U, b, c), Stage(V, b, c))
BY StageIs DEF Fits, Jmp

(* An unconditional jump leaves nothing behind it. *)
LEMMA FitsGo ==
  ASSUME NEW N, NEW r, NEW L, NEW id \in DOMAIN L, NEW U, U \subseteq L[id], NEW V, NEW b, NEW c
  PROVE  Fits(N, r, L, Jmp("jmp", id), Stage(U, b, c), Stage(V, b, c))
<1>1. Parts("jmp", U, L[id], V)
  BY DEF Parts, Jumped
<1>2. QED
  BY <1>1, FitsJmp

(* Behind a label there are the states that come to it. *)
LEMMA FitsSet ==
  ASSUME NEW N, NEW r, NEW L, NEW id \in DOMAIN L, NEW U, U \subseteq L[id],
         NEW V, L[id] \subseteq V, NEW b, NEW c
  PROVE  Fits(N, r, L, Set(id), Stage(U, b, c), Stage(V, b, c))
BY StageIs DEF Fits, Set

(* Restoring the targets changes no state. *)
LEMMA FitsRestore ==
  ASSUME NEW N, NEW r, NEW L, NEW U, NEW V, U \subseteq V, NEW b, NEW c, NEW d, NEW e
  PROVE  Fits(N, r, L, Restore(b, c), Stage(U, d, e), Stage(V, b, c))
BY StageIs DEF Fits, Restore

(* A statement that is still to be generated takes the states at its entry *)
(* to its end.                                                             *)
LEMMA FitsStmt ==
  ASSUME NEW N, NEW r, NEW L, NEW n \in DOMAIN N, Root(N, n) = r,
         NEW U, U \subseteq On(N, At("enter", n)),
         NEW V, On(N, At("leave", n)) \subseteq V \/ n \in Leaving(N),
         NEW b, NEW c, Aims(N, L, n, b, c)
  PROVE  Fits(N, r, L, Stmt(n), Stage(U, b, c), Stage(V, b, c))
<1>1. FitsStatement(N, r, L, n, Stage(U, b, c), Stage(V, b, c))
  BY StageIs DEF FitsStatement
<1>2. QED
  BY <1>1, StageIs DEF Fits, Stmt

(* A case still to be tested sorts the states by the value. *)
LEMMA FitsTest ==
  ASSUME NEW N, NEW r, NEW L, NEW n, NEW id, NEW U, NEW V, NEW b, NEW c,
         IF N[n].k = "case" THEN id \in DOMAIN L /\ Sorts(N, n, U, L[id], V)
         ELSE U \subseteq V
  PROVE  Fits(N, r, L, Test(n, id), Stage(U, b, c), Stage(V, b, c))
BY StageIs DEF Fits, Test

(* An expression that may be missing. *)
LEMMA ChainEvalIf ==
  ASSUME NEW N, NEW r, NEW L, NEW q \in Points(N), NEW a, Evaluates(N, q) = a,
         NEW U, U \subseteq On(N, q), NEW b, NEW c
  PROVE  Chain(N, r, L, EvalIf(a), Stage(U, b, c),
               Stage(IF a = None THEN U ELSE Valued(N, q), b, c))
<1>1. CASE a = None
  BY <1>1, ChainNone DEF EvalIf
<1>2. CASE a # None
  <2>1. Fits(N, r, L, Eval(a), Stage(U, b, c), Stage(Valued(N, q), b, c))
    BY <1>2, FitsEval
  <2>2. QED
    BY <1>2, <2>1, ChainOne DEF EvalIf
<1>3. QED
  BY <1>1, <1>2

---------------------------------------------------------------------------
(* The statements in a statement: they are in the same function, and break *)
(* and continue mean what they did, but for loops and switches.            *)

(* A statement in another is in the same function, *)
LEMMA KidRoot ==
  ASSUME NEW N, Tree(N), NEW p \in DOMAIN N, NEW i \in DOMAIN N[p].kids
  PROVE  Root(N, N[p].kids[i]) = Root(N, p)
BY KidOf, RootOf

(* and what encloses it is that one, or what encloses that. *)
LEMMA KidEnclosing ==
  ASSUME NEW N, Tree(N), NEW p \in DOMAIN N, NEW i \in DOMAIN N[p].kids, NEW ks
  PROVE  Enclosing(N, N[p].kids[i], ks) = IF N[p].k \in ks THEN p ELSE Enclosing(N, p, ks)
BY KidOf, EnclosingOf

(* The targets of break and continue are the same in an if or a block, *)
LEMMA AimsKid ==
  ASSUME NEW N, Tree(N), NEW p \in DOMAIN N, NEW i \in DOMAIN N[p].kids,
         N[p].k \notin Loops \cup {"switch"}, NEW L, NEW b, NEW c, Aims(N, L, p, b, c)
  PROVE  Aims(N, L, N[p].kids[i], b, c)
<1>1. /\ Enclosing(N, N[p].kids[i], Loops \cup {"switch"}) = Enclosing(N, p, Loops \cup {"switch"})
      /\ Enclosing(N, N[p].kids[i], Loops) = Enclosing(N, p, Loops)
  BY KidEnclosing
<1>2. QED
  BY <1>1 DEF Aims

(* those of a loop in its body, *)
LEMMA AimsBody ==
  ASSUME NEW N, Tree(N), NEW p \in DOMAIN N, NEW i \in DOMAIN N[p].kids, N[p].k \in Loops,
         NEW L, NEW b \in DOMAIN L, On(N, At("leave", p)) \subseteq L[b],
         NEW c \in DOMAIN L, N[p].k # "do" => On(N, Goal(N, p)) \subseteq L[c]
  PROVE  Aims(N, L, N[p].kids[i], b, c)
<1>1. /\ Enclosing(N, N[p].kids[i], Loops \cup {"switch"}) = p
      /\ Enclosing(N, N[p].kids[i], Loops) = p
  BY KidEnclosing
<1>2. QED
  BY <1>1 DEF Aims

(* and in a switch break is its own and continue that around it. *)
LEMMA AimsSwitch ==
  ASSUME NEW N, Tree(N), NEW p \in DOMAIN N, NEW i \in DOMAIN N[p].kids, N[p].k = "switch",
         NEW L, NEW b \in DOMAIN L, On(N, At("leave", p)) \subseteq L[b],
         NEW a, NEW c, Aims(N, L, p, a, c)
  PROVE  Aims(N, L, N[p].kids[i], b, c)
<1>1. /\ Enclosing(N, N[p].kids[i], Loops \cup {"switch"}) = p
      /\ Enclosing(N, N[p].kids[i], Loops) = Enclosing(N, p, Loops)
  BY KidEnclosing DEF Loops
<1>2. QED
  BY <1>1 DEF Aims

(* They stay so with more labels. *)
LEMMA AimsMore ==
  ASSUME NEW N, NEW L, NEW M, Extends(L, M), NEW n, NEW b, NEW c, Aims(N, L, n, b, c)
  PROVE  Aims(N, M, n, b, c)
BY DEF Aims, Extends


---------------------------------------------------------------------------
(* Work that is written down item by item. *)

(* Two items, *)
LEMMA ChainTwo ==
  ASSUME NEW N, NEW r, NEW L, NEW a1, NEW a2,
         NEW e1, NEW e2, NEW e3,
         Fits(N, r, L, a1, e1, e2), Fits(N, r, L, a2, e2, e3)
  PROVE  Chain(N, r, L, <<a1, a2>>, e1, e3)
<1> DEFINE w == <<a1, a2>>
           p == [x \in 1 .. 3 |-> IF x = 1 THEN e1 ELSE IF x = 2 THEN e2 ELSE e3]
<1>1. p[1] = e1 /\ p[2] = e2 /\ p[3] = e3
  OBVIOUS
<1>2. w[1] = a1 /\ w[2] = a2
  OBVIOUS
<1>3. DOMAIN w = 1 .. 2 /\ Len(w) + 1 = 3
  OBVIOUS
<1>4. w \in Seq({a1, a2})
  OBVIOUS
<1> HIDE DEF w, p
<1>5. \A i \in DOMAIN w : i = 1 \/ i = 2
  BY <1>3
<1>6. \A i \in DOMAIN w : Fits(N, r, L, w[i], p[i], p[i + 1])
  BY <1>1, <1>2, <1>5
<1>7. Listed(w)
  BY <1>4, Zenon DEF Listed
<1>8. Chain(N, r, L, w, e1, e3)
  BY <1>1, <1>3, <1>6, <1>7 DEF Chain
<1>9. QED
  BY <1>8 DEF w

(* three, *)
LEMMA ChainThree ==
  ASSUME NEW N, NEW r, NEW L, NEW a1, NEW a2, NEW a3,
         NEW e1, NEW e2, NEW e3, NEW e4,
         Fits(N, r, L, a1, e1, e2), Fits(N, r, L, a2, e2, e3),
         Fits(N, r, L, a3, e3, e4)
  PROVE  Chain(N, r, L, <<a1, a2, a3>>, e1, e4)
<1> DEFINE w == <<a1, a2, a3>>
           p == [x \in 1 .. 4 |-> IF x = 1 THEN e1 ELSE IF x = 2 THEN e2 ELSE IF x = 3 THEN e3
                     ELSE e4]
<1>1. p[1] = e1 /\ p[2] = e2 /\ p[3] = e3 /\ p[4] = e4
  OBVIOUS
<1>2. w[1] = a1 /\ w[2] = a2 /\ w[3] = a3
  OBVIOUS
<1>3. DOMAIN w = 1 .. 3 /\ Len(w) + 1 = 4
  OBVIOUS
<1>4. w \in Seq({a1, a2, a3})
  OBVIOUS
<1> HIDE DEF w, p
<1>5. \A i \in DOMAIN w : i = 1 \/ i = 2 \/ i = 3
  BY <1>3
<1>6. \A i \in DOMAIN w : Fits(N, r, L, w[i], p[i], p[i + 1])
  BY <1>1, <1>2, <1>5
<1>7. Listed(w)
  BY <1>4, Zenon DEF Listed
<1>8. Chain(N, r, L, w, e1, e4)
  BY <1>1, <1>3, <1>6, <1>7 DEF Chain
<1>9. QED
  BY <1>8 DEF w

(* four, *)
LEMMA ChainFour ==
  ASSUME NEW N, NEW r, NEW L, NEW a1, NEW a2, NEW a3, NEW a4,
         NEW e1, NEW e2, NEW e3, NEW e4, NEW e5,
         Fits(N, r, L, a1, e1, e2), Fits(N, r, L, a2, e2, e3),
         Fits(N, r, L, a3, e3, e4), Fits(N, r, L, a4, e4, e5)
  PROVE  Chain(N, r, L, <<a1, a2, a3, a4>>, e1, e5)
<1> DEFINE w == <<a1, a2, a3, a4>>
           p == [x \in 1 .. 5 |-> IF x = 1 THEN e1 ELSE IF x = 2 THEN e2 ELSE IF x = 3 THEN e3
                     ELSE IF x = 4 THEN e4 ELSE e5]
<1>1. p[1] = e1 /\ p[2] = e2 /\ p[3] = e3 /\ p[4] = e4 /\ p[5] = e5
  OBVIOUS
<1>2. w[1] = a1 /\ w[2] = a2 /\ w[3] = a3 /\ w[4] = a4
  OBVIOUS
<1>3. DOMAIN w = 1 .. 4 /\ Len(w) + 1 = 5
  OBVIOUS
<1>4. w \in Seq({a1, a2, a3, a4})
  OBVIOUS
<1> HIDE DEF w, p
<1>5. \A i \in DOMAIN w : i = 1 \/ i = 2 \/ i = 3 \/ i = 4
  BY <1>3
<1>6. \A i \in DOMAIN w : Fits(N, r, L, w[i], p[i], p[i + 1])
  BY <1>1, <1>2, <1>5
<1>7. Listed(w)
  BY <1>4, Zenon DEF Listed
<1>8. Chain(N, r, L, w, e1, e5)
  BY <1>1, <1>3, <1>6, <1>7 DEF Chain
<1>9. QED
  BY <1>8 DEF w

(* six, *)
LEMMA ChainSix ==
  ASSUME NEW N, NEW r, NEW L, NEW a1, NEW a2, NEW a3, NEW a4, NEW a5, NEW a6,
         NEW e1, NEW e2, NEW e3, NEW e4, NEW e5, NEW e6, NEW e7,
         Fits(N, r, L, a1, e1, e2), Fits(N, r, L, a2, e2, e3),
         Fits(N, r, L, a3, e3, e4), Fits(N, r, L, a4, e4, e5),
         Fits(N, r, L, a5, e5, e6), Fits(N, r, L, a6, e6, e7)
  PROVE  Chain(N, r, L, <<a1, a2, a3, a4, a5, a6>>, e1, e7)
<1> DEFINE w == <<a1, a2, a3, a4, a5, a6>>
           p == [x \in 1 .. 7 |-> IF x = 1 THEN e1 ELSE IF x = 2 THEN e2 ELSE IF x = 3 THEN e3
                     ELSE IF x = 4 THEN e4 ELSE IF x = 5 THEN e5 ELSE IF x = 6
                     THEN e6 ELSE e7]
<1>1. p[1] = e1 /\ p[2] = e2 /\ p[3] = e3 /\ p[4] = e4 /\ p[5] = e5 /\ p[6] = e6 /\
     p[7] = e7
  OBVIOUS
<1>2. w[1] = a1 /\ w[2] = a2 /\ w[3] = a3 /\ w[4] = a4 /\ w[5] = a5 /\ w[6] = a6
  OBVIOUS
<1>3. DOMAIN w = 1 .. 6 /\ Len(w) + 1 = 7
  OBVIOUS
<1>4. w \in Seq({a1, a2, a3, a4, a5, a6})
  OBVIOUS
<1> HIDE DEF w, p
<1>5. \A i \in DOMAIN w : i = 1 \/ i = 2 \/ i = 3 \/ i = 4 \/ i = 5 \/ i = 6
  BY <1>3
<1>6. \A i \in DOMAIN w : Fits(N, r, L, w[i], p[i], p[i + 1])
  BY <1>1, <1>2, <1>5
<1>7. Listed(w)
  BY <1>4, Zenon DEF Listed
<1>8. Chain(N, r, L, w, e1, e7)
  BY <1>1, <1>3, <1>6, <1>7 DEF Chain
<1>9. QED
  BY <1>8 DEF w

(* and seven. *)
LEMMA ChainSeven ==
  ASSUME NEW N, NEW r, NEW L, NEW a1, NEW a2, NEW a3, NEW a4, NEW a5, NEW a6, NEW a7,
         NEW e1, NEW e2, NEW e3, NEW e4, NEW e5, NEW e6, NEW e7, NEW e8,
         Fits(N, r, L, a1, e1, e2), Fits(N, r, L, a2, e2, e3),
         Fits(N, r, L, a3, e3, e4), Fits(N, r, L, a4, e4, e5),
         Fits(N, r, L, a5, e5, e6), Fits(N, r, L, a6, e6, e7),
         Fits(N, r, L, a7, e7, e8)
  PROVE  Chain(N, r, L, <<a1, a2, a3, a4, a5, a6, a7>>, e1, e8)
<1> DEFINE w == <<a1, a2, a3, a4, a5, a6, a7>>
           p == [x \in 1 .. 8 |-> IF x = 1 THEN e1 ELSE IF x = 2 THEN e2 ELSE IF x = 3 THEN e3
                     ELSE IF x = 4 THEN e4 ELSE IF x = 5 THEN e5 ELSE IF x = 6
                     THEN e6 ELSE IF x = 7 THEN e7 ELSE e8]
<1>1. p[1] = e1 /\ p[2] = e2 /\ p[3] = e3 /\ p[4] = e4 /\ p[5] = e5 /\ p[6] = e6 /\
     p[7] = e7 /\ p[8] = e8
  OBVIOUS
<1>2. w[1] = a1 /\ w[2] = a2 /\ w[3] = a3 /\ w[4] = a4 /\ w[5] = a5 /\ w[6] = a6 /\
     w[7] = a7
  OBVIOUS
<1>3. DOMAIN w = 1 .. 7 /\ Len(w) + 1 = 8
  OBVIOUS
<1>4. w \in Seq({a1, a2, a3, a4, a5, a6, a7})
  OBVIOUS
<1> HIDE DEF w, p
<1>5. \A i \in DOMAIN w : i = 1 \/ i = 2 \/ i = 3 \/ i = 4 \/ i = 5 \/ i = 6 \/ i = 7
  BY <1>3
<1>6. \A i \in DOMAIN w : Fits(N, r, L, w[i], p[i], p[i + 1])
  BY <1>1, <1>2, <1>5
<1>7. Listed(w)
  BY <1>4, Zenon DEF Listed
<1>8. Chain(N, r, L, w, e1, e8)
  BY <1>1, <1>3, <1>6, <1>7 DEF Chain
<1>9. QED
  BY <1>8 DEF w

(* The statement to generate and its stages. *)
LEMMA FitsOfStmt ==
  ASSUME NEW N, NEW r, NEW L, NEW n, NEW e, NEW f, Fits(N, r, L, Stmt(n), e, f)
  PROVE  /\ e = Stage(e.set, e.brk, e.cont) /\ f = Stage(f.set, e.brk, e.cont)
         /\ n \in DOMAIN N /\ Root(N, n) = r
         /\ e.set \subseteq On(N, At("enter", n))
         /\ On(N, At("leave", n)) \subseteq f.set \/ n \in Leaving(N)
         /\ Aims(N, L, n, e.brk, e.cont)
<1>1. Stmt(n).do = "stmt" /\ Stmt(n).n = n
  BY DEF Stmt
<1>2. FitsStatement(N, r, L, n, e, f) /\ f.brk = e.brk /\ f.cont = e.cont
  BY <1>1 DEF Fits
<1>3. e = Stage(e.set, e.brk, e.cont) /\ f = Stage(f.set, f.brk, f.cont)
  BY Zenon DEF Fits
<1>4. QED
  BY <1>2, <1>3 DEF FitsStatement

(* The statements whose end is not reached. *)
LEMMA LeavingIs ==
  ASSUME NEW N, Tree(N), NEW n \in Leaving(N)
  PROVE  \/ N[n].k \in Jumping
         \/ /\ N[n].k = "block" /\ N[n].kids # <<>>
            /\ LastKid(N, n) \in Leaving(N)
<1> DEFINE Closed(S) == \A m \in DOMAIN N :
             (\/ N[m].k \in Jumping
              \/ N[m].k = "block" /\ N[m].kids # <<>> /\ LastKid(N, m) \in S)
             => m \in S
           T == {m \in Leaving(N) : \/ N[m].k \in Jumping
                                    \/ /\ N[m].k = "block" /\ N[m].kids # <<>>
                                       /\ LastKid(N, m) \in Leaving(N)}
<1>1. \A m \in DOMAIN N : m \in Leaving(N) <=> \A S \in SUBSET DOMAIN N : Closed(S) => m \in S
  BY DEF Leaving
<1>2. Leaving(N) \subseteq DOMAIN N
  BY DEF Leaving
<1>3. Closed(T)
  <2> SUFFICES ASSUME NEW m \in DOMAIN N,
                      \/ N[m].k \in Jumping
                      \/ N[m].k = "block" /\ N[m].kids # <<>> /\ LastKid(N, m) \in T
               PROVE  m \in T
    OBVIOUS
  <2>1. ASSUME NEW S \in SUBSET DOMAIN N, Closed(S) PROVE m \in S
    <3>1. T \subseteq S
      BY <1>1, <1>2, <2>1
    <3>2. QED
      BY <2>1, <3>1
  <2>2. m \in Leaving(N)
    BY <1>1, <2>1
  <2>3. QED
    BY <2>2
<1>4. T \in SUBSET DOMAIN N
  BY <1>2
<1> HIDE DEF Closed, T
<1>5. n \in T
  BY <1>1, <1>2, <1>3, <1>4
<1>6. QED
  BY <1>5 DEF T


---------------------------------------------------------------------------
(* What the statements leave to do does what C says of them. *)

(* The work may be entered in any of the states U. *)
Runs(N, r, L, w, U, b, c, f) ==
  \E W : U \subseteq W /\ Chain(N, r, L, w, Stage(W, b, c), f)

(* Statement n may be entered in the states U, and what is behind it in V. *)
Placed(N, L, n, U, b, c, V) ==
  /\ U \subseteq On(N, At("enter", n))
  /\ On(N, At("leave", n)) \subseteq V \/ n \in Leaving(N)
  /\ Aims(N, L, n, b, c)

(* The sign of a value is zero, below or above as the value is. *)
LEMMA SignIs == \A v \in Int : Sign(v) \in Signs /\ (Sign(v) = 0 <=> v = 0)
                               /\ (Sign(v) < 0 <=> v < 0) /\ (Sign(v) > 0 <=> v > 0)
BY DEF Sign, Signs

(* Where control goes for each value. *)
LEMMA ValuedTo ==
  ASSUME NEW N, NEW q, NEW p \in Points(N), \A v \in Values : OnValue(N, q, v) = p
  PROVE  Valued(N, q) \subseteq On(N, p)
<1> SUFFICES ASSUME NEW v \in Values
             PROVE  Now(OnValue(N, q, v), v, Sign(v), <<>>) \in On(N, p)
  BY DEF Valued
<1>1. v \in Int /\ Sign(v) \in Signs
  BY ValuesAssumption, SignIs
<1>2. QED
  BY <1>1, OnAt

(* Where a value leads, for each kind of statement. *)
LEMMA OnValueIs ==
  ASSUME NEW N, NEW n
  PROVE  LET x == N[n]
         IN  /\ \A v : x.k = "return" => OnValue(N, At("enter", n), v) = At("ret", n)
             /\ \A v : x.k = "expr" => OnValue(N, At("enter", n), v) = At("leave", n)
             /\ \A v : OnValue(N, At("init", n), v) = At("test", n)
             /\ \A v : OnValue(N, At("step", n), v) = At("test", n)
             /\ \A v : x.k = "switch" => OnValue(N, At("test", n), v) = Takes(N, n, v)
             /\ \A v : x.k \in Loops \cup {"if"} /\ v # 0 =>
                         OnValue(N, At("test", n), v) = At("enter", x.kids[1])
             /\ \A v : x.k = "if" /\ v = 0 =>
                         OnValue(N, At("test", n), v) = IF Len(x.kids) = 2 THEN At("enter", x.kids[2])
                                                        ELSE At("leave", n)
             /\ \A v : x.k \in Loops /\ v = 0 =>
                         OnValue(N, At("test", n), v) = At("leave", n)
BY DEF OnValue, At, Loops

(* A condition that does not hold, *)
LEMMA TestSplits ==
  ASSUME NEW N, NEW n \in DOMAIN N, NEW p \in Points(N), NEW q \in Points(N),
         \A v : v # 0 => OnValue(N, At("test", n), v) = p,
         \A v : v = 0 => OnValue(N, At("test", n), v) = q
  PROVE  /\ Parts("jz", Valued(N, At("test", n)), On(N, q), On(N, p))
         /\ Parts("jnz", Valued(N, At("test", n)), On(N, p), On(N, q))
<1> SUFFICES ASSUME NEW s \in Valued(N, At("test", n))
             PROVE  /\ IF Jumped("jz", s.flag) THEN s \in On(N, q) ELSE s \in On(N, p)
                    /\ IF Jumped("jnz", s.flag) THEN s \in On(N, p) ELSE s \in On(N, q)
  BY DEF Parts
<1>1. PICK v \in Values : s = Now(OnValue(N, At("test", n), v), v, Sign(v), <<>>)
  BY DEF Valued
<1>2. v \in Int /\ Sign(v) \in Signs /\ (Sign(v) = 0 <=> v = 0)
  BY ValuesAssumption, SignIs
<1>3. s.flag = Sign(v)
  BY <1>1 DEF Now
<1>4. Jumped("jz", s.flag) <=> v = 0
  BY <1>2, <1>3 DEF Jumped
<1>5. Jumped("jnz", s.flag) <=> v # 0
  BY <1>2, <1>3 DEF Jumped
<1>6. v # 0 => s \in On(N, p)
  BY <1>1, <1>2, OnAt
<1>7. v = 0 => s \in On(N, q)
  BY <1>1, <1>2, OnAt
<1>8. QED
  BY <1>4, <1>5, <1>6, <1>7

(* Statements other than jumps and blocks are left at their end. *)
LEMMA Left ==
  ASSUME NEW N, Tree(N), NEW L, NEW n \in DOMAIN N, NEW U, NEW b, NEW c, NEW V,
         Placed(N, L, n, U, b, c, V), N[n].k \notin Jumping, N[n].k # "block" \/ N[n].kids = <<>>
  PROVE  On(N, At("leave", n)) \subseteq V
BY LeavingIs DEF Placed

(* No work runs from what there is, *)
LEMMA RunsNone ==
  ASSUME NEW N, NEW r, NEW L, NEW U, NEW b, NEW c, NEW V, U \subseteq V
  PROVE  Runs(N, r, L, <<>>, U, b, c, Stage(V, b, c))
BY ChainNone DEF Runs

(* and a chain runs from its first stage. *)
LEMMA RunsChain ==
  ASSUME NEW N, NEW r, NEW L, NEW w, NEW U, NEW b, NEW c, NEW f,
         Chain(N, r, L, w, Stage(U, b, c), f)
  PROVE  Runs(N, r, L, w, U, b, c, f)
BY DEF Runs

(* An expression statement. *)
LEMMA ExprRuns ==
  ASSUME NEW N, Tree(N), NEW L, NEW n \in DOMAIN N, NEW U, NEW b, NEW c, NEW V,
         Placed(N, L, n, U, b, c, V), N[n].k = "expr"
  PROVE  Runs(N, Root(N, n), L, EvalIf(N[n].a), U, b, c, Stage(V, b, c))
<1> DEFINE q == At("enter", n)
<1>1. U \subseteq On(N, q) /\ On(N, At("leave", n)) \subseteq V
  BY Left DEF Placed, Jumping
<1>2. CASE N[n].a = None
  <2>1. U \subseteq V
    BY <1>1, <1>2, EnterNothing DEF Nothing1
  <2>2. QED
    BY <1>2, <2>1, RunsNone DEF EvalIf
<1>3. CASE N[n].a # None
  <2>1. q \in Points(N) /\ At("leave", n) \in Points(N) /\ Evaluates(N, q) = N[n].a
    BY PointsAre, Seen
  <2>2. Valued(N, q) \subseteq V
    BY <1>1, <2>1, ValuedTo, OnValueIs
  <2> HIDE DEF q
  <2>3. Fits(N, Root(N, n), L, Eval(N[n].a), Stage(U, b, c), Stage(V, b, c))
    BY <1>1, <1>3, <2>1, <2>2, FitsEval
  <2>4. QED
    BY <1>3, <2>3, ChainOne, RunsChain DEF EvalIf
<1>4. QED
  BY <1>2, <1>3

(* A return; what is behind it does not matter. *)
LEMMA ReturnRuns ==
  ASSUME NEW N, Tree(N), NEW L, NEW n \in DOMAIN N, NEW U, NEW b, NEW c, NEW V,
         Placed(N, L, n, U, b, c, V), N[n].k = "return"
  PROVE  Runs(N, Root(N, n), L, EvalIf(N[n].a) \o <<Epilogue>>, U, b, c, Stage(V, b, c))
<1> DEFINE q == At("enter", n)
           W == IF N[n].a = None THEN U ELSE Valued(N, q)
<1>1. U \subseteq On(N, q)
  BY DEF Placed
<1>2. q \in Points(N) /\ At("ret", n) \in Points(N) /\ Evaluates(N, q) = N[n].a
  BY PointsAre, Seen
<1>3. W \subseteq On(N, At("ret", n))
  <2>1. CASE N[n].a = None
    BY <1>1, <2>1, EnterReturn
  <2>2. CASE N[n].a # None
    BY <1>2, <2>2, ValuedTo, OnValueIs
  <2>3. QED
    BY <2>1, <2>2
<1>4. Chain(N, Root(N, n), L, EvalIf(N[n].a), Stage(U, b, c), Stage(W, b, c))
  <2> HIDE DEF q
  <2>1. QED
    BY <1>1, <1>2, ChainEvalIf
<1>5. At("ret", n)[1] = "ret"
  BY DEF At
<1> HIDE DEF W
<1>6. Fits(N, Root(N, n), L, Epilogue, Stage(W, b, c), Stage(V, b, c))
  BY <1>2, <1>3, <1>5, FitsReturn
<1>7. QED
  BY <1>4, <1>6, ChainOne, ChainJoin, RunsChain

(* A block: each statement leads to the next one. *)
LEMMA BlockRuns ==
  ASSUME NEW N, Tree(N), NEW L, NEW n \in DOMAIN N, NEW U, NEW b, NEW c, NEW V,
         Placed(N, L, n, U, b, c, V), N[n].k = "block"
  PROVE  Runs(N, Root(N, n), L, Stmts(N[n].kids), U, b, c, Stage(V, b, c))
<1> DEFINE kids == N[n].kids
           w == Stmts(kids)
<1>0. kids \in Seq(DOMAIN N) /\ Len(kids) \in Nat /\ DOMAIN kids = 1 .. Len(kids)
  <2>1. kids \in Seq(DOMAIN N)
    BY DEF Tree
  <2>2. QED
    BY <2>1
<1>1. CASE kids = <<>>
  <2>1. U \subseteq V
    BY <1>1, Left, EnterEmpty DEF Placed, Jumping
  <2>2. w = <<>>
    <3>1. w = [i \in {} |-> Stmt(kids[i])]
      BY <1>1 DEF Stmts
    <3>2. QED
      BY <3>1
  <2>3. QED
    BY <2>1, <2>2, RunsNone
<1>2. CASE kids # <<>>
  <2> DEFINE p == [i \in 1 .. Len(kids) + 1 |->
                     Stage(IF i \in DOMAIN kids THEN On(N, At("enter", kids[i])) ELSE V, b, c)]
  <2>1. U \subseteq On(N, At("enter", kids[1]))
    BY <1>2, EnterFirst DEF Placed
  <2>2. 1 \in DOMAIN kids /\ Len(kids) \in DOMAIN kids
    BY <1>0, <1>2
  <2>3. Listed(w) /\ DOMAIN w = DOMAIN kids /\ Len(w) = Len(kids)
        /\ \A i \in DOMAIN kids : w[i] = Stmt(kids[i])
    <3>1. w \in Seq({Stmt(m) : m \in DOMAIN N})
      BY <1>0 DEF Stmts
    <3>2. DOMAIN w = DOMAIN kids /\ Len(w) = Len(kids) /\ \A i \in DOMAIN kids : w[i] = Stmt(kids[i])
      BY <1>0 DEF Stmts
    <3>3. QED
      BY <3>1, <3>2 DEF Listed
  <2>4. ASSUME NEW i \in DOMAIN kids
        PROVE  Fits(N, Root(N, n), L, Stmt(kids[i]), p[i], p[i + 1])
    <3> DEFINE W == IF i + 1 \in DOMAIN kids THEN On(N, At("enter", kids[i + 1])) ELSE V
    <3>1. p[i] = Stage(On(N, At("enter", kids[i])), b, c) /\ p[i + 1] = Stage(W, b, c)
      BY <1>0
    <3>2. kids[i] \in DOMAIN N /\ Root(N, kids[i]) = Root(N, n)
      BY KidOf, KidRoot
    <3>3. Aims(N, L, kids[i], b, c)
      BY AimsKid DEF Placed, Loops
    <3>4. On(N, At("leave", kids[i])) \subseteq W \/ kids[i] \in Leaving(N)
      <4>1. CASE i < Len(kids)
        <5>1. On(N, At("leave", kids[i])) \subseteq On(N, At("enter", kids[i + 1]))
          BY <4>1, Leave
        <5>2. i + 1 \in DOMAIN kids
          BY <1>0, <4>1
        <5>3. QED
          BY <5>1, <5>2
      <4>2. CASE ~(i < Len(kids))
        <5>1. i = Len(kids) /\ i + 1 \notin DOMAIN kids
          BY <1>0, <4>2
        <5>2. On(N, At("leave", kids[i])) \subseteq On(N, At("leave", n))
          BY <4>2, Leave
        <5>3. n \in Leaving(N) => kids[i] \in Leaving(N)
          BY <5>1, LeavingIs DEF LastKid, Jumping
        <5>4. QED
          BY <5>1, <5>2, <5>3 DEF Placed
      <4>3. QED
        BY <4>1, <4>2
    <3> HIDE DEF p, W
    <3>5. QED
      BY <3>1, <3>2, <3>3, <3>4, FitsStmt
  <2>5. p[1] = Stage(On(N, At("enter", kids[1])), b, c) /\ p[Len(kids) + 1] = Stage(V, b, c)
    BY <1>0, <2>2
  <2> HIDE DEF p, w
  <2>6. Chain(N, Root(N, n), L, w, Stage(On(N, At("enter", kids[1])), b, c), Stage(V, b, c))
    BY <2>3, <2>4, <2>5 DEF Chain
  <2>7. QED
    BY <2>1, <2>6 DEF Runs, w
<1>3. QED
  BY <1>1, <1>2


(* An if with an else. *)
LEMMA IfElseRuns ==
  ASSUME NEW N, Tree(N), NEW L, NEW n \in DOMAIN N, NEW U, NEW b, NEW c, NEW V,
         Placed(N, L, n, U, b, c, V), N[n].k = "if", N[n].a # None, Len(N[n].kids) = 2,
         NEW else \in DOMAIN L, L[else] = On(N, At("enter", N[n].kids[2])),
         NEW end \in DOMAIN L, L[end] = On(N, At("leave", n))
  PROVE  Runs(N, Root(N, n), L,
              <<Eval(N[n].a), Jmp("jz", else), Stmt(N[n].kids[1])>>
              \o <<Jmp("jmp", end), Set(else), Stmt(N[n].kids[2]), Set(end)>>,
              U, b, c, Stage(V, b, c))
<1> DEFINE r  == Root(N, n)
           t  == At("test", n)
           k1 == N[n].kids[1]
           k2 == N[n].kids[2]
           left == On(N, At("leave", n))
           S(W) == Stage(W, b, c)
<1>1. 1 \in DOMAIN N[n].kids /\ 2 \in DOMAIN N[n].kids
  <2>1. N[n].kids \in Seq(DOMAIN N)
    BY DEF Tree
  <2>2. QED
    BY <2>1
<1>2. k1 \in DOMAIN N /\ k2 \in DOMAIN N
  BY <1>1, KidOf
<1>3. Root(N, k1) = r /\ Root(N, k2) = r
  BY <1>1, KidRoot
<1>4. Aims(N, L, k1, b, c) /\ Aims(N, L, k2, b, c)
  BY <1>1, AimsKid DEF Placed, Loops
<1>5. On(N, At("leave", k1)) \subseteq left /\ On(N, At("leave", k2)) \subseteq left
  BY <1>1, Leave
<1>6. U \subseteq On(N, t) /\ left \subseteq V
  BY Left, EnterTest DEF Placed, Jumping
<1>7. /\ t \in Points(N) /\ At("enter", k1) \in Points(N) /\ At("enter", k2) \in Points(N)
      /\ Evaluates(N, t) = N[n].a
  BY <1>2, PointsAre, Seen
<1>8. Parts("jz", Valued(N, t), L[else], On(N, At("enter", k1)))
  <2>1. \A v : v # 0 => OnValue(N, t, v) = At("enter", k1)
    BY OnValueIs
  <2>2. \A v : v = 0 => OnValue(N, t, v) = At("enter", k2)
    BY OnValueIs
  <2>3. QED
    BY <1>7, <2>1, <2>2, TestSplits
<1> HIDE DEF k1, k2, t, left
<1>9. Fits(N, r, L, Eval(N[n].a), S(U), S(Valued(N, t)))
  BY <1>6, <1>7, FitsEval
<1>10. Fits(N, r, L, Jmp("jz", else), S(Valued(N, t)), S(On(N, At("enter", k1))))
  BY <1>8, FitsJmp
<1>11. Fits(N, r, L, Stmt(k1), S(On(N, At("enter", k1))), S(left))
  BY <1>2, <1>3, <1>4, <1>5, FitsStmt
<1>12. Fits(N, r, L, Jmp("jmp", end), S(left), S({}))
  BY FitsGo DEF left
<1>13. Fits(N, r, L, Set(else), S({}), S(On(N, At("enter", k2))))
  BY FitsSet DEF k2
<1>14. Fits(N, r, L, Stmt(k2), S(On(N, At("enter", k2))), S(left))
  BY <1>2, <1>3, <1>4, <1>5, FitsStmt
<1>15. Fits(N, r, L, Set(end), S(left), S(V))
  BY <1>6, FitsSet DEF left
<1> HIDE DEF S
<1>16. Chain(N, r, L, <<Eval(N[n].a), Jmp("jz", else), Stmt(k1)>>, S(U), S(left))
  BY <1>9, <1>10, <1>11, ChainThree
<1>17. Chain(N, r, L, <<Jmp("jmp", end), Set(else), Stmt(k2), Set(end)>>, S(left), S(V))
  BY <1>12, <1>13, <1>14, <1>15, ChainFour
<1>18. QED
  BY <1>16, <1>17, ChainJoin, RunsChain DEF k1, k2, S

(* An if without. *)
LEMMA IfRuns ==
  ASSUME NEW N, Tree(N), NEW L, NEW n \in DOMAIN N, NEW U, NEW b, NEW c, NEW V,
         Placed(N, L, n, U, b, c, V), N[n].k = "if", N[n].a # None, Len(N[n].kids) = 1,
         NEW else \in DOMAIN L, L[else] = On(N, At("leave", n))
  PROVE  Runs(N, Root(N, n), L,
              <<Eval(N[n].a), Jmp("jz", else), Stmt(N[n].kids[1])>> \o <<Set(else)>>,
              U, b, c, Stage(V, b, c))
<1> DEFINE r  == Root(N, n)
           t  == At("test", n)
           k1 == N[n].kids[1]
           left == On(N, At("leave", n))
           S(W) == Stage(W, b, c)
<1>1. 1 \in DOMAIN N[n].kids
  <2>1. N[n].kids \in Seq(DOMAIN N)
    BY DEF Tree
  <2>2. QED
    BY <2>1
<1>2. k1 \in DOMAIN N /\ Root(N, k1) = r /\ Aims(N, L, k1, b, c)
  BY <1>1, KidOf, KidRoot, AimsKid DEF Placed, Loops
<1>3. On(N, At("leave", k1)) \subseteq left
  BY <1>1, Leave
<1>4. U \subseteq On(N, t) /\ left \subseteq V
  BY Left, EnterTest DEF Placed, Jumping
<1>5. /\ t \in Points(N) /\ At("enter", k1) \in Points(N) /\ At("leave", n) \in Points(N)
      /\ Evaluates(N, t) = N[n].a
  BY <1>2, PointsAre, Seen
<1>6. Parts("jz", Valued(N, t), L[else], On(N, At("enter", k1)))
  <2>1. \A v : v # 0 => OnValue(N, t, v) = At("enter", k1)
    BY OnValueIs
  <2>2. \A v : v = 0 => OnValue(N, t, v) = At("leave", n)
    BY OnValueIs
  <2>3. QED
    BY <1>5, <2>1, <2>2, TestSplits
<1> HIDE DEF k1, t, left
<1>7. Fits(N, r, L, Eval(N[n].a), S(U), S(Valued(N, t)))
  BY <1>4, <1>5, FitsEval
<1>8. Fits(N, r, L, Jmp("jz", else), S(Valued(N, t)), S(On(N, At("enter", k1))))
  BY <1>6, FitsJmp
<1>9. Fits(N, r, L, Stmt(k1), S(On(N, At("enter", k1))), S(left))
  BY <1>2, <1>3, FitsStmt
<1>10. Fits(N, r, L, Set(else), S(left), S(V))
  BY <1>4, FitsSet DEF left
<1> HIDE DEF S
<1>11. Chain(N, r, L, <<Eval(N[n].a), Jmp("jz", else), Stmt(k1)>>, S(U), S(left))
  BY <1>7, <1>8, <1>9, ChainThree
<1>12. Chain(N, r, L, <<Set(else)>>, S(left), S(V))
  BY <1>10, ChainOne
<1>13. QED
  BY <1>11, <1>12, ChainJoin, RunsChain DEF k1, S

(* The body of a loop. *)
LEMMA LoopBody ==
  ASSUME NEW N, Tree(N), NEW L, NEW n \in DOMAIN N, NEW U, NEW b, NEW c, NEW V,
         Placed(N, L, n, U, b, c, V), N[n].k \in Loops, Len(N[n].kids) = 1,
         NEW end \in DOMAIN L, L[end] = On(N, At("leave", n)),
         NEW again \in DOMAIN L, N[n].k # "do" => L[again] = On(N, Goal(N, n))
  PROVE  LET k1 == N[n].kids[1]
         IN  /\ k1 \in DOMAIN N /\ Root(N, k1) = Root(N, n) /\ Aims(N, L, k1, end, again)
             /\ On(N, At("leave", n)) \subseteq V
             /\ At("test", n) \in Points(N) /\ Evaluates(N, At("test", n)) = N[n].a
             /\ At("enter", k1) \in Points(N) /\ At("leave", n) \in Points(N)
             /\ Parts("jz", Valued(N, At("test", n)), L[end], On(N, At("enter", k1)))
             /\ Parts("jnz", Valued(N, At("test", n)), On(N, At("enter", k1)), L[end])
<1> DEFINE k1 == N[n].kids[1]
<1>1. 1 \in DOMAIN N[n].kids
  <2>1. N[n].kids \in Seq(DOMAIN N)
    BY DEF Tree
  <2>2. QED
    BY <2>1
<1>2. k1 \in DOMAIN N /\ Root(N, k1) = Root(N, n)
  BY <1>1, KidOf, KidRoot
<1>3. Aims(N, L, k1, end, again)
  BY <1>1, AimsBody
<1>4. On(N, At("leave", n)) \subseteq V
  BY Left DEF Jumping, Loops
<1>5. /\ At("test", n) \in Points(N) /\ Evaluates(N, At("test", n)) = N[n].a
      /\ At("enter", k1) \in Points(N) /\ At("leave", n) \in Points(N)
  BY <1>2, PointsAre, Seen
<1>6. \A v : v # 0 => OnValue(N, At("test", n), v) = At("enter", k1)
  BY OnValueIs
<1>7. \A v : v = 0 => OnValue(N, At("test", n), v) = At("leave", n)
  BY OnValueIs
<1> HIDE DEF k1
<1>8. /\ Parts("jz", Valued(N, At("test", n)), L[end], On(N, At("enter", k1)))
      /\ Parts("jnz", Valued(N, At("test", n)), On(N, At("enter", k1)), L[end])
  BY <1>5, <1>6, <1>7, TestSplits
<1>9. QED
  BY <1>2, <1>3, <1>4, <1>5, <1>8 DEF k1

(* A while. *)
LEMMA WhileRuns ==
  ASSUME NEW N, Tree(N), NEW L, NEW n \in DOMAIN N, NEW U, NEW b, NEW c, NEW V,
         Placed(N, L, n, U, b, c, V), N[n].k = "while", N[n].a # None, Len(N[n].kids) = 1,
         NEW start \in DOMAIN L, L[start] = On(N, At("test", n)),
         NEW end \in DOMAIN L, L[end] = On(N, At("leave", n))
  PROVE  Runs(N, Root(N, n), L,
              <<Set(start), Eval(N[n].a), Jmp("jz", end), Stmt(N[n].kids[1]),
                Jmp("jmp", start), Set(end), Restore(b, c)>>,
              U, end, start, Stage(V, b, c))
<1> DEFINE r  == Root(N, n)
           t  == At("test", n)
           k1 == N[n].kids[1]
           S(W) == Stage(W, end, start)
           tested == On(N, t)
           left == On(N, At("leave", n))
           body == On(N, At("enter", k1))
<1>0. Goal(N, n) = t /\ N[n].k \in Loops
  BY DEF Goal, Loops
<1>1. 1 \in DOMAIN N[n].kids
  <2>1. N[n].kids \in Seq(DOMAIN N)
    BY DEF Tree
  <2>2. QED
    BY <2>1
<1>2. /\ k1 \in DOMAIN N /\ Root(N, k1) = r /\ Aims(N, L, k1, end, start)
      /\ left \subseteq V /\ t \in Points(N) /\ Evaluates(N, t) = N[n].a
      /\ Parts("jz", Valued(N, t), L[end], body)
  BY <1>0, LoopBody
<1>3. On(N, At("leave", k1)) \subseteq tested
  BY <1>1, Leave
<1>4. U \subseteq tested
  BY EnterTest DEF Placed
<1> HIDE DEF k1, t, tested, left, body
<1>5. Fits(N, r, L, Set(start), S(U), S(tested))
  BY <1>4, FitsSet DEF tested, t
<1>6. Fits(N, r, L, Eval(N[n].a), S(tested), S(Valued(N, t)))
  BY <1>2, FitsEval DEF tested
<1>7. Fits(N, r, L, Jmp("jz", end), S(Valued(N, t)), S(body))
  BY <1>2, FitsJmp
<1>8. Fits(N, r, L, Stmt(k1), S(body), S(tested))
  BY <1>2, <1>3, FitsStmt DEF body
<1>9. Fits(N, r, L, Jmp("jmp", start), S(tested), S({}))
  BY FitsGo DEF tested, t
<1>10. Fits(N, r, L, Set(end), S({}), S(V))
  BY <1>2, FitsSet DEF left
<1>11. Fits(N, r, L, Restore(b, c), S(V), Stage(V, b, c))
  BY FitsRestore
<1> HIDE DEF S
<1>12. Chain(N, r, L, <<Set(start), Eval(N[n].a), Jmp("jz", end), Stmt(k1),
                        Jmp("jmp", start), Set(end), Restore(b, c)>>, S(U), Stage(V, b, c))
  BY <1>5, <1>6, <1>7, <1>8, <1>9, <1>10, <1>11, ChainSeven
<1>13. QED
  BY <1>12, RunsChain DEF k1, S

(* A do; a continue in one is not ordinary. *)
LEMMA DoRuns ==
  ASSUME NEW N, Tree(N), NEW L, NEW n \in DOMAIN N, NEW U, NEW b, NEW c, NEW V,
         Placed(N, L, n, U, b, c, V), N[n].k = "do", N[n].a # None, Len(N[n].kids) = 1,
         NEW start \in DOMAIN L, L[start] = On(N, At("enter", N[n].kids[1])),
         NEW end \in DOMAIN L, L[end] = On(N, At("leave", n))
  PROVE  Runs(N, Root(N, n), L,
              <<Set(start), Stmt(N[n].kids[1]), Eval(N[n].a), Jmp("jnz", start),
                Set(end), Restore(b, c)>>,
              U, end, start, Stage(V, b, c))
<1> DEFINE r  == Root(N, n)
           t  == At("test", n)
           k1 == N[n].kids[1]
           S(W) == Stage(W, end, start)
           left == On(N, At("leave", n))
           body == On(N, At("enter", k1))
<1>0. N[n].k \in Loops
  BY DEF Loops
<1>1. 1 \in DOMAIN N[n].kids /\ N[n].kids # <<>>
  <2>1. N[n].kids \in Seq(DOMAIN N)
    BY DEF Tree
  <2>2. QED
    BY <2>1
<1>2. /\ k1 \in DOMAIN N /\ Root(N, k1) = r /\ Aims(N, L, k1, end, start)
      /\ left \subseteq V /\ t \in Points(N) /\ Evaluates(N, t) = N[n].a
      /\ Parts("jnz", Valued(N, t), body, L[end])
  BY <1>0, LoopBody
<1>3. On(N, At("leave", k1)) \subseteq On(N, t)
  BY <1>1, Leave
<1>4. U \subseteq body
  BY <1>1, EnterFirst DEF Placed
<1>5. L[start] = body
  OBVIOUS
<1>6. L[end] = left
  OBVIOUS
<1> HIDE DEF k1, t, left, body
<1>7. Fits(N, r, L, Set(start), S(U), S(body))
  BY <1>4, <1>5, FitsSet
<1>8. Fits(N, r, L, Stmt(k1), S(body), S(On(N, t)))
  BY <1>2, <1>3, FitsStmt DEF body
<1>9. Fits(N, r, L, Eval(N[n].a), S(On(N, t)), S(Valued(N, t)))
  BY <1>2, FitsEval
<1>10. Fits(N, r, L, Jmp("jnz", start), S(Valued(N, t)), S(left))
  BY <1>2, <1>5, <1>6, FitsJmp
<1>11. Fits(N, r, L, Set(end), S(left), S(V))
  BY <1>2, <1>6, FitsSet
<1>12. Fits(N, r, L, Restore(b, c), S(V), Stage(V, b, c))
  BY FitsRestore
<1> HIDE DEF S
<1>13. Chain(N, r, L, <<Set(start), Stmt(k1), Eval(N[n].a), Jmp("jnz", start),
                        Set(end), Restore(b, c)>>, S(U), Stage(V, b, c))
  BY <1>7, <1>8, <1>9, <1>10, <1>11, <1>12, ChainSix
<1>14. QED
  BY <1>13, RunsChain DEF k1, S


(* A for; its parts may be missing. *)
LEMMA ForRuns ==
  ASSUME NEW N, Tree(N), NEW L, NEW n \in DOMAIN N, NEW U, NEW b, NEW c, NEW V,
         Placed(N, L, n, U, b, c, V), N[n].k = "for", Len(N[n].kids) = 1,
         NEW start \in DOMAIN L, L[start] = On(N, At("test", n)),
         NEW end \in DOMAIN L, L[end] = On(N, At("leave", n)),
         NEW step \in DOMAIN L, L[step] = On(N, At("step", n))
  PROVE  Runs(N, Root(N, n), L,
              EvalIf(N[n].init) \o <<Set(start)>> \o EvalIf(N[n].a)
              \o (IF N[n].a = None THEN <<>> ELSE <<Jmp("jz", end)>>)
              \o <<Stmt(N[n].kids[1]), Set(step)>> \o EvalIf(N[n].step)
              \o <<Jmp("jmp", start), Set(end), Restore(b, c)>>,
              U, end, step, Stage(V, b, c))
<1> DEFINE r  == Root(N, n)
           t  == At("test", n)
           i  == At("init", n)
           p  == At("step", n)
           k1 == N[n].kids[1]
           S(W) == Stage(W, end, step)
           tested == On(N, t)
           stepped == On(N, p)
           left == On(N, At("leave", n))
           body == On(N, At("enter", k1))
           W1 == IF N[n].init = None THEN U ELSE Valued(N, i)
           W2 == IF N[n].a = None THEN tested ELSE Valued(N, t)
           W3 == IF N[n].a = None THEN tested ELSE body
           W4 == IF N[n].step = None THEN stepped ELSE Valued(N, p)
           exit == IF N[n].a = None THEN <<>> ELSE <<Jmp("jz", end)>>
<1>0. Goal(N, n) = p /\ N[n].k \in Loops
  BY DEF Goal, Loops
<1>1. 1 \in DOMAIN N[n].kids
  <2>1. N[n].kids \in Seq(DOMAIN N)
    BY DEF Tree
  <2>2. QED
    BY <2>1
<1>2. /\ k1 \in DOMAIN N /\ Root(N, k1) = r /\ Aims(N, L, k1, end, step)
      /\ left \subseteq V /\ t \in Points(N) /\ Evaluates(N, t) = N[n].a
      /\ Parts("jz", Valued(N, t), L[end], body)
  BY <1>0, LoopBody
<1>3. On(N, At("leave", k1)) \subseteq stepped
  BY <1>1, Leave
<1>4. U \subseteq On(N, i)
  BY EnterTest DEF Placed
<1>5. /\ i \in Points(N) /\ p \in Points(N)
      /\ Evaluates(N, i) = N[n].init /\ Evaluates(N, p) = N[n].step
  BY PointsAre, Seen
<1>6. W1 \subseteq tested
  <2>1. Valued(N, i) \subseteq tested
    BY <1>2, ValuedTo, OnValueIs
  <2>2. N[n].init = None => On(N, i) \subseteq tested
    BY Missing
  <2>3. QED
    BY <1>4, <2>1, <2>2
<1>7. W4 \subseteq tested
  <2>1. Valued(N, p) \subseteq tested
    BY <1>2, ValuedTo, OnValueIs
  <2>2. N[n].step = None => stepped \subseteq tested
    BY Missing
  <2>3. QED
    BY <2>1, <2>2
<1>8. W3 \subseteq body
  BY <1>2, Missing
<1>9. L[start] = tested /\ L[end] = left /\ L[step] = stepped
  OBVIOUS
<1> HIDE DEF k1, t, i, p, left, body, W1
<1>10. Chain(N, r, L, EvalIf(N[n].init), S(U), S(W1))
  BY <1>4, <1>5, ChainEvalIf DEF W1
<1>11. Chain(N, r, L, EvalIf(N[n].a), S(tested), S(W2))
  BY <1>2, ChainEvalIf
<1>12. Chain(N, r, L, EvalIf(N[n].step), S(stepped), S(W4))
  BY <1>5, ChainEvalIf
<1> HIDE DEF tested, stepped, W4
<1>13. Chain(N, r, L, <<Set(start)>>, S(W1), S(tested))
  <2>1. Fits(N, r, L, Set(start), S(W1), S(tested))
    BY <1>6, <1>9, FitsSet
  <2>2. QED
    BY <2>1, ChainOne
<1>14. Chain(N, r, L, exit, S(W2), S(W3))
  <2>1. CASE N[n].a = None
    BY <2>1, ChainNone
  <2>2. CASE N[n].a # None
    <3>1. Fits(N, r, L, Jmp("jz", end), S(Valued(N, t)), S(body))
      BY <1>2, FitsJmp
    <3>2. QED
      BY <2>2, <3>1, ChainOne
  <2>3. QED
    BY <2>1, <2>2
<1> HIDE DEF W2, W3, exit
<1>15. Chain(N, r, L, <<Stmt(k1), Set(step)>>, S(W3), S(stepped))
  <2>1. Fits(N, r, L, Stmt(k1), S(W3), S(stepped))
    BY <1>2, <1>3, <1>8, FitsStmt DEF body
  <2>2. Fits(N, r, L, Set(step), S(stepped), S(stepped))
    BY <1>9, FitsSet
  <2>3. QED
    BY <2>1, <2>2, ChainTwo
<1>16. Chain(N, r, L, <<Jmp("jmp", start), Set(end), Restore(b, c)>>, S(W4), Stage(V, b, c))
  <2>1. Fits(N, r, L, Jmp("jmp", start), S(W4), S({}))
    BY <1>7, <1>9, FitsGo
  <2>2. Fits(N, r, L, Set(end), S({}), S(V))
    BY <1>2, <1>9, FitsSet
  <2>3. Fits(N, r, L, Restore(b, c), S(V), Stage(V, b, c))
    BY FitsRestore
  <2>4. QED
    BY <2>1, <2>2, <2>3, ChainThree
<1> HIDE DEF S
<1>17. Chain(N, r, L, EvalIf(N[n].init) \o <<Set(start)>>, S(U), S(tested))
  BY <1>10, <1>13, ChainJoin
<1>18. Chain(N, r, L, EvalIf(N[n].init) \o <<Set(start)>> \o EvalIf(N[n].a), S(U), S(W2))
  BY <1>11, <1>17, ChainJoin
<1>19. Chain(N, r, L, EvalIf(N[n].init) \o <<Set(start)>> \o EvalIf(N[n].a) \o exit,
             S(U), S(W3))
  BY <1>14, <1>18, ChainJoin
<1>20. Chain(N, r, L, EvalIf(N[n].init) \o <<Set(start)>> \o EvalIf(N[n].a) \o exit
                      \o <<Stmt(k1), Set(step)>>, S(U), S(stepped))
  BY <1>15, <1>19, ChainJoin
<1>21. Chain(N, r, L, EvalIf(N[n].init) \o <<Set(start)>> \o EvalIf(N[n].a) \o exit
                      \o <<Stmt(k1), Set(step)>> \o EvalIf(N[n].step), S(U), S(W4))
  BY <1>12, <1>20, ChainJoin
<1>22. Chain(N, r, L, EvalIf(N[n].init) \o <<Set(start)>> \o EvalIf(N[n].a) \o exit
                      \o <<Stmt(k1), Set(step)>> \o EvalIf(N[n].step)
                      \o <<Jmp("jmp", start), Set(end), Restore(b, c)>>, S(U), Stage(V, b, c))
  BY <1>16, <1>21, ChainJoin
<1>23. QED
  BY <1>22, RunsChain DEF k1, S, exit


(* A break goes to the end of the loop or switch around it, *)
LEMMA BreakRuns ==
  ASSUME NEW N, Tree(N), NEW L, NEW n \in DOMAIN N, NEW U, NEW b, NEW c, NEW V,
         Placed(N, L, n, U, b, c, V), N[n].k = "break",
         Enclosing(N, n, Loops \cup {"switch"}) # 0
  PROVE  Runs(N, Root(N, n), L, <<Jmp("jmp", b)>>, U, b, c, Stage(V, b, c))
<1> DEFINE l == Enclosing(N, n, Loops \cup {"switch"})
<1>1. l \in DOMAIN N
  BY EnclosingOf
<1>2. Enter(N, n) = At("leave", l)
  BY EnterIs
<1>3. On(N, At("enter", n)) \subseteq On(N, At("leave", l))
  BY <1>1, <1>2, EnterStep, PointsAre
<1>4. b \in DOMAIN L /\ On(N, At("leave", l)) \subseteq L[b]
  BY DEF Placed, Aims
<1> HIDE DEF l
<1>5. U \subseteq L[b]
  BY <1>3, <1>4 DEF Placed
<1>6. Fits(N, Root(N, n), L, Jmp("jmp", b), Stage(U, b, c), Stage(V, b, c))
  BY <1>4, <1>5, FitsGo
<1>7. QED
  BY <1>6, ChainOne, RunsChain

(* a continue to where the loop goes on, unless it is a do. *)
LEMMA ContinueRuns ==
  ASSUME NEW N, Tree(N), NEW L, NEW n \in DOMAIN N, NEW U, NEW b, NEW c, NEW V,
         Placed(N, L, n, U, b, c, V), N[n].k = "continue",
         Enclosing(N, n, Loops) \in DOMAIN N, N[Enclosing(N, n, Loops)].k # "do"
  PROVE  Runs(N, Root(N, n), L, <<Jmp("jmp", c)>>, U, b, c, Stage(V, b, c))
<1> DEFINE l == Enclosing(N, n, Loops)
<1>1. Enter(N, n) = Goal(N, l)
  BY EnterIs DEF Goal
<1>2. Goal(N, l) \in Points(N)
  BY PointsAre DEF Goal
<1>3. On(N, At("enter", n)) \subseteq On(N, Goal(N, l))
  BY <1>1, <1>2, EnterStep
<1>4. l # 0
  BY DEF Tree
<1>5. c \in DOMAIN L /\ On(N, Goal(N, l)) \subseteq L[c]
  BY <1>4 DEF Placed, Aims
<1> HIDE DEF l
<1>6. U \subseteq L[c]
  BY <1>3, <1>5 DEF Placed
<1>7. Fits(N, Root(N, n), L, Jmp("jmp", c), Stage(U, b, c), Stage(V, b, c))
  BY <1>5, <1>6, FitsGo
<1>8. QED
  BY <1>7, ChainOne, RunsChain

(* A goto jumps to its label, which is nothing else. *)
LEMMA GotoRuns ==
  ASSUME NEW N, NEW L, NEW n \in DOMAIN N, NEW U, NEW b, NEW c, NEW V,
         Placed(N, L, n, U, b, c, V), N[n].k = "goto", LabelNode(N, n) \in DOMAIN N,
         NEW id \in DOMAIN L, L[id] = On(N, At("leave", LabelNode(N, n)))
  PROVE  Runs(N, Root(N, n), L, <<Jmp("jmp", id)>>, U, b, c, Stage(V, b, c))
<1>1. Enter(N, n) = At("leave", LabelNode(N, n))
  BY EnterIs
<1>2. On(N, At("enter", n)) \subseteq L[id]
  BY <1>1, EnterStep, PointsAre
<1>3. U \subseteq L[id]
  BY <1>2 DEF Placed
<1>4. Fits(N, Root(N, n), L, Jmp("jmp", id), Stage(U, b, c), Stage(V, b, c))
  BY <1>3, FitsGo
<1>5. QED
  BY <1>4, ChainOne, RunsChain

(* A label of goto is set where its statement is left. *)
LEMMA LabelRuns ==
  ASSUME NEW N, Tree(N), NEW L, NEW n \in DOMAIN N, NEW U, NEW b, NEW c, NEW V,
         Placed(N, L, n, U, b, c, V), N[n].k = "label",
         NEW id \in DOMAIN L, L[id] = On(N, At("leave", n))
  PROVE  Runs(N, Root(N, n), L, <<Set(id)>>, U, b, c, Stage(V, b, c))
<1>1. U \subseteq L[id]
  BY EnterNothing DEF Placed, Nothing1
<1>2. L[id] \subseteq V
  BY Left DEF Jumping
<1>3. Fits(N, Root(N, n), L, Set(id), Stage(U, b, c), Stage(V, b, c))
  BY <1>1, <1>2, FitsSet
<1>4. QED
  BY <1>3, ChainOne, RunsChain

(* Nothing is generated for these. *)
LEMMA NothingRuns ==
  ASSUME NEW N, Tree(N), NEW L, NEW n \in DOMAIN N, NEW U, NEW b, NEW c, NEW V,
         Placed(N, L, n, U, b, c, V), N[n].k \in {"null", "case", "default"}
  PROVE  Runs(N, Root(N, n), L, <<>>, U, b, c, Stage(V, b, c))
<1>1. U \subseteq V
  BY EnterNothing, Left DEF Placed, Nothing1, Jumping
<1>2. QED
  BY <1>1, RunsNone

---------------------------------------------------------------------------
(* The dispatch. *)

(* A comparison with the value of a case, *)
LEMMA CaseRuns ==
  ASSUME NEW N, NEW r, NEW L, NEW n, N[n].k = "case", N[n].lo \in Int, N[n].hi = N[n].lo,
         NEW id \in DOMAIN L, NEW U, NEW V, NEW b, NEW c, Sorts(N, n, U, L[id], V)
  PROVE  Runs(N, r, L, <<Cmp(N[n].lo), Jmp("jz", id)>>, U, b, c, Stage(V, b, c))
<1> DEFINE cmp(s) == Now(s.pt, s.rax, Sign(s.rax - N[n].lo), s.stack)
           W == {cmp(s) : s \in U}
<1>1. Parts("jz", W, L[id], V)
  <2> SUFFICES ASSUME NEW s \in U
               PROVE  IF Jumped("jz", cmp(s).flag) THEN cmp(s) \in L[id] ELSE cmp(s) \in V
    BY DEF Parts
  <2>1. s.rax \in Int /\ s.rax - N[n].lo \in Int
    BY DEF Sorts
  <2>2. Sign(s.rax - N[n].lo) \in Signs /\ (Sign(s.rax - N[n].lo) = 0 <=> s.rax = N[n].lo)
    BY <2>1, SignIs
  <2>3. cmp(s).flag = Sign(s.rax - N[n].lo)
    BY DEF Now
  <2>4. Jumped("jz", cmp(s).flag) <=> s.rax = N[n].lo
    BY <2>2, <2>3 DEF Jumped
  <2>5. s.rax \in N[n].lo .. N[n].hi <=> s.rax = N[n].lo
    BY <2>1
  <2>6. IF s.rax \in N[n].lo .. N[n].hi THEN cmp(s) \in L[id] ELSE cmp(s) \in V
    BY <2>2 DEF Sorts
  <2> HIDE DEF cmp
  <2>7. QED
    BY <2>4, <2>5, <2>6
<1>2. \A s \in U : Now(s.pt, s.rax, Sign(s.rax - N[n].lo), s.stack) \in W
  OBVIOUS
<1> HIDE DEF W
<1>3. Fits(N, r, L, Cmp(N[n].lo), Stage(U, b, c), Stage(W, b, c))
  BY <1>2, FitsCmp
<1>4. Fits(N, r, L, Jmp("jz", id), Stage(W, b, c), Stage(V, b, c))
  BY <1>1, FitsJmp
<1>5. QED
  BY <1>3, <1>4, ChainTwo, RunsChain

(* and with the ends of a range. *)
LEMMA RangeRuns ==
  ASSUME NEW N, NEW r, NEW L, NEW n, N[n].k = "case", N[n].lo \in Int, N[n].hi \in Int,
         NEW id \in DOMAIN L, NEW U, NEW V, NEW b, NEW c, Sorts(N, n, U, L[id], V),
         NEW skip \in DOMAIN L, L[skip] = V
  PROVE  Runs(N, r, L, <<Cmp(N[n].lo), Jmp("jl", skip), Cmp(N[n].hi), Jmp("jg", skip),
                         Jmp("jmp", id), Set(skip)>>, U, b, c, Stage(V, b, c))
<1> DEFINE lo == N[n].lo
           hi == N[n].hi
           cmp(s, f) == Now(s.pt, s.rax, f, s.stack)
           S(W) == Stage(W, b, c)
           W1 == {cmp(s, Sign(s.rax - lo)) : s \in U}
           W2 == {cmp(s, Sign(s.rax - lo)) : s \in {t \in U : t.rax >= lo}}
           W3 == {cmp(s, Sign(s.rax - hi)) : s \in {t \in U : t.rax >= lo}}
           W4 == {cmp(s, Sign(s.rax - hi)) : s \in {t \in U : t.rax >= lo /\ t.rax <= hi}}
<1>1. ASSUME NEW s \in U
      PROVE  /\ s.rax \in Int /\ Sign(s.rax - lo) \in Signs /\ Sign(s.rax - hi) \in Signs
             /\ Sign(s.rax - lo) < 0 <=> s.rax < lo
             /\ Sign(s.rax - hi) > 0 <=> s.rax > hi
             /\ \A f \in Signs : IF s.rax >= lo /\ s.rax <= hi THEN cmp(s, f) \in L[id]
                                 ELSE cmp(s, f) \in V
  <2>1. s.rax \in Int /\ s.rax - lo \in Int /\ s.rax - hi \in Int
    BY DEF Sorts
  <2>2. /\ Sign(s.rax - lo) \in Signs /\ (Sign(s.rax - lo) < 0 <=> s.rax - lo < 0)
        /\ Sign(s.rax - hi) \in Signs /\ (Sign(s.rax - hi) > 0 <=> s.rax - hi > 0)
    BY <2>1, SignIs
  <2>3. s.rax \in lo .. hi <=> s.rax >= lo /\ s.rax <= hi
    BY <2>1
  <2>4. \A f \in Signs : IF s.rax \in lo .. hi THEN cmp(s, f) \in L[id] ELSE cmp(s, f) \in V
    BY DEF Sorts
  <2> HIDE DEF cmp, lo, hi
  <2>5. /\ Sign(s.rax - lo) < 0 <=> s.rax < lo
        /\ Sign(s.rax - hi) > 0 <=> s.rax > hi
    <3>1. lo \in Int /\ hi \in Int
      BY DEF lo, hi
    <3>2. QED
      BY <2>1, <2>2, <3>1
  <2>6. QED
    BY <2>1, <2>2, <2>3, <2>4, <2>5
<1>2. \A s, f : cmp(s, f).flag = f /\ cmp(s, f).pt = s.pt /\ cmp(s, f).rax = s.rax
                /\ cmp(s, f).stack = s.stack
  BY DEF Now
<1>3. \A s, f, g : Now(cmp(s, f).pt, cmp(s, f).rax, g, cmp(s, f).stack) = cmp(s, g)
  BY <1>2
<1>4. \A s \in U : Now(s.pt, s.rax, Sign(s.rax - lo), s.stack) \in W1
  OBVIOUS
<1> HIDE DEF cmp
<1>5. Parts("jl", W1, V, W2)
  <2> SUFFICES ASSUME NEW s \in U
               PROVE  LET t == cmp(s, Sign(s.rax - lo))
                      IN  IF Jumped("jl", t.flag) THEN t \in V ELSE t \in W2
    BY DEF Parts
  <2>1. Jumped("jl", cmp(s, Sign(s.rax - lo)).flag) <=> s.rax < lo
    BY <1>1, <1>2 DEF Jumped
  <2>2. s.rax < lo => ~(s.rax >= lo /\ s.rax <= hi)
    BY <1>1
  <2>3. s.rax < lo => cmp(s, Sign(s.rax - lo)) \in V
    BY <1>1, <2>2
  <2>4. ~(s.rax < lo) => s.rax >= lo
    BY <1>1
  <2>5. QED
    BY <2>1, <2>3, <2>4
<1>6. \A s \in W2 : Now(s.pt, s.rax, Sign(s.rax - hi), s.stack) \in W3
  <2> SUFFICES ASSUME NEW s \in U, s.rax >= lo
               PROVE  LET t == cmp(s, Sign(s.rax - lo))
                      IN  Now(t.pt, t.rax, Sign(t.rax - hi), t.stack) \in W3
    OBVIOUS
  <2>1. cmp(s, Sign(s.rax - hi)) \in W3
    OBVIOUS
  <2>2. QED
    BY <1>2, <1>3, <2>1
<1>7. Parts("jg", W3, V, W4)
  <2> SUFFICES ASSUME NEW s \in U, s.rax >= lo
               PROVE  LET t == cmp(s, Sign(s.rax - hi))
                      IN  IF Jumped("jg", t.flag) THEN t \in V ELSE t \in W4
    BY DEF Parts
  <2>1. Jumped("jg", cmp(s, Sign(s.rax - hi)).flag) <=> s.rax > hi
    BY <1>1, <1>2 DEF Jumped
  <2>2. s.rax > hi => ~(s.rax >= lo /\ s.rax <= hi)
    BY <1>1
  <2>3. s.rax > hi => cmp(s, Sign(s.rax - hi)) \in V
    BY <1>1, <2>2
  <2>4. ~(s.rax > hi) => s.rax <= hi
    BY <1>1
  <2>5. QED
    BY <2>1, <2>3, <2>4
<1>8. W4 \subseteq L[id]
  BY <1>1
<1> HIDE DEF W1, W2, W3, W4
<1>9. Fits(N, r, L, Cmp(N[n].lo), S(U), S(W1))
  BY <1>4, FitsCmp DEF lo
<1>10. Fits(N, r, L, Jmp("jl", skip), S(W1), S(W2))
  BY <1>5, FitsJmp
<1>11. Fits(N, r, L, Cmp(N[n].hi), S(W2), S(W3))
  BY <1>6, FitsCmp DEF hi
<1>12. Fits(N, r, L, Jmp("jg", skip), S(W3), S(W4))
  BY <1>7, FitsJmp
<1>13. Fits(N, r, L, Jmp("jmp", id), S(W4), S({}))
  BY <1>8, FitsGo
<1>14. Fits(N, r, L, Set(skip), S({}), S(V))
  BY FitsSet
<1> HIDE DEF S
<1>15. QED
  BY <1>9, <1>10, <1>11, <1>12, <1>13, <1>14, ChainSix, RunsChain DEF S


---------------------------------------------------------------------------
(* A switch of an ordinary tree. *)

MarkKinds == {"case", "default"}
MarksInSwitches(N) ==
  \A m \in DOMAIN N : N[m].k \in MarkKinds =>
    \E p \in DOMAIN N : IsKid(N, m, p) /\ N[p].k = "switch"

(* Its cases and default stand in its body. *)
LEMMA LabelsOfSwitch ==
  ASSUME NEW N, Tree(N), MarksInSwitches(N), NEW n \in DOMAIN N, N[n].k = "switch"
  PROVE  LabelsOf(N, n) = {N[n].kids[i] : i \in {j \in DOMAIN N[n].kids : N[N[n].kids[j]].k \in MarkKinds}}
<1> DEFINE R == {N[n].kids[i] : i \in {j \in DOMAIN N[n].kids : N[N[n].kids[j]].k \in MarkKinds}}
<1>1. ASSUME NEW m \in LabelsOf(N, n) PROVE m \in R
  <2>1. m \in DOMAIN N /\ N[m].k \in MarkKinds /\ Enclosing(N, m, {"switch"}) = n
    BY DEF LabelsOf, MarkKinds
  <2>2. PICK p \in DOMAIN N : IsKid(N, m, p) /\ N[p].k = "switch"
    BY <2>1 DEF MarksInSwitches
  <2>3. PICK i \in DOMAIN N[p].kids : N[p].kids[i] = m
    BY <2>2 DEF IsKid
  <2>4. Enclosing(N, m, {"switch"}) = p
    BY <2>2, <2>3, KidEnclosing
  <2>5. QED
    BY <2>1, <2>3, <2>4
<1>2. ASSUME NEW i \in DOMAIN N[n].kids, N[N[n].kids[i]].k \in MarkKinds
      PROVE  N[n].kids[i] \in LabelsOf(N, n)
  <2>1. N[n].kids[i] \in DOMAIN N
    BY KidOf
  <2>2. Enclosing(N, N[n].kids[i], {"switch"}) = n
    BY KidEnclosing
  <2>3. QED
    BY <1>2, <2>1, <2>2 DEF LabelsOf, MarkKinds
<1>3. QED
  BY <1>1, <1>2

(* The case that takes a value is the one in whose span it is, *)
LEMMA TakesCase ==
  ASSUME NEW N, Tree(N), MarksInSwitches(N), NEW n \in DOMAIN N, N[n].k = "switch",
         NEW i \in DOMAIN N[n].kids, N[N[n].kids[i]].k = "case",
         NEW v, v \in N[N[n].kids[i]].lo .. N[N[n].kids[i]].hi,
         \A j \in DOMAIN N[n].kids : N[N[n].kids[j]].k = "case"
            /\ v \in N[N[n].kids[j]].lo .. N[N[n].kids[j]].hi => j = i
  PROVE  Takes(N, n, v) = At("leave", N[n].kids[i])
<1> DEFINE m == N[n].kids[i]
           match == {x \in LabelsOf(N, n) : N[x].k = "case" /\ v \in N[x].lo .. N[x].hi}
<1>1. m \in match
  BY LabelsOfSwitch DEF MarkKinds
<1>2. \A x \in match : x = m
  BY LabelsOfSwitch
<1>3. match = {m}
  BY <1>1, <1>2
<1>4. Takes(N, n, v) = At("leave", CHOOSE x \in match : TRUE)
  BY <1>3 DEF Takes
<1> HIDE DEF match
<1>5. QED
  BY <1>3, <1>4

(* and without one the default, or none. *)
LEMMA TakesOther ==
  ASSUME NEW N, Tree(N), MarksInSwitches(N), NEW n \in DOMAIN N, N[n].k = "switch",
         NEW v,
         \A j \in DOMAIN N[n].kids : N[N[n].kids[j]].k = "case"
            => v \notin N[N[n].kids[j]].lo .. N[N[n].kids[j]].hi
  PROVE  /\ \A i \in DOMAIN N[n].kids :
              N[N[n].kids[i]].k = "default"
              /\ (\A j \in DOMAIN N[n].kids : N[N[n].kids[j]].k = "default" => j = i)
              => Takes(N, n, v) = At("leave", N[n].kids[i])
         /\ (\A i \in DOMAIN N[n].kids : N[N[n].kids[i]].k # "default") =>
              Takes(N, n, v) = At("leave", n)
<1> DEFINE match == {x \in LabelsOf(N, n) : N[x].k = "case" /\ v \in N[x].lo .. N[x].hi}
           dflt  == {x \in LabelsOf(N, n) : N[x].k = "default"}
<1>1. match = {}
  BY LabelsOfSwitch
<1>2. /\ dflt # {} => Takes(N, n, v) = At("leave", CHOOSE x \in dflt : TRUE)
      /\ dflt = {} => Takes(N, n, v) = At("leave", n)
  BY <1>1 DEF Takes
<1>3. ASSUME NEW i \in DOMAIN N[n].kids, N[N[n].kids[i]].k = "default",
             \A j \in DOMAIN N[n].kids : N[N[n].kids[j]].k = "default" => j = i
      PROVE  Takes(N, n, v) = At("leave", N[n].kids[i])
  <2>1. N[n].kids[i] \in dflt
    BY <1>3, LabelsOfSwitch DEF MarkKinds
  <2>2. \A x \in dflt : x = N[n].kids[i]
    BY <1>3, LabelsOfSwitch
  <2>3. dflt = {N[n].kids[i]}
    BY <2>1, <2>2
  <2> HIDE DEF dflt
  <2>4. QED
    BY <1>2, <2>3
<1>4. ASSUME \A i \in DOMAIN N[n].kids : N[N[n].kids[i]].k # "default"
      PROVE  Takes(N, n, v) = At("leave", n)
  <2>1. dflt = {}
    BY <1>4, LabelsOfSwitch
  <2>2. QED
    BY <1>2, <2>1
<1>5. QED
  BY <1>3, <1>4

(* What is pushed, and what comes to the i-th comparison. *)
Pushed(N, n) == {Now(Takes(N, n, v), v, Sign(v), <<v>>) : v \in Values}
InSpan(N, n, j, v) == /\ N[N[n].kids[j]].k = "case"
                      /\ v \in N[N[n].kids[j]].lo .. N[N[n].kids[j]].hi
Missed(N, n, i) == {v \in Values : \A j \in DOMAIN N[n].kids : j < i => ~InSpan(N, n, j, v)}
Untaken(N, n, i) == {Now(Takes(N, n, v), v, g, <<>>) : v \in Missed(N, n, i), g \in Signs}

DisjointCases(N, n) ==
  \A i, j \in DOMAIN N[n].kids : \A v : InSpan(N, n, i, v) /\ InSpan(N, n, j, v) => i = j

(* The pop finds the value. *)
LEMMA PopFinds ==
  ASSUME NEW N, Tree(N), NEW n \in DOMAIN N, NEW s \in Pushed(N, n)
  PROVE  /\ s.stack # <<>>
         /\ Now(s.pt, s.stack[Len(s.stack)], s.flag, SubSeq(s.stack, 1, Len(s.stack) - 1))
              \in Untaken(N, n, 1)
<1>1. PICK v \in Values : s = Now(Takes(N, n, v), v, Sign(v), <<v>>)
  BY DEF Pushed
<1>2. s.pt = Takes(N, n, v) /\ s.flag = Sign(v) /\ s.stack = <<v>>
  BY <1>1 DEF Now
<1>3. s.stack # <<>> /\ s.stack[Len(s.stack)] = v /\ SubSeq(s.stack, 1, Len(s.stack) - 1) = <<>>
  BY <1>2
<1>4. v \in Int /\ Sign(v) \in Signs
  BY ValuesAssumption, SignIs
<1>5. \A j \in DOMAIN N[n].kids : ~(j < 1)
  BY KidOf
<1>6. v \in Missed(N, n, 1)
  BY <1>5 DEF Missed
<1>7. Now(Takes(N, n, v), v, Sign(v), <<>>) \in Untaken(N, n, 1)
  BY <1>4, <1>6 DEF Untaken
<1>8. QED
  BY <1>2, <1>3, <1>7


(* The comparisons: each takes the values of its case. *)
LEMMA CaseSorts ==
  ASSUME NEW N, Tree(N), MarksInSwitches(N), NEW n \in DOMAIN N, N[n].k = "switch",
         DisjointCases(N, n), NEW i \in DOMAIN N[n].kids, N[N[n].kids[i]].k = "case"
  PROVE  Sorts(N, N[n].kids[i], Untaken(N, n, i), On(N, At("leave", N[n].kids[i])),
               Untaken(N, n, i + 1))
<1> DEFINE m == N[n].kids[i]
<1> SUFFICES ASSUME NEW s \in Untaken(N, n, i)
             PROVE  /\ s.rax \in Int
                    /\ \A f \in Signs :
                         IF s.rax \in N[m].lo .. N[m].hi
                         THEN Now(s.pt, s.rax, f, s.stack) \in On(N, At("leave", m))
                         ELSE Now(s.pt, s.rax, f, s.stack) \in Untaken(N, n, i + 1)
  BY DEF Sorts
<1>1. PICK v \in Missed(N, n, i), g \in Signs : s = Now(Takes(N, n, v), v, g, <<>>)
  BY DEF Untaken
<1>2. v \in Values /\ v \in Int
  BY ValuesAssumption DEF Missed
<1>3. s.pt = Takes(N, n, v) /\ s.rax = v /\ s.stack = <<>>
  BY <1>1 DEF Now
<1>4. m \in DOMAIN N
  BY KidOf
<1>5. ASSUME NEW f \in Signs, v \in N[m].lo .. N[m].hi
      PROVE  Now(Takes(N, n, v), v, f, <<>>) \in On(N, At("leave", m))
  <2>1. \A j \in DOMAIN N[n].kids : InSpan(N, n, j, v) => j = i
    BY <1>5 DEF DisjointCases, InSpan
  <2>2. Takes(N, n, v) = At("leave", m)
    BY <1>5, <2>1, TakesCase DEF InSpan
  <2>3. QED
    BY <1>2, <1>4, <2>2, OnAt, PointsAre
<1>6. ASSUME NEW f \in Signs, v \notin N[m].lo .. N[m].hi
      PROVE  Now(Takes(N, n, v), v, f, <<>>) \in Untaken(N, n, i + 1)
  <2>1. ASSUME NEW j \in DOMAIN N[n].kids, j < i + 1 PROVE ~InSpan(N, n, j, v)
    <3>1. j < i \/ j = i
      BY <2>1, KidOf
    <3>2. QED
      BY <1>6, <3>1 DEF Missed, InSpan
  <2>2. v \in Missed(N, n, i + 1)
    BY <1>2, <2>1 DEF Missed
  <2>3. QED
    BY <2>2 DEF Untaken
<1> HIDE DEF m
<1>7. QED
  BY <1>2, <1>3, <1>5, <1>6

(* What is no case takes no value. *)
LEMMA OtherSorts ==
  ASSUME NEW N, Tree(N), NEW n \in DOMAIN N, NEW i \in DOMAIN N[n].kids,
         N[N[n].kids[i]].k # "case"
  PROVE  Untaken(N, n, i) \subseteq Untaken(N, n, i + 1)
<1>1. \A j \in DOMAIN N[n].kids : j < i + 1 => j < i \/ j = i
  BY KidOf
<1>2. Missed(N, n, i) \subseteq Missed(N, n, i + 1)
  BY <1>1 DEF Missed, InSpan
<1>3. QED
  BY <1>2 DEF Untaken

(* Behind the last one the default takes the rest, or none. *)
LEMMA RestTakes ==
  ASSUME NEW N, Tree(N), MarksInSwitches(N), NEW n \in DOMAIN N, N[n].k = "switch"
  PROVE  LET rest == Untaken(N, n, Len(N[n].kids) + 1)
         IN  /\ \A i \in DOMAIN N[n].kids :
                  N[N[n].kids[i]].k = "default"
                  /\ (\A j \in DOMAIN N[n].kids : N[N[n].kids[j]].k = "default" => j = i)
                  => rest \subseteq On(N, At("leave", N[n].kids[i]))
             /\ (\A i \in DOMAIN N[n].kids : N[N[n].kids[i]].k # "default") =>
                  rest \subseteq On(N, At("leave", n))
<1> DEFINE rest == Untaken(N, n, Len(N[n].kids) + 1)
<1>1. \A j \in DOMAIN N[n].kids : j < Len(N[n].kids) + 1
  BY KidOf
<1>2. ASSUME NEW s \in rest
      PROVE  \E v \in Values, g \in Signs :
               /\ s = Now(Takes(N, n, v), v, g, <<>>) /\ v \in Int
               /\ \A j \in DOMAIN N[n].kids : ~InSpan(N, n, j, v)
  BY <1>1, ValuesAssumption DEF Untaken, Missed
<1>3. ASSUME NEW i \in DOMAIN N[n].kids, N[N[n].kids[i]].k = "default",
             \A j \in DOMAIN N[n].kids : N[N[n].kids[j]].k = "default" => j = i,
             NEW s \in rest
      PROVE  s \in On(N, At("leave", N[n].kids[i]))
  <2>1. PICK v \in Values, g \in Signs :
               /\ s = Now(Takes(N, n, v), v, g, <<>>) /\ v \in Int
               /\ \A j \in DOMAIN N[n].kids : ~InSpan(N, n, j, v)
    BY <1>2
  <2>2. \A j \in DOMAIN N[n].kids : N[N[n].kids[j]].k = "case"
            => v \notin N[N[n].kids[j]].lo .. N[N[n].kids[j]].hi
    BY <2>1 DEF InSpan
  <2>3. Takes(N, n, v) = At("leave", N[n].kids[i])
    BY <1>3, <2>2, TakesOther
  <2>4. QED
    BY <2>1, <2>3, KidOf, OnAt, PointsAre
<1>4. ASSUME \A i \in DOMAIN N[n].kids : N[N[n].kids[i]].k # "default", NEW s \in rest
      PROVE  s \in On(N, At("leave", n))
  <2>1. PICK v \in Values, g \in Signs :
               /\ s = Now(Takes(N, n, v), v, g, <<>>) /\ v \in Int
               /\ \A j \in DOMAIN N[n].kids : ~InSpan(N, n, j, v)
    BY <1>2
  <2>2. \A j \in DOMAIN N[n].kids : N[N[n].kids[j]].k = "case"
            => v \notin N[N[n].kids[j]].lo .. N[N[n].kids[j]].hi
    BY <2>1 DEF InSpan
  <2>3. Takes(N, n, v) = At("leave", n)
    BY <1>4, <2>2, TakesOther
  <2>4. QED
    BY <2>1, <2>3, OnAt, PointsAre
<1> HIDE DEF rest
<1>5. QED
  BY <1>3, <1>4 DEF rest


(* The body: a case is reached from the statement before it as well. *)
LEMMA BodyRuns ==
  ASSUME Tree(Nodes), NEW n \in DOMAIN Nodes, Nodes[n].k = "switch", NEW kids, kids = Nodes[n].kids,
         kids # <<>> => LastKid(Nodes, n) \in Leaving(Nodes),
         NEW L, \A i \in Marks(kids) : /\ MarkLabel(kids, i) \in DOMAIN L
                                       /\ L[MarkLabel(kids, i)] = On(Nodes, At("leave", kids[i])),
         NEW end \in DOMAIN L, L[end] = On(Nodes, At("leave", n)),
         NEW b, NEW c, Aims(Nodes, L, n, b, c)
  PROVE  \E W : Chain(Nodes, Root(Nodes, n), L, Body(kids), Stage(W, end, c), Stage({}, end, c))
<1> DEFINE N == Nodes
           r == Root(N, n)
           w == Body(kids)
           In(i) == IF i \in DOMAIN kids THEN On(N, At("enter", kids[i])) ELSE {}
           p == [i \in 1 .. Len(kids) + 1 |-> Stage(In(i), end, c)]
<1>0. kids \in Seq(DOMAIN N) /\ Len(kids) \in Nat /\ DOMAIN kids = 1 .. Len(kids)
  <2>1. kids \in Seq(DOMAIN N)
    BY DEF Tree
  <2>2. QED
    BY <2>1
<1>1. /\ Listed(w) /\ DOMAIN w = DOMAIN kids /\ Len(w) = Len(kids)
      /\ \A i \in DOMAIN kids : w[i] = IF IsMark(kids[i]) THEN Set(MarkLabel(kids, i))
                                       ELSE Stmt(kids[i])
  <2> DEFINE I == {IF IsMark(kids[i]) THEN Set(MarkLabel(kids, i)) ELSE Stmt(kids[i]) : i \in DOMAIN kids}
  <2>1. w \in [1 .. Len(kids) -> I]
    BY <1>0 DEF Body
  <2>2. w \in Seq(I)
    <3> HIDE DEF w, I
    <3>1. QED
      BY <1>0, <2>1
  <2>3. DOMAIN w = DOMAIN kids /\ Len(w) = Len(kids)
    BY <1>0 DEF Body
  <2>4. \A i \in DOMAIN kids : w[i] = IF IsMark(kids[i]) THEN Set(MarkLabel(kids, i))
                                      ELSE Stmt(kids[i])
    BY DEF Body
  <2> HIDE DEF I, w
  <2>5. QED
    BY <2>2, <2>3, <2>4 DEF Listed
<1>2. ASSUME NEW i \in DOMAIN kids
      PROVE  On(N, At("leave", kids[i])) \subseteq In(i + 1) \/ kids[i] \in Leaving(N)
  <2>1. CASE i < Len(kids)
    <3>1. On(N, At("leave", kids[i])) \subseteq On(N, At("enter", kids[i + 1]))
      BY <2>1, Leave
    <3>2. i + 1 \in DOMAIN kids
      BY <1>0, <2>1
    <3>3. QED
      BY <3>1, <3>2
  <2>2. CASE ~(i < Len(kids))
    <3>1. i = Len(kids) /\ kids # <<>>
      BY <1>0, <2>2
    <3>2. QED
      BY <3>1 DEF LastKid
  <2>3. QED
    BY <2>1, <2>2
<1>3. ASSUME NEW i \in DOMAIN kids PROVE Fits(N, r, L, w[i], p[i], p[i + 1])
  <2>1. kids[i] \in DOMAIN N /\ Root(N, kids[i]) = r
    BY KidOf, KidRoot
  <2>2. p[i] = Stage(On(N, At("enter", kids[i])), end, c) /\ p[i + 1] = Stage(In(i + 1), end, c)
    BY <1>0
  <2>3. CASE IsMark(kids[i])
    <3>1. N[kids[i]].k \in {"case", "default"} /\ i \in Marks(kids)
      BY <2>3 DEF IsMark, Marks
    <3>2. On(N, At("enter", kids[i])) \subseteq On(N, At("leave", kids[i]))
      BY <2>1, <3>1, EnterNothing DEF Nothing1
    <3>3. kids[i] \notin Leaving(N)
      BY <2>1, <3>1, LeavingIs DEF Jumping
    <3>4. On(N, At("leave", kids[i])) \subseteq In(i + 1)
      BY <1>2, <3>3
    <3>5. w[i] = Set(MarkLabel(kids, i))
      BY <1>1, <2>3
    <3> HIDE DEF In, w, p, r, N
    <3>6. Fits(N, r, L, Set(MarkLabel(kids, i)), Stage(On(N, At("enter", kids[i])), end, c),
               Stage(In(i + 1), end, c))
      <4>1. MarkLabel(kids, i) \in DOMAIN L /\ L[MarkLabel(kids, i)] = On(N, At("leave", kids[i]))
        BY <3>1 DEF N
      <4>2. QED
        BY <3>2, <3>4, <4>1, FitsSet
    <3>7. QED
      BY <2>2, <3>5, <3>6
  <2>4. CASE ~IsMark(kids[i])
    <3>1. w[i] = Stmt(kids[i])
      BY <1>1, <2>4
    <3>2. Aims(N, L, kids[i], end, c)
      BY AimsSwitch
    <3> HIDE DEF In, w, p, r
    <3>3. Fits(N, r, L, Stmt(kids[i]), Stage(On(N, At("enter", kids[i])), end, c),
               Stage(In(i + 1), end, c))
      BY <1>2, <2>1, <3>2, FitsStmt
    <3>4. QED
      BY <2>2, <3>1, <3>3
  <2>5. QED
    BY <2>3, <2>4
<1>4. p[1] = Stage(In(1), end, c) /\ p[Len(kids) + 1] = Stage({}, end, c)
  BY <1>0
<1> HIDE DEF p, w, In, r, N
<1>5. Chain(N, r, L, w, Stage(In(1), end, c), Stage({}, end, c))
  BY <1>1, <1>3, <1>4 DEF Chain
<1>6. QED
  BY <1>5 DEF N, r, w

(* The dispatch. *)
LEMMA TestsRun ==
  ASSUME Tree(Nodes), MarksInSwitches(Nodes), NEW n \in DOMAIN Nodes, Nodes[n].k = "switch",
         NEW kids, kids = Nodes[n].kids, DisjointCases(Nodes, n),
         NEW L, \A i \in Marks(kids) : /\ MarkLabel(kids, i) \in DOMAIN L
                                       /\ L[MarkLabel(kids, i)] = On(Nodes, At("leave", kids[i])),
         NEW b, NEW c
  PROVE  Chain(Nodes, Root(Nodes, n), L, Tests(kids), Stage(Untaken(Nodes, n, 1), b, c),
               Stage(Untaken(Nodes, n, Len(kids) + 1), b, c))
<1> DEFINE N == Nodes
           r == Root(N, n)
           w == Tests(kids)
           p == [i \in 1 .. Len(kids) + 1 |-> Stage(Untaken(N, n, i), b, c)]
<1>0. kids \in Seq(DOMAIN N) /\ Len(kids) \in Nat /\ DOMAIN kids = 1 .. Len(kids)
  <2>1. kids \in Seq(DOMAIN N)
    BY DEF Tree
  <2>2. QED
    BY <2>1
<1>1. /\ Listed(w) /\ DOMAIN w = DOMAIN kids /\ Len(w) = Len(kids)
      /\ \A i \in DOMAIN kids : w[i] = Test(kids[i], MarkLabel(kids, i))
  <2> DEFINE I == {Test(kids[i], MarkLabel(kids, i)) : i \in DOMAIN kids}
  <2>1. w \in [1 .. Len(kids) -> I]
    BY <1>0 DEF Tests
  <2>2. w \in Seq(I)
    <3> HIDE DEF I, w
    <3>1. QED
      BY <1>0, <2>1
  <2>3. DOMAIN w = DOMAIN kids /\ Len(w) = Len(kids)
    BY <1>0 DEF Tests
  <2>4. \A i \in DOMAIN kids : w[i] = Test(kids[i], MarkLabel(kids, i))
    BY DEF Tests
  <2> HIDE DEF I, w
  <2>5. QED
    BY <2>2, <2>3, <2>4 DEF Listed
<1>2. ASSUME NEW i \in DOMAIN kids PROVE Fits(N, r, L, w[i], p[i], p[i + 1])
  <2>1. p[i] = Stage(Untaken(N, n, i), b, c) /\ p[i + 1] = Stage(Untaken(N, n, i + 1), b, c)
    BY <1>0
  <2>2. CASE N[kids[i]].k = "case"
    <3>1. i \in Marks(kids)
      BY <2>2 DEF Marks, IsMark
    <3>2. Sorts(N, kids[i], Untaken(N, n, i), On(N, At("leave", kids[i])), Untaken(N, n, i + 1))
      BY <2>2, CaseSorts
    <3>3. MarkLabel(kids, i) \in DOMAIN L /\ L[MarkLabel(kids, i)] = On(N, At("leave", kids[i]))
      BY <3>1
    <3> HIDE DEF w, p, r, N
    <3>4. Fits(N, r, L, Test(kids[i], MarkLabel(kids, i)), Stage(Untaken(N, n, i), b, c),
               Stage(Untaken(N, n, i + 1), b, c))
      BY <2>2, <3>2, <3>3, FitsTest
    <3>5. QED
      BY <1>1, <2>1, <3>4
  <2>3. CASE N[kids[i]].k # "case"
    <3>1. Untaken(N, n, i) \subseteq Untaken(N, n, i + 1)
      BY <2>3, OtherSorts
    <3> HIDE DEF w, p, r, N
    <3>2. Fits(N, r, L, Test(kids[i], MarkLabel(kids, i)), Stage(Untaken(N, n, i), b, c),
               Stage(Untaken(N, n, i + 1), b, c))
      BY <2>3, <3>1, FitsTest
    <3>3. QED
      BY <1>1, <2>1, <3>2
  <2>4. QED
    BY <2>2, <2>3
<1>3. p[1] = Stage(Untaken(N, n, 1), b, c) /\ p[Len(kids) + 1] = Stage(Untaken(N, n, Len(kids) + 1), b, c)
  BY <1>0
<1> HIDE DEF p, w, r, N
<1>4. Chain(N, r, L, w, Stage(Untaken(N, n, 1), b, c), Stage(Untaken(N, n, Len(kids) + 1), b, c))
  BY <1>1, <1>2, <1>3 DEF Chain
<1>5. QED
  BY <1>4 DEF N, r, w


(* The default takes what no case took. *)
LEMMA DefaultRuns ==
  ASSUME Tree(Nodes), MarksInSwitches(Nodes), NEW n \in DOMAIN Nodes, Nodes[n].k = "switch",
         NEW kids, kids = Nodes[n].kids, \A i, j \in Defaults(kids) : i = j,
         NEW L, \A i \in Marks(kids) : /\ MarkLabel(kids, i) \in DOMAIN L
                                       /\ L[MarkLabel(kids, i)] = On(Nodes, At("leave", kids[i])),
         NEW b, NEW c
  PROVE  \E W : /\ W \subseteq On(Nodes, At("leave", n))
                /\ Chain(Nodes, Root(Nodes, n), L, ToDefault(kids),
                         Stage(Untaken(Nodes, n, Len(kids) + 1), b, c), Stage(W, b, c))
<1> DEFINE rest == Untaken(Nodes, n, Len(kids) + 1)
           r == Root(Nodes, n)
<1>1. CASE Defaults(kids) = {}
  <2>1. \A i \in DOMAIN kids : Nodes[kids[i]].k # "default"
    BY <1>1 DEF Defaults
  <2>2. rest \subseteq On(Nodes, At("leave", n))
    BY <2>1, RestTakes
  <2>3. ToDefault(kids) = <<>>
    BY <1>1 DEF ToDefault
  <2> HIDE DEF rest, r
  <2>4. Chain(Nodes, r, L, ToDefault(kids), Stage(rest, b, c), Stage(rest, b, c))
    BY <2>3, ChainNone
  <2>5. QED
    BY <2>2, <2>4 DEF rest, r
<1>2. CASE Defaults(kids) # {}
  <2> DEFINE d == CHOOSE i \in Defaults(kids) : \A j \in Defaults(kids) : j <= i
  <2>1. PICK e \in Defaults(kids) : TRUE
    BY <1>2
  <2>2. \A j \in Defaults(kids) : j = e
    BY <2>1
  <2>3. e \in Nat /\ e <= e
    <3>1. e \in DOMAIN kids
      BY <2>1 DEF Defaults
    <3>2. e \in Nat
      BY <3>1, KidOf
    <3>3. QED
      BY <3>2
  <2>4. d \in Defaults(kids)
    BY <2>1, <2>2, <2>3
  <2>5. ToDefault(kids) = <<Jmp("jmp", MarkLabel(kids, d))>>
    BY <1>2 DEF ToDefault
  <2> HIDE DEF d
  <2>6. /\ d \in DOMAIN kids /\ Nodes[kids[d]].k = "default" /\ d \in Marks(kids)
        /\ \A j \in DOMAIN kids : Nodes[kids[j]].k = "default" => j = d
    BY <2>4 DEF Defaults, Marks, IsMark
  <2>7. rest \subseteq On(Nodes, At("leave", kids[d]))
    BY <2>6, RestTakes
  <2>8. MarkLabel(kids, d) \in DOMAIN L /\ rest \subseteq L[MarkLabel(kids, d)]
    BY <2>6, <2>7
  <2> HIDE DEF rest, r
  <2>9. Fits(Nodes, r, L, Jmp("jmp", MarkLabel(kids, d)), Stage(rest, b, c), Stage({}, b, c))
    BY <2>8, FitsGo
  <2>10. Chain(Nodes, r, L, ToDefault(kids), Stage(rest, b, c), Stage({}, b, c))
    BY <2>5, <2>9, ChainOne
  <2>11. QED
    BY <2>10 DEF rest, r
<1>3. QED
  BY <1>1, <1>2

(* The whole switch: the value pushed, the body, the dispatch that pops    *)
(* it, its tests and the default.                                          *)
LEMMA SwitchRuns ==
  ASSUME Tree(Nodes), MarksInSwitches(Nodes), NEW n \in DOMAIN Nodes, Nodes[n].k = "switch",
         NEW kids, kids = Nodes[n].kids, DisjointCases(Nodes, n),
         kids # <<>> => LastKid(Nodes, n) \in Leaving(Nodes),
         \A i, j \in Defaults(kids) : i = j, Nodes[n].a # None,
         NEW L, \A i \in Marks(kids) : /\ MarkLabel(kids, i) \in DOMAIN L
                                       /\ L[MarkLabel(kids, i)] = On(Nodes, At("leave", kids[i])),
         NEW dispatch \in DOMAIN L, L[dispatch] = Pushed(Nodes, n),
         NEW end \in DOMAIN L, L[end] = On(Nodes, At("leave", n)),
         NEW U, NEW b, NEW c, NEW V, Placed(Nodes, L, n, U, b, c, V)
  PROVE  Runs(Nodes, Root(Nodes, n), L,
              <<Eval(Nodes[n].a), Push, Jmp("jmp", dispatch)>> \o Body(kids)
              \o <<Set(dispatch), Pop>> \o Tests(kids)
              \o ToDefault(kids) \o <<Set(end), Restore(b, c)>>,
              U, end, c, Stage(V, b, c))
<1> DEFINE N == Nodes
           r == Root(N, n)
           t == At("test", n)
           left == On(N, At("leave", n))
           pushed == Pushed(N, n)
           S(W) == Stage(W, end, c)
           first == <<Eval(N[n].a), Push, Jmp("jmp", dispatch)>>
           last == <<Set(end), Restore(b, c)>>
<1>1. PICK W : Chain(N, r, L, Body(kids), S(W), S({}))
  <2>1. Aims(N, L, n, b, c)
    BY DEF Placed
  <2>2. QED
    BY <2>1, BodyRuns
<1>2. Chain(N, r, L, Tests(kids), S(Untaken(N, n, 1)), S(Untaken(N, n, Len(kids) + 1)))
  BY TestsRun
<1>3. PICK Z : /\ Z \subseteq left
               /\ Chain(N, r, L, ToDefault(kids), S(Untaken(N, n, Len(kids) + 1)), S(Z))
  BY DefaultRuns
<1>4. /\ U \subseteq On(N, t) /\ t \in Points(N) /\ Evaluates(N, t) = N[n].a
      /\ left \subseteq V
  <2>1. U \subseteq On(N, At("enter", n)) /\ On(N, At("enter", n)) \subseteq On(N, t)
    BY EnterTest DEF Placed
  <2>2. t \in Points(N) /\ Evaluates(N, t) = N[n].a
    BY PointsAre, Seen
  <2>3. N[n].k \notin Jumping /\ N[n].k # "block"
    BY DEF Jumping
  <2>4. left \subseteq V
    BY <2>3, Left
  <2>5. QED
    BY <2>1, <2>2, <2>4
<1>5. \A s \in Valued(N, t) : Now(s.pt, s.rax, s.flag, Append(s.stack, s.rax)) \in pushed
  <2> SUFFICES ASSUME NEW s \in Valued(N, t)
               PROVE  Now(s.pt, s.rax, s.flag, Append(s.stack, s.rax)) \in pushed
    OBVIOUS
  <2>1. PICK v \in Values : s = Now(OnValue(N, t, v), v, Sign(v), <<>>)
    BY DEF Valued
  <2>2. OnValue(N, t, v) = Takes(N, n, v)
    BY OnValueIs
  <2>3. s.pt = Takes(N, n, v) /\ s.rax = v /\ s.flag = Sign(v) /\ s.stack = <<>>
    BY <2>1, <2>2 DEF Now
  <2>4. Append(s.stack, s.rax) = <<v>>
    BY <2>3
  <2>5. QED
    BY <2>3, <2>4 DEF Pushed
<1>6. \A s \in pushed :
         /\ s.stack # <<>>
         /\ Now(s.pt, s.stack[Len(s.stack)], s.flag, SubSeq(s.stack, 1, Len(s.stack) - 1))
              \in Untaken(N, n, 1)
  BY PopFinds
<1>7. L[dispatch] = pushed /\ L[end] = left
  OBVIOUS
<1>8. Chain(N, r, L, first, S(U), S(W))
  <2> HIDE DEF t, pushed, r, N
  <2>1. Fits(N, r, L, Eval(N[n].a), S(U), S(Valued(N, t)))
    BY <1>4, FitsEval DEF N
  <2>2. Fits(N, r, L, Push, S(Valued(N, t)), S(pushed))
    BY <1>5, FitsPush
  <2>3. Fits(N, r, L, Jmp("jmp", dispatch), S(pushed), S(W))
    BY <1>7, FitsGo
  <2>4. QED
    BY <2>1, <2>2, <2>3, ChainThree
<1>9. Chain(N, r, L, <<Set(dispatch), Pop>>, S({}), S(Untaken(N, n, 1)))
  <2> HIDE DEF pushed, r, N
  <2>1. Fits(N, r, L, Set(dispatch), S({}), S(pushed))
    BY <1>7, FitsSet
  <2>2. Fits(N, r, L, Pop, S(pushed), S(Untaken(N, n, 1)))
    BY <1>6, FitsPop
  <2>3. QED
    BY <2>1, <2>2, ChainTwo
<1>10. Chain(N, r, L, last, S(Z), Stage(V, b, c))
  <2> HIDE DEF left, r, N
  <2>1. Fits(N, r, L, Set(end), S(Z), S(V))
    BY <1>3, <1>4, <1>7, FitsSet
  <2>2. Fits(N, r, L, Restore(b, c), S(V), Stage(V, b, c))
    BY FitsRestore
  <2>3. QED
    BY <2>1, <2>2, ChainTwo
<1> HIDE DEF S, first, last, r, N
<1>11. Chain(N, r, L, first \o Body(kids), S(U), S({}))
  BY <1>1, <1>8, ChainJoin
<1>12. Chain(N, r, L, first \o Body(kids) \o <<Set(dispatch), Pop>>, S(U), S(Untaken(N, n, 1)))
  BY <1>9, <1>11, ChainJoin
<1>13. Chain(N, r, L, first \o Body(kids) \o <<Set(dispatch), Pop>> \o Tests(kids),
             S(U), S(Untaken(N, n, Len(kids) + 1)))
  BY <1>2, <1>12, ChainJoin
<1>14. Chain(N, r, L, first \o Body(kids) \o <<Set(dispatch), Pop>> \o Tests(kids)
                      \o ToDefault(kids), S(U), S(Z))
  BY <1>3, <1>13, ChainJoin
<1>15. Chain(N, r, L, first \o Body(kids) \o <<Set(dispatch), Pop>> \o Tests(kids)
                      \o ToDefault(kids) \o last, S(U), Stage(V, b, c))
  BY <1>10, <1>14, ChainJoin
<1>16. QED
  BY <1>15, RunsChain DEF S, first, last, r, N


---------------------------------------------------------------------------
(* The code generated so far.  A has for each offset the states that may   *)
(* come there, L for each label of the function being compiled.            *)

Tiled(c, size) ==
  /\ size \in Nat /\ DOMAIN c \subseteq 0 .. size - 1
  /\ \A o \in DOMAIN c : /\ c[o].len \in Nat \ {0} /\ o + c[o].len <= size
                         /\ \A p \in DOMAIN c : o < p => o + c[o].len <= p

(* A jump of the function being compiled goes to its label, one of a       *)
(* function that is complete where its displacement says.                  *)
Open(o, start, done) == ~done /\ o >= start
Lies(c, o) == o + c[o].len + c[o].disp
FlowsAt(N, c, start, done, A, L, o) ==
  /\ Does(N, c[o], A[o], IF Open(o, start, done) THEN L[c[o].to] ELSE A[Lies(c, o)],
          A[o + c[o].len])
  /\ c[o].op \in JumpOps => IF Open(o, start, done) THEN c[o].to \in DOMAIN L
                            ELSE Lies(c, o) \in DOMAIN c

Flow(N, c, size, start, done, A, L) ==
  /\ Tiled(c, size) /\ DOMAIN A = Nat
  /\ \A o \in DOMAIN c : FlowsAt(N, c, start, done, A, L, o)
  /\ \A o \in Nat \ DOMAIN c : o # size => A[o] = {}
  /\ done => A[size] = {}

Below(A, B) == \A o \in Nat : A[o] \subseteq B[o]

(* More may come to where an instruction leads. *)
LEMMA DoesMore ==
  ASSUME NEW N, NEW ins, NEW U, NEW T, NEW V, Does(N, ins, U, T, V),
         NEW X1, ins.op \in JumpOps => T \subseteq X1, NEW Y1, V \subseteq Y1
  PROVE  Does(N, ins, U, X1, Y1)
<1>1. CASE ins.op \in JumpOps
  <2>1. Parts(ins.op, U, T, V)
    BY <1>1 DEF Does, JumpOps
  <2>2. Parts(ins.op, U, X1, Y1)
    BY <1>1, <2>1 DEF Parts
  <2>3. QED
    BY <1>1, <2>2 DEF Does
<1>2. CASE ins.op \notin JumpOps
  <2>1. CASE ins.op = "eval"
    <3>1. ins.arg # None /\ \E q \in Points(N) : /\ Evaluates(N, q) = ins.arg
                                    /\ U = On(N, q) /\ Valued(N, q) \subseteq V
      BY <2>1 DEF Does, JumpOps
    <3>2. \E q \in Points(N) : /\ Evaluates(N, q) = ins.arg
                               /\ U = On(N, q) /\ Valued(N, q) \subseteq Y1
      BY <3>1
    <3>3. QED
      BY <2>1, <3>1, <3>2 DEF Does
  <2>2. CASE ins.op = "ret"
    BY <2>2 DEF Does, JumpOps
  <2>3. CASE ins.op = "push"
    BY <2>3 DEF Does, JumpOps
  <2>4. CASE ins.op = "pop"
    BY <2>4 DEF Does, JumpOps
  <2>5. CASE ins.op = "cmp"
    BY <2>5 DEF Does, JumpOps
  <2>6. CASE ins.op = "prologue"
    BY <2>6 DEF Does, JumpOps
  <2>7. QED
    BY <1>2, <2>1, <2>2, <2>3, <2>4, <2>5, <2>6 DEF Does
<1>3. QED
  BY <1>1, <1>2

(* An instruction lies within the code. *)
LEMMA TiledIs ==
  ASSUME NEW c, NEW size, Tiled(c, size), NEW o \in DOMAIN c
  PROVE  /\ size \in Nat /\ o \in Nat /\ o < size /\ o # size
         /\ c[o].len \in Nat \ {0} /\ o + c[o].len \in Nat /\ o + c[o].len <= size
<1>1. size \in Nat /\ DOMAIN c \subseteq 0 .. size - 1 /\ c[o].len \in Nat \ {0} /\ o + c[o].len <= size
  BY DEF Tiled
<1>2. o \in 0 .. size - 1
  BY <1>1
<1>3. QED
  BY <1>1, <1>2

(* More labels. *)
LEMMA FlowLabels ==
  ASSUME NEW N, NEW c, NEW size, NEW start, NEW done, NEW A, NEW L,
         Flow(N, c, size, start, done, A, L), NEW M, Extends(L, M)
  PROVE  Flow(N, c, size, start, done, A, M)
<1> SUFFICES ASSUME NEW o \in DOMAIN c PROVE FlowsAt(N, c, start, done, A, M, o)
  BY DEF Flow
<1>1. FlowsAt(N, c, start, done, A, L, o)
  BY DEF Flow
<1>2. CASE c[o].op \in JumpOps /\ Open(o, start, done)
  <2>1. c[o].to \in DOMAIN L /\ c[o].to \in DOMAIN M /\ M[c[o].to] = L[c[o].to]
    BY <1>1, <1>2 DEF FlowsAt, Extends
  <2>2. QED
    BY <1>1, <1>2, <2>1 DEF FlowsAt
<1>3. CASE ~(c[o].op \in JumpOps /\ Open(o, start, done))
  <2>1. Does(N, c[o], A[o], IF Open(o, start, done) THEN M[c[o].to] ELSE A[Lies(c, o)],
             A[o + c[o].len])
    <3>1. Does(N, c[o], A[o], IF Open(o, start, done) THEN L[c[o].to] ELSE A[Lies(c, o)],
             A[o + c[o].len])
      BY <1>1 DEF FlowsAt
    <3>2. c[o].op \in JumpOps =>
            (IF Open(o, start, done) THEN L[c[o].to] ELSE A[Lies(c, o)])
            \subseteq (IF Open(o, start, done) THEN M[c[o].to] ELSE A[Lies(c, o)])
      BY <1>3
    <3>3. QED
      BY <3>1, <3>2, DoesMore
  <2>2. QED
    BY <1>1, <1>3, <2>1 DEF FlowsAt
<1>4. QED
  BY <1>2, <1>3

(* More may come to the end of the code: what is there is unchanged. *)
LEMMA FlowsMore ==
  ASSUME NEW N, NEW c, NEW start, NEW done, NEW A, NEW B, NEW L, NEW o \in Nat,
         FlowsAt(N, c, start, done, A, L, o), c[o].len \in Nat,
         B[o] = A[o], Below(A, B),
         c[o].op \in JumpOps /\ ~Open(o, start, done) => Lies(c, o) \in Nat
  PROVE  FlowsAt(N, c, start, done, B, L, o)
<1>1. A[o + c[o].len] \subseteq B[o + c[o].len]
  BY DEF Below
<1>2. c[o].op \in JumpOps =>
            (IF Open(o, start, done) THEN L[c[o].to] ELSE A[Lies(c, o)])
            \subseteq (IF Open(o, start, done) THEN L[c[o].to] ELSE B[Lies(c, o)])
  BY DEF Below
<1>3. Does(N, c[o], A[o], IF Open(o, start, done) THEN L[c[o].to] ELSE A[Lies(c, o)],
             A[o + c[o].len])
  BY DEF FlowsAt
<1>4. Does(N, c[o], B[o], IF Open(o, start, done) THEN L[c[o].to] ELSE B[Lies(c, o)],
             B[o + c[o].len])
  BY <1>1, <1>2, <1>3, DoesMore
<1>5. QED
  BY <1>4 DEF FlowsAt

(* More may come to the end of the code, as nothing stands there yet. *)
LEMMA FlowRaised ==
  ASSUME NEW N, NEW c, NEW size, NEW start, NEW A, NEW L, NEW done, ~done,
         Flow(N, c, size, start, done, A, L), NEW V, A[size] \subseteq V
  PROVE  \E B : /\ Flow(N, c, size, start, done, B, L)
                /\ B[size] = V /\ Below(A, B)
<1> DEFINE B == [o \in Nat |-> IF o = size THEN V ELSE A[o]]
<1>0. size \in Nat
  BY DEF Flow, Tiled
<1>1. DOMAIN B = Nat /\ B[size] = V /\ Below(A, B) /\ \A o \in Nat : o # size => B[o] = A[o]
  BY <1>0 DEF Below
<1> HIDE DEF B
<1>2. ASSUME NEW o \in DOMAIN c PROVE FlowsAt(N, c, start, done, B, L, o)
  <2>1. FlowsAt(N, c, start, done, A, L, o)
    BY DEF Flow
  <2>2. o \in Nat /\ o # size /\ c[o].len \in Nat
    BY TiledIs DEF Flow
  <2>3. c[o].op \in JumpOps /\ ~Open(o, start, done) => Lies(c, o) \in Nat
    BY <2>1, TiledIs DEF Flow, FlowsAt
  <2>4. QED
    BY <1>1, <2>1, <2>2, <2>3, FlowsMore
<1>3. Flow(N, c, size, start, done, B, L)
  BY <1>1, <1>2 DEF Flow
<1>4. QED
  BY <1>1, <1>3

(* An instruction is put behind the code. *)
Puts(c, size, ins, d) == d = [o \in DOMAIN c \cup {size} |-> IF o = size THEN ins ELSE c[o]]
Follows(N, A, L, size, ins, W, V) ==
  /\ ins.len \in Nat \ {0} /\ (ins.op \in JumpOps => ins.to \in DOMAIN L)
  /\ A[size] \subseteq W /\ Does(N, ins, W, L[ins.to], V)

(* An instruction put behind the code: what comes to the end comes to it,  *)
(* and what it does comes to the new end.                                  *)
LEMMA FlowPut ==
  ASSUME NEW N, NEW c, NEW size, NEW start, NEW A, NEW L, NEW done, ~done,
         Flow(N, c, size, start, done, A, L), start \in Nat, start <= size,
         NEW ins, NEW W, NEW V, Follows(N, A, L, size, ins, W, V),
         NEW d, Puts(c, size, ins, d)
  PROVE  \E B : /\ Flow(N, d, size + ins.len, start, done, B, L)
                /\ B[size + ins.len] = V /\ Below(A, B)
<1>0. /\ ins.len \in Nat \ {0} /\ (ins.op \in JumpOps => ins.to \in DOMAIN L)
      /\ A[size] \subseteq W /\ Does(N, ins, W, L[ins.to], V)
      /\ d = [o \in DOMAIN c \cup {size} |-> IF o = size THEN ins ELSE c[o]]
  BY DEF Follows, Puts
<1> DEFINE new == size + ins.len
           B == [o \in Nat |-> IF o = size THEN W ELSE IF o = new THEN V ELSE A[o]]
<1>11. size \in Nat /\ new \in Nat /\ new # size /\ size < new
  BY <1>0 DEF Flow, Tiled
<1>1. /\ DOMAIN d = DOMAIN c \cup {size} /\ d[size] = ins
      /\ \A o \in DOMAIN c : d[o] = c[o] /\ o # size
  BY <1>0, TiledIs DEF Flow
<1>2. Tiled(d, new)
  <2>1. DOMAIN d \subseteq 0 .. new - 1
    <3>1. \A o \in DOMAIN c : o \in 0 .. new - 1
      <4> TAKE o \in DOMAIN c
      <4>1. o \in Nat /\ o < size
        BY TiledIs DEF Flow
      <4>2. QED
        BY <1>11, <4>1
    <3>2. size \in 0 .. new - 1
      BY <1>11
    <3>3. QED
      BY <1>1, <3>1, <3>2
  <2>2. ASSUME NEW o \in DOMAIN d
        PROVE  /\ d[o].len \in Nat \ {0} /\ o + d[o].len <= new
               /\ \A p \in DOMAIN d : o < p => o + d[o].len <= p
    <3>1. CASE o = size
      <4>1. \A p \in DOMAIN c : ~(o < p)
        BY <3>1, TiledIs DEF Flow
      <4>2. QED
        BY <1>0, <1>11, <1>1, <3>1, <4>1
    <3>2. CASE o # size
      <4>1. o \in DOMAIN c /\ d[o] = c[o]
        BY <1>1, <3>2
      <4>2. c[o].len \in Nat \ {0} /\ o + c[o].len <= size /\ o + c[o].len \in Nat
        BY <4>1, TiledIs DEF Flow
      <4>3. \A p \in DOMAIN c : o < p => o + c[o].len <= p
        BY <4>1 DEF Flow, Tiled
      <4>4. o + c[o].len <= new
        BY <1>11, <4>2
      <4>5. QED
        BY <1>1, <4>1, <4>2, <4>3, <4>4
    <3>3. QED
      BY <3>1, <3>2
  <2>3. QED
    BY <1>11, <2>1, <2>2 DEF Tiled
<1>3. A[new] = {}
  <2>1. new \notin DOMAIN c
    <3>1. \A o \in DOMAIN c : o # new
      <4> TAKE o \in DOMAIN c
      <4>1. o \in Nat /\ o < size
        BY TiledIs DEF Flow
      <4>2. QED
        BY <1>11, <4>1
    <3>2. QED
      BY <3>1
  <2> HIDE DEF new
  <2>2. QED
    BY <1>11, <2>1 DEF Flow
<1>4. DOMAIN B = Nat /\ B[size] = W /\ B[new] = V /\ \A o \in Nat : o # size /\ o # new => B[o] = A[o]
  BY <1>11
<1> HIDE DEF B
<1>5. Below(A, B)
  <2> SUFFICES ASSUME NEW o \in Nat PROVE A[o] \subseteq B[o]
    BY DEF Below
  <2> HIDE DEF new
  <2>1. CASE o = size
    BY <1>0, <1>4, <2>1
  <2>2. CASE o = new
    BY <1>3, <1>4, <2>2
  <2>3. CASE o # size /\ o # new
    BY <1>4, <2>3
  <2>4. QED
    BY <2>1, <2>2, <2>3
<1>6. ASSUME NEW o \in DOMAIN d PROVE FlowsAt(N, d, start, done, B, L, o)
  <2>1. CASE o = size
    <3>1. Open(o, start, done)
      BY <1>11, <2>1 DEF Open
    <3>2. Does(N, ins, B[o], L[ins.to], B[o + ins.len])
      BY <1>0, <1>4, <2>1
    <3>3. QED
      BY <1>0, <1>1, <2>1, <3>1, <3>2 DEF FlowsAt
  <2>2. CASE o # size
    <3>1. o \in DOMAIN c /\ d[o] = c[o]
      BY <1>1, <2>2
    <3>2. FlowsAt(N, c, start, done, A, L, o)
      BY <3>1 DEF Flow
    <3>3. o \in Nat /\ o < size /\ c[o].len \in Nat
      BY <3>1, TiledIs DEF Flow
    <3>4. B[o] = A[o]
      BY <1>11, <1>4, <3>3
    <3>5. c[o].op \in JumpOps /\ ~Open(o, start, done) => Lies(c, o) \in DOMAIN c
      BY <3>2 DEF FlowsAt
    <3>6. c[o].op \in JumpOps /\ ~Open(o, start, done) => Lies(c, o) \in Nat
      BY <3>5, TiledIs DEF Flow
    <3>7. FlowsAt(N, c, start, done, B, L, o)
      BY <1>5, <3>2, <3>3, <3>4, <3>6, FlowsMore
    <3>8. Lies(d, o) = Lies(c, o)
      BY <3>1 DEF Lies
    <3>9. QED
      BY <1>1, <3>1, <3>7, <3>8 DEF FlowsAt
  <2>3. QED
    BY <2>1, <2>2
<1>7. \A o \in Nat \ DOMAIN d : o # new => B[o] = {}
  <2> SUFFICES ASSUME NEW o \in Nat, o \notin DOMAIN d, o # new PROVE B[o] = {}
    OBVIOUS
  <2>1. o # size /\ o \notin DOMAIN c
    BY <1>1
  <2>2. QED
    BY <1>4, <2>1 DEF Flow
<1> HIDE DEF new
<1>8. Flow(N, d, new, start, done, B, L)
  BY <1>2, <1>4, <1>6, <1>7 DEF Flow
<1>9. QED
  BY <1>4, <1>5, <1>8 DEF new

(* What a jump does depends on its operation alone. *)
LEMMA DoesJump ==
  ASSUME NEW N, NEW ins, ins.op \in JumpOps, NEW U, NEW T, NEW V
  PROVE  Does(N, ins, U, T, V) <=> Parts(ins.op, U, T, V)
BY DEF Does, JumpOps

(* The function is complete, the code is d and its jumps are patched. *)
Completes(c, d, size, start, A, L) ==
  /\ DOMAIN d = DOMAIN c
  /\ \A o \in DOMAIN c : d[o].op = c[o].op /\ d[o].len = c[o].len
  /\ \A o \in DOMAIN c : o < start \/ c[o].op \notin JumpOps => d[o] = c[o]
  /\ \A o \in DOMAIN c : o >= start /\ c[o].op \in JumpOps =>
       Lies(d, o) \in DOMAIN c /\ L[c[o].to] \subseteq A[Lies(d, o)]
  /\ \A o \in DOMAIN c : o + c[o].len = size => c[o].op = "ret"
Whole(N, d, size, B) ==
  /\ Tiled(d, size) /\ DOMAIN B = Nat /\ B[size] = {}
  /\ \A o \in Nat \ DOMAIN d : o # size => B[o] = {}
  /\ \A o \in DOMAIN d : /\ Does(N, d[o], B[o], B[Lies(d, o)], B[o + d[o].len])
                         /\ d[o].op \in JumpOps => Lies(d, o) \in DOMAIN d
Elsewhere(A, B, size) == \A o \in Nat : o # size => B[o] = A[o]

(* When its jumps are patched the function is part of the complete code,   *)
(* and nothing comes to the end of it.                                     *)
LEMMA FlowFinish ==
  ASSUME NEW N, NEW c, NEW size, NEW start, NEW A, NEW L, NEW done, ~done,
         Flow(N, c, size, start, done, A, L), start \in Nat,
         NEW d, Completes(c, d, size, start, A, L)
  PROVE  \E B : Whole(N, d, size, B) /\ Elsewhere(A, B, size)
<1>7. /\ DOMAIN d = DOMAIN c
      /\ \A o \in DOMAIN c : d[o].op = c[o].op /\ d[o].len = c[o].len
      /\ \A o \in DOMAIN c : o < start \/ c[o].op \notin JumpOps => d[o] = c[o]
      /\ \A o \in DOMAIN c : o >= start /\ c[o].op \in JumpOps =>
           Lies(d, o) \in DOMAIN c /\ L[c[o].to] \subseteq A[Lies(d, o)]
      /\ \A o \in DOMAIN c : o + c[o].len = size => c[o].op = "ret"
  BY DEF Completes
<1> DEFINE B == [o \in Nat |-> IF o = size THEN {} ELSE A[o]]
<1>0. size \in Nat
  BY DEF Flow, Tiled
<1>1. DOMAIN B = Nat /\ B[size] = {} /\ \A o \in Nat : o # size => B[o] = A[o]
  BY <1>0
<1> HIDE DEF B
<1>2. Tiled(d, size)
  BY <1>7 DEF Flow, Tiled
<1>3. ASSUME NEW o \in DOMAIN d
      PROVE  /\ Does(N, d[o], B[o], B[Lies(d, o)], B[o + d[o].len])
             /\ d[o].op \in JumpOps => Lies(d, o) \in DOMAIN d
  <2>1. /\ o \in DOMAIN c /\ o \in Nat /\ o # size /\ B[o] = A[o]
        /\ c[o].len \in Nat /\ o + c[o].len \in Nat
        /\ d[o].op = c[o].op /\ d[o].len = c[o].len
    BY <1>1, <1>7, TiledIs DEF Flow
  <2>2. FlowsAt(N, c, start, done, A, L, o)
    BY <2>1 DEF Flow
  <2>3. \A p \in DOMAIN c : B[p] = A[p]
    <3> TAKE p \in DOMAIN c
    <3>1. p \in Nat /\ p # size
      BY TiledIs DEF Flow
    <3>2. QED
      BY <1>1, <3>1
  <2>4. CASE c[o].op \in JumpOps
    <3>1. o + c[o].len # size
      BY <1>7, <2>1, <2>4 DEF JumpOps
    <3>2. B[o + c[o].len] = A[o + c[o].len]
      BY <1>1, <2>1, <3>1
    <3>3. Lies(d, o) \in DOMAIN c /\ Parts(c[o].op, A[o], A[Lies(d, o)], A[o + c[o].len])
      <4>1. CASE o < start
        <5>1. d[o] = c[o] /\ ~Open(o, start, done)
          BY <1>7, <2>1, <4>1 DEF Open
        <5>2. Lies(d, o) = Lies(c, o)
          BY <5>1 DEF Lies
        <5>3. QED
          BY <2>2, <2>4, <5>1, <5>2, DoesJump DEF FlowsAt
      <4>2. CASE o >= start
        <5>1. Lies(d, o) \in DOMAIN c /\ L[c[o].to] \subseteq A[Lies(d, o)] /\ Open(o, start, done)
          BY <1>7, <2>1, <2>4, <4>2 DEF Open
        <5>2. Parts(c[o].op, A[o], L[c[o].to], A[o + c[o].len])
          BY <2>2, <2>4, <5>1, DoesJump DEF FlowsAt
        <5>3. QED
          BY <5>1, <5>2 DEF Parts
      <4>3. QED
        BY <2>1, <4>1, <4>2
    <3>4. Parts(d[o].op, B[o], B[Lies(d, o)], B[o + d[o].len])
      BY <2>1, <2>3, <3>2, <3>3
    <3>5. QED
      BY <1>7, <2>1, <2>4, <3>3, <3>4, DoesJump
  <2>5. CASE c[o].op \notin JumpOps
    <3>1. d[o] = c[o]
      BY <1>7, <2>1, <2>5
    <3>2. \E T : Does(N, c[o], A[o], T, A[o + c[o].len])
      BY <2>2, Zenon DEF FlowsAt
    <3>3. Does(N, c[o], B[o], B[Lies(d, o)], B[o + c[o].len])
      <4>1. CASE o + c[o].len = size
        BY <1>7, <2>1, <2>5, <3>2, <4>1 DEF Does, JumpOps
      <4>2. CASE o + c[o].len # size
        <5>1. B[o + c[o].len] = A[o + c[o].len]
          BY <1>1, <2>1, <4>2
        <5>2. PICK T : Does(N, c[o], A[o], T, A[o + c[o].len])
          BY <3>2
        <5>3. QED
          BY <2>1, <2>5, <5>1, <5>2, DoesMore
      <4>3. QED
        BY <4>1, <4>2
    <3>4. QED
      BY <2>1, <2>5, <3>1, <3>3
  <2>6. QED
    BY <2>4, <2>5
<1>4. \A o \in Nat \ DOMAIN d : o # size => B[o] = {}
  BY <1>1, <1>7 DEF Flow
<1>8. \A o \in DOMAIN d : /\ Does(N, d[o], B[o], B[Lies(d, o)], B[o + d[o].len])
                          /\ d[o].op \in JumpOps => Lies(d, o) \in DOMAIN d
  BY <1>3
<1>5. Whole(N, d, size, B)
  BY <1>1, <1>2, <1>4, <1>8 DEF Whole
<1>6. QED
  BY <1>1, <1>5 DEF Elsewhere

---------------------------------------------------------------------------
(* Labels that are used are set in the end.  tab are those set so far, gt  *)
(* is the table of goto.                                                   *)

In(w, x)             == \E i \in DOMAIN w : w[i] = x
Promised(w, tab, id) == id \in tab \/ In(w, Set(id))
Waiting(N, w, m)     == \E n : In(w, Stmt(n)) /\ Under(N, m, n)
LabelIn(N, r, m)     == m \in DOMAIN N /\ N[m].k = "label" /\ Root(N, m) = r

(* What the table of goto says. *)
Told(N, r, L, gt) ==
  /\ \A i \in DOMAIN gt :
       /\ gt[i].id \in DOMAIN L
       /\ \E m : /\ LabelIn(N, r, m) /\ N[m].name = gt[i].name
                 /\ L[gt[i].id] = On(N, At("leave", m))
  /\ \A i, j \in DOMAIN gt : gt[i].name = gt[j].name => i = j

Promises(N, r, L, w, tab, gt) ==
  /\ Told(N, r, L, gt)
  /\ \A id \in DOMAIN L : Promised(w, tab, id) \/ \E i \in DOMAIN gt : gt[i].id = id
  /\ \A m : LabelIn(N, r, m) =>
       \/ Waiting(N, w, m)
       \/ \E i \in DOMAIN gt : gt[i].name = N[m].name /\ Promised(w, tab, gt[i].id)

(* What two lists have one of them has. *)
LEMMA InJoin ==
  ASSUME NEW v, Listed(v), NEW w, Listed(w), NEW x
  PROVE  In(v \o w, x) <=> In(v, x) \/ In(w, x)
<1>1. PICK S : v \in Seq(S) /\ w \in Seq(S) /\ v \o w \in Seq(S)
  BY ListedJoin
<1>2. /\ Len(v) \in Nat /\ Len(w) \in Nat /\ DOMAIN v = 1 .. Len(v) /\ DOMAIN w = 1 .. Len(w)
      /\ DOMAIN (v \o w) = 1 .. Len(v) + Len(w)
      /\ \A i \in 1 .. Len(v) + Len(w) :
           (v \o w)[i] = IF i <= Len(v) THEN v[i] ELSE w[i - Len(v)]
  BY <1>1
<1>3. ASSUME NEW i \in DOMAIN v PROVE In(v \o w, v[i])
  <2>1. i \in DOMAIN (v \o w) /\ (v \o w)[i] = v[i]
    BY <1>2
  <2>2. QED
    BY <2>1 DEF In
<1>4. ASSUME NEW i \in DOMAIN w PROVE In(v \o w, w[i])
  <2>1. Len(v) + i \in DOMAIN (v \o w) /\ (v \o w)[Len(v) + i] = w[i]
    BY <1>2
  <2>2. QED
    BY <2>1 DEF In
<1>5. ASSUME NEW i \in DOMAIN (v \o w) PROVE In(v, (v \o w)[i]) \/ In(w, (v \o w)[i])
  <2>1. CASE i <= Len(v)
    <3>1. i \in DOMAIN v /\ (v \o w)[i] = v[i]
      BY <1>2, <2>1
    <3>2. QED
      BY <3>1 DEF In
  <2>2. CASE ~(i <= Len(v))
    <3>1. i - Len(v) \in DOMAIN w /\ (v \o w)[i] = w[i - Len(v)]
      BY <1>2, <2>2
    <3>2. QED
      BY <3>1 DEF In
  <2>3. QED
    BY <2>1, <2>2
<1>6. QED
  BY <1>3, <1>4, <1>5 DEF In

(* What a list has is its first item or one of the others. *)
LEMMA InHead ==
  ASSUME NEW w, Listed(w), w # <<>>, NEW x
  PROVE  In(w, x) <=> w[1] = x \/ In(Tail(w), x)
<1>1. PICK S : w \in Seq(S)
  BY DEF Listed
<1>2. /\ Len(w) \in Nat /\ Len(w) # 0 /\ DOMAIN w = 1 .. Len(w)
      /\ DOMAIN Tail(w) = 1 .. Len(w) - 1 /\ \A i \in 1 .. Len(w) - 1 : Tail(w)[i] = w[i + 1]
  BY <1>1
<1>3. ASSUME NEW i \in DOMAIN w PROVE w[1] = w[i] \/ In(Tail(w), w[i])
  <2>1. CASE i # 1
    <3>1. i - 1 \in DOMAIN Tail(w) /\ Tail(w)[i - 1] = w[i]
      BY <1>2, <2>1
    <3>2. QED
      BY <3>1 DEF In
  <2>2. QED
    BY <2>1
<1>4. ASSUME NEW i \in DOMAIN Tail(w) PROVE In(w, Tail(w)[i])
  <2>1. i + 1 \in DOMAIN w /\ w[i + 1] = Tail(w)[i]
    BY <1>2
  <2>2. QED
    BY <2>1 DEF In
<1>5. In(w, w[1])
  BY <1>2 DEF In
<1>6. QED
  BY <1>3, <1>4, <1>5 DEF In

(* The first item of the work is replaced by others. *)
LEMMA PromisesReplaced ==
  ASSUME NEW N, NEW r, NEW L, NEW w, Listed(w), w # <<>>, NEW tab, NEW gt,
         Promises(N, r, L, w, tab, gt),
         NEW M, Extends(L, M), NEW s, Listed(s), NEW tab1, tab \subseteq tab1,
         NEW gt1, DOMAIN gt \subseteq DOMAIN gt1, \A i \in DOMAIN gt : gt1[i] = gt[i],
         Told(N, r, M, gt1),
         \A id : w[1] = Set(id) => id \in tab1,
         \A id \in DOMAIN M : id \notin DOMAIN L =>
           In(s, Set(id)) \/ \E i \in DOMAIN gt1 : gt1[i].id = id,
         \A n, m : w[1] = Stmt(n) /\ LabelIn(N, r, m) /\ Under(N, m, n) =>
           \/ Waiting(N, s, m)
           \/ \E i \in DOMAIN gt1 : gt1[i].name = N[m].name /\ In(s, Set(gt1[i].id))
  PROVE  Promises(N, r, M, s \o Tail(w), tab1, gt1)
<1> DEFINE u == s \o Tail(w)
<1>0. Listed(Tail(w))
  <2>1. PICK S : w \in Seq(S)
    BY DEF Listed
  <2>2. Tail(w) \in Seq(S)
    BY <2>1, FirstAndRest
  <2>3. QED
    BY <2>2 DEF Listed
<1>1. \A x : In(u, x) <=> In(s, x) \/ In(Tail(w), x)
  BY <1>0, InJoin
<1> HIDE DEF u
<1>2. \A x : In(w, x) <=> w[1] = x \/ In(Tail(w), x)
  BY InHead
<1>3. \A id : Promised(w, tab, id) => Promised(u, tab1, id)
  BY <1>1, <1>2 DEF Promised
<1>4. ASSUME NEW id \in DOMAIN M
      PROVE  Promised(u, tab1, id) \/ \E i \in DOMAIN gt1 : gt1[i].id = id
  <2>1. CASE id \in DOMAIN L
    <3>1. Promised(w, tab, id) \/ \E i \in DOMAIN gt : gt[i].id = id
      BY <2>1 DEF Promises
    <3>2. QED
      BY <1>3, <3>1
  <2>2. CASE id \notin DOMAIN L
    BY <1>1, <2>2 DEF Promised
  <2>3. QED
    BY <2>1, <2>2
<1>5. ASSUME NEW m, LabelIn(N, r, m)
      PROVE  \/ Waiting(N, u, m)
             \/ \E i \in DOMAIN gt1 : gt1[i].name = N[m].name /\ Promised(u, tab1, gt1[i].id)
  <2>1. CASE Waiting(N, w, m)
    <3>1. PICK n : In(w, Stmt(n)) /\ Under(N, m, n)
      BY <2>1 DEF Waiting
    <3>2. CASE In(Tail(w), Stmt(n))
      BY <1>1, <3>1, <3>2 DEF Waiting
    <3>3. CASE w[1] = Stmt(n)
      <4>1. \/ Waiting(N, s, m)
            \/ \E i \in DOMAIN gt1 : gt1[i].name = N[m].name /\ In(s, Set(gt1[i].id))
        BY <1>5, <3>1, <3>3
      <4>2. CASE Waiting(N, s, m)
        BY <1>1, <4>2 DEF Waiting
      <4>3. CASE \E i \in DOMAIN gt1 : gt1[i].name = N[m].name /\ In(s, Set(gt1[i].id))
        BY <1>1, <4>3 DEF Promised
      <4>4. QED
        BY <4>1, <4>2, <4>3
    <3>4. QED
      BY <1>2, <3>1, <3>2, <3>3
  <2>2. CASE ~Waiting(N, w, m)
    <3>1. PICK i \in DOMAIN gt : gt[i].name = N[m].name /\ Promised(w, tab, gt[i].id)
      BY <1>5, <2>2 DEF Promises
    <3>2. i \in DOMAIN gt1 /\ gt1[i] = gt[i] /\ Promised(u, tab1, gt1[i].id)
      BY <1>3, <3>1
    <3>3. QED
      BY <3>1, <3>2
  <2>3. QED
    BY <2>1, <2>2
<1>6. Promises(N, r, M, u, tab1, gt1)
  BY <1>4, <1>5 DEF Promises
<1>7. QED
  BY <1>6 DEF u

(* The table of goto stays right with more labels. *)
LEMMA ToldMore ==
  ASSUME NEW N, NEW r, NEW L, NEW gt, Told(N, r, L, gt), NEW M, Extends(L, M)
  PROVE  Told(N, r, M, gt)
<1>1. ASSUME NEW i \in DOMAIN gt
      PROVE  /\ gt[i].id \in DOMAIN M
             /\ \E m : /\ LabelIn(N, r, m) /\ N[m].name = gt[i].name
                       /\ M[gt[i].id] = On(N, At("leave", m))
  <2>1. gt[i].id \in DOMAIN L
    BY DEF Told
  <2>2. PICK m : /\ LabelIn(N, r, m) /\ N[m].name = gt[i].name
                 /\ L[gt[i].id] = On(N, At("leave", m))
    BY DEF Told
  <2>3. gt[i].id \in DOMAIN M /\ M[gt[i].id] = L[gt[i].id]
    BY <2>1 DEF Extends
  <2>4. QED
    BY <2>2, <2>3
<1>2. \A i, j \in DOMAIN gt : gt[i].name = gt[j].name => i = j
  BY DEF Told
<1>3. QED
  BY <1>1, <1>2 DEF Told

(* When no work is left, every label is set. *)
LEMMA AllSet ==
  ASSUME NEW N, NEW r, NEW L, NEW tab, NEW gt, Promises(N, r, L, <<>>, tab, gt)
  PROVE  DOMAIN L \subseteq tab
<1>1. \A x : ~In(<<>>, x)
  BY DEF In
<1> SUFFICES ASSUME NEW id \in DOMAIN L, id \notin tab PROVE FALSE
  OBVIOUS
<1>2. PICK i \in DOMAIN gt : gt[i].id = id
  BY <1>1 DEF Promises, Promised
<1>3. PICK m : LabelIn(N, r, m) /\ N[m].name = gt[i].name
  BY DEF Promises, Told
<1>4. PICK j \in DOMAIN gt : gt[j].name = N[m].name /\ gt[j].id \in tab
  BY <1>1, <1>3 DEF Promises, Promised, Waiting
<1>5. i = j
  BY <1>3, <1>4 DEF Promises, Told
<1>6. QED
  BY <1>2, <1>4, <1>5

(* The labels in a statement are those in its parts. *)
LEMMA LabelsBelow ==
  ASSUME NEW N, Tree(N), NEW n \in DOMAIN N, N[n].k # "label", NEW s,
         \A i \in DOMAIN N[n].kids :
           \/ In(s, Stmt(N[n].kids[i]))
           \/ N[N[n].kids[i]].k # "label" /\ N[N[n].kids[i]].kids = <<>>,
         NEW m, N[m].k = "label", Under(N, m, n)
  PROVE  Waiting(N, s, m)
<1>1. m # n
  OBVIOUS
<1>2. PICK i \in DOMAIN N[n].kids : Under(N, m, N[n].kids[i])
  BY <1>1, UnderIs
<1> DEFINE x == N[n].kids[i]
<1>3. x \in DOMAIN N
  BY KidOf
<1>4. CASE In(s, Stmt(x))
  BY <1>2, <1>4 DEF Waiting
<1>5. CASE N[x].k # "label" /\ N[x].kids = <<>>
  <2>1. m # x
    BY <1>5
  <2>2. \E j \in DOMAIN N[x].kids : Under(N, m, N[x].kids[j])
    BY <1>2, <1>3, <2>1, UnderIs
  <2>3. QED
    BY <1>5, <2>2
<1>6. QED
  BY <1>4, <1>5

---------------------------------------------------------------------------
(* The invariant of the compiler. *)

Body0      == src.funcs[fn]
SetIds     == {labelTab[k].id : k \in DOMAIN labelTab}
Entry(f)   == On(Nodes, At("enter", f))

Entries(A) ==
  /\ symbols \in Seq([start : Nat, size : Int])
  /\ Len(symbols) = IF patched THEN fn ELSE fn - 1
  /\ \A f \in DOMAIN symbols : /\ symbols[f].start < codeSize
                               /\ Entry(src.funcs[f]) \subseteq A[symbols[f].start]
  /\ ~patched => Entry(Body0) \subseteq A[funcStart]

Ahead(A, L) ==
  /\ DOMAIN L \subseteq Ids(counter)
  /\ \A k \in DOMAIN labelTab : /\ labelTab[k].id \in DOMAIN L
                                /\ L[labelTab[k].id] \subseteq A[labelTab[k].off]
  /\ \E f : /\ f.set = On(Nodes, At("ret", Body0))
            /\ Runs(Nodes, Body0, L, work, A[codeSize], brk, cont, f)
  /\ Promises(Nodes, Body0, L, work, SetIds, gotoTab)
  /\ funcStart = codeSize => work # <<>> /\ work[1] = Prologue

Good(A, L) ==
  /\ Flow(Nodes, code, codeSize, funcStart, patched, A, L)
  /\ Entries(A)
  /\ ~patched => Ahead(A, L)

(* A statement stays in its place with more labels. *)
LEMMA PlacedMore ==
  ASSUME NEW N, NEW L, NEW M, Extends(L, M), NEW n, NEW U, NEW b, NEW c, NEW V,
         Placed(N, L, n, U, b, c, V)
  PROVE  Placed(N, M, n, U, b, c, V)
BY AimsMore DEF Placed

(* Items are what their constructors make. *)
LEMMA HeldAs ==
  ASSUME NEW f, NEW c, NEW i \in Items(f, c)
  PROVE  /\ i.do = "stmt" => i = Stmt(i.n)
         /\ i.do = "jump" => i = Jmp(i.op, i.id)
         /\ i.do = "set" => i = Set(i.id)
         /\ i.do = "emit" => i = Put1(i.ins)
         /\ i.do = "test" => i = Test(i.n, i.id)
         /\ i.do = "restore" => i = Restore(i.brk, i.cont)
<1>1. i \in StmtItems(f, c) => i.do = "stmt" /\ i = Stmt(i.n)
  BY DEF StmtItems, Stmt
<1>2. i \in JumpItems(c) => i.do = "jump" /\ i = Jmp(i.op, i.id)
  BY DEF JumpItems, Jmp
<1>3. i \in SetItems(c) => i.do = "set" /\ i = Set(i.id)
  BY DEF SetItems, Set
<1>4. i \in EmitItems => i.do = "emit" /\ i = Put1(i.ins)
  BY DEF EmitItems, Put1
<1>5. i \in TestItems(f, c) => i.do = "test" /\ i = Test(i.n, i.id)
  BY DEF TestItems, Test
<1>6. i \in RestoreItems(c) => i.do = "restore" /\ i = Restore(i.brk, i.cont)
  BY DEF RestoreItems, Restore
<1>7. QED
  BY <1>1, <1>2, <1>3, <1>4, <1>5, <1>6 DEF Items

(* The next item of the work, and what follows it. *)
LEMMA Opened ==
  ASSUME CgenInv, NEW A, NEW L, Good(A, L), work # <<>>
  PROVE  /\ Ahead(A, L) /\ ~patched /\ Listed(work) /\ Listed(Rest)
         /\ \E W, g, f : /\ A[codeSize] \subseteq W
                         /\ Fits(Nodes, Body0, L, Head1, Stage(W, brk, cont), g)
                         /\ Chain(Nodes, Body0, L, Rest, g, f)
                         /\ f.set = On(Nodes, At("ret", Body0))
<1>1. ~patched /\ Ahead(A, L)
  BY Next1 DEF Good
<1>2. Listed(work) /\ Listed(Rest)
  BY Next1 DEF CgenInv, Listed
<1>3. PICK f : /\ f.set = On(Nodes, At("ret", Body0))
               /\ Runs(Nodes, Body0, L, work, A[codeSize], brk, cont, f)
  BY <1>1 DEF Ahead
<1>4. PICK W : A[codeSize] \subseteq W /\ Chain(Nodes, Body0, L, work, Stage(W, brk, cont), f)
  BY <1>3 DEF Runs
<1>5. PICK g : /\ Fits(Nodes, Body0, L, work[1], Stage(W, brk, cont), g)
               /\ Chain(Nodes, Body0, L, Tail(work), g, f)
  BY <1>4, ChainFirst
<1>6. QED
  BY <1>1, <1>2, <1>3, <1>4, <1>5 DEF Head1, Rest

(* A statement. *)
LEMMA OpenedStatement ==
  ASSUME CgenInv, NEW A, NEW L, Good(A, L), NEW k, At1(k)
  PROVE  /\ Ahead(A, L) /\ ~patched /\ Listed(work) /\ Listed(Rest) /\ work # <<>>
         /\ work[1] = Stmt(Head1.n) /\ Head1.n \in DOMAIN Nodes /\ X = Nodes[Head1.n]
         /\ X.k = k /\ Root(Nodes, Head1.n) = Body0 /\ funcStart # codeSize
         /\ \E W, V, f : /\ A[codeSize] \subseteq W
                         /\ Placed(Nodes, L, Head1.n, W, brk, cont, V)
                         /\ Chain(Nodes, Body0, L, Rest, Stage(V, brk, cont), f)
                         /\ f.set = On(Nodes, At("ret", Body0))
<1>1. /\ work # <<>> /\ Head1.n \in DOMAIN Nodes /\ X = Nodes[Head1.n] /\ X.k = k
      /\ Head1.do = "stmt"
  BY AtStatement DEF Nodes, At1
<1>2. work[1] = Stmt(Head1.n)
  BY <1>1, Next1, HeldAs DEF Head1
<1>3. Ahead(A, L) /\ ~patched /\ Listed(work) /\ Listed(Rest)
  BY <1>1, Opened
<1>4. PICK W, g, f : /\ A[codeSize] \subseteq W
                     /\ Fits(Nodes, Body0, L, Head1, Stage(W, brk, cont), g)
                     /\ Chain(Nodes, Body0, L, Rest, g, f)
                     /\ f.set = On(Nodes, At("ret", Body0))
  BY <1>1, Opened
<1> DEFINE n == Head1.n
           e == Stage(W, brk, cont)
<1>5. Fits(Nodes, Body0, L, Stmt(n), e, g)
  BY <1>2, <1>4 DEF Head1
<1>6. e.set = W /\ e.brk = brk /\ e.cont = cont
  BY StageIs
<1>7. /\ g = Stage(g.set, brk, cont) /\ Root(Nodes, n) = Body0
      /\ Placed(Nodes, L, n, W, brk, cont, g.set)
  BY <1>5, <1>6, FitsOfStmt DEF Placed
<1>8. funcStart # codeSize
  <2>1. Prologue.do = "emit" /\ Stmt(n).do = "stmt"
    BY DEF Prologue, Put1, Stmt
  <2>2. QED
    BY <1>2, <1>3, <2>1 DEF Ahead
<1> HIDE DEF e, n
<1>9. \E V : /\ Placed(Nodes, L, Head1.n, W, brk, cont, V)
             /\ Chain(Nodes, Body0, L, Rest, Stage(V, brk, cont), f)
  BY <1>4, <1>7 DEF n
<1>10. QED
  BY <1>1, <1>2, <1>3, <1>4, <1>7, <1>8, <1>9 DEF n

(* The work of the next item replaces it. *)
LEMMA Closed ==
  ASSUME NEW A, NEW L, Good(A, L), Ahead(A, L), ~patched, funcStart # codeSize,
         NEW M, Extends(L, M), DOMAIN M \subseteq Ids(counter'),
         NEW V, NEW b, NEW c, NEW f, f.set = On(Nodes, At("ret", Body0)),
         Chain(Nodes, Body0, L, Rest, Stage(V, b, c), f),
         NEW W, A[codeSize] \subseteq W,
         NEW s, Runs(Nodes, Body0, M, s, W, brk', cont', Stage(V, b, c)),
         work' = s \o Rest,
         Promises(Nodes, Body0, M, s \o Rest, SetIds, gotoTab'),
         UNCHANGED <<code, codeSize, labelTab, funcStart, patched, src, fn, symbols>>
  PROVE  Good(A, M)'
<1>1. Nodes' = Nodes /\ Body0' = Body0 /\ SetIds' = SetIds
  BY DEF Nodes, Body0, SetIds
<1>2. Flow(Nodes, code, codeSize, funcStart, patched, A, M)
  BY FlowLabels DEF Good
<1>3. Entries(A)'
  <2>1. Entries(A)
    BY DEF Good
  <2>2. QED
    BY <1>1, <2>1 DEF Entries, Entry
<1>4. PICK U : W \subseteq U /\ Chain(Nodes, Body0, M, s, Stage(U, brk', cont'), Stage(V, b, c))
  BY DEF Runs
<1>5. Chain(Nodes, Body0, M, Rest, Stage(V, b, c), f)
  BY ChainMore
<1>6. Chain(Nodes, Body0, M, s \o Rest, Stage(U, brk', cont'), f)
  BY <1>4, <1>5, ChainJoin
<1>7. Runs(Nodes, Body0, M, work', A[codeSize], brk', cont', f)
  BY <1>4, <1>6 DEF Runs
<1>8. \A k \in DOMAIN labelTab : /\ labelTab[k].id \in DOMAIN M
                                 /\ M[labelTab[k].id] \subseteq A[labelTab[k].off]
  BY DEF Ahead, Extends
<1>9. Ahead(A, M)'
  BY <1>1, <1>7, <1>8 DEF Ahead
<1>10. QED
  BY <1>1, <1>2, <1>3, <1>9 DEF Good

(* A statement other than a goto label is replaced by its code. *)
LEMMA Generated ==
  ASSUME CgenInv, NEW A, NEW L, Good(A, L), NEW k, At1(k), k # "label",
         NEW M, Extends(L, M), DOMAIN M \subseteq Ids(counter'),
         NEW s, work' = s \o Rest,
         \A W, V : Placed(Nodes, M, Head1.n, W, brk, cont, V) =>
           Runs(Nodes, Body0, M, s, W, brk', cont', Stage(V, brk, cont)),
         \A id \in DOMAIN M : id \notin DOMAIN L => In(s, Set(id)),
         \A i \in DOMAIN X.kids :
           \/ In(s, Stmt(X.kids[i]))
           \/ Nodes[X.kids[i]].k # "label" /\ Nodes[X.kids[i]].kids = <<>>,
         UNCHANGED <<code, codeSize, labelTab, funcStart, patched, src, fn, symbols, gotoTab>>
  PROVE  Good(A, M)'
<1> DEFINE n == Head1.n
<1>1. /\ Ahead(A, L) /\ ~patched /\ Listed(work) /\ Listed(Rest) /\ work # <<>>
      /\ work[1] = Stmt(n) /\ n \in DOMAIN Nodes /\ X = Nodes[n]
      /\ X.k = k /\ funcStart # codeSize
  BY OpenedStatement
<1>2. PICK W, V, f : /\ A[codeSize] \subseteq W
                     /\ Placed(Nodes, L, n, W, brk, cont, V)
                     /\ Chain(Nodes, Body0, L, Rest, Stage(V, brk, cont), f)
                     /\ f.set = On(Nodes, At("ret", Body0))
  BY OpenedStatement
<1>3. Runs(Nodes, Body0, M, s, W, brk', cont', Stage(V, brk, cont))
  BY <1>2, PlacedMore
<1>4. Listed(s)
  BY <1>3 DEF Runs, Chain
<1>5. Tree(Nodes)
  BY FileIsTree DEF CgenInv, Nodes
<1>6. ASSUME NEW m, NEW x, work[1] = Stmt(x), LabelIn(Nodes, Body0, m), Under(Nodes, m, x)
      PROVE  Waiting(Nodes, s, m)
  <2>1. x = n
    BY <1>1, <1>6 DEF Stmt
  <2>2. Nodes[n].k # "label" /\ Nodes[m].k = "label"
    BY <1>1, <1>6 DEF LabelIn
  <2>3. QED
    BY <1>1, <1>5, <1>6, <2>1, <2>2, LabelsBelow
<1>7. Promises(Nodes, Body0, L, work, SetIds, gotoTab)
  BY <1>1 DEF Ahead
<1>8. Told(Nodes, Body0, M, gotoTab)
  BY <1>7, ToldMore DEF Promises
<1>9. \A id : work[1] # Set(id)
  <2>1. Stmt(n).do = "stmt" /\ \A id : Set(id).do = "set"
    BY DEF Stmt, Set
  <2>2. QED
    BY <1>1, <2>1
<1>10. Promises(Nodes, Body0, M, s \o Rest, SetIds, gotoTab)
  BY <1>1, <1>4, <1>6, <1>7, <1>8, <1>9, PromisesReplaced DEF Rest
<1>11. QED
  BY <1>1, <1>2, <1>3, <1>10, Closed

(* Without new labels. *)
LEMMA GeneratedAlike ==
  ASSUME CgenInv, NEW A, NEW L, Good(A, L), NEW k, At1(k), k # "label",
         NEW s, work' = s \o Rest,
         \A W, V : Placed(Nodes, L, Head1.n, W, brk, cont, V) =>
           Runs(Nodes, Body0, L, s, W, brk, cont, Stage(V, brk, cont)),
         \A i \in DOMAIN X.kids : In(s, Stmt(X.kids[i])),
         UNCHANGED labelVars, KeepTargets
  PROVE  Good(A, L)'
<1>0. Ahead(A, L)
  BY OpenedStatement
<1>1. Extends(L, L) /\ DOMAIN L \subseteq Ids(counter')
  <2>1. Extends(L, L)
    BY DEF Extends
  <2>2. counter' = counter
    BY DEF labelVars
  <2>3. QED
    BY <1>0, <2>1, <2>2 DEF Ahead
<1>2. /\ UNCHANGED <<code, codeSize, labelTab, funcStart, patched, src, fn, symbols, gotoTab>>
      /\ brk' = brk /\ cont' = cont
  BY DEF labelVars, KeepTargets
<1>3. \A W, V : Placed(Nodes, L, Head1.n, W, brk, cont, V) =>
           Runs(Nodes, Body0, L, s, W, brk', cont', Stage(V, brk, cont))
  BY <1>2
<1>4. \A id \in DOMAIN L : id \notin DOMAIN L => In(s, Set(id))
  OBVIOUS
<1>5. \A i \in DOMAIN X.kids :
           \/ In(s, Stmt(X.kids[i]))
           \/ Nodes[X.kids[i]].k # "label" /\ Nodes[X.kids[i]].kids = <<>>
  OBVIOUS
<1>6. QED
  BY <1>1, <1>2, <1>3, <1>4, <1>5, Generated

(* What is known of a statement. *)
LEMMA StatementIs ==
  ASSUME CgenInv, NEW k, At1(k)
  PROVE  LET n == Head1.n
         IN  /\ Tree(Nodes) /\ n \in DOMAIN Nodes /\ X = Nodes[n] /\ X.k = k
             /\ X.kids \in Seq(DOMAIN Nodes)
             /\ k \in Loops => Len(X.kids) = 1
             /\ k = "if" => Len(X.kids) \in {1, 2}
             /\ k \in Simple => X.kids = <<>> /\ \A i \in DOMAIN X.kids : FALSE
             /\ k \in {"if", "while", "do", "switch"} => X.a # None
             /\ k \in {"break", "continue"} => Enclosing(Nodes, n, Loops \cup {"switch"}) # 0
             /\ counter \in Nat /\ ~patched /\ work # <<>>
<1>1. Tree(Nodes)
  BY FileIsTree DEF CgenInv, Nodes
<1>2. /\ Head1.n \in DOMAIN Nodes /\ X = Nodes[Head1.n] /\ X.k = k
      /\ X.kids \in Seq(DOMAIN Nodes) /\ Shaped(src) /\ ~patched /\ work # <<>>
  BY AtStatement DEF Nodes
<1>3. /\ k \in Loops => Len(X.kids) = 1
      /\ k = "if" => Len(X.kids) \in {1, 2}
      /\ k \in Simple => X.kids = <<>>
      /\ k \in {"if", "while", "do", "switch"} => X.a # None
      /\ k \in {"break", "continue"} => Around(src, Head1.n) # 0
  BY <1>2 DEF Shaped, Nodes
<1>4. QED
  BY <1>1, <1>2, <1>3 DEF Around, Nodes, CgenInv

(* Statements without labels: an expression, a return, a block, an empty   *)
(* statement.                                                              *)
LEMMA SimpleGood ==
  ASSUME CgenInv, NEW A, NEW L, Good(A, L),
         GenExpr \/ GenReturn \/ GenBlock \/ GenNothing
  PROVE  Good(A, L)'
<1> DEFINE n == Head1.n
<1>1. UNCHANGED labelVars /\ KeepTargets
  BY DEF GenExpr, GenReturn, GenBlock, GenNothing
<1>2. CASE GenExpr
  <2>1. At1("expr") /\ work' = EvalIf(X.a) \o Rest
    BY <1>2 DEF GenExpr
  <2>2. /\ Tree(Nodes) /\ n \in DOMAIN Nodes /\ X = Nodes[n] /\ X.k = "expr"
        /\ \A i \in DOMAIN X.kids : FALSE
    BY <2>1, StatementIs DEF Simple
  <2>3. Root(Nodes, n) = Body0
    BY <2>1, OpenedStatement
  <2>4. \A W, V : Placed(Nodes, L, n, W, brk, cont, V) =>
           Runs(Nodes, Body0, L, EvalIf(X.a), W, brk, cont, Stage(V, brk, cont))
    BY <2>2, <2>3, ExprRuns
  <2>5. \A i \in DOMAIN X.kids : In(EvalIf(X.a), Stmt(X.kids[i]))
    BY <2>2
  <2>6. QED
    BY <1>1, <2>1, <2>4, <2>5, GeneratedAlike
<1>3. CASE GenReturn
  <2>1. At1("return") /\ work' = EvalIf(X.a) \o <<Epilogue>> \o Rest
    BY <1>3 DEF GenReturn
  <2>2. /\ Tree(Nodes) /\ n \in DOMAIN Nodes /\ X = Nodes[n] /\ X.k = "return"
        /\ \A i \in DOMAIN X.kids : FALSE
    BY <2>1, StatementIs DEF Simple
  <2>3. Root(Nodes, n) = Body0
    BY <2>1, OpenedStatement
  <2> DEFINE s == EvalIf(X.a) \o <<Epilogue>>
  <2>4. \A W, V : Placed(Nodes, L, n, W, brk, cont, V) =>
           Runs(Nodes, Body0, L, s, W, brk, cont, Stage(V, brk, cont))
    BY <2>2, <2>3, ReturnRuns
  <2>5. \A i \in DOMAIN X.kids : In(s, Stmt(X.kids[i]))
    BY <2>2
  <2>6. work' = s \o Rest
    BY <2>1
  <2> HIDE DEF s
  <2>7. QED
    BY <1>1, <2>1, <2>4, <2>5, <2>6, GeneratedAlike
<1>4. CASE GenBlock
  <2>1. At1("block") /\ work' = Stmts(X.kids) \o Rest
    BY <1>4 DEF GenBlock
  <2>2. Tree(Nodes) /\ n \in DOMAIN Nodes /\ X = Nodes[n] /\ X.k = "block"
    BY <2>1, StatementIs
  <2>3. Root(Nodes, n) = Body0
    BY <2>1, OpenedStatement
  <2>4. \A W, V : Placed(Nodes, L, n, W, brk, cont, V) =>
           Runs(Nodes, Body0, L, Stmts(X.kids), W, brk, cont, Stage(V, brk, cont))
    BY <2>2, <2>3, BlockRuns
  <2>5. \A i \in DOMAIN X.kids : In(Stmts(X.kids), Stmt(X.kids[i]))
    BY DEF In, Stmts
  <2>6. QED
    BY <1>1, <2>1, <2>4, <2>5, GeneratedAlike
<1>5. CASE GenNothing
  <2>1. PICK k \in {"null", "case", "default"} : At1(k)
    BY <1>5 DEF GenNothing
  <2>2. /\ Tree(Nodes) /\ n \in DOMAIN Nodes /\ X = Nodes[n] /\ X.k = k
        /\ \A i \in DOMAIN X.kids : FALSE /\ work # <<>>
    BY <2>1, StatementIs DEF Simple
  <2>3. Root(Nodes, n) = Body0
    BY <2>1, OpenedStatement
  <2>4. \A W, V : Placed(Nodes, L, n, W, brk, cont, V) =>
           Runs(Nodes, Body0, L, <<>>, W, brk, cont, Stage(V, brk, cont))
    BY <2>1, <2>2, <2>3, NothingRuns
  <2>5. \A i \in DOMAIN X.kids : In(<<>>, Stmt(X.kids[i]))
    BY <2>2
  <2>6. work # <<>>
    BY <2>1, StatementIs
  <2>7. work' = <<>> \o Rest
    <3>1. Rest \in Seq(Items(src, counter)) /\ work' = Rest
      BY <1>5, <2>6, Next1 DEF GenNothing
    <3>2. QED
      BY <3>1, ConcatEmptySeq
  <2>8. QED
    BY <1>1, <2>1, <2>4, <2>5, <2>7, GeneratedAlike
<1>6. QED
  BY <1>2, <1>3, <1>4, <1>5

(* Short lists of items. *)
LEMMA ListOne ==
  ASSUME NEW a1
  PROVE  /\ Listed(<<a1>>)
         /\ In(<<a1>>, a1)
<1> DEFINE t == <<a1>>
<1>1. t \in Seq({a1})
  OBVIOUS
<1>2. DOMAIN t = 1 .. 1 /\ t[1] = a1
  OBVIOUS
<1> HIDE DEF t
<1>3. In(t, a1)
  BY <1>2 DEF In
<1>4. QED
  BY <1>1, <1>3 DEF Listed, t

(* Two items, *)
LEMMA ListTwo ==
  ASSUME NEW a1, NEW a2
  PROVE  /\ Listed(<<a1, a2>>)
         /\ In(<<a1, a2>>, a1) /\ In(<<a1, a2>>, a2)
<1> DEFINE t == <<a1, a2>>
<1>1. t \in Seq({a1, a2})
  OBVIOUS
<1>2. DOMAIN t = 1 .. 2 /\ t[1] = a1 /\ t[2] = a2
  OBVIOUS
<1> HIDE DEF t
<1>3. In(t, a1) /\ In(t, a2)
  BY <1>2 DEF In
<1>4. QED
  BY <1>1, <1>3 DEF Listed, t

(* three, *)
LEMMA ListThree ==
  ASSUME NEW a1, NEW a2, NEW a3
  PROVE  /\ Listed(<<a1, a2, a3>>)
         /\ In(<<a1, a2, a3>>, a1) /\ In(<<a1, a2, a3>>, a2) /\ In(<<a1, a2, a3>>, a3)
<1> DEFINE t == <<a1, a2, a3>>
<1>1. t \in Seq({a1, a2, a3})
  OBVIOUS
<1>2. DOMAIN t = 1 .. 3 /\ t[1] = a1 /\ t[2] = a2 /\ t[3] = a3
  OBVIOUS
<1> HIDE DEF t
<1>3. In(t, a1) /\ In(t, a2) /\ In(t, a3)
  BY <1>2 DEF In
<1>4. QED
  BY <1>1, <1>3 DEF Listed, t

(* four, *)
LEMMA ListFour ==
  ASSUME NEW a1, NEW a2, NEW a3, NEW a4
  PROVE  /\ Listed(<<a1, a2, a3, a4>>)
         /\ In(<<a1, a2, a3, a4>>, a1)
         /\ In(<<a1, a2, a3, a4>>, a2)
         /\ In(<<a1, a2, a3, a4>>, a3)
         /\ In(<<a1, a2, a3, a4>>, a4)
<1> DEFINE t == <<a1, a2, a3, a4>>
<1>1. t \in Seq({a1, a2, a3, a4})
  OBVIOUS
<1>2. DOMAIN t = 1 .. 4 /\ t[1] = a1 /\ t[2] = a2 /\ t[3] = a3 /\ t[4] = a4
  OBVIOUS
<1> HIDE DEF t
<1>3. In(t, a1) /\ In(t, a2) /\ In(t, a3) /\ In(t, a4)
  BY <1>2 DEF In
<1>4. QED
  BY <1>1, <1>3 DEF Listed, t

(* six, *)
LEMMA ListSix ==
  ASSUME NEW a1, NEW a2, NEW a3, NEW a4, NEW a5, NEW a6
  PROVE  /\ Listed(<<a1, a2, a3, a4, a5, a6>>)
         /\ In(<<a1, a2, a3, a4, a5, a6>>, a1)
         /\ In(<<a1, a2, a3, a4, a5, a6>>, a2)
         /\ In(<<a1, a2, a3, a4, a5, a6>>, a3)
         /\ In(<<a1, a2, a3, a4, a5, a6>>, a4)
         /\ In(<<a1, a2, a3, a4, a5, a6>>, a5)
         /\ In(<<a1, a2, a3, a4, a5, a6>>, a6)
<1> DEFINE t == <<a1, a2, a3, a4, a5, a6>>
<1>1. t \in Seq({a1, a2, a3, a4, a5, a6})
  OBVIOUS
<1>2. DOMAIN t = 1 .. 6 /\ t[1] = a1 /\ t[2] = a2 /\ t[3] = a3 /\ t[4] = a4 /\ t[5] = a5 /\ t[6] = a6
  OBVIOUS
<1> HIDE DEF t
<1>3. In(t, a1) /\ In(t, a2) /\ In(t, a3) /\ In(t, a4) /\ In(t, a5) /\ In(t, a6)
  BY <1>2 DEF In
<1>4. QED
  BY <1>1, <1>3 DEF Listed, t

(* and seven are a list that has each of them. *)
LEMMA ListSeven ==
  ASSUME NEW a1, NEW a2, NEW a3, NEW a4, NEW a5, NEW a6, NEW a7
  PROVE  /\ Listed(<<a1, a2, a3, a4, a5, a6, a7>>)
         /\ In(<<a1, a2, a3, a4, a5, a6, a7>>, a1)
         /\ In(<<a1, a2, a3, a4, a5, a6, a7>>, a2)
         /\ In(<<a1, a2, a3, a4, a5, a6, a7>>, a3)
         /\ In(<<a1, a2, a3, a4, a5, a6, a7>>, a4)
         /\ In(<<a1, a2, a3, a4, a5, a6, a7>>, a5)
         /\ In(<<a1, a2, a3, a4, a5, a6, a7>>, a6)
         /\ In(<<a1, a2, a3, a4, a5, a6, a7>>, a7)
<1> DEFINE t == <<a1, a2, a3, a4, a5, a6, a7>>
<1>1. t \in Seq({a1, a2, a3, a4, a5, a6, a7})
  OBVIOUS
<1>2. DOMAIN t = 1 .. 7 /\ t[1] = a1 /\ t[2] = a2 /\ t[3] = a3 /\ t[4] = a4 /\ t[5] = a5 /\ t[6] = a6 /\ t[7] = a7
  OBVIOUS
<1> HIDE DEF t
<1>3. In(t, a1) /\ In(t, a2) /\ In(t, a3) /\ In(t, a4) /\ In(t, a5) /\ In(t, a6) /\ In(t, a7)
  BY <1>2 DEF In
<1>4. QED
  BY <1>1, <1>3 DEF Listed, t

(* An optional expression is a list, *)
LEMMA ListedEvalIf == ASSUME NEW a PROVE Listed(EvalIf(a))
<1>1. Listed(<<Eval(a)>>) /\ <<>> \in Seq({})
  BY ListOne
<1>2. QED
  BY <1>1 DEF EvalIf, Listed

(* and two lists are one. *)
LEMMA ListedBoth ==
  ASSUME NEW v, Listed(v), NEW w, Listed(w)
  PROVE  Listed(v \o w)
BY ListedJoin DEF Listed

(* New labels. *)
With(L, G) == [id \in DOMAIN L \cup DOMAIN G |-> IF id \in DOMAIN G THEN G[id] ELSE L[id]]

(* The labels of a statement beside those there are. *)
LEMMA WithIs ==
  ASSUME NEW L, NEW c \in Nat, DOMAIN L \subseteq Ids(c), NEW d \in Nat, c <= d,
         NEW G, \A id \in DOMAIN G : id \in c .. d - 1
  PROVE  /\ Extends(L, With(L, G)) /\ DOMAIN With(L, G) \subseteq Ids(d)
         /\ \A id \in DOMAIN G : id \in DOMAIN With(L, G) /\ With(L, G)[id] = G[id]
         /\ \A id \in DOMAIN With(L, G) : id \notin DOMAIN L => id \in DOMAIN G
<1>1. \A id \in DOMAIN L : id \notin DOMAIN G /\ id \in Ids(d)
  BY DEF Ids
<1>2. \A id \in DOMAIN G : id \in Ids(d)
  BY DEF Ids
<1>3. QED
  BY <1>1, <1>2 DEF With, Extends

(* cgen_if. *)
LEMMA IfGood ==
  ASSUME CgenInv, NEW A, NEW L, Good(A, L), GenIf
  PROVE  \E M : Good(A, M)'
<1> DEFINE n == Head1.n
           else == counter
           end == counter + 1
           s1 == <<Eval(X.a), Jmp("jz", else), Stmt(X.kids[1])>>
           s2 == <<Jmp("jmp", end), Set(else), Stmt(X.kids[2]), Set(end)>>
<1>1. /\ At1("if") /\ counter' = counter + 2
      /\ UNCHANGED <<code, codeSize, labelTab, funcStart, patched, src, fn, symbols, gotoTab>>
      /\ brk' = brk /\ cont' = cont
      /\ work' = s1 \o (IF Len(X.kids) = 2 THEN s2 ELSE <<Set(else)>>) \o Rest
  BY DEF GenIf, NewLabels, KeepTargets
<1>2. /\ Tree(Nodes) /\ n \in DOMAIN Nodes /\ X = Nodes[n] /\ X.k = "if" /\ X.a # None
      /\ Len(X.kids) \in {1, 2} /\ counter \in Nat /\ X.kids \in Seq(DOMAIN Nodes)
  BY <1>1, StatementIs
<1>3. Root(Nodes, n) = Body0 /\ DOMAIN L \subseteq Ids(counter)
  BY <1>1, OpenedStatement DEF Ahead
<1>4. counter' \in Nat /\ counter <= counter' /\ else \in counter .. counter' - 1
      /\ end \in counter .. counter' - 1 /\ else # end
  BY <1>1, <1>2
<1>5. DOMAIN X.kids = 1 .. Len(X.kids)
  BY <1>2
<1>6. CASE Len(X.kids) = 2
  <2> DEFINE G == [id \in {else, end} |-> IF id = else THEN On(Nodes, At("enter", X.kids[2]))
                                          ELSE On(Nodes, At("leave", n))]
             s == s1 \o s2
  <2>1. DOMAIN G = {else, end} /\ G[else] = On(Nodes, At("enter", X.kids[2]))
        /\ G[end] = On(Nodes, At("leave", n))
    BY <1>4
  <2> HIDE DEF G
  <2>2. PICK M : /\ Extends(L, M) /\ DOMAIN M \subseteq Ids(counter')
                /\ \A id \in {else, end} : id \in DOMAIN M /\ M[id] = G[id]
                /\ \A j \in DOMAIN M : j \notin DOMAIN L => j \in {else, end}
    <3>1. \A id \in DOMAIN G : id \in counter .. counter' - 1
      BY <1>2, <1>3, <1>4, <2>1
    <3>2. /\ Extends(L, With(L, G)) /\ DOMAIN With(L, G) \subseteq Ids(counter')
          /\ \A id \in DOMAIN G : id \in DOMAIN With(L, G) /\ With(L, G)[id] = G[id]
          /\ \A id \in DOMAIN With(L, G) : id \notin DOMAIN L => id \in DOMAIN G
      BY <1>2, <1>3, <1>4, <3>1, WithIs
    <3>3. QED
      BY <2>1, <3>2
  <2>3. \A W, V : Placed(Nodes, M, n, W, brk, cont, V) =>
           Runs(Nodes, Body0, M, s, W, brk', cont', Stage(V, brk, cont))
    <3> SUFFICES ASSUME NEW W, NEW V, Placed(Nodes, M, n, W, brk, cont, V)
                 PROVE  Runs(Nodes, Body0, M, s, W, brk, cont, Stage(V, brk, cont))
      BY <1>1
    <3>1. else \in DOMAIN M /\ M[else] = On(Nodes, At("enter", X.kids[2]))
          /\ end \in DOMAIN M /\ M[end] = On(Nodes, At("leave", n))
      BY <2>1, <2>2
    <3> HIDE DEF else, end
    <3>2. QED
      BY <1>2, <1>3, <1>6, <3>1, IfElseRuns
  <2>4. Listed(s1) /\ Listed(s2) /\ In(s1, Stmt(X.kids[1])) /\ In(s2, Stmt(X.kids[2]))
        /\ In(s2, Set(else)) /\ In(s2, Set(end))
    BY ListThree, ListFour
  <2> HIDE DEF s1, s2
  <2>5. In(s, Stmt(X.kids[1])) /\ In(s, Stmt(X.kids[2])) /\ In(s, Set(else)) /\ In(s, Set(end))
    BY <2>4, InJoin
  <2>6. work' = s \o Rest
    BY <1>1, <1>6
  <2> HIDE DEF s
  <2>7. \A i \in DOMAIN X.kids : In(s, Stmt(X.kids[i]))
    <3>1. \A i \in DOMAIN X.kids : i = 1 \/ i = 2
      BY <1>5, <1>6
    <3>2. QED
      BY <2>5, <3>1
  <2>8. \A id \in DOMAIN M : id \notin DOMAIN L => In(s, Set(id))
    BY <2>2, <2>5
  <2>9. \A i \in DOMAIN X.kids :
           \/ In(s, Stmt(X.kids[i]))
           \/ Nodes[X.kids[i]].k # "label" /\ Nodes[X.kids[i]].kids = <<>>
    BY <2>7
  <2>10. Good(A, M)'
    BY <1>1, <2>2, <2>3, <2>6, <2>8, <2>9, Generated
  <2>11. QED
    BY <2>10
<1>7. CASE Len(X.kids) = 1
  <2> DEFINE G == [id \in {else} |-> On(Nodes, At("leave", n))]
             s == s1 \o <<Set(else)>>
  <2>1. DOMAIN G = {else} /\ G[else] = On(Nodes, At("leave", n))
    OBVIOUS
  <2> HIDE DEF G
  <2>2. PICK M : /\ Extends(L, M) /\ DOMAIN M \subseteq Ids(counter')
                /\ \A id \in {else} : id \in DOMAIN M /\ M[id] = G[id]
                /\ \A j \in DOMAIN M : j \notin DOMAIN L => j \in {else}
    <3>1. \A id \in DOMAIN G : id \in counter .. counter' - 1
      BY <1>2, <1>3, <1>4, <2>1
    <3>2. /\ Extends(L, With(L, G)) /\ DOMAIN With(L, G) \subseteq Ids(counter')
          /\ \A id \in DOMAIN G : id \in DOMAIN With(L, G) /\ With(L, G)[id] = G[id]
          /\ \A id \in DOMAIN With(L, G) : id \notin DOMAIN L => id \in DOMAIN G
      BY <1>2, <1>3, <1>4, <3>1, WithIs
    <3>3. QED
      BY <2>1, <3>2
  <2>3. \A W, V : Placed(Nodes, M, n, W, brk, cont, V) =>
           Runs(Nodes, Body0, M, s, W, brk', cont', Stage(V, brk, cont))
    <3> SUFFICES ASSUME NEW W, NEW V, Placed(Nodes, M, n, W, brk, cont, V)
                 PROVE  Runs(Nodes, Body0, M, s, W, brk, cont, Stage(V, brk, cont))
      BY <1>1
    <3>1. else \in DOMAIN M /\ M[else] = On(Nodes, At("leave", n))
      BY <2>1, <2>2
    <3> HIDE DEF else
    <3>2. QED
      BY <1>2, <1>3, <1>7, <3>1, IfRuns
  <2>4. Listed(s1) /\ Listed(<<Set(else)>>) /\ In(s1, Stmt(X.kids[1]))
        /\ In(<<Set(else)>>, Set(else))
    BY ListThree, ListOne
  <2> HIDE DEF s1
  <2>5. In(s, Stmt(X.kids[1])) /\ In(s, Set(else))
    BY <2>4, InJoin
  <2>6. work' = s \o Rest
    BY <1>1, <1>7
  <2> HIDE DEF s
  <2>7. \A i \in DOMAIN X.kids : In(s, Stmt(X.kids[i]))
    <3>1. \A i \in DOMAIN X.kids : i = 1
      BY <1>5, <1>7
    <3>2. QED
      BY <2>5, <3>1
  <2>8. \A id \in DOMAIN M : id \notin DOMAIN L => In(s, Set(id))
    BY <2>2, <2>5
  <2>9. \A i \in DOMAIN X.kids :
           \/ In(s, Stmt(X.kids[i]))
           \/ Nodes[X.kids[i]].k # "label" /\ Nodes[X.kids[i]].kids = <<>>
    BY <2>7
  <2>10. Good(A, M)'
    BY <1>1, <2>2, <2>3, <2>6, <2>8, <2>9, Generated
  <2>11. QED
    BY <2>10
<1>8. QED
  BY <1>2, <1>6, <1>7

(* A loop with its labels. *)
LEMMA WhileGood ==
  ASSUME CgenInv, NEW A, NEW L, Good(A, L), GenWhile
  PROVE  \E M : Good(A, M)'
<1> DEFINE n == Head1.n
           start == counter
           end == counter + 1
           s == <<Set(start), Eval(X.a), Jmp("jz", end), Stmt(X.kids[1]),
                  Jmp("jmp", start), Set(end), Restore(brk, cont)>>
<1>1. /\ At1("while") /\ counter' = counter + 2
      /\ UNCHANGED <<code, codeSize, labelTab, funcStart, patched, src, fn, symbols, gotoTab>>
      /\ brk' = end /\ cont' = start /\ work' = s \o Rest
  BY DEF GenWhile, NewLabels
<1>2. /\ Tree(Nodes) /\ n \in DOMAIN Nodes /\ X = Nodes[n] /\ X.k = "while" /\ X.a # None
      /\ Len(X.kids) = 1 /\ counter \in Nat /\ X.kids \in Seq(DOMAIN Nodes)
  BY <1>1, StatementIs DEF Loops
<1>3. Root(Nodes, n) = Body0 /\ DOMAIN L \subseteq Ids(counter)
  BY <1>1, OpenedStatement DEF Ahead
<1>4. counter' \in Nat /\ counter <= counter' /\ start \in counter .. counter' - 1
      /\ end \in counter .. counter' - 1 /\ start # end
  BY <1>1, <1>2
<1> DEFINE G == [id \in {start, end} |-> IF id = start THEN On(Nodes, At("test", n))
                                         ELSE On(Nodes, At("leave", n))]
<1>5. DOMAIN G = {start, end} /\ G[start] = On(Nodes, At("test", n))
      /\ G[end] = On(Nodes, At("leave", n))
  BY <1>4
<1> HIDE DEF G
<1>6. PICK M : /\ Extends(L, M) /\ DOMAIN M \subseteq Ids(counter')
              /\ \A id \in {start, end} : id \in DOMAIN M /\ M[id] = G[id]
              /\ \A j \in DOMAIN M : j \notin DOMAIN L => j \in {start, end}
  <2>1. \A id \in DOMAIN G : id \in counter .. counter' - 1
    BY <1>2, <1>3, <1>4, <1>5
  <2>2. /\ Extends(L, With(L, G)) /\ DOMAIN With(L, G) \subseteq Ids(counter')
        /\ \A id \in DOMAIN G : id \in DOMAIN With(L, G) /\ With(L, G)[id] = G[id]
        /\ \A id \in DOMAIN With(L, G) : id \notin DOMAIN L => id \in DOMAIN G
    BY <1>2, <1>3, <1>4, <2>1, WithIs
  <2>3. QED
    BY <1>5, <2>2
<1>7. \A W, V : Placed(Nodes, M, n, W, brk, cont, V) =>
         Runs(Nodes, Body0, M, s, W, brk', cont', Stage(V, brk, cont))
  <2> SUFFICES ASSUME NEW W, NEW V, Placed(Nodes, M, n, W, brk, cont, V)
               PROVE  Runs(Nodes, Body0, M, s, W, end, start, Stage(V, brk, cont))
    BY <1>1
  <2>1. start \in DOMAIN M /\ M[start] = On(Nodes, At("test", n))
        /\ end \in DOMAIN M /\ M[end] = On(Nodes, At("leave", n))
    BY <1>5, <1>6
  <2> HIDE DEF start, end
  <2>2. QED
    BY <1>2, <1>3, <2>1, WhileRuns
<1>8. In(s, Stmt(X.kids[1])) /\ In(s, Set(start)) /\ In(s, Set(end))
  BY ListSeven
<1> HIDE DEF s
<1>9. \A i \in DOMAIN X.kids : In(s, Stmt(X.kids[i]))
  <2>1. \A i \in DOMAIN X.kids : i = 1
    BY <1>2
  <2>2. QED
    BY <1>8, <2>1
<1>10. \A id \in DOMAIN M : id \notin DOMAIN L => In(s, Set(id))
  BY <1>6, <1>8
<1>11. \A i \in DOMAIN X.kids :
         \/ In(s, Stmt(X.kids[i]))
         \/ Nodes[X.kids[i]].k # "label" /\ Nodes[X.kids[i]].kids = <<>>
  BY <1>9
<1>12. Good(A, M)'
  BY <1>1, <1>6, <1>7, <1>10, <1>11, Generated
<1>13. QED
  BY <1>12

(* The branch of cgen_stmt for a do. *)
LEMMA DoGood ==
  ASSUME CgenInv, NEW A, NEW L, Good(A, L), GenDoWhile
  PROVE  \E M : Good(A, M)'
<1> DEFINE n == Head1.n
           start == counter
           end == counter + 1
           s == <<Set(start), Stmt(X.kids[1]), Eval(X.a), Jmp("jnz", start),
                  Set(end), Restore(brk, cont)>>
<1>1. /\ At1("do") /\ counter' = counter + 2
      /\ UNCHANGED <<code, codeSize, labelTab, funcStart, patched, src, fn, symbols, gotoTab>>
      /\ brk' = end /\ cont' = start /\ work' = s \o Rest
  BY DEF GenDoWhile, NewLabels
<1>2. /\ Tree(Nodes) /\ n \in DOMAIN Nodes /\ X = Nodes[n] /\ X.k = "do" /\ X.a # None
      /\ Len(X.kids) = 1 /\ counter \in Nat /\ X.kids \in Seq(DOMAIN Nodes)
  BY <1>1, StatementIs DEF Loops
<1>3. Root(Nodes, n) = Body0 /\ DOMAIN L \subseteq Ids(counter)
  BY <1>1, OpenedStatement DEF Ahead
<1>4. counter' \in Nat /\ counter <= counter' /\ start \in counter .. counter' - 1
      /\ end \in counter .. counter' - 1 /\ start # end
  BY <1>1, <1>2
<1> DEFINE G == [id \in {start, end} |-> IF id = start THEN On(Nodes, At("enter", X.kids[1]))
                                         ELSE On(Nodes, At("leave", n))]
<1>5. DOMAIN G = {start, end} /\ G[start] = On(Nodes, At("enter", X.kids[1]))
      /\ G[end] = On(Nodes, At("leave", n))
  BY <1>4
<1> HIDE DEF G
<1>6. PICK M : /\ Extends(L, M) /\ DOMAIN M \subseteq Ids(counter')
              /\ \A id \in {start, end} : id \in DOMAIN M /\ M[id] = G[id]
              /\ \A j \in DOMAIN M : j \notin DOMAIN L => j \in {start, end}
  <2>1. \A id \in DOMAIN G : id \in counter .. counter' - 1
    BY <1>2, <1>3, <1>4, <1>5
  <2>2. /\ Extends(L, With(L, G)) /\ DOMAIN With(L, G) \subseteq Ids(counter')
        /\ \A id \in DOMAIN G : id \in DOMAIN With(L, G) /\ With(L, G)[id] = G[id]
        /\ \A id \in DOMAIN With(L, G) : id \notin DOMAIN L => id \in DOMAIN G
    BY <1>2, <1>3, <1>4, <2>1, WithIs
  <2>3. QED
    BY <1>5, <2>2
<1>7. \A W, V : Placed(Nodes, M, n, W, brk, cont, V) =>
         Runs(Nodes, Body0, M, s, W, brk', cont', Stage(V, brk, cont))
  <2> SUFFICES ASSUME NEW W, NEW V, Placed(Nodes, M, n, W, brk, cont, V)
               PROVE  Runs(Nodes, Body0, M, s, W, end, start, Stage(V, brk, cont))
    BY <1>1
  <2>1. start \in DOMAIN M /\ M[start] = On(Nodes, At("enter", X.kids[1]))
        /\ end \in DOMAIN M /\ M[end] = On(Nodes, At("leave", n))
    BY <1>5, <1>6
  <2> HIDE DEF start, end
  <2>2. QED
    BY <1>2, <1>3, <2>1, DoRuns
<1>8. In(s, Stmt(X.kids[1])) /\ In(s, Set(start)) /\ In(s, Set(end))
  BY ListSix
<1> HIDE DEF s
<1>9. \A i \in DOMAIN X.kids : In(s, Stmt(X.kids[i]))
  <2>1. \A i \in DOMAIN X.kids : i = 1
    BY <1>2
  <2>2. QED
    BY <1>8, <2>1
<1>10. \A id \in DOMAIN M : id \notin DOMAIN L => In(s, Set(id))
  BY <1>6, <1>8
<1>11. \A i \in DOMAIN X.kids :
         \/ In(s, Stmt(X.kids[i]))
         \/ Nodes[X.kids[i]].k # "label" /\ Nodes[X.kids[i]].kids = <<>>
  BY <1>9
<1>12. Good(A, M)'
  BY <1>1, <1>6, <1>7, <1>10, <1>11, Generated
<1>13. QED
  BY <1>12

(* cgen_for. *)
LEMMA ForGood ==
  ASSUME CgenInv, NEW A, NEW L, Good(A, L), GenFor
  PROVE  \E M : Good(A, M)'
<1> DEFINE n == Head1.n
           start == counter
           end == counter + 1
           step == counter + 2
           ids == {start, end, step}
           exit == IF X.a = None THEN <<>> ELSE <<Jmp("jz", end)>>
           body == <<Stmt(X.kids[1]), Set(step)>>
           last == <<Jmp("jmp", start), Set(end), Restore(brk, cont)>>
           s == EvalIf(X.init) \o <<Set(start)>> \o EvalIf(X.a) \o exit
                \o body \o EvalIf(X.step) \o last
<1>1. /\ At1("for") /\ counter' = counter + 3
      /\ UNCHANGED <<code, codeSize, labelTab, funcStart, patched, src, fn, symbols, gotoTab>>
      /\ brk' = end /\ cont' = step /\ work' = s \o Rest
  BY DEF GenFor, NewLabels
<1>2. /\ Tree(Nodes) /\ n \in DOMAIN Nodes /\ X = Nodes[n] /\ X.k = "for"
      /\ Len(X.kids) = 1 /\ counter \in Nat /\ X.kids \in Seq(DOMAIN Nodes)
  BY <1>1, StatementIs DEF Loops
<1>3. Root(Nodes, n) = Body0 /\ DOMAIN L \subseteq Ids(counter)
  BY <1>1, OpenedStatement DEF Ahead
<1>4. counter' \in Nat /\ counter <= counter' /\ start \in counter .. counter' - 1
      /\ end \in counter .. counter' - 1 /\ step \in counter .. counter' - 1
      /\ start # end /\ start # step /\ end # step
  BY <1>1, <1>2
<1> DEFINE G == [id \in ids |-> IF id = start THEN On(Nodes, At("test", n))
                                ELSE IF id = end THEN On(Nodes, At("leave", n))
                                ELSE On(Nodes, At("step", n))]
<1>5. DOMAIN G = ids /\ G[start] = On(Nodes, At("test", n))
      /\ G[end] = On(Nodes, At("leave", n)) /\ G[step] = On(Nodes, At("step", n))
  BY <1>4
<1> HIDE DEF G
<1>6. PICK M : /\ Extends(L, M) /\ DOMAIN M \subseteq Ids(counter')
               /\ \A id \in ids : id \in DOMAIN M /\ M[id] = G[id]
               /\ \A j \in DOMAIN M : j \notin DOMAIN L => j \in ids
  <2>1. \A id \in DOMAIN G : id \in counter .. counter' - 1
    BY <1>4, <1>5
  <2>2. /\ Extends(L, With(L, G)) /\ DOMAIN With(L, G) \subseteq Ids(counter')
        /\ \A id \in DOMAIN G : id \in DOMAIN With(L, G) /\ With(L, G)[id] = G[id]
        /\ \A id \in DOMAIN With(L, G) : id \notin DOMAIN L => id \in DOMAIN G
    BY <1>2, <1>3, <1>4, <2>1, WithIs
  <2>3. QED
    BY <1>5, <2>2
<1>7. \A W, V : Placed(Nodes, M, n, W, brk, cont, V) =>
         Runs(Nodes, Body0, M, s, W, brk', cont', Stage(V, brk, cont))
  <2> SUFFICES ASSUME NEW W, NEW V, Placed(Nodes, M, n, W, brk, cont, V)
               PROVE  Runs(Nodes, Body0, M, s, W, end, step, Stage(V, brk, cont))
    BY <1>1
  <2>1. start \in DOMAIN M /\ M[start] = On(Nodes, At("test", n))
        /\ end \in DOMAIN M /\ M[end] = On(Nodes, At("leave", n))
        /\ step \in DOMAIN M /\ M[step] = On(Nodes, At("step", n))
    BY <1>5, <1>6
  <2> HIDE DEF start, end, step
  <2>2. QED
    BY <1>2, <1>3, <2>1, ForRuns
<1>8. In(s, Stmt(X.kids[1])) /\ \A id \in ids : In(s, Set(id))
  <2> DEFINE s1 == EvalIf(X.init) \o <<Set(start)>>
             s2 == s1 \o EvalIf(X.a)
             s3 == s2 \o exit
             s4 == s3 \o body
             s5 == s4 \o EvalIf(X.step)
  <2>1. Listed(<<Set(start)>>) /\ In(<<Set(start)>>, Set(start))
    BY ListOne
  <2>2. Listed(exit)
    <3>1. Listed(<<Jmp("jz", end)>>) /\ <<>> \in Seq({})
      BY ListOne
    <3>2. Listed(<<>>)
      BY <3>1 DEF Listed
    <3>3. QED
      BY <3>1, <3>2
  <2>3. Listed(body) /\ In(body, Stmt(X.kids[1])) /\ In(body, Set(step))
    BY ListTwo
  <2>4. Listed(last) /\ In(last, Set(end))
    BY ListThree
  <2>5. Listed(EvalIf(X.init)) /\ Listed(EvalIf(X.a)) /\ Listed(EvalIf(X.step))
    BY ListedEvalIf
  <2> HIDE DEF exit, body, last
  <2>6. Listed(s1) /\ In(s1, Set(start))
    BY <2>1, <2>5, ListedBoth, InJoin
  <2> HIDE DEF s1
  <2>7. Listed(s2) /\ In(s2, Set(start))
    BY <2>5, <2>6, ListedBoth, InJoin
  <2> HIDE DEF s2
  <2>8. Listed(s3) /\ In(s3, Set(start))
    BY <2>2, <2>7, ListedBoth, InJoin
  <2> HIDE DEF s3
  <2>9. Listed(s4) /\ In(s4, Set(start)) /\ In(s4, Stmt(X.kids[1])) /\ In(s4, Set(step))
    BY <2>3, <2>8, ListedBoth, InJoin
  <2> HIDE DEF s4
  <2>10. Listed(s5) /\ In(s5, Set(start)) /\ In(s5, Stmt(X.kids[1])) /\ In(s5, Set(step))
    BY <2>5, <2>9, ListedBoth, InJoin
  <2>11. s = s5 \o last
    BY DEF s1, s2, s3, s4
  <2> HIDE DEF s5, s
  <2>12. In(s, Set(start)) /\ In(s, Stmt(X.kids[1])) /\ In(s, Set(step)) /\ In(s, Set(end))
    BY <2>4, <2>10, <2>11, InJoin
  <2>13. QED
    BY <2>12
<1> HIDE DEF s
<1>9. \A i \in DOMAIN X.kids :
         \/ In(s, Stmt(X.kids[i]))
         \/ Nodes[X.kids[i]].k # "label" /\ Nodes[X.kids[i]].kids = <<>>
  <2>1. \A i \in DOMAIN X.kids : i = 1
    BY <1>2
  <2>2. QED
    BY <1>8, <2>1
<1>10. \A id \in DOMAIN M : id \notin DOMAIN L => In(s, Set(id))
  BY <1>6, <1>8
<1>11. Good(A, M)'
  BY <1>1, <1>6, <1>7, <1>9, <1>10, Generated
<1>12. QED
  BY <1>11

(* break and continue. *)
LEMMA JumpOutGood ==
  ASSUME CgenInv, NEW A, NEW L, Good(A, L), \A n \in DOMAIN Nodes : OrdinaryStatement(n),
         GenBreak \/ GenContinue
  PROVE  Good(A, L)'
<1> DEFINE n == Head1.n
<1>1. UNCHANGED labelVars /\ KeepTargets
  BY DEF GenBreak, GenContinue
<1>2. brk >= 0 /\ cont >= 0
  BY DEF CgenInv, Targets, Ids
<1>3. CASE GenBreak
  <2>1. At1("break") /\ work' = <<Jmp("jmp", brk)>> \o Rest
    BY <1>2, <1>3 DEF GenBreak
  <2>2. /\ Tree(Nodes) /\ n \in DOMAIN Nodes /\ X = Nodes[n] /\ X.k = "break"
        /\ \A i \in DOMAIN X.kids : FALSE
        /\ Enclosing(Nodes, n, Loops \cup {"switch"}) # 0
    BY <2>1, StatementIs DEF Simple
  <2>3. Root(Nodes, n) = Body0
    BY <2>1, OpenedStatement
  <2>4. \A W, V : Placed(Nodes, L, n, W, brk, cont, V) =>
           Runs(Nodes, Body0, L, <<Jmp("jmp", brk)>>, W, brk, cont, Stage(V, brk, cont))
    BY <2>2, <2>3, BreakRuns
  <2>5. \A i \in DOMAIN X.kids : In(<<Jmp("jmp", brk)>>, Stmt(X.kids[i]))
    BY <2>2
  <2>6. QED
    BY <1>1, <2>1, <2>4, <2>5, GeneratedAlike
<1>4. CASE GenContinue
  <2>1. At1("continue") /\ work' = <<Jmp("jmp", cont)>> \o Rest
    BY <1>2, <1>4 DEF GenContinue
  <2>2. /\ Tree(Nodes) /\ n \in DOMAIN Nodes /\ X = Nodes[n] /\ X.k = "continue"
        /\ \A i \in DOMAIN X.kids : FALSE
    BY <2>1, StatementIs DEF Simple
  <2>3. Enclosing(Nodes, n, Loops) \in DOMAIN Nodes
        /\ Nodes[Enclosing(Nodes, n, Loops)].k # "do"
    BY <2>2 DEF OrdinaryStatement
  <2>4. Root(Nodes, n) = Body0
    BY <2>1, OpenedStatement
  <2>5. \A W, V : Placed(Nodes, L, n, W, brk, cont, V) =>
           Runs(Nodes, Body0, L, <<Jmp("jmp", cont)>>, W, brk, cont, Stage(V, brk, cont))
    BY <2>2, <2>3, <2>4, ContinueRuns
  <2>6. \A i \in DOMAIN X.kids : In(<<Jmp("jmp", cont)>>, Stmt(X.kids[i]))
    BY <2>2
  <2>7. QED
    BY <1>1, <2>1, <2>5, <2>6, GeneratedAlike
<1>5. QED
  BY <1>3, <1>4

(* goto and its labels. *)
LEMMA LabelNodeIs ==
  ASSUME CgenInv, \A n \in DOMAIN Nodes : OrdinaryStatement(n),
         NEW n \in DOMAIN Nodes, Nodes[n].k \in {"goto", "label"}
  PROVE  \E m : /\ LabelIn(Nodes, Root(Nodes, n), m) /\ Nodes[m].name = Nodes[n].name
                /\ \A l : LabelIn(Nodes, Root(Nodes, n), l) /\ Nodes[l].name = Nodes[n].name => l = m
                /\ Nodes[n].k = "goto" => LabelNode(Nodes, n) = m
                /\ Nodes[n].k = "label" => n = m
<1>1. \E m \in DOMAIN Nodes : SameLabel(m, n)
  <2>1. CASE Nodes[n].k = "goto"
    BY <2>1 DEF OrdinaryStatement
  <2>2. CASE Nodes[n].k = "label"
    BY <2>2 DEF SameLabel
  <2>3. QED
    BY <2>1, <2>2
<1>2. PICK m \in DOMAIN Nodes : SameLabel(m, n)
  BY <1>1
<1>3. /\ Nodes[m].k = "label" /\ Nodes[m].name = Nodes[n].name /\ Root(Nodes, m) = Root(Nodes, n)
  BY <1>2 DEF SameLabel
<1>4. ASSUME NEW l, LabelIn(Nodes, Root(Nodes, n), l), Nodes[l].name = Nodes[n].name
      PROVE  l = m
  <2>1. l \in DOMAIN Nodes /\ SameLabel(l, m)
    BY <1>3, <1>4 DEF LabelIn, SameLabel
  <2>2. OrdinaryStatement(m)
    OBVIOUS
  <2>3. QED
    BY <1>3, <2>1, <2>2 DEF OrdinaryStatement
<1>5. LabelIn(Nodes, Root(Nodes, n), m)
  BY <1>3 DEF LabelIn
<1>6. LabelNode(Nodes, n) = m
  <2>1. \A l \in DOMAIN Nodes : (/\ Nodes[l].k = "label"
                                 /\ Nodes[l].name = Nodes[n].name
                                 /\ Root(Nodes, l) = Root(Nodes, n)) <=> l = m
    BY <1>3, <1>4 DEF LabelIn
  <2>2. QED
    BY <2>1 DEF LabelNode
<1>7. Nodes[n].k = "label" => n = m
  BY <1>4 DEF LabelIn
<1>8. QED
  BY <1>3, <1>4, <1>5, <1>6, <1>7

(* A name that is new is told of, too. *)
LEMMA ToldAppend ==
  ASSUME NEW N, NEW r, NEW L, NEW S, NEW gt \in Seq(S), Told(N, r, L, gt),
         NEW e, \A i \in DOMAIN gt : gt[i].name # e.name,
         e.id \in DOMAIN L,
         \E m : LabelIn(N, r, m) /\ N[m].name = e.name /\ L[e.id] = On(N, At("leave", m))
  PROVE  /\ Told(N, r, L, Append(gt, e))
         /\ DOMAIN gt \subseteq DOMAIN Append(gt, e)
         /\ \A i \in DOMAIN gt : Append(gt, e)[i] = gt[i]
         /\ \E i \in DOMAIN Append(gt, e) : Append(gt, e)[i] = e
<1> DEFINE g == Append(gt, e)
           z == Len(gt) + 1
<1>1. /\ DOMAIN g = DOMAIN gt \cup {z} /\ g[z] = e /\ z \notin DOMAIN gt
      /\ \A i \in DOMAIN gt : g[i] = gt[i]
  OBVIOUS
<1> HIDE DEF g, z
<1>2. ASSUME NEW i \in DOMAIN g
      PROVE  /\ g[i].id \in DOMAIN L
             /\ \E m : /\ LabelIn(N, r, m) /\ N[m].name = g[i].name
                       /\ L[g[i].id] = On(N, At("leave", m))
  BY <1>1 DEF Told
<1>3. ASSUME NEW i \in DOMAIN g, NEW j \in DOMAIN g, g[i].name = g[j].name
      PROVE  i = j
  BY <1>1, <1>3 DEF Told
<1>4. Told(N, r, L, g)
  BY <1>2, <1>3 DEF Told
<1>5. QED
  BY <1>1, <1>4 DEF g

(* goto and its labels: a name gets its label where it is met first. *)
LEMMA NamedGood ==
  ASSUME CgenInv, NEW A, NEW L, Good(A, L), \A n \in DOMAIN Nodes : OrdinaryStatement(n),
         GenNamed
  PROVE  \E M : Good(A, M)'
<1> DEFINE n == Head1.n
<1>1. PICK k \in {"goto", "label"} : At1(k)
  BY DEF GenNamed
<1>2. /\ Tree(Nodes) /\ n \in DOMAIN Nodes /\ X = Nodes[n] /\ X.k = k
      /\ X.kids = <<>> /\ counter \in Nat /\ ~patched
  BY <1>1, StatementIs DEF Simple
<1>3. /\ Root(Nodes, n) = Body0 /\ Ahead(A, L) /\ Listed(work) /\ work # <<>>
      /\ work[1] = Stmt(n) /\ funcStart # codeSize
  BY <1>1, OpenedStatement
<1>4. DOMAIN L \subseteq Ids(counter) /\ Promises(Nodes, Body0, L, work, SetIds, gotoTab)
      /\ Told(Nodes, Body0, L, gotoTab)
  BY <1>3 DEF Ahead, Promises
<1>5. PICK m : /\ LabelIn(Nodes, Body0, m) /\ Nodes[m].name = X.name
               /\ \A l : LabelIn(Nodes, Body0, l) /\ Nodes[l].name = X.name => l = m
               /\ k = "goto" => LabelNode(Nodes, n) = m
               /\ k = "label" => n = m
  BY <1>2, <1>3, LabelNodeIs
<1>6. /\ UNCHANGED <<code, codeSize, labelTab, funcStart, patched, src, fn, symbols>>
      /\ brk' = brk /\ cont' = cont
  BY DEF GenNamed, NewLabels, labelVars
<1>7. \E M, id : /\ Extends(L, M) /\ DOMAIN M \subseteq Ids(counter')
                 /\ id \in DOMAIN M /\ M[id] = On(Nodes, At("leave", m))
                 /\ \A j \in DOMAIN M : j \notin DOMAIN L => j = id
                 /\ Told(Nodes, Body0, M, gotoTab')
                 /\ DOMAIN gotoTab \subseteq DOMAIN gotoTab'
                 /\ \A i \in DOMAIN gotoTab : gotoTab'[i] = gotoTab[i]
                 /\ \E i \in DOMAIN gotoTab' : gotoTab'[i].name = X.name /\ gotoTab'[i].id = id
                 /\ work' = <<NameItem(id)>> \o Rest
  <2>1. CASE Known(X.name)
    <3>1. PICK i \in DOMAIN gotoTab : gotoTab[i].name = X.name /\ IdOf(X.name) = gotoTab[i].id
      BY <2>1 DEF Known, IdOf
    <3> DEFINE id == gotoTab[i].id
    <3>2. /\ counter' = counter /\ gotoTab' = gotoTab /\ work' = <<NameItem(id)>> \o Rest
      BY <2>1, <3>1 DEF GenNamed, labelVars
    <3>3. PICK l : /\ LabelIn(Nodes, Body0, l) /\ Nodes[l].name = X.name
                   /\ id \in DOMAIN L /\ L[id] = On(Nodes, At("leave", l))
      BY <1>4, <3>1 DEF Told
    <3>4. l = m
      BY <1>5, <3>3
    <3>5. Extends(L, L)
      BY DEF Extends
    <3>6. \E j \in DOMAIN gotoTab' : gotoTab'[j].name = X.name /\ gotoTab'[j].id = id
      BY <3>1, <3>2
    <3>7. /\ Extends(L, L) /\ DOMAIN L \subseteq Ids(counter')
          /\ id \in DOMAIN L /\ L[id] = On(Nodes, At("leave", m))
          /\ \A j \in DOMAIN L : j \notin DOMAIN L => j = id
          /\ Told(Nodes, Body0, L, gotoTab')
          /\ DOMAIN gotoTab \subseteq DOMAIN gotoTab'
          /\ \A j \in DOMAIN gotoTab : gotoTab'[j] = gotoTab[j]
      BY <1>4, <3>2, <3>3, <3>4, <3>5
    <3> HIDE DEF id
    <3>8. QED
      BY <3>2, <3>6, <3>7
  <2>2. CASE ~Known(X.name)
    <3> DEFINE id == counter
               e == [name |-> X.name, id |-> counter]
               G == [j \in {id} |-> On(Nodes, At("leave", m))]
               M == With(L, G)
    <3>1. /\ counter' = counter + 1 /\ gotoTab' = Append(gotoTab, e)
          /\ work' = <<NameItem(id)>> \o Rest
      BY <2>2 DEF GenNamed, NewLabels
    <3>2. counter' \in Nat /\ counter <= counter' /\ id \in counter .. counter' - 1
      BY <1>2, <3>1
    <3>3. DOMAIN G = {id} /\ G[id] = On(Nodes, At("leave", m))
      OBVIOUS
    <3> HIDE DEF G
    <3>4. \A j \in DOMAIN G : j \in counter .. counter' - 1
      BY <3>2, <3>3
    <3>5. /\ Extends(L, M) /\ DOMAIN M \subseteq Ids(counter')
          /\ \A j \in DOMAIN G : j \in DOMAIN M /\ M[j] = G[j]
          /\ \A j \in DOMAIN M : j \notin DOMAIN L => j \in DOMAIN G
      BY <1>2, <1>4, <3>2, <3>4, WithIs
    <3> HIDE DEF M
    <3>6. id \in DOMAIN M /\ M[id] = On(Nodes, At("leave", m))
          /\ \A j \in DOMAIN M : j \notin DOMAIN L => j = id
      BY <3>3, <3>5
    <3>7. e.name = X.name /\ e.id = id
      OBVIOUS
    <3> HIDE DEF e, id
    <3>8. Told(Nodes, Body0, M, gotoTab)
      BY <1>4, <3>5, ToldMore
    <3>9. \A i \in DOMAIN gotoTab : gotoTab[i].name # e.name
      BY <2>2, <3>7 DEF Known
    <3>10. \E l : LabelIn(Nodes, Body0, l) /\ Nodes[l].name = e.name
                  /\ M[e.id] = On(Nodes, At("leave", l))
      BY <1>5, <3>6, <3>7
    <3>11. gotoTab \in Seq(Goto(src, counter)) /\ e.id \in DOMAIN M
      BY <3>6, <3>7 DEF CgenInv
    <3>12. /\ Told(Nodes, Body0, M, gotoTab')
           /\ DOMAIN gotoTab \subseteq DOMAIN gotoTab'
           /\ \A i \in DOMAIN gotoTab : gotoTab'[i] = gotoTab[i]
           /\ \E i \in DOMAIN gotoTab' : gotoTab'[i] = e
      <4>1. /\ Told(Nodes, Body0, M, Append(gotoTab, e))
            /\ DOMAIN gotoTab \subseteq DOMAIN Append(gotoTab, e)
            /\ \A i \in DOMAIN gotoTab : Append(gotoTab, e)[i] = gotoTab[i]
            /\ \E i \in DOMAIN Append(gotoTab, e) : Append(gotoTab, e)[i] = e
        <5> DEFINE S == Goto(src, counter)
                   gt == gotoTab
        <5>1. gt \in Seq(S)
          BY <3>11
        <5>2. e.id \in DOMAIN M /\ \A i \in DOMAIN gt : gt[i].name # e.name
          BY <3>9, <3>11
        <5> HIDE DEF S
        <5>3. QED
          BY <3>8, <3>10, <5>1, <5>2, ToldAppend, SMTT(30)
      <4>2. QED
        BY <3>1, <4>1
    <3>13. \E i \in DOMAIN gotoTab' : gotoTab'[i].name = X.name /\ gotoTab'[i].id = id
      BY <3>7, <3>12
    <3>14. QED
      BY <3>1, <3>5, <3>6, <3>12, <3>13
  <2>3. QED
    BY <2>1, <2>2
<1>8. PICK M, id : /\ Extends(L, M) /\ DOMAIN M \subseteq Ids(counter')
                   /\ id \in DOMAIN M /\ M[id] = On(Nodes, At("leave", m))
                   /\ \A j \in DOMAIN M : j \notin DOMAIN L => j = id
                   /\ Told(Nodes, Body0, M, gotoTab')
                   /\ DOMAIN gotoTab \subseteq DOMAIN gotoTab'
                   /\ \A i \in DOMAIN gotoTab : gotoTab'[i] = gotoTab[i]
                   /\ \E i \in DOMAIN gotoTab' : gotoTab'[i].name = X.name /\ gotoTab'[i].id = id
                   /\ work' = <<NameItem(id)>> \o Rest
  BY <1>7
<1> DEFINE s == <<NameItem(id)>>
<1>9. PICK W, V, f : /\ A[codeSize] \subseteq W
                     /\ Placed(Nodes, L, n, W, brk, cont, V)
                     /\ Chain(Nodes, Body0, L, Rest, Stage(V, brk, cont), f)
                     /\ f.set = On(Nodes, At("ret", Body0))
  BY <1>1, OpenedStatement
<1>10. Runs(Nodes, Body0, M, s, W, brk', cont', Stage(V, brk, cont))
  <2>1. Placed(Nodes, M, n, W, brk, cont, V)
    BY <1>8, <1>9, PlacedMore
  <2>2. CASE k = "goto"
    <3>1. s = <<Jmp("jmp", id)>>
      BY <1>2, <2>2 DEF NameItem
    <3>2. LabelNode(Nodes, n) = m /\ m \in DOMAIN Nodes
      BY <1>5, <2>2 DEF LabelIn
    <3> HIDE DEF s
    <3>3. Runs(Nodes, Body0, M, <<Jmp("jmp", id)>>, W, brk, cont, Stage(V, brk, cont))
      BY <1>2, <1>3, <1>8, <2>1, <2>2, <3>2, GotoRuns
    <3>4. QED
      BY <1>6, <3>1, <3>3
  <2>3. CASE k = "label"
    <3>1. s = <<Set(id)>>
      BY <1>2, <2>3 DEF NameItem
    <3> HIDE DEF s
    <3>2. Runs(Nodes, Body0, M, <<Set(id)>>, W, brk, cont, Stage(V, brk, cont))
      BY <1>2, <1>3, <1>5, <1>8, <2>1, <2>3, LabelRuns
    <3>3. QED
      BY <1>6, <3>1, <3>2
  <2>4. QED
    BY <2>2, <2>3
<1>11. ASSUME NEW x, NEW l, work[1] = Stmt(x), LabelIn(Nodes, Body0, l), Under(Nodes, l, x)
       PROVE  \E i \in DOMAIN gotoTab' : gotoTab'[i].name = Nodes[l].name /\ In(s, Set(gotoTab'[i].id))
  <2>1. x = n
    BY <1>3, <1>11 DEF Stmt
  <2>2. l = n
    <3>1. \A i \in DOMAIN Nodes[n].kids : FALSE
      BY <1>2
    <3>2. QED
      BY <1>2, <1>11, <2>1, <3>1, UnderIs
  <2>3. k = "label"
    BY <1>2, <1>11, <2>2 DEF LabelIn
  <2>4. s = <<Set(id)>>
    BY <1>2, <2>3 DEF NameItem
  <2> HIDE DEF s
  <2>5. In(s, Set(id))
    BY <2>4, ListOne
  <2>6. QED
    BY <1>2, <1>8, <2>2, <2>5
<1>12. Listed(s)
  BY ListOne
<1> HIDE DEF s
<1>13. \A x : work[1] # Set(x)
  <2>1. Stmt(n).do = "stmt" /\ \A x : Set(x).do = "set"
    BY DEF Stmt, Set
  <2>2. QED
    BY <1>3, <2>1
<1>14. Promises(Nodes, Body0, M, s \o Rest, SetIds, gotoTab')
  BY <1>3, <1>4, <1>8, <1>11, <1>12, <1>13, PromisesReplaced DEF Rest
<1>15. work' = s \o Rest
  BY <1>8 DEF s
<1>16. Good(A, M)'
  BY <1>2, <1>3, <1>6, <1>8, <1>9, <1>10, <1>14, <1>15, Closed
<1>17. QED
  BY <1>16

(* The labels of a switch differ. *)
LEMMA MarksDiffer ==
  ASSUME counter \in Nat, NEW D, NEW kids \in Seq(D)
  PROVE  /\ Cardinality(Marks(kids)) \in Nat
         /\ \A i \in Marks(kids) :
              MarkLabel(kids, i) \in counter .. counter + Cardinality(Marks(kids)) - 1
         /\ \A i, j \in Marks(kids) : MarkLabel(kids, i) = MarkLabel(kids, j) => i = j
<1> DEFINE All == Marks(kids)
           B(i) == {j \in All : j < i}
<1>1. /\ Len(kids) \in Nat /\ DOMAIN kids = 1 .. Len(kids)
      /\ \A i : MarkLabel(kids, i) = counter + Cardinality(B(i))
      /\ All \subseteq DOMAIN kids
  BY DEF MarkLabel, Marks
<1>2. IsFiniteSet(All)
  <2>1. IsFiniteSet(DOMAIN kids)
    BY <1>1, FS_Interval
  <2>2. QED
    BY <1>1, <2>1, FS_Subset
<1>3. All \subseteq Nat
  BY <1>1
<1> HIDE DEF All
<1>4. \A i : B(i) \subseteq All
  OBVIOUS
<1>5. \A i \in All : i \notin B(i)
  BY <1>3
<1>6. ASSUME NEW i \in All, NEW j \in All, i < j
      PROVE  B(i) \subseteq B(j) /\ i \in B(j)
  <2>1. \A x \in All : x < i => x < j
    <3> TAKE x \in All
    <3>1. x \in Nat /\ i \in Nat /\ j \in Nat /\ i < j
      BY <1>3, <1>6
    <3>2. QED
      BY <3>1
  <2>2. i \in B(j)
    BY <1>6
  <2>3. QED
    BY <2>1, <2>2
<1> HIDE DEF B
<1>7. \A i : IsFiniteSet(B(i)) /\ Cardinality(B(i)) \in Nat /\ Cardinality(All) \in Nat
  BY <1>2, <1>4, FS_Subset, FS_CardinalityType
<1>8. \A i \in All : Cardinality(B(i)) < Cardinality(All)
  <2> TAKE i \in All
  <2>1. B(i) # All
    BY <1>5
  <2>2. Cardinality(B(i)) <= Cardinality(All) /\ Cardinality(B(i)) # Cardinality(All)
    BY <1>2, <1>4, <2>1, FS_Subset
  <2>3. QED
    BY <1>7, <2>2
<1>9. \A i, j \in All : i < j => Cardinality(B(i)) < Cardinality(B(j))
  <2> SUFFICES ASSUME NEW i \in All, NEW j \in All, i < j
               PROVE  Cardinality(B(i)) < Cardinality(B(j))
    OBVIOUS
  <2>1. B(i) # B(j) /\ B(i) \subseteq B(j)
    BY <1>5, <1>6
  <2>2. Cardinality(B(i)) <= Cardinality(B(j)) /\ Cardinality(B(i)) # Cardinality(B(j))
    BY <1>7, <2>1, FS_Subset
  <2>3. QED
    BY <1>7, <2>2
<1>10. \A i \in All : MarkLabel(kids, i) \in counter .. counter + Cardinality(All) - 1
  <2> TAKE i \in All
  <2>1. /\ MarkLabel(kids, i) = counter + Cardinality(B(i)) /\ Cardinality(B(i)) \in Nat
        /\ Cardinality(All) \in Nat /\ Cardinality(B(i)) < Cardinality(All)
    BY <1>1, <1>7, <1>8
  <2>2. QED
    BY <2>1
<1>11. ASSUME NEW i \in All, NEW j \in All, MarkLabel(kids, i) = MarkLabel(kids, j)
       PROVE  i = j
  <2>1. Cardinality(B(i)) = Cardinality(B(j))
    <3>1. /\ MarkLabel(kids, i) = counter + Cardinality(B(i)) /\ Cardinality(B(i)) \in Nat
          /\ MarkLabel(kids, j) = counter + Cardinality(B(j)) /\ Cardinality(B(j)) \in Nat
      BY <1>1, <1>7
    <3>2. \A a, b \in Nat : counter + a = counter + b => a = b
      OBVIOUS
    <3>3. counter + Cardinality(B(i)) = counter + Cardinality(B(j))
      BY <1>11, <3>1
    <3>4. QED
      BY <3>1, <3>2, <3>3
  <2>2. ~(i < j) /\ ~(j < i)
    BY <1>7, <1>9, <2>1
  <2>3. QED
    BY <1>3, <2>2
<1>12. QED
  BY <1>7, <1>10, <1>11 DEF All

(* What is ordinary of a switch. *)
LEMMA SwitchIs ==
  ASSUME \A n \in DOMAIN Nodes : OrdinaryStatement(n), NEW n \in DOMAIN Nodes, Nodes[n].k = "switch"
  PROVE  /\ MarksInSwitches(Nodes) /\ DisjointCases(Nodes, n)
         /\ Nodes[n].kids # <<>> => LastKid(Nodes, n) \in Leaving(Nodes)
         /\ \A i, j \in Defaults(Nodes[n].kids) : i = j
<1> DEFINE kids == Nodes[n].kids
<1>1. OrdinarySwitch(n)
  BY DEF OrdinaryStatement
<1>2. DisjointCases(Nodes, n)
  <2> SUFFICES ASSUME NEW i \in DOMAIN kids, NEW j \in DOMAIN kids, NEW v,
                      InSpan(Nodes, n, i, v), InSpan(Nodes, n, j, v), i # j
               PROVE  FALSE
    BY DEF DisjointCases
  <2>1. /\ i \in Cases(kids) /\ j \in Cases(kids)
        /\ v \in Span(kids[i]) /\ v \in Span(kids[j])
    BY DEF InSpan, Cases, Span
  <2>2. Span(kids[i]) \cap Span(kids[j]) = {}
    BY <1>1, <2>1 DEF OrdinarySwitch
  <2>3. QED
    BY <2>1, <2>2
<1>3. MarksInSwitches(Nodes)
  BY DEF MarksInSwitches, MarkKinds, OrdinaryStatement, IsMark
<1>4. QED
  BY <1>1, <1>2, <1>3 DEF OrdinarySwitch

(* cgen_switch. *)
LEMMA SwitchGood ==
  ASSUME CgenInv, NEW A, NEW L, Good(A, L), \A n \in DOMAIN Nodes : OrdinaryStatement(n),
         GenSwitch
  PROVE  \E M : Good(A, M)'
<1> DEFINE n == Head1.n
           kids == X.kids
           dispatch == counter + Cardinality(Marks(kids))
           end == dispatch + 1
           marks == {MarkLabel(kids, i) : i \in Marks(kids)}
           ids == marks \cup {dispatch, end}
           first == <<Eval(X.a), Push, Jmp("jmp", dispatch)>>
           pop == <<Set(dispatch), Pop>>
           last == <<Set(end), Restore(brk, cont)>>
           s == first \o Body(kids) \o pop \o Tests(kids) \o ToDefault(kids) \o last
<1>1. /\ At1("switch") /\ counter' = counter + (Cardinality(Marks(kids)) + 2)
      /\ UNCHANGED <<code, codeSize, labelTab, funcStart, patched, src, fn, symbols, gotoTab>>
      /\ brk' = end /\ cont' = cont /\ work' = s \o Rest
  BY DEF GenSwitch, NewLabels
<1>2. /\ Tree(Nodes) /\ n \in DOMAIN Nodes /\ X = Nodes[n] /\ X.k = "switch" /\ X.a # None
      /\ counter \in Nat /\ kids \in Seq(DOMAIN Nodes)
  BY <1>1, StatementIs
<1>3. Root(Nodes, n) = Body0 /\ DOMAIN L \subseteq Ids(counter)
  BY <1>1, OpenedStatement DEF Ahead
<1>4. /\ Cardinality(Marks(kids)) \in Nat
      /\ \A i \in Marks(kids) :
           MarkLabel(kids, i) \in counter .. counter + Cardinality(Marks(kids)) - 1
      /\ \A i, j \in Marks(kids) : MarkLabel(kids, i) = MarkLabel(kids, j) => i = j
  BY <1>2, MarksDiffer
<1>5. /\ counter' \in Nat /\ counter <= counter' /\ dispatch \in counter .. counter' - 1
      /\ end \in counter .. counter' - 1 /\ dispatch # end
      /\ \A i \in Marks(kids) : /\ MarkLabel(kids, i) \in counter .. counter' - 1
                                /\ MarkLabel(kids, i) # dispatch /\ MarkLabel(kids, i) # end
  BY <1>1, <1>2, <1>4
<1> HIDE DEF dispatch, end
<1> DEFINE G == [id \in ids |->
                   IF id = dispatch THEN Pushed(Nodes, n)
                   ELSE IF id = end THEN On(Nodes, At("leave", n))
                   ELSE On(Nodes, At("leave", kids[CHOOSE i \in Marks(kids) : MarkLabel(kids, i) = id]))]
<1>6. /\ DOMAIN G = ids /\ G[dispatch] = Pushed(Nodes, n) /\ G[end] = On(Nodes, At("leave", n))
      /\ \A i \in Marks(kids) : G[MarkLabel(kids, i)] = On(Nodes, At("leave", kids[i]))
  <2>1. DOMAIN G = ids /\ G[dispatch] = Pushed(Nodes, n) /\ G[end] = On(Nodes, At("leave", n))
    BY <1>5
  <2>2. ASSUME NEW i \in Marks(kids)
        PROVE  G[MarkLabel(kids, i)] = On(Nodes, At("leave", kids[i]))
    <3>1. (CHOOSE j \in Marks(kids) : MarkLabel(kids, j) = MarkLabel(kids, i)) = i
      BY <1>4
    <3>2. MarkLabel(kids, i) \in ids /\ MarkLabel(kids, i) # dispatch /\ MarkLabel(kids, i) # end
      BY <1>5
    <3>3. QED
      BY <3>1, <3>2
  <2>3. QED
    BY <2>1, <2>2
<1> HIDE DEF G
<1>7. \A id \in ids : id \in counter .. counter' - 1
  BY <1>5
<1>8. PICK M : /\ Extends(L, M) /\ DOMAIN M \subseteq Ids(counter')
               /\ \A id \in ids : id \in DOMAIN M /\ M[id] = G[id]
               /\ \A j \in DOMAIN M : j \notin DOMAIN L => j \in ids
  <2> HIDE DEF ids
  <2>1. \A id \in DOMAIN G : id \in counter .. counter' - 1
    BY <1>6, <1>7
  <2>2. /\ Extends(L, With(L, G)) /\ DOMAIN With(L, G) \subseteq Ids(counter')
        /\ \A id \in DOMAIN G : id \in DOMAIN With(L, G) /\ With(L, G)[id] = G[id]
        /\ \A id \in DOMAIN With(L, G) : id \notin DOMAIN L => id \in DOMAIN G
    BY <1>2, <1>3, <1>5, <2>1, WithIs
  <2>3. QED
    BY <1>6, <2>2
<1>9. \A W, V : Placed(Nodes, M, n, W, brk, cont, V) =>
         Runs(Nodes, Body0, M, s, W, brk', cont', Stage(V, brk, cont))
  <2> SUFFICES ASSUME NEW W, NEW V, Placed(Nodes, M, n, W, brk, cont, V)
               PROVE  Runs(Nodes, Body0, M, s, W, end, cont, Stage(V, brk, cont))
    BY <1>1
  <2>1. dispatch \in DOMAIN M /\ M[dispatch] = Pushed(Nodes, n)
        /\ end \in DOMAIN M /\ M[end] = On(Nodes, At("leave", n))
    BY <1>6, <1>8
  <2>2. \A i \in Marks(kids) : /\ MarkLabel(kids, i) \in DOMAIN M
                               /\ M[MarkLabel(kids, i)] = On(Nodes, At("leave", kids[i]))
    BY <1>6, <1>8
  <2>3. /\ MarksInSwitches(Nodes) /\ DisjointCases(Nodes, n)
        /\ kids # <<>> => LastKid(Nodes, n) \in Leaving(Nodes)
        /\ \A i, j \in Defaults(kids) : i = j
    BY <1>2, SwitchIs
  <2>4. kids = Nodes[n].kids
    BY <1>2
  <2> HIDE DEF kids
  <2>5. QED
    BY <1>2, <1>3, <2>1, <2>2, <2>3, <2>4, SwitchRuns
<1>10. /\ In(s, Set(dispatch)) /\ In(s, Set(end))
       /\ \A x : In(Body(kids), x) => In(s, x)
  <2>1. Listed(first)
    BY ListThree
  <2>2. Listed(pop) /\ In(pop, Set(dispatch))
    BY ListTwo
  <2>3. Listed(last) /\ In(last, Set(end))
    BY ListTwo
  <2>4. Listed(Body(kids)) /\ Listed(Tests(kids))
    <3>1. Body(kids) \in Seq({Body(kids)[i] : i \in DOMAIN kids})
      BY <1>2 DEF Body
    <3>2. Tests(kids) \in Seq({Tests(kids)[i] : i \in DOMAIN kids})
      BY <1>2 DEF Tests
    <3>3. QED
      BY <3>1, <3>2 DEF Listed
  <2>5. Listed(ToDefault(kids))
    <3>1. \A a : Listed(<<a>>)
      BY ListOne
    <3>2. <<>> \in Seq({})
      OBVIOUS
    <3>3. Listed(<<>>)
      BY <3>2 DEF Listed
    <3>4. QED
      BY <3>1, <3>3 DEF ToDefault
  <2> HIDE DEF first, pop, last, kids
  <2> DEFINE s1 == first \o Body(kids)
             s2 == s1 \o pop
             s3 == s2 \o Tests(kids)
             s4 == s3 \o ToDefault(kids)
  <2>6. Listed(s1) /\ \A x : In(Body(kids), x) => In(s1, x)
    BY <2>1, <2>4, ListedBoth, InJoin
  <2> HIDE DEF s1
  <2>7. Listed(s2) /\ In(s2, Set(dispatch)) /\ \A x : In(Body(kids), x) => In(s2, x)
    BY <2>2, <2>6, ListedBoth, InJoin
  <2> HIDE DEF s2
  <2>8. Listed(s3) /\ In(s3, Set(dispatch)) /\ \A x : In(Body(kids), x) => In(s3, x)
    BY <2>4, <2>7, ListedBoth, InJoin
  <2> HIDE DEF s3
  <2>9. Listed(s4) /\ In(s4, Set(dispatch)) /\ \A x : In(Body(kids), x) => In(s4, x)
    BY <2>5, <2>8, ListedBoth, InJoin
  <2>10. s = s4 \o last
    BY DEF s1, s2, s3
  <2> HIDE DEF s4, s
  <2>11. QED
    BY <2>3, <2>9, <2>10, InJoin
<1> HIDE DEF s
<1>11. \A i \in DOMAIN kids : In(Body(kids), IF IsMark(kids[i]) THEN Set(MarkLabel(kids, i))
                                           ELSE Stmt(kids[i]))
  BY DEF Body, In
<1>12. \A i \in DOMAIN kids :
         \/ In(s, Stmt(kids[i]))
         \/ Nodes[kids[i]].k # "label" /\ Nodes[kids[i]].kids = <<>>
  <2> SUFFICES ASSUME NEW i \in DOMAIN kids, IsMark(kids[i])
               PROVE  Nodes[kids[i]].k # "label" /\ Nodes[kids[i]].kids = <<>>
    BY <1>10, <1>11
  <2>1. kids[i] \in DOMAIN Nodes /\ Shaped(src)
    BY <1>2, FilesAssumption DEF CgenInv
  <2>2. Nodes[kids[i]].k \in Simple /\ Nodes[kids[i]].k # "label"
    BY DEF IsMark, Simple
  <2>3. QED
    BY <2>1, <2>2 DEF Shaped, Nodes
<1>13. \A id \in DOMAIN M : id \notin DOMAIN L => In(s, Set(id))
  <2>1. \A i \in Marks(kids) : In(s, Set(MarkLabel(kids, i)))
    BY <1>10, <1>11 DEF Marks
  <2>2. \A id \in ids : In(s, Set(id))
    BY <1>10, <2>1
  <2>3. QED
    BY <1>8, <2>2
<1>14. Good(A, M)'
  BY <1>1, <1>8, <1>9, <1>12, <1>13, Generated
<1>15. QED
  BY <1>14

---------------------------------------------------------------------------
(* The other items. *)

(* What is promised of labels stays so when an item that sets none is      *)
(* done.                                                                   *)
LEMMA PromisesKept ==
  ASSUME NEW A, NEW L, Ahead(A, L), work # <<>>, Listed(work),
         Head1.do \notin {"stmt", "set"},
         NEW M, Extends(L, M), NEW s, Listed(s),
         \A id \in DOMAIN M : id \notin DOMAIN L => In(s, Set(id))
  PROVE  Promises(Nodes, Body0, M, s \o Rest, SetIds, gotoTab)
<1>1. Promises(Nodes, Body0, L, work, SetIds, gotoTab)
  BY DEF Ahead
<1>2. Told(Nodes, Body0, M, gotoTab)
  BY <1>1, ToldMore DEF Promises
<1>3. \A x : work[1] # Set(x) /\ work[1] # Stmt(x)
  <2>1. \A x : Set(x).do = "set" /\ Stmt(x).do = "stmt"
    BY DEF Set, Stmt
  <2>2. QED
    BY <2>1 DEF Head1
<1>4. \A n, m : work[1] = Stmt(n) /\ LabelIn(Nodes, Body0, m) /\ Under(Nodes, m, n) =>
           \/ Waiting(Nodes, s, m)
           \/ \E i \in DOMAIN gotoTab : gotoTab[i].name = Nodes[m].name /\ In(s, Set(gotoTab[i].id))
  BY <1>3
<1>5. \A id : work[1] = Set(id) => id \in SetIds
  BY <1>3
<1>6. QED
  BY <1>1, <1>2, <1>4, <1>5, PromisesReplaced DEF Rest

(* The prologue is the first item of a function only: once an item is done *)
(* there is code.                                                          *)
LEMMA NotFirst ==
  ASSUME NEW A, NEW L, Ahead(A, L), Head1.do # "emit"
  PROVE  funcStart # codeSize
<1>1. Prologue.do = "emit"
  BY DEF Prologue, Put1
<1>2. QED
  BY <1>1 DEF Ahead, Head1

(* The work left is a list. *)
LEMMA RestIsList ==
  ASSUME Listed(Rest)
  PROVE  <<>> \o Rest = Rest /\ Listed(<<>>)
<1>1. PICK S : Rest \in Seq(S)
  BY DEF Listed
<1>2. <<>> \o Rest = Rest /\ <<>> \in Seq(S)
  BY <1>1, ConcatEmptySeq
<1>3. QED
  BY <1>2 DEF Listed

(* The targets of break and continue are put back. *)
LEMMA RestoreGood ==
  ASSUME CgenInv, NEW A, NEW L, Good(A, L), DoRestore
  PROVE  Good(A, L)'
<1>1. /\ work # <<>> /\ Head1.do = "restore" /\ brk' = Head1.brk /\ cont' = Head1.cont
      /\ work' = Rest
      /\ UNCHANGED <<code, codeSize, labelTab, funcStart, patched, src, fn, symbols>>
      /\ counter' = counter /\ gotoTab' = gotoTab
  BY DEF DoRestore, Item, labelVars
<1>2. Ahead(A, L) /\ ~patched /\ Listed(work) /\ Listed(Rest)
  BY <1>1, Opened
<1>3. PICK W, g, f : /\ A[codeSize] \subseteq W
                     /\ Fits(Nodes, Body0, L, Head1, Stage(W, brk, cont), g)
                     /\ Chain(Nodes, Body0, L, Rest, g, f)
                     /\ f.set = On(Nodes, At("ret", Body0))
  BY <1>1, Opened
<1>4. g = Stage(g.set, brk', cont') /\ W \subseteq g.set
  BY <1>1, <1>3, StageIs DEF Fits
<1>5. Runs(Nodes, Body0, L, <<>>, W, brk', cont', Stage(g.set, brk', cont'))
  BY <1>4, RunsNone
<1>6. Extends(L, L)
  BY DEF Extends
<1>7. DOMAIN L \subseteq Ids(counter') /\ funcStart # codeSize
  BY <1>1, <1>2, NotFirst DEF Ahead
<1>8. Promises(Nodes, Body0, L, <<>> \o Rest, SetIds, gotoTab')
  <2>1. Listed(<<>>)
    BY <1>2, RestIsList
  <2>2. \A id \in DOMAIN L : id \notin DOMAIN L => In(<<>>, Set(id))
    OBVIOUS
  <2>3. QED
    BY <1>1, <1>2, <1>6, <2>1, <2>2, PromisesKept
<1>9. work' = <<>> \o Rest
  BY <1>1, <1>2, RestIsList
<1>10. Chain(Nodes, Body0, L, Rest, Stage(g.set, brk', cont'), f)
  BY <1>3, <1>4
<1>11. QED
  BY <1>1, <1>2, <1>3, <1>5, <1>6, <1>7, <1>8, <1>9, <1>10, Closed

(* One turn of the loop over the cases. *)
LEMMA TestGood ==
  ASSUME CgenInv, NEW A, NEW L, Good(A, L), DoTest
  PROVE  \E M : Good(A, M)'
<1> DEFINE n == Head1.n
           id == Head1.id
           N == Nodes
<1>1. /\ work # <<>> /\ Head1.do = "test" /\ brk' = brk /\ cont' = cont
      /\ UNCHANGED <<code, codeSize, labelTab, funcStart, patched, src, fn, symbols>>
      /\ gotoTab' = gotoTab
  BY DEF DoTest, Item, KeepTargets, NewLabels, labelVars
<1>2. Ahead(A, L) /\ ~patched /\ Listed(work) /\ Listed(Rest) /\ funcStart # codeSize
  BY <1>1, Opened, NotFirst
<1>3. PICK W, g, f : /\ A[codeSize] \subseteq W
                     /\ Fits(Nodes, Body0, L, Head1, Stage(W, brk, cont), g)
                     /\ Chain(Nodes, Body0, L, Rest, g, f)
                     /\ f.set = On(Nodes, At("ret", Body0))
  BY <1>1, Opened
<1> DEFINE V == g.set
<1>4. /\ g = Stage(V, brk, cont)
      /\ IF N[n].k = "case" THEN id \in DOMAIN L /\ Sorts(N, n, W, L[id], V) ELSE W \subseteq V
  BY <1>1, <1>3, StageIs DEF Fits
<1>5. n \in DOMAIN N /\ counter \in Nat /\ DOMAIN L \subseteq Ids(counter)
  <2>1. n \in DOMAIN src.nodes
    BY <1>1, Next1, Held
  <2>2. QED
    BY <1>2, <2>1 DEF Nodes, CgenInv, Ahead
<1>6. N[n].k = "case" => N[n].lo \in Int /\ N[n].hi \in Int
  BY <1>5, FilesAssumption DEF CgenInv, Shaped, Nodes
<1>7. Chain(N, Body0, L, Rest, Stage(V, brk', cont'), f)
  BY <1>1, <1>3, <1>4
<1> HIDE DEF V
<1>8. ASSUME NEW M, Extends(L, M), DOMAIN M \subseteq Ids(counter'), NEW s,
             Runs(N, Body0, M, s, W, brk', cont', Stage(V, brk', cont')),
             \A i \in DOMAIN M : i \notin DOMAIN L => In(s, Set(i)), work' = s \o Rest
      PROVE  \E M1 : Good(A, M1)'
  <2>1. Listed(s)
    BY <1>8 DEF Runs, Chain
  <2>2. Head1.do \notin {"stmt", "set"}
    BY <1>1
  <2>3. Promises(Nodes, Body0, M, s \o Rest, SetIds, gotoTab)
    BY <1>1, <1>2, <1>8, <2>1, <2>2, PromisesKept
  <2>4. Good(A, M)'
    BY <1>1, <1>2, <1>3, <1>7, <1>8, <2>3, Closed
  <2>5. QED
    BY <2>4
<1>9. Extends(L, L)
  BY DEF Extends
<1>10. CASE N[n].k # "case"
  <2>1. work' = <<>> \o Rest /\ counter' = counter
    BY <1>10 DEF DoTest, IsRange, labelVars
  <2>2. Runs(N, Body0, L, <<>>, W, brk', cont', Stage(V, brk', cont'))
    BY <1>4, <1>10, RunsNone
  <2>3. \A i \in DOMAIN L : i \notin DOMAIN L => In(<<>>, Set(i))
    OBVIOUS
  <2>4. DOMAIN L \subseteq Ids(counter')
    BY <1>5, <2>1
  <2>5. QED
    BY <1>8, <1>9, <2>1, <2>2, <2>3, <2>4
<1>11. CASE N[n].k = "case" /\ N[n].hi = N[n].lo
  <2> DEFINE s == <<Cmp(N[n].lo), Jmp("jz", id)>>
  <2>1. work' = s \o Rest /\ counter' = counter
    BY <1>11 DEF DoTest, IsRange, CaseTest, labelVars
  <2>2. Runs(N, Body0, L, s, W, brk', cont', Stage(V, brk', cont'))
    BY <1>4, <1>6, <1>11, CaseRuns
  <2> HIDE DEF s
  <2>3. \A i \in DOMAIN L : i \notin DOMAIN L => In(s, Set(i))
    OBVIOUS
  <2>4. DOMAIN L \subseteq Ids(counter')
    BY <1>5, <2>1
  <2>5. QED
    BY <1>8, <1>9, <2>1, <2>2, <2>3, <2>4
<1>12. CASE N[n].k = "case" /\ N[n].hi # N[n].lo
  <2> DEFINE skip == counter
             G == [j \in {skip} |-> V]
             s == <<Cmp(N[n].lo), Jmp("jl", skip), Cmp(N[n].hi), Jmp("jg", skip),
                    Jmp("jmp", id), Set(skip)>>
  <2>1. work' = s \o Rest /\ counter' = counter + 1
    BY <1>12 DEF DoTest, IsRange, CaseTest, NewLabels
  <2>2. counter' \in Nat /\ counter <= counter' /\ skip \in counter .. counter' - 1
    BY <1>5, <2>1
  <2>3. DOMAIN G = {skip} /\ G[skip] = V
    OBVIOUS
  <2> HIDE DEF G
  <2>4. \A j \in DOMAIN G : j \in counter .. counter' - 1
    BY <2>2, <2>3
  <2>5. PICK M : /\ Extends(L, M) /\ DOMAIN M \subseteq Ids(counter')
                 /\ \A i \in DOMAIN G : i \in DOMAIN M /\ M[i] = G[i]
                 /\ \A j \in DOMAIN M : j \notin DOMAIN L => j \in DOMAIN G
    <3>1. /\ Extends(L, With(L, G)) /\ DOMAIN With(L, G) \subseteq Ids(counter')
          /\ \A j \in DOMAIN G : j \in DOMAIN With(L, G) /\ With(L, G)[j] = G[j]
          /\ \A j \in DOMAIN With(L, G) : j \notin DOMAIN L => j \in DOMAIN G
      BY <1>5, <2>2, <2>4, WithIs
    <3>2. QED
      BY <3>1
  <2>6. skip \in DOMAIN M /\ M[skip] = V
    BY <2>3, <2>5
  <2>7. id \in DOMAIN M /\ Sorts(N, n, W, M[id], V)
    BY <1>4, <1>12, <2>5 DEF Extends
  <2> HIDE DEF skip
  <2>8. Runs(N, Body0, M, s, W, brk', cont', Stage(V, brk', cont'))
    BY <1>6, <1>12, <2>6, <2>7, RangeRuns
  <2>9. In(s, Set(skip))
    BY ListSix
  <2> HIDE DEF s
  <2>10. \A i \in DOMAIN M : i \notin DOMAIN L => In(s, Set(i))
    BY <2>3, <2>5, <2>9
  <2>11. QED
    BY <1>8, <2>1, <2>5, <2>8, <2>10
<1>13. QED
  BY <1>10, <1>11, <1>12


(* An instruction is put behind the code, as the next item says. *)
LEMMA PutGood ==
  ASSUME CgenInv, LabelsInv, NEW A, NEW L, Good(A, L), work # <<>>,
         Head1.do \in {"emit", "jump"},
         NEW ins, ins.len \in Nat \ {0}, ins.op \in JumpOps => ins.to \in DOMAIN L,
         NEW W, A[codeSize] \subseteq W, NEW V, Does(Nodes, ins, W, L[ins.to], V),
         NEW f, f.set = On(Nodes, At("ret", Body0)),
         Chain(Nodes, Body0, L, Rest, Stage(V, brk, cont), f),
         Put(ins), work' = Rest,
         UNCHANGED <<labelTab, counter, funcStart, patched, src, fn, brk, cont, gotoTab, symbols>>
  PROVE  \E B : Good(B, L)'
<1>1. Ahead(A, L) /\ ~patched /\ Listed(work) /\ Listed(Rest)
  BY Opened
<1>2. Nodes' = Nodes /\ Body0' = Body0 /\ SetIds' = SetIds
  BY DEF Nodes, Body0, SetIds
<1>3. /\ codeSize \in Nat /\ funcStart \in Nat /\ funcStart <= codeSize /\ patched = FALSE
      /\ \A k \in DOMAIN labelTab : labelTab[k].off \in Nat
  <2>1. codeSize \in Nat /\ funcStart \in 0 .. codeSize /\ patched \in BOOLEAN
        /\ labelTab \in Seq([id : Nat, off : Nat])
    BY DEF LabelsInv, LabelsTypeOK
  <2>2. \A k \in DOMAIN labelTab : labelTab[k] \in [id : Nat, off : Nat]
    BY <2>1, ElementOfSeq, LenProperties
  <2>3. QED
    BY <1>1, <2>1, <2>2
<1>4. /\ code' = [o \in DOMAIN code \cup {codeSize} |-> IF o = codeSize THEN ins ELSE code[o]]
      /\ codeSize' = codeSize + ins.len
  BY DEF Put
<1>5. Flow(Nodes, code, codeSize, funcStart, patched, A, L)
  BY <1>3 DEF Good
<1>6. PICK B : /\ Flow(Nodes, code', codeSize', funcStart, patched, B, L)
               /\ B[codeSize'] = V /\ Below(A, B)
  <2> DEFINE c == code
             size == codeSize
             d == code'
             N == Nodes
             done == patched
             start == funcStart
  <2>1. Flow(N, c, size, start, done, A, L) /\ ~done /\ start \in Nat /\ start <= size
    BY <1>1, <1>3, <1>5
  <2>2. Puts(c, size, ins, d)
    BY <1>4 DEF Puts
  <2>3. Follows(N, A, L, size, ins, W, V)
    BY DEF Follows
  <2> HIDE DEF c, size, d, N, done, start
  <2>4. \E B : /\ Flow(N, d, size + ins.len, start, done, B, L)
               /\ B[size + ins.len] = V /\ Below(A, B)
    BY <2>1, <2>2, <2>3, FlowPut
  <2>5. QED
    BY <1>4, <2>4 DEF c, size, d, N, done, start
<1>7. Flow(Nodes, code, codeSize, funcStart, patched, B, L)'
  <2>1. patched' = patched /\ funcStart' = funcStart
    BY <1>3
  <2>2. QED
    BY <1>2, <1>6, <2>1
<1>8. codeSize < codeSize' /\ codeSize' \in Nat /\ funcStart < codeSize'
  BY <1>3, <1>4
<1>9. Entries(B)'
  <2>1. Entries(A)
    BY DEF Good
  <2>2. symbols \in Seq([start : Nat, size : Int])
    BY <2>1 DEF Entries
  <2>3. ASSUME NEW i \in DOMAIN symbols
        PROVE  symbols[i].start < codeSize' /\ Entry(src.funcs[i]) \subseteq B[symbols[i].start]
    <3>1. symbols[i].start \in Nat
      <4>1. symbols[i] \in [start : Nat, size : Int]
        BY <2>2, ElementOfSeq, LenProperties
      <4>2. QED
        BY <4>1
    <3>2. symbols[i].start < codeSize /\ Entry(src.funcs[i]) \subseteq A[symbols[i].start]
      BY <2>1 DEF Entries
    <3>3. QED
      BY <1>3, <1>6, <1>8, <3>1, <3>2 DEF Below
  <2>4. Entry(Body0) \subseteq B[funcStart]
    BY <1>1, <1>3, <1>6, <2>1 DEF Below, Entries
  <2>5. \A n : Entry(n)' = Entry(n)
    BY <1>2 DEF Entry
  <2>6. QED
    BY <1>2, <2>1, <2>3, <2>4, <2>5 DEF Entries
<1>10. Promises(Nodes, Body0, L, Rest, SetIds, gotoTab)
  <2>1. <<>> \o Rest = Rest /\ Listed(<<>>)
    BY <1>1, RestIsList
  <2>2. Extends(L, L) /\ \A id \in DOMAIN L : id \notin DOMAIN L => In(<<>>, Set(id))
    BY DEF Extends
  <2>3. Head1.do \notin {"stmt", "set"}
    OBVIOUS
  <2>4. Promises(Nodes, Body0, L, <<>> \o Rest, SetIds, gotoTab)
    BY <1>1, <2>1, <2>2, <2>3, PromisesKept
  <2>5. QED
    BY <2>1, <2>4
<1>11. Runs(Nodes, Body0, L, Rest, B[codeSize'], brk, cont, f)
  BY <1>6, RunsChain
<1>12. \A k \in DOMAIN labelTab : /\ labelTab[k].id \in DOMAIN L
                                  /\ L[labelTab[k].id] \subseteq B[labelTab[k].off]
  BY <1>1, <1>3, <1>6 DEF Ahead, Below
<1>13. DOMAIN L \subseteq Ids(counter)
  BY <1>1 DEF Ahead
<1>14. funcStart # codeSize'
  BY <1>3, <1>8
<1>15. Ahead(B, L)'
  BY <1>2, <1>10, <1>11, <1>12, <1>13, <1>14 DEF Ahead
<1>16. QED
  BY <1>7, <1>9, <1>15 DEF Good

(* An instruction that is no jump is emitted, *)
LEMMA EmitGood ==
  ASSUME CgenInv, LabelsInv, NEW A, NEW L, Good(A, L), DoEmit
  PROVE  \E B : Good(B, L)'
<1> DEFINE ins == Head1.ins
<1>1. /\ work # <<>> /\ Head1.do = "emit" /\ Put(ins) /\ work' = Rest
      /\ UNCHANGED <<labelTab, counter, funcStart, patched, src, fn, brk, cont, gotoTab, symbols>>
  BY DEF DoEmit, Item, Emit, KeepTargets
<1>2. PICK W, g, f : /\ A[codeSize] \subseteq W
                     /\ Fits(Nodes, Body0, L, Head1, Stage(W, brk, cont), g)
                     /\ Chain(Nodes, Body0, L, Rest, g, f)
                     /\ f.set = On(Nodes, At("ret", Body0))
  BY <1>1, Opened
<1>3. PICK U : W \subseteq U /\ Does(Nodes, ins, U, {}, g.set)
  BY <1>1, <1>2, StageIs DEF Fits
<1>4. g = Stage(g.set, brk, cont)
  BY <1>1, <1>2, StageIs DEF Fits
<1>5. ins.len \in Nat \ {0} /\ ins.op \notin JumpOps
  <2>1. ins \in Plain
    BY <1>1, Next1, Held
  <2>2. QED
    BY <2>1, PlainAssumption DEF JumpOps
<1> DEFINE V == g.set
<1>6. Does(Nodes, ins, U, L[ins.to], V)
  BY <1>3, <1>5, DoesMore
<1>7. A[codeSize] \subseteq U
  BY <1>2, <1>3
<1>8. Chain(Nodes, Body0, L, Rest, Stage(V, brk, cont), f)
  BY <1>2, <1>4
<1> HIDE DEF V, ins
<1>9. QED
  BY <1>1, <1>2, <1>5, <1>6, <1>7, <1>8, PutGood

(* and a jump, to a label set already or not. *)
LEMMA JumpGood ==
  ASSUME CgenInv, LabelsInv, NEW A, NEW L, Good(A, L), DoJump
  PROVE  \E B : Good(B, L)'
<1> DEFINE op == Head1.op
           id == Head1.id
<1>1. /\ work # <<>> /\ Head1.do = "jump" /\ EmitJump(op, id) /\ work' = Rest
      /\ UNCHANGED <<src, fn, brk, cont, gotoTab, symbols>>
  BY DEF DoJump, Item, KeepTargets
<1>2. PICK d : /\ Put(Jump(op, id, d))
               /\ UNCHANGED <<labelTab, counter, funcStart, patched>>
  BY <1>1 DEF EmitJump, EmitBackward, EmitForward, Emit
<1>3. PICK W, g, f : /\ A[codeSize] \subseteq W
                     /\ Fits(Nodes, Body0, L, Head1, Stage(W, brk, cont), g)
                     /\ Chain(Nodes, Body0, L, Rest, g, f)
                     /\ f.set = On(Nodes, At("ret", Body0))
  BY <1>1, Opened
<1> DEFINE V == g.set
           ins == Jump(op, id, d)
<1>4. g = Stage(V, brk, cont) /\ id \in DOMAIN L /\ Parts(op, W, L[id], V)
  BY <1>1, <1>3, StageIs DEF Fits
<1>5. op \in JumpOps
  BY <1>1, Next1, Held
<1>6. ins.op = op /\ ins.to = id /\ ins.len \in Nat \ {0}
  BY DEF Jump, JumpLen
<1>7. Does(Nodes, ins, W, L[ins.to], V)
  <2> HIDE DEF ins, op, id, V
  <2>1. Parts(ins.op, W, L[ins.to], V)
    BY <1>4, <1>6
  <2>2. QED
    BY <1>5, <1>6, <2>1, DoesJump
<1>8. Chain(Nodes, Body0, L, Rest, Stage(V, brk, cont), f)
  BY <1>3, <1>4
<1>9. Put(ins)
  BY <1>2
<1> HIDE DEF V, ins, op, id
<1>10. ins.op \in JumpOps => ins.to \in DOMAIN L
  BY <1>4, <1>6
<1>11. QED
  BY <1>1, <1>2, <1>3, <1>6, <1>7, <1>8, <1>9, <1>10, PutGood

(* A label is set where the code ends. *)
LEMMA SetGood ==
  ASSUME CgenInv, LabelsInv, NEW A, NEW L, Good(A, L), DoSet
  PROVE  \E B : Good(B, L)'
<1> DEFINE id == Head1.id
           e == [id |-> id, off |-> codeSize]
<1>1. /\ work # <<>> /\ Head1.do = "set" /\ labelTab' = Append(labelTab, e) /\ work' = Rest
      /\ UNCHANGED <<code, codeSize, counter, funcStart, patched, src, fn, brk, cont, gotoTab, symbols>>
  BY DEF DoSet, Item, KeepTargets, SetLabel
<1>2. Ahead(A, L) /\ ~patched /\ Listed(work) /\ Listed(Rest) /\ funcStart # codeSize
  BY <1>1, Opened, NotFirst
<1>3. PICK W, g, f : /\ A[codeSize] \subseteq W
                     /\ Fits(Nodes, Body0, L, Head1, Stage(W, brk, cont), g)
                     /\ Chain(Nodes, Body0, L, Rest, g, f)
                     /\ f.set = On(Nodes, At("ret", Body0))
  BY <1>1, Opened
<1> DEFINE V == g.set
<1>4. g = Stage(V, brk, cont) /\ id \in DOMAIN L /\ W \subseteq L[id] /\ L[id] \subseteq V
  BY <1>1, <1>3, StageIs DEF Fits
<1>5. Nodes' = Nodes /\ Body0' = Body0
  BY <1>1 DEF Nodes, Body0
<1>6. /\ codeSize \in Nat /\ funcStart \in Nat /\ patched = FALSE
      /\ labelTab \in Seq(Label)
      /\ \A k \in DOMAIN labelTab : labelTab[k].off \in Nat
  <2>1. codeSize \in Nat /\ funcStart \in 0 .. codeSize /\ patched \in BOOLEAN
        /\ labelTab \in Seq(Label)
    BY DEF LabelsInv, LabelsTypeOK, Label
  <2>2. \A k \in DOMAIN labelTab : labelTab[k] \in Label
    BY <2>1, ElementOfSeq, LenProperties
  <2>3. QED
    BY <1>2, <2>1, <2>2 DEF Label
<1>7. /\ DOMAIN labelTab' = DOMAIN labelTab \cup {Len(labelTab) + 1}
      /\ \A k \in DOMAIN labelTab : labelTab'[k] = labelTab[k]
      /\ labelTab'[Len(labelTab) + 1] = e
  <2>1. id \in Nat
    <3>1. id \in Ids(counter)
      BY <1>1, Next1, Held
    <3>2. QED
      BY <3>1 DEF Ids, CgenInv
  <2>2. e \in Label
    BY <1>6, <2>1 DEF Label
  <2> HIDE DEF e
  <2>3. QED
    BY <1>1, <1>6, <2>2
<1>8. SetIds' = SetIds \cup {id}
  <2>1. e.id = id
    OBVIOUS
  <2> HIDE DEF e, id
  <2>2. QED
    BY <1>7, <2>1 DEF SetIds
<1>9. Flow(Nodes, code, codeSize, funcStart, patched, A, L)
  BY <1>6 DEF Good
<1>10. A[codeSize] \subseteq V
  BY <1>3, <1>4
<1> HIDE DEF V
<1>11. PICK B : /\ Flow(Nodes, code, codeSize, funcStart, patched, B, L)
                /\ B[codeSize] = V /\ Below(A, B)
  BY <1>2, <1>9, <1>10, FlowRaised
<1>12. Flow(Nodes, code, codeSize, funcStart, patched, B, L)'
  <2>1. patched' = patched /\ funcStart' = funcStart /\ code' = code /\ codeSize' = codeSize
    BY <1>1, <1>6
  <2>2. QED
    BY <1>5, <1>11, <2>1
<1>13. Entries(B)'
  <2>1. Entries(A)
    BY DEF Good
  <2>2. symbols \in Seq([start : Nat, size : Int])
    BY <2>1 DEF Entries
  <2>3. ASSUME NEW i \in DOMAIN symbols
        PROVE  symbols[i].start < codeSize /\ Entry(src.funcs[i]) \subseteq B[symbols[i].start]
    <3>1. symbols[i].start \in Nat
      <4>1. symbols[i] \in [start : Nat, size : Int]
        BY <2>2, ElementOfSeq, LenProperties
      <4>2. QED
        BY <4>1
    <3>2. symbols[i].start < codeSize /\ Entry(src.funcs[i]) \subseteq A[symbols[i].start]
      BY <2>1 DEF Entries
    <3>3. QED
      BY <1>11, <3>1, <3>2 DEF Below
  <2>4. Entry(Body0) \subseteq B[funcStart]
    BY <1>2, <1>6, <1>11, <2>1 DEF Below, Entries
  <2>5. \A n : Entry(n)' = Entry(n)
    BY <1>5 DEF Entry
  <2>6. QED
    BY <1>1, <1>5, <2>1, <2>3, <2>4, <2>5 DEF Entries
<1>14. Promises(Nodes, Body0, L, Rest, SetIds', gotoTab)
  <2>1. <<>> \o Rest = Rest /\ Listed(<<>>)
    BY <1>2, RestIsList
  <2>2. Promises(Nodes, Body0, L, work, SetIds, gotoTab)
    BY <1>2 DEF Ahead
  <2>3. Extends(L, L) /\ \A i \in DOMAIN L : i \notin DOMAIN L =>
           In(<<>>, Set(i)) \/ \E j \in DOMAIN gotoTab : gotoTab[j].id = i
    BY DEF Extends
  <2>4. Told(Nodes, Body0, L, gotoTab)
    BY <2>2 DEF Promises
  <2>5. \A i : work[1] = Set(i) => i \in SetIds'
    BY <1>8 DEF Set, Head1
  <2>6. \A n, m : work[1] = Stmt(n) /\ LabelIn(Nodes, Body0, m) /\ Under(Nodes, m, n) =>
           \/ Waiting(Nodes, <<>>, m)
           \/ \E i \in DOMAIN gotoTab : gotoTab[i].name = Nodes[m].name /\ In(<<>>, Set(gotoTab[i].id))
    <3>1. \A n : work[1] # Stmt(n)
      BY <1>1 DEF Stmt, Head1
    <3>2. QED
      BY <3>1
  <2>7. SetIds \subseteq SetIds'
    BY <1>8
  <2>8. Promises(Nodes, Body0, L, <<>> \o Rest, SetIds', gotoTab)
    BY <1>1, <1>2, <2>1, <2>2, <2>3, <2>4, <2>5, <2>6, <2>7, PromisesReplaced DEF Rest
  <2>9. QED
    BY <2>1, <2>8
<1>15. Runs(Nodes, Body0, L, Rest, B[codeSize], brk, cont, f)
  BY <1>3, <1>4, <1>11, RunsChain
<1>16. \A k \in DOMAIN labelTab' : /\ labelTab'[k].id \in DOMAIN L
                                   /\ L[labelTab'[k].id] \subseteq B[labelTab'[k].off]
  <2>1. ASSUME NEW k \in DOMAIN labelTab
        PROVE  labelTab[k].id \in DOMAIN L /\ L[labelTab[k].id] \subseteq B[labelTab[k].off]
    BY <1>2, <1>6, <1>11 DEF Ahead, Below
  <2>2. e.id = id /\ e.off = codeSize
    OBVIOUS
  <2> HIDE DEF e, id
  <2>3. e.id \in DOMAIN L /\ L[e.id] \subseteq B[e.off]
    BY <1>4, <1>11, <2>2
  <2>4. QED
    BY <1>7, <2>1, <2>3
<1>17. DOMAIN L \subseteq Ids(counter)
  BY <1>2 DEF Ahead
<1>18. Ahead(B, L)'
  BY <1>1, <1>2, <1>3, <1>5, <1>14, <1>15, <1>16, <1>17 DEF Ahead
<1>19. QED
  BY <1>12, <1>13, <1>18 DEF Good

(* Where the compiler gives up. *)
LEMMA ExitGood ==
  ASSUME NEW A, NEW L, Good(A, L), TooManyCases \/ TooManyGotos \/ Overflow
  PROVE  Good(A, L)'
<1>1. /\ UNCHANGED <<code, codeSize, labelTab, counter, funcStart, patched>>
      /\ UNCHANGED <<src, fn, work, brk, cont, gotoTab, symbols>>
  BY DEF TooManyCases, TooManyGotos, Overflow, LabelOverflow, FixupOverflow, Exit, genVars
<1>2. Nodes' = Nodes /\ Body0' = Body0 /\ SetIds' = SetIds
  BY <1>1 DEF Nodes, Body0, SetIds
<1>3. Entries(A)' /\ (~patched => Ahead(A, L)')
  BY <1>1, <1>2 DEF Good, Entries, Ahead, Entry
<1>4. QED
  BY <1>1, <1>2, <1>3 DEF Good

(* The return that is added. *)
LEMMA ImplicitGood ==
  ASSUME CgenInv, NEW A, NEW L, Good(A, L), ImplicitReturn
  PROVE  Good(A, L)'
<1>1. /\ work = <<>> /\ ~patched /\ work' = <<Epilogue>>
      /\ UNCHANGED <<code, codeSize, labelTab, counter, funcStart, patched>>
      /\ UNCHANGED <<src, fn, brk, cont, gotoTab, symbols>>
  BY DEF ImplicitReturn, KeepTargets, labelVars
<1>2. Nodes' = Nodes /\ Body0' = Body0 /\ SetIds' = SetIds
  BY <1>1 DEF Nodes, Body0, SetIds
<1>3. Ahead(A, L)
  BY <1>1 DEF Good
<1>4. PICK f : /\ f.set = On(Nodes, At("ret", Body0))
               /\ Runs(Nodes, Body0, L, <<>>, A[codeSize], brk, cont, f)
  BY <1>1, <1>3 DEF Ahead
<1>5. PICK W : A[codeSize] \subseteq W /\ Chain(Nodes, Body0, L, <<>>, Stage(W, brk, cont), f)
  BY <1>4 DEF Runs
<1>6. f = Stage(W, brk, cont)
  BY <1>5 DEF Chain
<1>7. W = On(Nodes, At("ret", Body0))
  BY <1>4, <1>6, StageIs
<1>8. Body0 \in DOMAIN Nodes
  BY FileIsTree DEF CgenInv, Body0, Nodes
<1>9. At("ret", Body0) \in Points(Nodes) /\ At("ret", Body0)[1] = "ret"
  BY <1>8, PointsAre DEF At
<1>10. Fits(Nodes, Body0, L, Epilogue, Stage(W, brk, cont), Stage(W, brk, cont))
  BY <1>7, <1>9, FitsReturn
<1>11. Runs(Nodes, Body0, L, <<Epilogue>>, A[codeSize], brk, cont, f)
  BY <1>5, <1>6, <1>10, ChainOne DEF Runs
<1>12. Promises(Nodes, Body0, L, <<Epilogue>>, SetIds, gotoTab)
  <2>1. Promises(Nodes, Body0, L, <<>>, SetIds, gotoTab)
    BY <1>1, <1>3 DEF Ahead
  <2>2. \A x : ~In(<<>>, x)
    BY DEF In
  <2>3. QED
    BY <2>1, <2>2 DEF Promises, Promised, Waiting
<1>13. funcStart # codeSize
  BY <1>1, <1>3 DEF Ahead
<1>14. /\ DOMAIN L \subseteq Ids(counter)
       /\ \A k \in DOMAIN labelTab : /\ labelTab[k].id \in DOMAIN L
                                     /\ L[labelTab[k].id] \subseteq A[labelTab[k].off]
  BY <1>3 DEF Ahead
<1>15. Ahead(A, L)'
  BY <1>1, <1>2, <1>4, <1>11, <1>12, <1>13, <1>14 DEF Ahead
<1>16. Entries(A)'
  BY <1>1, <1>2 DEF Good, Entries, Entry
<1>17. QED
  BY <1>1, <1>2, <1>15, <1>16 DEF Good


(* A function begins: its body is the work. *)
LEMMA Begins ==
  ASSUME NEW file \in Files, NEW g \in DOMAIN file.funcs, NEW M, DOMAIN M = {}, NEW b, NEW c
  PROVE  LET N == file.nodes
             r == file.funcs[g]
             w == <<Prologue, Stmt(r)>>
             f == Stage(On(N, At("ret", r)), b, c)
         IN  /\ Runs(N, r, M, w, On(N, At("enter", r)), b, c, f)
             /\ Promises(N, r, M, w, {}, <<>>)
<1> DEFINE N == file.nodes
           r == file.funcs[g]
           w == <<Prologue, Stmt(r)>>
           U == On(N, At("enter", r))
           V == On(N, At("ret", r))
<1>1. Tree(N) /\ r \in DOMAIN N /\ \A n \in DOMAIN N : ~IsKid(N, r, n)
  BY FileIsTree
<1>2. Parent(N, r) = 0
  BY <1>1 DEF Parent
<1>3. Root(N, r) = r
  BY <1>1, <1>2, RootOf
<1>4. Aims(N, M, r, b, c)
  <2>1. \A ks : Enclosing(N, r, ks) = 0
    BY <1>1, <1>2, EnclosingOf
  <2>2. QED
    BY <2>1 DEF Aims
<1>5. On(N, At("leave", r)) \subseteq V
  BY <1>1, <1>2, LeaveRoot
<1>6. Fits(N, r, M, Stmt(r), Stage(U, b, c), Stage(V, b, c))
  <2> HIDE DEF N, r, V
  <2>1. QED
    BY <1>1, <1>3, <1>4, <1>5, FitsStmt
<1>7. Fits(N, r, M, Prologue, Stage(U, b, c), Stage(U, b, c))
  BY FitsPrologue
<1>8. Runs(N, r, M, w, U, b, c, Stage(V, b, c))
  <2> HIDE DEF N, r, V, U
  <2>1. Chain(N, r, M, <<Prologue, Stmt(r)>>, Stage(U, b, c), Stage(V, b, c))
    BY <1>6, <1>7, ChainTwo
  <2>2. QED
    BY <2>1, RunsChain
<1>9. Promises(N, r, M, w, {}, <<>>)
  <2>1. In(w, Stmt(r))
    BY ListTwo
  <2>2. ASSUME NEW m, LabelIn(N, r, m) PROVE Waiting(N, w, m)
    <3>1. m \in DOMAIN N /\ Root(N, m) = r
      BY <2>2 DEF LabelIn
    <3>2. Under(N, m, r)
      BY <1>1, <3>1, UnderRoot
    <3>3. QED
      BY <2>1, <3>2 DEF Waiting
  <2> HIDE DEF N, r, w
  <2>3. Told(N, r, M, <<>>)
    BY DEF Told
  <2>4. QED
    BY <2>2, <2>3 DEF Promises
<1>10. QED
  BY <1>8, <1>9

(* The next function begins behind the code there is. *)
LEMMA NextGood ==
  ASSUME CgenInv, LabelsInv, NEW A, NEW L, Good(A, L), NextFunction
  PROVE  \E B, M : Good(B, M)'
<1> DEFINE r == src.funcs[fn + 1]
           w == <<Prologue, Stmt(r)>>
           V == On(Nodes, At("enter", r))
<1>1. /\ patched /\ fn' = fn + 1 /\ work' = w /\ gotoTab' = <<>> /\ labelTab' = <<>>
      /\ funcStart' = codeSize /\ patched' = FALSE
      /\ UNCHANGED <<code, codeSize, counter, src, brk, cont, symbols>>
  BY DEF NextFunction, StartFunction
<1>2. src \in Files /\ fn \in Nat /\ fn + 1 \in DOMAIN src.funcs /\ fn \in DOMAIN src.funcs
  <2>1. src \in Files /\ fn \in DOMAIN src.funcs /\ src.funcs \in Seq(DOMAIN src.nodes)
    BY FilesAssumption DEF CgenInv
  <2>2. DOMAIN src.funcs = 1 .. Len(src.funcs) /\ Len(src.funcs) \in Nat
    BY <2>1, LenProperties
  <2>3. fn < Len(src.funcs)
    BY DEF NextFunction
  <2>4. QED
    BY <2>1, <2>2, <2>3
<1>3. Nodes' = Nodes /\ Body0' = r
  BY <1>1 DEF Nodes, Body0
<1>4. PICK M : DOMAIN M = {}
  <2>1. DOMAIN [x \in {} |-> {}] = {}
    OBVIOUS
  <2>2. QED
    BY <2>1
<1>5. /\ Runs(Nodes, r, M, w, V, brk, cont, Stage(On(Nodes, At("ret", r)), brk, cont))
      /\ Promises(Nodes, r, M, w, {}, <<>>)
  BY <1>2, <1>4, Begins DEF Nodes
<1>6. Flow(Nodes, code, codeSize, funcStart, patched, A, L) /\ codeSize \in Nat
  BY DEF Good, LabelsInv, LabelsTypeOK
<1> HIDE DEF r, w, V
<1>7. PICK B : /\ Flow(Nodes, code, codeSize, codeSize, patched', B, M)
               /\ B[codeSize] = V /\ Below(A, B)
  <2> DEFINE B == [o \in Nat |-> IF o = codeSize THEN V ELSE A[o]]
             N == Nodes
  <2>1. A[codeSize] = {} /\ Tiled(code, codeSize) /\ \A o \in Nat \ DOMAIN code : o # codeSize => A[o] = {}
    BY <1>1, <1>6 DEF Flow
  <2>2. DOMAIN B = Nat /\ B[codeSize] = V /\ Below(A, B) /\ \A o \in Nat : o # codeSize => B[o] = A[o]
    BY <1>6, <2>1 DEF Below
  <2> HIDE DEF B, N
  <2>3. ASSUME NEW o \in DOMAIN code PROVE FlowsAt(N, code, codeSize, patched', B, M, o)
    <3>1. FlowsAt(N, code, funcStart, patched, A, L, o)
      BY <1>6 DEF Flow, N
    <3>2. o \in Nat /\ o < codeSize /\ o # codeSize /\ code[o].len \in Nat
      BY <2>1, TiledIs
    <3>3. ~Open(o, codeSize, patched') /\ ~Open(o, funcStart, patched)
      BY <1>1, <1>6, <3>2 DEF Open
    <3>4. FlowsAt(N, code, codeSize, patched', A, M, o)
      BY <3>1, <3>3 DEF FlowsAt
    <3>5. code[o].op \in JumpOps => Lies(code, o) \in Nat
      BY <2>1, <3>1, <3>3, TiledIs DEF FlowsAt
    <3>6. QED
      BY <2>2, <3>2, <3>4, <3>5, FlowsMore
  <2>4. Flow(N, code, codeSize, codeSize, patched', B, M)
    BY <1>1, <2>1, <2>2, <2>3 DEF Flow
  <2>5. QED
    BY <2>2, <2>4 DEF N
<1>8. Flow(Nodes, code, codeSize, funcStart, patched, B, M)'
  BY <1>1, <1>3, <1>7
<1>9. Entries(B)'
  <2>1. Entries(A)
    BY DEF Good
  <2>2. symbols \in Seq([start : Nat, size : Int])
    BY <2>1 DEF Entries
  <2>3. ASSUME NEW i \in DOMAIN symbols
        PROVE  symbols[i].start < codeSize /\ Entry(src.funcs[i]) \subseteq B[symbols[i].start]
    <3>1. symbols[i].start \in Nat
      <4>1. symbols[i] \in [start : Nat, size : Int]
        BY <2>2, ElementOfSeq, LenProperties
      <4>2. QED
        BY <4>1
    <3>2. symbols[i].start < codeSize /\ Entry(src.funcs[i]) \subseteq A[symbols[i].start]
      BY <2>1 DEF Entries
    <3>3. QED
      BY <1>7, <3>1, <3>2 DEF Below
  <2>4. Len(symbols) = fn' - 1
    BY <1>1, <1>2, <2>1 DEF Entries
  <2>5. \A n : Entry(n)' = Entry(n)
    BY <1>3 DEF Entry
  <2>6. Entry(r) \subseteq B[codeSize]
    BY <1>7 DEF Entry, V
  <2>7. Entry(Body0)' = Entry(r)
    BY <1>3 DEF Entry
  <2>8. QED
    BY <1>1, <1>3, <2>2, <2>3, <2>4, <2>5, <2>6, <2>7 DEF Entries
<1>10. SetIds' = {}
  BY <1>1 DEF SetIds
<1>11. work' # <<>> /\ work'[1] = Prologue /\ Prologue' = Prologue
  BY <1>1 DEF w, Prologue, Put1, Plainly
<1>12. Ahead(B, M)'
  <2> DEFINE f == Stage(On(Nodes, At("ret", r)), brk, cont)
  <2>1. f.set = On(Nodes, At("ret", r))
    BY StageIs
  <2>2. Runs(Nodes, r, M, w, B[codeSize], brk, cont, f)
    BY <1>5, <1>7
  <2> HIDE DEF f
  <2>3. \E e : /\ e.set = On(Nodes', At("ret", Body0'))
               /\ Runs(Nodes', Body0', M, work', B[codeSize'], brk', cont', e)
    BY <1>1, <1>3, <2>1, <2>2
  <2>4. Promises(Nodes', Body0', M, work', SetIds', gotoTab')
    BY <1>1, <1>3, <1>5, <1>10
  <2>5. DOMAIN M \subseteq Ids(counter') /\ \A k \in DOMAIN labelTab' : FALSE
    BY <1>1, <1>4
  <2>6. QED
    BY <1>11, <2>3, <2>4, <2>5 DEF Ahead
<1>13. QED
  BY <1>8, <1>9, <1>12 DEF Good

(* At first nothing is compiled. *)
LEMMA InitGood == ASSUME RunInit PROVE \E A, L : Good(A, L)
<1> DEFINE r == src.funcs[1]
           w == <<Prologue, Stmt(r)>>
           V == On(Nodes, At("enter", r))
<1>1. /\ code = <<>> /\ codeSize = 0 /\ labelTab = <<>> /\ counter = 0 /\ funcStart = 0
      /\ patched = FALSE /\ src \in Files /\ fn = 1 /\ work = w /\ gotoTab = <<>> /\ symbols = <<>>
  BY DEF RunInit, Init, LabelsInit
<1>2. 1 \in DOMAIN src.funcs
  BY <1>1, FilesAssumption, LenProperties
<1>3. PICK M : DOMAIN M = {}
  <2>1. DOMAIN [x \in {} |-> {}] = {}
    OBVIOUS
  <2>2. QED
    BY <2>1
<1>4. /\ Runs(Nodes, r, M, w, V, brk, cont, Stage(On(Nodes, At("ret", r)), brk, cont))
      /\ Promises(Nodes, r, M, w, {}, <<>>)
  BY <1>1, <1>2, <1>3, Begins DEF Nodes
<1> HIDE DEF w, V
<1>5. PICK A : /\ DOMAIN A = Nat /\ A[0] = V /\ \A o \in Nat : o # 0 => A[o] = {}
  <2> DEFINE A == [o \in Nat |-> IF o = 0 THEN V ELSE {}]
  <2>1. DOMAIN A = Nat /\ A[0] = V /\ \A o \in Nat : o # 0 => A[o] = {}
    OBVIOUS
  <2> HIDE DEF A
  <2>2. QED
    BY <2>1
<1>6. Flow(Nodes, code, codeSize, funcStart, patched, A, M)
  <2>1. DOMAIN code = {}
    BY <1>1
  <2>2. QED
    BY <1>1, <1>5, <2>1 DEF Flow, Tiled
<1>7. Body0 = r
  BY <1>1 DEF Body0
<1>8. Entries(A)
  <2>1. Entry(Body0) \subseteq A[funcStart]
    BY <1>1, <1>5, <1>7 DEF Entry, V
  <2>2. DOMAIN symbols = {} /\ Len(symbols) = 0 /\ symbols \in Seq([start : Nat, size : Int])
    BY <1>1
  <2>3. QED
    BY <1>1, <2>1, <2>2 DEF Entries
<1>9. Ahead(A, M)
  <2> DEFINE f == Stage(On(Nodes, At("ret", r)), brk, cont)
  <2>1. f.set = On(Nodes, At("ret", Body0))
    BY <1>7, StageIs
  <2>2. Runs(Nodes, Body0, M, work, A[codeSize], brk, cont, f)
    BY <1>1, <1>4, <1>5, <1>7
  <2> HIDE DEF f
  <2>3. \E e : /\ e.set = On(Nodes, At("ret", Body0))
               /\ Runs(Nodes, Body0, M, work, A[codeSize], brk, cont, e)
    BY <2>1, <2>2
  <2>4. SetIds = {} /\ \A k \in DOMAIN labelTab : FALSE
    BY <1>1 DEF SetIds
  <2>5. Promises(Nodes, Body0, M, work, SetIds, gotoTab)
    BY <1>1, <1>4, <1>7, <2>4
  <2>6. work # <<>> /\ work[1] = Prologue
    BY <1>1 DEF w
  <2>7. QED
    BY <1>3, <2>3, <2>4, <2>5, <2>6 DEF Ahead
<1>10. QED
  BY <1>6, <1>8, <1>9 DEF Good


(* A function is complete. *)
LEMMA PatchedCode ==
  ASSUME LabelsInv, ApplyFixups
  PROVE  /\ DOMAIN code' = DOMAIN code
         /\ \A o \in DOMAIN code : code'[o].op = code[o].op /\ code'[o].len = code[o].len
         /\ \A o \in DOMAIN code : o < funcStart \/ code[o].op \notin JumpOps => code'[o] = code[o]
         /\ \A o \in Jumps : SetIn(labelTab, code[o].to) =>
              Lies(code', o) = FindIn(labelTab, code[o].to)
<1>1. /\ ~patched /\ DOMAIN code' = DOMAIN code
      /\ \A o \in DOMAIN code :
           code'[o] = IF Patches(o) # {} THEN [code[o] EXCEPT !.disp = PatchedDisp(o)] ELSE code[o]
  BY DEF ApplyFixups
<1>2. /\ \A o \in Jumps : code[o] \in JumpIns
      /\ \A o \in Jumps : Settled(o)
  BY <1>1 DEF LabelsInv, CodeOK, JumpIsWell, JumpsOK
<1>3. ASSUME NEW o \in DOMAIN code, Patches(o) # {}
      PROVE  /\ o \in Jumps /\ code'[o].op = code[o].op /\ code'[o].len = code[o].len
             /\ Lies(code', o) = FindIn(labelTab, code[o].to)
  <2>1. /\ o \in Jumps /\ PatchedDisp(o) \in Int
        /\ o + code[o].len + PatchedDisp(o) = FindIn(labelTab, code[o].to)
    BY <1>3, PatchLands
  <2>2. code'[o] = [code[o] EXCEPT !.disp = PatchedDisp(o)]
    BY <1>1, <1>3
  <2>3. code'[o].op = code[o].op /\ code'[o].len = code[o].len /\ code'[o].disp = PatchedDisp(o)
    BY <1>2, <2>1, <2>2 DEF JumpIns
  <2>4. QED
    BY <2>1, <2>3 DEF Lies
<1>4. ASSUME NEW o \in DOMAIN code, Patches(o) = {} PROVE code'[o] = code[o]
  BY <1>1, <1>4
<1>5. ASSUME NEW o \in Jumps, SetIn(labelTab, code[o].to), Patches(o) = {}
      PROVE  Lies(code', o) = FindIn(labelTab, code[o].to)
  <2>1. o \in DOMAIN code
    BY DEF Jumps
  <2>2. ~Waits(o)
    <3> SUFFICES ASSUME NEW k \in DOMAIN fixups, fixups[k].off = o PROVE FALSE
      BY DEF Waits
    <3>1. fixups[k].label = code[o].to
      BY DEF LabelsInv, FixupsOK
    <3>2. IsSet(fixups[k].label)
      BY <1>5, <3>1, ByTable
    <3>3. k \in Patches(o)
      BY <3>2 DEF Patches
    <3>4. QED
      BY <1>5, <3>3
  <2>3. Lands(o)
    BY <1>2, <2>2 DEF Settled
  <2>4. QED
    BY <1>4, <1>5, <2>1, <2>3 DEF Lands, Lies
<1>6. \A o \in DOMAIN code : code'[o].op = code[o].op /\ code'[o].len = code[o].len
  BY <1>3, <1>4
<1>7. \A o \in DOMAIN code : o < funcStart \/ code[o].op \notin JumpOps => code'[o] = code[o]
  <2>1. \A o \in Jumps : o >= funcStart /\ code[o].op \in JumpOps
    BY DEF Jumps
  <2>2. \A o \in DOMAIN code : o \in Nat /\ funcStart \in Nat
    BY DEF LabelsInv, LabelsTypeOK
  <2>3. QED
    BY <1>3, <1>4, <2>1, <2>2
<1>8. \A o \in Jumps : o \in DOMAIN code
  BY DEF Jumps
<1>9. QED
  BY <1>1, <1>3, <1>5, <1>6, <1>7, <1>8

(* The last instruction is the one that ends where the code ends. *)
LEMMA LastIsUnique ==
  ASSUME NEW c, NEW size, Tiled(c, size), NEW o \in DOMAIN c, o + c[o].len = size,
         NEW p \in DOMAIN c, p + c[p].len = size
  PROVE  o = p
<1>1. o \in Nat /\ p \in Nat /\ o < size /\ p < size /\ size \in Nat
  BY TiledIs
<1>2. /\ o < p => o + c[o].len <= p
      /\ p < o => p + c[p].len <= o
  BY DEF Tiled
<1>3. QED
  BY <1>1, <1>2

(* The function is complete: its fixups are applied and its symbol is      *)
(* recorded.                                                               *)
LEMMA FinishGood ==
  ASSUME CgenInv, LabelsInv, NEW A, NEW L, Good(A, L), FinishFunction, EndsInReturn
  PROVE  \E B : Good(B, L)'
<1> DEFINE e == [start |-> funcStart, size |-> codeSize - funcStart]
<1>1. /\ ~exited /\ work = <<>> /\ ~patched /\ EndsInC3 /\ ApplyFixups /\ patched' = TRUE
      /\ symbols' = Append(symbols, e)
      /\ UNCHANGED <<codeSize, labelTab, counter, funcStart, src, fn>>
  BY DEF FinishFunction, ApplyFixups
<1>2. LastIns.op = "ret" /\ \A k \in DOMAIN labelTab : labelTab[k].off # codeSize
  BY <1>1 DEF EndsInReturn
<1>3. Ahead(A, L) /\ Flow(Nodes, code, codeSize, funcStart, patched, A, L) /\ Entries(A)
  BY <1>1 DEF Good
<1>4. /\ codeSize \in Nat /\ funcStart \in Nat /\ funcStart <= codeSize /\ funcStart # codeSize
      /\ labelTab \in Seq(Label) /\ Firsts(labelTab)
      /\ \A k \in DOMAIN labelTab : labelTab[k].off \in DOMAIN code \cup {codeSize}
  BY <1>1, <1>3 DEF LabelsInv, LabelsTypeOK, LabelsOK, Ahead
<1>5. Tiled(code, codeSize)
  BY <1>3 DEF Flow
<1>6. DOMAIN L \subseteq SetIds
  <2>1. Promises(Nodes, Body0, L, <<>>, SetIds, gotoTab)
    BY <1>1, <1>3 DEF Ahead
  <2>2. QED
    BY <2>1, AllSet
<1>7. ASSUME NEW o \in DOMAIN code, o >= funcStart, code[o].op \in JumpOps
      PROVE  Lies(code', o) \in DOMAIN code /\ L[code[o].to] \subseteq A[Lies(code', o)]
  <2> DEFINE id == code[o].to
  <2>1. o \in Jumps
    BY <1>7 DEF Jumps
  <2>2. id \in DOMAIN L
    <3>1. FlowsAt(Nodes, code, funcStart, patched, A, L, o)
      BY <1>3 DEF Flow
    <3>2. Open(o, funcStart, patched)
      BY <1>1, <1>7 DEF Open
    <3>3. QED
      BY <1>7, <3>1, <3>2 DEF FlowsAt
  <2>3. PICK k \in DOMAIN labelTab : labelTab[k].id = id
    BY <1>6, <2>2 DEF SetIds
  <2>4. PICK j \in DOMAIN labelTab : FirstIn(labelTab, id, j)
    BY <1>4, <2>3 DEF Firsts
  <2>5. labelTab[j].id = id /\ SetIn(labelTab, id) /\ FindIn(labelTab, id) = labelTab[j].off
    BY <1>4, <2>4, FindsFirst DEF FirstIn
  <2>6. Lies(code', o) = labelTab[j].off
    BY <1>1, <2>1, <2>5, PatchedCode
  <2>7. L[id] \subseteq A[labelTab[j].off]
    BY <1>3, <2>5 DEF Ahead
  <2>8. labelTab[j].off \in DOMAIN code
    BY <1>2, <1>4
  <2>9. QED
    BY <2>6, <2>7, <2>8
<1>8. ASSUME NEW o \in DOMAIN code, o + code[o].len = codeSize
      PROVE  code[o].op = "ret"
  <2> DEFINE p == CHOOSE x \in DOMAIN code : x + code[x].len = codeSize
  <2>1. p \in DOMAIN code /\ p + code[p].len = codeSize
    BY <1>8
  <2>2. LastIns = code[p]
    BY DEF LastIns
  <2> HIDE DEF p
  <2>3. o = p
    BY <1>5, <1>8, <2>1, LastIsUnique
  <2>4. QED
    BY <1>2, <2>2, <2>3
<1>9. Completes(code, code', codeSize, funcStart, A, L)
  BY <1>1, <1>7, <1>8, PatchedCode DEF Completes
<1>10. PICK B : Whole(Nodes, code', codeSize, B) /\ Elsewhere(A, B, codeSize)
  BY <1>1, <1>3, <1>4, <1>9, FlowFinish
<1>11. Nodes' = Nodes /\ Body0' = Body0 /\ \A n : Entry(n)' = Entry(n)
  BY <1>1 DEF Nodes, Body0, Entry
<1>12. Flow(Nodes, code, codeSize, funcStart, patched, B, L)'
  <2>1. \A o : ~Open(o, funcStart, patched')
    BY <1>1 DEF Open
  <2>2. \A o \in DOMAIN code' : FlowsAt(Nodes, code', funcStart, patched', B, L, o)
    BY <1>10, <2>1 DEF Whole, FlowsAt
  <2>3. Flow(Nodes, code', codeSize, funcStart, patched', B, L)
    BY <1>10, <2>2 DEF Whole, Flow
  <2>4. QED
    BY <1>1, <1>11, <2>3
<1>13. Entries(B)'
  <2>1. symbols \in Seq([start : Nat, size : Int]) /\ Len(symbols) = fn - 1 /\ fn \in Nat
    <3>1. fn \in Nat
      BY FilesAssumption, LenProperties DEF CgenInv
    <3>2. QED
      BY <1>1, <1>3, <3>1 DEF Entries
  <2>2. e \in [start : Nat, size : Int] /\ e.start = funcStart
    BY <1>4
  <2> HIDE DEF e
  <2>3. /\ symbols' \in Seq([start : Nat, size : Int]) /\ Len(symbols') = fn
        /\ DOMAIN symbols' = DOMAIN symbols \cup {fn}
        /\ \A i \in DOMAIN symbols : symbols'[i] = symbols[i]
        /\ symbols'[fn] = e
    BY <1>1, <2>1, <2>2
  <2>4. ASSUME NEW i \in DOMAIN symbols
        PROVE  symbols[i].start < codeSize /\ Entry(src.funcs[i]) \subseteq B[symbols[i].start]
    <3>1. symbols[i].start \in Nat
      <4>1. symbols[i] \in [start : Nat, size : Int]
        BY <2>1, ElementOfSeq, LenProperties
      <4>2. QED
        BY <4>1
    <3>2. symbols[i].start < codeSize /\ Entry(src.funcs[i]) \subseteq A[symbols[i].start]
      BY <1>3 DEF Entries
    <3>3. symbols[i].start # codeSize
      BY <1>4, <3>1, <3>2
    <3>4. QED
      BY <1>10, <3>1, <3>2, <3>3 DEF Elsewhere
  <2>5. funcStart < codeSize /\ Entry(src.funcs[fn]) \subseteq B[funcStart]
    <3>1. Entry(src.funcs[fn]) \subseteq A[funcStart]
      BY <1>1, <1>3 DEF Entries, Body0
    <3>2. QED
      BY <1>4, <1>10, <3>1 DEF Elsewhere
  <2>6. \A i \in DOMAIN symbols' : /\ symbols'[i].start < codeSize
                                   /\ Entry(src.funcs[i]) \subseteq B[symbols'[i].start]
    BY <2>2, <2>3, <2>4, <2>5
  <2>7. QED
    BY <1>1, <1>11, <2>3, <2>6 DEF Entries
<1>14. QED
  BY <1>1, <1>12, <1>13 DEF Good


(* Every step of the compiler. *)
LEMMA CgenGood ==
  ASSUME CgenInv, LabelsInv, Ordinary, NEW A, NEW L, Good(A, L), CgenNext
  PROVE  \E B, M : Good(B, M)'
<1>1. \A n \in DOMAIN Nodes : OrdinaryStatement(n)
  BY DEF Ordinary
<1>2. CASE GenExpr \/ GenReturn \/ GenBlock \/ GenNothing
  <2>1. Good(A, L)'
    BY <1>2, SimpleGood
  <2>2. QED
    BY <2>1
<1>3. CASE GenIf
  BY <1>1, <1>3, IfGood
<1>4. CASE GenWhile
  BY <1>1, <1>4, WhileGood
<1>5. CASE GenFor
  BY <1>1, <1>5, ForGood
<1>6. CASE GenDoWhile
  BY <1>1, <1>6, DoGood
<1>7. CASE GenSwitch
  BY <1>1, <1>7, SwitchGood
<1>8. CASE GenBreak \/ GenContinue
  BY <1>1, <1>8, JumpOutGood
<1>9. CASE GenNamed
  BY <1>1, <1>9, NamedGood
<1>10. CASE TooManyCases \/ TooManyGotos \/ Overflow
  <2>1. Good(A, L)'
    BY <1>10, ExitGood
  <2>2. QED
    BY <2>1
<1>11. CASE DoEmit
  BY <1>11, EmitGood
<1>12. CASE DoJump
  BY <1>12, JumpGood
<1>13. CASE DoSet
  BY <1>13, SetGood
<1>14. CASE DoTest
  BY <1>14, TestGood
<1>15. CASE DoRestore
  <2>1. Good(A, L)'
    BY <1>15, RestoreGood
  <2>2. QED
    BY <2>1
<1>16. CASE FinishFunction
  BY <1>16, FinishGood DEF Ordinary
<1>17. CASE ImplicitReturn
  <2>1. Good(A, L)'
    BY <1>17, ImplicitGood
  <2>2. QED
    BY <2>1
<1>18. CASE NextFunction
  BY <1>18, NextGood
<1>19. QED
  BY <1>2, <1>3, <1>4, <1>5, <1>6, <1>7, <1>8, <1>9, <1>10, <1>11, <1>12, <1>13, <1>14,
     <1>15, <1>16, <1>17, <1>18 DEF CgenNext

(* The processor does not change the code. *)
LEMMA GoodKept == ASSUME NEW A, NEW L, Good(A, L), UNCHANGED cgenVars PROVE Good(A, L)'
<1>1. /\ UNCHANGED <<code, codeSize, labelTab, counter, funcStart, patched>>
      /\ UNCHANGED <<src, fn, work, brk, cont, gotoTab, symbols>>
  BY DEF cgenVars, labelVars, genVars
<1>2. Nodes' = Nodes /\ Body0' = Body0 /\ SetIds' = SetIds
  BY <1>1 DEF Nodes, Body0, SetIds
<1>3. Entries(A)' /\ (~patched => Ahead(A, L)')
  BY <1>1, <1>2 DEF Good, Entries, Ahead, Entry
<1>4. QED
  BY <1>1, <1>2, <1>3 DEF Good

---------------------------------------------------------------------------
(* The code executed. *)

Ran(A) ==
  /\ status \in {"compiling", "running", "returned"}
  /\ ip \in Int /\ flag \in Signs /\ ~under
  /\ Len(gotoTab) <= MaxGotos
  /\ status = "compiling" => rax = 0 /\ flag = 0 /\ stack = <<>>
  /\ status # "compiling" => Compiled
  /\ status = "running" => ip \in DOMAIN code /\ Now(pt, rax, flag, stack) \in A[ip]

ExecInv == CgenInv /\ LabelsInv /\ \E A, L : Good(A, L) /\ Ran(A)

(* What an instruction of the complete code does. *)
LEMMA Executed ==
  ASSUME NEW A, NEW L, Good(A, L), patched, NEW o \in DOMAIN code
  PROVE  /\ Does(Nodes, code[o], A[o], A[Lies(code, o)], A[o + code[o].len])
         /\ code[o].op \in JumpOps => Lies(code, o) \in DOMAIN code
         /\ o \in Nat /\ o + code[o].len \in Nat
<1>1. Flow(Nodes, code, codeSize, funcStart, patched, A, L)
  BY DEF Good
<1>2. FlowsAt(Nodes, code, funcStart, patched, A, L, o) /\ ~Open(o, funcStart, patched)
  BY <1>1 DEF Flow, Open
<1>3. o \in Nat /\ o + code[o].len \in Nat
  BY <1>1, TiledIs DEF Flow
<1>4. QED
  BY <1>2, <1>3 DEF FlowsAt

(* Where a state may come an instruction begins. *)
LEMMA Comes ==
  ASSUME NEW A, NEW L, Good(A, L), patched, NEW o \in Nat, A[o] # {}
  PROVE  o \in DOMAIN code
BY DEF Good, Flow

(* At an instruction that can be seen all states are on their way to the   *)
(* point where C does the same.                                            *)
LEMMA SeenAt ==
  ASSUME NEW A, NEW L, Good(A, L), patched, NEW o \in DOMAIN code,
         code[o].op \in {"eval", "ret"}
  PROVE  \E q \in Points(Nodes) :
           /\ A[o] = On(Nodes, q) /\ Visible(Nodes, q)
           /\ code[o].op = "eval" => /\ Evaluates(Nodes, q) = code[o].arg /\ q[1] # "ret"
                                     /\ Valued(Nodes, q) \subseteq A[o + code[o].len]
           /\ code[o].op = "ret" => q[1] = "ret"
<1>1. Does(Nodes, code[o], A[o], A[Lies(code, o)], A[o + code[o].len])
  BY Executed
<1>2. CASE code[o].op = "eval"
  <2>1. PICK q \in Points(Nodes) :
          /\ Evaluates(Nodes, q) = code[o].arg /\ code[o].arg # None
          /\ A[o] = On(Nodes, q) /\ Valued(Nodes, q) \subseteq A[o + code[o].len]
    BY <1>1, <1>2 DEF Does, JumpOps
  <2>2. Visible(Nodes, q)
    BY <2>1 DEF Visible
  <2>3. q[1] # "ret"
    BY <2>1 DEF Evaluates
  <2>4. QED
    BY <1>2, <2>1, <2>2, <2>3
<1>3. CASE code[o].op = "ret"
  <2>1. PICK q \in Points(Nodes) : q[1] = "ret" /\ A[o] = On(Nodes, q)
    BY <1>1, <1>3 DEF Does, JumpOps
  <2>2. Visible(Nodes, q)
    BY <2>1 DEF Visible
  <2>3. QED
    BY <1>3, <2>1, <2>2
<1>4. QED
  BY <1>2, <1>3

(* The parts of a state. *)
LEMMA NowIs ==
  ASSUME NEW p, NEW r, NEW f, NEW s
  PROVE  /\ Now(p, r, f, s).pt = p /\ Now(p, r, f, s).rax = r
         /\ Now(p, r, f, s).flag = f /\ Now(p, r, f, s).stack = s
BY DEF Now

(* The state of the program and the point that the instruction waits for. *)
LEMMA AtSeen ==
  ASSUME ExecInv, Both
  PROVE  \E A, L : \E q \in Points(Nodes) :
           /\ Good(A, L) /\ Ran(A) /\ Compiled /\ ip \in DOMAIN code
           /\ Now(pt, rax, flag, stack) \in A[ip] /\ A[ip] = On(Nodes, q)
           /\ stack = <<>> /\ rax \in Int /\ flag \in Signs
           /\ pt \in Points(Nodes) /\ Leads(Nodes, pt, q)
           /\ Visible(Nodes, q)
           /\ Visible(Nodes, pt) => pt = q
           /\ ~Visible(Nodes, pt) => Leads(Nodes, Silent(Nodes, pt), q)
           /\ code[ip].op \in {"eval", "ret"}
           /\ code[ip].op = "eval" => /\ Evaluates(Nodes, q) = code[ip].arg /\ q[1] # "ret"
                                      /\ Valued(Nodes, q) \subseteq A[ip + code[ip].len]
           /\ code[ip].op = "ret" => q[1] = "ret"
<1>1. PICK A, L : Good(A, L) /\ Ran(A)
  BY DEF ExecInv
<1>2. Compiled /\ patched /\ ip \in DOMAIN code /\ Now(pt, rax, flag, stack) \in A[ip]
  BY <1>1 DEF Both, Ran, Compiled
<1>3. code[ip].op \in {"eval", "ret"}
  BY <1>2 DEF Both, CodeVisible, InCode
<1>4. PICK q \in Points(Nodes) :
        /\ A[ip] = On(Nodes, q) /\ Visible(Nodes, q)
        /\ code[ip].op = "eval" => /\ Evaluates(Nodes, q) = code[ip].arg /\ q[1] # "ret"
                                   /\ Valued(Nodes, q) \subseteq A[ip + code[ip].len]
        /\ code[ip].op = "ret" => q[1] = "ret"
  BY <1>1, <1>2, <1>3, SeenAt
<1>5. Now(pt, rax, flag, stack) \in On(Nodes, q)
  BY <1>2, <1>4
<1>6. Leads(Nodes, pt, q) /\ stack = <<>> /\ rax \in Int /\ flag \in Signs
  BY <1>5, NowIs DEF On, State
<1>7. pt \in Points(Nodes) /\ (pt # q => ~Visible(Nodes, pt) /\ Leads(Nodes, Silent(Nodes, pt), q))
  BY <1>6, LeadsFrom
<1>8. ~Visible(Nodes, pt) => Leads(Nodes, Silent(Nodes, pt), q)
  BY <1>4, <1>7
<1>9. QED
  BY <1>1, <1>2, <1>3, <1>4, <1>6, <1>7, <1>8


---------------------------------------------------------------------------
(* Each step of the program and its execution. *)

(* Complete code is not changed any more. *)
LEMMA Compiling ==
  ASSUME CgenInv, Compiled
  PROVE  ~CgenNext
<1>1. ~exited /\ patched /\ fn = Len(src.funcs) /\ work = <<>>
  BY DEF CgenInv, Compiled
<1>2. fn \in Nat
  BY FilesAssumption DEF CgenInv
<1>3. \A k : ~At1(k) /\ ~Item(k)
  BY <1>1 DEF At1, Item
<1>4. /\ ~FinishFunction /\ ~ImplicitReturn /\ ~NextFunction /\ ~Overflow
      /\ ~TooManyCases /\ ~TooManyGotos /\ ~GenNamed /\ ~GenNothing
  BY <1>1, <1>2, <1>3 DEF FinishFunction, ImplicitReturn, NextFunction, Overflow, TooManyCases,
                          TooManyGotos, GenNamed, GenNothing
<1>5. /\ ~GenExpr /\ ~GenReturn /\ ~GenBlock /\ ~GenIf /\ ~GenWhile /\ ~GenFor
      /\ ~GenDoWhile /\ ~GenSwitch /\ ~GenBreak /\ ~GenContinue
      /\ ~DoEmit /\ ~DoJump /\ ~DoSet /\ ~DoTest /\ ~DoRestore
  BY <1>3, Zenon DEF GenExpr, GenReturn, GenBlock, GenIf, GenWhile, GenFor, GenDoWhile,
                     GenSwitch, GenBreak, GenContinue, DoEmit, DoJump, DoSet, DoTest, DoRestore
<1>6. QED
  BY <1>4, <1>5 DEF CgenNext

(* The table of goto never outgrows its limit. *)
LEMMA GotosBounded ==
  ASSUME CgenInv, CgenNext, Len(gotoTab) <= MaxGotos
  PROVE  Len(gotoTab') <= MaxGotos
<1>1. gotoTab \in Seq(Goto(src, counter)) /\ Len(gotoTab) \in Nat
  BY LenProperties DEF CgenInv
<1>2. CASE GenNamed
  <2>1. CASE Known(X.name)
    BY <1>2, <2>1 DEF GenNamed
  <2>2. CASE ~Known(X.name)
    <3>1. /\ Len(gotoTab) < MaxGotos
          /\ gotoTab' = Append(gotoTab, [name |-> X.name, id |-> counter])
      BY <1>2, <2>2 DEF GenNamed
    <3>2. Len(gotoTab') = Len(gotoTab) + 1
      BY <1>1, <3>1
    <3>3. QED
      BY <1>1, <3>1, <3>2, GotosAssumption
  <2>3. QED
    BY <2>1, <2>2
<1>3. CASE NextFunction
  <2>1. gotoTab' = <<>>
    BY <1>3 DEF NextFunction
  <2>2. QED
    BY <2>1, GotosAssumption
<1>4. CASE ~GenNamed /\ ~NextFunction
  <2>1. UNCHANGED gotoTab
    BY <1>4 DEF CgenNext, GenExpr, GenReturn, GenBlock, GenIf, GenWhile, GenFor, GenDoWhile,
                GenSwitch, TooManyCases, GenBreak, GenContinue, TooManyGotos, GenNothing,
                DoEmit, DoJump, DoSet, DoTest, DoRestore, Overflow, FinishFunction,
                ImplicitReturn, KeepTargets, genVars
  <2>2. QED
    BY <2>1
<1>5. QED
  BY <1>2, <1>3, <1>4

(* The compiler does not execute what it generates. *)
LEMMA CompileRan ==
  ASSUME CgenInv, LabelsInv, Ordinary, NEW A, NEW L, Good(A, L), Ran(A), Compile
  PROVE  \E B, M : Good(B, M)' /\ Ran(B)'
<1>1. CgenNext /\ UNCHANGED <<status, ip, rax, flag, stack, under, pt>>
  BY DEF Compile, runVars
<1>2. status = "compiling"
  BY <1>1, Compiling DEF Ran
<1>3. PICK B, M : Good(B, M)'
  BY <1>1, CgenGood
<1>4. Ran(B)'
  BY <1>1, <1>2, GotosBounded DEF Ran
<1>5. QED
  BY <1>3, <1>4

(* The processor or C moves to a state that may come to the instruction    *)
(* reached.                                                                *)
LEMMA Moved ==
  ASSUME NEW A, NEW L, Good(A, L), Ran(A), status # "compiling" \/ Compiled,
         UNCHANGED <<cgenVars, under>>, status' = "running",
         ip' \in Nat, flag' \in Signs, Now(pt', rax', flag', stack') \in A[ip']
  PROVE  \E B, M : Good(B, M)' /\ Ran(B)'
<1>1. Good(A, L)'
  BY GoodKept
<1>2. /\ UNCHANGED <<code, codeSize, labelTab, counter, funcStart, patched, exited>>
      /\ UNCHANGED <<src, fn, work, brk, cont, gotoTab, symbols>>
  BY DEF cgenVars, labelVars, genVars
<1>3. Compiled /\ patched /\ Compiled'
  BY <1>2 DEF Ran, Compiled
<1>4. ip' \in DOMAIN code
  <2>1. A[ip'] # {}
    OBVIOUS
  <2>2. QED
    BY <1>3, <2>1, Comes
<1>5. Ran(A)'
  BY <1>2, <1>3, <1>4 DEF Ran
<1>6. QED
  BY <1>1, <1>5

(* A call enters a function where its code begins, *)
LEMMA CallRan ==
  ASSUME CgenInv, LabelsInv, NEW A, NEW L, Good(A, L), Ran(A), Call
  PROVE  \E B, M : Good(B, M)' /\ Ran(B)'
<1>1. PICK f \in DOMAIN symbols : ip' = symbols[f].start /\ pt' = At("enter", src.funcs[f])
  BY DEF Call
<1>2. /\ Compiled /\ status' = "running" /\ UNCHANGED <<cgenVars, under>>
      /\ UNCHANGED <<rax, flag, stack>> /\ patched
      /\ rax = 0 /\ flag = 0 /\ stack = <<>>
  BY DEF Call, Ran, Compiled
<1>3. /\ symbols \in Seq([start : Nat, size : Int]) /\ Len(symbols) = fn
      /\ Entry(src.funcs[f]) \subseteq A[symbols[f].start]
  BY <1>2 DEF Good, Entries
<1>4. ip' \in Nat
  <2>1. symbols[f] \in [start : Nat, size : Int]
    BY <1>3, ElementOfSeq, LenProperties
  <2>2. QED
    BY <1>1, <2>1
<1>5. src.funcs[f] \in DOMAIN Nodes
  <2>1. src.funcs \in Seq(DOMAIN Nodes) /\ fn = Len(src.funcs)
    BY <1>2, FilesAssumption DEF CgenInv, Nodes, Compiled
  <2>2. f \in 1 .. Len(src.funcs)
    BY <1>3, <2>1, LenProperties
  <2>3. QED
    BY <2>1, <2>2, ElementOfSeq
<1>6. Now(pt', 0, 0, <<>>) \in On(Nodes, pt')
  BY <1>1, <1>5, PointsAre, OnAt DEF Signs
<1>7. Now(pt', rax', flag', stack') \in A[ip']
  BY <1>1, <1>2, <1>3, <1>6 DEF Entry
<1>8. flag' \in Signs
  BY <1>2 DEF Signs
<1>9. QED
  BY <1>2, <1>4, <1>7, <1>8, Moved

(* What the next instruction does to the state. *)
LEMMA Next1Does ==
  ASSUME NEW A, NEW L, Good(A, L), Ran(A), status = "running"
  PROVE  /\ Does(Nodes, code[ip], A[ip], A[Lies(code, ip)], A[NextIp])
         /\ code[ip].op \in JumpOps => Lies(code, ip) \in DOMAIN code
         /\ NextIp \in Nat /\ ip \in DOMAIN code /\ flag \in Signs
         /\ Now(pt, rax, flag, stack) \in A[ip]
<1>1. ip \in DOMAIN code /\ Now(pt, rax, flag, stack) \in A[ip] /\ patched /\ flag \in Signs
  BY DEF Ran, Compiled
<1>2. QED
  BY <1>1, Executed DEF NextIp

(* a jump is taken or not, *)
LEMMA JumpRan ==
  ASSUME NEW A, NEW L, Good(A, L), Ran(A), ExecJump
  PROVE  \E B, M : Good(B, M)' /\ Ran(B)'
<1>1. PICK op \in JumpOps : /\ Step(op)
                            /\ ip' = IF Taken(op) THEN NextIp + code[ip].disp ELSE NextIp
  BY DEF ExecJump
<1>2. /\ status = "running" /\ code[ip].op = op
      /\ UNCHANGED <<cgenVars, under>> /\ UNCHANGED <<status, rax, flag, stack, pt>>
  BY <1>1 DEF Step, ExecJump
<1>3. Parts(op, A[ip], A[Lies(code, ip)], A[NextIp])
  BY <1>2, Next1Does, DoesJump
<1>4. Now(pt, rax, flag, stack) \in IF Jumped(op, flag) THEN A[Lies(code, ip)] ELSE A[NextIp]
  BY <1>2, <1>3, Next1Does, NowIs DEF Parts
<1>5. Taken(op) <=> Jumped(op, flag)
  BY DEF Taken, Jumped, JumpOps
<1>6. Lies(code, ip) = NextIp + code[ip].disp /\ Lies(code, ip) \in Nat
  <2>1. Lies(code, ip) \in DOMAIN code
    BY <1>2, Next1Does
  <2>2. QED
    BY <2>1, TiledIs DEF Lies, NextIp, Good, Flow
<1>7. Now(pt', rax', flag', stack') \in A[ip'] /\ ip' \in Nat
  BY <1>1, <1>2, <1>4, <1>5, <1>6, Next1Does
<1>8. QED
  BY <1>2, <1>7, Next1Does, Moved

(* a push, a comparison and the prologue do what the code was generated    *)
(* for,                                                                    *)
LEMMA PushRan ==
  ASSUME NEW A, NEW L, Good(A, L), Ran(A), ExecPush \/ ExecPrologue \/ ExecCmp
  PROVE  \E B, M : Good(B, M)' /\ Ran(B)'
<1>1. /\ status = "running" /\ UNCHANGED <<cgenVars, under>> /\ UNCHANGED <<status, rax, pt>>
      /\ ip' = NextIp
  BY DEF ExecPush, ExecPrologue, ExecCmp, Step
<1>2. /\ Does(Nodes, code[ip], A[ip], A[Lies(code, ip)], A[NextIp]) /\ NextIp \in Nat
      /\ Now(pt, rax, flag, stack) \in A[ip] /\ flag \in Signs
  BY <1>1, Next1Does
<1>3. CASE ExecPush
  <2>1. code[ip].op = "push" /\ stack' = Append(stack, rax) /\ UNCHANGED flag
    BY <1>3 DEF ExecPush, Step
  <2>2. \A s \in A[ip] : Now(s.pt, s.rax, s.flag, Append(s.stack, s.rax)) \in A[NextIp]
    BY <1>2, <2>1 DEF Does, JumpOps
  <2>3. Now(pt', rax', flag', stack') \in A[ip']
    BY <1>1, <1>2, <2>1, <2>2, NowIs
  <2>4. QED
    BY <1>1, <1>2, <2>1, <2>3, Moved
<1>4. CASE ExecPrologue
  <2>1. code[ip].op = "prologue" /\ UNCHANGED <<flag, stack>>
    BY <1>4 DEF ExecPrologue, Step
  <2>2. A[ip] \subseteq A[NextIp]
    BY <1>2, <2>1 DEF Does, JumpOps
  <2>3. Now(pt', rax', flag', stack') \in A[ip']
    BY <1>1, <1>2, <2>1, <2>2
  <2>4. QED
    BY <1>1, <1>2, <2>1, <2>3, Moved
<1>5. CASE ExecCmp
  <2>1. code[ip].op = "cmp" /\ flag' = Sign(rax - code[ip].arg) /\ UNCHANGED stack
    BY <1>5 DEF ExecCmp, Step
  <2>2. \A s \in A[ip] : Now(s.pt, s.rax, Sign(s.rax - code[ip].arg), s.stack) \in A[NextIp]
    BY <1>2, <2>1 DEF Does, JumpOps
  <2>3. Now(pt', rax', flag', stack') \in A[ip']
    BY <1>1, <1>2, <2>1, <2>2, NowIs
  <2>4. flag' \in Signs
    BY <2>1 DEF Sign, Signs
  <2>5. QED
    BY <1>1, <1>2, <2>3, <2>4, Moved
<1>6. QED
  BY <1>3, <1>4, <1>5

(* and a pop finds what was pushed. *)
LEMMA PopRan ==
  ASSUME NEW A, NEW L, Good(A, L), Ran(A), ExecPop
  PROVE  \E B, M : Good(B, M)' /\ Ran(B)'
<1>1. /\ status = "running" /\ UNCHANGED <<cgenVars, status, flag, pt>>
      /\ ip' = NextIp /\ code[ip].op = "pop"
  BY DEF ExecPop, Step
<1>2. /\ Does(Nodes, code[ip], A[ip], A[Lies(code, ip)], A[NextIp]) /\ NextIp \in Nat
      /\ Now(pt, rax, flag, stack) \in A[ip] /\ flag \in Signs
  BY <1>1, Next1Does
<1>3. \A s \in A[ip] : /\ s.stack # <<>>
                       /\ Now(s.pt, s.stack[Len(s.stack)], s.flag,
                              SubSeq(s.stack, 1, Len(s.stack) - 1)) \in A[NextIp]
  BY <1>1, <1>2 DEF Does, JumpOps
<1>4. stack # <<>> /\ Now(pt, stack[Len(stack)], flag, SubSeq(stack, 1, Len(stack) - 1)) \in A[NextIp]
  BY <1>2, <1>3, NowIs
<1>5. /\ rax' = stack[Len(stack)] /\ stack' = SubSeq(stack, 1, Len(stack) - 1)
      /\ UNCHANGED under
  BY <1>4 DEF ExecPop
<1>6. Now(pt', rax', flag', stack') \in A[ip']
  BY <1>1, <1>4, <1>5
<1>7. QED
  BY <1>1, <1>2, <1>5, <1>6, Moved


(* C moves on silently. *)
LEMMA SilentRan ==
  ASSUME ExecInv, PtSilent
  PROVE  \E B, M : Good(B, M)' /\ Ran(B)'
<1>1. /\ Both /\ ~Visible(Nodes, pt) /\ pt' = Silent(Nodes, pt)
      /\ UNCHANGED <<cgenVars, under>> /\ UNCHANGED <<status, ip, rax, flag, stack>>
      /\ status' = "running"
  BY DEF PtSilent, Both
<1>2. PICK A, L : \E q \in Points(Nodes) :
        /\ Good(A, L) /\ Ran(A) /\ Compiled /\ ip \in DOMAIN code
        /\ A[ip] = On(Nodes, q) /\ stack = <<>> /\ rax \in Int /\ flag \in Signs
        /\ Leads(Nodes, Silent(Nodes, pt), q)
  BY <1>1, AtSeen
<1>3. PICK q \in Points(Nodes) :
        /\ Good(A, L) /\ Ran(A) /\ Compiled /\ ip \in DOMAIN code
        /\ A[ip] = On(Nodes, q) /\ stack = <<>> /\ rax \in Int /\ flag \in Signs
        /\ Leads(Nodes, Silent(Nodes, pt), q)
  BY <1>2
<1>4. pt' \in Points(Nodes)
  BY <1>1, <1>3, LeadsFrom
<1>5. Now(pt', rax', flag', stack') \in On(Nodes, q)
  <2>1. Now(pt', rax, flag, <<>>) \in State(Nodes)
    BY <1>3, <1>4 DEF Now, State
  <2>2. QED
    BY <1>1, <1>3, <2>1, NowIs DEF On
<1>6. ip' \in Nat
  BY <1>1, <1>3, Executed DEF Compiled
<1>7. QED
  BY <1>1, <1>3, <1>5, <1>6, Moved

(* Both evaluate the same expression and get the same value. *)
LEMMA EvaluateRan ==
  ASSUME ExecInv, Evaluate
  PROVE  \E B, M : Good(B, M)' /\ Ran(B)'
<1>1. /\ Both /\ Visible(Nodes, pt) /\ CodeEvent # "ret"
      /\ ip' = NextIp /\ UNCHANGED <<cgenVars, under>> /\ UNCHANGED <<status, stack>>
      /\ status' = "running"
  BY DEF Evaluate, Both
<1>2. PICK v \in Values : rax' = v /\ flag' = Sign(v) /\ pt' = OnValue(Nodes, pt, v)
  BY DEF Evaluate
<1>3. PICK A, L : \E q \in Points(Nodes) :
        /\ Good(A, L) /\ Ran(A) /\ Compiled /\ ip \in DOMAIN code
        /\ stack = <<>> /\ pt = q /\ code[ip].op \in {"eval", "ret"}
        /\ code[ip].op = "eval" => Valued(Nodes, q) \subseteq A[ip + code[ip].len]
  BY <1>1, AtSeen
<1>4. /\ Good(A, L) /\ Ran(A) /\ Compiled /\ ip \in DOMAIN code
      /\ stack = <<>> /\ code[ip].op \in {"eval", "ret"}
      /\ code[ip].op = "eval" => Valued(Nodes, pt) \subseteq A[NextIp]
  BY <1>3 DEF NextIp
<1>5. code[ip].op = "eval"
  BY <1>1, <1>4 DEF CodeEvent, InCode
<1>6. Now(OnValue(Nodes, pt, v), v, Sign(v), <<>>) \in A[NextIp]
  BY <1>4, <1>5 DEF Valued
<1>7. Now(pt', rax', flag', stack') \in A[ip']
  BY <1>1, <1>2, <1>4, <1>6
<1>8. flag' \in Signs
  BY <1>2, SignIs, ValuesAssumption
<1>9. ip' \in Nat
  BY <1>1, <1>4, Executed DEF NextIp, Compiled
<1>10. QED
  BY <1>1, <1>4, <1>7, <1>8, <1>9, Moved

(* The function returns, or nothing happens. *)
LEMMA ReturnRan ==
  ASSUME NEW A, NEW L, Good(A, L), Ran(A), Return \/ UNCHANGED vars
  PROVE  \E B, M : Good(B, M)' /\ Ran(B)'
<1>1. UNCHANGED cgenVars /\ UNCHANGED <<ip, rax, flag, stack, under, pt>>
  BY DEF Return, vars, runVars
<1>2. /\ UNCHANGED <<code, codeSize, labelTab, counter, funcStart, patched, exited>>
      /\ UNCHANGED <<src, fn, work, brk, cont, gotoTab, symbols>>
  BY <1>1 DEF cgenVars, labelVars, genVars
<1>3. Good(A, L)'
  BY <1>1, GoodKept
<1>4. Ran(A)'
  <2>1. CASE Return
    <3>1. status' = "returned" /\ status = "running"
      BY <2>1 DEF Return, Both
    <3>2. Compiled'
      BY <1>2, <3>1 DEF Ran, Compiled
    <3>3. QED
      BY <1>1, <1>2, <3>1, <3>2 DEF Ran
  <2>2. CASE UNCHANGED vars
    <3>1. status' = status
      BY <2>2 DEF vars, runVars
    <3>2. Compiled' <=> Compiled
      BY <1>2 DEF Compiled
    <3>3. QED
      BY <1>1, <1>2, <3>1, <3>2 DEF Ran
  <2>3. QED
    BY <2>1, <2>2
<1>5. QED
  BY <1>3, <1>4

(* Whatever happens, the invariant stays, *)
LEMMA ExecNext == ExecInv /\ Ordinary /\ [Next]_vars => ExecInv'
<1> SUFFICES ASSUME ExecInv, Ordinary, [Next]_vars PROVE ExecInv'
  OBVIOUS
<1>1. CgenInv /\ LabelsInv
  BY DEF ExecInv
<1>2. CgenInv' /\ [LabelsNext]_labelVars
  BY <1>1, CgenNextInv
<1>3. LabelsInv'
  BY <1>1, <1>2, NextInv
<1>4. PICK A, L : Good(A, L) /\ Ran(A)
  BY DEF ExecInv
<1>5. \E B, M : Good(B, M)' /\ Ran(B)'
  <2>1. CASE Compile
    BY <1>1, <1>4, <2>1, CompileRan
  <2>2. CASE Call
    BY <1>1, <1>4, <2>2, CallRan
  <2>3. CASE ExecJump
    BY <1>4, <2>3, JumpRan
  <2>4. CASE ExecPush \/ ExecPrologue \/ ExecCmp
    BY <1>4, <2>4, PushRan
  <2>5. CASE ExecPop
    BY <1>4, <2>5, PopRan
  <2>6. CASE PtSilent
    BY <2>6, SilentRan
  <2>7. CASE Evaluate
    BY <2>7, EvaluateRan
  <2>8. CASE Return \/ UNCHANGED vars
    BY <1>4, <2>8, ReturnRan
  <2>9. QED
    BY <2>1, <2>2, <2>3, <2>4, <2>5, <2>6, <2>7, <2>8 DEF Next, Execute, Stopped
<1>6. QED
  BY <1>2, <1>3, <1>5 DEF ExecInv

(* as it holds at first, *)
LEMMA ExecInit == RunInit => ExecInv
<1> SUFFICES ASSUME RunInit PROVE ExecInv
  OBVIOUS
<1>1. CgenInv
  BY CgenInitInv
<1>2. LabelsInv
  BY InitInv DEF RunInit, Init
<1>3. PICK A, L : Good(A, L)
  BY InitGood
<1>4. Ran(A)
  <2>1. /\ status = "compiling" /\ ip = 0 /\ rax = 0 /\ flag = 0 /\ stack = <<>>
        /\ under = FALSE /\ gotoTab = <<>>
    BY DEF RunInit, Init
  <2>2. ~under
    BY <2>1
  <2>3. Len(gotoTab) <= MaxGotos
    BY <2>1, GotosAssumption
  <2>4. QED
    BY <2>1, <2>2, <2>3 DEF Ran, Signs
<1>5. QED
  BY <1>1, <1>2, <1>3, <1>4 DEF ExecInv

(* and it implies the property. *)
LEMMA ExecTypes == ExecInv => TypeOK
<1> SUFFICES ASSUME ExecInv PROVE TypeOK
  OBVIOUS
<1>1. PICK A, L : Good(A, L) /\ Ran(A)
  BY DEF ExecInv
<1>2. LabelsTypeOK
  BY DEF ExecInv, LabelsInv
<1>3. fn \in DOMAIN src.funcs /\ counter \in Nat /\ brk \in Nat /\ cont \in Nat
  BY DEF ExecInv, CgenInv, Targets, Ids
<1>4. fn \in Nat
  BY <1>3, FilesAssumption DEF ExecInv, CgenInv
<1>5. Len(symbols) <= fn
  BY <1>1, <1>4 DEF Good, Entries
<1>6. /\ Len(gotoTab) <= MaxGotos /\ status \in {"compiling", "running", "returned"}
      /\ ip \in Int /\ flag \in {-1, 0, 1}
  BY <1>1 DEF Ran, Signs
<1>7. QED
  BY <1>2, <1>3, <1>5, <1>6 DEF TypeOK

(* Where both can be seen they do the same, on an empty stack. *)
LEMMA ExecAsC == ExecInv => ExecutesAsC
<1> SUFFICES ASSUME ExecInv PROVE ExecutesAsC
  OBVIOUS
<1>1. StackBalanced
  <2>1. ~under
    BY DEF ExecInv, Ran
  <2>2. Both => stack = <<>>
    BY AtSeen
  <2>3. QED
    BY <2>1, <2>2 DEF StackBalanced
<1>2. ASSUME Both, Visible(Nodes, pt) PROVE CodeEvent = PtEvent
  <2>1. \E q \in Points(Nodes) :
          /\ ip \in DOMAIN code /\ pt = q /\ code[ip].op \in {"eval", "ret"}
          /\ code[ip].op = "eval" => Evaluates(Nodes, q) = code[ip].arg /\ q[1] # "ret"
          /\ code[ip].op = "ret" => q[1] = "ret"
    BY <1>2, AtSeen
  <2>2. QED
    BY <2>1 DEF CodeEvent, PtEvent, InCode
<1>3. QED
  BY <1>1, <1>2, ExecTypes DEF ExecutesAsC

(* For every file of ordinary statements, whatever values its expressions  *)
(* have, the code that cgen.c generates does what C says of the            *)
(* statements: whenever the code and C are about to do something that can  *)
(* be seen, it is the same thing, and the stack is balanced.               *)
THEOREM CgenExecutesAsC == Spec /\ []Ordinary => []ExecutesAsC
<1>1. ExecInv /\ Ordinary /\ [Next]_vars => ExecInv'
  BY ExecNext
<1>2. QED
  BY ExecInit, ExecAsC, <1>1, PTL DEF Spec
=============================================================================
