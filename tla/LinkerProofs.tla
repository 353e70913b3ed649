---------------------------- MODULE LinkerProofs ----------------------------
(***************************************************************************)
(* Theorems about tld, for every set of objects and every value of the     *)
(* bounds: the state keeps its types, the pieces of the files do not       *)
(* overlap in memory, main's copy agrees with merge_sections, a relocation *)
(* overwrites another file's bytes only if it leaves its own section,      *)
(* symbols keep their addresses, and the program implements AbstractLink.  *)
(*                                                                         *)
(* The last one rests on LinkInv, a conjunct for each part of the program: *)
(* LayoutInv (merge_sections and main's copy), StageInv (the loops left    *)
(* behind), TableInv (the table is that of the symbols passed) and RelaInv *)
(* (the patches are those of the relocations passed).                      *)
(***************************************************************************)
EXTENDS Linker, SequenceTheorems, FiniteSetTheorems, TLAPS

(* AlignUp never shrinks a size. *)
LEMMA AlignUp16 == ASSUME NEW v \in Nat
                   PROVE  AlignUp(v, 16) \in Nat /\ v <= AlignUp(v, 16)
  BY DEF AlignUp

(* The same for the alignment of .data and .bss. *)
LEMMA AlignUp32 == ASSUME NEW v \in Nat
                   PROVE  AlignUp(v, 32) \in Nat /\ v <= AlignUp(v, 32)
  BY DEF AlignUp

(* Grow leaves room for the sizes it adds. *)
LEMMA GrowCovers ==
  ASSUME NEW t \in [Section -> Nat], NEW z \in [Section -> Nat]
  PROVE  /\ Grow(t, z) \in [Section -> Nat]
         /\ \A s \in Section : t[s] + z[s] <= Grow(t, z)[s]
  <1>1. ASSUME NEW s \in Section
        PROVE  /\ (IF s = "text" THEN AlignUp(t[s] + z[s], 16)
                   ELSE AlignUp(t[s] + z[s], 32)) \in Nat
               /\ t[s] + z[s] <= IF s = "text" THEN AlignUp(t[s] + z[s], 16)
                                 ELSE AlignUp(t[s] + z[s], 32)
    <2>1. t[s] + z[s] \in Nat
      OBVIOUS
    <2>2. QED
      BY <2>1, AlignUp16, AlignUp32
  <1>2. QED
    BY <1>1 DEF Grow

(* r is q with one more element, e. *)
Longer(q, e, r) == /\ Len(r) = Len(q) + 1
                   /\ DOMAIN q = 1 .. Len(q)
                   /\ DOMAIN r = 1 .. Len(q) + 1
                   /\ r[Len(q) + 1] = e
                   /\ \A i \in 1 .. Len(q) : r[i] = q[i]
                   /\ r # <<>>

(* What Append does to a list of offsets. *)
LEMMA OneMore ==
  ASSUME NEW q \in Seq([Section -> Nat]), NEW e \in [Section -> Nat]
  PROVE  Longer(q, e, Append(q, e))
  BY AppendProperties DEF Longer

(* Every file that was read has section sizes. *)
LEMMA InputSizes ==
  ASSUME inputs \in Seq(Objects), NEW f \in DOMAIN inputs
  PROVE  inputs[f].size \in [Section -> Nat]
  BY ObjectsAssumption DEF IsObject

(* The base addresses are addresses. *)
LEMMA AddressType ==
  ASSUME NEW t \in [Section -> Nat]
  PROVE  AddrOfSections(t) \in [Section -> Nat]
  BY BoundsAssumption DEF AddrOfSections, Section

(* The actions that report an error. *)
Failing == \/ TooManyInputs \/ ReadInputFails \/ NoInputs \/ NoMemory
           \/ TooManySymbols \/ UndefinedSymbol \/ NoEntryPoint
           \/ UndefinedInRela \/ UnsupportedRela \/ CannotWrite

(* They change the phase and the reason, and nothing else. *)
LEMMA FailingFrame ==
  ASSUME Failing
  PROVE  /\ phase' = "failed"
         /\ UNCHANGED <<inputs, layoutVars, fi, si, symVars, patches, output>>
  BY DEF Failing, Fail, TooManyInputs, ReadInputFails, NoInputs, NoMemory,
         TooManySymbols, UndefinedSymbol, NoEntryPoint, UndefinedInRela,
         UnsupportedRela, CannotWrite

(* The actions after the copy that neither fail nor apply a relocation. *)
Working == \/ SkipSymbol \/ CollectDefinition \/ RegisterReference
           \/ SetEntry \/ StrayRela \/ NextFile \/ ShortWrite \/ WriteOutput

(* They leave the layout and the patches alone. *)
LEMMA WorkingFrame ==
  ASSUME Working, TypeOK
  PROVE  /\ phase \in {"collecting", "registering", "checking", "relocating",
                       "writing"}
         /\ phase' \in {"collecting", "registering", "checking", "relocating",
                        "writing", "done", "failed", "lost"}
         /\ UNCHANGED <<inputs, layoutVars, patches>>
         /\ fi' \in Nat \ {0} /\ si' \in Nat \ {0}
         /\ output' \in {"none", "partial", "complete"}
  <1> USE DEF TypeOK
  <1>1. CASE SkipSymbol
    BY <1>1 DEF SkipSymbol, AtSymbol, NextSymbol
  <1>2. CASE CollectDefinition \/ RegisterReference
    BY <1>2 DEF CollectDefinition, RegisterReference, AtSymbol, NextSymbol
  <1>3. CASE SetEntry
    BY <1>3 DEF SetEntry
  <1>4. CASE NextFile
    BY <1>4 DEF NextFile
  <1>5. CASE ShortWrite \/ WriteOutput
    BY <1>5 DEF ShortWrite, WriteOutput
  <1>6. CASE StrayRela
    BY <1>6 DEF StrayRela, AtRela
  <1>7. QED
    BY <1>1, <1>2, <1>3, <1>4, <1>5, <1>6 DEF Working

(* Every step is one of these. *)
LEMMA StepCases ==
  ASSUME [Next]_vars
  PROVE  \/ Failing \/ Working
         \/ ReadInput \/ EndOfArguments \/ MergeFile \/ SetAddresses
         \/ CopyFile \/ ApplyRela \/ NextLoop \/ UNCHANGED vars
  BY DEF Next, Failing, Working, Exited

---------------------------------------------------------------------------
(* The state variables of tld keep their types in every behaviour. *)
THEOREM TypeCorrect == Spec => []TypeOK
  <1>1. Init => TypeOK
    BY DEF Init, TypeOK, Phases, Zero
  <1>2. TypeOK /\ [Next]_vars => TypeOK'
    <2> SUFFICES ASSUME TypeOK, [Next]_vars PROVE TypeOK'
      OBVIOUS
    <2> USE DEF TypeOK, Phases
    <2>1. CASE Failing
      BY <2>1, FailingFrame DEF layoutVars
    <2>2. CASE Working
      BY <2>2, WorkingFrame DEF layoutVars
    <2>3. CASE ReadInput
      BY <2>3 DEF ReadInput, layoutVars
    <2>4. CASE EndOfArguments
      BY <2>4 DEF EndOfArguments, layoutVars
    <2>5. CASE MergeFile
      <3>1. fi \in DOMAIN inputs
        BY <2>5 DEF MergeFile
      <3>2. total' \in [Section -> Nat]
        BY <2>5, <3>1, InputSizes, GrowCovers DEF MergeFile
      <3>3. QED
        BY <2>5, <3>2 DEF MergeFile
    <2>6. CASE SetAddresses
      <3>1. Zero \in [Section -> Nat] /\ addr' \in [Section -> Nat]
        BY <2>6, AddressType DEF SetAddresses, Zero
      <3>2. QED
        BY <2>6, <3>1 DEF SetAddresses
    <2>7. CASE CopyFile
      <3>1. fi \in DOMAIN inputs
        BY <2>7 DEF CopyFile
      <3>2. total' \in [Section -> Nat]
        BY <2>7, <3>1, InputSizes, GrowCovers DEF CopyFile
      <3>3. QED
        BY <2>7, <3>2 DEF CopyFile
    <2>8. CASE ApplyRela
      BY <2>8 DEF ApplyRela, layoutVars
    <2>9. CASE NextLoop
      BY <2>9 DEF NextLoop, layoutVars
    <2>10. CASE UNCHANGED vars
      BY <2>10 DEF vars
    <2>11. QED
      BY <2>1, <2>2, <2>3, <2>4, <2>5, <2>6, <2>7, <2>8, <2>9, <2>10, StepCases
  <1>3. QED
    BY <1>1, <1>2, PTL DEF Spec

---------------------------------------------------------------------------
(* The inductive invariant of the two layout loops.  Where the next file   *)
(* goes is determined by where the last one went.                          *)
Follow(off, f) == Grow(off[f], inputs[f].size)
EndOf(off)     == IF off = <<>> THEN Zero ELSE Follow(off, Len(off))

(* merge_sections: each file follows the one before, and those before fit. *)
Chain == \A f \in DOMAIN mergeOff :
           /\ mergeOff[f] = IF f = 1 THEN Zero ELSE Follow(mergeOff, f - 1)
           /\ \A g \in DOMAIN mergeOff : \A s \in Section :
                f < g => mergeOff[f][s] + inputs[f].size[s] <= mergeOff[g][s]
Fits  == \A f \in DOMAIN mergeOff : \A s \in Section :
           mergeOff[f][s] + inputs[f].size[s] <= EndOf(mergeOff)[s]

(* How far each loop is, and what its totals are. *)
Progress ==
  /\ Len(copyOff) <= Len(mergeOff)
  /\ Len(mergeOff) <= Len(inputs)
  /\ phase = "reading" => mergeOff = <<>> /\ fi = 1 /\ total = Zero
  /\ phase = "merging" => /\ fi = Len(mergeOff) + 1
                          /\ copyOff = <<>>
                          /\ total = EndOf(mergeOff)
  /\ phase = "copying" => /\ Len(mergeOff) = Len(inputs)
                          /\ fi = Len(copyOff) + 1
                          /\ total = EndOf(copyOff)
  /\ phase \notin {"reading", "merging", "copying", "failed"} =>
       Len(mergeOff) = Len(inputs)
Addressed == /\ phase \notin {"reading", "merging"}
             /\ mergeOff # <<>>
             => addr = AddrOfSections(EndOf(mergeOff))

LayoutInv == TypeOK /\ Progress /\ Chain /\ Fits /\ Addressed /\ CopyAgrees

(* A failing, working, relocating or stuttering step keeps the layout and  *)
(* re-enters none of the loops that made it.                               *)
Frame == \/ phase' = "failed" /\ phase # "reading" /\ phase # "merging"
         \/ phase' = "failed" /\ phase = "reading"
         \/ phase' = phase /\ fi' = fi
         \/ /\ phase' \notin {"reading", "merging", "copying"}
            /\ phase \notin {"reading", "merging", "failed"}

(* A step that changes neither the files nor the layout keeps it. *)
LEMMA FrameKeepsLayout ==
  ASSUME LayoutInv, TypeOK', UNCHANGED <<inputs, layoutVars>>, Frame
  PROVE  LayoutInv'
  <1> USE DEF LayoutInv, layoutVars
  <1>1. EndOf(mergeOff)' = EndOf(mergeOff) /\ EndOf(copyOff)' = EndOf(copyOff)
    BY DEF EndOf, Follow
  <1>2. Chain' /\ Fits'
    BY <1>1 DEF Chain, Fits, Follow
  <1>3. CopyAgrees'
    BY DEF CopyAgrees
  <1>4. Progress'
    BY <1>1 DEF Progress, Frame
  <1>5. Addressed'
    <2>1. CASE phase = "reading"
      <3>1. mergeOff = <<>>
        BY <2>1 DEF Progress
      <3>2. QED
        BY <3>1 DEF Addressed
    <2>2. CASE phase # "reading"
      BY <2>2, <1>1 DEF Addressed, Frame
    <2>3. QED
      BY <2>1, <2>2
  <1>6. QED
    BY <1>2, <1>3, <1>4, <1>5

(* Placing one more file where the totals stand keeps the chain. *)
LEMMA MergeKeepsLayout ==
  ASSUME LayoutInv, TypeOK', MergeFile
  PROVE  LayoutInv'
  <1>0. /\ TypeOK /\ Progress /\ Chain /\ Fits /\ Addressed /\ CopyAgrees
        /\ inputs \in Seq(Objects) /\ total \in [Section -> Nat]
        /\ total' \in [Section -> Nat]
        /\ mergeOff \in Seq([Section -> Nat])
        /\ copyOff \in Seq([Section -> Nat])
    BY DEF LayoutInv, TypeOK
  <1> DEFINE n == Len(mergeOff)
  <1>1. /\ n \in Nat /\ fi = n + 1 /\ fi \in DOMAIN inputs
        /\ copyOff = <<>> /\ total = EndOf(mergeOff)
        /\ inputs' = inputs /\ addr' = addr /\ copyOff' = copyOff
        /\ phase = "merging" /\ phase' = "merging" /\ fi' = fi + 1
    BY <1>0 DEF MergeFile, Progress, TypeOK
  <1>2. Longer(mergeOff, total, mergeOff')
    <2>1. mergeOff' = Append(mergeOff, total)
      BY DEF MergeFile
    <2>2. Longer(mergeOff, total, Append(mergeOff, total))
      BY <1>0, OneMore
    <2>3. QED
      BY <2>1, <2>2
  <1>3. total' = EndOf(mergeOff)'
    BY <1>0, <1>1, <1>2 DEF Longer, MergeFile, EndOf, Follow
  <1>4. \A s \in Section :
          /\ total[s] + inputs[n + 1].size[s] <= total'[s]
          /\ total[s] \in Nat /\ total'[s] \in Nat
          /\ inputs[n + 1].size[s] \in Nat
    <2>1. inputs[n + 1].size \in [Section -> Nat]
      BY <1>0, <1>1, InputSizes
    <2>2. total' = Grow(total, inputs[n + 1].size)
      BY <1>1 DEF MergeFile
    <2>3. QED
      BY <1>0, <2>1, <2>2, GrowCovers
  <1>5. Progress'
    BY <1>0, <1>1, <1>2, <1>3 DEF Longer, Progress
  <1>6. Chain'
    <2>1. ASSUME NEW f \in 1 .. n + 1
          PROVE  mergeOff'[f] = IF f = 1 THEN Zero ELSE Follow(mergeOff, f - 1)'
      <3>1. CASE f \in 1 .. n
        <4>1. /\ mergeOff'[f] = mergeOff[f]
              /\ f # 1 => mergeOff'[f - 1] = mergeOff[f - 1]
          BY <3>1, <1>2 DEF Longer
        <4>2. mergeOff[f] = IF f = 1 THEN Zero ELSE Follow(mergeOff, f - 1)
          BY <3>1, <1>0, <1>2 DEF Longer, Chain
        <4>3. QED
          BY <4>1, <4>2, <1>1 DEF Follow
      <3>2. CASE f = n + 1
        BY <3>2, <1>0, <1>1, <1>2 DEF Longer, EndOf, Follow
      <3>3. QED
        BY <3>1, <3>2
    <2>2. ASSUME NEW f \in 1 .. n + 1, NEW g \in 1 .. n + 1,
                 NEW s \in Section, f < g
          PROVE  mergeOff'[f][s] + inputs[f].size[s] <= mergeOff'[g][s]
      <3>1. CASE g \in 1 .. n
        <4>1. f \in 1 .. n
          BY <3>1, <2>2
        <4>2. mergeOff'[f] = mergeOff[f] /\ mergeOff'[g] = mergeOff[g]
          BY <3>1, <4>1, <1>2 DEF Longer
        <4>3. mergeOff[f][s] + inputs[f].size[s] <= mergeOff[g][s]
          BY <3>1, <4>1, <2>2, <1>0, <1>2 DEF Longer, Chain
        <4>4. QED
          BY <4>2, <4>3
      <3>2. CASE g = n + 1
        <4>1. f \in 1 .. n
          BY <3>2, <2>2, <1>1
        <4>2. mergeOff'[f] = mergeOff[f] /\ mergeOff'[g] = total
          BY <3>2, <4>1, <1>2 DEF Longer
        <4>3. mergeOff[f][s] + inputs[f].size[s] <= total[s]
          BY <4>1, <1>0, <1>1, <1>2 DEF Longer, Fits
        <4>4. QED
          BY <4>2, <4>3
      <3>3. QED
        BY <3>1, <3>2
    <2>3. QED
      BY <2>1, <2>2, <1>0, <1>1, <1>2 DEF Longer, Chain
  <1>7. Fits'
    <2> SUFFICES ASSUME NEW f \in 1 .. n + 1, NEW s \in Section
                 PROVE  mergeOff'[f][s] + inputs[f].size[s] <= total'[s]
      BY <1>0, <1>1, <1>2, <1>3 DEF Longer, Fits
    <2>1. CASE f = n + 1
      BY <2>1, <1>2, <1>4 DEF Longer
    <2>2. CASE f \in 1 .. n
      <3>1. mergeOff[f][s] + inputs[f].size[s] <= total[s]
        BY <2>2, <1>0, <1>1, <1>2 DEF Longer, Fits
      <3>2. /\ mergeOff[f][s] \in Nat
            /\ inputs[f].size[s] \in Nat
        <4>1. f \in DOMAIN inputs
          <5>1. n + 1 \in 1 .. Len(inputs) /\ Len(inputs) \in Nat
            BY <1>0, <1>1
          <5>2. f \in 1 .. Len(inputs)
            BY <5>1, <2>2, <1>1
          <5>3. QED
            BY <5>2, <1>0
        <4>2. inputs[f].size \in [Section -> Nat]
          BY <4>1, <1>0, InputSizes
        <4>3. QED
          <5>1. f \in DOMAIN mergeOff
            BY <2>2, <1>2 DEF Longer
          <5>2. mergeOff[f] \in [Section -> Nat]
            BY <5>1, <1>0
          <5>3. QED
            BY <5>2, <4>2
      <3>3. mergeOff'[f] = mergeOff[f]
        BY <2>2, <1>2 DEF Longer
      <3>4. mergeOff'[f][s] = mergeOff[f][s]
        BY <3>3
      <3>5. total[s] \in Nat /\ total'[s] \in Nat /\ total[s] <= total'[s]
        BY <1>4
      <3>6. QED
        BY <3>1, <3>2, <3>4, <3>5
    <2>3. QED
      BY <2>1, <2>2
  <1>8. Addressed' /\ CopyAgrees'
    BY <1>0, <1>1, <1>2 DEF Longer, Addressed, CopyAgrees
  <1>9. QED
    BY <1>5, <1>6, <1>7, <1>8 DEF LayoutInv

(* Copying one more file puts it where merge_sections did. *)
LEMMA CopyKeepsLayout ==
  ASSUME LayoutInv, TypeOK', CopyFile
  PROVE  LayoutInv'
  <1>0. /\ TypeOK /\ Progress /\ Chain /\ Fits /\ Addressed /\ CopyAgrees
        /\ inputs \in Seq(Objects) /\ total \in [Section -> Nat]
        /\ total' \in [Section -> Nat]
        /\ mergeOff \in Seq([Section -> Nat])
        /\ copyOff \in Seq([Section -> Nat])
    BY DEF LayoutInv, TypeOK
  <1> DEFINE n == Len(copyOff)
  <1>1. /\ n \in Nat /\ fi = n + 1 /\ fi \in DOMAIN inputs
        /\ total = EndOf(copyOff) /\ Len(mergeOff) = Len(inputs)
        /\ inputs' = inputs /\ addr' = addr /\ mergeOff' = mergeOff
        /\ phase = "copying" /\ phase' = "copying" /\ fi' = fi + 1
    BY <1>0 DEF CopyFile, Progress, TypeOK
  <1>2. Longer(copyOff, total, copyOff') /\ DOMAIN mergeOff = DOMAIN inputs
    <2>1. copyOff' = Append(copyOff, total)
      BY DEF CopyFile
    <2>2. Longer(copyOff, total, Append(copyOff, total))
      BY <1>0, OneMore
    <2>3. DOMAIN mergeOff = DOMAIN inputs
      BY <1>0, <1>1
    <2>4. QED
      BY <2>1, <2>2, <2>3
  <1>3. total' = EndOf(copyOff)'
    BY <1>0, <1>1, <1>2 DEF Longer, CopyFile, EndOf, Follow
  <1>4. EndOf(mergeOff)' = EndOf(mergeOff)
    BY <1>1 DEF EndOf, Follow
  <1>5. Progress'
    BY <1>0, <1>1, <1>2, <1>3 DEF Longer, Progress
  <1>6. Chain' /\ Fits' /\ Addressed'
    BY <1>0, <1>1, <1>4 DEF Chain, Fits, Addressed, Follow
  <1>7. total = mergeOff[n + 1]
    <2>1. CASE n = 0
      <3>1. copyOff = <<>> /\ 1 \in DOMAIN mergeOff
        BY <2>1, <1>0, <1>1, <1>2
      <3>2. mergeOff[1] = Zero
        BY <3>1, <1>0 DEF Chain
      <3>3. QED
        BY <2>1, <3>1, <3>2, <1>1 DEF EndOf
    <2>2. CASE n # 0
      <3>1. copyOff[n] = mergeOff[n]
        <4>1. n \in DOMAIN copyOff
          BY <2>2, <1>1, <1>2 DEF Longer
        <4>2. QED
          BY <4>1, <1>0 DEF CopyAgrees
      <3>2. EndOf(copyOff) = Follow(mergeOff, n)
        BY <2>2, <3>1, <1>1, <1>2 DEF Longer, EndOf, Follow
      <3>3. mergeOff[n + 1] = Follow(mergeOff, n)
        <4>1. n + 1 \in DOMAIN mergeOff /\ n + 1 # 1 /\ (n + 1) - 1 = n
          BY <2>2, <1>1, <1>2
        <4>2. QED
          BY <4>1, <1>0 DEF Chain
      <3>4. QED
        BY <3>2, <3>3, <1>1
    <2>3. QED
      BY <2>1, <2>2
  <1>8. CopyAgrees'
    BY <1>0, <1>1, <1>2, <1>7 DEF Longer, CopyAgrees
  <1>9. QED
    BY <1>5, <1>6, <1>8 DEF LayoutInv

(* Fixing the addresses closes merge_sections and starts the copy. *)
LEMMA AddressesKeepLayout ==
  ASSUME LayoutInv, TypeOK', SetAddresses
  PROVE  LayoutInv'
  <1> USE DEF LayoutInv, TypeOK
  <1>1. /\ Len(mergeOff) = Len(inputs) /\ copyOff = <<>>
        /\ total = EndOf(mergeOff)
        /\ inputs' = inputs /\ mergeOff' = mergeOff /\ copyOff' = copyOff
        /\ phase' = "copying" /\ fi' = 1 /\ total' = Zero
        /\ addr' = AddrOfSections(total)
    BY DEF SetAddresses, Progress
  <1>2. EndOf(mergeOff)' = EndOf(mergeOff)
    BY <1>1 DEF EndOf, Follow
  <1>3. Progress'
    BY <1>1 DEF Progress, EndOf
  <1>4. Chain' /\ Fits' /\ CopyAgrees'
    BY <1>1, <1>2 DEF Chain, Fits, CopyAgrees, Follow
  <1>5. Addressed'
    BY <1>1, <1>2 DEF Addressed
  <1>6. QED
    BY <1>3, <1>4, <1>5

(* The layout invariant holds in every reachable state of tld. *)
THEOREM LayoutCorrect == Spec => []LayoutInv
  <1>1. Init => LayoutInv
    <2> SUFFICES ASSUME Init PROVE LayoutInv
      OBVIOUS
    <2>1. TypeOK
      BY DEF Init, TypeOK, Phases, Zero
    <2>2. QED
      BY <2>1 DEF Init, LayoutInv, Progress, Chain, Fits, Addressed, CopyAgrees
  <1>2. LayoutInv /\ TypeOK' /\ [Next]_vars => LayoutInv'
    <2> SUFFICES ASSUME LayoutInv, TypeOK', [Next]_vars PROVE LayoutInv'
      OBVIOUS
    <2>0. TypeOK
      BY DEF LayoutInv
    <2>1. CASE Failing
      <3>1. phase # "merging"
        BY <2>1 DEF Failing, TooManyInputs, ReadInputFails, NoInputs, NoMemory,
             TooManySymbols, UndefinedSymbol, NoEntryPoint, UndefinedInRela,
             UnsupportedRela, CannotWrite, AtSymbol, AtRela
      <3>2. QED
        BY <2>1, <3>1, FailingFrame, FrameKeepsLayout DEF Frame
    <2>2. CASE Working
      BY <2>0, <2>2, WorkingFrame, FrameKeepsLayout DEF Frame
    <2>3. CASE ReadInput
      <3>1. /\ mergeOff = <<>> /\ copyOff = <<>> /\ fi = 1 /\ total = Zero
            /\ mergeOff' = mergeOff /\ copyOff' = copyOff /\ fi' = fi
            /\ total' = total /\ phase = "reading" /\ phase' = phase
        BY <2>3 DEF ReadInput, layoutVars, LayoutInv, Progress, TypeOK
      <3>2. QED
        BY <3>1 DEF LayoutInv, Progress, Chain, Fits, Addressed,
                    CopyAgrees, TypeOK
    <2>4. CASE EndOfArguments
      <3>1. /\ mergeOff = <<>> /\ copyOff = <<>> /\ fi = 1 /\ total = Zero
            /\ mergeOff' = mergeOff /\ copyOff' = copyOff /\ fi' = fi
            /\ total' = total /\ inputs' = inputs /\ phase' = "merging"
        BY <2>4 DEF EndOfArguments, layoutVars, LayoutInv, Progress, TypeOK
      <3>2. QED
        BY <3>1 DEF LayoutInv, Progress, Chain, Fits, Addressed,
                    CopyAgrees, TypeOK, EndOf
    <2>5. CASE MergeFile
      BY <2>5, MergeKeepsLayout
    <2>6. CASE SetAddresses
      BY <2>6, AddressesKeepLayout
    <2>7. CASE CopyFile
      BY <2>7, CopyKeepsLayout
    <2>8. CASE ApplyRela
      BY <2>8, FrameKeepsLayout DEF ApplyRela, AtRela, Frame
    <2>9. CASE NextLoop
      BY <2>9, FrameKeepsLayout DEF NextLoop, Frame
    <2>10. CASE UNCHANGED vars
      BY <2>10, FrameKeepsLayout DEF vars, layoutVars, Frame
    <2>11. QED
      BY <2>1, <2>2, <2>3, <2>4, <2>5, <2>6, <2>7, <2>8, <2>9, <2>10, StepCases
  <1>3. QED
    BY <1>1, <1>2, TypeCorrect, PTL DEF Spec

---------------------------------------------------------------------------
(* main copies every file to the place merge_sections gave it. *)
THEOREM CopyCorrect == Spec => []CopyAgrees
  BY LayoutCorrect, PTL DEF LayoutInv

(* The base addresses keep the merged sections in order. *)
LEMMA SectionsInOrder ==
  ASSUME NEW t \in [Section -> Nat]
  PROVE  LET a == AddrOfSections(t)
         IN  /\ \A s \in Section : a[s] \in Nat
             /\ a["text"] + t["text"] = a["data"]
             /\ a["data"] + t["data"] = a["bss"]
  BY BoundsAssumption DEF AddrOfSections, Section

(* Where the totals end is a triple of sizes. *)
LEMMA EndOfType ==
  ASSUME TypeOK, Len(mergeOff) <= Len(inputs)
  PROVE  EndOf(mergeOff) \in [Section -> Nat]
  <1>1. CASE mergeOff = <<>>
    BY <1>1 DEF EndOf, Zero
  <1>2. CASE mergeOff # <<>>
    <2>1. Len(mergeOff) \in DOMAIN mergeOff /\ Len(mergeOff) \in DOMAIN inputs
      BY <1>2 DEF TypeOK
    <2>2. /\ mergeOff[Len(mergeOff)] \in [Section -> Nat]
          /\ inputs[Len(mergeOff)].size \in [Section -> Nat]
      BY <2>1, InputSizes DEF TypeOK
    <2>3. QED
      BY <1>2, <2>2, GrowCovers DEF EndOf, Follow
  <1>3. QED
    BY <1>1, <1>2

(* The layout invariant keeps the pieces of the files apart. *)
LEMMA LayoutSeparates == LayoutInv => PiecesDisjoint
  <1> SUFFICES ASSUME LayoutInv, LaidOut,
                      NEW f \in DOMAIN mergeOff, NEW g \in DOMAIN mergeOff,
                      NEW s \in Section, NEW t \in Section,
                      <<f, s>> # <<g, t>>
               PROVE  Apart(f, s, g, t)
    BY DEF PiecesDisjoint
  <1> DEFINE e == EndOf(mergeOff)
  <1>1. /\ e \in [Section -> Nat]
        /\ addr = AddrOfSections(e)
        /\ Chain /\ Fits /\ TypeOK
    <2>1. mergeOff # <<>>
      BY DEF LayoutInv, TypeOK
    <2>2. QED
      BY <2>1, EndOfType DEF LayoutInv, Progress, Addressed, LaidOut
  <1>2. /\ addr["text"] \in Nat /\ addr["data"] \in Nat /\ addr["bss"] \in Nat
        /\ addr["text"] + e["text"] = addr["data"]
        /\ addr["data"] + e["data"] = addr["bss"]
    BY <1>1, SectionsInOrder DEF Section
  <1>3. \A h \in DOMAIN mergeOff : \A u \in Section :
          /\ mergeOff[h][u] \in Nat /\ inputs[h].size[u] \in Nat
          /\ e[u] \in Nat
          /\ mergeOff[h][u] + inputs[h].size[u] <= e[u]
    <2> SUFFICES ASSUME NEW h \in DOMAIN mergeOff, NEW u \in Section
                 PROVE  /\ mergeOff[h][u] \in Nat /\ inputs[h].size[u] \in Nat
                        /\ e[u] \in Nat
                        /\ mergeOff[h][u] + inputs[h].size[u] <= e[u]
      OBVIOUS
    <2>1. h \in DOMAIN inputs
      BY <1>1 DEF LayoutInv, Progress, TypeOK
    <2>2. mergeOff[h] \in [Section -> Nat]
      BY <1>1 DEF TypeOK
    <2>3. inputs[h].size \in [Section -> Nat]
      <3>1. inputs \in Seq(Objects)
        BY <1>1 DEF TypeOK
      <3>2. QED
        BY <2>1, <3>1, InputSizes
    <2>4. QED
      BY <2>2, <2>3, <1>1 DEF Fits
  <1>4. CASE s = t
    <2>1. f # g /\ f \in Nat /\ g \in Nat
      BY <1>4, <1>1 DEF TypeOK
    <2>2. \/ mergeOff[f][s] + inputs[f].size[s] <= mergeOff[g][s]
          \/ mergeOff[g][s] + inputs[g].size[s] <= mergeOff[f][s]
      BY <2>1, <1>1 DEF Chain
    <2>3. addr[s] \in Nat
      BY <1>2 DEF Section
    <2>4. QED
      BY <1>4, <2>2, <2>3, <1>3 DEF Apart, Base
  <1>5. CASE s # t
    <2>1. /\ Base(f, s) + inputs[f].size[s] <= addr[s] + e[s]
          /\ Base(g, t) + inputs[g].size[t] <= addr[t] + e[t]
          /\ addr[s] <= Base(f, s) /\ addr[t] <= Base(g, t)
          /\ Base(f, s) \in Nat /\ Base(g, t) \in Nat
          /\ addr[s] \in Nat /\ addr[t] \in Nat
          /\ inputs[f].size[s] \in Nat /\ inputs[g].size[t] \in Nat
          /\ e[s] \in Nat /\ e[t] \in Nat
      BY <1>2, <1>3 DEF Base, Section
    <2>2. addr[s] + e[s] <= addr[t] \/ addr[t] + e[t] <= addr[s]
      BY <1>5, <1>2, <1>3 DEF Section
    <2>3. QED
      BY <2>1, <2>2 DEF Apart
  <1>6. QED
    BY <1>4, <1>5

(* No two pieces of input files overlap in memory, whatever their sizes. *)
THEOREM PiecesCorrect == Spec => []PiecesDisjoint
  BY LayoutCorrect, LayoutSeparates, PTL

(* A relocation that keeps to its section keeps to the piece of its file,  *)
(* where there is no byte of another.                                      *)
LEMMA KeptInPiece ==
  ASSUME LayoutInv, NEW f \in DOMAIN mergeOff, NEW g \in DOMAIN mergeOff \ {f},
         NEW r, IsRela(r), Keeps(inputs[f], r)
  PROVE  ~Touches(Patch(f, r), g)
  <1> DEFINE s == r.sec
             w == Width(r.type)
             F == mergeOff[f][s]
             G == mergeOff[g][s]
             A == inputs[f].size[s]
             B == inputs[g].size[s]
             at == F + r.off
  <1>1. s \in Section /\ r.off \in Int /\ 0 <= r.off /\ r.off + w <= A
    BY DEF Keeps, IsRela, Section
  <1>2. w \in Nat \ {0}
    BY DEF Width
  <1>3. F \in Nat /\ G \in Nat /\ A \in Nat /\ B \in Nat
    <2>1. mergeOff[f] \in [Section -> Nat] /\ mergeOff[g] \in [Section -> Nat]
      BY DEF LayoutInv, TypeOK
    <2>2. f \in DOMAIN inputs /\ g \in DOMAIN inputs
      BY DEF LayoutInv, TypeOK, Progress
    <2>3. inputs[f].size \in [Section -> Nat] /\ inputs[g].size \in [Section -> Nat]
      BY <2>2, InputSizes DEF LayoutInv, TypeOK
    <2>4. QED
      BY <1>1, <2>1, <2>3
  <1>4. F + A <= G \/ G + B <= F
    <2>1. f # g /\ f \in Nat /\ g \in Nat
      BY DEF LayoutInv, TypeOK
    <2>2. f < g \/ g < f
      BY <2>1
    <2>3. f < g => F + A <= G
      BY <1>1 DEF LayoutInv, Chain
    <2>4. g < f => G + B <= F
      BY <1>1 DEF LayoutInv, Chain
    <2>5. QED
      BY <2>2, <2>3, <2>4
  <1>5. /\ Patch(f, r).at = at
        /\ Patch(f, r).sec = s
        /\ Patch(f, r).width = w
    BY DEF Patch
  <1>6. at = F + r.off
    OBVIOUS
  <1>7. Touches(Patch(f, r), g) <=> at < G + B /\ G < at + w
    BY <1>5 DEF Touches
  <1> HIDE DEF s, w, F, G, A, B, at
  <1>8. ~(at < G + B /\ G < at + w)
    BY <1>1, <1>2, <1>3, <1>4, <1>6
  <1>9. QED
    BY <1>7, <1>8

(* What OwnPatches says of one word. *)
OwnPatch(p) == /\ p.file \in DOMAIN mergeOff
               /\ \A f \in DOMAIN mergeOff \ {p.file} :
                    Touches(p, f) => \E i \in Writers(p) :
                      ~Keeps(inputs[p.file], inputs[p.file].relas[i])

(* The word that a relocation writes is one of these. *)
LEMMA PatchIsOwn ==
  ASSUME LayoutInv, ApplyRela
  PROVE  OwnPatch(Patch(fi, Rela))
  <1> DEFINE p == Patch(fi, Rela)
  <1>1. /\ fi \in DOMAIN inputs /\ fi \in DOMAIN mergeOff
        /\ si \in DOMAIN inputs[fi].relas /\ IsRela(Rela)
    <2>1. Len(mergeOff) = Len(inputs) /\ fi \in DOMAIN inputs
      BY DEF ApplyRela, AtRela, LayoutInv, Progress, TypeOK
    <2>2. IsObject(inputs[fi])
      BY <2>1, ObjectsAssumption DEF LayoutInv, TypeOK
    <2>3. si \in DOMAIN inputs[fi].relas
      BY <2>2 DEF ApplyRela, AtRela, IsObject, LayoutInv, TypeOK
    <2>4. fi \in DOMAIN mergeOff
      BY <2>1 DEF LayoutInv, TypeOK
    <2>5. QED
      BY <2>1, <2>2, <2>3, <2>4 DEF Rela, IsObject
  <1>2. /\ p.file = fi
        /\ p.sec = Rela.sec
        /\ p.at = mergeOff[fi][Rela.sec] + Rela.off
        /\ p.width = Width(Rela.type)
    BY DEF Patch
  <1>3. CASE Keeps(inputs[fi], Rela)
    <2>1. \A f \in DOMAIN mergeOff \ {fi} : ~Touches(p, f)
      BY <1>1, <1>3, KeptInPiece
    <2> HIDE DEF p
    <2>2. OwnPatch(p)
      BY <1>1, <1>2, <2>1 DEF OwnPatch
    <2>3. QED
      BY <2>2 DEF p
  <1>4. CASE ~Keeps(inputs[fi], Rela)
    <2> HIDE DEF p
    <2>1. si \in Writers(p)
      BY <1>1, <1>2 DEF Writers, Rela
    <2>2. ~Keeps(inputs[p.file], inputs[p.file].relas[si])
      BY <1>2, <1>4 DEF Rela
    <2>3. OwnPatch(p)
      BY <1>1, <1>2, <2>1, <2>2 DEF OwnPatch
    <2>4. QED
      BY <2>3 DEF p
  <1>5. QED
    BY <1>3, <1>4

(* A step that changes neither the files nor where they are keeps it. *)
LEMMA OwnPatchSteady ==
  ASSUME mergeOff' = mergeOff, inputs' = inputs, NEW p, OwnPatch(p)
  PROVE  OwnPatch(p)'
  <1>1. \A f : Touches(p, f)' <=> Touches(p, f)
    BY DEF Touches
  <1>2. Writers(p)' = Writers(p)
    BY DEF Writers
  <1>3. QED
    BY <1>1, <1>2 DEF OwnPatch

(* Nothing is patched before every file has its place. *)
PatchInv == /\ \A p \in patches : OwnPatch(p)
            /\ phase \in {"reading", "merging"} => patches = {}

(* merge_sections gives every file a piece of its own, and a relocation is *)
(* applied at its offset from that piece (tld.c:492): for any files, sizes *)
(* and relocations, a word in the bytes of another file was written by a   *)
(* relocation that leaves the section of its own file.                     *)
THEOREM PatchesCorrect == Spec => []OwnPatches
  <1>1. Init => PatchInv
    BY DEF Init, PatchInv
  <1>2. LayoutInv /\ PatchInv /\ [Next]_vars => PatchInv'
    <2> SUFFICES ASSUME LayoutInv, PatchInv, [Next]_vars
                 PROVE  PatchInv'
      OBVIOUS
    <2>1. CASE ApplyRela
      <3>1. /\ mergeOff' = mergeOff /\ inputs' = inputs
            /\ phase' = "relocating"
            /\ patches' \subseteq patches \cup {Patch(fi, Rela)}
        BY <2>1 DEF ApplyRela, AtRela, layoutVars
      <3>2. \A p \in patches \cup {Patch(fi, Rela)} : OwnPatch(p)
        BY <2>1, PatchIsOwn DEF PatchInv
      <3>3. \A p \in patches' : OwnPatch(p)'
        BY <3>1, <3>2, OwnPatchSteady
      <3>4. QED
        BY <3>1, <3>3 DEF PatchInv
    <2>2. CASE patches = {} /\ patches' = {}
      BY <2>2 DEF PatchInv
    <2>3. CASE ReadInput \/ EndOfArguments \/ MergeFile \/ SetAddresses
      BY <2>2, <2>3 DEF PatchInv, ReadInput, EndOfArguments, MergeFile,
                        SetAddresses
    <2>4. CASE /\ mergeOff' = mergeOff /\ inputs' = inputs
               /\ patches' = patches
               /\ phase' \in {"reading", "merging"} =>
                    phase \in {"reading", "merging"}
      BY <2>4, OwnPatchSteady DEF PatchInv
    <2>5. CASE Failing
      BY <2>4, <2>5, FailingFrame DEF layoutVars
    <2>6. CASE Working
      BY <2>4, <2>6, WorkingFrame DEF LayoutInv, layoutVars
    <2>7. CASE CopyFile \/ NextLoop
      BY <2>4, <2>7 DEF CopyFile, NextLoop, layoutVars
    <2>8. CASE UNCHANGED vars
      BY <2>4, <2>8 DEF vars
    <2>9. QED
      BY <2>1, <2>3, <2>5, <2>6, <2>7, <2>8, StepCases
  <1>3. PatchInv => OwnPatches
    BY DEF PatchInv, OwnPatch, OwnPatches
  <1>4. QED
    BY <1>1, <1>2, <1>3, LayoutCorrect, PTL DEF Spec

---------------------------------------------------------------------------
(* The definitions, and the references, of a name among some symbols. *)
Defs(sym, C, name) == {k \in C : IsDefinition(sym[k]) /\ sym[k].name = name}
Refs(sym, R, name) == {k \in R : IsReference(sym[k]) /\ sym[k].name = name}

(* Symbol k comes no later than l: files in order, symbols in order. *)
NoLater(k, l)      == k[1] < l[1] \/ (k[1] = l[1] /\ k[2] <= l[2])
FirstOf(D)         == {k \in D : \A l \in D : NoLater(k, l)}

(* The entries a table may have. *)
Entry(names, vals) == [name : names, value : vals, defined : BOOLEAN]

(* The table of resolve_symbols, of the definitions of C and the           *)
(* references of R: sym says what the symbols are and val the addresses    *)
(* they get.                                                               *)
TableOf(t, N, V, sym, val, C, R) ==
  /\ t \in Seq(Entry(N, V))
  /\ \A i, j \in 1 .. Len(t) : t[i].name = t[j].name => i = j
  /\ \A i \in 1 .. Len(t) :
       IF t[i].defined
       THEN \E k \in FirstOf(Defs(sym, C, t[i].name)) : t[i].value = val[k]
       ELSE t[i].value = 0 /\ Refs(sym, R, t[i].name) # {}
  /\ \A k \in C : IsDefinition(sym[k]) =>
       \E i \in 1 .. Len(t) : t[i].name = sym[k].name /\ t[i].defined
  /\ \A k \in R : IsReference(sym[k]) =>
       \E i \in 1 .. Len(t) : t[i].name = sym[k].name

(* The empty table is the one of no symbols. *)
LEMMA NoEntryYet ==
  ASSUME NEW N, NEW V, NEW sym, NEW val
  PROVE  TableOf(<<>>, N, V, sym, val, {}, {})
BY DEF TableOf

(* The first pass over a symbol whose name the table has, or that is no    *)
(* definition, leaves the table alone.                                     *)
LEMMA CollectKnown ==
  ASSUME NEW t, NEW N, NEW V, NEW sym, NEW val, NEW C, NEW d,
         TableOf(t, N, V, sym, val, C, {}),
         \A k \in C : NoLater(k, d),
         IsDefinition(sym[d]) => \E i \in 1 .. Len(t) : t[i].name = sym[d].name
  PROVE  TableOf(t, N, V, sym, val, C \cup {d}, {})
<1>1. ASSUME NEW i \in 1 .. Len(t)
      PROVE  /\ t[i].defined
             /\ \E k \in FirstOf(Defs(sym, C \cup {d}, t[i].name)) : t[i].value = val[k]
  <2>1. t[i].defined
    BY DEF TableOf, Refs
  <2>2. PICK k \in FirstOf(Defs(sym, C, t[i].name)) : t[i].value = val[k]
    BY <2>1 DEF TableOf
  <2>3. k \in FirstOf(Defs(sym, C \cup {d}, t[i].name))
    BY DEF FirstOf, Defs
  <2>4. QED
    BY <2>1, <2>2, <2>3
<1>2. QED
  BY <1>1 DEF TableOf

(* What Append(t, e) is, index by index. *)
Added(t, e) == /\ Len(Append(t, e)) = Len(t) + 1
               /\ Append(t, e)[Len(t) + 1] = e
               /\ \A i \in 1 .. Len(t) : Append(t, e)[i] = t[i]
               /\ 1 .. Len(t) + 1 = 1 .. Len(t) \cup {Len(t) + 1}
               /\ Len(t) \in Nat

(* Append does add one entry. *)
LEMMA AppendAdds ==
  ASSUME NEW S, NEW t \in Seq(S), NEW e \in S
  PROVE  Added(t, e) /\ Append(t, e) \in Seq(S)
BY AppendProperties DEF Added

(* The first pass over the first definition of a name adds its entry. *)
LEMMA CollectNew ==
  ASSUME NEW t, NEW N, NEW V, NEW sym, NEW val, NEW C, NEW d,
         TableOf(t, N, V, sym, val, C, {}),
         IsDefinition(sym[d]), sym[d].name \in N, val[d] \in V,
         \A i \in 1 .. Len(t) : t[i].name # sym[d].name,
         NoLater(d, d)
  PROVE  TableOf(Append(t, [name |-> sym[d].name, value |-> val[d], defined |-> TRUE]),
                 N, V, sym, val, C \cup {d}, {})
<1> DEFINE e == [name |-> sym[d].name, value |-> val[d], defined |-> TRUE]
           u == Append(t, e)
<1>0. t \in Seq(Entry(N, V))
  BY DEF TableOf
<1>1. Added(t, e) /\ u \in Seq(Entry(N, V))
  <2>1. e \in Entry(N, V)
    BY DEF Entry
  <2>2. QED
    BY <1>0, <2>1, AppendAdds
<1>2. Defs(sym, C, sym[d].name) = {}
  BY DEF TableOf, Defs
<1>2a. d \in FirstOf(Defs(sym, C \cup {d}, sym[d].name))
  BY <1>2 DEF FirstOf, Defs
<1>e. e.name = sym[d].name /\ e.value = val[d] /\ e.defined = TRUE
  OBVIOUS
<1> HIDE DEF e
<1>3. ASSUME NEW i \in 1 .. Len(u)
      PROVE  /\ u[i].defined
             /\ \E k \in FirstOf(Defs(sym, C \cup {d}, u[i].name)) : u[i].value = val[k]
  <2>1. CASE i = Len(t) + 1
    BY <2>1, <1>1, <1>e, <1>2a DEF Added
  <2>2. CASE i \in 1 .. Len(t)
    <3>1. u[i] = t[i] /\ t[i].defined /\ t[i].name # sym[d].name
      BY <2>2, <1>1 DEF Added, TableOf, Refs
    <3>2. Defs(sym, C \cup {d}, t[i].name) = Defs(sym, C, t[i].name)
      BY <3>1 DEF Defs
    <3>3. QED
      BY <2>2, <3>1, <3>2 DEF TableOf
  <2>3. QED
    BY <2>1, <2>2, <1>1 DEF Added
<1>4. \A i, j \in 1 .. Len(u) : u[i].name = u[j].name => i = j
  BY <1>1, <1>e DEF Added, TableOf
<1>5. ASSUME NEW k \in C \cup {d}, IsDefinition(sym[k])
      PROVE \E i \in 1 .. Len(u) : u[i].name = sym[k].name /\ u[i].defined
  <2>1. CASE k = d
    BY <2>1, <1>1, <1>e DEF Added
  <2>2. CASE k \in C
    <3>1. PICK i \in 1 .. Len(t) : t[i].name = sym[k].name /\ t[i].defined
      BY <2>2, <1>5 DEF TableOf
    <3>2. i \in 1 .. Len(u) /\ u[i] = t[i]
      BY <1>1 DEF Added
    <3>3. QED
      BY <3>1, <3>2
  <2>3. QED
    BY <2>1, <2>2
<1>6. QED
  BY <1>1, <1>3, <1>4, <1>5 DEF TableOf, e

(* The second pass over a name the table has leaves the table alone. *)
LEMMA RegisterKnown ==
  ASSUME NEW t, NEW N, NEW V, NEW sym, NEW val, NEW C, NEW R, NEW d,
         TableOf(t, N, V, sym, val, C, R),
         IsReference(sym[d]) => \E i \in 1 .. Len(t) : t[i].name = sym[d].name
  PROVE  TableOf(t, N, V, sym, val, C, R \cup {d})
<1>1. \A name : Refs(sym, R, name) \subseteq Refs(sym, R \cup {d}, name)
  BY DEF Refs
<1>2. ASSUME NEW i \in 1 .. Len(t)
      PROVE  IF t[i].defined
             THEN \E k \in FirstOf(Defs(sym, C, t[i].name)) : t[i].value = val[k]
             ELSE t[i].value = 0 /\ Refs(sym, R \cup {d}, t[i].name) # {}
  <2>1. IF t[i].defined
        THEN \E k \in FirstOf(Defs(sym, C, t[i].name)) : t[i].value = val[k]
        ELSE t[i].value = 0 /\ Refs(sym, R, t[i].name) # {}
    BY DEF TableOf
  <2>2. QED
    BY <1>1, <2>1
<1>3. \A k \in R \cup {d} : IsReference(sym[k]) =>
        \E i \in 1 .. Len(t) : t[i].name = sym[k].name
  BY DEF TableOf
<1>4. QED
  BY <1>2, <1>3 DEF TableOf

(* The second pass over a new name adds an undefined entry of value 0. *)
LEMMA RegisterNew ==
  ASSUME NEW t, NEW N, NEW V, NEW sym, NEW val, NEW C, NEW R, NEW d,
         TableOf(t, N, V, sym, val, C, R),
         IsReference(sym[d]), sym[d].name \in N, 0 \in V,
         \A i \in 1 .. Len(t) : t[i].name # sym[d].name
  PROVE  TableOf(Append(t, FreshEntry(sym[d].name)), N, V, sym, val, C, R \cup {d})
<1> DEFINE e == FreshEntry(sym[d].name)
           u == Append(t, e)
<1>0. t \in Seq(Entry(N, V))
  BY DEF TableOf
<1>1. Added(t, e) /\ u \in Seq(Entry(N, V))
  <2>1. e \in Entry(N, V)
    BY DEF Entry, FreshEntry
  <2>2. QED
    BY <1>0, <2>1, AppendAdds
<1>e. e.name = sym[d].name /\ e.value = 0 /\ e.defined = FALSE
  BY DEF FreshEntry
<1>2. \A name : Refs(sym, R, name) \subseteq Refs(sym, R \cup {d}, name)
  BY DEF Refs
<1>2a. Refs(sym, R \cup {d}, sym[d].name) # {}
  BY DEF Refs
<1> HIDE DEF e
<1>3. ASSUME NEW i \in 1 .. Len(u)
      PROVE  IF u[i].defined
             THEN \E k \in FirstOf(Defs(sym, C, u[i].name)) : u[i].value = val[k]
             ELSE u[i].value = 0 /\ Refs(sym, R \cup {d}, u[i].name) # {}
  <2>0. i = Len(t) + 1 \/ i \in 1 .. Len(t)
    BY <1>1 DEF Added
  <2>1. CASE i = Len(t) + 1
    BY <2>1, <1>1, <1>e, <1>2a DEF Added
  <2>2. CASE i \in 1 .. Len(t)
    <3>1. u[i] = t[i]
      BY <2>2, <1>1 DEF Added
    <3>2. IF t[i].defined
          THEN \E k \in FirstOf(Defs(sym, C, t[i].name)) : t[i].value = val[k]
          ELSE t[i].value = 0 /\ Refs(sym, R, t[i].name) # {}
      BY <2>2 DEF TableOf
    <3>3. QED
      BY <1>2, <3>1, <3>2
  <2>3. QED
    BY <2>0, <2>1, <2>2
<1>4. \A i, j \in 1 .. Len(u) : u[i].name = u[j].name => i = j
  BY <1>1, <1>e DEF Added, TableOf
<1>5. \A i \in 1 .. Len(t) : i \in 1 .. Len(u) /\ u[i] = t[i]
  BY <1>1 DEF Added
<1>6. ASSUME NEW k \in C, IsDefinition(sym[k])
      PROVE \E i \in 1 .. Len(u) : u[i].name = sym[k].name /\ u[i].defined
  <2>1. PICK i \in 1 .. Len(t) : t[i].name = sym[k].name /\ t[i].defined
    BY <1>6 DEF TableOf
  <2>2. QED
    BY <2>1, <1>5
<1>7. ASSUME NEW k \in R \cup {d}, IsReference(sym[k])
      PROVE \E i \in 1 .. Len(u) : u[i].name = sym[k].name
  <2>1. CASE k = d
    BY <2>1, <1>1, <1>e DEF Added
  <2>2. CASE k \in R
    <3>1. PICK i \in 1 .. Len(t) : t[i].name = sym[k].name
      BY <2>2, <1>7 DEF TableOf
    <3>2. QED
      BY <3>1, <1>5
  <2>3. QED
    BY <2>1, <2>2
<1>8. QED
  BY <1>1, <1>3, <1>4, <1>6, <1>7 DEF TableOf, e

---------------------------------------------------------------------------
(* Sizes added up. *)

(* A set of numbers without a least one is empty. *)
LEMMA NoLeast ==
  ASSUME NEW S, S \subseteq Nat, \A n \in S : \E m \in S : m < n
  PROVE  S = {}
<1> SUFFICES ASSUME S # {} PROVE FALSE
  OBVIOUS
<1> DEFINE R == {ss \in Nat \X Nat : ss[1] < ss[2]}
<1>1. IsWellFoundedOn(R, Nat)
  BY NatLessThanWellFounded DEF OpToRel
<1>2. \A x, y \in Nat : <<y, x>> \in R <=> y < x
  OBVIOUS
<1> HIDE DEF R
<1>3. PICK x \in S : \A y \in S : ~ (<<y, x>> \in R)
  BY <1>1, WFMin, Zenon
<1>4. PICK y \in S : y < x
  BY <1>3
<1>5. x \in Nat /\ y \in Nat
  OBVIOUS
<1>6. <<y, x>> \in R
  BY <1>2, <1>4, <1>5, Zenon
<1> QED
  BY <1>3, <1>6, Zenon

(* A function of the numbers to n that is defined from its predecessor. *)
Sums(e, n, a) == /\ e = [m \in 0 .. n |-> e[m]]
                 /\ \A m \in 0 .. n : e[m] = IF m = 0 THEN 0 ELSE e[m - 1] + a[m]

(* There is only one such function. *)
LEMMA OneSum ==
  ASSUME NEW n \in Nat, NEW a, NEW e, Sums(e, n, a), NEW g, Sums(g, n, a)
  PROVE  e = g
<1> USE DEF Sums
<1> DEFINE S == {m \in 0 .. n : e[m] # g[m]}
<1>1. \A m \in S : m # 0 /\ m - 1 \in S /\ m - 1 < m
  <2> TAKE m \in S
  <2>1. e[m] = (IF m = 0 THEN 0 ELSE e[m - 1] + a[m]) /\ g[m] = (IF m = 0 THEN 0 ELSE g[m - 1] + a[m])
    OBVIOUS
  <2>2. m # 0
    BY <2>1
  <2>3. QED
    BY <2>1, <2>2
<1>2. S = {}
  <2>1. S \subseteq Nat
    OBVIOUS
  <2> HIDE DEF S
  <2>2. \A m \in S : \E l \in S : l < m
    BY <1>1
  <2>3. QED
    BY <2>1, <2>2, NoLeast
<1>3. \A m \in 0 .. n : e[m] = g[m]
  BY <1>2
<1> HIDE DEF S
<1>4. QED
  BY <1>3

(* Extent of AbstractLink is any function that adds up the padded sizes. *)
LEMMA ExtentIs ==
  ASSUME NEW s, Len(inputs) \in Nat,
         NEW g, g = [m \in 0 .. Len(inputs) |->
                       IF m = 0 THEN 0
                       ELSE g[m - 1] + Promise!Padded(inputs[m].size[s], s)]
  PROVE  Promise!Extent(s) = g
<1> DEFINE a == [m \in 1 .. Len(inputs) |-> Promise!Padded(inputs[m].size[s], s)]
           P(e) == e = [m \in 0 .. Len(inputs) |->
                       IF m = 0 THEN 0
                       ELSE e[m - 1] + Promise!Padded(inputs[m].size[s], s)]
<1>1. Promise!Extent(s) = CHOOSE e : P(e)
  BY DEF Promise!Extent
<1> DEFINE x == CHOOSE e : P(e)
<1>2. P(g)
  OBVIOUS
<1>3. P(x)
  BY <1>2
<1> HIDE DEF x
<1>4. ASSUME NEW e, P(e) PROVE Sums(e, Len(inputs), a)
  <2>1. e = [m \in 0 .. Len(inputs) |-> e[m]]
    BY <1>4
  <2>2. ASSUME NEW m \in 0 .. Len(inputs)
        PROVE  e[m] = IF m = 0 THEN 0 ELSE e[m - 1] + a[m]
    <3>1. e[m] = IF m = 0 THEN 0
                 ELSE e[m - 1] + Promise!Padded(inputs[m].size[s], s)
      BY <1>4
    <3>2. m # 0 => a[m] = Promise!Padded(inputs[m].size[s], s)
      OBVIOUS
    <3>3. QED
      BY <3>1, <3>2
  <2> HIDE DEF a
  <2>3. QED
    BY <2>1, <2>2 DEF Sums
<1> HIDE DEF a, P
<1>6. x = g
  BY <1>2, <1>3, <1>4, OneSum
<1>7. QED
  BY <1>1, <1>6 DEF x

---------------------------------------------------------------------------
(* What each phase leaves behind. *)

Resolving == {"collecting", "registering", "checking", "relocating", "writing",
              "done"}
StageInv ==
  /\ Len(inputs) <= MaxInputs
  /\ phase \notin {"reading", "failed"} => inputs # <<>>
  /\ phase \in Resolving => copyOff = mergeOff /\ total = EndOf(mergeOff)
  /\ output # "none" => phase \in {"done", "failed", "lost"}
  /\ phase = "done" => output = "complete"

(* It holds at first, *)
LEMMA StageInit == Init => StageInv
BY BoundsAssumption DEF Init, StageInv, Resolving

(* and every step keeps it. *)
LEMMA StageNext ==
  ASSUME LayoutInv, StageInv, [Next]_vars
  PROVE  StageInv'
<1> USE DEF StageInv, Resolving
<1>0. TypeOK /\ Progress /\ CopyAgrees
  BY DEF LayoutInv
<1>e. mergeOff' = mergeOff /\ inputs' = inputs => EndOf(mergeOff)' = EndOf(mergeOff)
  BY DEF EndOf, Follow
<1>1. CASE Failing
  BY <1>1, FailingFrame, <1>e
<1>2. CASE Working
  <2>1. CASE SkipSymbol \/ CollectDefinition \/ RegisterReference
    BY <2>1, <1>e DEF SkipSymbol, CollectDefinition, RegisterReference, AtSymbol,
                NextSymbol, layoutVars
  <2>2. CASE SetEntry
    BY <2>2, <1>e DEF SetEntry, layoutVars
  <2>3. CASE NextFile
    BY <2>3, <1>e DEF NextFile, layoutVars
  <2>4. CASE ShortWrite
    BY <2>4, <1>e DEF ShortWrite, layoutVars
  <2>5. CASE WriteOutput
    BY <2>5, <1>e DEF WriteOutput, layoutVars
  <2>6. CASE StrayRela
    BY <2>6, <1>e DEF StrayRela, AtRela, layoutVars
  <2>7. QED
    BY <1>2, <2>1, <2>2, <2>3, <2>4, <2>5, <2>6 DEF Working
<1>3. CASE ReadInput
  <2>1. Len(inputs') = Len(inputs) + 1 /\ Len(inputs) < MaxInputs
    BY <1>3, <1>0 DEF ReadInput, TypeOK
  <2>2. QED
    BY <1>3, <1>0, <2>1, BoundsAssumption DEF ReadInput, TypeOK
<1>4. CASE EndOfArguments
  BY <1>4 DEF EndOfArguments
<1>5. CASE MergeFile
  BY <1>5 DEF MergeFile
<1>6. CASE SetAddresses
  BY <1>6 DEF SetAddresses
<1>7. CASE CopyFile
  BY <1>7 DEF CopyFile
<1>8. CASE ApplyRela
  BY <1>8, <1>e DEF ApplyRela, AtRela, layoutVars
<1>9. CASE NextLoop
  <2>0. /\ inputs' = inputs /\ mergeOff' = mergeOff /\ copyOff' = copyOff
        /\ total' = total /\ output' = output
    BY <1>9 DEF NextLoop, layoutVars
  <2>1. CASE phase = "copying"
    <3>1. /\ Len(mergeOff) = Len(inputs) /\ Len(copyOff) <= Len(mergeOff)
          /\ Len(copyOff) + 1 > Len(inputs) /\ total = EndOf(copyOff)
      BY <2>1, <1>0, <1>9 DEF NextLoop, Progress
    <3>2. /\ Len(mergeOff) \in Nat /\ Len(copyOff) \in Nat
          /\ mergeOff \in Seq([Section -> Nat]) /\ copyOff \in Seq([Section -> Nat])
      BY <1>0 DEF TypeOK
    <3>3. Len(copyOff) = Len(mergeOff)
      BY <3>1, <3>2
    <3>4. copyOff = mergeOff
      <4>1. \A f \in 1 .. Len(copyOff) : copyOff[f] = mergeOff[f]
        BY <1>0, <3>2 DEF CopyAgrees
      <4>2. QED
        BY <3>2, <3>3, <4>1, SeqEqual
    <3>5. QED
      BY <2>0, <2>1, <3>1, <3>4, <1>9, <1>e DEF NextLoop
  <2>2. CASE phase # "copying"
    BY <2>0, <2>2, <1>9, <1>e DEF NextLoop
  <2>3. QED
    BY <2>1, <2>2
<1>10. CASE UNCHANGED vars
  BY <1>10, <1>e DEF vars
<1>11. QED
  BY <1>1, <1>2, <1>3, <1>4, <1>5, <1>6, <1>7, <1>8, <1>9, <1>10, StepCases

---------------------------------------------------------------------------
(* Running totals and padded sizes added up are the same. *)

(* Aligning a sum whose first term is aligned is padding its second. *)
LEMMA Pad16 ==
  ASSUME NEW v \in Nat, NEW w \in Nat, v % 16 = 0
  PROVE  /\ ((v + w + 16 - 1) \div 16) * 16
              = v + (IF w % 16 = 0 THEN w ELSE w + (16 - (w % 16)))
         /\ (((v + w + 16 - 1) \div 16) * 16) % 16 = 0
OBVIOUS

(* The same for 32. *)
LEMMA Pad32 ==
  ASSUME NEW v \in Nat, NEW w \in Nat, v % 32 = 0
  PROVE  /\ ((v + w + 32 - 1) \div 32) * 32
              = v + (IF w % 32 = 0 THEN w ELSE w + (32 - (w % 32)))
         /\ (((v + w + 32 - 1) \div 32) * 32) % 32 = 0
OBVIOUS

(* A total is a multiple of each section's alignment. *)
IsPadded(t) == \A s \in Section : t[s] % Promise!Padding(s) = 0

(* Grow adds padded sizes to such a total and gives such a total. *)
LEMMA GrowPads ==
  ASSUME NEW t \in [Section -> Nat], NEW z \in [Section -> Nat], IsPadded(t)
  PROVE  /\ \A s \in Section : Grow(t, z)[s] = t[s] + Promise!Padded(z[s], s)
         /\ IsPadded(Grow(t, z))
<1> SUFFICES ASSUME NEW s \in Section
             PROVE  /\ Grow(t, z)[s] = t[s] + Promise!Padded(z[s], s)
                    /\ Grow(t, z)[s] % Promise!Padding(s) = 0
  BY DEF IsPadded
<1>0. t[s] \in Nat /\ z[s] \in Nat /\ t[s] % Promise!Padding(s) = 0
  BY DEF IsPadded
<1>1. CASE s = "text"
  <2>1. t[s] % 16 = 0
    BY <1>0, <1>1 DEF Promise!Padding
  <2>2. Grow(t, z)[s] = ((t[s] + z[s] + 16 - 1) \div 16) * 16
    BY <1>0, <1>1 DEF Grow, AlignUp
  <2>3. Promise!Padded(z[s], s) = IF z[s] % 16 = 0 THEN z[s] ELSE z[s] + (16 - (z[s] % 16))
    BY <1>1 DEF Promise!Padded, Promise!Padding
  <2>4. /\ ((t[s] + z[s] + 16 - 1) \div 16) * 16
             = t[s] + (IF z[s] % 16 = 0 THEN z[s] ELSE z[s] + (16 - (z[s] % 16)))
        /\ (((t[s] + z[s] + 16 - 1) \div 16) * 16) % 16 = 0
    BY <1>0, <2>1, Pad16
  <2>5. Promise!Padding(s) = 16
    BY <1>1 DEF Promise!Padding
  <2>6. QED
    BY <2>2, <2>3, <2>4, <2>5
<1>2. CASE s # "text"
  <2>1. t[s] % 32 = 0
    BY <1>0, <1>2 DEF Promise!Padding
  <2>2. Grow(t, z)[s] = ((t[s] + z[s] + 32 - 1) \div 32) * 32
    BY <1>0, <1>2 DEF Grow, AlignUp
  <2>3. Promise!Padded(z[s], s) = IF z[s] % 32 = 0 THEN z[s] ELSE z[s] + (32 - (z[s] % 32))
    BY <1>2 DEF Promise!Padded, Promise!Padding
  <2>4. /\ ((t[s] + z[s] + 32 - 1) \div 32) * 32
             = t[s] + (IF z[s] % 32 = 0 THEN z[s] ELSE z[s] + (32 - (z[s] % 32)))
        /\ (((t[s] + z[s] + 32 - 1) \div 32) * 32) % 32 = 0
    BY <1>0, <2>1, Pad32
  <2>5. Promise!Padding(s) = 32
    BY <1>2 DEF Promise!Padding
  <2>6. QED
    BY <2>2, <2>3, <2>4, <2>5
<1>3. QED
  BY <1>1, <1>2

(* Every offset merge_sections hands out is such a total. *)
LEMMA Padded ==
  ASSUME LayoutInv
  PROVE  \A f \in DOMAIN mergeOff : IsPadded(mergeOff[f])
<1>0. TypeOK /\ Chain /\ Progress
  BY DEF LayoutInv
<1>z. IsPadded(Zero)
  BY DEF IsPadded, Zero, Promise!Padding
<1> DEFINE S == {f \in 1 .. Len(mergeOff) : ~IsPadded(mergeOff[f])}
<1>1. ASSUME NEW f \in S PROVE f - 1 \in S /\ f - 1 < f
  <2>1. f \in DOMAIN mergeOff /\ f \in Nat /\ f # 0
    BY <1>0 DEF TypeOK
  <2>2. mergeOff[f] = IF f = 1 THEN Zero ELSE Follow(mergeOff, f - 1)
    BY <1>0, <2>1 DEF Chain
  <2>3. f # 1
    BY <2>2, <1>z
  <2>4. /\ f - 1 \in DOMAIN mergeOff /\ f - 1 \in DOMAIN inputs
        /\ f - 1 \in 1 .. Len(mergeOff)
    BY <2>1, <2>3, <1>0 DEF TypeOK, Progress
  <2>5. mergeOff[f - 1] \in [Section -> Nat] /\ inputs[f - 1].size \in [Section -> Nat]
    BY <2>4, <1>0, InputSizes DEF TypeOK
  <2>6. ~IsPadded(mergeOff[f - 1])
    BY <2>2, <2>3, <2>5, GrowPads DEF Follow
  <2>7. QED
    BY <2>1, <2>4, <2>6
<1>2. S \subseteq Nat
  OBVIOUS
<1> HIDE DEF S
<1>3. S = {}
  BY <1>1, <1>2, NoLeast
<1>4. \A f \in 1 .. Len(mergeOff) : IsPadded(mergeOff[f])
  BY <1>3 DEF S
<1>5. DOMAIN mergeOff = 1 .. Len(mergeOff)
  BY <1>0 DEF TypeOK
<1>6. QED
  BY <1>4, <1>5

(* The layout of AbstractLink is the one of merge_sections. *)
Agreed == /\ Promise!Size = total
          /\ Promise!Start = addr
          /\ \A f \in DOMAIN inputs : Promise!Offset(f) = mergeOff[f]

(* It is, from the end of the copying loop on. *)
LEMMA LayoutAgrees ==
  ASSUME LayoutInv, StageInv, phase \in Resolving
  PROVE  Agreed
<1>0. /\ TypeOK /\ Chain /\ Progress /\ Addressed
      /\ inputs # <<>> /\ total = EndOf(mergeOff)
  BY DEF LayoutInv, StageInv, Resolving
<1> DEFINE N == Len(inputs)
<1>1. /\ N \in Nat /\ N # 0 /\ Len(mergeOff) = N /\ DOMAIN mergeOff = 1 .. N
      /\ DOMAIN inputs = 1 .. N /\ mergeOff # <<>>
      /\ addr = AddrOfSections(EndOf(mergeOff))
  BY <1>0 DEF TypeOK, Progress, Resolving, Addressed
<1>2. ASSUME NEW n \in 1 .. N, NEW s \in Section
      PROVE  (IF n < N THEN mergeOff[n + 1][s] ELSE EndOf(mergeOff)[s])
               = mergeOff[n][s] + Promise!Padded(inputs[n].size[s], s)
  <2>0. n \in DOMAIN mergeOff /\ n \in DOMAIN inputs /\ n \in Nat
    BY <1>1
  <2>1. mergeOff[n] \in [Section -> Nat] /\ inputs[n].size \in [Section -> Nat]
    BY <1>0, <2>0, InputSizes DEF TypeOK
  <2>2. IsPadded(mergeOff[n])
    BY <1>1, Padded
  <2>3. Follow(mergeOff, n)[s] = mergeOff[n][s] + Promise!Padded(inputs[n].size[s], s)
    BY <2>1, <2>2, GrowPads DEF Follow
  <2>4. n < N => mergeOff[n + 1] = Follow(mergeOff, n)
    <3>1. n < N => n + 1 \in DOMAIN mergeOff /\ n + 1 # 1 /\ n + 1 - 1 = n
      BY <1>1
    <3>2. QED
      BY <3>1, <1>0 DEF Chain
  <2>5. n = N => EndOf(mergeOff) = Follow(mergeOff, n)
    BY <1>1 DEF EndOf
  <2>6. n < N \/ n = N
    <3>1. N \in Nat
      BY <1>1
    <3> HIDE DEF N
    <3>2. QED
      BY <3>1
  <2>7. QED
    BY <2>3, <2>4, <2>5, <2>6, <1>1
<1>3. ASSUME NEW s \in Section
      PROVE  Promise!Extent(s) = [n \in 0 .. N |-> IF n < N THEN mergeOff[n + 1][s]
                                                  ELSE EndOf(mergeOff)[s]]
  <2> DEFINE g == [n \in 0 .. N |-> IF n < N THEN mergeOff[n + 1][s]
                                    ELSE EndOf(mergeOff)[s]]
  <2>1. g[0] = 0
    <3>1. mergeOff[1] = Zero
      BY <1>0, <1>1 DEF Chain
    <3>2. QED
      BY <3>1, <1>1 DEF Zero
  <2>2. ASSUME NEW n \in 1 .. N
        PROVE  g[n] = g[n - 1] + Promise!Padded(inputs[n].size[s], s)
    <3>1. n - 1 < N /\ n - 1 \in 0 .. N /\ n \in 0 .. N /\ n - 1 + 1 = n
      BY <1>1
    <3>2. g[n - 1] = mergeOff[n][s]
      BY <3>1
    <3>3. QED
      BY <1>2, <3>1, <3>2
  <2>3. g = [n \in 0 .. N |-> g[n]]
    OBVIOUS
  <2> HIDE DEF g
  <2>4. ASSUME NEW n \in 0 .. N
        PROVE g[n] = IF n = 0 THEN 0 ELSE g[n - 1] + Promise!Padded(inputs[n].size[s], s)
    BY <2>1, <2>2, <1>1
  <2>5. g = [n \in 0 .. N |-> IF n = 0 THEN 0
                              ELSE g[n - 1] + Promise!Padded(inputs[n].size[s], s)]
    BY <2>3, <2>4
  <2>6. Promise!Extent(s) = g
    BY <2>5, <1>1, ExtentIs
  <2>7. QED
    BY <2>6 DEF g
<1>4. EndOf(mergeOff) \in [Section -> Nat]
  BY <1>0, <1>1, EndOfType
<1>5. Promise!Size = total
  <2>1. \A s \in Section : Promise!Extent(s)[N] = EndOf(mergeOff)[s]
    BY <1>1, <1>3
  <2>2. Promise!Size = [s \in Section |-> EndOf(mergeOff)[s]]
    BY <2>1 DEF Promise!Size, Promise!Section, Section
  <2>3. QED
    BY <2>2, <1>0, <1>4
<1>6. Promise!Start = addr
  <2>1. \A s \in Section : BaseAddr + (IF s = "text" THEN 0 ELSE total["text"])
                           + (IF s = "bss" THEN total["data"] ELSE 0) = addr[s]
    <3>1. total["text"] \in Nat /\ total["data"] \in Nat /\ BaseAddr \in Nat
      BY <1>0, <1>4, BoundsAssumption DEF Section
    <3>2. QED
      BY <1>0, <1>1, <3>1 DEF AddrOfSections, Section
  <2>2. addr = [s \in Section |-> addr[s]]
    BY <1>0 DEF TypeOK
  <2>3. QED
    BY <2>1, <2>2, <1>5 DEF Promise!Start, Promise!Section, Section
<1>7. ASSUME NEW f \in DOMAIN inputs PROVE Promise!Offset(f) = mergeOff[f]
  <2>1. f \in 1 .. N /\ f - 1 \in 0 .. N /\ f - 1 < N /\ f - 1 + 1 = f
    BY <1>1
  <2>2. \A s \in Section : Promise!Extent(s)[f - 1] = mergeOff[f][s]
    BY <1>3, <2>1
  <2>3. mergeOff[f] \in [Section -> Nat]
    BY <1>0, <1>1, <2>1 DEF TypeOK
  <2>4. QED
    BY <2>2, <2>3 DEF Promise!Offset, Promise!Section, Section
<1>8. QED
  BY <1>5, <1>6, <1>7 DEF Agreed

---------------------------------------------------------------------------
(* The symbols of the files in the order in which resolve_symbols comes to *)
(* them.                                                                   *)

SymOf == [k \in Promise!Symbols |-> Promise!Sym(k)]
ValOf == [k \in Promise!Symbols |-> FinalAddr(k[1], Promise!Sym(k))]
Before(k, f, i) == k[1] < f \/ (k[1] = f /\ k[2] < i)
Until(K, f, i)  == {k \in K : Before(k, f, i)}
Passed(f, i)    == Until(Promise!Symbols, f, i)

(* K has the pairs of a file's number, up to n, and of a number up to the  *)
(* file's length.                                                          *)
Pairs(K, n, len) ==
  /\ n \in Nat
  /\ \A f \in 1 .. n : len[f] \in Nat
  /\ \A k \in K : k = <<k[1], k[2]>> /\ k[1] \in 1 .. n /\ k[2] \in 1 .. len[k[1]]
  /\ \A f \in 1 .. n : \A i \in 1 .. len[f] : <<f, i>> \in K

(* The numbers of a pair are within their bounds. *)
LEMMA PairTypes ==
  ASSUME NEW K, NEW n, NEW len, Pairs(K, n, len), NEW k \in K
  PROVE  /\ k = <<k[1], k[2]>> /\ len[k[1]] \in Nat
         /\ k[1] \in Nat /\ k[1] >= 1 /\ k[1] <= n
         /\ k[2] \in Nat /\ k[2] >= 1 /\ k[2] <= len[k[1]]
<1>1. /\ k = <<k[1], k[2]>> /\ k[1] \in 1 .. n /\ n \in Nat
      /\ k[2] \in 1 .. len[k[1]] /\ len[k[1]] \in Nat
  BY DEF Pairs
<1>2. QED
  BY <1>1

(* Nothing comes before the first item of the first file. *)
LEMMA UntilStart ==
  ASSUME NEW K, NEW n, NEW len, Pairs(K, n, len)
  PROVE  Until(K, 1, 1) = {}
BY PairTypes DEF Until, Before

(* Everything comes before a file past the last. *)
LEMMA UntilEnd ==
  ASSUME NEW K, NEW n, NEW len, Pairs(K, n, len), NEW f \in Nat, f > n, NEW i
  PROVE  Until(K, f, i) = K
<1>1. \A k \in K : k[1] < f
  <2> TAKE k \in K
  <2>1. k[1] \in Nat /\ k[1] <= n /\ n \in Nat
    BY PairTypes DEF Pairs
  <2>2. QED
    BY <2>1
<1>2. QED
  BY <1>1 DEF Until, Before

(* Going to the next file after the last item of one passes nothing more. *)
LEMMA UntilNextFile ==
  ASSUME NEW K, NEW n, NEW len, Pairs(K, n, len), NEW f \in 1 .. n,
         NEW i \in Nat, i > len[f]
  PROVE  Until(K, f + 1, 1) = Until(K, f, i)
<1>1. ASSUME NEW k \in K PROVE Before(k, f + 1, 1) <=> Before(k, f, i)
  <2>1. /\ k[1] \in Nat /\ k[2] \in Nat /\ k[2] >= 1 /\ k[2] <= len[k[1]]
        /\ f \in Nat /\ len[f] \in Nat
    BY PairTypes DEF Pairs
  <2>2. k[1] < f + 1 <=> k[1] < f \/ k[1] = f
    BY <2>1
  <2>3. k[1] = f => k[2] < i
    BY <2>1
  <2>4. ~ (k[2] < 1)
    BY <2>1
  <2>5. QED
    BY <2>2, <2>3, <2>4 DEF Before
<1>2. QED
  BY <1>1 DEF Until

(* Going to the next item passes one item, the last so far. *)
LEMMA UntilNext ==
  ASSUME NEW K, NEW n, NEW len, Pairs(K, n, len), NEW f \in 1 .. n,
         NEW i \in 1 .. len[f]
  PROVE  /\ Until(K, f, i + 1) = Until(K, f, i) \cup {<<f, i>>}
         /\ \A k \in Until(K, f, i) : NoLater(k, <<f, i>>)
         /\ <<f, i>> \in K
<1>1. f \in Nat /\ i \in Nat /\ <<f, i>> \in K
  BY DEF Pairs
<1>2. ASSUME NEW k \in K
      PROVE  /\ Before(k, f, i + 1) <=> Before(k, f, i) \/ k = <<f, i>>
             /\ Before(k, f, i) => NoLater(k, <<f, i>>)
  <2>1. k[1] \in Nat /\ k[2] \in Nat /\ k = <<k[1], k[2]>>
    BY PairTypes
  <2>2. k[2] < i + 1 <=> k[2] < i \/ k[2] = i
    BY <2>1, <1>1
  <2>3. k = <<f, i>> <=> k[1] = f /\ k[2] = i
    BY <2>1
  <2>4. k[2] < i => k[2] <= i
    BY <2>1, <1>1
  <2>5. QED
    BY <2>2, <2>3, <2>4 DEF Before, NoLater
<1>3. QED
  BY <1>1, <1>2 DEF Until

(* The symbols of AbstractLink are the pairs of a file and a symbol of it. *)
LEMMA SymbolsAre ==
  /\ \A k \in Promise!Symbols : /\ k = <<k[1], k[2]>>
                                /\ k[1] \in DOMAIN inputs
                                /\ k[2] \in DOMAIN inputs[k[1]].syms
  /\ \A f \in DOMAIN inputs : \A i \in DOMAIN inputs[f].syms :
       <<f, i>> \in Promise!Symbols
<1>1. ASSUME NEW k \in Promise!Symbols
      PROVE  /\ k = <<k[1], k[2]>>
             /\ k[1] \in DOMAIN inputs
             /\ k[2] \in DOMAIN inputs[k[1]].syms
  <2>1. PICK f \in DOMAIN inputs : k \in {f} \X DOMAIN inputs[f].syms
    BY DEF Promise!Symbols
  <2>2. QED
    BY <2>1
<1>2. ASSUME NEW f \in DOMAIN inputs, NEW i \in DOMAIN inputs[f].syms
      PROVE  <<f, i>> \in Promise!Symbols
  <2>1. <<f, i>> \in {f} \X DOMAIN inputs[f].syms
    OBVIOUS
  <2>2. QED
    BY <2>1 DEF Promise!Symbols
<1>3. QED
  BY <1>1, <1>2

(* A file read is an object with its lists. *)
LEMMA FileTypes ==
  ASSUME TypeOK, NEW f \in DOMAIN inputs
  PROVE  /\ f \in Nat /\ f >= 1 /\ f <= Len(inputs) /\ Len(inputs) \in Nat
         /\ IsObject(inputs[f])
         /\ Len(inputs[f].syms) \in Nat
         /\ DOMAIN inputs[f].syms = 1 .. Len(inputs[f].syms)
         /\ Len(inputs[f].relas) \in Nat
         /\ DOMAIN inputs[f].relas = 1 .. Len(inputs[f].relas)
<1>1. IsObject(inputs[f])
  BY ObjectsAssumption DEF TypeOK
<1>2. QED
  BY <1>1 DEF IsObject, TypeOK

(* How many symbols each file has. *)
SymCounts == [f \in DOMAIN inputs |-> Len(inputs[f].syms)]

(* The symbols are the pairs below these counts. *)
LEMMA SymbolPairs == ASSUME TypeOK PROVE Pairs(Promise!Symbols, Len(inputs), SymCounts)
<1>1. Len(inputs) \in Nat /\ DOMAIN inputs = 1 .. Len(inputs)
  BY DEF TypeOK
<1>2. \A f \in DOMAIN inputs : /\ SymCounts[f] = Len(inputs[f].syms)
                               /\ SymCounts[f] \in Nat
                               /\ DOMAIN inputs[f].syms = 1 .. SymCounts[f]
  BY FileTypes DEF SymCounts
<1>3. QED
  BY <1>1, <1>2, SymbolsAre DEF Pairs

(* What the number of a symbol is. *)
LEMMA KeyTypes ==
  ASSUME TypeOK, NEW k \in Promise!Symbols
  PROVE  /\ k = <<k[1], k[2]>> /\ k[1] \in DOMAIN inputs
         /\ k[1] \in Nat /\ k[2] \in Nat
BY SymbolPairs, PairTypes, SymbolsAre

(* What is said of symbols depends on the files and the layout alone. *)
LEMMA Steady ==
  ASSUME UNCHANGED <<inputs, addr, mergeOff>>
  PROVE  /\ SymOf' = SymOf /\ ValOf' = ValOf
         /\ Promise!Names' = Promise!Names /\ Promise!Symbols' = Promise!Symbols
         /\ \A f, i : Passed(f, i)' = Passed(f, i)
<1>1. Promise!Symbols' = Promise!Symbols /\ \A k : Promise!Sym(k)' = Promise!Sym(k)
  BY DEF Promise!Symbols, Promise!Sym
<1>2. \A f, y : FinalAddr(f, y)' = FinalAddr(f, y)
  BY DEF FinalAddr, Base
<1>3. QED
  BY <1>1, <1>2 DEF SymOf, ValOf, Promise!Names, Promise!Named, Passed, Until

---------------------------------------------------------------------------
(* The inductive invariant of resolve_symbols. *)

Collected  == IF phase = "collecting" THEN Passed(fi, si) ELSE Promise!Symbols
Registered == CASE phase = "collecting"  -> {}
                [] phase = "registering" -> Passed(fi, si)
                [] OTHER                 -> Promise!Symbols

(* The table that the passes should have made of the symbols of C and R. *)
TableHolds(t, C, R) == TableOf(t, Promise!Names, Nat, SymOf, ValOf, C, R)
TableInv ==
  /\ phase \in {"reading", "merging", "copying"} => table = <<>>
  /\ phase \in Resolving => TableHolds(table, Collected, Registered)
  /\ Len(table) <= MaxSyms

(* The address of a symbol is a number. *)
LEMMA FinalAddrType ==
  ASSUME LayoutInv, phase \in Resolving, NEW f \in DOMAIN inputs,
         NEW i \in DOMAIN inputs[f].syms
  PROVE  FinalAddr(f, inputs[f].syms[i]) \in Nat
<1> DEFINE y == inputs[f].syms[i]
<1>1. IsSymbol(y)
  BY FileTypes DEF LayoutInv, IsObject
<1>2. addr \in [Section -> Nat] /\ mergeOff[f] \in [Section -> Nat]
  <2>1. f \in DOMAIN mergeOff
    BY DEF LayoutInv, TypeOK, Progress, Resolving
  <2>2. QED
    BY <2>1 DEF LayoutInv, TypeOK
<1>3. \A s \in Section : Base(f, s) \in Nat
  BY <1>2 DEF Base
<1> HIDE DEF y
<1>4. QED
  BY <1>1, <1>3 DEF FinalAddr, IsSymbol, y

(* The symbol the loop stands at is the next one not passed. *)
LEMMA CurrentSymbol ==
  ASSUME LayoutInv, AtSymbol("collecting") \/ AtSymbol("registering")
  PROVE  /\ <<fi, si>> \in Promise!Symbols
         /\ SymOf[<<fi, si>>] = Symbol
         /\ ValOf[<<fi, si>>] = FinalAddr(fi, Symbol)
         /\ FinalAddr(fi, Symbol) \in Nat
         /\ IsDefinition(Symbol) \/ IsReference(Symbol) => Symbol.name \in Promise!Names
         /\ Passed(fi, si + 1) = Passed(fi, si) \cup {<<fi, si>>}
         /\ \A k \in Passed(fi, si) : NoLater(k, <<fi, si>>)
         /\ NoLater(<<fi, si>>, <<fi, si>>)
<1>0. TypeOK /\ fi \in Nat \ {0} /\ si \in Nat \ {0}
  BY DEF LayoutInv, TypeOK
<1>1. fi \in DOMAIN inputs
  BY <1>0 DEF AtSymbol, TypeOK
<1>2. si \in DOMAIN inputs[fi].syms
  BY <1>0, <1>1, FileTypes DEF AtSymbol
<1>3. <<fi, si>> \in Promise!Symbols
  BY <1>1, <1>2, SymbolsAre
<1>4. Promise!Sym(<<fi, si>>) = Symbol
  BY DEF Promise!Sym, Symbol
<1>5. SymOf[<<fi, si>>] = Symbol /\ ValOf[<<fi, si>>] = FinalAddr(fi, Symbol)
  BY <1>3, <1>4 DEF SymOf, ValOf
<1>6. FinalAddr(fi, Symbol) \in Nat
  BY <1>1, <1>2, FinalAddrType DEF AtSymbol, Resolving, Symbol
<1>7. IsDefinition(Symbol) \/ IsReference(Symbol) => Symbol.name \in Promise!Names
  <2> SUFFICES ASSUME IsDefinition(Symbol) \/ IsReference(Symbol)
               PROVE  Symbol.name \in Promise!Names
    OBVIOUS
  <2>1. <<fi, si>> \in Promise!Named
    BY <1>3, <1>4 DEF Promise!Named, Promise!IsDefinition, Promise!IsReference,
                      IsDefinition, IsReference
  <2>2. QED
    BY <2>1, <1>4 DEF Promise!Names
<1>8. QED
  <2>1. fi \in 1 .. Len(inputs) /\ si \in 1 .. SymCounts[fi]
    BY <1>0, <1>1, <1>2, FileTypes DEF SymCounts, TypeOK
  <2>2. /\ Passed(fi, si + 1) = Passed(fi, si) \cup {<<fi, si>>}
        /\ \A k \in Passed(fi, si) : NoLater(k, <<fi, si>>)
    BY <1>0, <2>1, SymbolPairs, UntilNext DEF Passed
  <2>3. NoLater(<<fi, si>>, <<fi, si>>)
    BY <1>0 DEF NoLater
  <2>4. QED
    BY <1>3, <1>5, <1>6, <1>7, <2>2, <2>3

(* find_or_add_sym finds an entry exactly when one has the name. *)
LEMMA EntriesAre ==
  ASSUME DOMAIN table = 1 .. Len(table), NEW name
  PROVE  (Entries(name) = {}) <=> \A i \in 1 .. Len(table) : table[i].name # name
BY DEF Entries

(* The steps of resolve_symbols. *)
LEMMA SkipKeepsTable ==
  ASSUME LayoutInv, TableInv, SkipSymbol
  PROVE  TableHolds(table, Collected, Registered)'
<1> DEFINE d == <<fi, si>>
<1>1. AtSymbol("collecting") \/ AtSymbol("registering")
  BY DEF SkipSymbol
<1>2. UNCHANGED <<inputs, addr, mergeOff, table, phase, fi>> /\ si' = si + 1
  BY DEF SkipSymbol, NextSymbol, layoutVars
<1>3. Passed(fi, si)' = Passed(fi, si) \cup {d}
  <2>1. Passed(fi, si)' = Passed(fi, si + 1)
    BY <1>2 DEF Passed, Until, Promise!Symbols
  <2>2. QED
    BY <1>1, <2>1, CurrentSymbol
<1>4. TableHolds(table, Collected, Registered)
  BY <1>1 DEF TableInv, AtSymbol, Resolving
<1>5. CASE phase = "collecting"
  <2>1. Collected = Passed(fi, si) /\ Registered = {}
    BY <1>5 DEF Collected, Registered
  <2>2. Collected' = Passed(fi, si) \cup {d} /\ Registered' = {}
    BY <1>2, <1>3, <1>5 DEF Collected, Registered
  <2>3. ~IsDefinition(SymOf[d])
    BY <1>1, <1>5, CurrentSymbol DEF SkipSymbol, AtSymbol
  <2>4. TableHolds(table, Passed(fi, si) \cup {d}, {})
    <3>1. \A k \in Passed(fi, si) : NoLater(k, d)
      BY <1>1, CurrentSymbol
    <3>2. QED
      BY <1>4, <2>1, <2>3, <3>1, CollectKnown DEF TableHolds
  <2>5. QED
    BY <1>2, <2>2, <2>4, Steady DEF TableHolds
<1>6. CASE phase = "registering"
  <2>1. Collected = Promise!Symbols /\ Registered = Passed(fi, si)
    BY <1>6 DEF Collected, Registered
  <2>2. Collected' = Promise!Symbols /\ Registered' = Passed(fi, si) \cup {d}
    BY <1>2, <1>3, <1>6, Steady DEF Collected, Registered
  <2>3. ~IsReference(SymOf[d])
    BY <1>1, <1>6, CurrentSymbol DEF SkipSymbol, AtSymbol
  <2>4. TableHolds(table, Promise!Symbols, Passed(fi, si) \cup {d})
    BY <1>4, <2>1, <2>3, RegisterKnown DEF TableHolds
  <2>5. QED
    BY <1>2, <2>2, <2>4, Steady DEF TableHolds
<1>7. QED
  BY <1>1, <1>5, <1>6 DEF AtSymbol

(* collecting a definition, *)
LEMMA CollectKeepsTable ==
  ASSUME LayoutInv, TableInv, CollectDefinition
  PROVE  TableHolds(table, Collected, Registered)' /\ Len(table') <= MaxSyms
<1> DEFINE d == <<fi, si>>
           new == [name |-> Symbol.name, value |-> FinalAddr(fi, Symbol), defined |-> TRUE]
<1>1. AtSymbol("collecting") /\ IsDefinition(Symbol) /\ phase = "collecting"
  BY DEF CollectDefinition, AtSymbol
<1>2. UNCHANGED <<inputs, addr, mergeOff, phase, fi>> /\ si' = si + 1
  BY DEF CollectDefinition, NextSymbol, layoutVars
<1>3. Collected' = Passed(fi, si) \cup {d} /\ Registered' = {}
  <2>1. Passed(fi, si)' = Passed(fi, si + 1)
    BY <1>2 DEF Passed, Until, Promise!Symbols
  <2>2. Passed(fi, si + 1) = Passed(fi, si) \cup {d}
    BY <1>1, CurrentSymbol
  <2>3. QED
    BY <1>1, <1>2, <2>1, <2>2 DEF Collected, Registered
<1>4. TableHolds(table, Passed(fi, si), {})
  BY <1>1 DEF TableInv, Resolving, Collected, Registered
<1>5. /\ table \in Seq(Entry(Promise!Names, Nat)) /\ Len(table) \in Nat
      /\ DOMAIN table = 1 .. Len(table)
  BY <1>4 DEF TableHolds, TableOf
<1>6. CASE Entries(Symbol.name) = {}
  <2>1. table' = Append(table, new) /\ Len(table) < MaxSyms
    BY <1>6 DEF CollectDefinition, Define
  <2>2. new = [name |-> SymOf[d].name, value |-> ValOf[d], defined |-> TRUE]
    BY <1>1, CurrentSymbol
  <2>3. \A i \in 1 .. Len(table) : table[i].name # Symbol.name
    BY <1>5, <1>6, EntriesAre
  <2>4. TableHolds(Append(table, new), Passed(fi, si) \cup {d}, {})
    <3>1. /\ SymOf[d] = Symbol /\ ValOf[d] \in Nat /\ Symbol.name \in Promise!Names
          /\ NoLater(d, d)
      BY <1>1, CurrentSymbol
    <3> HIDE DEF d, new
    <3>2. QED
      BY <1>1, <1>4, <2>2, <2>3, <3>1, CollectNew DEF TableHolds
  <2>5. Len(table') = Len(table) + 1
    BY <1>5, <2>1
  <2>6. TableHolds(table', Passed(fi, si) \cup {d}, {})
    BY <2>1, <2>4
  <2>7. QED
    BY <1>2, <1>3, <1>5, <2>1, <2>5, <2>6, Steady, BoundsAssumption DEF TableHolds
<1>7. CASE Entries(Symbol.name) # {}
  <2>1. \A i \in DOMAIN table : table[i].defined
    BY <1>4, <1>5 DEF TableHolds, TableOf, Refs
  <2>2. table' = [i \in DOMAIN table |->
                    IF i \in Entries(Symbol.name) /\ ~table[i].defined THEN new ELSE table[i]]
    BY <1>7 DEF CollectDefinition, Define
  <2>3. table' = [i \in DOMAIN table |-> table[i]]
    BY <2>1, <2>2
  <2>4. table' = table
    BY <2>3, <1>5
  <2>5. TableHolds(table, Passed(fi, si) \cup {d}, {})
    <3>1. /\ SymOf[d] = Symbol
          /\ \A k \in Passed(fi, si) : NoLater(k, d)
      BY <1>1, CurrentSymbol
    <3>2. \E i \in 1 .. Len(table) : table[i].name = Symbol.name
      BY <1>5, <1>7, EntriesAre
    <3> HIDE DEF d
    <3>3. QED
      BY <1>1, <1>4, <3>1, <3>2, CollectKnown DEF TableHolds
  <2>6. QED
    BY <1>2, <1>3, <2>4, <2>5, Steady DEF TableHolds, TableInv
<1>8. QED
  BY <1>6, <1>7

(* registering a reference, *)
LEMMA RegisterKeepsTable ==
  ASSUME LayoutInv, TableInv, RegisterReference
  PROVE  TableHolds(table, Collected, Registered)' /\ Len(table') <= MaxSyms
<1> DEFINE d == <<fi, si>>
<1>1. AtSymbol("registering") /\ IsReference(Symbol) /\ phase = "registering"
  BY DEF RegisterReference, AtSymbol
<1>2. UNCHANGED <<inputs, addr, mergeOff, phase, fi>> /\ si' = si + 1
  BY DEF RegisterReference, NextSymbol, layoutVars
<1>3. Collected' = Promise!Symbols /\ Registered' = Passed(fi, si) \cup {d}
  <2>1. Passed(fi, si)' = Passed(fi, si + 1)
    BY <1>2 DEF Passed, Until, Promise!Symbols
  <2>2. Passed(fi, si + 1) = Passed(fi, si) \cup {d}
    BY <1>1, CurrentSymbol
  <2>3. QED
    BY <1>1, <1>2, <2>1, <2>2, Steady DEF Collected, Registered
<1>4. TableHolds(table, Promise!Symbols, Passed(fi, si))
  BY <1>1 DEF TableInv, Resolving, Collected, Registered
<1>5. /\ table \in Seq(Entry(Promise!Names, Nat)) /\ Len(table) \in Nat
      /\ DOMAIN table = 1 .. Len(table)
  BY <1>4 DEF TableHolds, TableOf
<1>6. SymOf[d] = Symbol /\ Symbol.name \in Promise!Names
  BY <1>1, CurrentSymbol
<1> HIDE DEF d
<1>7. CASE Entries(Symbol.name) = {}
  <2>1. table' = Append(table, FreshEntry(Symbol.name)) /\ Len(table) < MaxSyms
    BY <1>7 DEF RegisterReference
  <2>2. \A i \in 1 .. Len(table) : table[i].name # Symbol.name
    BY <1>5, <1>7, EntriesAre
  <2>3. TableHolds(table', Promise!Symbols, Passed(fi, si) \cup {d})
    BY <1>1, <1>4, <1>6, <2>1, <2>2, RegisterNew DEF TableHolds
  <2>4. Len(table') = Len(table) + 1
    BY <1>5, <2>1
  <2>5. QED
    BY <1>2, <1>3, <1>5, <2>1, <2>3, <2>4, Steady, BoundsAssumption DEF TableHolds
<1>8. CASE Entries(Symbol.name) # {}
  <2>1. table' = table
    BY <1>8 DEF RegisterReference
  <2>2. \E i \in 1 .. Len(table) : table[i].name = Symbol.name
    BY <1>5, <1>8, EntriesAre
  <2>3. TableHolds(table, Promise!Symbols, Passed(fi, si) \cup {d})
    BY <1>4, <1>6, <2>2, RegisterKnown DEF TableHolds
  <2>4. QED
    BY <1>2, <1>3, <2>1, <2>3, Steady DEF TableHolds, TableInv
<1>9. QED
  BY <1>7, <1>8

(* going from one loop to the next, *)
LEMMA LoopKeepsTable ==
  ASSUME LayoutInv, TableInv, NextLoop
  PROVE  TableHolds(table, Collected, Registered)' /\ phase' \in Resolving
<1>0. TypeOK /\ UNCHANGED <<inputs, addr, mergeOff, table>> /\ fi' = 1 /\ si' = 1
  BY DEF NextLoop, layoutVars, symVars, LayoutInv
<1>p. phase' \in Resolving
  BY DEF NextLoop, Resolving
<1>1. Passed(fi, si) = Promise!Symbols
  <2>1. fi \in Nat /\ fi > Len(inputs)
    BY <1>0 DEF NextLoop, TypeOK
  <2>2. QED
    BY <1>0, <2>1, SymbolPairs, UntilEnd DEF Passed
<1>2. Passed(fi, si)' = {}
  <2>1. Passed(fi, si)' = Passed(1, 1)
    BY <1>0 DEF Passed, Until, Promise!Symbols
  <2>2. QED
    BY <1>0, <2>1, SymbolPairs, UntilStart DEF Passed
<1>3. Promise!Symbols' = Promise!Symbols
  BY <1>0, Steady
<1>4. CASE phase = "copying"
  <2>1. Collected' = {} /\ Registered' = {} /\ table = <<>>
    BY <1>2, <1>4 DEF NextLoop, Collected, Registered, TableInv
  <2>2. TableHolds(table, {}, {})
    BY <2>1, NoEntryYet DEF TableHolds
  <2>3. QED
    BY <1>0, <1>p, <2>1, <2>2, Steady DEF TableHolds
<1>5. CASE phase = "collecting"
  <2>1. TableHolds(table, Promise!Symbols, {})
    BY <1>1, <1>5 DEF TableInv, Collected, Registered, Resolving
  <2>2. Collected' = Promise!Symbols /\ Registered' = {}
    BY <1>2, <1>3, <1>5 DEF NextLoop, Collected, Registered
  <2>3. QED
    BY <1>0, <1>p, <2>1, <2>2, Steady DEF TableHolds
<1>6. CASE phase \in {"registering", "relocating"}
  <2>1. TableHolds(table, Promise!Symbols, Promise!Symbols)
    BY <1>1, <1>6 DEF TableInv, Collected, Registered, Resolving
  <2>2. Collected' = Promise!Symbols /\ Registered' = Promise!Symbols
    BY <1>3, <1>6 DEF NextLoop, Collected, Registered
  <2>3. QED
    BY <1>0, <1>p, <2>1, <2>2, Steady DEF TableHolds
<1>7. QED
  BY <1>4, <1>5, <1>6 DEF NextLoop

(* any step that changes neither the table nor the place, *)
LEMMA SameKeepsTable ==
  ASSUME UNCHANGED <<inputs, addr, mergeOff, table>>,
         Collected' = Collected, Registered' = Registered,
         TableHolds(table, Collected, Registered)
  PROVE  TableHolds(table, Collected, Registered)'
BY Steady DEF TableHolds

(* and going to the next file keep the table what it should be. *)
LEMMA FileKeepsTable ==
  ASSUME LayoutInv, TableInv, NextFile
  PROVE  TableHolds(table, Collected, Registered)'
<1>0. /\ TypeOK /\ UNCHANGED <<inputs, addr, mergeOff, table, phase>>
      /\ fi' = fi + 1 /\ si' = 1
      /\ phase \in {"collecting", "registering", "relocating"}
  BY DEF NextFile, layoutVars, symVars, LayoutInv
<1>1. TableHolds(table, Collected, Registered)
  BY <1>0 DEF TableInv, Resolving
<1>2. Promise!Symbols' = Promise!Symbols
  BY <1>0, Steady
<1>3. CASE phase = "relocating"
  BY <1>0, <1>1, <1>2, <1>3, SameKeepsTable DEF Collected, Registered
<1>4. CASE phase # "relocating"
  <2>1. fi \in DOMAIN inputs /\ si \in Nat /\ si > Len(inputs[fi].syms)
    BY <1>0, <1>4 DEF NextFile, Items, TypeOK
  <2>2. Passed(fi, si)' = Passed(fi + 1, 1)
    BY <1>0 DEF Passed, Until, Promise!Symbols
  <2>3. Passed(fi, si)' = Passed(fi, si)
    <3>1. fi \in 1 .. Len(inputs) /\ si > SymCounts[fi]
      BY <1>0, <2>1 DEF SymCounts, TypeOK
    <3>2. Passed(fi + 1, 1) = Passed(fi, si)
      BY <1>0, <2>1, <3>1, SymbolPairs, UntilNextFile DEF Passed
    <3>3. QED
      BY <2>2, <3>2
  <2>4. Collected' = Collected /\ Registered' = Registered
    BY <1>0, <1>2, <2>3 DEF Collected, Registered
  <2>5. QED
    BY <1>0, <1>1, <2>4, SameKeepsTable
<1>5. QED
  BY <1>3, <1>4

(* The invariant holds at first, *)
LEMMA TableInit == Init => TableInv
BY BoundsAssumption DEF Init, TableInv, Resolving

(* and every step keeps it. *)
LEMMA TableNext ==
  ASSUME LayoutInv, TableInv, [Next]_vars
  PROVE  TableInv'
<1>0. TypeOK /\ Len(table) <= MaxSyms
  BY DEF LayoutInv, TableInv
<1>1. CASE Failing
  <2>1. phase' = "failed" /\ table' = table
    BY <1>1, FailingFrame DEF symVars
  <2>2. QED
    BY <1>0, <2>1 DEF TableInv, Resolving
<1>2. CASE SkipSymbol
  <2>1. table' = table /\ phase' = phase /\ phase \in {"collecting", "registering"}
    BY <1>2 DEF SkipSymbol, NextSymbol, AtSymbol
  <2>2. TableHolds(table, Collected, Registered)'
    BY <1>2, SkipKeepsTable
  <2>3. QED
    BY <1>0, <2>1, <2>2 DEF TableInv
<1>3. CASE CollectDefinition
  <2>1. phase' = "collecting"
    BY <1>3 DEF CollectDefinition, NextSymbol, AtSymbol
  <2>2. TableHolds(table, Collected, Registered)' /\ Len(table') <= MaxSyms
    BY <1>3, CollectKeepsTable
  <2>3. QED
    BY <2>1, <2>2 DEF TableInv
<1>4. CASE RegisterReference
  <2>1. phase' = "registering"
    BY <1>4 DEF RegisterReference, NextSymbol, AtSymbol
  <2>2. TableHolds(table, Collected, Registered)' /\ Len(table') <= MaxSyms
    BY <1>4, RegisterKeepsTable
  <2>3. QED
    BY <2>1, <2>2 DEF TableInv
<1>5. CASE NextFile
  <2>1. table' = table /\ phase' = phase /\ phase \notin {"reading", "merging", "copying"}
    BY <1>5 DEF NextFile, symVars
  <2>2. TableHolds(table, Collected, Registered)'
    BY <1>5, FileKeepsTable
  <2>3. QED
    BY <1>0, <2>1, <2>2 DEF TableInv
<1>6. CASE NextLoop
  <2>1. table' = table /\ phase' \notin {"reading", "merging", "copying"}
    BY <1>6 DEF NextLoop, symVars
  <2>2. TableHolds(table, Collected, Registered)'
    BY <1>6, LoopKeepsTable
  <2>3. QED
    BY <1>0, <2>1, <2>2 DEF TableInv
<1>7. CASE SetEntry \/ WriteOutput \/ ApplyRela
  <2>1. /\ UNCHANGED <<inputs, addr, mergeOff, table>>
        /\ phase \in {"checking", "relocating", "writing"}
        /\ phase' \in {"relocating", "writing", "done"}
    BY <1>7 DEF SetEntry, WriteOutput, ApplyRela, AtRela, layoutVars, symVars
  <2>2. TableHolds(table, Collected, Registered)
    BY <2>1 DEF TableInv, Resolving
  <2>3. Collected' = Collected /\ Registered' = Registered
    <3>1. Promise!Symbols' = Promise!Symbols
      BY <2>1, Steady
    <3>2. QED
      BY <2>1, <3>1 DEF Collected, Registered
  <2>4. TableHolds(table, Collected, Registered)'
    BY <2>1, <2>2, <2>3, SameKeepsTable
  <2>5. QED
    BY <1>0, <2>1, <2>4 DEF TableInv
<1>8. CASE ShortWrite \/ StrayRela
  BY <1>0, <1>8 DEF ShortWrite, StrayRela, symVars, TableInv, Resolving
<1>9. CASE ReadInput \/ EndOfArguments \/ MergeFile \/ SetAddresses \/ CopyFile
  <2>1. /\ table' = table
        /\ phase \in {"reading", "merging", "copying"}
        /\ phase' \in {"reading", "merging", "copying"}
    BY <1>9 DEF ReadInput, EndOfArguments, MergeFile, SetAddresses, CopyFile, symVars
  <2>2. QED
    BY <1>0, <2>1 DEF TableInv, Resolving
<1>10. CASE UNCHANGED vars
  <2>1. UNCHANGED <<inputs, addr, mergeOff, table, phase, fi, si>>
    BY <1>10 DEF vars
  <2>2. Collected' = Collected /\ Registered' = Registered
    BY <2>1, Steady DEF Collected, Registered
  <2>3. phase \in Resolving => TableHolds(table, Collected, Registered)'
    BY <2>1, <2>2, SameKeepsTable DEF TableInv
  <2>4. QED
    BY <1>0, <2>1, <2>3 DEF TableInv
<1>11. QED
  BY <1>1, <1>2, <1>3, <1>4, <1>5, <1>6, <1>7, <1>8, <1>9, <1>10, StepCases DEF Working

---------------------------------------------------------------------------
(* The table once the passes are over: it says what every name means. *)

Settled == /\ TableHolds(table, Promise!Symbols, Promise!Symbols)
           /\ LayoutInv /\ Agreed /\ phase \in Resolving

(* sym_final_addr is AbstractLink's Address. *)
LEMMA AddressAgrees ==
  ASSUME Agreed, NEW f \in DOMAIN inputs, NEW y
  PROVE  FinalAddr(f, y) = Promise!Address(f, y)
BY DEF Agreed, FinalAddr, Base, Promise!Address, Promise!Section, Section

(* The definitions of a name are those of AbstractLink. *)
LEMMA DefinitionsAgree ==
  ASSUME NEW name
  PROVE  Promise!Definitions(name) = Defs(SymOf, Promise!Symbols, name)
BY DEF Promise!Definitions, Promise!Named, Defs, SymOf, Promise!IsDefinition,
       Promise!IsReference, IsDefinition, IsReference

(* A set of symbols has at most one first symbol. *)
LEMMA OneFirst ==
  ASSUME TypeOK, NEW D \in SUBSET Promise!Symbols, NEW k \in FirstOf(D),
         NEW l \in FirstOf(D)
  PROVE  k = l
<1>1. k \in Promise!Symbols /\ l \in Promise!Symbols /\ NoLater(k, l) /\ NoLater(l, k)
  BY DEF FirstOf
<1>2. /\ k[1] \in Nat /\ k[2] \in Nat /\ k = <<k[1], k[2]>>
      /\ l[1] \in Nat /\ l[2] \in Nat /\ l = <<l[1], l[2]>>
  BY <1>1, KeyTypes
<1>3. k[1] = l[1] /\ k[2] = l[2]
  BY <1>1, <1>2 DEF NoLater
<1>4. QED
  BY <1>2, <1>3

(* What a name means is the address of its first definition. *)
LEMMA MeaningOfFirst ==
  ASSUME TypeOK, Agreed, NEW name,
         NEW k \in FirstOf(Defs(SymOf, Promise!Symbols, name))
  PROVE  Promise!Meaning(name) = ValOf[k]
<1> DEFINE D == Defs(SymOf, Promise!Symbols, name)
           P(e) == e \in D /\ \A l \in D : NoLater(e, l)
           d == CHOOSE e : P(e)
<1>1. D = Promise!Definitions(name) /\ D \subseteq Promise!Symbols
  BY DefinitionsAgree DEF Defs
<1>2. k \in D /\ D # {} /\ P(k)
  BY DEF FirstOf
<1>3. P(d)
  BY <1>2
<1>4. d \in FirstOf(D)
  BY <1>3 DEF FirstOf
<1> HIDE DEF d
<1>5. d = k
  BY <1>1, <1>4, OneFirst
<1>6. Promise!Meaning(name) = Promise!Address(d[1], Promise!Sym(d))
  <2>1. d = CHOOSE e \in Promise!Definitions(name) :
                \A l \in Promise!Definitions(name) : Promise!NoLater(e, l)
    BY <1>1 DEF d, NoLater, Promise!NoLater
  <2>2. QED
    BY <1>1, <1>2, <2>1 DEF Promise!Meaning
<1>7. k \in Promise!Symbols /\ k[1] \in DOMAIN inputs
  BY <1>1, <1>2, KeyTypes
<1>8. ValOf[k] = Promise!Address(k[1], Promise!Sym(k))
  BY <1>7, AddressAgrees DEF ValOf
<1>9. QED
  BY <1>5, <1>6, <1>8

(* Each name has one entry, which has the name's meaning. *)
LEMMA Meanings ==
  ASSUME Settled
  PROVE  /\ DOMAIN table = 1 .. Len(table) /\ Len(table) \in Nat
         /\ \A i, j \in DOMAIN table : table[i].name = table[j].name => i = j
         /\ \A i \in DOMAIN table :
              /\ table[i].name \in Promise!Names
              /\ table[i].value = Promise!Meaning(table[i].name)
              /\ table[i].defined <=> Promise!Definitions(table[i].name) # {}
         /\ \A n \in Promise!Names : \E i \in DOMAIN table : table[i].name = n
<1>0. TableOf(table, Promise!Names, Nat, SymOf, ValOf, Promise!Symbols, Promise!Symbols)
  BY DEF Settled, TableHolds
<1>1. /\ table \in Seq(Entry(Promise!Names, Nat)) /\ DOMAIN table = 1 .. Len(table)
      /\ Len(table) \in Nat
  BY <1>0 DEF TableOf
<1>2. TypeOK /\ Agreed
  BY DEF Settled, LayoutInv
<1>3. ASSUME NEW i \in DOMAIN table
      PROVE  /\ table[i].name \in Promise!Names
             /\ table[i].value = Promise!Meaning(table[i].name)
             /\ table[i].defined <=> Promise!Definitions(table[i].name) # {}
  <2>1. table[i].name \in Promise!Names
    <3>1. table[i] \in Entry(Promise!Names, Nat)
      BY <1>1
    <3>2. QED
      BY <3>1 DEF Entry
  <2>2. CASE table[i].defined
    <3>1. PICK k \in FirstOf(Defs(SymOf, Promise!Symbols, table[i].name)) :
                 table[i].value = ValOf[k]
      BY <1>0, <1>1, <2>2 DEF TableOf
    <3>2. Promise!Meaning(table[i].name) = ValOf[k]
      BY <1>2, MeaningOfFirst
    <3>3. Promise!Definitions(table[i].name) # {}
      BY DefinitionsAgree DEF FirstOf
    <3>4. QED
      BY <2>1, <2>2, <3>1, <3>2, <3>3
  <2>3. CASE ~table[i].defined
    <3>1. table[i].value = 0
      BY <1>0, <1>1, <2>3 DEF TableOf
    <3>2. Promise!Definitions(table[i].name) = {}
      <4>1. ASSUME NEW k \in Promise!Symbols, IsDefinition(SymOf[k]),
                   SymOf[k].name = table[i].name
            PROVE  FALSE
        <5>1. PICK j \in DOMAIN table : table[j].name = SymOf[k].name /\ table[j].defined
          BY <1>0, <1>1, <4>1 DEF TableOf
        <5>2. j = i
          BY <1>0, <1>1, <4>1, <5>1 DEF TableOf
        <5>3. QED
          BY <2>3, <5>1, <5>2
      <4>2. QED
        BY <4>1, DefinitionsAgree DEF Defs
    <3>3. Promise!Meaning(table[i].name) = 0
      BY <3>2 DEF Promise!Meaning
    <3>4. QED
      BY <2>1, <2>3, <3>1, <3>2, <3>3
  <2>4. QED
    BY <2>2, <2>3
<1>4. ASSUME NEW n \in Promise!Names PROVE \E i \in DOMAIN table : table[i].name = n
  <2>1. PICK k \in Promise!Named : n = Promise!Sym(k).name
    BY DEF Promise!Names
  <2>2. /\ k \in Promise!Symbols /\ SymOf[k] = Promise!Sym(k)
        /\ IsDefinition(SymOf[k]) \/ IsReference(SymOf[k])
    BY DEF Promise!Named, SymOf, Promise!IsDefinition, Promise!IsReference,
           IsDefinition, IsReference
  <2>3. QED
    BY <1>0, <1>1, <2>1, <2>2 DEF TableOf
<1>5. QED
  BY <1>0, <1>1, <1>3, <1>4 DEF TableOf

(* Looking a name up gives its meaning; only unknown names lack an entry. *)
LEMMA LookupMeans ==
  ASSUME Settled, NEW name
  PROVE  /\ Entries(name) # {} => Lookup(name).value = Promise!Meaning(name)
         /\ Entries(name) = {} <=> name \notin Promise!Names
<1>1. Entries(name) = {} <=> name \notin Promise!Names
  BY Meanings DEF Entries
<1>2. ASSUME Entries(name) # {} PROVE Lookup(name).value = Promise!Meaning(name)
  <2>1. PICK i \in DOMAIN table : table[i].name = name
    BY <1>2 DEF Entries
  <2>2. Entries(name) = {i} /\ i <= i
    BY <2>1, Meanings DEF Entries
  <2>3. (CHOOSE j \in Entries(name) : \A l \in Entries(name) : j <= l) = i
    BY <2>2
  <2>4. Lookup(name) = table[i]
    BY <2>3 DEF Lookup
  <2>5. QED
    BY <2>1, <2>4, Meanings
<1>3. QED
  BY <1>1, <1>2

(* The check for undefined symbols finds those that AbstractLink names. *)
LEMMA UndefinedAgrees ==
  ASSUME Settled
  PROVE  Undefined = {} <=> Promise!Unresolved = {}
<1>1. ASSUME Undefined # {} PROVE Promise!Unresolved # {}
  <2>1. PICK i \in DOMAIN table : ~table[i].defined /\ table[i].name \notin GNames
    BY <1>1 DEF Undefined, Exempt
  <2>2. table[i].name \in Promise!Unresolved
    BY <2>1, Meanings DEF Promise!Unresolved
  <2>3. QED
    BY <2>2
<1>2. ASSUME Promise!Unresolved # {} PROVE Undefined # {}
  <2>1. PICK n \in Promise!Names : Promise!Definitions(n) = {} /\ n \notin GNames
    BY <1>2 DEF Promise!Unresolved
  <2>2. PICK i \in DOMAIN table : table[i].name = n
    BY Meanings
  <2>3. i \in Undefined
    BY <2>1, <2>2, Meanings DEF Undefined, Exempt
  <2>4. QED
    BY <2>3
<1>3. QED
  BY <1>1, <1>2

(* The entry point is what main, or _start, means. *)
LEMMA EntryAgrees ==
  ASSUME Settled
  PROVE  EntryAddr = Promise!Meaning(EntryName)
<1>1. CASE \E i \in Entries(EntryName) : table[i].defined
  BY <1>1, LookupMeans DEF EntryAddr
<1>2. CASE ~ \E i \in Entries(EntryName) : table[i].defined
  <2>1. Promise!Definitions(EntryName) = {}
    <3>1. CASE EntryName \in Promise!Names
      <4>1. PICK i \in DOMAIN table : table[i].name = EntryName
        BY <3>1, Meanings
      <4>2. i \in Entries(EntryName)
        BY <4>1 DEF Entries
      <4>3. QED
        BY <1>2, <4>1, <4>2, Meanings
    <3>2. CASE EntryName \notin Promise!Names
      BY <3>2 DEF Promise!Names, Promise!Definitions
    <3>3. QED
      BY <3>1, <3>2
  <2>2. QED
    BY <1>2, <2>1 DEF EntryAddr, Promise!Meaning
<1>3. QED
  BY <1>1, <1>2

---------------------------------------------------------------------------
(* The inductive invariant of apply_relocations. *)

(* The relocations of the files, the words they write, those whose symbol  *)
(* is missing and those that do not stay inside of the merged section.     *)
RelaKeys  == UNION {{f} \X DOMAIN inputs[f].relas : f \in DOMAIN inputs}
RelaOf    == [k \in RelaKeys |-> inputs[k[1]].relas[k[2]]]
WordOf    == [k \in RelaKeys |-> Patch(k[1], inputs[k[1]].relas[k[2]])]
Missing   == {k \in RelaKeys : SymbolMissing(k[1], inputs[k[1]].relas[k[2]])}
Straying  == {k \in RelaKeys : /\ inputs[k[1]].relas[k[2]].type # "NONE"
                               /\ ~Inside(k[1], inputs[k[1]].relas[k[2]])}
Wrong     == Missing \cup Straying

(* The words of the relocations of K, none of which failed. *)
WordsOf(K, rela, word)   == {word[k] : k \in {l \in K : rela[l].type # "NONE"}}
Clean(K, rela, wrong)    == \A k \in K : k \notin wrong /\ rela[k].type # "UNSUPPORTED"
Applied(p, K, rela, word, wrong) == /\ p = WordsOf(K, rela, word)
                                    /\ Clean(K, rela, wrong)

(* The relocations passed so far. *)
Relocated == IF phase = "relocating" THEN Until(RelaKeys, fi, si) ELSE RelaKeys

(* Patches are the words of the relocations passed, and none of those was  *)
(* wrong.                                                                  *)
RelaInv ==
  /\ phase \in {"reading", "merging", "copying", "collecting", "registering", "checking"} =>
       patches = {}
  /\ phase = "checking" => fi = 1 /\ si = 1
  /\ phase \in {"relocating", "writing", "done"} =>
       /\ Applied(patches, Relocated, RelaOf, WordOf, Wrong)
       /\ entry = EntryAddr /\ entry # 0 /\ Undefined = {}

(* How many relocations each file has. *)
RelaCounts == [f \in DOMAIN inputs |-> Len(inputs[f].relas)]

(* The relocations are pairs of a file and a relocation of it, *)
LEMMA RelaKeysAre ==
  /\ \A k \in RelaKeys : /\ k = <<k[1], k[2]>> /\ k[1] \in DOMAIN inputs
                         /\ k[2] \in DOMAIN inputs[k[1]].relas
  /\ \A f \in DOMAIN inputs : \A i \in DOMAIN inputs[f].relas : <<f, i>> \in RelaKeys
<1>1. ASSUME NEW k \in RelaKeys
      PROVE  /\ k = <<k[1], k[2]>> /\ k[1] \in DOMAIN inputs
             /\ k[2] \in DOMAIN inputs[k[1]].relas
  <2>1. PICK f \in DOMAIN inputs : k \in {f} \X DOMAIN inputs[f].relas
    BY DEF RelaKeys
  <2>2. QED
    BY <2>1
<1>2. ASSUME NEW f \in DOMAIN inputs, NEW i \in DOMAIN inputs[f].relas
      PROVE  <<f, i>> \in RelaKeys
  <2>1. <<f, i>> \in {f} \X DOMAIN inputs[f].relas
    OBVIOUS
  <2>2. QED
    BY <2>1 DEF RelaKeys
<1>3. QED
  BY <1>1, <1>2

(* those below the counts. *)
LEMMA RelaPairs == ASSUME TypeOK PROVE Pairs(RelaKeys, Len(inputs), RelaCounts)
<1>1. Len(inputs) \in Nat /\ DOMAIN inputs = 1 .. Len(inputs)
  BY DEF TypeOK
<1>2. \A f \in DOMAIN inputs : /\ RelaCounts[f] = Len(inputs[f].relas)
                               /\ RelaCounts[f] \in Nat
                               /\ DOMAIN inputs[f].relas = 1 .. RelaCounts[f]
  BY FileTypes DEF RelaCounts
<1>3. QED
  BY <1>1, <1>2, RelaKeysAre DEF Pairs

(* What is said of relocations depends on files, layout and table alone. *)
LEMMA RelaSteady ==
  ASSUME UNCHANGED <<inputs, addr, mergeOff, total, table>>
  PROVE  /\ RelaKeys' = RelaKeys /\ RelaOf' = RelaOf /\ WordOf' = WordOf
         /\ Wrong' = Wrong /\ EntryAddr' = EntryAddr /\ Undefined' = Undefined
<1>1. \A name : Entries(name)' = Entries(name) /\ Lookup(name)' = Lookup(name)
  BY DEF Entries, Lookup
<1>2. \A f, y : FinalAddr(f, y)' = FinalAddr(f, y)
  BY DEF FinalAddr, Base
<1>3. \A f, s : Base(f, s)' = Base(f, s)
  BY DEF Base
<1>4. \A f, r : SymValue(f, r)' = SymValue(f, r) /\ (SymbolMissing(f, r)' <=> SymbolMissing(f, r))
  BY <1>1, <1>2 DEF SymValue, SymbolMissing
<1>5. \A f, r : Patch(f, r)' = Patch(f, r)
  BY <1>3, <1>4 DEF Patch
<1>6. RelaKeys' = RelaKeys
  BY DEF RelaKeys
<1>s. \A f, r : Inside(f, r)' <=> Inside(f, r)
  BY DEF Inside
<1>7. RelaOf' = RelaOf /\ WordOf' = WordOf /\ Wrong' = Wrong
  <2>1. Missing' = Missing /\ Straying' = Straying
    BY <1>4, <1>6, <1>s DEF Missing, Straying
  <2>2. QED
    BY <1>5, <1>6, <2>1 DEF RelaOf, WordOf, Wrong
<1>8. EntryAddr' = EntryAddr /\ Undefined' = Undefined
  BY <1>1 DEF EntryAddr, Undefined, Exempt
<1>9. QED
  BY <1>6, <1>7, <1>8

(* Before the first relocation nothing is patched. *)
LEMMA NothingApplied ==
  ASSUME NEW rela, NEW word, NEW wrong
  PROVE  Applied({}, {}, rela, word, wrong)
BY DEF Applied, WordsOf, Clean

(* One more relocation adds its word. *)
LEMMA AppliedOne ==
  ASSUME NEW p, NEW K, NEW rela, NEW word, NEW wrong, NEW d,
         Applied(p, K, rela, word, wrong),
         d \notin wrong, rela[d].type # "UNSUPPORTED"
  PROVE  Applied(IF rela[d].type = "NONE" THEN p ELSE p \cup {word[d]},
                 K \cup {d}, rela, word, wrong)
<1>1. CASE rela[d].type = "NONE"
  <2>1. WordsOf(K \cup {d}, rela, word) = WordsOf(K, rela, word)
    BY <1>1 DEF WordsOf
  <2>2. QED
    BY <1>1, <2>1 DEF Applied, Clean
<1>2. CASE rela[d].type # "NONE"
  <2>1. WordsOf(K \cup {d}, rela, word) = WordsOf(K, rela, word) \cup {word[d]}
    BY <1>2 DEF WordsOf
  <2>2. QED
    BY <1>2, <2>1 DEF Applied, Clean
<1>3. QED
  BY <1>1, <1>2

(* A step that leaves the table, the layout and the patches alone. *)
LEMMA SameKeepsRelas ==
  ASSUME RelaInv,
         UNCHANGED <<inputs, addr, mergeOff, total, table, entry, patches>>,
         phase \in {"relocating", "writing", "done"},
         phase' \in {"relocating", "writing", "done"}, Relocated' = Relocated
  PROVE  RelaInv'
<1>1. /\ Applied(patches, Relocated, RelaOf, WordOf, Wrong)
      /\ entry = EntryAddr /\ entry # 0 /\ Undefined = {}
  BY DEF RelaInv
<1>2. /\ Applied(patches', Relocated', RelaOf', WordOf', Wrong')
      /\ entry' = EntryAddr' /\ entry' # 0 /\ Undefined' = {}
  BY <1>1, RelaSteady
<1>3. QED
  BY <1>2 DEF RelaInv

(* Setting the entry point starts the relocations with none applied. *)
LEMMA SetEntryRelas ==
  ASSUME TypeOK, RelaInv, SetEntry
  PROVE  RelaInv'
<1>1. /\ UNCHANGED <<inputs, addr, mergeOff, total, table, patches, fi, si>>
      /\ phase = "checking" /\ phase' = "relocating" /\ patches = {}
      /\ fi = 1 /\ si = 1
      /\ entry' = EntryAddr /\ EntryAddr # 0 /\ Undefined = {}
  BY DEF SetEntry, layoutVars, RelaInv
<1>2. Until(RelaKeys, 1, 1) = {}
  BY RelaPairs, UntilStart
<1>3. Relocated' = {}
  <2>1. Relocated' = Until(RelaKeys', 1, 1)
    BY <1>1 DEF Relocated, Until
  <2>2. QED
    BY <1>1, <1>2, <2>1, RelaSteady
<1>4. Applied(patches', Relocated', RelaOf', WordOf', Wrong')
  BY <1>1, <1>3, NothingApplied
<1>5. entry' = EntryAddr' /\ entry' # 0 /\ Undefined' = {}
  BY <1>1, RelaSteady
<1>6. QED
  BY <1>1, <1>4, <1>5 DEF RelaInv

(* Applying a relocation adds its word. *)
LEMMA ApplyRelas ==
  ASSUME TypeOK, RelaInv, ApplyRela
  PROVE  RelaInv'
<1> DEFINE d == <<fi, si>>
<1>1. /\ UNCHANGED <<inputs, addr, mergeOff, total, table, phase, fi, entry>> /\ si' = si + 1
      /\ phase = "relocating"
  BY DEF ApplyRela, AtRela, layoutVars, symVars
<1>2. fi \in DOMAIN inputs /\ si \in DOMAIN inputs[fi].relas
  <2>1. fi \in DOMAIN inputs
    BY DEF ApplyRela, AtRela, TypeOK
  <2>2. DOMAIN inputs[fi].relas = 1 .. Len(inputs[fi].relas) /\ Len(inputs[fi].relas) \in Nat
    BY <2>1, FileTypes
  <2>3. si \in Nat \ {0} /\ si <= Len(inputs[fi].relas)
    BY DEF ApplyRela, AtRela, TypeOK
  <2>4. QED
    BY <2>1, <2>2, <2>3
<1>3. d \in RelaKeys /\ RelaOf[d] = Rela /\ WordOf[d] = Patch(fi, Rela)
  <2>1. d \in RelaKeys
    BY <1>2, RelaKeysAre
  <2>2. d[1] = fi /\ d[2] = si
    OBVIOUS
  <2> HIDE DEF d
  <2>3. QED
    BY <2>1, <2>2 DEF RelaOf, WordOf, Rela
<1>4. d \notin Wrong /\ RelaOf[d].type # "UNSUPPORTED"
  <2>1. /\ ~SymbolMissing(fi, Rela) /\ Rela.type # "UNSUPPORTED"
        /\ Rela.type = "NONE" \/ Inside(fi, Rela)
    BY DEF ApplyRela
  <2>2. d[1] = fi /\ d[2] = si
    OBVIOUS
  <2> HIDE DEF d
  <2>3. QED
    BY <1>3, <2>1, <2>2 DEF Wrong, Missing, Straying, Rela
<1>5. Until(RelaKeys, fi, si + 1) = Until(RelaKeys, fi, si) \cup {d}
  <2>1. fi \in 1 .. Len(inputs) /\ si \in 1 .. RelaCounts[fi]
    BY <1>2, FileTypes DEF RelaCounts, TypeOK
  <2>2. Pairs(RelaKeys, Len(inputs), RelaCounts)
    BY RelaPairs
  <2>3. /\ Until(RelaKeys, fi, si + 1) = Until(RelaKeys, fi, si) \cup {<<fi, si>>}
        /\ \A k \in Until(RelaKeys, fi, si) : NoLater(k, <<fi, si>>)
        /\ <<fi, si>> \in RelaKeys
    BY <2>1, <2>2, UntilNext
  <2>4. QED
    BY <2>3
<1>6. Relocated' = Relocated \cup {d}
  <2>1. Relocated' = Until(RelaKeys', fi, si + 1)
    BY <1>1 DEF Relocated, Until
  <2>2. QED
    BY <1>1, <1>5, <2>1, RelaSteady DEF Relocated
<1>7. Applied(patches', Relocated', RelaOf', WordOf', Wrong')
  <2>1. patches' = IF RelaOf[d].type = "NONE" THEN patches ELSE patches \cup {WordOf[d]}
    BY <1>3 DEF ApplyRela
  <2>2. Applied(patches, Relocated, RelaOf, WordOf, Wrong)
    BY <1>1 DEF RelaInv
  <2> HIDE DEF d
  <2>3. Applied(patches', Relocated \cup {d}, RelaOf, WordOf, Wrong)
    BY <1>4, <2>1, <2>2, AppliedOne
  <2>4. QED
    BY <1>1, <1>6, <2>3, RelaSteady
<1>8. entry' = EntryAddr' /\ entry' # 0 /\ Undefined' = {}
  BY <1>1, RelaSteady DEF RelaInv
<1>9. QED
  BY <1>1, <1>7, <1>8 DEF RelaInv

(* The invariant holds at first, *)
LEMMA RelaInit == Init => RelaInv
BY DEF Init, RelaInv

(* and every step keeps it. *)
LEMMA RelaNext ==
  ASSUME TypeOK, RelaInv, [Next]_vars
  PROVE  RelaInv'
<1> DEFINE early == {"reading", "merging", "copying", "collecting", "registering"}
<1>1. CASE Failing
  BY <1>1, FailingFrame DEF RelaInv
<1>2. CASE /\ phase \in early /\ phase' \in early /\ patches' = patches
  BY <1>2 DEF RelaInv
<1>3. CASE ReadInput \/ EndOfArguments \/ MergeFile \/ SetAddresses \/ CopyFile
  BY <1>2, <1>3 DEF ReadInput, EndOfArguments, MergeFile, SetAddresses, CopyFile
<1>4. CASE SkipSymbol \/ CollectDefinition \/ RegisterReference
  BY <1>2, <1>4 DEF SkipSymbol, CollectDefinition, RegisterReference, AtSymbol, NextSymbol
<1>5. CASE SetEntry
  BY <1>5, SetEntryRelas
<1>6. CASE ApplyRela
  BY <1>6, ApplyRelas
<1>7. CASE NextFile
  <2>1. CASE phase # "relocating"
    BY <1>2, <1>7, <2>1 DEF NextFile
  <2>2. CASE phase = "relocating"
    <3>1. /\ UNCHANGED <<inputs, addr, mergeOff, total, table, entry, patches, phase>>
          /\ fi' = fi + 1 /\ si' = 1
      BY <1>7 DEF NextFile, layoutVars, symVars
    <3>2. fi \in 1 .. Len(inputs) /\ si \in Nat /\ si > RelaCounts[fi]
      BY <1>7, <2>2 DEF NextFile, Items, RelaCounts, TypeOK
    <3>3. Until(RelaKeys, fi + 1, 1) = Until(RelaKeys, fi, si)
      BY <3>2, RelaPairs, UntilNextFile
    <3>4. Relocated' = Relocated
      <4>1. Relocated' = Until(RelaKeys', fi + 1, 1)
        BY <2>2, <3>1 DEF Relocated, Until
      <4>2. QED
        BY <2>2, <3>1, <3>3, <4>1, RelaSteady DEF Relocated
    <3>5. QED
      BY <2>2, <3>1, <3>4, SameKeepsRelas
  <2>3. QED
    BY <2>1, <2>2
<1>8. CASE NextLoop
  <2>1. CASE phase \in {"copying", "collecting"}
    BY <1>2, <1>8, <2>1 DEF NextLoop
  <2>2. CASE phase = "registering"
    BY <1>8, <2>2 DEF NextLoop, RelaInv
  <2>3. CASE phase = "relocating"
    <3>1. /\ UNCHANGED <<inputs, addr, mergeOff, total, table, entry, patches>>
          /\ phase' = "writing" /\ fi \in Nat /\ fi > Len(inputs)
      BY <1>8, <2>3 DEF NextLoop, layoutVars, symVars, TypeOK
    <3>2. Until(RelaKeys, fi, si) = RelaKeys
      BY <3>1, RelaPairs, UntilEnd
    <3>3. Relocated' = Relocated
      BY <2>3, <3>1, <3>2, RelaSteady DEF Relocated
    <3>4. QED
      BY <2>3, <3>1, <3>3, SameKeepsRelas
  <2>4. QED
    BY <1>8, <2>1, <2>2, <2>3 DEF NextLoop
<1>9. CASE ShortWrite \/ StrayRela
  BY <1>9 DEF ShortWrite, StrayRela, RelaInv
<1>10. CASE WriteOutput
  <2>1. /\ UNCHANGED <<inputs, addr, mergeOff, total, table, entry, patches>>
        /\ phase = "writing" /\ phase' = "done"
    BY <1>10 DEF WriteOutput, layoutVars, symVars
  <2>2. Relocated' = Relocated
    BY <2>1, RelaSteady DEF Relocated
  <2>3. QED
    BY <2>1, <2>2, SameKeepsRelas
<1>11. CASE UNCHANGED vars
  <2>1. UNCHANGED <<inputs, addr, mergeOff, total, table, entry, patches, phase, fi, si>>
    BY <1>11 DEF vars
  <2>2. Relocated' = Relocated
    BY <2>1, RelaSteady DEF Relocated, Until
  <2>3. CASE phase \in {"relocating", "writing", "done"}
    BY <2>1, <2>2, <2>3, SameKeepsRelas
  <2>4. CASE phase \notin {"relocating", "writing", "done"}
    BY <2>1, <2>4 DEF RelaInv
  <2>5. QED
    BY <2>3, <2>4
<1>12. QED
  BY <1>1, <1>3, <1>4, <1>5, <1>6, <1>7, <1>8, <1>9, <1>10, <1>11, StepCases DEF Working

---------------------------------------------------------------------------
(* What is written is what AbstractLink promises. *)

LinkInv == LayoutInv /\ StageInv /\ TableInv /\ RelaInv

(* The invariant of the whole program. *)
LEMMA LinkInvariant == Spec => []LinkInv
<1>1. Init => StageInv /\ TableInv /\ RelaInv
  BY StageInit, TableInit, RelaInit
<1>2. LayoutInv /\ StageInv /\ TableInv /\ RelaInv /\ [Next]_vars
        => StageInv' /\ TableInv' /\ RelaInv'
  BY StageNext, TableNext, RelaNext DEF LayoutInv
<1>3. QED
  BY <1>1, <1>2, LayoutCorrect, PTL DEF Spec, LinkInv

(* The passes are over when the checks begin. *)
LEMMA SettledThen ==
  ASSUME LinkInv, phase \in {"checking", "relocating", "writing", "done"}
  PROVE  Settled
BY LayoutAgrees DEF LinkInv, TableInv, Resolving, Settled, Collected, Registered

(* A relocation's symbol has the value that AbstractLink says, *)
LEMMA TargetAgrees ==
  ASSUME Settled, NEW f \in DOMAIN inputs, NEW r, ~SymbolMissing(f, r)
  PROVE  SymValue(f, r) = Promise!Target(f, r) /\ ~Promise!Nameless(f, r)
<1>1. CASE r.sym \notin DOMAIN inputs[f].syms
  BY <1>1 DEF SymValue, Promise!Target, Promise!Nameless
<1>2. CASE r.sym \in DOMAIN inputs[f].syms
  <2> DEFINE y == inputs[f].syms[r.sym]
  <2>1. CASE y.bind = "LOCAL"
    <3>1. FinalAddr(f, y) = Promise!Address(f, y)
      BY AddressAgrees DEF Settled
    <3>2. QED
      BY <1>2, <2>1, <3>1 DEF SymValue, Promise!Target, Promise!Nameless
  <2>2. CASE y.bind # "LOCAL"
    <3>1. Entries(y.name) # {}
      BY <1>2, <2>2 DEF SymbolMissing
    <3>2. Lookup(y.name).value = Promise!Meaning(y.name) /\ y.name \in Promise!Names
      BY <3>1, LookupMeans
    <3>3. y.name # NoName
      BY <3>2 DEF Promise!Names, Promise!Named, Promise!IsDefinition, Promise!IsReference
    <3>4. QED
      BY <1>2, <2>2, <3>2, <3>3 DEF SymValue, Promise!Target, Promise!Nameless
  <2>3. QED
    BY <2>1, <2>2
<1>3. QED
  BY <1>1, <1>2

(* so that the word written is the one it says. *)
LEMMA PatchAgrees ==
  ASSUME Settled, NEW f \in DOMAIN inputs, NEW i \in DOMAIN inputs[f].relas,
         ~SymbolMissing(f, inputs[f].relas[i])
  PROVE  Patch(f, inputs[f].relas[i]) = Promise!Written(f, inputs[f].relas[i])
<1> DEFINE r == inputs[f].relas[i]
<1>1. IsRela(r)
  BY FileTypes DEF Settled, LayoutInv, IsObject
<1>2. r.sec \in Section /\ r.off \in Int
  BY <1>1 DEF IsRela, Section
<1>3. Promise!Start[r.sec] = addr[r.sec] /\ Promise!Offset(f)[r.sec] = mergeOff[f][r.sec]
  BY DEF Settled, Agreed
<1>4. addr[r.sec] \in Nat /\ mergeOff[f][r.sec] \in Nat
  <2>1. f \in DOMAIN mergeOff
    BY DEF Settled, LayoutInv, TypeOK, Progress, Resolving
  <2>2. addr \in [Section -> Nat] /\ mergeOff[f] \in [Section -> Nat]
    BY <2>1 DEF Settled, LayoutInv, TypeOK
  <2>3. QED
    BY <1>2, <2>2
<1>5. SymValue(f, r) = Promise!Target(f, r)
  BY TargetAgrees
<1> HIDE DEF r
<1>6. Base(f, r.sec) + r.off = Promise!Start[r.sec] + Promise!Offset(f)[r.sec] + r.off
  BY <1>3 DEF Base
<1>7. mergeOff[f][r.sec] + r.off
        = (Promise!Start[r.sec] + Promise!Offset(f)[r.sec] + r.off) - Promise!Start[r.sec]
  BY <1>2, <1>3, <1>4
<1>8. Width(r.type) = Promise!Width(r.type)
  BY DEF Width, Promise!Width
<1>9. Patch(f, r) = Promise!Written(f, r)
  BY <1>5, <1>6, <1>7, <1>8 DEF Patch, Promise!Written
<1>10. QED
  BY <1>9 DEF r

(* Its relocations are the ones apply_relocations goes through. *)
LEMMA RelasAre ==
  Promise!Relas = {<<k[1], RelaOf[k]>> : k \in RelaKeys}
<1>1. ASSUME NEW l \in Promise!Relas
      PROVE  \E k \in RelaKeys : l = <<k[1], RelaOf[k]>>
  <2>1. PICK f \in DOMAIN inputs : l \in {<<f, inputs[f].relas[i]>> : i \in DOMAIN inputs[f].relas}
    BY DEF Promise!Relas
  <2>2. PICK i \in DOMAIN inputs[f].relas : l = <<f, inputs[f].relas[i]>>
    BY <2>1
  <2>3. <<f, i>> \in RelaKeys
    BY RelaKeysAre
  <2>4. RelaOf[<<f, i>>] = inputs[f].relas[i]
    BY <2>3 DEF RelaOf
  <2>5. QED
    BY <2>2, <2>3, <2>4
<1>2. ASSUME NEW k \in RelaKeys
      PROVE  <<k[1], RelaOf[k]>> \in Promise!Relas
  <2>1. k[1] \in DOMAIN inputs /\ k[2] \in DOMAIN inputs[k[1]].relas
    BY RelaKeysAre
  <2>2. RelaOf[k] = inputs[k[1]].relas[k[2]]
    BY DEF RelaOf
  <2>3. QED
    BY <2>1, <2>2 DEF Promise!Relas
<1>3. QED
  BY <1>1, <1>2

(* Cardinality in AbstractLink is Cardinality. *)
LEMMA SameCardinality == \A S : Promise!Cardinality(S) = Cardinality(S)
BY DEF Promise!Cardinality, Cardinality

(* The numbers to n are n. *)
LEMMA UpTo == ASSUME NEW n \in Nat PROVE IsFiniteSet(1 .. n) /\ Cardinality(1 .. n) = n
<1>1. /\ IsFiniteSet(1 .. n)
      /\ Cardinality(1 .. n) = IF 1 > n THEN 0 ELSE n - 1 + 1
  BY FS_Interval
<1>2. QED
  BY <1>1

(* The values of a function on a finite set are finitely many. *)
LEMMA ImageFinite ==
  ASSUME NEW S, IsFiniteSet(S), NEW F, DOMAIN F = S
  PROVE  IsFiniteSet({F[x] : x \in S})
<1> DEFINE T == {F[x] : x \in S}
           h == [x \in S |-> F[x]]
<1>1. h \in Surjection(S, T)
  BY DEF Surjection
<1>2. QED
  BY <1>1, FS_Surjection

(* There are finitely many symbols, *)
LEMMA SymbolsFinite == ASSUME TypeOK PROVE IsFiniteSet(Promise!Symbols)
<1> DEFINE F == [f \in DOMAIN inputs |-> {f} \X DOMAIN inputs[f].syms]
           T == {F[f] : f \in DOMAIN inputs}
<1>1. Len(inputs) \in Nat /\ DOMAIN inputs = 1 .. Len(inputs)
  BY DEF TypeOK
<1>2. IsFiniteSet(DOMAIN inputs)
  BY <1>1, UpTo
<1>3. ASSUME NEW f \in DOMAIN inputs PROVE IsFiniteSet(F[f])
  <2>1. DOMAIN inputs[f].syms = 1 .. Len(inputs[f].syms) /\ Len(inputs[f].syms) \in Nat
    BY FileTypes
  <2>2. IsFiniteSet({f}) /\ IsFiniteSet(DOMAIN inputs[f].syms)
    BY <2>1, UpTo, FS_Singleton
  <2>3. IsFiniteSet({f} \X DOMAIN inputs[f].syms)
    BY <2>2, FS_Product
  <2>4. QED
    BY <2>3
<1>4. DOMAIN F = DOMAIN inputs
  OBVIOUS
<1>5. Promise!Symbols = UNION T
  BY DEF Promise!Symbols
<1> HIDE DEF F
<1>6. IsFiniteSet(T)
  BY <1>2, <1>4, ImageFinite
<1>7. \A U \in T : IsFiniteSet(U)
  BY <1>3
<1> HIDE DEF T
<1>8. QED
  BY <1>5, <1>6, <1>7, FS_UNION

(* and finitely many names. *)
LEMMA NamesFinite == ASSUME TypeOK PROVE IsFiniteSet(Promise!Names)
<1> DEFINE F == [k \in Promise!Named |-> Promise!Sym(k).name]
<1>1. Promise!Named \in SUBSET Promise!Symbols
  BY DEF Promise!Named
<1>2. IsFiniteSet(Promise!Named)
  BY <1>1, SymbolsFinite, FS_Subset
<1>3. Promise!Names = {F[k] : k \in Promise!Named}
  BY DEF Promise!Names
<1>4. DOMAIN F = Promise!Named
  OBVIOUS
<1> HIDE DEF F
<1>5. QED
  BY <1>2, <1>3, <1>4, ImageFinite

(* A table of all names has as many entries as there are names, *)
LEMMA NamesFit ==
  ASSUME Settled, Len(table) <= MaxSyms
  PROVE  Promise!Cardinality(Promise!Names) <= MaxSyms
<1> DEFINE h == [i \in 1 .. Len(table) |-> table[i].name]
<1>1. h \in Surjection(1 .. Len(table), Promise!Names)
  <2>1. \A i \in 1 .. Len(table) : h[i] \in Promise!Names
    BY Meanings
  <2>2. \A n \in Promise!Names : \E i \in 1 .. Len(table) : h[i] = n
    BY Meanings
  <2>3. QED
    BY <2>1, <2>2 DEF Surjection
<1>2. Len(table) \in Nat
  BY Meanings
<1>3. IsFiniteSet(1 .. Len(table)) /\ Cardinality(1 .. Len(table)) = Len(table)
  BY <1>2, UpTo
<1> HIDE DEF h
<1>4. /\ IsFiniteSet(Promise!Names)
      /\ Cardinality(Promise!Names) <= Len(table)
  BY <1>1, <1>3, FS_Surjection
<1>5. Cardinality(Promise!Names) \in Nat
  BY <1>4, FS_CardinalityType
<1>6. QED
  BY <1>2, <1>4, <1>5, SameCardinality, BoundsAssumption

(* and a table that lacks one has fewer. *)
LEMMA NamesOverflow ==
  ASSUME TypeOK, NEW t, NEW V, t \in Seq(Entry(Promise!Names, V)),
         \A i, j \in 1 .. Len(t) : t[i].name = t[j].name => i = j,
         NEW n \in Promise!Names, \A i \in 1 .. Len(t) : t[i].name # n,
         Len(t) >= MaxSyms
  PROVE  Promise!Cardinality(Promise!Names) > MaxSyms
<1> DEFINE N == Len(t) + 1
           h == [i \in 1 .. N |-> IF i = N THEN n ELSE t[i].name]
<1>1. Len(t) \in Nat /\ N \in Nat
  OBVIOUS
<1>2. h \in Injection(1 .. N, Promise!Names)
  <2>1. ASSUME NEW i \in 1 .. N PROVE h[i] \in Promise!Names
    <3>1. CASE i = N
      BY <3>1
    <3>2. CASE i # N
      <4>1. i \in 1 .. Len(t)
        BY <3>2, <1>1
      <4>2. t[i] \in Entry(Promise!Names, V)
        BY <4>1
      <4>3. t[i].name \in Promise!Names
        BY <4>2 DEF Entry
      <4>4. QED
        BY <3>2, <4>3
    <3>3. QED
      BY <3>1, <3>2
  <2>2. ASSUME NEW i \in 1 .. N, NEW j \in 1 .. N, h[i] = h[j]
        PROVE  i = j
    <3>1. i # N => i \in 1 .. Len(t)
      BY <1>1
    <3>2. j # N => j \in 1 .. Len(t)
      BY <1>1
    <3>3. QED
      BY <2>2, <3>1, <3>2
  <2>3. h \in [1 .. N -> Promise!Names]
    BY <2>1
  <2> HIDE DEF h
  <2>4. QED
    BY <2>2, <2>3 DEF Injection, IsInjective
<1>3. IsFiniteSet(Promise!Names)
  BY NamesFinite
<1>4. IsFiniteSet(1 .. N) /\ Cardinality(1 .. N) = N
  BY <1>1, UpTo
<1> HIDE DEF h, N
<1>5. Cardinality(1 .. N) <= Cardinality(Promise!Names)
  BY <1>2, <1>3, FS_Injection
<1>6. Cardinality(Promise!Names) \in Nat
  BY <1>3, FS_CardinalityType
<1>7. QED
  BY <1>1, <1>4, <1>5, <1>6, SameCardinality, BoundsAssumption DEF N

(* What write_output is about to write is the executable that AbstractLink *)
(* derives from the list of files.                                         *)
LEMMA ImageAgrees ==
  ASSUME LinkInv, phase = "writing"
  PROVE  Image = Promise!Executable
<1>0. Settled /\ TypeOK /\ Agreed
  BY SettledThen DEF Settled, LayoutInv
<1>1. /\ patches = WordsOf(RelaKeys, RelaOf, WordOf)
      /\ Clean(RelaKeys, RelaOf, Wrong)
      /\ entry = Promise!Meaning(EntryName)
  BY <1>0, EntryAgrees DEF LinkInv, RelaInv, Relocated, Applied
<1>2. copyOff = [f \in DOMAIN inputs |-> Promise!Offset(f)]
  <2>1. copyOff = mergeOff /\ Len(mergeOff) = Len(inputs)
    BY DEF LinkInv, StageInv, Resolving, LayoutInv, Progress
  <2>2. DOMAIN mergeOff = DOMAIN inputs /\ mergeOff = [f \in DOMAIN mergeOff |-> mergeOff[f]]
    BY <1>0, <2>1 DEF TypeOK
  <2>3. \A f \in DOMAIN inputs : Promise!Offset(f) = mergeOff[f]
    BY <1>0 DEF Agreed
  <2>4. QED
    BY <2>1, <2>2, <2>3
<1>3. ASSUME NEW k \in RelaKeys
      PROVE  WordOf[k] = Promise!Written(k[1], RelaOf[k])
  <2>1. k[1] \in DOMAIN inputs /\ k[2] \in DOMAIN inputs[k[1]].relas
    BY RelaKeysAre
  <2>2. ~SymbolMissing(k[1], inputs[k[1]].relas[k[2]])
    BY <1>1 DEF Clean, Wrong, Missing
  <2>3. Patch(k[1], inputs[k[1]].relas[k[2]])
          = Promise!Written(k[1], inputs[k[1]].relas[k[2]])
    BY <1>0, <2>1, <2>2, PatchAgrees
  <2>4. QED
    BY <2>3 DEF WordOf, RelaOf
<1>4. patches = {Promise!Written(k[1], k[2]) :
                   k \in {l \in Promise!Relas : l[2].type # "NONE"}}
  <2>1. patches = {Promise!Written(k[1], RelaOf[k]) :
                     k \in {l \in RelaKeys : RelaOf[l].type # "NONE"}}
    BY <1>1, <1>3 DEF WordsOf
  <2>2. ASSUME NEW k \in RelaKeys, RelaOf[k].type # "NONE"
        PROVE  \E l \in Promise!Relas : /\ l[2].type # "NONE"
                 /\ Promise!Written(k[1], RelaOf[k]) = Promise!Written(l[1], l[2])
    <3>1. <<k[1], RelaOf[k]>> \in Promise!Relas
      BY RelasAre
    <3>2. QED
      BY <2>2, <3>1
  <2>3. ASSUME NEW l \in Promise!Relas, l[2].type # "NONE"
        PROVE  \E k \in RelaKeys : /\ RelaOf[k].type # "NONE"
                 /\ Promise!Written(l[1], l[2]) = Promise!Written(k[1], RelaOf[k])
    <3>1. PICK k \in RelaKeys : l = <<k[1], RelaOf[k]>>
      BY RelasAre
    <3>2. QED
      BY <2>3, <3>1
  <2>4. QED
    BY <2>1, <2>2, <2>3
<1>5. total = Promise!Size /\ addr = Promise!Start
  BY <1>0 DEF Agreed
<1>6. QED
  BY <1>1, <1>2, <1>4, <1>5 DEF Image, Promise!Executable

(* From the relocations on every name is resolved. *)
LEMMA ResolvedThen ==
  ASSUME LinkInv, phase \in {"relocating", "writing"}
  PROVE  Promise!Resolved
<1>0. Settled
  BY SettledThen
<1>1. inputs # <<>> /\ Len(inputs) <= MaxInputs
  BY DEF LinkInv, StageInv
<1>2. Promise!Cardinality(Promise!Names) <= MaxSyms
  BY <1>0, NamesFit DEF LinkInv, TableInv
<1>3. Promise!Unresolved = {} /\ Promise!Meaning(EntryName) # 0
  BY <1>0, UndefinedAgrees, EntryAgrees DEF LinkInv, RelaInv
<1>4. QED
  BY <1>1, <1>2, <1>3 DEF Promise!Resolved

(* The merged sections of tld and of AbstractLink have the same ends. *)
LEMMA StrayAgrees ==
  ASSUME Settled, NEW f \in DOMAIN inputs, NEW i \in DOMAIN inputs[f].relas
  PROVE  Promise!Stray(f, inputs[f].relas[i])
           <=> /\ inputs[f].relas[i].type \notin {"NONE", "UNSUPPORTED"}
               /\ ~Inside(f, inputs[f].relas[i])
<1> DEFINE r == inputs[f].relas[i]
           at == mergeOff[f][r.sec] + r.off
           end == at + Width(r.type)
<1>1. r.sec \in Section /\ r.off \in Int
  BY FileTypes DEF Settled, LayoutInv, IsObject, IsRela, Section
<1>2. Promise!Offset(f) = mergeOff[f] /\ Promise!Size = total
  BY DEF Settled, Agreed
<1>3. at \in Int /\ end \in Int /\ total[r.sec] \in Int
  <2>1. f \in DOMAIN mergeOff
    BY DEF Settled, LayoutInv, TypeOK, Progress, Resolving
  <2>2. total \in [Section -> Nat] /\ mergeOff[f] \in [Section -> Nat]
    BY <2>1 DEF Settled, LayoutInv, TypeOK
  <2>3. Width(r.type) \in Int
    BY DEF Width
  <2>4. mergeOff[f][r.sec] \in Int
    BY <1>1, <2>2
  <2>5. at \in Int
    BY <1>1, <2>4
  <2>6. QED
    BY <1>1, <2>2, <2>3, <2>5
<1>4. Inside(f, r) <=> 0 <= at /\ end <= total[r.sec]
  BY DEF Inside
<1>5. Promise!Stray(f, r) <=> /\ r.type \notin {"NONE", "UNSUPPORTED"}
                             /\ (at < 0 \/ end > total[r.sec])
  BY <1>2 DEF Promise!Stray, Promise!Width, Width
<1>6. (at < 0 \/ end > total[r.sec]) <=> ~(0 <= at /\ end <= total[r.sec])
  BY <1>3
<1>7. QED
  BY <1>4, <1>5, <1>6

(* It is written only if the files can be linked. *)
LEMMA WritingIsLinkable ==
  ASSUME LinkInv, phase = "writing"
  PROVE  Promise!Linkable
<1>0. Settled
  BY SettledThen
<1>1. ASSUME NEW l \in Promise!Relas
      PROVE  /\ ~Promise!Nameless(l[1], l[2])
             /\ l[2].type # "UNSUPPORTED"
             /\ ~Promise!Stray(l[1], l[2])
  <2>1. PICK k \in RelaKeys : l = <<k[1], RelaOf[k]>>
    BY RelasAre
  <2>2. /\ k[1] \in DOMAIN inputs /\ k[2] \in DOMAIN inputs[k[1]].relas
        /\ RelaOf[k] = inputs[k[1]].relas[k[2]]
    BY RelaKeysAre DEF RelaOf
  <2>3. k \notin Wrong /\ RelaOf[k].type # "UNSUPPORTED"
    BY DEF LinkInv, RelaInv, Relocated, Applied, Clean
  <2>4. ~SymbolMissing(k[1], RelaOf[k])
    BY <2>2, <2>3 DEF Wrong, Missing
  <2>5. ~Promise!Nameless(k[1], RelaOf[k])
    BY <1>0, <2>2, <2>4, TargetAgrees
  <2>6. RelaOf[k].type # "NONE" => Inside(k[1], RelaOf[k])
    BY <2>2, <2>3 DEF Wrong, Straying
  <2>7. ~Promise!Stray(k[1], RelaOf[k])
    BY <1>0, <2>2, <2>6, StrayAgrees
  <2>8. l[1] = k[1] /\ l[2] = RelaOf[k]
    BY <2>1
  <2>9. QED
    BY <2>3, <2>5, <2>7, <2>8
<1>2. Promise!Resolved
  BY ResolvedThen
<1>3. QED
  BY <1>1, <1>2 DEF Promise!Linkable

(* A complaint is true. *)
LEMMA TooManyIsTrue ==
  ASSUME LinkInv, TooManySymbols
  PROVE  Promise!Cardinality(Promise!Names) > MaxSyms
<1>1. AtSymbol("collecting") \/ AtSymbol("registering")
  BY DEF TooManySymbols
<1>2. /\ TypeOK /\ Symbol.name \in Promise!Names
      /\ Entries(Symbol.name) = {} /\ Len(table) >= MaxSyms
  <2>1. LayoutInv /\ (IsDefinition(Symbol) \/ IsReference(Symbol))
    BY DEF TooManySymbols, LinkInv
  <2>2. QED
    BY <1>1, <2>1, CurrentSymbol DEF TooManySymbols, LayoutInv
<1>3. TableHolds(table, Collected, Registered)
  BY <1>1 DEF LinkInv, TableInv, AtSymbol, Resolving
<1>4. /\ table \in Seq(Entry(Promise!Names, Nat))
      /\ \A i, j \in 1 .. Len(table) : table[i].name = table[j].name => i = j
  BY <1>3 DEF TableHolds, TableOf
<1>5. \A i \in 1 .. Len(table) : table[i].name # Symbol.name
  BY <1>2, <1>4, EntriesAre
<1>6. QED
  BY <1>2, <1>4, <1>5, NamesOverflow

(* The relocation at hand is in the files. *)
LEMMA RelaIsThere ==
  ASSUME LinkInv, AtRela
  PROVE  /\ fi \in DOMAIN inputs /\ si \in DOMAIN inputs[fi].relas
         /\ <<fi, Rela>> \in Promise!Relas
<1>0. TypeOK
  BY DEF LinkInv, LayoutInv
<1>1. fi \in DOMAIN inputs /\ si \in DOMAIN inputs[fi].relas
  <2>1. fi \in DOMAIN inputs
    BY <1>0 DEF AtRela, TypeOK
  <2>2. DOMAIN inputs[fi].relas = 1 .. Len(inputs[fi].relas) /\ Len(inputs[fi].relas) \in Nat
    BY <1>0, <2>1, FileTypes
  <2>3. si \in Nat \ {0} /\ si <= Len(inputs[fi].relas)
    BY <1>0 DEF AtRela, TypeOK
  <2>4. QED
    BY <2>1, <2>2, <2>3
<1>2. <<fi, Rela>> \in Promise!Relas
  BY <1>1 DEF Promise!Relas, Rela
<1>3. QED
  BY <1>1, <1>2

(* A relocation that find_sym_value stops at has a symbol without a name. *)
LEMMA MissingIsNameless ==
  ASSUME LinkInv, AtRela, SymbolMissing(fi, Rela)
  PROVE  \E l \in Promise!Relas : Promise!Nameless(l[1], l[2])
<1>0. Settled /\ TypeOK
  BY SettledThen DEF AtRela, Settled, LayoutInv
<1>1. fi \in DOMAIN inputs /\ si \in DOMAIN inputs[fi].relas
  BY RelaIsThere
<1>2. <<fi, Rela>> \in Promise!Relas
  BY RelaIsThere
<1>3. Promise!Nameless(fi, Rela)
  <2> DEFINE y == inputs[fi].syms[Rela.sym]
  <2>1. Rela.sym \in DOMAIN inputs[fi].syms /\ y.bind # "LOCAL" /\ Entries(y.name) = {}
    BY DEF SymbolMissing
  <2>2. y.name \notin Promise!Names
    BY <1>0, <2>1, LookupMeans
  <2>3. <<fi, Rela.sym>> \in Promise!Symbols
    BY <1>1, <2>1, SymbolsAre
  <2>4. Promise!Sym(<<fi, Rela.sym>>) = y
    BY DEF Promise!Sym
  <2> HIDE DEF y
  <2>5. <<fi, Rela.sym>> \notin Promise!Named
    BY <2>2, <2>4 DEF Promise!Names
  <2>6. ~Promise!IsDefinition(y) /\ ~Promise!IsReference(y)
    BY <2>3, <2>4, <2>5 DEF Promise!Named
  <2>7. y.name = NoName
    BY <2>1, <2>6 DEF Promise!IsDefinition, Promise!IsReference
  <2>8. QED
    BY <2>1, <2>7 DEF Promise!Nameless, y
<1>4. QED
  BY <1>2, <1>3

(* A relocation of an unsupported type is in the files, *)
LEMMA UnsupportedIsThere ==
  ASSUME LinkInv, UnsupportedRela
  PROVE  \E l \in Promise!Relas : l[2].type = "UNSUPPORTED"
BY RelaIsThere DEF UnsupportedRela

(* and so is one that is written outside. *)
LEMMA StrayIsThere ==
  ASSUME LinkInv, StrayRela
  PROVE  \E l \in Promise!Relas : Promise!Stray(l[1], l[2])
<1>1. /\ AtRela /\ ~Inside(fi, Rela)
      /\ Rela.type \notin {"NONE", "UNSUPPORTED"}
  BY DEF StrayRela
<1>2. Settled
  BY <1>1, SettledThen DEF AtRela
<1>3. /\ fi \in DOMAIN inputs /\ si \in DOMAIN inputs[fi].relas
      /\ <<fi, Rela>> \in Promise!Relas
  BY <1>1, RelaIsThere
<1>4. Promise!Stray(fi, Rela)
  BY <1>1, <1>2, <1>3, StrayAgrees DEF Rela
<1>5. QED
  BY <1>3, <1>4

(* The mapping: what is known of the outcome from outside. *)
Status == IF phase \in {"done", "failed", "lost"} THEN phase ELSE "busy"
Result == CASE output = "none" \/ phase = "lost" -> <<>>
            [] output = "partial" /\ phase # "lost" -> <<"partial">>
            [] output = "complete" /\ phase # "lost" -> <<Image>>

(* The initial states map to initial states. *)
LEMMA PromiseInit == Init => Promise!Init
BY DEF Init, Promise!Init

Running == phase \notin {"done", "failed", "lost"}

(* A failure with a justified reason is a Reject. *)
LEMMA FailRejects ==
  ASSUME LinkInv, NEW r \in Promise!Reasons, Fail(r), Running,
         Promise!Justified(r), r # "short write"
  PROVE  Promise!Reject
<1>1. /\ phase' = "failed" /\ reason' = r /\ inputs' = inputs
      /\ output' = output /\ output = "none"
  BY DEF Fail, LinkInv, StageInv, Running
<1>2. Status = "busy" /\ Status' = "failed" /\ Result' = <<>>
  BY <1>1 DEF Status, Result, Running
<1>3. QED
  BY <1>1, <1>2 DEF Promise!Reject, Status, Result

(* Every complaint of tld is justified by the files and the bounds. *)
LEMMA ComplaintsAreTrue ==
  ASSUME LinkInv, Failing
  PROVE  /\ Running
         /\ \E r \in Promise!Reasons : Fail(r) /\ Promise!Justified(r) /\ r # "short write"
<1> USE DEF Promise!Reasons, Promise!Justified, Running
<1>1. CASE TooManyInputs
  BY <1>1 DEF TooManyInputs
<1>2. CASE ReadInputFails
  BY <1>2 DEF ReadInputFails
<1>3. CASE NoInputs
  BY <1>3 DEF NoInputs
<1>4. CASE NoMemory
  BY <1>4 DEF NoMemory
<1>5. CASE TooManySymbols
  BY <1>5, TooManyIsTrue DEF TooManySymbols, AtSymbol
<1>6. CASE UndefinedSymbol
  <2>1. Settled /\ Undefined # {}
    BY <1>6, SettledThen DEF UndefinedSymbol
  <2>2. Promise!Unresolved # {}
    BY <2>1, UndefinedAgrees
  <2>3. QED
    BY <1>6, <2>2 DEF UndefinedSymbol
<1>7. CASE NoEntryPoint
  <2>1. Settled /\ Undefined = {} /\ EntryAddr = 0
    BY <1>7, SettledThen DEF NoEntryPoint
  <2>2. Promise!Unresolved = {} /\ Promise!Meaning(EntryName) = 0
    BY <2>1, UndefinedAgrees, EntryAgrees
  <2>3. QED
    BY <1>7, <2>2 DEF NoEntryPoint
<1>8. CASE UndefinedInRela
  <2>1. \E l \in Promise!Relas : Promise!Nameless(l[1], l[2])
    BY <1>8, MissingIsNameless DEF UndefinedInRela
  <2>2. QED
    BY <1>8, <2>1 DEF UndefinedInRela, AtRela
<1>9. CASE UnsupportedRela
  <2>1. \E l \in Promise!Relas : l[2].type = "UNSUPPORTED"
    BY <1>9, UnsupportedIsThere
  <2>2. QED
    BY <1>9, <2>1 DEF UnsupportedRela, AtRela
<1>10. CASE CannotWrite
  <2>1. PICK r \in {"no memory", "cannot create"} : Fail(r)
    BY <1>10 DEF CannotWrite
  <2>2. QED
    BY <1>10, <2>1 DEF CannotWrite
<1>11. QED
  BY <1>1, <1>2, <1>3, <1>4, <1>5, <1>6, <1>7, <1>8, <1>9, <1>10 DEF Failing

(* A step that neither reads a file nor ends is none of AbstractLink's. *)
LEMMA OnTheWay ==
  ASSUME StageInv, Running, Running', UNCHANGED <<inputs, reason, output>>
  PROVE  UNCHANGED Promise!avars
<1>1. output = "none"
  BY DEF StageInv, Running
<1>2. Status' = Status /\ Result' = Result
  BY <1>1 DEF Status, Result, Running
<1>3. QED
  BY <1>2 DEF Promise!avars, Status, Result

(* Every step is a step of AbstractLink or a stutter. *)
LEMMA PromiseStep ==
  ASSUME LinkInv, [Next]_vars
  PROVE  [Promise!Next]_(Promise!avars)
<1>0. StageInv
  BY DEF LinkInv
<1>1. CASE Failing
  BY <1>1, ComplaintsAreTrue, FailRejects DEF Promise!Next
<1>2. CASE ReadInput
  <2>1. /\ phase = "reading" /\ phase' = phase /\ UNCHANGED <<reason, output>>
        /\ output = "none" /\ \E o \in Objects : inputs' = Append(inputs, o)
    BY <1>0, <1>2 DEF ReadInput, StageInv
  <2>2. Status = "busy" /\ Status' = Status /\ Result' = Result
    BY <2>1 DEF Status, Result
  <2>3. Promise!AddFile
    BY <2>1, <2>2 DEF Promise!AddFile, Status, Result
  <2>4. QED
    BY <2>3 DEF Promise!Next
<1>3. CASE ShortWrite
  <2>1. /\ phase = "writing" /\ phase' = "failed" /\ reason' = "short write"
        /\ output' = "partial" /\ inputs' = inputs
    BY <1>3 DEF ShortWrite
  <2>2. Status = "busy" /\ Status' = "failed" /\ Result' = <<"partial">>
    BY <2>1 DEF Status, Result
  <2>3. Promise!Reject
    BY <2>1, <2>2 DEF Promise!Reject, Promise!Reasons, Promise!Justified, Status, Result
  <2>4. QED
    BY <2>3 DEF Promise!Next
<1>4. CASE WriteOutput
  <2>1. /\ phase = "writing" /\ phase' = "done" /\ output' = "complete"
        /\ UNCHANGED <<reason, inputs, layoutVars, symVars, patches>>
    BY <1>4 DEF WriteOutput
  <2>2. Image = Promise!Executable /\ Promise!Linkable
    BY <2>1, ImageAgrees, WritingIsLinkable
  <2>3. Image' = Image
    BY <2>1 DEF Image, layoutVars, symVars
  <2>4. Status = "busy" /\ Status' = "done" /\ Result' = <<Image>>
    BY <2>1, <2>3 DEF Status, Result
  <2>5. Promise!Produce
    BY <2>1, <2>2, <2>4 DEF Promise!Produce, Status, Result
  <2>6. QED
    BY <2>5 DEF Promise!Next
<1>5. CASE EndOfArguments \/ MergeFile \/ SetAddresses \/ CopyFile
  <2>1. /\ Running /\ Running'
        /\ UNCHANGED <<inputs, reason, output>>
    BY <1>5 DEF EndOfArguments, MergeFile, SetAddresses, CopyFile, Running
  <2>2. QED
    BY <1>0, <2>1, OnTheWay
<1>6. CASE SkipSymbol \/ CollectDefinition \/ RegisterReference
  <2>1. /\ Running /\ Running'
        /\ UNCHANGED <<inputs, reason, output>>
    BY <1>6 DEF SkipSymbol, CollectDefinition, RegisterReference, AtSymbol, NextSymbol, Running
  <2>2. QED
    BY <1>0, <2>1, OnTheWay
<1>7. CASE SetEntry \/ ApplyRela \/ NextFile \/ NextLoop
  <2>1. /\ Running /\ Running'
        /\ UNCHANGED <<inputs, reason, output>>
    BY <1>7 DEF SetEntry, ApplyRela, AtRela, NextFile, NextLoop, Running
  <2>2. QED
    BY <1>0, <2>1, OnTheWay
<1>8. CASE StrayRela
  <2>1. /\ phase = "relocating" /\ phase' = "lost" /\ output = "none"
        /\ UNCHANGED <<inputs, reason>>
    BY <1>0, <1>8 DEF StrayRela, AtRela, StageInv
  <2>2. Status = "busy" /\ Status' = "lost" /\ Result' = Result
    BY <2>1 DEF Status, Result
  <2>3. Promise!Resolved /\ \E l \in Promise!Relas : Promise!Stray(l[1], l[2])
    BY <1>8, <2>1, ResolvedThen, StrayIsThere
  <2>4. Promise!Lose
    BY <2>1, <2>2, <2>3 DEF Promise!Lose, Status, Result
  <2>5. QED
    BY <2>4 DEF Promise!Next
<1>9. CASE UNCHANGED vars
  <2>1. UNCHANGED <<phase, inputs, reason, output, entry, addr, total, copyOff, patches>>
    BY <1>9 DEF vars
  <2>2. Status' = Status /\ Image' = Image
    BY <2>1 DEF Status, Image
  <2>3. Result' = Result
    BY <2>1, <2>2 DEF Result
  <2>4. QED
    BY <2>1, <2>2, <2>3 DEF Promise!avars, Status, Result
<1>10. QED
  BY <1>1, <1>2, <1>3, <1>4, <1>5, <1>6, <1>7, <1>8, <1>9, StepCases DEF Working

(* tld implements AbstractLink, for all objects and bounds: it writes an   *)
(* executable only if the files can be linked, and then the one that       *)
(* AbstractLink derives from the list of files; it fails only with a       *)
(* reason that the files or the bounds justify; a failing write is the     *)
(* only way to leave a partial file behind; and it leaves its memory only  *)
(* if all names are resolved and a relocation leads outside.               *)
THEOREM PromiseKept == Spec => ImplementsPromise
<1>1. Init => Promise!Init
  BY PromiseInit
<1>2. LinkInv /\ [Next]_vars => [Promise!Next]_(Promise!avars)
  BY PromiseStep
<1>3. QED
  BY <1>1, <1>2, LinkInvariant, PTL DEF Spec, ImplementsPromise, Promise!Spec

(* Entries are only added. *)
TableGrows == \A i \in DOMAIN table :
                /\ i \in DOMAIN table'
                /\ table'[i].name = table[i].name
                /\ table[i].defined => table'[i] = table[i]

(* Append only adds, *)
LEMMA AppendGrows ==
  ASSUME NEW S, table \in Seq(S), NEW e, table' = Append(table, e)
  PROVE  TableGrows
BY DEF TableGrows

(* and so does every step. *)
LEMMA TableStep ==
  ASSUME LinkInv, [Next]_vars
  PROVE  TableGrows \/ UNCHANGED vars
<1>0. phase \in Resolving => table \in Seq(Entry(Promise!Names, Nat))
  BY DEF LinkInv, TableInv, TableHolds, TableOf
<1>1. CASE table' = table
  BY <1>1 DEF TableGrows
<1>2. CASE Failing
  BY <1>1, <1>2, FailingFrame DEF symVars
<1>3. CASE CollectDefinition
  <2>1. table \in Seq(Entry(Promise!Names, Nat))
    BY <1>0, <1>3 DEF CollectDefinition, AtSymbol, Resolving
  <2>2. CASE Entries(Symbol.name) = {}
    BY <1>3, <2>1, <2>2, AppendGrows DEF CollectDefinition, Define
  <2>3. CASE Entries(Symbol.name) # {}
    BY <1>3, <2>1, <2>3 DEF CollectDefinition, Define, Entries, TableGrows
  <2>4. QED
    BY <2>2, <2>3
<1>4. CASE RegisterReference
  <2>1. table \in Seq(Entry(Promise!Names, Nat))
    BY <1>0, <1>4 DEF RegisterReference, AtSymbol, Resolving
  <2>2. table' = table \/ table' = Append(table, FreshEntry(Symbol.name))
    BY <1>4 DEF RegisterReference
  <2>3. QED
    BY <1>1, <2>1, <2>2, AppendGrows
<1>5. CASE SkipSymbol \/ SetEntry \/ StrayRela \/ NextFile \/ ShortWrite \/ WriteOutput
  BY <1>1, <1>5 DEF SkipSymbol, SetEntry, StrayRela, NextFile, ShortWrite, WriteOutput,
                    symVars
<1>6. CASE ReadInput \/ EndOfArguments \/ MergeFile \/ SetAddresses
  BY <1>1, <1>6 DEF ReadInput, EndOfArguments, MergeFile, SetAddresses, symVars
<1>7. CASE CopyFile \/ ApplyRela \/ NextLoop
  BY <1>1, <1>7 DEF CopyFile, ApplyRela, NextLoop, symVars
<1>8. QED
  BY <1>2, <1>3, <1>4, <1>5, <1>6, <1>7, StepCases DEF Working

(* resolve_symbols binds a name to the first definition it collects and no *)
(* later file changes the address (tld.c:411): once defined, an entry of   *)
(* the table stays as it is.                                               *)
THEOREM DefinitionsFinal == Spec => DefinitionIsFinal
<1>1. LinkInv /\ [Next]_vars =>
        [\A i \in DOMAIN table :
           /\ i \in DOMAIN table'
           /\ table'[i].name = table[i].name
           /\ table[i].defined => table'[i] = table[i]]_vars
  BY TableStep DEF TableGrows
<1>2. QED
  BY <1>1, LinkInvariant, PTL DEF Spec, DefinitionIsFinal
=============================================================================
