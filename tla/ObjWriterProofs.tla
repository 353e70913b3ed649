--------------------------- MODULE ObjWriterProofs ---------------------------
(***************************************************************************)
(* Theorems about elf_write_object for every program and every size of its *)
(* tables: three pairs of loops agree on the numbering of symbols, sections *)
(* lie where the headers say, and names are read back.                     *)
(***************************************************************************)
EXTENDS ObjWriter, SequenceTheorems, FunctionTheorems, TLAPS

---------------------------------------------------------------------------
(* The inductive invariant. *)

Indices  == 1 .. SymCount
Glob(n)  == Syms[n].global

Writing  == {"writeLocals", "writeGlobals"}
Finished == {"write", "done", "failed"}
Placing  == {"numberLocals", "numberGlobals", "remapText", "remapData"}
              \cup Writing \cup Finished

Typed ==
  /\ IsProgram(prog)
  /\ given \in [Sections -> Seq(Nat)]
  /\ pc \in {"names", "exit"} \cup Placing
  /\ i \in Nat \ {0}
  /\ strtabSz \in Nat
  /\ p \in Nat
  /\ relas \in [Sections -> Seq(Nat)]
  /\ nextIdx \in Nat \ {0}
  /\ symIdx \in [Indices -> Int]
  /\ strIdx \in Seq(Nat)
  /\ symtab \in Seq([sym : Nat, name : Nat])
  /\ firstGlobal \in Nat

(* A loop that has seen the symbols before i, the locals in a first round  *)
(* and the globals in a second, has taken these.                           *)
Taken(n, first, second, later) ==
  \/ pc = first /\ ~Glob(n) /\ n < i
  \/ pc = second /\ (~Glob(n) \/ n < i)
  \/ pc \in later

Numbered(n) == Taken(n, "numberLocals", "numberGlobals",
                     {"remapText", "remapData"} \cup Writing \cup Finished)
Written(n)  == Taken(n, "writeLocals", "writeGlobals", Finished)
Remapped(s, k) ==
  IF s = "text" THEN \/ pc = "remapText" /\ k < i
                     \/ pc \in {"remapData"} \cup Writing \cup Finished
  ELSE \/ pc = "remapData" /\ k < i
       \/ pc \in Writing \cup Finished

(* The order ELF asks for: locals, then globals, each as they came. *)
Before(m, n) == \/ ~Glob(m) /\ Glob(n)
                \/ Glob(m) = Glob(n) /\ m < n

(* The numbers given so far are 1, 2, ... in that order. *)
Numbering ==
  /\ \A n \in Indices : Numbered(n) => symIdx[n] \in 1 .. nextIdx - 1
  /\ \A m, n \in Indices : Numbered(m) /\ Numbered(n) /\ Before(m, n)
                             => symIdx[m] < symIdx[n]
  /\ \A x \in 1 .. nextIdx - 1 : \E n \in Indices : Numbered(n) /\ symIdx[n] = x

(* The symbols written stand at their numbers and nothing else does. *)
InPlace ==
  /\ \A n \in Indices : Written(n) =>
       /\ symIdx[n] \in 1 .. Len(symtab)
       /\ symtab[symIdx[n]] = [sym |-> n, name |-> strIdx[n]]
  /\ \A x \in 1 .. Len(symtab) : \E n \in Indices : Written(n) /\ symIdx[n] = x

Boundary ==
  /\ firstGlobal \in 1 .. Len(symtab) + 1
  /\ pc \notin {"writeGlobals"} \cup Finished => firstGlobal = Len(symtab) + 1
  /\ \A n \in Indices : Written(n) => (Glob(n) <=> symIdx[n] >= firstGlobal)

Remapping ==
  /\ \A s \in Sections : Len(prog.relas[s]) = Len(given[s])
  /\ \A s \in Sections : \A k \in 1 .. Len(given[s]) :
       prog.relas[s][k] = IF Remapped(s, k) THEN Renumbered(given[s][k])
                          ELSE given[s][k]
  /\ pc \in {"remapData"} \cup Writing \cup Finished
       => relas["text"] = prog.relas["text"]
  /\ pc \in Writing \cup Finished => relas["data"] = prog.relas["data"]

(* Where the write position is, relative to the offsets stated. *)
Positions ==
  /\ pc \in Placing => ofs = Layout
  /\ pc \in {"numberLocals", "numberGlobals", "remapText"}
       => p = ofs.text + prog.size["text"]
  /\ pc = "remapData" => p = ofs.relaText + 24 * Len(prog.relas["text"])
  /\ pc \in Writing => p = ofs.symtab + 24 * (Len(symtab) + 1)

Naming ==
  /\ pc = "names" => Len(strIdx) = i - 1 /\ i <= SymCount + 1
  /\ pc \in Placing => Len(strIdx) = SymCount
  /\ names = {<<strIdx[k], k>> : k \in 1 .. Len(strIdx)}
  /\ Len(strIdx) <= SymCount
  /\ \A k \in 1 .. Len(strIdx) : strIdx[k] + Syms[k].len < strtabSz
  /\ \A j, k \in 1 .. Len(strIdx) : j < k => strIdx[j] + Syms[j].len < strIdx[k]
  /\ strtabSz <= StrtabSize

Rounds == pc \in {"numberLocals", "numberGlobals"} \cup Writing => i <= SymCount + 1

IInv == /\ Typed /\ Numbering /\ InPlace /\ Boundary /\ Remapping
        /\ Positions /\ PlacedAsStated /\ Naming /\ Rounds

---------------------------------------------------------------------------
(* Arithmetic of the layout. *)

LEMMA RoundUpAbove ==
  ASSUME NEW v \in Nat, NEW a \in {8, 16}
  PROVE  RoundUp(v, a) \in Nat /\ RoundUp(v, a) >= v
<1>1. CASE a = 8
  BY <1>1 DEF RoundUp
<1>2. CASE a = 16
  BY <1>2 DEF RoundUp
<1>3. QED
  BY <1>1, <1>2

(* Padding up to an offset that is not passed ends there. *)
LEMMA PadToOffset ==
  ASSUME NEW pos \in Nat, NEW at \in Nat, pos <= at
  PROVE  PadTo(pos, at) = at
  BY DEF PadTo

(* A relocation rewritten still holds a number. *)
LEMMA Relabel ==
  ASSUME Typed, NEW s \in Sections, NEW k \in 1 .. Len(prog.relas[s])
  PROVE  Renumbered(prog.relas[s][k]) \in Int
<1>1. prog.relas[s] \in Seq(Nat)
  BY DEF Typed, IsProgram
<1>2. prog.relas[s][k] \in Nat
  BY <1>1
<1>3. QED
  BY <1>2 DEF Typed, Renumbered, Indices

(* No step changes the symbols or the sizes. *)
LEMMA TablesKept ==
  ASSUME Typed, [Next]_vars
  PROVE  /\ prog'.syms = prog.syms
         /\ prog'.size = prog.size
         /\ given' = given
         /\ pc # "remapText" /\ pc # "remapData" => prog' = prog
<1>1. CASE Remap
  <2>1. PICK s \in Sections : /\ pc = Remaps[s]
                             /\ i <= Len(prog.relas[s])
                             /\ prog' = [prog EXCEPT !.relas[s][i] = Renumbered(@)]
                             /\ given' = given
    BY <1>1 DEF Remap
  <2>2. prog'.syms = prog.syms /\ prog'.size = prog.size
    BY <2>1 DEF Typed, IsProgram
  <2>3. pc \in {"remapText", "remapData"}
    BY <2>1, pc = Remaps[s] DEF Remaps
  <2>4. QED
    BY <2>1, <2>2, <2>3
<1>2. CASE ~Remap
  BY <1>2 DEF Next, vars, TooManySymbols, StrtabOverflow, AddName, HeaderAndText, Number,
     EmitRelaText, EmitData, WriteSymbol, NextLoop, EmitTables, WriteFile, Returned, Exit
<1>3. QED
  BY <1>1, <1>2

(* Each offset of the layout leaves room for the section before. *)
LEMMA LayoutFacts ==
  ASSUME Typed
  PROVE  /\ \A s \in {"text", "relaText", "data", "relaData", "symtab", "strtab"} :
              Layout[s] \in Nat
         /\ Layout.text >= 640
         /\ Layout.relaText >= Layout.text + prog.size["text"]
         /\ Layout.data >= Layout.relaText + 24 * Len(prog.relas["text"])
         /\ Layout.relaData >= Layout.data + prog.size["data"]
         /\ Layout.symtab >= Layout.relaData + 24 * Len(prog.relas["data"])
         /\ Layout.strtab = Layout.symtab + 24 * (SymCount + 1)
         /\ Layout.shstrtab = Layout.strtab + strtabSz
<1> DEFINE text     == RoundUp(640, 16)
           relaText == RoundUp(text + prog.size["text"], 8)
           data     == RoundUp(relaText + 24 * Len(prog.relas["text"]), 8)
           relaData == RoundUp(data + prog.size["data"], 8)
           sym      == RoundUp(relaData + 24 * Len(prog.relas["data"]), 8)
           str      == sym + 24 * (SymCount + 1)
<1>0. /\ prog.size["text"] \in Nat /\ prog.size["data"] \in Nat
      /\ Len(prog.relas["text"]) \in Nat /\ Len(prog.relas["data"]) \in Nat
      /\ SymCount \in Nat /\ strtabSz \in Nat
  BY DEF Typed, IsProgram, Sections, SymCount, Syms
<1>1. Layout = [text |-> text, relaText |-> relaText, data |-> data,
                relaData |-> relaData, symtab |-> sym, strtab |-> str,
                shstrtab |-> str + strtabSz]
  BY DEF Layout, ShdrOfs, NumSections
<1>2. \A v \in Nat : RoundUp(v, 8) \in Nat /\ RoundUp(v, 8) >= v
  BY RoundUpAbove
<1>3. text \in Nat /\ text >= 640
  BY RoundUpAbove
<1> HIDE DEF text
<1>4. relaText \in Nat /\ relaText >= text + prog.size["text"]
  <2>1. text + prog.size["text"] \in Nat
    BY <1>0, <1>3
  <2>2. QED
    BY <1>2, <2>1
<1> HIDE DEF relaText
<1>5. data \in Nat /\ data >= relaText + 24 * Len(prog.relas["text"])
  <2>1. relaText + 24 * Len(prog.relas["text"]) \in Nat
    BY <1>0, <1>4
  <2>2. QED
    BY <1>2, <2>1
<1> HIDE DEF data
<1>6. relaData \in Nat /\ relaData >= data + prog.size["data"]
  <2>1. data + prog.size["data"] \in Nat
    BY <1>0, <1>5
  <2>2. QED
    BY <1>2, <2>1
<1> HIDE DEF relaData
<1>7. sym \in Nat /\ sym >= relaData + 24 * Len(prog.relas["data"])
  <2>1. relaData + 24 * Len(prog.relas["data"]) \in Nat
    BY <1>0, <1>6
  <2>2. QED
    BY <1>2, <2>1
<1> HIDE DEF sym
<1>8. str \in Nat /\ str = sym + 24 * (SymCount + 1)
  BY <1>0, <1>7
<1> HIDE DEF str
<1>9. /\ Layout["text"] = text /\ Layout["relaText"] = relaText
      /\ Layout["data"] = data /\ Layout["relaData"] = relaData
      /\ Layout["symtab"] = sym /\ Layout["strtab"] = str
      /\ Layout["shstrtab"] = str + strtabSz
  BY <1>1
<1>10. \A s \in {"text", "relaText", "data", "relaData", "symtab", "strtab"} :
         Layout[s] \in Nat
  BY <1>3, <1>4, <1>5, <1>6, <1>7, <1>8, <1>9
<1>11. QED
  BY <1>3, <1>4, <1>5, <1>6, <1>7, <1>8, <1>9, <1>10

---------------------------------------------------------------------------
(* Each conjunct of the invariant is kept. *)

LEMMA Symbols ==
  ASSUME Typed
  PROVE  /\ SymCount \in Nat
         /\ \A n \in Indices : Syms[n].len \in Nat /\ Syms[n].global \in BOOLEAN
         /\ \A s \in Sections : prog.size[s] \in Nat /\ Len(prog.relas[s]) \in Nat
<1>1. /\ prog.syms \in Seq([len : Nat, global : BOOLEAN])
      /\ prog.size \in [Sections -> Nat] /\ prog.relas \in [Sections -> Seq(Nat)]
  BY DEF Typed, IsProgram
<1>2. SymCount \in Nat
  BY <1>1 DEF SymCount, Syms
<1>3. ASSUME NEW n \in Indices
      PROVE  Syms[n].len \in Nat /\ Syms[n].global \in BOOLEAN
  <2>1. n \in 1 .. Len(prog.syms)
    BY DEF Indices, SymCount, Syms
  <2>2. prog.syms[n] \in [len : Nat, global : BOOLEAN]
    BY <1>1, <2>1, ElementOfSeq
  <2>3. QED
    BY <2>2 DEF Syms
<1>5. \A s \in Sections : prog.size[s] \in Nat /\ Len(prog.relas[s]) \in Nat
  BY <1>1
<1>6. QED
  BY <1>2, <1>3, <1>5

(* The symbols and their count do not change. *)
LEMMA CountKept ==
  ASSUME Typed, [Next]_vars
  PROVE  Syms' = Syms /\ SymCount' = SymCount /\ Indices' = Indices
BY TablesKept DEF Syms, SymCount, Indices

(* PadTo leaves the write position a number. *)
LEMMA PadToNat ==
  ASSUME NEW pos \in Nat, NEW at \in Nat
  PROVE  PadTo(pos, at) \in Nat /\ PadTo(pos, at) >= pos
BY DEF PadTo

(* Every step keeps the types. *)
LEMMA TypedNext == ASSUME IInv, [Next]_vars PROVE Typed'
<1> USE DEF Placing, Writing, Finished
<1>1. Typed /\ Positions /\ Naming
  BY DEF IInv
<1>2. prog'.syms = prog.syms /\ SymCount' = SymCount /\ SymCount \in Nat /\ Indices' = Indices
  BY <1>1, TablesKept, Symbols, CountKept
<1>3. CASE TooManySymbols \/ StrtabOverflow \/ Returned \/ WriteFile \/ UNCHANGED vars
  BY <1>1, <1>2, <1>3 DEF Typed, TooManySymbols, StrtabOverflow, Exit, Returned, WriteFile, vars
<1>4. CASE AddName
  <2>1. Syms[i].len \in Nat
    BY <1>1, <1>4, Symbols DEF Typed, AddName, Indices
  <2>2. strtabSz' \in Nat /\ strIdx' \in Seq(Nat)
    BY <1>1, <1>4, <2>1, SMTT(20) DEF Typed, AddName, AfterName
  <2>3. QED
    BY <1>1, <1>2, <1>4, <2>2 DEF Typed, AddName
<1>5. CASE HeaderAndText
  <2>1. Layout.text \in Nat /\ prog.size["text"] \in Nat
    BY <1>1, LayoutFacts, Symbols DEF Sections
  <2>2. p' \in Nat
    <3>1. p' = PadTo(ShdrOfs + NumSections * 64, Layout.text) + prog.size["text"]
      BY <1>5 DEF HeaderAndText
    <3>2. ShdrOfs + NumSections * 64 \in Nat
      BY DEF ShdrOfs, NumSections
    <3>3. PadTo(ShdrOfs + NumSections * 64, Layout.text) \in Nat
      BY <2>1, <3>2, PadToNat
    <3>4. QED
      BY <2>1, <3>1, <3>3
  <2>3. QED
    BY <1>1, <1>2, <1>5, <2>2 DEF Typed, HeaderAndText
<1>6. CASE Number
  BY <1>1, <1>2, <1>6 DEF Typed, Number, Indices
<1>7. CASE Remap
  <2>1. PICK s \in Sections :
          /\ pc = Remaps[s]
          /\ i <= Len(prog.relas[s])
          /\ prog' = [prog EXCEPT !.relas[s][i] = Renumbered(prog.relas[s][i])]
    BY <1>7 DEF Remap
  <2>2. prog.relas \in [Sections -> Seq(Nat)] /\ prog.relas[s] \in Seq(Nat)
        /\ i \in 1 .. Len(prog.relas[s])
    BY <1>1, <2>1, SMTT(20) DEF Typed, IsProgram
  <2>3. Renumbered(prog.relas[s][i]) \in Nat
    <3>1. prog.relas[s][i] \in Nat
      BY <2>2
    <3>2. \A n \in Indices : symIdx[n] \in Nat
      BY <1>1, <1>7, <2>1 DEF IInv, Numbering, Numbered, Taken, Remaps, Typed
    <3>3. QED
      BY <3>1, <3>2 DEF Renumbered, Indices
  <2>4. [prog.relas[s] EXCEPT ![i] = Renumbered(prog.relas[s][i])] \in Seq(Nat)
    BY <2>2, <2>3
  <2>5. prog' = [prog EXCEPT !.relas = [prog.relas EXCEPT ![s] =
                   [prog.relas[s] EXCEPT ![i] = Renumbered(prog.relas[s][i])]]]
    BY <2>1
  <2>6. IsProgram(prog')
    BY <1>1, <2>2, <2>4, <2>5 DEF Typed, IsProgram
  <2>7. QED
    BY <1>1, <1>2, <1>7, <2>6, SMTT(20) DEF Typed, Remap
<1>8. CASE EmitRelaText
  <2>1. ofs.relaText \in Nat /\ Len(prog.relas["text"]) \in Nat
    BY <1>1, <1>8, LayoutFacts, Symbols DEF Sections, Positions, EmitRelaText
  <2>2. p' \in Nat
    <3>1. PadTo(p, ofs.relaText) \in Nat
      BY <1>1, <2>1, PadToNat DEF Typed
    <3>2. QED
      BY <1>8, <2>1, <3>1 DEF EmitRelaText
  <2>3. relas' \in [Sections -> Seq(Nat)]
    <3>1. prog.relas["text"] \in Seq(Nat)
      BY <1>1 DEF Typed, IsProgram, Sections
    <3>2. relas' = [relas EXCEPT !["text"] = prog.relas["text"]]
      BY <1>8 DEF EmitRelaText
    <3>3. QED
      BY <1>1, <3>1, <3>2 DEF Typed
  <2>4. QED
    BY <1>1, <1>2, <1>8, <2>2, <2>3 DEF Typed, EmitRelaText
<1>9. CASE EmitData
  <2>1. /\ ofs.data \in Nat /\ ofs.relaData \in Nat /\ ofs.symtab \in Nat
        /\ prog.size["data"] \in Nat /\ Len(prog.relas["data"]) \in Nat
    BY <1>1, <1>9, LayoutFacts, Symbols DEF Sections, Positions, EmitData
  <2>2. p' \in Nat
    <3> DEFINE data     == PadTo(p, ofs.data)
               relaData == PadTo(data + prog.size["data"], ofs.relaData)
               sym      == PadTo(relaData + 24 * Len(prog.relas["data"]), ofs.symtab)
    <3>1. data \in Nat
      BY <1>1, <2>1, PadToNat DEF Typed
    <3> HIDE DEF data
    <3>2. relaData \in Nat
      <4>1. data + prog.size["data"] \in Nat
        BY <2>1, <3>1
      <4>2. QED
        BY <2>1, <4>1, PadToNat
    <3> HIDE DEF relaData
    <3>3. sym \in Nat
      <4>1. relaData + 24 * Len(prog.relas["data"]) \in Nat
        BY <2>1, <3>2
      <4>2. QED
        BY <2>1, <4>1, PadToNat
    <3>4. p' = sym + 24
      BY <1>9 DEF EmitData, data, relaData
    <3> HIDE DEF sym
    <3>5. QED
      BY <3>3, <3>4
  <2>3. relas' \in [Sections -> Seq(Nat)]
    <3>1. prog.relas["data"] \in Seq(Nat)
      BY <1>1 DEF Typed, IsProgram, Sections
    <3>2. relas' = [relas EXCEPT !["data"] = prog.relas["data"]]
      BY <1>9 DEF EmitData
    <3>3. QED
      BY <1>1, <3>1, <3>2 DEF Typed
  <2>4. /\ pc' = "writeLocals" /\ i' = 1
        /\ UNCHANGED <<prog, given, strIdx, strtabSz, symIdx, nextIdx, symtab, firstGlobal>>
    BY <1>9 DEF EmitData
  <2>5. QED
    BY <1>1, <1>2, <2>2, <2>3, <2>4 DEF Typed
<1>10. CASE WriteSymbol
  <2>1. i \in 1 .. SymCount /\ i \in 1 .. Len(strIdx)
    BY <1>1, <1>2, <1>10 DEF Typed, WriteSymbol, Naming
  <2>2. [sym |-> i, name |-> strIdx[i]] \in [sym : Nat, name : Nat]
    BY <1>1, <2>1 DEF Typed
  <2>3. Append(symtab, [sym |-> i, name |-> strIdx[i]]) \in Seq([sym : Nat, name : Nat])
    BY <1>1, <2>2 DEF Typed
  <2>4. symtab' \in Seq([sym : Nat, name : Nat])
    BY <1>1, <1>10, <2>3 DEF Typed, WriteSymbol
  <2>5. p' \in Nat /\ firstGlobal' \in Nat /\ i' \in Nat \ {0}
    <3>1. /\ p' = p + 24 \/ p' = p
          /\ firstGlobal' = firstGlobal + 1 \/ firstGlobal' = firstGlobal
          /\ i' = i + 1
      BY <1>10 DEF WriteSymbol
    <3>2. QED
      BY <1>1, <3>1 DEF Typed
  <2>6. UNCHANGED <<prog, given, pc, strIdx, strtabSz, symIdx, nextIdx, relas>>
    BY <1>10 DEF WriteSymbol
  <2>7. QED
    BY <1>1, <1>2, <2>4, <2>5, <2>6 DEF Typed
<1>11. CASE NextLoop
  BY <1>1, <1>2, <1>11 DEF Typed, NextLoop, Follows
<1>12. CASE EmitTables
  BY <1>1, <1>2, <1>12, SizesAssumption DEF Typed, EmitTables
<1>13. QED
  BY <1>3, <1>4, <1>5, <1>6, <1>7, <1>8, <1>9, <1>10, <1>11, <1>12 DEF Next

---------------------------------------------------------------------------
(* The rounds of a pair of loops take the symbols in the order Before. *)

LEMMA Trichotomy ==
  ASSUME Typed, NEW m \in Indices, NEW n \in Indices, m # n
  PROVE  Before(m, n) \/ Before(n, m)
<1>1. m \in Nat /\ n \in Nat
  BY Symbols DEF Indices
<1>2. Glob(m) \in BOOLEAN /\ Glob(n) \in BOOLEAN
  BY Symbols DEF Glob
<1>3. m < n \/ n < m
  BY <1>1
<1>4. QED
  BY <1>2, <1>3 DEF Before

(* What two loops, over locals and then globals, have taken is what comes  *)
(* before in ELF's order.                                                  *)
LEMMA TakenBefore ==
  ASSUME Typed, NEW first, NEW second, NEW later, first # second,
         pc \in {first, second}, pc \notin later, i \in Indices,
         pc = first => ~Glob(i), pc = second => Glob(i), NEW m \in Indices
  PROVE  Taken(m, first, second, later) <=> Before(m, i)
<1>1. Glob(m) \in BOOLEAN /\ Glob(i) \in BOOLEAN
  BY Symbols DEF Glob
<1>2. CASE pc = first
  BY <1>1, <1>2 DEF Taken, Before
<1>3. CASE pc = second
  BY <1>1, <1>3 DEF Taken, Before
<1>4. QED
  BY <1>2, <1>3

(* Rewriting a relocation changes nothing else. *)
LEMMA RemapStep ==
  ASSUME Remap
  PROVE  /\ pc \in {"remapText", "remapData"}
         /\ UNCHANGED <<given, pc, names, strIdx, strtabSz, ofs, p, placed, symIdx, nextIdx,
                        symtab, firstGlobal, relas, file>>
<1>1. PICK s \in Sections :
        /\ pc = Remaps[s]
        /\ UNCHANGED <<given, pc, names, strIdx, strtabSz, ofs, p, placed, symIdx, nextIdx,
                       symtab, firstGlobal, relas, file>>
  BY DEF Remap
<1>2. QED
  BY <1>1 DEF Remaps

(* Which loop follows which. *)
LEMMA NextLoopStep ==
  ASSUME NextLoop
  PROVE  \/ pc = "numberLocals" /\ pc' = "numberGlobals"
         \/ pc = "numberGlobals" /\ pc' = "remapText"
         \/ pc = "writeLocals" /\ pc' = "writeGlobals"
BY DEF NextLoop, Follows

(* Only numbering changes which symbols are numbered, *)
LEMMA NumberedSame ==
  ASSUME IInv, [Next]_vars, ~Number
  PROVE  /\ symIdx' = symIdx /\ nextIdx' = nextIdx
         /\ \A n \in Indices : Numbered(n)' <=> Numbered(n)
<1>0. symIdx' = symIdx /\ nextIdx' = nextIdx
  BY RemapStep DEF Next, TooManySymbols, StrtabOverflow, AddName, Exit, HeaderAndText, EmitRelaText,
     EmitData, WriteSymbol, NextLoop, EmitTables, WriteFile, Returned, vars
<1> SUFFICES ASSUME NEW n \in Indices PROVE Numbered(n)' <=> Numbered(n)
  BY <1>0
<1> USE DEF Placing, Writing, Finished, Numbered, Taken
<1>1. Typed /\ Rounds /\ n \in Nat \ {0}
  BY Symbols DEF IInv, Indices
<1>2. Glob(n)' = Glob(n)
  BY <1>1, CountKept DEF Glob
<1>3. CASE TooManySymbols \/ StrtabOverflow \/ AddName \/ Returned \/ WriteFile \/ UNCHANGED vars
  BY <1>2, <1>3 DEF TooManySymbols, StrtabOverflow, AddName, Exit, Returned, WriteFile, vars
<1>4. CASE HeaderAndText
  BY <1>1, <1>4 DEF HeaderAndText
<1>5. CASE Remap
  BY <1>2, <1>5, RemapStep
<1>6. CASE EmitRelaText \/ EmitData \/ WriteSymbol \/ EmitTables
  BY <1>6 DEF EmitRelaText, EmitData, WriteSymbol, EmitTables
<1>7. CASE NextLoop
  <2>1. n < i
    BY <1>1, <1>7, Symbols DEF NextLoop, Indices, Typed
  <2>2. ~(n < i')
    BY <1>1, <1>7 DEF NextLoop
  <2>3. QED
    BY <1>2, <1>7, <2>1, <2>2, NextLoopStep DEF NextLoop
<1>8. QED
  BY <1>3, <1>4, <1>5, <1>6, <1>7 DEF Next

(* and only writing which are written. *)
LEMMA WrittenSame ==
  ASSUME IInv, [Next]_vars, ~WriteSymbol
  PROVE  /\ symtab' = symtab /\ firstGlobal' = firstGlobal
         /\ \A n \in Indices : /\ Written(n)' <=> Written(n)
                               /\ Written(n) => symIdx' = symIdx /\ strIdx' = strIdx
<1>0. symtab' = symtab /\ firstGlobal' = firstGlobal
  BY RemapStep DEF Next, TooManySymbols, StrtabOverflow, AddName, Exit, HeaderAndText, EmitRelaText,
     EmitData, Number, NextLoop, EmitTables, WriteFile, Returned, vars
<1> SUFFICES ASSUME NEW n \in Indices
             PROVE  /\ Written(n)' <=> Written(n)
                    /\ Written(n) => symIdx' = symIdx /\ strIdx' = strIdx
  BY <1>0
<1> USE DEF Placing, Writing, Finished, Written, Taken
<1>1. Typed /\ Rounds /\ n \in Nat \ {0}
  BY Symbols DEF IInv, Indices
<1>2. Glob(n)' = Glob(n)
  BY <1>1, CountKept DEF Glob
<1>3. CASE TooManySymbols \/ StrtabOverflow \/ AddName \/ Returned \/ WriteFile \/ UNCHANGED vars
  BY <1>2, <1>3 DEF TooManySymbols, StrtabOverflow, AddName, Exit, Returned, WriteFile, vars
<1>4. CASE HeaderAndText \/ Number \/ EmitRelaText
  BY <1>4 DEF HeaderAndText, Number, EmitRelaText
<1>5. CASE Remap
  BY <1>2, <1>5, RemapStep
<1>6. CASE EmitData
  BY <1>1, <1>6 DEF EmitData
<1>7. CASE EmitTables
  <2>1. n < i
    BY <1>1, <1>7, Symbols DEF EmitTables, Indices, Typed
  <2>2. QED
    BY <1>7, <2>1 DEF EmitTables
<1>8. CASE NextLoop
  <2>1. n < i
    BY <1>1, <1>8, Symbols DEF NextLoop, Indices, Typed
  <2>2. ~(n < i')
    BY <1>1, <1>8 DEF NextLoop
  <2>3. QED
    BY <1>2, <1>8, <2>1, <2>2, NextLoopStep DEF NextLoop
<1>9. QED
  BY <1>3, <1>4, <1>5, <1>6, <1>7, <1>8 DEF Next

(* Numbers are given in order, one after the other. *)
LEMMA NumberingNext == ASSUME IInv, [Next]_vars PROVE Numbering'
<1>1. Typed /\ Numbering /\ Indices' = Indices /\ Syms' = Syms
  BY CountKept DEF IInv
<1>2. \A m, n \in Indices : Before(m, n)' <=> Before(m, n)
  BY <1>1 DEF Before, Glob
<1>3. CASE ~Number
  <2>1. /\ symIdx' = symIdx /\ nextIdx' = nextIdx
        /\ \A n \in Indices : Numbered(n)' <=> Numbered(n)
    BY <1>3, NumberedSame
  <2>2. QED
    BY <1>1, <1>2, <2>1 DEF Numbering
<1>4. CASE Number
  <2>1. /\ pc \in {"numberLocals", "numberGlobals"} /\ pc' = pc /\ i' = i + 1
        /\ i \in Indices /\ nextIdx \in Nat \ {0} /\ symIdx \in [Indices -> Int]
    BY <1>1, <1>4, Symbols DEF Number, Indices, Typed
  <2>2. /\ pc = "numberLocals" => (Chosen(i) <=> ~Glob(i))
        /\ pc = "numberGlobals" => (Chosen(i) <=> Glob(i))
    BY DEF Chosen, Glob
  <2>3. ASSUME NEW n \in Indices
        PROVE  Numbered(n)' <=> Numbered(n) \/ (n = i /\ Chosen(i))
    <3>1. (Glob(n)' <=> Glob(n)) /\ (n < i' <=> n < i \/ n = i)
      <4>1. Glob(n)' <=> Glob(n)
        BY <1>1 DEF Glob
      <4>2. n \in Nat /\ i \in Nat
        BY <1>1, <2>1, Symbols DEF Indices
      <4>3. QED
        BY <2>1, <4>1, <4>2
    <3>2. Glob(n) \in BOOLEAN /\ Glob(i) \in BOOLEAN
      <4>1. Typed
        BY <1>1
      <4>2. QED
        BY <2>1, <4>1, Symbols DEF Glob
    <3>3. CASE pc = "numberLocals"
      BY <2>1, <2>2, <3>1, <3>2, <3>3 DEF Numbered, Taken, Writing, Finished
    <3>4. CASE pc = "numberGlobals"
      BY <2>1, <2>2, <3>1, <3>2, <3>4 DEF Numbered, Taken, Writing, Finished
    <3>5. QED
      BY <2>1, <3>3, <3>4
  <2>4. CASE ~Chosen(i)
    <3>1. symIdx' = symIdx /\ nextIdx' = nextIdx
      BY <1>4, <2>4 DEF Number
    <3>2. \A n \in Indices : Numbered(n)' <=> Numbered(n)
      BY <2>3, <2>4
    <3>3. QED
      BY <1>1, <1>2, <3>1, <3>2 DEF Numbering
  <2>5. CASE Chosen(i)
    <3>1. symIdx' = [symIdx EXCEPT ![i] = nextIdx] /\ nextIdx' = nextIdx + 1
      BY <1>4, <2>5 DEF Number
    <3>2. \A m \in Indices : Numbered(m) <=> Before(m, i)
      BY <1>1, <2>1, <2>2, <2>5, TakenBefore DEF Numbered, Writing, Finished
    <3>3. ~Before(i, i) /\ \A m \in Indices : Before(m, i) => ~Before(i, m)
      BY <1>1, <2>1, Symbols DEF Before, Glob, Indices
    <3>4. \A n \in Indices : Numbered(n)' <=> Numbered(n) \/ n = i
      BY <2>3, <2>5
    <3>5. ~Numbered(i)
      BY <2>1, <3>2, <3>3
    <3>6. /\ symIdx'[i] = nextIdx
          /\ \A n \in Indices : Numbered(n) => symIdx'[n] = symIdx[n]
      BY <2>1, <3>1, <3>5
    <3>7. \A n \in Indices : Numbered(n)' => symIdx'[n] \in 1 .. nextIdx' - 1
      BY <1>1, <2>1, <3>1, <3>4, <3>6 DEF Numbering
    <3>8. ASSUME NEW m \in Indices, NEW n \in Indices, Numbered(m)', Numbered(n)', Before(m, n)
          PROVE  symIdx'[m] < symIdx'[n]
      <4>1. m # i \/ n # i
        BY <3>3, <3>8
      <4>2. m # i
        BY <3>2, <3>3, <3>4, <3>8
      <4>3. CASE n = i
        BY <1>1, <2>1, <3>4, <3>6, <3>8, <4>2, <4>3 DEF Numbering
      <4>4. CASE n # i
        BY <1>1, <3>4, <3>6, <3>8, <4>2, <4>4 DEF Numbering
      <4>5. QED
        BY <4>3, <4>4
    <3>9. ASSUME NEW x \in 1 .. nextIdx' - 1
          PROVE  \E n \in Indices : Numbered(n)' /\ symIdx'[n] = x
      <4>1. CASE x = nextIdx
        BY <2>1, <3>4, <3>6, <4>1
      <4>2. CASE x # nextIdx
        <5>1. x \in 1 .. nextIdx - 1
          BY <2>1, <3>1, <4>2
        <5>2. QED
          BY <1>1, <3>4, <3>6, <5>1 DEF Numbering
      <4>3. QED
        BY <4>1, <4>2
    <3>10. QED
      BY <1>1, <1>2, <3>7, <3>8, <3>9 DEF Numbering
  <2>6. QED
    BY <2>4, <2>5
<1>5. QED
  BY <1>3, <1>4

(* The next symbol the writer writes is the one numbered next: all before  *)
(* it are written, and the numbers of those after it are larger.           *)
LEMMA NextInOrder ==
  ASSUME Typed, Numbering, InPlace, pc \in Writing, i \in Indices, Chosen(i)
  PROVE  /\ symIdx[i] = Len(symtab) + 1
         /\ \A m \in Indices : Written(m) => m # i
<1> DEFINE k == Len(symtab) + 1
<1>1. symtab \in Seq([sym : Nat, name : Nat]) /\ k \in Nat \ {0} /\ nextIdx \in Nat
  BY DEF Typed
<1>2. /\ pc = "writeLocals" => ~Glob(i)
      /\ pc = "writeGlobals" => Glob(i)
  BY DEF Chosen, Glob
<1>3. \A m \in Indices : Written(m) <=> Before(m, i)
  BY <1>2, TakenBefore DEF Written, Writing, Finished
<1>4. ~Before(i, i)
  BY Symbols DEF Before, Glob, Indices
<1>5. ~Written(i)
  BY <1>3, <1>4
<1>6. \A m \in Indices : Numbered(m)
  BY DEF Numbered, Taken, Writing, Finished
<1>7. \A m, n \in Indices : Before(m, n) => symIdx[m] < symIdx[n]
  BY <1>6 DEF Numbering
<1>8. symIdx[i] \in 1 .. nextIdx - 1 /\ \A m \in Indices : symIdx[m] \in Int
  BY <1>6 DEF Numbering, Typed
<1>9. symIdx[i] \notin 1 .. Len(symtab)
  <2>1. SUFFICES ASSUME symIdx[i] \in 1 .. Len(symtab) PROVE FALSE
    OBVIOUS
  <2>2. PICK n \in Indices : Written(n) /\ symIdx[n] = symIdx[i]
    BY <2>1 DEF InPlace
  <2>3. n # i
    BY <1>5, <2>2
  <2>4. QED
    BY <1>7, <1>8, <2>2, <2>3, Trichotomy
<1>10. symIdx[i] >= k
  BY <1>1, <1>8, <1>9
<1>11. ASSUME symIdx[i] # k PROVE FALSE
  <2>1. k \in 1 .. nextIdx - 1 /\ k < symIdx[i]
    BY <1>1, <1>8, <1>10, <1>11
  <2>2. PICK m \in Indices : symIdx[m] = k
    BY <2>1 DEF Numbering
  <2>3. m # i /\ ~(symIdx[i] < symIdx[m])
    BY <2>1, <2>2, <1>1, <1>8
  <2>4. Before(m, i)
    BY <1>7, <2>3, Trichotomy
  <2>5. symIdx[m] \in 1 .. Len(symtab)
    BY <1>3, <2>4 DEF InPlace
  <2>6. QED
    BY <1>1, <2>2, <2>5
<1>12. QED
  BY <1>5, <1>11

(* What writing a symbol does. *)
LEMMA WriteStep ==
  ASSUME IInv, [Next]_vars, WriteSymbol
  PROVE  /\ pc \in Writing /\ pc' = pc /\ i' = i + 1 /\ i \in Indices
         /\ UNCHANGED <<symIdx, strIdx, nextIdx>>
         /\ Chosen(i) => /\ symtab' = Append(symtab, [sym |-> i, name |-> strIdx[i]])
                         /\ p' = p + 24
                         /\ firstGlobal' = IF pc = "writeLocals" THEN firstGlobal + 1
                                           ELSE firstGlobal
         /\ ~Chosen(i) => UNCHANGED <<symtab, p, firstGlobal>>
         /\ \A n \in Indices : Written(n)' <=> Written(n) \/ (n = i /\ Chosen(i))
<1>1. Typed /\ Indices' = Indices /\ Syms' = Syms /\ SymCount \in Nat
  BY CountKept, Symbols DEF IInv
<1>2. /\ pc \in Writing /\ pc' = pc /\ i' = i + 1 /\ i \in Indices
      /\ UNCHANGED <<symIdx, strIdx, nextIdx>>
  BY <1>1 DEF WriteSymbol, Writing, Indices, Typed
<1>3. ASSUME NEW n \in Indices
      PROVE  Written(n)' <=> Written(n) \/ (n = i /\ Chosen(i))
  <2>1. (Glob(n)' <=> Glob(n)) /\ (n < i' <=> n < i \/ n = i)
    <3>1. Glob(n)' <=> Glob(n)
      BY <1>1 DEF Glob
    <3>2. n \in Nat /\ i \in Nat
      BY <1>1, <1>2, Symbols DEF Indices
    <3>3. QED
      BY <1>2, <3>1, <3>2
  <2>2. /\ pc = "writeLocals" => (Chosen(i) <=> ~Glob(i))
        /\ pc = "writeGlobals" => (Chosen(i) <=> Glob(i))
    BY DEF Chosen, Glob
  <2>3. CASE pc = "writeLocals"
    BY <1>2, <2>1, <2>2, <2>3 DEF Written, Taken, Writing, Finished
  <2>4. CASE pc = "writeGlobals"
    BY <1>2, <2>1, <2>2, <2>4 DEF Written, Taken, Writing, Finished
  <2>5. QED
    BY <1>2, <2>3, <2>4 DEF Writing
<1>4. QED
  BY <1>2, <1>3 DEF WriteSymbol

(* A symbol is written at its number. *)
LEMMA InPlaceNext == ASSUME IInv, [Next]_vars PROVE InPlace'
<1>1. Typed /\ Numbering /\ InPlace /\ Indices' = Indices /\ Syms' = Syms
  BY CountKept DEF IInv
<1>2. CASE ~WriteSymbol
  <2>1. /\ symtab' = symtab
        /\ \A n \in Indices : /\ Written(n)' <=> Written(n)
                              /\ Written(n) => symIdx' = symIdx /\ strIdx' = strIdx
    BY <1>2, WrittenSame
  <2>2. ASSUME NEW n \in Indices, Written(n)'
        PROVE  /\ symIdx'[n] \in 1 .. Len(symtab')
               /\ symtab'[symIdx'[n]] = [sym |-> n, name |-> strIdx'[n]]
    <3>1. Written(n) /\ symIdx' = symIdx /\ strIdx' = strIdx
      BY <2>1, <2>2
    <3>2. QED
      BY <1>1, <2>1, <3>1 DEF InPlace
  <2>3. ASSUME NEW x \in 1 .. Len(symtab')
        PROVE  \E n \in Indices : Written(n)' /\ symIdx'[n] = x
    <3>1. PICK n \in Indices : Written(n) /\ symIdx[n] = x
      BY <1>1, <2>1 DEF InPlace
    <3>2. QED
      BY <2>1, <3>1
  <2>4. QED
    BY <1>1, <2>2, <2>3 DEF InPlace
<1>3. CASE WriteSymbol
  <2>1. /\ pc \in Writing /\ i \in Indices /\ UNCHANGED <<symIdx, strIdx>>
        /\ Chosen(i) => symtab' = Append(symtab, [sym |-> i, name |-> strIdx[i]])
        /\ ~Chosen(i) => symtab' = symtab
        /\ \A n \in Indices : Written(n)' <=> Written(n) \/ (n = i /\ Chosen(i))
    BY <1>3, WriteStep
  <2>2. CASE ~Chosen(i)
    BY <1>1, <2>1, <2>2 DEF InPlace
  <2>3. CASE Chosen(i)
    <3>1. symIdx[i] = Len(symtab) + 1 /\ \A m \in Indices : Written(m) => m # i
      BY <1>1, <2>1, <2>3, NextInOrder
    <3> DEFINE r == [sym |-> i, name |-> strIdx[i]]
    <3>2. symtab' = Append(symtab, r) /\ symtab \in Seq([sym : Nat, name : Nat])
      BY <1>1, <2>1, <2>3 DEF Typed
    <3> HIDE DEF r
    <3>3. /\ Len(symtab) \in Nat /\ Len(symtab') = Len(symtab) + 1
          /\ symtab'[Len(symtab) + 1] = r
          /\ \A x \in 1 .. Len(symtab) : symtab'[x] = symtab[x]
      BY <3>2
    <3>4. ASSUME NEW n \in Indices, Written(n)'
          PROVE  /\ symIdx'[n] \in 1 .. Len(symtab')
                 /\ symtab'[symIdx'[n]] = [sym |-> n, name |-> strIdx'[n]]
      <4>1. CASE n = i
        BY <2>1, <3>1, <3>3, <4>1 DEF r
      <4>2. CASE n # i
        BY <1>1, <2>1, <3>3, <3>4, <4>2 DEF InPlace
      <4>3. QED
        BY <4>1, <4>2
    <3>5. ASSUME NEW x \in 1 .. Len(symtab')
          PROVE  \E n \in Indices : Written(n)' /\ symIdx'[n] = x
      <4>1. CASE x = Len(symtab) + 1
        BY <2>1, <2>3, <3>1, <4>1
      <4>2. CASE x \in 1 .. Len(symtab)
        BY <1>1, <2>1, <4>2 DEF InPlace
      <4>3. QED
        BY <3>3, <4>1, <4>2
    <3>6. QED
      BY <1>1, <3>4, <3>5 DEF InPlace
  <2>4. QED
    BY <2>2, <2>3
<1>4. QED
  BY <1>2, <1>3

(* The first global is counted in the loop over the locals. *)
LEMMA BoundaryNext == ASSUME IInv, [Next]_vars PROVE Boundary'
<1> USE DEF Writing, Finished
<1>1. Typed /\ Numbering /\ InPlace /\ Boundary /\ Indices' = Indices /\ Syms' = Syms
  BY CountKept DEF IInv
<1>2. \A n \in Indices : Glob(n)' <=> Glob(n)
  BY <1>1 DEF Glob
<1>3. firstGlobal \in Nat /\ Len(symtab) \in Nat
  BY <1>1 DEF Typed
<1>4. CASE ~WriteSymbol
  <2>1. /\ symtab' = symtab /\ firstGlobal' = firstGlobal
        /\ \A n \in Indices : /\ Written(n)' <=> Written(n)
                              /\ Written(n) => symIdx' = symIdx
    BY <1>4, WrittenSame
  <2>2. pc' \notin {"writeGlobals"} \cup Finished => pc \notin {"writeGlobals"} \cup Finished
    <3>1. CASE TooManySymbols \/ StrtabOverflow \/ AddName \/ HeaderAndText \/ Number
               \/ EmitRelaText \/ EmitData \/ EmitTables
      BY <3>1 DEF TooManySymbols, StrtabOverflow, AddName, Exit, HeaderAndText, Number,
         EmitRelaText, EmitData, EmitTables
    <3>2. CASE Remap \/ NextLoop
      BY <3>2, RemapStep, NextLoopStep
    <3>3. CASE WriteFile \/ Returned \/ UNCHANGED vars
      BY <3>3 DEF WriteFile, Returned, vars
    <3>4. QED
      BY <1>4, <3>1, <3>2, <3>3 DEF Next
  <2>3. ASSUME NEW n \in Indices, Written(n)'
        PROVE  Glob(n)' <=> symIdx'[n] >= firstGlobal'
    <3>1. Written(n) /\ symIdx' = symIdx /\ firstGlobal' = firstGlobal
      BY <2>1, <2>3
    <3>2. QED
      BY <1>1, <1>2, <3>1 DEF Boundary
  <2>4. QED
    BY <1>1, <2>1, <2>2, <2>3 DEF Boundary
<1>5. CASE WriteSymbol
  <2>1. /\ pc \in Writing /\ pc' = pc /\ i \in Indices /\ UNCHANGED <<symIdx, strIdx>>
        /\ Chosen(i) => /\ symtab' = Append(symtab, [sym |-> i, name |-> strIdx[i]])
                        /\ firstGlobal' = IF pc = "writeLocals" THEN firstGlobal + 1
                                          ELSE firstGlobal
        /\ ~Chosen(i) => symtab' = symtab /\ firstGlobal' = firstGlobal
        /\ \A n \in Indices : Written(n)' <=> Written(n) \/ (n = i /\ Chosen(i))
    BY <1>5, WriteStep
  <2>2. CASE ~Chosen(i)
    BY <1>1, <1>2, <2>1, <2>2 DEF Boundary
  <2>3. CASE Chosen(i)
    <3>1. symIdx[i] = Len(symtab) + 1
      BY <1>1, <2>1, <2>3, NextInOrder
    <3>2. Len(symtab') = Len(symtab) + 1
      BY <1>1, <2>1, <2>3 DEF Typed
    <3>3. \A n \in Indices : Written(n) => symIdx[n] \in 1 .. Len(symtab)
      BY <1>1 DEF InPlace
    <3>4. CASE pc = "writeLocals"
      <4>1. firstGlobal = Len(symtab) + 1 /\ firstGlobal' = firstGlobal + 1
        BY <1>1, <2>1, <2>3, <3>4 DEF Boundary
      <4>2. ~Glob(i)
        BY <2>3, <3>4 DEF Chosen, Glob
      <4>3. \A n \in Indices : Written(n) => (Glob(n) <=> symIdx[n] >= firstGlobal)
        BY <1>1 DEF Boundary
      <4>4. \A n \in Indices : Written(n) => ~Glob(n) /\ symIdx[n] < firstGlobal'
        BY <1>3, <3>3, <4>1, <4>3
      <4>5. symIdx[i] < firstGlobal'
        BY <1>3, <3>1, <4>1
      <4>6. \A n \in Indices : Written(n)' => ~Glob(n)' /\ ~(symIdx'[n] >= firstGlobal')
        BY <1>2, <1>3, <2>1, <3>1, <3>3, <4>1, <4>2, <4>4, <4>5
      <4>7. firstGlobal' = Len(symtab') + 1
        BY <1>3, <3>2, <4>1
      <4>8. QED
        BY <1>1, <1>3, <3>2, <4>6, <4>7 DEF Boundary
    <3>5. CASE pc = "writeGlobals"
      <4>1. firstGlobal' = firstGlobal
        BY <2>1, <2>3, <3>5
      <4>2. Glob(i)
        BY <2>3, <3>5 DEF Chosen, Glob
      <4>3. firstGlobal \in 1 .. Len(symtab) + 1
        BY <1>1 DEF Boundary
      <4>4. \A n \in Indices : Written(n)' => (Glob(n)' <=> symIdx'[n] >= firstGlobal')
        BY <1>1, <1>2, <1>3, <2>1, <3>1, <4>1, <4>2, <4>3 DEF Boundary
      <4>5. QED
        BY <1>1, <1>3, <2>1, <3>2, <3>5, <4>1, <4>3, <4>4 DEF Boundary
    <3>6. QED
      BY <2>1, <3>4, <3>5
  <2>4. QED
    BY <2>2, <2>3
<1>6. QED
  BY <1>4, <1>5

(* Loops end after the last symbol. *)
LEMMA RoundsNext == ASSUME IInv, [Next]_vars PROVE Rounds'
<1> USE DEF Writing, Finished
<1>1. Typed /\ Rounds /\ SymCount' = SymCount /\ SymCount \in Nat /\ i \in Nat
  BY CountKept, Symbols DEF IInv, Typed
<1>2. CASE TooManySymbols \/ StrtabOverflow \/ AddName
  BY <1>2 DEF TooManySymbols, StrtabOverflow, AddName, Exit, Rounds
<1>3. CASE HeaderAndText \/ EmitRelaText \/ EmitData \/ EmitTables
  BY <1>1, <1>3 DEF HeaderAndText, EmitRelaText, EmitData, EmitTables, Rounds
<1>4. CASE Number \/ WriteSymbol
  BY <1>1, <1>4 DEF Number, WriteSymbol, Rounds
<1>5. CASE Remap
  BY <1>5, RemapStep DEF Rounds
<1>6. CASE NextLoop
  BY <1>1, <1>6 DEF NextLoop, Rounds
<1>7. CASE WriteFile \/ Returned \/ UNCHANGED vars
  BY <1>1, <1>7 DEF WriteFile, Returned, vars, Rounds
<1>8. QED
  BY <1>2, <1>3, <1>4, <1>5, <1>6, <1>7 DEF Next

---------------------------------------------------------------------------
(* When all symbols are written the table has one entry for each. *)

LEMMA AllWritten ==
  ASSUME Typed, Numbering, InPlace, \A n \in Indices : Numbered(n) /\ Written(n)
  PROVE  Len(symtab) = SymCount
<1> DEFINE S == 1 .. Len(symtab)
<1>1. Len(symtab) \in Nat /\ SymCount \in Nat
  BY Symbols DEF Typed
<1>2. symIdx \in [1 .. SymCount -> S]
  BY DEF Typed, InPlace, Indices
<1>3. \A m, n \in Indices : symIdx[m] = symIdx[n] => m = n
  <2>1. SUFFICES ASSUME NEW m \in Indices, NEW n \in Indices, m # n
                 PROVE  symIdx[m] # symIdx[n]
    OBVIOUS
  <2>2. symIdx[m] < symIdx[n] \/ symIdx[n] < symIdx[m]
    BY <2>1, Trichotomy DEF Numbering
  <2>3. symIdx[m] \in Nat /\ symIdx[n] \in Nat
    BY <1>1, <1>2 DEF Indices
  <2>4. QED
    BY <2>2, <2>3
<1>4. \A x \in S : \E n \in Indices : symIdx[n] = x
  BY DEF InPlace
<1>5. symIdx \in Bijection(1 .. SymCount, S)
  <2>1. DOMAIN symIdx = Indices
    BY <1>2 DEF Indices
  <2>2. IsInjective(symIdx)
    BY <1>3, <2>1 DEF IsInjective
  <2>3. QED
    BY <1>2, <1>4, <2>2 DEF Bijection, Injection, Surjection, Indices
<1>6. [x \in S |-> x] \in Bijection(1 .. Len(symtab), S)
  BY DEF Bijection, Injection, Surjection, IsInjective
<1>7. ExistsBijection(1 .. SymCount, S) /\ ExistsBijection(1 .. Len(symtab), S)
  BY <1>5, <1>6 DEF ExistsBijection
<1>8. QED
  BY <1>1, <1>7, Fun_NatBijSame

(* After the last loop every symbol is numbered and written. *)
LEMMA WrittenAtEnd ==
  ASSUME IInv, \/ pc \in Finished
               \/ pc = "writeGlobals" /\ i > SymCount
  PROVE  /\ Len(symtab) = SymCount
         /\ \A n \in Indices : Numbered(n) /\ Written(n)
<1>1. Typed /\ Numbering /\ InPlace
  BY DEF IInv
<1>2. ASSUME NEW n \in Indices PROVE Numbered(n) /\ Written(n)
  <2>1. pc = "writeGlobals" => n < i
    BY <1>1, Symbols DEF Indices, Typed, Finished
  <2>2. QED
    BY <2>1 DEF Numbered, Written, Taken, Writing, Finished
<1>3. QED
  BY <1>1, <1>2, AllWritten

---------------------------------------------------------------------------
(* Relocations. *)

LEMMA RemappingNext == ASSUME IInv, [Next]_vars PROVE Remapping'
<1> USE DEF Writing, Finished
<1>1. /\ Typed /\ Remapping /\ Indices' = Indices /\ Syms' = Syms /\ SymCount' = SymCount
      /\ given' = given
  BY CountKept, TablesKept DEF IInv
<1>2. \A s \in Sections : prog.relas[s] \in Seq(Nat) /\ given[s] \in Seq(Nat)
  BY <1>1 DEF Typed, IsProgram
<1>3. Sections = {"text", "data"}
  BY DEF Sections
<1>4. CASE Remap
  <2>1. PICK s \in Sections :
          /\ pc = Remaps[s]
          /\ i <= Len(prog.relas[s])
          /\ prog' = [prog EXCEPT !.relas[s][i] = Renumbered(prog.relas[s][i])]
          /\ i' = i + 1
    BY <1>4 DEF Remap
  <2>2. UNCHANGED <<pc, symIdx, relas>>
    BY <1>4, RemapStep
  <2>3. pc = IF s = "text" THEN "remapText" ELSE "remapData"
    BY <2>1 DEF Remaps
  <2>4. i \in 1 .. Len(prog.relas[s]) /\ prog.relas \in [Sections -> Seq(Nat)]
    <3>1. prog.relas \in [Sections -> Seq(Nat)] /\ i \in Nat \ {0}
      BY <1>1 DEF Typed, IsProgram
    <3>2. QED
      BY <1>2, <2>1, <3>1
  <2>5. prog'.relas = [prog.relas EXCEPT ![s] =
                         [prog.relas[s] EXCEPT ![i] = Renumbered(prog.relas[s][i])]]
    BY <1>1, <2>1 DEF Typed, IsProgram
  <2>6. \A t \in Sections : t # s => prog'.relas[t] = prog.relas[t]
    BY <2>4, <2>5
  <2>7. prog'.relas[s] = [prog.relas[s] EXCEPT ![i] = Renumbered(prog.relas[s][i])]
    BY <2>4, <2>5
  <2>8. Len(prog'.relas[s]) = Len(prog.relas[s])
    BY <1>2, <2>7
  <2>9. /\ prog'.relas[s][i] = Renumbered(prog.relas[s][i])
        /\ \A k \in 1 .. Len(prog.relas[s]) : k # i => prog'.relas[s][k] = prog.relas[s][k]
    BY <1>2, <2>4, <2>7
  <2>10. \A t \in Sections : Len(prog'.relas[t]) = Len(given[t])
    BY <1>1, <2>6, <2>8 DEF Remapping
  <2>11. \A v : Renumbered(v)' = Renumbered(v)
    BY <1>1, <2>2 DEF Renumbered
  <2>12. ASSUME NEW t \in Sections, NEW k \in 1 .. Len(given[t])
         PROVE  prog'.relas[t][k] = IF Remapped(t, k)' THEN Renumbered(given[t][k])'
                                    ELSE given[t][k]
    <3>1. prog.relas[t][k] = IF Remapped(t, k) THEN Renumbered(given[t][k]) ELSE given[t][k]
      BY <1>1 DEF Remapping
    <3>2. k \in Nat /\ i \in Nat /\ Len(given[s]) = Len(prog.relas[s])
      BY <1>1, <1>2 DEF Typed, Remapping
    <3>3. k < i' <=> k < i \/ k = i
      BY <2>1, <3>2
    <3>4. CASE t # s
      <4>1. Remapped(t, k)' <=> Remapped(t, k)
        BY <1>3, <2>2, <2>3, <3>4 DEF Remapped
      <4>2. QED
        <5>1. prog'.relas[t][k] = prog.relas[t][k] /\ Renumbered(given[t][k])' = Renumbered(given[t][k])
          BY <1>1, <2>6, <2>11, <3>4
        <5>2. QED
          BY <3>1, <4>1, <5>1
    <3>5. CASE t = s /\ k # i
      <4>1. Remapped(t, k)' <=> Remapped(t, k)
        BY <2>2, <2>3, <3>3, <3>5 DEF Remapped
      <4>2. QED
        BY <1>1, <2>9, <2>11, <3>1, <3>2, <3>5, <4>1
    <3>6. CASE t = s /\ k = i
      <4>1. Remapped(t, k)' /\ ~Remapped(t, k)
        BY <2>2, <2>3, <3>2, <3>3, <3>6 DEF Remapped
      <4>2. QED
        BY <1>1, <2>9, <2>11, <3>1, <3>6, <4>1
    <3>7. QED
      BY <3>4, <3>5, <3>6
  <2>13. pc' = "remapData" => relas'["text"] = prog'.relas["text"]
    <3>1. SUFFICES ASSUME pc = "remapData" PROVE relas["text"] = prog'.relas["text"]
      BY <2>2
    <3>2. s # "text" /\ "text" \in Sections
      BY <1>3, <2>3, <3>1
    <3>3. QED
      BY <1>1, <2>6, <3>1, <3>2 DEF Remapping
  <2>14. pc' \notin Writing \cup Finished
    BY <2>2, <2>3
  <2>15. QED
    BY <1>1, <2>10, <2>12, <2>13, <2>14 DEF Remapping
<1>5. CASE ~Remap
  <2>1. prog' = prog
    BY <1>1, <1>5 DEF Next, vars, TooManySymbols, StrtabOverflow, AddName, HeaderAndText, Number,
       EmitRelaText, EmitData, WriteSymbol, NextLoop, EmitTables, WriteFile, Returned, Exit
  <2>2. \A s \in Sections : \A k \in 1 .. Len(given[s]) :
          Remapped(s, k)' <=> Remapped(s, k)
    <3>1. SUFFICES ASSUME NEW s \in Sections, NEW k \in 1 .. Len(given[s])
                   PROVE  Remapped(s, k)' <=> Remapped(s, k)
      OBVIOUS
    <3>2. /\ k \in Nat \ {0} /\ i \in Nat /\ Len(prog.relas[s]) = Len(given[s])
          /\ Len(given[s]) \in Nat
      BY <1>1, <1>2 DEF Typed, Remapping
    <3>3. CASE TooManySymbols \/ StrtabOverflow \/ AddName \/ Returned \/ WriteFile \/ UNCHANGED vars
      BY <3>3 DEF TooManySymbols, StrtabOverflow, AddName, Exit, Returned, WriteFile, vars, Remapped
    <3>4. CASE HeaderAndText \/ Number \/ WriteSymbol \/ EmitTables
      BY <3>4 DEF HeaderAndText, Number, WriteSymbol, EmitTables, Remapped
    <3>5. CASE NextLoop
      <4>1. ~(k < i')
        BY <3>2, <3>5 DEF NextLoop
      <4>2. QED
        BY <3>5, <4>1, NextLoopStep DEF Remapped
    <3>6. CASE EmitRelaText
      <4>1. ~(k < i') /\ (s = "text" => k < i)
        BY <3>2, <3>6 DEF EmitRelaText
      <4>2. QED
        BY <3>6, <4>1 DEF EmitRelaText, Remapped
    <3>7. CASE EmitData
      <4>1. pc = "remapData" /\ pc' = "writeLocals" /\ i > Len(prog.relas["data"])
        BY <3>7 DEF EmitData
      <4>2. s # "text" => k < i
        BY <1>3, <3>2, <4>1
      <4>3. QED
        BY <4>1, <4>2 DEF Remapped
    <3>8. QED
      BY <1>5, <3>3, <3>4, <3>5, <3>6, <3>7 DEF Next
  <2>3. \/ \A v : Renumbered(v)' = Renumbered(v)
        \/ \A s \in Sections : \A k \in 1 .. Len(given[s]) : ~Remapped(s, k)
    <3>1. CASE Number
      BY <3>1 DEF Number, Remapped
    <3>2. CASE ~Number
      <4>1. symIdx' = symIdx
        BY <3>2, NumberedSame
      <4>2. QED
        BY <1>1, <4>1 DEF Renumbered
    <3>3. QED
      BY <3>1, <3>2
  <2>4. \A s \in Sections : \A k \in 1 .. Len(given[s]) :
          prog.relas[s][k] = IF Remapped(s, k)' THEN Renumbered(given[s][k])'
                             ELSE given[s][k]
    BY <1>1, <2>2, <2>3 DEF Remapping
  <2>5. /\ pc' \in {"remapData"} \cup Writing \cup Finished
             => relas'["text"] = prog.relas["text"]
        /\ pc' \in Writing \cup Finished => relas'["data"] = prog.relas["data"]
    <3>1. CASE TooManySymbols \/ StrtabOverflow \/ AddName \/ Returned \/ WriteFile \/ UNCHANGED vars
      BY <1>1, <3>1 DEF TooManySymbols, StrtabOverflow, AddName, Exit, Returned, WriteFile, vars, Remapping
    <3>2. CASE HeaderAndText \/ Number \/ WriteSymbol \/ EmitTables
      BY <1>1, <3>2 DEF HeaderAndText, Number, WriteSymbol, EmitTables, Remapping
    <3>3. CASE NextLoop
      <4>1. relas' = relas
        BY <3>3 DEF NextLoop
      <4>2. QED
        BY <1>1, <3>3, <4>1, NextLoopStep DEF Remapping
    <3>4. CASE EmitRelaText
      <4>1. /\ relas' = [relas EXCEPT !["text"] = prog.relas["text"]]
            /\ pc' = "remapData"
        BY <3>4 DEF EmitRelaText
      <4>2. relas \in [Sections -> Seq(Nat)] /\ "text" \in Sections
        BY <1>1, <1>3 DEF Typed
      <4>3. QED
        BY <4>1, <4>2
    <3>5. CASE EmitData
      <4>1. /\ relas' = [relas EXCEPT !["data"] = prog.relas["data"]]
            /\ pc' = "writeLocals" /\ pc = "remapData"
        BY <3>5 DEF EmitData
      <4>2. relas \in [Sections -> Seq(Nat)] /\ "text" \in Sections /\ "data" \in Sections
        BY <1>1, <1>3 DEF Typed
      <4>3. relas["text"] = prog.relas["text"]
        BY <1>1, <4>1 DEF Remapping
      <4>4. QED
        BY <4>1, <4>2, <4>3
    <3>6. QED
      BY <1>5, <3>1, <3>2, <3>3, <3>4, <3>5 DEF Next
  <2>6. QED
    BY <1>1, <2>1, <2>4, <2>5 DEF Remapping
<1>6. QED
  BY <1>4, <1>5

---------------------------------------------------------------------------
(* Names. *)

LEMMA NamingNext == ASSUME IInv, [Next]_vars PROVE Naming'
<1> USE DEF Placing, Writing, Finished
<1>1. /\ Typed /\ Naming /\ Syms' = Syms /\ SymCount' = SymCount /\ SymCount \in Nat
      /\ strIdx \in Seq(Nat) /\ i \in Nat \ {0} /\ strtabSz \in Nat
  BY CountKept, Symbols DEF IInv, Typed
<1>2. CASE AddName
  <2>1. /\ pc = "names" /\ i \in 1 .. SymCount /\ Len(strIdx) = i - 1 /\ pc' = pc /\ i' = i + 1
        /\ strIdx' = Append(strIdx, strtabSz) /\ names' = names \cup {<<strtabSz, i>>}
        /\ strtabSz' = strtabSz + Syms[i].len + 1
        /\ strtabSz + Syms[i].len + 1 <= StrtabSize
    BY <1>1, <1>2 DEF AddName, Naming, AfterName
  <2>2. \A k \in 1 .. SymCount : Syms[k].len \in Nat
    BY <1>1, Symbols DEF Indices
  <2>3. /\ Len(strIdx') = i /\ strIdx'[i] = strtabSz
        /\ \A k \in 1 .. i - 1 : strIdx'[k] = strIdx[k] /\ strIdx[k] \in Nat
    BY <1>1, <2>1
  <2>4. names' = {<<strIdx'[k], k>> : k \in 1 .. Len(strIdx')}
    <3>1. names = {<<strIdx[k], k>> : k \in 1 .. i - 1}
      BY <1>1, <2>1 DEF Naming
    <3>2. 1 .. i = (1 .. i - 1) \cup {i}
      BY <1>1
    <3>3. QED
      BY <2>1, <2>3, <3>1, <3>2
  <2>5. \A k \in 1 .. i - 1 : strIdx[k] + Syms[k].len < strtabSz
    BY <1>1, <2>1 DEF Naming
  <2>6. \A j, k \in 1 .. i - 1 : j < k => strIdx[j] + Syms[j].len < strIdx[k]
    BY <1>1, <2>1 DEF Naming
  <2>7. \A k \in 1 .. Len(strIdx') : strIdx'[k] + Syms[k].len < strtabSz'
    <3>1. SUFFICES ASSUME NEW k \in 1 .. i PROVE strIdx'[k] + Syms[k].len < strtabSz'
      BY <2>3
    <3>2. CASE k = i
      BY <1>1, <2>1, <2>2, <2>3, <3>2
    <3>3. CASE k \in 1 .. i - 1
      <4>1. Syms[k].len \in Nat /\ Syms[i].len \in Nat
        BY <1>1, <2>1, <2>2, <3>3
      <4>2. QED
        <5>1. strIdx'[k] = strIdx[k] /\ strIdx[k] \in Nat /\ strIdx[k] + Syms[k].len < strtabSz
          BY <2>3, <2>5, <3>3
        <5>2. strtabSz' = strtabSz + Syms[i].len + 1 /\ strtabSz \in Nat
          BY <1>1, <2>1
        <5>3. QED
          BY <4>1, <5>1, <5>2
    <3>4. QED
      BY <1>1, <3>2, <3>3
  <2>8. \A j, k \in 1 .. Len(strIdx') : j < k => strIdx'[j] + Syms[j].len < strIdx'[k]
    <3>1. SUFFICES ASSUME NEW j \in 1 .. i, NEW k \in 1 .. i, j < k
                   PROVE  strIdx'[j] + Syms[j].len < strIdx'[k]
      BY <2>3
    <3>2. j \in 1 .. i - 1
      BY <1>1, <3>1
    <3>3. CASE k = i
      BY <2>3, <2>5, <3>2, <3>3
    <3>4. CASE k \in 1 .. i - 1
      BY <2>3, <2>6, <3>1, <3>2, <3>4
    <3>5. QED
      BY <1>1, <3>3, <3>4
  <2>9. strtabSz' <= StrtabSize
    BY <2>1
  <2>10. QED
    BY <1>1, <2>1, <2>3, <2>4, <2>7, <2>8, <2>9 DEF Naming
<1>3. CASE ~AddName
  <2>1. UNCHANGED <<names, strIdx, strtabSz>>
    BY <1>3, RemapStep DEF Next, TooManySymbols, StrtabOverflow, Exit, HeaderAndText, Number,
       EmitRelaText, EmitData, WriteSymbol, NextLoop, EmitTables, WriteFile, Returned, vars
  <2>2. /\ pc' = "names" => pc = "names" /\ i' = i
        /\ pc' \in Placing => pc \in Placing \/ (pc = "names" /\ i > SymCount)
    <3>1. CASE TooManySymbols \/ StrtabOverflow \/ HeaderAndText \/ Number
               \/ EmitRelaText \/ EmitData \/ WriteSymbol \/ EmitTables
      BY <3>1 DEF TooManySymbols, StrtabOverflow, Exit, HeaderAndText, Number,
         EmitRelaText, EmitData, WriteSymbol, EmitTables
    <3>2. CASE Remap \/ NextLoop
      BY <3>2, RemapStep, NextLoopStep
    <3>3. CASE WriteFile \/ Returned \/ UNCHANGED vars
      BY <3>3 DEF WriteFile, Returned, vars
    <3>4. QED
      BY <1>3, <3>1, <3>2, <3>3 DEF Next
  <2>3. pc' \in Placing => Len(strIdx) = SymCount
    BY <1>1, <2>2 DEF Naming
  <2>4. QED
    BY <1>1, <2>1, <2>2, <2>3 DEF Naming
<1>4. QED
  BY <1>2, <1>3

---------------------------------------------------------------------------
(* Positions. *)

LEMMA LayoutKept ==
  ASSUME prog'.size = prog.size, SymCount' = SymCount, strtabSz' = strtabSz,
         \A s \in Sections : Len(prog'.relas[s]) = Len(prog.relas[s])
  PROVE  Layout' = Layout
BY DEF Layout, Sections

(* The write position is where the headers say. *)
LEMMA PositionsNext == ASSUME IInv, [Next]_vars PROVE Positions' /\ PlacedAsStated'
<1> USE DEF Placing, Writing, Finished
<1>1. /\ Typed /\ Positions /\ PlacedAsStated /\ SymCount' = SymCount /\ SymCount \in Nat
      /\ prog'.size = prog.size /\ p \in Nat /\ Len(symtab) \in Nat
  BY CountKept, TablesKept, Symbols DEF IInv, Typed
<1>2. \A s \in Sections : Len(prog'.relas[s]) = Len(prog.relas[s])
  <2>1. Remapping' /\ Remapping /\ given' = given
    BY <1>1, RemappingNext, TablesKept DEF IInv
  <2>2. QED
    BY <2>1 DEF Remapping
<1>3. Layout' = Layout \/ AddName
  <2>1. CASE ~AddName
    <3>1. strtabSz' = strtabSz
      BY <2>1, RemapStep DEF Next, TooManySymbols, StrtabOverflow, Exit, HeaderAndText, Number,
         EmitRelaText, EmitData, WriteSymbol, NextLoop, EmitTables, WriteFile, Returned, vars
    <3>2. QED
      BY <1>1, <1>2, <3>1, LayoutKept
  <2>2. QED
    BY <2>1
<1>4. /\ Layout.text \in Nat /\ Layout.relaText \in Nat /\ Layout.data \in Nat
      /\ Layout.relaData \in Nat /\ Layout.symtab \in Nat /\ Layout.strtab \in Nat
      /\ prog.size["text"] \in Nat /\ prog.size["data"] \in Nat
      /\ Len(prog.relas["text"]) \in Nat /\ Len(prog.relas["data"]) \in Nat
  BY <1>1, LayoutFacts, Symbols DEF Sections
<1>5. CASE TooManySymbols \/ StrtabOverflow \/ AddName
  BY <1>1, <1>5 DEF TooManySymbols, StrtabOverflow, AddName, Exit, Positions, PlacedAsStated
<1>6. CASE HeaderAndText
  <2>1. PadTo(640, Layout.text) = Layout.text
    BY <1>1, <1>4, LayoutFacts, PadToOffset, SMTT(20)
  <2>2. /\ ofs' = Layout /\ pc' = "numberLocals" /\ p' = Layout.text + prog.size["text"]
        /\ placed' = {<<"text", Layout.text>>}
    <3>1. ShdrOfs + NumSections * 64 = 640
      BY DEF ShdrOfs, NumSections
    <3>2. QED
      BY <1>6, <2>1, <3>1 DEF HeaderAndText
  <2>3. ofs' = Layout' /\ prog'.size = prog.size
    BY <1>1, <1>3, <1>6, <2>2 DEF HeaderAndText, AddName
  <2>4. Positions'
    BY <2>2, <2>3 DEF Positions
  <2>5. PlacedAsStated'
    BY <2>2 DEF PlacedAsStated, Layout
  <2>6. QED
    BY <2>4, <2>5
<1>7. CASE EmitRelaText
  <2>1. /\ pc = "remapText" /\ pc' = "remapData" /\ ofs' = ofs /\ prog' = prog
        /\ placed' = placed \cup {<<"relaText", PadTo(p, ofs.relaText)>>}
        /\ p' = PadTo(p, ofs.relaText) + 24 * Len(prog.relas["text"])
    BY <1>7 DEF EmitRelaText
  <2>2. ofs = Layout /\ p = Layout.text + prog.size["text"]
    BY <1>1, <2>1 DEF Positions
  <2>3. PadTo(p, ofs.relaText) = ofs.relaText
    BY <1>1, <1>4, <2>2, LayoutFacts, PadToOffset
  <2>4. ofs' = Layout'
    BY <1>3, <1>7, <2>1, <2>2 DEF EmitRelaText, AddName
  <2>5. Positions'
    BY <2>1, <2>3, <2>4 DEF Positions
  <2>6. PlacedAsStated'
    BY <1>1, <2>1, <2>3 DEF PlacedAsStated
  <2>7. QED
    BY <2>5, <2>6
<1>8. CASE EmitData
  <2>1. pc = "remapData" /\ pc' = "writeLocals" /\ ofs' = ofs /\ prog' = prog /\ symtab' = symtab
    BY <1>8 DEF EmitData
  <2>2. ofs = Layout /\ p = Layout.relaText + 24 * Len(prog.relas["text"])
    BY <1>1, <2>1 DEF Positions
  <2>3. PadTo(p, ofs.data) = ofs.data
    BY <1>1, <1>4, <2>2, LayoutFacts, PadToOffset
  <2>4. PadTo(ofs.data + prog.size["data"], ofs.relaData) = ofs.relaData
    <3>1. Layout.data + prog.size["data"] \in Nat
      BY <1>4
    <3>2. QED
      BY <1>1, <1>4, <2>2, <3>1, LayoutFacts, PadToOffset
  <2>5. PadTo(ofs.relaData + 24 * Len(prog.relas["data"]), ofs.symtab) = ofs.symtab
    <3>1. Layout.relaData + 24 * Len(prog.relas["data"]) \in Nat
      BY <1>4
    <3>2. QED
      BY <1>1, <1>4, <2>2, <3>1, LayoutFacts, PadToOffset
  <2>6. /\ placed' = placed \cup {<<"data", ofs.data>>, <<"relaData", ofs.relaData>>,
                                  <<"symtab", ofs.symtab>>}
        /\ p' = ofs.symtab + 24
    BY <1>8, <2>3, <2>4, <2>5 DEF EmitData
  <2>7. Len(symtab) = 0
    <3>1. \A n \in Indices : ~Written(n)
      BY <2>1 DEF Written, Taken
    <3>2. InPlace
      BY DEF IInv
    <3>3. QED
      BY <1>1, <3>1, <3>2 DEF InPlace
  <2>8. ofs' = Layout'
    BY <1>3, <1>8, <2>1, <2>2 DEF EmitData, AddName
  <2>9. Positions'
    BY <1>4, <2>1, <2>2, <2>6, <2>7, <2>8 DEF Positions
  <2>10. PlacedAsStated'
    BY <1>1, <2>1, <2>6 DEF PlacedAsStated
  <2>11. QED
    BY <2>9, <2>10
<1>9. CASE WriteSymbol
  <2>1. /\ pc \in Writing /\ pc' = pc
        /\ Chosen(i) => /\ symtab' = Append(symtab, [sym |-> i, name |-> strIdx[i]])
                        /\ p' = p + 24
        /\ ~Chosen(i) => UNCHANGED <<symtab, p>>
    BY <1>9, WriteStep
  <2>2. UNCHANGED <<ofs, placed>>
    BY <1>9 DEF WriteSymbol
  <2>3. ofs = Layout /\ p = ofs.symtab + 24 * (Len(symtab) + 1)
    BY <1>1, <2>1 DEF Positions
  <2>4. p' = ofs'.symtab + 24 * (Len(symtab') + 1)
    <3>1. CASE Chosen(i)
      <4>1. Len(symtab') = Len(symtab) + 1
        BY <1>1, <2>1, <3>1 DEF Typed
      <4>2. QED
        BY <1>1, <1>4, <2>1, <2>2, <2>3, <3>1, <4>1, SMTT(20)
    <3>2. CASE ~Chosen(i)
      BY <2>1, <2>2, <2>3, <3>2
    <3>3. QED
      BY <3>1, <3>2
  <2>5. ofs' = Layout'
    BY <1>3, <1>9, <2>2, <2>3 DEF WriteSymbol, AddName
  <2>6. Positions'
    BY <2>1, <2>4, <2>5 DEF Positions
  <2>7. PlacedAsStated'
    BY <1>1, <2>2 DEF PlacedAsStated
  <2>8. QED
    BY <2>6, <2>7
<1>10. CASE EmitTables
  <2>1. /\ pc = "writeGlobals" /\ i > SymCount /\ pc' = "write" /\ ofs' = ofs
        /\ placed' = placed \cup {<<"strtab", p>>, <<"shstrtab", p + strtabSz>>}
    BY <1>10 DEF EmitTables
  <2>2. ofs = Layout /\ p = ofs.symtab + 24 * (Len(symtab) + 1)
    BY <1>1, <2>1 DEF Positions
  <2>3. Len(symtab) = SymCount
    BY <2>1, WrittenAtEnd
  <2>4. p = ofs.strtab /\ p + strtabSz = ofs.shstrtab
    BY <1>1, <2>2, <2>3, LayoutFacts
  <2>5. ofs' = Layout'
    BY <1>3, <1>10, <2>1, <2>2 DEF EmitTables, AddName
  <2>6. Positions'
    BY <2>1, <2>5 DEF Positions
  <2>7. PlacedAsStated'
    BY <1>1, <2>1, <2>4 DEF PlacedAsStated
  <2>8. QED
    BY <2>6, <2>7
<1>11. CASE Number \/ Remap \/ NextLoop \/ WriteFile \/ Returned \/ UNCHANGED vars
  <2>1. UNCHANGED <<ofs, p, placed, symtab>>
    BY <1>11, RemapStep DEF Number, NextLoop, WriteFile, Returned, vars
  <2>2. Layout' = Layout \/ pc = "names"
    BY <1>3 DEF AddName
  <2>3. \/ pc' = pc
        \/ pc = "numberLocals" /\ pc' = "numberGlobals"
        \/ pc = "numberGlobals" /\ pc' = "remapText"
        \/ pc = "writeLocals" /\ pc' = "writeGlobals"
        \/ pc = "write" /\ pc' \in {"done", "failed"}
    BY <1>11, RemapStep, NextLoopStep DEF Number, WriteFile, Returned, vars
  <2>4. Positions'
    BY <1>1, <1>2, <2>1, <2>2, <2>3 DEF Positions, Sections
  <2>5. PlacedAsStated'
    BY <1>1, <2>1 DEF PlacedAsStated
  <2>6. QED
    BY <2>4, <2>5
<1>12. QED
  BY <1>5, <1>6, <1>7, <1>8, <1>9, <1>10, <1>11 DEF Next

---------------------------------------------------------------------------
(* The invariant holds throughout. *)

LEMMA InitInv == Init => IInv
<1> SUFFICES ASSUME Init PROVE IInv
  OBVIOUS
<1> USE DEF Placing, Writing, Finished
<1>1. /\ IsProgram(prog) /\ given = prog.relas /\ pc = "names" /\ i = 1 /\ names = {}
      /\ strIdx = <<>> /\ strtabSz = 1 /\ p = 0 /\ placed = {} /\ nextIdx = 1
      /\ symIdx = [n \in Indices |-> -1] /\ symtab = <<>> /\ firstGlobal = 1
      /\ relas = [s \in Sections |-> <<>>]
  BY ProgramsAssumption DEF Init, Indices
<1>2. Typed
  <2>1. given \in [Sections -> Seq(Nat)]
    BY <1>1 DEF IsProgram
  <2>2. relas \in [Sections -> Seq(Nat)]
    BY <1>1
  <2>3. QED
    BY <1>1, <2>1, <2>2 DEF Typed
<1>3. \A n \in Indices : ~Numbered(n) /\ ~Written(n)
  BY <1>1 DEF Numbered, Written, Taken
<1>4. Numbering /\ InPlace
  BY <1>1, <1>3 DEF Numbering, InPlace
<1>5. Boundary
  BY <1>1, <1>3 DEF Boundary
<1>6. Remapping
  BY <1>1 DEF Remapping, Remapped
<1>7. Positions /\ PlacedAsStated /\ Rounds
  BY <1>1 DEF Positions, PlacedAsStated, Rounds
<1>8. Naming
  <2>1. SymCount \in Nat /\ Len(strIdx) = 0
    BY <1>1, <1>2, Symbols
  <2>2. QED
    BY <1>1, <2>1, SizesAssumption DEF Naming
<1>9. QED
  BY <1>2, <1>4, <1>5, <1>6, <1>7, <1>8 DEF IInv

(* Every step keeps the invariant, *)
LEMMA NextInv == IInv /\ [Next]_vars => IInv'
BY TypedNext, NumberingNext, InPlaceNext, BoundaryNext, RemappingNext, PositionsNext,
   NamingNext, RoundsNext DEF IInv

(* which therefore holds always. *)
LEMMA Invariant == Spec => []IInv
BY InitInv, NextInv, PTL DEF Spec

---------------------------------------------------------------------------
(* What a reader of the object relies on. *)

(* Each relocation of a finished object names, by its number in .symtab,   *)
(* the symbol the program meant: the writer renumbers in two loops and     *)
(* writes in two others, and they agree for every table of symbols.        *)
THEOREM RelocationsKept == Spec => []RelocationsKeepSymbol
<1>1. IInv => RelocationsKeepSymbol
  <2> SUFFICES ASSUME IInv, Complete,
                      NEW s \in Sections
               PROVE  /\ Len(relas[s]) = Len(given[s])
                      /\ \A k \in DOMAIN given[s] :
                           IF given[s][k] \in 1 .. SymCount
                           THEN relas[s][k] \in DOMAIN symtab
                                /\ symtab[relas[s][k]].sym = given[s][k]
                           ELSE relas[s][k] = given[s][k]
    BY DEF RelocationsKeepSymbol
  <2>1. pc \in Finished /\ Typed /\ InPlace /\ Remapping
    BY DEF Complete, Finished, IInv
  <2>2. relas[s] = prog.relas[s]
    BY <2>1 DEF Remapping, Sections, Finished
  <2>3. given[s] \in Seq(Nat) /\ symtab \in Seq([sym : Nat, name : Nat])
    BY <2>1 DEF Typed
  <2>4. Len(relas[s]) = Len(given[s])
    BY <2>1, <2>2 DEF Remapping
  <2>5. ASSUME NEW k \in DOMAIN given[s]
        PROVE  IF given[s][k] \in 1 .. SymCount
               THEN relas[s][k] \in DOMAIN symtab
                    /\ symtab[relas[s][k]].sym = given[s][k]
               ELSE relas[s][k] = given[s][k]
    <3>1. k \in 1 .. Len(given[s])
      BY <2>3
    <3>2. Remapped(s, k)
      BY <2>1 DEF Remapped, Finished
    <3>3. relas[s][k] = Renumbered(given[s][k])
      BY <2>1, <2>2, <3>1, <3>2 DEF Remapping
    <3>4. CASE given[s][k] \in 1 .. SymCount
      <4>1. Written(given[s][k]) /\ given[s][k] \in Indices
        BY <2>1, <3>4, WrittenAtEnd DEF Indices
      <4>2. relas[s][k] = symIdx[given[s][k]]
        BY <3>3, <3>4 DEF Renumbered
      <4>3. relas[s][k] \in 1 .. Len(symtab) /\ symtab[relas[s][k]].sym = given[s][k]
        <5>1. /\ symIdx[given[s][k]] \in 1 .. Len(symtab)
              /\ symtab[symIdx[given[s][k]]]
                   = [sym |-> given[s][k], name |-> strIdx[given[s][k]]]
          BY <2>1, <4>1 DEF InPlace
        <5>2. QED
          BY <4>2, <5>1
      <4>4. QED
        BY <2>3, <3>4, <4>3
    <3>5. CASE given[s][k] \notin 1 .. SymCount
      BY <3>3, <3>5 DEF Renumbered
    <3>6. QED
      BY <3>4, <3>5
  <2>6. QED
    BY <2>4, <2>5
<1>2. QED
  BY Invariant, <1>1, PTL

(* Every symbol is in .symtab once, the locals before sh_info, the globals *)
(* from it on, whatever order elf_syms has them in.                        *)
THEOREM LocalsAreFirst == Spec => []LocalsFirst
<1>1. IInv => LocalsFirst
  <2> SUFFICES ASSUME IInv, Complete
               PROVE  /\ {symtab[n].sym : n \in DOMAIN symtab} = 1 .. SymCount
                      /\ Len(symtab) = SymCount
                      /\ \A n \in DOMAIN symtab :
                           Syms[symtab[n].sym].global <=> n >= firstGlobal
    BY DEF LocalsFirst
  <2>1. pc \in Finished /\ Typed /\ InPlace /\ Boundary
    BY DEF Complete, Finished, IInv
  <2>2. Len(symtab) = SymCount /\ \A n \in Indices : Written(n)
    BY <2>1, WrittenAtEnd
  <2>3. DOMAIN symtab = 1 .. Len(symtab)
    BY <2>1 DEF Typed
  <2>4. \A x \in 1 .. Len(symtab) : symtab[x].sym \in Indices /\ symIdx[symtab[x].sym] = x
    <3>1. SUFFICES ASSUME NEW x \in 1 .. Len(symtab)
                   PROVE  symtab[x].sym \in Indices /\ symIdx[symtab[x].sym] = x
      OBVIOUS
    <3>2. PICK n \in Indices : Written(n) /\ symIdx[n] = x
      BY <2>1 DEF InPlace
    <3>3. symtab[x] = [sym |-> n, name |-> strIdx[n]]
      BY <2>1, <3>2 DEF InPlace
    <3>4. QED
      BY <3>2, <3>3
  <2>5. \A n \in Indices : symIdx[n] \in 1 .. Len(symtab) /\ symtab[symIdx[n]].sym = n
    <3>1. SUFFICES ASSUME NEW n \in Indices
                   PROVE  symIdx[n] \in 1 .. Len(symtab) /\ symtab[symIdx[n]].sym = n
      OBVIOUS
    <3>2. symIdx[n] \in 1 .. Len(symtab)
      BY <2>1, <2>2 DEF InPlace
    <3>3. symtab[symIdx[n]] = [sym |-> n, name |-> strIdx[n]]
      BY <2>1, <2>2 DEF InPlace
    <3>4. QED
      BY <3>2, <3>3
  <2>6. {symtab[n].sym : n \in DOMAIN symtab} = 1 .. SymCount
    BY <2>3, <2>4, <2>5 DEF Indices
  <2>7. \A n \in DOMAIN symtab : Syms[symtab[n].sym].global <=> n >= firstGlobal
    BY <2>1, <2>2, <2>3, <2>4 DEF Boundary, Glob
  <2>8. QED
    BY <2>2, <2>6, <2>7
<1>2. QED
  BY Invariant, <1>1, PTL

(* The write position meets every offset the section headers state, so the *)
(* sections begin where a reader looks for them, whatever their sizes.     *)
THEOREM SectionsPlaced == Spec => []PlacedAsStated
<1>1. IInv => PlacedAsStated
  BY DEF IInv
<1>2. QED
  BY Invariant, <1>1, PTL

(* A symbol's name is read back whole: the offset written with the symbol  *)
(* is where its own name begins, no other name reaches it, and the table   *)
(* holds its last byte.                                                    *)
THEOREM NamesAreReadBack == Spec => []NamesReadBack
<1>1. IInv => NamesReadBack
  <2> SUFFICES ASSUME IInv
               PROVE  /\ strtabSz <= StrtabSize
                      /\ Complete => \A n \in DOMAIN symtab :
                           LET k == symtab[n].sym
                           IN  /\ <<symtab[n].name, k>> \in names
                               /\ \A x \in names : x[1] <= symtab[n].name
                                    => x[2] = k \/ x[1] + Syms[x[2]].len < symtab[n].name
                               /\ symtab[n].name + Syms[k].len < strtabSz
    BY DEF NamesReadBack
  <2>1. Typed /\ Naming /\ InPlace
    BY DEF IInv
  <2>2. ASSUME Complete, NEW n \in DOMAIN symtab
        PROVE  LET k == symtab[n].sym
               IN  /\ <<symtab[n].name, k>> \in names
                   /\ \A x \in names : x[1] <= symtab[n].name
                        => x[2] = k \/ x[1] + Syms[x[2]].len < symtab[n].name
                   /\ symtab[n].name + Syms[k].len < strtabSz
    <3>1. n \in 1 .. Len(symtab)
      BY <2>1 DEF Typed
    <3>2. PICK k \in Indices : symIdx[k] = n /\ symtab[n] = [sym |-> k, name |-> strIdx[k]]
      <4>1. PICK k \in Indices : Written(k) /\ symIdx[k] = n
        BY <2>1, <3>1 DEF InPlace
      <4>2. symtab[symIdx[k]] = [sym |-> k, name |-> strIdx[k]]
        BY <2>1, <4>1 DEF InPlace
      <4>3. QED
        BY <4>1, <4>2
    <3>3. Len(strIdx) = SymCount /\ strIdx \in Seq(Nat) /\ SymCount \in Nat
      BY <2>1, <2>2, Symbols DEF Naming, Complete, Placing, Finished, Typed
    <3>4. names = {<<strIdx[j], j>> : j \in Indices}
      BY <2>1, <3>3 DEF Naming, Indices
    <3>5. /\ symtab[n].sym = k /\ symtab[n].name = strIdx[k]
      BY <3>2
    <3>6. <<strIdx[k], k>> \in names
      BY <3>4
    <3>7. strIdx[k] + Syms[k].len < strtabSz
      BY <2>1, <3>3 DEF Naming, Indices
    <3>8. ASSUME NEW x \in names, x[1] <= strIdx[k]
          PROVE  x[2] = k \/ x[1] + Syms[x[2]].len < strIdx[k]
      <4>1. PICK j \in Indices : x = <<strIdx[j], j>>
        BY <3>4
      <4>2. CASE j < k
        BY <2>1, <3>3, <4>1, <4>2 DEF Naming, Indices
      <4>3. CASE k < j
        <5>1. strIdx[k] + Syms[k].len < strIdx[j]
          BY <2>1, <3>3, <4>3 DEF Naming, Indices
        <5>2. strIdx[j] <= strIdx[k]
          BY <3>8, <4>1
        <5>3. strIdx[k] \in Nat /\ strIdx[j] \in Nat /\ Syms[k].len \in Nat
          BY <2>1, <3>3, Symbols DEF Indices
        <5>4. QED
          BY <5>1, <5>2, <5>3
      <4>4. QED
        BY <3>3, <4>1, <4>2, <4>3 DEF Indices
    <3>9. QED
      BY <3>5, <3>6, <3>7, <3>8
  <2>3. strtabSz <= StrtabSize
    BY <2>1 DEF Naming
  <2>4. QED
    BY <2>2, <2>3
<1>2. QED
  BY Invariant, <1>1, PTL
=============================================================================
