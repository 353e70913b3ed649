----------------------------- MODULE ObjWriter -----------------------------
(***************************************************************************)
(* elf_write_object (app/elf_write.c), which tcc and tas end with: it      *)
(* turns the symbol table and the relocations the program has collected    *)
(* into a relocatable object.                                              *)
(*                                                                         *)
(* ELF wants local symbols before global ones, so the writer renumbers     *)
(* symbols in one pair of loops, rewrites relocations to the new numbers   *)
(* in two more, and writes symbols in a last pair that must number them as *)
(* the first one did.  The offsets in the section headers are computed     *)
(* before anything is written; the write position p must meet each.        *)
(***************************************************************************)
EXTENDS Integers, Sequences

CONSTANTS
  Programs,      \* what tcc or tas may have collected when they end
  StrtabSize,    \* ELF_STRTAB_SIZE
  MaxSymStr,     \* ELF_MAX_SYM_STR
  BufSize,       \* the size of buf, in which the file is built
  ShstrtabSize   \* what build_shstrtab returns for the section names

(* elf_syms, elf_rels, elf_data_rels and the sizes of the sections.  A     *)
(* relocation names its symbol by position in elf_syms, counted from 1.    *)
Sections == {"text", "data"}
IsProgram(g) ==
  g \in [syms  : Seq([len : Nat, global : BOOLEAN]),
         relas : [Sections -> Seq(Nat)],
         size  : [Sections -> Nat]]

ASSUME ProgramsAssumption == \A g \in Programs : IsProgram(g)
ASSUME SizesAssumption == StrtabSize \in Nat \ {0} /\ ShstrtabSize \in Nat

VARIABLES
  prog,        \* the program's tables; relas is rewritten in place
  given,       \* the relocations as the program left them
  pc,          \* the part of the function being executed
  i,           \* its loop counter
  names,       \* strtab_buf: which name begins at which offset
  strIdx,      \* sym_str_idx
  strtabSz,    \* strtab_sz
  ofs,         \* the file offsets of the sections, as the headers state them
  p,           \* the next byte of buf
  placed,      \* where the contents of sections were really put: pairs
  symIdx,      \* elf_syms[].sym_idx
  nextIdx,     \* elf_idx
  symtab,      \* the symbols written after the null symbol, by position
  firstGlobal, \* first_global, the sh_info of .symtab
  relas,       \* the relocations written
  file         \* the file at path: "none", "partial" or "complete"

vars == <<prog, given, pc, i, names, strIdx, strtabSz, ofs, p, placed, symIdx,
          nextIdx, symtab, firstGlobal, relas, file>>

Syms     == prog.syms
SymCount == Len(Syms)
NumSections == 9
ShdrOfs  == 64

Init == /\ prog \in Programs
        /\ given = prog.relas
        /\ pc = "names"
        /\ i = 1
        /\ names = {}
        /\ strIdx = <<>>
        /\ strtabSz = 1
        /\ ofs = <<>>
        /\ p = 0
        /\ placed = {}
        /\ symIdx = [n \in 1 .. SymCount |-> -1]
        /\ nextIdx = 1
        /\ symtab = <<>>
        /\ firstGlobal = 1
        /\ relas = [s \in Sections |-> <<>>]
        /\ file = "none"

---------------------------------------------------------------------------
(* .strtab                                                                 *)

Exit == /\ pc' = "exit"
        /\ UNCHANGED <<prog, given, i, names, strIdx, strtabSz, ofs, p, placed,
                       symIdx, nextIdx, symtab, firstGlobal, relas, file>>

TooManySymbols == pc = "names" /\ i = 1 /\ SymCount > MaxSymStr /\ Exit

StrtabOverflow == /\ pc = "names"
                  /\ SymCount <= MaxSymStr
                  /\ i <= SymCount
                  /\ strtabSz + Syms[i].len + 1 > StrtabSize
                  /\ Exit

AfterName(z, len) == z + len + 1

(* Mutant: the check leaves no room for the terminating null.              *)
AddNameUnterminated ==
  /\ pc = "names"
  /\ SymCount <= MaxSymStr
  /\ i <= SymCount
  /\ strtabSz + Syms[i].len <= StrtabSize
  /\ strIdx' = Append(strIdx, strtabSz)
  /\ names' = names \cup {<<strtabSz, i>>}
  /\ strtabSz' = AfterName(strtabSz, Syms[i].len)
  /\ i' = i + 1
  /\ UNCHANGED <<prog, given, pc, ofs, p, placed, symIdx, nextIdx, symtab,
                 firstGlobal, relas, file>>

AddName == /\ pc = "names"
           /\ SymCount <= MaxSymStr
           /\ i <= SymCount
           /\ strtabSz + Syms[i].len + 1 <= StrtabSize
           /\ strIdx' = Append(strIdx, strtabSz)
           /\ names' = names \cup {<<strtabSz, i>>}
           /\ strtabSz' = AfterName(strtabSz, Syms[i].len)
           /\ i' = i + 1
           /\ UNCHANGED <<prog, given, pc, ofs, p, placed, symIdx, nextIdx,
                          symtab, firstGlobal, relas, file>>

---------------------------------------------------------------------------
(* The layout, and the parts of the file up to .text.                      *)

RoundUp(v, a) == ((v + a - 1) \div a) * a

(* Mutant: the offset of .data leaves out the relocations of .text.        *)
LayoutWithoutRela ==
  LET text     == RoundUp(ShdrOfs + NumSections * 64, 16)
      relaText == RoundUp(text + prog.size["text"], 8)
      data     == RoundUp(relaText, 8)
      relaData == RoundUp(data + prog.size["data"], 8)
      sym      == RoundUp(relaData + 24 * Len(prog.relas["data"]), 8)
      str      == sym + 24 * (SymCount + 1)
  IN  [text |-> text, relaText |-> relaText, data |-> data,
       relaData |-> relaData, symtab |-> sym, strtab |-> str,
       shstrtab |-> str + strtabSz]

Layout ==
  LET text     == RoundUp(ShdrOfs + NumSections * 64, 16)
      relaText == RoundUp(text + prog.size["text"], 8)
      data     == RoundUp(relaText + 24 * Len(prog.relas["text"]), 8)
      relaData == RoundUp(data + prog.size["data"], 8)
      sym      == RoundUp(relaData + 24 * Len(prog.relas["data"]), 8)
      str      == sym + 24 * (SymCount + 1)
  IN  [text |-> text, relaText |-> relaText, data |-> data,
       relaData |-> relaData, symtab |-> sym, strtab |-> str,
       shstrtab |-> str + strtabSz]

(* while (p < at) b[p++] = 0;                                              *)
PadTo(pos, at) == IF pos < at THEN at ELSE pos

HeaderAndText == /\ pc = "names"
                 /\ SymCount <= MaxSymStr
                 /\ i > SymCount
                 /\ ofs' = Layout
                 /\ placed' = {<<"text", PadTo(ShdrOfs + NumSections * 64,
                                               Layout.text)>>}
                 /\ p' = PadTo(ShdrOfs + NumSections * 64, Layout.text)
                         + prog.size["text"]
                 /\ pc' = "numberLocals"
                 /\ i' = 1
                 /\ UNCHANGED <<prog, given, names, strIdx, strtabSz, symIdx,
                                nextIdx, symtab, firstGlobal, relas, file>>

---------------------------------------------------------------------------
(* Renumbering: locals, then globals, then the relocations of .text.       *)

(* The symbols a loop takes: the locals in the first of a pair, the globals *)
(* in the second.                                                          *)
Chosen(n) == IF pc \in {"numberLocals", "writeLocals"} THEN ~Syms[n].global
             ELSE Syms[n].global

(* Mutant: one loop numbers locals and globals as they come.               *)
NumberAsTheyCome ==
  /\ pc \in {"numberLocals", "numberGlobals"}
  /\ i <= SymCount
  /\ symIdx' = [symIdx EXCEPT ![i] = i]
  /\ nextIdx' = i + 1
  /\ i' = i + 1
  /\ UNCHANGED <<prog, given, pc, names, strIdx, strtabSz, ofs, p, placed,
                 symtab, firstGlobal, relas, file>>

Number == /\ pc \in {"numberLocals", "numberGlobals"}
          /\ i <= SymCount
          /\ IF Chosen(i)
             THEN /\ symIdx' = [symIdx EXCEPT ![i] = nextIdx]
                  /\ nextIdx' = nextIdx + 1
             ELSE UNCHANGED <<symIdx, nextIdx>>
          /\ i' = i + 1
          /\ UNCHANGED <<prog, given, pc, names, strIdx, strtabSz, ofs, p,
                         placed, symtab, firstGlobal, relas, file>>

(* A relocation against no symbol, or none of the table, is left alone.    *)
Renumbered(r) == IF r \in 1 .. SymCount THEN symIdx[r] ELSE r

Remaps == [s \in Sections |-> IF s = "text" THEN "remapText" ELSE "remapData"]
Remap == \E s \in Sections :
           /\ pc = Remaps[s]
           /\ i <= Len(prog.relas[s])
           /\ prog' = [prog EXCEPT !.relas[s][i] = Renumbered(@)]
           /\ i' = i + 1
           /\ UNCHANGED <<given, pc, names, strIdx, strtabSz, ofs, p, placed,
                          symIdx, nextIdx, symtab, firstGlobal, relas, file>>

EmitRelaText == /\ pc = "remapText"
                /\ i > Len(prog.relas["text"])
                /\ placed' = placed \cup {<<"relaText", PadTo(p, ofs.relaText)>>}
                /\ p' = PadTo(p, ofs.relaText) + 24 * Len(prog.relas["text"])
                /\ relas' = [relas EXCEPT !["text"] = prog.relas["text"]]
                /\ pc' = "remapData"
                /\ i' = 1
                /\ UNCHANGED <<prog, given, names, strIdx, strtabSz, ofs, symIdx,
                               nextIdx, symtab, firstGlobal, file>>

(* .data, .rela.data, the padding before .symtab and the null symbol.      *)
EmitData ==
  LET data     == PadTo(p, ofs.data)
      relaData == PadTo(data + prog.size["data"], ofs.relaData)
      sym      == PadTo(relaData + 24 * Len(prog.relas["data"]), ofs.symtab)
  IN  /\ pc = "remapData"
      /\ i > Len(prog.relas["data"])
      /\ placed' = placed \cup {<<"data", data>>, <<"relaData", relaData>>,
                                <<"symtab", sym>>}
      /\ p' = sym + 24
      /\ relas' = [relas EXCEPT !["data"] = prog.relas["data"]]
      /\ pc' = "writeLocals"
      /\ i' = 1
      /\ UNCHANGED <<prog, given, names, strIdx, strtabSz, ofs, symIdx, nextIdx,
                     symtab, firstGlobal, file>>

---------------------------------------------------------------------------
(* .symtab                                                                 *)

(* WRITE_SYM: a symbol is its place in elf_syms and the offset of its name *)
(* Mutant: first_global is counted in both loops.                          *)
WriteSymbolCountAll ==
  /\ pc \in {"writeLocals", "writeGlobals"}
  /\ i <= SymCount
  /\ IF Chosen(i)
     THEN /\ symtab' = Append(symtab, [sym |-> i, name |-> strIdx[i]])
          /\ p' = p + 24
          /\ firstGlobal' = firstGlobal + 1
     ELSE UNCHANGED <<symtab, p, firstGlobal>>
  /\ i' = i + 1
  /\ UNCHANGED <<prog, given, pc, names, strIdx, strtabSz, ofs, placed, symIdx,
                 nextIdx, relas, file>>

WriteSymbol == /\ pc \in {"writeLocals", "writeGlobals"}
               /\ i <= SymCount
               /\ IF Chosen(i)
                  THEN /\ symtab' = Append(symtab, [sym |-> i,
                                                    name |-> strIdx[i]])
                       /\ p' = p + 24
                       /\ firstGlobal' = IF pc = "writeLocals"
                                         THEN firstGlobal + 1 ELSE firstGlobal
                  ELSE UNCHANGED <<symtab, p, firstGlobal>>
               /\ i' = i + 1
               /\ UNCHANGED <<prog, given, pc, names, strIdx, strtabSz, ofs,
                              placed, symIdx, nextIdx, relas, file>>

(* The loops over the symbols run from the first again.                    *)
Follows == [c \in {"numberLocals", "numberGlobals", "writeLocals"} |->
              CASE c = "numberLocals"  -> "numberGlobals"
                [] c = "numberGlobals" -> "remapText"
                [] c = "writeLocals"   -> "writeGlobals"]
NextLoop == /\ pc \in DOMAIN Follows
            /\ i > SymCount
            /\ pc' = Follows[pc]
            /\ i' = 1
            /\ UNCHANGED <<prog, given, names, strIdx, strtabSz, ofs, p, placed,
                           symIdx, nextIdx, symtab, firstGlobal, relas, file>>

---------------------------------------------------------------------------
(* .strtab and .shstrtab follow without padding; then the file is written. *)

EmitTables == /\ pc = "writeGlobals"
              /\ i > SymCount
              /\ placed' = placed \cup {<<"strtab", p>>,
                                        <<"shstrtab", p + strtabSz>>}
              /\ p' = p + strtabSz + ShstrtabSize
              /\ pc' = "write"
              /\ UNCHANGED <<prog, given, i, names, strIdx, strtabSz, ofs,
                             symIdx, nextIdx, symtab, firstGlobal, relas, file>>

(* The file cannot be created, or one write does not take all of it: the   *)
(* function returns -1.                                                    *)
WriteFile == /\ pc = "write"
             /\ \/ pc' = "done" /\ file' = "complete"
                \/ pc' = "failed" /\ file' \in {"none", "partial"}
             /\ UNCHANGED <<prog, given, i, names, strIdx, strtabSz, ofs, p,
                            placed, symIdx, nextIdx, symtab, firstGlobal, relas>>

Returned == pc \in {"exit", "failed", "done"} /\ UNCHANGED vars

Next == \/ TooManySymbols \/ StrtabOverflow \/ AddName \/ HeaderAndText
        \/ Number \/ Remap \/ EmitRelaText \/ EmitData
        \/ WriteSymbol \/ NextLoop \/ EmitTables \/ WriteFile \/ Returned

Spec == Init /\ [][Next]_vars

---------------------------------------------------------------------------
(* Properties.                                                             *)

Complete == pc \in {"write", "done"}

(* Renumbering in place and writing in another loop come to the same: each *)
(* relocation of the object names the symbol the program meant, and one    *)
(* that named no symbol of the table still has its old number.             *)
RelocationsKeepSymbol ==
  Complete => \A s \in Sections :
    /\ Len(relas[s]) = Len(given[s])
    /\ \A k \in DOMAIN given[s] :
         IF given[s][k] \in 1 .. SymCount
         THEN relas[s][k] \in DOMAIN symtab
              /\ symtab[relas[s][k]].sym = given[s][k]
         ELSE relas[s][k] = given[s][k]

(* Every symbol is written once, the locals before sh_info and the globals *)
(* from it on, as ELF requires of a symbol table.                          *)
LocalsFirst ==
  Complete =>
    /\ {symtab[n].sym : n \in DOMAIN symtab} = 1 .. SymCount
    /\ Len(symtab) = SymCount
    /\ \A n \in DOMAIN symtab :
         Syms[symtab[n].sym].global <=> n >= firstGlobal

(* The contents of each section begin where its header says, and the       *)
(* sections do not run into one another.                                   *)
PlacedAsStated == \A x \in placed : x[2] = ofs[x[1]]

(* A reader that follows a symbol's name offset finds its own name, ended  *)
(* before the next one begins and within the table, full or not.           *)
NamesReadBack ==
  /\ strtabSz <= StrtabSize
  /\ Complete => \A n \in DOMAIN symtab :
       LET k == symtab[n].sym
       IN  /\ <<symtab[n].name, k>> \in names
           /\ \A x \in names : x[1] <= symtab[n].name
                                => x[2] = k \/ x[1] + Syms[x[2]].len < symtab[n].name
           /\ symtab[n].name + Syms[k].len < strtabSz

(* tcc.h says of the fixed buffers that an overflow is reported and ends   *)
(* the program: nothing is ever stored past the end of buf.                *)
BufferNotOverrun == p <= BufSize
=============================================================================
