------------------------------- MODULE Linker -------------------------------
(***************************************************************************)
(* tld, the static linker (app/tld.c): it reads relocatable objects, lays  *)
(* their sections out one after another, resolves symbols, applies         *)
(* relocations and writes one executable.                                  *)
(*                                                                         *)
(* Every loop of the program is a sequence of steps, one per iteration: fi *)
(* is the file the loop is at and si the symbol or relocation of the file. *)
(* The bytes of a section are abstract: copyOff says where those of each   *)
(* file were copied, patches which words of the copy were overwritten.     *)
(***************************************************************************)
EXTENDS ObjectFile

CONSTANTS
  Objects,    \* the object files the command line may name
  EntryName,  \* entry_sym_name: __tlibc_start, or the argument of -e
  GNames,     \* the symbol names that begin with "_G"
  GotName,    \* "_GLOBAL_OFFSET_TABLE_", one of them
  BaseAddr,   \* BASE_ADDR
  Word32,     \* 2^32: a 4-byte field is written modulo it
  Word64,     \* 2^64: addresses wrap at it
  MaxInputs,  \* MAX_INPUTS
  MaxSyms     \* MAX_SYMS

ASSUME ObjectsAssumption == \A o \in Objects : IsObject(o)
ASSUME BoundsAssumption  == /\ BaseAddr \in Nat \ {0}
                            /\ Word32 \in Nat \ {0}
                            /\ Word64 \in Nat \ {0}
                            /\ MaxInputs \in Nat
                            /\ MaxSyms \in Nat

VARIABLES
  phase,    \* the function main is in
  reason,   \* what error() was called with, "none" while it was not
  inputs,   \* inputs[0 .. input_count - 1]
  mergeOff, \* *_merge_off of the files merge_sections has passed
  copyOff,  \* where main copied the sections of the files it has passed
  total,    \* merged_text_size, merged_data_size, merged_bss_size
  addr,     \* text_addr, data_addr, bss_addr
  fi, si,   \* loop counters
  table,    \* syms[0 .. sym_count - 1]
  entry,    \* entry_addr
  patches,  \* the words relocations wrote into the merged sections
  output    \* whether the file at output_path is there, and whole

vars == <<phase, reason, inputs, mergeOff, copyOff, total, addr, fi, si,
          table, entry, patches, output>>
layoutVars == <<mergeOff, copyOff, total, addr>>
symVars    == <<table, entry>>

Init == /\ phase = "reading"
        /\ reason = "none"
        /\ inputs = <<>>
        /\ mergeOff = <<>>
        /\ copyOff = <<>>
        /\ total = Zero
        /\ addr = Zero
        /\ fi = 1
        /\ si = 1
        /\ table = <<>>
        /\ entry = 0
        /\ patches = {}
        /\ output = "none"

(* error(): the process prints the reason and exits, writing nothing.      *)
Fail(r) == /\ phase' = "failed"
           /\ reason' = r
           /\ UNCHANGED <<inputs, layoutVars, fi, si, symVars, patches, output>>

---------------------------------------------------------------------------
(* The command line: one read_input for each argument that is no option.   *)

TooManyInputs == /\ phase = "reading"
                 /\ Len(inputs) >= MaxInputs
                 /\ Fail("too many inputs")

ReadInput == /\ phase = "reading"
             /\ Len(inputs) < MaxInputs
             /\ \E o \in Objects : inputs' = Append(inputs, o)
             /\ UNCHANGED <<phase, reason, layoutVars, fi, si, symVars,
                            patches, output>>

(* The file cannot be opened, sought, read whole, or is no x86-64 ET_REL.  *)
ReadInputFails == /\ phase = "reading"
                  /\ Len(inputs) < MaxInputs
                  /\ Fail("bad input")

NoInputs == /\ phase = "reading"
            /\ inputs = <<>>
            /\ Fail("no inputs")

EndOfArguments == /\ phase = "reading"
                  /\ inputs # <<>>
                  /\ phase' = "merging"
                  /\ UNCHANGED <<reason, inputs, layoutVars, fi, si, symVars,
                                 patches, output>>

---------------------------------------------------------------------------
(* merge_sections: offsets first, then the base addresses.                 *)

(* Mutant: rounds v - 1 down instead of up.                                *)
AlignUpBelow(v, a) == ((v - 1) \div a) * a

AlignUp(v, a) == ((v + a - 1) \div a) * a

(* The totals after a file with these section sizes is appended to t.      *)
Grow(t, size) ==
  [s \in Section |-> IF s = "text" THEN AlignUp(t[s] + size[s], 16)
                                   ELSE AlignUp(t[s] + size[s], 32)]

MergeFile == /\ phase = "merging"
             /\ fi <= Len(inputs)
             /\ mergeOff' = Append(mergeOff, total)
             /\ total' = Grow(total, inputs[fi].size)
             /\ fi' = fi + 1
             /\ UNCHANGED <<phase, reason, inputs, copyOff, addr, si, symVars,
                            patches, output>>

(* Mutant: .bss is placed over .data.                                      *)
AddrWithoutData(t) ==
  [s \in Section |-> IF s = "text" THEN BaseAddr ELSE BaseAddr + t["text"]]

AddrOfSections(t) ==
  [s \in Section |-> CASE s = "text" -> BaseAddr
                       [] s = "data" -> BaseAddr + t["text"]
                       [] s = "bss"  -> BaseAddr + t["text"] + t["data"]]

(* main then resets the sizes it has just read from merge_sections.        *)
SetAddresses == /\ phase = "merging"
                /\ fi > Len(inputs)
                /\ phase' = "copying"
                /\ addr' = AddrOfSections(total)
                /\ total' = Zero
                /\ fi' = 1
                /\ UNCHANGED <<reason, inputs, mergeOff, copyOff, si, symVars,
                               patches, output>>

(* The merged buffers, allocated before the copy, do not fit in memory.    *)
NoMemory == /\ phase = "copying"
            /\ fi = 1
            /\ Fail("no memory")

(* Mutant: the copy does not align the end of a file's section.            *)
CopyFileUnaligned ==
  /\ phase = "copying"
  /\ fi <= Len(inputs)
  /\ copyOff' = Append(copyOff, total)
  /\ total' = [s \in Section |-> total[s] + inputs[fi].size[s]]
  /\ fi' = fi + 1
  /\ UNCHANGED <<phase, reason, inputs, mergeOff, addr, si, symVars, patches,
                 output>>

(* main: the copy, which recomputes the sizes it copies to.                *)
CopyFile == /\ phase = "copying"
            /\ fi <= Len(inputs)
            /\ copyOff' = Append(copyOff, total)
            /\ total' = Grow(total, inputs[fi].size)
            /\ fi' = fi + 1
            /\ UNCHANGED <<phase, reason, inputs, mergeOff, addr, si, symVars,
                           patches, output>>

Base(f, s) == addr[s] + mergeOff[f][s]

---------------------------------------------------------------------------
(* resolve_symbols.                                                        *)

Entries(name)  == {i \in DOMAIN table : table[i].name = name}
(* The entry that a linear search from the first finds.                    *)
Lookup(name)   == table[CHOOSE i \in Entries(name) :
                          \A j \in Entries(name) : i <= j]
FreshEntry(name) == [name |-> name, value |-> 0, defined |-> FALSE]

FinalAddr(f, y) == CASE y.shndx = "UNDEF"   -> 0
                     [] y.shndx \in Section -> Base(f, y.shndx) + y.value
                     [] OTHER               -> y.value

AtSymbol(p) == /\ phase = p
               /\ fi <= Len(inputs)
               /\ si <= Len(inputs[fi].syms)
Symbol      == inputs[fi].syms[si]

NextSymbol == /\ si' = si + 1
              /\ UNCHANGED <<phase, reason, inputs, layoutVars, fi, entry,
                             patches, output>>

(* Mutant: a later definition replaces an earlier one.                     *)
DefineLatest(y) ==
  LET new == [name |-> y.name, value |-> FinalAddr(fi, y), defined |-> TRUE]
  IN  table' = IF Entries(y.name) = {} THEN Append(table, new)
               ELSE [i \in DOMAIN table |->
                      IF i \in Entries(y.name) THEN new ELSE table[i]]

(* find_or_add_sym, then value and defined unless an earlier file set them *)
Define(y) ==
  LET known == Entries(y.name)
      new   == [name |-> y.name, value |-> FinalAddr(fi, y), defined |-> TRUE]
  IN  table' = IF known = {} THEN Append(table, new)
               ELSE [i \in DOMAIN table |->
                      IF i \in known /\ ~table[i].defined THEN new ELSE table[i]]

SkipSymbol == /\ \/ AtSymbol("collecting") /\ ~IsDefinition(Symbol)
                 \/ AtSymbol("registering") /\ ~IsReference(Symbol)
              /\ NextSymbol
              /\ UNCHANGED table

CollectDefinition == /\ AtSymbol("collecting")
                     /\ IsDefinition(Symbol)
                     /\ Entries(Symbol.name) # {} \/ Len(table) < MaxSyms
                     /\ Define(Symbol)
                     /\ NextSymbol

RegisterReference ==
  /\ AtSymbol("registering")
  /\ IsReference(Symbol)
  /\ Entries(Symbol.name) # {} \/ Len(table) < MaxSyms
  /\ table' = IF Entries(Symbol.name) # {} THEN table
              ELSE Append(table, FreshEntry(Symbol.name))
  /\ NextSymbol

TooManySymbols == /\ \/ AtSymbol("collecting") /\ IsDefinition(Symbol)
                     \/ AtSymbol("registering") /\ IsReference(Symbol)
                  /\ Entries(Symbol.name) = {}
                  /\ Len(table) >= MaxSyms
                  /\ Fail("too many symbols")

(* The third pass: every entry is defined or exempt, and the entry exists. *)
Exempt(name) == name \in GNames
Undefined    == {i \in DOMAIN table : ~table[i].defined
                                      /\ ~Exempt(table[i].name)}
EntryAddr    == IF \E i \in Entries(EntryName) : table[i].defined
                THEN Lookup(EntryName).value ELSE 0

UndefinedSymbol == /\ phase = "checking"
                   /\ Undefined # {}
                   /\ Fail("undefined symbol")

NoEntryPoint == /\ phase = "checking"
                /\ Undefined = {}
                /\ EntryAddr = 0
                /\ Fail("no entry point")

SetEntry == /\ phase = "checking"
            /\ Undefined = {}
            /\ EntryAddr # 0
            /\ entry' = EntryAddr
            /\ phase' = "relocating"
            /\ UNCHANGED <<reason, inputs, layoutVars, fi, si, table, patches,
                           output>>

---------------------------------------------------------------------------
(* apply_relocations: of each file those of .text, then those of .data.    *)

AtRela == /\ phase = "relocating"
          /\ fi <= Len(inputs)
          /\ si <= Len(inputs[fi].relas)
Rela   == inputs[fi].relas[si]

SymbolMissing(f, r) == /\ r.sym \in DOMAIN inputs[f].syms
                       /\ inputs[f].syms[r.sym].bind # "LOCAL"
                       /\ Entries(inputs[f].syms[r.sym].name) = {}

(* Mutant: a local symbol is looked up by name like any other.             *)
SymValueByName(f, r) ==
  IF r.sym \notin DOMAIN inputs[f].syms THEN 0
  ELSE IF Entries(inputs[f].syms[r.sym].name) = {}
       THEN FinalAddr(f, inputs[f].syms[r.sym])
       ELSE Lookup(inputs[f].syms[r.sym].name).value

(* find_sym_value                                                          *)
SymValue(f, r) ==
  IF r.sym \notin DOMAIN inputs[f].syms THEN 0
  ELSE LET y == inputs[f].syms[r.sym]
       IN  IF y.bind = "LOCAL" THEN FinalAddr(f, y) ELSE Lookup(y.name).value

(* The word a relocation of file f writes: its offset in the merged        *)
(* section, its width and its value.                                       *)
(* Mutant: the offset in the file's section is taken for one in the merged *)
(* section.                                                                *)
PatchUnmerged(f, r) ==
  [file  |-> f, sec |-> r.sec, at |-> r.off, width |-> Width(r.type),
   value |-> SymValue(f, r) + r.addend]
Patch(f, r) ==
  LET S == SymValue(f, r)
      P == Base(f, r.sec) + r.off
  IN  [file  |-> f,
       sec   |-> r.sec,
       at    |-> mergeOff[f][r.sec] + r.off,
       width |-> Width(r.type),
       value |-> CASE r.type = "R64" -> (S + r.addend) % Word64
                   [] r.type = "R32" -> (S + r.addend) % Word32
                   [] OTHER          -> (S + r.addend - P) % Word32]

UndefinedInRela == /\ AtRela
                   /\ SymbolMissing(fi, Rela)
                   /\ Fail("undefined symbol in relocation")

UnsupportedRela == /\ AtRela
                   /\ ~SymbolMissing(fi, Rela)
                   /\ Rela.type = "UNSUPPORTED"
                   /\ Fail("unsupported relocation")

(* merged_text and merged_data are allocations of exactly the totals; the  *)
(* offset of a relocation, converted to int, may lead outside of them.     *)
Inside(f, r) == LET at == mergeOff[f][r.sec] + r.off
                IN  0 <= at /\ at + Width(r.type) <= total[r.sec]

ApplyRela == /\ AtRela
             /\ ~SymbolMissing(fi, Rela)
             /\ Rela.type # "UNSUPPORTED"
             /\ Rela.type = "NONE" \/ Inside(fi, Rela)
             /\ patches' = IF Rela.type = "NONE" THEN patches
                           ELSE patches \cup {Patch(fi, Rela)}
             /\ si' = si + 1
             /\ UNCHANGED <<phase, reason, inputs, layoutVars, fi, symVars,
                            output>>

(* The word is written outside of the merged section.  This is undefined:  *)
(* the process may be killed or go on with other memory overwritten, and   *)
(* nothing is known of what it leaves under output_path.                   *)
StrayRela == /\ AtRela
             /\ ~SymbolMissing(fi, Rela)
             /\ Rela.type \notin {"NONE", "UNSUPPORTED"}
             /\ ~Inside(fi, Rela)
             /\ phase' = "lost"
             /\ output' \in {"none", "partial", "complete"}
             /\ UNCHANGED <<reason, inputs, layoutVars, fi, si, symVars,
                            patches>>

---------------------------------------------------------------------------
(* The loops over files: the inner loop ends, or the outer one does.       *)

Items == IF phase = "relocating" THEN inputs[fi].relas ELSE inputs[fi].syms

(* Mutant: the outer loop does not advance.                                *)
NextFileSame == /\ phase \in {"collecting", "registering", "relocating"}
                /\ fi <= Len(inputs)
                /\ si > Len(Items)
                /\ si' = 1
                /\ UNCHANGED <<phase, reason, inputs, layoutVars, fi, symVars,
                               patches, output>>

NextFile == /\ phase \in {"collecting", "registering", "relocating"}
            /\ fi <= Len(inputs)
            /\ si > Len(Items)
            /\ fi' = fi + 1
            /\ si' = 1
            /\ UNCHANGED <<phase, reason, inputs, layoutVars, symVars, patches,
                           output>>

NextLoop == /\ fi > Len(inputs)
            /\ \/ phase = "copying"     /\ phase' = "collecting"
               \/ phase = "collecting"  /\ phase' = "registering"
               \/ phase = "registering" /\ phase' = "checking"
               \/ phase = "relocating"  /\ phase' = "writing"
            /\ fi' = 1
            /\ si' = 1
            /\ UNCHANGED <<reason, inputs, layoutVars, symVars, patches, output>>

---------------------------------------------------------------------------
(* write_output.                                                           *)

(* What a complete output says: entry point, section headers, contents.    *)
Image == [entry |-> entry, addr |-> addr, size |-> total, copied |-> copyOff,
          patches |-> patches]

CannotWrite == /\ phase = "writing"
               /\ \E r \in {"no memory", "cannot create"} : Fail(r)

(* One write, not retried: what it wrote stays under output_path.          *)
ShortWrite == /\ phase = "writing"
              /\ phase' = "failed"
              /\ reason' = "short write"
              /\ output' = "partial"
              /\ UNCHANGED <<inputs, layoutVars, fi, si, symVars, patches>>

WriteOutput == /\ phase = "writing"
               /\ phase' = "done"
               /\ output' = "complete"
               /\ UNCHANGED <<reason, inputs, layoutVars, fi, si, symVars,
                              patches>>

Exited == phase \in {"done", "failed", "lost"} /\ UNCHANGED vars

Next == \/ TooManyInputs \/ ReadInput \/ ReadInputFails \/ NoInputs
        \/ EndOfArguments
        \/ MergeFile \/ SetAddresses \/ NoMemory \/ CopyFile
        \/ SkipSymbol \/ CollectDefinition \/ RegisterReference
        \/ TooManySymbols \/ UndefinedSymbol \/ NoEntryPoint \/ SetEntry
        \/ UndefinedInRela \/ UnsupportedRela \/ ApplyRela \/ StrayRela
        \/ NextFile \/ NextLoop
        \/ CannotWrite \/ ShortWrite \/ WriteOutput
        \/ Exited

Spec == Init /\ [][Next]_vars

(* The command line is finite and every loop body terminates, so the       *)
(* process, given the processor, always takes its next step.               *)
FairSpec == Spec /\ WF_vars(Next /\ ~Exited)

---------------------------------------------------------------------------
(* Properties.                                                             *)

Phases  == {"reading", "merging", "copying", "collecting", "registering",
            "checking", "relocating", "writing", "done", "failed", "lost"}
(* merge_sections has fixed every address.                                 *)
LaidOut == Len(mergeOff) = Len(inputs) /\ phase \notin {"reading", "merging"}

(* The state variables keep their types.                                   *)
TypeOK == /\ phase \in Phases
          /\ inputs \in Seq(Objects)
          /\ mergeOff \in Seq([Section -> Nat])
          /\ copyOff \in Seq([Section -> Nat])
          /\ total \in [Section -> Nat]
          /\ addr \in [Section -> Nat]
          /\ fi \in Nat \ {0}
          /\ si \in Nat \ {0}
          /\ output \in {"none", "partial", "complete"}

(* No byte of memory belongs to two sections of input files: the running   *)
(* totals of merge_sections keep the pieces of one merged section apart,   *)
(* and text_addr, data_addr and bss_addr keep the merged sections apart.   *)
Apart(f, s, g, t) ==
  \/ Base(f, s) + inputs[f].size[s] <= Base(g, t)
  \/ Base(g, t) + inputs[g].size[t] <= Base(f, s)
PiecesDisjoint ==
  LaidOut => \A f, g \in DOMAIN mergeOff : \A s, t \in Section :
               <<f, s>> # <<g, t>> => Apart(f, s, g, t)

(* main recomputes where each file's bytes go instead of reading           *)
(* text_merge_off and data_merge_off: the two agree, so a relocation       *)
(* patches the bytes that were copied.                                     *)
CopyAgrees == \A f \in DOMAIN copyOff : f \in DOMAIN mergeOff
                                          /\ copyOff[f] = mergeOff[f]

(* A relocation within the section that its file has, as tas writes them,  *)
(* the relocations that wrote a word, and the files whose bytes it is in.  *)
Keeps(o, r)   == 0 <= r.off /\ r.off + Width(r.type) <= o.size[r.sec]
Writers(p)    == {i \in DOMAIN inputs[p.file].relas :
                   LET r == inputs[p.file].relas[i]
                   IN  /\ r.sec = p.sec
                       /\ Width(r.type) = p.width
                       /\ mergeOff[p.file][p.sec] + r.off = p.at}
Touches(p, f) == /\ p.at < mergeOff[f][p.sec] + inputs[f].size[p.sec]
                 /\ mergeOff[f][p.sec] < p.at + p.width

(* tld checks no relocation, so one file's can overwrite another's bytes.  *)
(* It is always the fault of that relocation: a word in the bytes of       *)
(* another file was written by one that leaves the section of its own file *)
(* and never by the layout, however the pieces are sized and aligned.      *)
OwnPatches ==
  \A p \in patches :
    /\ p.file \in DOMAIN mergeOff
    /\ \A f \in DOMAIN mergeOff \ {p.file} :
         Touches(p, f) => \E i \in Writers(p) :
                            ~Keeps(inputs[p.file], inputs[p.file].relas[i])

(* A definition, once taken, is final: a later file, weak or strong, does  *)
(* not change the address a name has, and no entry is dropped or moved.    *)
DefinitionIsFinal ==
  [][\A i \in DOMAIN table :
       /\ i \in DOMAIN table'
       /\ table'[i].name = table[i].name
       /\ table[i].defined => table'[i] = table[i]]_vars

(* The comment in the third pass of resolve_symbols says that the special  *)
(* symbol _GLOBAL_OFFSET_TABLE_ is ignored: no other name that nobody      *)
(* defines gets past the check.                                            *)
OnlyGotIgnored ==
  phase = "done" => \A i \in DOMAIN table :
                      table[i].defined \/ table[i].name = GotName

(* The section headers of the executable state an alignment of 32 for      *)
(* .data and .bss, as those of the object files ask: the addresses they    *)
(* state obey it.                                                          *)
StatedAlignment ==
  output = "complete" => addr["data"] % 32 = 0 /\ addr["bss"] % 32 = 0

(* The linker stops, having written the output, reported an error or lost  *)
(* control of its memory.                                                  *)
Terminates == <>(phase \in {"done", "failed", "lost"})

-----------------------------------------------------------------------------
(* tld implements AbstractLink: its files are the inputs read so far, its  *)
(* result is the image in the output file once that is complete; what a    *)
(* link that wrote outside of its sections leaves is no result.            *)
Promise == INSTANCE AbstractLink
             WITH files  <- inputs,
                  status <- IF phase \in {"done", "failed", "lost"} THEN phase
                            ELSE "busy",
                  why    <- reason,
                  result <- CASE output = "none" \/ phase = "lost" -> <<>>
                              [] output = "partial" /\ phase # "lost" ->
                                   <<"partial">>
                              [] output = "complete" /\ phase # "lost" ->
                                   <<Image>>

(* Whatever tld writes is the executable AbstractLink derives from the     *)
(* list of files: offsets, addresses, first definitions, patched words and *)
(* entry point; and whatever it complains of is so.                        *)
ImplementsPromise == Promise!Spec
=============================================================================
