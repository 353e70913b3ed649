# ToyCCompiler in TLA+

ToyCCompiler is a C compiler for x86-64 that compiles itself: a preprocessor, a
parser and a one-pass code generator (`tcc`), an assembler (`tas`) and a static
linker (`tld`), without a library under them.  The programs are sequential; only
`make` runs several of them side by side.  What makes them hard is not
interleaving but *agreement*: tables filled by one pass and
read by another, offsets computed in one loop and used in a second, code emitted
now and patched later, a stack whose height is known at four places in four
ways.  A self-compiling compiler that gets one of these wrong still compiles
most programs, itself included; that is what these models are for.

The models follow the code under `src/app`.  `PROJECT.json` gives, for every
definition, the lines it stands for.

## 1. The system

```
 source ──> preproc.c ──> lex.c/parse.c ──> cgen.c + cgen_expr.c + cgen_asm.c
                                                  │  code_buf, data_buf, syms, relocations
 assembly ──> tas.c ──────────────────────────────┤
                                                  v
                                            elf_write.c ──> object ─┐
                                                         objects ───┴─> tld.c ──> executable
```

| Part | State it keeps | Operations | What is hard |
|---|---|---|---|
| `tcc.c` driver | option values, the arena | reads, calls the parts in order, stops at the first that fails | which failures reach the exit status |
| `preproc.c` directives | `macros`, `func_macros`, `pp_cond_emit`, the counter of skipped groups, the nesting of included files | `pp_buf_impl`, `do_directive`, `do_include`, `undef_macro` | one counter for all nested groups and all files; headers that include themselves; a table in which the first entry counts and deletion reorders |
| `preproc.c` conditions | the position in the condition | `if_eval`, `if_parse_expr`, `if_parse_primary`, `if_next_tok`, `if_apply` | precedence climbing, `defined`, names that are macros that are names |
| `preproc.c` text | the stack of names in expansion, two depths, the arguments of a call, the output buffer | comments, `#define`, expansion of values, arguments and results by `pp_buf_impl` calling itself | macros are expanded on characters and the result is read again; a stack shared by all calls in progress decides what expands |
| `lex.c` | cursor, line and column | `lexer_next` and a function per class of token | where one token ends |
| `parse.c` | cursor, current token, tables of structures, members, typedefs, enumerators and variables, counters of loops, switches, blocks and functions, errors | one function per construct, `parse_program` | casts and declarations are tried and taken back; the globals of the type read last; error recovery that must end |
| names (`cgen.c`, `cgen_expr.c`, `tcc.h`) | `locals`, `frame_size`, the chain of scope numbers, `syms`, sizes of data and bss | `cgen_program`, `collect_locals`, the prologue, `add_sym`, `SEARCH_LOCAL`, accesses | two passes that must number blocks alike; a search among variables whose block has ended; symbols referenced before they are defined |
| labels (`cgen.c`) | the tables of labels and fixups with their counts, the code | `new_label`, `set_label`, `emit_jmp`, `emit_jcc`, `apply_fixups`, `reset_labels` | two encodings of a jump, emitted in one place and patched in another; what is reset per function and what is not |
| statements (`cgen.c`) | `break_target_label`, `continue_target_label`, labels of `goto`, the C call stack | one function per statement, `cgen_func_def` | targets saved and restored by hand; a switch's value on the stack over a jump |
| expressions (`cgen_expr.c`) | the run-time stack, rax and the argument registers | `cgen_expr`, `cgen_addr`, `emit_call` | stack arguments, function pointer, result buffer and saved operands share one stack; a returned structure below rsp |
| data and strings (`cgen.c`, `cgen_expr.c`) | the data buffer, the string pool, two tables of relocations | `cgen_program`, `cgen_emit_data_init` | strings whose place is known after all code; sizes of items that come from the type in part; five tables that fill up |
| `cgen_asm.c` | – | operands to registers, a few known instructions | every operand passes through rax |
| `elf_write.c` | `strtab`, the numbers of symbols, the write position | renumber, rewrite relocations, write | three loops that must agree on a numbering; section offsets stated before anything is written |
| `tas.c` | code, symbols, relocations, numeric labels and their fixups, marks of `.globl` and `.type` | a line at a time | forms of addresses, told apart in four places; marks carried to the next label |
| `tld.c` | inputs, merged sections, the symbol table, the image | `read_input`, `merge_sections`, `resolve_symbols`, `apply_relocations`, `write_output` | sizes computed, dropped and computed again; first definition wins; errors in the middle |
| `tcc_rt.c`, `tcc_rt_start.S` | – | system calls, one `mmap` per block, formatted output | no state between calls |
| `Makefile` | files and their times | `all`, `update-bootstrap`, `clean` | recipes side by side, interrupted, failing half-way; headers that no rule lists |

The parts interact only through data that one leaves for the next: text, tokens,
the syntax tree, the global tables of `cgen.c`, an object file, an exit status.
There are no threads, callbacks or messages inside a program; failures are error
returns of system calls, full tables and bad input.  Within `tcc`, the shared tables are the interaction:
`Names`, `Labels`, `Cgen` and `CgenExpr` each model some of the tables and all of
the functions that change them.

### What makes each part correct

* linker – the executable is a function of the list of files: pieces do not
  overlap, every name means its first definition, each relocation has the value
  its symbol, place and type give, and an error is reported for a true reason
  and leaves no complete executable.
* object writer – symbols keep their identity through renumbering; every
  section lies where its header says; locals come first, as `sh_info` states.
* names – a use in the code refers to the object it refers to in C, and nothing
  else is stored there in between; the frame holds all slots without overlap;
  calls refer to definitions wherever they stand in the file.
* labels – a jump lands on its label, whatever is emitted in between.
* statements – the code evaluates the expressions of a function in the order of
  C, for every value they may have, with the stack as high as it was.
* expressions – the value, the stores and the calls of C, with the stack as high
  as it was.
* directives – exactly the groups of C are processed, with the macros of C, and
  every source ends; conditions have the value of C.
* text – the parser gets the tokens of C, and expansion ends.
* parser – the tree groups as C's grammar does, with the offsets, sizes and
  constants its types give; mistakes are reported, and the parser goes on to the end.
* data – variables have the image C gives their initialisers, and every reference
  to a string leads to that string.
* assembler – the bytes mean the instructions of the source to a processor, jumps
  and symbols those of its labels.
* build – a `make` that reports success has built the programs of the sources as
  they are.

## 2. Modules

| Family | Modules | Role |
|---|---|---|
| linker | `ObjectFile` | an object as `tld` sees it |
| | `Linker` | `tld.c`: every loop, one iteration a step, every error exit |
| | `AbstractLink` | the executable defined from the list of files: no tables, no running totals |
| | `MCLinker` | nine objects; the refinement mapping is at the end of `Linker` |
| | `LinkerProofs` | theorems |
| object writer | `ObjWriter` | `elf_write_object` |
| | `ObjWriterProofs`, `MCObjWriter` | theorems; programs |
| names | `Names` | both passes, the frame, the symbol table, every access the code makes |
| | `NamesAsC` | scopes and objects as C has them, and the properties that relate the two |
| | `NamesProofs`, `MCNames` | theorems; functions and files |
| statements | `Labels` | the labels, jumps and fixups of `cgen.c` by themselves |
| | `CStatements` | statements, and what C says they do |
| | `Cgen` | the code generator on top of `Labels` (`EXTENDS`) |
| | `CgenRun` | the processor that executes the code beside `CStatements` |
| | `CgenProofs`, `MCCgen` | theorems: `Cgen` implements `Labels`, its code does what C says; functions |
| expressions | `Exprs` | expressions and what C says of them: sets of outcomes |
| | `CgenExpr` | `cgen_expr.c`: code for an expression |
| | `ExprRun`, `MCExpr` | the processor that executes it |
| preprocessor | `Preproc` | directives, inclusion, both macro tables |
| | `AbstractPreproc` | directives as C has them; the mapping is at the end of `Preproc` |
| | `PreprocProofs`, `MCPreproc` | theorems; sources |
| | `IfExpr`, `MCIfExpr` | conditions of `#if` |
| text | `Lexer` | `lex.c`, a blank, comment or token a step |
| | `MacroExpand` | comments, `#define`, `#undef` and the text path of `pp_buf_impl` |
| | `Text`, `MCText` | the two in a row, compared with tokens and macros as C has them (longest match, hide sets); texts |
| parser | `ParseTables` | tokens, tables of names, errors |
| | `Parser` | expressions, types, declarations, statements |
| | `ParseUnit` | parameters, file-level initialisers, `parse_program`; the comparison |
| | `CPrograms` | programs, their text, and the tree, sizes and offsets that C gives them |
| | `MCParser` | programs |
| data | `Data` | file-level variables, initialisers and strings, and their image in C |
| | `DataProofs`, `MCData` | theorem; files |
| assembler | `Tas` | `tas.c`, a line a step, down to the bytes |
| | `Asm`, `MCTas` | what a source says and what the bytes mean; sources |
| build | `Build` | the rules of the Makefile and the tools as make sees them |
| | `BuildProofs`, `MCBuild` | theorem; programs and faults |

Three abstract specifications are related to detailed ones by a refinement
mapping that TLC checks as a PROPERTY: `AbstractLink`, `AbstractPreproc`, and
`Labels`, which `Cgen` implements (`ImplementsLabels`): so what is proved of `Labels`
for any code generator is true of the one modelled.  `CStatements` and `Exprs`
are abstract specifications too; they run beside the generated code, or after
it, since the code generator's *output*, not the code generator, implements C.
The C half of `Text`, `CPrograms` and `Asm` define what a source means, written from C and from
the instruction set and not from the programs, for a comparison at the end.

### How state and actions correspond to the code

**Linker.**  `phase` is how far `main` is: reading, merging, copying, collecting
(first loop of `resolve_symbols`), registering (second), checking, relocating,
writing.  `fi` and `si` are the loop variables of the current loop; `mergeOff`,
`total` the results of `merge_sections`; `copyOff` those of `main`'s own
copy loop, which computes them again; `table` is the symbol table; `patches` the
words that `apply_relocations` overwrites, each with the file that asked for it; which of two
that overlap is written last is not kept.  Bytes of sections are abstract.  The
parsing in `read_input` is the choice of an object or an error; it looks at the magic, class, type and
machine only, so the offset of a relocation is any number.  A merged section is a mapping of
exactly its size (`main`), and `apply_one_rela` adds the offset to where the file's piece begins: a word
that is still in the merged section is written, into whichever file's bytes (`ApplyRela`); one
that is not is undefined behaviour, after which nothing is known (`StrayRela`, `phase` is "lost").

**ObjWriter.**  `pc` names the part of `elf_write_object`, `i` its loop variable, `p`
the write position in the file buffer, `ofs` what the headers state and `placed` which
section was written where.  Names are their lengths; `names` is which
name each offset begins.  `Chosen` is whether a loop takes a symbol: those over locals
and over globals pass the same table.

**Names.**  A function's body is a sequence of items in the order in which both
passes meet them: `open`, `close`, `for`, `decl`, `static`, `get`, `set`, `call`, `return`,
`va`.  `phase` is `globals`, `functions`, `collect` or `generate`.  `locals`, `frameSize`,
`chain` (the stack of scope numbers) and `nextId` are the code's variables, `syms` its
symbol table, `code` the memory accesses and calls emitted, each with the function
and item it belongs to and the bytes it moves.  What `PROJECT.json` marks external
there and elsewhere is the C language itself, or the processor.

**Labels, Cgen, CgenRun.**  `code` maps offsets to instructions; an instruction has
the length the code gives it, so displacements are those of the code.  The C call
stack of the recursive functions is `work`: what they have left to do, in order; the
dispatch of a switch is an item for each case.
`CgenRun` adds the processor: `ip`, `stack`, the sign of the last comparison, and `pt`,
the control point where C is.  An expression is an instruction that evaluates it:
TLC picks its value when it is executed.

**CgenExpr, ExprRun.**  `Gen` and `Addr` are `cgen_expr` and `cgen_addr`, recursive
like them; they have no state, so they are operators.  Instructions are those of
the code up to encoding.  `ExprRun` executes one expression's code: registers,
stack, variables, structures, and the trace of calls and stores.  A called function
takes its arguments where `cgen_func_def` looks for them and leaves arbitrary values
in every register and in the stack below its frame.  Values are symbolic terms, so
that equal values were computed alike.  The difference of two pointers is divided by
the size of an element when the node says that the compiler's tables know one
(`known`).  Inline assembly is a node of its own (`GenAsm` is `cgen_asm`): a template
is abstracted to its instruction, the moves and a number in it.

**Preproc.**  A source maps file names to sequences of lines.  `incl` is the C call
stack of `pp_buf`: the files being read, each with its line.  `condEmit` is
`pp_cond_emit`, `condSkip` the counter of skipped groups.

**IfExpr.**  Conditions are sequences of tokens; the functions are operators from a
position to a value and a position, as the code's are from `*p` to a value and `*p`.

**Lexer, MacroExpand, Text.**  A text is a string.  The C call stack of
`pp_buf_impl` is a sequence of frames, each with its input, its position and what
becomes of its output; `expanding` is `expand_stack`, with its limit.  When the last
frame has ended its output is the text of the lexer, whose `pos` and `col` are those of
`struct Lexer`.

**ParseTables, Parser, ParseUnit.**  A parsing function takes the state of the
parser, a record of the cursor, the tables, the globals that describe the type read
last and the counters, and returns the state it leaves, so a sequence of C
statements is a chain of states.  `ParseUnit!Next` reads one declaration of the file.
All of `par`'s fields are named after the globals of `parse.c` they stand for.

**Data.**  `pc` is the loop of `cgen_program`, `at` and `use` its loop
variables; `data`, `pool`, `syms`, `rels` (of the code) and `dataRels` are the
tables of the code.  Code is bytes that are not looked at, but for the places that
relocations patch.  `used` remembers what each of them refers to in the source.

**Tas, Asm.**  `text` is the source and `line` where its rest begins; `code`, `syms`, `rels`, `offsets` and
`fixups` the tables of `tas.c`.  A step is a line.  `Asm!InsAt` decodes bytes as the
processor does.

**Build.**  `stale` are the targets make finds too old by their times, `old` what it
cannot see: those made of something that has changed since, and `late` those whose
running tool has read something that has changed since.  A tool reads, creates and
writes its output in three steps; in between other tools run, make is interrupted,
files are edited.  Which error ends with which exit status is read off the programs
(`ReadsOf`, `Written`).

## 3. Runs

| Run | Question | Bounds |
|---|---|---|
| `linker` | Does `tld` produce the executable the list of files determines, or a true complaint? | at most 3 of 9 objects, in any order and repeated (24,134 states); 4 symbols in the table; word 2^15 |
| `objwriter` | Do three loops agree on the numbering of symbols, and are sections where headers say? | up to 4 symbols, 3 relocations; a string table of 15 bytes; sizes on and off the alignment |
| `names` | Does every use refer to its object and read its last write? | three statements around two names, frames with all sizes of parameters and locals, programs of several functions; 8 locals, 4 nested scopes, 10 symbols, 24 bytes of data |
| `cgen` | Does the code of statements do what C says, with the stack balanced and every jump on its label? | about 430 functions; 4 values per expression; 10 labels, 10 fixups, 3 cases, 2 goto labels |
| `expr` | Does the code of an expression compute what C says? | about 660 expressions, 8 assignments of zero and nonzero (105,452 states); a stack of 40 words |
| `preproc` | Are directives processed as C says? | about 900 sources (15,683 states); 4 macros, 1 function-like, 3 open groups, 2 nested inclusions |
| `if_expr` | Do conditions have their value? | 24,000 conditions |
| `text` | Does the parser get the tokens of C, and does expansion end? | about 10,700 texts (103,836 states); a word of 12 bits, 6 nested calls, 4 names on the stack, 4 arguments |
| `parser` | Does the tree say what C says of the text, and is a mistake reported? | about 4,300 programs, with a bracket missing in some (14,021 states) |
| `data` | Do variables have the image of C? | 17,400 files (185,451 states); 11 bytes of strings, 4 strings, 7 symbols, 5 and 3 relocations, 72 bytes of data, 44 of code and strings |
| `tas` | Do the bytes mean what was written? | 8,551 sources (57,875 states); 4 numeric labels, 2 fixups each, 3 symbols, 2 relocations, 140 bytes |
| `build` | Is what make calls built of the sources as they are? | two programs and the runtime; 2 jobs, 2 makes, 2 edits (709,210 states) |

### What the runs show, property by property

*linker* – `PiecesDisjoint`, `CopyAgrees` and `OwnPatches` are about the two layout loops:
`merge_sections` decides where a file's sections go, its sizes are thrown away, and
`main` computes the places again while copying.  `OwnPatches` says whose fault it is when a
relocation overwrites bytes of another file: always that of a relocation that leads out of the section
of its own file, never that of the layout.  `DefinitionIsFinal` says no step
changes a definition once made.  `ImplementsPromise` is refinement of `AbstractLink`:
every address, every patched word and every error; that a name has one entry and that
a reference met in the third loop is in the table is part of it.  `Terminates` is
liveness.

*objwriter* – `RelocationsKeepSymbol`: a relocation, rewritten, refers to the symbol
written at its new number; `LocalsFirst`; `PlacedAsStated`; `NamesReadBack`: reading
the string table at a symbol's name offset gives that name.

*names* – `ReadsLastWrite` executes the function in order and says, byte by byte,
that a read finds what the last write of the same C object left, the hidden
result pointer and the register save area included (`PrologueKept`).  `SameScopes` is
the agreement of the two passes.  `LinkedAsC` and `SymbolsStay` are about symbols: a
call refers to its definition, wherever that stands, names are global or local as
declared, and a symbol keeps its number.

*cgen* – `ExecutesAsC` steps processor and C together at visible points, with the
stack as high as C leaves it (`StackBalanced`); `JumpsLand`; `EarlierCodeKept`:
patching one function never touches another; `ImplementsLabels`; `ReachesEvent`: the
code never runs for ever between visible points.

*expr* – `ComputesAsC`: value, variables, structures, stores outside the function,
calls and system calls with their arguments in an order C allows, stack level.

*preproc* – `ActiveIffAllOn`; `PreprocessesAsC` (refinement of `AbstractPreproc`);
`Terminates`.  *if_expr* – `EvaluatesAsC`.

*text* – `TokensAsC`: for a text that is C, kinds, spellings and values of the tokens;
`Ends`: whatever the text, expansion and reading end.

*parser* – `GroupedAsC` (nodes, operators, names; no error for a program of C),
`StorageAsC` (bytes of a variable, parameters of a function), `MembersAsC` (offset and
size wherever the structure is reached through), `ValuesAsC` (constants, sizes,
enumerators, conversions), `MistakesReported` (with the counters back at zero after
every declaration) and `Advances`, which makes `parse_program` end.

*data* – `ImageAsC`: the bytes of every variable, the string behind every reference, the
symbol behind every use, no overlap, and rejection only for want of room.

*tas* – `InstructionsAsWritten`, `SymbolsAsWritten`.

*build* – `BuiltFromSources`: a make that starts with no incomplete file about and ends
well, with nothing edited while it ran, has made every program, and every seed, of the
sources as they are.

### Bounds, and why they are enough

*linker.*  Two files are enough for a first and a later definition and for an offset
that is not zero; the third makes a difference between "the file before" and "all
files before".  The nine objects have: the entry point; a user of its symbols;
strong and weak definitions of one name; references to `_GLOBAL_OFFSET_TABLE_` and
to a name that is exempt by its prefix; sections of sizes 0, below, at and above
their alignment; a nameless global; an unsupported relocation; relocations that lead into the file before, into the one
behind, across the end of their own piece, or out of the merged section, as other files stand around it.  `MaxSyms` = 4 is reached by some of the
links in either of the two passes that add names.  `Word32` = 2^15 makes addresses
wrap in R32 and PC32 without making numbers large.

*objwriter.*  Three symbols give every order of locals and globals around one
another; three relocations are one in each position and more than a symbol; symbol
numbers one past the table and "none" are included, and a fourth symbol that the table
of name offsets has no room for.  The string table of 15 bytes holds two names but not
three.

*names.*  Two names are enough: a third would behave like one of the two.  Three
statements out of declarations, uses, blocks and `for` around them give every way in
which a use can stand before, in or after a block that declares its name.  The
limits are reached one by one by the files of `TooMany`.

*cgen.*  Two nested loops with a jump in every position tell the inner targets from
the outer ones and see whether they are restored.  Three cases with a range and
values 0 to 3 give a value below, in, at the ends of and above every case.  Two
functions show what is left over from the first.  `TooLarge` fills each table.

*expr.*  Every kind of node stands over operands that are a variable, a constant,
a call, a member of a returned structure and an increment (which differ in what they
destroy), each kind of binary operation over every pair of them; calls have from 0 to 9 arguments, that is up to three on the
stack, odd and even, direct and through pointers, with and without a structure as
result.  The stack has 40 words, more than any of them uses; `ComputesAsC` says so.
Differences of pointers stand over every pair of pointers, some of them computed by
calls.  System calls have from 0 to 6 arguments, as `tcc_need.h` writes them.

*preproc.*  Groups nested one in the other, with every kind of condition outside and
inside and with and without `#else`, cover the ways in which a group can be off while
another one around it is.  `#elif` stands where it changes nothing, in a group that is dead.  A header that includes itself reaches `MaxDepth`.

*if_expr.*  All pairs of operators, both grouped by precedence and by parentheses, all
triples of the ten precedences, and unary operators on both sides.

*text.*  All strings of three or four characters over the characters of operators,
numbers and literals reach every place where one token may end or go on; every
spelling of C's operators has at most three.  Two function-like macros and an object-like one,
each with every kind of body and every kind of use, give each way in which an
expansion meets another.  Five nested calls are one more than the stack holds.

*parser.*  Pairs of binary operators, one of each precedence, in both groupings, settle
precedence and associativity; structures of three members over nine types every
difference of alignment and size between neighbours; pairs of declarators whatever
one leaves to the next; statements three deep whatever a counter or a pending `else`
may get wrong.  Each bracket of the programs of `CutPrograms` is left out once.

*data.*  Two variables show what the first leaves for the second and whether they
overlap; declarations have every width, with and without pointers, strings,
several members, more elements than are given; two functions use strings before and after each
other, functions and variables.  Each limit but one (that of symbols in `BssVar`) is
reached by some file.

*tas.*  Registers: all of each width; displacements: 0, the ends of a byte and one
beyond, four bytes.  Five lines over eight kinds of label, jump and filler give every
order of two numbers; four lines over nine kinds the same for marks, calls and labels.
`tcc_rt_start.S` is one of the sources.

*build.*  `tld` links itself and every other program, so two programs and the
runtime have every kind of rule.  Two jobs are enough for one tool to fail while
another writes; the second make finds what the first one left.

### Inputs the passing runs leave out

The passing runs are over programs for which the code does what C says.  The MC
modules also define programs for which it does not, most of them seen first when TLC
refuted a property and then confirmed on the compiler itself; putting one of these
sets in the place of the good ones in the .cfg shows it.

| Module | Set | What TLC then finds |
|---|---|---|
| `MCNames` | `SiblingBlock` | a block assigns to the variable of a block that has ended: `ReadsLastWrite` |
| | `StaticForward` | a static function called before its definition is global: `LinkedAsC` |
| | `StaticsOfOneName` | two functions share one static variable: `ReadsLastWrite` |
| | `StaticInitialised` | the initialiser of a static local is dropped: `ReadsLastWrite` |
| | `CharGlobal` | a char of the file is stored as one byte and loaded as four: `ReadsLastWrite` |
| | `WithoutMain` | initialisers run in `main` only: `ReadsLastWrite` |
| | `MuchData` | the data buffer is filled before its size is checked: `DataFits` |
| `MCCgen` | `DoContinue` | `continue` in a `do` goes to the top of the body: `ExecutesAsC` |
| | `FallsOff` | a switch whose last statement completes runs into the dispatch: `ExecutesAsC` |
| | `CaseInBlock` | a case label in a block of its switch is not found: `ExecutesAsC` |
| | `ReturnInIf` | `if (c) return;` at the end suppresses the implicit return: `ExecutesAsC` |
| | `EndsInThatByte` | a displacement that ends in the byte C3 is taken for a return: `ExecutesAsC` |
| `MCExpr` | `MemberGetsStruct`, `ArrowGetsStruct` | `s.m = f()` overwrites the last word of the structure with an address: `ComputesAsC` |
| | `SevenThroughPointer` | a call through a pointer with seven arguments calls the seventh argument: `ComputesAsC` |
| | `SixAndStruct` | six arguments and a structure as result: the caller puts the sixth where the callee does not look: `ComputesAsC` |
| | `Fifteen` | arguments after the fourteenth are not passed: `ComputesAsC` |
| | `LongCondition` (with `WideBits`) | `&&` and `\|\|` look at 32 bits of a long: `ComputesAsC` |
| | `PlaceComputedTwice` | `q[g()]++` and `++g()->m` call `g` twice: `ComputesAsC` |
| | `PointerFromCall` | `q - f()` with `f` returning a pointer scales the pointer: `ComputesAsC` |
| | `AsmOperandOverwritten` | the code of a later operand overwrites the register of an earlier one: `ComputesAsC` |
| | `AsmMoves` | a move from an `"r"` operand in the template is dropped: `ComputesAsC` |
| | `AsmOutputs` | a result far below rbp, or in a variable of the file, goes elsewhere or nowhere: `ComputesAsC` |
| | `AsmExchange` | `cmpxchg` stores rax, whatever register the template names: `ComputesAsC` |
| `MCPreproc` | `IndentedEndif` | `  #endif` in a skipped group is not seen: `PreprocessesAsC` |
| | `FunctionTested`, `FunctionUndefined` | `#ifdef` and `#undef` do not know function-like macros: `PreprocessesAsC` |
| | `DefinedTwice` | a name defined twice needs two `#undef`s: `PreprocessesAsC` |
| | `SystemHeader` | `<...>` is passed over: `PreprocessesAsC` |
| | `ElifIgnored` | `#elif` is passed over: `PreprocessesAsC` |
| `MCIfExpr` | `SumCondition` (with `SumMacro`) | a macro's value is evaluated as if in parentheses: `EvaluatesAsC` |
| | `SelfCondition` (with `SelfMacro`) | a macro that names itself is entered without end: `EvaluatesAsC` |
| `MCText` | `NestedCall` | `F(F(1))`: the inner call is not expanded: `TokensAsC` |
| | `BlankBefore`, `NameFromMacro` | `F (1)` and `O(1)` with `O` defined as `F` are not calls: `TokensAsC` |
| | `Together` | `a/**/b` and `-N` with `N` defined as `-` become one token: `TokensAsC` |
| | `OperandsExpanded`, `ExpandedAgain` | operands of `##` are expanded; a result expands once more: `TokensAsC` |
| | `LineOfMacro` | `__LINE__` in an argument or a value counts from its beginning: `TokensAsC` |
| | `QuoteCharacter`, `SlashesInString` | `'"'` begins a string; `//` in a macro's string ends its value: `TokensAsC` |
| | `SelfNaming` | a macro that names itself is expanded `MaxDepth` times: `TokensAsC` |
| | `Floats`, `Escapes`, `Continued` | `1.` is two tokens, `'\xff'` is 255, `\a \b \f \v` have other values, lines continue in directives only: `TokensAsC` |
| | `StuckParameters` | `#define F(+)` is read for ever: `Ends` |
| `MCParser` | `MCHangs` | a missing `)` of a list of parameters, a missing `}` of a file-level initialiser: `Advances` (the functions of `Parser` do not end, as those of `parse.c` do not) |
| `MCData` | `NegativeLong` | `long v[2] = {1, -1}`: `ImageAsC` |
| | `LongMember`, `CharMembers`, `PointerAligned` | members that are not 4 bytes, or follow padding: `ImageAsC` |
| | `SomeElements` | `int a[3] = {1, 2}` takes 8 bytes: `ImageAsC` |
| | `SomeMembers`, `TwoDimensions` | elements that are given in part; inner braces: `ImageAsC` |
| | `RelocsFull` | a string is compiled without its relocation: `ImageAsC` |
| `MCTas` | `StoreDisplaced`, `BaseR12`, `BaseR13`, `ZeroAtRbp` | the address is another: `InstructionsAsWritten` |
| | `Load32`, `Negative32`, `SubWide`, `ByteMove`, `ByteOfR10`, `MixedHex` | the width or the number is another: `InstructionsAsWritten` |
| | `Redefined`, `TooFar` | a jump goes to the last of several labels of its number, or elsewhere beyond 127 bytes: `InstructionsAsWritten` |
| | `CallBeforeLocal`, `MarkBeforeOther` | a local label has a global symbol: `SymbolsAsWritten` |
| `MCBuild` | `Unlisted` as `Editable` | `tcc.h` is edited and nothing is rebuilt: `BuiltFromSources` |
| | `TccQuiet`, `TasQuiet` as `Faults` | an included file that cannot be read, a read error and a bad instruction end with status 0: `BuiltFromSources` |

`BuiltFromSources` also fails with `EditInputs = TRUE` (a source is edited while it is
compiled, after it was read: no time-based make notices), and without its
condition `trusted`: a make that finds what a failed write of an earlier one left takes
it for a program, as nothing deletes it.

Three statements of the models are invariants of no run: `Linker!OnlyGotIgnored`
(the exemption for `_GLOBAL_OFFSET_TABLE_` is a test of two characters),
`Linker!StatedAlignment` (the section headers state an alignment the addresses need not
have) and `ObjWriter!BufferNotOverrun` (the file buffer is half as large as the code
buffer; TLC shows it with 524288 in `TextSizes` and 14 for `StrtabSize`).

### Deadlock

`cgen`, `preproc`, `linker`, `objwriter`, `if_expr`, `text` and `tas` have a step for the
program that has ended, so a deadlock would be a program stuck in the middle.
`names`, `expr`, `parser`, `data` and `build` stop when the file is compiled, the code
executed, the text read or the last make over: their configurations do not check for
deadlock.

## 4. Fairness

All programs here are sequential and none of them waits for anything but system
calls that return: fairness says only that the program keeps running.

* `Linker!FairSpec`: weak fairness of any step before the exit.  The kernel schedules
  `tld`, and each system call returns, with an error or without.
* `Preproc!Spec`: weak fairness of `Work`, the body of the one loop of `pp_buf_impl`.
* `CgenRun!Spec`: weak fairness of `Execute`, the processor's steps between visible
  points.  Nothing is assumed about when an expression is evaluated or what it
  yields: a loop whose condition stays true does not end, and nothing here says so.
* `Text!Spec`: weak fairness of a step of the expansion or of the lexer, that is of
  the one process that runs.
* The parser ends because every declaration takes it further (`Advances`, a safety
  property): `parse_program` loops over declarations, and each of them is one
  evaluation of the functions of `Parser`, which TLC could not finish if they did not end.
* The others have no liveness property: their loops have a variable that the type
  invariant bounds.

## 5. Proofs

TLAPS checks the following for every value of the constants that satisfies the
named assumptions.

| Module | Theorem | Statement |
|---|---|---|
| `LinkerProofs` | `TypeCorrect` | `Spec => []TypeOK` |
| | `LayoutCorrect` | `Spec => []LayoutInv`, the invariant of the layout |
| | `CopyCorrect` | `Spec => []CopyAgrees`: the copy loop recomputes what `merge_sections` computed |
| | `PiecesCorrect` | `Spec => []PiecesDisjoint` |
| | `PatchesCorrect` | `Spec => []OwnPatches` |
| | `PromiseKept` | `Spec => ImplementsPromise`: `tld` implements `AbstractLink` |
| | `DefinitionsFinal` | `Spec => DefinitionIsFinal`, an action property |
| `ObjWriterProofs` | `RelocationsKept` | `Spec => []RelocationsKeepSymbol` |
| | `LocalsAreFirst` | `Spec => []LocalsFirst` |
| | `SectionsPlaced` | `Spec => []PlacedAsStated` |
| | `NamesAreReadBack` | `Spec => []NamesReadBack` |
| `NamesProofs` | `NamesType` | `Spec => []TypeOK` |
| | `NamesSlots` | `Spec => []SlotsDisjoint` |
| | `NamesScopes` | `Spec => []SameScopes`: both passes number blocks alike |
| | `NamesSymbolsStay` | `Spec => SymbolsStay`, an action property |
| | `NamesLinked` | `Spec => [](phase = "done" /\ StaticsFirst => Linked)` |
| | `NamesCalls` | `Spec => [](phase = "done" /\ FunctionsApart => CallsBound)` |
| | `NamesLinkedAsC` | `Spec => [](StaticsFirst /\ FunctionsApart => LinkedAsC)` |
| | `NamesPrologue` | `Spec => [](VaInVariadic => PrologueKept)` |
| | `NamesReads` | `Spec => [](VaInVariadic /\ Agreed /\ (phase = "done" => Len(syms) < MaxSyms) => ReadsLastWrite)` |
| `CgenProofs` | `LabelsTypeCorrect` | `LabelsSpec => []LabelsTypeOK` |
| | `JumpsLandCorrect` | `LabelsSpec => []JumpsLand` |
| | `EarlierCodeCorrect` | `LabelsSpec => EarlierCodeKept`, an action property |
| | `CgenRefinesLabels` | `Spec => ImplementsLabels`: `Cgen` implements `Labels` |
| | `CgenJumpsLand` | `Spec => []JumpsLand`, of the statements of `Cgen` |
| | `CgenEarlierCode` | `Spec => EarlierCodeKept`, of the statements of `Cgen` |
| | `CgenExecutesAsC` | `Spec /\ []Ordinary => []ExecutesAsC`: the generated code does what C says |
| `PreprocProofs` | `TypeCorrect` | `Spec => []TypeOK` |
| | `ActiveCorrect` | `Spec => []ActiveIffAllOn` |
| | `OrdinaryAsC` | `Spec /\ []Ordinary => PreprocessesAsC`: `Preproc` implements `AbstractPreproc` |
| `DataProofs` | `DataImage` | `Spec => [](Agreed /\ Distinct /\ Room => ImageAsC)` |
| `BuildProofs` | `BuildIsCurrent` | `Spec => []BuiltFromSources`, if `Orderly` |

Assumptions: `ObjectsAssumption` (sizes, symbols and relocations have their types; nothing is assumed of
where a relocation leads, as `read_input` checks nothing of it) and `BoundsAssumption` in `Linker`; `ProgramsAssumption` (the tables
`cgen.c` and `tas.c` fill have their types) and `SizesAssumption` in `ObjWriter`;
`FilesAssumption` (declarations are of the forms the parser builds) and
`NamesLimits` in `Names`; `LimitsAssumption` and `PlainAssumption` (an instruction
that is not a jump has a length) in `Labels`; `GotosAssumption` and `FilesAssumption` in
`Cgen` (every statement has the substatements and expressions of its kind, statements
form trees, numbered from the outside inwards, and `break` and
`continue` stand in a loop or a switch, as the counters of the parser make sure);
`ValuesAssumption` in `CgenRun` (values are integers);
`BoundsAssumption` and `SourcesAssumption` (the file that `tcc` is given exists, a condition
has one of three forms, no name is predefined twice) in `Preproc`; `SizesAssumption` and `ProgramsAssumption` (the types of a
declaration; members have 1, 2, 4 or 8 bytes, as those of the parser) in `Data`; `SeedsAssumption` in `Build`.  TLC evaluates each of
them in the runs, as it does the assumptions of the other modules.

**Linker.**  `CopyAgrees` is not inductive: that the copy loop is at the same offset
as `merge_sections` was follows only if both have added the same sizes in the same
order.  `LayoutInv` says so: `Progress` (how far each loop is in each phase), `Chain`
(each file's offset is the one before it plus its padded size), `Fits` (the totals
cover all files so far), `Addressed` (the addresses are those the totals give) and
`CopyAgrees`.  `PiecesDisjoint` follows from it: within a section by the chain, between
sections by the addresses.  `OwnPatches` follows from both kinds of fact: a relocation that keeps
to the section of its file writes into that file's piece (`KeptInPiece`), which by the chain has no byte
in common with any other, so a word that touches another file's piece has a writer that does not keep to
its own; and every word has a writer.

`AbstractLink` knows no running totals and no tables, so the refinement relates
each of them to what it stands for.  `LinkInv` adds to the layout: `StageInv` (the
offsets and totals are sums of padded sizes; here `AlignUp`, which rounds a total, is
shown to be the padded size of the file added to a total that is aligned already),
`TableInv` (the table has exactly the names of the symbols passed, once each, with
the value of the first definition among them, or none) and `RelaInv` (the patches
are the words `AbstractLink` asks for, for the relocations passed).  A full table means too many names, since
the table is in bijection with the names; each error is shown to have its reason
in the files; a word written outside of the merged section is one that `AbstractLink` finds outside
too (`StrayAgrees`); every other step is a stutter, or one of `AddFile`, `Produce`, `Reject` and `Lose`.  `DefinitionIsFinal` follows from what a step does to the table
(`TableGrows`).

**Object writer.**  Three pairs of loops pass the symbols, locals first, and must agree.
`Before` is the order in which they take them; the invariant says what each loop has
done with the symbols it has taken: `Numbering` (the numbers given are 1, 2, ... in
this order), `InPlace` (a symbol is written at its number and nothing else is),
`Boundary` (where globals begin), `Remapping` (which relocations are rewritten, and from
what), `Positions` (where the write position is relative to the offsets stated, which
have room for everything by `LayoutFacts`) and `Naming` (the offsets of names grow by
lengths and ends).  That the numbers of the second pair are the places of the third is the
point of the proof: both count the symbols before a symbol in the same order.

**Names.**  `SlotsDisjoint` is nearly inductive: a new slot lies below `frameSize` and
everything is above.  It needs that the hidden pointer has no slot yet while
locals are collected (`NoHiddenYet`), for it would lie between.  `SymbolsStay` follows
from one fact about every step, `Grown`: the table after it is the table before it
with a symbol appended or an undefined one defined.  The table is searched with
`MinOf`, a CHOOSE; `HasMin` shows by well-founded induction on the naturals that what
it asks for exists.

`SameScopes` compares what the second pass has in hand with what the first pass wrote.
`ScopeInv` says that the chain and the number of a pass are the last of a history
(`Scopes`: one chain and one count for each item passed), and that each declaration
passed in the first has an entry with the history's number of its block, the
one whose index is the count of declarations so far.  The history is a
pair of functions that exist, not a recursive definition: a step extends it by one
item, and the second pass, walking the same items, can only make the same one.  A block too deep
ends the first pass, so there is room for it in the second.

`LinkedAsC` is not true of every file, so its theorem has two hypotheses about the file
alone, `StaticsFirst` (a static function is used behind its definition only: the finding
of section 6) and `FunctionsApart` (no variable with a symbol has the name of a
function the file defines and calls: a static local variable of that name would get the call).
All files of the run meet both.  `SymbolsInv` has what is true of the table whatever the
step (`Lone`: a name has one undefined symbol at most, and that one is global; `UndefinedUsed`: a
function already read uses it; `StorageMade`: what is in .data or .bss is some variable's)
and what each declaration passed has got (`VarsHeld`, `FuncsHeld`).  That `add_sym` leaves no symbol of its
name undefined needs `Lone`, for it defines only the first; that it makes no static
function global needs `UndefinedUsed`.  `CallsInv` ties each call emitted to the
item it is for and the name of its symbol; `SearchLocal` and the prologue are shown to make
nothing else, and since names never change (`Grown`) it lasts.  At the end the function called is
`Defined`, and so in .text.

`PrologueKept`, a part of `ReadsLastWrite`, says that a return through the hidden pointer and a `va_start`
load what the prologue stored.  `KeptInv` has why: the slots of the prologue lie below those of all
locals (`BelowLocals`; the frame has grown since the locals were collected), so no
other store into the frame meets its bytes (`GuardsApart`), the stores to file-level variables go
to symbols (`SymbolStores`), and what is in the frame of one function is emitted while the
compiler is at it (`FramesBehind`).  The last store to a byte, a CHOOSE among all stores that meet it,
is then the only one.  The hypothesis is C's own: `va_start` has no use in a function
that is not variadic, where the code would load from offset 0.

`ReadsLastWrite` is false of the sets of `MCNames` that section 3 lists, so its theorem has for
hypothesis what those files lack, `Agreed`, a formula about the file alone:

* `WellNested`: scopes are nested, as the parser leaves them.
* `Unambiguous`: a name's declarations either never get in the way of a use that means another
  (`Clear`; shadowing in an inner block is fine), or stand beside each other with one size, as those
  of two `for` statements do (`Beside`; they may share a slot).  Not met by `SiblingBlock`.
* `Widths`: a variable has the width of an access where a value is moved.  Not met by `CharGlobal`.
* `StaticsApart`, `FunctionsFixed`: a static local has no initialiser and its name means nothing else in
  the file; a function's name is no variable's.  Not met by `StaticsOfOneName`, `StaticInitialised`.
* `OneMain`: there is one `main` if a variable of the file has an initialiser.  Not met by `WithoutMain`.

and that the symbol table is not full in the end: with a full one, `GenUse` passes over a use of a new
name.  Of the 380 files of the run, 373 meet all of it (the other seven fill
a table, have variables but no main, declare a name twice in one scope, or a static variable with a function's name); the theorem is about every file that does, with blocks nested to any depth and any number of
variables and functions.

The proof has three parts.  The first is about one function: C's scopes are computed from the text of
a body (`Levels`, `Visible`) and the code's search from chains of block numbers and a table.
`AgreedLookup` says that the search finds exactly the declaration C means, or one beside it of the
same size.  Its lemmas turn chains into levels: a chain is a prefix of another exactly if the
block of the one is still open at the other (`ScopeInv` has the chain of every item), and a chain that
closed never comes back, as numbers are not used again.  The second is the invariant `MovesInv`: each instruction
has the place and the width of the item it was emitted for (`AllFit`), instructions stand in the order of
their items (`Ordered`), no item and no initialiser is left without one (`Complete`), and
accesses that find one declaration share a slot while others are apart (`SlotsFit`).  It needs
that the variables of .data and .bss lie behind one another (`Placed`) and that the symbol of a name has
the size of its variables (`SizesHeld`).  The third reads it at the end: the stores that meet a byte of a
load are those of the writes of its object, in the same order (`FrameRead`, `SymbolRead`), so the
last of the ones is that of the last of the others, the initialisers at the beginning of
`main` coming before everything.

**Labels.**  `JumpsLand` holds only once the fixups are applied.  Before that every
jump is `Settled`: it already lands on its label, or a fixup waits for it, and every
fixup has the label and the encoding of its jump (`FixupsOK`).  Steps keep this because code only grows,
labels are never set twice for a search that finds the first, and `apply_fixups`
patches exactly the waiting ones.  The theorem is about any code generator that
uses the five functions.

**Statements.**  `Cgen` is one, for every function the parser can build: each of its steps is a step of
`Labels` or leaves its variables alone.  A step of `Labels` takes only labels that `new_label` has
returned, so `CgenInv` has that of everything that can lead to one: the work left, the
targets of `break` and `continue`, which are no labels before the first loop or switch, and the table of
labels of `goto`.  With that, what is proved of `Labels` is true of `cgen.c`.

`ExecutesAsC` has a hypothesis, `Ordinary`, since section 3 has programs for which it is
false: no `continue` in a `do`, every case and default directly in the body of a switch,
each switch ending in a statement that leaves it, and a function whose code ends in the byte C3
ends in a return that nothing jumps behind.  The other conditions are C's own (cases of a
switch that overlap, two defaults, a `goto` with no label or with two).  The files of
the run meet it, and the theorem is about all others: any nesting, any number of functions.

The invariant is a map from offsets to states, `A`, and one from labels to states, `L`; a state is
a control point of C with rax, the flag and the stack.  `Flow` says that each
instruction takes the states at its offset to states at the offsets it leads to (for a
jump not yet patched: at its label), `Entries` that a function begins where its body is entered, and
`Ahead` that the work left, item by item, takes what has come to the end of the code to
where the function returns, and will set every label still needed (`Promises`).  C's silent steps are
part of the states: at the offset of an expression are those that are *on their way* to
its point (`On`, the smallest set closed under silent steps), so that an
instruction nobody sees and a silent step of C need not be taken together.  A kind of statement then has
two lemmas: its items run from its entry to its end (`WhileRuns`, `SwitchRuns` and so on, which
know nothing of offsets), and its action keeps the invariant (`WhileGood`, `SwitchGood`).  The
switch is the hard one: each test takes from the values left those of its case, which is
why cases must not overlap, and the value is on the stack from the condition to the dispatch
only.  `Enclosing` and `Root` are recursive functions up the tree, which is why statements in others have
larger numbers.  At the end of a function no label is waited for (`AllSet`),
so every jump is patched and `L` is no longer needed.  Executing the code is then a walk along `A`.

**Preprocessor.**  The counter is zero exactly if every group is on, because it *is*
the number of groups that are off: `SkipInv` states that, with finiteness, and the
lemmas count what opening, turning (`#else`) and closing a group change.  The
original property alone is not inductive: closing a group would not be known to
change the counter by what opening it had.  The theorem needs no well-nested
source.

`OrdinaryAsC` has a hypothesis: no line that is *reached* is one of those for which
section 3 lists a departure from C (`IndentedEndif`, `FunctionTested`, `FunctionUndefined`,
`DefinedTwice`, `SystemHeader`, `ElifIgnored`, and an `#else` or `#endif` of no group, an error in C).
It is about the state as well as the text: whether a name is already defined where
a `#define` stands depends on everything before it.  The sources of the run have no such line.  `AbstractPreproc` has one function from names and a state for each group, the code
two arrays and a counter.  `RInv` adds to `SkipInv` that every file being read is a
file of the source (`Reads`) and that the tables hold each name once between them
(`Tables`).  The lemmas on tables then say that appending an entry adds a name and
that `undef_macro`, which moves the last entry into the gap, removes one and leaves
the value of every other (`TableShrinks`); those on groups, that opening, turning and
closing the innermost one leaves the state of those around it.  Each action is then a step
of C, or its rejection.

**Data.**  `ImageAsC` is false of the sets of `MCData` that section 3 lists, so the theorem has for
hypothesis what those files lack.  `Agreed` is a formula about the declarations alone: in each list of values
(`LaidAsC`) the items of an element begin where C has them, are as wide, or are cut where only zeros
follow, and no element is missing.  It is false of the files of section 3 but `RelocsFull`, and true of 28
of the run's 29 declarations (the other is `char c[1] = {7}`, written with 4 bytes for one) and of 16240
of its 17400 files.  `Distinct` says that no name is
defined twice; `Room`, that the data fits its buffer, whose size is checked only when all is written, and that
relocations and symbols do not fill their tables in the end: with a full one a literal or a variable is
compiled without a relocation (`RelocsFull`).

The invariant, `Whole`, has the tables of the compiler as one record, as `cgen_emit_data_init` uses
them, and is the same formula between two items as between two functions: `Good` (every string has a
symbol of its own, no two symbols share a name, references lie inside of the data), `Told`
(the strings in the pool are the first that C counts of the file), `VarsPlaced` (each variable that is
done has one symbol, is apart from all others and holds what C says, `VarHeld`) and `CodePlaced` (each
use in the code has one relocation, to a symbol that means it).  `Told` is what makes rejection true of
C: a table is full only if what C counts is more than it holds (`FullTables`).  A list of values is followed
item by item within an element (`RowBegun`), where `idx` and `bytes` say how far it has come, and element by
element (`RowsEmitted`), with the zeros that fill up each.  What is added later changes nothing of
what was there (`Later`), so variables stay held; only the symbols of functions and strings
move.  In the end the strings are behind the code, and the offset of each symbol, shifted once, is that
of its string (`PlacedFrom`, `StandsPlaced`).

**Build.**  The theorem has hypotheses, `Orderly`: what is edited and included by a unit
is listed as its prerequisite (`EveryInputListed`), a fault of a tool that is possible
ends in an exit status other than zero (`EveryFaultReported`), and no file is edited while
a tool that reads it works (`~EditInputs`).  Section 3 shows what happens without each of them;
the Makefile as it is keeps the first for sources and for `tcc_need.h`, `elf.h` and `elf_write.h`.  With them, and whatever is
interrupted, fails or is edited between makes, for any programs and any number of jobs: `IInv` says that a
recipe runs only when all it needs is done (`Jobs`), that what is made of
something that has changed is older than it, or will be when its objects are made again
(`Dated`), that until a recipe fails there are only whole files and files being
written (`Whole`), and that what is done is up to date if nothing was edited (`Fresh`).

Only model-checked: what depends on recursive functions over data (what an
expression computes, what a condition's value is, what the parser reads, what the
bytes of an instruction mean), since `Exprs`, `CgenExpr`, `IfExpr`, `ParseTables`, `Parser`,
`ParseUnit`, `CPrograms`, `Lexer`, `MacroExpand` and `Text` use RECURSIVE operators and their
induction is over syntax trees and texts: `ComputesAsC`, `EvaluatesAsC`, `GroupedAsC`,
`StorageAsC`, `MembersAsC`, `ValuesAsC`, `MistakesReported`, `TokensAsC`; liveness (`Terminates`,
`ReachesEvent`, `Ends`), which needs fairness and ENABLED, and `Advances`, in a module with
RECURSIVE operators;
`InstructionsAsWritten` and `SymbolsAsWritten`, comparisons at the end with what a whole
source means; `ReadsLastWrite` and `ImageAsC` of files that are not `Agreed`, of which they are
true for some of the run's and false for others.
The library's induction theorems cannot be used here, but a function that is recursive
over 0 .. n needs none of them: that `Levels` is such a function is shown for the least
n at which it would fail to be (`LevelsExist`).

## 6. Where the code and its documents disagree

The table above lists inputs of which the code makes something other than C does.
For these a document, a comment or a test of the repository says otherwise:

| Code | What it does | What is said |
|---|---|---|
| `tcc.h:404`, `SEARCH_LOCAL` | compares scope numbers with `<=`, so that after `int x = 1; { int x = 2; }` the block `{ x = 3; }` assigns to the x that has ended (`SiblingBlock`) | the comment at `tcc.h:402` says that `scope_id` is filtered exactly before any other match of the name |
| `cgen.c:707`, `do` | `continue` goes to the top of the body (`DoContinue`) | `tcc-c-features.md:167`, `continue` |
| `cgen_expr.c:1805` | `s.m = f()` with 16 bytes loses half of them (`MemberGetsStruct`) | `tcc-c-features.md:294`, structures over 8 bytes are assigned |
| `cgen_expr.c:1937` | the pointer of a call with seven arguments is not the one called (`SevenThroughPointer`) | the comment at `cgen_expr.c:1840` says the limit of six is gone; `tcc-c-features.md:53` |
| `cgen_expr.c:1302` | `q - f()`, and `p - q` when negative and stored in a long, are wrong (`PointerFromCall`) | `tcc-c-features.md:120`, `-` with pointer arithmetic |
| `cgen_expr.c:1364`, `1409` | the operand of `++` and `--` is evaluated for its value and again for its place (`PlaceComputedTwice`) | `tcc-c-features.md:112` |
| `cgen_expr.c:1402` | `++` and `--` move a pointer by one byte | `tcc-c-features.md:112` |
| `preproc.c:602` | the argument of a call of a macro is expanded with that macro's name on the stack (`NestedCall`) | the comment at `preproc.c:591`: arguments are expanded first, as in C |
| `preproc.c`, `__LINE__` | 1 in an argument or a value (`LineOfMacro`) | `tcc-c-features.md:254`, the current line |
| `parse.c` | `(*r).b`, `(&t)->a` and `((struct s *)q)->b` read the first member, or another of that name | `tcc-c-features.md:50`, `:111`, `:113` |
| `parse.c` | `char s[] = "abc"` in a file takes one byte | `tcc-c-features.md:195` |
| `parse.c` | `sizeof` of what is not a variable is 8, without parentheses 4 | `tcc-c-features.md:143`, `:144` |
| `parse.c` | `case -1:` is `case 0:`; `if (1, 0)` is an error | `tcc-c-features.md:160`, `:126` |
| `parse.c`, `cgen.c:1173` | nested braces, elements given in part and members that are not 4 bytes (`MCData`'s sets) | `tcc-c-features.md:193`, `:199` |
| `parse.c:1433` | a structure in a structure is aligned by its size | `tcc-c-features.md:295`, the ABI's alignment |
| `cgen_asm.c:189` | results more than 128 bytes below rbp are stored elsewhere (`AsmOutputs`) | the comment there: the offset is in -128..127, tcc guarantees it |
| `Makefile:146` | includes `.d` files that no tool writes (`Unlisted`) | the comment there: headers are tracked by `-MD` |
| `tas.c`, `tok_eq` | upper case is not accepted | its comment: case is ignored |

The models have these behaviours too: the code is the reference.  `#elif`, which
`tcc-c-features.md:241` lists as missing, is passed over without a message (`ElifIgnored`).

Met while modelling, without a word of a document about it: `tas` does not know `r8d` and reads `$0xa1` as 10; it ignores `.L1:`, takes `push` without an operand for
`push %rax` and cuts a source at 65,535 bytes; compound assignments evaluate the place
they assign to twice (`a[i++] += 1`); `tld` patches at any offset a relocation
has (`tld.c:492`), over the bytes of another file or memory of its own (`Reaching` in `MCLinker`); a pointer to its own structure in a structure
steps by 4; `(unsigned char)300` stays 300; unnamed parameters and `short int` are
rejected; a failing `mmap` is not noticed before its result is used.

## 7. What is not modelled, and why

* Widths of operands, casts and sign extension in the code of expressions: everything
  in `CgenExpr` is a word.  `Names` has the widths of loads and stores of variables,
  `Parser` the types and sizes that decide them.  Floating point is left out by the
  build itself.
* `va_start` and `va_arg`: tables of instructions.  `PrologueKept` covers the area that
  `va_arg` reads.
* The size of the preprocessor's output buffer, of names and of the tables of the parser
  whose overflow ends the compiler with a message.
* `tpp.c` and the options of `tcc.c`: straight-line I/O.
* Formatted output in the runtime: no state.
* The bootstrap scripts and the targets that install, test and package: what they call
  is modelled, what they compare is outside the programs.  The tests were read for what
  the programs promise.  `compiler-tests/source` is a copy of an older state of the
  programs, input of a test.
* The granularity of file times: `stale` is decided as if no two writes had one time.
* Parsing of ELF in `tld`: an object or an error.

## 8. Plan

In order of importance, done unless marked:

1. `Linker`, `AbstractLink`; layout proofs.
2. `ObjWriter`.
3. `Labels`, `Cgen`, `CgenRun`; proofs about `Labels`.
4. `Names`, `NamesAsC`; proofs about slots, symbols, and that reads see the last write.
5. `Preproc`, `AbstractPreproc`; proofs about the counter and that the one implements the other.
6. `IfExpr`.
7. `Exprs`, `CgenExpr`, `ExprRun`, with inline assembly and the difference of pointers.
8. `Parser` with `CPrograms`: trees, layouts, error recovery.
9. `Lexer` and `MacroExpand` with `Text`: arguments, `#`, `##`, the rescan and what stops it.
10. `Tas` with `Asm`.
11. `Data`: initialisers and strings; a proof that a file has the image of C.
12. `Build`: make and the tools' exit statuses.
13. *To do:* operand widths in `CgenExpr`: which loads extend, results of calls that are
    taken as 64 bits, `long + int`.
14. *To do:* `Toolchain`: `Names` writes its symbols and relocations through `ObjWriter` to
    `Linker`; a call in one file reaches the definition in another.

Theorems done: those of section 5.  *To do:* a reference definition of a condition's value without recursive
operators, so that `EvaluatesAsC` could be stated for every condition.
