--------------------------------- MODULE Preproc ---------------------------------
(***************************************************************************)
(* The preprocessor's directives: pp_buf, pp_buf_impl, do_directive and    *)
(* do_include of preproc.c, and the two tables of macros.                  *)
(*                                                                         *)
(* A source is a function from file names to sequences of lines.  A line   *)
(* is a directive or a text line, which has one identifier.  "indent" says *)
(* that blanks stand before the #.  The value of a macro is a number and   *)
(* a condition asks for one macro: IfExpr models whole conditions.         *)
(***************************************************************************)
EXTENDS Integers, Sequences

CONSTANTS
  Sources,      \* the sources to preprocess
  Main,         \* the name of the file tcc is given
  Predefined,   \* __FILE__, __x86_64__ and X86_64_TLIBC
  MaxMacros,    \* MAX_MACROS
  MaxFuncs,     \* MAX_FUNC_MACROS
  MaxCond,      \* the length of pp_cond_emit
  MaxDepth,     \* the depth at which pp_buf gives up
  None

ASSUME BoundsAssumption == MaxCond \in Nat /\ MaxDepth \in Nat

(* A source has the file tcc is given, a condition is of one of three       *)
(* forms, and the predefined macros are different ones.                    *)
LinesOf(s) == UNION {{s[f][i] : i \in DOMAIN s[f]} : f \in DOMAIN s}
Lines == UNION {LinesOf(s) : s \in Sources}
Entries == {[name |-> l.name, value |-> l.value] : l \in {l \in Lines : l.k \in {"define", "function"}}}
           \cup {Predefined[i] : i \in DOMAIN Predefined}
Unique(table) == \A i, j \in DOMAIN table : table[i].name = table[j].name => i = j

ASSUME SourcesAssumption ==
  /\ \A s \in Sources : /\ Main \in DOMAIN s
                        /\ \A f \in DOMAIN s : s[f] \in Seq(Lines)
  /\ \A l \in Lines : l.k \in {"if", "elif"} => l.cond.op \in {"defined", "not", "value"}
  /\ Predefined \in Seq(Entries) /\ Unique(Predefined)

VARIABLES
  src,        \* the source being preprocessed
  incl,       \* the calls of pp_buf, innermost first: the file and the line
  macros,     \* macros and macro_count
  funcs,      \* func_macros and func_macro_count
  condEmit,   \* pp_cond_emit and pp_cond_depth
  condSkip,   \* pp_cond_skip
  out,        \* the output: the identifiers and what replaced them
  hadError,   \* pp_had_error
  exited      \* __exit(1)

condVars == <<condEmit, condSkip>>
tables == <<macros, funcs>>
vars == <<src, incl, macros, funcs, condEmit, condSkip, out, hadError, exited>>

Init == /\ src \in Sources
        /\ incl = <<[file |-> Main, line |-> 1]>>
        /\ macros = Predefined
        /\ funcs = <<>>
        /\ condEmit = <<>>
        /\ condSkip = 0
        /\ out = <<>>
        /\ hadError = FALSE
        /\ exited = FALSE

Top  == incl[1]
File == src[Top.file]
Line == File[Top.line]
AtLine == ~exited /\ incl # <<>> /\ Top.line <= Len(File)

Advance == incl' = [incl EXCEPT ![1].line = @ + 1]

Exit == exited' = TRUE /\ UNCHANGED <<src, incl, tables, condVars, out, hadError>>

---------------------------------------------------------------------------
(* The tables.                                                             *)

(* macro_defined, and the first entry, which is the one that is used.      *)
IsIn(table, name) == \E i \in DOMAIN table : table[i].name = name
FirstIn(table, name) ==
  CHOOSE i \in DOMAIN table : /\ table[i].name = name
                              /\ \A j \in 1 .. i - 1 : table[j].name # name
Defined(name) == IsIn(macros, name)
ValueOf(name) == macros[FirstIn(macros, name)].value

(* undef_macro: the last entry takes the place of the first of that name.  *)
Without(table, name) ==
  IF IsIn(table, name)
  THEN SubSeq([table EXCEPT ![FirstIn(table, name)] = table[Len(table)]],
              1, Len(table) - 1)
  ELSE table

---------------------------------------------------------------------------
(* Lines that are skipped.                                                 *)

IsText == Line.k \in {"use", "call"}

(* In a skipped group only a line that begins with # is looked at.         *)
LooksAt == IF condSkip > 0 THEN ~IsText /\ ~Line.indent ELSE TRUE

(* Mutant: the line that is skipped is read again.                         *)
SkipLineAgain ==
  /\ AtLine /\ ~LooksAt
  /\ UNCHANGED vars

SkipLine == /\ AtLine /\ ~LooksAt
            /\ Advance
            /\ UNCHANGED <<src, tables, condVars, out, hadError, exited>>

Conditionals == {"ifdef", "ifndef", "if", "else", "endif"}

SkipDirective == /\ AtLine /\ LooksAt /\ condSkip > 0
                 /\ Line.k \notin Conditionals
                 /\ Advance
                 /\ UNCHANGED <<src, tables, condVars, out, hadError, exited>>

---------------------------------------------------------------------------
(* #ifdef, #ifndef, #if, #else and #endif.                                 *)

Meets(c) == CASE c.op = "defined" -> Defined(c.name)
              [] c.op = "not" -> ~Defined(c.name)
              [] OTHER -> Defined(c.name) /\ ValueOf(c.name) # 0

(* The condition of an #if is not evaluated in a skipped group.            *)
Condition == CASE Line.k = "ifdef" -> Defined(Line.name)
               [] Line.k = "ifndef" -> ~Defined(Line.name)
               [] OTHER -> condSkip = 0 /\ Meets(Line.cond)

AtOpening == AtLine /\ LooksAt /\ Line.k \in {"ifdef", "ifndef", "if"}

Push(emit) == /\ condEmit' = Append(condEmit, emit)
              /\ condSkip' = IF emit THEN condSkip ELSE condSkip + 1

Open == /\ AtOpening
        /\ Len(condEmit) < MaxCond
        /\ Push(Condition)
        /\ Advance
        /\ UNCHANGED <<src, tables, out, hadError, exited>>

OpenTooDeep == /\ AtOpening
               /\ Len(condEmit) >= MaxCond
               /\ Exit

Depth == Len(condEmit)

(* Mutant: #else sees only whether lines are being skipped.                *)
ElseByCounter == /\ AtLine /\ LooksAt /\ Line.k = "else"
                 /\ IF Depth = 0 THEN UNCHANGED condVars
                    ELSE /\ condSkip' = IF condSkip > 0 THEN condSkip - 1
                                        ELSE condSkip + 1
                         /\ condEmit' = [condEmit EXCEPT ![Depth] = condSkip > 0]
                 /\ Advance
                 /\ UNCHANGED <<src, tables, out, hadError, exited>>

Else == /\ AtLine /\ LooksAt /\ Line.k = "else"
        /\ IF Depth = 0 THEN UNCHANGED condVars
           ELSE /\ condSkip' = IF condEmit[Depth] THEN condSkip + 1
                               ELSE IF condSkip > 0 THEN condSkip - 1 ELSE condSkip
                /\ condEmit' = [condEmit EXCEPT ![Depth] = ~@]
        /\ Advance
        /\ UNCHANGED <<src, tables, out, hadError, exited>>

Endif == /\ AtLine /\ LooksAt /\ Line.k = "endif"
         /\ IF Depth = 0 THEN UNCHANGED condVars
            ELSE /\ condSkip' = IF ~condEmit[Depth] /\ condSkip > 0
                                THEN condSkip - 1 ELSE condSkip
                 /\ condEmit' = SubSeq(condEmit, 1, Depth - 1)
         /\ Advance
         /\ UNCHANGED <<src, tables, out, hadError, exited>>

---------------------------------------------------------------------------
(* do_directive.                                                           *)

Active(k) == AtLine /\ condSkip = 0 /\ Line.k = k

(* #define of an object macro: add_macro.                                  *)
Define == /\ Active("define")
          /\ IF Len(macros) < MaxMacros
             THEN /\ macros' = Append(macros, [name |-> Line.name,
                                               value |-> Line.value])
                  /\ Advance
                  /\ UNCHANGED <<src, funcs, condVars, out, hadError, exited>>
             ELSE Exit

(* #define of a function-like macro.                                       *)
DefineFunction ==
  /\ Active("function")
  /\ IF Len(funcs) < MaxFuncs
     THEN /\ funcs' = Append(funcs, [name |-> Line.name, value |-> Line.value])
          /\ Advance
          /\ UNCHANGED <<src, macros, condVars, out, hadError, exited>>
     ELSE Exit

Undef == /\ Active("undef")
         /\ macros' = Without(macros, Line.name)
         /\ Advance
         /\ UNCHANGED <<src, funcs, condVars, out, hadError, exited>>

Error == /\ Active("error")
         /\ hadError' = TRUE
         /\ Advance
         /\ UNCHANGED <<src, tables, condVars, out, exited>>

(* do_directive has no other word: #pragma does nothing, nor does #elif.   *)
IgnoreDirective == /\ Active("pragma") \/ Active("elif")
                   /\ Advance
                   /\ UNCHANGED <<src, tables, condVars, out, hadError, exited>>

(* do_include: the file is preprocessed where the line stands.             *)
Found == Line.file \in DOMAIN src
Nested == Len(incl) - 1

(* Mutant: the depth is not checked.                                       *)
IncludeUnchecked == /\ Active("include") /\ Found
                    /\ incl' = <<[file |-> Line.file, line |-> 1]>>
                               \o [incl EXCEPT ![1].line = @ + 1]
                    /\ UNCHANGED <<src, tables, condVars, out, hadError, exited>>

Include == /\ Active("include") /\ Found
           /\ Nested < MaxDepth
           /\ incl' = <<[file |-> Line.file, line |-> 1]>>
                      \o [incl EXCEPT ![1].line = @ + 1]
           /\ UNCHANGED <<src, tables, condVars, out, hadError, exited>>

(* Below MaxDepth pp_buf returns at once; a file that is not found, or one *)
(* between < and >, is reported and passed over.                           *)
PassInclude == /\ \/ Active("include") /\ Found /\ Nested >= MaxDepth
                  \/ Active("include") /\ ~Found
                  \/ Active("system")
               /\ Advance
               /\ UNCHANGED <<src, tables, condVars, out, hadError, exited>>

(* The end of an included file returns to the one that includes it.  The   *)
(* groups it leaves open stay open.                                        *)
AtEnd == ~exited /\ incl # <<>> /\ Top.line > Len(File)

EndInclude == /\ AtEnd /\ Len(incl) > 1
              /\ incl' = Tail(incl)
              /\ UNCHANGED <<src, tables, condVars, out, hadError, exited>>

(* The end of preprocess.                                                  *)
EndMain == /\ AtEnd /\ Len(incl) = 1
           /\ incl' = <<>>
           /\ out' = IF hadError THEN <<>> ELSE out
           /\ UNCHANGED <<src, tables, condVars, hadError, exited>>

---------------------------------------------------------------------------
(* Text.                                                                   *)

(* An object macro replaces its name wherever it stands, a function-like   *)
(* one where a parenthesis follows.                                        *)
Replacement ==
  CASE Defined(Line.name) -> ValueOf(Line.name)
    [] ~Defined(Line.name) /\ Line.k = "call" /\ IsIn(funcs, Line.name) ->
         funcs[FirstIn(funcs, Line.name)].value
    [] OTHER -> None

Text == /\ AtLine /\ condSkip = 0 /\ IsText
        /\ out' = Append(out, <<Line.name, Replacement>>)
        /\ Advance
        /\ UNCHANGED <<src, tables, condVars, hadError, exited>>

Stopped == (exited \/ incl = <<>>) /\ UNCHANGED vars

Work == \/ SkipLine \/ SkipDirective \/ Open \/ OpenTooDeep \/ Else \/ Endif
        \/ Define \/ DefineFunction \/ Undef \/ Error \/ IgnoreDirective
        \/ Include \/ PassInclude \/ EndInclude \/ EndMain \/ Text
Next == Work \/ Stopped

(* Preprocessing is one loop that nothing else interrupts.                 *)
Spec == Init /\ [][Next]_vars /\ WF_vars(Work)

---------------------------------------------------------------------------
(* Properties.                                                             *)

FileNames == {Main} \cup UNION {DOMAIN s : s \in Sources}

TypeOK == /\ src \in Sources
          /\ incl \in Seq([file : FileNames, line : Nat])
          /\ condEmit \in Seq(BOOLEAN)
          /\ Len(condEmit) <= MaxCond
          /\ condSkip \in Nat
          /\ Len(incl) <= MaxDepth + 1
          /\ hadError \in BOOLEAN /\ exited \in BOOLEAN

(* pp_cond_skip counts the open groups whose current branch is not         *)
(* emitted, through every #else and every nesting of files: text is output *)
(* exactly if there is none.                                               *)
Off == {i \in DOMAIN condEmit : ~condEmit[i]}
ActiveIffAllOn == condSkip = 0 <=> Off = {}

(* Every source is preprocessed to its end or rejected, however its files  *)
(* include each other.                                                     *)
Terminates == <>(exited \/ incl = <<>>)
-----------------------------------------------------------------------------
(***************************************************************************)
(* The tables and the counter of skipped groups implement what C says of   *)
(* directives.                                                             *)
(***************************************************************************)
NamesIn(table) == {table[i].name : i \in DOMAIN table}
Lookup(table, n) == table[FirstIn(table, n)].value
DefsOf(objects, functions) ==
  [n \in NamesIn(objects) \cup NamesIn(functions) |->
     IF IsIn(objects, n) THEN [kind |-> "object", value |-> Lookup(objects, n)]
     ELSE [kind |-> "function", value |-> Lookup(functions, n)]]
GroupsOf(emit) ==
  [i \in DOMAIN emit |-> IF \E j \in 1 .. i - 1 : ~emit[j] THEN "dead"
                        ELSE IF emit[i] THEN "on" ELSE "off"]

C == INSTANCE AbstractPreproc WITH
       Predefined <- {Predefined[i] : i \in DOMAIN Predefined},
       at <- incl,
       defs <- DefsOf(macros, funcs),
       groups <- GroupsOf(condEmit),
       failed <- hadError,
       rejected <- exited

(* The macro that a condition asks for.                                    *)
Tested == IF Line.k = "if" THEN Line.cond.name ELSE Line.name

(* No line that is reached is one that the code treats otherwise than C:   *)
(* it does not define a name that is defined, test or undefine a macro     *)
(* that has parameters, end a group that is not open, name a file that     *)
(* exists between < and >, have an #elif other than in a group that is     *)
(* dead, or put blanks before the # of a conditional in a group that is    *)
(* skipped.  What is defined where a line is reached is    *)
(* the work of the tables and of the groups.                               *)
Ordinary ==
  AtLine =>
    /\ condSkip > 0 /\ Line.indent => Line.k \notin Conditionals
    /\ Line.k \in {"else", "endif"} => condEmit # <<>>
    /\ Line.k = "elif" => \E i \in 1 .. Len(condEmit) - 1 : ~condEmit[i]
    /\ condSkip = 0 =>
         /\ Line.k \in {"define", "function"} =>
              ~IsIn(macros, Line.name) /\ ~IsIn(funcs, Line.name)
         /\ Line.k \in {"ifdef", "ifndef", "if"} => ~IsIn(funcs, Tested)
         /\ Line.k = "undef" => ~IsIn(funcs, Line.name)
         /\ Line.k = "system" => Line.file \notin DOMAIN src

(* The code outputs the text that C says, replaced as C says, for every    *)
(* source: it processes a line exactly when C does, and at every line the  *)
(* same names are defined with the same values.                            *)
PreprocessesAsC == C!Spec
=============================================================================
