---------------------------- MODULE MacroExpand ----------------------------
(* preproc.c, the text between directives: comments, #define and #undef, and *)
(* pp_buf_impl, which copies a text and expands the macros in it, calling    *)
(* itself for the value of a macro, each argument of a call, the text after  *)
(* substitution, and a result that takes the parentheses behind the call.    *)
(* Conditions, included files and #error are in Preproc.                    *)
EXTENDS Lexer

CONSTANTS MaxDepth,                \* 64: deeper text is copied
          MaxExpand,               \* MAX_EXPAND_STACK
          MaxArgs,                 \* MAX_MACRO_PARAMS
          MaxMacros,               \* MAX_MACROS
          MaxFuncs,                \* MAX_FUNC_MACROS
          Predefined               \* __FILE__, __x86_64__ and X86_64_TLIBC

ASSUME ExpandBounds ==
  {MaxDepth, MaxExpand, MaxArgs, MaxMacros, MaxFuncs} \subseteq Nat \ {0}

VARIABLES objs,                    \* macros: [name, value]
          funs,                    \* func_macros: [name, params, rest, body]
          frames,                  \* the calls of pp_buf_impl in progress
          expanding,               \* expand_stack, as indices of funs
          halted                   \* __exit with a full table

expVars == <<objs, funs, frames, expanding, halted>>

-----------------------------------------------------------------------------
(* Texts.                                                                   *)

(* Past the closing quote, or the end of s; newlines do not matter here.    *)
QuoteEnd[s \in STRING, p \in Nat] ==
  CASE At(s, p) = "\"" -> p + 1
    [] p > Len(s) -> Len(s) + 1
    [] At(s, p) = "\\" /\ p < Len(s) -> QuoteEnd[s, p + 2]
    [] OTHER -> QuoteEnd[s, p + 1]

(* A character constant: one character or escape, and a quote if it follows *)
CharRest(s, p) ==
  LET q == IF At(s, p) = "\\" THEN p + 2 ELSE p + 1
      e == IF At(s, q) = "'" THEN q + 1 ELSE q
  IN  Min({e, Len(s) + 1})

(* The end of what begins at p and is copied whole wherever it stands.      *)
Quoted(s, p) == CASE At(s, p) = "\"" -> QuoteEnd[s, p + 1]
                  [] At(s, p) = "'" -> CharRest(s, p + 1)
                  [] OTHER -> p

TrimRight[s \in STRING] == IF s # "" /\ At(s, Len(s)) \in Blanks
                THEN TrimRight[SubSeq(s, 1, Len(s) - 1)] ELSE s
TrimLeft(s) == SubSeq(s, RunEnd(s, 1, Blanks), Len(s))
Trim(s) == TrimLeft(TrimRight[s])
SpacesEnd(s, p) == RunEnd(s, p, {" ", "\t"})
DropSpaces(s) == LET keep == {i \in 1..Len(s) : At(s, i) \notin {" ", "\t"}}
                 IN  SubSeq(s, 1, Max(keep \cup {0}))

Spaces[s \in STRING, p \in Nat, e \in Nat] == IF p >= e THEN ""
                   ELSE (IF At(s, p) = "\n" THEN "\n" ELSE " ")
                        \o Spaces[s, p + 1, e]

(* strip_all_comments: a space for each character inside a comment, and a   *)
(* newline for each newline.                                                *)
Two(s, p) == At(s, p) \o At(s, p + 1)
Strip[s \in STRING, p \in Nat, done \in STRING] ==
  IF p > Len(s) THEN done
  ELSE IF Quoted(s, p) > p
  THEN Strip[s, Quoted(s, p), done \o From(s, p, Quoted(s, p))]
  ELSE IF Two(s, p) = "//"
  THEN LET e == Min({q \in p + 2..Len(s) + 1 : At(s, q) \in {"\n", ""}})
       IN  Strip[s, e, done \o Spaces[s, p + 2, e]]
  ELSE IF Two(s, p) = "/*"
  THEN LET e == Min({q \in p + 2..Len(s) : Two(s, q) = "*/"} \cup {Len(s) + 1})
       IN  Strip[s, Min({e + 2, Len(s) + 1}), done \o Spaces[s, p + 2, e]]
  ELSE Strip[s, p + 1, done \o At(s, p)]

(* strip_continuations: a backslash, its newline and the blanks that begin  *)
(* the next line go.                                                        *)
Joined[s \in STRING, p \in Nat, done \in STRING] ==
  LET n == IF At(s, p + 1) = "\r" THEN p + 2 ELSE p + 1
  IN  IF p > Len(s) THEN done
      ELSE IF At(s, p) = "\\" /\ At(s, n) = "\n"
      THEN Joined[s, SpacesEnd(s, n + 1), done]
      ELSE Joined[s, p + 1, done \o At(s, p)]

-----------------------------------------------------------------------------
(* #define, from the text of the directive's line.                          *)

(* The line ends at a newline that no backslash precedes.                   *)
LineEnd[s \in STRING, p \in Nat] ==
  LET n == IF At(s, p + 1) = "\r" THEN p + 2 ELSE p + 1
  IN  IF At(s, p) \in {"\n", ""} THEN p
      ELSE IF At(s, p) = "\\" /\ At(s, n) = "\n" THEN LineEnd[s, n + 1]
      ELSE LineEnd[s, p + 1]

BeginsLine(s, p) ==
  /\ At(s, p) = "#"
  /\ \E b \in 1..p : /\ b = 1 \/ At(s, b - 1) \in {"\n", "\r"}
                     /\ \A q \in b..p - 1 : At(s, q) \in {" ", "\t"}

(* The word behind the #: do_directive knows it by its first three letters  *)
(* and its length.                                                          *)
WordEnd(l, p) == Min({q \in p..Len(l) + 1 : At(l, q) \in Blanks \cup {""}})
DirectiveAt(l) == RunEnd(l, 2, Blanks)
Word3(l) == From(l, DirectiveAt(l), DirectiveAt(l) + 3)
WordLength(l) == WordEnd(l, DirectiveAt(l)) - DirectiveAt(l)
IsDefine(l) == Word3(l) = "def" /\ WordLength(l) = 6
IsUndef(l)  == SubSeq(Word3(l), 1, 2) = "un" /\ WordLength(l) = 5
(* Conditions, #include and #error.                                         *)
IsOther(l) == Word3(l) \in {"els", "end", "inc", "err"} \/ SubSeq(Word3(l), 1, 2) = "if"
NameAt(l) == RunEnd(l, WordEnd(l, DirectiveAt(l)), Blanks)
NameEnd(l) == RunEnd(l, NameAt(l), IdChars)
DefinedName(l) == From(l, NameAt(l), NameEnd(l))
HasParameters(l) == At(l, NameEnd(l)) = "("

(* The parameters from p on: what is neither a name, a comma nor three dots *)
(* is not passed, and the loop stays there.                                 *)
Parameters[l \in STRING, p0 \in Nat, sofar \in Seq(STRING)] ==
  LET p == RunEnd(l, p0, Blanks)
      q == RunEnd(l, p, IdChars)
      r == RunEnd(l, q, Blanks)
      n == IF At(l, r) = "," THEN r + 1 ELSE r
  IN  CASE At(l, p) \in {")", ""} ->
             [params |-> sofar, rest |-> FALSE, end |-> p, stuck |-> FALSE]
        [] Two(l, p) = ".." /\ At(l, p + 2) = "." ->
             [params |-> sofar, rest |-> TRUE, end |-> p + 3, stuck |-> FALSE]
        [] n = p0 ->
             [params |-> sofar, rest |-> FALSE, end |-> p, stuck |-> TRUE]
        [] OTHER ->
             Parameters[l, n, IF q > p THEN Append(sofar, From(l, p, q))
                              ELSE sofar]
ParametersOf(l) == Parameters[l, NameEnd(l) + 1, <<>>]

(* The replacement: blanks around it and continuations go; the value of a   *)
(* macro without parameters is also cut where a comment seems to begin.     *)
BodyOf(l, ps) ==
  LET p == IF At(l, ps.end) = ")" THEN ps.end + 1 ELSE ps.end
  IN  Joined[TrimRight[SubSeq(l, RunEnd(l, p, Blanks), Len(l))], 1, ""]
CutComment(v) ==
  SubSeq(v, 1, Min({i - 1 : i \in {i \in 1..Len(v) : Two(v, i) \in {"/*", "//"}}}
                   \cup {Len(v)}))
ValueOfMacro(l) ==
  Joined[CutComment(TrimRight[SubSeq(l, RunEnd(l, NameEnd(l), Blanks), Len(l))]),
         1, ""]

-----------------------------------------------------------------------------
(* The calls in progress.  A frame is one call of pp_buf_impl: its text, how *)
(* far it is, its line, what it has put out, and what the caller does with   *)
(* that.  "pending" is a macro call whose arguments are being expanded: the  *)
(* macro, its arguments, the expanded ones, the closing parenthesis.         *)

NoCall == [fm |-> 0, args |-> <<>>, done |-> <<>>, close |-> 0]
Frame(s, use) == [s |-> s, i |-> 1, line |-> 1, out |-> "", use |-> use,
                  pending |-> NoCall]

Top  == frames[Len(frames)]
Depth == Len(frames) - 1
Char == At(Top.s, Top.i)
AtText == /\ frames # <<>> /\ ~halted
          /\ Top.i <= Len(Top.s)

With(f) == [frames EXCEPT ![Len(frames)] = f]
Copy(q, o) == With([Top EXCEPT !.i = q, !.out = @ \o o])

(* The first entry of a table with this name.                               *)
FirstNamed(table, n) ==
  Min({i \in DOMAIN table : table[i].name = n} \cup {Len(table) + 1})
IsObject(n)   == FirstNamed(objs, n) <= Len(objs)
IsFunction(n) == FirstNamed(funs, n) <= Len(funs)
IsExpanding(k) == \E j \in DOMAIN expanding : expanding[j] = k

AtName   == AtText /\ Char \in Letters
NextPos  == RunEnd(Top.s, Top.i, IdChars)
NameHere == From(Top.s, Top.i, NextPos)
Callable == /\ IsFunction(NameHere) /\ ~IsObject(NameHere)
            /\ NameHere # "__LINE__" /\ At(Top.s, NextPos) = "("

(* The arguments of a call, from p: commas at depth 1 separate them, the    *)
(* parenthesis that closes depth 1 ends them.  "close" is 0 if none does.   *)
Arguments[s \in STRING, p \in Nat, depth \in Int, start \in Nat, args \in Seq(STRING)] ==
  LET arg == From(s, start, p)
      c   == At(s, p)
  IN  CASE p > Len(s) -> [close |-> 0, args |-> args]
        [] Quoted(s, p) > p ->
             Arguments[s, Quoted(s, p), depth, start, args]
        [] c = ")" /\ depth = 1 -> [close |-> p, args |-> Append(args, arg)]
        [] c = "," /\ depth = 1 ->
             Arguments[s, p + 1, depth, p + 1, Append(args, arg)]
        [] OTHER ->
             Arguments[s, p + 1, depth + (CASE c = "(" -> 1 [] c = ")" -> -1
                                            [] OTHER -> 0), start, args]
ArgumentsHere == Arguments[Top.s, NextPos + 1, 1, NextPos + 1, <<>>]
TooManyArgs ==
  Len(ArgumentsHere.args) - (IF ArgumentsHere.close > 0 THEN 1 ELSE 0) >= MaxArgs

-----------------------------------------------------------------------------
(* Substitution: the replacement of macro m from position r on, for a call. *)

(* "#": the argument as it was written, every quote and backslash escaped.  *)
Escaped[a \in STRING, p \in Nat] == IF p > Len(a) THEN ""
                 ELSE (IF At(a, p) \in {"\\", "\""} THEN "\\" ELSE "")
                      \o At(a, p) \o Escaped[a, p + 1]
Stringized(a) == "\"" \o Escaped[a, 1] \o "\""

ParamNo(m, n) == Min({k \in DOMAIN m.params : m.params[k] = n}
                     \cup {Len(m.params) + 1})

RECURSIVE VariableArgs(_, _)
VariableArgs(call, k) ==
  IF k > Len(call.done) THEN ""
  ELSE call.done[k] \o (IF k < Len(call.done) THEN "," ELSE "")
                    \o VariableArgs(call, k + 1)
TheRest(m, call) == VariableArgs(call, Len(m.params) + 1)
NoRest(m, call)  == Len(call.args) = Len(m.params)

VaArgs == "__VA_ARGS__"
StartsWith(s, p, t) == p + Len(t) - 1 <= Len(s) /\ SubSeq(s, p, p + Len(t) - 1) = t

(* , ## __VA_ARGS__ from a comma on: where it ends, or 0.                   *)
CommaRest(b, r) ==
  LET h == SpacesEnd(b, r + 1)
      v == SpacesEnd(b, h + 2)
  IN  IF Two(b, h) = "##" /\ StartsWith(b, v, VaArgs) THEN v + 11 ELSE 0

(* What replaces a call: the value of its macro with the arguments for the *)
(* parameters.  No source has a # before a parameter without an argument,  *)
(* whose text the code reads from an array it did not fill.                *)
Substituted(m, call) ==
  LET b == m.body
      given == Min({Len(m.params), Len(call.args)})
      go[r \in Nat, temp \in STRING] ==
        LET c  == At(b, r)
            q  == Quoted(b, r)
            h  == SpacesEnd(b, r + 1)           \* the name after a "#"
            he == RunEnd(b, h, IdChars)
            hk == ParamNo(m, From(b, h, he))
            e  == RunEnd(b, r, IdChars)
            k  == ParamNo(m, From(b, r, e))
        IN  CASE r > Len(b) -> temp
              [] q > r -> go[q, temp \o From(b, r, q)]
              [] m.rest /\ c = "," /\ CommaRest(b, r) > 0 ->
                   go[CommaRest(b, r),
                      IF NoRest(m, call) THEN temp
                      ELSE temp \o "," \o TheRest(m, call)]
              [] m.rest /\ StartsWith(b, r, VaArgs) ->
                   go[r + 11, temp \o TheRest(m, call)]
              [] c = "#" /\ At(b, r + 1) \notin {"#", ""} ->
                   go[he, IF hk <= given THEN temp \o Stringized(call.args[hk])
                          ELSE temp]
              [] c = "#" /\ At(b, r + 1) = "#" ->
                   go[SpacesEnd(b, r + 2), DropSpaces(temp)]
              [] e > r ->
                   go[e, temp \o (IF k <= given THEN call.done[k]
                                  ELSE From(b, r, e))]
              [] OTHER -> go[r + 1, temp \o c]
  IN  go[1, ""]

(* The parenthesis that closes the one at p, character constants not heeded *)
Closing[s \in STRING, p \in Nat, depth \in Int] ==
  LET c == At(s, p)
  IN  CASE p > Len(s) -> 0
        [] c = "\"" -> Closing[s, QuoteEnd[s, p + 1], depth]
        [] c = ")" /\ depth = 1 -> p
        [] OTHER -> Closing[s, p + 1, depth + (CASE c = "(" -> 1 [] c = ")" -> -1
                                                 [] OTHER -> 0)]

-----------------------------------------------------------------------------
(* The steps.                                                               *)

ExpandInit(s) ==
  /\ objs = Predefined /\ funs = <<>> /\ expanding = <<>> /\ halted = FALSE
  /\ frames = <<Frame(Strip[Strip[s, 1, ""], 1, ""], "file")>>

Tables == UNCHANGED <<objs, funs, expanding, halted>>
Halt == halted' = TRUE /\ UNCHANGED <<objs, funs, frames, expanding>>

(* undef_macro: the last entry takes the place of the first of that name.   *)
Without(table, n) ==
  IF FirstNamed(table, n) > Len(table) THEN table
  ELSE SubSeq([table EXCEPT ![FirstNamed(table, n)] = table[Len(table)]],
              1, Len(table) - 1)

(* A directive takes its line; after it the line number has grown by one.   *)
AtDirective == AtText /\ BeginsLine(Top.s, Top.i)
Line == From(Top.s, Top.i, LineEnd[Top.s, Top.i])
PassLine ==
  \E le \in {LineEnd[Top.s, Top.i]} :
    frames' = With([Top EXCEPT !.i = IF At(Top.s, le) = "\n" THEN le + 1 ELSE le,
                               !.line = IF At(Top.s, le) = "\n" THEN @ + 1 ELSE @])

Define ==
  /\ AtDirective
  /\ \E l \in {Line} :
       /\ IsDefine(l) /\ DefinedName(l) # "" /\ ~HasParameters(l)
       /\ IF Len(objs) >= MaxMacros THEN Halt
          ELSE /\ objs' = Append(objs, [name |-> DefinedName(l), value |-> ValueOfMacro(l)])
               /\ PassLine
               /\ UNCHANGED <<funs, expanding, halted>>

(* A macro with parameters.                                                 *)
DefineFunction ==
  /\ AtDirective
  /\ \E l \in {Line} :
       /\ IsDefine(l) /\ DefinedName(l) # "" /\ HasParameters(l)
       /\ \E ps \in {ParametersOf(l)} :
            IF Len(funs) >= MaxFuncs \/ Len(ps.params) > MaxArgs THEN Halt
            ELSE /\ ~ps.stuck
                 /\ funs' = Append(funs, [name |-> DefinedName(l), params |-> ps.params,
                                          rest |-> ps.rest, body |-> BodyOf(l, ps)])
                 /\ PassLine
                 /\ UNCHANGED <<objs, expanding, halted>>

Undef ==
  /\ AtDirective
  /\ \E l \in {Line} :
       /\ IsUndef(l)
       /\ objs' = IF DefinedName(l) = "" THEN objs ELSE Without(objs, DefinedName(l))
  /\ PassLine
  /\ UNCHANGED <<funs, expanding, halted>>

(* A line that only has a #, a #define of nothing, #pragma and the like.     *)
PassDirective ==
  /\ AtDirective
  /\ \E l \in {Line} :
       ~IsUndef(l) /\ ~IsOther(l) /\ (IsDefine(l) => DefinedName(l) = "")
  /\ PassLine /\ Tables

(* A string is copied.                                                      *)
CopyString ==
  /\ AtText /\ Char = "\""
  /\ \E q \in {QuoteEnd[Top.s, Top.i + 1]} :
       frames' = Copy(q, From(Top.s, Top.i, q))
  /\ Tables

(* Any other character, a carriage return aside.                            *)
CopyChar ==
  /\ AtText /\ Char \notin Letters \cup {"\""} /\ ~BeginsLine(Top.s, Top.i)
  /\ frames' = With([Top EXCEPT !.i = @ + 1,
                       !.out = IF Char = "\r" THEN @ ELSE @ \o Char,
                       !.line = IF Char = "\n" THEN @ + 1 ELSE @])
  /\ Tables

LineMacro == /\ AtName /\ NameHere = "__LINE__"
             /\ frames' = Copy(NextPos, ToString(Top.line)) /\ Tables

(* A macro without parameters: its value is expanded as a text of its own,   *)
(* or copied if this is too deep.                                           *)
ObjectMacro ==
  /\ AtName /\ IsObject(NameHere) /\ NameHere # "__LINE__"
  /\ \E v \in {objs[FirstNamed(objs, NameHere)].value} :
       frames' = IF v = "" THEN Copy(NextPos, "")
                 ELSE IF Depth < MaxDepth
                 THEN Append(Copy(NextPos, ""), Frame(v, "copied"))
                 ELSE Copy(NextPos, v)
  /\ Tables

CopyName ==
  /\ AtName /\ NameHere # "__LINE__" /\ ~IsObject(NameHere)
  /\ \/ ~Callable
     \/ Callable /\ IsExpanding(FirstNamed(funs, NameHere))
  /\ frames' = Copy(NextPos, NameHere) /\ Tables

(* Mutant: an unclosed call is found again where it was found.               *)
UnclosedStays ==
  /\ AtName /\ Callable /\ ~IsExpanding(FirstNamed(funs, NameHere))
  /\ ArgumentsHere.close = 0 /\ ~TooManyArgs
  /\ frames' = Copy(Top.i, "") /\ Tables

(* A call that is never closed: the name is gone, what follows is text.      *)
Unclosed ==
  /\ AtName /\ Callable /\ ~IsExpanding(FirstNamed(funs, NameHere))
  /\ ArgumentsHere.close = 0 /\ ~TooManyArgs
  /\ frames' = Copy(NextPos, "") /\ Tables

TooMany ==
  /\ AtName /\ Callable /\ ~IsExpanding(FirstNamed(funs, NameHere))
  /\ \/ TooManyArgs
     \/ ArgumentsHere.close > 0 /\ Len(expanding) >= MaxExpand
  /\ Halt

(* A call: its arguments are trimmed, and the first is expanded, with the    *)
(* macro's name on the stack.                                               *)
Call ==
  /\ AtName /\ Callable /\ ~IsExpanding(FirstNamed(funs, NameHere))
  /\ ArgumentsHere.close > 0 /\ ~TooManyArgs /\ Len(expanding) < MaxExpand
  /\ \E k \in {FirstNamed(funs, NameHere)} : \E a \in {ArgumentsHere} :
       /\ frames' = Append(With([Top EXCEPT !.pending =
                      [fm |-> k, args |-> [j \in DOMAIN a.args |-> Trim(a.args[j])],
                       done |-> <<>>, close |-> a.close]]),
                    Frame(Trim(a.args[1]), "argument"))
       /\ expanding' = Append(expanding, k)
  /\ UNCHANGED <<objs, funs, halted>>

-----------------------------------------------------------------------------
(* Returning to the caller.                                                 *)

Returning(use) == /\ frames # <<>> /\ ~halted
                  /\ Top.i > Len(Top.s) /\ Top.use = use
Caller == frames[Len(frames) - 1]
Back(f) == Append(SubSeq(frames, 1, Len(frames) - 2), f)
Pop(st) == SubSeq(st, 1, Len(st) - 1)

ReturnCopied ==
  /\ Returning("copied")
  /\ frames' = Back([Caller EXCEPT !.out = @ \o Top.out])
  /\ Tables

(* An argument that expands to nothing stands as it was written.            *)
Expanded == LET c == Caller.pending
                a == c.args[Len(c.done) + 1]
            IN  [c EXCEPT !.done = Append(@, IF Top.out = "" THEN a ELSE Top.out)]

NextArgument ==
  /\ Returning("argument") /\ Len(Expanded.done) < Len(Expanded.args)
  /\ frames' = Append(Back([Caller EXCEPT !.pending = Expanded]),
                      Frame(Expanded.args[Len(Expanded.done) + 1], "argument"))
  /\ Tables

After(call, o) == [Caller EXCEPT !.i = call.close + 1, !.out = @ \o o,
                                 !.pending = NoCall]

(* After the last argument: substitution, and the rescan of what it gives,  *)
(* with the name on the stack (it was taken off and is put on again).       *)
Substitute ==
  /\ Returning("argument") /\ Len(Expanded.done) = Len(Expanded.args)
  /\ \E t \in {Substituted(funs[Expanded.fm], Expanded)} :
       IF t # "" /\ Depth - 1 < MaxDepth
       THEN /\ frames' = Append(Back([Caller EXCEPT !.pending = Expanded]),
                                Frame(t, "rescan"))
            /\ UNCHANGED expanding
       ELSE /\ frames' = Back(After(Expanded, t))
            /\ expanding' = Pop(expanding)
  /\ UNCHANGED <<objs, funs, halted>>

(* A result that begins with the name of a macro with parameters, before    *)
(* parentheses: both are expanded together, unless every definition of that *)
(* name is on the stack, which the call has left.                           *)
ResultName == LET p == RunEnd(Top.out, 1, Blanks)
              IN  From(Top.out, p, RunEnd(Top.out, p, IdChars))
FollowOn ==
  LET p == Caller.pending.close + 1
  IN  IF /\ At(Caller.s, p) = "("
         /\ \E k \in DOMAIN funs :
               /\ funs[k].name = ResultName
               /\ \A j \in 1..Len(expanding) - 1 : expanding[j] # k
      THEN Closing[Caller.s, p + 1, 1] ELSE 0

(* Mutant: the name stays on the stack after its call.                       *)
NameStays ==
  /\ Returning("rescan") /\ FollowOn = 0
  /\ frames' = Back(After(Caller.pending, Top.out))
  /\ Tables

ReturnRescan ==
  /\ Returning("rescan") /\ FollowOn = 0
  /\ frames' = Back(After(Caller.pending, Top.out))
  /\ expanding' = Pop(expanding)
  /\ UNCHANGED <<objs, funs, halted>>

ReturnFollowed ==
  /\ Returning("rescan") /\ FollowOn > 0
  /\ frames' = Append(Back([Caller EXCEPT !.i = FollowOn + 1,
                                          !.pending = NoCall]),
                      Frame(Top.out \o SubSeq(Caller.s, Caller.pending.close + 1,
                                              FollowOn), "copied"))
  /\ expanding' = Pop(expanding)
  /\ UNCHANGED <<objs, funs, halted>>

ExpandNext ==
  \/ Define \/ DefineFunction \/ Undef \/ PassDirective \/ CopyString \/ CopyChar \/ LineMacro \/ ObjectMacro
  \/ CopyName \/ Unclosed \/ TooMany \/ Call \/ ReturnCopied \/ NextArgument
  \/ Substitute \/ ReturnRescan \/ ReturnFollowed

=============================================================================
