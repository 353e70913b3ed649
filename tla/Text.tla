------------------------------- MODULE Text -------------------------------
(* From a source text to the tokens the parser gets: tcc.c hands the text    *)
(* that MacroExpand puts out to the Lexer.                                   *)
(*                                                                          *)
(* Before the two in a row stand the tokens of a source text as C has them   *)
(* (C99 5.1.1.2, 6.4, 6.10.3): preprocessing tokens by the longest match     *)
(* among all spellings, macros by hide sets, then tokens.  A text that is    *)
(* not C has no tokens: Undefined.                                          *)
EXTENDS MacroExpand

Undefined == "undefined"

CONSTANT LongestSpelling          \* no token of the sources is longer

-----------------------------------------------------------------------------
(* Spellings.                                                               *)

Punctuators ==
  {"[", "]", "(", ")", "{", "}", ".", "->", "++", "--", "&", "*", "+", "-", "~",
   "!", "/", "%", "<<", ">>", "<", ">", "<=", ">=", "==", "!=", "^", "|", "&&",
   "||", "?", ":", ";", "...", "=", "*=", "/=", "%=", "+=", "-=", "<<=", ">>=",
   "&=", "^=", "|=", ",", "#", "##"}

IsIdentifier(t) == /\ At(t, 1) \in Letters
                   /\ \A i \in 2..Len(t) : At(t, i) \in IdChars
IsPPNumber(t) ==
  /\ At(t, 1) \in Digits \/ (At(t, 1) = "." /\ At(t, 2) \in Digits)
  /\ \A i \in 2..Len(t) :
       \/ At(t, i) \in IdChars \cup {"."}
       \/ At(t, i) \in {"+", "-"} /\ At(t, i - 1) \in CharsOf("eEpP")
(* An odd number of backslashes stands before position i.                   *)
IsEscaped(t, i) ==
  \E k \in 1..i - 1 : /\ k % 2 = 1
                      /\ \A j \in i - k..i - 1 : At(t, j) = "\\"
                      /\ i - k > 1 => At(t, i - k - 1) # "\\"
IsBetween(t, quote) ==
  /\ Len(t) >= 2 /\ At(t, 1) = quote /\ At(t, Len(t)) = quote
  /\ \A i \in 2..Len(t) - 1 :
       At(t, i) # "\n" /\ (At(t, i) = quote => IsEscaped(t, i))
  /\ ~IsEscaped(t, Len(t))
IsPPToken(t) == \/ IsIdentifier(t) \/ IsPPNumber(t) \/ t \in Punctuators
                \/ IsBetween(t, "\"") \/ (Len(t) > 2 /\ IsBetween(t, "'"))
Longest(s, p) ==
  LET ends == {q \in p..Min({Len(s), p + LongestSpelling - 1}) :
                 IsPPToken(SubSeq(s, p, q))}
  IN  Max(ends \cup {p})

-----------------------------------------------------------------------------
(* Preprocessing tokens: spelling, whether white space stands before, the   *)
(* line, and the macros it may not be replaced by any more.  A newline is    *)
(* one, so that directives can be found.                                    *)

PP(t, w, ln) == [t |-> t, w |-> w, ln |-> ln, hide |-> {}]
Newlines(s, p, q) == Cardinality({i \in p..q : At(s, i) = "\n"})

RECURSIVE Scan(_, _, _, _)
Scan(s, p, w, ln) ==
  LET lineEnd == Min({q \in p..Len(s) + 1 : At(s, q) \in {"\n", ""}})
      close   == Min({q \in p + 2..Len(s) : At(s, q) = "*" /\ At(s, q + 1) = "/"}
                     \cup {Len(s) + 1})
      q       == Longest(s, p)
  IN  CASE p > Len(s) -> <<PP("\n", TRUE, ln)>>
        [] At(s, p) = "\n" -> <<PP("\n", TRUE, ln)>> \o Scan(s, p + 1, TRUE, ln + 1)
        [] At(s, p) \in Blanks -> Scan(s, p + 1, TRUE, ln)
        [] At(s, p) = "/" /\ At(s, p + 1) = "/" -> Scan(s, lineEnd, TRUE, ln)
        [] At(s, p) = "/" /\ At(s, p + 1) = "*" ->
             IF close > Len(s)
             THEN <<PP(Undefined, FALSE, ln), PP("\n", TRUE, ln)>>
             ELSE Scan(s, close + 2, TRUE, ln + Newlines(s, p, close))
        [] OTHER -> <<PP(IF IsPPToken(SubSeq(s, p, q)) THEN SubSeq(s, p, q)
                         ELSE Undefined, w, ln)>>
                    \o Scan(s, q + 1, FALSE, ln)

(* Phase 2: a backslash before a newline joins the lines.  The lines are     *)
(* counted after that.                                                      *)
RECURSIVE Spliced(_, _)
Spliced(s, p) == IF p > Len(s) THEN ""
                 ELSE IF At(s, p) = "\\" /\ At(s, p + 1) = "\n"
                 THEN Spliced(s, p + 2)
                 ELSE At(s, p) \o Spliced(s, p + 1)

-----------------------------------------------------------------------------
(* Macros: [fn, params, rest, body] by name.                                *)

Spell(ts) == [i \in DOMAIN ts |-> ts[i].t]
Hiding(ts, H) == [i \in DOMAIN ts |-> [ts[i] EXCEPT !.hide = @ \cup H]]
OnLine(ts, ln) == [i \in DOMAIN ts |-> [ts[i] EXCEPT !.ln = ln]]
Bad == <<PP(Undefined, FALSE, 0)>>
Rest(ts, i) == SubSeq(ts, i, Len(ts))

(* #param: the spellings, one space where there was white space, quotes and *)
(* backslashes of literals escaped.                                         *)
RECURSIVE Quote(_, _)
Quote(t, i) == IF i > Len(t) THEN ""
               ELSE (IF At(t, i) \in {"\"", "\\"} THEN "\\" ELSE "")
                    \o At(t, i) \o Quote(t, i + 1)
RECURSIVE Words(_, _)
Words(ts, i) ==
  IF i > Len(ts) THEN ""
  ELSE (IF i > 1 /\ ts[i].w THEN " " ELSE "")
       \o (IF At(ts[i].t, 1) \in {"\"", "'"} THEN Quote(ts[i].t, 1) ELSE ts[i].t)
       \o Words(ts, i + 1)
Stringify(ts) == "\"" \o Words(ts, 1) \o "\""

(* a ## b; the empty sequence on either side is a place without a token.    *)
Glue(os, ts) ==
  IF os = <<>> THEN ts ELSE IF ts = <<>> THEN os
  ELSE LET l == os[Len(os)]
           t == l.t \o ts[1].t
       IN  IF ~IsPPToken(t) THEN Bad
           ELSE SubSeq(os, 1, Len(os) - 1)
                \o <<[l EXCEPT !.t = t, !.hide = @ \cap ts[1].hide]>>
                \o Tail(ts)

(* The arguments behind the parenthesis at i, and where it is closed; 0 if   *)
(* it is not.                                                               *)
RECURSIVE Actuals(_, _, _, _, _)
Actuals(ts, i, depth, arg, args) ==
  IF i > Len(ts) THEN [close |-> 0, args |-> args]
  ELSE CASE ts[i].t = ")" /\ depth = 1 ->
              [close |-> i, args |-> Append(args, arg)]
         [] ts[i].t = "," /\ depth = 1 ->
              Actuals(ts, i + 1, depth, <<>>, Append(args, arg))
         [] OTHER ->
              Actuals(ts, i + 1, depth + (CASE ts[i].t = "(" -> 1
                                            [] ts[i].t = ")" -> -1 [] OTHER -> 0),
                      Append(arg, ts[i]), args)

(* With "...": the arguments after the named ones are one, commas and all.   *)
RECURSIVE Commas(_, _)
Commas(args, k) == IF k > Len(args) THEN <<>>
                   ELSE args[k] \o (IF k < Len(args) THEN <<PP(",", FALSE, 0)>>
                                    ELSE <<>>) \o Commas(args, k + 1)
ArgumentsFor(m, args) ==
  CASE m.rest -> SubSeq(args, 1, Len(m.params)) \o <<Commas(args, Len(m.params) + 1)>>
    [] m.params = <<>> /\ args = <<<<>>>> -> <<>>
    [] OTHER -> args
Formals(m) == IF m.rest THEN Append(m.params, "__VA_ARGS__") ELSE m.params
Fits(m, args) == IF m.rest THEN Len(args) >= Len(m.params)
                 ELSE Len(ArgumentsFor(m, args)) = Len(m.params)

IndexOfParam(m, t) == Min({k \in DOMAIN Formals(m) : Formals(m)[k] = t}
                          \cup {Len(Formals(m)) + 1})
IsParam(m, t) == IndexOfParam(m, t) <= Len(Formals(m))

RECURSIVE CExpand(_, _, _)

(* The replacement list with the arguments in the place of the parameters:   *)
(* what stands beside # or ## as it is written, the rest expanded.          *)
RECURSIVE CSubst(_, _, _, _, _)
CSubst(ms, m, args, i, os) ==
  LET b == m.body
      t == b[i].t
      nxt == IF i < Len(b) THEN b[i + 1].t ELSE ""
      Arg(p) == args[IndexOfParam(m, p)]
      Spaced(ts) == IF ts = <<>> THEN ts
                    ELSE [ts EXCEPT ![1].w = b[i].w]
  IN  CASE i > Len(b) -> os
        [] t = "#" /\ m.fn ->
             IF IsParam(m, nxt)
             THEN CSubst(ms, m, args, i + 2,
                         Append(os, [b[i] EXCEPT !.t = Stringify(Arg(nxt))]))
             ELSE Bad
        [] t = "##" ->
             IF i = 1 \/ nxt = "" THEN Bad
             ELSE CSubst(ms, m, args, i + 2,
                         Glue(os, IF IsParam(m, nxt) THEN Arg(nxt)
                                  ELSE <<b[i + 1]>>))
        [] m.rest /\ t = "," /\ nxt = "##" /\ i + 2 <= Len(b)
             /\ b[i + 2].t = "__VA_ARGS__" ->
             CSubst(ms, m, args, i + 3,
                    IF Arg("__VA_ARGS__") = <<>> THEN os
                    ELSE Append(os, b[i]) \o CExpand(ms, Arg("__VA_ARGS__"), <<>>))
        [] IsParam(m, t) /\ nxt = "##" ->
             CSubst(ms, m, args, i + 1, os \o Spaced(Arg(t)))
        [] IsParam(m, t) ->
             CSubst(ms, m, args, i + 1, os \o Spaced(CExpand(ms, Arg(t), <<>>)))
        [] OTHER -> CSubst(ms, m, args, i + 1, Append(os, b[i]))

(* Expansion, left to right; "done" is what needs no more of it.            *)
CExpand(ms, ts, done) ==
  LET t == ts[1].t
      a == Actuals(ts, 3, 1, <<>>, <<>>)
      m == ms[t]
      isMacro == t \in DOMAIN ms /\ t \notin ts[1].hide
  IN  IF ts = <<>> THEN done
      ELSE IF t = "__LINE__"
      THEN CExpand(ms, Tail(ts), Append(done, [ts[1] EXCEPT !.t = ToString(ts[1].ln)]))
      ELSE IF isMacro /\ ~m.fn
      THEN CExpand(ms, OnLine(Hiding(CSubst(ms, m, <<>>, 1, <<>>),
                                     ts[1].hide \cup {t}), ts[1].ln)
                       \o Tail(ts), done)
      ELSE IF isMacro /\ Len(ts) > 1 /\ ts[2].t = "("
      THEN IF a.close = 0 \/ ~Fits(m, a.args) THEN done \o Bad
           ELSE CExpand(ms, OnLine(Hiding(CSubst(ms, m, ArgumentsFor(m, a.args),
                                                 1, <<>>),
                                          (ts[1].hide \cap ts[a.close].hide)
                                            \cup {t}), ts[1].ln)
                            \o Rest(ts, a.close + 1), done)
      ELSE CExpand(ms, Tail(ts), Append(done, ts[1]))

-----------------------------------------------------------------------------
(* Lines: directives and the text between them.                             *)

(* The macro a #define line defines, from the tokens of the line.           *)
RECURSIVE CParams(_, _, _)
CParams(l, i, names) ==
  CASE i > Len(l) -> [bad |-> TRUE]
    [] l[i].t = ")" -> [bad |-> FALSE, names |-> names, rest |-> FALSE, next |-> i + 1]
    [] l[i].t = "..." /\ i < Len(l) /\ l[i + 1].t = ")" ->
         [bad |-> FALSE, names |-> names, rest |-> TRUE, next |-> i + 2]
    [] IsIdentifier(l[i].t) /\ i < Len(l) /\ l[i + 1].t = ")" ->
         [bad |-> FALSE, names |-> Append(names, l[i].t), rest |-> FALSE,
          next |-> i + 2]
    [] IsIdentifier(l[i].t) /\ i < Len(l) /\ l[i + 1].t = "," ->
         CParams(l, i + 2, Append(names, l[i].t))
    [] OTHER -> [bad |-> TRUE]
CDefine(l) ==
  LET ps == CParams(l, 5, <<>>)
  IN  IF Len(l) < 3 \/ ~IsIdentifier(l[3].t) THEN [bad |-> TRUE]
      ELSE IF Len(l) > 3 /\ l[4].t = "(" /\ ~l[4].w
      THEN IF ps.bad THEN [bad |-> TRUE]
           ELSE [bad |-> FALSE, fn |-> TRUE, params |-> ps.names,
                 rest |-> ps.rest, body |-> Rest(l, ps.next)]
      ELSE [bad |-> FALSE, fn |-> FALSE, params |-> <<>>, rest |-> FALSE,
            body |-> Rest(l, 4)]

LineOf(ts) == SubSeq(ts, 1, Min({i \in DOMAIN ts : ts[i].t = "\n"}) - 1)
IsCDefine(l) == Len(l) > 1 /\ l[2].t = "define" /\ ~CDefine(l).bad
IsCUndef(l)  == Len(l) = 3 /\ l[2].t = "undef" /\ IsIdentifier(l[3].t)
CPredefined ==
  LET value == [i \in DOMAIN Predefined |-> Scan(Predefined[i].value, 1, TRUE, 1)]
      entry(n) == CHOOSE i \in DOMAIN Predefined : Predefined[i].name = n
  IN  [n \in {Predefined[i].name : i \in DOMAIN Predefined} |->
         [fn |-> FALSE, params |-> <<>>, rest |-> FALSE, body |-> LineOf(value[entry(n)])]]

(* Text up to the next directive is expanded at once.                       *)
RECURSIVE CLines(_, _, _, _)
CLines(ms, ts, text, done) ==
  LET l == LineOf(ts)
      rest == Rest(ts, Len(l) + 2)
      d == CDefine(l)
  IN  IF ts = <<>> THEN done \o CExpand(ms, text, <<>>)
      ELSE IF l # <<>> /\ l[1].t = "#"
      THEN IF IsCUndef(l)
           THEN CLines([n \in DOMAIN ms \ {l[3].t} |-> ms[n]], rest, <<>>,
                       done \o CExpand(ms, text, <<>>))
           ELSE IF ~IsCDefine(l) \/ l[3].t \in DOMAIN ms THEN Bad
           ELSE CLines(ms @@ (l[3].t :> d), rest, <<>>,
                       done \o CExpand(ms, text, <<>>))
      ELSE CLines(ms, rest, text \o l, done)

-----------------------------------------------------------------------------
(* Phase 7: preprocessing tokens into tokens.                               *)

IntSuffixes == {u \o l : u \in {"", "u", "U"}, l \in {"", "l", "L", "ll", "LL"}}
               \cup {l \o u : u \in {"u", "U"}, l \in {"l", "L", "ll", "LL"}}
AllIn(t, S) == \A i \in 1..Len(t) : At(t, i) \in S
IntBase(t) == IF At(t, 1) # "0" THEN 10
              ELSE IF At(t, 2) \in {"x", "X"} THEN 16 ELSE 8
IsDigits(t) == CASE IntBase(t) = 10 -> AllIn(t, Digits)
                 [] IntBase(t) = 8  -> AllIn(t, DigitsOf(8))
                 [] OTHER -> Len(t) > 2 /\ AllIn(Rest(t, 3), DigitsOf(16))
RECURSIVE Exactly(_, _)
Exactly(t, base) == IF t = "" THEN 0
                    ELSE Exactly(SubSeq(t, 1, Len(t) - 1), base) * base
                         + DigitValue(At(t, Len(t)))
IntValue(t) == Exactly(IF IntBase(t) = 16 THEN Rest(t, 3) ELSE t, IntBase(t))
(* Where the digits of an integer constant end; 0 if it is none.            *)
IntEnd(t) == Max({0} \cup {q \in 1..Len(t) : IsDigits(SubSeq(t, 1, q)) /\
                             SubSeq(t, q + 1, Len(t)) \in IntSuffixes})

IsExponent(t) ==
  \/ t = ""
  \/ /\ At(t, 1) \in {"e", "E"}
     /\ \E k \in 2..3 : /\ k = 3 => At(t, 2) \in {"+", "-"}
                        /\ k <= Len(t) /\ AllIn(Rest(t, k), Digits)
IsFloat(t) ==
  \E i \in 0..Len(t), j \in 0..Len(t), k \in 0..Len(t) :
    /\ i <= j /\ j <= k
    /\ AllIn(SubSeq(t, 1, i), Digits)
    /\ \/ j = i
       \/ At(t, i + 1) = "." /\ AllIn(SubSeq(t, i + 2, j), Digits)
    /\ (i > 0 /\ (j > i \/ k > j)) \/ j > i + 1
    /\ IsExponent(SubSeq(t, j + 1, k))
    /\ Rest(t, k + 1) \in {"", "f", "F", "l", "L"}

(* A character constant of one character; plain char is signed.             *)
NoValue == 1000
Signed8(v) == IF v >= 128 THEN v - 256 ELSE v
CEscapes == [c \in {"'", "\"", "?", "\\"} |-> Ord(c)] @@
            ("a" :> 7) @@ ("b" :> 8) @@ ("f" :> 12) @@ ("n" :> 10) @@
            ("r" :> 13) @@ ("t" :> 9) @@ ("v" :> 11)
CCharValue(t) ==
  LET body == SubSeq(t, 2, Len(t) - 1)
      e    == Rest(body, 2)
  IN  IF Len(body) = 1 THEN Ord(body)
      ELSE IF At(body, 1) # "\\" THEN NoValue
      ELSE IF e \in DOMAIN CEscapes THEN CEscapes[e]
      ELSE IF Len(e) <= 3 /\ AllIn(e, DigitsOf(8)) /\ Exactly(e, 8) < 256
      THEN Signed8(Exactly(e, 8))
      ELSE IF At(e, 1) = "x" /\ Len(e) > 1 /\ AllIn(Rest(e, 2), DigitsOf(16))
              /\ Exactly(Rest(e, 2), 16) < 256
      THEN Signed8(Exactly(Rest(e, 2), 16))
      ELSE NoValue

(* GNU names that stand for keywords of C, and the keywords.                *)
CWords == {"break", "case", "char", "const", "continue", "default", "do",
           "double", "else", "enum", "extern", "for", "goto", "if", "inline",
           "int", "long", "register", "restrict", "return", "short", "signed",
           "sizeof", "static", "struct", "switch", "typedef", "union",
           "unsigned", "void", "volatile", "while"}
GnuWords == [w \in {"__const__", "__inline__", "__restrict__", "__signed__",
                    "__volatile__"} |-> SubSeq(w, 3, Len(w) - 2)]
            @@ ("__inline" :> "inline")
            @@ [w \in {"__asm__", "__attribute__", "__builtin_va_arg",
                       "__builtin_va_end", "__builtin_va_list",
                       "__builtin_va_start"} |-> w]

CToken(t) ==
  CASE t = Undefined \/ t \in {"#", "##"} -> Token(Undefined, t)
    [] t \in CWords -> Token(t, t)
    [] t \in DOMAIN GnuWords -> Token(GnuWords[t], t)
    [] IsIdentifier(t) -> Token("ident", t)
    [] IsBetween(t, "\"") -> Token("string", t)
    [] IsBetween(t, "'") ->
         IF CCharValue(t) = NoValue THEN Token(Undefined, t)
         ELSE [Token("number", t) EXCEPT !.val = CCharValue(t)]
    [] IsPPNumber(t) ->
         IF IntEnd(t) > 0 /\ IntValue(SubSeq(t, 1, IntEnd(t))) < Word
         THEN [Token("number", t) EXCEPT
                 !.val = IntValue(SubSeq(t, 1, IntEnd(t))),
                 !.uns = \E q \in IntEnd(t) + 1..Len(t) : At(t, q) \in {"u", "U"}]
         ELSE IF IsFloat(t) THEN [Token("number", t) EXCEPT !.flt = TRUE]
         ELSE Token(Undefined, t)
    [] OTHER -> Token(t, t)

CTokens(source) ==
  LET pp == CLines(CPredefined, Scan(Spliced(source, 1), 1, TRUE, 1), <<>>, <<>>)
  IN  Append([i \in DOMAIN pp |-> CToken(pp[i].t)], Eof)

(* Every spelling is a token, and no two dots follow one another, which no  *)
(* program has.                                                             *)
IsC(tokens) ==
  \A i \in DOMAIN tokens :
    /\ tokens[i].kind # Undefined
    /\ tokens[i].kind = "." => At(tokens[i + 1].text, 1) # "."


-----------------------------------------------------------------------------
(* preprocess and lexer_next, one after the other.                          *)
CONSTANT Sources

VARIABLE source

vars == <<source, lexVars, expVars>>

Init == /\ source \in Sources
        /\ ExpandInit(source)
        /\ LexerInit("")

Expand == ExpandNext /\ UNCHANGED <<source, lexVars>>

(* The file's own call of pp_buf_impl returns: its text is the lexer's.     *)
StartLexing ==
  /\ Returning("file")
  /\ frames' = <<>> /\ src' = Top.out
  /\ UNCHANGED <<source, pos, col, toks, objs, funs, expanding, halted>>

Lex == frames = <<>> /\ LexerNext /\ UNCHANGED <<source, expVars>>

Done == LexerDone \/ halted
Idle == Done /\ UNCHANGED vars

Next == Expand \/ StartLexing \/ Lex \/ Idle

Spec == Init /\ [][Next]_vars /\ WF_vars(Expand \/ StartLexing \/ Lex)

-----------------------------------------------------------------------------
(* The value of a floating constant is not an integer's.                    *)
WithoutFloats(tokens) ==
  [i \in DOMAIN tokens |-> IF tokens[i].flt THEN [tokens[i] EXCEPT !.val = 0]
                           ELSE tokens[i]]

(* The parser gets the tokens of C: spelled alike, of the same kind and with *)
(* the same value, for every source that is C; macros are expanded on text,  *)
(* and the text put out is read again.                                      *)
TokensAsC ==
  LexerDone =>
    \A ts \in {CTokens(source)} : IsC(ts) => WithoutFloats(toks) = ts

(* Every text is expanded and read to its end: nested calls, names that      *)
(* expand to themselves, parentheses that are never closed, unterminated    *)
(* strings and comments included.                                           *)
Ends == <>Done

=============================================================================
