------------------------------- MODULE Lexer -------------------------------
(* lex.c: text into tokens.  A text is a string, read by position; the end  *)
(* of the text reads as the empty string.  lexer_next is one step of this   *)
(* module for every blank, comment or token it passes.                      *)
EXTENDS Integers, Sequences, FiniteSetsExt, TLC

CONSTANT Word                      \* 2^64, where an unsigned long wraps

ASSUME WordAssumption == Word \in Nat \ {0}

VARIABLES src, pos, col, toks

lexVars == <<src, pos, col, toks>>

-----------------------------------------------------------------------------
(* Characters.                                                              *)

At(s, p) == IF p \in 1..Len(s) THEN SubSeq(s, p, p) ELSE ""
From(s, p, q) == SubSeq(s, p, q - 1)            \* p up to q, without q
CharsOf(str) == {SubSeq(str, i, i) : i \in 1..Len(str)}

Blanks  == {" ", "\t", "\n", "\r"}
Digits  == CharsOf("0123456789")
Letters == CharsOf("abcdefghijklmnopqrstuvwxyzABCDEFGHIJKLMNOPQRSTUVWXYZ_")
IdChars == Letters \cup Digits

DigitsOf(base) == IF base = 8 THEN Digits \ {"8", "9"}
                  ELSE IF base = 16 THEN Digits \cup CharsOf("abcdefABCDEF")
                  ELSE Digits

(* The value of a digit, and the code of a character in ASCII.              *)
Place(c, str) == CHOOSE i \in 1..Len(str) : SubSeq(str, i, i) = c
DigitValue(c) == IF c \in CharsOf("ABCDEF") THEN 9 + Place(c, "ABCDEF")
                 ELSE Place(c, "0123456789abcdef") - 1
Printable ==
  " !\"#$%&'()*+,-./0123456789:;<=>?@ABCDEFGHIJKLMNOPQRSTUVWXYZ[\\]^_"
Lower == "abcdefghijklmnopqrstuvwxyz{|}~"
Ord(c) == CASE c = "\t" -> 9 [] c = "\n" -> 10 [] c = "\r" -> 13
            [] c \in CharsOf(Lower) -> 96 + Place(c, Lower)
            [] OTHER -> 31 + Place(c, Printable)

(* Where the run of characters of S that begins at p ends.                  *)
RunEnd(s, p, S) ==
  LET end[t \in STRING, q \in Nat] ==
        IF At(t, q) \in S THEN end[t, q + 1] ELSE q
  IN  end[s, p]

(* The value of the digits of s, the width of the machine aside.            *)
RECURSIVE ValueOf(_, _)
ValueOf(s, base) ==
  IF s = "" THEN 0
  ELSE (ValueOf(SubSeq(s, 1, Len(s) - 1), base) * base
        + DigitValue(At(s, Len(s)))) % Word

-----------------------------------------------------------------------------
(* The tables.                                                              *)

Aliases == [w \in {"__asm__", "__attribute__", "__builtin_va_arg",
                   "__builtin_va_end", "__builtin_va_list",
                   "__builtin_va_start"} |-> w]
        @@ [w \in {"__const__"} |-> "const"]
        @@ [w \in {"__inline", "__inline__"} |-> "inline"]
        @@ [w \in {"__restrict__"} |-> "restrict"]
        @@ [w \in {"__signed__"} |-> "signed"]
        @@ [w \in {"__volatile__"} |-> "volatile"]
Keywords == Aliases @@
  [w \in {"break", "case", "char", "const", "continue", "default", "do",
          "double", "else", "enum", "extern", "for", "goto", "if", "inline",
          "int", "long", "register", "restrict", "return", "short", "signed",
          "sizeof", "static", "struct", "switch", "typedef", "union",
          "unsigned", "void", "volatile", "while"} |-> w]

(* keyword_lookup *)
KindOfWord(w) == IF w \in DOMAIN Keywords THEN Keywords[w] ELSE "ident"

Single == CharsOf(";{}()[],?~^.+-*/%&|<>=!:")
(* What may follow the first character of an operator, and what the second. *)
Second(c) == CASE c \in {"^", "*", "/", "%", "=", "!"} -> {"="}
               [] c \in {"+", "&", "|", "<", ">"} -> {c, "="}
               [] c = "-" -> {"-", "=", ">"}
               [] OTHER -> {}
Third(two) == IF two \in {"<<", ">>"} THEN {"="} ELSE {}

-----------------------------------------------------------------------------
(* Tokens: what the parser sees of one.  The value of a floating constant   *)
(* (simple_atof) is left out; "val" is ival, its digits before the point.   *)

Token(kind, text) == [kind |-> kind, text |-> text, val |-> 0,
                      uns |-> FALSE, flt |-> FALSE]
Eof == Token("eof", "")

(* read_number, from the first character to the end of the suffix.          *)
Base(s, p) == IF At(s, p) = "0" /\ At(s, p + 1) \in {"x", "X"} THEN 16
              ELSE IF At(s, p) = "0" /\ At(s, p + 1) \in Digits THEN 8 ELSE 10
FirstDigit(s, p) == IF Base(s, p) = 16 THEN p + 2
                    ELSE IF At(s, p) = "." THEN p + 1 ELSE p
IntegerEnd(s, p) == RunEnd(s, FirstDigit(s, p), DigitsOf(Base(s, p)))
FractionEnd(s, e) == IF At(s, e) = "." /\ At(s, e + 1) \in Digits
                     THEN RunEnd(s, e + 1, Digits) ELSE e
ExponentEnd(s, e) ==
  IF At(s, e) \in {"e", "E"} /\ At(s, e + 1) \in Digits \cup {"+", "-"}
  THEN RunEnd(s, e + (IF At(s, e + 1) \in Digits THEN 1 ELSE 2), Digits)
  ELSE e
BodyEnd(s, p) ==
  IF Base(s, p) # 10 THEN IntegerEnd(s, p)
  ELSE ExponentEnd(s, FractionEnd(s, IntegerEnd(s, p)))
NumberEnd(s, p) == RunEnd(s, BodyEnd(s, p), CharsOf("uUlLfF"))
IsFloating(s, p) == At(s, p) = "." \/ BodyEnd(s, p) > IntegerEnd(s, p)
NumberToken(s, p) ==
  [Token("number", From(s, p, NumberEnd(s, p))) EXCEPT
     !.val = ValueOf(From(s, FirstDigit(s, p), IntegerEnd(s, p)), Base(s, p)),
     !.uns = \E q \in BodyEnd(s, p)..NumberEnd(s, p) - 1 :
                At(s, q) \in {"u", "U"},
     !.flt = IsFloating(s, p)]

(* read_string, from the character after the quote: where the string ends  *)
(* and whether with a quote.                                               *)
StringRest[s \in STRING, p \in Nat] ==
  CASE At(s, p) = "\"" -> [end |-> p + 1, closed |-> TRUE]
    [] At(s, p) \in {"\n", ""} -> [end |-> p, closed |-> FALSE]
    [] At(s, p) = "\\" -> StringRest[s, Min({p + 2, Len(s) + 1})]
    [] OTHER -> StringRest[s, p + 1]

(* The escapes of a character constant, from the character after the        *)
(* backslash: where they end and what they mean.                            *)
HexEnd(s, p)   == Min({RunEnd(s, p, DigitsOf(16)), p + 2})
OctalEnd(s, p) == Min({RunEnd(s, p, DigitsOf(8)), p + 3})
EscapeEnd(s, p) == IF At(s, p) = "x" THEN HexEnd(s, p + 1)
                   ELSE IF At(s, p) \in DigitsOf(8) THEN OctalEnd(s, p)
                   ELSE p + 1
EscapeValue(s, p) ==
  CASE At(s, p) = "x" -> ValueOf(From(s, p + 1, HexEnd(s, p + 1)), 16)
    [] At(s, p) \in DigitsOf(8) -> ValueOf(From(s, p, OctalEnd(s, p)), 8)
    [] At(s, p) = "n" -> 10
    [] At(s, p) = "t" -> 9
    [] At(s, p) = "r" -> 13
    [] At(s, p) = "" -> -1
    [] OTHER -> Ord(At(s, p))
CharEnd(s, p)   == IF At(s, p) = "\\" THEN EscapeEnd(s, p + 1) ELSE p + 1
CharValue(s, p) == IF At(s, p) = "\\" THEN EscapeValue(s, p + 1)
                   ELSE IF At(s, p) = "" THEN -1 ELSE Ord(At(s, p))

(* The operators, longest first where one is the beginning of another.      *)
PunctEnd(s, p) ==
  IF At(s, p + 1) \notin Second(At(s, p)) THEN p + 1
  ELSE IF At(s, p + 2) \in Third(From(s, p, p + 2)) THEN p + 3 ELSE p + 2

-----------------------------------------------------------------------------
(* The steps.                                                               *)

Here == At(src, pos)
Next1 == At(src, pos + 1)

(* advance, from pos up to q: the column is counted from the last newline.  *)
ColumnAt(q) ==
  LET newlines == {r \in pos..q - 1 : At(src, r) = "\n"}
  IN  IF newlines = {} THEN col + (q - pos) ELSE q - Max(newlines)
GoTo(q) == pos' = q /\ col' = ColumnAt(q) /\ UNCHANGED src
Skip(q) == GoTo(q) /\ UNCHANGED toks
Emit(q, tok) == GoTo(q) /\ toks' = Append(toks, tok)

LexerInit(s) == src = s /\ pos = 1 /\ col = 1 /\ toks = <<>>

LexerDone == toks # <<>> /\ toks[Len(toks)] = Eof

AtComment == Here = "/" /\ Next1 \in {"/", "*"}
AtMarker  == Here = "#" /\ col <= 2
AtToken   == ~AtComment /\ ~AtMarker

(* skip_comment: a line comment up to the end of the line, ...              *)
LineComment == /\ Here = "/" /\ Next1 = "/"
               /\ Skip(Min({q \in pos..Len(src) + 1 : At(src, q) \in {"\n", ""}}))

(* ... and a block comment past its end, or the rest of the text.           *)
BlockComment ==
  /\ Here = "/" /\ Next1 = "*"
  /\ Skip(Min({q + 2 : q \in {r \in pos + 2..Len(src) :
                                At(src, r) = "*" /\ At(src, r + 1) = "/"}}
              \cup {Len(src) + 1}))

(* A "#" in the first two columns: the rest of the line is passed over.     *)
LineMarker ==
  /\ AtMarker
  /\ Skip(Min({q \in pos..Len(src) + 1 : At(src, q) \in {"\n", ""}}))

Blank == Here \in Blanks /\ Skip(pos + 1)

EndOfText == Here = "" /\ Emit(pos, Eof)

Number ==
  /\ Here \in Digits \/ (Here = "." /\ Next1 \in Digits)
  /\ Emit(NumberEnd(src, pos), NumberToken(src, pos))

Identifier ==
  /\ Here \in Letters
  /\ \E q \in {RunEnd(src, pos, IdChars)} :
       Emit(q, Token(KindOfWord(From(src, pos, q)), From(src, pos, q)))

StringLiteral ==
  /\ Here = "\""
  /\ \E r \in {StringRest[src, pos + 1]} :
       Emit(r.end, Token(IF r.closed THEN "string" ELSE "error",
                         From(src, pos, r.end)))

Character ==
  /\ Here = "'"
  /\ \E q \in {CharEnd(src, pos + 1)} :
       IF At(src, q) = "'"
       THEN Emit(q + 1, [Token("number", From(src, pos, q + 1)) EXCEPT
                           !.val = CharValue(src, pos + 1)])
       ELSE Emit(q, [Token("error", From(src, pos, Min({q, Len(src) + 1}))) EXCEPT
                       !.val = CharValue(src, pos + 1)])

(* Three dots are one token, two are an error.                              *)
Dots == /\ Here = "." /\ Next1 = "."
        /\ IF At(src, pos + 2) = "." THEN Emit(pos + 3, Token("...", "..."))
           ELSE Emit(pos + 2, Token("error", ".."))

Operator ==
  /\ Here \in Single /\ AtToken
  /\ Here = "." => Next1 \notin Digits \cup {"."}
  /\ \E q \in {PunctEnd(src, pos)} :
       Emit(q, Token(From(src, pos, q), From(src, pos, q)))

Unrecognised ==
  /\ Here \notin Single \cup IdChars \cup Blanks \cup {"\"", "'", ""}
  /\ ~AtMarker
  /\ Emit(pos + 1, [Token("error", Here) EXCEPT !.val = Ord(Here)])

LexerNext ==
  /\ ~LexerDone
  /\ \/ LineComment \/ BlockComment \/ LineMarker \/ Blank \/ EndOfText
     \/ Number \/ Identifier \/ StringLiteral \/ Character \/ Dots
     \/ Operator \/ Unrecognised

=============================================================================
