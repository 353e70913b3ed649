------------------------------- MODULE MCText -------------------------------
(* Source texts for Text.                                                   *)
EXTENDS Text

-----------------------------------------------------------------------------
(* Every string of at most three or four characters over a small alphabet.   *)

UpTo3(A) == {a \o b \o c : a, b, c \in A \cup {""}}
UpTo4(A) == {a \o b : a, b \in {c \o d : c, d \in A \cup {""}}}

Has(s, t) == \E i \in 1..Len(s) : StartsWith(s, i, t)

Operators == UpTo4(CharsOf("<=>-.")) \cup UpTo3(CharsOf("+-&|*/%^!~="))
             \cup UpTo3(CharsOf(";{}[]?:,"))
Integers  == UpTo4(CharsOf("08xauL+"))
(* A dot with no digit after it is not taken into a number: see Floats.      *)
Floats1   == {s \in UpTo4(CharsOf("18.ef+")) :
                \A i \in 1..Len(s) : At(s, i) = "." => At(s, i + 1) \in Digits}
(* A line continues after a backslash in directives and strings only.       *)
Literals  == {s \in UpTo4(CharsOf("/*\"\\'a") \cup {"\n"}) :
                ~Has(s, "\\\n") /\ ~Has(s, "'\\a'")}
Others    == {"", " \t\r\n", "# 1 2\nx", "x # 1", "@", "'\\x4f' '\\101' '\\0' '\\t\\",
              "'\\r' '\\t' '\\''", "a ... b", "..1", "/* a\n b */ c", "a//b\nc", "'",
              "'\\", "'\\xg'", "4095 4096", "if__ __inline__ iff __const__ auto_"}
             \cup DOMAIN Keywords

-----------------------------------------------------------------------------
(* Macros.                                                                  *)

DefineLine(l) == "#define " \o l \o "\n"

Nesting ==
  {DefineLine("F(x) " \o b) \o DefineLine("G(x) " \o g) \o DefineLine("O " \o o) \o u :
     b \in {"x", "(x)", "x y", "G(x)", "O", "#x", "\"x\"x", "G", "f( x,x )", "",
            "'x'x", "F(x)", "x __LINE__1"},
     g \in {"[x]", "!x"},
     o \in {"1", "a b", "G(2)", ""},
     u \in {"F(1)", "F(G(2))", "F(O)", "F", "F(a b)", "F((1,2))", "F(\"a)\")",
            "F()", "O", "F(x) F(y)", "F(')')", "G( 1 ) O", "F(\n1)", "F O G"}}

Pasting ==
  {DefineLine("F(x,y) " \o b) \o DefineLine("ab(x) [x]") \o u :
     b \in {"x##y", "x ## y z", "x##1 y", "a##x y", "x##y(y)", "#x #y", "ab##x##y"},
     u \in {"F(a,b)", "F(a,1)", "F(,b)", "F(a,b)(2)", "F(a,b)(\")\")"}}

Variadic ==
  {DefineLine("F(x,...) " \o b) \o DefineLine("O 7") \o u :
     b \in {"f(x,##__VA_ARGS__)", "f(x, ## __VA_ARGS__)", "f(x,__VA_ARGS__)",
            "[__VA_ARGS__] x", "f(x,x)"},
     u \in {"F(1)", "F(1,2)", "F(1,2,3)", "F(1,O)", "F(1,(2,3))", "F(O,\",\")"}}

MacroTables == {DefineLine("O O") \o "O", DefineLine("O P") \o DefineLine("P 1") \o "O P",
           DefineLine("F(x) G(x)") \o DefineLine("G(x) F(x)") \o "F(1)",
           DefineLine("F( a , b ) a b") \o "F(1,2)", DefineLine("F(a, ...) a") \o "F(1,2)",
           DefineLine("F() 1") \o "F()", DefineLine(" O \\\n  1") \o "O",
           DefineLine("F(x) \\\n x \\\r\n x") \o "F(2)", DefineLine("") \o "x",
           DefineLine("O 1 // 2") \o "O", DefineLine("O 1/2") \o "O",
           "#define", "# define O 1\n#pragma\nO", "__x86_64__ X86_64_TLIBC __FILE__",
           DefineLine("O 1") \o DefineLine("P 2") \o "#undef O\nO P", "#undef\nO",
           DefineLine("O 1") \o "#undef O\n" \o DefineLine("O 2") \o "O", "__LINE__\n\n__LINE__ /*\n*/__LINE__"}

(* Some table is full: a fifth name on the stack, a fifth argument or        *)
(* parameter, a third macro of the source or a sixth with parameters.       *)
Overfull == {DefineLine("A(x) B(x)") \o DefineLine("B(x) C(x)") \o DefineLine("C(x) D(x)")
               \o DefineLine("D(x) E(x)") \o DefineLine("E(x) x") \o "A(1)",
             DefineLine("F(x) x") \o "F(1,2,3,4,5)", DefineLine("F(x) x") \o "F(1,2,3,4",
             DefineLine("F(x) x") \o "F(1", DefineLine("F(a,b,c,d,e) a") \o "1",
             DefineLine("O 1") \o DefineLine("P 2") \o DefineLine("Q 3") \o "O",
             DefineLine("A(x) x") \o DefineLine("B(x) x") \o DefineLine("C(x) x")
               \o DefineLine("D(x) x") \o DefineLine("E(x) x") \o DefineLine("F(x) x") \o "1"}

ThePredefined == <<[name |-> "__FILE__", value |-> "\"f.c\""],
                   [name |-> "__x86_64__", value |-> ""],
                   [name |-> "X86_64_TLIBC", value |-> "1"]>>

MCSources == Operators \cup Integers \cup Floats1 \cup Literals \cup Others
             \cup Nesting \cup Pasting \cup Variadic \cup MacroTables \cup Overfull

-----------------------------------------------------------------------------
(* Texts of which the code does not make the tokens of C.                   *)

(* A macro in an argument of its own call is not expanded.                  *)
NestedCall == {DefineLine("F(x) (x+1)") \o "F(F(1))",
               DefineLine("F(x) x") \o DefineLine("G(x) F(x)") \o "F(G(1))"}
(* A blank before the parenthesis; parentheses that do not come from the     *)
(* text that names the macro.                                               *)
BlankBefore == {DefineLine("F(x) x") \o "F (1)"}
NameFromMacro == {DefineLine("F(x) x") \o DefineLine("O F") \o "O(1)"}
(* What stood apart is read as one token.                                   *)
Together == {"a/**/b", DefineLine("N -") \o "-N 1", DefineLine("F(x) x") \o "F(a)F(b)"}
(* The operands of ## are expanded; of a call's results, one expands again.  *)
OperandsExpanded == {DefineLine("C(x,y) x##y") \o DefineLine("O 1") \o "C(O,2)"}
ExpandedAgain == {DefineLine("F(x) F") \o "F(1)(2)"}
(* __LINE__ counts from the beginning of the argument or value it stands in. *)
LineOfMacro == {DefineLine("F(x) x") \o "\n\nF(__LINE__)", DefineLine("O __LINE__") \o "\n\nO",
                DefineLine("O 1 \\\n 2") \o "__LINE__"}
(* A quote in a character constant begins a string; two slashes in the       *)
(* string of a value end the value.                                         *)
QuoteCharacter == {DefineLine("O 1") \o "'\"' O '\"'"}
SlashesInString == {DefineLine("O \"a//b\"") \o "O"}
(* A macro that names itself beside other text is expanded MaxDepth times.   *)
SelfNaming == {DefineLine("O O+1") \o "O", DefineLine("O P") \o DefineLine("P O") \o "O"}
(* Numbers and characters that are read otherwise than in C.                *)
Floats == {"1.", "1.f", "01.5"}
Escapes == {"'\\a'", "'\\b'", "'\\f'", "'\\v'", "'\\xff'"}
Continued == {"a\\\nb"}
(* The list of parameters is never left.                                    *)
StuckParameters == {DefineLine("F(+) 1") \o "x"}

=============================================================================
