--------------------------------- MODULE MCPreproc ---------------------------------
(***************************************************************************)
(* Sources of a few lines: a group or two nested in each other around      *)
(* definitions, #undefs and inclusions, then text that shows what is       *)
(* defined.                                                                *)
(***************************************************************************)
EXTENDS Preproc, SequencesExt

D(k)        == [k |-> k, indent |-> FALSE]
Named(k, n) == [k |-> k, indent |-> FALSE, name |-> n]
Def(n, v)   == [k |-> "define", indent |-> FALSE, name |-> n, value |-> v]
Fun(n, v)   == [k |-> "function", indent |-> FALSE, name |-> n, value |-> v]
Sys(f)      == [k |-> "system", indent |-> FALSE, file |-> f]
Inc(f)      == [k |-> "include", indent |-> FALSE, file |-> f]
Elif(op, n) == [k |-> "elif", indent |-> FALSE, cond |-> [op |-> op, name |-> n]]
IfOp(op, n) == [k |-> "if", indent |-> FALSE, cond |-> [op |-> op, name |-> n]]
Use(n)      == Named("use", n)
CallOf(n)   == Named("call", n)
Indented(l) == [l EXCEPT !.indent = TRUE]

Group(c, s)      == <<c>> \o s \o <<D("endif")>>
Choice(c, s, t)  == <<c>> \o s \o <<D("else")>> \o t \o <<D("endif")>>

Openings == {Named("ifdef", "A"), Named("ifndef", "A"), IfOp("value", "A"),
             IfOp("not", "A"), IfOp("defined", "B")}
Simple   == {<<Use("A")>>, <<Named("undef", "A"), Use("A")>>, <<Def("B", 2)>>,
             <<Inc("h"), Inc("h")>>}

Inner == Simple \cup {Choice(c, s, t) : c \in Openings, s \in {<<Use("A")>>},
                                        t \in {<<Def("B", 2)>>, <<Inc("h")>>}}
         \cup {Group(Named("ifdef", "A"), Group(IfOp("not", "B"), <<Def("B", 3)>>))}

Starts == {<<>>, <<Def("A", 0)>>, <<Def("A", 1)>>}
Tails  == {<<Use("A"), Use("B"), CallOf("F")>>}

(* A header with an include guard, which includes itself; one without,     *)
(* which includes itself; and one that leaves what it defines.             *)
Headers == ("h" :> <<Named("ifndef", "H"), Def("H", 1), Inc("h"), Use("B"), D("endif")>>)
           @@ ("loop" :> <<Use("A"), Inc("loop")>>)

WithMain(lines) == ("main" :> lines) @@ Headers

Nested2 ==
  {WithMain(s \o Choice(c, x, y) \o t)
     : s \in Starts, c \in Openings, x \in Inner, y \in Simple, t \in Tails}

(* Function-like macros, blanks before the #, a file that includes itself, *)
(* #error, #pragma, #elif in a group that is dead, and the limits.         *)
Others ==
  {WithMain(s) : s \in
     {<<Fun("F", 7), CallOf("F"), Use("F"), Def("A", 1), CallOf("A")>>,
      <<Indented(Named("ifdef", "A")), Use("A"), D("endif"), Use("B")>>,
      <<Indented(Named("ifndef", "A")), Use("A"), Indented(Def("A", 1)),
        Indented(D("else")), Use("B"), D("endif"), Use("A")>>,
      <<Inc("loop"), Use("B")>>,
      <<D("pragma"), Use("A")>> \o Group(Named("ifdef", "A"), <<D("pragma"), Use("B")>>),
      Group(Named("ifdef", "A"), Group(Named("ifdef", "A"),
        <<Use("A"), Elif("not", "A"), Use("A"), D("else"), Use("A")>>)) \o <<Use("B")>>,
      <<Inc("none.h"), Sys("stdio.h"), Use("B")>>,
      <<Use("A"), D("error"), Use("B")>>,
      Group(Named("ifdef", "A"), <<D("error"), Fun("F", 1), Inc("h")>>),
      <<Def("A", 1), Def("B", 1), Def("C", 1), Def("D", 1)>>,
      <<Fun("F", 1), Fun("G", 1)>>,
      Group(Named("ifndef", "A"), Group(Named("ifndef", "A"),
        Group(Named("ifdef", "A"), Group(Named("ifdef", "A"), <<Use("A")>>)))),
      <<Def("A", 1), Def("B", 3), Named("undef", "A"), Def("A", 2), Use("A"), Use("B")>>,
      <<Def("A", 1), Named("undef", "A"), Def("A", 2), Use("A"),
        Named("undef", "B"), Def("B", 3), Named("undef", "A"), Use("A"), Use("B")>>}}

GoodSources == Nested2 \cup Others

(* A #endif after blanks in a skipped group.                               *)
IndentedEndif ==
  {WithMain(<<Named("ifdef", "A"), Use("A"), Indented(D("endif")), Use("B")>>)}

(* An #elif whose condition holds, after a branch that is skipped.         *)
ElifIgnored ==
  {WithMain(<<Named("ifdef", "A"), Use("A"), Elif("not", "A"), Use("B"), D("endif")>>)}

(* A function-like macro in #ifdef, and one that is #undefined.            *)
FunctionTested ==
  {WithMain(<<Fun("F", 1), Named("ifdef", "F"), Use("B"), D("endif")>>)}
FunctionUndefined ==
  {WithMain(<<Fun("F", 1), Named("undef", "F"), CallOf("F")>>)}

(* A macro defined twice, as two headers may, and then #undefined.         *)
DefinedTwice ==
  {WithMain(<<Def("A", 1), Def("A", 1), Named("undef", "A"), Use("A")>>)}

(* A header that exists, named between < and >.                            *)
SystemHeader == {WithMain(<<Sys("h"), Use("B")>>)}

MCPredefined == <<[name |-> "P", value |-> 1]>>
=============================================================================
