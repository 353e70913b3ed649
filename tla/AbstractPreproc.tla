------------------------------- MODULE AbstractPreproc -------------------------------
(***************************************************************************)
(* What C says of preprocessing directives: the abstract specification of  *)
(* Preproc.                                                                *)
(*                                                                         *)
(* Macros of both kinds are one function from names, a new definition      *)
(* replaces and #undef removes.  Groups nest: the groups inside one that   *)
(* is skipped are dead, whatever their conditions, and a group is past     *)
(* when one of its branches was on.  Blanks before a # mean nothing.       *)
(***************************************************************************)
EXTENDS Integers, Sequences

CONSTANTS Sources, Main, Predefined, MaxMacros, MaxFuncs, MaxCond, MaxDepth, None

VARIABLES
  src,
  at,       \* the files being read, innermost first, and their next lines
  defs,     \* the macros: their kinds and their values
  groups,   \* the open groups: "on", "off", "past" or "dead"
  out,
  failed,   \* an #error was met
  rejected  \* a limit was exceeded

vars == <<src, at, defs, groups, out, failed, rejected>>

Object(v) == [kind |-> "object", value |-> v]
FunctionLike(v) == [kind |-> "function", value |-> v]

Init == /\ src \in Sources
        /\ at = <<[file |-> Main, line |-> 1]>>
        /\ defs = [n \in {p.name : p \in Predefined} |->
                     Object((CHOOSE p \in Predefined : p.name = n).value)]
        /\ groups = <<>>
        /\ out = <<>>
        /\ failed = FALSE
        /\ rejected = FALSE

File == src[at[1].file]
Line == File[at[1].line]
Reading == ~rejected /\ at # <<>>
OnLine  == Reading /\ at[1].line <= Len(File)
Live    == \A i \in DOMAIN groups : groups[i] = "on"

On(k) == OnLine /\ Line.k = k
Does(k) == On(k) /\ Live
Advance == at' = [at EXCEPT ![1].line = @ + 1]
Keep(vs) == UNCHANGED <<src, rejected>> /\ UNCHANGED vs

IsDefined(n) == n \in DOMAIN defs
Holds(c) == CASE c.op = "defined" -> IsDefined(c.name)
              [] c.op = "not" -> ~IsDefined(c.name)
              [] c.op = "value" -> IF IsDefined(c.name) THEN defs[c.name].value # 0
                                   ELSE FALSE
True == CASE Line.k = "ifdef" -> IsDefined(Line.name)
          [] Line.k = "ifndef" -> ~IsDefined(Line.name)
          [] Line.k = "if" -> Holds(Line.cond)

Opening == OnLine /\ Line.k \in {"ifdef", "ifndef", "if"}

OpenGroup == /\ Opening
             /\ groups' = Append(groups, IF ~Live THEN "dead"
                                         ELSE IF True THEN "on" ELSE "off")
             /\ Advance
             /\ Keep(<<defs, out, failed>>)

Other(g) == CASE g = "on" -> "off" [] g = "off" -> "on" [] OTHER -> g

ElseGroup == /\ On("else") /\ groups # <<>>
             /\ groups' = [groups EXCEPT ![Len(groups)] = Other(@)]
             /\ Advance
             /\ Keep(<<defs, out, failed>>)

Elif(g) == CASE g = "on" -> "past"
             [] g = "off" -> IF Holds(Line.cond) THEN "on" ELSE "off"
             [] OTHER -> g

ElifGroup == /\ On("elif") /\ groups # <<>>
             /\ groups' = [groups EXCEPT ![Len(groups)] = Elif(@)]
             /\ Advance
             /\ Keep(<<defs, out, failed>>)

CloseGroup == /\ On("endif") /\ groups # <<>>
              /\ groups' = SubSeq(groups, 1, Len(groups) - 1)
              /\ Advance
              /\ Keep(<<defs, out, failed>>)

SkipOther == /\ OnLine /\ ~Live
             /\ Line.k \notin {"ifdef", "ifndef", "if", "elif", "else", "endif"}
             /\ Advance
             /\ Keep(<<defs, groups, out, failed>>)

(* A #pragma that is not known is passed over.                             *)
OtherLine == /\ Does("pragma")
             /\ Advance
             /\ Keep(<<defs, groups, out, failed>>)

Becomes(n, d) == defs' = [m \in DOMAIN defs \cup {n} |-> IF m = n THEN d ELSE defs[m]]

DefineMacro == /\ \/ Does("define") /\ Becomes(Line.name, Object(Line.value))
                  \/ Does("function") /\ Becomes(Line.name, FunctionLike(Line.value))
               /\ Advance
               /\ Keep(<<groups, out, failed>>)

UndefMacro == /\ Does("undef")
              /\ defs' = [n \in DOMAIN defs \ {Line.name} |-> defs[n]]
              /\ Advance
              /\ Keep(<<groups, out, failed>>)

ErrorLine == /\ Does("error")
             /\ failed' = TRUE
             /\ Advance
             /\ Keep(<<defs, groups, out>>)

(* A file that exists is read, unless files already nest to the limit.  Of *)
(* one that does not, C asks for no more than a message.                   *)
IncludeFile ==
  /\ Does("include") \/ Does("system")
  /\ \/ Line.file \notin DOMAIN src /\ Advance
     \/ /\ Line.file \in DOMAIN src
        /\ Len(at) <= MaxDepth
        /\ at' = <<[file |-> Line.file, line |-> 1]>>
                 \o [at EXCEPT ![1].line = @ + 1]
     \/ Len(at) > MaxDepth /\ Advance
  /\ Keep(<<defs, groups, out, failed>>)

Replaced == IF IsDefined(Line.name)
               /\ (defs[Line.name].kind = "function" => Line.k = "call")
            THEN defs[Line.name].value ELSE None

TextLine == /\ Does("use") \/ Does("call")
            /\ out' = Append(out, <<Line.name, Replaced>>)
            /\ Advance
            /\ Keep(<<defs, groups, failed>>)

EndOfFile == /\ Reading /\ at[1].line > Len(File)
             /\ at' = Tail(at)
             /\ out' = IF Len(at) = 1 /\ failed THEN <<>> ELSE out
             /\ Keep(<<defs, groups, failed>>)

(* A limit of the implementation is exceeded.                              *)
Reject == /\ OnLine
          /\ \/ Opening /\ Len(groups) >= MaxCond
             \/ Does("define") \/ Does("function")
          /\ rejected' = TRUE
          /\ UNCHANGED <<src, at, defs, groups, out, failed>>

Next == \/ OpenGroup \/ ElifGroup \/ ElseGroup \/ CloseGroup \/ SkipOther
        \/ OtherLine \/ DefineMacro \/ UndefMacro \/ ErrorLine \/ IncludeFile \/ TextLine \/ EndOfFile
        \/ Reject

Spec == Init /\ [][Next]_vars
=============================================================================
