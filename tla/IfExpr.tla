--------------------------------- MODULE IfExpr ---------------------------------
(***************************************************************************)
(* The conditions of #if: if_eval, if_parse_expr, if_parse_primary,        *)
(* if_next_tok and if_apply of preproc.c, against what C says.             *)
(*                                                                         *)
(* A condition is a sequence of tokens.  The functions are recursive and   *)
(* have no state but the position; the state machine only chooses a        *)
(* condition and the macros, then evaluates.  Numbers are small: the       *)
(* 64 bits of long do not matter here, its sign does.                      *)
(***************************************************************************)
EXTENDS Integers, Sequences, FiniteSets

CONSTANTS
  Conditions,  \* the sequences of tokens to evaluate
  Macros,      \* the tables of object macros: from names to tokens
  None         \* C gives the condition no value

VARIABLES
  toks,        \* the condition
  macros,      \* macros, as a function
  result       \* what if_parse_expr returns

vars == <<toks, macros, result>>

Num(v)  == [t |-> "num", v |-> v]
Op(o)   == [t |-> "op", o |-> o]
Id(n)   == [t |-> "id", n |-> n]
LP      == [t |-> "("]
RP      == [t |-> ")"]
DefinedWord == [t |-> "defined"]

(* if_prec: the precedence of a token, -1 if it is not a binary operator.  *)
Levels == <<{"||"}, {"&&"}, {"|"}, {"^"}, {"&"}, {"==", "!="},
            {"<", ">", "<=", ">="}, {"<<", ">>"}, {"+", "-"}, {"*", "/", "%"}>>
IsBinary(tok) == tok.t = "op" /\ \E l \in DOMAIN Levels : tok.o \in Levels[l]
Prec(tok) == IF IsBinary(tok)
             THEN CHOOSE l \in DOMAIN Levels : tok.o \in Levels[l] ELSE -1

---------------------------------------------------------------------------
(* if_apply.                                                               *)

Bit(b) == IF b THEN 1 ELSE 0
Sgn(v) == IF v < 0 THEN -1 ELSE 1
Abs(v) == Sgn(v) * v

(* Division truncates.                                                     *)
Quotient(a, b) == Sgn(a) * Sgn(b) * (Abs(a) \div Abs(b))

(* The bits of two's complement numbers.                                   *)
RECURSIVE And(_, _)
And(a, b) == CASE a = 0 \/ b = 0 -> 0
               [] a = -1 -> b
               [] b = -1 -> a
               [] OTHER -> 2 * And(a \div 2, b \div 2) + (a % 2) * (b % 2)

Apply(a, o, b) ==
  CASE o = "+" -> a + b
    [] o = "-" -> a - b
    [] o = "*" -> a * b
    [] o = "/" -> IF b = 0 THEN 0 ELSE Quotient(a, b)
    [] o = "%" -> IF b = 0 THEN 0 ELSE a - b * Quotient(a, b)
    [] o = "&" -> And(a, b)
    [] o = "|" -> a + b - And(a, b)
    [] o = "^" -> a + b - 2 * And(a, b)
    [] o = "&&" -> Bit(a # 0 /\ b # 0)
    [] o = "||" -> Bit(a # 0 \/ b # 0)
    [] o = "==" -> Bit(a = b)
    [] o = "!=" -> Bit(a # b)
    [] o = "<" -> Bit(a < b)
    [] o = ">" -> Bit(a > b)
    [] o = "<=" -> Bit(a <= b)
    [] o = ">=" -> Bit(a >= b)
    [] o = "<<" -> IF b \in 0 .. 24 THEN a * 2^b ELSE 0
    [] o = ">>" -> IF b \in 0 .. 24 THEN a \div 2^b ELSE 0

---------------------------------------------------------------------------
(* The parser.  "fuel" is how many macros may still be entered: one that   *)
(* is entered more often than there are macros is entered for ever, since  *)
(* the argument depth is passed on unchanged.                              *)

Never == [ok |-> FALSE, v |-> 0, p |-> 0, tok |-> [t |-> "eof"]]
Got(tok, v, p) == [ok |-> TRUE, tok |-> tok, v |-> v, p |-> p]
EndAt(s, p) == Got([t |-> "eof"], 0, p)

RECURSIVE NextTok(_, _, _), Primary(_, _, _), Expr(_, _, _, _), Climb(_, _, _, _, _)

(* if_next_tok.                                                            *)
DefinedTok(s, p) ==
  LET paren == p <= Len(s) /\ s[p].t = "("
      q     == IF paren THEN p + 1 ELSE p
      name  == q <= Len(s) /\ s[q].t = "id"
      r     == IF name THEN q + 1 ELSE q
  IN  Got(Num(0), IF name THEN Bit(s[q].n \in DOMAIN macros) ELSE 0,
          IF paren /\ r <= Len(s) /\ s[r].t = ")" THEN r + 1 ELSE r)

MacroTok(n, p, fuel) ==
  IF n \notin DOMAIN macros \/ macros[n] = <<>> THEN Got(Num(0), 0, p)
  ELSE IF fuel = 0 THEN Never
  ELSE LET e == Expr(macros[n], 1, 1, fuel - 1)
       IN  IF e.ok THEN Got(Num(0), e.v, p) ELSE Never

NextTok(s, p, fuel) ==
  IF p > Len(s) THEN EndAt(s, p)
  ELSE CASE s[p].t = "num" -> Got(s[p], s[p].v, p + 1)
         [] s[p].t = "defined" -> DefinedTok(s, p + 1)
         [] s[p].t = "id" -> MacroTok(s[p].n, p + 1, fuel)
         [] OTHER -> Got(s[p], 0, p + 1)

(* if_parse_primary.                                                       *)
Unary(o, v) == CASE o = "+" -> v [] o = "-" -> -v [] o = "~" -> -v - 1
                 [] o = "!" -> Bit(v = 0)

Parenthesised(s, p, fuel) ==
  LET e == Expr(s, p, 1, fuel)
      c == IF e.ok THEN NextTok(s, e.p, fuel) ELSE Never
  IN  IF ~c.ok THEN Never
      ELSE Got(Num(0), e.v, IF c.tok.t = ")" THEN c.p ELSE e.p)

Primary(s, p, fuel) ==
  LET t == NextTok(s, p, fuel)
  IN  CASE ~t.ok -> Never
        [] t.ok /\ t.tok.t = "num" -> t
        [] t.ok /\ t.tok.t = "(" -> Parenthesised(s, t.p, fuel)
        [] t.ok /\ t.tok.t = "op" /\ t.tok.o \in {"+", "-", "~", "!"} ->
             LET x == Primary(s, t.p, fuel)
             IN  IF x.ok THEN Got(Num(0), Unary(t.tok.o, x.v), x.p) ELSE Never
        [] OTHER -> EndAt(s, p)

(* if_parse_expr: a primary, then operators of min_prec or above with the  *)
(* operands that bind tighter.                                             *)
Expr(s, p, min, fuel) ==
  LET x == Primary(s, p, fuel)
  IN  IF x.ok THEN Climb(s, x.p, x.v, min, fuel) ELSE Never

(* Mutant: the right operand may hold operators of the same precedence.    *)
ClimbToTheRight(s, p, left, min, fuel) ==
  LET t == NextTok(s, p, fuel)
      r == IF t.ok /\ Prec(t.tok) >= min
           THEN Expr(s, t.p, Prec(t.tok), fuel) ELSE Never
  IN  IF ~t.ok THEN Never
      ELSE IF Prec(t.tok) < min THEN Got(Num(0), left, p)
      ELSE IF ~r.ok THEN Never
      ELSE Climb(s, r.p, Apply(left, t.tok.o, r.v), min, fuel)

Climb(s, p, left, min, fuel) ==
  LET t == NextTok(s, p, fuel)
      r == IF t.ok /\ Prec(t.tok) >= min
           THEN Expr(s, t.p, Prec(t.tok) + 1, fuel) ELSE Never
  IN  IF ~t.ok THEN Never
      ELSE IF Prec(t.tok) < min THEN Got(Num(0), left, p)
      ELSE IF ~r.ok THEN Never
      ELSE Climb(s, r.p, Apply(left, t.tok.o, r.v), min, fuel)

---------------------------------------------------------------------------
(* What C says: macros are replaced by their tokens, a name within its own *)
(* replacement is left alone, other names are 0; the operator applied last *)
(* is the last of the lowest precedence outside parentheses; an operand    *)
(* that && or || do not need is not evaluated.                             *)

RECURSIVE Replaced(_, _), CValue(_)

Replaced(s, hidden) ==
  IF s = <<>> THEN <<>>
  ELSE CASE s[1].t = "defined" /\ s[2].t = "(" ->
              <<Num(Bit(s[3].n \in DOMAIN macros))>>
              \o Replaced(SubSeq(s, 5, Len(s)), hidden)
         [] s[1].t = "defined" /\ s[2].t = "id" ->
              <<Num(Bit(s[2].n \in DOMAIN macros))>>
              \o Replaced(SubSeq(s, 3, Len(s)), hidden)
         [] s[1].t = "id" ->
              (IF s[1].n \in DOMAIN macros \ hidden
               THEN Replaced(macros[s[1].n], hidden \cup {s[1].n})
               ELSE <<Num(0)>>) \o Replaced(Tail(s), hidden)
         [] OTHER -> <<s[1]>> \o Replaced(Tail(s), hidden)

ParensBefore(s, i) ==
  Cardinality({j \in 1 .. i - 1 : s[j].t = "("})
  - Cardinality({j \in 1 .. i - 1 : s[j].t = ")"})

(* The binary operators outside parentheses.                               *)
Outer(s) == {i \in 2 .. Len(s) : /\ IsBinary(s[i])
                                 /\ s[i - 1].t \in {"num", ")"}
                                 /\ ParensBefore(s, i) = 0}
AppliedLast(s) ==
  CHOOSE i \in Outer(s) : \A j \in Outer(s) \ {i} :
    \/ Prec(s[i]) < Prec(s[j])
    \/ Prec(s[i]) = Prec(s[j]) /\ j < i

CApply(a, o, b) ==
  CASE o = "&&" /\ a = 0 -> 0
    [] o = "||" /\ a # None /\ a # 0 -> 1
    [] ~(o = "&&" /\ a = 0) /\ ~(o = "||" /\ a # None /\ a # 0) ->
         IF a = None \/ b = None \/ (o \in {"/", "%"} /\ b = 0)
            \/ (o \in {"<<", ">>"} /\ (IF b = None THEN TRUE ELSE b < 0))
         THEN None ELSE Apply(a, o, b)

CValue(s) ==
  CASE s = <<>> -> None
    [] Outer(s) # {} ->
         LET i == AppliedLast(s)
         IN  CApply(CValue(SubSeq(s, 1, i - 1)), s[i].o,
                    CValue(SubSeq(s, i + 1, Len(s))))
    [] Outer(s) = {} /\ s # <<>> ->
         (CASE s[1].t = "num" -> s[1].v
            [] s[1].t = "(" -> CValue(SubSeq(s, 2, Len(s) - 1))
            [] s[1].t = "op" ->
                 LET x == CValue(Tail(s))
                 IN  IF x = None THEN None ELSE Unary(s[1].o, x))

---------------------------------------------------------------------------
Init == toks \in Conditions /\ macros \in Macros /\ result = None

(* if_eval; the caller tests the value for zero.                           *)
Evaluate == /\ result = None
            /\ result' = Expr(toks, 1, 1, Cardinality(DOMAIN macros))
            /\ UNCHANGED <<toks, macros>>

Evaluated == result # None /\ UNCHANGED vars

Next == Evaluate \/ Evaluated
Spec == Init /\ [][Next]_vars

---------------------------------------------------------------------------
(* Properties.                                                             *)

(* The evaluator gives every condition that has a value in C that value:   *)
(* operators group by precedence and from left to right, parentheses and   *)
(* unary operators bind as in C, and no division by a zero that C does not *)
(* evaluate stops it.  The whole condition is read: nothing after the      *)
(* position the evaluator stops at is ignored.                             *)
EvaluatesAsC ==
  result # None =>
    LET c == CValue(Replaced(toks, {}))
    IN  c # None => result.ok /\ result.v = c /\ result.p = Len(toks) + 1
=============================================================================
