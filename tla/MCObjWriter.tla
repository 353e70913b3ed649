---------------------------- MODULE MCObjWriter ----------------------------
(***************************************************************************)
(* Every symbol table of up to three symbols, with up to two relocations   *)
(* of .text and one of .data, against any symbol, none, or one past the    *)
(* end; section sizes that are and are not multiples of the alignments.    *)
(***************************************************************************)
EXTENDS ObjWriter

CONSTANT TextSizes

(* Two lengths of names, the empty one included.                           *)
SymbolKinds == [len : {0, 4}, global : BOOLEAN]
UpTo(S, n)  == UNION {[1 .. m -> S] : m \in 0 .. n}
Sizes       == [text : TextSizes, data : {0, 7}]

MCPrograms ==
  UNION {[syms  : [1 .. m -> SymbolKinds],
          relas : {[text |-> t, data |-> d] :
                     t \in UpTo(0 .. m + 1, 2), d \in UpTo({m}, 1)},
          size  : {z \in Sizes : z.text % 16 = 0 <=> z.data = 0}]
          : m \in 0 .. 3}
  \cup [syms  : [1 .. 4 -> SymbolKinds],
        relas : {[text |-> <<1>>, data |-> <<>>]},
        size  : {[text |-> 16, data |-> 0]}]
=============================================================================
