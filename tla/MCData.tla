-------------------------------- MODULE MCData --------------------------------
(***************************************************************************)
(* Files of one or two variables and up to two functions.                  *)
(***************************************************************************)
EXTENDS Data, SequencesExt

S == <<97>>
T == <<98, 99>>
Num(v) == [str |-> FALSE, v |-> v]
Str(s) == [str |-> TRUE, s |-> s]
Var(members, stars, rows, cols, array, open, given, init) ==
  [members |-> members, stars |-> stars, rows |-> rows, cols |-> cols, array |-> array,
   open |-> open, given |-> given, init |-> init, name |-> <<"x", 1>>]
Plain(ms, stars, given)  == Var(ms, stars, 1, 1, FALSE, FALSE, given, <<>>)
One(ms, init)            == Var(ms, 0, 1, 1, FALSE, FALSE, "list", <<init>>)
Array(ms, stars, n, init) == Var(ms, stars, n, 1, TRUE, FALSE, "list", init)
Open(ms, stars, init)    == Var(ms, stars, 1, 1, TRUE, TRUE, "list", init)
Each(items)              == [i \in DOMAIN items |-> <<items[i]>>]
Nums(vs)                 == Each([i \in DOMAIN vs |-> Num(vs[i])])

Declarations ==
  {Plain(<<w>>, 0, g) : w \in {1, 4, 8}, g \in {"none", "scalar"}}
  \cup {Plain(<<1>>, 1, "scalar"), Plain(<<8, 4>>, 0, "none"), Var(<<4>>, 0, 3, 1, TRUE, FALSE, "none", <<>>)}
  \cup {Array(<<w>>, 0, 3, Nums(<<1, 2, 3>>)) : w \in {1, 2, 4, 8}}
  \cup {Open(<<w>>, 0, Nums(<<300, -2>>)) : w \in {1, 2, 4}}
  \cup {Array(<<4>>, 0, 1, Nums(<<70000>>)), Array(<<1>>, 0, 1, Nums(<<7>>)), One(<<8>>, <<Num(5)>>)}
  \cup {Open(<<1>>, 1, Each(<<Str(S), Str(T)>>)), Open(<<1>>, 1, Each(<<Str(T), Num(0), Str(T)>>)),
        Array(<<1>>, 1, 2, Each(<<Num(0), Str(S)>>)), Array(<<4>>, 2, 2, Nums(<<0, 0>>))}
  \cup {Open(<<8, 4>>, 0, <<<<Str(S), Num(1)>>, <<Str(T), Num(-1)>>>>),
        Open(<<8, 4>>, 0, <<<<Str(S)>>, <<Str(T)>>>>),
        Open(<<4, 4>>, 0, <<<<Num(1), Num(2)>>, <<Num(3), Num(4)>>>>),
        Open(<<8, 8>>, 0, <<<<Str(S), Str(T)>>>>),
        One(<<4, 4, 4>>, <<Num(1), Num(2), Num(3)>>), One(<<8, 4>>, <<Str(S), Num(9)>>)}

Literal(s)   == [u |-> "str", x |-> <<"", 0>>, s |-> s]
Uses(u, f, i) == [u |-> u, x |-> <<f, i>>, s |-> <<>>]
Bodies ==
  {<<>>, <<Literal(T)>>,
   <<Uses("var", "x", 1), Literal(S), Uses("call", "f", 1)>>,
   <<Literal(S), Uses("call", "f", 2), Uses("call", "g", 1)>>}
FileOf(ds, us) ==
  [vars  |-> [i \in DOMAIN ds |-> [ds[i] EXCEPT !.name = <<"x", i>>]],
   funcs |-> [i \in DOMAIN us |-> [name |-> <<"f", i>>, uses |-> us[i]]]]
Files == {FileOf(ds, us) : ds \in TupleOf(Declarations, 1) \cup TupleOf(Declarations, 2),
                           us \in TupleOf(Bodies, 1) \cup TupleOf(Bodies, 2)}

-----------------------------------------------------------------------------
(* Initialisers whose image is not that of C, and functions whose last     *)
(* reference gets no relocation.                                           *)
FilesOf(d)      == {FileOf(<<d, Plain(<<4>>, 0, "scalar")>>, <<<<>>>>)}
NegativeLong    == FilesOf(Array(<<8>>, 0, 2, Nums(<<1, -1>>)))
LongMember      == FilesOf(Open(<<8, 4>>, 0, <<<<Num(1), Num(2)>>>>))
CharMembers     == FilesOf(Open(<<1, 1>>, 0, <<<<Num(1), Num(2)>>, <<Num(3), Num(4)>>>>))
PointerAligned  == FilesOf(Open(<<4, 8>>, 0, <<<<Num(1), Str(S)>>>>))
SomeElements    == FilesOf(Array(<<4>>, 0, 3, Nums(<<1, 2>>)))
SomeMembers     == FilesOf(Open(<<8, 4>>, 0, <<<<Str(S), Num(1)>>, <<Str(T)>>>>))
TwoDimensions   == FilesOf(Var(<<4>>, 0, 2, 2, TRUE, FALSE, "list",
                               <<<<Num(1), Num(2)>>, <<Num(3), Num(4)>>>>))
Calls(n)        == [i \in 1 .. n |-> Uses("call", "f", 1)]
RelocsFull      == {FileOf(<<>>, <<Calls(MAX_RELS) \o <<Literal(S)>>>>)}
=============================================================================
