------------------------------ MODULE NamesProofs ------------------------------
(***************************************************************************)
(* For every file: the types, that the slots of a function's locals are    *)
(* disjoint and inside its frame, that symbols keep their numbers, that    *)
(* both passes number the blocks of a function alike, what the symbols of  *)
(* a file and the calls against them are in the end, that what the         *)
(* prologue stores for the function is what it loads later, and, of every  *)
(* file of which C and the compiler agree, that a read of a variable finds *)
(* what its last write left.                                               *)
(***************************************************************************)
EXTENDS NamesAsC, FiniteSetTheorems, WellFoundedInduction, TLAPS

(* In the first pass there is no hidden pointer yet, so the frame consists *)
(* of the slots collected and nothing else.                                *)
NoHiddenYet == phase = "collect" => hidden = 0
NamesInv == file \in Files /\ TypeOK /\ SlotsDisjoint /\ NoHiddenYet

(* An aligned offset is a number. *)
LEMMA Aligned == ASSUME NEW n \in Nat PROVE Align8(n) \in Nat
BY DEF Align8

(* A nonempty set of natural numbers has a least element. *)
LEMMA HasMin ==
  ASSUME NEW S, S \subseteq Nat, S # {}
  PROVE  MinOf(S) \in S /\ \A y \in S : MinOf(S) <= y
<1> DEFINE R == {ss \in Nat \X Nat : ss[1] < ss[2]}
<1>1. IsWellFoundedOn(R, Nat)
  BY NatLessThanWellFounded DEF OpToRel
<1>2. \A x, y \in Nat : <<y, x>> \in R <=> y < x
  OBVIOUS
<1> HIDE DEF R
<1>3. PICK x \in S : \A y \in S : ~ (<<y, x>> \in R)
  BY <1>1, WFMin, Zenon
<1>4. \A y \in S : x <= y
  <2> TAKE y \in S
  <2>1. x \in Nat /\ y \in Nat
    OBVIOUS
  <2>2. ~ (y < x)
    BY <1>2, <1>3, <2>1, Zenon
  <2> QED
    BY <2>1, <2>2
<1> QED
  BY <1>4 DEF MinOf

(* A nonempty set of numbers up to n has a greatest element. *)
LEMMA HasMax ==
  ASSUME NEW n \in Nat, NEW S, S \subseteq 1 .. n, S # {}
  PROVE  MaxOf(S) \in S /\ \A y \in S : y <= MaxOf(S)
<1> DEFINE T == {n - x : x \in S}
<1>1. T \subseteq Nat /\ T # {}
  <2>1. \A x \in S : x \in 1 .. n
    OBVIOUS
  <2>2. \A x \in S : n - x \in Nat
    BY <2>1
  <2>3. PICK x \in S : TRUE
    OBVIOUS
  <2>4. n - x \in T
    BY <2>3
  <2> QED
    BY <2>2, <2>4
<1>2. MinOf(T) \in T /\ \A y \in T : MinOf(T) <= y
  <2> HIDE DEF T
  <2> QED
    BY <1>1, HasMin
<1>3. PICK x \in S : MinOf(T) = n - x
  BY <1>2
<1>4. \A y \in S : y <= x
  <2> TAKE y \in S
  <2>1. n - x <= n - y
    BY <1>2, <1>3
  <2>2. x \in Nat /\ y \in Nat
    OBVIOUS
  <2> QED
    BY <2>1, <2>2
<1> QED
  BY <1>4 DEF MaxOf

-----------------------------------------------------------------------------
(* One sequence behind another. *)
LEMMA Joined ==
  ASSUME NEW T, NEW s \in Seq(T), NEW t \in Seq(T)
  PROVE  /\ s \o t \in Seq(T)
         /\ Len(s \o t) = Len(s) + Len(t)
OBVIOUS

LEMMA JoinedFront ==
  ASSUME NEW T, NEW s \in Seq(T), NEW t \in Seq(T), NEW p \in 1 .. Len(s)
  PROVE  (s \o t)[p] = s[p]
OBVIOUS

LEMMA JoinedBehind ==
  ASSUME NEW T, NEW s \in Seq(T), NEW t \in Seq(T), NEW p \in 1 .. Len(t)
  PROVE  (s \o t)[Len(s) + p] = t[p]
OBVIOUS

(* What the items of a function are. *)
LEMMA BodyFacts ==
  ASSUME NEW f \in FuncDecls
  PROVE  /\ Body(f) \in Seq(Items) /\ Body(f)[1].k = "open"
         /\ Len(f.params) \in Nat /\ DOMAIN f.params = 1 .. Len(f.params)
         /\ \A p \in DOMAIN f.params :
              /\ f.params[p].name \in STRING
              /\ p + 1 \in 1 .. Len(Body(f))
              /\ Body(f)[p + 1] = Param(f.params[p])
<1> DEFINE ps == f.params
           P  == [name : STRING, size : Size]
           opening == <<[k |-> "open"]>>
           closing == <<[k |-> "close"]>>
           declared == [p \in DOMAIN ps |-> Param(ps[p])]
<1>1. ps \in Seq(P) /\ f.items \in Seq(Items)
  BY DEF FuncDecls
<1>2. opening \in Seq(Items) /\ closing \in Seq(Items) /\ Len(opening) = 1
  BY DEF Items
<1>3. \A r \in P : Param(r) \in Items /\ r.name \in STRING
  <2> TAKE r \in P
  <2>1. r.name \in STRING /\ r.size \in Size
    OBVIOUS
  <2>2. Param(r) \in [k : {"decl", "static"}, name : STRING, size : Size, init : BOOLEAN]
    BY <2>1 DEF Param
  <2> QED
    BY <2>1, <2>2 DEF Items
<1>4. Body(f) = opening \o declared \o f.items \o closing
  BY DEF Body
<1> HIDE DEF P, ps
<1>5. /\ \A p \in DOMAIN ps : ps[p] \in P
      /\ DOMAIN ps = 1 .. Len(ps) /\ Len(ps) \in Nat
  BY <1>1
<1>6. declared \in Seq(Items) /\ Len(declared) = Len(ps)
  BY <1>3, <1>5
<1>7. \A p \in DOMAIN ps : declared[p] = Param(ps[p])
  OBVIOUS
<1> HIDE DEF opening, closing, declared
<1> DEFINE front == opening \o declared
<1>8. /\ front \in Seq(Items) /\ Len(front) = 1 + Len(ps)
      /\ \A p \in 1 .. Len(ps) : front[1 + p] = declared[p]
  <2>1. front \in Seq(Items) /\ Len(front) = Len(opening) + Len(declared)
    BY <1>2, <1>6, Joined, Zenon
  <2>2. \A p \in 1 .. Len(declared) : front[Len(opening) + p] = declared[p]
    BY <1>2, <1>6, JoinedBehind, Zenon
  <2>3. \A p \in 1 .. Len(ps) : front[1 + p] = declared[p]
    BY <1>2, <1>6, <2>2, Zenon
  <2> QED
    BY <1>2, <1>6, <2>1, <2>3
<1> HIDE DEF front
<1>9. /\ front \o f.items \in Seq(Items)
      /\ Len(front \o f.items) = Len(front) + Len(f.items)
      /\ \A p \in 1 .. Len(front) : (front \o f.items)[p] = front[p]
  <2>1. \A p \in 1 .. Len(front) : (front \o f.items)[p] = front[p]
    BY <1>1, <1>8, JoinedFront, Zenon
  <2> QED
    BY <1>1, <1>8, <2>1, Joined, Zenon
<1> DEFINE most == front \o f.items
<1>10. /\ most \in Seq(Items) /\ Len(most) = 1 + Len(ps) + Len(f.items)
       /\ \A p \in 1 .. 1 + Len(ps) : most[p] = front[p]
       /\ Len(f.items) \in Nat
  BY <1>1, <1>8, <1>9
<1>13. Body(f) = most \o closing
  BY <1>4 DEF front
<1> HIDE DEF most
<1>11. /\ Body(f) \in Seq(Items) /\ Len(Body(f)) = Len(most) + Len(closing)
       /\ \A p \in 1 .. Len(most) : Body(f)[p] = most[p]
  <2>1. \A p \in 1 .. Len(most) : Body(f)[p] = most[p]
    <3>1. closing \in Seq(Items) /\ most \in Seq(Items)
      BY <1>2, <1>10
    <3> QED
      BY <1>13, <3>1, JoinedFront, Zenon
  <2> QED
    BY <1>2, <1>10, <1>13, <2>1, Joined, Zenon
<1>12. ASSUME NEW p \in DOMAIN ps
       PROVE  /\ ps[p].name \in STRING
              /\ p + 1 \in 1 .. Len(Body(f)) /\ Body(f)[p + 1] = Param(ps[p])
  <2>0. /\ Len(closing) \in Nat /\ Len(f.items) \in Nat /\ Len(ps) \in Nat
        /\ Len(most) = 1 + Len(ps) + Len(f.items)
        /\ Len(Body(f)) = Len(most) + Len(closing)
        /\ p \in 1 .. Len(ps)
    <3>1. Len(closing) \in Nat
      BY <1>2
    <3> QED
      BY <1>5, <1>10, <1>11, <1>12, <3>1, Zenon
  <2>1. /\ p + 1 \in 1 .. 1 + Len(ps) /\ p + 1 \in 1 .. Len(most)
        /\ p + 1 \in 1 .. Len(Body(f)) /\ p \in 1 .. Len(ps) /\ p + 1 = 1 + p
    <3> DEFINE x == Len(ps)
               y == Len(f.items)
               z == Len(closing)
               u == Len(most)
               v == Len(Body(f))
    <3>1. /\ x \in Nat /\ y \in Nat /\ z \in Nat /\ u = 1 + x + y /\ v = u + z
          /\ p \in 1 .. x
      BY <2>0, Zenon
    <3> HIDE DEF x, y, z, u, v
    <3>2. /\ p + 1 \in 1 .. 1 + x /\ p + 1 \in 1 .. u
          /\ p + 1 \in 1 .. v /\ p + 1 = 1 + p
      BY <3>1
    <3> QED
      BY <2>0, <3>2 DEF x, u, v
  <2>2. /\ Body(f)[p + 1] = most[p + 1] /\ most[p + 1] = front[p + 1]
        /\ front[1 + p] = declared[p]
    <3>1. Body(f)[p + 1] = most[p + 1]
      BY <1>11, <2>1, Zenon
    <3>2. most[p + 1] = front[p + 1]
      BY <1>10, <2>1, Zenon
    <3>3. front[1 + p] = declared[p]
      BY <1>8, <2>1, Zenon
    <3> QED
      BY <3>1, <3>2, <3>3, Zenon
  <2>3. Body(f)[p + 1] = Param(ps[p])
    BY <1>7, <2>1, <2>2, Zenon
  <2> QED
    BY <1>3, <1>5, <2>1, <2>3, Zenon
<1>14. Body(f)[1].k = "open"
  <2>1. opening[1].k = "open" /\ Len(opening) = 1 /\ opening \in Seq(Items)
    BY <1>2 DEF opening
  <2>2. front[1] = opening[1]
    <3>1. 1 \in 1 .. Len(opening)
      BY <2>1
    <3>2. \A p \in 1 .. Len(opening) : (opening \o declared)[p] = opening[p]
      BY <1>2, <1>6, JoinedFront, Zenon
    <3> QED
      BY <3>1, <3>2, Zenon DEF front
  <2>3. 1 \in 1 .. 1 + Len(ps) /\ 1 \in 1 .. Len(most)
    <3> DEFINE x == Len(ps)
               y == Len(f.items)
    <3>1. x \in Nat /\ y \in Nat /\ Len(most) = 1 + x + y
      BY <1>5, <1>10
    <3> HIDE DEF x, y
    <3>2. 1 \in 1 .. 1 + x /\ 1 \in 1 .. 1 + x + y
      BY <3>1
    <3> QED
      BY <3>1, <3>2 DEF x
  <2>4. most[1] = front[1] /\ Body(f)[1] = most[1]
    BY <1>10, <1>11, <2>3, Zenon
  <2> QED
    BY <2>1, <2>2, <2>4
<1> QED
  BY <1>5, <1>11, <1>12, <1>14 DEF ps

(* What the declarations of a file are. *)
Used == {"decl", "static", "get", "set", "call"}
LEMMA FilesHave ==
  \A f \in Files :
    /\ Len(f) \in Nat /\ DOMAIN f = 1 .. Len(f)
    /\ \A x \in DOMAIN f :
         /\ f[x].k \in {"var", "func"}
         /\ f[x].name \in STRING /\ f[x].static \in BOOLEAN
         /\ f[x].k = "var" => f[x].size \in Nat \ {0}
         /\ f[x].k = "func" =>
              /\ f[x] \in FuncDecls
              /\ Len(Body(f[x])) \in Nat
              /\ \A p \in 1 .. Len(Body(f[x])) :
                LET b == Body(f[x])[p]
                IN  /\ b.k \in Used => b.name \in STRING
                    /\ b.k \in {"decl", "static"} => b.size \in Nat \ {0}
<1> SUFFICES ASSUME NEW f \in Files
             PROVE  /\ Len(f) \in Nat /\ DOMAIN f = 1 .. Len(f)
                    /\ \A x \in DOMAIN f :
                         /\ f[x].k \in {"var", "func"}
                         /\ f[x].name \in STRING /\ f[x].static \in BOOLEAN
                         /\ f[x].k = "var" => f[x].size \in Nat \ {0}
                         /\ f[x].k = "func" =>
                              /\ f[x] \in FuncDecls
                              /\ Len(Body(f[x])) \in Nat
                              /\ \A p \in 1 .. Len(Body(f[x])) :
                                LET b == Body(f[x])[p]
                                IN  /\ b.k \in Used => b.name \in STRING
                                    /\ b.k \in {"decl", "static"} => b.size \in Nat \ {0}
  OBVIOUS
<1>1. f \in Seq(VarDecls \cup FuncDecls)
  BY FilesAssumption
<1>2. ASSUME NEW x \in DOMAIN f
      PROVE  /\ f[x].k \in {"var", "func"}
             /\ f[x].name \in STRING /\ f[x].static \in BOOLEAN
             /\ f[x].k = "var" => f[x].size \in Nat \ {0}
             /\ f[x].k = "func" => f[x] \in FuncDecls
  <2>1. f[x] \in VarDecls \cup FuncDecls
    BY <1>1
  <2> QED
    BY <2>1 DEF VarDecls, FuncDecls, Size
<1>3. ASSUME NEW x \in DOMAIN f, f[x] \in FuncDecls
      PROVE  /\ Len(Body(f[x])) \in Nat
             /\ \A p \in 1 .. Len(Body(f[x])) :
                  /\ Body(f[x])[p].k \in Used => Body(f[x])[p].name \in STRING
                  /\ Body(f[x])[p].k \in {"decl", "static"} => Body(f[x])[p].size \in Nat \ {0}
  <2>1. Body(f[x]) \in Seq(Items)
    BY <1>3, BodyFacts
  <2>2. \A p \in 1 .. Len(Body(f[x])) : Body(f[x])[p] \in Items
    BY <2>1
  <2>3. \A it \in Items : /\ it.k \in Used => it.name \in STRING
                          /\ it.k \in {"decl", "static"} => it.size \in Nat \ {0}
    BY DEF Items, Used, Size
  <2> QED
    BY <2>1, <2>2, <2>3
<1>4. /\ Len(f) \in Nat /\ DOMAIN f = 1 .. Len(f)
  BY <1>1
<1> QED
  BY <1>2, <1>3, <1>4, Zenon

-----------------------------------------------------------------------------
(* Facts about a state that has its types. *)

(* The declaration being compiled, and the item it is at. *)
LEMMA DeclFacts ==
  ASSUME file \in Files, d \in DOMAIN file
  PROVE  /\ Decl.k \in {"var", "func"}
         /\ Decl.name \in STRING /\ Decl.static \in BOOLEAN
         /\ Decl.k = "var" => Decl.size \in Nat \ {0}
BY FilesHave DEF Decl

(* What the items of a function hold. *)
LEMMA ItemFacts ==
  ASSUME file \in Files, d \in DOMAIN file, Decl.k = "func",
         i \in 1 .. Len(Body(Decl))
  PROVE  /\ Len(Body(Decl)) \in Nat
         /\ Item.k \in Used => Item.name \in STRING
         /\ Item.k \in {"decl", "static"} => Item.size \in Nat \ {0}
<1>1. Decl.k = file[d].k /\ Body(Decl) = Body(file[d]) /\ Item = Body(file[d])[i]
  BY DEF Decl, Item
<1> QED
  BY <1>1, FilesHave, Zenon

(* What the slot of a local variable holds. *)
LEMMA LocalFacts ==
  ASSUME locals \in Seq(Locals), NEW l \in DOMAIN locals
  PROVE  locals[l].offset \in Int /\ locals[l].size \in Nat
<1>1. locals[l] \in Locals
  OBVIOUS
<1> QED
  BY <1>1 DEF Locals

(* The first undefined symbol of a name is one of the table's. *)
LEMMA WaitingLeast ==
  ASSUME syms \in Seq(Symbols), NEW n, Waiting(n) # {}
  PROVE  /\ MinOf(Waiting(n)) \in DOMAIN syms
         /\ syms[MinOf(Waiting(n))].sect = "undef"
<1>1. Waiting(n) \subseteq Nat
  BY DEF Waiting, Named
<1>2. MinOf(Waiting(n)) \in Waiting(n)
  BY <1>1, HasMin, Zenon
<1> QED
  BY <1>2 DEF Waiting, Named

(* A table of symbols, with the numbers they have kept. *)
Grown(t) == /\ t \in Seq(Symbols)
            /\ \A s \in DOMAIN syms :
                 /\ s \in DOMAIN t
                 /\ t[s].name = syms[s].name
                 /\ syms[s].sect # "undef" => t[s] = syms[s]

(* A symbol appended, *)
LEMMA GrownByAppend ==
  ASSUME syms \in Seq(Symbols), NEW e \in Symbols
  PROVE  /\ Grown(Append(syms, e))
         /\ Len(Append(syms, e)) = Len(syms) + 1
BY DEF Grown

(* a function defined *)
LEMMA GrownByAddSym ==
  ASSUME syms \in Seq(Symbols), NEW n \in STRING, NEW glob \in BOOLEAN
  PROVE  /\ Grown(AddSym(n, glob))
         /\ Len(AddSym(n, glob)) = IF Waiting(n) # {} THEN Len(syms) ELSE Len(syms) + 1
<1>1. CASE Waiting(n) # {}
  <2> DEFINE m == MinOf(Waiting(n))
             t == [syms EXCEPT ![m].sect = "text"]
  <2>1. m \in DOMAIN syms /\ syms[m].sect = "undef"
    BY <1>1, WaitingLeast
  <2> HIDE DEF m
  <2>2. syms[m] \in Symbols
    BY <2>1
  <2>3. [syms[m] EXCEPT !.sect = "text"] \in Symbols
    BY <2>2 DEF Symbols
  <2>4. t \in Seq(Symbols) /\ Len(t) = Len(syms) /\ DOMAIN t = DOMAIN syms
    BY <2>1, <2>3
  <2>5. \A s \in DOMAIN syms : t[s] = IF s = m THEN [syms[m] EXCEPT !.sect = "text"]
                                      ELSE syms[s]
    BY <2>1
  <2>6. [syms[m] EXCEPT !.sect = "text"].name = syms[m].name
    BY <2>2 DEF Symbols
  <2>7. AddSym(n, glob) = t
    BY <1>1 DEF AddSym, m
  <2> QED
    BY <1>1, <2>1, <2>4, <2>5, <2>6, <2>7 DEF Grown
<1>2. CASE Waiting(n) = {}
  <2>1. Symbol(n, "text", Len(syms), 0, glob) \in Symbols
    BY DEF Symbol, Symbols
  <2> QED
    BY <1>2, <2>1, GrownByAppend DEF AddSym
<1> QED
  BY <1>1, <1>2

(* and a name referred to leave the other symbols as they are. *)
LEMMA GrownByReference ==
  ASSUME syms \in Seq(Symbols), Len(syms) <= MaxSyms, NEW n \in STRING, ~NoRoomFor(n)
  PROVE  Grown(WithSymbol(n)) /\ Len(WithSymbol(n)) <= MaxSyms
<1>1. Undefined(n) \in Symbols
  BY DEF Undefined, Symbol, Symbols
<1>2. Grown(syms)
  BY DEF Grown
<1>3. CASE Named(n) = {}
  <2>1. Len(syms) + 1 <= MaxSyms
    BY <1>3, NamesLimits DEF NoRoomFor
  <2> QED
    BY <1>1, <1>3, <2>1, GrownByAppend DEF WithSymbol
<1>4. CASE Named(n) # {}
  BY <1>2, <1>4 DEF WithSymbol
<1> QED
  BY <1>3, <1>4
-----------------------------------------------------------------------------
(* The steps. *)

frame == <<locals, frameSize, hidden>>

(* Slots stay disjoint when the frame is not touched. *)
LEMMA SlotsUnchanged ==
  ASSUME SlotsDisjoint, UNCHANGED frame
  PROVE  SlotsDisjoint'
BY DEF SlotsDisjoint, frame

(* A full table ends the compiler and changes nothing. *)
LEMMA ExitStep ==
  ASSUME NamesInv, Exit
  PROVE  NamesInv' /\ Grown(syms')
<1>1. SlotsDisjoint'
  BY SlotsUnchanged DEF NamesInv, Exit, frameVars, frame
<1>2. Grown(syms')
  BY DEF NamesInv, TypeOK, Exit, Grown
<1> QED
  BY <1>1, <1>2 DEF NamesInv, TypeOK, NoHiddenYet, Exit, frameVars, Decl

(* Between the functions of a file. *)
LEMMA FileSteps ==
  ASSUME NamesInv,
         GlobalVar \/ SkipFunction \/ Functions \/ SkipVar \/ Compiled \/ StartFunction
  PROVE  NamesInv' /\ Grown(syms')
<1> USE DEF NamesInv
<1>0. Grown(syms) /\ Len(file) \in Nat /\ DOMAIN file = 1 .. Len(file)
  BY FilesHave DEF TypeOK, Grown
<1>1. CASE GlobalVar
  <2> DEFINE sect == IF Decl.init THEN "data" ELSE "bss"
             off  == Align8(size[sect])
             e    == Symbol(Decl.name, sect, off, Decl.size, ~Decl.static)
  <2>1. CASE Exit
    BY <2>1, ExitStep
  <2>2. CASE ~Exit
    <3>1. /\ phase = "globals" /\ d <= Len(file) /\ ~(Len(syms) >= MaxSyms)
          /\ syms' = Append(syms, e)
          /\ size' = [size EXCEPT ![sect] = off + Decl.size]
          /\ d' = d + 1
          /\ UNCHANGED <<file, phase, i, frameVars, chain, nextId, code>>
          /\ Decl.k = "var"
      BY <1>1, <2>2 DEF GlobalVar
    <3>2. sect \in {"data", "bss"} /\ d \in DOMAIN file
      BY <1>0, <3>1 DEF TypeOK
    <3>3. Decl.size \in Nat /\ Decl.name \in STRING /\ Decl.static \in BOOLEAN
      BY <3>1, <3>2, DeclFacts
    <3>4. off \in Nat
      BY <3>2, Aligned DEF TypeOK
    <3>5. e \in Symbols
      BY <3>2, <3>3, <3>4 DEF Symbol, Symbols
    <3>6. size' \in [{"data", "bss"} -> Nat]
      <4> HIDE DEF sect, off
      <4> QED
        BY <3>1, <3>2, <3>3, <3>4, SMTT(20) DEF TypeOK
    <3>7. Grown(syms') /\ Len(syms') <= MaxSyms
      <4> HIDE DEF e
      <4> QED
        BY <3>1, <3>5, GrownByAppend, NamesLimits DEF TypeOK
    <3>8. SlotsDisjoint'
      BY <3>1, SlotsUnchanged DEF frameVars, frame
    <3> HIDE DEF e
    <3> QED
      BY <1>0, <3>1, <3>2, <3>6, <3>7, <3>8 DEF TypeOK, NoHiddenYet, Grown, frameVars
  <2> QED
    BY <2>1, <2>2
<1>2. CASE SkipFunction
  BY <1>0, <1>2, SlotsUnchanged DEF SkipFunction, TypeOK, NoHiddenYet, frameVars, frame, Grown
<1>3. CASE Functions
  <2>1. CASE Exit
    BY <2>1, ExitStep
  <2>2. CASE ~Exit
    BY <1>0, <1>3, <2>2, SlotsUnchanged, SMTT(20)
       DEF Functions, TypeOK, NoHiddenYet, frameVars, frame, Grown
  <2> QED
    BY <2>1, <2>2
<1>4. CASE SkipVar
  BY <1>0, <1>4, SlotsUnchanged DEF SkipVar, TypeOK, NoHiddenYet, frameVars, frame, Grown
<1>5. CASE Compiled
  BY <1>0, <1>5, SlotsUnchanged DEF Compiled, TypeOK, NoHiddenYet, frameVars, frame, Grown
<1>6. CASE StartFunction
  <2>1. locals' = <<>> /\ frameSize' = 0 /\ chain' = <<>> /\ hidden' = 0
    BY <1>6 DEF StartFunction
  <2>2. SlotsDisjoint'
    BY <2>1 DEF SlotsDisjoint
  <2>3. locals' \in Seq(Locals) /\ Len(locals') <= MaxLocals
        /\ chain' \in Seq(Nat) /\ Len(chain') <= MaxScopeIds
    BY <2>1, NamesLimits
  <2> QED
    BY <1>0, <1>6, <2>1, <2>2, <2>3 DEF StartFunction, TypeOK, NoHiddenYet, Grown, Decl
<1> QED
  BY <1>1, <1>2, <1>3, <1>4, <1>5, <1>6

(* A block ends. *)
LEMMA CloseStep ==
  ASSUME NamesInv, CloseBlock, i >= 1
  PROVE  NamesInv' /\ Grown(syms')
<1> USE DEF NamesInv
<1>1. chain' \in Seq(Nat) /\ Len(chain') <= MaxScopeIds
  <2>1. CASE Len(chain) = 0
    BY <2>1, NamesLimits DEF CloseBlock, TypeOK
  <2>2. CASE Len(chain) > 0
    BY <2>2, NamesLimits, SMTT(20) DEF CloseBlock, TypeOK
  <2> QED
    BY <2>1, <2>2 DEF TypeOK
<1>2. SlotsDisjoint' /\ Grown(syms')
  BY SlotsUnchanged DEF CloseBlock, TypeOK, frameVars, frame, Grown
<1> QED
  BY <1>1, <1>2 DEF CloseBlock, TypeOK, NoHiddenYet, frameVars, Decl

(* Pass one. *)
LEMMA CollectSteps ==
  ASSUME NamesInv,
         CollectOpen \/ CollectClose \/ CollectDecl \/ CollectStatic \/ CollectOther
  PROVE  NamesInv' /\ Grown(syms')
<1> USE DEF NamesInv
<1>0. /\ phase = "collect" /\ i \in 1 .. Len(Body(Decl))
      /\ d \in DOMAIN file /\ Decl.k = "func" /\ hidden = 0
      /\ Grown(syms)
  <2>1. phase = "collect" /\ i <= Len(Body(Decl))
    BY DEF CollectOpen, CollectClose, CollectDecl, CollectStatic, CollectOther, Collecting
  <2>2. d \in DOMAIN file /\ Decl.k = "func"
    BY <2>1, FilesHave DEF TypeOK
  <2>3. Len(Body(Decl)) \in Nat
    BY <2>2, FilesHave DEF Decl
  <2> QED
    BY <2>1, <2>2, <2>3 DEF TypeOK, NoHiddenYet, Grown
<1>1. CASE CollectOpen
  <2>1. CASE Exit
    BY <2>1, ExitStep
  <2>2. CASE ~Exit
    <3>1. /\ ~(Len(chain) >= MaxScopeIds)
          /\ nextId' = nextId + 1 /\ chain' = Append(chain, nextId + 1) /\ i' = i + 1
          /\ UNCHANGED <<file, phase, d, frameVars, syms, size, code>>
      BY <1>1, <2>2 DEF CollectOpen
    <3>2. chain' \in Seq(Nat) /\ Len(chain') <= MaxScopeIds
      BY <3>1, NamesLimits DEF TypeOK
    <3>3. SlotsDisjoint'
      BY <3>1, SlotsUnchanged DEF frameVars, frame
    <3> QED
      BY <1>0, <3>1, <3>2, <3>3 DEF TypeOK, NoHiddenYet, frameVars, Grown, Decl
  <2> QED
    BY <2>1, <2>2
<1>2. CASE CollectClose
  BY <1>0, <1>2, CloseStep DEF CollectClose
<1>3. CASE CollectDecl
  <2>1. CASE Exit
    BY <2>1, ExitStep
  <2>2. CASE ~Exit
    <3>1. /\ Item.k = "decl" /\ ~(Len(locals) >= MaxLocals)
          /\ locals' = Append(locals, Slot(Item))
          /\ frameSize' = frameSize + Item.size
          /\ i' = i + 1
          /\ UNCHANGED <<file, phase, d, chain, nextId, hidden, saveArea, syms, size, code>>
      BY <1>3, <2>2 DEF CollectDecl
    <3>2. Item.size \in Nat \ {0} /\ Item.name \in STRING
      BY <1>0, <3>1, ItemFacts DEF Used
    <3>3. ScopeId \in Nat
      BY DEF ScopeId, TypeOK
    <3> DEFINE e == Slot(Item)
    <3>4. /\ e \in Locals
          /\ e.offset = -(frameSize + Item.size) /\ e.size = Item.size
      BY <3>2, <3>3 DEF Slot, Locals, TypeOK
    <3>5. frameSize \in Nat /\ locals \in Seq(Locals)
      BY DEF TypeOK
    <3> HIDE DEF e
    <3>6. /\ locals' \in Seq(Locals) /\ Len(locals') = Len(locals) + 1
          /\ \A l \in DOMAIN locals : locals'[l] = locals[l]
          /\ locals'[Len(locals) + 1] = e
          /\ DOMAIN locals' = 1 .. Len(locals) + 1
      BY <3>1, <3>4, <3>5 DEF e
    <3>7. SlotsDisjoint'
      <4> SUFFICES ASSUME NEW l \in DOMAIN locals'
                   PROVE  /\ -frameSize' <= locals'[l].offset
                          /\ locals'[l].offset + locals'[l].size <= 0
                          /\ \A m \in 1 .. l - 1 :
                               locals'[l].offset + locals'[l].size <= locals'[m].offset
        BY <1>0, <3>1 DEF SlotsDisjoint
      <4>1. \A m \in DOMAIN locals :
              /\ locals[m].offset \in Int /\ locals[m].size \in Nat
              /\ -frameSize <= locals[m].offset
              /\ locals[m].offset + locals[m].size <= 0
        BY <3>5, LocalFacts DEF SlotsDisjoint
      <4>2. CASE l = Len(locals) + 1
        <5>1. /\ locals'[l] = e /\ 1 .. l - 1 = DOMAIN locals
              /\ -frameSize' = -(frameSize + Item.size)
              /\ e.offset + e.size = -frameSize
          BY <3>1, <3>2, <3>4, <3>5, <3>6, <4>2
        <5>2. \A m \in 1 .. l - 1 : -frameSize <= locals'[m].offset
          BY <3>6, <4>1, <5>1
        <5> QED
          BY <3>2, <3>4, <3>5, <5>1, <5>2
      <4>3. CASE l \in DOMAIN locals
        <5>1. \A m \in 1 .. l - 1 : m \in DOMAIN locals
          BY <3>5, <4>3
        <5>2. \A m \in 1 .. l - 1 : locals[l].offset + locals[l].size <= locals[m].offset
          BY <4>3 DEF SlotsDisjoint
        <5> QED
          BY <3>1, <3>2, <3>5, <3>6, <4>1, <4>3, <5>1, <5>2, SMTT(20)
      <4> QED
        BY <3>5, <3>6, <4>2, <4>3
    <3>8. Len(locals') <= MaxLocals /\ frameSize' \in Nat
      BY <3>1, <3>2, <3>5, <3>6, NamesLimits
    <3> QED
      BY <1>0, <3>1, <3>6, <3>7, <3>8 DEF TypeOK, NoHiddenYet, Grown, Decl
  <2> QED
    BY <2>1, <2>2
<1>4. CASE CollectStatic
  <2>1. CASE Exit
    BY <2>1, ExitStep
  <2>2. CASE ~Exit
    <3> DEFINE off == Align8(size.bss)
               e   == Symbol(Item.name, "bss", off, Item.size, FALSE)
    <3>1. /\ Item.k = "static" /\ ~(Len(syms) >= MaxSyms)
          /\ syms' = Append(syms, e)
          /\ size' = [size EXCEPT !.bss = Align8(@) + Item.size]
          /\ i' = i + 1
          /\ UNCHANGED <<file, phase, d, frameVars, chain, nextId, code>>
      BY <1>4, <2>2 DEF CollectStatic
    <3>2. Item.size \in Nat /\ Item.name \in STRING
      BY <1>0, <3>1, ItemFacts DEF Used
    <3>3. off \in Nat
      BY Aligned DEF TypeOK
    <3>4. e \in Symbols
      BY <3>2, <3>3 DEF Symbol, Symbols
    <3>5. size' \in [{"data", "bss"} -> Nat]
      <4>1. size' = [size EXCEPT !.bss = off + Item.size] /\ off + Item.size \in Nat
        BY <3>1, <3>2, <3>3
      <4> HIDE DEF off
      <4> QED
        BY <4>1 DEF TypeOK
    <3>6. Grown(syms') /\ Len(syms') <= MaxSyms
      <4> HIDE DEF e
      <4> QED
        BY <3>1, <3>4, GrownByAppend, NamesLimits, SMTT(20) DEF TypeOK
    <3>7. SlotsDisjoint'
      BY <3>1, SlotsUnchanged DEF frameVars, frame
    <3>8. /\ phase' = "collect" /\ i' = i + 1 /\ d' = d /\ file' = file
          /\ UNCHANGED <<frameVars, chain, nextId>>
      BY <1>0, <3>1
    <3> HIDE DEF e
    <3> QED
      BY <1>0, <3>5, <3>6, <3>7, <3>8 DEF TypeOK, NoHiddenYet, Grown, frameVars, Decl
  <2> QED
    BY <2>1, <2>2
<1>5. CASE CollectOther
  BY <1>0, <1>5, SlotsUnchanged
     DEF CollectOther, TypeOK, NoHiddenYet, frameVars, frame, Grown, Decl
<1> QED
  BY <1>1, <1>2, <1>3, <1>4, <1>5

(* The prologue makes room below the slots. *)
LEMMA PrologueStep ==
  ASSUME NamesInv, Prologue
  PROVE  NamesInv' /\ Grown(syms')
<1> USE DEF NamesInv
<1> DEFINE withHidden == frameSize + (IF Decl.big THEN 8 ELSE 0)
           all        == WithSaveArea(withHidden)
<1>1. /\ phase = "collect" /\ phase' = "generate" /\ i' = 1
      /\ frameSize' = all
      /\ hidden' = IF Decl.big THEN -withHidden ELSE 0
      /\ saveArea' = IF Decl.variadic THEN -all ELSE 0
      /\ chain' = <<>> /\ nextId' = 0
      /\ UNCHANGED <<file, d, locals, syms, size>>
  BY DEF Prologue
<1>2. /\ frameSize \in Nat /\ withHidden \in Nat /\ frameSize <= withHidden
      /\ Decl.big => withHidden = frameSize + 8
  BY DEF TypeOK
<1> HIDE DEF withHidden
<1>3. all \in Nat /\ withHidden <= all
  BY <1>2 DEF WithSaveArea
<1> HIDE DEF all
<1>4. SlotsDisjoint'
  <2> SUFFICES ASSUME NEW l \in DOMAIN locals
               PROVE  /\ -all <= locals[l].offset
                      /\ hidden' # 0 => hidden' + 8 <= locals[l].offset
    BY <1>1 DEF SlotsDisjoint
  <2>1. locals[l].offset \in Int /\ -frameSize <= locals[l].offset
    BY LocalFacts DEF TypeOK, SlotsDisjoint
  <2> QED
    BY <1>1, <1>2, <1>3, <2>1
<1>5. hidden' \in Int /\ saveArea' \in Int
  BY <1>1, <1>2, <1>3
<1>6. chain' \in Seq(Nat) /\ Len(chain') <= MaxScopeIds
  BY <1>1, NamesLimits
<1> QED
  BY <1>1, <1>3, <1>4, <1>5, <1>6 DEF TypeOK, NoHiddenYet, Grown, Decl

(* Steps that touch neither the frame nor the scopes, and keep the symbols *)
(* or add one.                                                             *)
LEMMA UseStep ==
  ASSUME NamesInv, Next1, i >= 1, Grown(syms'), Len(syms') <= MaxSyms
  PROVE  NamesInv'
<1>1. SlotsDisjoint'
  BY SlotsUnchanged DEF NamesInv, Next1, frameVars, frame
<1> QED
  BY <1>1 DEF NamesInv, Next1, TypeOK, NoHiddenYet, frameVars, Grown, Decl

(* Pass two. *)
LEMMA GenerateSteps ==
  ASSUME NamesInv,
         GenOpen \/ GenClose \/ GenDecl \/ GenUse \/ GenCall \/ GenReturn \/ GenVa \/ GenOther
  PROVE  NamesInv' /\ Grown(syms')
<1> USE DEF NamesInv
<1>0. /\ phase = "generate" /\ i \in 1 .. Len(Body(Decl))
      /\ d \in DOMAIN file /\ Decl.k = "func"
      /\ Grown(syms) /\ Len(syms) <= MaxSyms
  <2>1. phase = "generate" /\ i <= Len(Body(Decl))
    BY DEF GenOpen, GenClose, GenDecl, GenUse, GenCall, GenReturn, GenVa, GenOther,
           Generating
  <2>2. d \in DOMAIN file /\ Decl.k = "func"
    BY <2>1, FilesHave DEF TypeOK
  <2>3. Len(Body(Decl)) \in Nat
    BY <2>2, FilesHave DEF Decl
  <2> QED
    BY <2>1, <2>2, <2>3 DEF TypeOK, Grown
<1>1. CASE GenOpen
  <2>1. /\ chain' \in Seq(Nat) /\ Len(chain') <= MaxScopeIds /\ nextId' \in Nat
    <3>1. CASE Len(chain) < MaxScopeIds
      <4>1. nextId' = nextId + 1 /\ chain' = Append(chain, nextId + 1)
        BY <1>1, <3>1 DEF GenOpen
      <4>2. chain \in Seq(Nat) /\ nextId \in Nat
        BY DEF TypeOK
      <4> QED
        BY <3>1, <4>1, <4>2, NamesLimits
    <3>2. CASE ~(Len(chain) < MaxScopeIds)
      BY <1>1, <3>2 DEF GenOpen, TypeOK
    <3> QED
      BY <3>1, <3>2
  <2>2. SlotsDisjoint'
    BY <1>1, SlotsUnchanged DEF GenOpen, frameVars, frame
  <2> QED
    BY <1>0, <1>1, <2>1, <2>2, SMTT(20) DEF GenOpen, TypeOK, NoHiddenYet, frameVars, Grown, Decl
<1>2. CASE GenClose
  BY <1>0, <1>2, CloseStep DEF GenClose
<1>3. CASE GenDecl
  <2>1. Next1 /\ syms' = syms
    BY <1>3 DEF GenDecl, Access
  <2> QED
    BY <1>0, <2>1, UseStep DEF Grown
<1>4. CASE GenUse
  <2>1. Next1 /\ Item.k \in {"get", "set"}
    BY <1>4 DEF GenUse, Access
  <2>2. CASE syms' = syms
    BY <1>0, <2>1, <2>2, UseStep DEF Grown
  <2>3. CASE syms' # syms
    <3>1. syms' = WithSymbol(Item.name) /\ ~NoRoomFor(Item.name)
      BY <1>4, <2>3 DEF GenUse, Access
    <3>2. Item.name \in STRING
      BY <1>0, <2>1, ItemFacts DEF Used
    <3> QED
      BY <1>0, <2>1, <3>1, <3>2, GrownByReference, UseStep DEF TypeOK
  <2> QED
    BY <2>2, <2>3
<1>5. CASE GenCall
  <2>1. CASE Exit
    BY <2>1, ExitStep
  <2>2. CASE ~Exit /\ syms' = syms
    <3>1. Next1
      BY <1>5, <2>2 DEF GenCall
    <3> QED
      BY <1>0, <2>2, <3>1, UseStep DEF Grown
  <2>3. CASE ~Exit /\ syms' # syms
    <3>1. Next1 /\ syms' = WithSymbol(Item.name) /\ ~NoRoomFor(Item.name)
          /\ Item.k = "call"
      BY <1>5, <2>3 DEF GenCall
    <3>2. Item.name \in STRING
      BY <1>0, <3>1, ItemFacts DEF Used
    <3> QED
      BY <1>0, <3>1, <3>2, GrownByReference, UseStep DEF TypeOK
  <2> QED
    BY <2>1, <2>2, <2>3
<1>6. CASE GenReturn \/ GenVa \/ GenOther
  <2>1. Next1 /\ syms' = syms
    BY <1>6 DEF GenReturn, GenVa, GenOther
  <2> QED
    BY <1>0, <2>1, UseStep DEF Grown
<1> QED
  BY <1>1, <1>2, <1>3, <1>4, <1>5, <1>6

(* The end of a function. *)
LEMMA EndStep ==
  ASSUME NamesInv, EndFunction
  PROVE  NamesInv' /\ Grown(syms')
<1> USE DEF NamesInv
<1>1. CASE Exit
  BY <1>1, ExitStep
<1>2. CASE ~Exit
  <2>1. /\ phase = "generate" /\ phase' = "functions" /\ d' = d + 1
        /\ syms' = AddSym(Decl.name, ~Decl.static)
        /\ ~(Waiting(Decl.name) = {} /\ Len(syms) >= MaxSyms)
        /\ UNCHANGED <<file, i, frameVars, chain, nextId, size, code>>
    BY <1>2 DEF EndFunction
  <2>2. d \in DOMAIN file /\ Len(file) \in Nat
    BY <2>1, FilesHave DEF TypeOK
  <2>3. Decl.name \in STRING /\ (~Decl.static) \in BOOLEAN
    <3>1. Decl.name \in STRING /\ Decl.static \in BOOLEAN
      BY <2>2, DeclFacts
    <3> QED
      BY <3>1, Zenon
  <2>4. /\ Grown(syms')
        /\ Len(syms') = IF Waiting(Decl.name) # {} THEN Len(syms) ELSE Len(syms) + 1
    BY <2>1, <2>3, GrownByAddSym DEF TypeOK
  <2>5. Len(syms') <= MaxSyms
    BY <2>1, <2>4, NamesLimits DEF TypeOK
  <2>6. SlotsDisjoint'
    BY <2>1, SlotsUnchanged DEF frameVars, frame
  <2> QED
    BY <2>1, <2>2, <2>4, <2>5, <2>6 DEF TypeOK, NoHiddenYet, frameVars, Grown
<1> QED
  BY <1>1, <1>2

-----------------------------------------------------------------------------
(* The invariant holds at first, *)
LEMMA InitInv == Init => NamesInv
<1> SUFFICES ASSUME Init PROVE NamesInv
  OBVIOUS
<1>1. SlotsDisjoint
  BY DEF Init, SlotsDisjoint
<1>2. Len(file) \in Nat
  BY FilesHave DEF Init
<1> QED
  BY <1>1, <1>2, NamesLimits DEF Init, NamesInv, TypeOK, NoHiddenYet

(* every step keeps it and leaves the symbols as they are. *)
LEMMA StepInv == NamesInv /\ [Next]_vars => NamesInv' /\ Grown(syms')
<1> SUFFICES ASSUME NamesInv, [Next]_vars PROVE NamesInv' /\ Grown(syms')
  OBVIOUS
<1>1. CASE UNCHANGED vars
  <2>1. SlotsDisjoint'
    BY <1>1, SlotsUnchanged DEF vars, frameVars, frame, NamesInv
  <2> QED
    BY <1>1, <2>1 DEF vars, frameVars, NamesInv, TypeOK, NoHiddenYet, Decl, Grown
<1>2. CASE Next
  BY <1>2, FileSteps, CollectSteps, PrologueStep, GenerateSteps, EndStep DEF Next
<1> QED
  BY <1>1, <1>2

(* Every variable of a reachable state of Names has its type: in particular *)
(* the tables of locals, scopes and symbols stay within their limits.      *)
THEOREM NamesType == Spec => []TypeOK
<1>1. NamesInv => TypeOK
  BY DEF NamesInv
<1> QED
  BY InitInv, StepInv, <1>1, PTL DEF Spec

(* However a function's variables nest and whatever their sizes, the slots *)
(* collect_locals gives them share no byte, lie in the frame, and stay     *)
(* clear of the hidden pointer the prologue stores.                        *)
THEOREM NamesSlots == Spec => []SlotsDisjoint
<1>1. NamesInv => SlotsDisjoint
  BY DEF NamesInv
<1> QED
  BY InitInv, StepInv, <1>1, PTL DEF Spec

(* No step renames or renumbers a symbol, or moves one that is defined: a  *)
(* relocation means at the end what it meant when it was made.             *)
THEOREM NamesSymbolsStay == Spec => SymbolsStay
<1>1. NamesInv /\ [Next]_vars =>
        [\A s \in DOMAIN syms :
           /\ s \in DOMAIN syms'
           /\ syms'[s].name = syms[s].name
           /\ syms[s].sect # "undef" => syms'[s] = syms[s]]_vars
  BY StepInv DEF Grown
<1> QED
  BY InitInv, StepInv, <1>1, PTL DEF Spec, SymbolsStay

-----------------------------------------------------------------------------
(* What item p does to the chain of blocks and to the count of blocks. *)
Turn(b, p, c, m) ==
  /\ b[p].k = "open" => /\ Len(c[p - 1]) < MaxScopeIds
                        /\ m[p] = m[p - 1] + 1
                        /\ c[p] = Append(c[p - 1], m[p])
  /\ b[p].k = "close" => /\ m[p] = m[p - 1]
                         /\ c[p] = SubSeq(c[p - 1], 1, Len(c[p - 1]) - 1)
  /\ b[p].k \notin {"open", "close"} => m[p] = m[p - 1] /\ c[p] = c[p - 1]

(* The scopes of a body: after p of its items the chain of blocks is c[p], *)
(* and m[p] blocks have been opened; there was room for each of them.      *)
Scopes(b, n, c, m) == /\ c[0] = <<>> /\ m[0] = 0
                      /\ \A p \in 1 .. n : Turn(b, p, c, m)

(* The number of the block at the end of a chain. *)
LastOf(ch) == IF ch = <<>> THEN 0 ELSE ch[Len(ch)]

(* How many local variables the first p items declare, *)
DeclsTo(b, p) == {q \in 1 .. p : b[q].k = "decl"}
Count(b, p)   == Cardinality(DeclsTo(b, p))

(* and that each of them has an entry with its name, size and block. *)
Entered(b, n, c, loc) ==
  /\ Len(loc) = Count(b, n)
  /\ \A p \in 1 .. n : b[p].k = "decl" =>
       /\ Count(b, p) \in 1 .. Len(loc)
       /\ loc[Count(b, p)].name = b[p].name /\ loc[Count(b, p)].size = b[p].size
       /\ loc[Count(b, p)].id = LastOf(c[p - 1])
       /\ loc[Count(b, p)].depth = Len(c[p - 1])

(* The first pass has gone through n items, and the second through at. *)
Passed(b, n, at, ch, next, loc) ==
  \E c, m : /\ Scopes(b, n, c, m) /\ Entered(b, n, c, loc)
            /\ ch = c[at] /\ next = m[at]

(* The second pass comes to the chains and numbers of the first. *)
ScopeInv ==
  /\ phase = "collect" =>
       /\ i <= Len(Body(Decl)) + 1
       /\ Passed(Body(Decl), i - 1, i - 1, chain, nextId, locals)
  /\ phase = "generate" =>
       Passed(Body(Decl), Len(Body(Decl)), i - 1, chain, nextId, locals)

(* Declarations can be counted. *)
LEMMA DeclsFinite ==
  ASSUME NEW b, NEW p \in Nat
  PROVE  IsFiniteSet(DeclsTo(b, p)) /\ Count(b, p) \in Nat
<1>1. IsFiniteSet(1 .. p)
  BY FS_Interval
<1>2. DeclsTo(b, p) \in SUBSET (1 .. p)
  BY DEF DeclsTo
<1> QED
  BY <1>1, <1>2, FS_Subset, FS_CardinalityType DEF Count

(* One item more is one declaration more, or none. *)
LEMMA CountOneMore ==
  ASSUME NEW b, NEW n \in Nat
  PROVE  Count(b, n + 1) = IF b[n + 1].k = "decl" THEN Count(b, n) + 1 ELSE Count(b, n)
<1>1. CASE b[n + 1].k = "decl"
  <2>1. DeclsTo(b, n + 1) = DeclsTo(b, n) \cup {n + 1} /\ n + 1 \notin DeclsTo(b, n)
    BY <1>1 DEF DeclsTo
  <2> QED
    BY <1>1, <2>1, DeclsFinite, FS_AddElement DEF Count
<1>2. CASE b[n + 1].k # "decl"
  <2>1. DeclsTo(b, n + 1) = DeclsTo(b, n)
    BY <1>2 DEF DeclsTo
  <2> QED
    BY <1>2, <2>1 DEF Count
<1> QED
  BY <1>1, <1>2

(* Before the first item. *)
LEMMA NothingPassed ==
  ASSUME NEW b
  PROVE  Passed(b, 0, 0, <<>>, 0, <<>>)
<1> DEFINE c == [p \in {0} |-> <<>>]
           m == [p \in {0} |-> 0]
<1>1. Count(b, 0) = 0
  <2>1. DeclsTo(b, 0) = {}
    BY DEF DeclsTo
  <2> QED
    BY <2>1, FS_EmptySet DEF Count
<1>2. Scopes(b, 0, c, m)
  BY DEF Scopes
<1>3. Entered(b, 0, c, <<>>)
  BY <1>1 DEF Entered
<1> QED
  BY <1>2, <1>3 DEF Passed

(* What one item of the first pass does. *)
OneItem(b, n, ch, next, loc, ch1, next1, loc1) ==
  LET x == b[n + 1]
  IN  /\ x.k = "open" => /\ Len(ch) < MaxScopeIds /\ next1 = next + 1
                         /\ ch1 = Append(ch, next1)
      /\ x.k = "close" => next1 = next /\ ch1 = SubSeq(ch, 1, Len(ch) - 1)
      /\ x.k \notin {"open", "close"} => next1 = next /\ ch1 = ch
      /\ x.k # "decl" => loc1 = loc
      /\ x.k = "decl" => /\ Len(loc1) = Len(loc) + 1
                         /\ \A l \in 1 .. Len(loc) : loc1[l] = loc[l]
                         /\ loc1[Len(loc) + 1].name = x.name
                         /\ loc1[Len(loc) + 1].size = x.size
                         /\ loc1[Len(loc) + 1].id = LastOf(ch)
                         /\ loc1[Len(loc) + 1].depth = Len(ch)

(* One item more. *)
LEMMA PassedOneMore ==
  ASSUME NEW b, NEW n \in Nat, NEW ch, NEW next, NEW loc, NEW ch1, NEW next1, NEW loc1,
         Len(loc) \in Nat,
         Passed(b, n, n, ch, next, loc), OneItem(b, n, ch, next, loc, ch1, next1, loc1)
  PROVE  Passed(b, n + 1, n + 1, ch1, next1, loc1)
<1>1. PICK c, m : /\ Scopes(b, n, c, m) /\ Entered(b, n, c, loc)
                  /\ ch = c[n] /\ next = m[n]
  BY DEF Passed
<1> DEFINE c1 == [p \in 0 .. n + 1 |-> IF p = n + 1 THEN ch1 ELSE c[p]]
           m1 == [p \in 0 .. n + 1 |-> IF p = n + 1 THEN next1 ELSE m[p]]
<1>2. /\ \A p \in 0 .. n : c1[p] = c[p] /\ m1[p] = m[p]
      /\ c1[n + 1] = ch1 /\ m1[n + 1] = next1
      /\ 0 \in 0 .. n
  OBVIOUS
<1>3. \A p \in 1 .. n : p \in 0 .. n /\ p - 1 \in 0 .. n
  OBVIOUS
<1>4. 1 .. n + 1 = 1 .. n \cup {n + 1} /\ n + 1 - 1 = n /\ n \in 0 .. n
  OBVIOUS
<1> HIDE DEF c1, m1
<1>5. Scopes(b, n + 1, c1, m1)
  <2>1. c1[0] = <<>> /\ m1[0] = 0
    BY <1>1, <1>2 DEF Scopes
  <2>2. ASSUME NEW p \in 1 .. n
        PROVE  Turn(b, p, c1, m1)
    <3>1. c1[p] = c[p] /\ m1[p] = m[p] /\ c1[p - 1] = c[p - 1] /\ m1[p - 1] = m[p - 1]
      BY <1>2, <1>3
    <3>2. Turn(b, p, c, m)
      BY <1>1 DEF Scopes
    <3> QED
      BY <3>1, <3>2 DEF Turn
  <2>3. Turn(b, n + 1, c1, m1)
    <3>1. /\ c1[n + 1] = ch1 /\ m1[n + 1] = next1
          /\ c1[n + 1 - 1] = ch /\ m1[n + 1 - 1] = next
      BY <1>1, <1>2, <1>4
    <3>2. /\ b[n + 1].k = "open" => /\ Len(ch) < MaxScopeIds /\ next1 = next + 1
                                   /\ ch1 = Append(ch, next1)
          /\ b[n + 1].k = "close" => next1 = next /\ ch1 = SubSeq(ch, 1, Len(ch) - 1)
          /\ b[n + 1].k \notin {"open", "close"} => next1 = next /\ ch1 = ch
      BY DEF OneItem
    <3>3. b[n + 1].k = "open" => /\ Len(c1[n + 1 - 1]) < MaxScopeIds
                                 /\ m1[n + 1] = m1[n + 1 - 1] + 1
                                 /\ c1[n + 1] = Append(c1[n + 1 - 1], m1[n + 1])
      BY <3>1, <3>2, Zenon
    <3>4. b[n + 1].k = "close" => /\ m1[n + 1] = m1[n + 1 - 1]
                                  /\ c1[n + 1] = SubSeq(c1[n + 1 - 1], 1,
                                                       Len(c1[n + 1 - 1]) - 1)
      BY <3>1, <3>2, Zenon
    <3>5. b[n + 1].k \notin {"open", "close"} =>
            m1[n + 1] = m1[n + 1 - 1] /\ c1[n + 1] = c1[n + 1 - 1]
      BY <3>1, <3>2, Zenon
    <3> QED
      BY <3>3, <3>4, <3>5 DEF Turn
  <2> QED
    BY <1>4, <2>1, <2>2, <2>3 DEF Scopes
<1>6. Entered(b, n + 1, c1, loc1)
  <2>0. Len(loc) = Count(b, n)
    BY <1>1 DEF Entered
  <2>1. Len(loc1) = Count(b, n + 1)
    BY <2>0, CountOneMore DEF OneItem
  <2>2. ASSUME NEW p \in 1 .. n, b[p].k = "decl"
        PROVE  /\ Count(b, p) \in 1 .. Len(loc1)
               /\ loc1[Count(b, p)].name = b[p].name
               /\ loc1[Count(b, p)].size = b[p].size
               /\ loc1[Count(b, p)].id = LastOf(c1[p - 1])
               /\ loc1[Count(b, p)].depth = Len(c1[p - 1])
    <3>1. /\ Count(b, p) \in 1 .. Len(loc)
          /\ loc[Count(b, p)].name = b[p].name /\ loc[Count(b, p)].size = b[p].size
          /\ loc[Count(b, p)].id = LastOf(c[p - 1])
          /\ loc[Count(b, p)].depth = Len(c[p - 1])
      BY <1>1, <2>2 DEF Entered
    <3>2. c1[p - 1] = c[p - 1]
      BY <1>2, <1>3
    <3>3. loc1[Count(b, p)] = loc[Count(b, p)] /\ Count(b, p) \in 1 .. Len(loc1)
      BY <3>1 DEF OneItem
    <3> QED
      BY <3>1, <3>2, <3>3
  <2>3. ASSUME b[n + 1].k = "decl"
        PROVE  /\ Count(b, n + 1) \in 1 .. Len(loc1)
               /\ loc1[Count(b, n + 1)].name = b[n + 1].name
               /\ loc1[Count(b, n + 1)].size = b[n + 1].size
               /\ loc1[Count(b, n + 1)].id = LastOf(c1[n + 1 - 1])
               /\ loc1[Count(b, n + 1)].depth = Len(c1[n + 1 - 1])
    <3>1. c1[n + 1 - 1] = ch
      BY <1>1, <1>2, <1>4
    <3>2. Count(b, n + 1) = Len(loc) + 1
      BY <2>0, <2>3, CountOneMore
    <3> QED
      BY <2>1, <2>3, <3>1, <3>2 DEF OneItem
  <2> QED
    BY <1>4, <2>1, <2>2, <2>3, SMTT(20) DEF Entered
<1> QED
  BY <1>2, <1>5, <1>6 DEF Passed

-----------------------------------------------------------------------------
(* The first pass. *)
LEMMA CollectScopes ==
  ASSUME NamesInv, ScopeInv,
         CollectOpen \/ CollectClose \/ CollectDecl \/ CollectStatic \/ CollectOther
  PROVE  ScopeInv'
<1>0. /\ phase = "collect" /\ i \in 1 .. Len(Body(Decl)) /\ Len(Body(Decl)) \in Nat
      /\ Passed(Body(Decl), i - 1, i - 1, chain, nextId, locals)
      /\ Len(locals) \in Nat
  <2>1. phase = "collect" /\ i <= Len(Body(Decl))
    BY DEF CollectOpen, CollectClose, CollectDecl, CollectStatic, CollectOther, Collecting
  <2>2. d \in DOMAIN file /\ Decl.k = "func"
    BY <2>1, FilesHave DEF NamesInv, TypeOK
  <2>3. Len(Body(Decl)) \in Nat
    BY <2>2, FilesHave DEF NamesInv, Decl
  <2> QED
    BY <2>1, <2>2, <2>3 DEF NamesInv, TypeOK, ScopeInv
<1>1. CASE Exit
  BY <1>1 DEF Exit, ScopeInv
<1>2. CASE ~Exit
  <2>1. phase' = "collect" /\ i' = i + 1 /\ file' = file /\ d' = d
    BY <1>0, <1>2 DEF CollectOpen, CollectClose, CollectDecl, CollectStatic, CollectOther,
                      CloseBlock
  <2>2. OneItem(Body(Decl), i - 1, chain, nextId, locals, chain', nextId', locals')
    <3>0. Body(Decl)[i - 1 + 1] = Item
      <4>1. i - 1 + 1 = i
        BY <1>0
      <4> QED
        BY <4>1 DEF Item
    <3>1. CASE CollectOpen
      <4>1. /\ Item.k = "open" /\ ~(Len(chain) >= MaxScopeIds)
            /\ nextId' = nextId + 1 /\ chain' = Append(chain, nextId + 1)
            /\ locals' = locals
        BY <1>2, <3>1 DEF CollectOpen, frameVars
      <4>2. Len(chain) < MaxScopeIds
        BY <4>1, NamesLimits DEF NamesInv, TypeOK
      <4> QED
        BY <3>0, <4>1, <4>2 DEF OneItem
    <3>2. CASE CollectClose
      BY <3>0, <3>2 DEF CollectClose, CloseBlock, OneItem, frameVars
    <3>3. CASE CollectStatic \/ CollectOther
      BY <1>2, <3>0, <3>3 DEF CollectStatic, CollectOther, OneItem, frameVars
    <3>4. CASE CollectDecl
      <4>1. /\ Item.k = "decl" /\ locals' = Append(locals, Slot(Item))
            /\ chain' = chain /\ nextId' = nextId
        BY <1>2, <3>4 DEF CollectDecl
      <4>2. Slot(Item).name = Item.name /\ Slot(Item).size = Item.size /\ Slot(Item).id = LastOf(chain)
            /\ Slot(Item).depth = Len(chain)
        BY DEF Slot, ScopeId, LastOf
      <4> DEFINE e == Slot(Item)
      <4> HIDE DEF e
      <4>3. /\ locals' = Append(locals, e) /\ locals \in Seq(Locals)
            /\ e.name = Item.name /\ e.size = Item.size /\ e.id = LastOf(chain) /\ e.depth = Len(chain)
        BY <4>1, <4>2 DEF e, NamesInv, TypeOK
      <4>4. /\ Len(locals') = Len(locals) + 1 /\ locals'[Len(locals) + 1] = e
            /\ \A l \in 1 .. Len(locals) : locals'[l] = locals[l]
        BY <4>3
      <4> QED
        BY <3>0, <4>1, <4>3, <4>4 DEF OneItem
    <3> QED
      BY <3>1, <3>2, <3>3, <3>4
  <2>3. Passed(Body(Decl), i - 1 + 1, i - 1 + 1, chain', nextId', locals')
    BY <1>0, <2>2, PassedOneMore
  <2>4. i - 1 + 1 = i' - 1 /\ i' <= Len(Body(Decl)) + 1
    BY <1>0, <2>1
  <2>5. Body(Decl)' = Body(Decl)
    BY <2>1 DEF Decl
  <2> QED
    BY <2>1, <2>3, <2>4, <2>5 DEF ScopeInv
<1> QED
  BY <1>1, <1>2

(* Between the passes. *)
LEMMA PrologueScopes ==
  ASSUME NamesInv, ScopeInv, Prologue
  PROVE  ScopeInv'
<1>1. /\ phase = "collect" /\ i > Len(Body(Decl)) /\ i \in Nat
      /\ phase' = "generate" /\ i' = 1 /\ chain' = <<>> /\ nextId' = 0
      /\ locals' = locals /\ Body(Decl)' = Body(Decl)
  BY DEF Prologue, NamesInv, TypeOK, Decl
<1>2. d \in DOMAIN file /\ Decl.k = "func"
  BY <1>1, FilesHave DEF NamesInv, TypeOK
<1>3. Len(Body(Decl)) \in Nat
  BY <1>2, FilesHave DEF NamesInv, Decl
<1>4. i - 1 = Len(Body(Decl))
  BY <1>1, <1>3 DEF ScopeInv
<1>5. PICK c, m : /\ Scopes(Body(Decl), Len(Body(Decl)), c, m)
                  /\ Entered(Body(Decl), Len(Body(Decl)), c, locals)
  BY <1>1, <1>4 DEF ScopeInv, Passed
<1>6. c[0] = <<>> /\ m[0] = 0
  BY <1>5 DEF Scopes
<1>7. Passed(Body(Decl), Len(Body(Decl)), 0, <<>>, 0, locals)
  BY <1>5, <1>6 DEF Passed
<1> QED
  BY <1>1, <1>7 DEF ScopeInv

(* The second pass: its chains are those of the first. *)
LEMMA GenerateScopes ==
  ASSUME NamesInv, ScopeInv,
         \/ GenOpen \/ GenClose \/ GenDecl \/ GenUse \/ GenCall \/ GenReturn
         \/ GenVa \/ GenOther
  PROVE  ScopeInv'
<1>1. phase = "generate" /\ i <= Len(Body(Decl))
  BY DEF GenOpen, GenClose, GenDecl, GenUse, GenCall, GenReturn, GenVa, GenOther, Generating
<1>2. d \in DOMAIN file /\ Decl.k = "func" /\ i \in Nat /\ i >= 1
  BY <1>1, FilesHave DEF NamesInv, TypeOK
<1>3. Len(Body(Decl)) \in Nat
  BY <1>2, FilesHave DEF NamesInv, Decl
<1> DEFINE b == Body(Decl)
           n == Len(b)
<1>4. i \in 1 .. n /\ b[i] = Item
  BY <1>1, <1>2, <1>3 DEF Item
<1>5. PICK c, m : /\ Scopes(b, n, c, m) /\ Entered(b, n, c, locals)
                  /\ chain = c[i - 1] /\ nextId = m[i - 1]
  BY <1>1 DEF ScopeInv, Passed
<1> HIDE DEF b
<1>6. Turn(b, i, c, m)
  BY <1>4, <1>5 DEF Scopes
<1>7. CASE Exit
  BY <1>7 DEF Exit, ScopeInv
<1>8. CASE ~Exit
  <2>1. /\ phase' = "generate" /\ i' = i + 1 /\ file' = file /\ d' = d
        /\ locals' = locals
    BY <1>1, <1>8 DEF GenOpen, GenClose, CloseBlock, GenDecl, GenUse, GenCall, GenReturn,
                      GenVa, GenOther, Next1, Access, frameVars
  <2>2. chain' = c[i] /\ nextId' = m[i]
    <3>1. CASE GenOpen
      <4>1. Item.k = "open" /\ Len(chain) < MaxScopeIds
        BY <1>4, <1>5, <1>6, <3>1 DEF GenOpen, Turn
      <4>2. nextId' = nextId + 1 /\ chain' = Append(chain, nextId + 1)
        BY <3>1, <4>1 DEF GenOpen
      <4>3. m[i] = m[i - 1] + 1 /\ c[i] = Append(c[i - 1], m[i])
        BY <1>4, <1>6, <4>1 DEF Turn
      <4> QED
        BY <1>5, <4>2, <4>3, Zenon
    <3>2. CASE GenClose
      BY <1>4, <1>5, <1>6, <3>2 DEF GenClose, CloseBlock, Turn
    <3>3. CASE GenDecl \/ GenUse \/ GenCall \/ GenReturn \/ GenVa \/ GenOther
      <4>1. Item.k \notin {"open", "close"}
        BY <3>3 DEF GenDecl, GenUse, GenCall, GenReturn, GenVa, GenOther
      <4>2. chain' = chain /\ nextId' = nextId
        BY <1>8, <3>3 DEF GenDecl, GenUse, GenCall, GenReturn, GenVa, GenOther, Next1, Access
      <4> QED
        BY <1>4, <1>5, <1>6, <4>1, <4>2 DEF Turn
    <3> QED
      BY <3>1, <3>2, <3>3
  <2>3. Body(Decl)' = b /\ i' - 1 = i
    BY <1>2, <2>1 DEF Decl, b
  <2>4. Passed(b, n, i, chain', nextId', locals')
    BY <1>5, <2>1, <2>2 DEF Passed
  <2>5. Passed(Body(Decl), Len(Body(Decl)), i - 1, chain, nextId, locals)'
    BY <2>3, <2>4
  <2> QED
    BY <2>1, <2>5 DEF ScopeInv
<1> QED
  BY <1>7, <1>8

(* At first no function is compiled. *)
LEMMA ScopeInit == Init => ScopeInv
BY DEF Init, ScopeInv

(* Every step of the program. *)
LEMMA ScopeStep ==
  ASSUME NamesInv, ScopeInv, [Next]_vars
  PROVE  ScopeInv'
<1>1. CASE UNCHANGED vars
  <2>1. /\ phase' = phase /\ i' = i /\ chain' = chain /\ nextId' = nextId
        /\ locals' = locals /\ Body(Decl)' = Body(Decl)
    BY <1>1 DEF vars, Decl
  <2> QED
    BY <2>1 DEF ScopeInv
<1>2. CASE CollectOpen \/ CollectClose \/ CollectDecl \/ CollectStatic \/ CollectOther
  BY <1>2, CollectScopes
<1>3. CASE Prologue
  BY <1>3, PrologueScopes
<1>4. CASE \/ GenOpen \/ GenClose \/ GenDecl \/ GenUse \/ GenCall \/ GenReturn
           \/ GenVa \/ GenOther
  BY <1>4, GenerateScopes
<1>5. CASE StartFunction
  <2>1. /\ phase' = "collect" /\ i' = 1 /\ chain' = <<>> /\ nextId' = 0
        /\ locals' = <<>> /\ Body(Decl)' = Body(Decl)
        /\ d \in DOMAIN file /\ Decl.k = "func"
    BY <1>5, FilesHave DEF StartFunction, NamesInv, TypeOK, Decl
  <2>2. Len(Body(Decl)) \in Nat
    BY <2>1, FilesHave DEF NamesInv, Decl
  <2> QED
    BY <2>1, <2>2, NothingPassed DEF ScopeInv
<1>6. CASE \/ GlobalVar \/ SkipFunction \/ Functions \/ SkipVar \/ Compiled
           \/ EndFunction
  <2>1. phase' \notin {"collect", "generate"}
    BY <1>6 DEF GlobalVar, SkipFunction, Functions, SkipVar, Compiled, EndFunction, Exit
  <2> QED
    BY <2>1 DEF ScopeInv
<1> QED
  BY <1>1, <1>2, <1>3, <1>4, <1>5, <1>6 DEF Next

(* The two passes of cgen_func_def number the blocks of a function alike,  *)
(* for every body and every limit: when code is generated for the          *)
(* declaration of a variable, the block it stands in has the number and    *)
(* the depth that collect_locals wrote into the variable's slot.           *)
THEOREM NamesScopes == Spec => []SameScopes
<1>1. NamesInv /\ ScopeInv => SameScopes
  <2> SUFFICES ASSUME NamesInv, ScopeInv, Generating, Item.k = "decl"
               PROVE  LET l == locals[Cardinality({p \in 1 .. i : Body(Decl)[p].k = "decl"})]
                      IN  l.name = Item.name /\ l.id = ScopeId /\ l.depth = Len(chain)
    BY DEF SameScopes
  <2> DEFINE b == Body(Decl)
             n == Len(b)
  <2>1. /\ phase = "generate" /\ i <= n /\ b[i] = Item
        /\ i \in Nat /\ i >= 1 /\ d \in DOMAIN file /\ Decl.k = "func"
    BY FilesHave DEF Generating, Item, NamesInv, TypeOK
  <2>2. i \in 1 .. n
    <3>1. n \in Nat
      BY <2>1, FilesHave DEF NamesInv, Decl
    <3> QED
      BY <2>1, <3>1
  <2>3. PICK c, m : /\ Scopes(b, n, c, m) /\ Entered(b, n, c, locals)
                    /\ chain = c[i - 1] /\ nextId = m[i - 1]
    BY <2>1 DEF ScopeInv, Passed
  <2>4. /\ locals[Count(b, i)].name = Item.name
        /\ locals[Count(b, i)].id = LastOf(chain)
        /\ locals[Count(b, i)].depth = Len(chain)
    BY <2>1, <2>2, <2>3 DEF Entered
  <2> QED
    BY <2>4 DEF Count, DeclsTo, LastOf, ScopeId
<1> QED
  BY <1>1, InitInv, StepInv, ScopeInit, ScopeStep, PTL DEF Spec

-----------------------------------------------------------------------------
(* Symbols and the definitions of a file. *)

(* What a step makes of the table of symbols: nothing is lost, an          *)
(* undefined symbol is an old one or the first of its name, which is in X, *)
(* and a new variable's name is in Y.                                      *)
NewUndefined(t, s, X) ==
  s = Len(syms) + 1 /\ Named(t[s].name) = {} /\ t[s].name \in X /\ t[s].global = TRUE
Changed(t, X, Y) ==
  /\ Grown(t)
  /\ \A s \in DOMAIN t :
       /\ t[s].sect = "undef" => \/ s \in DOMAIN syms /\ t[s] = syms[s]
                                 \/ NewUndefined(t, s, X)
       /\ t[s].sect \in {"data", "bss"} => \/ s \in DOMAIN syms /\ t[s] = syms[s]
                                           \/ t[s].name \in Y

(* A symbol appended is the last one. *)
LEMMA AppendedLast ==
  ASSUME syms \in Seq(Symbols), NEW e \in Symbols, NEW t, t = Append(syms, e)
  PROVE  /\ \A s \in DOMAIN t : \/ s \in DOMAIN syms /\ t[s] = syms[s]
                                \/ s = Len(syms) + 1 /\ t[s] = e
         /\ Len(syms) + 1 \in DOMAIN t /\ t[Len(syms) + 1] = e
OBVIOUS

(* It is left alone, *)
LEMMA ChangedByNothing ==
  ASSUME syms \in Seq(Symbols)
  PROVE  Changed(syms, {}, {})
BY DEF Changed, Grown

(* gets a variable, *)
LEMMA ChangedByVariable ==
  ASSUME syms \in Seq(Symbols), NEW e \in Symbols, e.sect \in {"data", "bss"}
  PROVE  Changed(Append(syms, e), {}, {e.name})
<1> DEFINE t == Append(syms, e)
<1>1. Grown(t)
  BY GrownByAppend
<1>2. \A s \in DOMAIN t : (s \in DOMAIN syms /\ t[s] = syms[s]) \/ t[s] = e
  OBVIOUS
<1> HIDE DEF t
<1>3. Changed(t, {}, {e.name})
  BY <1>1, <1>2 DEF Changed
<1> QED
  BY <1>3 DEF t

(* is referred to, *)
LEMMA ChangedByReference ==
  ASSUME syms \in Seq(Symbols), Len(syms) <= MaxSyms, NEW n \in STRING, ~NoRoomFor(n)
  PROVE  /\ Changed(WithSymbol(n), {n}, {})
         /\ SymbolOf(n) \in DOMAIN WithSymbol(n)
         /\ WithSymbol(n)[SymbolOf(n)].name = n
<1>1. CASE Named(n) = {}
  <2> DEFINE e == Undefined(n)
             t == Append(syms, e)
  <2>1. e \in Symbols /\ e.sect = "undef" /\ e.name = n /\ e.global = TRUE
    BY DEF Undefined, Symbol, Symbols
  <2> HIDE DEF e
  <2>2. Grown(t)
    BY <2>1, GrownByAppend
  <2>3. /\ \A s \in DOMAIN t : \/ s \in DOMAIN syms /\ t[s] = syms[s]
                               \/ s = Len(syms) + 1 /\ t[s] = e
        /\ Len(syms) + 1 \in DOMAIN t /\ t[Len(syms) + 1] = e
    BY <2>1, AppendedLast
  <2>4. WithSymbol(n) = t /\ SymbolOf(n) = Len(syms) + 1
    BY <1>1 DEF WithSymbol, SymbolOf, e
  <2> HIDE DEF t
  <2>5. Changed(t, {n}, {})
    <3>1. \A s \in DOMAIN t : \/ s \in DOMAIN syms /\ t[s] = syms[s]
                              \/ NewUndefined(t, s, {n}) /\ t[s].sect = "undef"
      BY <1>1, <2>1, <2>3 DEF NewUndefined
    <3> QED
      BY <2>2, <3>1 DEF Changed
  <2> QED
    BY <2>1, <2>3, <2>4, <2>5
<1>2. CASE Named(n) # {}
  <2>1. Named(n) \subseteq Nat
    BY DEF Named
  <2>2. MinOf(Named(n)) \in Named(n)
    BY <1>2, <2>1, HasMin
  <2>3. Changed(syms, {n}, {})
    BY DEF Changed, Grown
  <2> QED
    BY <1>2, <2>2, <2>3 DEF WithSymbol, SymbolOf, Named
<1> QED
  BY <1>1, <1>2

(* or gets a function. *)
LEMMA ChangedByAddSym ==
  ASSUME syms \in Seq(Symbols), NEW n \in STRING, NEW glob \in BOOLEAN
  PROVE  Changed(AddSym(n, glob), {}, {})
<1> DEFINE t == AddSym(n, glob)
<1>1. Grown(t)
  BY GrownByAddSym
<1>2. ASSUME NEW s \in DOMAIN t, t[s].sect # "text"
      PROVE  s \in DOMAIN syms /\ t[s] = syms[s]
  <2>1. CASE Waiting(n) # {}
    <3> DEFINE m == MinOf(Waiting(n))
    <3>1. m \in DOMAIN syms /\ syms[m] \in Symbols
      BY <2>1, WaitingLeast
    <3>2. t = [syms EXCEPT ![m].sect = "text"]
      BY <2>1 DEF AddSym
    <3> HIDE DEF m, t
    <3>3. DOMAIN t = DOMAIN syms /\ t[m] = [syms[m] EXCEPT !.sect = "text"]
      BY <3>1, <3>2
    <3>4. t[m].sect = "text"
      BY <3>1, <3>3 DEF Symbols
    <3>5. s # m
      BY <1>2, <3>4
    <3> QED
      BY <1>2, <3>2, <3>3, <3>5
  <2>2. CASE Waiting(n) = {}
    <3> DEFINE e == Symbol(n, "text", Len(syms), 0, glob)
    <3>1. e \in Symbols /\ e.sect = "text"
      BY DEF Symbol, Symbols
    <3>2. t = Append(syms, e)
      BY <2>2 DEF AddSym
    <3> HIDE DEF e, t
    <3> QED
      BY <1>2, <3>1, <3>2, AppendedLast
  <2> QED
    BY <2>1, <2>2
<1> HIDE DEF t
<1>3. Changed(t, {}, {})
  BY <1>1, <1>2 DEF Changed
<1> QED
  BY <1>3 DEF t

(* There is one undefined symbol of a name, and it is global. *)
Lone == /\ \A s, r \in DOMAIN syms :
             /\ syms[s].sect = "undef" /\ syms[r].sect = "undef"
             /\ syms[s].name = syms[r].name
             => s = r
        /\ \A s \in DOMAIN syms : syms[s].sect = "undef" => syms[s].global = TRUE

(* Table t has symbols of name n, all of them defined. *)
Defined(t, n) == /\ \E s \in DOMAIN t : t[s].name = n
                 /\ \A s \in DOMAIN t : t[s].name = n => t[s].sect # "undef"

(* Table t has a symbol like this. *)
Holds(t, n, sect, glob) ==
  \E s \in DOMAIN t : t[s].name = n /\ t[s].sect = sect /\ t[s].global = glob

(* Both last. *)
LEMMA DefinedStays ==
  ASSUME NEW t, NEW X, NEW Y, Changed(t, X, Y), NEW n
  PROVE  /\ Defined(syms, n) => Defined(t, n)
         /\ \A sect, glob : sect # "undef" /\ Holds(syms, n, sect, glob)
                              => Holds(t, n, sect, glob)
<1>1. ASSUME Defined(syms, n) PROVE Defined(t, n)
  <2>1. \E s \in DOMAIN t : t[s].name = n
    BY <1>1 DEF Changed, Grown, Defined
  <2>2. ASSUME NEW s \in DOMAIN t, t[s].name = n, t[s].sect = "undef" PROVE FALSE
    <3>1. (s \in DOMAIN syms /\ t[s] = syms[s]) \/ Named(n) = {}
      BY <2>2 DEF Changed, NewUndefined
    <3> QED
      BY <1>1, <2>2, <3>1 DEF Defined, Named
  <2> QED
    BY <2>1, <2>2 DEF Defined
<1>2. ASSUME NEW sect, NEW glob, sect # "undef", Holds(syms, n, sect, glob)
      PROVE  Holds(t, n, sect, glob)
  <2>1. PICK s \in DOMAIN syms : /\ syms[s].name = n /\ syms[s].sect = sect
                                 /\ syms[s].global = glob
    BY <1>2 DEF Holds
  <2>2. s \in DOMAIN t /\ t[s] = syms[s]
    BY <1>2, <2>1 DEF Changed, Grown
  <2> QED
    BY <2>1, <2>2 DEF Holds
<1> QED
  BY <1>1, <1>2

(* add_sym leaves no symbol of the name undefined, and the one it defines  *)
(* is as visible as it should be, or as the call that came first made it.  *)
LEMMA AddSymDefines ==
  ASSUME syms \in Seq(Symbols), Lone, NEW n \in STRING, NEW glob \in BOOLEAN
  PROVE  /\ Defined(AddSym(n, glob), n)
         /\ Holds(AddSym(n, glob), n, "text", IF Waiting(n) = {} THEN glob ELSE TRUE)
<1> DEFINE t == AddSym(n, glob)
<1>1. CASE Waiting(n) # {}
  <2> DEFINE m == MinOf(Waiting(n))
  <2>1. m \in DOMAIN syms /\ syms[m] \in Symbols /\ syms[m].sect = "undef"
    BY <1>1, WaitingLeast
  <2>2. t = [syms EXCEPT ![m].sect = "text"]
    BY <1>1 DEF AddSym
  <2>3. m \in Waiting(n)
    <3>1. Waiting(n) \subseteq Nat
      BY DEF Waiting, Named
    <3> QED
      BY <1>1, <3>1, HasMin
  <2> HIDE DEF m, t
  <2>4. DOMAIN t = DOMAIN syms /\ t[m] = [syms[m] EXCEPT !.sect = "text"]
    BY <2>1, <2>2
  <2>5. syms[m].name = n /\ syms[m].global = TRUE
    BY <2>1, <2>3 DEF Waiting, Named, Lone
  <2>6. t[m].sect = "text" /\ t[m].name = n /\ t[m].global = TRUE
    BY <2>1, <2>4, <2>5 DEF Symbols
  <2>7. ASSUME NEW s \in DOMAIN t, t[s].name = n
        PROVE  t[s].sect # "undef"
    <3>1. CASE s # m
      <4>1. t[s] = syms[s] /\ s \in DOMAIN syms
        BY <2>2, <2>4, <3>1
      <4> QED
        BY <2>1, <2>5, <2>7, <3>1, <4>1 DEF Lone
    <3> QED
      BY <2>6, <3>1
  <2> QED
    BY <1>1, <2>1, <2>4, <2>6, <2>7 DEF Defined, Holds, t
<1>2. CASE Waiting(n) = {}
  <2> DEFINE e == Symbol(n, "text", Len(syms), 0, glob)
  <2>1. e \in Symbols /\ e.sect = "text" /\ e.name = n /\ e.global = glob
    BY DEF Symbol, Symbols
  <2>2. t = Append(syms, e)
    BY <1>2 DEF AddSym
  <2> HIDE DEF e, t
  <2>3. /\ \A s \in DOMAIN t : \/ s \in DOMAIN syms /\ t[s] = syms[s]
                               \/ t[s] = e
        /\ Len(syms) + 1 \in DOMAIN t /\ t[Len(syms) + 1] = e
    BY <2>1, <2>2, AppendedLast
  <2>4. \A s \in DOMAIN syms : syms[s].name = n => syms[s].sect # "undef"
    BY <1>2 DEF Waiting, Named
  <2>5. Defined(t, n)
    BY <2>1, <2>3, <2>4 DEF Defined
  <2>6. Holds(t, n, "text", glob)
    BY <2>1, <2>3 DEF Holds
  <2> QED
    BY <1>2, <2>5, <2>6 DEF t
<1> QED
  BY <1>1, <1>2

(* Function y of the file mentions n, and n names a variable with a symbol. *)
Uses(y, n) == /\ file[y].k = "func"
              /\ \E p \in 1 .. Len(Body(file[y])) :
                   /\ Body(file[y])[p].k \in {"get", "set", "call"}
                   /\ Body(file[y])[p].name = n
Storage(n) ==
  \E x \in DOMAIN file :
    \/ file[x].k = "var" /\ file[x].name = n
    \/ /\ file[x].k = "func"
       /\ \E p \in 1 .. Len(Body(file[x])) :
            Body(file[x])[p].k = "static" /\ Body(file[x])[p].name = n

(* A step of the first pass or of the second is inside a function. *)
LEMMA InFunction ==
  ASSUME NamesInv, phase \in {"collect", "generate"}, i <= Len(Body(Decl))
  PROVE  /\ d \in DOMAIN file /\ Decl.k = "func" /\ Decl = file[d]
         /\ i \in 1 .. Len(Body(Decl)) /\ Item = Body(file[d])[i]
         /\ Item.k \in Used => Item.name \in STRING
         /\ Item.k \in {"decl", "static"} => Item.size \in Nat \ {0}
<1>1. d \in DOMAIN file /\ Decl.k = "func" /\ i \in Nat /\ i >= 1
  BY FilesHave DEF NamesInv, TypeOK
<1>2. Len(Body(Decl)) \in Nat
  BY <1>1, FilesHave DEF NamesInv, Decl
<1>3. i \in 1 .. Len(Body(Decl))
  BY <1>1, <1>2
<1> QED
  BY <1>1, <1>3, ItemFacts DEF NamesInv, Decl, Item

(* What a step that goes on makes of the table. *)
TableStep(X, Y) ==
  /\ Changed(syms', X, Y)
  /\ \A n \in X : /\ phase # "globals" /\ phase' # "globals"
                  /\ d \in DOMAIN file /\ Uses(d, n)
  /\ \A n \in Y : Storage(n)

(* Between functions *)
LEMMA FileTable ==
  ASSUME NamesInv, phase' # "exited",
         GlobalVar \/ SkipFunction \/ Functions \/ SkipVar \/ Compiled \/ StartFunction
  PROVE  \E X, Y : TableStep(X, Y)
<1>1. CASE GlobalVar
  <2> DEFINE sect == IF Decl.init THEN "data" ELSE "bss"
             off  == Align8(size[sect])
             e    == Symbol(Decl.name, sect, off, Decl.size, ~Decl.static)
  <2>1. /\ d <= Len(file) /\ Decl.k = "var" /\ syms' = Append(syms, e)
    BY <1>1 DEF GlobalVar, Exit
  <2>2. sect \in {"data", "bss"} /\ d \in DOMAIN file
    BY <2>1, FilesHave DEF NamesInv, TypeOK
  <2>3. Decl.size \in Nat /\ Decl.name \in STRING /\ Decl.static \in BOOLEAN
    BY <2>1, <2>2, DeclFacts DEF NamesInv
  <2>4. off \in Nat
    BY <2>2, Aligned DEF NamesInv, TypeOK
  <2>5. e \in Symbols /\ e.name = Decl.name /\ e.sect = sect
    BY <2>2, <2>3, <2>4 DEF Symbol, Symbols
  <2> HIDE DEF e, sect
  <2>6. Changed(syms', {}, {Decl.name})
    BY <2>1, <2>2, <2>5, ChangedByVariable DEF NamesInv, TypeOK
  <2>7. Storage(Decl.name)
    BY <2>1, <2>2 DEF Storage, Decl
  <2> QED
    BY <2>6, <2>7 DEF TableStep
<1>2. CASE SkipFunction \/ Functions \/ SkipVar \/ Compiled \/ StartFunction
  <2>1. syms' = syms
    BY <1>2 DEF SkipFunction, Functions, SkipVar, Compiled, StartFunction, Exit
  <2>2. Changed(syms', {}, {})
    BY <2>1, ChangedByNothing DEF NamesInv, TypeOK
  <2> QED
    BY <2>2 DEF TableStep
<1> QED
  BY <1>1, <1>2

(* and inside of them. *)
LEMMA FunctionTable ==
  ASSUME NamesInv, phase' # "exited",
         \/ CollectOpen \/ CollectClose \/ CollectDecl \/ CollectStatic \/ CollectOther
         \/ Prologue
         \/ GenOpen \/ GenClose \/ GenDecl \/ GenUse \/ GenCall \/ GenReturn
         \/ GenVa \/ GenOther \/ EndFunction
  PROVE  \E X, Y : TableStep(X, Y)
<1>0. syms \in Seq(Symbols) /\ Len(syms) <= MaxSyms
  BY DEF NamesInv, TypeOK
<1>1. CASE syms' = syms
  <2>1. Changed(syms', {}, {})
    BY <1>0, <1>1, ChangedByNothing
  <2> QED
    BY <2>1 DEF TableStep
<1>2. CASE CollectStatic
  <2> DEFINE e == Symbol(Item.name, "bss", Align8(size.bss), Item.size, FALSE)
  <2>1. Collecting /\ Item.k = "static" /\ syms' = Append(syms, e)
    BY <1>2 DEF CollectStatic, Exit
  <2>2. /\ d \in DOMAIN file /\ Decl.k = "func" /\ Decl = file[d]
        /\ i \in 1 .. Len(Body(Decl)) /\ Item = Body(file[d])[i]
        /\ Item.name \in STRING /\ Item.size \in Nat
    BY <2>1, InFunction DEF Collecting, Used
  <2>3. e \in Symbols /\ e.name = Item.name /\ e.sect = "bss"
    BY <2>2, Aligned DEF Symbol, Symbols, NamesInv, TypeOK
  <2> HIDE DEF e
  <2>4. Changed(syms', {}, {Item.name})
    BY <1>0, <2>1, <2>3, ChangedByVariable
  <2>5. Storage(Item.name)
    BY <2>1, <2>2 DEF Storage
  <2> QED
    BY <2>4, <2>5 DEF TableStep
<1>3. CASE (GenUse \/ GenCall) /\ syms' # syms
  <2>1. /\ Generating /\ Item.k \in {"get", "set", "call"} /\ ~NoRoomFor(Item.name)
        /\ syms' = WithSymbol(Item.name) /\ phase = "generate" /\ phase' = "generate"
    BY <1>3 DEF GenUse, GenCall, Access, Exit, Next1, Generating
  <2>2. /\ d \in DOMAIN file /\ Decl.k = "func" /\ Decl = file[d]
        /\ i \in 1 .. Len(Body(Decl)) /\ Item = Body(file[d])[i]
        /\ Item.name \in STRING
    BY <2>1, InFunction DEF Generating, Used
  <2>3. Changed(syms', {Item.name}, {})
    BY <1>0, <2>1, <2>2, ChangedByReference
  <2>4. Uses(d, Item.name)
    BY <2>1, <2>2 DEF Uses
  <2> QED
    BY <2>1, <2>2, <2>3, <2>4 DEF TableStep
<1>4. CASE EndFunction
  <2>1. syms' = AddSym(Decl.name, ~Decl.static) /\ d <= Len(file)
    BY <1>4 DEF EndFunction, Exit, NamesInv, TypeOK
  <2>2. d \in DOMAIN file
    BY <2>1, FilesHave DEF NamesInv, TypeOK
  <2>3. Decl.name \in STRING /\ Decl.static \in BOOLEAN
    BY <2>2, DeclFacts DEF NamesInv
  <2>4. (~Decl.static) \in BOOLEAN
    BY <2>3, Zenon
  <2>5. Changed(syms', {}, {})
    BY <1>0, <2>1, <2>3, <2>4, ChangedByAddSym
  <2> QED
    BY <2>5 DEF TableStep
<1> QED
  BY <1>1, <1>2, <1>3, <1>4
     DEF CollectOpen, CollectClose, CloseBlock, CollectDecl, CollectOther, Prologue, GenOpen,
         GenClose, GenDecl, GenReturn, GenVa, GenOther, Access, Exit

(* A static function is used behind its definition only. *)
StaticsFirst ==
  \A x \in DOMAIN file :
    file[x].k = "func" /\ file[x].static => \A y \in 1 .. x : ~Uses(y, file[x].name)

(* An undefined symbol is used by a function already read, and what is in  *)
(* .data or .bss is a variable's.                                          *)
UndefinedUsed ==
  \A s \in DOMAIN syms : syms[s].sect = "undef" =>
    /\ phase # "globals"
    /\ \E y \in 1 .. d : y \in DOMAIN file /\ Uses(y, syms[s].name)
StorageMade ==
  \A s \in DOMAIN syms : syms[s].sect \in {"data", "bss"} => Storage(syms[s].name)

(* Every declaration behind which the compiler is has its symbol. *)
VarHeld(x) ==
  Holds(syms, file[x].name, IF file[x].init THEN "data" ELSE "bss", ~file[x].static)
FuncHeld(x) ==
  /\ Defined(syms, file[x].name)
  /\ StaticsFirst => Holds(syms, file[x].name, "text", ~file[x].static)
VarsHeld ==
  \A x \in DOMAIN file :
    file[x].k = "var" /\ (phase = "globals" => x < d) => VarHeld(x)
FuncsHeld ==
  \A x \in DOMAIN file :
    file[x].k = "func" /\ phase # "globals" /\ x < d => FuncHeld(x)

SymbolsInv ==
  /\ phase # "exited" => Lone /\ UndefinedUsed /\ StorageMade /\ VarsHeld /\ FuncsHeld
  /\ phase = "done" => d > Len(file)

(* It holds at first. *)
LEMMA SymbolsInit == Init => SymbolsInv
<1> SUFFICES ASSUME Init PROVE SymbolsInv
  OBVIOUS
<1>1. DOMAIN syms = {} /\ d = 1 /\ phase = "globals" /\ file \in Files
  BY DEF Init
<1>2. \A x \in DOMAIN file : ~(x < d)
  BY <1>1, FilesHave
<1> QED
  BY <1>1, <1>2 DEF Init, SymbolsInv, Lone, UndefinedUsed, StorageMade, VarsHeld, FuncsHeld

(* What lasts whatever the step is. *)
LEMMA SymbolsLast ==
  ASSUME NamesInv, SymbolsInv, phase # "exited", file' = file,
         d \in Nat, d' \in Nat, phase # "globals" => phase' # "globals" /\ d <= d',
         NEW X, NEW Y, TableStep(X, Y)
  PROVE  /\ Lone' /\ UndefinedUsed' /\ StorageMade'
         /\ \A x \in DOMAIN file : VarHeld(x) => VarHeld(x)'
         /\ \A x \in DOMAIN file : FuncHeld(x) => FuncHeld(x)'
<1> DEFINE t == syms'
<1>0. Lone /\ UndefinedUsed /\ StorageMade
  BY DEF SymbolsInv
<1>1. Changed(t, X, Y)
  BY DEF TableStep
<1>2. \A y, n : Uses(y, n)' = Uses(y, n)
  BY DEF Uses
<1>3. \A n : Storage(n) => Storage(n)'
  BY DEF Storage
<1>4. StaticsFirst' => StaticsFirst
  BY DEF StaticsFirst, Uses
<1> HIDE DEF t
<1>5. \A s \in DOMAIN t : t[s].sect = "undef" =>
         \/ s \in DOMAIN syms /\ t[s] = syms[s]
         \/ NewUndefined(t, s, X)
  BY <1>1 DEF Changed
<1>6. \A s, r \in DOMAIN t :
        t[s].sect = "undef" /\ t[r].sect = "undef" /\ t[s].name = t[r].name => s = r
  <2> SUFFICES ASSUME NEW s \in DOMAIN t, NEW r \in DOMAIN t,
                      t[s].sect = "undef", t[r].sect = "undef", t[s].name = t[r].name
               PROVE  s = r
    OBVIOUS
  <2>1. CASE /\ s \in DOMAIN syms /\ t[s] = syms[s]
             /\ r \in DOMAIN syms /\ t[r] = syms[r]
    BY <1>0, <2>1 DEF Lone
  <2>2. CASE NewUndefined(t, s, X) /\ NewUndefined(t, r, X)
    BY <2>2 DEF NewUndefined
  <2>3. CASE NewUndefined(t, s, X) /\ r \in DOMAIN syms /\ t[r] = syms[r]
    BY <2>3 DEF NewUndefined, Named
  <2>4. CASE NewUndefined(t, r, X) /\ s \in DOMAIN syms /\ t[s] = syms[s]
    BY <2>4 DEF NewUndefined, Named
  <2> QED
    BY <1>5, <2>1, <2>2, <2>3, <2>4
<1>7. \A s \in DOMAIN t : t[s].sect = "undef" => t[s].global = TRUE
  BY <1>0, <1>5 DEF Lone, NewUndefined
<1>8. Lone'
  BY <1>6, <1>7 DEF Lone, t
<1>9. UndefinedUsed'
  <2> SUFFICES ASSUME NEW s \in DOMAIN t, t[s].sect = "undef"
               PROVE  /\ phase' # "globals"
                      /\ \E y \in 1 .. d' : y \in DOMAIN file /\ Uses(y, t[s].name)
    BY <1>2 DEF UndefinedUsed, t
  <2>1. CASE s \in DOMAIN syms /\ t[s] = syms[s]
    <3>1. PICK y \in 1 .. d : y \in DOMAIN file /\ Uses(y, t[s].name)
      BY <1>0, <2>1 DEF UndefinedUsed
    <3>2. phase' # "globals" /\ d <= d'
      BY <1>0, <2>1 DEF UndefinedUsed
    <3>3. y \in 1 .. d'
      BY <3>2
    <3> QED
      BY <3>1, <3>2, <3>3
  <2>2. CASE NewUndefined(t, s, X)
    <3>1. /\ phase # "globals" /\ phase' # "globals"
          /\ d \in DOMAIN file /\ Uses(d, t[s].name)
      BY <2>2 DEF NewUndefined, TableStep
    <3>2. d \in 1 .. d'
      <4>1. d \in 1 .. Len(file) /\ d <= d'
        BY <3>1, FilesHave DEF NamesInv
      <4> QED
        BY <4>1
    <3> QED
      BY <3>1, <3>2
  <2> QED
    BY <1>5, <2>1, <2>2
<1>10. StorageMade'
  <2> SUFFICES ASSUME NEW s \in DOMAIN t, t[s].sect \in {"data", "bss"}
               PROVE  Storage(t[s].name)
    BY <1>3 DEF StorageMade, t
  <2>1. (s \in DOMAIN syms /\ t[s] = syms[s]) \/ t[s].name \in Y
    BY <1>1 DEF Changed
  <2> QED
    BY <1>0, <2>1 DEF StorageMade, TableStep
<1>11. ASSUME NEW x \in DOMAIN file, VarHeld(x) PROVE VarHeld(x)'
  <2> DEFINE sect == IF file[x].init THEN "data" ELSE "bss"
  <2>1. Holds(syms, file[x].name, sect, ~file[x].static) /\ sect # "undef"
    BY <1>11 DEF VarHeld
  <2>2. Holds(t, file[x].name, sect, ~file[x].static)
    BY <1>1, <2>1, DefinedStays
  <2> QED
    BY <2>2 DEF VarHeld, t
<1>12. ASSUME NEW x \in DOMAIN file, FuncHeld(x) PROVE FuncHeld(x)'
  <2>1. Defined(t, file[x].name)
    BY <1>1, <1>12, DefinedStays DEF FuncHeld
  <2>2. StaticsFirst => Holds(t, file[x].name, "text", ~file[x].static)
    BY <1>1, <1>12, DefinedStays DEF FuncHeld
  <2> QED
    BY <1>4, <2>1, <2>2 DEF FuncHeld, t
<1> QED
  BY <1>8, <1>9, <1>10, <1>11, <1>12

(* The declaration a step has passed has its symbol. *)
LEMMA GlobalHeld ==
  ASSUME NamesInv, GlobalVar, phase' # "exited", NEW x, x = d
  PROVE  VarHeld(x)'
<1> DEFINE sect == IF Decl.init THEN "data" ELSE "bss"
           off  == Align8(size[sect])
           e    == Symbol(Decl.name, sect, off, Decl.size, ~Decl.static)
<1>1. /\ d <= Len(file) /\ Decl.k = "var" /\ syms' = Append(syms, e) /\ file' = file
      /\ d' = d + 1
  BY DEF GlobalVar, Exit
<1>2. sect \in {"data", "bss"} /\ d \in DOMAIN file
  BY <1>1, FilesHave DEF NamesInv, TypeOK
<1>3. Decl.size \in Nat /\ Decl.name \in STRING /\ Decl.static \in BOOLEAN
  BY <1>1, <1>2, DeclFacts DEF NamesInv
<1>4. off \in Nat
  BY <1>2, Aligned DEF NamesInv, TypeOK
<1> DEFINE glob == ~Decl.static
<1>5. e.name = Decl.name /\ e.sect = sect /\ e.global = glob
  BY DEF Symbol
<1>6. e \in Symbols
  BY <1>2, <1>3, <1>4 DEF Symbol, Symbols
<1> HIDE DEF e, glob
<1>7. Len(syms) + 1 \in DOMAIN syms' /\ syms'[Len(syms) + 1] = e
  BY <1>1, <1>6, AppendedLast DEF NamesInv, TypeOK
<1>8. Holds(syms', Decl.name, sect, glob)
  BY <1>5, <1>7 DEF Holds
<1> QED
  BY <1>1, <1>8 DEF VarHeld, Decl, glob

LEMMA FunctionHeld ==
  ASSUME NamesInv, SymbolsInv, EndFunction, phase' # "exited", NEW x, x = d
  PROVE  FuncHeld(x)'
<1>1. /\ phase = "generate" /\ d <= Len(file) /\ Decl.k = "func" /\ file' = file
      /\ syms' = AddSym(Decl.name, ~Decl.static)
  BY DEF EndFunction, Exit, NamesInv, TypeOK
<1>2. d \in DOMAIN file
  BY <1>1, FilesHave DEF NamesInv, TypeOK
<1>3. Decl.name \in STRING /\ Decl.static \in BOOLEAN
  BY <1>2, DeclFacts DEF NamesInv
<1> DEFINE glob == ~Decl.static
<1>4. glob \in BOOLEAN
  BY <1>3, Zenon
<1> HIDE DEF glob
<1>5. /\ Defined(syms', Decl.name)
      /\ Holds(syms', Decl.name, "text", IF Waiting(Decl.name) = {} THEN glob ELSE TRUE)
  BY <1>1, <1>3, <1>4, AddSymDefines DEF SymbolsInv, NamesInv, TypeOK, glob
<1>6. ASSUME StaticsFirst, Waiting(Decl.name) # {}
      PROVE  glob = TRUE
  <2>1. PICK s \in DOMAIN syms : syms[s].name = Decl.name /\ syms[s].sect = "undef"
    BY <1>6 DEF Waiting, Named
  <2>2. PICK y \in 1 .. d : y \in DOMAIN file /\ Uses(y, Decl.name)
    BY <1>1, <2>1 DEF SymbolsInv, UndefinedUsed
  <2>3. ~file[d].static
    BY <1>1, <1>2, <1>6, <2>2 DEF StaticsFirst, Decl
  <2> QED
    BY <2>3, Zenon DEF glob, Decl
<1>7. StaticsFirst' => Holds(syms', Decl.name, "text", glob)
  <2>1. StaticsFirst' => StaticsFirst
    BY <1>1 DEF StaticsFirst, Uses
  <2>2. CASE Waiting(Decl.name) = {}
    BY <1>5, <2>2
  <2>3. CASE Waiting(Decl.name) # {}
    BY <1>5, <1>6, <2>1, <2>3
  <2> QED
    BY <2>2, <2>3
<1> QED
  BY <1>1, <1>5, <1>7 DEF FuncHeld, Decl, glob

(* Every step keeps what is known of the symbols. *)
LEMMA SymbolsStep ==
  ASSUME NamesInv, SymbolsInv, [Next]_vars
  PROVE  SymbolsInv'
<1>1. CASE UNCHANGED vars
  BY <1>1 DEF vars, SymbolsInv, Lone, UndefinedUsed, StorageMade, VarsHeld, FuncsHeld,
              VarHeld, FuncHeld, StaticsFirst, Uses, Storage
<1>2. CASE Next /\ phase' # "exited"
  <2>0. d \in Nat /\ Len(file) \in Nat /\ DOMAIN file = 1 .. Len(file)
    BY FilesHave DEF NamesInv, TypeOK
  <2>1. \E X, Y : TableStep(X, Y)
    BY <1>2, FileTable, FunctionTable DEF Next
  <2>2. CASE GlobalVar
    <3>1. phase = "globals" /\ phase' = "globals" /\ d' = d + 1 /\ file' = file
      BY <1>2, <2>2 DEF GlobalVar, Exit
    <3>2. /\ Lone' /\ UndefinedUsed' /\ StorageMade'
          /\ \A x \in DOMAIN file : VarHeld(x) => VarHeld(x)'
      BY <2>0, <2>1, <3>1, SymbolsLast
    <3>3. \A x \in DOMAIN file : x = d => VarHeld(x)'
      BY <1>2, <2>2, GlobalHeld
    <3>4. \A x \in DOMAIN file : x < d' => x < d \/ x = d
      BY <2>0, <3>1
    <3> QED
      BY <3>1, <3>2, <3>3, <3>4 DEF SymbolsInv, VarsHeld, FuncsHeld
  <2>3. CASE SkipFunction
    <3>1. /\ phase = "globals" /\ phase' = "globals" /\ d' = d + 1 /\ file' = file
          /\ file[d].k = "func"
      BY <1>2, <2>3 DEF SkipFunction, Decl
    <3>2. /\ Lone' /\ UndefinedUsed' /\ StorageMade'
          /\ \A x \in DOMAIN file : VarHeld(x) => VarHeld(x)'
      BY <2>0, <2>1, <3>1, SymbolsLast
    <3>3. \A x \in DOMAIN file : x < d' => x < d \/ x = d
      BY <2>0, <3>1
    <3> QED
      BY <3>1, <3>2, <3>3 DEF SymbolsInv, VarsHeld, FuncsHeld
  <2>4. CASE Functions
    <3>1. phase = "globals" /\ d > Len(file) /\ phase' = "functions" /\ d' = 1 /\ file' = file
      BY <1>2, <2>4 DEF Functions, Exit
    <3>2. /\ Lone' /\ UndefinedUsed' /\ StorageMade'
          /\ \A x \in DOMAIN file : VarHeld(x) => VarHeld(x)'
      BY <2>0, <2>1, <3>1, SymbolsLast
    <3>3. \A x \in DOMAIN file : x < d /\ ~(x < d')
      BY <2>0, <3>1
    <3> QED
      BY <3>1, <3>2, <3>3 DEF SymbolsInv, VarsHeld, FuncsHeld
  <2>5. CASE SkipVar
    <3>1. /\ phase = "functions" /\ phase' = "functions" /\ d' = d + 1 /\ file' = file
          /\ file[d].k = "var"
      BY <1>2, <2>5 DEF SkipVar, Decl
    <3>2. /\ Lone' /\ UndefinedUsed' /\ StorageMade'
          /\ \A x \in DOMAIN file : VarHeld(x) => VarHeld(x)'
          /\ \A x \in DOMAIN file : FuncHeld(x) => FuncHeld(x)'
      BY <2>0, <2>1, <3>1, SymbolsLast
    <3>3. \A x \in DOMAIN file : x < d' => x < d \/ x = d
      BY <2>0, <3>1
    <3> QED
      BY <3>1, <3>2, <3>3 DEF SymbolsInv, VarsHeld, FuncsHeld
  <2>6. CASE EndFunction
    <3>1. phase = "generate" /\ phase' = "functions" /\ d' = d + 1 /\ file' = file
      BY <1>2, <2>6 DEF EndFunction, Exit
    <3>2. /\ Lone' /\ UndefinedUsed' /\ StorageMade'
          /\ \A x \in DOMAIN file : VarHeld(x) => VarHeld(x)'
          /\ \A x \in DOMAIN file : FuncHeld(x) => FuncHeld(x)'
      BY <2>0, <2>1, <3>1, SymbolsLast
    <3>3. \A x \in DOMAIN file : x = d => FuncHeld(x)'
      BY <1>2, <2>6, <3>1, FunctionHeld
    <3>4. \A x \in DOMAIN file : x < d' => x < d \/ x = d
      BY <2>0, <3>1
    <3> QED
      BY <3>1, <3>2, <3>3, <3>4 DEF SymbolsInv, VarsHeld, FuncsHeld
  <2>7. CASE \/ Compiled \/ StartFunction \/ CollectOpen \/ CollectClose \/ CollectDecl
             \/ CollectStatic \/ CollectOther \/ Prologue
             \/ GenOpen \/ GenClose \/ GenDecl \/ GenUse \/ GenCall \/ GenReturn
             \/ GenVa \/ GenOther
    <3>1. /\ phase \in {"functions", "collect", "generate"}
          /\ phase' \in {"collect", "generate", "done"} /\ d' = d /\ file' = file
      BY <1>2, <2>7
         DEF Compiled, StartFunction, CollectOpen, CollectClose, CloseBlock, CollectDecl,
             CollectStatic, CollectOther, Prologue, GenOpen, GenClose, GenDecl, GenUse,
             GenCall, GenReturn, GenVa, GenOther, Access, Exit, Next1, Collecting, Generating
    <3>2. /\ Lone' /\ UndefinedUsed' /\ StorageMade'
          /\ \A x \in DOMAIN file : VarHeld(x) => VarHeld(x)'
          /\ \A x \in DOMAIN file : FuncHeld(x) => FuncHeld(x)'
      BY <2>0, <2>1, <3>1, SymbolsLast
    <3> QED
      <4>1. phase' = "done" => d' > Len(file')
        BY <2>7, <3>1
           DEF Compiled, StartFunction, CollectOpen, CollectClose, CloseBlock, CollectDecl,
               CollectStatic, CollectOther, Prologue, GenOpen, GenClose, GenDecl, GenUse,
               GenCall, GenReturn, GenVa, GenOther, Access, Exit, Next1, Collecting,
               Generating
      <4> QED
        BY <3>1, <3>2, <4>1 DEF SymbolsInv, VarsHeld, FuncsHeld
  <2> QED
    BY <1>2, <2>2, <2>3, <2>4, <2>5, <2>6, <2>7 DEF Next
<1> QED
  BY <1>1, <1>2 DEF SymbolsInv



(* In every file whose static functions are defined before they are used,  *)
(* every function and every variable of the file is at the end in its      *)
(* section, visible to the linker exactly if it is not static.             *)
THEOREM NamesLinked == Spec => [](phase = "done" /\ StaticsFirst => Linked)
<1>1. NamesInv /\ SymbolsInv => (phase = "done" /\ StaticsFirst => Linked)
  <2> SUFFICES ASSUME NamesInv, SymbolsInv, phase = "done", StaticsFirst, d > Len(file),
                      NEW x \in DOMAIN file
               PROVE  \E s \in DOMAIN syms :
                        /\ syms[s].name = file[x].name
                        /\ syms[s].sect = (IF file[x].k = "func" THEN "text"
                                           ELSE IF file[x].init THEN "data" ELSE "bss")
                        /\ syms[s].global = ~file[x].static
    BY DEF Linked, SymbolsInv
  <2>1. x < d /\ file[x].k \in {"var", "func"}
    <3>1. x \in 1 .. Len(file) /\ Len(file) \in Nat /\ d \in Nat
      BY FilesHave DEF NamesInv, TypeOK
    <3> QED
      BY <3>1, FilesHave DEF NamesInv
  <2>2. CASE file[x].k = "var"
    <3>1. Holds(syms, file[x].name, IF file[x].init THEN "data" ELSE "bss", ~file[x].static)
      BY <2>2 DEF SymbolsInv, VarsHeld, VarHeld
    <3> QED
      BY <2>2, <3>1 DEF Holds
  <2>3. CASE file[x].k = "func"
    <3>1. Holds(syms, file[x].name, "text", ~file[x].static)
      BY <2>1, <2>3 DEF SymbolsInv, FuncsHeld, FuncHeld
    <3> QED
      BY <2>3, <3>1 DEF Holds
  <2> QED
    BY <2>1, <2>2, <2>3
<1> QED
  BY <1>1, InitInv, StepInv, SymbolsInit, SymbolsStep, PTL DEF Spec

(* The stores, loads and calls emitted. *)
Emitted == [op : {"store", "load", "call"}, fn : Nat, at : Int,
            mem : [in : {"frame", "symbol"}, pos : Int], len : Nat]

(* The initialisers of the file's variables are stores to their symbols,   *)
(* which there are when functions are compiled.                            *)
GlobalStores == {x \in Emitted : /\ x.op = "store" /\ x.at = 0 /\ x.mem.in = "symbol"
                                 /\ x.mem.pos \in DOMAIN syms}
VarsNamed == \A v \in Initialised : Named(file[v].name) # {}

LEMMA VarsAreNamed ==
  ASSUME NamesInv, SymbolsInv, phase \notin {"globals", "exited"}
  PROVE  VarsNamed
BY DEF SymbolsInv, VarsHeld, VarHeld, Holds, VarsNamed, Initialised, Named

LEMMA SymbolOfNat == ASSUME syms \in Seq(Symbols), NEW n PROVE SymbolOf(n) \in Nat
<1>1. Named(n) \subseteq Nat
  BY DEF Named
<1>2. CASE Named(n) = {}
  BY <1>2 DEF SymbolOf
<1>3. CASE Named(n) # {}
  <2>1. MinOf(Named(n)) \in Nat
    BY <1>1, <1>3, HasMin
  <2> QED
    BY <1>3, <2>1 DEF SymbolOf
<1> QED
  BY <1>2, <1>3

LEMMA InitStoreType ==
  ASSUME syms \in Seq(Symbols), VarsNamed, NEW v \in Nat
  PROVE  InitStore(v) \in Seq(GlobalStores)
<1> DEFINE x == Ins("store", v, 0, InSymbol(SymbolOf(file[v].name)),
                    IF file[v].size = 8 THEN 8 ELSE 4)
<1>1. CASE v \in Initialised
  <2>1. SymbolOf(file[v].name) \in DOMAIN syms
    <3> DEFINE S == Named(file[v].name)
    <3>1. S # {} /\ S \subseteq Nat /\ S \subseteq DOMAIN syms
      BY <1>1 DEF VarsNamed, Named
    <3>2. MinOf(S) \in S
      <4> HIDE DEF S
      <4> QED
        BY <3>1, HasMin
    <3> QED
      BY <3>1, <3>2 DEF SymbolOf
  <2>2. x \in Emitted /\ x.op = "store" /\ x.at = 0 /\ x.mem.in = "symbol"
        /\ x.mem.pos \in DOMAIN syms
    BY <2>1 DEF Ins, InSymbol, Emitted
  <2> HIDE DEF x
  <2>3. x \in GlobalStores
    BY <2>2 DEF GlobalStores
  <2>4. <<x>> \in Seq(GlobalStores)
    BY <2>3
  <2> QED
    BY <1>1, <2>4 DEF InitStore, x
<1>2. CASE v \notin Initialised
  BY <1>2 DEF InitStore
<1> QED
  BY <1>1, <1>2

(* What InitStores is at v, of what it is before. *)
InitsAt(g, v) == IF v = 0 THEN <<>> ELSE g[v - 1] \o InitStore(v)

(* There is such a function. *)
LEMMA InitsExist ==
  ASSUME NEW N \in Nat
  PROVE  \E g : g = [v \in 0 .. N |-> InitsAt(g, v)]
<1> DEFINE Good(n) == \E g : g = [v \in 0 .. n |-> InitsAt(g, v)]
           Bad == {n \in Nat : ~Good(n)}
<1>1. SUFFICES ASSUME Bad # {} PROVE FALSE
  OBVIOUS
<1>2. PICK n \in Bad : \A m \in Bad : n <= m
  <2>1. Bad \subseteq Nat
    OBVIOUS
  <2> HIDE DEF Bad
  <2> QED
    BY <1>1, <2>1, HasMin
<1>3. n # 0
  <2> DEFINE g == [v \in 0 .. 0 |-> <<>>]
  <2>1. g = [v \in 0 .. 0 |-> InitsAt(g, v)]
    BY DEF InitsAt
  <2>2. Good(0)
    BY <2>1
  <2> QED
    BY <2>2
<1>4. n - 1 \in Nat /\ n - 1 \notin Bad
  BY <1>2, <1>3
<1>5. PICK h : h = [v \in 0 .. n - 1 |-> InitsAt(h, v)]
  BY <1>4
<1> DEFINE g == [v \in 0 .. n |-> IF v = n THEN h[n - 1] \o InitStore(n) ELSE h[v]]
<1>6. ASSUME NEW v \in 0 .. n PROVE g[v] = InitsAt(g, v)
  <2>1. CASE v = n
    <3>1. n - 1 \in 0 .. n /\ n - 1 # n
      BY <1>4
    <3>2. g[n - 1] = h[n - 1]
      BY <3>1
    <3> QED
      BY <1>3, <2>1, <3>2 DEF InitsAt
  <2>2. CASE v # n /\ v # 0
    <3>1. v \in 0 .. n - 1 /\ v - 1 \in 0 .. n /\ v - 1 # n
      BY <2>2
    <3>2. g[v] = h[v] /\ g[v - 1] = h[v - 1]
      BY <2>2, <3>1
    <3>3. h[v] = InitsAt(h, v)
      BY <1>5, <3>1
    <3> QED
      BY <2>2, <3>2, <3>3 DEF InitsAt
  <2>3. CASE v # n /\ v = 0
    <3>1. v \in 0 .. n - 1
      BY <1>4, <2>3
    <3>2. g[v] = h[v] /\ h[v] = InitsAt(h, v)
      BY <1>5, <2>3, <3>1
    <3> QED
      BY <2>3, <3>2 DEF InitsAt
  <2> QED
    BY <2>1, <2>2, <2>3
<1>7. g = [v \in 0 .. n |-> InitsAt(g, v)]
  BY <1>6, Zenon
<1> HIDE DEF g
<1>8. Good(n)
  BY <1>7
<1> QED
  BY <1>2, <1>8

LEMMA InitStoresType ==
  ASSUME syms \in Seq(Symbols), VarsNamed, file \in Files
  PROVE  InitGlobals \in Seq(GlobalStores)
<1> DEFINE N == Len(file)
           f == InitStores
<1>1. N \in Nat
  BY FilesHave
<1>2. \E g : g = [v \in 0 .. N |-> InitsAt(g, v)]
  BY <1>1, InitsExist, Zenon
<1>3. f = [v \in 0 .. N |-> InitsAt(f, v)]
  BY <1>2 DEF InitStores, InitsAt
<1> HIDE DEF N, f
<1> DEFINE Bad == {v \in 0 .. N : f[v] \notin Seq(GlobalStores)}
<1>6. \A v \in 0 .. N : f[v] = InitsAt(f, v)
  <2> SUFFICES ASSUME NEW v \in 0 .. N PROVE f[v] = InitsAt(f, v)
    OBVIOUS
  <2> DEFINE g == f
  <2>1. f = [w \in 0 .. N |-> InitsAt(g, w)]
    BY <1>3
  <2> HIDE DEF g
  <2>2. f[v] = InitsAt(g, v)
    BY <2>1
  <2> QED
    BY <2>2 DEF g
<1>4. Bad = {}
  <2> SUFFICES ASSUME Bad # {} PROVE FALSE
    OBVIOUS
  <2>1. PICK v \in Bad : \A w \in Bad : v <= w
    <3>1. Bad \subseteq Nat
      OBVIOUS
    <3> HIDE DEF Bad
    <3> QED
      BY <3>1, HasMin
  <2>2. v \in 0 .. N /\ f[v] \notin Seq(GlobalStores) /\ f[v] = InitsAt(f, v)
    BY <1>6, <2>1
  <2>3. v # 0
    <3>1. <<>> \in Seq(GlobalStores)
      OBVIOUS
    <3> QED
      BY <2>2, <3>1, Zenon DEF InitsAt
  <2>4. v - 1 \in 0 .. N /\ v - 1 \notin Bad
    BY <1>1, <2>1, <2>3
  <2>5. f[v - 1] \in Seq(GlobalStores) /\ InitStore(v) \in Seq(GlobalStores)
    <3>1. v \in Nat
      BY <1>1, <2>2
    <3> QED
      BY <2>4, <3>1, InitStoreType
  <2>6. f[v] = f[v - 1] \o InitStore(v)
    BY <2>2, <2>3, Zenon DEF InitsAt
  <2> QED
    BY <2>2, <2>5, <2>6
<1>5. f[N] \in Seq(GlobalStores)
  BY <1>1, <1>4
<1> QED
  BY <1>5 DEF InitGlobals, N, f

-----------------------------------------------------------------------------
(* The code. *)

(* What the search for a local variable finds is one. *)
LEMMA FoundIsLocal ==
  ASSUME locals \in Seq(Locals), NEW n, SearchLocal(n) # 0
  PROVE  SearchLocal(n) \in DOMAIN locals
<1>1. Filtered(n) \subseteq NotDeeper(n) /\ NotDeeper(n) \subseteq 1 .. Len(locals)
      /\ Len(locals) \in Nat /\ DOMAIN locals = 1 .. Len(locals)
  BY DEF Filtered, NotDeeper
<1>2. CASE Filtered(n) # {}
  <2>1. MaxOf(Filtered(n)) \in Filtered(n)
    BY <1>1, <1>2, HasMax
  <2> QED
    BY <1>1, <1>2, <2>1 DEF SearchLocal
<1>3. CASE Filtered(n) = {} /\ NotDeeper(n) # {}
  <2>1. MaxOf(NotDeeper(n)) \in NotDeeper(n)
    BY <1>1, <1>3, HasMax
  <2> QED
    BY <1>1, <1>3, <2>1 DEF SearchLocal
<1> QED
  BY <1>2, <1>3 DEF SearchLocal

(* What the second pass emits for the item it is at. *)
GenIns(e) ==
  /\ e \in Emitted /\ e.fn = d /\ e.at = i
  /\ e.op = "call" => /\ Item.k = "call" /\ e.mem.pos \in DOMAIN syms'
                      /\ syms'[e.mem.pos].name = Item.name
  /\ e.op = "store" /\ e.mem.in = "frame" =>
       \E l \in DOMAIN locals : e.mem.pos = locals[l].offset
  /\ e.op = "store" /\ e.mem.in = "symbol" => e.mem.pos \in DOMAIN syms'
  /\ e.op = "load" /\ Item.k = "return" => /\ Decl.big /\ e.len = 8
                                           /\ e.mem = InFrame(hidden)
  /\ e.op = "load" /\ Item.k = "va" => e.len = 48 /\ e.mem = InFrame(saveArea)

(* A move to or from a local variable. *)
LEMMA AccessIns ==
  ASSUME NamesInv, Generating, NEW op \in {"store", "load"}, NEW l \in DOMAIN locals,
         NEW len \in Nat, op = "load" => Item.k \notin {"return", "va"}
  PROVE  GenIns(Ins(op, d, i, InFrame(locals[l].offset), len))
<1> DEFINE e == Ins(op, d, i, InFrame(locals[l].offset), len)
<1>1. locals[l].offset \in Int /\ d \in Nat /\ i \in Nat
  BY LocalFacts DEF NamesInv, TypeOK
<1>2. /\ e.op = op /\ e.fn = d /\ e.at = i /\ e.mem = InFrame(locals[l].offset)
      /\ e.mem.pos = locals[l].offset /\ e.mem.in = "frame"
  BY DEF Ins, InFrame
<1>3. e \in Emitted
  BY <1>1 DEF Ins, InFrame, Emitted
<1> HIDE DEF e
<1>4. GenIns(e)
  BY <1>2, <1>3 DEF GenIns
<1> QED
  BY <1>4 DEF e

(* The widths of moves are numbers. *)
LEMMA WidthType == ASSUME NEW n \in Nat PROVE Width(n) \in Nat /\ ParamWidth(n) \in Nat
BY DEF Width, ParamWidth

LEMMA SizeKnownType == ASSUME syms \in Seq(Symbols), NEW n PROVE SizeKnown(n) \in Nat
<1>1. CASE Named(n) # {}
  <2>1. Named(n) \subseteq Nat
    BY DEF Named
  <2>2. MinOf(Named(n)) \in DOMAIN syms
    BY <1>1, <2>1, HasMin DEF Named
  <2>3. syms[MinOf(Named(n))] \in Symbols
    BY <2>2
  <2> QED
    BY <1>1, <2>3 DEF SizeKnown, SymbolOf, Symbols
<1> QED
  BY <1>1 DEF SizeKnown

(* A step of the second pass emits nothing or one instruction. *)
LEMMA GenerateCode ==
  ASSUME NamesInv, phase' # "exited",
         \/ GenOpen \/ GenClose \/ GenDecl \/ GenUse \/ GenCall \/ GenReturn
         \/ GenVa \/ GenOther
  PROVE  code' = code \/ \E e : GenIns(e) /\ code' = Append(code, e)
<1>0. locals \in Seq(Locals) /\ syms \in Seq(Symbols) /\ Len(syms) <= MaxSyms
      /\ d \in Nat /\ i \in Nat /\ hidden \in Int /\ saveArea \in Int
  BY DEF NamesInv, TypeOK
<1>1. CASE GenOpen \/ GenClose \/ GenOther
  BY <1>1 DEF GenOpen, GenClose, CloseBlock, GenOther
<1>2. CASE GenDecl
  <2> DEFINE l == SearchLocal(Item.name)
  <2>1. CASE Item.init /\ l # 0
    <3>1. Generating /\ Access("store", l)
      BY <1>2, <2>1 DEF GenDecl
    <3>2. l \in DOMAIN locals
      BY <1>0, <2>1, FoundIsLocal
    <3>3. Width(locals[l].size) \in Nat
      BY <1>0, <3>2, LocalFacts, WidthType
    <3> QED
      BY <3>1, <3>2, <3>3, AccessIns DEF Access
  <2> QED
    BY <1>2, <2>1 DEF GenDecl
<1>3. CASE GenUse
  <2> DEFINE l == SearchLocal(Item.name)
             op == IF Item.k = "get" THEN "load" ELSE "store"
             len == IF op = "load" THEN LoadWidth(Item.name) ELSE StoreWidth(Item)
             e == Ins(op, d, i, InSymbol(SymbolOf(Item.name)), len)
  <2>1. Generating /\ Item.k \in {"get", "set"}
    BY <1>3 DEF GenUse
  <2>2. CASE l # 0
    <3>1. Access(op, l)
      BY <1>3, <2>2 DEF GenUse
    <3>2. l \in DOMAIN locals
      BY <1>0, <2>2, FoundIsLocal
    <3>3. Width(locals[l].size) \in Nat
      BY <1>0, <3>2, LocalFacts, WidthType
    <3>4. op \in {"store", "load"}
      OBVIOUS
    <3> HIDE DEF op, l
    <3>5. GenIns(Ins(op, d, i, InFrame(locals[l].offset), Width(locals[l].size)))
      BY <2>1, <3>2, <3>3, <3>4, AccessIns
    <3> QED
      BY <3>1, <3>5 DEF Access
  <2>3. CASE l = 0 /\ ~NoRoomFor(Item.name)
    <3>1. code' = Append(code, e) /\ syms' = WithSymbol(Item.name)
      BY <1>3, <2>3 DEF GenUse
    <3>8. Item.name \in STRING
      BY <2>1, InFunction DEF Generating, Used
    <3>9. SymbolOf(Item.name) \in DOMAIN syms'
      BY <1>0, <2>3, <3>1, <3>8, ChangedByReference
    <3>2. SymbolOf(Item.name) \in Nat /\ SizeKnown(Item.name) \in Nat
      BY <1>0, SymbolOfNat, SizeKnownType
    <3>3. len \in Nat
      BY <3>2, WidthType DEF LoadWidth, StoreWidth
    <3>4. op \in {"store", "load"}
      OBVIOUS
    <3> HIDE DEF op, len
    <3>5. e \in Emitted
      BY <1>0, <3>2, <3>3, <3>4 DEF Ins, InSymbol, Emitted
    <3>6. /\ e.op = op /\ e.fn = d /\ e.at = i /\ e.mem.in = "symbol"
          /\ e.mem.pos = SymbolOf(Item.name)
      BY DEF Ins, InSymbol
    <3> HIDE DEF e
    <3>7. GenIns(e)
      BY <2>1, <3>4, <3>5, <3>6, <3>9 DEF GenIns
    <3> QED
      BY <3>1, <3>7
  <2>4. CASE l = 0 /\ NoRoomFor(Item.name)
    BY <1>3, <2>4 DEF GenUse
  <2> QED
    BY <2>2, <2>3, <2>4
<1>4. CASE GenCall
  <2> DEFINE l == SearchLocal(Item.name)
             e == Ins("call", d, i, InSymbol(SymbolOf(Item.name)), 0)
  <2>1. Generating /\ Item.k = "call"
    BY <1>4 DEF GenCall
  <2>2. CASE l # 0
    <3>1. code' = Append(code, Ins("load", d, i, InFrame(locals[l].offset), 8))
      BY <1>4, <2>2 DEF GenCall
    <3>2. l \in DOMAIN locals
      BY <1>0, <2>2, FoundIsLocal
    <3> HIDE DEF l
    <3>3. GenIns(Ins("load", d, i, InFrame(locals[l].offset), 8))
      BY <2>1, <3>2, AccessIns
    <3> QED
      BY <3>1, <3>3
  <2>3. CASE l = 0
    <3>1. ~NoRoomFor(Item.name) /\ code' = Append(code, e) /\ syms' = WithSymbol(Item.name)
      BY <1>4, <2>3 DEF GenCall, Exit
    <3>2. Item.name \in STRING
      BY <2>1, InFunction DEF Generating, Used
    <3>3. /\ SymbolOf(Item.name) \in DOMAIN syms'
          /\ syms'[SymbolOf(Item.name)].name = Item.name
      BY <1>0, <3>1, <3>2, ChangedByReference
    <3>4. SymbolOf(Item.name) \in Nat
      BY <1>0, SymbolOfNat
    <3>5. e \in Emitted
      BY <1>0, <3>4 DEF Ins, InSymbol, Emitted
    <3>6. /\ e.op = "call" /\ e.fn = d /\ e.at = i
          /\ e.mem.pos = SymbolOf(Item.name)
      BY DEF Ins, InSymbol
    <3> HIDE DEF e
    <3>7. GenIns(e)
      BY <2>1, <3>3, <3>5, <3>6 DEF GenIns
    <3> QED
      BY <3>1, <3>7
  <2> QED
    BY <2>2, <2>3
<1>5. CASE GenReturn
  <2> DEFINE e == Ins("load", d, i, InFrame(hidden), 8)
  <2>1. e \in Emitted
    BY <1>0 DEF Ins, InFrame, Emitted
  <2>2. /\ e.op = "load" /\ e.fn = d /\ e.at = i /\ e.mem = InFrame(hidden)
        /\ e.len = 8
    BY DEF Ins, InFrame
  <2>3. Item.k = "return" /\ code' = IF Decl.big THEN Append(code, e) ELSE code
    BY <1>5 DEF GenReturn
  <2> HIDE DEF e
  <2>4. CASE Decl.big
    <3>1. GenIns(e)
      BY <2>1, <2>2, <2>3, <2>4 DEF GenIns
    <3> QED
      BY <2>3, <2>4, <3>1
  <2> QED
    BY <2>3, <2>4
<1>6. CASE GenVa
  <2> DEFINE e == Ins("load", d, i, InFrame(saveArea), 48)
  <2>1. e \in Emitted
    BY <1>0 DEF Ins, InFrame, Emitted
  <2>2. /\ e.op = "load" /\ e.fn = d /\ e.at = i /\ e.mem = InFrame(saveArea)
        /\ e.len = 48
    BY DEF Ins, InFrame
  <2>3. Item.k = "va" /\ code' = Append(code, e)
    BY <1>6 DEF GenVa
  <2> HIDE DEF e
  <2>4. GenIns(e)
    BY <2>1, <2>2, <2>3 DEF GenIns
  <2> QED
    BY <2>3, <2>4
<1> QED
  BY <1>1, <1>2, <1>3, <1>4, <1>5, <1>6

(* The prologue stores every parameter in a local variable. *)
ParamStores == {x \in Emitted : /\ x.op = "store" /\ x.fn = d /\ x.at \in Nat
                                /\ x.mem.in = "frame"
                                /\ \E l \in DOMAIN locals : x.mem.pos = locals[l].offset}

LEMMA SaveParamsType ==
  ASSUME NamesInv, ScopeInv, Prologue
  PROVE  SaveParams \in Seq(ParamStores)
<1>1. phase = "collect" /\ i > Len(Body(Decl)) /\ i \in Nat /\ d \in Nat
  BY DEF Prologue, NamesInv, TypeOK
<1>2. d \in DOMAIN file /\ Decl.k = "func" /\ Decl \in FuncDecls /\ Len(Body(Decl)) \in Nat
  <2>1. d \in DOMAIN file /\ Decl.k = "func" /\ file \in Files
    BY <1>1, FilesHave DEF NamesInv, TypeOK
  <2> QED
    BY <2>1, FilesHave DEF Decl
<1> DEFINE b == Body(Decl)
<1>3. i - 1 = Len(b)
  BY <1>1, <1>2 DEF ScopeInv
<1>4. PICK c : Entered(b, Len(b), c, locals)
  BY <1>1, <1>3 DEF ScopeInv, Passed
<1>5. /\ DOMAIN Decl.params = 1 .. Len(Decl.params) /\ Len(Decl.params) \in Nat
      /\ \A p \in DOMAIN Decl.params :
           p + 1 \in 1 .. Len(b) /\ b[p + 1] = Param(Decl.params[p])
  BY <1>2, BodyFacts
<1>6. ASSUME NEW p \in DOMAIN Decl.params
      PROVE  SaveParams[p] \in ParamStores
  <2> DEFINE n == Decl.params[p].name
             q == p + 1
             L == {l \in DOMAIN locals : locals[l].name = n}
             l == locals[FirstLocal(n)]
             x == Ins("store", d, p + 1, InFrame(l.offset), ParamWidth(l.size))
  <2>1. q \in 1 .. Len(b) /\ b[q].k = "decl" /\ b[q].name = n
    <3>1. q \in 1 .. Len(b) /\ b[q] = Param(Decl.params[p])
      BY <1>5
    <3>2. Param(Decl.params[p]).k = "decl" /\ Param(Decl.params[p]).name = n
      BY DEF Param
    <3> HIDE DEF b, n, q
    <3> QED
      BY <3>1, <3>2
  <2> HIDE DEF b, q
  <2>2. Count(b, q) \in DOMAIN locals /\ locals[Count(b, q)].name = n
    <3>1. /\ Count(b, q) \in 1 .. Len(locals)
          /\ locals[Count(b, q)].name = b[q].name
      BY <1>4, <2>1 DEF Entered
    <3> QED
      BY <2>1, <3>1 DEF NamesInv, TypeOK
  <2>3. FirstLocal(n) \in DOMAIN locals
    <3>1. L # {} /\ L \subseteq Nat
      BY <2>2 DEF NamesInv, TypeOK
    <3>2. MinOf(L) \in L
      <4> HIDE DEF L
      <4> QED
        BY <3>1, HasMin
    <3> QED
      BY <3>2 DEF FirstLocal
  <2>4. l.offset \in Int /\ ParamWidth(l.size) \in Nat
    BY <2>3, LocalFacts, WidthType DEF NamesInv, TypeOK
  <2>5. x \in Emitted /\ p + 1 \in Nat
    <3>1. p \in Nat
      BY <1>5
    <3> HIDE DEF l, n
    <3> QED
      BY <1>1, <2>4, <3>1 DEF Ins, InFrame, Emitted
  <2>6. /\ x.op = "store" /\ x.fn = d /\ x.at = p + 1 /\ x.mem.in = "frame"
        /\ x.mem.pos = locals[FirstLocal(n)].offset
    BY DEF Ins, InFrame
  <2>7. SaveParams[p] = x
    BY DEF SaveParams
  <2> HIDE DEF x, l, n
  <2> QED
    BY <2>3, <2>5, <2>6, <2>7 DEF ParamStores
<1>7. DOMAIN SaveParams = 1 .. Len(Decl.params)
  BY <1>5 DEF SaveParams
<1>8. SaveParams = [p \in 1 .. Len(Decl.params) |-> SaveParams[p]]
  BY <1>5 DEF SaveParams
<1> DEFINE S == SaveParams
           N == Len(Decl.params)
<1> HIDE DEF S, N
<1>9. S = [p \in 1 .. N |-> S[p]] /\ N \in Nat /\ \A p \in 1 .. N : S[p] \in ParamStores
  BY <1>5, <1>6, <1>8 DEF S, N
<1>10. S \in Seq(ParamStores)
  BY <1>9
<1> QED
  BY <1>10 DEF S

(* What is behind a joint came from one side or the other. *)
LEMMA JoinedFrom ==
  ASSUME NEW T, NEW s \in Seq(T), NEW t \in Seq(T), NEW x \in DOMAIN (s \o t)
  PROVE  \/ x \in DOMAIN s /\ (s \o t)[x] = s[x]
         \/ \E y \in DOMAIN t : x = Len(s) + y /\ (s \o t)[x] = t[y]
<1>1. CASE x <= Len(s)
  BY <1>1
<1>2. CASE ~(x <= Len(s))
  <2>1. x - Len(s) \in DOMAIN t /\ x = Len(s) + (x - Len(s))
    BY <1>2
  <2>2. (s \o t)[x] = t[x - Len(s)]
    BY <1>2
  <2> QED
    BY <2>1, <2>2
<1> QED
  BY <1>1, <1>2

(* A sequence s continued by parts taken from P. *)
Continued(s, u, P) ==
  /\ u \in Seq(Emitted) /\ Len(s) <= Len(u)
  /\ \A x \in DOMAIN s : x \in DOMAIN u /\ u[x] = s[x]
  /\ \A x \in DOMAIN u : x \in DOMAIN s \/ u[x] \in P

LEMMA ContinuedBy ==
  ASSUME NEW P, P \subseteq Emitted, NEW s \in Seq(Emitted), NEW t \in Seq(P)
  PROVE  Continued(s, s \o t, P)
<1>1. t \in Seq(Emitted)
  <2>1. \A y \in DOMAIN t : t[y] \in Emitted
    OBVIOUS
  <2> QED
    BY <2>1
<1>2. s \o t \in Seq(Emitted) /\ Len(s \o t) = Len(s) + Len(t)
  BY <1>1, Joined
<1>3. \A x \in 1 .. Len(s) : (s \o t)[x] = s[x]
  BY <1>1, JoinedFront
<1>4. ASSUME NEW x \in DOMAIN (s \o t), x \notin DOMAIN s
      PROVE  (s \o t)[x] \in P
  <2>1. PICK y \in DOMAIN t : (s \o t)[x] = t[y]
    BY <1>1, <1>4, JoinedFrom
  <2> QED
    BY <2>1
<1>5. \A x \in DOMAIN s : x \in DOMAIN (s \o t)
  BY <1>2
<1>6. Len(s) <= Len(s \o t)
  BY <1>1, <1>2
<1> QED
  BY <1>2, <1>3, <1>4, <1>5, <1>6 DEF Continued

(* What the prologue stores for the function: the hidden pointer and the   *)
(* register save area.                                                     *)
HiddenStore(f, pos) == Ins("store", f, -1, InFrame(pos), 8)
AreaStore(f, pos)   == Ins("store", f, -2, InFrame(pos), 48)

(* The prologue emits them once each, and around them stores of parameters *)
(* and of the file's variables.                                            *)
LEMMA PrologueCode ==
  ASSUME NamesInv, ScopeInv, VarsNamed, code \in Seq(Emitted), Prologue
  PROVE  /\ Continued(code, code', Emitted)
         /\ Decl.big => /\ Len(code) + 1 \in DOMAIN code'
                        /\ code'[Len(code) + 1] = HiddenStore(d, hidden')
         /\ Decl.variadic => /\ Len(code') \in DOMAIN code' /\ Len(code') > Len(code)
                             /\ code'[Len(code')] = AreaStore(d, saveArea')
         /\ \A x \in DOMAIN code' :
              \/ x \in DOMAIN code
              \/ Decl.big /\ x = Len(code) + 1
              \/ Decl.variadic /\ x = Len(code')
              \/ code'[x] \in GlobalStores \cup ParamStores
<1> DEFINE withHidden == frameSize + (IF Decl.big THEN 8 ELSE 0)
           all        == WithSaveArea(withHidden)
           first  == IF Decl.big THEN <<HiddenStore(d, -withHidden)>> ELSE <<>>
           last   == IF Decl.variadic THEN <<AreaStore(d, -all)>> ELSE <<>>
           middle == GlobalStores \cup ParamStores
           c1 == code \o first
           c2 == c1 \o InitGlobals
           c3 == c2 \o SaveParams
           c4 == c3 \o last
<1>1. /\ code' = c4
      /\ hidden' = IF Decl.big THEN -withHidden ELSE 0
      /\ saveArea' = IF Decl.variadic THEN -all ELSE 0
  BY DEF Prologue, HiddenStore, AreaStore
<1>2. d \in Nat /\ withHidden \in Nat /\ all \in Nat /\ syms \in Seq(Symbols)
      /\ file \in Files
  BY DEF NamesInv, TypeOK, WithSaveArea
<1> HIDE DEF withHidden, all
<1>3. HiddenStore(d, -withHidden) \in Emitted /\ AreaStore(d, -all) \in Emitted
  BY <1>2 DEF HiddenStore, AreaStore, Ins, InFrame, Emitted
<1>4. first \in Seq(Emitted) /\ last \in Seq(Emitted)
  BY <1>3
<1>5. middle \subseteq Emitted
  BY DEF GlobalStores, ParamStores
<1>6. InitGlobals \in Seq(middle) /\ SaveParams \in Seq(middle)
  <2>1. InitGlobals \in Seq(GlobalStores) /\ SaveParams \in Seq(ParamStores)
    BY <1>2, InitStoresType, SaveParamsType
  <2>2. \A A, B, s : s \in Seq(A) => s \in Seq(A \cup B) /\ s \in Seq(B \cup A)
    OBVIOUS
  <2> QED
    BY <2>1, <2>2
<1> HIDE DEF middle
<1>7. Continued(code, c1, Emitted)
  BY <1>4, ContinuedBy DEF c1
<1> HIDE DEF c1
<1>8. Continued(c1, c2, middle)
  BY <1>5, <1>6, <1>7, ContinuedBy DEF Continued
<1> HIDE DEF c2
<1>9. Continued(c2, c3, middle)
  BY <1>5, <1>6, <1>8, ContinuedBy DEF Continued
<1> HIDE DEF c3
<1>10. Continued(c3, c4, Emitted)
  BY <1>4, <1>9, ContinuedBy DEF Continued
<1> HIDE DEF c4
<1>11. /\ Len(c1) = Len(code) + (IF Decl.big THEN 1 ELSE 0)
       /\ Decl.big => c1[Len(code) + 1] = HiddenStore(d, -withHidden)
  BY <1>3 DEF c1
<1>12. /\ Len(c4) = Len(c3) + (IF Decl.variadic THEN 1 ELSE 0)
       /\ Decl.variadic => c4[Len(c4)] = AreaStore(d, -all)
  BY <1>3, <1>9 DEF c4, Continued
<1> HIDE DEF first, last
<1>13. /\ c1 \in Seq(Emitted) /\ c2 \in Seq(Emitted) /\ c3 \in Seq(Emitted)
       /\ c4 \in Seq(Emitted)
       /\ Len(code) <= Len(c1) /\ Len(c1) <= Len(c2) /\ Len(c2) <= Len(c3)
       /\ Len(c3) <= Len(c4)
  BY <1>7, <1>8, <1>9, <1>10 DEF Continued
<1>14. /\ \A x \in DOMAIN code : x \in DOMAIN c1 /\ c1[x] = code[x]
       /\ \A x \in DOMAIN c1 : x \in DOMAIN c4 /\ c4[x] = c1[x]
  BY <1>7, <1>8, <1>9, <1>10 DEF Continued
<1>15. /\ \A x \in DOMAIN c4 : \/ x \in DOMAIN c3 /\ c4[x] = c3[x]
                               \/ x = Len(c4) /\ Decl.variadic
       /\ \A x \in DOMAIN c3 : x \in DOMAIN c1 \/ c3[x] \in middle
       /\ \A x \in DOMAIN c1 : x \in DOMAIN code \/ (x = Len(code) + 1 /\ Decl.big)
  <2>1. ASSUME NEW x \in DOMAIN c4
        PROVE  \/ x \in DOMAIN c3 /\ c4[x] = c3[x]
               \/ x = Len(c4) /\ Decl.variadic
    <3>1. /\ Len(c4) \in Nat /\ Len(c3) \in Nat /\ DOMAIN c4 = 1 .. Len(c4)
          /\ DOMAIN c3 = 1 .. Len(c3)
      BY <1>13
    <3>2. CASE x <= Len(c3)
      <4>1. x \in DOMAIN c3
        BY <2>1, <3>1, <3>2
      <4> QED
        BY <1>10, <4>1, Zenon DEF Continued
    <3>3. CASE ~(x <= Len(c3))
      BY <1>12, <3>1, <3>3
    <3> QED
      BY <3>2, <3>3
  <2>2. ASSUME NEW x \in DOMAIN c3
        PROVE  x \in DOMAIN c1 \/ c3[x] \in middle
    BY <1>8, <1>9 DEF Continued
  <2>3. ASSUME NEW x \in DOMAIN c1
        PROVE  x \in DOMAIN code \/ (x = Len(code) + 1 /\ Decl.big)
    <3>1. /\ Len(code) \in Nat /\ DOMAIN code = 1 .. Len(code)
          /\ DOMAIN c1 = 1 .. Len(c1)
      BY <1>13
    <3>2. Len(c1) = Len(code) + (IF Decl.big THEN 1 ELSE 0)
      BY <1>11, Zenon
    <3> QED
      BY <3>1, <3>2
  <2> QED
    BY <2>1, <2>2, <2>3
<1>16. Continued(code, c4, Emitted)
  <2>1. \A x \in DOMAIN code : x \in DOMAIN c4 /\ c4[x] = code[x]
    BY <1>14
  <2>2. Len(code) <= Len(c4)
    BY <1>13
  <2>3. \A x \in DOMAIN c4 : c4[x] \in Emitted
    BY <1>13
  <2> QED
    BY <1>13, <2>1, <2>2, <2>3 DEF Continued
<1>17. Decl.big => /\ Len(code) + 1 \in DOMAIN c4
                   /\ c4[Len(code) + 1] = HiddenStore(d, hidden')
  <2> SUFFICES ASSUME Decl.big
               PROVE  /\ Len(code) + 1 \in DOMAIN c4
                      /\ c4[Len(code) + 1] = HiddenStore(d, hidden')
    OBVIOUS
  <2>1. Len(code) + 1 \in DOMAIN c1
    BY <1>11, <1>13
  <2>2. c4[Len(code) + 1] = c1[Len(code) + 1] /\ Len(code) + 1 \in DOMAIN c4
    BY <1>14, <2>1
  <2> QED
    BY <1>1, <1>11, <2>2
<1>18. Decl.variadic => /\ Len(c4) \in DOMAIN c4 /\ Len(c4) > Len(code)
                        /\ c4[Len(c4)] = AreaStore(d, saveArea')
  BY <1>1, <1>12, <1>13
<1>19. \A x \in DOMAIN c4 :
         \/ x \in DOMAIN code
         \/ Decl.big /\ x = Len(code) + 1
         \/ Decl.variadic /\ x = Len(c4)
         \/ c4[x] \in middle
  BY <1>15
<1> QED
  BY <1>1, <1>16, <1>17, <1>18, <1>19 DEF middle


(* A call emitted for a call of the source is against a symbol of its      *)
(* name.                                                                   *)
CallFits(e) ==
  /\ e.fn \in DOMAIN file /\ file[e.fn].k = "func"
  /\ e.at \in 1 .. Len(Body(file[e.fn])) /\ Body(file[e.fn])[e.at].k = "call"
  /\ e.mem.pos \in DOMAIN syms
  /\ syms[e.mem.pos].name = Body(file[e.fn])[e.at].name

CallsInv == /\ code \in Seq(Emitted)
            /\ \A c, e : c \in DOMAIN code /\ e = code[c] /\ e.op = "call" => CallFits(e)

LEMMA CallsInit == Init => CallsInv
BY DEF Init, CallsInv

(* A symbol keeps its number and its name, so that a call stays right, *)
LEMMA CallStays ==
  ASSUME NEW e, CallFits(e), Grown(syms'), file' = file
  PROVE  CallFits(e)'
<1>1. \A f \in DOMAIN file : Body(file[f])' = Body(file[f])
  BY DEF Body
<1>2. e.mem.pos \in DOMAIN syms' /\ syms'[e.mem.pos].name = syms[e.mem.pos].name
  BY DEF CallFits, Grown
<1> QED
  BY <1>1, <1>2 DEF CallFits

(* and so does a step that adds nothing but stores, *)
LEMMA CallsStay ==
  ASSUME CallsInv, Grown(syms'), file' = file, code' \in Seq(Emitted),
         \A c \in DOMAIN code' : \/ c \in DOMAIN code /\ code'[c] = code[c]
                                 \/ code'[c].op = "store"
  PROVE  CallsInv'
<1> SUFFICES ASSUME NEW c \in DOMAIN code', NEW e, e = code'[c], e.op = "call"
             PROVE  CallFits(e)'
  BY DEF CallsInv
<1>1. CallFits(e)
  BY DEF CallsInv
<1> QED
  BY <1>1, CallStays

(* or one instruction for the item it is at. *)
LEMMA CallsStep ==
  ASSUME NamesInv, ScopeInv, SymbolsInv, CallsInv, [Next]_vars
  PROVE  CallsInv'
<1>1. Grown(syms') /\ file' = file
  <2>1. Grown(syms')
    BY StepInv
  <2>2. CASE CollectStatic
    BY <2>1, <2>2, Zenon DEF CollectStatic, Exit
  <2> QED
    BY <2>1, <2>2
       DEF Next, vars, GlobalVar, SkipFunction, Functions, SkipVar, Compiled,
           StartFunction, CollectOpen, CollectClose, CloseBlock, CollectDecl, CollectOther,
           Prologue, GenOpen, GenClose, GenDecl, GenUse, GenCall, GenReturn, GenVa,
           GenOther, EndFunction, Access, Next1, Exit
<1>2. code \in Seq(Emitted)
  BY DEF CallsInv
<1>3. CASE code' = code
  BY <1>1, <1>2, <1>3, CallsStay
<1>4. CASE Prologue
  <2>0. VarsNamed
    BY <1>4, VarsAreNamed DEF Prologue
  <2>1. /\ Continued(code, code', Emitted)
        /\ Decl.big => code'[Len(code) + 1] = HiddenStore(d, hidden')
        /\ Decl.variadic => code'[Len(code')] = AreaStore(d, saveArea')
        /\ \A x \in DOMAIN code' :
             \/ x \in DOMAIN code
             \/ Decl.big /\ x = Len(code) + 1
             \/ Decl.variadic /\ x = Len(code')
             \/ code'[x] \in GlobalStores \cup ParamStores
    BY <1>2, <1>4, <2>0, PrologueCode
  <2>2. code' \in Seq(Emitted) /\ \A x \in DOMAIN code : code'[x] = code[x]
    BY <2>1 DEF Continued
  <2>3. \A f, p : HiddenStore(f, p).op = "store" /\ AreaStore(f, p).op = "store"
    BY DEF HiddenStore, AreaStore, Ins
  <2>4. \A x \in GlobalStores \cup ParamStores : x.op = "store"
    BY DEF GlobalStores, ParamStores
  <2>5. \A x \in DOMAIN code' : \/ x \in DOMAIN code /\ code'[x] = code[x]
                                \/ code'[x].op = "store"
    BY <2>1, <2>2, <2>3, <2>4
  <2> QED
    BY <1>1, <2>2, <2>5, CallsStay
<1>5. CASE /\ code' # code /\ phase' # "exited"
           /\ \/ GenOpen \/ GenClose \/ GenDecl \/ GenUse \/ GenCall \/ GenReturn
              \/ GenVa \/ GenOther
  <2>1. PICK e : GenIns(e) /\ code' = Append(code, e)
    BY <1>5, GenerateCode
  <2>2. phase = "generate" /\ i <= Len(Body(Decl))
    BY <1>5 DEF GenOpen, GenClose, GenDecl, GenUse, GenCall, GenReturn, GenVa, GenOther,
                Generating
  <2>3. /\ d \in DOMAIN file /\ file[d].k = "func" /\ Decl = file[d]
        /\ i \in 1 .. Len(Body(file[d])) /\ Item = Body(file[d])[i]
    BY <2>2, InFunction
  <2>4. e \in Emitted /\ (e.op = "call" => CallFits(e)')
    BY <1>1, <2>1, <2>3 DEF GenIns, CallFits, Body
  <2>5. code' \in Seq(Emitted)
    BY <1>2, <2>1, <2>4
  <2>6. \A c \in DOMAIN code' : (c \in DOMAIN code /\ code'[c] = code[c]) \/ code'[c] = e
    BY <1>2, <2>1, <2>4
  <2>7. \A c, x : c \in DOMAIN code /\ x = code[c] /\ x.op = "call" => CallFits(x)'
    BY <1>1, CallStays DEF CallsInv
  <2> QED
    BY <2>4, <2>5, <2>6, <2>7 DEF CallsInv
<1>6. CASE UNCHANGED vars
  BY <1>3, <1>6 DEF vars
<1>7. CASE \/ GlobalVar \/ SkipFunction \/ Functions \/ SkipVar \/ Compiled
           \/ StartFunction \/ CollectOpen \/ CollectClose \/ CollectDecl \/ CollectOther
           \/ EndFunction
  <2>1. code' = code
    BY <1>7
       DEF GlobalVar, SkipFunction, Functions, SkipVar, Compiled, StartFunction,
           CollectOpen, CollectClose, CloseBlock, CollectDecl, CollectOther, EndFunction, Exit
  <2> QED
    BY <1>3, <2>1
<1>8. CASE CollectStatic
  <2>1. code' = code
    BY <1>8, Zenon DEF CollectStatic, Exit
  <2> QED
    BY <1>3, <2>1
<1>9. CASE /\ phase' = "exited"
           /\ \/ GenOpen \/ GenClose \/ GenDecl \/ GenUse \/ GenCall \/ GenReturn
              \/ GenVa \/ GenOther
  <2>1. code' = code
    BY <1>9
       DEF GenOpen, GenClose, CloseBlock, GenDecl, GenUse, GenCall, GenReturn, GenVa,
           GenOther, Access, Next1, Generating, Exit
  <2> QED
    BY <1>3, <2>1
<1> QED
  BY <1>3, <1>4, <1>5, <1>6, <1>7, <1>8, <1>9 DEF Next


(* No variable with a symbol - one of the file's, or a static one of any   *)
(* of its functions - has the name of a function that the file defines and *)
(* calls.                                                                  *)
Called(n) ==
  \E f \in DOMAIN file : /\ file[f].k = "func"
                         /\ \E p \in 1 .. Len(Body(file[f])) :
                              /\ Body(file[f])[p].k = "call"
                              /\ Body(file[f])[p].name = n
FunctionsApart ==
  \A x \in DOMAIN file :
    file[x].k = "func" /\ Called(file[x].name) => ~Storage(file[x].name)

(* In every such file, when it is compiled, every call is against a symbol *)
(* of its name, and against the function if the file defines it, be that   *)
(* before the call or after it.                                            *)
THEOREM NamesCalls == Spec => [](phase = "done" /\ FunctionsApart => CallsBound)
<1>1. NamesInv /\ SymbolsInv /\ CallsInv => (phase = "done" /\ FunctionsApart => CallsBound)
  <2> SUFFICES ASSUME NamesInv, SymbolsInv, CallsInv, phase = "done", FunctionsApart,
                      d > Len(file), NEW c \in DOMAIN code, code[c].op = "call"
               PROVE  LET s == syms[code[c].mem.pos]
                          n == Bodies[code[c].fn][code[c].at].name
                      IN  /\ s.name = n
                          /\ (\E x \in DOMAIN file : file[x].k = "func" /\ file[x].name = n)
                               => s.sect = "text"
    BY DEF CallsBound, SymbolsInv
  <2> DEFINE e == code[c]
             s == syms[e.mem.pos]
             n == Bodies[e.fn][e.at].name
  <2>1. CallFits(e)
    BY DEF CallsInv
  <2>2. e.mem.pos \in DOMAIN syms /\ s.name = n /\ s \in Symbols
    BY <2>1 DEF CallFits, Bodies, NamesInv, TypeOK
  <2> HIDE DEF n
  <2>3. ASSUME NEW x \in DOMAIN file, file[x].k = "func", file[x].name = n
        PROVE  s.sect = "text"
    <3>1. x < d
      <4>1. x \in 1 .. Len(file) /\ Len(file) \in Nat /\ d \in Nat
        BY FilesHave DEF NamesInv, TypeOK
      <4> QED
        BY <4>1
    <3>2. Defined(syms, n) /\ ~Storage(n)
      <4>1. Called(n)
        BY <2>1, <2>2 DEF CallFits, Called, n, Bodies
      <4> QED
        BY <2>3, <3>1, <4>1 DEF SymbolsInv, FuncsHeld, FuncHeld, FunctionsApart
    <3>3. s.sect # "undef" /\ s.sect \notin {"data", "bss"}
      BY <2>2, <3>2 DEF Defined, SymbolsInv, StorageMade
    <3> QED
      BY <2>2, <3>3 DEF Symbols
  <2> QED
    BY <2>2, <2>3 DEF n
<1> QED
  BY <1>1, InitInv, StepInv, ScopeInit, ScopeStep, SymbolsInit, SymbolsStep, CallsInit,
     CallsStep, PTL DEF Spec

(* Both together. *)
THEOREM NamesLinkedAsC == Spec => [](StaticsFirst /\ FunctionsApart => LinkedAsC)
<1>1. (phase = "done" /\ StaticsFirst => Linked) /\ (phase = "done" /\ FunctionsApart => CallsBound)
        => (StaticsFirst /\ FunctionsApart => LinkedAsC)
  BY DEF LinkedAsC
<1> QED
  BY <1>1, NamesLinked, NamesCalls, PTL

-----------------------------------------------------------------------------
(* What the prologue stores for the function. *)

(* va_arg is used in variadic functions only. *)
VaInVariadic ==
  \A f \in DOMAIN file : file[f].k = "func" /\ ~file[f].variadic =>
    \A p \in 1 .. Len(Body(file[f])) : Body(file[f])[p].k # "va"

(* Such a store, and the moves its bytes must be kept from and for. *)
Guard(e)      == e.op = "store" /\ e.at \in {-1, -2}
FrameStore(e) == e.op = "store" /\ e.mem.in = "frame"
Apart(g, e)   == \/ g.mem.pos + g.len <= e.mem.pos
                 \/ e.mem.pos + e.len <= g.mem.pos
KeptLoad(e)   == e.op = "load" /\ Bodies[e.fn][e.at].k \in {"return", "va"}

(* No other store into the function's frame meets its bytes, *)
GuardsApart ==
  \A x, y \in DOMAIN code :
    x # y /\ Guard(code[x]) /\ FrameStore(code[y]) /\ code[y].fn = code[x].fn
      => Apart(code[x], code[y])

(* and what is loaded at a return or va_arg was stored so before. *)
Stored(x, e) == /\ Guard(code[x]) /\ code[x].fn = e.fn
                /\ code[x].mem = e.mem /\ code[x].len = e.len
LoadsBack ==
  VaInVariadic =>
    \A c \in DOMAIN code : KeptLoad(code[c]) =>
      /\ code[c].mem.in = "frame" /\ code[c].at # 0
      /\ \E x \in DOMAIN code : x < c /\ Stored(x, code[c])

(* The other stores are to symbols; what is in a frame is in that of the   *)
(* function the compiler is at or of one before.                           *)
SymbolStores ==
  \A c \in DOMAIN code :
    code[c].op = "store" /\ code[c].mem.in = "symbol" => code[c].mem.pos \in DOMAIN syms
FramesBehind ==
  \A c \in DOMAIN code : code[c].mem.in = "frame" \/ Guard(code[c]) =>
    /\ phase # "globals"
    /\ phase \in {"functions", "collect"} => code[c].fn < d
    /\ phase = "generate" => code[c].fn <= d

(* In the second pass what the prologue has stored lies below the slots of *)
(* all the locals.                                                         *)
BelowLocals ==
  \A x \in DOMAIN code : Guard(code[x]) /\ code[x].fn = d =>
    \A l \in DOMAIN locals : code[x].mem.pos + code[x].len <= locals[l].offset
FrameGuarded ==
  phase = "generate" =>
    /\ BelowLocals
    /\ Decl.big => \E x \in DOMAIN code : code[x] = HiddenStore(d, hidden)
    /\ Decl.variadic => \E x \in DOMAIN code : code[x] = AreaStore(d, saveArea)

KeptInv == /\ GuardsApart /\ LoadsBack /\ SymbolStores /\ FramesBehind /\ FrameGuarded

(* What the two stores are. *)
LEMMA GuardFacts ==
  ASSUME NEW f, NEW pos
  PROVE  /\ Guard(HiddenStore(f, pos)) /\ FrameStore(HiddenStore(f, pos))
         /\ HiddenStore(f, pos).fn = f /\ HiddenStore(f, pos).len = 8
         /\ HiddenStore(f, pos).mem = InFrame(pos) /\ HiddenStore(f, pos).mem.pos = pos
         /\ Guard(AreaStore(f, pos)) /\ FrameStore(AreaStore(f, pos))
         /\ AreaStore(f, pos).fn = f /\ AreaStore(f, pos).len = 48
         /\ AreaStore(f, pos).mem = InFrame(pos) /\ AreaStore(f, pos).mem.pos = pos
         /\ HiddenStore(f, pos).at = -1 /\ AreaStore(f, pos).at = -2
BY DEF HiddenStore, AreaStore, Ins, InFrame, Guard, FrameStore

LEMMA KeptInit == Init => KeptInv
BY DEF Init, KeptInv, GuardsApart, LoadsBack, SymbolStores, FramesBehind, FrameGuarded

(* Where no code is emitted nothing changes. *)
LEMMA KeptStays ==
  ASSUME KeptInv, code \in Seq(Emitted), d \in Nat, d' \in Nat,
         Grown(syms'), file' = file, code' = code,
         phase' = "globals" => phase = "globals",
         phase' \in {"functions", "collect"} =>
           \/ phase = "globals"
           \/ phase \in {"functions", "collect"} /\ d <= d'
           \/ phase = "generate" /\ d < d',
         phase' = "generate" => /\ phase = "generate" /\ d' = d /\ locals' = locals
                                /\ hidden' = hidden /\ saveArea' = saveArea
  PROVE  KeptInv'
<1>1. GuardsApart'
  BY DEF KeptInv, GuardsApart
<1>2. LoadsBack'
  <2>1. \A e : KeptLoad(e)' <=> KeptLoad(e)
    BY DEF KeptLoad, Bodies, Body
  <2>2. VaInVariadic' <=> VaInVariadic
    BY DEF VaInVariadic, Body
  <2> QED
    BY <2>1, <2>2 DEF KeptInv, LoadsBack, Stored
<1>3. SymbolStores'
  BY DEF KeptInv, SymbolStores, Grown
<1>4. FramesBehind'
  <2> SUFFICES ASSUME NEW c \in DOMAIN code, code[c].mem.in = "frame" \/ Guard(code[c])
               PROVE  /\ phase' # "globals"
                      /\ phase' \in {"functions", "collect"} => code[c].fn < d'
                      /\ phase' = "generate" => code[c].fn <= d'
    BY DEF FramesBehind
  <2>1. /\ phase # "globals"
        /\ phase \in {"functions", "collect"} => code[c].fn < d
        /\ phase = "generate" => code[c].fn <= d
    BY DEF KeptInv, FramesBehind
  <2>2. code[c].fn \in Nat
    <3>1. code[c] \in Emitted
      OBVIOUS
    <3> QED
      BY <3>1 DEF Emitted
  <2> QED
    BY <2>1, <2>2
<1>5. FrameGuarded'
  BY DEF KeptInv, FrameGuarded, BelowLocals, Decl
<1> QED
  BY <1>1, <1>2, <1>3, <1>4, <1>5 DEF KeptInv

(* The prologue puts the hidden pointer below the locals and the save area *)
(* below both.                                                             *)
LEMMA PrologueFrame ==
  ASSUME NamesInv, Prologue
  PROVE  /\ frameSize \in Nat /\ hidden' \in Int /\ saveArea' \in Int
         /\ Decl.big => hidden' + 8 <= -frameSize
         /\ Decl.variadic => saveArea' + 48 <= -frameSize
         /\ Decl.big /\ Decl.variadic => saveArea' + 48 <= hidden'
         /\ \A l \in DOMAIN locals : /\ locals[l].offset \in Int
                                     /\ -frameSize <= locals[l].offset
<1>1. frameSize \in Nat
  BY DEF NamesInv, TypeOK
<1> DEFINE withHidden == frameSize + (IF Decl.big THEN 8 ELSE 0)
           all        == WithSaveArea(withHidden)
<1>2. /\ hidden' = IF Decl.big THEN -withHidden ELSE 0
      /\ saveArea' = IF Decl.variadic THEN -all ELSE 0
  BY DEF Prologue
<1>3. \A l \in DOMAIN locals : /\ locals[l].offset \in Int
                               /\ -frameSize <= locals[l].offset
  BY LocalFacts DEF NamesInv, TypeOK, SlotsDisjoint
<1> QED
  BY <1>1, <1>2, <1>3 DEF WithSaveArea

(* Each instruction behind a prologue is an old one, one of the two stores *)
(* or one of the others.                                                   *)
Origin(x) ==
  \/ x \in DOMAIN code /\ code'[x] = code[x]
  \/ Decl.big /\ x = Len(code) + 1 /\ code'[x] = HiddenStore(d, hidden')
  \/ Decl.variadic /\ x = Len(code') /\ code'[x] = AreaStore(d, saveArea')
  \/ code'[x] \in GlobalStores
  \/ code'[x] \in ParamStores

LEMMA PrologueOrigins ==
  ASSUME NamesInv, ScopeInv, VarsNamed, code \in Seq(Emitted), Prologue
  PROVE  /\ code' \in Seq(Emitted)
         /\ \A x \in DOMAIN code : x \in DOMAIN code' /\ code'[x] = code[x]
         /\ \A x \in DOMAIN code' : Origin(x)
         /\ Decl.big => \E x \in DOMAIN code' : code'[x] = HiddenStore(d, hidden')
         /\ Decl.variadic => \E x \in DOMAIN code' : code'[x] = AreaStore(d, saveArea')
<1>1. /\ Continued(code, code', Emitted)
      /\ Decl.big => /\ Len(code) + 1 \in DOMAIN code'
                     /\ code'[Len(code) + 1] = HiddenStore(d, hidden')
      /\ Decl.variadic => /\ Len(code') \in DOMAIN code' /\ Len(code') > Len(code)
                          /\ code'[Len(code')] = AreaStore(d, saveArea')
      /\ \A x \in DOMAIN code' :
           \/ x \in DOMAIN code
           \/ Decl.big /\ x = Len(code) + 1
           \/ Decl.variadic /\ x = Len(code')
           \/ code'[x] \in GlobalStores \cup ParamStores
  BY PrologueCode
<1>2. code' \in Seq(Emitted) /\ \A x \in DOMAIN code : x \in DOMAIN code' /\ code'[x] = code[x]
  BY <1>1 DEF Continued
<1>3. \A x \in DOMAIN code' : Origin(x)
  BY <1>1, <1>2 DEF Origin
<1> QED
  BY <1>1, <1>2, <1>3

(* The prologue keeps the invariant, *)
LEMMA KeptPrologue ==
  ASSUME NamesInv, ScopeInv, VarsNamed, code \in Seq(Emitted), KeptInv, Prologue
  PROVE  KeptInv'
<1>1. /\ code' \in Seq(Emitted)
      /\ \A x \in DOMAIN code : x \in DOMAIN code' /\ code'[x] = code[x]
      /\ \A x \in DOMAIN code' : Origin(x)
      /\ Decl.big => \E x \in DOMAIN code' : code'[x] = HiddenStore(d, hidden')
      /\ Decl.variadic => \E x \in DOMAIN code' : code'[x] = AreaStore(d, saveArea')
  BY PrologueOrigins
<1>2. /\ phase = "collect" /\ phase' = "generate" /\ d' = d /\ file' = file
      /\ syms' = syms /\ locals' = locals
  BY DEF Prologue
<1>3. /\ frameSize \in Nat /\ hidden' \in Int /\ saveArea' \in Int
      /\ Decl.big => hidden' + 8 <= -frameSize
      /\ Decl.variadic => saveArea' + 48 <= -frameSize
      /\ Decl.big /\ Decl.variadic => saveArea' + 48 <= hidden'
      /\ \A l \in DOMAIN locals : /\ locals[l].offset \in Int
                                  /\ -frameSize <= locals[l].offset
  BY PrologueFrame
<1>4. d \in Nat
  BY DEF NamesInv, TypeOK
<1>5. ASSUME NEW x \in DOMAIN code, code[x].mem.in = "frame" \/ Guard(code[x])
      PROVE  code[x].fn < d
  BY <1>2, <1>5 DEF KeptInv, FramesBehind
<1>6. \A e \in GlobalStores : e.op = "store" /\ e.at = 0 /\ e.mem.in = "symbol"
                              /\ e.mem.pos \in DOMAIN syms /\ ~Guard(e) /\ ~FrameStore(e)
  BY DEF GlobalStores, Guard, FrameStore
<1>7. \A e \in ParamStores : /\ e.op = "store" /\ e.mem.in = "frame" /\ e.fn = d
                             /\ ~Guard(e) /\ e.mem.pos \in Int
                             /\ -frameSize <= e.mem.pos
  <2> SUFFICES ASSUME NEW e \in ParamStores
               PROVE  /\ e.op = "store" /\ e.mem.in = "frame" /\ e.fn = d
                      /\ ~Guard(e) /\ e.mem.pos \in Int
                      /\ -frameSize <= e.mem.pos
    OBVIOUS
  <2>1. /\ e.op = "store" /\ e.mem.in = "frame" /\ e.fn = d /\ e.at \in Nat
        /\ \E l \in DOMAIN locals : e.mem.pos = locals[l].offset
    BY DEF ParamStores
  <2>2. ~Guard(e)
    BY <2>1 DEF Guard
  <2> QED
    BY <1>3, <2>1, <2>2
<1> DEFINE H == HiddenStore(d, hidden')
           A == AreaStore(d, saveArea')
<1>8. /\ Guard(H) /\ FrameStore(H) /\ H.fn = d /\ H.len = 8 /\ H.mem.pos = hidden'
      /\ Guard(A) /\ FrameStore(A) /\ A.fn = d /\ A.len = 48 /\ A.mem.pos = saveArea'
  BY GuardFacts
<1>16. /\ Decl.big => H.mem.pos + H.len <= -frameSize
       /\ Decl.variadic => A.mem.pos + A.len <= -frameSize
       /\ Decl.big /\ Decl.variadic => A.mem.pos + A.len <= H.mem.pos
       /\ H.mem.pos + H.len \in Int /\ A.mem.pos + A.len \in Int
  <2>1. \A n \in Int : n + 8 \in Int /\ n + 48 \in Int
    OBVIOUS
  <2> QED
    BY <1>3, <1>8, <2>1, Zenon
<1> HIDE DEF H, A
<1>17. ASSUME NEW g, g.mem.pos + g.len \in Int, g.mem.pos + g.len <= -frameSize,
              NEW n \in Int, -frameSize <= n
       PROVE  g.mem.pos + g.len <= n
  <2> DEFINE m == g.mem.pos + g.len
  <2> HIDE DEF m
  <2>1. m \in Int /\ m <= -frameSize => m <= n
    BY <1>3, <1>17
  <2> QED
    BY <1>17, <2>1 DEF m
(* The new guards and what is stored around them. *)
<1>9. ASSUME NEW x \in DOMAIN code', Guard(code'[x])
      PROVE  \/ x \in DOMAIN code /\ code'[x] = code[x] /\ code[x].fn < d
             \/ Decl.big /\ x = Len(code) + 1 /\ code'[x] = H
             \/ Decl.variadic /\ x = Len(code') /\ code'[x] = A
  BY <1>1, <1>5, <1>6, <1>7, <1>9 DEF Origin, H, A
<1>10. ASSUME NEW y \in DOMAIN code', FrameStore(code'[y])
       PROVE  \/ y \in DOMAIN code /\ code'[y] = code[y] /\ code[y].fn < d
              \/ Decl.big /\ y = Len(code) + 1 /\ code'[y] = H
              \/ Decl.variadic /\ y = Len(code') /\ code'[y] = A
              \/ code'[y] \in ParamStores
  BY <1>1, <1>5, <1>6, <1>10 DEF Origin, H, A, FrameStore
<1>11. GuardsApart'
  <2> SUFFICES ASSUME NEW x \in DOMAIN code', NEW y \in DOMAIN code',
                      NEW g, NEW e, g = code'[x], e = code'[y],
                      x # y, Guard(g), FrameStore(e), e.fn = g.fn
               PROVE  Apart(g, e)
    BY DEF GuardsApart
  <2>1. CASE x \in DOMAIN code /\ g = code[x] /\ g.fn < d
    <3>1. y \in DOMAIN code /\ e = code[y]
      BY <1>4, <1>7, <1>8, <1>10, <2>1
    <3> QED
      BY <2>1, <3>1 DEF KeptInv, GuardsApart
  <2>2. CASE Decl.big /\ x = Len(code) + 1 /\ g = H
    <3>1. \/ Decl.variadic /\ e = A
          \/ e \in ParamStores
      BY <1>4, <1>8, <1>10, <2>2
    <3>2. CASE Decl.variadic /\ e = A
      BY <1>16, <2>2, <3>2, Zenon DEF Apart
    <3>3. CASE e \in ParamStores
      BY <1>7, <1>16, <1>17, <2>2, <3>3, Zenon DEF Apart
    <3> QED
      BY <3>1, <3>2, <3>3
  <2>3. CASE Decl.variadic /\ x = Len(code') /\ g = A
    <3>1. \/ Decl.big /\ e = H
          \/ e \in ParamStores
      BY <1>4, <1>8, <1>10, <2>3
    <3>2. CASE Decl.big /\ e = H
      BY <1>16, <2>3, <3>2, Zenon DEF Apart
    <3>3. CASE e \in ParamStores
      BY <1>7, <1>16, <1>17, <2>3, <3>3, Zenon DEF Apart
    <3> QED
      BY <3>1, <3>2, <3>3
  <2> QED
    BY <1>9, <2>1, <2>2, <2>3
<1>12. LoadsBack'
  <2>1. \A e : KeptLoad(e)' <=> KeptLoad(e)
    BY <1>2 DEF KeptLoad, Bodies, Body
  <2>2. VaInVariadic' <=> VaInVariadic
    BY <1>2 DEF VaInVariadic, Body
  <2>3. ASSUME NEW c \in DOMAIN code', code'[c].op = "load"
        PROVE  c \in DOMAIN code /\ code'[c] = code[c]
    <3>1. H.op = "store" /\ A.op = "store"
      BY <1>8 DEF Guard
    <3> QED
      BY <1>1, <1>6, <1>7, <2>3, <3>1 DEF Origin, H, A
  <2> SUFFICES ASSUME VaInVariadic, NEW c \in DOMAIN code', NEW e, e = code'[c], KeptLoad(e)
               PROVE  /\ e.mem.in = "frame" /\ e.at # 0
                      /\ \E x \in DOMAIN code' : x < c /\ Stored(x, e)'
    BY <2>1, <2>2 DEF LoadsBack, Stored
  <2>4. c \in DOMAIN code /\ e = code[c]
    BY <2>3 DEF KeptLoad
  <2>5. /\ e.mem.in = "frame" /\ e.at # 0
        /\ \E x \in DOMAIN code : x < c /\ Stored(x, e)
    BY <2>4 DEF KeptInv, LoadsBack
  <2>6. \A x \in DOMAIN code : x \in DOMAIN code' /\ (Stored(x, e)' <=> Stored(x, e))
    BY <1>1 DEF Stored
  <2> QED
    BY <2>5, <2>6
<1>13. SymbolStores'
  <2> SUFFICES ASSUME NEW c \in DOMAIN code', code'[c].op = "store",
                      code'[c].mem.in = "symbol"
               PROVE  code'[c].mem.pos \in DOMAIN syms
    BY <1>2 DEF SymbolStores
  <2>1. H.mem.in = "frame" /\ A.mem.in = "frame"
    BY <1>8 DEF FrameStore
  <2> QED
    BY <1>1, <1>6, <1>7, <2>1 DEF Origin, H, A, KeptInv, SymbolStores
<1>14. FramesBehind'
  <2> SUFFICES ASSUME NEW c \in DOMAIN code', code'[c].mem.in = "frame" \/ Guard(code'[c])
               PROVE  code'[c].fn <= d
    BY <1>2 DEF FramesBehind
  <2>1. CASE c \in DOMAIN code /\ code'[c] = code[c]
    <3>1. code[c].fn < d /\ code[c].fn \in Nat
      <4>1. code[c] \in Emitted
        BY <2>1
      <4> QED
        BY <1>5, <2>1, <4>1 DEF Emitted
    <3> QED
      BY <1>4, <2>1, <3>1
  <2>2. CASE code'[c].fn = d
    BY <1>4, <2>2
  <2> QED
    BY <1>1, <1>6, <1>7, <1>8, <2>1, <2>2 DEF Origin, H, A
<1>15. FrameGuarded'
  <2>1. BelowLocals'
    <3> SUFFICES ASSUME NEW x \in DOMAIN code', NEW g, g = code'[x], Guard(g), g.fn = d,
                        NEW l \in DOMAIN locals
                 PROVE  g.mem.pos + g.len <= locals[l].offset
      BY <1>2 DEF BelowLocals
    <3>1. (Decl.big /\ g = H) \/ (Decl.variadic /\ g = A)
      BY <1>4, <1>9
    <3>2. g.mem.pos + g.len \in Int /\ g.mem.pos + g.len <= -frameSize
      BY <1>16, <3>1, Zenon
    <3>3. locals[l].offset \in Int /\ -frameSize <= locals[l].offset
      BY <1>3
    <3> QED
      BY <1>17, <3>2, <3>3, Zenon
  <2>2. Decl' = Decl
    BY <1>2 DEF Decl
  <2> QED
    BY <1>1, <1>2, <2>1, <2>2 DEF FrameGuarded
<1> QED
  BY <1>11, <1>12, <1>13, <1>14, <1>15 DEF KeptInv

(* and so does an instruction of the second pass. *)
LEMMA KeptAppended ==
  ASSUME NamesInv, code \in Seq(Emitted), KeptInv, Grown(syms'), NEW e, GenIns(e),
         code' = Append(code, e), phase = "generate", i <= Len(Body(Decl)),
         phase' = "generate", file' = file, d' = d, locals' = locals,
         hidden' = hidden, saveArea' = saveArea
  PROVE  KeptInv'
<1>1. /\ d \in DOMAIN file /\ file[d].k = "func" /\ Decl = file[d] /\ d \in Nat
      /\ i \in 1 .. Len(Body(file[d])) /\ Item = Body(file[d])[i] /\ i \in Nat
  BY InFunction DEF NamesInv, TypeOK
<1>2. e \in Emitted /\ e.fn = d /\ e.at = i /\ ~Guard(e)
  BY <1>1 DEF GenIns, Guard
<1>3. /\ code' \in Seq(Emitted) /\ Len(code) + 1 \in DOMAIN code'
      /\ code'[Len(code) + 1] = e
      /\ \A x \in DOMAIN code : x \in DOMAIN code' /\ code'[x] = code[x] /\ x < Len(code) + 1
      /\ \A x \in DOMAIN code' : \/ x \in DOMAIN code /\ code'[x] = code[x]
                                 \/ x = Len(code) + 1 /\ code'[x] = e
  BY <1>2
<1>4. FrameGuarded
  BY DEF KeptInv
<1>5. ASSUME NEW x \in DOMAIN code', Guard(code'[x])
      PROVE  x \in DOMAIN code /\ code'[x] = code[x]
  BY <1>2, <1>3, <1>5
<1>6. GuardsApart'
  <2> SUFFICES ASSUME NEW x \in DOMAIN code', NEW y \in DOMAIN code',
                      NEW g, NEW u, g = code'[x], u = code'[y],
                      x # y, Guard(g), FrameStore(u), u.fn = g.fn
               PROVE  Apart(g, u)
    BY DEF GuardsApart
  <2>1. x \in DOMAIN code /\ g = code[x]
    BY <1>5
  <2>2. CASE y \in DOMAIN code /\ u = code[y]
    BY <2>1, <2>2 DEF KeptInv, GuardsApart
  <2>3. CASE u = e
    <3>1. PICK l \in DOMAIN locals : e.mem.pos = locals[l].offset
      BY <2>3 DEF GenIns, FrameStore
    <3>2. g.mem.pos + g.len <= locals[l].offset
      BY <1>2, <1>4, <2>1, <2>3 DEF FrameGuarded, BelowLocals
    <3> QED
      BY <2>3, <3>1, <3>2 DEF Apart
  <2> QED
    BY <1>3, <2>2, <2>3
<1>7. LoadsBack'
  <2>1. \A u : KeptLoad(u)' <=> KeptLoad(u)
    BY DEF KeptLoad, Bodies, Body
  <2>2. VaInVariadic' <=> VaInVariadic
    BY DEF VaInVariadic, Body
  <2> SUFFICES ASSUME VaInVariadic, NEW c \in DOMAIN code', NEW u, u = code'[c], KeptLoad(u)
               PROVE  /\ u.mem.in = "frame" /\ u.at # 0
                      /\ \E x \in DOMAIN code : x < c /\ Stored(x, u)
    <3>1. \A x \in DOMAIN code : \A v : /\ x \in DOMAIN code'
                                        /\ Stored(x, v)' <=> Stored(x, v)
      BY <1>3 DEF Stored
    <3> QED
      BY <2>1, <2>2, <3>1 DEF LoadsBack, Stored
  <2>3. CASE c \in DOMAIN code /\ u = code[c]
    BY <2>3 DEF KeptInv, LoadsBack
  <2>4. CASE c = Len(code) + 1 /\ u = e
    <3>1. e.op = "load" /\ Item.k \in {"return", "va"}
      BY <1>1, <1>2, <2>4 DEF KeptLoad, Bodies
    <3>2. CASE Item.k = "return"
      <4>1. Decl.big /\ e.len = 8 /\ e.mem = InFrame(hidden)
        BY <3>1, <3>2 DEF GenIns
      <4>2. PICK x \in DOMAIN code : code[x] = HiddenStore(d, hidden)
        BY <1>4, <4>1 DEF FrameGuarded
      <4>3. Stored(x, e)
        BY <1>2, <4>1, <4>2, GuardFacts DEF Stored
      <4> QED
        BY <1>1, <1>2, <1>3, <2>4, <4>1, <4>3 DEF InFrame
    <3>3. CASE Item.k = "va"
      <4>1. e.len = 48 /\ e.mem = InFrame(saveArea)
        BY <3>1, <3>3 DEF GenIns
      <4>2. Decl.variadic
        BY <1>1, <3>3 DEF VaInVariadic
      <4>3. PICK x \in DOMAIN code : code[x] = AreaStore(d, saveArea)
        BY <1>4, <4>2 DEF FrameGuarded
      <4>4. Stored(x, e)
        BY <1>2, <4>1, <4>3, GuardFacts DEF Stored
      <4> QED
        BY <1>1, <1>2, <1>3, <2>4, <4>1, <4>4 DEF InFrame
    <3> QED
      BY <3>1, <3>2, <3>3
  <2> QED
    BY <1>3, <2>3, <2>4
<1>8. SymbolStores'
  <2> SUFFICES ASSUME NEW c \in DOMAIN code', NEW u, u = code'[c], u.op = "store",
                      u.mem.in = "symbol"
               PROVE  u.mem.pos \in DOMAIN syms'
    BY DEF SymbolStores
  <2>1. CASE u = e
    BY <2>1 DEF GenIns
  <2>2. CASE c \in DOMAIN code /\ u = code[c]
    BY <2>2 DEF KeptInv, SymbolStores, Grown
  <2> QED
    BY <1>3, <2>1, <2>2
<1>9. FramesBehind'
  <2> SUFFICES ASSUME NEW c \in DOMAIN code', NEW u, u = code'[c],
                      u.mem.in = "frame" \/ Guard(u)
               PROVE  u.fn <= d
    BY DEF FramesBehind
  <2>1. CASE u = e
    BY <1>1, <1>2, <2>1
  <2>2. CASE c \in DOMAIN code /\ u = code[c]
    BY <2>2 DEF KeptInv, FramesBehind
  <2> QED
    BY <1>3, <2>1, <2>2
<1>10. FrameGuarded'
  <2>1. BelowLocals'
    BY <1>4, <1>5 DEF FrameGuarded, BelowLocals
  <2>2. Decl' = Decl
    BY DEF Decl
  <2> QED
    BY <1>3, <1>4, <2>1, <2>2 DEF FrameGuarded
<1> QED
  BY <1>6, <1>7, <1>8, <1>9, <1>10 DEF KeptInv

LEMMA KeptStep ==
  ASSUME NamesInv, ScopeInv, SymbolsInv, CallsInv, KeptInv, [Next]_vars
  PROVE  KeptInv'
<1>1. /\ Grown(syms') /\ d \in Nat /\ d' \in Nat /\ code \in Seq(Emitted) /\ NamesInv'
      /\ phase \in {"globals", "functions", "collect", "generate", "done", "exited"}
  <2>1. NamesInv' /\ Grown(syms')
    BY StepInv
  <2> QED
    BY <2>1 DEF NamesInv, TypeOK, CallsInv
<1>2. CASE Prologue
  <2>1. VarsNamed
    BY <1>2, VarsAreNamed DEF Prologue
  <2> QED
    BY <1>1, <1>2, <2>1, KeptPrologue
<1>3. CASE /\ code' # code /\ phase' # "exited"
           /\ \/ GenOpen \/ GenClose \/ GenDecl \/ GenUse \/ GenCall \/ GenReturn
              \/ GenVa \/ GenOther
  <2>1. PICK e : GenIns(e) /\ code' = Append(code, e)
    BY <1>3, GenerateCode
  <2>2. /\ phase = "generate" /\ i <= Len(Body(Decl))
        /\ phase' = "generate" /\ file' = file /\ d' = d /\ locals' = locals
        /\ hidden' = hidden /\ saveArea' = saveArea
    BY <1>3
       DEF GenOpen, GenClose, CloseBlock, GenDecl, GenUse, GenCall, GenReturn, GenVa,
           GenOther, Access, Next1, Generating, Exit, frameVars
  <2> QED
    BY <1>1, <2>1, <2>2, KeptAppended
<1>4. CASE code' = code /\ phase' = phase /\ phase # "generate" /\ d' = d /\ file' = file
  BY <1>1, <1>4, KeptStays
<1>5. CASE /\ code' = code /\ phase' = "generate" /\ phase = "generate" /\ d' = d
           /\ file' = file /\ locals' = locals /\ hidden' = hidden /\ saveArea' = saveArea
  BY <1>1, <1>5, KeptStays
<1>6. CASE code' = code /\ phase' \in {"exited", "done"} /\ file' = file
  BY <1>1, <1>6, KeptStays
<1>7. CASE UNCHANGED vars
  BY <1>4, <1>5, <1>7 DEF vars, frameVars
<1>8. CASE GlobalVar \/ SkipFunction \/ Functions \/ SkipVar \/ Compiled \/ StartFunction
  <2>1. code' = code /\ file' = file
    BY <1>8 DEF GlobalVar, SkipFunction, Functions, SkipVar, Compiled, StartFunction, Exit
  <2>2. /\ phase' = "globals" => phase = "globals"
        /\ phase' # "generate"
        /\ phase' \in {"functions", "collect"} =>
             phase = "globals" \/ (phase \in {"functions", "collect"} /\ d <= d')
    BY <1>1, <1>8
       DEF GlobalVar, SkipFunction, Functions, SkipVar, Compiled, StartFunction, Exit
  <2> QED
    BY <1>1, <2>1, <2>2, KeptStays
<1>9. CASE CollectOpen \/ CollectClose \/ CollectDecl \/ CollectOther
  BY <1>4, <1>6, <1>9
     DEF CollectOpen, CollectClose, CloseBlock, CollectDecl, CollectOther, Collecting, Exit
<1>10. CASE CollectStatic
  <2>1. /\ code' = code /\ file' = file /\ phase = "collect"
        /\ phase' = "exited" \/ (phase' = phase /\ d' = d)
    BY <1>10, Zenon DEF CollectStatic, Collecting, Exit
  <2> QED
    BY <1>4, <1>6, <2>1
<1>11. CASE /\ code' = code \/ phase' = "exited"
            /\ \/ GenOpen \/ GenClose \/ GenDecl \/ GenUse \/ GenCall \/ GenReturn
               \/ GenVa \/ GenOther
  BY <1>5, <1>6, <1>11
     DEF GenOpen, GenClose, CloseBlock, GenDecl, GenUse, GenCall, GenReturn, GenVa,
         GenOther, Access, Next1, Generating, Exit, frameVars
<1>12. CASE EndFunction
  <2>1. /\ code' = code /\ file' = file /\ phase = "generate"
        /\ phase' = "exited" \/ (phase' = "functions" /\ d' = d + 1)
    BY <1>12 DEF EndFunction, Exit
  <2>2. d < d + 1
    BY <1>1
  <2> QED
    BY <1>1, <1>6, <2>1, <2>2, KeptStays
<1> QED
  BY <1>2, <1>3, <1>7, <1>8, <1>9, <1>10, <1>11, <1>12 DEF Next

(* If va_arg is used in variadic functions only, every return of a large   *)
(* structure and every va_arg loads, byte for byte, what the prologue of   *)
(* its function stored: no local variable lies over it, whatever their     *)
(* sizes, and the parameters - moved with 4 bytes or 8 into slots that may *)
(* be narrower - do not reach it.                                          *)
THEOREM NamesPrologue == Spec => [](VaInVariadic => PrologueKept)
<1>1. NamesInv /\ CallsInv /\ KeptInv => (VaInVariadic => PrologueKept)
  <2> SUFFICES ASSUME NamesInv, CallsInv, KeptInv, VaInVariadic,
                      NEW c \in DOMAIN code, NEW e, e = code[c], KeptLoad(e),
                      NEW b \in 0 .. e.len - 1
               PROVE  LastStore(c, Byte(e, b)) \in {<<e.fn, -1>>, <<e.fn, -2>>}
    BY DEF PrologueKept, KeptLoad
  <2>1. /\ e.mem.in = "frame" /\ e.at # 0
        /\ \E x \in DOMAIN code : x < c /\ Stored(x, e)
    BY DEF KeptInv, LoadsBack
  <2>2. PICK x \in DOMAIN code : x < c /\ Stored(x, e)
    BY <2>1
  <2> DEFINE g == code[x]
             byte == Byte(e, b)
             S == {y \in Stores : Sooner(y, c) /\ Covers(y, byte)}
  <2>3. /\ Guard(g) /\ g.fn = e.fn /\ g.mem = e.mem /\ g.len = e.len
        /\ g.op = "store" /\ g.at \in {-1, -2} /\ g \in Emitted
    BY <2>2 DEF Stored, Guard, CallsInv
  <2>4. byte = <<"frame", e.fn, e.mem.pos + b>> /\ byte = Byte(g, b)
    BY <2>1, <2>3 DEF Byte
  <2>5. g.mem.pos \in Int /\ g.len \in Nat /\ g.mem.in = "frame"
    BY <2>1, <2>3 DEF Emitted
  <2>6. x \in S
    <3>1. Sooner(x, c)
      BY <2>1, <2>2, <2>3 DEF Sooner
    <3>2. Covers(x, byte)
      BY <2>3, <2>4 DEF Covers
    <3> QED
      BY <2>3, <3>1, <3>2 DEF Stores
  <2>7. ASSUME NEW y \in S, y # x
        PROVE  FALSE
    <3> DEFINE u == code[y]
    <3>1. y \in DOMAIN code /\ u.op = "store" /\ u \in Emitted
      BY <2>7 DEF Stores, CallsInv
    <3>2. PICK a \in 0 .. u.len - 1 : Byte(u, a) = byte
      BY <2>7 DEF Covers
    <3>3. CASE u.mem.in = "frame"
      <4>1. Byte(u, a) = <<"frame", u.fn, u.mem.pos + a>>
        BY <3>3 DEF Byte
      <4>2. u.fn = g.fn /\ u.mem.pos + a = g.mem.pos + b
        BY <2>3, <2>4, <3>2, <4>1
      <4>3. Apart(g, u)
        BY <2>3, <2>7, <3>1, <3>3, <4>2 DEF KeptInv, GuardsApart, FrameStore
      <4>4. /\ u.mem.pos \in Int /\ u.len \in Nat
            /\ a \in Int /\ 0 <= a /\ a < u.len
            /\ b \in Int /\ 0 <= b /\ b < g.len
        BY <2>3, <2>5, <3>1 DEF Emitted
      <4> DEFINE p == g.mem.pos
                 q == u.mem.pos
                 m == g.len
                 n == u.len
      <4>5. /\ p \in Int /\ q \in Int /\ m \in Nat /\ n \in Nat
            /\ a \in Int /\ 0 <= a /\ a < n /\ b \in Int /\ 0 <= b /\ b < m
            /\ q + a = p + b /\ (p + m <= q \/ q + n <= p)
        BY <2>5, <4>2, <4>3, <4>4 DEF Apart
      <4> HIDE DEF p, q, m, n
      <4> QED
        BY <4>5
    <3>4. CASE u.mem.in # "frame"
      <4>1. u.mem.in = "symbol"
        BY <3>1, <3>4 DEF Emitted
      <4>2. u.mem.pos \in DOMAIN syms
        BY <3>1, <4>1 DEF KeptInv, SymbolStores
      <4>3. syms[u.mem.pos].sect # "frame"
        <5>1. syms[u.mem.pos] \in Symbols
          BY <4>2 DEF NamesInv, TypeOK
        <5> QED
          BY <5>1 DEF Symbols
      <4>4. Byte(u, a)[1] # "frame"
        BY <4>1, <4>3 DEF Byte
      <4> QED
        BY <2>4, <3>2, <4>4
    <3> QED
      BY <3>3, <3>4
  <2>8. S = {x}
    BY <2>6, <2>7
  <2>9. LastStore(c, byte) = Event(g)
    <3> HIDE DEF S, byte
    <3>1. (CHOOSE z \in S : \A y \in S : y = z \/ Sooner(y, z)) = x
      BY <2>8
    <3>2. S # {}
      BY <2>8
    <3>3. LastStore(c, byte) = IF S = {} THEN <<>>
            ELSE Event(code[CHOOSE z \in S : \A y \in S : y = z \/ Sooner(y, z)])
      BY DEF LastStore, S
    <3> QED
      BY <3>1, <3>2, <3>3
  <2>10. Event(g) = <<e.fn, g.at>>
    BY <2>3 DEF Event
  <2> QED
    BY <2>3, <2>9, <2>10
<1> QED
  BY <1>1, InitInv, StepInv, ScopeInit, ScopeStep, SymbolsInit, SymbolsStep, CallsInit,
     CallsStep, KeptInit, KeptStep, PTL DEF Spec

(* How the level changes from one position to the next. *)
Rise(b, p) == (IF p > 1 /\ b[p - 1].k \in Opens THEN 1 ELSE 0)
              - (IF b[p].k \in Closes THEN 1 ELSE 0)
LevelAt(b, g, p) == IF p = 0 THEN 0
                    ELSE g[p - 1] + (IF p > 1 /\ b[p - 1].k \in Opens THEN 1 ELSE 0)
                         - (IF b[p].k \in Closes THEN 1 ELSE 0)

(* Such a function can be made up to any position. *)
LEMMA LevelsExist ==
  ASSUME NEW b, NEW N \in Nat
  PROVE  \E g : g = [p \in 0 .. N |-> LevelAt(b, g, p)]
<1> DEFINE Good(n) == \E g : g = [p \in 0 .. n |-> LevelAt(b, g, p)]
           Bad == {n \in Nat : ~Good(n)}
<1>1. SUFFICES ASSUME Bad # {} PROVE FALSE
  OBVIOUS
<1>2. PICK n \in Bad : \A m \in Bad : n <= m
  <2>1. Bad \subseteq Nat
    OBVIOUS
  <2> HIDE DEF Bad
  <2> QED
    BY <1>1, <2>1, HasMin
<1>3. n # 0
  <2> DEFINE g == [p \in 0 .. 0 |-> 0]
  <2>1. g = [p \in 0 .. 0 |-> LevelAt(b, g, p)]
    BY DEF LevelAt
  <2>2. Good(0)
    BY <2>1
  <2> QED
    BY <2>2
<1>4. n - 1 \in Nat /\ n - 1 \notin Bad
  BY <1>2, <1>3
<1>5. PICK h : h = [p \in 0 .. n - 1 |-> LevelAt(b, h, p)]
  BY <1>4
<1> DEFINE g == [p \in 0 .. n |-> IF p = n THEN LevelAt(b, h, n) ELSE h[p]]
<1>6. ASSUME NEW p \in 0 .. n PROVE g[p] = LevelAt(b, g, p)
  <2>1. CASE p = n
    <3>1. n - 1 \in 0 .. n /\ n - 1 # n
      BY <1>4
    <3>2. g[n - 1] = h[n - 1]
      BY <3>1
    <3>3. g[p] = LevelAt(b, h, n)
      BY <2>1
    <3> HIDE DEF g
    <3> QED
      BY <1>3, <2>1, <3>2, <3>3 DEF LevelAt
  <2>2. CASE p # n /\ p # 0
    <3>1. p \in 0 .. n - 1 /\ p - 1 \in 0 .. n /\ p - 1 # n
      BY <2>2
    <3>2. g[p] = h[p] /\ g[p - 1] = h[p - 1]
      BY <2>2, <3>1
    <3>3. h[p] = LevelAt(b, h, p)
      BY <1>5, <3>1
    <3> HIDE DEF g
    <3> QED
      BY <2>2, <3>2, <3>3 DEF LevelAt
  <2>3. CASE p # n /\ p = 0
    <3>1. p \in 0 .. n - 1
      BY <1>4, <2>3
    <3>2. g[p] = h[p] /\ h[p] = LevelAt(b, h, p)
      BY <1>5, <2>3, <3>1
    <3> HIDE DEF g
    <3> QED
      BY <2>3, <3>2 DEF LevelAt
  <2> QED
    BY <2>1, <2>2, <2>3
<1>7. g = [p \in 0 .. n |-> LevelAt(b, g, p)]
  BY <1>6
<1> HIDE DEF g
<1>8. Good(n)
  BY <1>7
<1> QED
  BY <1>2, <1>8

(* The levels of a body satisfy their equation, and are numbers. *)
LEMMA LevelsAre ==
  ASSUME NEW b, Len(b) \in Nat
  PROVE  /\ Levels(b)[0] = 0
         /\ \A p \in 1 .. Len(b) : Levels(b)[p] = Levels(b)[p - 1] + Rise(b, p)
         /\ \A p \in 0 .. Len(b) : Levels(b)[p] \in Int
<1> DEFINE N == Len(b)
           f == Levels(b)
<1>1. \E g : g = [p \in 0 .. N |-> LevelAt(b, g, p)]
  BY LevelsExist
<1>2. f = [p \in 0 .. N |-> LevelAt(b, f, p)]
  BY <1>1 DEF Levels, LevelAt
<1> HIDE DEF N, f
<1>3. \A p \in 0 .. N : f[p] = LevelAt(b, f, p)
  <2> SUFFICES ASSUME NEW p \in 0 .. N PROVE f[p] = LevelAt(b, f, p)
    OBVIOUS
  <2> DEFINE g == f
  <2>1. f = [w \in 0 .. N |-> LevelAt(b, g, w)]
    BY <1>2
  <2> HIDE DEF g
  <2>2. f[p] = LevelAt(b, g, p)
    BY <2>1
  <2> QED
    BY <2>2 DEF g
<1>0. N \in Nat
  BY DEF N
<1>4. f[0] = 0
  BY <1>0, <1>3 DEF LevelAt
<1> DEFINE Bad == {p \in 0 .. N : f[p] \notin Int}
<1>5. Bad = {}
  <2> SUFFICES ASSUME Bad # {} PROVE FALSE
    OBVIOUS
  <2>1. PICK p \in Bad : \A w \in Bad : p <= w
    <3>1. Bad \subseteq Nat
      BY <1>0
    <3> HIDE DEF Bad
    <3> QED
      BY <3>1, HasMin
  <2>2. p \in 0 .. N /\ f[p] \notin Int /\ p # 0
    BY <1>4, <2>1
  <2>3. p - 1 \in 0 .. N /\ p - 1 \notin Bad
    BY <1>0, <2>1, <2>2
  <2>4. f[p - 1] \in Int
    BY <2>3
  <2>5. f[p] = LevelAt(b, f, p)
    BY <1>3, <2>2
  <2> QED
    BY <2>2, <2>4, <2>5 DEF LevelAt
<1>6. ASSUME NEW p \in 1 .. N
      PROVE  f[p] = f[p - 1] + Rise(b, p)
  <2>1. p \in 0 .. N /\ p # 0 /\ p - 1 \in 0 .. N
    BY <1>0
  <2>2. f[p - 1] \in Int
    BY <1>5, <2>1
  <2>3. f[p] = LevelAt(b, f, p)
    BY <1>3, <2>1
  <2> QED
    BY <2>1, <2>2, <2>3 DEF LevelAt, Rise
<1>7. \A p \in 0 .. N : f[p] \in Int
  BY <1>5
<1> QED
  BY <1>4, <1>6, <1>7 DEF N, f

(* What holds at a and is handed on holds from there on. *)
LEMMA Onward ==
  ASSUME NEW a \in Nat, NEW n \in Nat, NEW S, a \in S,
         \A p \in a .. n - 1 : p \in S => p + 1 \in S
  PROVE  \A p \in a .. n : p \in S
<1> DEFINE Bad == {p \in a .. n : p \notin S}
<1>1. SUFFICES ASSUME Bad # {} PROVE FALSE
  OBVIOUS
<1>2. PICK p \in Bad : \A q \in Bad : p <= q
  <2>1. Bad \subseteq Nat
    OBVIOUS
  <2> HIDE DEF Bad
  <2> QED
    BY <1>1, <2>1, HasMin
<1>3. p \in a .. n /\ p \notin S /\ p # a
  BY <1>2
<1>4. p - 1 \in a .. n - 1 /\ p - 1 \in a .. n /\ p - 1 \notin Bad /\ p - 1 + 1 = p
  BY <1>2, <1>3
<1>5. p - 1 \in S
  BY <1>4
<1> QED
  BY <1>3, <1>4, <1>5

-----------------------------------------------------------------------------
(* The chain of blocks: the numbers grow inwards, and none is above k. *)
Chain(ch, k) ==
  /\ ch \in Seq(Nat) /\ k \in Nat
  /\ \A x \in 1 .. Len(ch) : ch[x] <= k
  /\ \A x, y \in 1 .. Len(ch) : x < y => ch[x] < ch[y]

(* The numbers of a chain are numbers. *)
LEMMA ChainHas ==
  ASSUME NEW ch, NEW k, Chain(ch, k)
  PROVE  /\ Len(ch) \in Nat /\ k \in Nat
         /\ \A x \in 1 .. Len(ch) : ch[x] \in Nat /\ ch[x] <= k
<1>1. ch \in Seq(Nat) /\ k \in Nat /\ \A x \in 1 .. Len(ch) : ch[x] <= k
  BY DEF Chain
<1> QED
  BY <1>1

(* What item p makes of chain ch and number k. *)
Turned(b, p, ch, k, ch1, k1) ==
  /\ Chain(ch1, k1) /\ k <= k1
  /\ b[p].k = "open" => Len(ch1) = Len(ch) + 1
  /\ b[p].k = "close" => Len(ch1) = IF Len(ch) = 0 THEN 0 ELSE Len(ch) - 1
  /\ b[p].k \notin {"open", "close"} => Len(ch1) = Len(ch)
  /\ \A x \in 1 .. Len(ch1) : /\ x <= Len(ch) => ch1[x] = ch[x]
                              /\ x > Len(ch) => ch1[x] > k

(* One item changes a chain at its end only. *)
LEMMA TurnFacts ==
  ASSUME NEW b, NEW p, NEW c, NEW m, Chain(c[p - 1], m[p - 1]), Turn(b, p, c, m)
  PROVE  Turned(b, p, c[p - 1], m[p - 1], c[p], m[p])
<1> DEFINE ch == c[p - 1]
           k == m[p - 1]
           ch1 == c[p]
           k1 == m[p]
<1>1. Chain(ch, k)
  OBVIOUS
<1>2. /\ b[p].k = "open" => k1 = k + 1 /\ ch1 = Append(ch, k1)
      /\ b[p].k = "close" => k1 = k /\ ch1 = SubSeq(ch, 1, Len(ch) - 1)
      /\ b[p].k \notin {"open", "close"} => k1 = k /\ ch1 = ch
  BY DEF Turn
<1> SUFFICES Turned(b, p, ch, k, ch1, k1)
  OBVIOUS
<1> HIDE DEF ch, k, ch1, k1
<1>3. CASE b[p].k = "open"
  <2>1. k1 = k + 1 /\ ch1 = Append(ch, k1) /\ ch \in Seq(Nat) /\ k \in Nat
    BY <1>1, <1>2, <1>3 DEF Chain
  <2>2. /\ ch1 \in Seq(Nat) /\ Len(ch1) = Len(ch) + 1 /\ Len(ch) \in Nat
        /\ \A x \in 1 .. Len(ch) : ch1[x] = ch[x]
        /\ ch1[Len(ch) + 1] = k + 1
    BY <2>1
  <2>3. \A x \in 1 .. Len(ch1) : \/ x \in 1 .. Len(ch) /\ ch1[x] = ch[x] /\ ch[x] <= k
                                 \/ x = Len(ch) + 1 /\ ch1[x] = k + 1
    BY <1>1, <2>2 DEF Chain
  <2>4. Chain(ch1, k1)
    <3>1. \A x \in 1 .. Len(ch1) : ch1[x] \in Nat /\ ch1[x] <= k1
      BY <2>1, <2>2, <2>3
    <3>2. ASSUME NEW x \in 1 .. Len(ch1), NEW y \in 1 .. Len(ch1), x < y
          PROVE  ch1[x] < ch1[y]
      <4>1. x \in 1 .. Len(ch) /\ ch1[x] = ch[x] /\ ch[x] <= k /\ ch1[x] \in Nat
        BY <2>2, <2>3, <3>1, <3>2
      <4>2. CASE y \in 1 .. Len(ch)
        BY <1>1, <2>2, <3>2, <4>1, <4>2 DEF Chain
      <4>3. CASE y = Len(ch) + 1
        BY <2>1, <2>2, <4>1, <4>3
      <4> QED
        BY <2>2, <4>2, <4>3
    <3> QED
      BY <2>1, <2>2, <3>1, <3>2 DEF Chain
  <2> QED
    BY <1>3, <2>1, <2>2, <2>3, <2>4 DEF Turned
<1>4. CASE b[p].k = "close"
  <2>1. k1 = k /\ ch1 = SubSeq(ch, 1, Len(ch) - 1) /\ ch \in Seq(Nat)
    BY <1>1, <1>2, <1>4 DEF Chain
  <2>2. CASE Len(ch) = 0
    <3>1. ch1 \in Seq(Nat) /\ Len(ch1) = 0
      BY <2>1, <2>2
    <3> QED
      BY <1>1, <1>4, <2>1, <2>2, <3>1 DEF Chain, Turned
  <2>3. CASE Len(ch) # 0
    <3>1. /\ ch1 \in Seq(Nat) /\ Len(ch1) = Len(ch) - 1
          /\ \A x \in 1 .. Len(ch1) : ch1[x] = ch[x]
      <4>1. Len(ch) \in Nat /\ Len(ch) - 1 \in Nat
        BY <2>1, <2>3
      <4>2. ch1 = [x \in 1 .. Len(ch) - 1 |-> ch[x]]
        BY <2>1, <4>1
      <4>3. \A x \in 1 .. Len(ch) - 1 : x \in 1 .. Len(ch) /\ ch[x] \in Nat
        BY <2>1, <4>1
      <4> QED
        BY <4>1, <4>2, <4>3
    <3> QED
      <4>1. Len(ch) \in Nat /\ k \in Nat
        BY <1>1 DEF Chain
      <4>2. \A x \in 1 .. Len(ch1) : x \in 1 .. Len(ch) /\ ch1[x] = ch[x]
        BY <2>3, <3>1, <4>1
      <4>3. Chain(ch1, k1)
        BY <1>1, <2>1, <3>1, <4>2 DEF Chain
      <4> QED
        BY <1>4, <2>1, <2>3, <3>1, <4>1, <4>2, <4>3 DEF Turned
  <2> QED
    BY <2>2, <2>3
<1>5. CASE b[p].k \notin {"open", "close"}
  BY <1>1, <1>2, <1>5 DEF Chain, Turned
<1> QED
  BY <1>3, <1>4, <1>5

(* So it is at every item of a body. *)
LEMMA Chains ==
  ASSUME NEW b, NEW n \in Nat, NEW c, NEW m, Scopes(b, n, c, m)
  PROVE  /\ \A p \in 0 .. n : Chain(c[p], m[p])
         /\ \A p \in 1 .. n : Turned(b, p, c[p - 1], m[p - 1], c[p], m[p])
<1> DEFINE S == {p \in Nat : Chain(c[p], m[p])}
<1>1. 0 \in S
  <2>1. c[0] = <<>> /\ m[0] = 0
    BY DEF Scopes
  <2>2. Chain(<<>>, 0)
    BY DEF Chain
  <2>3. Chain(c[0], m[0])
    BY <2>1, <2>2, Zenon
  <2> QED
    BY <2>3
<1>2. ASSUME NEW p \in 0 .. n - 1, p \in S PROVE p + 1 \in S
  <2>1. Chain(c[p + 1 - 1], m[p + 1 - 1]) /\ p + 1 \in 1 .. n /\ p + 1 \in Nat
    <3>1. p + 1 - 1 = p /\ p + 1 \in 1 .. n /\ p + 1 \in Nat
      OBVIOUS
    <3> QED
      BY <1>2, <3>1
  <2>2. Turn(b, p + 1, c, m)
    BY <2>1 DEF Scopes
  <2>3. Chain(c[p + 1], m[p + 1])
    BY <2>1, <2>2, TurnFacts DEF Turned
  <2> QED
    BY <2>1, <2>3
<1> HIDE DEF S
<1>3. \A p \in 0 .. n : p \in S
  BY <1>1, <1>2, Onward
<1>4. \A p \in 0 .. n : Chain(c[p], m[p])
  BY <1>3 DEF S
<1>5. ASSUME NEW p \in 1 .. n PROVE Turned(b, p, c[p - 1], m[p - 1], c[p], m[p])
  <2>1. p - 1 \in 0 .. n
    OBVIOUS
  <2> QED
    BY <1>4, <2>1, TurnFacts DEF Scopes
<1> QED
  BY <1>4, <1>5

(* What is added to a chain later is numbered higher. *)
Over(ch, k, ch1, k1) ==
  /\ k <= k1
  /\ \A x \in 1 .. Len(ch1) : /\ x <= Len(ch) => ch[x] <= ch1[x]
                              /\ x > Len(ch) => k < ch1[x]

(* From one item to a later one, whatever is closed and opened between     *)
(* them, the chain grows in this sense.                                    *)
LEMMA ChainsGrow ==
  ASSUME NEW b, NEW n \in Nat, NEW c, NEW m, Scopes(b, n, c, m),
         NEW r \in 0 .. n, NEW s \in r .. n
  PROVE  Over(c[r], m[r], c[s], m[s])
<1> DEFINE S == {p \in Nat : Over(c[r], m[r], c[p], m[p])}
<1>0. /\ \A p \in 0 .. n : Chain(c[p], m[p])
      /\ \A p \in 1 .. n : Turned(b, p, c[p - 1], m[p - 1], c[p], m[p])
  BY Chains
<1>1. r \in S
  <2>1. Chain(c[r], m[r])
    BY <1>0
  <2> DEFINE ch == c[r]
             k == m[r]
  <2> HIDE DEF ch, k
  <2>2. Chain(ch, k)
    BY <2>1 DEF ch, k
  <2>3. Over(ch, k, ch, k)
    BY <2>2 DEF Chain, Over
  <2> QED
    BY <2>3 DEF ch, k
<1>2. ASSUME NEW p \in r .. n - 1, p \in S PROVE p + 1 \in S
  <2> DEFINE ch == c[r]
             k == m[r]
             ch1 == c[p]
             k1 == m[p]
             ch2 == c[p + 1]
             k2 == m[p + 1]
  <2>1. Chain(ch, k) /\ Chain(ch1, k1) /\ Over(ch, k, ch1, k1) /\ p + 1 \in Nat
    <3>1. p \in 0 .. n
      OBVIOUS
    <3> QED
      BY <1>0, <1>2, <3>1
  <2>2. Turned(b, p + 1, ch1, k1, ch2, k2)
    <3>1. p + 1 \in 1 .. n /\ p + 1 - 1 = p
      OBVIOUS
    <3>2. Turned(b, p + 1, c[p + 1 - 1], m[p + 1 - 1], c[p + 1], m[p + 1])
      BY <1>0, <3>1
    <3> QED
      BY <3>1, <3>2
  <2> HIDE DEF ch, k, ch1, k1, ch2, k2
  <2>3. k <= k2 /\ k <= k1 /\ k1 <= k2 /\ k \in Nat /\ k1 \in Nat /\ k2 \in Nat
    BY <2>1, <2>2 DEF Over, Turned, Chain
  <2>4. ASSUME NEW x \in 1 .. Len(ch2)
        PROVE  /\ x <= Len(ch) => ch[x] <= ch2[x]
               /\ x > Len(ch) => k < ch2[x]
    <3>1. /\ x \in Nat /\ x >= 1 /\ Len(ch) \in Nat /\ Len(ch1) \in Nat
          /\ x <= Len(ch) => ch[x] \in Nat /\ ch[x] <= k
          /\ ch2[x] \in Nat
      <4>1. Chain(ch2, k2)
        BY <2>2 DEF Turned
      <4>2. /\ Len(ch) \in Nat /\ Len(ch1) \in Nat /\ Len(ch2) \in Nat
            /\ \A y \in 1 .. Len(ch) : ch[y] \in Nat /\ ch[y] <= k
            /\ \A y \in 1 .. Len(ch2) : ch2[y] \in Nat
        BY <2>1, <4>1, ChainHas
      <4>3. x \in Nat /\ x >= 1 /\ (x <= Len(ch) => x \in 1 .. Len(ch))
        BY <4>2
      <4> QED
        BY <4>2, <4>3
    <3>2. CASE x <= Len(ch1)
      <4>1. x \in 1 .. Len(ch1) /\ ch2[x] = ch1[x]
        BY <2>2, <3>1, <3>2 DEF Turned
      <4> QED
        BY <2>1, <4>1 DEF Over
    <3>3. CASE x > Len(ch1)
      <4>1. ch2[x] > k1
        BY <2>2, <3>3 DEF Turned
      <4> QED
        BY <2>3, <3>1, <4>1
    <3> QED
      BY <3>1, <3>2, <3>3
  <2>5. Over(ch, k, ch2, k2)
    BY <2>3, <2>4 DEF Over
  <2> QED
    BY <2>1, <2>5 DEF ch, k, ch2, k2
<1> HIDE DEF S
<1>3. \A p \in r .. n : p \in S
  <2>1. r \in Nat
    OBVIOUS
  <2> QED
    BY <1>1, <1>2, <2>1, Onward
<1>4. s \in S
  BY <1>3
<1> QED
  BY <1>4 DEF S

(* While it does not become shorter than that, its first L blocks stay. *)
NeverShorter(c, r, s, L) == \A t \in r .. s : L <= Len(c[t])

(* By induction over the items between them. *)
LEMMA ChainKept ==
  ASSUME NEW b, NEW n \in Nat, NEW c, NEW m, Scopes(b, n, c, m),
         NEW r \in 0 .. n, NEW s \in r .. n, NEW L \in Nat, NeverShorter(c, r, s, L)
  PROVE  \A x \in 1 .. L : c[s][x] = c[r][x]
<1> DEFINE S == {p \in Nat : \A x \in 1 .. L : c[p][x] = c[r][x]}
<1>0. /\ \A p \in 0 .. n : Chain(c[p], m[p])
      /\ \A p \in 1 .. n : Turned(b, p, c[p - 1], m[p - 1], c[p], m[p])
  BY Chains
<1>1. r \in S /\ r \in Nat /\ s \in Nat
  OBVIOUS
<1>2. ASSUME NEW p \in r .. s - 1, p \in S PROVE p + 1 \in S
  <2> DEFINE ch1 == c[p]
             k1 == m[p]
             ch2 == c[p + 1]
             k2 == m[p + 1]
  <2>1. /\ p + 1 \in 1 .. n /\ p + 1 - 1 = p /\ p + 1 \in r .. s /\ p \in r .. s
        /\ p + 1 \in Nat /\ p \in 0 .. n
    OBVIOUS
  <2>2. Turned(b, p + 1, ch1, k1, ch2, k2)
    <3>2. Turned(b, p + 1, c[p + 1 - 1], m[p + 1 - 1], c[p + 1], m[p + 1])
      BY <1>0, <2>1
    <3> QED
      BY <2>1, <3>2
  <2>3. Chain(ch1, k1) /\ L <= Len(ch1) /\ L <= Len(ch2)
    BY <1>0, <2>1 DEF NeverShorter
  <2>4. \A x \in 1 .. L : ch1[x] = c[r][x]
    BY <1>2
  <2> HIDE DEF ch1, ch2, k1, k2
  <2>5. ASSUME NEW x \in 1 .. L PROVE ch2[x] = c[r][x]
    <3>1. x \in 1 .. Len(ch2) /\ x <= Len(ch1)
      <4>1. Len(ch1) \in Nat /\ Len(ch2) \in Nat
        BY <2>2, <2>3 DEF Turned, Chain
      <4> QED
        BY <2>3, <4>1
    <3>2. ch2[x] = ch1[x]
      BY <2>2, <3>1 DEF Turned
    <3> QED
      BY <2>4, <3>2
  <2> QED
    BY <2>1, <2>5 DEF ch2
<1> HIDE DEF S
<1>3. \A p \in r .. s : p \in S
  BY <1>1, <1>2, Onward
<1>4. s \in S
  BY <1>1, <1>3
<1> QED
  BY <1>4 DEF S

(* The number of blocks around a position, in words of C. *)
Opening(b, p) == IF p >= 1 /\ b[p].k = "open" THEN 1 ELSE 0

(* What the braces of a body are, and how its levels rise at them. *)
LEMMA BracesHave ==
  ASSUME NEW b, NEW T, b \in Seq(T)
  PROVE  /\ Len(Braces(b)) = Len(b) /\ Len(b) \in Nat
         /\ \A p \in 1 .. Len(b) :
              /\ Rise(Braces(b), p) = (IF p > 1 /\ b[p - 1].k = "open" THEN 1 ELSE 0)
                                       - (IF b[p].k = "close" THEN 1 ELSE 0)
<1>1. Len(b) \in Nat /\ DOMAIN b = 1 .. Len(b)
  OBVIOUS
<1>2. Braces(b) = [p \in 1 .. Len(b) |-> IF b[p].k \in {"open", "close"} THEN b[p]
                                         ELSE [k |-> "get"]]
  BY <1>1 DEF Braces
<1>3. Len(Braces(b)) = Len(b)
  BY <1>1, <1>2
<1>4. \A p \in 1 .. Len(b) : /\ Braces(b)[p].k \in Opens <=> b[p].k = "open"
                             /\ Braces(b)[p].k \in Closes <=> b[p].k = "close"
  BY <1>2 DEF Opens, Closes
<1>5. ASSUME NEW p \in 1 .. Len(b)
      PROVE  Rise(Braces(b), p) = (IF p > 1 /\ b[p - 1].k = "open" THEN 1 ELSE 0)
                                   - (IF b[p].k = "close" THEN 1 ELSE 0)
  <2>1. p > 1 => p - 1 \in 1 .. Len(b)
    OBVIOUS
  <2> QED
    BY <1>4, <2>1 DEF Rise
<1> QED
  BY <1>1, <1>3, <1>5

(* The chain is as long as C's count of the blocks around. *)
LEMMA DepthLevel ==
  ASSUME NEW b, NEW T, b \in Seq(T), NEW c, NEW m, Scopes(b, Len(b), c, m),
         \A p \in 1 .. Len(b) : Levels(Braces(b))[p] >= 0
  PROVE  \A p \in 0 .. Len(b) : Len(c[p]) = Levels(Braces(b))[p] + Opening(b, p)
<1> DEFINE n == Len(b)
           block == Levels(Braces(b))
           S == {p \in Nat : Len(c[p]) = block[p] + Opening(b, p)}
<1>0. /\ n \in Nat
      /\ \A p \in 0 .. n : Chain(c[p], m[p])
      /\ \A p \in 1 .. n : Turned(b, p, c[p - 1], m[p - 1], c[p], m[p])
  <2>1. n \in Nat
    OBVIOUS
  <2> QED
    BY <2>1, Chains
<1>1. /\ block[0] = 0
      /\ \A p \in 1 .. n : block[p] = block[p - 1] + Rise(Braces(b), p)
      /\ \A p \in 0 .. n : block[p] \in Int
  BY <1>0, BracesHave, LevelsAre
<1>2. 0 \in S
  <2>1. c[0] = <<>>
    BY DEF Scopes
  <2>2. Opening(b, 0) = 0
    BY DEF Opening
  <2> QED
    BY <1>1, <2>1, <2>2
<1>3. ASSUME NEW p \in 0 .. n - 1, p \in S PROVE p + 1 \in S
  <2>1. p + 1 \in 1 .. n /\ p + 1 - 1 = p /\ p \in 0 .. n /\ p + 1 \in Nat
        /\ p + 1 \in 0 .. n
    BY <1>0
  <2>2. Turned(b, p + 1, c[p], m[p], c[p + 1], m[p + 1])
    <3>1. Turned(b, p + 1, c[p + 1 - 1], m[p + 1 - 1], c[p + 1], m[p + 1])
      BY <1>0, <2>1
    <3> QED
      BY <2>1, <3>1
  <2>3. /\ Len(c[p]) = block[p] + Opening(b, p)
        /\ Len(c[p]) \in Nat /\ block[p] \in Int /\ block[p + 1] \in Int
        /\ block[p + 1] >= 0
    <3>1. Chain(c[p], m[p])
      BY <1>0, <2>1
    <3>2. Len(c[p]) \in Nat
      BY <3>1, ChainHas
    <3> QED
      BY <1>1, <1>3, <2>1, <3>2
  <2>4. block[p + 1] = block[p] + (IF p + 1 > 1 /\ b[p].k = "open" THEN 1 ELSE 0)
                        - (IF b[p + 1].k = "close" THEN 1 ELSE 0)
    <3>1. block[p + 1] = block[p + 1 - 1] + Rise(Braces(b), p + 1)
      BY <1>1, <2>1
    <3>2. Rise(Braces(b), p + 1) = (IF p + 1 > 1 /\ b[p + 1 - 1].k = "open" THEN 1 ELSE 0)
                                     - (IF b[p + 1].k = "close" THEN 1 ELSE 0)
      BY <2>1, BracesHave
    <3> QED
      BY <2>1, <2>3, <3>1, <3>2
  <2>5. block[p + 1] = Len(c[p]) - (IF b[p + 1].k = "close" THEN 1 ELSE 0)
    BY <2>1, <2>3, <2>4 DEF Opening
  <2>6. /\ b[p + 1].k = "open" => Len(c[p + 1]) = Len(c[p]) + 1
        /\ b[p + 1].k = "close" => Len(c[p + 1]) = IF Len(c[p]) = 0 THEN 0 ELSE Len(c[p]) - 1
        /\ b[p + 1].k \notin {"open", "close"} => Len(c[p + 1]) = Len(c[p])
    BY <2>2 DEF Turned
  <2>7. Len(c[p + 1]) = block[p + 1] + Opening(b, p + 1)
    <3> HIDE DEF block, n
    <3> QED
      BY <2>1, <2>3, <2>5, <2>6 DEF Opening
  <2> QED
    BY <2>1, <2>7
<1> HIDE DEF S
<1>4. \A p \in 0 .. n : p \in S
  BY <1>0, <1>2, <1>3, Onward
<1> QED
  BY <1>4 DEF S

(* The number of the block around. *)
LEMMA LastHas ==
  ASSUME NEW ch, NEW k, Chain(ch, k)
  PROVE  /\ LastOf(ch) \in Nat /\ LastOf(ch) <= k
         /\ Len(ch) = 0 => LastOf(ch) = 0
         /\ Len(ch) # 0 => LastOf(ch) = ch[Len(ch)] /\ Len(ch) \in 1 .. Len(ch)
<1>1. ch \in Seq(Nat) /\ k \in Nat
  BY DEF Chain
<1>2. CASE ch = <<>>
  BY <1>1, <1>2 DEF LastOf
<1>3. CASE ch # <<>>
  <2>1. Len(ch) \in Nat /\ Len(ch) # 0 /\ Len(ch) \in 1 .. Len(ch)
    BY <1>1, <1>3
  <2>2. ch[Len(ch)] \in Nat /\ ch[Len(ch)] <= k
    BY <2>1, ChainHas
  <2> QED
    BY <1>3, <2>1, <2>2 DEF LastOf
<1> QED
  BY <1>2, <1>3

(* Where code is generated with chains c: the nesting of b, and the depth  *)
(* and the number of the block around item p.                              *)
Nested(b, c, m) ==
  /\ b \in Seq(Items) /\ WellNested(b)
  /\ Scopes(b, Len(b), c, m)
Depth(b)    == Levels(Braces(b))
Plain(b, p) == p \in 1 .. Len(b) /\ b[p].k \notin {"open", "close"}

(* What is known of the chains of such a body at every position. *)
LEMMA NestedHave ==
  ASSUME NEW b, NEW c, NEW m, Nested(b, c, m)
  PROVE  /\ Len(b) \in Nat
         /\ \A p \in 0 .. Len(b) : /\ Chain(c[p], m[p]) /\ Depth(b)[p] \in Int
                                   /\ Len(c[p]) = Depth(b)[p] + Opening(b, p)
         /\ \A p \in 1 .. Len(b) : Turned(b, p, c[p - 1], m[p - 1], c[p], m[p])
         /\ \A p : Plain(b, p) => Len(c[p - 1]) = Depth(b)[p]
<1>1. b \in Seq(Items) /\ Len(b) \in Nat /\ Scopes(b, Len(b), c, m)
  BY DEF Nested
<1>2. \A p \in 1 .. Len(b) : Levels(Braces(b))[p] >= 0
  BY DEF Nested, WellNested
<1>3. \A p \in 0 .. Len(b) : Len(c[p]) = Depth(b)[p] + Opening(b, p)
  BY <1>1, <1>2, DepthLevel DEF Depth
<1>4. /\ \A p \in 0 .. Len(b) : Chain(c[p], m[p])
      /\ \A p \in 1 .. Len(b) : Turned(b, p, c[p - 1], m[p - 1], c[p], m[p])
  BY <1>1, Chains
<1>5. \A p \in 0 .. Len(b) : Depth(b)[p] \in Int
  BY <1>1, BracesHave, LevelsAre DEF Depth
<1>6. ASSUME NEW p, Plain(b, p) PROVE Len(c[p - 1]) = Depth(b)[p]
  <2>1. p \in 1 .. Len(b) /\ p \in 0 .. Len(b) /\ b[p].k \notin {"open", "close"}
    BY <1>6 DEF Plain
  <2>2. Len(c[p]) = Len(c[p - 1])
    BY <1>4, <2>1 DEF Turned
  <2>3. Len(c[p]) = Depth(b)[p] + Opening(b, p)
    BY <1>3, <2>1
  <2>4. Opening(b, p) = 0
    BY <2>1 DEF Opening
  <2> QED
    BY <1>5, <2>1, <2>2, <2>3, <2>4
<1> QED
  BY <1>1, <1>3, <1>4, <1>5, <1>6

(* A block that is not deeper and was opened before has no higher number, *)
OpenedFirst(b, p, q) == p < q \/ \A r \in q .. p : Depth(b)[r] >= Depth(b)[p]

(* whichever of the two declarations stands first, *)
LEMMA NumberedLower ==
  ASSUME NEW b, NEW c, NEW m, Nested(b, c, m), NEW p, NEW q, Plain(b, p), Plain(b, q),
         Depth(b)[p] <= Depth(b)[q], OpenedFirst(b, p, q)
  PROVE  LastOf(c[p - 1]) <= LastOf(c[q - 1])
<1>0. p < q \/ \A r \in q .. p : Depth(b)[r] >= Depth(b)[p]
  BY DEF OpenedFirst
<1>1. /\ p \in 1 .. Len(b) /\ q \in 1 .. Len(b) /\ p - 1 \in 0 .. Len(b)
      /\ q - 1 \in 0 .. Len(b) /\ Len(b) \in Nat
  BY NestedHave DEF Plain
<1> DEFINE ch == c[p - 1]
           k == m[p - 1]
           ch1 == c[q - 1]
           k1 == m[q - 1]
<1>2. /\ Chain(ch, k) /\ Chain(ch1, k1)
      /\ Len(ch) = Depth(b)[p] /\ Len(ch1) = Depth(b)[q]
  BY <1>1, NestedHave
<1>3. /\ LastOf(ch) \in Nat /\ LastOf(ch) <= k /\ LastOf(ch1) \in Nat
      /\ Len(ch) = 0 => LastOf(ch) = 0
      /\ Len(ch) # 0 => LastOf(ch) = ch[Len(ch)] /\ Len(ch) \in 1 .. Len(ch)
      /\ Len(ch1) # 0 => LastOf(ch1) = ch1[Len(ch1)] /\ Len(ch1) \in 1 .. Len(ch1)
      /\ Len(ch) \in Nat /\ Len(ch1) \in Nat /\ Len(ch) <= Len(ch1)
      /\ k \in Nat
  BY <1>2, LastHas, ChainHas
<1>4. CASE Len(ch) = 0
  BY <1>3, <1>4
<1>5. CASE Len(ch) # 0 /\ p < q
  <2>1. q - 1 \in p - 1 .. Len(b)
    BY <1>1, <1>5
  <2>2. Over(c[p - 1], m[p - 1], c[q - 1], m[q - 1])
    BY <1>1, <2>1, ChainsGrow DEF Nested
  <2> HIDE DEF ch, k, ch1, k1
  <2>3. Over(ch, k, ch1, k1)
    BY <2>2 DEF ch, k, ch1, k1
  <2>4. /\ Len(ch1) \in 1 .. Len(ch1) /\ LastOf(ch1) = ch1[Len(ch1)]
        /\ LastOf(ch) = ch[Len(ch)]
    BY <1>3, <1>5
  <2>5. /\ Len(ch1) <= Len(ch) => ch[Len(ch1)] <= ch1[Len(ch1)]
        /\ Len(ch1) > Len(ch) => k < ch1[Len(ch1)]
    BY <2>3, <2>4 DEF Over
  <2> DEFINE u == Len(ch)
             v == Len(ch1)
             s == LastOf(ch)
             t == LastOf(ch1)
  <2>6. /\ u \in Nat /\ v \in Nat /\ u <= v /\ k \in Nat /\ s \in Nat /\ t \in Nat
        /\ s <= k /\ (v > u => k < t)
    BY <1>3, <2>4, <2>5
  <2>7. v = u => s <= t
    BY <2>4, <2>5, <2>6
  <2>8. s <= t
    <3> HIDE DEF s, t, u, v
    <3> QED
      BY <2>6, <2>7
  <2>10. LastOf(ch) <= LastOf(ch1)
    BY <2>8
  <2> QED
    BY <2>10 DEF ch, ch1
<1>6. CASE Len(ch) # 0 /\ q <= p /\ \A r \in q .. p : Depth(b)[r] >= Depth(b)[p]
  <2>1. /\ p - 1 \in q - 1 .. Len(b) /\ Len(ch) \in Nat
        /\ \A t \in q - 1 .. p - 1 : Len(ch) <= Len(c[t])
    <3>1. ASSUME NEW t \in q - 1 .. p - 1 PROVE Len(ch) <= Len(c[t])
      <4>1. CASE t = q - 1
        BY <1>3, <4>1
      <4>2. CASE t # q - 1
        <5>1. t \in q .. p /\ t \in 0 .. Len(b)
          BY <1>1, <4>2
        <5>2. Depth(b)[t] >= Depth(b)[p] /\ Len(c[t]) = Depth(b)[t] + Opening(b, t)
              /\ Depth(b)[t] \in Int
          BY <1>6, <5>1, NestedHave
        <5>3. Opening(b, t) \in {0, 1}
          BY DEF Opening
        <5> QED
          BY <1>2, <1>3, <5>2, <5>3
      <4> QED
        BY <4>1, <4>2
    <3> QED
      BY <1>1, <1>3, <1>6, <3>1
  <2>2. \A x \in 1 .. Len(ch) : c[p - 1][x] = c[q - 1][x]
    <3> DEFINE L == Len(ch)
    <3> HIDE DEF L
    <3>1. L \in Nat /\ \A t \in q - 1 .. p - 1 : L <= Len(c[t])
      BY <2>1 DEF L
    <3>2. Scopes(b, Len(b), c, m) /\ p - 1 \in (q - 1) .. Len(b) /\ q - 1 \in 0 .. Len(b)
          /\ Len(b) \in Nat /\ \A t \in (q - 1) .. (p - 1) : L <= Len(c[t])
      BY <1>1, <2>1, <3>1 DEF Nested
    <3> DEFINE u == p - 1
               v == q - 1
    <3>3. u \in v .. Len(b) /\ v \in 0 .. Len(b) /\ \A t \in v .. u : L <= Len(c[t])
      BY <3>2
    <3> DEFINE n == Len(b)
    <3> HIDE DEF u, v, n
    <3>6. Scopes(b, n, c, m) /\ u \in v .. n /\ v \in 0 .. n /\ n \in Nat /\ L \in Nat
      BY <3>1, <3>2, <3>3 DEF n
    <3>7. NeverShorter(c, v, u, L)
      BY <3>3 DEF NeverShorter
    <3>4. \A x \in 1 .. L : c[u][x] = c[v][x]
      BY <3>6, <3>7, ChainKept
    <3>5. \A x \in 1 .. L : c[p - 1][x] = c[q - 1][x]
      BY <3>4 DEF u, v
    <3> QED
      BY <3>5 DEF L
  <2>3. ch[Len(ch)] = ch1[Len(ch)] /\ Len(ch) \in 1 .. Len(ch1)
    BY <1>3, <1>6, <2>2
  <2>4. ch1[Len(ch)] <= ch1[Len(ch1)]
    <3> HIDE DEF ch, ch1, k1
    <3>1. CASE Len(ch) = Len(ch1)
      <4>1. ch1[Len(ch1)] \in Nat
        BY <1>2, <1>3, <1>6, ChainHas
      <4> QED
        BY <3>1, <4>1
    <3>2. CASE Len(ch) < Len(ch1)
      <4>1. ch1[Len(ch)] < ch1[Len(ch1)]
        BY <1>2, <1>3, <2>3, <3>2 DEF Chain
      <4>2. ch1[Len(ch)] \in Nat /\ ch1[Len(ch1)] \in Nat
        BY <1>2, <1>3, <2>3, <3>2, ChainHas
      <4> QED
        BY <4>1, <4>2
    <3> QED
      BY <1>3, <3>1, <3>2
  <2> QED
    BY <1>3, <1>6, <2>3, <2>4
<1> QED
  BY <1>0, <1>1, <1>3, <1>4, <1>5, <1>6

(* and one that has none was opened before. *)
LEMMA OpenedBefore ==
  ASSUME NEW b, NEW c, NEW m, Nested(b, c, m), NEW p, NEW q, Plain(b, p), Plain(b, q),
         LastOf(c[p - 1]) <= LastOf(c[q - 1]), q <= p, NEW r \in q .. p
  PROVE  Depth(b)[r] >= Depth(b)[p]
<1>1. /\ p \in 1 .. Len(b) /\ q \in 1 .. Len(b) /\ p - 1 \in 0 .. Len(b)
      /\ q - 1 \in 0 .. Len(b) /\ Len(b) \in Nat /\ r \in 1 .. Len(b)
      /\ r \in 0 .. Len(b) /\ r - 1 \in 0 .. Len(b)
  BY NestedHave DEF Plain
<1>2. /\ Depth(b)[r] \in Int /\ Depth(b)[p] \in Int
      /\ Len(c[r]) = Depth(b)[r] + Opening(b, r)
      /\ Len(c[p - 1]) = Depth(b)[p]
  BY <1>1, NestedHave
<1> SUFFICES ASSUME Depth(b)[r] < Depth(b)[p] PROVE FALSE
  BY <1>2
<1>3. PICK s \in 0 .. Len(b) : q - 1 <= s /\ s <= p - 1 /\ Len(c[s]) < Len(c[p - 1])
  <2>0. r # p
    BY <1>2
  <2>1. CASE b[r].k # "open"
    <3>1. Opening(b, r) = 0
      BY <2>1 DEF Opening
    <3> QED
      BY <1>1, <1>2, <2>0, <3>1
  <2>2. CASE b[r].k = "open"
    <3>1. r # q
      BY <2>2 DEF Plain
    <3>2. Len(c[r]) = Len(c[r - 1]) + 1
      BY <1>1, <2>2, NestedHave DEF Turned
    <3>3. Opening(b, r) = 1
      BY <1>1, <2>2 DEF Opening
    <3>4. Len(c[r - 1]) \in Nat
      BY <1>1, NestedHave, ChainHas
    <3>5. Len(c[r - 1]) < Len(c[p - 1]) /\ q - 1 <= r - 1 /\ r - 1 <= p - 1
      BY <1>1, <1>2, <2>0, <3>1, <3>2, <3>3, <3>4
    <3>6. r - 1 \in 0 .. Len(b)
      BY <1>1
    <3> QED
      BY <3>5, <3>6
  <2> QED
    BY <2>1, <2>2
<1> DEFINE ch == c[s]
           k == m[s]
           ch1 == c[p - 1]
           k1 == m[p - 1]
<1>4. Over(ch, k, ch1, k1)
  <2>1. p - 1 \in s .. Len(b)
    BY <1>1, <1>3
  <2> QED
    BY <1>1, <2>1, ChainsGrow DEF Nested
<1>5. m[q - 1] <= k /\ Chain(ch, k) /\ Chain(ch1, k1) /\ Chain(c[q - 1], m[q - 1])
  <2>1. s \in q - 1 .. Len(b)
    BY <1>1, <1>3
  <2>2. Over(c[q - 1], m[q - 1], ch, k)
    BY <1>1, <2>1, ChainsGrow DEF Nested
  <2> QED
    BY <1>1, <1>3, <2>2, NestedHave DEF Over
<1> HIDE DEF ch, k, ch1, k1
<1>6. /\ Len(ch1) # 0 => LastOf(ch1) = ch1[Len(ch1)] /\ Len(ch1) \in 1 .. Len(ch1)
      /\ LastOf(ch1) \in Nat /\ Len(ch) \in Nat /\ Len(ch1) \in Nat /\ k \in Nat
      /\ LastOf(c[q - 1]) \in Nat /\ LastOf(c[q - 1]) <= m[q - 1] /\ m[q - 1] \in Nat
  BY <1>5, LastHas, ChainHas
<1>7. Len(ch) < Len(ch1)
  BY <1>3 DEF ch, ch1
<1>8. k < LastOf(ch1)
  BY <1>4, <1>6, <1>7 DEF Over
<1>9. LastOf(ch1) <= LastOf(c[q - 1])
  BY DEF ch1
<1> QED
  BY <1>5, <1>6, <1>8, <1>9

-----------------------------------------------------------------------------
(* The greatest element of a set of positions, with 0. *)
LEMMA MaxWithNone ==
  ASSUME NEW n \in Nat, NEW S, S \subseteq 1 .. n
  PROVE  /\ MaxOf({0} \cup S) \in Nat
         /\ MaxOf({0} \cup S) = 0 => S = {}
         /\ MaxOf({0} \cup S) # 0 => MaxOf({0} \cup S) \in S
         /\ \A y \in S : y <= MaxOf({0} \cup S)
<1>1. CASE S = {}
  <2>1. \A x : x \in {0} \cup S <=> x = 0
    BY <1>1
  <2>2. MaxOf({0} \cup S) = 0
    BY <2>1 DEF MaxOf
  <2> QED
    BY <1>1, <2>2
<1>2. CASE S # {}
  <2>1. MaxOf(S) \in S /\ \A y \in S : y <= MaxOf(S)
    BY <1>2, HasMax
  <2>2. \A y \in S : y \in Nat /\ y >= 1
    OBVIOUS
  <2>3. PICK u \in S : \A y \in S : y <= u
    BY <2>1
  <2>4. u \in {0} \cup S /\ \A y \in {0} \cup S : y <= u
    BY <2>2, <2>3
  <2>5. /\ MaxOf({0} \cup S) \in {0} \cup S
        /\ \A y \in {0} \cup S : y <= MaxOf({0} \cup S)
    BY <2>4 DEF MaxOf
  <2>6. MaxOf({0} \cup S) # 0
    BY <2>2, <2>3, <2>5
  <2> QED
    BY <2>2, <2>5, <2>6
<1> QED
  BY <1>1, <1>2

(* What a name means in C. *)
LEMMA Meant ==
  ASSUME NEW b, Len(b) \in Nat, NEW q \in 1 .. Len(b), NEW n
  PROVE  /\ DeclarationOf(b, q, n) \in Nat
         /\ DeclarationOf(b, q, n) = 0 => Visible(b, q, n) = {}
         /\ DeclarationOf(b, q, n) # 0 => DeclarationOf(b, q, n) \in Visible(b, q, n)
         /\ \A p \in Visible(b, q, n) : p <= DeclarationOf(b, q, n)
         /\ Visible(b, q, n) \subseteq 1 .. q
<1> DEFINE V == Visible(b, q, n)
<1>1. V \subseteq 1 .. q /\ q \in Nat
  BY DEF Visible
<1> HIDE DEF V
<1>2. /\ MaxOf({0} \cup V) \in Nat
      /\ MaxOf({0} \cup V) = 0 => V = {}
      /\ MaxOf({0} \cup V) # 0 => MaxOf({0} \cup V) \in V
      /\ \A y \in V : y <= MaxOf({0} \cup V)
  BY <1>1, MaxWithNone
<1> QED
  BY <1>1, <1>2 DEF DeclarationOf, V

(* Declarations are counted one by one: *)
LEMMA CountGrows ==
  ASSUME NEW b, NEW p \in Nat, NEW q \in Nat, p < q, b[q].k = "decl"
  PROVE  Count(b, p) < Count(b, q)
<1> DEFINE S == {r \in Nat : Count(b, p) <= Count(b, r)}
<1>1. p \in S
  BY DeclsFinite
<1>2. ASSUME NEW r \in p .. q - 1 - 1, r \in S PROVE r + 1 \in S
  <2>1. r \in Nat /\ r + 1 \in Nat
    OBVIOUS
  <2>2. Count(b, r + 1) = Count(b, r) + 1 \/ Count(b, r + 1) = Count(b, r)
    BY <2>1, CountOneMore
  <2>3. Count(b, r) \in Nat /\ Count(b, p) \in Nat /\ Count(b, p) <= Count(b, r)
    BY <1>2, <2>1, DeclsFinite
  <2> QED
    BY <2>1, <2>2, <2>3
<1> HIDE DEF S
<1>3. \A r \in p .. q - 1 : r \in S
  <2>1. q - 1 \in Nat
    OBVIOUS
  <2> QED
    BY <1>1, <1>2, <2>1, Onward
<1>4. Count(b, p) <= Count(b, q - 1)
  BY <1>3 DEF S
<1>5. Count(b, q - 1 + 1) = Count(b, q - 1) + 1
  <2>1. q - 1 \in Nat /\ q - 1 + 1 = q
    OBVIOUS
  <2> QED
    BY <2>1, CountOneMore
<1>6. Count(b, q - 1) \in Nat /\ Count(b, p) \in Nat /\ q - 1 + 1 = q
  <2>1. q - 1 \in Nat
    OBVIOUS
  <2> QED
    BY <2>1, DeclsFinite
<1> QED
  BY <1>4, <1>5, <1>6

(* every number up to their count is the one of a declaration. *)
LEMMA Counted ==
  ASSUME NEW b, NEW n \in Nat, NEW l \in 1 .. Count(b, n)
  PROVE  \E p \in 1 .. n : b[p].k = "decl" /\ Count(b, p) = l
<1> DEFINE Bad == {q \in Nat : Count(b, q) >= l}
<1>1. n \in Bad /\ Count(b, n) \in Nat
  BY DeclsFinite
<1>2. PICK q \in Bad : \A r \in Bad : q <= r
  <2>1. Bad \subseteq Nat /\ Bad # {}
    BY <1>1
  <2> HIDE DEF Bad
  <2> QED
    BY <2>1, HasMin
<1>3. q \in Nat /\ q <= n /\ Count(b, q) >= l /\ Count(b, q) \in Nat
  BY <1>1, <1>2, DeclsFinite
<1>4. q # 0
  <2>1. Count(b, 0) = 0
    <3>1. DeclsTo(b, 0) = {}
      BY DEF DeclsTo
    <3> QED
      BY <3>1, FS_EmptySet DEF Count
  <2> QED
    BY <1>3, <2>1
<1>5. q - 1 \in Nat /\ q - 1 + 1 = q /\ q - 1 \notin Bad
  BY <1>2, <1>3, <1>4
<1>6. Count(b, q - 1) < l /\ Count(b, q - 1) \in Nat
  BY <1>5, DeclsFinite
<1>7. Count(b, q) = IF b[q].k = "decl" THEN Count(b, q - 1) + 1 ELSE Count(b, q - 1)
  BY <1>5, CountOneMore
<1>8. b[q].k = "decl" /\ Count(b, q) = l
  BY <1>3, <1>6, <1>7
<1>9. q \in 1 .. n
  BY <1>3, <1>4
<1> QED
  BY <1>8, <1>9

-----------------------------------------------------------------------------
(* What the search of the code finds. *)

(* The declaration found for a use that means declaration c: a later one,  *)
(* if one is in the way.                                                   *)
Found(b, q, n) == MaxOf({DeclarationOf(b, q, n)} \cup Ways(b, q, n))

(* It is a declaration of the body, or none. *)
LEMMA FoundHas ==
  ASSUME NEW b, Len(b) \in Nat, NEW q \in 1 .. Len(b), NEW n
  PROVE  /\ DeclarationOf(b, q, n) = 0 /\ Ways(b, q, n) = {} => Found(b, q, n) = 0
         /\ DeclarationOf(b, q, n) # 0 =>
              /\ Found(b, q, n) \in {DeclarationOf(b, q, n)} \cup Ways(b, q, n)
              /\ Found(b, q, n) \in 1 .. Len(b)
              /\ DeclarationOf(b, q, n) <= Found(b, q, n)
              /\ \A y \in Ways(b, q, n) : y <= Found(b, q, n)
<1> DEFINE c == DeclarationOf(b, q, n)
           W == Ways(b, q, n)
<1>1. c \in Nat /\ (c # 0 => c \in 1 .. Len(b)) /\ W \subseteq 1 .. Len(b)
  <2>1. c \in Nat /\ (c # 0 => c \in 1 .. q)
    BY Meant
  <2>2. W \subseteq 1 .. Len(b)
    BY DEF Ways, LocalsOf
  <2> QED
    BY <2>1, <2>2
<1> HIDE DEF c, W
<1>2. Found(b, q, n) = MaxOf({c} \cup W)
  BY DEF Found, c, W
<1>3. ASSUME c = 0, W = {} PROVE Found(b, q, n) = 0
  <2>1. \A x : x \in {c} \cup W <=> x = 0
    BY <1>3
  <2> QED
    BY <1>2, <2>1 DEF MaxOf
<1>4. ASSUME c # 0
      PROVE  /\ Found(b, q, n) \in {c} \cup W /\ Found(b, q, n) \in 1 .. Len(b)
             /\ c <= Found(b, q, n) /\ \A y \in W : y <= Found(b, q, n)
  <2> DEFINE S == {c} \cup W
  <2>1. S \subseteq 1 .. Len(b) /\ S # {} /\ c \in S /\ W \subseteq S
    BY <1>1, <1>4
  <2> HIDE DEF S
  <2>2. MaxOf(S) \in S /\ \A y \in S : y <= MaxOf(S)
    BY <2>1, HasMax
  <2> QED
    BY <1>2, <2>1, <2>2 DEF S
<1> QED
  BY <1>3, <1>4 DEF c, W

(* The body's declarations of n are all in locals. *)
OnlyLocal(b, n) == \A p \in 1 .. Len(b) : b[p].k = "static" => b[p].name # n

(* The locals that the search may find at q are those declared up to the   *)
(* meaning of the use and those in the way.                                *)
Candidates(b, c, q, n) ==
  {p \in LocalsOf(b, n) : /\ Depth(b)[p] <= Depth(b)[q]
                          /\ LastOf(c[p - 1]) <= LastOf(c[q - 1])}

(* They are the declaration meant, those in the way, and some before the   *)
(* former.                                                                 *)
LEMMA CandidatesAre ==
  ASSUME NEW b, NEW c, NEW m, Nested(b, c, m), NEW q, Plain(b, q), NEW n,
         OnlyLocal(b, n), DeclarationOf(b, q, n) # 0
  PROVE  /\ DeclarationOf(b, q, n) \in Candidates(b, c, q, n)
         /\ Ways(b, q, n) \subseteq Candidates(b, c, q, n)
         /\ \A p \in Candidates(b, c, q, n) :
              p <= DeclarationOf(b, q, n) \/ p \in Ways(b, q, n)
<1> DEFINE D == DeclarationOf(b, q, n)
<1>1. q \in 1 .. Len(b) /\ Len(b) \in Nat
  BY NestedHave DEF Plain
<1>2. D \in Visible(b, q, n) /\ D \in 1 .. q /\ D \in 1 .. Len(b)
  BY <1>1, Meant
<1>3. Declares(b, D, n) /\ \A r \in D .. q : Levels(b)[r] >= Levels(b)[D]
  BY <1>2 DEF Visible
<1> HIDE DEF D
<1>4. b[D].k = "decl" /\ b[D].name = n /\ D \in LocalsOf(b, n) /\ Plain(b, D)
  BY <1>2, <1>3 DEF Declares, OnlyLocal, LocalsOf, Plain
<1>5. Depth(b)[D] <= Depth(b)[q]
  <2>1. q \in D .. Len(b)
    BY <1>1, <1>2
  <2> QED
    BY <1>2, <1>3, <2>1 DEF Nested, WellNested, Depth
<1>6. D \in Candidates(b, c, q, n)
  <2>1. CASE D = q
    <3>1. Chain(c[q - 1], m[q - 1])
      <4>1. q - 1 \in 0 .. Len(b)
        BY <1>1
      <4> QED
        BY <4>1, NestedHave
    <3>2. LastOf(c[q - 1]) \in Nat
      BY <3>1, LastHas
    <3> QED
      BY <1>4, <1>5, <2>1, <3>2 DEF Candidates
  <2>2. CASE D < q
    <3>1. OpenedFirst(b, D, q)
      BY <2>2 DEF OpenedFirst
    <3>2. LastOf(c[D - 1]) <= LastOf(c[q - 1])
      BY <1>4, <1>5, <3>1, NumberedLower
    <3> QED
      BY <1>4, <1>5, <3>2 DEF Candidates
  <2> QED
    BY <1>1, <1>2, <2>1, <2>2
<1>7. ASSUME NEW p \in Ways(b, q, n) PROVE p \in Candidates(b, c, q, n)
  <2>1. p \in LocalsOf(b, n) /\ InTheWay(b, p, q, D)
    BY DEF Ways, D
  <2>2. Plain(b, p) /\ Depth(b)[p] <= Depth(b)[q] /\ OpenedFirst(b, p, q)
    <3>1. D # 0
      BY DEF D
    <3> QED
      BY <2>1, <3>1 DEF InTheWay, LocalsOf, Plain, Depth, OpenedFirst
  <2>3. LastOf(c[p - 1]) <= LastOf(c[q - 1])
    BY <2>2, NumberedLower
  <2> QED
    BY <2>1, <2>2, <2>3 DEF Candidates
<1>8. ASSUME NEW p \in Candidates(b, c, q, n), p > D PROVE p \in Ways(b, q, n)
  <2>1. p \in LocalsOf(b, n) /\ Plain(b, p) /\ Depth(b)[p] <= Depth(b)[q]
        /\ LastOf(c[p - 1]) <= LastOf(c[q - 1]) /\ p \in Nat
    BY DEF Candidates, LocalsOf, Plain
  <2>2. p < q \/ \A r \in q .. p : Depth(b)[r] >= Depth(b)[p]
    <3>1. ASSUME q <= p, NEW r \in q .. p PROVE Depth(b)[r] >= Depth(b)[p]
      BY <2>1, <3>1, OpenedBefore
    <3> QED
      BY <1>1, <2>1, <3>1
  <2>3. InTheWay(b, p, q, D)
    BY <1>8, <2>1, <2>2 DEF InTheWay, Depth
  <2> QED
    BY <2>1, <2>3 DEF Ways, D
<1>9. ASSUME NEW p \in Candidates(b, c, q, n) PROVE p <= D \/ p \in Ways(b, q, n)
  <2>1. p \in Nat
    BY DEF Candidates, LocalsOf
  <2> QED
    BY <1>2, <1>8, <2>1
<1> QED
  BY <1>6, <1>7, <1>9 DEF D

(* The search of the code finds what Found says. *)
LEMMA Lookup ==
  ASSUME NEW b, NEW c, NEW m, Nested(b, c, m), locals \in Seq(Locals),
         Entered(b, Len(b), c, locals), NEW q, Plain(b, q), chain = c[q - 1],
         NEW n, OnlyLocal(b, n),
         DeclarationOf(b, q, n) = 0 => Ways(b, q, n) = {}
  PROVE  /\ DeclarationOf(b, q, n) = 0 => SearchLocal(n) = 0
         /\ DeclarationOf(b, q, n) # 0 => SearchLocal(n) = Count(b, Found(b, q, n))
<1>1. q \in 1 .. Len(b) /\ Len(b) \in Nat
  BY NestedHave DEF Plain
<1> DEFINE num == Count(b, Len(b))
<1>2. Len(locals) = num /\ DOMAIN locals = 1 .. num /\ num \in Nat
  BY <1>1, DeclsFinite DEF Entered
<1>3. Len(chain) = Depth(b)[q] /\ ScopeId = LastOf(c[q - 1])
  BY NestedHave DEF ScopeId, LastOf
<1>4. ASSUME NEW p \in 1 .. Len(b), b[p].k = "decl"
      PROVE  /\ Count(b, p) \in DOMAIN locals
             /\ locals[Count(b, p)].name = b[p].name
             /\ locals[Count(b, p)].id = LastOf(c[p - 1])
             /\ locals[Count(b, p)].depth = Depth(b)[p]
  <2>1. Len(c[p - 1]) = Depth(b)[p]
    BY <1>4, NestedHave DEF Plain
  <2> QED
    BY <1>2, <1>4, <2>1 DEF Entered
<1>5. ASSUME NEW l \in DOMAIN locals
      PROVE  \E p \in 1 .. Len(b) : b[p].k = "decl" /\ Count(b, p) = l
  BY <1>1, <1>2, Counted
<1> DEFINE D == DeclarationOf(b, q, n)
           W == Ways(b, q, n)
<1>6. ASSUME D = 0 PROVE SearchLocal(n) = 0
  <2>1. NotDeeper(n) = {}
    <3> SUFFICES ASSUME NEW l \in NotDeeper(n) PROVE FALSE
      OBVIOUS
    <3>1. l \in DOMAIN locals /\ locals[l].name = n /\ locals[l].depth <= Len(chain)
      BY DEF NotDeeper
    <3>2. PICK p \in 1 .. Len(b) : b[p].k = "decl" /\ Count(b, p) = l
      BY <1>5, <3>1
    <3>3. b[p].name = n /\ Depth(b)[p] <= Depth(b)[q] /\ p > 0
      BY <1>3, <1>4, <3>1, <3>2
    <3>4. p \in Ways(b, q, n)
      BY <1>6, <3>2, <3>3 DEF Ways, LocalsOf, InTheWay, Depth
    <3> QED
      BY <1>6, <3>4
  <2>2. Filtered(n) = {}
    BY <2>1 DEF Filtered
  <2> QED
    BY <2>1, <2>2 DEF SearchLocal
<1>7. ASSUME D # 0 PROVE SearchLocal(n) = Count(b, Found(b, q, n))
  <2> DEFINE F == Found(b, q, n)
  <2>1. /\ D \in Candidates(b, c, q, n) /\ W \subseteq Candidates(b, c, q, n)
        /\ \A p \in Candidates(b, c, q, n) : p <= D \/ p \in W
    BY <1>7, CandidatesAre
  <2>2. F \in {D} \cup W /\ F \in 1 .. Len(b) /\ D <= F /\ \A y \in W : y <= F
    BY <1>1, <1>7, FoundHas
  <2>3. F \in Candidates(b, c, q, n)
    BY <2>1, <2>2
  <2>4. \A p \in Candidates(b, c, q, n) : p \in 1 .. Len(b) /\ p <= F /\ b[p].k = "decl"
    <3>1. \A p \in Candidates(b, c, q, n) : p \in 1 .. Len(b) /\ b[p].k = "decl"
      BY DEF Candidates, LocalsOf
    <3>2. D \in Nat
      BY <1>1, Meant
    <3> HIDE DEF D, W, F
    <3> QED
      BY <2>1, <2>2, <3>1, <3>2
  <2>5. ASSUME NEW l \in Filtered(n)
        PROVE  \E p \in Candidates(b, c, q, n) : Count(b, p) = l
    <3>1. /\ l \in DOMAIN locals /\ locals[l].name = n
          /\ locals[l].depth <= Len(chain) /\ locals[l].id <= ScopeId
      BY DEF Filtered, NotDeeper
    <3>2. PICK p \in 1 .. Len(b) : b[p].k = "decl" /\ Count(b, p) = l
      BY <1>5, <3>1
    <3> QED
      BY <1>3, <1>4, <3>1, <3>2 DEF Candidates, LocalsOf
  <2>6. ASSUME NEW p \in Candidates(b, c, q, n) PROVE Count(b, p) \in Filtered(n)
    <3>1. /\ p \in 1 .. Len(b) /\ b[p].k = "decl" /\ b[p].name = n
          /\ Depth(b)[p] <= Depth(b)[q] /\ LastOf(c[p - 1]) <= LastOf(c[q - 1])
      BY DEF Candidates, LocalsOf
    <3> QED
      BY <1>3, <1>4, <3>1 DEF Filtered, NotDeeper
  <2> HIDE DEF F, D, W
  <2>7. Count(b, F) \in Filtered(n) /\ Filtered(n) \subseteq 1 .. num
    BY <1>2, <2>3, <2>6 DEF Filtered, NotDeeper
  <2>8. ASSUME NEW l \in Filtered(n) PROVE l <= Count(b, F)
    <3>1. PICK p \in Candidates(b, c, q, n) : Count(b, p) = l
      BY <2>5
    <3>0. F \in Nat /\ b[F].k = "decl"
      BY <2>2, <2>3, <2>4
    <3>2. p \in 1 .. Len(b) /\ p <= F /\ F \in Nat /\ p \in Nat /\ b[F].k = "decl"
      BY <2>4, <3>0
    <3>3. CASE p = F
      <4>1. Count(b, F) \in Nat
        BY <3>2, DeclsFinite
      <4> QED
        BY <3>1, <3>3, <4>1
    <3>4. CASE p < F
      <4>1. Count(b, p) < Count(b, F) /\ Count(b, p) \in Nat /\ Count(b, F) \in Nat
        BY <3>2, <3>4, CountGrows, DeclsFinite
      <4> QED
        BY <3>1, <4>1
    <3> QED
      BY <3>2, <3>3, <3>4
  <2>9. MaxOf(Filtered(n)) \in Filtered(n) /\ \A y \in Filtered(n) : y <= MaxOf(Filtered(n))
    <3> DEFINE S == Filtered(n)
    <3>1. S \subseteq 1 .. num /\ S # {}
      BY <2>7
    <3> HIDE DEF S
    <3>2. MaxOf(S) \in S /\ \A y \in S : y <= MaxOf(S)
      BY <1>2, <3>1, HasMax
    <3> QED
      BY <3>2 DEF S
  <2>10. MaxOf(Filtered(n)) = Count(b, F)
    <3>1. MaxOf(Filtered(n)) \in Nat /\ Count(b, F) \in Nat
      BY <2>7, <2>9
    <3>2. MaxOf(Filtered(n)) <= Count(b, F) /\ Count(b, F) <= MaxOf(Filtered(n))
      BY <2>7, <2>8, <2>9
    <3> QED
      BY <3>1, <3>2
  <2> QED
    BY <2>7, <2>10 DEF SearchLocal, F
<1> QED
  BY <1>6, <1>7

-----------------------------------------------------------------------------
(* Declarations that stand beside each other. *)

(* From the declaration to the end of its scope the name means it. *)
LEMMA Throughout ==
  ASSUME NEW b, Len(b) \in Nat, NEW n, Beside(b, n), OnlyLocal(b, n),
         NEW q \in 1 .. Len(b), DeclarationOf(b, q, n) # 0,
         NEW x \in DeclarationOf(b, q, n) .. q
  PROVE  DeclarationOf(b, x, n) = DeclarationOf(b, q, n)
<1> DEFINE c == DeclarationOf(b, q, n)
           e == DeclarationOf(b, x, n)
<1>1. c \in Visible(b, q, n) /\ c \in 1 .. q
  BY Meant
<1>2. Declares(b, c, n) /\ \A r \in c .. q : Levels(b)[r] >= Levels(b)[c]
  BY <1>1 DEF Visible
<1>3. x \in c .. q
  OBVIOUS
<1> HIDE DEF c
<1>4. x \in 1 .. Len(b) /\ x \in Nat /\ x <= q /\ c <= x /\ c \in Nat /\ q \in Nat
  BY <1>1, <1>3
<1>5. ASSUME NEW y \in c .. q PROVE c \in Visible(b, y, n)
  <2>1. c \in 1 .. y /\ \A r \in c .. y : r \in c .. q
    BY <1>1, <1>4
  <2> QED
    BY <1>2, <2>1 DEF Visible
<1>6. c \in Visible(b, x, n)
  BY <1>3, <1>5
<1>7. /\ e \in Nat /\ (e # 0 => e \in Visible(b, x, n)) /\ c <= e
      /\ e = 0 => Visible(b, x, n) = {}
  BY <1>4, <1>6, Meant
<1> HIDE DEF e
<1>8. e \in Visible(b, x, n)
  BY <1>6, <1>7
<1>9. e \in 1 .. x /\ Declares(b, e, n)
  BY <1>8 DEF Visible
<1>10. e \in LocalsOf(b, n) /\ e \in c .. q
  BY <1>4, <1>7, <1>9 DEF Declares, OnlyLocal, LocalsOf
<1>11. Visible(b, e, n) = {e} /\ c \in Visible(b, e, n)
  BY <1>5, <1>10 DEF Beside
<1> QED
  BY <1>11 DEF c, e

(* Where a scope ends there are no more blocks than at its beginning. *)
LEMMA ScopeEnds ==
  ASSUME NEW b, b \in Seq(Items), WellNested(b), NEW c \in 1 .. Len(b), NEW p \in c .. Len(b),
         NEW u \in c .. p, Levels(b)[u] < Levels(b)[c]
  PROVE  \E e \in c .. p : /\ Depth(b)[e] <= Depth(b)[c]
                           /\ \A r \in c .. e - 1 : Levels(b)[r] >= Levels(b)[c]
                           /\ Levels(b)[e] < Levels(b)[c]
<1>0. Len(b) \in Nat
  OBVIOUS
<1> DEFINE level == Levels(b)
           block == Depth(b)
           S == {e \in c .. p : level[e] < level[c]}
<1>1. /\ \A y \in 1 .. Len(b) : level[y] = level[y - 1] + Rise(b, y)
      /\ \A y \in 0 .. Len(b) : level[y] \in Int
  BY <1>0, LevelsAre
<1>2. /\ Len(Braces(b)) = Len(b)
      /\ \A y \in 1 .. Len(b) :
           Rise(Braces(b), y) = (IF y > 1 /\ b[y - 1].k = "open" THEN 1 ELSE 0)
                                - (IF b[y].k = "close" THEN 1 ELSE 0)
  BY BracesHave
<1>3. /\ \A y \in 1 .. Len(b) : block[y] = block[y - 1] + Rise(Braces(b), y)
      /\ \A y \in 0 .. Len(b) : block[y] \in Int
  <2> DEFINE x == Braces(b)
  <2>1. Len(x) = Len(b)
    BY <1>2
  <2> HIDE DEF x
  <2>2. /\ \A y \in 1 .. Len(x) : Levels(x)[y] = Levels(x)[y - 1] + Rise(x, y)
        /\ \A y \in 0 .. Len(x) : Levels(x)[y] \in Int
    BY <1>0, <2>1, LevelsAre
  <2> QED
    BY <2>1, <2>2 DEF Depth, x
<1>4. PICK e \in S : \A r \in S : e <= r
  <2>1. S \subseteq Nat /\ S # {}
    OBVIOUS
  <2> HIDE DEF S
  <2> QED
    BY <2>1, HasMin
<1> HIDE DEF level, block
<1>5. /\ e \in c .. p /\ level[e] < level[c]
      /\ \A r \in c .. e - 1 : level[r] >= level[c]
  <2>1. e \in c .. p /\ level[e] < level[c]
    BY <1>4
  <2>2. ASSUME NEW r \in c .. e - 1 PROVE level[r] >= level[c]
    <3>1. r \in c .. p /\ ~(e <= r) /\ r \in 0 .. Len(b) /\ c \in 0 .. Len(b)
      BY <1>0, <2>1
    <3>2. r \notin S
      BY <1>4, <3>1
    <3> QED
      BY <1>1, <3>1, <3>2
  <2> QED
    BY <2>1, <2>2
<1> HIDE DEF S
<1>6. e # c /\ e - 1 \in c .. e - 1 /\ e - 1 \in 1 .. Len(b) /\ e \in 1 .. Len(b)
      /\ e - 1 \in c .. Len(b) /\ c \in 0 .. Len(b) /\ e - 1 \in 0 .. Len(b)
      /\ e \in 0 .. Len(b)
  <2>1. level[c] \in Int
    BY <1>0, <1>1
  <2>2. e # c
    BY <1>5, <2>1
  <2> QED
    BY <1>0, <1>5, <2>2
<1>7. block[e - 1] - block[c] <= level[e - 1] - level[c]
  <2>1. \A r \in c .. (e - 1) : level[r] >= level[c]
    BY <1>5
  <2> QED
    BY <1>6, <2>1 DEF WellNested, Depth, level, block
<1>8. /\ level[e] = level[e - 1] + Rise(b, e)
      /\ block[e] = block[e - 1] + Rise(Braces(b), e)
      /\ level[e] \in Int /\ level[e - 1] \in Int /\ level[c] \in Int
      /\ block[e] \in Int /\ block[e - 1] \in Int /\ block[c] \in Int
      /\ level[e - 1] >= level[c] /\ level[e] < level[c]
  BY <1>1, <1>3, <1>5, <1>6
<1>9. /\ Rise(b, e) \in {-1, 0, 1} /\ (Rise(b, e) < 0 => Rise(Braces(b), e) <= 0)
      /\ Rise(Braces(b), e) \in {-1, 0, 1}
  <2> DEFINE y == Rise(Braces(b), e)
  <2>1. y = (IF e > 1 /\ b[e - 1].k = "open" THEN 1 ELSE 0)
            - (IF b[e].k = "close" THEN 1 ELSE 0)
    BY <1>2, <1>6
  <2> HIDE DEF y
  <2>2. Rise(b, e) = (IF e > 1 /\ b[e - 1].k \in Opens THEN 1 ELSE 0)
                     - (IF b[e].k \in Closes THEN 1 ELSE 0)
    BY DEF Rise
  <2>3. /\ e > 1 /\ b[e - 1].k = "open" => b[e - 1].k \in Opens
        /\ b[e].k = "close" => b[e].k \in Closes
    BY DEF Opens, Closes
  <2>4. y \in {-1, 0, 1}
    BY <2>1
  <2>5. Rise(b, e) < 0 => ~(e > 1 /\ b[e - 1].k \in Opens)
    BY <2>2
  <2>6. ~(e > 1 /\ b[e - 1].k \in Opens) => y <= 0
    BY <2>1, <2>3
  <2>7. Rise(b, e) \in {-1, 0, 1}
    BY <2>2
  <2> QED
    BY <2>4, <2>5, <2>6, <2>7 DEF y
<1>10. block[e] <= block[c]
  <2> DEFINE A == level[e - 1]
             B == level[c]
             E == level[e]
             R == Rise(b, e)
             Y == Rise(Braces(b), e)
             U == block[e - 1]
             V == block[c]
             W == block[e]
  <2>1. /\ E = A + R /\ W = U + Y /\ U - V <= A - B /\ A >= B /\ E < B
        /\ E \in Int /\ A \in Int /\ B \in Int /\ W \in Int /\ U \in Int /\ V \in Int
        /\ R \in {-1, 0, 1} /\ Y \in {-1, 0, 1} /\ (R < 0 => Y <= 0)
    BY <1>7, <1>8, <1>9
  <2> HIDE DEF A, B, E, R, Y, U, V, W
  <2>2. W <= V
    BY <2>1
  <2> QED
    BY <2>2 DEF V, W
<1> QED
  BY <1>5, <1>10 DEF level, block

(* Uses that mean one declaration find one. *)
LEMMA BesideFound ==
  ASSUME NEW b, b \in Seq(Items), WellNested(b), NEW n, Beside(b, n), OnlyLocal(b, n),
         NEW q \in 1 .. Len(b), NEW w \in 1 .. q, DeclarationOf(b, q, n) # 0,
         DeclarationOf(b, w, n) = DeclarationOf(b, q, n)
  PROVE  Found(b, w, n) = Found(b, q, n)
<1> DEFINE c == DeclarationOf(b, q, n)
           level == Levels(b)
           block == Depth(b)
<1>0. Len(b) \in Nat /\ w \in 1 .. Len(b)
  OBVIOUS
<1>1. c \in Visible(b, q, n) /\ c \in 1 .. w
  <2>1. c \in Visible(b, q, n)
    BY <1>0, Meant
  <2>2. c \in Visible(b, w, n) /\ Visible(b, w, n) \subseteq 1 .. w
    BY <1>0, Meant
  <2> QED
    BY <2>1, <2>2
<1>2. Declares(b, c, n) /\ \A r \in c .. q : level[r] >= level[c]
  BY <1>1 DEF Visible
<1>3. \A r \in c .. q : block[c] <= block[r]
  <2> SUFFICES ASSUME NEW r \in c .. q PROVE block[c] <= block[r]
    OBVIOUS
  <2> HIDE DEF c, level, block
  <2>1. c \in 1 .. Len(b) /\ r \in c .. Len(b) /\ \A s \in c .. r : level[s] >= level[c]
    BY <1>0, <1>1, <1>2
  <2> QED
    BY <2>1 DEF WellNested, Depth, level, block
<1>4. \A r \in 0 .. Len(b) : block[r] \in Int /\ level[r] \in Int
  <2> DEFINE x == Braces(b)
  <2>1. Len(x) = Len(b)
    BY BracesHave
  <2> HIDE DEF x
  <2>2. \A y \in 0 .. Len(x) : Levels(x)[y] \in Int
    BY <1>0, <2>1, LevelsAre
  <2>3. \A y \in 0 .. Len(b) : Levels(b)[y] \in Int
    BY <1>0, LevelsAre
  <2> QED
    BY <2>1, <2>2, <2>3 DEF Depth, x
(* a declaration in the way is behind the end of the scope, *)
<1>5. ASSUME NEW p \in LocalsOf(b, n), p > c
      PROVE  p > q /\ \E u \in c .. p : level[u] < level[c]
  <2>1. p \in 1 .. Len(b) /\ Visible(b, p, n) = {p}
    BY DEF Beside, LocalsOf
  <2> HIDE DEF c, level
  <2>2. c \notin Visible(b, p, n) /\ c \in 1 .. p /\ c \in Nat
    BY <1>1, <1>5, <2>1
  <2>3. PICK u \in c .. p : ~(level[u] >= level[c])
    BY <1>2, <2>2 DEF Visible, level
  <2>4. u \in 0 .. Len(b) /\ c \in 0 .. Len(b)
    BY <1>0, <2>1, <2>2
  <2>5. level[u] < level[c]
    BY <1>4, <2>3, <2>4
  <2>6. u \notin c .. q
    BY <1>2, <2>3
  <2> QED
    BY <2>1, <2>3, <2>5, <2>6
(* where there are no more blocks than around the declaration, *)
<1>6. ASSUME NEW p \in LocalsOf(b, n), InTheWay(b, p, q, c)
      PROVE  InTheWay(b, p, w, c)
  <2> HIDE DEF c, level, block
  <2>1. p > q /\ p > c /\ block[p] <= block[q] /\ p \in 1 .. Len(b)
        /\ \A r \in q .. p : block[r] >= block[p]
    <3>1. p > c /\ block[p] <= block[q] /\ p \in 1 .. Len(b) /\ p \in Nat
          /\ (p < q \/ c = 0 \/ \A r \in q .. p : block[r] >= block[p])
      BY <1>6 DEF InTheWay, LocalsOf, Depth, block
    <3>2. p > q /\ c # 0
      BY <1>1, <1>5, <3>1
    <3> QED
      BY <3>1, <3>2
  <2>2. PICK e \in c .. p : /\ block[e] <= block[c]
                            /\ \A r \in c .. e - 1 : level[r] >= level[c]
                            /\ level[e] < level[c]
    <3>1. PICK u \in c .. p : level[u] < level[c]
      BY <1>5, <2>1
    <3>2. c \in 1 .. Len(b) /\ p \in c .. Len(b)
      BY <1>0, <1>1, <2>1
    <3>3. \E e \in c .. p : /\ Depth(b)[e] <= Depth(b)[c]
                            /\ \A r \in c .. e - 1 : Levels(b)[r] >= Levels(b)[c]
                            /\ Levels(b)[e] < Levels(b)[c]
      BY <3>1, <3>2, ScopeEnds DEF level
    <3> QED
      BY <3>3 DEF level, block
  <2>3. e \in q .. p /\ e \in 0 .. Len(b) /\ c \in 0 .. Len(b) /\ p \in 0 .. Len(b)
    <3>1. c \in 0 .. Len(b) /\ e \in 0 .. Len(b)
      BY <1>0, <1>1, <2>1
    <3>2. ~(level[e] >= level[c])
      BY <1>4, <2>2, <3>1
    <3>3. e \notin c .. q
      BY <1>2, <3>2
    <3> QED
      BY <2>1, <3>1, <3>3
  <2>4. block[p] <= block[c]
    <3>1. block[e] >= block[p] /\ block[e] <= block[c]
      BY <2>1, <2>2, <2>3
    <3> QED
      BY <1>4, <2>3, <3>1
  <2>5. ASSUME NEW r \in w .. p PROVE block[r] >= block[p]
    <3>1. CASE r \in q .. p
      BY <2>1, <3>1
    <3>2. CASE r \in c .. q
      <4>1. block[c] <= block[r] /\ r \in 0 .. Len(b)
        BY <1>0, <1>1, <1>3, <3>2
      <4> QED
        BY <1>4, <2>3, <2>4, <4>1
    <3>3. r \in q .. p \/ r \in c .. q
      BY <1>0, <1>1
    <3> QED
      BY <3>1, <3>2, <3>3
  <2>6. w \in w .. p /\ w \in 0 .. Len(b)
    BY <1>0, <2>1
  <2>7. block[p] <= block[w]
    BY <1>4, <2>3, <2>5, <2>6
  <2> QED
    BY <2>1, <2>5, <2>7 DEF InTheWay, Depth, block
(* and none is opened between the uses. *)
<1>7. ASSUME NEW p \in LocalsOf(b, n), InTheWay(b, p, w, c)
      PROVE  InTheWay(b, p, q, c)
  <2> HIDE DEF c, level, block
  <2>1. p > c /\ p \in 1 .. Len(b) /\ p \in Nat
        /\ (p < w \/ c = 0 \/ \A r \in w .. p : block[r] >= block[p])
    BY <1>7 DEF InTheWay, LocalsOf, Depth, block
  <2>2. p > q /\ c # 0 /\ q \in w .. p
    BY <1>1, <1>5, <2>1
  <2>3. /\ \A r \in w .. p : block[r] >= block[p]
        /\ \A r \in q .. p : r \in w .. p
    BY <2>1, <2>2
  <2>4. q \in 0 .. Len(b) /\ p \in 0 .. Len(b)
    BY <2>1
  <2>5. block[p] <= block[q]
    BY <1>4, <2>2, <2>3, <2>4
  <2> QED
    BY <2>1, <2>3, <2>5 DEF InTheWay, Depth, block
<1>8. Ways(b, w, n) = Ways(b, q, n)
  BY <1>6, <1>7 DEF Ways
<1> QED
  BY <1>8 DEF Found

-----------------------------------------------------------------------------
(* What a use of a local variable finds, in a function that agrees. *)
UseAt(b, q) == q \in 1 .. Len(b) /\ b[q].k \in {"get", "set", "decl"}
Means(b, q) == DeclarationOf(b, q, b[q].name)
Finds(b, q) == Found(b, q, b[q].name)
AutoAt(b, q)  == Means(b, q) # 0 /\ b[Means(b, q)].k = "decl"

StaticsAlone(b) ==
  \A p \in 1 .. Len(b) : b[p].k = "static" => LocalsOf(b, b[p].name) = {}
Agrees(x) == /\ x \in FuncDecls /\ WellNested(Body(x)) /\ Unambiguous(x)
             /\ StaticsAlone(Body(x))

(* A variable is of one of the two kinds. *)
LEMMA Kinds ==
  ASSUME NEW x, Agrees(x), NEW b, b = Body(x), NEW n, LocalsOf(b, n) # {}
  PROVE  (Clear(b, n) \/ Beside(b, n)) /\ OnlyLocal(b, n)
<1>1. PICK p \in 1 .. Len(b) : b[p].k = "decl" /\ b[p].name = n
  BY DEF LocalsOf
<1>2. Clear(b, n) \/ Beside(b, n)
  BY <1>1 DEF Agrees, Unambiguous
<1>3. OnlyLocal(b, n)
  BY DEF Agrees, StaticsAlone, OnlyLocal
<1> QED
  BY <1>2, <1>3

(* A use that means a local variable finds one of its name and size. *)
LEMMA AutoFinds ==
  ASSUME NEW x, Agrees(x), NEW b, b = Body(x), NEW q, UseAt(b, q), AutoAt(b, q)
  PROVE  /\ Means(b, q) \in LocalsOf(b, b[q].name) /\ Means(b, q) \in 1 .. q
         /\ Finds(b, q) \in LocalsOf(b, b[q].name)
         /\ b[Finds(b, q)].size = b[Means(b, q)].size
         /\ OnlyLocal(b, b[q].name)
<1> DEFINE n == b[q].name
           D == Means(b, q)
<1>1. Len(b) \in Nat /\ b \in Seq(Items)
  BY BodyFacts DEF Agrees
<1>2. q \in 1 .. Len(b) /\ q \in UsesOf(b, n)
  BY DEF UseAt, UsesOf
<1>3. D \in Visible(b, q, n) /\ D \in 1 .. q
  BY <1>1, <1>2, Meant DEF AutoAt, Means
<1>4. D \in LocalsOf(b, n)
  BY <1>2, <1>3 DEF Visible, Declares, LocalsOf, AutoAt
<1>5. (Clear(b, n) \/ Beside(b, n)) /\ OnlyLocal(b, n)
  BY <1>4, Kinds
<1>6. Finds(b, q) \in {D} \cup Ways(b, q, n)
  BY <1>1, <1>2, FoundHas DEF AutoAt, Means, Finds
<1>7. CASE Clear(b, n)
  <2>1. Ways(b, q, n) = {}
    BY <1>2, <1>7 DEF Clear
  <2>2. Finds(b, q) = D
    BY <1>6, <2>1
  <2> QED
    BY <1>3, <1>4, <1>5, <2>2
<1>8. CASE Beside(b, n)
  <2>1. Finds(b, q) \in LocalsOf(b, n)
    BY <1>4, <1>6 DEF Ways
  <2>2. b[Finds(b, q)].size = b[D].size
    BY <1>4, <1>8, <2>1 DEF Beside
  <2> QED
    BY <1>3, <1>4, <1>5, <2>1, <2>2
<1> QED
  BY <1>5, <1>7, <1>8

(* Two uses that mean the same declaration find the same one, *)
LEMMA SameFinds ==
  ASSUME NEW x, Agrees(x), NEW b, b = Body(x), NEW q, UseAt(b, q), AutoAt(b, q),
         NEW w, UseAt(b, w), w <= q, Means(b, w) = Means(b, q)
  PROVE  Finds(b, w) = Finds(b, q) /\ b[w].name = b[q].name
<1> DEFINE n == b[q].name
<1>1. Len(b) \in Nat /\ b \in Seq(Items) /\ WellNested(b)
  BY BodyFacts DEF Agrees
<1>2. q \in UsesOf(b, n) /\ q \in 1 .. Len(b) /\ w \in 1 .. q /\ w \in 1 .. Len(b)
  BY <1>1 DEF UseAt, UsesOf
<1>3. Means(b, q) \in LocalsOf(b, n) /\ Means(b, w) \in LocalsOf(b, b[w].name)
      /\ AutoAt(b, w)
  BY AutoFinds DEF AutoAt
<1>4. b[w].name = n /\ LocalsOf(b, n) # {}
  BY <1>3 DEF LocalsOf
<1>5. (Clear(b, n) \/ Beside(b, n)) /\ OnlyLocal(b, n)
  BY <1>4, Kinds
<1>6. CASE Clear(b, n)
  <2>1. w \in UsesOf(b, n)
    BY <1>2, <1>4 DEF UseAt, UsesOf
  <2>2. Ways(b, w, n) = {} /\ Ways(b, q, n) = {}
    BY <1>2, <1>6, <2>1 DEF Clear
  <2> QED
    BY <1>4, <2>2 DEF Finds, Found, Means
<1>7. CASE Beside(b, n)
  BY <1>1, <1>2, <1>4, <1>5, <1>7, BesideFound DEF Finds, Means, AutoAt
<1> QED
  BY <1>5, <1>6, <1>7

(* and between them, no use of another variable finds it. *)
LEMMA OtherFinds ==
  ASSUME NEW x, Agrees(x), NEW b, b = Body(x), NEW q, UseAt(b, q), AutoAt(b, q),
         NEW w, UseAt(b, w), Means(b, w) = Means(b, q),
         NEW v, UseAt(b, v), AutoAt(b, v), w <= v, v <= q, Finds(b, v) = Finds(b, q)
  PROVE  Means(b, v) = Means(b, q)
<1> DEFINE n == b[q].name
<1>1. Len(b) \in Nat /\ b \in Seq(Items) /\ WellNested(b)
  BY BodyFacts DEF Agrees
<1>2. q \in UsesOf(b, n) /\ q \in 1 .. Len(b) /\ w \in 1 .. Len(b) /\ v \in 1 .. Len(b)
  BY <1>1 DEF UseAt, UsesOf
<1>3. /\ Means(b, q) \in LocalsOf(b, n) /\ Means(b, w) \in 1 .. w
      /\ Finds(b, q) \in LocalsOf(b, n)
      /\ Finds(b, v) \in LocalsOf(b, b[v].name)
  BY AutoFinds DEF AutoAt
<1>4. b[v].name = n /\ LocalsOf(b, n) # {}
  BY <1>3 DEF LocalsOf
<1>5. (Clear(b, n) \/ Beside(b, n)) /\ OnlyLocal(b, n)
  BY <1>4, Kinds
<1>6. CASE Clear(b, n)
  <2>1. v \in UsesOf(b, n)
    BY <1>2, <1>4 DEF UseAt, UsesOf
  <2>2. Ways(b, v, n) = {} /\ Ways(b, q, n) = {}
    BY <1>2, <1>6, <2>1 DEF Clear
  <2>3. Finds(b, v) = Means(b, v) /\ Finds(b, q) = Means(b, q)
    <3>1. /\ Finds(b, v) \in {Means(b, v)} \cup Ways(b, v, n)
          /\ Finds(b, q) \in {Means(b, q)} \cup Ways(b, q, n)
      BY <1>1, <1>2, <1>4, FoundHas DEF Finds, Means, AutoAt
    <3> QED
      BY <2>2, <3>1
  <2> QED
    BY <2>3
<1>7. CASE Beside(b, n)
  <2>1. v \in Means(b, q) .. q
    BY <1>2, <1>3
  <2> QED
    BY <1>1, <1>2, <1>4, <1>5, <1>7, <2>1, Throughout DEF Means, AutoAt
<1> QED
  BY <1>5, <1>6, <1>7

(* What the search of the code finds in such a function. *)
LEMMA AgreedLookup ==
  ASSUME NEW x, Agrees(x), NEW b, b = Body(x), NEW c, NEW m, Scopes(b, Len(b), c, m),
         locals \in Seq(Locals), Entered(b, Len(b), c, locals),
         NEW q, UseAt(b, q), chain = c[q - 1]
  PROVE  SearchLocal(b[q].name) = IF AutoAt(b, q) THEN Count(b, Finds(b, q)) ELSE 0
<1> DEFINE n == b[q].name
<1>1. Nested(b, c, m) /\ Plain(b, q) /\ Len(b) \in Nat
  BY BodyFacts DEF Agrees, Nested, UseAt, Plain
<1>2. CASE LocalsOf(b, n) = {}
  <2>1. ~AutoAt(b, q)
    BY <1>2, AutoFinds
  <2>2. NotDeeper(n) = {}
    <3> SUFFICES ASSUME NEW l \in NotDeeper(n) PROVE FALSE
      OBVIOUS
    <3>1. l \in DOMAIN locals /\ locals[l].name = n
      BY DEF NotDeeper
    <3>2. l \in 1 .. Count(b, Len(b))
      BY <3>1 DEF Entered
    <3>3. PICK p \in 1 .. Len(b) : b[p].k = "decl" /\ Count(b, p) = l
      BY <1>1, <3>2, Counted
    <3>4. b[p].name = n
      BY <3>1, <3>3 DEF Entered
    <3> QED
      BY <1>2, <3>3, <3>4 DEF LocalsOf
  <2>3. Filtered(n) = {}
    BY <2>2 DEF Filtered
  <2> QED
    BY <2>1, <2>2, <2>3 DEF SearchLocal
<1>3. CASE LocalsOf(b, n) # {}
  <2>1. (Clear(b, n) \/ Beside(b, n)) /\ OnlyLocal(b, n)
    BY <1>3, Kinds
  <2>2. q \in UsesOf(b, n)
    BY DEF UseAt, UsesOf
  <2>3. DeclarationOf(b, q, n) = 0 => Ways(b, q, n) = {}
    BY <2>1, <2>2 DEF Clear, Beside
  <2>4. /\ DeclarationOf(b, q, n) = 0 => SearchLocal(n) = 0
        /\ DeclarationOf(b, q, n) # 0 => SearchLocal(n) = Count(b, Found(b, q, n))
    BY <1>1, <2>1, <2>3, Lookup
  <2>5. AutoAt(b, q) <=> DeclarationOf(b, q, n) # 0
    <3>1. ASSUME Means(b, q) # 0 PROVE b[Means(b, q)].k = "decl"
      <4>1. Means(b, q) \in Visible(b, q, n) /\ Means(b, q) \in 1 .. Len(b)
        BY <1>1, <3>1, Meant DEF Means, UseAt
      <4> QED
        BY <2>1, <4>1 DEF Visible, Declares, OnlyLocal
    <3> QED
      BY <3>1 DEF AutoAt, Means
  <2> QED
    BY <2>4, <2>5 DEF Finds
<1> QED
  BY <1>2, <1>3

-----------------------------------------------------------------------------
(* Where the symbols of a table come from, and what they measure. *)
MadeText(s, e) ==
  /\ e.sect = "text" /\ d \in DOMAIN file /\ Decl.k = "func" /\ e.name = Decl.name
  /\ \/ s \in DOMAIN syms /\ syms[s].sect = "undef" /\ e.size = syms[s].size
     \/ s = Len(syms) + 1 /\ e.size = 0
MadeUndef(s, e) ==
  /\ s = Len(syms) + 1 /\ e.sect = "undef" /\ e.size = 0 /\ Named(e.name) = {}
  /\ Generating /\ Item.k \in {"get", "set", "call"} /\ Item.name = e.name
MadeStorage(s, e) ==
  /\ s = Len(syms) + 1 /\ e.sect \in {"data", "bss"}
  /\ e.offset = Align8(size[e.sect]) /\ size'[e.sect] = e.offset + e.size
  /\ \/ phase = "globals" /\ d \in DOMAIN file /\ Decl.k = "var"
        /\ e.name = Decl.name /\ e.size = Decl.size
     \/ Collecting /\ Item.k = "static" /\ e.name = Item.name /\ e.size = Item.size
Made == /\ \A s \in DOMAIN syms' :
             \/ s \in DOMAIN syms /\ syms'[s] = syms[s]
             \/ MadeText(s, syms'[s]) \/ MadeUndef(s, syms'[s]) \/ MadeStorage(s, syms'[s])
        /\ \A x \in {"data", "bss"} : size'[x] >= size[x]

(* An aligned offset is the next multiple of 8. *)
LEMMA AlignedUp ==
  ASSUME NEW n \in Nat
  PROVE  Align8(n) \in Nat /\ Align8(n) >= n /\ \E k \in Nat : Align8(n) = 8 * k
<1>1. (n + 7) \div 8 \in Nat /\ 8 * ((n + 7) \div 8) >= n
  OBVIOUS
<1> DEFINE k == (n + 7) \div 8
<1>2. k \in Nat /\ Align8(n) = k * 8 /\ 8 * k >= n
  BY <1>1 DEF Align8
<1> HIDE DEF k
<1>3. k * 8 = 8 * k /\ 8 * k \in Nat
  BY <1>2
<1> QED
  BY <1>2, <1>3

(* Every step changes the symbol table in these ways only. *)
LEMMA SymbolsMade ==
  ASSUME NamesInv, Next
  PROVE  Made
<1>0. /\ syms \in Seq(Symbols) /\ Len(syms) <= MaxSyms /\ size \in [{"data", "bss"} -> Nat]
      /\ \A x \in {"data", "bss"} : size[x] \in Nat /\ Align8(size[x]) \in Nat
                                    /\ Align8(size[x]) >= size[x]
  BY AlignedUp DEF NamesInv, TypeOK
<1>1. CASE syms' = syms /\ size' = size
  BY <1>0, <1>1 DEF Made
<1>2. CASE GlobalVar /\ ~Exit
  <2> DEFINE sect == IF Decl.init THEN "data" ELSE "bss"
             off  == Align8(size[sect])
             e    == Symbol(Decl.name, sect, off, Decl.size, ~Decl.static)
  <2>1. /\ phase = "globals" /\ d <= Len(file) /\ Decl.k = "var" /\ syms' = Append(syms, e)
        /\ size' = [size EXCEPT ![sect] = off + Decl.size]
    BY <1>2 DEF GlobalVar
  <2>2. sect \in {"data", "bss"} /\ d \in DOMAIN file
    BY <2>1, FilesHave DEF NamesInv, TypeOK
  <2>3. Decl.size \in Nat /\ Decl.name \in STRING /\ Decl.static \in BOOLEAN
    BY <2>1, <2>2, DeclFacts DEF NamesInv
  <2>4. off \in Nat /\ off >= size[sect] /\ size[sect] \in Nat
    BY <1>0, <2>2
  <2>5. /\ e \in Symbols /\ e.name = Decl.name /\ e.sect = sect /\ e.offset = off
        /\ e.size = Decl.size
    BY <2>2, <2>3, <2>4 DEF Symbol, Symbols
  <2>6. size'[sect] = off + Decl.size /\ \A x \in {"data", "bss"} : x # sect => size'[x] = size[x]
    <3> HIDE DEF sect, off
    <3> QED
      BY <1>0, <2>1, <2>2
  <2> HIDE DEF e, sect, off
  <2>7. MadeStorage(Len(syms) + 1, e)
    BY <2>1, <2>2, <2>5, <2>6 DEF MadeStorage, off
  <2>8. \A s \in DOMAIN syms' : \/ s \in DOMAIN syms /\ syms'[s] = syms[s]
                                \/ s = Len(syms) + 1 /\ syms'[s] = e
    BY <1>0, <2>1, <2>5, AppendedLast
  <2>9. \A x \in {"data", "bss"} : size'[x] >= size[x]
    BY <1>0, <2>2, <2>3, <2>4, <2>6
  <2> QED
    BY <2>7, <2>8, <2>9 DEF Made
<1>3. CASE CollectStatic /\ ~Exit
  <2> DEFINE off == Align8(size.bss)
             e   == Symbol(Item.name, "bss", off, Item.size, FALSE)
  <2>1. /\ Collecting /\ Item.k = "static" /\ syms' = Append(syms, e)
        /\ size' = [size EXCEPT !.bss = off + Item.size]
    BY <1>3 DEF CollectStatic
  <2>2. Item.name \in STRING /\ Item.size \in Nat
    BY <2>1, InFunction DEF Collecting, Used
  <2>3. off \in Nat /\ off >= size["bss"] /\ size["bss"] \in Nat
    BY <1>0
  <2>4. /\ e \in Symbols /\ e.name = Item.name /\ e.sect = "bss" /\ e.offset = off
        /\ e.size = Item.size
    BY <2>2, <2>3 DEF Symbol, Symbols
  <2>5. size'["bss"] = off + Item.size /\ size'["data"] = size["data"]
    <3> HIDE DEF off
    <3> QED
      BY <1>0, <2>1
  <2> HIDE DEF e, off
  <2>6. MadeStorage(Len(syms) + 1, e)
    BY <2>1, <2>4, <2>5 DEF MadeStorage, off
  <2>7. \A s \in DOMAIN syms' : \/ s \in DOMAIN syms /\ syms'[s] = syms[s]
                                \/ s = Len(syms) + 1 /\ syms'[s] = e
    BY <1>0, <2>1, <2>4, AppendedLast
  <2>8. \A x \in {"data", "bss"} : size'[x] >= size[x]
    BY <1>0, <2>2, <2>3, <2>5
  <2> QED
    BY <2>6, <2>7, <2>8 DEF Made
<1>4. CASE (GenUse \/ GenCall) /\ syms' # syms
  <2> DEFINE n == Item.name
             e == Undefined(n)
  <2>1. /\ Generating /\ Item.k \in {"get", "set", "call"}
        /\ syms' = WithSymbol(Item.name) /\ size' = size
    BY <1>4 DEF GenUse, GenCall, Access, Exit, Next1, Generating
  <2>2. n \in STRING
    BY <2>1, InFunction DEF Generating, Used
  <2>3. Named(n) = {} /\ syms' = Append(syms, e)
    BY <1>4, <2>1 DEF WithSymbol
  <2>4. e \in Symbols /\ e.sect = "undef" /\ e.name = n /\ e.size = 0
    BY <2>2 DEF Undefined, Symbol, Symbols
  <2> HIDE DEF e, n
  <2>5. \A s \in DOMAIN syms' : \/ s \in DOMAIN syms /\ syms'[s] = syms[s]
                                \/ s = Len(syms) + 1 /\ syms'[s] = e
    BY <1>0, <2>3, <2>4, AppendedLast
  <2>6. MadeUndef(Len(syms) + 1, e)
    BY <2>1, <2>3, <2>4 DEF MadeUndef, n
  <2> QED
    BY <1>0, <2>1, <2>5, <2>6 DEF Made
<1>5. CASE EndFunction /\ ~Exit
  <2> DEFINE n == Decl.name
  <2>1. syms' = AddSym(n, ~Decl.static) /\ d <= Len(file) /\ size' = size
        /\ phase = "generate"
    BY <1>5 DEF EndFunction, NamesInv, TypeOK
  <2>2. d \in DOMAIN file /\ Decl.k = "func"
    BY <2>1, FilesHave DEF NamesInv, TypeOK
  <2>3. n \in STRING /\ Decl.static \in BOOLEAN
    BY <2>2, DeclFacts DEF NamesInv
  <2>4. CASE Waiting(n) # {}
    <3> DEFINE m == MinOf(Waiting(n))
    <3>1. m \in Waiting(n) /\ m \in DOMAIN syms /\ syms[m].sect = "undef"
      <4>1. Waiting(n) \subseteq Nat
        BY <1>0 DEF Waiting, Named
      <4>2. m \in Waiting(n)
        BY <2>4, <4>1, HasMin, Zenon
      <4> QED
        BY <4>2 DEF Waiting, Named
    <3>2. syms' = [syms EXCEPT ![m].sect = "text"]
      BY <2>1, <2>4 DEF AddSym
    <3>3. syms[m].name = n /\ syms[m] \in Symbols
      BY <1>0, <3>1 DEF Waiting, Named
    <3> HIDE DEF m, n
    <3>4. /\ DOMAIN syms' = DOMAIN syms
          /\ syms'[m] = [syms[m] EXCEPT !.sect = "text"]
          /\ \A s \in DOMAIN syms : s # m => syms'[s] = syms[s]
      BY <1>0, <3>1, <3>2
    <3>5. /\ syms'[m].sect = "text" /\ syms'[m].name = n
          /\ syms'[m].size = syms[m].size
      BY <3>3, <3>4 DEF Symbols
    <3>6. MadeText(m, syms'[m])
      BY <2>2, <3>1, <3>5 DEF MadeText, n
    <3> QED
      BY <1>0, <2>1, <3>4, <3>6 DEF Made
  <2>5. CASE Waiting(n) = {}
    <3> DEFINE e == Symbol(n, "text", Len(syms), 0, ~Decl.static)
    <3>1. (~Decl.static) \in BOOLEAN
      BY <2>3, Zenon
    <3>2. e \in Symbols /\ e.sect = "text" /\ e.name = n /\ e.size = 0
      <4> DEFINE g == ~Decl.static
      <4> HIDE DEF g, n
      <4>1. g \in BOOLEAN /\ n \in STRING /\ Len(syms) \in Nat
        BY <1>0, <2>3, <3>1 DEF g, n
      <4>2. LET y == Symbol(n, "text", Len(syms), 0, g)
            IN  y \in Symbols /\ y.sect = "text" /\ y.name = n /\ y.size = 0
        BY <4>1 DEF Symbol, Symbols
      <4> QED
        BY <4>2 DEF g
    <3>3. syms' = Append(syms, e)
      BY <2>1, <2>5 DEF AddSym
    <3> HIDE DEF e, n
    <3>4. \A s \in DOMAIN syms' : \/ s \in DOMAIN syms /\ syms'[s] = syms[s]
                                  \/ s = Len(syms) + 1 /\ syms'[s] = e
      BY <1>0, <3>2, <3>3, AppendedLast
    <3>5. MadeText(Len(syms) + 1, e)
      BY <2>2, <3>2 DEF MadeText, n
    <3> QED
      BY <1>0, <2>1, <3>4, <3>5 DEF Made
  <2> QED
    BY <2>4, <2>5
<1> QED
  <2>1. \/ GlobalVar \/ CollectStatic \/ EndFunction \/ GenUse \/ GenCall
        \/ UNCHANGED <<syms, size>>
    BY DEF Next, SkipFunction, Functions, SkipVar, Compiled, StartFunction, CollectOpen,
           CollectClose, CloseBlock, CollectDecl, CollectOther, Prologue, GenOpen, GenClose,
           GenDecl, GenReturn, GenVa, GenOther, Access, Next1, Exit
  <2>2. Exit => UNCHANGED <<syms, size>>
    BY DEF Exit
  <2>3. GenUse \/ GenCall => size' = size
    BY DEF GenUse, GenCall, Access, Next1, Exit
  <2> QED
    BY <1>1, <1>2, <1>3, <1>4, <1>5, <2>1, <2>2, <2>3

-----------------------------------------------------------------------------
(* What is known of a file that agrees. *)
StaticAt(f, q, n) ==
  /\ file[f].k = "func" /\ q \in 1 .. Len(Body(file[f]))
  /\ Body(file[f])[q].k = "static" /\ Body(file[f])[q].name = n
SizeIs(n, z) ==
  \E x \in DOMAIN file :
    \/ file[x].k = "var" /\ file[x].name = n /\ file[x].size = z
    \/ \E q : StaticAt(x, q, n) /\ Body(file[x])[q].size = z
Wrote(x, p) == \/ Body(x)[p].k = "set"
               \/ Body(x)[p].k = "decl" /\ (Body(x)[p].init \/ p \in 2 .. Len(x.params) + 1)
Moves(x, p) == p \in 1 .. Len(Body(x)) /\ (Body(x)[p].k = "get" \/ Wrote(x, p))

FuncAgrees(x) ==
  /\ Agrees(x)
  /\ \A p : Moves(x, p) /\ AutoAt(Body(x), p) =>
       LET z == Body(x)[Means(Body(x), p)].size
       IN  /\ Width(z) = z
           /\ Means(Body(x), p) \in 2 .. Len(x.params) + 1 => ParamWidth(z) = z
StaticsAgree ==
  \A f \in DOMAIN file : \A q, n : StaticAt(f, q, n) =>
    /\ ~Body(file[f])[q].init
    /\ \A x \in DOMAIN file : file[x].name # n
    /\ \A g \in DOMAIN file : file[g].k = "func" =>
         \A p \in 1 .. Len(Body(file[g])) :
           Body(file[g])[p].k \in Used /\ Body(file[g])[p].name = n =>
             g = f /\ Means(Body(file[g]), p) = q
SymbolMoves ==
  \A f \in DOMAIN file : file[f].k = "func" =>
    \A p : Moves(file[f], p) /\ ~AutoAt(Body(file[f]), p) =>
      /\ \A z : SizeIs(Body(file[f])[p].name, z) => z \in {4, 8}
      /\ Wrote(file[f], p) =>
           \A x \in DOMAIN file : file[x].k = "func" => file[x].name # Body(file[f])[p].name
FileAgrees ==
  /\ \A x \in DOMAIN file : file[x].k = "func" =>
       FuncAgrees(file[x]) /\ ~Storage(file[x].name)
  /\ StaticsAgree /\ SymbolMoves
  /\ \A n, y, z : SizeIs(n, y) /\ SizeIs(n, z) => y = z
  /\ \A v \in Initialised : file[v].size \in {4, 8}
  /\ OneMain

(* The bodies of a file and what their items mean. *)
LEMMA BodiesAre ==
  ASSUME file \in Files, NEW f \in DOMAIN file, file[f].k = "func"
  PROVE  /\ f \in DOMAIN Bodies /\ Bodies[f] = Body(file[f]) /\ f \in Nat /\ f # 0
         /\ Len(Body(file[f])) \in Nat /\ DOMAIN Body(file[f]) = 1 .. Len(Body(file[f]))
         /\ file[f] \in FuncDecls
         /\ \A p : Object(f, p) = IF Means(Body(file[f]), p) = 0
                                  THEN <<0, Body(file[f])[p].name>>
                                  ELSE <<f, Means(Body(file[f]), p)>>
<1>1. /\ Len(file) \in Nat /\ DOMAIN file = 1 .. Len(file) /\ file[f] \in FuncDecls
  BY FilesHave
<1>2. Body(file[f]) \in Seq(Items)
  BY <1>1, BodyFacts
<1>3. f \in DOMAIN Bodies /\ Bodies[f] = Body(file[f])
  BY DEF Bodies
<1>4. \A p : Object(f, p) = IF Means(Body(file[f]), p) = 0
                            THEN <<0, Body(file[f])[p].name>>
                            ELSE <<f, Means(Body(file[f]), p)>>
  BY <1>3 DEF Object, Means
<1>5. f \in Nat /\ f # 0
  BY <1>1
<1> QED
  BY <1>1, <1>2, <1>3, <1>4, <1>5

(* A declaration means itself. *)
LEMMA MeansItself ==
  ASSUME NEW b, Len(b) \in Nat, \A r \in 1 .. Len(b) : Levels(b)[r] \in Int,
         NEW p \in 1 .. Len(b), b[p].k \in {"decl", "static"}
  PROVE  Means(b, p) = p
<1>1. p \in Visible(b, p, b[p].name)
  <2>1. p \in 1 .. p /\ Declares(b, p, b[p].name)
    BY DEF Declares
  <2>2. \A r \in p .. p : r = p
    OBVIOUS
  <2>3. Levels(b)[p] \in Int
    OBVIOUS
  <2> QED
    BY <2>1, <2>2, <2>3 DEF Visible
<1>2. /\ DeclarationOf(b, p, b[p].name) \in Nat
      /\ DeclarationOf(b, p, b[p].name) \in 1 .. p
      /\ p <= DeclarationOf(b, p, b[p].name)
  BY <1>1, Meant
<1> QED
  BY <1>2 DEF Means

(* What StaticsApart says of objects, said of names and positions. *)
LEMMA StaticFacts ==
  ASSUME file \in Files, StaticsApart
  PROVE  StaticsAgree
<1> SUFFICES ASSUME NEW f \in DOMAIN file, NEW q, NEW n, StaticAt(f, q, n)
             PROVE  /\ ~Body(file[f])[q].init
                    /\ \A x \in DOMAIN file : file[x].name # n
                    /\ \A g \in DOMAIN file : file[g].k = "func" =>
                         \A p \in 1 .. Len(Body(file[g])) :
                           Body(file[g])[p].k \in Used /\ Body(file[g])[p].name = n =>
                             g = f /\ Means(Body(file[g]), p) = q
  BY DEF StaticsAgree
<1>1. file[f].k = "func" /\ q \in DOMAIN Bodies[f] /\ Bodies[f][q].k = "static"
      /\ Bodies[f][q].name = n /\ Bodies[f] = Body(file[f]) /\ f \in DOMAIN Bodies
      /\ f # 0
  BY BodiesAre DEF StaticAt
<1>2. /\ ~Bodies[f][q].init
      /\ \A x \in DOMAIN file : file[x].name # n
      /\ \A g \in DOMAIN Bodies : \A p \in DOMAIN Bodies[g] :
           Bodies[g][p].k \in Used /\ Bodies[g][p].name = n => Object(g, p) = <<f, q>>
  BY <1>1 DEF StaticsApart, Used
<1>3. ASSUME NEW g \in DOMAIN file, file[g].k = "func", NEW p \in 1 .. Len(Body(file[g])),
             Body(file[g])[p].k \in Used, Body(file[g])[p].name = n
      PROVE  g = f /\ Means(Body(file[g]), p) = q
  <2>1. /\ g \in DOMAIN Bodies /\ Bodies[g] = Body(file[g]) /\ p \in DOMAIN Bodies[g]
        /\ Object(g, p) = IF Means(Body(file[g]), p) = 0 THEN <<0, Body(file[g])[p].name>>
                          ELSE <<g, Means(Body(file[g]), p)>>
    BY <1>3, BodiesAre
  <2>2. Object(g, p) = <<f, q>>
    BY <1>2, <1>3, <2>1
  <2> QED
    BY <1>1, <2>1, <2>2
<1> QED
  BY <1>1, <1>2, <1>3

(* An item that moves a value reads or writes. *)
LEMMA MovesAre ==
  ASSUME file \in Files, NEW f \in DOMAIN file, file[f].k = "func", NEW p
  PROVE  /\ p \in Reads(f) <=> p \in 1 .. Len(Body(file[f])) /\ Body(file[f])[p].k = "get"
         /\ p \in Writes(f) <=> p \in 1 .. Len(Body(file[f])) /\ Wrote(file[f], p)
         /\ p \in Reads(f) \cup Writes(f) <=> Moves(file[f], p)
<1>1. /\ Bodies[f] = Body(file[f])
      /\ DOMAIN Body(file[f]) = 1 .. Len(Body(file[f]))
  BY BodiesAre
<1> QED
  BY <1>1 DEF Reads, Writes, Wrote, Moves, IsParam

(* The levels of a function of the file are numbers. *)
LEMMA LevelsNumbers ==
  ASSUME file \in Files, NEW f \in DOMAIN file, file[f].k = "func"
  PROVE  \A r \in 1 .. Len(Body(file[f])) : Levels(Body(file[f]))[r] \in Int
<1> DEFINE b == Body(file[f])
<1>1. Len(b) \in Nat
  BY BodiesAre
<1> HIDE DEF b
<1>2. \A r \in 0 .. Len(b) : Levels(b)[r] \in Int
  BY <1>1, LevelsAre
<1> QED
  BY <1>1, <1>2 DEF b

(* Its functions, *)
LEMMA FunctionFacts ==
  ASSUME file \in Files, Agreed, StaticsAgree, NEW f \in DOMAIN file, file[f].k = "func"
  PROVE  FuncAgrees(file[f]) /\ ~Storage(file[f].name)
<1> DEFINE b == Body(file[f])
<1>1. /\ Bodies[f] = b /\ Len(b) \in Nat /\ f # 0 /\ f \in DOMAIN Bodies
      /\ file[f] \in FuncDecls /\ DOMAIN b = 1 .. Len(b)
      /\ \A p : Object(f, p) = IF Means(b, p) = 0 THEN <<0, b[p].name>>
                               ELSE <<f, Means(b, p)>>
  BY BodiesAre
<1>2. WellNested(b) /\ Unambiguous(file[f])
  BY DEF Agreed
<1>3. StaticsAlone(b)
  <2> SUFFICES ASSUME NEW p \in 1 .. Len(b), b[p].k = "static",
                      NEW r \in LocalsOf(b, b[p].name)
               PROVE  FALSE
    BY DEF StaticsAlone
  <2>1. r \in 1 .. Len(b) /\ b[r].k = "decl" /\ b[r].name = b[p].name
    BY DEF LocalsOf
  <2>2. Means(b, r) = r
    BY <1>1, <2>1, MeansItself, LevelsNumbers
  <2>3. StaticAt(f, p, b[p].name)
    BY DEF StaticAt
  <2>4. Means(b, r) = p
    BY <2>1, <2>3 DEF StaticsAgree, Used
  <2> QED
    BY <2>1, <2>2, <2>4
<1>4. ASSUME NEW p, Moves(file[f], p), AutoAt(b, p)
      PROVE  /\ Width(b[Means(b, p)].size) = b[Means(b, p)].size
             /\ Means(b, p) \in 2 .. Len(file[f].params) + 1 =>
                  ParamWidth(b[Means(b, p)].size) = b[Means(b, p)].size
  <2> DEFINE D == Means(b, p)
             o == Object(f, p)
  <2>1. p \in Reads(f) \cup Writes(f)
    BY <1>4, MovesAre
  <2>2. o = <<f, D>> /\ o[1] = f /\ o[2] = D
    BY <1>1, <1>4 DEF AutoAt
  <2>3. Automatic(o) /\ SizeOf(o) = b[D].size
    BY <1>1, <1>4, <2>2 DEF Automatic, SizeOf, AutoAt
  <2>4. IF D \in 2 .. Len(file[f].params) + 1 THEN b[D].size \in {1, 2, 4, 8}
        ELSE b[D].size \notin {3, 5, 6, 7}
    BY <1>1, <2>1, <2>2, <2>3 DEF Agreed, Widths, IsParam
  <2>5. b[D].size \in Nat \ {0}
    <3>1. D \in 1 .. Len(b)
      <4>1. p \in 1 .. Len(b)
        BY <1>4 DEF Moves
      <4>2. D \in Nat /\ (D # 0 => D \in Visible(b, p, b[p].name))
            /\ Visible(b, p, b[p].name) \subseteq 1 .. p
        BY <1>1, <4>1, Meant DEF Means
      <4> QED
        BY <1>1, <1>4, <4>1, <4>2 DEF AutoAt
    <3> QED
      BY <1>4, <3>1, FilesHave DEF AutoAt
  <2> DEFINE z == b[D].size
  <2> HIDE DEF z
  <2>6. z \in Nat \ {0} /\ (z \in {1, 2, 4, 8} \/ z \notin {3, 5, 6, 7})
    BY <2>4, <2>5 DEF z
  <2>7. Width(z) = z
    BY <2>6 DEF Width
  <2>8. z \in {1, 2, 4, 8} => ParamWidth(z) = z
    BY DEF ParamWidth
  <2> QED
    BY <2>4, <2>7, <2>8 DEF z
<1>5. FuncAgrees(file[f])
  BY <1>1, <1>2, <1>3, <1>4 DEF FuncAgrees, Agrees
<1>6. ~Storage(file[f].name)
  <2> SUFFICES ASSUME Storage(file[f].name) PROVE FALSE
    OBVIOUS
  <2>1. PICK x \in DOMAIN file :
          \/ file[x].k = "var" /\ file[x].name = file[f].name
          \/ \E q : StaticAt(x, q, file[f].name)
    BY DEF Storage, StaticAt
  <2>2. ~(file[x].k = "var" /\ file[x].name = file[f].name)
    BY DEF Agreed, FunctionsFixed
  <2>3. PICK q : StaticAt(x, q, file[f].name)
    BY <2>1, <2>2
  <2> QED
    BY <2>3 DEF StaticsAgree
<1> QED
  BY <1>5, <1>6

(* its variables, *)
LEMMA OneSize ==
  ASSUME file \in Files, Widths, StaticsAgree, NEW n, NEW y, NEW z, SizeIs(n, y), SizeIs(n, z)
  PROVE  y = z
<1>1. PICK v \in DOMAIN file : \/ file[v].k = "var" /\ file[v].name = n /\ file[v].size = y
                               \/ \E q : StaticAt(v, q, n) /\ Body(file[v])[q].size = y
  BY DEF SizeIs
<1>2. PICK w \in DOMAIN file : \/ file[w].k = "var" /\ file[w].name = n /\ file[w].size = z
                               \/ \E q : StaticAt(w, q, n) /\ Body(file[w])[q].size = z
  BY DEF SizeIs
<1>3. CASE file[v].k = "var" /\ file[v].name = n /\ file[v].size = y
  <2>1. \A q : ~StaticAt(w, q, n)
    BY <1>3 DEF StaticsAgree
  <2> QED
    BY <1>2, <1>3, <2>1 DEF Widths
<1>4. CASE \E q : StaticAt(v, q, n) /\ Body(file[v])[q].size = y
  <2>1. PICK q : StaticAt(v, q, n) /\ Body(file[v])[q].size = y
    BY <1>4
  <2>2. file[w].name # n
    BY <2>1 DEF StaticsAgree
  <2>3. PICK p : StaticAt(w, p, n) /\ Body(file[w])[p].size = z
    BY <1>2, <2>2
  <2>4. file[w].k = "func" /\ p \in 1 .. Len(Body(file[w]))
        /\ Body(file[w])[p].k = "static" /\ Body(file[w])[p].name = n
    BY <2>3 DEF StaticAt
  <2>5. w = v /\ Means(Body(file[w]), p) = q
    BY <2>1, <2>4 DEF StaticsAgree, Used
  <2>6. Means(Body(file[w]), p) = p
    BY <2>4, MeansItself, LevelsNumbers, BodiesAre
  <2> QED
    BY <2>1, <2>3, <2>5, <2>6
<1> QED
  BY <1>1, <1>3, <1>4

(* and what it does with variables that have symbols. *)
LEMMA SymbolFacts ==
  ASSUME file \in Files, Agreed, StaticsAgree
  PROVE  SymbolMoves
<1> SUFFICES ASSUME NEW f \in DOMAIN file, file[f].k = "func", NEW p, Moves(file[f], p),
                    ~AutoAt(Body(file[f]), p)
             PROVE  /\ \A z : SizeIs(Body(file[f])[p].name, z) => z \in {4, 8}
                    /\ Wrote(file[f], p) =>
                         \A x \in DOMAIN file : file[x].k = "func" =>
                           file[x].name # Body(file[f])[p].name
  BY DEF SymbolMoves
<1> DEFINE b == Body(file[f])
           D == Means(b, p)
           n == b[p].name
           o == Object(f, p)
<1>1. /\ Bodies[f] = b /\ Len(b) \in Nat /\ f # 0 /\ f \in DOMAIN Bodies
      /\ DOMAIN b = 1 .. Len(b)
      /\ o = IF D = 0 THEN <<0, n>> ELSE <<f, D>>
  BY BodiesAre
<1>2. p \in 1 .. Len(b) /\ b[p].k \in Used
  BY DEF Moves, Wrote, Used
<1>3. p \in Reads(f) \cup Writes(f)
  BY MovesAre
<1>4. ASSUME D # 0 PROVE StaticAt(f, D, n)
  <2>1. D \in Visible(b, p, n) /\ D \in 1 .. p
    BY <1>1, <1>2, <1>4, Meant DEF Means
  <2>2. D \in 1 .. Len(b) /\ Declares(b, D, n)
    BY <1>1, <1>2, <2>1 DEF Visible
  <2> QED
    BY <1>4, <2>2 DEF Declares, StaticAt, AutoAt
<1>5. ~Automatic(o)
  <2>1. CASE D = 0
    BY <1>1, <2>1 DEF Automatic
  <2>2. CASE D # 0
    <3>1. b[D].k # "decl" /\ o[1] = f /\ o[2] = D
      BY <1>1, <2>2 DEF AutoAt
    <3> QED
      BY <1>1, <3>1 DEF Automatic
  <2> QED
    BY <2>1, <2>2
<1>6. SizeOf(o) \in {4, 8}
  BY <1>1, <1>3, <1>5 DEF Agreed, Widths
<1>7. ASSUME NEW z, SizeIs(n, z) PROVE z \in {4, 8}
  <2>1. CASE D = 0
    <3>1. PICK x \in DOMAIN file : \/ file[x].k = "var" /\ file[x].name = n /\ file[x].size = z
                                   \/ \E q : StaticAt(x, q, n)
      BY <1>7 DEF SizeIs
    <3>2. \A q : ~StaticAt(x, q, n)
      <4> SUFFICES ASSUME NEW q, StaticAt(x, q, n) PROVE FALSE
        OBVIOUS
      <4>1. D = q /\ q \in 1 .. Len(Body(file[x]))
        BY <1>2 DEF StaticsAgree, StaticAt
      <4> QED
        BY <2>1, <4>1
    <3> DEFINE V == {v \in DOMAIN file : file[v].k = "var" /\ file[v].name = n}
    <3>3. x \in V /\ V \subseteq Nat
      <4>1. DOMAIN file = 1 .. Len(file)
        BY FilesHave
      <4> QED
        BY <3>1, <3>2, <4>1
    <3>4. o = <<0, n>> /\ o[1] = 0 /\ o[2] = n
      BY <1>1, <2>1
    <3>5. SizeOf(o) = IF V = {} THEN 4 ELSE file[MinOf(V)].size
      BY <3>4 DEF SizeOf
    <3> HIDE DEF V
    <3>6. MinOf(V) \in V
      BY <3>3, HasMin
    <3>7. file[MinOf(V)].size = z
      BY <3>1, <3>2, <3>6 DEF Agreed, Widths, V
    <3> QED
      BY <1>6, <3>3, <3>5, <3>7
  <2>2. CASE D # 0
    <3>1. StaticAt(f, D, n)
      BY <1>4, <2>2
    <3>2. SizeIs(n, b[D].size)
      BY <3>1 DEF SizeIs
    <3>3. SizeOf(o) = b[D].size
      <4>1. o = <<f, D>> /\ o[1] = f /\ o[2] = D
        BY <1>1, <2>2
      <4> QED
        BY <1>1, <4>1 DEF SizeOf
    <3>4. z = b[D].size
      BY <1>7, <3>2, OneSize DEF Agreed
    <3> QED
      BY <1>6, <3>3, <3>4
  <2> QED
    BY <2>1, <2>2
<1>8. ASSUME Wrote(file[f], p), NEW x \in DOMAIN file, file[x].k = "func"
      PROVE  file[x].name # n
  <2>1. CASE D = 0
    <3>1. p \in Writes(f)
      BY <1>2, <1>8, MovesAre
    <3>2. o # <<0, file[x].name>>
      BY <1>1, <1>8, <3>1 DEF Agreed, FunctionsFixed
    <3> QED
      BY <1>1, <2>1, <3>2
  <2>2. CASE D # 0
    BY <1>4, <2>2 DEF StaticsAgree
  <2> QED
    BY <2>1, <2>2
<1> QED
  BY <1>7, <1>8

(* A file of which C and the compiler agree satisfies what the proofs use. *)
LEMMA FileFacts ==
  ASSUME file \in Files, Agreed
  PROVE  FileAgrees
<1>1. StaticsAgree
  BY StaticFacts DEF Agreed
<1>2. SymbolMoves
  BY <1>1, SymbolFacts
<1>3. \A x \in DOMAIN file : file[x].k = "func" =>
        FuncAgrees(file[x]) /\ ~Storage(file[x].name)
  BY <1>1, FunctionFacts
<1>4. \A n, y, z : SizeIs(n, y) /\ SizeIs(n, z) => y = z
  BY <1>1, OneSize DEF Agreed
<1> QED
  BY <1>1, <1>2, <1>3, <1>4 DEF FileAgrees, Agreed, Widths

(* A file stays what it is. *)
LEMMA FileAgreesStays ==
  ASSUME file' = file
  PROVE  FileAgrees' <=> FileAgrees
<1>1. \A f, q, n : StaticAt(f, q, n)' <=> StaticAt(f, q, n)
  BY DEF StaticAt
<1>2. \A n, z : SizeIs(n, z)' <=> SizeIs(n, z)
  BY <1>1 DEF SizeIs
<1>3. \A n : Storage(n)' <=> Storage(n)
  BY DEF Storage
<1>4. StaticsAgree' <=> StaticsAgree
  BY <1>1 DEF StaticsAgree
<1>5. SymbolMoves' <=> SymbolMoves
  BY <1>2 DEF SymbolMoves
<1>6. Initialised' = Initialised
  BY DEF Initialised
<1>7. OneMain' <=> OneMain
  BY <1>6 DEF OneMain
<1>8. (\A n, y, z : SizeIs(n, y) /\ SizeIs(n, z) => y = z)'
      <=> \A n, y, z : SizeIs(n, y) /\ SizeIs(n, z) => y = z
  BY <1>2
<1>9. (\A x \in DOMAIN file : file[x].k = "func" =>
         FuncAgrees(file[x]) /\ ~Storage(file[x].name))'
      <=> \A x \in DOMAIN file : file[x].k = "func" =>
            FuncAgrees(file[x]) /\ ~Storage(file[x].name)
  BY <1>3
<1>10. (\A v \in Initialised : file[v].size \in {4, 8})'
       <=> \A v \in Initialised : file[v].size \in {4, 8}
  BY <1>6
<1> QED
  BY <1>4, <1>5, <1>7, <1>8, <1>9, <1>10 DEF FileAgrees

-----------------------------------------------------------------------------
(* Variables stand 8 bytes apart in their section, *)
Kept == {"data", "bss"}
InOrder(s, r) == syms[s].offset + 8 <= syms[r].offset
Placed ==
  /\ \A s \in DOMAIN syms : syms[s].sect \in Kept =>
       /\ \E k \in Nat : syms[s].offset = 8 * k
       /\ syms[s].size > 0 /\ syms[s].offset + syms[s].size <= size[syms[s].sect]
  /\ \A s, r \in DOMAIN syms :
       s < r /\ syms[s].sect = syms[r].sect /\ syms[s].sect \in Kept => InOrder(s, r)

(* It is so at first, *)
LEMMA PlacedInit == Init => Placed
BY DEF Init, Placed

(* and after every step, because what is new lies behind what there is,    *)
(* rounded up to 8 bytes.                                                  *)
LEMMA PlacedStep ==
  ASSUME NamesInv, Placed, [Next]_vars
  PROVE  Placed'
<1>1. CASE UNCHANGED vars
  BY <1>1 DEF vars, Placed, InOrder
<1>2. CASE Next
  <2>1. Made
    BY <1>2, SymbolsMade
  <2>2. NamesInv' /\ Grown(syms')
    BY <1>2, StepInv
  <2>3. /\ syms \in Seq(Symbols) /\ size \in [Kept -> Nat]
        /\ syms' \in Seq(Symbols) /\ size' \in [Kept -> Nat]
    BY <2>2 DEF NamesInv, TypeOK, Kept
  <2>4. /\ \A s \in DOMAIN syms : syms[s].offset \in Nat /\ syms[s].size \in Nat
        /\ \A s \in DOMAIN syms' : syms'[s].offset \in Nat /\ syms'[s].size \in Nat
                                   /\ s \in Nat
    <3>1. /\ \A s \in DOMAIN syms : syms[s] \in Symbols
          /\ \A s \in DOMAIN syms' : syms'[s] \in Symbols /\ s \in Nat
      BY <2>3
    <3> QED
      BY <3>1 DEF Symbols
  <2>5. ASSUME NEW s \in DOMAIN syms', syms'[s].sect \in Kept
        PROVE  \/ s \in DOMAIN syms /\ syms'[s] = syms[s]
               \/ s = Len(syms) + 1 /\ MadeStorage(s, syms'[s])
    BY <2>1, <2>5 DEF Made, MadeText, MadeUndef, MadeStorage, Kept
  <2>6. ASSUME NEW s \in DOMAIN syms', syms'[s].sect \in Kept, MadeStorage(s, syms'[s])
        PROVE  /\ \E k \in Nat : syms'[s].offset = 8 * k
               /\ syms'[s].size > 0 /\ syms'[s].offset + syms'[s].size = size'[syms'[s].sect]
               /\ size[syms'[s].sect] <= syms'[s].offset
    <3>1. size[syms'[s].sect] \in Nat
      BY <2>3, <2>6
    <3>2. syms'[s].size \in Nat \ {0}
      <4>1. CASE phase = "globals" /\ d \in DOMAIN file /\ Decl.k = "var"
                 /\ syms'[s].size = Decl.size
        BY <4>1, DeclFacts DEF NamesInv
      <4>2. CASE Collecting /\ Item.k = "static" /\ syms'[s].size = Item.size
        BY <4>2, InFunction DEF Collecting
      <4> QED
        BY <2>6, <4>1, <4>2 DEF MadeStorage
    <3>3. /\ syms'[s].sect \in {"data", "bss"} /\ syms'[s].offset = Align8(size[syms'[s].sect])
          /\ size'[syms'[s].sect] = syms'[s].offset + syms'[s].size
      BY <2>6 DEF MadeStorage
    <3> DEFINE z == size[syms'[s].sect]
    <3> HIDE DEF z
    <3>4. z \in Nat
      BY <3>1 DEF z
    <3>5. Align8(z) >= z /\ \E k \in Nat : Align8(z) = 8 * k
      BY <3>4, AlignedUp
    <3>6. syms'[s].offset = Align8(z)
      BY <3>3 DEF z
    <3>7. syms'[s].size > 0
      BY <3>2
    <3> QED
      BY <3>3, <3>5, <3>6, <3>7 DEF z
  <2>7. \A x \in Kept : size'[x] \in Nat /\ size[x] \in Nat /\ size'[x] >= size[x]
    BY <2>1, <2>3 DEF Made, Kept
  <2>8. ASSUME NEW s \in DOMAIN syms', syms'[s].sect \in Kept
        PROVE  /\ \E k \in Nat : syms'[s].offset = 8 * k
               /\ syms'[s].size > 0 /\ syms'[s].offset + syms'[s].size <= size'[syms'[s].sect]
    <3>1. CASE s \in DOMAIN syms /\ syms'[s] = syms[s]
      <4>1. /\ \E k \in Nat : syms[s].offset = 8 * k
            /\ syms[s].size > 0 /\ syms[s].offset + syms[s].size <= size[syms[s].sect]
        BY <2>8, <3>1 DEF Placed
      <4> QED
        BY <2>4, <2>7, <2>8, <3>1, <4>1
    <3>2. CASE MadeStorage(s, syms'[s])
      BY <2>4, <2>6, <2>7, <2>8, <3>2
    <3> QED
      BY <2>5, <2>8, <3>1, <3>2
  <2>9. ASSUME NEW s \in DOMAIN syms', NEW r \in DOMAIN syms', s < r,
               syms'[s].sect = syms'[r].sect, syms'[s].sect \in Kept
        PROVE  syms'[s].offset + 8 <= syms'[r].offset
    <3>1. CASE r \in DOMAIN syms /\ syms'[r] = syms[r]
      <4>1. s \in DOMAIN syms /\ syms'[s] = syms[s]
        <5>1. r \in 1 .. Len(syms) /\ s \in Nat /\ Len(syms) \in Nat
          BY <2>3, <2>4, <3>1
        <5> QED
          BY <2>5, <2>9, <5>1
      <4> QED
        BY <2>9, <3>1, <4>1 DEF Placed, InOrder
    <3>2. CASE r = Len(syms) + 1 /\ MadeStorage(r, syms'[r])
      <4>1. s \in DOMAIN syms /\ syms'[s] = syms[s]
        <5>1. s # Len(syms) + 1
          BY <2>3, <2>9, <3>2
        <5> QED
          BY <2>5, <2>9, <5>1
      <4>2. syms'[s].size > 0 /\ syms'[s].offset + syms'[s].size <= size[syms'[s].sect]
        BY <2>9, <4>1 DEF Placed
      <4>3. size[syms'[s].sect] <= syms'[r].offset
        BY <2>6, <2>9, <3>2
      <4>4. PICK k \in Nat : syms'[s].offset = 8 * k
        BY <2>8, <2>9
      <4>5. PICK m \in Nat : syms'[r].offset = 8 * m
        BY <2>8, <2>9
      <4>6. 8 * k < 8 * m
        <5>1. size[syms'[s].sect] \in Nat
          BY <2>7, <2>9
        <5>2. syms'[s].offset < syms'[r].offset
          BY <2>4, <4>2, <4>3, <5>1
        <5> QED
          BY <4>4, <4>5, <5>2
      <4>7. 8 * k + 8 <= 8 * m
        BY <4>6
      <4> QED
        BY <4>4, <4>5, <4>7
    <3> QED
      BY <2>5, <2>9, <3>1, <3>2
  <2> QED
    BY <2>8, <2>9 DEF Placed, InOrder
<1> QED
  BY <1>1, <1>2

-----------------------------------------------------------------------------
(* and have the sizes declared; no other symbol has the name of one. *)
SizesHeld ==
  \A s \in DOMAIN syms :
    IF syms[s].sect \in Kept THEN SizeIs(syms[s].name, syms[s].size)
    ELSE /\ syms[s].size = 0 /\ ~Storage(syms[s].name)
         /\ syms[s].sect = "text" => \E x \in DOMAIN file : /\ file[x].k = "func"
                                                            /\ file[x].name = syms[s].name
StaticsNamed ==
  phase \in {"collect", "generate"} =>
    \A p \in 1 .. Len(Body(Decl)) :
      Body(Decl)[p].k = "static" /\ (phase = "collect" => p < i)
        => Named(Body(Decl)[p].name) # {}
SizesInv == FileAgrees => SizesHeld /\ StaticsNamed

(* It is so at first. *)
LEMMA SizesInit == Init => SizesInv
BY DEF Init, SizesInv, SizesHeld, StaticsNamed

(* A name stays in the table. *)
LEMMA NamedStays ==
  ASSUME Grown(syms'), NEW n, Named(n) # {}
  PROVE  Named(n)' # {}
BY DEF Grown, Named

(* A name that has no symbol yet when code is generated for its use is     *)
(* that of no variable with storage.                                       *)
LEMMA UndefinedApart ==
  ASSUME NamesInv, SymbolsInv, FileAgrees, StaticsNamed, Generating,
         Item.k \in {"get", "set", "call"}, Named(Item.name) = {}
  PROVE  ~Storage(Item.name)
<1> DEFINE n == Item.name
<1>1. /\ d \in DOMAIN file /\ file[d].k = "func" /\ Decl = file[d]
      /\ i \in 1 .. Len(Body(file[d])) /\ Item = Body(file[d])[i]
      /\ phase = "generate" /\ Item.k \in Used
  BY InFunction DEF Generating, Used
<1> SUFFICES ASSUME Storage(n) PROVE FALSE
  OBVIOUS
<1>2. PICK x \in DOMAIN file :
        \/ file[x].k = "var" /\ file[x].name = n
        \/ \E q : StaticAt(x, q, n)
  BY DEF Storage, StaticAt
<1>3. CASE file[x].k = "var" /\ file[x].name = n
  BY <1>1, <1>3 DEF SymbolsInv, VarsHeld, VarHeld, Holds, Named
<1>4. CASE \E q : StaticAt(x, q, n)
  <2>1. PICK q : StaticAt(x, q, n)
    BY <1>4
  <2>2. d = x
    BY <1>1, <2>1 DEF FileAgrees, StaticsAgree
  <2> QED
    BY <1>1, <2>1, <2>2 DEF StaticAt, StaticsNamed
<1> QED
  BY <1>2, <1>3, <1>4

(* The static variables of a function have their symbols when code is      *)
(* generated for it.                                                       *)
LEMMA StaticsStep ==
  ASSUME NamesInv, StaticsNamed, Next
  PROVE  StaticsNamed'
<1>0. file' = file /\ Grown(syms') /\ i \in Nat /\ syms \in Seq(Symbols)
  <2>1. file' = file
    BY DEF Next, GlobalVar, SkipFunction, Functions, SkipVar, Compiled, StartFunction,
           CollectOpen, CollectClose, CloseBlock, CollectDecl, CollectStatic, CollectOther,
           Prologue, GenOpen, GenClose, GenDecl, GenUse, GenCall, GenReturn, GenVa,
           GenOther, EndFunction, Access, Next1, Exit
  <2> QED
    BY <2>1, StepInv DEF NamesInv, TypeOK
<1>1. CASE phase' \notin {"collect", "generate"}
  BY <1>1 DEF StaticsNamed
<1>2. CASE StartFunction
  <2>1. phase' = "collect" /\ i' = 1
    BY <1>2 DEF StartFunction
  <2> QED
    BY <2>1 DEF StaticsNamed
<1>3. CASE Prologue
  <2>1. phase = "collect" /\ i > Len(Body(Decl)) /\ phase' = "generate" /\ d' = d
        /\ syms' = syms
    BY <1>3 DEF Prologue
  <2>2. Decl' = Decl
    BY <1>0, <2>1 DEF Decl
  <2>3. \A p \in 1 .. Len(Body(Decl)) : p < i
    BY <1>0, <2>1
  <2>4. \A n : Named(n)' = Named(n)
    BY <2>1 DEF Named
  <2> QED
    BY <2>1, <2>2, <2>3, <2>4 DEF StaticsNamed
<1>4. CASE /\ phase' = "collect"
           /\ CollectOpen \/ CollectClose \/ CollectDecl \/ CollectStatic \/ CollectOther
  <2>1. Collecting /\ i' = i + 1 /\ d' = d /\ phase = "collect"
    BY <1>4 DEF CollectOpen, CollectClose, CloseBlock, CollectDecl, CollectStatic,
                CollectOther, Collecting, Exit
  <2>2. Decl' = Decl
    BY <1>0, <2>1 DEF Decl
  <2>4. ASSUME NEW p \in 1 .. Len(Body(Decl)), Body(Decl)[p].k = "static", p < i'
        PROVE  \E s \in DOMAIN syms' : syms'[s].name = Body(Decl)[p].name
    <3>1. CASE p = i
      <4>1. Body(Decl)[p] = Item
        BY <3>1 DEF Item
      <4>2. CollectStatic /\ ~Exit
        BY <1>4, <2>4, <4>1 DEF CollectOpen, CollectClose, CollectDecl, CollectStatic,
                                CollectOther, Exit
      <4> DEFINE e == Symbol(Item.name, "bss", Align8(size.bss), Item.size, FALSE)
      <4>3. syms' = Append(syms, e)
        BY <4>2 DEF CollectStatic
      <4>4. e.name = Item.name
        BY DEF Symbol
      <4> HIDE DEF e
      <4>5. syms'[Len(syms) + 1] = e /\ Len(syms) + 1 \in DOMAIN syms'
        BY <1>0, <4>3
      <4> QED
        BY <4>1, <4>4, <4>5
    <3>2. CASE p # i
      <4>1. p < i
        BY <1>0, <2>1, <2>4, <3>2
      <4>2. Named(Body(Decl)[p].name) # {}
        BY <2>1, <2>4, <4>1 DEF StaticsNamed
      <4> QED
        BY <1>0, <4>2 DEF Named, Grown
    <3> QED
      BY <3>1, <3>2
  <2> QED
    BY <1>4, <2>2, <2>4 DEF StaticsNamed, Named
<1>5. CASE /\ phase' = "generate"
           /\ \/ GenOpen \/ GenClose \/ GenDecl \/ GenUse \/ GenCall \/ GenReturn
              \/ GenVa \/ GenOther
  <2>1. d' = d /\ phase = "generate"
    BY <1>5 DEF GenOpen, GenClose, CloseBlock, GenDecl, GenUse, GenCall, GenReturn,
                GenVa, GenOther, Generating, Access, Next1, Exit
  <2>2. Decl' = Decl
    BY <1>0, <2>1 DEF Decl
  <2>3. ASSUME NEW p \in 1 .. Len(Body(Decl)), Body(Decl)[p].k = "static"
        PROVE  \E s \in DOMAIN syms' : syms'[s].name = Body(Decl)[p].name
    <3>1. Named(Body(Decl)[p].name) # {}
      BY <2>1, <2>3 DEF StaticsNamed
    <3> QED
      BY <1>0, <3>1 DEF Named, Grown
  <2> QED
    BY <1>5, <2>2, <2>3 DEF StaticsNamed, Named
<1> QED
  <2>1. GlobalVar \/ SkipFunction \/ Functions \/ SkipVar \/ Compiled \/ EndFunction
          => phase' \notin {"collect", "generate"}
    BY DEF GlobalVar, SkipFunction, Functions, SkipVar, Compiled, EndFunction, Exit
  <2>2. CollectOpen \/ CollectClose \/ CollectDecl \/ CollectStatic \/ CollectOther
          => phase' = "collect" \/ phase' = "exited"
    BY DEF CollectOpen, CollectClose, CloseBlock, CollectDecl, CollectStatic, CollectOther,
           Collecting, Exit
  <2>3. GenOpen \/ GenClose \/ GenDecl \/ GenUse \/ GenCall \/ GenReturn \/ GenVa \/ GenOther
          => phase' = "generate" \/ phase' = "exited"
    BY DEF GenOpen, GenClose, CloseBlock, GenDecl, GenUse, GenCall, GenReturn,
           GenVa, GenOther, Generating, Access, Next1, Exit
  <2> QED
    BY <1>1, <1>2, <1>3, <1>4, <1>5, <2>1, <2>2, <2>3 DEF Next


(* No step gives a symbol another size, and a new one has the size of its  *)
(* declaration.                                                            *)
LEMMA SizesStep ==
  ASSUME NamesInv, SymbolsInv, SizesInv, [Next]_vars
  PROVE  SizesInv'
<1>1. CASE UNCHANGED vars
  <2>1. file' = file /\ syms' = syms /\ phase' = phase /\ d' = d /\ i' = i
    BY <1>1 DEF vars
  <2>2. FileAgrees' <=> FileAgrees
    BY <2>1, FileAgreesStays
  <2>3. \A n : Storage(n)' <=> Storage(n)
    BY <2>1 DEF Storage
  <2>4. \A n, z : SizeIs(n, z)' <=> SizeIs(n, z)
    BY <2>1 DEF SizeIs, StaticAt
  <2>5. SizesHeld => SizesHeld'
    BY <2>1, <2>3, <2>4 DEF SizesHeld
  <2>6. StaticsNamed => StaticsNamed'
    BY <2>1 DEF StaticsNamed, Decl, Named
  <2> QED
    BY <2>2, <2>5, <2>6 DEF SizesInv
<1>2. CASE Next
  <2>1. file' = file /\ (FileAgrees' <=> FileAgrees)
    <3>1. file' = file
      BY <1>2 DEF Next, GlobalVar, SkipFunction, Functions, SkipVar, Compiled, StartFunction,
           CollectOpen, CollectClose, CloseBlock, CollectDecl, CollectStatic, CollectOther,
           Prologue, GenOpen, GenClose, GenDecl, GenUse, GenCall, GenReturn, GenVa,
           GenOther, EndFunction, Access, Next1, Exit
    <3> QED
      BY <3>1, FileAgreesStays, Zenon
  <2> SUFFICES ASSUME FileAgrees PROVE SizesHeld' /\ StaticsNamed'
    BY <2>1 DEF SizesInv
  <2>2. SizesHeld /\ StaticsNamed
    BY DEF SizesInv
  <2>3. StaticsNamed'
    BY <1>2, <2>2, StaticsStep
  <2>4. \A n : Storage(n)' <=> Storage(n)
    BY <2>1 DEF Storage
  <2>5. \A n, z : SizeIs(n, z)' <=> SizeIs(n, z)
    BY <2>1 DEF SizeIs, StaticAt
  <2>6. ASSUME NEW s \in DOMAIN syms', NEW e, e = syms'[s]
        PROVE  IF e.sect \in Kept THEN SizeIs(e.name, e.size)
               ELSE /\ e.size = 0 /\ ~Storage(e.name)
                    /\ e.sect = "text" => \E x \in DOMAIN file : /\ file[x].k = "func"
                                                                 /\ file[x].name = e.name
    <3>1. \/ s \in DOMAIN syms /\ e = syms[s]
          \/ MadeText(s, e) \/ MadeUndef(s, e) \/ MadeStorage(s, e)
      BY <1>2, <2>6, SymbolsMade DEF Made
    <3>2. CASE s \in DOMAIN syms /\ e = syms[s]
      BY <2>2, <3>2 DEF SizesHeld
    <3>3. CASE MadeText(s, e)
      <4>1. /\ e.sect = "text" /\ d \in DOMAIN file /\ file[d].k = "func"
            /\ e.name = file[d].name
        BY <3>3 DEF MadeText, Decl
      <4>2. ~Storage(e.name)
        BY <4>1 DEF FileAgrees
      <4>3. e.size = 0
        BY <2>2, <3>3 DEF MadeText, SizesHeld, Kept
      <4> QED
        BY <4>1, <4>2, <4>3 DEF Kept
    <3>4. CASE MadeUndef(s, e)
      <4>1. ~Storage(e.name)
        BY <2>2, <3>4, UndefinedApart DEF MadeUndef
      <4> QED
        BY <3>4, <4>1 DEF MadeUndef, Kept
    <3>5. CASE MadeStorage(s, e)
      <4>1. CASE phase = "globals" /\ d \in DOMAIN file /\ Decl.k = "var"
                 /\ e.name = Decl.name /\ e.size = Decl.size
        BY <3>5, <4>1 DEF MadeStorage, Kept, SizeIs, Decl
      <4>2. CASE Collecting /\ Item.k = "static" /\ e.name = Item.name /\ e.size = Item.size
        <5>1. /\ d \in DOMAIN file /\ file[d].k = "func" /\ Decl = file[d]
              /\ i \in 1 .. Len(Body(file[d])) /\ Item = Body(file[d])[i]
          BY <4>2, InFunction DEF Collecting
        <5>2. StaticAt(d, i, e.name) /\ Body(file[d])[i].size = e.size
          BY <4>2, <5>1 DEF StaticAt
        <5> QED
          BY <3>5, <5>1, <5>2 DEF MadeStorage, Kept, SizeIs
      <4> QED
        BY <3>5, <4>1, <4>2 DEF MadeStorage
    <3> QED
      BY <3>1, <3>2, <3>3, <3>4, <3>5
  <2>7. SizesHeld'
    BY <2>1, <2>4, <2>5, <2>6 DEF SizesHeld
  <2> QED
    BY <2>3, <2>7, Zenon
<1> QED
  BY <1>1, <1>2

-----------------------------------------------------------------------------
(* The symbol that a name refers to keeps its number and its size. *)
LEMMA SymbolKept ==
  ASSUME NamesInv, Next, NEW n, Named(n) # {}
  PROVE  /\ Named(n)' # {} /\ SymbolOf(n)' = SymbolOf(n) /\ SizeKnown(n)' = SizeKnown(n)
         /\ LoadWidth(n)' = LoadWidth(n)
<1>1. Grown(syms') /\ syms \in Seq(Symbols) /\ syms' \in Seq(Symbols)
  BY StepInv DEF NamesInv, TypeOK
<1>2. Named(n) \subseteq Nat /\ Named(n)' \subseteq Nat /\ Named(n) \subseteq Named(n)'
  BY <1>1 DEF Named, Grown
<1>3. \A s \in Named(n)' : s \in Named(n) \/ s > Len(syms)
  BY <1>1 DEF Named, Grown
<1> DEFINE v == MinOf(Named(n))
           w == MinOf(Named(n)')
<1>4. v \in Named(n) /\ \A y \in Named(n) : v <= y
  BY <1>2, HasMin
<1>5. w \in Named(n)' /\ \A y \in Named(n)' : w <= y
  BY <1>2, HasMin
<1>6. v \in DOMAIN syms /\ v \in Nat /\ v <= Len(syms) /\ v \in Named(n)' /\ w \in Nat
      /\ Len(syms) \in Nat
  BY <1>1, <1>2, <1>4, <1>5 DEF Named
<1>7. w = v
  <2>1. w <= v
    BY <1>5, <1>6
  <2>2. w \in Named(n)
    BY <1>3, <1>5, <1>6, <2>1
  <2> QED
    BY <1>4, <1>6, <2>1, <2>2
<1>8. SymbolOf(n) = v /\ SymbolOf(n)' = w /\ Named(n)' # {}
  BY <1>5 DEF SymbolOf, MinOf
<1>9. syms'[v].size = syms[v].size
  <2>1. \/ syms'[v] = syms[v]
        \/ MadeText(v, syms'[v]) \/ MadeUndef(v, syms'[v]) \/ MadeStorage(v, syms'[v])
    BY <1>1, <1>6, SymbolsMade DEF Made, Grown
  <2> QED
    BY <1>6, <2>1 DEF MadeText, MadeUndef, MadeStorage
<1>10. SizeKnown(n)' = SizeKnown(n)
  BY <1>7, <1>8, <1>9 DEF SizeKnown
<1> QED
  BY <1>7, <1>8, <1>10 DEF LoadWidth

-----------------------------------------------------------------------------
(* What an instruction moves: the initialiser of a variable of the file    *)
(* its symbol,                                                             *)
InitFits(e) ==
  /\ e.op = "store" /\ e.fn \in Initialised /\ Named(file[e.fn].name) # {}
  /\ e.mem = InSymbol(SymbolOf(file[e.fn].name))
  /\ e.len = IF file[e.fn].size = 8 THEN 8 ELSE 4

(* an item all of the variable that it means. *)
FrameFits(e, b) == e.mem.in = "frame" /\ e.len = b[Means(b, e.at)].size
SymbolFits(e, n) ==
  /\ Named(n) # {} /\ e.mem = InSymbol(SymbolOf(n))
  /\ e.op = "load" => e.len = LoadWidth(n)
  /\ e.op = "store" => e.len \in {4, 8} /\ LoadWidth(n) <= e.len
ItemFits(e) ==
  /\ e.fn \in DOMAIN file /\ file[e.fn].k = "func"
  /\ e.at \in 1 .. Len(Body(file[e.fn]))
  /\ e.op = "store" => Wrote(file[e.fn], e.at)
  /\ Moves(file[e.fn], e.at) =>
       IF AutoAt(Body(file[e.fn]), e.at) THEN FrameFits(e, Body(file[e.fn]))
       ELSE SymbolFits(e, Body(file[e.fn])[e.at].name)
Fits(e) == /\ e.at = 0 => InitFits(e)
           /\ e.at > 0 => ItemFits(e)
           /\ e.at < 0 => Guard(e) /\ e.mem.in = "frame"

(* An instruction goes on to. *)
LEMMA FitsStay ==
  ASSUME NamesInv, Next, file' = file, NEW e, Fits(e)
  PROVE  Fits(e)'
<1>1. InitFits(e) => InitFits(e)'
  <2> SUFFICES ASSUME InitFits(e) PROVE InitFits(e)'
    OBVIOUS
  <2>1. PICK n : n = file[e.fn].name
    OBVIOUS
  <2>2. Named(n)' # {} /\ SymbolOf(n)' = SymbolOf(n)
    BY <2>1, SymbolKept DEF InitFits
  <2>3. InSymbol(SymbolOf(n))' = InSymbol(SymbolOf(n))
    BY <2>2 DEF InSymbol
  <2>4. Initialised' = Initialised
    BY DEF Initialised
  <2>5. file'[e.fn].name = n
    BY <2>1
  <2>6. e.op = "store" /\ e.fn \in Initialised /\ e.mem = InSymbol(SymbolOf(n))
        /\ e.len = IF file[e.fn].size = 8 THEN 8 ELSE 4
    BY <2>1 DEF InitFits
  <2> QED
    BY <2>2, <2>3, <2>4, <2>5, <2>6 DEF InitFits, Named, SymbolOf, InSymbol
<1>2. ItemFits(e) => ItemFits(e)'
  <2> SUFFICES ASSUME ItemFits(e) PROVE ItemFits(e)'
    OBVIOUS
  <2>1. PICK f : f = file[e.fn]
    OBVIOUS
  <2>2. PICK n : n = Body(f)[e.at].name
    OBVIOUS
  <2>3. SymbolFits(e, n) => SymbolFits(e, n)'
    <3>1. Named(n) # {} => /\ Named(n)' # {} /\ SymbolOf(n)' = SymbolOf(n)
                           /\ LoadWidth(n)' = LoadWidth(n)
      BY SymbolKept
    <3> QED
      BY <3>1 DEF SymbolFits, InSymbol
  <2>4. file'[e.fn] = f
    BY <2>1
  <2> QED
    BY <2>1, <2>2, <2>3, <2>4 DEF ItemFits, SymbolFits, FrameFits
<1> QED
  BY <1>1, <1>2 DEF Fits, Guard

-----------------------------------------------------------------------------
(* The parts of item p of function f that are emitted before this point:   *)
(* parameters are stored by the prologue.                                  *)
Reached(f, p) ==
  /\ phase # "globals"
  /\ \/ f < d
     \/ phase = "generate" /\ f = d /\ (p < i \/ p <= Len(Decl.params) + 1)
MainReached ==
  \E x \in DOMAIN file : file[x].k = "func" /\ file[x].name = "main" /\ Reached(x, 0)

(* A move between a register and a slot. *)
FrameMove(e) == e.at > 0 /\ Moves(file[e.fn], e.at) /\ AutoAt(Body(file[e.fn]), e.at)
FindsAt(e)   == Finds(Body(file[e.fn]), e.at)

Behind(e) == /\ e.at > 0 => Reached(e.fn, e.at)
             /\ e.at = 0 => MainReached
AllFit == \A c \in DOMAIN code : Fits(code[c]) /\ Behind(code[c])

(* Instructions follow each other as their items do. *)
Follows(e, h) == /\ e.at > 0 /\ h.at > 0 => Before(<<e.fn, e.at>>, <<h.fn, h.at>>)
                 /\ e.at = 0 /\ h.at = 0 => e.fn < h.fn
Ordered == \A x, y \in DOMAIN code : x < y => Follows(code[x], code[y])

(* None is missing. *)
MoveOf(e, f, p) ==
  e.fn = f /\ e.at = p /\ e.op = IF Body(file[f])[p].k = "get" THEN "load" ELSE "store"
InitMade(v)     == \E c \in DOMAIN code : code[c].at = 0 /\ code[c].fn = v
MoveMade(f, p)  == \E c \in DOMAIN code : MoveOf(code[c], f, p)
Complete ==
  /\ MainReached => \A v \in Initialised : InitMade(v)
  /\ Len(syms) < MaxSyms =>
       \A f \in DOMAIN file, p \in Nat :
         file[f].k = "func" /\ Moves(file[f], p) /\ Reached(f, p) => MoveMade(f, p)

(* What finds the same declaration moves the same slot, what finds another *)
(* one a slot beside it.                                                   *)
Slotted(e, h) ==
  FrameMove(e) /\ FrameMove(h) /\ e.fn = h.fn =>
    IF FindsAt(e) = FindsAt(h) THEN e.mem = h.mem ELSE Apart(e, h)
AtSlot(e) == e.mem = InFrame(locals[Count(Body(file[e.fn]), FindsAt(e))].offset)
SlotsFit ==
  /\ \A x, y \in DOMAIN code : Slotted(code[x], code[y])
  /\ phase = "generate" =>
       \A x \in DOMAIN code : FrameMove(code[x]) /\ code[x].fn = d => AtSlot(code[x])

MovesInv == FileAgrees /\ phase # "exited" => AllFit /\ Ordered /\ Complete /\ SlotsFit

(* Nothing is emitted at first. *)
LEMMA MovesInit == Init => MovesInv
<1>1. Init => phase = "globals" /\ code = <<>>
  BY DEF Init
<1>2. ASSUME phase = "globals", code = <<>>
      PROVE  ~MainReached /\ \A f, p : ~Reached(f, p)
  BY <1>2 DEF MainReached, Reached
<1> QED
  BY <1>1, <1>2 DEF MovesInv, AllFit, Ordered, Complete, SlotsFit

(* A step that emits nothing. *)
Quiet ==
  /\ code' = code /\ file' = file
  /\ \A f, p \in Nat : Reached(f, p) => Reached(f, p)'
  /\ MainReached' => MainReached
  /\ Len(syms') < MaxSyms => Len(syms) < MaxSyms
  /\ \A f \in DOMAIN file, p \in Nat :
       file[f].k = "func" /\ Moves(file[f], p) /\ Reached(f, p)' /\ Len(syms') < MaxSyms
         => Reached(f, p)
  /\ phase' = "generate" => phase = "generate" /\ d' = d /\ locals' = locals

(* Such a step leaves everything as it should be. *)
LEMMA MovesQuiet ==
  ASSUME NamesInv, Next, AllFit, Ordered, Complete, SlotsFit, code \in Seq(Emitted), Quiet
  PROVE  AllFit' /\ Ordered' /\ Complete' /\ SlotsFit'
<1>1. code' = code /\ file' = file
  BY DEF Quiet
<1>2. ASSUME NEW e \in Emitted, Fits(e), Behind(e)
      PROVE  Fits(e)' /\ Behind(e)'
  <2>1. Fits(e)'
    BY <1>1, <1>2, FitsStay
  <2>2. e.fn \in Nat /\ (e.at > 0 => e.at \in Nat)
    BY DEF Emitted
  <2>3. MainReached => MainReached'
    <3> SUFFICES ASSUME MainReached PROVE MainReached'
      OBVIOUS
    <3>1. PICK x \in DOMAIN file : file[x].k = "func" /\ file[x].name = "main" /\ Reached(x, 0)
      BY DEF MainReached
    <3>2. x \in Nat
      BY <3>1, FilesHave DEF NamesInv
    <3>3. Reached(x, 0)'
      BY <3>1, <3>2 DEF Quiet
    <3> QED
      BY <1>1, <3>1, <3>3 DEF MainReached
  <2>4. e.at > 0 => Reached(e.fn, e.at)'
    BY <1>2, <2>2 DEF Behind, Quiet
  <2>5. e.at = 0 => MainReached'
    BY <1>2, <2>3 DEF Behind
  <2> QED
    BY <2>1, <2>4, <2>5 DEF Behind
<1>3. AllFit'
  <2>1. ASSUME NEW c \in DOMAIN code
        PROVE  Fits(code[c])' /\ Behind(code[c])'
    <3>1. PICK e : e = code[c]
      OBVIOUS
    <3>2. e \in Emitted
      BY <3>1
    <3>3. Fits(e)' /\ Behind(e)'
      BY <1>2, <3>1, <3>2 DEF AllFit
    <3>4. code'[c] = e
      BY <1>1, <3>1
    <3> QED
      BY <3>3, <3>4 DEF Fits, Behind, InitFits, ItemFits, SymbolFits, FrameFits, Guard
  <2> QED
    BY <1>1, <2>1 DEF AllFit
<1>4. Ordered'
  BY <1>1 DEF Ordered, Follows
<1>5. Initialised' = Initialised
  BY <1>1 DEF Initialised
<1>6. Complete'
  <2>1. (\A v \in Initialised : InitMade(v)) => \A v \in Initialised' : InitMade(v)'
    BY <1>1, <1>5 DEF InitMade
  <2>2. ASSUME Len(syms') < MaxSyms, NEW f \in DOMAIN file, NEW p \in Nat,
               file[f].k = "func", Moves(file[f], p), Reached(f, p)'
        PROVE  MoveMade(f, p)'
    <3>1. Reached(f, p) /\ Len(syms) < MaxSyms
      BY <2>2 DEF Quiet
    <3>2. MoveMade(f, p)
      BY <2>2, <3>1 DEF Complete
    <3> QED
      BY <1>1, <3>2 DEF MoveMade, MoveOf
  <2>3. MainReached' => MainReached
    BY DEF Quiet
  <2> QED
    BY <1>1, <2>1, <2>2, <2>3 DEF Complete
<1>7. SlotsFit'
  <2>1. \A x, y \in DOMAIN code' : Slotted(code[x], code[y])'
    BY <1>1 DEF SlotsFit, Slotted, FrameMove, FindsAt
  <2>2. ASSUME phase' = "generate", NEW x \in DOMAIN code', FrameMove(code[x])',
               code'[x].fn = d'
        PROVE  AtSlot(code[x])'
    <3>1. phase = "generate" /\ d' = d /\ locals' = locals
      BY <2>2 DEF Quiet
    <3> QED
      BY <1>1, <2>2, <3>1 DEF SlotsFit, FrameMove, AtSlot, FindsAt
  <2> QED
    BY <2>1, <2>2 DEF SlotsFit
<1> QED
  BY <1>3, <1>4, <1>6, <1>7


(* No step outside the second pass emits anything but the prologue. *)
LEMMA LongerTable ==
  ASSUME NamesInv, Next
  PROVE  Len(syms) \in Nat /\ Len(syms') \in Nat /\ Len(syms) <= Len(syms')
<1>1. Grown(syms') /\ syms \in Seq(Symbols) /\ syms' \in Seq(Symbols)
  BY StepInv DEF NamesInv, TypeOK
<1>2. Len(syms) > 0 => Len(syms) \in DOMAIN syms'
  BY <1>1 DEF Grown
<1> QED
  BY <1>1, <1>2

(* The steps between functions and those of the first pass emit nothing. *)
LEMMA QuietSteps ==
  ASSUME NamesInv, Next, phase' # "exited",
         \/ GlobalVar \/ SkipFunction \/ Functions \/ SkipVar \/ Compiled \/ StartFunction
         \/ CollectOpen \/ CollectClose \/ CollectDecl \/ CollectStatic \/ CollectOther
         \/ EndFunction
  PROVE  Quiet
<1>0. /\ d \in Nat /\ i \in Nat /\ MaxSyms \in Nat
      /\ \A f \in DOMAIN file : f \in Nat /\ f >= 1
  <2>1. DOMAIN file = 1 .. Len(file) /\ Len(file) \in Nat
    BY FilesHave DEF NamesInv
  <2> QED
    BY <2>1, NamesLimits DEF NamesInv, TypeOK
<1>1. file' = file /\ code' = code
  BY DEF GlobalVar, SkipFunction, Functions, SkipVar, Compiled, StartFunction,
         CollectOpen, CollectClose, CloseBlock, CollectDecl, CollectStatic, CollectOther,
         EndFunction, Exit
<1>2. Len(syms') < MaxSyms => Len(syms) < MaxSyms
  BY <1>0, LongerTable
<1>3. phase' # "generate"
  BY DEF GlobalVar, SkipFunction, Functions, SkipVar, Compiled, StartFunction,
         CollectOpen, CollectClose, CloseBlock, CollectDecl, CollectStatic, CollectOther,
         EndFunction, Collecting, Exit
<1>4. ASSUME NEW f \in Nat, NEW p \in Nat, Reached(f, p)
      PROVE  Reached(f, p)'
  <2>1. CASE GlobalVar \/ SkipFunction \/ Functions
    BY <1>4, <2>1 DEF GlobalVar, SkipFunction, Functions, Reached
  <2>2. CASE SkipVar
    <3>1. phase = "functions" /\ phase' = "functions" /\ d' = d + 1
      BY <2>2 DEF SkipVar
    <3> QED
      BY <1>0, <1>4, <3>1 DEF Reached
  <2>3. CASE \/ Compiled \/ StartFunction
             \/ CollectOpen \/ CollectClose \/ CollectDecl \/ CollectStatic \/ CollectOther
    <3>1. phase \in {"functions", "collect"} /\ phase' # "globals" /\ d' = d
      BY <2>3 DEF Compiled, StartFunction, CollectOpen, CollectClose, CloseBlock, CollectDecl,
                  CollectStatic, CollectOther, Collecting, Exit
    <3> QED
      BY <1>0, <1>4, <3>1 DEF Reached
  <2>4. CASE EndFunction
    <3>1. phase = "generate" /\ phase' = "functions" /\ d' = d + 1
      BY <2>4 DEF EndFunction, Exit
    <3> QED
      BY <1>0, <1>4, <3>1 DEF Reached
  <2> QED
    BY <2>1, <2>2, <2>3, <2>4
<1>5. ASSUME NEW f \in DOMAIN file, NEW p \in Nat, file[f].k = "func", Reached(f, p)',
             p = 0 \/ Moves(file[f], p)
      PROVE  Reached(f, p)
  <2>0. f \in Nat /\ f >= 1
    BY <1>0
  <2>1. CASE GlobalVar \/ SkipFunction
    BY <1>5, <2>1 DEF GlobalVar, SkipFunction, Reached, Exit
  <2>2. CASE Functions
    <3>1. phase' = "functions" /\ d' = 1
      BY <2>2 DEF Functions, Exit
    <3> QED
      BY <1>5, <2>0, <3>1 DEF Reached
  <2>3. CASE SkipVar
    <3>1. phase = "functions" /\ phase' = "functions" /\ d' = d + 1 /\ file[d].k = "var"
      BY <2>3 DEF SkipVar, Decl
    <3>2. f # d /\ f < d + 1
      BY <1>5, <3>1 DEF Reached
    <3> QED
      BY <1>0, <2>0, <3>1, <3>2 DEF Reached
  <2>4. CASE \/ Compiled \/ StartFunction
             \/ CollectOpen \/ CollectClose \/ CollectDecl \/ CollectStatic \/ CollectOther
    <3>1. phase \in {"functions", "collect"} /\ phase' # "globals" /\ d' = d
      BY <2>4 DEF Compiled, StartFunction, CollectOpen, CollectClose, CloseBlock, CollectDecl,
                  CollectStatic, CollectOther, Collecting, Exit
    <3> QED
      BY <1>3, <1>5, <3>1 DEF Reached
  <2>5. CASE EndFunction
    <3>1. phase = "generate" /\ phase' = "functions" /\ d' = d + 1 /\ i > Len(Body(Decl))
      BY <2>5 DEF EndFunction, Exit
    <3>2. f < d + 1
      BY <1>5, <3>1 DEF Reached
    <3>3. CASE f < d
      BY <3>1, <3>3 DEF Reached
    <3>4. CASE f = d
      <4>1. file[f] = Decl /\ Len(Body(Decl)) \in Nat
        BY <1>5, <3>4, FilesHave DEF Decl, NamesInv
      <4>2. CASE p = 0
        <5>1. Len(Decl.params) \in Nat
          <6>1. Decl \in FuncDecls
            BY <1>5, <4>1, FilesHave DEF NamesInv
          <6> QED
            BY <6>1, BodyFacts
        <5>2. p <= Len(Decl.params) + 1
          BY <4>2, <5>1
        <5> QED
          BY <3>1, <3>4, <5>2 DEF Reached
      <4>3. CASE Moves(file[f], p)
        <5>1. p \in 1 .. Len(Body(Decl))
          BY <4>1, <4>3 DEF Moves
        <5>2. p < i
          BY <1>0, <3>1, <4>1, <5>1
        <5> QED
          BY <3>1, <3>4, <5>2 DEF Reached
      <4> QED
        BY <1>5, <4>2, <4>3
    <3> QED
      BY <1>0, <2>0, <3>2, <3>3, <3>4
  <2> QED
    BY <2>1, <2>2, <2>3, <2>4, <2>5
<1>6. MainReached' => MainReached
  <2> SUFFICES ASSUME MainReached' PROVE MainReached
    OBVIOUS
  <2>1. PICK x \in DOMAIN file : file[x].k = "func" /\ file[x].name = "main" /\ Reached(x, 0)'
    BY <1>1 DEF MainReached
  <2>2. Reached(x, 0)
    BY <1>5, <2>1
  <2> QED
    BY <2>1, <2>2 DEF MainReached
<1> QED
  BY <1>1, <1>2, <1>3, <1>4, <1>5, <1>6 DEF Quiet

-----------------------------------------------------------------------------
(* What a use of a local variable finds when code is generated for it: the *)
(* slot of a declaration of its size, in the search of the code.           *)
LEMMA GenLookup ==
  ASSUME NamesInv, ScopeInv, FileAgrees, Generating, NEW b, b = Body(Decl)
  PROVE  /\ d \in DOMAIN file /\ file[d].k = "func" /\ Decl = file[d] /\ Agrees(Decl)
         /\ i \in 1 .. Len(b) /\ i \in Nat /\ Item = b[i] /\ Len(b) \in Nat
         /\ UseAt(b, i) =>
              SearchLocal(Item.name) = IF AutoAt(b, i) THEN Count(b, Finds(b, i)) ELSE 0
         /\ \A p \in LocalsOf(b, Item.name) :
              /\ Count(b, p) \in DOMAIN locals /\ Count(b, p) # 0
              /\ locals[Count(b, p)].size = b[p].size
<1>1. /\ d \in DOMAIN file /\ file[d].k = "func" /\ Decl = file[d]
      /\ i \in 1 .. Len(b) /\ Item = b[i] /\ phase = "generate"
  BY InFunction DEF Generating
<1>2. Agrees(Decl)
  BY <1>1 DEF FileAgrees, FuncAgrees
<1>3. Len(b) \in Nat /\ i \in Nat
  BY <1>1, <1>2, BodyFacts DEF Agrees
<1>4. PICK c, m : /\ Scopes(b, Len(b), c, m) /\ Entered(b, Len(b), c, locals)
                  /\ chain = c[i - 1]
  BY <1>1 DEF ScopeInv, Passed
<1>5. locals \in Seq(Locals)
  BY DEF NamesInv, TypeOK
<1>6. UseAt(b, i) =>
        SearchLocal(Item.name) = IF AutoAt(b, i) THEN Count(b, Finds(b, i)) ELSE 0
  BY <1>1, <1>2, <1>4, <1>5, AgreedLookup
<1>7. ASSUME NEW p \in LocalsOf(b, Item.name)
      PROVE  /\ Count(b, p) \in DOMAIN locals /\ Count(b, p) # 0
             /\ locals[Count(b, p)].size = b[p].size
  <2>1. Count(b, p) \in 1 .. Len(locals) /\ locals[Count(b, p)].size = b[p].size
    BY <1>4, <1>7 DEF LocalsOf, Entered
  <2> QED
    BY <1>5, <2>1
<1> QED
  BY <1>1, <1>2, <1>3, <1>6, <1>7

(* The first items of a body are its brace and its parameters: they emit   *)
(* nothing.                                                                *)
LEMMA ParamItems ==
  ASSUME NEW x \in FuncDecls, NEW p \in 1 .. Len(x.params) + 1
  PROVE  /\ Len(x.params) \in Nat
         /\ p = 1 => Body(x)[p].k = "open"
         /\ p # 1 => /\ p - 1 \in DOMAIN x.params /\ Body(x)[p] = Param(x.params[p - 1])
                     /\ Body(x)[p].k = "decl" /\ Body(x)[p].init = FALSE
<1>1. /\ Len(x.params) \in Nat /\ DOMAIN x.params = 1 .. Len(x.params)
      /\ Body(x)[1].k = "open"
      /\ \A y \in DOMAIN x.params : Body(x)[y + 1] = Param(x.params[y])
  BY BodyFacts
<1>2. CASE p # 1
  <2>1. p - 1 \in DOMAIN x.params /\ p - 1 + 1 = p
    BY <1>1, <1>2
  <2>2. Body(x)[p] = Param(x.params[p - 1])
    BY <1>1, <2>1
  <2> QED
    BY <1>1, <1>2, <2>1, <2>2 DEF Param
<1> QED
  BY <1>1, <1>2

-----------------------------------------------------------------------------
(* What a step of the second pass emits. *)
GenMove(e) ==
  /\ e \in Emitted /\ e.fn = d /\ e.at = i /\ i > Len(Decl.params) + 1
  /\ e.op = "store" => Wrote(Decl, i)
  /\ Moves(Decl, i) =>
       /\ MoveOf(e, d, i)
       /\ AutoAt(Body(Decl), i) => FrameFits(e, Body(Decl)) /\ AtSlot(e)
       /\ ~AutoAt(Body(Decl), i) => \A n : n = Item.name => SymbolFits(e, n)'
GenSays ==
  \/ /\ code' = code
     /\ Moves(Decl, i) /\ i > Len(Decl.params) + 1 => Len(syms) >= MaxSyms
  \/ \E e : GenMove(e) /\ code' = Append(code, e)

(* A load or store of the slot that is found. *)
LEMMA AccessMove ==
  ASSUME NamesInv, ScopeInv, FileAgrees, Generating, NEW b, b = Body(Decl),
         AutoAt(b, i), Moves(Decl, i), UseAt(b, i), i > Len(Decl.params) + 1,
         NEW op \in {"load", "store"}, NEW l, l = SearchLocal(Item.name),
         op = IF Item.k = "get" THEN "load" ELSE "store", Access(op, l)
  PROVE  GenSays
<1>1. /\ d \in DOMAIN file /\ file[d].k = "func" /\ Decl = file[d] /\ Agrees(Decl)
      /\ i \in 1 .. Len(b) /\ i \in Nat /\ Item = b[i] /\ d \in Nat
      /\ SearchLocal(Item.name) = Count(b, Finds(b, i))
  BY GenLookup DEF NamesInv, TypeOK
<1>2. /\ Finds(b, i) \in LocalsOf(b, Item.name)
      /\ b[Finds(b, i)].size = b[Means(b, i)].size
  BY <1>1, AutoFinds
<1>3. /\ l \in DOMAIN locals /\ locals[l].size = b[Means(b, i)].size
      /\ l = Count(b, Finds(b, i))
  BY <1>1, <1>2, GenLookup
<1>4. Width(locals[l].size) = locals[l].size
  <2>1. FuncAgrees(Decl)
    BY <1>1 DEF FileAgrees
  <2> QED
    BY <1>3, <2>1 DEF FuncAgrees
<1>5. locals[l].offset \in Int /\ locals[l].size \in Nat
  BY <1>3, LocalFacts DEF NamesInv, TypeOK
<1> DEFINE e == Ins(op, d, i, InFrame(locals[l].offset), Width(locals[l].size))
<1>6. e \in Emitted
  BY <1>1, <1>4, <1>5 DEF Ins, InFrame, Emitted
<1>7. /\ e.op = op /\ e.fn = d /\ e.at = i /\ e.len = locals[l].size
      /\ e.mem = InFrame(locals[l].offset) /\ e.mem.in = "frame"
  BY <1>4 DEF Ins, InFrame
<1>8. code' = Append(code, e)
  BY DEF Access
<1>9. e.op = "store" => Wrote(Decl, i)
  BY <1>1, <1>7 DEF Moves
<1>10. MoveOf(e, d, i)
  BY <1>1, <1>7 DEF MoveOf
<1>11. FrameFits(e, b)
  BY <1>3, <1>7 DEF FrameFits
<1>12. AtSlot(e)
  BY <1>1, <1>3, <1>7 DEF AtSlot, FindsAt
<1> HIDE DEF e
<1> QED
  BY <1>1, <1>6, <1>7, <1>8, <1>9, <1>10, <1>11, <1>12 DEF GenSays, GenMove


(* An initialiser is stored in the slot of the variable it belongs to. *)
LEMMA GenDeclSays ==
  ASSUME NamesInv, ScopeInv, FileAgrees, GenDecl
  PROVE  GenSays
<1> DEFINE b == Body(Decl)
<1>1. /\ d \in DOMAIN file /\ file[d].k = "func" /\ Decl = file[d] /\ Agrees(Decl)
      /\ i \in 1 .. Len(b) /\ i \in Nat /\ Item = b[i] /\ Generating
      /\ Item.k \in {"decl", "static"} /\ Decl \in FuncDecls /\ Len(b) \in Nat
  BY GenLookup DEF GenDecl, Agrees
<1>2. CASE Item.k = "static"
  <2>1. StaticAt(d, i, Item.name)
    BY <1>1, <1>2 DEF StaticAt
  <2>2. ~Item.init
    BY <1>1, <2>1 DEF FileAgrees, StaticsAgree
  <2>3. code' = code
    BY <2>2 DEF GenDecl
  <2>4. ~Moves(Decl, i)
    BY <1>1, <1>2 DEF Moves, Wrote
  <2> QED
    BY <2>3, <2>4 DEF GenSays
<1>3. CASE Item.k = "decl" /\ ~Item.init
  <2>1. code' = code
    BY <1>3 DEF GenDecl
  <2>2. ~(Moves(Decl, i) /\ i > Len(Decl.params) + 1)
    <3>1. Len(Decl.params) \in Nat
      BY <1>1, BodyFacts
    <3> QED
      BY <1>1, <1>3, <3>1 DEF Moves, Wrote
  <2> QED
    BY <2>1, <2>2 DEF GenSays
<1>4. CASE Item.k = "decl" /\ Item.init
  <2>1. Len(Decl.params) \in Nat
    BY <1>1, BodyFacts
  <2>2. i > Len(Decl.params) + 1
    <3>1. ASSUME i \in 1 .. Len(Decl.params) + 1
          PROVE  FALSE
      BY <1>1, <1>4, <3>1, ParamItems
    <3> QED
      BY <1>1, <2>1, <3>1
  <2>3. UseAt(b, i) /\ Moves(Decl, i)
    BY <1>1, <1>4 DEF UseAt, Moves, Wrote
  <2>4. Means(b, i) = i
    BY <1>1, LevelsNumbers, MeansItself DEF NamesInv
  <2>5. AutoAt(b, i)
    BY <1>1, <1>4, <2>4 DEF AutoAt
  <2>6. SearchLocal(Item.name) # 0
    <3>1. SearchLocal(Item.name) = Count(b, Finds(b, i))
      BY <1>1, <2>3, <2>5, GenLookup
    <3>2. Finds(b, i) \in LocalsOf(b, Item.name)
      BY <1>1, <2>3, <2>5, AutoFinds
    <3> QED
      BY <1>1, <3>1, <3>2, GenLookup
  <2>7. PICK l : l = SearchLocal(Item.name)
    OBVIOUS
  <2>8. Access("store", l)
    BY <1>4, <2>6, <2>7 DEF GenDecl
  <2>9. "store" = IF Item.k = "get" THEN "load" ELSE "store"
    BY <1>4
  <2> QED
    BY <1>1, <2>2, <2>3, <2>5, <2>7, <2>8, <2>9, AccessMove
<1> QED
  BY <1>1, <1>2, <1>3, <1>4

(* A reference to a name of which the symbol stays or is made. *)
LEMMA ReferenceKept ==
  ASSUME NamesInv, Next, NEW n, n \in STRING, ~NoRoomFor(n), syms' = WithSymbol(n)
  PROVE  /\ Named(n)' # {} /\ SymbolOf(n)' = SymbolOf(n) /\ SizeKnown(n)' = SizeKnown(n)
         /\ LoadWidth(n)' = LoadWidth(n)
<1>1. CASE Named(n) # {}
  BY <1>1, SymbolKept
<1>2. CASE Named(n) = {}
  <2> DEFINE e == Undefined(n)
             k == Len(syms) + 1
  <2>1. e.name = n /\ e.size = 0 /\ e \in Symbols
    BY DEF Undefined, Symbol, Symbols
  <2> HIDE DEF e
  <2>2. syms \in Seq(Symbols) /\ syms' = Append(syms, e)
    BY <1>2 DEF WithSymbol, e, NamesInv, TypeOK
  <2>3. \A s \in DOMAIN syms' : (s \in DOMAIN syms /\ syms'[s] = syms[s]) \/ s = k
    BY <2>1, <2>2, AppendedLast
  <2>4. k \in DOMAIN syms' /\ syms'[k] = e /\ k \in Nat
    BY <2>1, <2>2, AppendedLast
  <2>5. Named(n)' = {k}
    BY <1>2, <2>1, <2>3, <2>4 DEF Named
  <2>6. MinOf({k}) = k
    BY <2>4, HasMin
  <2>7. SymbolOf(n) = k /\ SymbolOf(n)' = k
    BY <1>2, <2>5, <2>6 DEF SymbolOf
  <2>8. SizeKnown(n) = 0
    BY <1>2 DEF SizeKnown
  <2>9. SizeKnown(n)' = 0
    BY <2>1, <2>4, <2>5, <2>7 DEF SizeKnown
  <2> QED
    BY <2>5, <2>7, <2>8, <2>9 DEF LoadWidth
<1> QED
  BY <1>1, <1>2

(* The size known of what is moved. *)
LEMMA SizeMoved ==
  ASSUME NamesInv, SizesHeld, FileAgrees, NEW f \in DOMAIN file, file[f].k = "func", NEW p,
         Moves(file[f], p), ~AutoAt(Body(file[f]), p), NEW n, n = Body(file[f])[p].name
  PROVE  SizeKnown(n) \in {0, 4, 8}
<1>1. CASE Named(n) = {}
  BY <1>1 DEF SizeKnown
<1>2. CASE Named(n) # {}
  <2>1. Named(n) \subseteq Nat
    BY DEF Named, NamesInv, TypeOK
  <2>2. SymbolOf(n) \in Named(n) /\ SizeKnown(n) = syms[SymbolOf(n)].size
    BY <1>2, <2>1, HasMin DEF SymbolOf, SizeKnown
  <2>3. PICK s : s = SymbolOf(n)
    OBVIOUS
  <2>4. s \in DOMAIN syms /\ syms[s].name = n
    BY <2>2, <2>3 DEF Named
  <2>5. CASE syms[s].sect \in Kept
    <3>1. SizeIs(n, syms[s].size)
      BY <2>4, <2>5 DEF SizesHeld
    <3>2. syms[s].size \in {4, 8}
      BY <3>1 DEF FileAgrees, SymbolMoves
    <3> QED
      BY <2>2, <2>3, <3>2
  <2>6. CASE syms[s].sect \notin Kept
    BY <2>2, <2>3, <2>4, <2>6 DEF SizesHeld
  <2> QED
    BY <2>5, <2>6
<1> QED
  BY <1>1, <1>2

(* A use loads or stores the slot found or the symbol of the name, which   *)
(* has its size.                                                           *)
LEMMA GenUseSays ==
  ASSUME NamesInv, ScopeInv, FileAgrees, SizesHeld, Next, GenUse
  PROVE  GenSays
<1> DEFINE b == Body(Decl)
           op == IF Item.k = "get" THEN "load" ELSE "store"
<1>1. /\ d \in DOMAIN file /\ file[d].k = "func" /\ Decl = file[d] /\ Agrees(Decl)
      /\ i \in 1 .. Len(b) /\ i \in Nat /\ d \in Nat /\ Item = b[i] /\ Generating
      /\ Item.k \in {"get", "set"} /\ Decl \in FuncDecls /\ Len(b) \in Nat
  BY GenLookup DEF GenUse, Agrees, NamesInv, TypeOK
<1>2. UseAt(b, i) /\ Moves(Decl, i)
  BY <1>1 DEF UseAt, Moves, Wrote
<1>3. i > Len(Decl.params) + 1 /\ Len(Decl.params) \in Nat
  <2>1. Len(Decl.params) \in Nat
    BY <1>1, BodyFacts
  <2>2. ASSUME i \in 1 .. Len(Decl.params) + 1
        PROVE  FALSE
    BY <1>1, <2>2, ParamItems
  <2> QED
    BY <1>1, <2>1, <2>2
<1>4. PICK l : l = SearchLocal(Item.name)
  OBVIOUS
<1>5. CASE AutoAt(b, i)
  <2>1. l # 0
    <3>1. l = Count(b, Finds(b, i))
      BY <1>1, <1>2, <1>4, <1>5, GenLookup
    <3>2. Finds(b, i) \in LocalsOf(b, Item.name)
      BY <1>1, <1>2, <1>5, AutoFinds
    <3> QED
      BY <1>1, <3>1, <3>2, GenLookup
  <2>2. Access(op, l)
    BY <1>4, <2>1 DEF GenUse
  <2>3. op \in {"load", "store"}
    OBVIOUS
  <2> QED
    BY <1>1, <1>2, <1>3, <1>4, <1>5, <2>2, <2>3, AccessMove
<1>6. CASE ~AutoAt(b, i)
  <2>1. SearchLocal(Item.name) = 0
    BY <1>1, <1>2, <1>6, GenLookup
  <2>2. CASE NoRoomFor(Item.name)
    <3>1. code' = code /\ Len(syms) >= MaxSyms
      BY <2>1, <2>2 DEF GenUse, NoRoomFor
    <3> QED
      BY <3>1 DEF GenSays
  <2>3. CASE ~NoRoomFor(Item.name)
    <3> DEFINE m == Item.name
               e == Ins(op, d, i, InSymbol(SymbolOf(m)),
                        IF op = "load" THEN LoadWidth(m) ELSE StoreWidth(Item))
    <3>1. syms' = WithSymbol(m) /\ code' = Append(code, e)
      BY <2>1, <2>3 DEF GenUse
    <3>2. m \in STRING
      BY <1>1, FilesHave DEF NamesInv, Used
    <3>3. PICK n : n = m
      OBVIOUS
    <3>4. /\ Named(n)' # {} /\ SymbolOf(n)' = SymbolOf(n) /\ LoadWidth(n)' = LoadWidth(n)
      BY <2>3, <3>1, <3>2, <3>3, ReferenceKept
    <3>5. SizeKnown(n) \in {0, 4, 8}
      BY <1>1, <1>2, <1>6, <3>3, SizeMoved
    <3>6. /\ LoadWidth(n) \in {4, 8} /\ StoreWidth(Item) \in {4, 8}
          /\ LoadWidth(n) <= StoreWidth(Item)
      BY <3>3, <3>5 DEF LoadWidth, StoreWidth, Width
    <3>7. SymbolOf(n) \in Nat
      BY SymbolOfNat DEF NamesInv, TypeOK
    <3>8. e \in Emitted
      <4>1. e.len \in Nat
        BY <3>3, <3>6 DEF Ins
      <4>2. e = Ins(op, d, i, InSymbol(SymbolOf(n)), e.len)
        BY <3>3 DEF Ins
      <4> HIDE DEF e
      <4> QED
        BY <1>1, <3>7, <4>1, <4>2 DEF Ins, InSymbol, Emitted
    <3>9. e.fn = d /\ e.at = i /\ e.op = op /\ e.mem = InSymbol(SymbolOf(n))
          /\ e.len = IF op = "load" THEN LoadWidth(n) ELSE StoreWidth(Item)
      BY <3>3 DEF Ins
    <3>10. MoveOf(e, d, i)
      BY <1>1, <3>9 DEF MoveOf
    <3>11. e.op = "store" => Wrote(Decl, i)
      BY <1>1, <3>9 DEF Wrote
    <3>12. \A z \in Nat : \A g : g.mem = InSymbol(SymbolOf(n)) /\ g.len = z
               /\ (g.op = "load" => z = LoadWidth(n))
               /\ (g.op = "store" => z \in {4, 8} /\ LoadWidth(n) <= z)
             => SymbolFits(g, n)'
      BY <3>4 DEF SymbolFits, InSymbol
    <3>13. PICK g : g = e
      OBVIOUS
    <3>14. SymbolFits(g, n)'
      <4>1. /\ g.op = "load" => g.len = LoadWidth(n)
            /\ g.op = "store" => g.len \in {4, 8} /\ LoadWidth(n) <= g.len
        BY <3>6, <3>9, <3>13
      <4>2. g.len \in Nat /\ g.mem = InSymbol(SymbolOf(n))
        BY <3>6, <3>9, <3>13
      <4> QED
        BY <3>12, <4>1, <4>2
    <3> HIDE DEF e
    <3>15. \A y : y = Item.name => SymbolFits(g, y)'
      BY <3>3, <3>14
    <3>16. GenMove(g)
      BY <1>3, <1>6, <3>8, <3>9, <3>10, <3>11, <3>13, <3>15 DEF GenMove
    <3> QED
      BY <3>1, <3>13, <3>16 DEF GenSays
  <2> QED
    BY <2>2, <2>3
<1> QED
  BY <1>5, <1>6


(* What is appended to a sequence is determined by the result. *)
LEMMA AppendSame ==
  ASSUME NEW T, NEW s \in Seq(T), NEW e \in T, NEW h \in T, Append(s, e) = Append(s, h)
  PROVE  h = e
<1>1. Append(s, e)[Len(s) + 1] = e
  OBVIOUS
<1>2. Append(s, h)[Len(s) + 1] = h
  OBVIOUS
<1> QED
  BY <1>1, <1>2

(* What else the second pass emits moves no variable. *)
LEMMA GenRestSays ==
  ASSUME NamesInv, ScopeInv, FileAgrees, code \in Seq(Emitted), phase' # "exited",
         GenOpen \/ GenClose \/ GenCall \/ GenReturn \/ GenVa \/ GenOther
  PROVE  GenSays
<1>1. Generating
  BY DEF GenOpen, GenClose, GenCall, GenReturn, GenVa, GenOther
<1>2. /\ d \in DOMAIN file /\ file[d].k = "func" /\ Decl = file[d] /\ Agrees(Decl)
      /\ i \in 1 .. Len(Body(Decl)) /\ i \in Nat /\ Item = Body(Decl)[i]
      /\ Decl \in FuncDecls
  BY <1>1, GenLookup DEF Agrees
<1>3. Item.k \notin {"get", "set", "decl"}
  BY DEF GenOpen, GenClose, GenCall, GenReturn, GenVa, GenOther
<1>4. ~Moves(Decl, i)
  BY <1>2, <1>3 DEF Moves, Wrote
<1>5. CASE code' = code
  BY <1>4, <1>5 DEF GenSays
<1>6. CASE code' # code
  <2>1. code' = code \/ \E e : GenIns(e) /\ code' = Append(code, e)
    BY GenerateCode
  <2>2. PICK e : GenIns(e) /\ code' = Append(code, e)
    BY <1>6, <2>1
  <2>3. GenCall \/ GenReturn \/ GenVa
    BY <1>6 DEF GenOpen, GenClose, CloseBlock, GenCall, GenReturn, GenVa, GenOther
  <2>4. \E h : code' = Append(code, h) /\ h.op # "store"
    <3>1. \A op, fn, at, mem, len : Ins(op, fn, at, mem, len).op = op
      BY DEF Ins
    <3>2. CASE GenCall
      <4>1. PICK l : l = SearchLocal(Item.name)
        OBVIOUS
      <4>2. CASE l # 0
        BY <3>1, <3>2, <4>1, <4>2 DEF GenCall
      <4>3. CASE l = 0
        <5>1. ~NoRoomFor(Item.name)
          BY <3>2, <4>1, <4>3 DEF GenCall, Exit
        <5> QED
          BY <3>1, <3>2, <4>1, <4>3, <5>1 DEF GenCall
      <4> QED
        BY <4>2, <4>3
    <3>3. CASE GenReturn
      BY <1>6, <3>1, <3>3 DEF GenReturn
    <3>4. CASE GenVa
      BY <3>1, <3>4 DEF GenVa
    <3> QED
      BY <2>3, <3>2, <3>3, <3>4
  <2>5. PICK h : code' = Append(code, h) /\ h.op # "store"
    BY <2>4
  <2>6. h = e
    <3> DEFINE T == Emitted \cup {e, h}
    <3>1. code \in Seq(T)
      <4>1. Emitted \subseteq T
        OBVIOUS
      <4> HIDE DEF T
      <4> QED
        BY <4>1
    <3>2. e \in T /\ h \in T
      OBVIOUS
    <3> HIDE DEF T
    <3>3. Append(code, e) = Append(code, h)
      BY <2>2, <2>5
    <3> QED
      BY <3>1, <3>2, <3>3, AppendSame
  <2>7. i > Len(Decl.params) + 1
    <3>1. Len(Decl.params) \in Nat
      BY <1>2, BodyFacts
    <3>2. ASSUME i \in 1 .. Len(Decl.params) + 1
          PROVE  FALSE
      <4>1. Item.k \in {"open", "decl"}
        BY <1>2, <3>2, ParamItems
      <4> QED
        BY <2>3, <4>1 DEF GenCall, GenReturn, GenVa
    <3> QED
      BY <1>2, <3>1, <3>2
  <2>8. GenMove(e)
    BY <1>4, <2>2, <2>5, <2>6, <2>7 DEF GenIns, GenMove
  <2> QED
    BY <2>2, <2>8 DEF GenSays
<1> QED
  BY <1>5, <1>6

(* So does every step of the second pass. *)
LEMMA GenEmits ==
  ASSUME NamesInv, ScopeInv, FileAgrees, SizesHeld, code \in Seq(Emitted), Next,
         phase' # "exited",
         \/ GenOpen \/ GenClose \/ GenDecl \/ GenUse \/ GenCall \/ GenReturn
         \/ GenVa \/ GenOther
  PROVE  /\ GenSays /\ Generating
         /\ phase' = "generate" /\ d' = d /\ i' = i + 1 /\ locals' = locals /\ file' = file
<1>1. GenSays
  BY GenDeclSays, GenUseSays, GenRestSays
<1>2. Generating
  BY DEF GenOpen, GenClose, GenDecl, GenUse, GenCall, GenReturn, GenVa, GenOther
<1>3. /\ phase' = "generate" /\ d' = d /\ i' = i + 1 /\ locals' = locals /\ file' = file
  BY <1>2 DEF GenOpen, GenClose, CloseBlock, GenDecl, GenUse, GenCall, GenReturn, GenVa,
              GenOther, Generating, Access, Next1, Exit, frameVars
<1> QED
  BY <1>1, <1>2, <1>3

(* An item that emits nothing. *)
LEMMA MovesUnemitted ==
  ASSUME NamesInv, Next, Generating, phase' = "generate", d' = d, i' = i + 1,
         locals' = locals, file' = file, code' = code,
         Moves(Decl, i) /\ i > Len(Decl.params) + 1 => Len(syms) >= MaxSyms
  PROVE  Quiet
<1>0. d \in Nat /\ i \in Nat /\ phase = "generate" /\ MaxSyms \in Nat /\ Decl' = Decl
  BY NamesLimits DEF NamesInv, TypeOK, Generating, Decl
<1>1. Len(syms') < MaxSyms => Len(syms) < MaxSyms
  BY <1>0, LongerTable
<1>2. \A f, p \in Nat : Reached(f, p) => Reached(f, p)'
  BY <1>0 DEF Reached
<1>3. \A f, p \in Nat : Reached(f, p)' => \/ Reached(f, p)
                                          \/ f = d /\ p = i /\ i > Len(Decl.params) + 1
  <2> SUFFICES ASSUME NEW f \in Nat, NEW p \in Nat, Reached(f, p)', ~Reached(f, p)
               PROVE  f = d /\ p = i /\ i > Len(Decl.params) + 1
    OBVIOUS
  <2>1. f = d /\ p < i + 1 /\ ~(p < i) /\ ~(p <= Len(Decl.params) + 1)
    BY <1>0 DEF Reached
  <2>2. DOMAIN file = 1 .. Len(file) /\ d \in DOMAIN file /\ Decl.k = "func"
    BY InFunction DEF Generating
  <2>3. Len(Decl.params) \in Nat
    <3>1. Decl \in FuncDecls
      BY <2>2, FilesHave DEF NamesInv, Decl
    <3> QED
      BY <3>1, BodyFacts
  <2> QED
    BY <1>0, <2>1, <2>3
<1>4. ASSUME NEW f \in DOMAIN file, NEW p \in Nat, file[f].k = "func", Moves(file[f], p),
             Reached(f, p)', Len(syms') < MaxSyms
      PROVE  Reached(f, p)
  <2>1. f \in Nat
    BY <1>4, FilesHave DEF NamesInv
  <2>2. CASE f = d /\ p = i /\ i > Len(Decl.params) + 1
    <3>1. Len(syms) >= MaxSyms
      BY <1>4, <2>2 DEF Decl
    <3> QED
      BY <1>0, <1>1, <1>4, <3>1, LongerTable
  <2> QED
    BY <1>3, <1>4, <2>1, <2>2
<1>5. MainReached' => MainReached
  <2> SUFFICES ASSUME MainReached' PROVE MainReached
    OBVIOUS
  <2>1. PICK x \in DOMAIN file : file[x].k = "func" /\ file[x].name = "main" /\ Reached(x, 0)'
    BY DEF MainReached
  <2>2. x \in Nat /\ i # 0
    BY FilesHave, InFunction DEF NamesInv, Generating
  <2>3. Reached(x, 0)
    BY <1>3, <2>1, <2>2
  <2> QED
    BY <2>1, <2>3 DEF MainReached
<1> QED
  BY <1>0, <1>1, <1>2, <1>4, <1>5 DEF Quiet


-----------------------------------------------------------------------------
(* The slot of what is moved. *)
LEMMA MoveUses ==
  ASSUME NEW x, NEW p, Moves(x, p)
  PROVE  UseAt(Body(x), p)
BY DEF Moves, Wrote, UseAt

HasSlot(e) ==
  LET b == Body(file[e.fn])
      l == Count(b, FindsAt(e))
  IN  /\ FindsAt(e) \in 1 .. Len(b) /\ b[FindsAt(e)].k = "decl"
      /\ l \in DOMAIN locals /\ e.mem = InFrame(locals[l].offset)
      /\ e.mem.pos = locals[l].offset /\ e.len = locals[l].size

(* A move between a register and a local variable has the slot of what it  *)
(* finds.                                                                  *)
LEMMA SlotOf ==
  ASSUME NamesInv, FileAgrees, d \in DOMAIN file, file[d].k = "func",
         NEW c, Entered(Body(Decl), Len(Body(Decl)), c, locals),
         NEW e, FrameMove(e), e.fn = d, FrameFits(e, Body(file[e.fn])), AtSlot(e)
  PROVE  HasSlot(e)
<1> DEFINE b == Body(file[e.fn])
           q == FindsAt(e)
           l == Count(b, q)
<1>1. d \in DOMAIN file /\ file[d].k = "func" /\ Decl = file[d]
  BY DEF Decl
<1>2. Agrees(file[e.fn]) /\ b = Body(Decl)
  BY <1>1 DEF FileAgrees, FuncAgrees
<1>3. Entered(b, Len(b), c, locals)
  BY <1>2
<1>4. UseAt(b, e.at) /\ AutoAt(b, e.at)
  BY MoveUses DEF FrameMove
<1>5. q \in LocalsOf(b, b[e.at].name) /\ b[q].size = b[Means(b, e.at)].size
  BY <1>2, <1>4, AutoFinds DEF FindsAt
<1>6. q \in 1 .. Len(b) /\ b[q].k = "decl"
  BY <1>5 DEF LocalsOf
<1>7. l \in 1 .. Len(locals) /\ locals[l].size = b[q].size
  BY <1>3, <1>6 DEF Entered
<1>8. l \in DOMAIN locals
  BY <1>7 DEF NamesInv, TypeOK
<1>9. e.len = locals[l].size
  BY <1>5, <1>7 DEF FrameFits
<1>10. e.mem = InFrame(locals[l].offset) /\ e.mem.pos = locals[l].offset
  BY DEF AtSlot, InFrame
<1> QED
  BY <1>6, <1>8, <1>9, <1>10 DEF HasSlot

(* Two slots are one or stand apart. *)
LEMMA SlotsApart ==
  ASSUME NamesInv, file \in Files, NEW e, NEW h, HasSlot(e), HasSlot(h), e.fn = h.fn
  PROVE  IF FindsAt(e) = FindsAt(h) THEN e.mem = h.mem ELSE Apart(e, h)
<1> DEFINE b == Body(file[e.fn])
           q == FindsAt(e)
           r == FindsAt(h)
           k == Count(b, q)
           l == Count(b, r)
<1>1. /\ q \in 1 .. Len(b) /\ b[q].k = "decl" /\ r \in 1 .. Len(b) /\ b[r].k = "decl"
      /\ k \in DOMAIN locals /\ l \in DOMAIN locals
      /\ e.mem.pos = locals[k].offset /\ e.len = locals[k].size
      /\ h.mem.pos = locals[l].offset /\ h.len = locals[l].size
  BY DEF HasSlot
<1>2. CASE q = r
  BY <1>2 DEF HasSlot
<1>3. CASE q # r
  <2>1. q \in Nat /\ r \in Nat
    BY <1>1
  <2>2. q < r => k < l
    BY <1>1, <2>1, CountGrows
  <2>3. r < q => l < k
    BY <1>1, <2>1, CountGrows
  <2>4. locals \in Seq(Locals) /\ DOMAIN locals = 1 .. Len(locals) /\ Len(locals) \in Nat
    BY DEF NamesInv, TypeOK
  <2>5. /\ locals[k].offset \in Int /\ locals[k].size \in Nat
        /\ locals[l].offset \in Int /\ locals[l].size \in Nat
    BY <1>1, <2>4, LocalFacts
  <2>6. k \in Nat /\ l \in Nat
    BY <1>1, <2>4
  <2>7. ASSUME NEW x \in DOMAIN locals, NEW y \in DOMAIN locals, x < y
        PROVE  locals[y].offset + locals[y].size <= locals[x].offset
    <3>1. x \in 1 .. y - 1
      BY <2>4, <2>7
    <3> QED
      BY <3>1 DEF NamesInv, SlotsDisjoint
  <2>8. k < l => h.mem.pos + h.len <= e.mem.pos
    BY <1>1, <2>7
  <2>9. l < k => e.mem.pos + e.len <= h.mem.pos
    BY <1>1, <2>7
  <2>10. q < r \/ r < q
    BY <1>3, <2>1
  <2> QED
    BY <1>3, <2>2, <2>3, <2>8, <2>9, <2>10 DEF Apart
<1> QED
  BY <1>2, <1>3


-----------------------------------------------------------------------------
(* A step that emits something, in the prologue or for an item. *)
NewMove(e) == /\ e \in Emitted /\ Fits(e)' /\ Behind(e)'
              /\ FrameMove(e) => e.fn = d /\ AtSlot(e)
Extends ==
  /\ code' \in Seq(Emitted)
  /\ \A x \in DOMAIN code : x \in DOMAIN code' /\ code'[x] = code[x]
  /\ \A x \in DOMAIN code' : \A e : x \notin DOMAIN code /\ e = code'[x] => NewMove(e)
  /\ \A x, y \in DOMAIN code' : y \notin DOMAIN code /\ x < y => Follows(code'[x], code'[y])
  /\ \A f, p \in Nat : Reached(f, p) => Reached(f, p)'
  /\ MainReached' => MainReached \/ \A v \in Initialised : InitMade(v)'
  /\ Len(syms') < MaxSyms =>
       \A f \in DOMAIN file, p \in Nat :
         file[f].k = "func" /\ Moves(file[f], p) /\ Reached(f, p)'
           => Reached(f, p) \/ MoveMade(f, p)'

(* Such a step keeps everything as it should be. *)
LEMMA MovesExtended ==
  ASSUME NamesInv, FileAgrees, Next, AllFit, Ordered, Complete, SlotsFit,
         code \in Seq(Emitted), file' = file, d' = d, locals' = locals,
         d \in DOMAIN file, file[d].k = "func",
         NEW c, Entered(Body(Decl), Len(Body(Decl)), c, locals),
         \A x \in DOMAIN code : FrameMove(code[x]) /\ code[x].fn = d => AtSlot(code[x]),
         Extends
  PROVE  AllFit' /\ Ordered' /\ Complete' /\ SlotsFit'
<1>1. /\ code' \in Seq(Emitted)
      /\ \A x \in DOMAIN code : x \in DOMAIN code' /\ code'[x] = code[x]
      /\ Initialised' = Initialised
      /\ DOMAIN code = 1 .. Len(code) /\ DOMAIN code' = 1 .. Len(code')
      /\ Len(code) \in Nat /\ Len(code') \in Nat
  BY DEF Extends, Initialised
<1>2. MainReached => MainReached'
  <2> SUFFICES ASSUME MainReached PROVE MainReached'
    OBVIOUS
  <2>1. PICK x \in DOMAIN file : file[x].k = "func" /\ file[x].name = "main" /\ Reached(x, 0)
    BY DEF MainReached
  <2>2. x \in Nat
    BY <2>1, FilesHave DEF NamesInv
  <2>3. Reached(x, 0)'
    BY <2>1, <2>2 DEF Extends
  <2> QED
    BY <2>1, <2>3 DEF MainReached
<1>3. ASSUME NEW x \in DOMAIN code', NEW e, e = code'[x]
      PROVE  e \in Emitted /\ Fits(e)' /\ Behind(e)'
  <2>1. CASE x \in DOMAIN code
    <3>1. e = code[x] /\ e \in Emitted
      BY <1>1, <1>3, <2>1
    <3>2. Fits(e) /\ Behind(e)
      BY <2>1, <3>1 DEF AllFit
    <3>3. Fits(e)'
      BY <3>2, FitsStay
    <3>4. e.fn \in Nat /\ (e.at > 0 => e.at \in Nat)
      BY <3>1 DEF Emitted
    <3>5. e.at > 0 => Reached(e.fn, e.at)'
      BY <3>2, <3>4 DEF Behind, Extends
    <3>6. e.at = 0 => MainReached'
      BY <1>2, <3>2 DEF Behind
    <3> QED
      BY <3>1, <3>3, <3>5, <3>6 DEF Behind
  <2>2. CASE x \notin DOMAIN code
    BY <1>3, <2>2 DEF Extends, NewMove
  <2> QED
    BY <2>1, <2>2
<1>4. AllFit'
  <2>1. ASSUME NEW x \in DOMAIN code'
        PROVE  Fits(code[x])' /\ Behind(code[x])'
    <3>1. PICK e : e = code'[x]
      OBVIOUS
    <3>2. Fits(e)' /\ Behind(e)'
      BY <1>3, <3>1
    <3> QED
      BY <3>1, <3>2 DEF Fits, Behind, InitFits, ItemFits, SymbolFits, FrameFits, Guard
  <2> QED
    BY <2>1 DEF AllFit
<1>5. Ordered'
  <2>1. ASSUME NEW x \in DOMAIN code', NEW y \in DOMAIN code', x < y
        PROVE  Follows(code'[x], code'[y])
    <3>1. CASE y \in DOMAIN code
      <4>1. x \in DOMAIN code
        BY <1>1, <2>1, <3>1
      <4> QED
        BY <1>1, <2>1, <3>1, <4>1 DEF Ordered
    <3>2. CASE y \notin DOMAIN code
      BY <2>1, <3>2 DEF Extends
    <3> QED
      BY <3>1, <3>2
  <2> QED
    BY <2>1 DEF Ordered, Follows
<1>6. Complete'
  <2>1. ASSUME NEW v \in Initialised, InitMade(v)
        PROVE  InitMade(v)'
    BY <1>1, <2>1 DEF InitMade
  <2>2. MainReached' => \A v \in Initialised' : InitMade(v)'
    BY <1>1, <2>1 DEF Complete, Extends
  <2>3. ASSUME Len(syms') < MaxSyms, NEW f \in DOMAIN file, NEW p \in Nat,
               file[f].k = "func", Moves(file[f], p), Reached(f, p)'
        PROVE  MoveMade(f, p)'
    <3>1. CASE Reached(f, p)
      <4>1. Len(syms) < MaxSyms
        <5>1. MaxSyms \in Nat
          BY NamesLimits
        <5> QED
          BY <2>3, <5>1, LongerTable
      <4>2. MoveMade(f, p)
        BY <2>3, <3>1, <4>1 DEF Complete
      <4> QED
        BY <1>1, <4>2 DEF MoveMade, MoveOf
    <3>2. CASE ~Reached(f, p)
      BY <2>3, <3>2 DEF Extends
    <3> QED
      BY <3>1, <3>2
  <2> QED
    BY <2>2, <2>3 DEF Complete
<1>7. ASSUME NEW x \in DOMAIN code', NEW e, e = code'[x], FrameMove(e), e.fn = d
      PROVE  AtSlot(e) /\ HasSlot(e)
  <2>1. AtSlot(e)
    <3>1. CASE x \in DOMAIN code
      BY <1>1, <1>7, <3>1
    <3>2. CASE x \notin DOMAIN code
      BY <1>7, <3>2 DEF Extends, NewMove
    <3> QED
      BY <3>1, <3>2
  <2>2. FrameFits(e, Body(file[e.fn]))
    <3>1. Fits(e)' /\ e.at > 0
      BY <1>3, <1>7 DEF FrameMove
    <3>2. ItemFits(e)'
      BY <3>1 DEF Fits
    <3> QED
      BY <1>7, <3>2 DEF ItemFits, FrameMove, FrameFits
  <2> QED
    BY <1>7, <2>1, <2>2, SlotOf
<1>8. SlotsFit'
  <2>1. ASSUME NEW x \in DOMAIN code', NEW y \in DOMAIN code', NEW e, e = code'[x],
               NEW h, h = code'[y], FrameMove(e), FrameMove(h), e.fn = h.fn
        PROVE  IF FindsAt(e) = FindsAt(h) THEN e.mem = h.mem ELSE Apart(e, h)
    <3>1. CASE e.fn = d
      <4>1. HasSlot(e) /\ HasSlot(h)
        BY <1>7, <2>1, <3>1
      <4> QED
        BY <2>1, <4>1, SlotsApart DEF NamesInv
    <3>2. CASE e.fn # d
      <4>1. x \in DOMAIN code /\ y \in DOMAIN code
        BY <2>1, <3>2 DEF Extends, NewMove
      <4>2. e = code[x] /\ h = code[y]
        BY <1>1, <2>1, <4>1
      <4> QED
        BY <2>1, <4>1, <4>2 DEF SlotsFit, Slotted
    <3> QED
      BY <3>1, <3>2
  <2>2. \A x, y \in DOMAIN code' : Slotted(code[x], code[y])'
    BY <2>1 DEF Slotted, FrameMove, FindsAt, Apart
  <2>3. ASSUME NEW x \in DOMAIN code', FrameMove(code[x])', code'[x].fn = d'
        PROVE  AtSlot(code[x])'
    <3>1. PICK e : e = code'[x]
      OBVIOUS
    <3>2. FrameMove(e) /\ e.fn = d
      BY <2>3, <3>1 DEF FrameMove
    <3>3. AtSlot(e)
      BY <1>7, <3>1, <3>2
    <3> QED
      BY <3>1, <3>3 DEF AtSlot, FindsAt
  <2> QED
    BY <2>2, <2>3 DEF SlotsFit
<1> QED
  BY <1>4, <1>5, <1>6, <1>8


(* An instruction for an item. *)
LEMMA GenExtends ==
  ASSUME NamesInv, ScopeInv, FileAgrees, Next, AllFit, code \in Seq(Emitted), Generating,
         phase' = "generate", d' = d, i' = i + 1, locals' = locals, file' = file,
         NEW e, GenMove(e), code' = Append(code, e)
  PROVE  Extends
<1> DEFINE n == Len(code) + 1
           np == Len(Decl.params) + 1
<1>0. /\ d \in DOMAIN file /\ file[d].k = "func" /\ Decl = file[d] /\ d \in Nat
      /\ i \in 1 .. Len(Body(Decl)) /\ i \in Nat /\ Item = Body(Decl)[i]
      /\ phase = "generate" /\ Decl' = Decl /\ np \in Nat /\ i > 0
  <2>1. Len(Decl.params) \in Nat
    BY GenLookup, BodyFacts DEF Agrees
  <2> QED
    <3>1. d \in DOMAIN file /\ file[d].k = "func" /\ Decl = file[d]
          /\ i \in 1 .. Len(Body(Decl)) /\ i \in Nat /\ Item = Body(Decl)[i]
      BY GenLookup
    <3>2. d \in Nat
      BY DEF NamesInv, TypeOK
    <3>3. phase = "generate" /\ Decl' = Decl
      BY DEF Generating, Decl
    <3>4. i > 0
      BY <3>1
    <3> QED
      BY <2>1, <3>1, <3>2, <3>3, <3>4
<1>1. e \in Emitted /\ e.fn = d /\ e.at = i /\ e.at > 0 /\ i > np
  BY <1>0 DEF GenMove
<1>2. /\ code' \in Seq(Emitted)
      /\ \A x \in DOMAIN code : x \in DOMAIN code' /\ code'[x] = code[x] /\ x < n
      /\ \A x \in DOMAIN code' : x \in DOMAIN code \/ x = n
      /\ code'[n] = e /\ n \in DOMAIN code' /\ n \notin DOMAIN code
  BY <1>1
<1> HIDE DEF n
<1>3. Fits(e)'
  <2>1. e.op = "store" => Wrote(file[e.fn], e.at)
    BY <1>0, <1>1 DEF GenMove
  <2>2. Moves(file[e.fn], e.at) =>
          IF AutoAt(Body(file[e.fn]), e.at) THEN FrameFits(e, Body(file[e.fn]))
          ELSE SymbolFits(e, Body(file[e.fn])[e.at].name)'
    <3> SUFFICES ASSUME Moves(file[e.fn], e.at), ~AutoAt(Body(file[e.fn]), e.at)
                 PROVE  SymbolFits(e, Body(file[e.fn])[e.at].name)'
      BY <1>0, <1>1 DEF GenMove
    <3>1. PICK m : m = Body(file[e.fn])[e.at].name
      OBVIOUS
    <3>2. SymbolFits(e, m)'
      BY <1>0, <1>1, <3>1 DEF GenMove
    <3> QED
      BY <3>1, <3>2 DEF SymbolFits
  <2>3. ItemFits(e)'
    BY <1>0, <1>1, <2>1, <2>2 DEF ItemFits, FrameFits
  <2> QED
    BY <1>0, <1>1, <2>3 DEF Fits
<1>4. \A f, p : f = d /\ p = i => Reached(f, p)'
  BY <1>0 DEF Reached
<1>5. Behind(e)'
  <2>1. Reached(e.fn, e.at)'
    BY <1>1, <1>4
  <2> QED
    BY <1>0, <1>1, <2>1 DEF Behind
<1>6. FrameMove(e) => AtSlot(e)
  BY <1>0, <1>1 DEF FrameMove, GenMove
<1>7. NewMove(e)
  BY <1>1, <1>3, <1>5, <1>6 DEF NewMove
<1>8. ASSUME NEW h \in Emitted, Behind(h)
      PROVE  Follows(h, e)
  <2>1. h.at > 0 => h.fn < d \/ (h.fn = d /\ (h.at < i \/ h.at <= np))
    BY <1>8 DEF Behind, Reached
  <2>2. h.at \in Int /\ h.fn \in Nat
    BY DEF Emitted
  <2>3. h.at > 0 => Before(<<h.fn, h.at>>, <<e.fn, e.at>>)
    <3> HIDE DEF np
    <3> QED
      BY <1>0, <1>1, <2>1, <2>2 DEF Before
  <2> QED
    BY <1>1, <2>3 DEF Follows
<1>9. \A x, y \in DOMAIN code' : y \notin DOMAIN code /\ x < y => Follows(code'[x], code'[y])
  <2> SUFFICES ASSUME NEW x \in DOMAIN code', x < n PROVE Follows(code'[x], e)
    BY <1>2
  <2>1. x \in DOMAIN code
    BY <1>2
  <2>2. PICK h : h = code[x]
    OBVIOUS
  <2>3. h \in Emitted /\ Behind(h)
    BY <2>1, <2>2 DEF AllFit
  <2> QED
    BY <1>2, <1>8, <2>1, <2>2, <2>3
<1>10. \A f, p \in Nat : Reached(f, p) => Reached(f, p)'
  BY <1>0 DEF Reached
<1>11. \A f, p \in Nat : Reached(f, p)' => Reached(f, p) \/ (f = d /\ p = i)
  BY <1>0 DEF Reached
<1>12. MainReached' => MainReached
  <2> SUFFICES ASSUME MainReached' PROVE MainReached
    OBVIOUS
  <2>1. PICK x \in DOMAIN file : file[x].k = "func" /\ file[x].name = "main" /\ Reached(x, 0)'
    BY DEF MainReached
  <2>2. x \in Nat /\ i # 0
    BY <1>0, FilesHave DEF NamesInv
  <2>3. Reached(x, 0)
    BY <1>11, <2>1, <2>2
  <2> QED
    BY <2>1, <2>3 DEF MainReached
<1>13. ASSUME NEW f \in DOMAIN file, NEW p \in Nat, file[f].k = "func",
              Moves(file[f], p), Reached(f, p)', ~Reached(f, p)
       PROVE  MoveMade(f, p)'
  <2>1. f \in Nat
    BY FilesHave DEF NamesInv
  <2>2. f = d /\ p = i
    BY <1>11, <1>13, <2>1
  <2>3. MoveOf(e, f, p)
    BY <1>0, <1>13, <2>2 DEF GenMove
  <2> QED
    BY <1>2, <2>3 DEF MoveMade, MoveOf
<1> QED
  BY <1>1, <1>2, <1>7, <1>9, <1>10, <1>12, <1>13 DEF Extends

(* The second pass. *)
LEMMA MovesGenerate ==
  ASSUME NamesInv, ScopeInv, FileAgrees, SizesHeld, code \in Seq(Emitted), Next,
         AllFit, Ordered, Complete, SlotsFit, phase' # "exited",
         \/ GenOpen \/ GenClose \/ GenDecl \/ GenUse \/ GenCall \/ GenReturn
         \/ GenVa \/ GenOther
  PROVE  AllFit' /\ Ordered' /\ Complete' /\ SlotsFit'
<1>1. /\ GenSays /\ Generating
      /\ phase' = "generate" /\ d' = d /\ i' = i + 1 /\ locals' = locals /\ file' = file
  BY GenEmits
<1>2. CASE code' = code /\ (Moves(Decl, i) /\ i > Len(Decl.params) + 1 => Len(syms) >= MaxSyms)
  <2>1. Quiet
    BY <1>1, <1>2, MovesUnemitted
  <2> QED
    BY <2>1, MovesQuiet
<1>3. CASE \E e : GenMove(e) /\ code' = Append(code, e)
  <2>1. PICK e : GenMove(e) /\ code' = Append(code, e)
    BY <1>3
  <2>2. Extends
    BY <1>1, <2>1, GenExtends
  <2>3. d \in DOMAIN file /\ file[d].k = "func" /\ phase = "generate"
    BY <1>1, GenLookup DEF Generating
  <2>4. PICK c : Entered(Body(Decl), Len(Body(Decl)), c, locals)
    BY <2>3 DEF ScopeInv, Passed
  <2>5. \A x \in DOMAIN code : FrameMove(code[x]) /\ code[x].fn = d => AtSlot(code[x])
    BY <2>3 DEF SlotsFit
  <2> QED
    BY <1>1, <2>2, <2>3, <2>4, <2>5, MovesExtended
<1> QED
  BY <1>1, <1>2, <1>3 DEF GenSays

-----------------------------------------------------------------------------
(* Sequences of instructions in order, and one behind the other. *)
Sorted(s) == \A x, y \in DOMAIN s : x < y => Follows(s[x], s[y])

(* Two ordered sequences joined are ordered, if all of the one comes       *)
(* before all of the other.                                                *)
LEMMA SortedJoined ==
  ASSUME NEW T, NEW s \in Seq(T), NEW U, NEW t \in Seq(U), Sorted(s), Sorted(t),
         \A e \in T : \A h \in U : Follows(e, h)
  PROVE  Sorted(s \o t)
<1>1. /\ Len(s) \in Nat /\ Len(t) \in Nat /\ DOMAIN s = 1 .. Len(s) /\ DOMAIN t = 1 .. Len(t)
      /\ \A x \in DOMAIN s : s[x] \in T
      /\ \A y \in DOMAIN t : t[y] \in U
  OBVIOUS
<1>2. s \in Seq(T \cup U) /\ t \in Seq(T \cup U)
  <2> DEFINE V == T \cup U
  <2>1. T \subseteq V /\ U \subseteq V
    OBVIOUS
  <2> HIDE DEF V
  <2>2. s \in Seq(V) /\ t \in Seq(V)
    BY <2>1
  <2> QED
    BY <2>2 DEF V
<1>3. ASSUME NEW x \in DOMAIN (s \o t)
      PROVE  \/ x \in DOMAIN s /\ (s \o t)[x] = s[x]
             \/ \E y \in DOMAIN t : x = Len(s) + y /\ (s \o t)[x] = t[y]
  BY <1>2, JoinedFrom
<1> SUFFICES ASSUME NEW x \in DOMAIN (s \o t), NEW z \in DOMAIN (s \o t), x < z
             PROVE  Follows((s \o t)[x], (s \o t)[z])
  BY DEF Sorted
<1>4. CASE x \in DOMAIN s /\ (s \o t)[x] = s[x]
  <2>1. CASE z \in DOMAIN s /\ (s \o t)[z] = s[z]
    BY <1>4, <2>1 DEF Sorted
  <2>2. CASE \E y \in DOMAIN t : z = Len(s) + y /\ (s \o t)[z] = t[y]
    BY <1>1, <1>4, <2>2
  <2> QED
    BY <1>3, <2>1, <2>2
<1>5. CASE \E y \in DOMAIN t : x = Len(s) + y /\ (s \o t)[x] = t[y]
  <2>1. PICK u \in DOMAIN t : x = Len(s) + u /\ (s \o t)[x] = t[u]
    BY <1>5
  <2>2. u \in Nat /\ u >= 1
    BY <1>1
  <2>3. ~(z \in DOMAIN s)
    BY <1>1, <2>1, <2>2
  <2>4. PICK y \in DOMAIN t : z = Len(s) + y /\ (s \o t)[z] = t[y]
    BY <1>3, <2>3
  <2>5. u < y
    BY <1>1, <2>1, <2>2, <2>4
  <2> QED
    BY <2>1, <2>4, <2>5 DEF Sorted
<1> QED
  BY <1>3, <1>4, <1>5

(* The initialisers of main's file are in order, and all there. *)
LEMMA InitStoresAre ==
  ASSUME file \in Files
  PROVE  /\ Len(file) \in Nat
         /\ \A v \in 0 .. Len(file) : InitStores[v] = InitsAt(InitStores, v)
<1> DEFINE N == Len(file)
           f == InitStores
<1>1. N \in Nat
  BY FilesHave
<1>2. \E g : g = [v \in 0 .. N |-> InitsAt(g, v)]
  BY <1>1, InitsExist, Zenon
<1>3. f = [v \in 0 .. N |-> InitsAt(f, v)]
  BY <1>2 DEF InitStores, InitsAt
<1> HIDE DEF N, f
<1>6. \A v \in 0 .. N : f[v] = InitsAt(f, v)
  <2> SUFFICES ASSUME NEW v \in 0 .. N PROVE f[v] = InitsAt(f, v)
    OBVIOUS
  <2> DEFINE g == f
  <2>1. f = [w \in 0 .. N |-> InitsAt(g, w)]
    BY <1>3
  <2> HIDE DEF g
  <2>2. f[v] = InitsAt(g, v)
    BY <2>1
  <2> QED
    BY <2>2 DEF g
<1> QED
  BY <1>1, <1>6 DEF N, f

Zeros(v) == {e \in Emitted : e.at = 0 /\ InitFits(e) /\ e.fn <= v}
AllInits(s, v) ==
  /\ s \in Seq(Zeros(v)) /\ Sorted(s)
  /\ \A w \in Initialised : w <= v => \E x \in DOMAIN s : s[x].fn = w

(* The initialiser of one variable. *)
LEMMA OneInit ==
  ASSUME syms \in Seq(Symbols), VarsNamed, file \in Files, NEW v \in Initialised
  PROVE  \E e : InitStore(v) = <<e>> /\ e \in Zeros(v) /\ e.fn = v
<1> DEFINE n == file[v].name
           e == Ins("store", v, 0, InSymbol(SymbolOf(n)), IF file[v].size = 8 THEN 8 ELSE 4)
<1>1. InitStore(v) = <<e>>
  BY DEF InitStore
<1>2. SymbolOf(n) \in Nat /\ v \in Nat
  BY SymbolOfNat, FilesHave DEF Initialised
<1>3. e \in Emitted /\ e.at = 0 /\ e.fn = v /\ e.op = "store"
      /\ e.mem = InSymbol(SymbolOf(n)) /\ e.len = IF file[v].size = 8 THEN 8 ELSE 4
  BY <1>2 DEF Ins, InSymbol, Emitted
<1> HIDE DEF e
<1>4. InitFits(e)
  BY <1>3 DEF InitFits, VarsNamed
<1>5. e \in Zeros(v)
  BY <1>2, <1>3, <1>4 DEF Zeros
<1> QED
  BY <1>1, <1>3, <1>5

(* By induction over the variables of the file. *)
LEMMA InitsSorted ==
  ASSUME syms \in Seq(Symbols), VarsNamed, file \in Files
  PROVE  AllInits(InitStores[Len(file)], Len(file))
<1> DEFINE N == Len(file)
           S == {v \in 0 .. N : AllInits(InitStores[v], v)}
<1>1. N \in Nat /\ \A v \in 0 .. N : InitStores[v] = InitsAt(InitStores, v)
  BY InitStoresAre
<1>2. \A v \in Initialised : v \in 1 .. N
  BY FilesHave DEF Initialised
<1>3. 0 \in S
  <2>1. InitStores[0] = <<>>
    BY <1>1 DEF InitsAt
  <2>2. AllInits(<<>>, 0)
    BY <1>2 DEF AllInits, Sorted
  <2> QED
    BY <1>1, <2>1, <2>2
<1>4. ASSUME NEW u \in 0 .. N - 1, u \in S
      PROVE  u + 1 \in S
  <2> DEFINE v == u + 1
             s == InitStores[u]
  <2>1. v \in 0 .. N /\ v # 0 /\ v - 1 = u /\ u \in Nat /\ v \in Nat
    BY <1>1
  <2>2. InitStores[v] = s \o InitStore(v)
    <3>1. InitStores[v] = InitsAt(InitStores, v)
      BY <1>1, <2>1
    <3> QED
      BY <2>1, <3>1 DEF InitsAt
  <2>3. AllInits(s, u)
    BY <1>4
  <2> HIDE DEF s
  <2>4. Zeros(u) \subseteq Zeros(v)
    BY <2>1 DEF Zeros, Emitted
  <2>5. s \in Seq(Zeros(v)) /\ Len(s) \in Nat
    BY <2>3, <2>4 DEF AllInits
  <2>6. CASE v \notin Initialised
    <3>1. InitStores[v] = s
      BY <2>2, <2>5, <2>6 DEF InitStore
    <3>2. \A w \in Initialised : w <= v => w <= u
      BY <1>2, <2>1, <2>6
    <3>3. AllInits(s, v)
      BY <2>3, <2>5, <3>2 DEF AllInits
    <3> QED
      BY <2>1, <3>1, <3>3
  <2>7. CASE v \in Initialised
    <3>1. PICK e : InitStore(v) = <<e>> /\ e \in Zeros(v) /\ e.fn = v
      BY <2>7, OneInit
    <3>2. <<e>> \in Seq({e}) /\ Sorted(<<e>>)
      BY DEF Sorted
    <3>3. \A g \in Zeros(u) : \A h \in {e} : Follows(g, h)
      BY <2>1, <3>1 DEF Zeros, Follows, Emitted
    <3>4. s \in Seq(Zeros(u)) /\ Sorted(s)
      BY <2>3 DEF AllInits
    <3>5. Sorted(s \o <<e>>)
      <4> DEFINE T == Zeros(u)
                 U == {e}
                 t == <<e>>
      <4>1. s \in Seq(T) /\ t \in Seq(U) /\ Sorted(s) /\ Sorted(t)
        BY <3>2, <3>4
      <4>2. \A g \in T : \A h \in U : Follows(g, h)
        BY <3>3
      <4> HIDE DEF T, U, t
      <4>3. Sorted(s \o t)
        BY <4>1, <4>2, SortedJoined
      <4> QED
        BY <4>3 DEF t
    <3>6. s \o <<e>> \in Seq(Zeros(v))
      BY <2>5, <3>1
    <3>7. /\ \A x \in DOMAIN s : x \in DOMAIN (s \o <<e>>) /\ (s \o <<e>>)[x] = s[x]
          /\ Len(s) + 1 \in DOMAIN (s \o <<e>>) /\ (s \o <<e>>)[Len(s) + 1] = e
      BY <2>5, <3>1
    <3>8. ASSUME NEW w \in Initialised, w <= v
          PROVE  \E x \in DOMAIN (s \o <<e>>) : (s \o <<e>>)[x].fn = w
      <4>1. CASE w = v
        BY <3>1, <3>7, <4>1
      <4>2. CASE w # v
        <5>1. w <= u
          BY <1>2, <2>1, <3>8, <4>2
        <5>2. PICK x \in DOMAIN s : s[x].fn = w
          BY <2>3, <5>1 DEF AllInits
        <5> QED
          BY <3>7, <5>2
      <4> QED
        BY <4>1, <4>2
    <3>9. AllInits(InitStores[v], v)
      BY <2>2, <3>1, <3>5, <3>6, <3>8 DEF AllInits
    <3> QED
      BY <2>1, <3>9
  <2> QED
    BY <2>6, <2>7
<1>5. \A v \in 0 .. N : v \in S
  <2>1. \A u \in 0 .. N - 1 : u \in S => u + 1 \in S
    BY <1>4
  <2> HIDE DEF S
  <2> QED
    BY <1>1, <1>3, <2>1, Onward
<1> QED
  BY <1>1, <1>5


-----------------------------------------------------------------------------
(* What is joined keeps the one part and has the other behind it. *)
Joins(s, t, u) ==
  /\ \A x \in DOMAIN s : x \in DOMAIN u /\ u[x] = s[x]
  /\ \A y \in DOMAIN t : \E x \in DOMAIN u : u[x] = t[y]
  /\ \A x \in DOMAIN u : x \in DOMAIN s \/ \E y \in DOMAIN t : u[x] = t[y]

(* The same for what is joined, and where its elements come from. *)
LEMMA PutBehind ==
  ASSUME NEW T, NEW s \in Seq(T), NEW U, NEW t \in Seq(U), Sorted(s), Sorted(t),
         \A e \in T : \A h \in U : Follows(e, h)
  PROVE  s \o t \in Seq(T \cup U) /\ Sorted(s \o t) /\ Joins(s, t, s \o t)
<1>1. Sorted(s \o t)
  BY SortedJoined
<1> DEFINE V == T \cup U
<1>2. s \in Seq(V) /\ t \in Seq(V)
  <2>1. T \subseteq V /\ U \subseteq V
    OBVIOUS
  <2> HIDE DEF V
  <2> QED
    BY <2>1
<1> HIDE DEF V
<1>3. /\ s \o t \in Seq(V) /\ Len(s \o t) = Len(s) + Len(t)
      /\ DOMAIN s = 1 .. Len(s) /\ DOMAIN t = 1 .. Len(t)
      /\ DOMAIN (s \o t) = 1 .. Len(s \o t) /\ Len(s) \in Nat /\ Len(t) \in Nat
  BY <1>2
<1>4. ASSUME NEW x \in DOMAIN s
      PROVE  x \in DOMAIN (s \o t) /\ (s \o t)[x] = s[x]
  BY <1>2, <1>3, JoinedFront
<1>5. ASSUME NEW y \in DOMAIN t
      PROVE  \E x \in DOMAIN (s \o t) : (s \o t)[x] = t[y]
  <2>1. (s \o t)[Len(s) + y] = t[y]
    BY <1>2, <1>3, JoinedBehind
  <2>2. Len(s) + y \in DOMAIN (s \o t)
    BY <1>3
  <2> QED
    BY <2>1, <2>2
<1>6. ASSUME NEW x \in DOMAIN (s \o t)
      PROVE  x \in DOMAIN s \/ \E y \in DOMAIN t : (s \o t)[x] = t[y]
  BY <1>2, JoinedFrom
<1> QED
  BY <1>1, <1>3, <1>4, <1>5, <1>6 DEF Joins, V

(* A parameter is moved to its own slot. *)
LEMMA FirstOfName ==
  ASSUME NEW x, Agrees(x), NEW b, b = Body(x), NEW c, locals \in Seq(Locals),
         Entered(b, Len(b), c, locals), NEW p \in DOMAIN x.params
  PROVE  /\ b[p + 1].k = "decl" /\ b[p + 1].name = x.params[p].name
         /\ p + 1 \in 1 .. Len(b) /\ p + 1 \in 2 .. Len(x.params) + 1
         /\ FirstLocal(x.params[p].name) = Count(b, p + 1)
<1> DEFINE n == x.params[p].name
           q == p + 1
           L == {l \in DOMAIN locals : locals[l].name = n}
           k == Count(b, q)
<1>1. /\ b \in Seq(Items) /\ Len(b) \in Nat /\ x \in FuncDecls
      /\ DOMAIN x.params = 1 .. Len(x.params) /\ Len(x.params) \in Nat
      /\ \A y \in DOMAIN x.params :
           y + 1 \in 1 .. Len(b) /\ b[y + 1] = Param(x.params[y])
  BY BodyFacts DEF Agrees
<1>2. q \in 1 .. Len(b) /\ q \in 2 .. Len(x.params) + 1 /\ q \in Nat /\ b[q] = Param(x.params[p])
  BY <1>1
<1>3. b[q].k = "decl" /\ b[q].name = n
  BY <1>2 DEF Param
<1>4. k \in DOMAIN locals /\ locals[k].name = n
  <2>1. k \in 1 .. Len(locals) /\ locals[k].name = n
    BY <1>2, <1>3 DEF Entered
  <2> QED
    BY <2>1
<1>5. k \in L /\ L \subseteq Nat
  BY <1>4
<1>6. ASSUME NEW l \in L
      PROVE  k <= l
  <2>1. l \in 1 .. Count(b, Len(b))
    BY DEF Entered
  <2>2. PICK r \in 1 .. Len(b) : b[r].k = "decl" /\ Count(b, r) = l
    BY <1>1, <2>1, Counted
  <2>3. b[r].name = n
    <3>1. locals[Count(b, r)].name = b[r].name
      BY <2>2 DEF Entered
    <3> QED
      BY <2>2, <3>1
  <2>4. r < q => FALSE
    <3> SUFFICES ASSUME r < q PROVE FALSE
      OBVIOUS
    <3>1. r # 1
      BY <1>1, <2>2, BodyFacts
    <3>2. r - 1 \in DOMAIN x.params /\ r - 1 + 1 = r /\ r - 1 # p
      BY <1>1, <1>2, <3>1
    <3>3. b[r] = Param(x.params[r - 1])
      BY <1>1, <3>2
    <3>4. x.params[r - 1].name = n
      BY <2>3, <3>3 DEF Param
    <3> QED
      BY <3>2, <3>4 DEF Agrees, Unambiguous
  <2>5. r = q \/ q < r
    BY <1>2, <2>4
  <2>6. q < r => k < Count(b, r)
    BY <1>2, <2>2, CountGrows
  <2>7. k \in Nat /\ l \in Nat
    BY <1>5
  <2> QED
    BY <2>2, <2>5, <2>6, <2>7
<1>7. FirstLocal(n) = k
  <2>1. FirstLocal(n) = MinOf(L)
    BY DEF FirstLocal
  <2> HIDE DEF L, k
  <2>2. MinOf(L) \in L /\ \A y \in L : MinOf(L) <= y
    BY <1>5, HasMin
  <2>3. MinOf(L) <= k /\ k <= MinOf(L) /\ k \in Nat /\ MinOf(L) \in Nat
    BY <1>5, <1>6, <2>2
  <2>4. MinOf(L) = k
    BY <2>3
  <2> QED
    BY <2>1, <2>4
<1> QED
  BY <1>2, <1>3, <1>7

(* A parameter means and finds itself. *)
LEMMA ParamFinds ==
  ASSUME file \in Files, FileAgrees, NEW f \in DOMAIN file, file[f].k = "func",
         NEW b, b = Body(file[f]), NEW p \in DOMAIN file[f].params
  PROVE  /\ Means(b, p + 1) = p + 1 /\ Finds(b, p + 1) = p + 1
         /\ AutoAt(b, p + 1) /\ Moves(file[f], p + 1) /\ Wrote(file[f], p + 1)
         /\ ParamWidth(b[p + 1].size) = b[p + 1].size
<1> DEFINE x == file[f]
           q == p + 1
           n == x.params[p].name
<1>1. FuncAgrees(x) /\ Agrees(x)
  BY DEF FileAgrees, FuncAgrees
<1>2. /\ b \in Seq(Items) /\ Len(b) \in Nat
      /\ DOMAIN x.params = 1 .. Len(x.params) /\ Len(x.params) \in Nat
      /\ \A y \in DOMAIN x.params :
           y + 1 \in 1 .. Len(b) /\ b[y + 1] = Param(x.params[y])
  BY <1>1, BodyFacts DEF Agrees
<1>3. q \in 1 .. Len(b) /\ q \in 2 .. Len(x.params) + 1 /\ q \in Nat /\ b[q] = Param(x.params[p])
      /\ q # 0
  BY <1>2
<1>4. b[q].k = "decl" /\ b[q].name = n
  BY <1>3 DEF Param
<1>5. Means(b, q) = q
  BY <1>2, <1>3, <1>4, LevelsNumbers, MeansItself
<1>6. AutoAt(b, q) /\ Moves(x, q) /\ Wrote(x, q)
  BY <1>3, <1>4, <1>5 DEF AutoAt, Moves, Wrote
<1>7. Clear(b, n)
  <2>1. ~(\A y \in DOMAIN x.params : x.params[y].name # b[q].name)
    BY <1>4
  <2>2. Clear(b, b[q].name)
    BY <1>1, <1>3, <1>4, <2>1 DEF Agrees, Unambiguous
  <2> QED
    BY <1>4, <2>2
<1>8. q \in UsesOf(b, n)
  BY <1>3, <1>4 DEF UsesOf
<1>9. Ways(b, q, n) = {}
  BY <1>7, <1>8 DEF Clear
<1>10. Finds(b, q) = q
  <2>1. Found(b, q, n) \in {DeclarationOf(b, q, n)} \cup Ways(b, q, n)
    BY <1>2, <1>3, <1>4, <1>5, FoundHas DEF Means
  <2> QED
    BY <1>4, <1>5, <1>9, <2>1 DEF Finds, Means
<1>11. ParamWidth(b[q].size) = b[q].size
  BY <1>1, <1>3, <1>5, <1>6 DEF FuncAgrees
<1> QED
  BY <1>5, <1>6, <1>10, <1>11


ParamMove(e) == /\ e \in Emitted /\ e.op = "store" /\ e.fn = d
                /\ e.at \in 2 .. Len(Decl.params) + 1
                /\ Fits(e) /\ FrameMove(e) /\ AtSlot(e)
ParamMoves == {e \in Emitted : ParamMove(e)}

(* The prologue stores every parameter in the slot of its declaration, *)
LEMMA ParamStored ==
  ASSUME NamesInv, FileAgrees, d \in DOMAIN file, file[d].k = "func",
         NEW c, Entered(Body(Decl), Len(Body(Decl)), c, locals), NEW p \in DOMAIN Decl.params
  PROVE  /\ SaveParams[p] \in ParamMoves /\ SaveParams[p].at = p + 1
<1> DEFINE b == Body(Decl)
           q == p + 1
           n == Decl.params[p].name
           l == locals[FirstLocal(n)]
           x == Ins("store", d, p + 1, InFrame(l.offset), ParamWidth(l.size))
<1>1. Decl = file[d] /\ Agrees(Decl) /\ d \in Nat /\ locals \in Seq(Locals) /\ file \in Files
  BY DEF FileAgrees, FuncAgrees, Decl, NamesInv, TypeOK
<1>2. /\ b[q].k = "decl" /\ b[q].name = n /\ q \in 1 .. Len(b)
      /\ q \in 2 .. Len(Decl.params) + 1 /\ FirstLocal(n) = Count(b, q)
  BY <1>1, FirstOfName
<1>3. /\ Means(b, q) = q /\ Finds(b, q) = q /\ AutoAt(b, q) /\ Moves(Decl, q)
      /\ Wrote(Decl, q) /\ ParamWidth(b[q].size) = b[q].size
  BY <1>1, ParamFinds
<1>4. Count(b, q) \in 1 .. Len(locals) /\ l.size = b[q].size
  BY <1>2 DEF Entered
<1>5. FirstLocal(n) \in DOMAIN locals
  BY <1>1, <1>2, <1>4
<1>6. l.offset \in Int /\ l.size \in Nat
  BY <1>1, <1>5, LocalFacts
<1>7. SaveParams[p] = x
  BY DEF SaveParams
<1>8. q \in Nat /\ q > 0
  BY <1>2
<1>9. x \in Emitted
  BY <1>1, <1>3, <1>4, <1>6, <1>8 DEF Ins, InFrame, Emitted
<1>10. /\ x.op = "store" /\ x.fn = d /\ x.at = q /\ x.mem = InFrame(l.offset)
       /\ x.mem.in = "frame" /\ x.len = b[q].size
  BY <1>3, <1>4 DEF Ins, InFrame
<1> HIDE DEF x
<1>11. FrameFits(x, b)
  BY <1>3, <1>10 DEF FrameFits
<1>12. ItemFits(x)
  BY <1>1, <1>2, <1>3, <1>10, <1>11 DEF ItemFits
<1>13. Fits(x)
  BY <1>8, <1>10, <1>12 DEF Fits
<1>14. FrameMove(x) /\ AtSlot(x)
  BY <1>1, <1>2, <1>3, <1>8, <1>10 DEF FrameMove, AtSlot, FindsAt
<1>15. ParamMove(x)
  BY <1>2, <1>9, <1>10, <1>13, <1>14 DEF ParamMove
<1> QED
  BY <1>7, <1>9, <1>10, <1>15 DEF ParamMoves

(* in the order of the parameters. *)
LEMMA ParamsSorted ==
  ASSUME NamesInv, FileAgrees, d \in DOMAIN file, file[d].k = "func",
         NEW c, Entered(Body(Decl), Len(Body(Decl)), c, locals)
  PROVE  /\ SaveParams \in Seq(ParamMoves) /\ Sorted(SaveParams)
         /\ DOMAIN SaveParams = DOMAIN Decl.params
         /\ DOMAIN Decl.params = 1 .. Len(Decl.params) /\ Len(Decl.params) \in Nat
<1>1. DOMAIN Decl.params = 1 .. Len(Decl.params) /\ Len(Decl.params) \in Nat
  <2>1. Decl \in FuncDecls
    BY DEF FileAgrees, FuncAgrees, Agrees, Decl
  <2> QED
    BY <2>1, BodyFacts
<1>2. \A p \in DOMAIN Decl.params : SaveParams[p] \in ParamMoves /\ SaveParams[p].at = p + 1
  BY ParamStored
<1>3. SaveParams = [p \in 1 .. Len(Decl.params) |-> SaveParams[p]]
  BY <1>1 DEF SaveParams
<1>4. DOMAIN SaveParams = DOMAIN Decl.params
  BY DEF SaveParams
<1> DEFINE S == SaveParams
           N == Len(Decl.params)
<1> HIDE DEF S, N
<1>5. S = [p \in 1 .. N |-> S[p]] /\ N \in Nat /\ \A p \in 1 .. N : S[p] \in ParamMoves
  BY <1>1, <1>2, <1>3 DEF S, N
<1>6. S \in Seq(ParamMoves)
  BY <1>5
<1>7. ASSUME NEW x \in 1 .. N, NEW y \in 1 .. N, x < y
      PROVE  Follows(S[x], S[y])
  <2>1. S[x].at = x + 1 /\ S[y].at = y + 1 /\ S[x].fn = d /\ S[y].fn = d
    BY <1>1, <1>2, <1>5, <1>7 DEF S, N, ParamMoves, ParamMove
  <2> QED
    BY <1>7, <2>1 DEF Follows, Before
<1>8. Sorted(S)
  BY <1>1, <1>4, <1>7 DEF Sorted, S, N
<1> QED
  BY <1>1, <1>4, <1>6, <1>8 DEF S


-----------------------------------------------------------------------------
(* The prologue: after everything emitted before come the hidden pointer,  *)
(* the initialisers, the parameters and the register save area.            *)
GuardMoves == {e \in Emitted : Guard(e) /\ e.mem.in = "frame"}
InitMoves  == {e \in Emitted : e.at = 0 /\ InitFits(e) /\ Decl.name = "main"}
OldMoves   == {e \in Emitted : /\ e.at > 0 => e.fn < d
                               /\ e.at = 0 => Decl.name # "main"}

(* One instruction, or none, is in order. *)
LEMMA GuardsSorted ==
  ASSUME NEW e \in Emitted, Guard(e), e.mem.in = "frame", NEW B \in BOOLEAN,
         NEW s, s = IF B THEN <<e>> ELSE <<>>
  PROVE  s \in Seq(GuardMoves) /\ Sorted(s)
<1>1. e \in GuardMoves
  BY DEF GuardMoves
<1>2. CASE B
  BY <1>1, <1>2 DEF Sorted
<1>3. CASE ~B
  BY <1>3 DEF Sorted
<1> QED
  BY <1>2, <1>3

(* The initialisers are in order, and in main they are all there. *)
LEMMA InitGlobalsSorted ==
  ASSUME NamesInv, VarsNamed
  PROVE  /\ InitGlobals \in Seq(InitMoves) /\ Sorted(InitGlobals)
         /\ Decl.name = "main" =>
              \A v \in Initialised : \E x \in DOMAIN InitGlobals :
                InitGlobals[x].fn = v /\ InitGlobals[x].at = 0
<1> DEFINE N == Len(file)
           s == InitStores[N]
<1>1. AllInits(s, N) /\ N \in Nat /\ \A v \in Initialised : v <= N
  <2>1. AllInits(s, N) /\ N \in Nat /\ DOMAIN file = 1 .. N
    BY InitsSorted, FilesHave DEF NamesInv, TypeOK
  <2> QED
    BY <2>1 DEF Initialised
<1> HIDE DEF s, N
<1>2. CASE Decl.name # "main"
  <2>1. InitGlobals = <<>>
    BY <1>2 DEF InitGlobals
  <2> QED
    BY <1>2, <2>1 DEF Sorted
<1>3. CASE Decl.name = "main"
  <2>1. InitGlobals = s
    BY <1>3 DEF InitGlobals, s, N
  <2>2. Zeros(N) \subseteq InitMoves
    BY <1>3 DEF Zeros, InitMoves
  <2>3. s \in Seq(Zeros(N)) /\ Sorted(s)
    BY <1>1 DEF AllInits
  <2>4. s \in Seq(InitMoves)
    BY <2>2, <2>3
  <2>5. \A v \in Initialised : \E x \in DOMAIN s : s[x].fn = v
    BY <1>1 DEF AllInits
  <2>6. \A x \in DOMAIN s : s[x].at = 0
    BY <2>3 DEF Zeros
  <2> QED
    BY <2>1, <2>3, <2>4, <2>5, <2>6
<1> QED
  BY <1>2, <1>3

(* What was emitted before belongs to the functions before, and has no     *)
(* initialiser if this function is main.                                   *)
LEMMA OldBehind ==
  ASSUME NamesInv, FileAgrees, AllFit, phase = "collect", code \in Seq(Emitted)
  PROVE  code \in Seq(OldMoves)
<1>1. d \in DOMAIN file /\ Decl.k = "func" /\ Decl = file[d] /\ d \in Nat
  BY FilesHave DEF NamesInv, TypeOK, Decl
<1>2. ASSUME NEW x \in DOMAIN code, NEW e, e = code[x]
      PROVE  e \in OldMoves
  <2>1. e \in Emitted /\ Fits(e) /\ Behind(e)
    BY <1>2 DEF AllFit
  <2>2. e.at > 0 => e.fn < d
    BY <2>1 DEF Behind, Reached
  <2>3. ASSUME e.at = 0, Decl.name = "main"
        PROVE  FALSE
    <3>1. MainReached /\ e.fn \in Initialised
      BY <2>1, <2>3 DEF Behind, Fits, InitFits
    <3>2. PICK z \in DOMAIN file : file[z].k = "func" /\ file[z].name = "main" /\ Reached(z, 0)
      BY <3>1 DEF MainReached
    <3>3. z < d
      BY <3>2 DEF Reached
    <3>4. OneMain
      BY DEF FileAgrees
    <3>5. PICK m \in DOMAIN file :
            \A y \in DOMAIN file : file[y].k = "func" /\ file[y].name = "main" => y = m
      BY <3>1, <3>4 DEF OneMain
    <3>6. z = m /\ d = m
      BY <1>1, <2>3, <3>2, <3>5
    <3> QED
      BY <1>1, <3>3, <3>6
  <2> QED
    BY <2>1, <2>2, <2>3 DEF OldMoves
<1> QED
  BY <1>2

(* The whole prologue is in order behind what was emitted before, and has  *)
(* an instruction for every initialiser and every parameter.               *)
LEMMA PrologueOrder ==
  ASSUME NamesInv, ScopeInv, VarsNamed, FileAgrees, AllFit, Ordered, code \in Seq(Emitted),
         Prologue, NEW c, Entered(Body(Decl), Len(Body(Decl)), c, locals)
  PROVE  /\ code' \in Seq(Emitted) /\ Sorted(code')
         /\ \A x \in DOMAIN code : x \in DOMAIN code' /\ code'[x] = code[x]
         /\ \A x \in DOMAIN code' : x \in DOMAIN code
                                    \/ code'[x] \in GuardMoves \cup InitMoves \cup ParamMoves
         /\ \A y \in DOMAIN InitGlobals : \E x \in DOMAIN code' : code'[x] = InitGlobals[y]
         /\ \A y \in DOMAIN SaveParams : \E x \in DOMAIN code' : code'[x] = SaveParams[y]
<1> DEFINE withHidden == frameSize + (IF Decl.big THEN 8 ELSE 0)
           all        == WithSaveArea(withHidden)
           first  == IF Decl.big THEN <<HiddenStore(d, -withHidden)>> ELSE <<>>
           last   == IF Decl.variadic THEN <<AreaStore(d, -all)>> ELSE <<>>
           G  == InitGlobals
           S  == SaveParams
           c1 == code \o first
           c2 == c1 \o G
           c3 == c2 \o S
           c4 == c3 \o last
           T1 == OldMoves \cup GuardMoves
           T2 == T1 \cup InitMoves
           T3 == T2 \cup ParamMoves
           T4 == T3 \cup GuardMoves
<1>1. code' = c4
  BY DEF Prologue, HiddenStore, AreaStore
<1>2. /\ d \in Nat /\ withHidden \in Nat /\ all \in Nat
      /\ d \in DOMAIN file /\ file[d].k = "func" /\ phase = "collect"
      /\ Decl.big \in BOOLEAN /\ Decl.variadic \in BOOLEAN
  <2>1. phase = "collect"
    BY DEF Prologue
  <2>2. d \in DOMAIN file /\ Decl.k = "func" /\ Decl = file[d] /\ d \in Nat
    BY <2>1, FilesHave DEF NamesInv, TypeOK, Decl
  <2>3. Decl \in FuncDecls
    BY <2>2, FilesHave DEF NamesInv
  <2>4. Decl.big \in BOOLEAN /\ Decl.variadic \in BOOLEAN
    BY <2>3 DEF FuncDecls
  <2>5. withHidden \in Nat
    BY DEF NamesInv, TypeOK
  <2> HIDE DEF withHidden
  <2>6. all \in Nat
    BY <2>5 DEF WithSaveArea
  <2> QED
    BY <2>1, <2>2, <2>4, <2>5, <2>6
<1> HIDE DEF withHidden, all
<1>3. /\ HiddenStore(d, -withHidden) \in Emitted /\ AreaStore(d, -all) \in Emitted
      /\ HiddenStore(d, -withHidden).mem.in = "frame" /\ AreaStore(d, -all).mem.in = "frame"
  BY <1>2 DEF HiddenStore, AreaStore, Ins, InFrame, Emitted
<1>4. /\ first \in Seq(GuardMoves) /\ Sorted(first)
      /\ last \in Seq(GuardMoves) /\ Sorted(last)
  BY <1>2, <1>3, GuardFacts, GuardsSorted
<1>5. G \in Seq(InitMoves) /\ Sorted(G)
  BY InitGlobalsSorted
<1>6. S \in Seq(ParamMoves) /\ Sorted(S)
  BY <1>2, ParamsSorted
<1>7. code \in Seq(OldMoves) /\ Sorted(code)
  BY <1>2, OldBehind DEF Ordered, Sorted
<1> HIDE DEF first, last, G, S
<1>8. \A e \in OldMoves \cup GuardMoves \cup InitMoves \cup ParamMoves, h \in GuardMoves :
        Follows(e, h)
  BY DEF GuardMoves, Guard, Follows
<1>9. \A e \in OldMoves \cup GuardMoves, h \in InitMoves : Follows(e, h)
  BY DEF OldMoves, GuardMoves, InitMoves, Guard, Follows
<1>10. \A e \in OldMoves \cup GuardMoves \cup InitMoves, h \in ParamMoves : Follows(e, h)
  <2> SUFFICES ASSUME NEW e \in OldMoves \cup GuardMoves \cup InitMoves,
                      NEW h \in ParamMoves
               PROVE  Follows(e, h)
    OBVIOUS
  <2>1. h.fn = d /\ h.at > 0
    BY <1>2 DEF ParamMoves, ParamMove, FrameMove
  <2>2. e.at > 0 => e.fn < d
    BY DEF OldMoves, GuardMoves, InitMoves, Guard
  <2> QED
    BY <2>1, <2>2 DEF Follows, Before
<1>11. /\ c1 \in Seq(T1) /\ Sorted(c1) /\ Joins(code, first, c1)
  BY <1>4, <1>7, <1>8, PutBehind
<1> HIDE DEF c1
<1>12. /\ c2 \in Seq(T2) /\ Sorted(c2) /\ Joins(c1, G, c2)
  <2>1. \A e \in T1 : \A h \in InitMoves : Follows(e, h)
    BY <1>9
  <2> HIDE DEF T1
  <2> QED
    BY <1>5, <1>11, <2>1, PutBehind
<1> HIDE DEF c2
<1>13. /\ c3 \in Seq(T3) /\ Sorted(c3) /\ Joins(c2, S, c3)
  <2>1. \A e \in T2 : \A h \in ParamMoves : Follows(e, h)
    BY <1>10
  <2> HIDE DEF T2
  <2> QED
    BY <1>6, <1>12, <2>1, PutBehind
<1> HIDE DEF c3
<1>14. /\ c4 \in Seq(T4) /\ Sorted(c4) /\ Joins(c3, last, c4)
  <2>1. \A e \in T3 : \A h \in GuardMoves : Follows(e, h)
    BY <1>8
  <2> HIDE DEF T3
  <2> QED
    BY <1>4, <1>13, <2>1, PutBehind
<1> HIDE DEF c4
<1>15. T4 \subseteq Emitted
  BY DEF OldMoves, GuardMoves, InitMoves, ParamMoves
<1>16. c4 \in Seq(Emitted)
  <2> HIDE DEF T4
  <2> QED
    BY <1>14, <1>15
<1> HIDE DEF T1, T2, T3, T4
<1>17. \A x \in DOMAIN code : x \in DOMAIN c4 /\ c4[x] = code[x]
  BY <1>11, <1>12, <1>13, <1>14 DEF Joins
<1>18. ASSUME NEW x \in DOMAIN c4
       PROVE  x \in DOMAIN code \/ c4[x] \in GuardMoves \cup InitMoves \cup ParamMoves
  <2>1. /\ \A y \in DOMAIN first : first[y] \in GuardMoves
        /\ \A y \in DOMAIN last : last[y] \in GuardMoves
        /\ \A y \in DOMAIN G : G[y] \in InitMoves
        /\ \A y \in DOMAIN S : S[y] \in ParamMoves
    BY <1>4, <1>5, <1>6
  <2>2. x \in DOMAIN c3 \/ c4[x] \in GuardMoves
    BY <1>14, <2>1 DEF Joins
  <2>3. ASSUME x \in DOMAIN c3
        PROVE  c4[x] = c3[x] /\ (x \in DOMAIN c2 \/ c3[x] \in ParamMoves)
    BY <1>13, <1>14, <2>1, <2>3 DEF Joins
  <2>4. ASSUME x \in DOMAIN c2
        PROVE  c3[x] = c2[x] /\ x \in DOMAIN c3 /\ (x \in DOMAIN c1 \/ c2[x] \in InitMoves)
    BY <1>12, <1>13, <2>1, <2>4 DEF Joins
  <2>5. ASSUME x \in DOMAIN c1
        PROVE  c2[x] = c1[x] /\ x \in DOMAIN c2 /\ (x \in DOMAIN code \/ c1[x] \in GuardMoves)
    BY <1>11, <1>12, <2>1, <2>5 DEF Joins
  <2> QED
    BY <2>2, <2>3, <2>4, <2>5
<1>19. \A y \in DOMAIN G : \E x \in DOMAIN c4 : c4[x] = G[y]
  <2> SUFFICES ASSUME NEW y \in DOMAIN G PROVE \E x \in DOMAIN c4 : c4[x] = G[y]
    OBVIOUS
  <2>1. PICK x \in DOMAIN c2 : c2[x] = G[y]
    BY <1>12 DEF Joins
  <2>2. x \in DOMAIN c4 /\ c4[x] = c2[x]
    BY <1>13, <1>14 DEF Joins
  <2> QED
    BY <2>1, <2>2
<1>20. \A y \in DOMAIN S : \E x \in DOMAIN c4 : c4[x] = S[y]
  <2> SUFFICES ASSUME NEW y \in DOMAIN S PROVE \E x \in DOMAIN c4 : c4[x] = S[y]
    OBVIOUS
  <2>1. PICK x \in DOMAIN c3 : c3[x] = S[y]
    BY <1>13 DEF Joins
  <2>2. x \in DOMAIN c4 /\ c4[x] = c3[x]
    BY <1>14 DEF Joins
  <2> QED
    BY <2>1, <2>2
<1> QED
  BY <1>1, <1>14, <1>16, <1>17, <1>18, <1>19, <1>20 DEF G, S

-----------------------------------------------------------------------------
(* What the prologue emits is as it should be. *)
LEMMA PrologueExtends ==
  ASSUME NamesInv, ScopeInv, VarsNamed, FileAgrees, AllFit, Ordered, code \in Seq(Emitted),
         Next, Prologue, NEW c, Entered(Body(Decl), Len(Body(Decl)), c, locals)
  PROVE  Extends
<1> DEFINE np == Len(Decl.params) + 1
<1>1. /\ phase = "collect" /\ phase' = "generate" /\ i' = 1 /\ d' = d
      /\ file' = file /\ locals' = locals /\ syms' = syms
  BY DEF Prologue
<1>2. /\ d \in DOMAIN file /\ file[d].k = "func" /\ Decl = file[d] /\ d \in Nat /\ d # 0
      /\ Decl' = Decl /\ Decl \in FuncDecls
      /\ np \in Nat /\ np >= 1
      /\ \A f \in DOMAIN file : f \in Nat
  <2>1. d \in DOMAIN file /\ Decl.k = "func" /\ Decl = file[d] /\ d \in Nat
    BY <1>1, FilesHave DEF NamesInv, TypeOK, Decl
  <2>2. Decl \in FuncDecls /\ d # 0
    <3>1. DOMAIN file = 1 .. Len(file) /\ Len(file) \in Nat /\ file \in Files
      BY FilesHave DEF NamesInv
    <3>2. d # 0
      BY <2>1, <3>1
    <3> QED
      BY <2>1, <3>1, <3>2, FilesHave
  <2>3. Len(Decl.params) \in Nat
    BY <2>2, BodyFacts
  <2>4. np \in Nat /\ np >= 1
    BY <2>3
  <2>5. \A f \in DOMAIN file : f \in Nat
    <3>1. DOMAIN file = 1 .. Len(file)
      BY FilesHave DEF NamesInv
    <3> QED
      BY <3>1
  <2>6. Decl' = Decl
    BY <1>1 DEF Decl
  <2> QED
    BY <2>1, <2>2, <2>4, <2>5, <2>6
<1>3. /\ code' \in Seq(Emitted) /\ Sorted(code')
      /\ \A x \in DOMAIN code : x \in DOMAIN code' /\ code'[x] = code[x]
      /\ \A x \in DOMAIN code' : x \in DOMAIN code
                                 \/ code'[x] \in GuardMoves \cup InitMoves \cup ParamMoves
      /\ \A y \in DOMAIN InitGlobals : \E x \in DOMAIN code' : code'[x] = InitGlobals[y]
      /\ \A y \in DOMAIN SaveParams : \E x \in DOMAIN code' : code'[x] = SaveParams[y]
  BY PrologueOrder
<1>4. \A f, p : f = d /\ p <= np => Reached(f, p)'
  BY <1>1, <1>2 DEF Reached
<1>5. \A f, p \in Nat : Reached(f, p) => Reached(f, p)'
  BY <1>1 DEF Reached
<1>6. \A f, p \in Nat : Reached(f, p)' => Reached(f, p) \/ (f = d /\ (p < 1 \/ p <= np))
  BY <1>1, <1>2 DEF Reached
<1>7. Decl.name = "main" => MainReached'
  <2>1. \A f, p : f = d /\ p = 0 => Reached(f, p)'
    BY <1>2, <1>4
  <2> QED
    BY <1>1, <1>2, <2>1 DEF MainReached
<1>8. ASSUME NEW e \in GuardMoves
      PROVE  NewMove(e)
  <2>1. e \in Emitted /\ e.at < 0 /\ Guard(e) /\ e.mem.in = "frame"
        /\ ~(e.at > 0) /\ ~(e.at = 0)
    BY DEF GuardMoves, Guard, Emitted
  <2> QED
    BY <2>1 DEF NewMove, Fits, Behind, FrameMove, Guard
<1>9. ASSUME NEW e \in InitMoves
      PROVE  NewMove(e)
  <2>1. e \in Emitted /\ e.at = 0 /\ InitFits(e) /\ Decl.name = "main"
    BY DEF InitMoves
  <2>2. Fits(e)
    BY <2>1 DEF Fits
  <2>3. Fits(e)'
    BY <1>1, <2>2, FitsStay
  <2> QED
    BY <1>7, <2>1, <2>3 DEF NewMove, Behind, FrameMove
<1>10. ASSUME NEW e \in ParamMoves
       PROVE  NewMove(e)
  <2>1. e \in Emitted /\ e.fn = d /\ e.at \in 2 .. np /\ Fits(e) /\ FrameMove(e) /\ AtSlot(e)
    BY DEF ParamMoves, ParamMove
  <2>2. Fits(e)'
    BY <1>1, <2>1, FitsStay
  <2>3. Reached(e.fn, e.at)'
    BY <1>4, <2>1
  <2> QED
    BY <2>1, <2>2, <2>3 DEF NewMove, Behind
<1>11. \A x \in DOMAIN code' : \A e : x \notin DOMAIN code /\ e = code'[x] => NewMove(e)
  BY <1>3, <1>8, <1>9, <1>10
<1>12. \A x, y \in DOMAIN code' : x < y => Follows(code'[x], code'[y])
  BY <1>3 DEF Sorted
<1>13. MainReached' => MainReached \/ \A v \in Initialised : InitMade(v)'
  <2> SUFFICES ASSUME MainReached', ~MainReached, NEW v \in Initialised
               PROVE  InitMade(v)'
    OBVIOUS
  <2>1. PICK x \in DOMAIN file : file[x].k = "func" /\ file[x].name = "main" /\ Reached(x, 0)'
    BY <1>1 DEF MainReached
  <2>2. x \in Nat /\ ~Reached(x, 0)
    BY <1>2, <2>1 DEF MainReached
  <2>3. x = d
    BY <1>6, <2>1, <2>2
  <2>4. Decl.name = "main"
    BY <1>2, <2>1, <2>3
  <2>5. PICK y \in DOMAIN InitGlobals : InitGlobals[y].fn = v /\ InitGlobals[y].at = 0
    BY <2>4, InitGlobalsSorted
  <2>6. PICK z \in DOMAIN code' : code'[z] = InitGlobals[y]
    BY <1>3
  <2> QED
    BY <2>5, <2>6 DEF InitMade
<1>14. ASSUME NEW f \in DOMAIN file, NEW p \in Nat, file[f].k = "func",
              Moves(file[f], p), Reached(f, p)', ~Reached(f, p)
       PROVE  MoveMade(f, p)'
  <2>1. p \in 1 .. Len(Body(file[f])) /\ p >= 1
    BY <1>14 DEF Moves
  <2>2. f = d /\ p \in 1 .. np
    BY <1>2, <1>6, <1>14, <2>1
  <2>3. Moves(Decl, p)
    BY <1>2, <1>14, <2>2
  <2>4. p # 1 /\ p - 1 \in DOMAIN Decl.params /\ Body(Decl)[p].k = "decl"
    <3>1. p = 1 => Body(Decl)[p].k = "open"
      BY <1>2, <2>2, ParamItems
    <3>2. p # 1
      BY <2>3, <3>1 DEF Moves, Wrote
    <3> QED
      BY <1>2, <2>2, <3>2, ParamItems
  <2>5. SaveParams[p - 1] \in ParamMoves /\ SaveParams[p - 1].at = p - 1 + 1
        /\ DOMAIN SaveParams = DOMAIN Decl.params
    BY <1>2, <2>4, ParamStored, ParamsSorted
  <2>6. PICK x \in DOMAIN code' : code'[x] = SaveParams[p - 1]
    BY <1>3, <2>4, <2>5
  <2>7. code'[x].fn = d /\ code'[x].op = "store" /\ code'[x].at = p
    BY <2>2, <2>5, <2>6 DEF ParamMoves, ParamMove
  <2> QED
    BY <1>1, <1>2, <2>2, <2>4, <2>6, <2>7 DEF MoveMade, MoveOf
<1> QED
  BY <1>3, <1>5, <1>11, <1>12, <1>13, <1>14 DEF Extends

(* So the prologue leaves everything as it should be. *)
LEMMA MovesPrologue ==
  ASSUME NamesInv, ScopeInv, SymbolsInv, FileAgrees, code \in Seq(Emitted),
         Next, Prologue, AllFit, Ordered, Complete, SlotsFit
  PROVE  AllFit' /\ Ordered' /\ Complete' /\ SlotsFit'
<1>1. phase = "collect" /\ i > Len(Body(Decl)) /\ file' = file /\ locals' = locals /\ d' = d
  BY DEF Prologue
<1>2. VarsNamed
  BY <1>1, VarsAreNamed
<1>3. d \in DOMAIN file /\ file[d].k = "func" /\ Decl = file[d] /\ d \in Nat /\ i \in Nat
  BY <1>1, FilesHave DEF NamesInv, TypeOK, Decl
<1>4. PICK c : Entered(Body(Decl), Len(Body(Decl)), c, locals)
  <2>1. Decl \in FuncDecls
    BY <1>3, FilesHave DEF NamesInv
  <2>2. Len(Body(Decl)) \in Nat
    BY <2>1, BodyFacts
  <2>3. i - 1 = Len(Body(Decl))
    BY <1>1, <1>3, <2>2 DEF ScopeInv
  <2> QED
    BY <1>1, <2>3 DEF ScopeInv, Passed
<1>5. Extends
  BY <1>2, <1>4, PrologueExtends
<1>6. \A x \in DOMAIN code : FrameMove(code[x]) /\ code[x].fn = d => AtSlot(code[x])
  <2> SUFFICES ASSUME NEW x \in DOMAIN code, FrameMove(code[x]), code[x].fn = d
               PROVE  FALSE
    OBVIOUS
  <2>1. Reached(code[x].fn, code[x].at)
    BY DEF AllFit, Behind, FrameMove
  <2> QED
    BY <1>1, <1>3, <2>1 DEF Reached
<1> QED
  BY <1>1, <1>3, <1>4, <1>5, <1>6, MovesExtended

(* The moves are as they should be in every state. *)
LEMMA MovesStep ==
  ASSUME NamesInv, ScopeInv, SymbolsInv, SizesInv, CallsInv, MovesInv, [Next]_vars
  PROVE  MovesInv'
<1>1. CASE UNCHANGED vars
  <2>0. /\ file' = file /\ phase' = phase /\ d' = d /\ i' = i /\ locals' = locals
        /\ syms' = syms /\ code' = code
    BY <1>1 DEF vars, frameVars
  <2>1. \A n : /\ Named(n)' = Named(n) /\ SymbolOf(n)' = SymbolOf(n)
               /\ LoadWidth(n)' = LoadWidth(n)
    BY <2>0 DEF Named, SymbolOf, LoadWidth, SizeKnown
  <2>2. \A e : Fits(e)' <=> Fits(e)
    BY <2>0, <2>1 DEF Fits, InitFits, ItemFits, SymbolFits, FrameFits, Guard, Initialised, InSymbol
  <2>3. \A f, p : Reached(f, p)' <=> Reached(f, p)
    BY <2>0 DEF Reached, Decl
  <2>4. MainReached' <=> MainReached
    BY <2>0, <2>3 DEF MainReached
  <2>5. AllFit => AllFit'
    BY <2>0, <2>2, <2>3, <2>4 DEF AllFit, Behind
  <2>6. Ordered => Ordered'
    BY <2>0 DEF Ordered, Follows
  <2>7. Complete => Complete'
    <3>1. Initialised' = Initialised /\ (\A v : InitMade(v)' <=> InitMade(v))
          /\ \A f, p : MoveMade(f, p)' <=> MoveMade(f, p)
      BY <2>0 DEF Initialised, InitMade, MoveMade, MoveOf
    <3> QED
      BY <2>0, <2>3, <2>4, <3>1 DEF Complete
  <2>8. SlotsFit => SlotsFit'
    BY <2>0 DEF SlotsFit, Slotted, FrameMove, FindsAt, AtSlot
  <2> QED
    BY <2>0, <2>5, <2>6, <2>7, <2>8, FileAgreesStays DEF MovesInv
<1>2. CASE Next
  <2> SUFFICES ASSUME FileAgrees', phase' # "exited"
               PROVE  AllFit' /\ Ordered' /\ Complete' /\ SlotsFit'
    BY Zenon DEF MovesInv
  <2>1. phase # "exited" /\ file' = file
    BY <1>2 DEF Next, GlobalVar, SkipFunction, Functions, SkipVar, Compiled, StartFunction,
         CollectOpen, CollectClose, CloseBlock, CollectDecl, CollectStatic, CollectOther,
         Collecting, Prologue, GenOpen, GenClose, GenDecl, GenUse, GenCall, GenReturn, GenVa,
         GenOther, Generating, Access, Next1, EndFunction, Exit
  <2>2. FileAgrees /\ AllFit /\ Ordered /\ Complete /\ SlotsFit /\ SizesHeld
        /\ code \in Seq(Emitted)
    BY <2>1, FileAgreesStays DEF MovesInv, SizesInv, CallsInv
  <2>3. CASE Prologue
    BY <1>2, <2>2, <2>3, MovesPrologue
  <2>4. CASE \/ GenOpen \/ GenClose \/ GenDecl \/ GenUse \/ GenCall \/ GenReturn
             \/ GenVa \/ GenOther
    BY <1>2, <2>2, <2>4, MovesGenerate
  <2>5. CASE \/ GlobalVar \/ SkipFunction \/ Functions \/ SkipVar \/ Compiled \/ StartFunction
             \/ CollectOpen \/ CollectClose \/ CollectDecl \/ CollectStatic \/ CollectOther
             \/ EndFunction
    <3>1. Quiet
      BY <1>2, <2>5, QuietSteps
    <3> QED
      BY <1>2, <2>2, <3>1, MovesQuiet
  <2> QED
    BY <1>2, <2>3, <2>4, <2>5, Zenon DEF Next
<1> QED
  BY <1>1, <1>2

-----------------------------------------------------------------------------
(* The last of some instructions, none of which the prologue emits for the *)
(* caller's registers, is that of the last event.                          *)
Timely(S) ==
  /\ S \subseteq DOMAIN code /\ S # {}
  /\ \A x \in S : code[x].at >= 0 /\ (code[x].at > 0 => code[x].fn > 0)
LastIn(S) == CHOOSE x \in S : \A y \in S : y = x \/ Sooner(y, x)

(* It is there, and none of the others comes after it. *)
LEMMA LastEvent ==
  ASSUME code \in Seq(Emitted), Ordered, NEW S, Timely(S)
  PROVE  /\ LastIn(S) \in S
         /\ \A y \in S : y = LastIn(S) \/ Before(Event(code[y]), Event(code[LastIn(S)]))
<1>1. /\ S \subseteq Nat /\ S \subseteq DOMAIN code /\ DOMAIN code = 1 .. Len(code)
      /\ Len(code) \in Nat
      /\ \A x \in S : /\ code[x].at \in Nat /\ code[x].fn \in Nat
                      /\ code[x].at # 0 => code[x].fn > 0
  <2>1. DOMAIN code = 1 .. Len(code) /\ Len(code) \in Nat
    OBVIOUS
  <2>2. \A x \in S : code[x] \in Emitted
    BY DEF Timely
  <2>3. \A x \in S : code[x].at \in Int /\ code[x].fn \in Nat
    BY <2>2 DEF Emitted
  <2> QED
    BY <2>1, <2>3 DEF Timely
<1>2. \E x \in S : \A y \in S : y = x \/ Sooner(y, x)
  <2> DEFINE T == {x \in S : code[x].at # 0}
  <2>1. ASSUME NEW U, U \subseteq S, U # {}
        PROVE  \E x \in U : \A y \in U : y <= x
    BY <1>1, <2>1, HasMax
  <2>2. CASE T # {}
    <3>1. PICK x \in T : \A y \in T : y <= x
      BY <2>1, <2>2
    <3>2. ASSUME NEW y \in S PROVE y = x \/ Sooner(y, x)
      BY <1>1, <3>1 DEF Sooner
    <3> QED
      BY <3>1, <3>2
  <2>3. CASE T = {}
    <3>1. PICK x \in S : \A y \in S : y <= x
      BY <2>1 DEF Timely
    <3>2. ASSUME NEW y \in S PROVE y = x \/ Sooner(y, x)
      BY <1>1, <2>3, <3>1 DEF Sooner
    <3> QED
      BY <3>1, <3>2
  <2> QED
    BY <2>2, <2>3
<1>3. LastIn(S) \in S /\ \A y \in S : y = LastIn(S) \/ Sooner(y, LastIn(S))
  BY <1>2 DEF LastIn
<1>4. ASSUME NEW y \in S, NEW x \in S, Sooner(y, x)
      PROVE  Before(Event(code[y]), Event(code[x]))
  <2>1. \/ code[y].at = 0 /\ code[x].at # 0
        \/ y < x /\ code[y].at = 0 /\ code[x].at = 0
        \/ y < x /\ code[y].at # 0 /\ code[x].at # 0
    BY <1>4 DEF Sooner
  <2>2. y < x => Follows(code[y], code[x])
    BY <1>1 DEF Ordered
  <2> QED
    BY <1>1, <2>1, <2>2 DEF Follows, Before, Event
<1> QED
  BY <1>3, <1>4

(* It is the last write, if every write has its instruction and no other   *)
(* one comes after a write.                                                *)
LEMMA LastOfWrites ==
  ASSUME code \in Seq(Emitted), Ordered, NEW S, Timely(S),
         NEW W, W \subseteq Int \X Int, W # {},
         \A w \in W : \E x \in S : Event(code[x]) = w,
         \A x \in S : (\E w \in W : w = Event(code[x]) \/ Before(w, Event(code[x])))
                        => Event(code[x]) \in W
  PROVE  Event(code[LastIn(S)]) = CHOOSE w \in W : \A u \in W : u = w \/ Before(u, w)
<1> DEFINE l == LastIn(S)
           e == Event(code[l])
<1>1. l \in S /\ \A y \in S : y = l \/ Before(Event(code[y]), e)
  BY LastEvent
<1> HIDE DEF l
<1>2. \A u \in W : u = e \/ Before(u, e)
  <2> SUFFICES ASSUME NEW u \in W PROVE u = e \/ Before(u, e)
    OBVIOUS
  <2>1. PICK x \in S : Event(code[x]) = u
    OBVIOUS
  <2> QED
    BY <1>1, <2>1
<1>3. e \in W
  BY <1>1, <1>2
<1> HIDE DEF e
<1>4. ASSUME NEW w \in W, \A u \in W : u = w \/ Before(u, w)
      PROVE  w = e
  <2>1. w = e \/ (Before(w, e) /\ Before(e, w))
    BY <1>2, <1>3, <1>4
  <2>2. e[1] \in Int /\ e[2] \in Int /\ w[1] \in Int /\ w[2] \in Int
    BY <1>3
  <2> QED
    BY <2>1, <2>2 DEF Before
<1>5. (CHOOSE w \in W : \A u \in W : u = w \/ Before(u, w)) = e
  BY <1>2, <1>3, <1>4
<1> QED
  BY <1>5 DEF e, l


-----------------------------------------------------------------------------
(* When the file is compiled without filling the symbol table, *)
Finished ==
  /\ phase = "done" /\ Len(syms) < MaxSyms /\ file \in Files /\ FileAgrees
  /\ code \in Seq(Emitted) /\ syms \in Seq(Symbols) /\ d \in Nat /\ d > Len(file)
  /\ Placed /\ SizesHeld /\ GuardsApart /\ AllFit /\ Ordered /\ Complete /\ SlotsFit

(* every move of an item, and every initialiser, has its instruction, *)
LEMMA AllMade ==
  ASSUME Finished
  PROVE  /\ \A g \in DOMAIN file, q \in Nat :
              file[g].k = "func" /\ Moves(file[g], q) => MoveMade(g, q)
         /\ \A v \in Initialised : InitMade(v)
<1>1. \A g \in DOMAIN file : g \in Nat /\ g < d
  <2>1. DOMAIN file = 1 .. Len(file) /\ Len(file) \in Nat
    BY FilesHave DEF Finished
  <2> QED
    BY <2>1 DEF Finished
<1>2. \A g \in DOMAIN file, q \in Nat : Reached(g, q)
  BY <1>1 DEF Reached, Finished
<1>3. ASSUME NEW v \in Initialised
      PROVE  InitMade(v)
  <2>1. OneMain
    BY DEF Finished, FileAgrees
  <2>2. \E x \in DOMAIN file : file[x].k = "func" /\ file[x].name = "main"
    BY <2>1 DEF OneMain
  <2>3. MainReached
    BY <1>2, <2>2 DEF MainReached
  <2> QED
    BY <2>3 DEF Finished, Complete
<1>4. ASSUME NEW g \in DOMAIN file, NEW q \in Nat, file[g].k = "func", Moves(file[g], q)
      PROVE  MoveMade(g, q)
  BY <1>2, <1>4 DEF Finished, Complete
<1> QED
  BY <1>3, <1>4

(* and they are executed in the order of the items. *)
LEMMA InTurn ==
  ASSUME code \in Seq(Emitted), Ordered,
         NEW x \in DOMAIN code, NEW c \in DOMAIN code, x # c,
         code[x].at > 0, code[c].at > 0, code[c].fn # code[x].fn \/ code[c].at # code[x].at
  PROVE  Sooner(x, c) <=> Before(<<code[x].fn, code[x].at>>, <<code[c].fn, code[c].at>>)
<1>1. /\ x \in Nat /\ c \in Nat /\ code[x].at \in Int /\ code[c].at \in Int
      /\ code[x].fn \in Int /\ code[c].fn \in Int
  <2>1. code[x] \in Emitted /\ code[c] \in Emitted
    OBVIOUS
  <2> QED
    <3>1. code[x].at \in Int /\ code[x].fn \in Int
      BY <2>1 DEF Emitted
    <3>2. code[c].at \in Int /\ code[c].fn \in Int
      BY <2>1 DEF Emitted
    <3>3. x \in Nat /\ c \in Nat
      OBVIOUS
    <3> QED
      BY <3>1, <3>2, <3>3
<1>2. Sooner(x, c) <=> x < c
  BY <1>1 DEF Sooner
<1>3. x < c => Before(<<code[x].fn, code[x].at>>, <<code[c].fn, code[c].at>>)
  BY DEF Ordered, Follows
<1>4. c < x => Before(<<code[c].fn, code[c].at>>, <<code[x].fn, code[x].at>>)
  BY DEF Ordered, Follows
<1> QED
  BY <1>1, <1>2, <1>3, <1>4 DEF Before

(* What an instruction that is no guard is: an initialiser or an item's. *)
LEMMA InstructionIs ==
  ASSUME Finished, NEW x \in DOMAIN code, NEW e, e = code[x]
  PROVE  /\ e \in Emitted /\ Fits(e) /\ Behind(e)
         /\ e.at \in Int /\ e.fn \in Nat /\ e.len \in Nat /\ e.mem.pos \in Int
         /\ e.mem.in \in {"frame", "symbol"} /\ e.op \in {"store", "load", "call"}
         /\ e.at > 0 => ItemFits(e) /\ e.fn > 0 /\ e.at \in Nat
         /\ e.at = 0 => InitFits(e)
         /\ e.at < 0 => Guard(e) /\ e.mem.in = "frame"
<1>1. e \in Emitted /\ Fits(e) /\ Behind(e)
  BY DEF Finished, AllFit
<1>2. /\ e.at \in Int /\ e.fn \in Nat /\ e.len \in Nat /\ e.mem.pos \in Int
      /\ e.mem.in \in {"frame", "symbol"} /\ e.op \in {"store", "load", "call"}
  BY <1>1 DEF Emitted
<1>3. ASSUME e.at > 0 PROVE ItemFits(e) /\ e.fn > 0 /\ e.at \in Nat
  <2>1. ItemFits(e)
    BY <1>1, <1>3 DEF Fits
  <2>2. e.fn \in DOMAIN file /\ DOMAIN file = 1 .. Len(file)
    BY <2>1, FilesHave DEF ItemFits, Finished
  <2> QED
    BY <1>2, <1>3, <2>1, <2>2
<1> QED
  BY <1>1, <1>2, <1>3 DEF Fits


-----------------------------------------------------------------------------
(* The writes of a local variable are those of its function's items that   *)
(* mean it.                                                                *)
WritesBefore(f, p) == {w \in WritesOf(Object(f, p)) : Before(w, <<f, p>>)}
StoresBefore(c, byte) == {x \in Stores : Sooner(x, c) /\ Covers(x, byte)}

(* Of these an automatic variable has no others. *)
LEMMA FrameWrites ==
  ASSUME file \in Files, NEW f \in DOMAIN file, file[f].k = "func", NEW b, b = Body(file[f]),
         NEW p \in 1 .. Len(b), AutoAt(b, p), NEW w
  PROVE  w \in WritesBefore(f, p) <=>
           \E q \in 1 .. Len(b) : /\ w = <<f, q>> /\ q < p /\ Wrote(file[f], q)
                                  /\ Means(b, q) = Means(b, p)
<1> DEFINE o == Object(f, p)
           m == Means(b, p)
<1>1. o = <<f, m>> /\ f \in Nat /\ f # 0 /\ f \in DOMAIN Bodies /\ b[m].k = "decl" /\ Bodies[f] = b
      /\ Len(b) \in Nat /\ m # 0
  BY BodiesAre DEF AutoAt
<1>2. ASSUME NEW g \in DOMAIN Bodies
      PROVE  /\ g \in DOMAIN file /\ file[g].k = "func" /\ g \in Nat /\ g # 0
             /\ Writes(g) \subseteq 1 .. Len(Body(file[g]))
             /\ \A q : q \in Writes(g) <=> q \in 1 .. Len(Body(file[g])) /\ Wrote(file[g], q)
             /\ \A q : Object(g, q) = IF Means(Body(file[g]), q) = 0
                                      THEN <<0, Body(file[g])[q].name>>
                                      ELSE <<g, Means(Body(file[g]), q)>>
  <2>1. g \in DOMAIN file /\ file[g].k = "func"
    BY DEF Bodies
  <2> QED
    BY <2>1, BodiesAre, MovesAre
<1>3. \A g \in DOMAIN Bodies : \A q \in StaticInits(g) : o # <<g, q>>
  <2> SUFFICES ASSUME NEW g \in DOMAIN Bodies, NEW q \in StaticInits(g), o = <<g, q>>
               PROVE  FALSE
    OBVIOUS
  <2> QED
    BY <1>1 DEF StaticInits
<1>4. \A v : o # <<0, file[v].name>>
  BY <1>1
<1>5. w \in WritesOf(o) <=>
        \E g \in DOMAIN Bodies : \E q \in Writes(g) : w = <<g, q>> /\ Object(g, q) = o
  <2>1. {<<-e[1], e[2]>> : e \in {o} \cap
                       UNION {{g} \X StaticInits(g) : g \in DOMAIN Bodies}} = {}
    BY <1>3
  <2>2. {<<0, v>> : v \in {x \in Initialised : o = <<0, file[x].name>>}} = {}
    BY <1>4
  <2>3. \A u \in UNION {{g} \X Writes(g) : g \in DOMAIN Bodies} :
          \E g \in DOMAIN Bodies : \E q \in Writes(g) :
            u = <<g, q>> /\ Object(u[1], u[2]) = Object(g, q)
    OBVIOUS
  <2>4. \A g \in DOMAIN Bodies : \A q \in Writes(g) :
          /\ <<g, q>> \in UNION {{h} \X Writes(h) : h \in DOMAIN Bodies}
          /\ Object(<<g, q>>[1], <<g, q>>[2]) = Object(g, q)
    OBVIOUS
  <2> HIDE DEF o
  <2> QED
    BY <2>1, <2>2, <2>3, <2>4 DEF WritesOf
<1>6. w \in WritesOf(o) <=>
        \E q \in 1 .. Len(b) : w = <<f, q>> /\ Wrote(file[f], q) /\ Means(b, q) = m
  <2>1. ASSUME NEW g \in DOMAIN Bodies, NEW q \in Writes(g), Object(g, q) = o
        PROVE  g = f /\ q \in 1 .. Len(b) /\ Wrote(file[f], q) /\ Means(b, q) = m
    BY <1>1, <1>2, <2>1
  <2>2. ASSUME NEW q \in 1 .. Len(b), Wrote(file[f], q), Means(b, q) = m
        PROVE  q \in Writes(f) /\ Object(f, q) = o
    BY <1>1, <1>2, <2>2
  <2> HIDE DEF o
  <2> QED
    BY <1>1, <1>5, <2>1, <2>2
<1>7. \A q \in 1 .. Len(b) : Before(<<f, q>>, <<f, p>>) <=> q < p
  BY <1>1 DEF Before
<1> QED
  BY <1>6, <1>7 DEF WritesBefore


(* The address of byte a of what e moves. *)
LEMMA FrameByte ==
  ASSUME syms \in Seq(Symbols), NEW e, NEW a
  PROVE  /\ e.mem.in = "frame" => Byte(e, a) = <<"frame", e.fn, e.mem.pos + a>>
         /\ e.mem.in = "symbol" /\ e.mem.pos \in DOMAIN syms => Byte(e, a)[1] # "frame"
<1>1. ASSUME e.mem.pos \in DOMAIN syms
      PROVE  syms[e.mem.pos].sect # "frame"
  <2>1. syms[e.mem.pos] \in Symbols
    BY <1>1
  <2> QED
    BY <2>1 DEF Symbols
<1> QED
  BY <1>1 DEF Byte

(* The symbol of a name in the table has that name. *)
LEMMA SymbolIs ==
  ASSUME syms \in Seq(Symbols), NEW n, Named(n) # {}
  PROVE  SymbolOf(n) \in DOMAIN syms /\ syms[SymbolOf(n)].name = n
         /\ InSymbol(SymbolOf(n)).in = "symbol" /\ InSymbol(SymbolOf(n)).pos = SymbolOf(n)
<1>1. Named(n) \subseteq Nat
  BY DEF Named
<1>2. MinOf(Named(n)) \in Named(n)
  BY <1>1, HasMin
<1> QED
  BY <1>2 DEF SymbolOf, Named, InSymbol

(* What stores into a byte of the frame from which a local variable is     *)
(* loaded is a store for what finds the same declaration.                  *)
LEMMA FrameStores ==
  ASSUME Finished, NEW c \in DOMAIN code, NEW e, e = code[c], FrameMove(e), e.op = "load",
         e.mem.in = "frame", NEW s \in 0 .. e.len - 1,
         NEW x \in StoresBefore(c, Byte(e, s)), NEW u, u = code[x],
         NEW y \in DOMAIN code, Guard(u) => FrameStore(code[y]) /\ code[y].fn = e.fn /\ y # x
                                            /\ code[y].mem = e.mem /\ code[y].len = e.len
  PROVE  /\ FrameMove(u) /\ u.fn = e.fn /\ FindsAt(u) = FindsAt(e)
         /\ Wrote(file[u.fn], u.at) /\ ItemFits(u)
<1>1. x \in DOMAIN code /\ u.op = "store" /\ Sooner(x, c)
  BY DEF StoresBefore, Stores
<1>2. PICK a \in 0 .. u.len - 1 : Byte(u, a) = Byte(e, s)
  BY DEF StoresBefore, Covers
<1>3. /\ u.len \in Nat /\ e.len \in Nat /\ u.mem.pos \in Int /\ e.mem.pos \in Int
      /\ u.mem.in \in {"frame", "symbol"}
      /\ u.at > 0 => ItemFits(u) /\ u.fn > 0 /\ u.at \in Nat
      /\ u.at = 0 => InitFits(u)
      /\ u.at < 0 => Guard(u) /\ u.mem.in = "frame"
      /\ u.at \in Int
  BY <1>1, InstructionIs
<1>4. Byte(e, s) = <<"frame", e.fn, e.mem.pos + s>> /\ syms \in Seq(Symbols)
  BY FrameByte DEF Finished
<1>5. ASSUME u.mem.in = "symbol", u.mem.pos \in DOMAIN syms
      PROVE  FALSE
  <2>1. Byte(u, a)[1] # "frame"
    BY <1>4, <1>5, FrameByte
  <2> QED
    BY <1>2, <1>4, <2>1
<1>6. ~(\E n : Named(n) # {} /\ u.mem = InSymbol(SymbolOf(n)))
  BY <1>4, <1>5, SymbolIs
<1>7. u.at # 0
  BY <1>3, <1>6 DEF InitFits
<1>8. /\ u.mem.in = "frame" => u.fn = e.fn /\ u.mem.pos + a = e.mem.pos + s
  BY <1>2, <1>4, FrameByte
<1>9. ASSUME u.mem.in = "frame"
      PROVE  ~Apart(u, e) /\ ~Apart(e, u)
  <2> DEFINE j == u.mem.pos
             k == e.mem.pos
             m == u.len
             n == e.len
  <2>1. /\ j \in Int /\ k \in Int /\ m \in Nat /\ n \in Nat /\ a \in 0 .. m - 1 /\ s \in 0 .. n - 1
        /\ j + a = k + s
    BY <1>3, <1>8, <1>9
  <2>2. Apart(u, e) <=> (j + m <= k \/ k + n <= j)
    BY DEF Apart
  <2>3. Apart(e, u) <=> (k + n <= j \/ j + m <= k)
    BY DEF Apart
  <2> HIDE DEF j, k, m, n
  <2> QED
    BY <2>1, <2>2, <2>3
<1>10. ~(u.at < 0)
  <2> SUFFICES ASSUME u.at < 0 PROVE FALSE
    OBVIOUS
  <2>1. Guard(u) /\ u.mem.in = "frame" /\ u.fn = e.fn
    BY <1>3, <1>8
  <2>2. FrameStore(code[y]) /\ code[y].fn = u.fn /\ x # y
    BY <2>1
  <2>3. Apart(u, code[y])
    BY <1>1, <2>1, <2>2 DEF Finished, GuardsApart
  <2>4. Apart(u, e)
    BY <2>1, <2>3 DEF Apart
  <2> QED
    BY <1>9, <2>1, <2>4
<1>11. u.at > 0 /\ ItemFits(u) /\ Wrote(file[u.fn], u.at) /\ Moves(file[u.fn], u.at)
  <2>1. u.at > 0 /\ ItemFits(u)
    BY <1>3, <1>7, <1>10
  <2>2. Wrote(file[u.fn], u.at) /\ u.at \in 1 .. Len(Body(file[u.fn]))
    BY <1>1, <2>1 DEF ItemFits
  <2> QED
    BY <2>1, <2>2 DEF Moves
<1>12. AutoAt(Body(file[u.fn]), u.at)
  <2> SUFFICES ASSUME ~AutoAt(Body(file[u.fn]), u.at) PROVE FALSE
    OBVIOUS
  <2>1. SymbolFits(u, Body(file[u.fn])[u.at].name)
    BY <1>11 DEF ItemFits
  <2> QED
    BY <1>6, <2>1 DEF SymbolFits
<1>13. FrameMove(u)
  BY <1>11, <1>12 DEF FrameMove
<1>14. u.mem.in = "frame"
  BY <1>11, <1>12 DEF ItemFits, FrameFits
<1>15. FindsAt(u) = FindsAt(e)
  <2>1. Slotted(u, e)
    BY <1>1 DEF Finished, SlotsFit
  <2> QED
    BY <1>8, <1>9, <1>13, <1>14, <2>1 DEF Slotted
<1> QED
  BY <1>8, <1>11, <1>13, <1>14, <1>15


(* So the last store into it is the last write of the variable. *)
LEMMA FrameRead ==
  ASSUME Finished, NEW f \in DOMAIN file, file[f].k = "func", NEW b, b = Body(file[f]),
         NEW p \in 1 .. Len(b), b[p].k = "get", AutoAt(b, p), WritesBefore(f, p) # {},
         NEW c \in DOMAIN code, NEW e, e = code[c], MoveOf(e, f, p), NEW s \in 0 .. e.len - 1
  PROVE  StoresBefore(c, Byte(e, s)) # {}
         /\ Event(code[LastIn(StoresBefore(c, Byte(e, s)))])
              = CHOOSE w \in WritesBefore(f, p) : \A u \in WritesBefore(f, p) : u = w \/ Before(u, w)
<1> DEFINE S == StoresBefore(c, Byte(e, s))
           W == WritesBefore(f, p)
           m == Means(b, p)
<1>1. /\ file \in Files /\ Agrees(file[f]) /\ f \in Nat /\ f # 0 /\ f > 0 /\ Len(b) \in Nat
      /\ code \in Seq(Emitted) /\ Ordered /\ syms \in Seq(Symbols)
  <2>1. file \in Files /\ Agrees(file[f])
    BY DEF Finished, FileAgrees, FuncAgrees
  <2> QED
    BY <2>1, BodiesAre DEF Finished
<1>2. e.fn = f /\ e.at = p /\ e.op = "load" /\ p \in Nat /\ p > 0
  BY <1>1 DEF MoveOf
<1>3. Moves(file[f], p) /\ UseAt(b, p)
  BY DEF Moves, UseAt
<1>4. FrameMove(e) /\ FindsAt(e) = Finds(b, p) /\ ItemFits(e) /\ FrameFits(e, b)
  <2>1. ItemFits(e)
    BY <1>2, InstructionIs
  <2> QED
    BY <1>2, <1>3, <2>1 DEF FrameMove, FindsAt, ItemFits
<1>5. e.mem.in = "frame" /\ e.len = b[m].size
  BY <1>2, <1>4 DEF FrameFits
<1>6. \A w : w \in W <=>
        \E q \in 1 .. Len(b) : /\ w = <<f, q>> /\ q < p /\ Wrote(file[f], q) /\ Means(b, q) = m
  BY <1>1, FrameWrites
<1>7. ASSUME NEW q \in 1 .. Len(b), Wrote(file[f], q), Means(b, q) = m, q < p
      PROVE  \E x \in S : /\ Event(code[x]) = <<f, q>> /\ code[x].op = "store"
                          /\ code[x].mem = e.mem /\ code[x].len = e.len /\ code[x].fn = f
                          /\ code[x].at = q
  <2>1. /\ Moves(file[f], q) /\ AutoAt(b, q) /\ UseAt(b, q) /\ b[q].k # "get" /\ q \in Nat
    BY <1>1, <1>7 DEF Moves, AutoAt, UseAt, Wrote
  <2>2. PICK x \in DOMAIN code : MoveOf(code[x], f, q)
    BY <2>1, AllMade DEF MoveMade
  <2>3. code[x].fn = f /\ code[x].at = q /\ code[x].op = "store"
    BY <2>1, <2>2 DEF MoveOf
  <2>4. q > 0
    BY <1>7
  <2>5. ItemFits(code[x])
    BY <2>3, <2>4, InstructionIs
  <2>6. FrameMove(code[x]) /\ FrameFits(code[x], b) /\ FindsAt(code[x]) = Finds(b, q)
    BY <2>1, <2>3, <2>4, <2>5 DEF FrameMove, FindsAt, ItemFits
  <2>7. Finds(b, q) = Finds(b, p)
    BY <1>1, <1>3, <1>7, <2>1, SameFinds
  <2>8. code[x].mem = e.mem
    <3>1. Slotted(code[x], e)
      BY DEF Finished, SlotsFit
    <3> QED
      BY <1>2, <1>4, <2>3, <2>6, <2>7, <3>1 DEF Slotted
  <2>9. code[x].len = e.len
    BY <1>5, <1>7, <2>3, <2>6 DEF FrameFits
  <2>10. Sooner(x, c)
    <3>1. x # c /\ code[c].fn = f /\ code[c].at = p
      BY <1>2, <2>3
    <3>2. Before(<<f, q>>, <<f, p>>)
      BY <1>1, <1>7 DEF Before
    <3>3. code[x].at # code[c].at
      BY <1>7, <2>1, <2>3, <3>1, <1>2
    <3> QED
      BY <1>1, <1>2, <2>3, <2>4, <3>1, <3>2, <3>3, InTurn
  <2>11. Byte(code[x], s) = Byte(e, s)
    BY <1>1, <1>2, <1>5, <2>3, <2>8, FrameByte
  <2>12. x \in S
    BY <2>3, <2>9, <2>10, <2>11 DEF StoresBefore, Stores, Covers
  <2>13. Event(code[x]) = <<f, q>>
    BY <2>3, <2>4 DEF Event
  <2> QED
    BY <2>3, <2>8, <2>9, <2>12, <2>13
<1>8. PICK q0 \in 1 .. Len(b) : Wrote(file[f], q0) /\ Means(b, q0) = m /\ q0 < p
  BY <1>6
<1>9. PICK z \in S : /\ code[z].op = "store" /\ code[z].mem = e.mem /\ code[z].len = e.len
                     /\ code[z].fn = f /\ code[z].at = q0
  BY <1>7, <1>8
<1>10. ASSUME NEW x \in S, NEW u, u = code[x]
       PROVE  /\ FrameMove(u) /\ u.fn = f /\ FindsAt(u) = Finds(b, p)
              /\ Wrote(file[f], u.at) /\ u.at \in 1 .. Len(b) /\ u.at < p
              /\ Event(u) = <<f, u.at>>
  <2>1. z \in DOMAIN code /\ x \in DOMAIN code /\ Sooner(x, c) /\ x # c
    BY <1>2, <1>10 DEF StoresBefore, Stores
  <2>2. Guard(u) => z # x
    BY <1>8, <1>9, <1>10 DEF Guard
  <2>3. FrameStore(code[z])
    BY <1>5, <1>9 DEF FrameStore
  <2>4. /\ FrameMove(u) /\ u.fn = f /\ FindsAt(u) = Finds(b, p)
        /\ Wrote(file[f], u.at) /\ ItemFits(u)
    BY <1>2, <1>4, <1>5, <1>9, <1>10, <2>1, <2>2, <2>3, FrameStores
  <2>5. u.at \in 1 .. Len(b) /\ u.at > 0 /\ u.at \in Nat
    BY <2>4 DEF ItemFits
  <2>6. u.at # p
    BY <2>4 DEF Wrote
  <2>7. Before(<<f, u.at>>, <<f, p>>)
    BY <1>1, <1>2, <1>10, <2>1, <2>4, <2>5, <2>6, InTurn
  <2> QED
    BY <1>1, <2>4, <2>5, <2>7 DEF Before, Event
<1>11. Timely(S)
  <2>1. S \subseteq DOMAIN code
    BY DEF StoresBefore, Stores
  <2>2. \A x \in S : code[x].at >= 0 /\ code[x].fn > 0
    BY <1>1, <1>10
  <2> QED
    BY <1>9, <2>1, <2>2 DEF Timely
<1>12. \A w \in W : \E x \in S : Event(code[x]) = w
  BY <1>6, <1>7
<1>13. W \subseteq Int \X Int
  BY <1>1, <1>6
<1>14. ASSUME NEW x \in S, NEW w \in W, w = Event(code[x]) \/ Before(w, Event(code[x]))
       PROVE  Event(code[x]) \in W
  <2> DEFINE v == code[x].at
  <2>1. /\ FrameMove(code[x]) /\ code[x].fn = f /\ FindsAt(code[x]) = Finds(b, p)
        /\ Wrote(file[f], v) /\ v \in 1 .. Len(b) /\ v < p /\ Event(code[x]) = <<f, v>>
    BY <1>10
  <2>2. PICK q \in 1 .. Len(b) : w = <<f, q>> /\ q < p /\ Wrote(file[f], q) /\ Means(b, q) = m
    BY <1>6
  <2>3. q <= v
    BY <1>1, <1>14, <2>1, <2>2 DEF Before
  <2>4. UseAt(b, v) /\ AutoAt(b, v) /\ Finds(b, v) = Finds(b, p) /\ UseAt(b, q)
    BY <2>1, <2>2 DEF FrameMove, FindsAt, UseAt, Wrote
  <2>5. Means(b, v) = m
    <3> HIDE DEF v
    <3>1. v <= p
      BY <1>1, <2>1
    <3> QED
      BY <1>1, <1>3, <2>2, <2>3, <2>4, <3>1, OtherFinds
  <2> QED
    BY <1>6, <2>1, <2>5
<1> HIDE DEF S, W
<1>15. Event(code[LastIn(S)]) = CHOOSE w \in W : \A u \in W : u = w \/ Before(u, w)
  <2>1. W # {}
    BY DEF W
  <2>2. \A x \in S : (\E w \in W : w = Event(code[x]) \/ Before(w, Event(code[x])))
                        => Event(code[x]) \in W
    BY <1>14
  <2> QED
    BY <1>1, <1>11, <1>12, <1>13, <2>1, <2>2, LastOfWrites
<1> QED
  BY <1>9, <1>15 DEF S, W


-----------------------------------------------------------------------------
(* A name that means no local variable is one object wherever it is used:  *)
(* a static variable or what the file declares.                            *)
LEMMA SymbolObject ==
  ASSUME Finished, NEW f \in DOMAIN file, file[f].k = "func", NEW b, b = Body(file[f]),
         NEW p \in 1 .. Len(b), b[p].k \in Used, ~AutoAt(b, p), NEW n, n = b[p].name
  PROVE  \/ /\ Means(b, p) = 0 /\ Object(f, p) = <<0, n>>
            /\ \A x \in DOMAIN file : \A q : ~StaticAt(x, q, n)
         \/ /\ StaticAt(f, Means(b, p), n) /\ Object(f, p) = <<f, Means(b, p)>>
            /\ Means(b, p) # 0 /\ \A x \in DOMAIN file : file[x].name # n
<1>1. file \in Files /\ StaticsAgree /\ Len(b) \in Nat /\ f # 0
      /\ Object(f, p) = IF Means(b, p) = 0 THEN <<0, n>> ELSE <<f, Means(b, p)>>
  BY BodiesAre DEF Finished, FileAgrees
<1>2. CASE Means(b, p) = 0
  <2>1. ASSUME NEW x \in DOMAIN file, NEW q, StaticAt(x, q, n)
        PROVE  FALSE
    <3>1. Means(b, p) = q
      BY <1>1, <2>1 DEF StaticsAgree
    <3>2. q \in 1 .. Len(Body(file[x])) /\ Len(Body(file[x])) \in Nat
      BY <1>1, <2>1, BodiesAre DEF StaticAt
    <3> QED
      BY <1>2, <3>1, <3>2
  <2> QED
    BY <1>1, <1>2, <2>1
<1>3. CASE Means(b, p) # 0
  <2>1. Means(b, p) \in Visible(b, p, n) /\ Visible(b, p, n) \subseteq 1 .. p
    BY <1>1, <1>3, Meant DEF Means
  <2>2. Means(b, p) \in 1 .. Len(b) /\ Declares(b, Means(b, p), n)
    BY <1>1, <2>1 DEF Visible
  <2>3. StaticAt(f, Means(b, p), n)
    BY <1>3, <2>2 DEF Declares, AutoAt, StaticAt
  <2>4. \A x \in DOMAIN file : file[x].name # n
    BY <1>1, <2>3 DEF StaticsAgree
  <2> QED
    BY <1>1, <1>3, <2>3, <2>4
<1> QED
  BY <1>2, <1>3

(* Two uses are of one object if and only if they have its name. *)
LEMMA OneObject ==
  ASSUME Finished, NEW f \in DOMAIN file, file[f].k = "func", NEW b, b = Body(file[f]),
         NEW p \in 1 .. Len(b), b[p].k \in Used, ~AutoAt(b, p),
         NEW g \in DOMAIN file, file[g].k = "func", NEW a, a = Body(file[g]),
         NEW q \in 1 .. Len(a), a[q].k \in Used
  PROVE  Object(g, q) = Object(f, p) <=> ~AutoAt(a, q) /\ a[q].name = b[p].name
<1> DEFINE n == b[p].name
           m == Means(b, p)
           k == Means(a, q)
<1>1. /\ StaticsAgree /\ Len(a) \in Nat /\ f # 0 /\ g # 0
      /\ Object(f, p) = IF m = 0 THEN <<0, n>> ELSE <<f, m>>
      /\ Object(g, q) = IF k = 0 THEN <<0, a[q].name>> ELSE <<g, k>>
  BY BodiesAre DEF Finished, FileAgrees
<1>2. \/ m = 0 /\ \A x \in DOMAIN file : \A y : ~StaticAt(x, y, n)
      \/ m # 0 /\ StaticAt(f, m, n)
  BY SymbolObject
<1>3. ASSUME ~AutoAt(a, q), a[q].name = n
      PROVE  Object(g, q) = Object(f, p)
  <2>1. CASE m # 0 /\ StaticAt(f, m, n)
    <3>1. g = f /\ k = m
      BY <1>1, <1>3, <2>1 DEF StaticsAgree
    <3> QED
      BY <1>1, <2>1, <3>1
  <2>2. CASE m = 0 /\ \A x \in DOMAIN file : \A y : ~StaticAt(x, y, n)
    <3>1. k = 0 \/ StaticAt(g, k, n)
      BY <1>3, SymbolObject
    <3>2. k = 0
      BY <2>2, <3>1
    <3> QED
      BY <1>1, <1>3, <2>2, <3>2
  <2> QED
    BY <1>2, <2>1, <2>2
<1>4. ASSUME Object(g, q) = Object(f, p)
      PROVE  ~AutoAt(a, q) /\ a[q].name = n
  <2>1. CASE m = 0
    BY <1>1, <1>4, <2>1 DEF AutoAt
  <2>2. CASE m # 0
    <3>1. g = f /\ k = m /\ a = b /\ StaticAt(f, m, n)
      BY <1>1, <1>2, <1>4, <2>2
    <3>2. b[m].k = "static" /\ b[m].name = n
      BY <3>1 DEF StaticAt
    <3>3. k \in Visible(a, q, a[q].name)
      BY <1>1, <2>2, <3>1, Meant DEF Means
    <3> QED
      BY <3>1, <3>2, <3>3 DEF Visible, Declares, AutoAt
  <2> QED
    BY <2>1, <2>2
<1> QED
  BY <1>3, <1>4

(* Its loads are as wide as it is, *)
LEMMA SymbolWidth ==
  ASSUME Finished, NEW f \in DOMAIN file, file[f].k = "func", NEW b, b = Body(file[f]),
         NEW p, Moves(file[f], p), ~AutoAt(b, p), NEW n, n = b[p].name, Named(n) # {}
  PROVE  /\ LoadWidth(n) = SizeOf(Object(f, p))
         /\ \A z : SizeIs(n, z) => LoadWidth(n) = z
<1>1. /\ p \in 1 .. Len(b) /\ b[p].k \in Used
  BY DEF Moves, Wrote, Used
<1>2. /\ file \in Files /\ SymbolMoves /\ SizesHeld /\ syms \in Seq(Symbols)
      /\ \A x, y, z : SizeIs(x, y) /\ SizeIs(x, z) => y = z
      /\ f # 0 /\ f \in DOMAIN Bodies /\ Bodies[f] = b
  BY BodiesAre DEF Finished, FileAgrees
<1> DEFINE s == SymbolOf(n)
<1>3. s \in DOMAIN syms /\ syms[s].name = n /\ SizeKnown(n) = syms[s].size
  BY <1>2, SymbolIs DEF SizeKnown
<1> HIDE DEF s
<1>4. ASSUME NEW z, SizeIs(n, z)
      PROVE  LoadWidth(n) = z
  <2>1. z \in {4, 8}
    BY <1>2, <1>4 DEF SymbolMoves
  <2>2. Storage(n)
    BY <1>4 DEF SizeIs, Storage, StaticAt
  <2>3. syms[s].sect \in Kept /\ SizeIs(n, syms[s].size)
    BY <1>2, <1>3, <2>2 DEF SizesHeld
  <2>4. syms[s].size = z
    BY <1>2, <1>4, <2>3
  <2> QED
    BY <1>3, <2>1, <2>4 DEF LoadWidth
<1>5. LoadWidth(n) = SizeOf(Object(f, p))
  <2>1. CASE /\ Means(b, p) = 0 /\ Object(f, p) = <<0, n>>
             /\ \A x \in DOMAIN file : \A q : ~StaticAt(x, q, n)
    <3> DEFINE V == {v \in DOMAIN file : file[v].k = "var" /\ file[v].name = n}
    <3>1. SizeOf(Object(f, p)) = IF V = {} THEN 4 ELSE file[MinOf(V)].size
      BY <2>1 DEF SizeOf
    <3>2. CASE V # {}
      <4>1. V \subseteq Nat
        BY <1>2, FilesHave
      <4>2. MinOf(V) \in V
        <5> HIDE DEF V
        <5> QED
          BY <3>2, <4>1, HasMin
      <4>3. SizeIs(n, file[MinOf(V)].size)
        BY <4>2 DEF SizeIs
      <4> QED
        BY <1>4, <3>1, <3>2, <4>3
    <3>3. CASE V = {}
      <4>1. ~Storage(n) /\ \A z : ~SizeIs(n, z)
        BY <2>1, <3>3 DEF Storage, SizeIs, StaticAt
      <4>2. syms[s].size = 0
        BY <1>2, <1>3, <4>1 DEF SizesHeld
      <4> QED
        BY <1>3, <3>1, <3>3, <4>2 DEF LoadWidth
    <3> QED
      BY <3>2, <3>3
  <2>2. CASE /\ StaticAt(f, Means(b, p), n) /\ Object(f, p) = <<f, Means(b, p)>>
    <3>1. SizeOf(Object(f, p)) = b[Means(b, p)].size
      BY <1>2, <2>2 DEF SizeOf
    <3>2. SizeIs(n, b[Means(b, p)].size)
      BY <2>2 DEF SizeIs
    <3> QED
      BY <1>4, <3>1, <3>2
  <2> QED
    BY <1>1, <2>1, <2>2, SymbolObject
<1> QED
  BY <1>4, <1>5


(* and its writes are those of the items that name it, and its own         *)
(* initialiser.                                                            *)
WriteTo(g, q, n) ==
  /\ g \in DOMAIN file /\ file[g].k = "func" /\ q \in 1 .. Len(Body(file[g]))
  /\ Wrote(file[g], q) /\ ~AutoAt(Body(file[g]), q) /\ Body(file[g])[q].name = n

(* What writes an object with a symbol. *)
LEMMA SymbolWrites ==
  ASSUME Finished, NEW f \in DOMAIN file, file[f].k = "func", NEW b, b = Body(file[f]),
         NEW p \in 1 .. Len(b), b[p].k \in Used, ~AutoAt(b, p), NEW n, n = b[p].name, NEW w
  PROVE  w \in WritesBefore(f, p) <=>
           \/ \E g, q : w = <<g, q>> /\ WriteTo(g, q, n) /\ Before(w, <<f, p>>)
           \/ \E v \in Initialised : w = <<0, v>> /\ file[v].name = n
<1> DEFINE o == Object(f, p)
<1>1. /\ file \in Files /\ StaticsAgree /\ f \in Nat /\ f > 0
      /\ \/ /\ Means(b, p) = 0 /\ o = <<0, n>>
         \/ /\ StaticAt(f, Means(b, p), n) /\ o = <<f, Means(b, p)>>
            /\ \A x \in DOMAIN file : file[x].name # n
  <2>1. f \in Nat /\ f # 0
    BY BodiesAre DEF Finished
  <2> QED
    BY <2>1, SymbolObject DEF Finished, FileAgrees
<1>2. ASSUME NEW g \in DOMAIN Bodies, NEW q \in StaticInits(g), o = <<g, q>>
      PROVE  FALSE
  <2>1. g \in DOMAIN file /\ file[g].k = "func" /\ Bodies[g] = Body(file[g]) /\ g # 0
    BY <1>1, BodiesAre DEF Bodies
  <2>2. g = f /\ q = Means(b, p) /\ StaticAt(g, q, n)
    BY <1>1, <1>2, <2>1
  <2>3. ~Body(file[g])[q].init
    BY <1>1, <2>1, <2>2 DEF StaticsAgree
  <2> QED
    BY <2>1, <2>3 DEF StaticInits
<1>3. \A v \in DOMAIN file : o = <<0, file[v].name>> <=> file[v].name = n
  BY <1>1
<1>4. ASSUME NEW g, NEW q
      PROVE  (g \in DOMAIN Bodies /\ q \in Writes(g) /\ Object(g, q) = o) <=> WriteTo(g, q, n)
  <2>1. g \in DOMAIN Bodies <=> g \in DOMAIN file /\ file[g].k = "func"
    BY DEF Bodies
  <2>2. ASSUME g \in DOMAIN file, file[g].k = "func"
        PROVE  (q \in Writes(g) /\ Object(g, q) = o) <=> WriteTo(g, q, n)
    <3>1. q \in Writes(g) <=> q \in 1 .. Len(Body(file[g])) /\ Wrote(file[g], q)
      BY <1>1, <2>2, MovesAre
    <3>2. Wrote(file[g], q) => Body(file[g])[q].k \in Used
      BY DEF Wrote, Used
    <3>3. ASSUME q \in 1 .. Len(Body(file[g])), Body(file[g])[q].k \in Used
          PROVE  Object(g, q) = o <=> ~AutoAt(Body(file[g]), q) /\ Body(file[g])[q].name = n
      BY <2>2, <3>3, OneObject
    <3> QED
      BY <2>2, <3>1, <3>2, <3>3 DEF WriteTo
  <2> QED
    BY <2>1, <2>2 DEF WriteTo
<1>5. w \in WritesOf(o) <=>
        \/ \E g, q : w = <<g, q>> /\ WriteTo(g, q, n)
        \/ \E v \in Initialised : w = <<0, v>> /\ file[v].name = n
  <2>1. {<<-e[1], e[2]>> : e \in {o} \cap
                       UNION {{g} \X StaticInits(g) : g \in DOMAIN Bodies}} = {}
    BY <1>2
  <2>2. w \in {<<0, v>> : v \in {x \in Initialised : o = <<0, file[x].name>>}}
        <=> \E v \in Initialised : w = <<0, v>> /\ file[v].name = n
    BY <1>3 DEF Initialised
  <2>3. \A u \in UNION {{g} \X Writes(g) : g \in DOMAIN Bodies} :
          \E g \in DOMAIN Bodies : \E q \in Writes(g) :
            u = <<g, q>> /\ Object(u[1], u[2]) = Object(g, q)
    OBVIOUS
  <2>4. \A g \in DOMAIN Bodies : \A q \in Writes(g) :
          /\ <<g, q>> \in UNION {{h} \X Writes(h) : h \in DOMAIN Bodies}
          /\ Object(<<g, q>>[1], <<g, q>>[2]) = Object(g, q)
    OBVIOUS
  <2> HIDE DEF o
  <2>5. w \in WritesOf(o) <=>
          \/ \E g, q : w = <<g, q>> /\ g \in DOMAIN Bodies /\ q \in Writes(g) /\ Object(g, q) = o
          \/ \E v \in Initialised : w = <<0, v>> /\ file[v].name = n
    BY <2>1, <2>2, <2>3, <2>4 DEF WritesOf
  <2> QED
    BY <1>4, <2>5
<1>6. \A v : Before(<<0, v>>, <<f, p>>)
  BY <1>1 DEF Before
<1> HIDE DEF o
<1> QED
  BY <1>5, <1>6 DEF WritesBefore, o

(* A store into a symbol is for what has the symbol's name. *)
StoreNames(u, n) ==
  /\ Named(n) # {} /\ u.mem = InSymbol(SymbolOf(n)) /\ u.len \in {4, 8}
  /\ \A x \in DOMAIN file : file[x].k = "func" => file[x].name # n
  /\ \/ u.at > 0 /\ WriteTo(u.fn, u.at, n)
     \/ u.at = 0 /\ u.fn \in Initialised /\ file[u.fn].name = n

(* Every store into a symbol has such a name. *)
LEMMA SymbolStore ==
  ASSUME Finished, NEW x \in DOMAIN code, NEW u, u = code[x], u.op = "store",
         u.mem.in = "symbol"
  PROVE  \E n : StoreNames(u, n)
<1>1. /\ u.at > 0 => ItemFits(u)
      /\ u.at = 0 => InitFits(u)
      /\ u.at < 0 => u.mem.in = "frame"
      /\ u.at \in Int
  BY InstructionIs
<1>2. ~(u.at < 0)
  <2>1. "symbol" # "frame"
    OBVIOUS
  <2> QED
    BY <1>1, <2>1
<1>3. CASE u.at = 0
  <2>1. InitFits(u)
    BY <1>1, <1>3
  <2>2. file[u.fn].k = "var" /\ u.fn \in DOMAIN file
    BY <2>1 DEF InitFits, Initialised
  <2>3. Storage(file[u.fn].name)
    BY <2>2 DEF Storage
  <2>4. \A y \in DOMAIN file : file[y].k = "func" => file[y].name # file[u.fn].name
    BY <2>3 DEF Finished, FileAgrees
  <2> QED
    BY <1>3, <2>1, <2>4 DEF StoreNames, InitFits
<1>4. CASE u.at > 0
  <2> DEFINE g == u.fn
             q == u.at
             a == Body(file[g])
             n == a[q].name
  <2>1. ItemFits(u) /\ g \in DOMAIN file /\ file[g].k = "func" /\ q \in 1 .. Len(a)
        /\ Wrote(file[g], q) /\ Moves(file[g], q)
    BY <1>1, <1>4 DEF ItemFits, Moves
  <2>2. ~AutoAt(a, q)
    BY <2>1 DEF ItemFits, FrameFits
  <2>3. SymbolFits(u, n)
    BY <2>1, <2>2 DEF ItemFits
  <2>4. \A y \in DOMAIN file : file[y].k = "func" => file[y].name # n
    BY <2>1, <2>2 DEF Finished, FileAgrees, SymbolMoves
  <2>5. WriteTo(g, q, n)
    BY <2>1, <2>2 DEF WriteTo
  <2> QED
    BY <1>4, <2>3, <2>4, <2>5 DEF StoreNames, SymbolFits
<1> QED
  BY <1>1, <1>2, <1>3, <1>4

(* Variables with a symbol lie apart. *)
LEMMA SymbolsApart ==
  ASSUME Finished, NEW s \in DOMAIN syms, NEW r \in DOMAIN syms, NEW x \in 0 .. 7,
         NEW y \in 0 .. 7, NEW e, NEW u, e.mem = InSymbol(s), u.mem = InSymbol(r),
         Byte(e, x) = Byte(u, y), syms[r].sect # "text"
  PROVE  s = r
<1>1. /\ syms[s].sect \in {"undef", "text", "data", "bss"}
      /\ syms[r].sect \in {"undef", "text", "data", "bss"}
      /\ syms[s].offset \in Nat /\ syms[r].offset \in Nat /\ s \in Nat /\ r \in Nat
  <2>1. syms[s] \in Symbols /\ syms[r] \in Symbols /\ s \in Nat /\ r \in Nat
    BY DEF Finished
  <2> QED
    BY <2>1 DEF Symbols
<1>2. /\ Byte(e, x) = IF syms[s].sect = "undef" THEN <<"undef", s, x>>
                      ELSE <<syms[s].sect, 0, syms[s].offset + x>>
      /\ Byte(u, y) = IF syms[r].sect = "undef" THEN <<"undef", r, y>>
                      ELSE <<syms[r].sect, 0, syms[r].offset + y>>
  BY DEF Byte, InSymbol
<1> DEFINE j == syms[s].sect
           k == syms[r].sect
           m == syms[s].offset
           l == syms[r].offset
<1>5. /\ j = "undef" => Byte(e, x) = <<"undef", s, x>>
      /\ j # "undef" => Byte(e, x) = <<j, 0, m + x>>
      /\ k = "undef" => Byte(u, y) = <<"undef", r, y>>
      /\ k # "undef" => Byte(u, y) = <<k, 0, l + y>>
  BY <1>2
<1>6. /\ j = "undef" /\ k = "undef" => s = r
      /\ j # "undef" /\ k # "undef" => j = k /\ m + x = l + y
      /\ ~(j = "undef" /\ k # "undef") /\ ~(j # "undef" /\ k = "undef")
  <2> HIDE DEF j, k, m, l
  <2> QED
    BY <1>5
<1>3. CASE syms[r].sect = "undef"
  BY <1>3, <1>6
<1>4. CASE syms[r].sect \in Kept
  <2>1. syms[s].sect = syms[r].sect /\ syms[s].offset + x = syms[r].offset + y
    BY <1>4, <1>6 DEF Kept
  <2>2. ~InOrder(s, r) /\ ~InOrder(r, s)
    BY <1>1, <2>1 DEF InOrder
  <2>3. ~(s < r) /\ ~(r < s)
    BY <1>4, <2>1, <2>2 DEF Finished, Placed
  <2> QED
    BY <1>1, <2>3
<1> QED
  BY <1>1, <1>3, <1>4 DEF Kept


(* So the last store into each of its bytes is the last write of it. *)
LEMMA SymbolRead ==
  ASSUME Finished, NEW f \in DOMAIN file, file[f].k = "func", NEW b, b = Body(file[f]),
         NEW p \in 1 .. Len(b), b[p].k = "get", ~AutoAt(b, p),
         NEW c \in DOMAIN code, NEW e, e = code[c], MoveOf(e, f, p), NEW s \in 0 .. e.len - 1
  PROVE  LET S == StoresBefore(c, Byte(e, s))
             W == WritesBefore(f, p)
         IN  /\ S = {} <=> W = {}
             /\ S # {} => Event(code[LastIn(S)]) = CHOOSE w \in W : \A u \in W : u = w \/ Before(u, w)
<1> DEFINE S == StoresBefore(c, Byte(e, s))
           W == WritesBefore(f, p)
           n == b[p].name
           r == SymbolOf(n)
<1>1. /\ file \in Files /\ f \in Nat /\ f # 0 /\ f > 0 /\ Len(b) \in Nat
      /\ code \in Seq(Emitted) /\ Ordered /\ syms \in Seq(Symbols) /\ SizesHeld
      /\ \A x \in DOMAIN file : x \in Nat /\ x > 0
      /\ \A x \in DOMAIN file : Len(Body(file[x])) \in Nat \/ file[x].k # "func"
  <2>1. file \in Files /\ DOMAIN file = 1 .. Len(file) /\ Len(file) \in Nat
    BY FilesHave DEF Finished
  <2>2. \A x \in DOMAIN file : x \in Nat /\ x > 0
    BY <2>1
  <2> QED
    BY <2>1, <2>2, BodiesAre DEF Finished
<1>2. /\ e.fn = f /\ e.at = p /\ e.op = "load" /\ p \in Nat /\ p > 0
      /\ Moves(file[f], p) /\ b[p].k \in Used
  BY <1>1 DEF MoveOf, Moves, Used
<1>3. SymbolFits(e, n)
  <2>1. ItemFits(e)
    BY <1>2, InstructionIs
  <2> QED
    BY <1>2, <2>1 DEF ItemFits
<1>4. /\ Named(n) # {} /\ e.mem = InSymbol(r) /\ e.len = LoadWidth(n) /\ e.len \in {4, 8}
      /\ r \in DOMAIN syms /\ syms[r].name = n /\ e.mem.in = "symbol" /\ e.mem.pos = r
  <2>1. Named(n) # {} /\ e.mem = InSymbol(r) /\ e.len = LoadWidth(n)
    BY <1>2, <1>3 DEF SymbolFits
  <2> QED
    BY <1>1, <2>1, SymbolIs DEF LoadWidth
<1>13. \A z : SizeIs(n, z) => LoadWidth(n) = z
  <2>1. PICK m : m = n
    OBVIOUS
  <2>2. Named(m) # {} /\ m = b[p].name
    BY <1>4, <2>1
  <2>4. Moves(file[f], p)
    BY <1>2
  <2>5. /\ LoadWidth(m) = SizeOf(Object(f, p))
        /\ \A z : SizeIs(m, z) => LoadWidth(m) = z
    BY <2>2, <2>4, SymbolWidth, Zenon
  <2>3. \A z : SizeIs(m, z) => LoadWidth(m) = z
    BY <2>5
  <2> QED
    BY <2>1, <2>3
<1> HIDE DEF r
<1>5. \A w : w \in W <=>
        \/ \E g, q : w = <<g, q>> /\ WriteTo(g, q, n) /\ Before(w, <<f, p>>)
        \/ \E v \in Initialised : w = <<0, v>> /\ file[v].name = n
  BY <1>2, SymbolWrites
<1>6. ASSUME NEW x \in DOMAIN code, code[x].op = "store", code[x].mem = e.mem,
             code[x].len >= e.len, code[x].len \in Nat, Sooner(x, c)
      PROVE  x \in S
  <2>1. Byte(code[x], s) = Byte(e, s)
    BY <1>4, <1>6 DEF Byte
  <2>2. s \in 0 .. code[x].len - 1
    BY <1>4, <1>6
  <2> QED
    BY <1>6, <2>1, <2>2 DEF StoresBefore, Stores, Covers
<1>7. ASSUME NEW g, NEW q, WriteTo(g, q, n), Before(<<g, q>>, <<f, p>>)
      PROVE  \E x \in S : Event(code[x]) = <<g, q>>
  <2> DEFINE a == Body(file[g])
  <2>1. /\ g \in DOMAIN file /\ file[g].k = "func" /\ q \in 1 .. Len(a) /\ q \in Nat /\ q > 0
        /\ g \in Nat /\ g > 0 /\ Moves(file[g], q) /\ ~AutoAt(a, q) /\ a[q].name = n
        /\ a[q].k # "get"
    BY <1>1, <1>7 DEF WriteTo, Moves, Wrote
  <2>2. PICK x \in DOMAIN code : MoveOf(code[x], g, q)
    BY <2>1, AllMade DEF MoveMade
  <2>3. code[x].fn = g /\ code[x].at = q /\ code[x].op = "store"
    BY <2>1, <2>2 DEF MoveOf
  <2>4. ItemFits(code[x]) /\ code[x].len \in Nat
    BY <2>1, <2>3, InstructionIs
  <2>5. SymbolFits(code[x], n)
    BY <2>1, <2>3, <2>4 DEF ItemFits
  <2>6. code[x].mem = e.mem /\ code[x].len >= e.len
    BY <1>4, <2>3, <2>5 DEF SymbolFits, r
  <2>7. Sooner(x, c)
    <3>1. x # c
      BY <1>2, <2>3
    <3>2. code[c].fn # code[x].fn \/ code[c].at # code[x].at
      BY <1>1, <1>2, <1>7, <2>1, <2>3 DEF Before
    <3> QED
      BY <1>1, <1>2, <1>7, <2>1, <2>3, <3>1, <3>2, InTurn
  <2>8. Event(code[x]) = <<g, q>>
    BY <2>1, <2>3 DEF Event
  <2> QED
    BY <1>6, <2>3, <2>4, <2>6, <2>7, <2>8
<1>8. ASSUME NEW v \in Initialised, file[v].name = n
      PROVE  \E x \in S : Event(code[x]) = <<0, v>>
  <2>1. PICK x \in DOMAIN code : code[x].at = 0 /\ code[x].fn = v
    BY AllMade DEF InitMade
  <2>2. InitFits(code[x]) /\ code[x].len \in Nat
    BY <2>1, InstructionIs
  <2>3. /\ code[x].op = "store" /\ code[x].mem = e.mem
        /\ code[x].len = IF file[v].size = 8 THEN 8 ELSE 4
    BY <1>4, <1>8, <2>1, <2>2 DEF InitFits, r
  <2>4. SizeIs(n, file[v].size) /\ file[v].size \in {4, 8}
    BY <1>8 DEF Initialised, SizeIs, Finished, FileAgrees
  <2>5. e.len = file[v].size
    BY <1>4, <1>13, <2>4
  <2>6. Sooner(x, c)
    BY <1>2, <2>1 DEF Sooner
  <2>7. Event(code[x]) = <<0, v>>
    BY <2>1 DEF Event
  <2> QED
    BY <1>6, <2>2, <2>3, <2>4, <2>5, <2>6, <2>7
<1>9. \A w \in W : \E x \in S : Event(code[x]) = w
  BY <1>5, <1>7, <1>8
<1>10. ASSUME NEW x \in S, NEW u, u = code[x]
       PROVE  Event(u) \in W /\ u.at >= 0 /\ (u.at > 0 => u.fn > 0)
  <2>1. x \in DOMAIN code /\ u.op = "store" /\ Sooner(x, c) /\ x # c
    BY <1>2, <1>10 DEF StoresBefore, Stores
  <2>2. PICK y \in 0 .. u.len - 1 : Byte(u, y) = Byte(e, s)
    BY <1>10 DEF StoresBefore, Covers
  <2>3. u.mem.in = "symbol"
    <3>1. Byte(e, s)[1] # "frame"
      BY <1>1, <1>4, FrameByte
    <3>2. u.mem.in \in {"frame", "symbol"}
      BY <1>10, <2>1, InstructionIs
    <3>3. u.mem.in = "frame" => Byte(u, y)[1] = "frame"
      BY <1>1, FrameByte
    <3> QED
      BY <2>2, <3>1, <3>2, <3>3
  <2>4. PICK m : StoreNames(u, m)
    BY <1>10, <2>1, <2>3, SymbolStore
  <2> DEFINE t == SymbolOf(m)
  <2>5. /\ t \in DOMAIN syms /\ syms[t].name = m /\ u.mem = InSymbol(t) /\ u.len \in {4, 8}
    BY <1>1, <2>4, SymbolIs DEF StoreNames
  <2> HIDE DEF t
  <2>6. syms[t].sect # "text"
    <3>1. ~(\E z \in DOMAIN file : file[z].k = "func" /\ file[z].name = m)
      BY <2>4 DEF StoreNames
    <3> QED
      BY <1>1, <2>5, <3>1 DEF SizesHeld, Kept
  <2>7. r = t
    <3>1. s \in 0 .. 7 /\ y \in 0 .. 7
      BY <1>4, <2>5
    <3> QED
      BY <1>4, <2>2, <2>5, <2>6, <3>1, SymbolsApart
  <2>8. m = n
    BY <1>4, <2>5, <2>7
  <2>9. CASE u.at = 0
    <3>1. u.fn \in Initialised /\ file[u.fn].name = n
      BY <2>4, <2>8, <2>9 DEF StoreNames
    <3>2. Event(u) = <<0, u.fn>>
      BY <2>9 DEF Event
    <3> QED
      BY <1>5, <2>9, <3>1, <3>2
  <2>10. CASE u.at > 0
    <3>1. WriteTo(u.fn, u.at, n)
      BY <2>4, <2>8, <2>10 DEF StoreNames
    <3>2. Event(u) = <<u.fn, u.at>>
      BY <2>10 DEF Event
    <3>3. u.fn \in Nat /\ u.fn > 0
      BY <1>1, <3>1 DEF WriteTo
    <3>6. u.at # p \/ u.fn # f
      BY <3>1 DEF WriteTo, Wrote
    <3>4. code[c].fn # code[x].fn \/ code[c].at # code[x].at
      BY <1>2, <1>10, <3>6
    <3>5. Before(<<u.fn, u.at>>, <<f, p>>)
      BY <1>1, <1>2, <1>10, <2>1, <2>10, <3>4, InTurn
    <3>7. u.at \in Int
      BY <1>10, <2>1, InstructionIs
    <3>8. Event(u) \in W
      BY <1>5, <3>1, <3>2, <3>5
    <3> QED
      BY <2>10, <3>3, <3>7, <3>8
  <2> QED
    BY <2>4, <2>9, <2>10 DEF StoreNames
<1>11. S = {} <=> W = {}
  BY <1>9, <1>10
<1>12. W \subseteq Int \X Int
  <2>1. \A g, q : WriteTo(g, q, n) => g \in Int /\ q \in Int
    BY <1>1 DEF WriteTo
  <2>2. \A v \in Initialised : v \in Int
    BY <1>1 DEF Initialised
  <2> QED
    BY <1>5, <2>1, <2>2
<1>15. S \subseteq DOMAIN code
  BY DEF StoresBefore, Stores
<1> SUFFICES /\ S = {} <=> W = {}
             /\ S # {} => Event(code[LastIn(S)]) = CHOOSE w \in W : \A u \in W : u = w \/ Before(u, w)
  OBVIOUS
<1> HIDE DEF S, W
<1>14. ASSUME S # {}
       PROVE  Event(code[LastIn(S)]) = CHOOSE w \in W : \A u \in W : u = w \/ Before(u, w)
  <2>1. Timely(S)
    BY <1>10, <1>14, <1>15 DEF Timely
  <2>2. \A x \in S : (\E w \in W : w = Event(code[x]) \/ Before(w, Event(code[x])))
                        => Event(code[x]) \in W
    BY <1>10
  <2>3. W # {}
    BY <1>11, <1>14
  <2> QED
    BY <1>1, <1>9, <1>12, <2>1, <2>2, <2>3, LastOfWrites
<1> QED
  BY <1>11, <1>14


-----------------------------------------------------------------------------
(* Every read of a compiled file. *)
LEMMA ReadsDone ==
  ASSUME Finished, NEW f \in DOMAIN Bodies, NEW p \in Reads(f)
  PROVE  LET w == LastWrite(f, p)
             o == Object(f, p)
         IN  \/ w = <<>> /\ Automatic(o)
             \/ \E c \in LoadsFor(f, p) :
                  /\ code[c].len = SizeOf(o)
                  /\ \A b \in 0 .. code[c].len - 1 : LastStore(c, Byte(code[c], b)) = w
<1> DEFINE o == Object(f, p)
           W == WritesBefore(f, p)
           t == Body(file[f])
<1>1. /\ f \in DOMAIN file /\ file[f].k = "func" /\ file \in Files
      /\ p \in 1 .. Len(t) /\ t[p].k = "get" /\ p \in Nat /\ p > 0 /\ Moves(file[f], p)
      /\ Bodies[f] = t /\ f # 0
      /\ o = IF Means(t, p) = 0 THEN <<0, t[p].name>> ELSE <<f, Means(t, p)>>
  <2>1. f \in DOMAIN file /\ file[f].k = "func" /\ file \in Files
    BY DEF Bodies, Finished
  <2>2. p \in 1 .. Len(t) /\ t[p].k = "get" /\ Len(t) \in Nat
    BY <2>1, MovesAre, BodiesAre
  <2>3. p \in Nat /\ p > 0 /\ Moves(file[f], p)
    BY <2>2 DEF Moves
  <2> QED
    BY <2>1, <2>2, <2>3, BodiesAre
<1>2. PICK c \in DOMAIN code : MoveOf(code[c], f, p)
  BY <1>1, AllMade DEF MoveMade
<1> DEFINE e == code[c]
<1>3. e.fn = f /\ e.at = p /\ e.op = "load"
  BY <1>1, <1>2 DEF MoveOf
<1>4. c \in LoadsFor(f, p)
  BY <1>3 DEF LoadsFor
<1>5. ItemFits(e)
  BY <1>1, <1>3, InstructionIs
<1>6. LastWrite(f, p) = IF W = {} THEN <<>>
                        ELSE CHOOSE w \in W : \A u \in W : u = w \/ Before(u, w)
  BY DEF LastWrite, WritesBefore
<1>7. \A byte : LastStore(c, byte) = IF StoresBefore(c, byte) = {} THEN <<>>
                                     ELSE Event(code[LastIn(StoresBefore(c, byte))])
  BY DEF LastStore, StoresBefore, LastIn
<1>8. CASE AutoAt(t, p)
  <2>1. o = <<f, Means(t, p)>> /\ t[Means(t, p)].k = "decl"
    BY <1>1, <1>8 DEF AutoAt
  <2>2. Automatic(o) /\ SizeOf(o) = t[Means(t, p)].size
    BY <1>1, <2>1 DEF Automatic, SizeOf
  <2>3. e.len = SizeOf(o)
    BY <1>1, <1>3, <1>5, <1>8, <2>2 DEF ItemFits, FrameFits
  <2>4. CASE W = {}
    BY <1>6, <2>2, <2>4
  <2>5. CASE W # {}
    <3>1. ASSUME NEW s \in 0 .. e.len - 1
          PROVE  LastStore(c, Byte(e, s)) = LastWrite(f, p)
      <4>1. StoresBefore(c, Byte(e, s)) # {}
            /\ Event(code[LastIn(StoresBefore(c, Byte(e, s)))])
                 = CHOOSE w \in W : \A u \in W : u = w \/ Before(u, w)
        BY <1>1, <1>2, <1>8, <2>5, FrameRead
      <4> QED
        BY <1>6, <1>7, <2>5, <4>1
    <3> QED
      BY <1>4, <2>3, <3>1
  <2> QED
    BY <2>4, <2>5
<1>9. CASE ~AutoAt(t, p)
  <2>1. SymbolFits(e, t[p].name)
    BY <1>1, <1>3, <1>5, <1>9 DEF ItemFits
  <2>2. PICK n : n = t[p].name
    OBVIOUS
  <2>3. Named(n) # {} /\ e.len = LoadWidth(n)
    BY <1>3, <2>1, <2>2 DEF SymbolFits
  <2>4. Moves(file[f], p) /\ f \in DOMAIN file /\ file[f].k = "func"
    BY <1>1
  <2>5. LoadWidth(n) = SizeOf(Object(f, p))
    BY <1>9, <2>2, <2>3, <2>4, SymbolWidth
  <2>6. ASSUME NEW s \in 0 .. e.len - 1
        PROVE  LastStore(c, Byte(e, s)) = LastWrite(f, p)
    <3> DEFINE S == StoresBefore(c, Byte(e, s))
    <3>1. /\ S = {} <=> W = {}
          /\ S # {} => Event(code[LastIn(S)]) = CHOOSE w \in W : \A u \in W : u = w \/ Before(u, w)
      BY <1>1, <1>2, <1>9, SymbolRead
    <3>2. LastStore(c, Byte(e, s)) = IF S = {} THEN <<>> ELSE Event(code[LastIn(S)])
      BY <1>7
    <3> HIDE DEF S, W
    <3> QED
      BY <1>6, <3>1, <3>2
  <2> QED
    BY <1>4, <2>3, <2>5, <2>6
<1> QED
  BY <1>8, <1>9

(* In a file of which C and the compiler agree (Agreed), every read of a   *)
(* variable - local, static or of the file - loads all its bytes as the    *)
(* last write of that variable left them, whatever the sizes of the        *)
(* variables, the depth of the blocks and the number of functions, as long *)
(* as the symbol table has room; and so does every read of what the        *)
(* prologue stored.                                                        *)
THEOREM NamesReads ==
  Spec => [](VaInVariadic /\ Agreed /\ (phase = "done" => Len(syms) < MaxSyms) => ReadsLastWrite)
<1>1. /\ NamesInv /\ SymbolsInv /\ Placed /\ SizesInv /\ CallsInv /\ KeptInv /\ MovesInv
      => (Agreed /\ phase = "done" /\ Len(syms) < MaxSyms => Finished)
  <2> SUFFICES ASSUME NamesInv, SymbolsInv, Placed, SizesInv, CallsInv, KeptInv, MovesInv,
                      Agreed, phase = "done", Len(syms) < MaxSyms
               PROVE  Finished
    OBVIOUS
  <2>1. FileAgrees
    BY FileFacts DEF NamesInv
  <2> QED
    BY <2>1 DEF Finished, NamesInv, TypeOK, SymbolsInv, SizesInv, CallsInv, KeptInv, MovesInv
<1>2. (Agreed /\ phase = "done" /\ Len(syms) < MaxSyms => Finished)
      /\ (VaInVariadic => PrologueKept)
      => (VaInVariadic /\ Agreed /\ (phase = "done" => Len(syms) < MaxSyms) => ReadsLastWrite)
  BY ReadsDone DEF ReadsLastWrite
<1> QED
  BY <1>1, <1>2, InitInv, StepInv, ScopeInit, ScopeStep, SymbolsInit, SymbolsStep, CallsInit,
     CallsStep, KeptInit, KeptStep, PlacedInit, PlacedStep, SizesInit, SizesStep, MovesInit,
     MovesStep, NamesPrologue, PTL DEF Spec
=============================================================================
