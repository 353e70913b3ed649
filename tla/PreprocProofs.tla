---------------------------- MODULE PreprocProofs ----------------------------
(***************************************************************************)
(* Theorems about the preprocessor's directives, for every source and      *)
(* every value of the bounds.  The counter of skipped groups is exactly    *)
(* the number of open groups that are off, so text is output if and only   *)
(* if every open group is on.  And a source that is ordinary is            *)
(* preprocessed as C says: Preproc implements AbstractPreproc.             *)
(***************************************************************************)
EXTENDS Preproc, FiniteSetTheorems, SequenceTheorems, TLAPS

(* A sequence that is not empty has a first element. *)
LEMMA HasFirst ==
  ASSUME NEW S, NEW q \in Seq(S), q # <<>>
  PROVE  1 \in DOMAIN q /\ q[1] \in S
  <1>1. Len(q) # 0 /\ Len(q) \in Nat /\ DOMAIN q = 1 .. Len(q)
    BY EmptySeq
  <1>2. QED
    BY <1>1

(* The groups of e that are off. *)
OffIn(e) == {i \in DOMAIN e : ~e[i]}

(* Off is about the groups that are open. *)
LEMMA OffIsOffIn == Off = OffIn(condEmit)
  BY DEF Off, OffIn

(* They can be counted. *)
LEMMA OffFinite ==
  ASSUME NEW e \in Seq(BOOLEAN)
  PROVE  IsFiniteSet(OffIn(e)) /\ Cardinality(OffIn(e)) \in Nat
  <1>1. OffIn(e) \in SUBSET (1 .. Len(e))
    BY DEF OffIn
  <1>2. IsFiniteSet(1 .. Len(e))
    BY FS_Interval
  <1>3. QED
    BY <1>1, <1>2, FS_Subset, FS_CardinalityType

(* Opening a group. *)
LEMMA OffAppend ==
  ASSUME NEW e \in Seq(BOOLEAN), NEW b \in BOOLEAN
  PROVE  /\ Append(e, b) \in Seq(BOOLEAN)
         /\ Cardinality(OffIn(Append(e, b))) =
              IF b THEN Cardinality(OffIn(e)) ELSE Cardinality(OffIn(e)) + 1
  <1> DEFINE n == Len(e) + 1
  <1>1. /\ Append(e, b) \in Seq(BOOLEAN)
        /\ Len(Append(e, b)) = n /\ n \in Nat
        /\ Append(e, b)[n] = b
        /\ \A i \in 1 .. Len(e) : Append(e, b)[i] = e[i]
    OBVIOUS
  <1>2. DOMAIN Append(e, b) = 1 .. n /\ DOMAIN e = 1 .. n - 1
    BY <1>1
  <1>3. n \notin OffIn(e)
    BY <1>1, <1>2 DEF OffIn
  <1>4. CASE b
    <2>1. OffIn(Append(e, b)) = OffIn(e)
      BY <1>1, <1>2, <1>4 DEF OffIn
    <2>2. QED
      BY <1>1, <1>4, <2>1
  <1>5. CASE ~b
    <2>1. OffIn(Append(e, b)) = OffIn(e) \cup {n}
      BY <1>1, <1>2, <1>5 DEF OffIn
    <2>2. IsFiniteSet(OffIn(e))
      BY OffFinite
    <2>3. Cardinality(OffIn(e) \cup {n}) = Cardinality(OffIn(e)) + 1
      BY <1>3, <2>2, FS_AddElement
    <2>4. QED
      BY <1>1, <1>5, <2>1, <2>3
  <1>6. QED
    BY <1>4, <1>5

(* #else turns the innermost group. *)
LEMMA OffTurned ==
  ASSUME NEW e \in Seq(BOOLEAN), Len(e) > 0
  PROVE  LET t == [e EXCEPT ![Len(e)] = ~@]
         IN  /\ t \in Seq(BOOLEAN)
             /\ Len(t) = Len(e)
             /\ Cardinality(OffIn(t)) =
                  IF e[Len(e)] THEN Cardinality(OffIn(e)) + 1
                  ELSE Cardinality(OffIn(e)) - 1
             /\ ~e[Len(e)] => Cardinality(OffIn(e)) > 0
  <1> DEFINE n == Len(e)
             t == [e EXCEPT ![n] = ~@]
  <1>1. n \in Nat /\ n \in DOMAIN e /\ e[n] \in BOOLEAN /\ DOMAIN e = 1 .. n
    OBVIOUS
  <1>2. /\ DOMAIN t = DOMAIN e
        /\ t[n] = ~e[n]
        /\ \A i \in DOMAIN e : i # n => t[i] = e[i]
    BY <1>1
  <1>3. t \in [1 .. n -> BOOLEAN]
    BY <1>1
  <1>4. t \in Seq(BOOLEAN) /\ Len(t) = n
    BY <1>1, <1>3
  <1>5. CASE e[n]
    <2>1. OffIn(t) = OffIn(e) \cup {n} /\ n \notin OffIn(e)
      BY <1>1, <1>2, <1>5, Zenon DEF OffIn
    <2>2. Cardinality(OffIn(t)) = Cardinality(OffIn(e)) + 1
      BY <2>1, OffFinite, FS_AddElement
    <2>3. QED
      BY <1>4, <1>5, <2>2
  <1>6. CASE ~e[n]
    <2>1. OffIn(t) = OffIn(e) \ {n} /\ n \in OffIn(e)
      BY <1>1, <1>2, <1>6, Zenon DEF OffIn
    <2>2. Cardinality(OffIn(t)) = Cardinality(OffIn(e)) - 1
      BY <2>1, OffFinite, FS_RemoveElement
    <2>3. Cardinality(OffIn(e)) \in Nat /\ Cardinality(OffIn(e)) # 0
      BY <2>1, OffFinite, FS_EmptySet
    <2>4. QED
      BY <1>4, <1>6, <2>2, <2>3
  <1>7. QED
    BY <1>5, <1>6

(* #endif removes it. *)
LEMMA OffClosed ==
  ASSUME NEW e \in Seq(BOOLEAN), Len(e) > 0
  PROVE  LET t == SubSeq(e, 1, Len(e) - 1)
         IN  /\ t \in Seq(BOOLEAN)
             /\ Len(t) < Len(e)
             /\ Cardinality(OffIn(t)) =
                  IF e[Len(e)] THEN Cardinality(OffIn(e))
                  ELSE Cardinality(OffIn(e)) - 1
             /\ ~e[Len(e)] => Cardinality(OffIn(e)) > 0
  <1> DEFINE n == Len(e)
             t == SubSeq(e, 1, n - 1)
  <1>1. n \in Nat /\ n \in DOMAIN e /\ e[n] \in BOOLEAN /\ DOMAIN e = 1 .. n
    OBVIOUS
  <1>2. /\ t \in Seq(BOOLEAN) /\ Len(t) = n - 1
        /\ DOMAIN t = 1 .. n - 1
        /\ \A i \in DOMAIN t : t[i] = e[i]
    BY <1>1
  <1> HIDE DEF t
  <1>3. DOMAIN t = DOMAIN e \ {n}
    BY <1>1, <1>2
  <1>4. OffIn(t) = OffIn(e) \ {n}
    BY <1>1, <1>2, <1>3, Zenon DEF OffIn
  <1>5. n \in OffIn(e) <=> ~e[n]
    BY <1>1 DEF OffIn
  <1>6. Cardinality(OffIn(t)) = IF n \in OffIn(e) THEN Cardinality(OffIn(e)) - 1
                                ELSE Cardinality(OffIn(e))
    BY <1>4, OffFinite, FS_RemoveElement
  <1>7. n \in OffIn(e) => Cardinality(OffIn(e)) # 0
    BY OffFinite, FS_EmptySet
  <1>8. Cardinality(OffIn(e)) \in Nat
    BY OffFinite
  <1>9. QED
    BY <1>1, <1>2, <1>5, <1>6, <1>7, <1>8 DEF t

---------------------------------------------------------------------------
(* The inductive invariant: ActiveIffAllOn alone does not say that two     *)
(* nested groups that are off need two #endifs.                            *)
SkipInv == /\ TypeOK
           /\ condSkip = Cardinality(OffIn(condEmit))

(* A count of zero says that there are none. *)
LEMMA SkipInvGives == SkipInv => ActiveIffAllOn
  BY OffFinite, FS_EmptySet, OffIsOffIn DEF SkipInv, TypeOK, ActiveIffAllOn

(* No group is open at first. *)
LEMMA InitSkip == Init => SkipInv
  <1> SUFFICES ASSUME Init PROVE SkipInv
    OBVIOUS
  <1>1. OffIn(condEmit) = {}
    BY DEF Init, OffIn
  <1>2. Cardinality({}) = 0
    BY FS_EmptySet
  <1>3. TypeOK
    <2>1. /\ incl \in Seq([file : FileNames, line : Nat]) /\ Len(incl) = 1
          /\ Len(condEmit) = 0 /\ condEmit \in Seq(BOOLEAN)
      BY DEF Init, FileNames
    <2>2. hadError \in BOOLEAN /\ exited \in BOOLEAN
      BY Zenon DEF Init
    <2>3. condSkip \in Nat /\ src \in Sources
      BY DEF Init
    <2>4. QED
      BY <2>1, <2>2, <2>3, BoundsAssumption DEF TypeOK
  <1>4. QED
    BY <1>1, <1>2, <1>3 DEF Init, SkipInv

(* What is left to show of a step that does not change the groups. *)
InclOK == /\ incl \in Seq([file : FileNames, line : Nat])
          /\ Len(incl) <= MaxDepth + 1

(* A step that leaves the groups alone keeps the count. *)
LEMMA SameGroups ==
  ASSUME SkipInv, UNCHANGED condVars, UNCHANGED src, InclOK',
         hadError' \in BOOLEAN, exited' \in BOOLEAN
  PROVE  SkipInv'
  BY DEF SkipInv, TypeOK, condVars, InclOK

(* A step to the next line of a file keeps the nesting. *)
LEMMA AdvanceKeeps ==
  ASSUME SkipInv, AtLine, Advance
  PROVE  InclOK'
  <1>1. /\ incl \in Seq([file : FileNames, line : Nat]) /\ incl # <<>>
        /\ Len(incl) <= MaxDepth + 1
    BY DEF SkipInv, TypeOK, AtLine
  <1>2. 1 \in DOMAIN incl /\ incl[1] \in [file : FileNames, line : Nat]
    BY <1>1, HasFirst
  <1>3. [incl[1] EXCEPT !.line = @ + 1] \in [file : FileNames, line : Nat]
    BY <1>2
  <1>4. incl' = [incl EXCEPT ![1] = [incl[1] EXCEPT !.line = @ + 1]]
    BY DEF Advance
  <1>5. incl' \in Seq([file : FileNames, line : Nat]) /\ Len(incl') = Len(incl)
    BY <1>1, <1>2, <1>3, <1>4
  <1>6. QED
    BY <1>1, <1>5 DEF InclOK

(* Opening a group counts it if it is off, *)
LEMMA OpenSkip == SkipInv /\ Open => SkipInv'
  <1> SUFFICES ASSUME SkipInv, Open PROVE SkipInv'
    OBVIOUS
  <1>1. Condition \in BOOLEAN
    BY DEF Condition, Meets, Defined, IsIn
  <1>2. PICK b \in BOOLEAN : Push(b)
    BY <1>1 DEF Open
  <1>3. /\ condEmit' = Append(condEmit, b)
        /\ condSkip' = IF b THEN condSkip ELSE condSkip + 1
        /\ Len(condEmit) < MaxCond
        /\ condEmit \in Seq(BOOLEAN) /\ condSkip \in Nat
        /\ condSkip = Cardinality(OffIn(condEmit))
    BY <1>2 DEF Push, Open, SkipInv, TypeOK
  <1>4. /\ condEmit' \in Seq(BOOLEAN)
        /\ Len(condEmit') <= MaxCond
        /\ condSkip' \in Nat
        /\ condSkip' = Cardinality(OffIn(condEmit'))
    BY <1>3, OffAppend, BoundsAssumption
  <1>5. InclOK'
    BY AdvanceKeeps DEF Open, AtOpening
  <1>6. QED
    BY <1>4, <1>5 DEF Open, SkipInv, TypeOK, InclOK

(* #else counts it or takes it back, *)
LEMMA ElseSkip == SkipInv /\ Else => SkipInv'
  <1> SUFFICES ASSUME SkipInv, Else PROVE SkipInv'
    OBVIOUS
  <1>1. /\ condEmit \in Seq(BOOLEAN) /\ condSkip \in Nat
        /\ condSkip = Cardinality(OffIn(condEmit))
        /\ Len(condEmit) <= MaxCond
    BY DEF SkipInv, TypeOK
  <1>2. /\ InclOK' /\ hadError' \in BOOLEAN /\ exited' \in BOOLEAN
        /\ UNCHANGED src
    BY AdvanceKeeps DEF Else, SkipInv, TypeOK
  <1>3. CASE Depth = 0
    BY <1>2, <1>3, SameGroups DEF Else
  <1>4. CASE Depth # 0
    <2>1. Len(condEmit) > 0
      BY <1>1, <1>4 DEF Depth
    <2>2. /\ condEmit' = [condEmit EXCEPT ![Len(condEmit)] = ~@]
          /\ condSkip' = IF condEmit[Len(condEmit)] THEN condSkip + 1
                         ELSE IF condSkip > 0 THEN condSkip - 1 ELSE condSkip
      BY <1>4 DEF Else, Depth
    <2>3. /\ condEmit' \in Seq(BOOLEAN)
          /\ Len(condEmit') <= MaxCond
          /\ Cardinality(OffIn(condEmit')) =
               IF condEmit[Len(condEmit)] THEN condSkip + 1 ELSE condSkip - 1
          /\ ~condEmit[Len(condEmit)] => condSkip > 0
      BY <1>1, <2>1, <2>2, OffTurned
    <2>4. condSkip' \in Nat /\ condSkip' = Cardinality(OffIn(condEmit'))
      BY <1>1, <2>2, <2>3
    <2>5. QED
      BY <1>2, <2>3, <2>4 DEF SkipInv, TypeOK, InclOK
  <1>5. QED
    BY <1>3, <1>4

(* and #endif takes it back if it was counted. *)
LEMMA EndifSkip == SkipInv /\ Endif => SkipInv'
  <1> SUFFICES ASSUME SkipInv, Endif PROVE SkipInv'
    OBVIOUS
  <1>1. /\ condEmit \in Seq(BOOLEAN) /\ condSkip \in Nat
        /\ condSkip = Cardinality(OffIn(condEmit))
        /\ Len(condEmit) <= MaxCond
    BY DEF SkipInv, TypeOK
  <1>2. /\ InclOK' /\ hadError' \in BOOLEAN /\ exited' \in BOOLEAN
        /\ UNCHANGED src
    BY AdvanceKeeps DEF Endif, SkipInv, TypeOK
  <1>3. CASE Depth = 0
    BY <1>2, <1>3, SameGroups DEF Endif
  <1>4. CASE Depth # 0
    <2>1. Len(condEmit) > 0
      BY <1>1, <1>4 DEF Depth
    <2>2. /\ condEmit' = SubSeq(condEmit, 1, Len(condEmit) - 1)
          /\ condSkip' = IF ~condEmit[Len(condEmit)] /\ condSkip > 0
                         THEN condSkip - 1 ELSE condSkip
      BY <1>4 DEF Endif, Depth
    <2>3. /\ condEmit' \in Seq(BOOLEAN)
          /\ Len(condEmit') <= MaxCond
          /\ condSkip' \in Nat
          /\ condSkip' = Cardinality(OffIn(condEmit'))
      BY <1>1, <2>1, <2>2, OffClosed, BoundsAssumption
    <2>4. QED
      BY <1>2, <2>3 DEF SkipInv, TypeOK, InclOK
  <1>5. QED
    BY <1>3, <1>4

(* The two actions that change how deep files nest. *)
LEMMA IncludeSkip == SkipInv /\ Include => SkipInv'
  <1> SUFFICES ASSUME SkipInv, Include PROVE SkipInv'
    OBVIOUS
  <1> DEFINE rest == [incl EXCEPT ![1].line = @ + 1]
             top  == [file |-> Line.file, line |-> 1]
  <1>1. rest \in Seq([file : FileNames, line : Nat]) /\ Len(rest) = Len(incl)
    <2>1. /\ incl \in Seq([file : FileNames, line : Nat]) /\ incl # <<>>
      BY DEF SkipInv, TypeOK, Include, Active, AtLine
    <2>2. 1 \in DOMAIN incl /\ incl[1] \in [file : FileNames, line : Nat]
      BY <2>1, HasFirst
    <2>3. [incl[1] EXCEPT !.line = @ + 1] \in [file : FileNames, line : Nat]
      BY <2>2
    <2>4. QED
      BY <2>1, <2>2, <2>3
  <1>2. top \in [file : FileNames, line : Nat]
    BY DEF Include, Found, SkipInv, TypeOK, FileNames
  <1>3. incl' = <<top>> \o rest
    BY DEF Include
  <1> HIDE DEF rest, top
  <1>4. /\ incl' \in Seq([file : FileNames, line : Nat])
        /\ Len(incl') = Len(incl) + 1
    BY <1>1, <1>2, <1>3
  <1>5. Len(incl) <= MaxDepth /\ Len(incl) \in Nat
    <2>1. Len(incl) \in Nat
      BY DEF SkipInv, TypeOK
    <2>2. QED
      BY <2>1, BoundsAssumption DEF Include, Nested
  <1>6. InclOK'
    BY <1>4, <1>5, BoundsAssumption DEF InclOK
  <1>7. /\ UNCHANGED condVars /\ UNCHANGED src
        /\ hadError' \in BOOLEAN /\ exited' \in BOOLEAN
    BY DEF Include, SkipInv, TypeOK
  <1>8. QED
    BY <1>6, <1>7, SameGroups

(* The end of a file leaves its groups open. *)
LEMMA EndSkip == SkipInv /\ (EndInclude \/ EndMain) => SkipInv'
  <1> SUFFICES ASSUME SkipInv, EndInclude \/ EndMain PROVE SkipInv'
    OBVIOUS
  <1>1. /\ incl \in Seq([file : FileNames, line : Nat]) /\ incl # <<>>
        /\ Len(incl) <= MaxDepth + 1
    BY DEF SkipInv, TypeOK, EndInclude, EndMain, AtEnd
  <1>2. /\ Tail(incl) \in Seq([file : FileNames, line : Nat])
        /\ Len(Tail(incl)) <= MaxDepth + 1
    BY <1>1, BoundsAssumption
  <1>3. InclOK'
    <2>1. CASE EndInclude
      BY <1>2, <2>1 DEF EndInclude, InclOK
    <2>2. CASE EndMain
      <3>1. incl' = <<>> /\ <<>> \in Seq([file : FileNames, line : Nat]) /\ Len(<<>>) = 0
        BY <2>2 DEF EndMain
      <3>2. QED
        BY <3>1, BoundsAssumption DEF InclOK
    <2>3. QED
      BY <2>1, <2>2
  <1>4. QED
    BY <1>3, SameGroups DEF EndInclude, EndMain, SkipInv, TypeOK

(* The other actions read the next line. *)
LEMMA LineSkip ==
  SkipInv /\ (\/ SkipLine \/ SkipDirective \/ Define \/ DefineFunction
              \/ Undef \/ Error \/ IgnoreDirective \/ PassInclude \/ Text
              \/ OpenTooDeep)
    => SkipInv'
  <1> SUFFICES ASSUME SkipInv,
                      \/ SkipLine \/ SkipDirective \/ Define \/ DefineFunction
                      \/ Undef \/ Error \/ IgnoreDirective \/ PassInclude \/ Text
                      \/ OpenTooDeep
               PROVE  SkipInv'
    OBVIOUS
  <1>1. AtLine /\ (Advance \/ UNCHANGED incl)
    BY DEF SkipLine, SkipDirective, Define, DefineFunction, Undef, Error,
           IgnoreDirective, PassInclude, Text, OpenTooDeep, AtOpening, Active, Exit
  <1>2. InclOK'
    <2>1. CASE Advance
      BY <1>1, <2>1, AdvanceKeeps
    <2>2. CASE UNCHANGED incl
      BY <2>2 DEF SkipInv, TypeOK, InclOK
    <2>3. QED
      BY <1>1, <2>1, <2>2
  <1>3. /\ UNCHANGED condVars /\ UNCHANGED src
        /\ hadError' \in BOOLEAN /\ exited' \in BOOLEAN
    BY DEF SkipLine, SkipDirective, Define, DefineFunction, Undef, Error,
           IgnoreDirective, PassInclude, Text, OpenTooDeep, Exit, SkipInv, TypeOK
  <1>4. QED
    BY <1>2, <1>3, SameGroups

(* Every step keeps the count. *)
LEMMA NextSkip == SkipInv /\ [Next]_vars => SkipInv'
  <1> SUFFICES ASSUME SkipInv, [Next]_vars PROVE SkipInv'
    OBVIOUS
  <1>1. CASE UNCHANGED vars
    BY <1>1 DEF vars, SkipInv, TypeOK
  <1>2. CASE Work
    BY <1>2, OpenSkip, ElseSkip, EndifSkip, IncludeSkip, EndSkip, LineSkip DEF Work
  <1>3. QED
    BY <1>1, <1>2 DEF Next, Stopped

---------------------------------------------------------------------------
(* The state keeps its types; in particular files never nest deeper than   *)
(* pp_buf allows, and groups never outgrow pp_cond_emit.                   *)
THEOREM TypeCorrect == Spec => []TypeOK
  <1>1. SkipInv => TypeOK
    BY DEF SkipInv
  <1>2. QED
    BY <1>1, InitSkip, NextSkip, PTL DEF Spec

(* Text is output exactly when every open group is on, whatever the files  *)
(* contain: well nested or not, with any number of #elses.                 *)
THEOREM ActiveCorrect == Spec => []ActiveIffAllOn
  BY InitSkip, NextSkip, SkipInvGives, PTL DEF Spec

---------------------------------------------------------------------------
(* The tables, as long as no name is in them twice. *)

(* A name is in a table if it is the name of an entry. *)
LEMMA InNames ==
  ASSUME NEW t, NEW n
  PROVE  IsIn(t, n) <=> n \in NamesIn(t)
  BY DEF IsIn, NamesIn

(* The first entry of a name is its only one. *)
LEMMA FirstIsOnly ==
  ASSUME NEW S, NEW t \in Seq(S), Unique(t), NEW i \in DOMAIN t
  PROVE  FirstIn(t, t[i].name) = i /\ Lookup(t, t[i].name) = t[i].value
  <1> DEFINE P(k) == /\ t[k].name = t[i].name
                     /\ \A j \in 1 .. k - 1 : t[j].name # t[i].name
  <1>1. DOMAIN t = 1 .. Len(t) /\ Len(t) \in Nat
    OBVIOUS
  <1>2. ASSUME NEW j \in 1 .. i - 1 PROVE t[j].name # t[i].name
    <2>1. j \in DOMAIN t /\ j # i
      BY <1>1
    <2>2. QED
      BY <2>1 DEF Unique
  <1>3. P(i)
    BY <1>2
  <1>4. ASSUME NEW k \in DOMAIN t, P(k) PROVE k = i
    BY <1>4 DEF Unique
  <1>5. FirstIn(t, t[i].name) = CHOOSE k \in DOMAIN t : P(k)
    BY DEF FirstIn
  <1> HIDE DEF P
  <1>6. FirstIn(t, t[i].name) = i
    BY <1>3, <1>4, <1>5
  <1>7. QED
    BY <1>6 DEF Lookup

(* #define of a new name adds it and leaves the others. *)
LEMMA TableGrows ==
  ASSUME NEW S, NEW t \in Seq(S), NEW e \in S, Unique(t), ~IsIn(t, e.name)
  PROVE  LET u == Append(t, e)
         IN  /\ u \in Seq(S) /\ Unique(u)
             /\ NamesIn(u) = NamesIn(t) \cup {e.name}
             /\ Lookup(u, e.name) = e.value
             /\ \A n \in NamesIn(t) : Lookup(u, n) = Lookup(t, n)
  <1> DEFINE u == Append(t, e)
             l == Len(t) + 1
  <1>1. /\ u \in Seq(S) /\ Len(t) \in Nat
        /\ DOMAIN u = 1 .. l /\ DOMAIN t = 1 .. l - 1
        /\ u[l] = e /\ \A i \in DOMAIN t : u[i] = t[i]
    OBVIOUS
  <1> HIDE DEF u
  <1>2. l \in Nat /\ DOMAIN u = DOMAIN t \cup {l} /\ l \notin DOMAIN t
    BY <1>1
  <1>3. \A i \in DOMAIN t : t[i].name # e.name
    BY DEF IsIn
  <1>4. Unique(u)
    BY <1>1, <1>2, <1>3 DEF Unique
  <1>5. NamesIn(u) = NamesIn(t) \cup {e.name}
    BY <1>1, <1>2 DEF NamesIn
  <1>6. Lookup(u, e.name) = e.value
    BY <1>1, <1>2, <1>4, FirstIsOnly
  <1>7. ASSUME NEW n \in NamesIn(t) PROVE Lookup(u, n) = Lookup(t, n)
    <2>1. PICK i \in DOMAIN t : t[i].name = n
      BY DEF NamesIn
    <2>2. i \in DOMAIN u /\ u[i] = t[i]
      BY <1>1, <1>2
    <2>3. Lookup(t, n) = t[i].value
      BY <2>1, FirstIsOnly
    <2>4. Lookup(u, n) = u[i].value
      BY <1>1, <1>4, <2>1, <2>2, FirstIsOnly
    <2>5. QED
      BY <2>2, <2>3, <2>4
  <1>8. QED
    BY <1>1, <1>4, <1>5, <1>6, <1>7 DEF u

(* #undef removes a name and leaves the others, though one entry moves. *)
LEMMA TableShrinks ==
  ASSUME NEW S, NEW t \in Seq(S), NEW n, Unique(t)
  PROVE  LET u == Without(t, n)
         IN  /\ u \in Seq(S) /\ Unique(u)
             /\ NamesIn(u) = NamesIn(t) \ {n}
             /\ \A m \in NamesIn(t) \ {n} : Lookup(u, m) = Lookup(t, m)
  <1>1. CASE ~IsIn(t, n)
    BY <1>1, InNames DEF Without
  <1>2. CASE IsIn(t, n)
    <2>1. PICK k \in DOMAIN t : t[k].name = n
      BY <1>2 DEF IsIn
    <2>2. FirstIn(t, n) = k
      BY <2>1, FirstIsOnly
    <2> DEFINE l == Len(t)
               moved == [t EXCEPT ![k] = t[l]]
               u == SubSeq(moved, 1, l - 1)
    <2>3. /\ l \in Nat \ {0} /\ DOMAIN t = 1 .. l /\ l \in DOMAIN t
          /\ \A i \in DOMAIN t : t[i] \in S
      OBVIOUS
    <2>4. moved \in [1 .. l -> S]
      BY <2>3
    <2>5. moved \in Seq(S) /\ Len(moved) = l
      BY <2>3, <2>4
    <2>6. \A i \in DOMAIN t : moved[i] = IF i = k THEN t[l] ELSE t[i]
      BY <2>3
    <2> HIDE DEF moved
    <2>7. /\ u \in Seq(S) /\ DOMAIN u = 1 .. l - 1
          /\ \A i \in 1 .. l - 1 : u[i] = moved[i]
      BY <2>3, <2>5
    <2>8. Without(t, n) = u
      BY <1>2, <2>2 DEF Without, moved
    <2> HIDE DEF u
    <2> DEFINE from(i) == IF i = k THEN l ELSE i
    <2>9. \A i \in DOMAIN u : from(i) \in DOMAIN t \ {k} /\ u[i] = t[from(i)]
      BY <2>3, <2>6, <2>7
    <2>10. \A i, j \in DOMAIN u : from(i) = from(j) => i = j
      BY <2>3, <2>7
    <2>11. \A j \in DOMAIN t \ {k} : \E i \in DOMAIN u : from(i) = j
      <3> SUFFICES ASSUME NEW j \in DOMAIN t \ {k} PROVE \E i \in DOMAIN u : from(i) = j
        OBVIOUS
      <3>1. CASE j = l
        <4>1. k \in DOMAIN u
          BY <2>3, <2>7, <3>1
        <4>2. QED
          BY <3>1, <4>1
      <3>2. CASE j # l
        BY <2>3, <2>7, <3>2
      <3>3. QED
        BY <3>1, <3>2
    <2> HIDE DEF from
    <2>12. Unique(u)
      BY <2>9, <2>10 DEF Unique
    <2>13. \A j \in DOMAIN t \ {k} : t[j].name # n
      BY <2>1 DEF Unique
    <2>14. NamesIn(u) = NamesIn(t) \ {n}
      <3>1. NamesIn(u) \subseteq NamesIn(t) \ {n}
        BY <2>9, <2>13 DEF NamesIn
      <3>2. ASSUME NEW m \in NamesIn(t) \ {n} PROVE m \in NamesIn(u)
        <4>1. PICK j \in DOMAIN t : t[j].name = m
          BY DEF NamesIn
        <4>2. j \in DOMAIN t \ {k}
          BY <2>1, <4>1
        <4>3. PICK i \in DOMAIN u : from(i) = j
          BY <2>11, <4>2
        <4>4. u[i].name = m
          BY <2>9, <4>1, <4>3
        <4>5. QED
          BY <4>4 DEF NamesIn
      <3>3. QED
        BY <3>1, <3>2
    <2>15. ASSUME NEW m \in NamesIn(t) \ {n} PROVE Lookup(u, m) = Lookup(t, m)
      <3>1. PICK i \in DOMAIN u : u[i].name = m
        BY <2>14 DEF NamesIn
      <3>2. from(i) \in DOMAIN t /\ u[i] = t[from(i)]
        BY <2>9
      <3>3. Lookup(u, m) = u[i].value
        BY <2>7, <2>12, <3>1, FirstIsOnly
      <3>4. Lookup(t, m) = t[from(i)].value
        BY <3>1, <3>2, FirstIsOnly
      <3>5. QED
        BY <3>2, <3>3, <3>4
    <2>16. QED
      BY <2>7, <2>8, <2>12, <2>14, <2>15
  <1>3. QED
    BY <1>1, <1>2

(* Both tables have their types, each name is in one of them at most, and   *)
(* there once.                                                             *)
Tables(m, f) == /\ m \in Seq(Entries) /\ f \in Seq(Entries)
                /\ Unique(m) /\ Unique(f)
                /\ NamesIn(m) \cap NamesIn(f) = {}

ObjectOf(v)   == [kind |-> "object", value |-> v]
FunctionOf(v) == [kind |-> "function", value |-> v]

With(d, n, v)     == [m \in DOMAIN d \cup {n} |-> IF m = n THEN v ELSE d[m]]
WithoutName(d, n) == [m \in DOMAIN d \ {n} |-> d[m]]

(* What the two tables together say of a name. *)
LEMMA DefsAre ==
  ASSUME NEW m, NEW f
  PROVE  /\ DOMAIN DefsOf(m, f) = NamesIn(m) \cup NamesIn(f)
         /\ \A n \in NamesIn(m) : DefsOf(m, f)[n] = ObjectOf(Lookup(m, n))
         /\ \A n \in NamesIn(f) \ NamesIn(m) : DefsOf(m, f)[n] = FunctionOf(Lookup(f, n))
  BY InNames DEF DefsOf, ObjectOf, FunctionOf

(* They say nothing else. *)
LEMMA DefsOnly ==
  ASSUME NEW m, NEW f, NEW D,
         D = [n \in NamesIn(m) \cup NamesIn(f) |-> D[n]],
         \A n \in NamesIn(m) : D[n] = ObjectOf(Lookup(m, n)),
         \A n \in NamesIn(f) \ NamesIn(m) : D[n] = FunctionOf(Lookup(f, n))
  PROVE  D = DefsOf(m, f)
  <1> DEFINE E == DefsOf(m, f)
             N == NamesIn(m) \cup NamesIn(f)
  <1>0. /\ DOMAIN DefsOf(m, f) = NamesIn(m) \cup NamesIn(f)
        /\ \A n \in NamesIn(m) : DefsOf(m, f)[n] = ObjectOf(Lookup(m, n))
        /\ \A n \in NamesIn(f) \ NamesIn(m) : DefsOf(m, f)[n] = FunctionOf(Lookup(f, n))
    BY DefsAre
  <1>1. E = [n \in N |-> E[n]]
    BY DEF DefsOf
  <1>2. ASSUME NEW n \in N PROVE D[n] = E[n]
    BY <1>0
  <1> HIDE DEF E
  <1>3. [n \in N |-> D[n]] = [n \in N |-> E[n]]
    BY <1>2
  <1>4. QED
    BY <1>1, <1>3 DEF E

(* #define of a macro without parameters, *)
LEMMA DefsObject ==
  ASSUME NEW m, NEW f, NEW e \in Entries, Tables(m, f),
         ~IsIn(m, e.name), ~IsIn(f, e.name)
  PROVE  /\ Tables(Append(m, e), f)
         /\ DefsOf(Append(m, e), f) = With(DefsOf(m, f), e.name, ObjectOf(e.value))
  <1> DEFINE u == Append(m, e)
             D == With(DefsOf(m, f), e.name, ObjectOf(e.value))
  <1>0. /\ DOMAIN DefsOf(m, f) = NamesIn(m) \cup NamesIn(f)
        /\ \A n \in NamesIn(m) : DefsOf(m, f)[n] = ObjectOf(Lookup(m, n))
        /\ \A n \in NamesIn(f) \ NamesIn(m) : DefsOf(m, f)[n] = FunctionOf(Lookup(f, n))
    BY DefsAre
  <1>1. m \in Seq(Entries) /\ Unique(m)
    BY DEF Tables
  <1>2. /\ u \in Seq(Entries) /\ Unique(u)
        /\ NamesIn(u) = NamesIn(m) \cup {e.name}
        /\ Lookup(u, e.name) = e.value
        /\ \A n \in NamesIn(m) : Lookup(u, n) = Lookup(m, n)
    BY <1>1, TableGrows
  <1> HIDE DEF u
  <1>3. e.name \notin NamesIn(f) /\ e.name \notin NamesIn(m)
    BY InNames
  <1>4. Tables(u, f)
    BY <1>2, <1>3 DEF Tables
  <1>5. D = [n \in NamesIn(u) \cup NamesIn(f) |-> D[n]]
    BY <1>0, <1>2 DEF With
  <1>6. ASSUME NEW n \in NamesIn(u) PROVE D[n] = ObjectOf(Lookup(u, n))
    BY <1>2, <1>3, <1>0 DEF With
  <1>7. ASSUME NEW n \in NamesIn(f) \ NamesIn(u) PROVE D[n] = FunctionOf(Lookup(f, n))
    BY <1>0, <1>2 DEF With
  <1>8. D = DefsOf(u, f)
    <2> HIDE DEF D
    <2>1. QED
      BY <1>5, <1>6, <1>7, DefsOnly
  <1>9. QED
    BY <1>4, <1>8 DEF u

(* of one with parameters, *)
LEMMA DefsFunction ==
  ASSUME NEW m, NEW f, NEW e \in Entries, Tables(m, f),
         ~IsIn(m, e.name), ~IsIn(f, e.name)
  PROVE  /\ Tables(m, Append(f, e))
         /\ DefsOf(m, Append(f, e)) = With(DefsOf(m, f), e.name, FunctionOf(e.value))
  <1> DEFINE u == Append(f, e)
             D == With(DefsOf(m, f), e.name, FunctionOf(e.value))
  <1>0. /\ DOMAIN DefsOf(m, f) = NamesIn(m) \cup NamesIn(f)
        /\ \A n \in NamesIn(m) : DefsOf(m, f)[n] = ObjectOf(Lookup(m, n))
        /\ \A n \in NamesIn(f) \ NamesIn(m) : DefsOf(m, f)[n] = FunctionOf(Lookup(f, n))
    BY DefsAre
  <1>1. f \in Seq(Entries) /\ Unique(f)
    BY DEF Tables
  <1>2. /\ u \in Seq(Entries) /\ Unique(u)
        /\ NamesIn(u) = NamesIn(f) \cup {e.name}
        /\ Lookup(u, e.name) = e.value
        /\ \A n \in NamesIn(f) : Lookup(u, n) = Lookup(f, n)
    BY <1>1, TableGrows
  <1> HIDE DEF u
  <1>3. e.name \notin NamesIn(f) /\ e.name \notin NamesIn(m)
    BY InNames
  <1>4. Tables(m, u)
    BY <1>2, <1>3 DEF Tables
  <1>5. D = [n \in NamesIn(m) \cup NamesIn(u) |-> D[n]]
    BY <1>0, <1>2 DEF With
  <1>6. ASSUME NEW n \in NamesIn(m) PROVE D[n] = ObjectOf(Lookup(m, n))
    BY <1>2, <1>3, <1>0 DEF With
  <1>7. ASSUME NEW n \in NamesIn(u) \ NamesIn(m) PROVE D[n] = FunctionOf(Lookup(u, n))
    BY <1>0, <1>2 DEF With
  <1>8. D = DefsOf(m, u)
    <2> HIDE DEF D
    <2>1. QED
      BY <1>5, <1>6, <1>7, DefsOnly
  <1>9. QED
    BY <1>4, <1>8 DEF u

(* and #undef. *)
LEMMA DefsWithout ==
  ASSUME NEW m, NEW f, NEW x, Tables(m, f), ~IsIn(f, x)
  PROVE  /\ Tables(Without(m, x), f)
         /\ DefsOf(Without(m, x), f) = WithoutName(DefsOf(m, f), x)
  <1> DEFINE u == Without(m, x)
             D == WithoutName(DefsOf(m, f), x)
  <1>0. /\ DOMAIN DefsOf(m, f) = NamesIn(m) \cup NamesIn(f)
        /\ \A n \in NamesIn(m) : DefsOf(m, f)[n] = ObjectOf(Lookup(m, n))
        /\ \A n \in NamesIn(f) \ NamesIn(m) : DefsOf(m, f)[n] = FunctionOf(Lookup(f, n))
    BY DefsAre
  <1>1. m \in Seq(Entries) /\ Unique(m)
    BY DEF Tables
  <1>2. /\ u \in Seq(Entries) /\ Unique(u)
        /\ NamesIn(u) = NamesIn(m) \ {x}
        /\ \A n \in NamesIn(m) \ {x} : Lookup(u, n) = Lookup(m, n)
    BY <1>1, TableShrinks
  <1> HIDE DEF u
  <1>3. x \notin NamesIn(f)
    BY InNames
  <1>4. Tables(u, f)
    BY <1>2, <1>3 DEF Tables
  <1>5. D = [n \in NamesIn(u) \cup NamesIn(f) |-> D[n]]
    <2>1. DOMAIN DefsOf(m, f) \ {x} = NamesIn(u) \cup NamesIn(f)
      BY <1>2, <1>3, <1>0 DEF WithoutName
    <2>2. QED
      BY <2>1 DEF WithoutName
  <1>6. ASSUME NEW n \in NamesIn(u) PROVE D[n] = ObjectOf(Lookup(u, n))
    BY <1>0, <1>2 DEF WithoutName
  <1>7. ASSUME NEW n \in NamesIn(f) \ NamesIn(u) PROVE D[n] = FunctionOf(Lookup(f, n))
    BY <1>2, <1>3, <1>0 DEF WithoutName
  <1>8. D = DefsOf(u, f)
    <2> HIDE DEF D
    <2>1. QED
      BY <1>5, <1>6, <1>7, DefsOnly
  <1>9. QED
    BY <1>4, <1>8 DEF u

---------------------------------------------------------------------------
(* The groups.  A group is dead if one that contains it is off. *)

State(e, i) == IF \E j \in 1 .. i - 1 : ~e[j] THEN "dead"
               ELSE IF e[i] THEN "on" ELSE "off"

(* GroupsOf has one state for each open group. *)
LEMMA GroupsAre ==
  ASSUME NEW e \in Seq(BOOLEAN)
  PROVE  /\ GroupsOf(e) = [i \in 1 .. Len(e) |-> State(e, i)]
         /\ GroupsOf(e) \in Seq({"on", "off", "dead"})
         /\ Len(GroupsOf(e)) = Len(e)
  <1>1. DOMAIN e = 1 .. Len(e) /\ Len(e) \in Nat
    OBVIOUS
  <1>2. GroupsOf(e) = [i \in 1 .. Len(e) |-> State(e, i)]
    BY <1>1, Zenon DEF GroupsOf, State
  <1>3. \A i \in 1 .. Len(e) : State(e, i) \in {"on", "off", "dead"}
    BY Zenon DEF State
  <1>4. GroupsOf(e) \in [1 .. Len(e) -> {"on", "off", "dead"}]
    BY <1>2, <1>3
  <1>5. QED
    BY <1>1, <1>2, <1>4

(* The state of a group depends on it and on those around it. *)
LEMMA StateLocal ==
  ASSUME NEW e, NEW t, NEW i \in Nat, \A j \in 1 .. i : t[j] = e[j], i > 0
  PROVE  State(t, i) = State(e, i)
  <1>1. i \in 1 .. i /\ \A j \in 1 .. i - 1 : j \in 1 .. i
    OBVIOUS
  <1>2. QED
    BY <1>1, Zenon DEF State

(* Every group is on if none is off. *)
LEMMA LiveIfNoneOff ==
  ASSUME NEW e \in Seq(BOOLEAN)
  PROVE  (\A i \in DOMAIN GroupsOf(e) : GroupsOf(e)[i] = "on") <=> OffIn(e) = {}
  <1>1. /\ DOMAIN e = 1 .. Len(e) /\ Len(e) \in Nat
        /\ \A i \in 1 .. Len(e) : \A j \in 1 .. i - 1 : j \in 1 .. Len(e)
    OBVIOUS
  <1>2. /\ DOMAIN GroupsOf(e) = 1 .. Len(e)
        /\ \A i \in 1 .. Len(e) : GroupsOf(e)[i] = State(e, i)
    BY GroupsAre
  <1>3. ASSUME OffIn(e) = {}, NEW i \in 1 .. Len(e) PROVE State(e, i) = "on"
    BY <1>1, <1>3, Zenon DEF State, OffIn
  <1>4. ASSUME NEW i \in OffIn(e) PROVE State(e, i) # "on"
    <2>1. ~e[i]
      BY DEF OffIn
    <2>2. "dead" # "on" /\ "off" # "on"
      OBVIOUS
    <2>3. QED
      BY <2>1, <2>2, Zenon DEF State
  <1>5. OffIn(e) \subseteq 1 .. Len(e)
    BY <1>1 DEF OffIn
  <1>6. QED
    BY <1>2, <1>3, <1>4, <1>5

(* A group is opened. *)
LEMMA GroupsOpened ==
  ASSUME NEW e \in Seq(BOOLEAN), NEW b \in BOOLEAN
  PROVE  GroupsOf(Append(e, b)) =
           Append(GroupsOf(e), IF OffIn(e) # {} THEN "dead" ELSE IF b THEN "on" ELSE "off")
  <1> DEFINE t == Append(e, b)
             n == Len(e) + 1
             g == IF OffIn(e) # {} THEN "dead" ELSE IF b THEN "on" ELSE "off"
  <1>1. /\ t \in Seq(BOOLEAN) /\ Len(t) = n /\ n \in Nat /\ t[n] = b
        /\ \A i \in 1 .. n - 1 : t[i] = e[i]
        /\ DOMAIN e = 1 .. n - 1
    OBVIOUS
  <1> HIDE DEF t
  <1>2. ASSUME NEW i \in 1 .. n - 1 PROVE State(t, i) = State(e, i)
    <2>1. i \in Nat /\ i > 0 /\ \A j \in 1 .. i : t[j] = e[j]
      BY <1>1
    <2>2. QED
      BY <2>1, StateLocal
  <1>3. State(t, n) = g
    <2>1. (\E j \in 1 .. n - 1 : ~t[j]) <=> OffIn(e) # {}
      BY <1>1, Zenon DEF OffIn
    <2>2. QED
      BY <1>1, <2>1, Zenon DEF State
  <1> HIDE DEF g
  <1>4. /\ GroupsOf(t) = [i \in 1 .. n |-> State(t, i)]
        /\ GroupsOf(t) \in Seq({"on", "off", "dead"}) /\ Len(GroupsOf(t)) = n
    BY <1>1, GroupsAre
  <1>5. /\ GroupsOf(e) = [i \in 1 .. n - 1 |-> State(e, i)]
        /\ GroupsOf(e) \in Seq({"on", "off", "dead"}) /\ Len(GroupsOf(e)) = n - 1
    BY <1>1, GroupsAre
  <1>6. g \in {"on", "off", "dead"}
    BY DEF g
  <1>7. /\ Append(GroupsOf(e), g) \in Seq({"on", "off", "dead"})
        /\ Len(Append(GroupsOf(e), g)) = n
        /\ Append(GroupsOf(e), g)[n] = g
        /\ \A i \in 1 .. n - 1 : Append(GroupsOf(e), g)[i] = State(e, i)
    BY <1>1, <1>5, <1>6
  <1>8. \A i \in 1 .. n : GroupsOf(t)[i] = Append(GroupsOf(e), g)[i]
    BY <1>1, <1>2, <1>3, <1>4, <1>7
  <1>9. QED
    BY <1>4, <1>7, <1>8, SeqEqual DEF t, g

(* The innermost group is dead if one around it is off. *)
LEMMA DeadInside ==
  ASSUME NEW e \in Seq(BOOLEAN), \E i \in 1 .. Len(e) - 1 : ~e[i]
  PROVE  /\ GroupsOf(e) # <<>> /\ Len(GroupsOf(e)) = Len(e)
         /\ GroupsOf(e)[Len(e)] = "dead"
         /\ [GroupsOf(e) EXCEPT ![Len(e)] = "dead"] = GroupsOf(e)
  <1>1. Len(e) \in Nat /\ Len(e) > 0 /\ Len(e) \in 1 .. Len(e)
    OBVIOUS
  <1>2. /\ GroupsOf(e) = [i \in 1 .. Len(e) |-> State(e, i)]
        /\ Len(GroupsOf(e)) = Len(e)
    BY GroupsAre
  <1>3. State(e, Len(e)) = "dead"
    BY Zenon DEF State
  <1>4. GroupsOf(e)[Len(e)] = "dead"
    BY <1>1, <1>2, <1>3
  <1>5. [GroupsOf(e) EXCEPT ![Len(e)] = "dead"] = GroupsOf(e)
    <2> DEFINE g == GroupsOf(e)
    <2>1. g = [i \in DOMAIN g |-> g[i]] /\ g[Len(e)] = "dead"
      BY <1>2, <1>4
    <2> HIDE DEF g
    <2>2. [g EXCEPT ![Len(e)] = "dead"] = g
      BY <2>1
    <2>3. QED
      BY <2>2 DEF g
  <1>6. QED
    BY <1>1, <1>2, <1>4, <1>5

(* #else turns the innermost group, unless it is dead. *)
LEMMA GroupsTurned ==
  ASSUME NEW e \in Seq(BOOLEAN), Len(e) > 0
  PROVE  GroupsOf([e EXCEPT ![Len(e)] = ~@]) =
           [GroupsOf(e) EXCEPT ![Len(e)] = C!Other(@)]
  <1> DEFINE n == Len(e)
             t == [e EXCEPT ![n] = ~@]
             g == GroupsOf(e)
  <1>0. n \in Nat /\ n \in DOMAIN e /\ e[n] \in BOOLEAN /\ DOMAIN e = 1 .. n
    OBVIOUS
  <1>1. /\ DOMAIN t = DOMAIN e
        /\ t[n] = ~e[n]
        /\ \A i \in DOMAIN e : i # n => t[i] = e[i]
        /\ t \in [1 .. n -> BOOLEAN]
    <2>1. t \in [1 .. n -> BOOLEAN]
      BY <1>0
    <2>2. /\ DOMAIN t = DOMAIN e
          /\ t[n] = ~e[n]
          /\ \A i \in DOMAIN e : i # n => t[i] = e[i]
      BY <1>0
    <2>3. QED
      BY <2>1, <2>2
  <1>2. t \in Seq(BOOLEAN) /\ Len(t) = n
    BY <1>0, <1>1
  <1> HIDE DEF t, n
  <1>3. ASSUME NEW i \in 1 .. n - 1 PROVE State(t, i) = State(e, i)
    <2>1. i \in Nat /\ i > 0 /\ \A j \in 1 .. i : j \in DOMAIN e /\ j # n
      BY <1>0
    <2>2. \A j \in 1 .. i : t[j] = e[j]
      BY <1>1, <2>1, Zenon
    <2>3. QED
      BY <2>1, <2>2, StateLocal
  <1>4. State(t, n) = C!Other(State(e, n))
    <2>0. \A j \in 1 .. n - 1 : j \in DOMAIN e /\ j # n
      BY <1>0
    <2>1. (\E j \in 1 .. n - 1 : ~t[j]) <=> (\E j \in 1 .. n - 1 : ~e[j])
      BY <1>1, <2>0, Zenon
    <2>2. CASE \E j \in 1 .. n - 1 : ~e[j]
      <3>1. State(t, n) = "dead" /\ State(e, n) = "dead"
        BY <2>1, <2>2, Zenon DEF State
      <3>2. QED
        BY <3>1 DEF C!Other
    <2>3. CASE ~\E j \in 1 .. n - 1 : ~e[j]
      <3>1. State(t, n) = (IF t[n] THEN "on" ELSE "off")
        BY <2>1, <2>3, Zenon DEF State
      <3>2. State(e, n) = (IF e[n] THEN "on" ELSE "off")
        BY <2>3, Zenon DEF State
      <3>3. QED
        BY <1>1, <3>1, <3>2 DEF C!Other
    <2>4. QED
      BY <2>2, <2>3
  <1>5. GroupsOf(t) = [i \in 1 .. n |-> State(t, i)]
    BY <1>2, GroupsAre
  <1>6. g = [i \in 1 .. n |-> State(e, i)]
    BY GroupsAre DEF n
  <1> HIDE DEF g
  <1>7. [g EXCEPT ![n] = C!Other(@)] = [i \in 1 .. n |-> IF i = n THEN C!Other(g[n]) ELSE g[i]]
    BY <1>6
  <1>8. ASSUME NEW i \in 1 .. n PROVE State(t, i) = IF i = n THEN C!Other(g[n]) ELSE g[i]
    BY <1>0, <1>3, <1>4, <1>6
  <1>9. QED
    BY <1>5, <1>7, <1>8, Zenon DEF t, g, n

(* #endif closes it. *)
LEMMA GroupsClosed ==
  ASSUME NEW e \in Seq(BOOLEAN), Len(e) > 0
  PROVE  GroupsOf(SubSeq(e, 1, Len(e) - 1)) = SubSeq(GroupsOf(e), 1, Len(e) - 1)
  <1> DEFINE l == Len(e) - 1
             t == SubSeq(e, 1, l)
             g == GroupsOf(e)
  <1>0. l \in Nat /\ l <= Len(e) /\ DOMAIN e = 1 .. Len(e) /\ Len(e) \in DOMAIN e
    OBVIOUS
  <1>1. /\ t \in Seq(BOOLEAN) /\ Len(t) = l /\ l \in Nat /\ l <= Len(e)
        /\ \A i \in 1 .. l : t[i] = e[i]
    <2>1. /\ t \in Seq(BOOLEAN) /\ Len(t) = l
          /\ DOMAIN t = 1 .. l
          /\ \A i \in DOMAIN t : t[i] = e[i]
      BY <1>0
    <2>2. QED
      BY <1>0, <2>1
  <1> HIDE DEF t
  <1>2. ASSUME NEW i \in 1 .. l PROVE State(t, i) = State(e, i)
    <2>1. i \in Nat /\ i > 0 /\ \A j \in 1 .. i : t[j] = e[j]
      BY <1>1
    <2>2. QED
      BY <2>1, StateLocal
  <1>3. /\ GroupsOf(t) = [i \in 1 .. l |-> State(t, i)]
        /\ GroupsOf(t) \in Seq({"on", "off", "dead"}) /\ Len(GroupsOf(t)) = l
    BY <1>1, GroupsAre
  <1>4. /\ g = [i \in 1 .. Len(e) |-> State(e, i)]
        /\ g \in Seq({"on", "off", "dead"}) /\ Len(g) = Len(e)
    BY GroupsAre
  <1> HIDE DEF g
  <1>5. /\ SubSeq(g, 1, l) \in Seq({"on", "off", "dead"}) /\ Len(SubSeq(g, 1, l)) = l
        /\ \A i \in 1 .. l : SubSeq(g, 1, l)[i] = g[i]
    BY <1>1, <1>4
  <1>6. \A i \in 1 .. l : GroupsOf(t)[i] = SubSeq(g, 1, l)[i]
    BY <1>1, <1>2, <1>3, <1>4, <1>5
  <1>7. QED
    BY <1>3, <1>5, <1>6, SeqEqual DEF t, g

---------------------------------------------------------------------------
(* The state, seen as C's. *)

(* The files that are open are files of the source. *)
Reads == \A i \in DOMAIN incl : incl[i].file \in DOMAIN src /\ incl[i].line >= 1

(* The counter counts, the files exist, and the tables are in order. *)
RInv == SkipInv /\ Reads /\ Tables(macros, funcs)

(* A line that is read is a line of the source. *)
LEMMA LineIs ==
  ASSUME RInv, AtLine
  PROVE  /\ Line \in Lines
         /\ Line.k = "if" => Line.cond.op \in {"defined", "not", "value"}
         /\ Line.k \in {"define", "function"} =>
              [name |-> Line.name, value |-> Line.value] \in Entries
  <1>1. /\ src \in Sources
        /\ incl \in Seq([file : FileNames, line : Nat]) /\ incl # <<>>
    BY DEF RInv, SkipInv, TypeOK, AtLine
  <1>2. 1 \in DOMAIN incl /\ Top \in [file : FileNames, line : Nat]
    BY <1>1, HasFirst DEF Top
  <1>3. Top.file \in DOMAIN src /\ Top.line >= 1 /\ Top.line \in Nat
    BY <1>2 DEF RInv, Reads, Top
  <1>4. File \in Seq(Lines)
    BY <1>1, <1>3, SourcesAssumption DEF File
  <1>5. Top.line <= Len(File)
    BY DEF AtLine
  <1>6. Line \in Lines
    BY <1>3, <1>4, <1>5 DEF Line
  <1>7. Line.k \in {"define", "function"} =>
          [name |-> Line.name, value |-> Line.value] \in Entries
    BY <1>6 DEF Entries
  <1>8. QED
    BY <1>6, <1>7, SourcesAssumption

(* C reads the same line, and it is live when nothing is skipped. *)
LEMMA SameLine ==
  /\ C!Line = Line /\ C!File = File
  /\ C!OnLine <=> AtLine
  BY DEF C!Line, C!File, C!OnLine, C!Reading, Line, File, Top, AtLine

LEMMA SameLive ==
  ASSUME RInv
  PROVE  C!Live <=> condSkip = 0
  <1>1. condEmit \in Seq(BOOLEAN) /\ condSkip = Cardinality(OffIn(condEmit))
    BY DEF RInv, SkipInv, TypeOK
  <1>2. C!Live <=> OffIn(condEmit) = {}
    BY <1>1, LiveIfNoneOff DEF C!Live
  <1>3. Cardinality(OffIn(condEmit)) = 0 <=> OffIn(condEmit) = {}
    BY <1>1, OffFinite, FS_EmptySet
  <1>4. QED
    BY <1>1, <1>2, <1>3

(* C knows a name if one of the tables has it; the value of an object      *)
(* macro is that of its entry.                                             *)
LEMMA SameNames ==
  ASSUME NEW n
  PROVE  /\ C!IsDefined(n) <=> Defined(n) \/ IsIn(funcs, n)
         /\ Defined(n) => DefsOf(macros, funcs)[n] = ObjectOf(ValueOf(n))
         /\ ~Defined(n) /\ IsIn(funcs, n) =>
              DefsOf(macros, funcs)[n] = FunctionOf(Lookup(funcs, n))
  <1>1. /\ DOMAIN DefsOf(macros, funcs) = NamesIn(macros) \cup NamesIn(funcs)
        /\ \A m \in NamesIn(macros) :
             DefsOf(macros, funcs)[m] = ObjectOf(Lookup(macros, m))
        /\ \A m \in NamesIn(funcs) \ NamesIn(macros) :
             DefsOf(macros, funcs)[m] = FunctionOf(Lookup(funcs, m))
    BY DefsAre
  <1>2. /\ Defined(n) <=> n \in NamesIn(macros)
        /\ IsIn(funcs, n) <=> n \in NamesIn(funcs)
    BY InNames DEF Defined
  <1>3. Lookup(macros, n) = ValueOf(n)
    BY DEF Lookup, ValueOf
  <1>4. QED
    BY <1>1, <1>2, <1>3 DEF C!IsDefined

(* A condition that is evaluated has the value C gives it. *)
LEMMA SameCondition ==
  ASSUME RInv, AtLine, condSkip = 0, Line.k \in {"ifdef", "ifndef", "if"},
         ~IsIn(funcs, Tested)
  PROVE  C!True <=> Condition
  <1>1. C!IsDefined(Tested) <=> Defined(Tested)
    BY SameNames
  <1>2. Defined(Tested) => DefsOf(macros, funcs)[Tested].value = ValueOf(Tested)
    <2>1. Defined(Tested) => DefsOf(macros, funcs)[Tested] = ObjectOf(ValueOf(Tested))
      BY SameNames
    <2>2. ObjectOf(ValueOf(Tested)).value = ValueOf(Tested)
      BY DEF ObjectOf
    <2>3. QED
      BY <2>1, <2>2
  <1>3. CASE Line.k = "ifdef"
    <2>1. Tested = Line.name
      BY <1>3 DEF Tested
    <2>2. C!True = C!IsDefined(Line.name)
      BY <1>3, SameLine DEF C!True
    <2>3. Condition = Defined(Line.name)
      BY <1>3 DEF Condition
    <2>4. QED
      BY <1>1, <2>1, <2>2, <2>3
  <1>4. CASE Line.k = "ifndef"
    <2>1. Tested = Line.name
      BY <1>4 DEF Tested
    <2>2. C!True = ~C!IsDefined(Line.name)
      BY <1>4, SameLine DEF C!True
    <2>3. Condition = ~Defined(Line.name)
      BY <1>4 DEF Condition
    <2>4. QED
      BY <1>1, <2>1, <2>2, <2>3
  <1>5. CASE Line.k = "if"
    <2>1. Tested = Line.cond.name
      BY <1>5 DEF Tested
    <2>2. C!True = C!Holds(Line.cond)
      BY <1>5, SameLine DEF C!True
    <2>3. Condition = (condSkip = 0 /\ Meets(Line.cond))
      BY <1>5 DEF Condition
    <2>4. Line.cond.op \in {"defined", "not", "value"}
      BY <1>5, LineIs
    <2>5. C!Holds(Line.cond) <=> Meets(Line.cond)
      BY <1>1, <1>2, <2>1, <2>4 DEF C!Holds, Meets
    <2>6. QED
      BY <2>2, <2>3, <2>5
  <1>6. QED
    BY <1>3, <1>4, <1>5

---------------------------------------------------------------------------
(* What every step keeps. *)

(* A file whose next line is read stays open. *)
LEMMA FirstAdvanced ==
  ASSUME RInv, AtLine
  PROVE  LET r == [incl EXCEPT ![1].line = @ + 1]
         IN  /\ r \in Seq([file : FileNames, line : Nat]) /\ Len(r) = Len(incl)
             /\ \A i \in DOMAIN r : r[i].file \in DOMAIN src /\ r[i].line >= 1
  <1> DEFINE top == [incl[1] EXCEPT !.line = @ + 1]
             r == [incl EXCEPT ![1] = top]
  <1>1. /\ incl \in Seq([file : FileNames, line : Nat]) /\ incl # <<>>
        /\ \A i \in DOMAIN incl : incl[i].file \in DOMAIN src /\ incl[i].line >= 1
    BY DEF RInv, SkipInv, TypeOK, AtLine, Reads
  <1>2. 1 \in DOMAIN incl /\ incl[1] \in [file : FileNames, line : Nat]
    BY <1>1, HasFirst
  <1>3. /\ top \in [file : FileNames, line : Nat]
        /\ top.file \in DOMAIN src /\ top.line >= 1
    BY <1>1, <1>2
  <1> HIDE DEF top
  <1>4. r \in Seq([file : FileNames, line : Nat]) /\ Len(r) = Len(incl)
    BY <1>1, <1>2, <1>3
  <1>5. DOMAIN r = DOMAIN incl /\ \A i \in DOMAIN r : r[i] = IF i = 1 THEN top ELSE incl[i]
    BY <1>1, <1>2
  <1> HIDE DEF r
  <1>6. \A i \in DOMAIN r : r[i].file \in DOMAIN src /\ r[i].line >= 1
    BY <1>1, <1>3, <1>5
  <1>7. QED
    BY <1>4, <1>6 DEF r, top

(* Files stay open as they are, *)
LEMMA ReadsAdvance ==
  ASSUME RInv, AtLine, Advance \/ UNCHANGED incl, UNCHANGED src
  PROVE  Reads'
  <1>1. CASE Advance
    <2>1. incl' = [incl EXCEPT ![1].line = @ + 1]
      BY <1>1 DEF Advance
    <2>2. QED
      BY <2>1, FirstAdvanced DEF Reads
  <1>2. CASE UNCHANGED incl
    BY <1>2 DEF RInv, Reads
  <1>3. QED
    BY <1>1, <1>2

(* and the one that is included is added, *)
LEMMA ReadsInclude ==
  ASSUME RInv, Include
  PROVE  Reads'
  <1> DEFINE r == [incl EXCEPT ![1].line = @ + 1]
             top == [file |-> Line.file, line |-> 1]
  <1>1. incl' = <<top>> \o r /\ Line.file \in DOMAIN src /\ AtLine /\ UNCHANGED src
    BY DEF Include, Found, Active
  <1>2. /\ r \in Seq([file : FileNames, line : Nat])
        /\ \A i \in DOMAIN r : r[i].file \in DOMAIN src /\ r[i].line >= 1
    BY <1>1, FirstAdvanced
  <1> HIDE DEF r
  <1>3. top.file \in DOMAIN src /\ top.line >= 1
    BY <1>1
  <1> HIDE DEF top
  <1>4. /\ Len(r) \in Nat /\ DOMAIN r = 1 .. Len(r)
        /\ DOMAIN (<<top>> \o r) = 1 .. Len(r) + 1
        /\ (<<top>> \o r)[1] = top
        /\ \A i \in 2 .. Len(r) + 1 : (<<top>> \o r)[i] = r[i - 1]
    BY <1>2
  <1>5. ASSUME NEW i \in 1 .. Len(r) + 1
        PROVE  i = 1 \/ (i \in 2 .. Len(r) + 1 /\ i - 1 \in DOMAIN r)
    BY <1>4
  <1>6. \A i \in DOMAIN (<<top>> \o r) :
          (<<top>> \o r)[i].file \in DOMAIN src /\ (<<top>> \o r)[i].line >= 1
    BY <1>2, <1>3, <1>4, <1>5
  <1>7. QED
    BY <1>1, <1>6 DEF Reads

(* or the innermost one is closed. *)
LEMMA ReadsEnd ==
  ASSUME RInv, EndInclude \/ EndMain
  PROVE  Reads' /\ incl' = Tail(incl)
  <1>1. /\ incl \in Seq([file : FileNames, line : Nat]) /\ incl # <<>>
        /\ \A i \in DOMAIN incl : incl[i].file \in DOMAIN src /\ incl[i].line >= 1
        /\ UNCHANGED src
    BY DEF RInv, SkipInv, TypeOK, EndInclude, EndMain, AtEnd, Reads
  <1>2. incl' = Tail(incl)
    <2>1. CASE EndInclude
      BY <2>1 DEF EndInclude
    <2>2. CASE EndMain
      <3>1. Len(incl) = 1 /\ incl' = <<>>
        BY <2>2 DEF EndMain
      <3>2. Tail(incl) \in Seq([file : FileNames, line : Nat]) /\ Len(Tail(incl)) = 0
        BY <1>1, <3>1
      <3>3. Tail(incl) = <<>>
        BY <3>2, EmptySeq
      <3>4. QED
        BY <3>1, <3>3
    <2>3. QED
      BY <2>1, <2>2
  <1>3. \A i \in DOMAIN Tail(incl) : i + 1 \in DOMAIN incl /\ Tail(incl)[i] = incl[i + 1]
    BY <1>1
  <1>4. QED
    BY <1>1, <1>2, <1>3 DEF Reads

(* The tables stay in order when a name that is new is defined, *)
LEMMA DefineStep ==
  ASSUME RInv, Ordinary, Define \/ DefineFunction
  PROVE  Tables(macros, funcs)' /\ (C!DefineMacro \/ C!Reject)
  <1> DEFINE e == [name |-> Line.name, value |-> Line.value]
             k == IF Define THEN "define" ELSE "function"
  <1>1. /\ AtLine /\ condSkip = 0
        /\ Line.k \in {"define", "function"}
    BY DEF Define, DefineFunction, Active
  <1>2. /\ e \in Entries /\ ~IsIn(macros, e.name) /\ ~IsIn(funcs, e.name)
    BY <1>1, LineIs DEF Ordinary
  <1>3. Tables(macros, funcs)
    BY DEF RInv
  <1>4. C!OnLine /\ C!Live /\ C!Line = Line
    BY <1>1, SameLine, SameLive
  <1> HIDE DEF e
  <1>5. CASE Exit
    <2>1. Tables(macros, funcs)'
      BY <1>3, <1>5 DEF Exit, tables
    <2>2. /\ UNCHANGED <<src, incl, macros, funcs, condEmit, out, hadError>>
          /\ exited' = TRUE
      BY <1>5 DEF Exit, tables, condVars
    <2>3. C!Does("define") \/ C!Does("function")
      BY <1>1, <1>4 DEF C!Does, C!On
    <2>4. C!Reject
      BY <1>4, <2>2, <2>3 DEF C!Reject
    <2>5. QED
      BY <2>1, <2>4
  <1>6. CASE Define /\ ~Exit
    <2>1. /\ macros' = Append(macros, e) /\ Advance /\ Line.k = "define"
          /\ UNCHANGED <<src, funcs, condEmit, out, hadError, exited>>
      BY <1>6 DEF Define, Active, condVars, e
    <2>2. /\ Tables(Append(macros, e), funcs)
          /\ DefsOf(Append(macros, e), funcs) =
               With(DefsOf(macros, funcs), e.name, ObjectOf(e.value))
      BY <1>2, <1>3, DefsObject
    <2>3. e.name = Line.name /\ ObjectOf(e.value) = C!Object(Line.value)
      BY DEF e, ObjectOf, C!Object
    <2>4. C!Becomes(Line.name, C!Object(Line.value))
      BY <2>1, <2>2, <2>3 DEF C!Becomes, With
    <2>5. C!Does("define") /\ C!Advance
      BY <1>4, <2>1 DEF C!Does, C!On, C!Advance, Advance
    <2>6. C!Keep(<<GroupsOf(condEmit), out, hadError>>)
      BY <2>1 DEF C!Keep
    <2>7. C!DefineMacro
      BY <1>4, <2>4, <2>5, <2>6 DEF C!DefineMacro
    <2>8. QED
      BY <2>1, <2>2, <2>7
  <1>7. CASE DefineFunction /\ ~Exit
    <2>1. /\ funcs' = Append(funcs, e) /\ Advance /\ Line.k = "function"
          /\ UNCHANGED <<src, macros, condEmit, out, hadError, exited>>
      BY <1>7 DEF DefineFunction, Active, condVars, e
    <2>2. /\ Tables(macros, Append(funcs, e))
          /\ DefsOf(macros, Append(funcs, e)) =
               With(DefsOf(macros, funcs), e.name, FunctionOf(e.value))
      BY <1>2, <1>3, DefsFunction
    <2>3. e.name = Line.name /\ FunctionOf(e.value) = C!FunctionLike(Line.value)
      BY DEF e, FunctionOf, C!FunctionLike
    <2>4. C!Becomes(Line.name, C!FunctionLike(Line.value))
      BY <2>1, <2>2, <2>3 DEF C!Becomes, With
    <2>5. C!Does("function") /\ C!Advance
      BY <1>4, <2>1 DEF C!Does, C!On, C!Advance, Advance
    <2>6. C!Keep(<<GroupsOf(condEmit), out, hadError>>)
      BY <2>1 DEF C!Keep
    <2>7. C!DefineMacro
      BY <1>4, <2>4, <2>5, <2>6 DEF C!DefineMacro
    <2>8. QED
      BY <2>1, <2>2, <2>7
  <1>8. QED
    BY <1>5, <1>6, <1>7

(* and when one is undefined. *)
LEMMA UndefStep ==
  ASSUME RInv, Ordinary, Undef
  PROVE  Tables(macros, funcs)' /\ C!UndefMacro
  <1>1. /\ AtLine /\ condSkip = 0 /\ Line.k = "undef" /\ Advance
        /\ macros' = Without(macros, Line.name)
        /\ UNCHANGED <<src, funcs, condEmit, out, hadError, exited>>
    BY DEF Undef, Active, condVars
  <1>2. ~IsIn(funcs, Line.name) /\ Tables(macros, funcs)
    BY <1>1 DEF Ordinary, RInv
  <1>3. /\ Tables(Without(macros, Line.name), funcs)
        /\ DefsOf(Without(macros, Line.name), funcs) =
             WithoutName(DefsOf(macros, funcs), Line.name)
    BY <1>2, DefsWithout
  <1>4. C!OnLine /\ C!Live /\ C!Line = Line
    BY <1>1, SameLine, SameLive
  <1>5. C!Does("undef") /\ C!Advance
    BY <1>1, <1>4 DEF C!Does, C!On, C!Advance, Advance
  <1>6. C!Keep(<<GroupsOf(condEmit), out, hadError>>)
    BY <1>1 DEF C!Keep
  <1>7. C!UndefMacro
    BY <1>1, <1>3, <1>4, <1>5, <1>6 DEF C!UndefMacro, WithoutName
  <1>8. QED
    BY <1>1, <1>3, <1>7

---------------------------------------------------------------------------
(* Every step is a step that C allows. *)

(* A line that only moves on. *)
LEMMA Passes ==
  ASSUME RInv, AtLine, Advance, UNCHANGED <<src, tables, exited>>
  PROVE  /\ Reads' /\ Tables(macros, funcs)'
         /\ C!OnLine /\ C!Advance
         /\ UNCHANGED <<src, exited, DefsOf(macros, funcs)>>
  <1>1. Reads'
    BY ReadsAdvance
  <1>2. UNCHANGED <<src, exited, macros, funcs>>
    BY DEF tables
  <1>3. Tables(macros, funcs)' /\ UNCHANGED DefsOf(macros, funcs)
    BY <1>2 DEF RInv
  <1>4. C!OnLine /\ C!Advance
    BY SameLine DEF C!Advance, Advance
  <1>5. QED
    BY <1>1, <1>2, <1>3, <1>4

(* A group is opened, dead, on or off as in C, *)
LEMMA OpenStep ==
  ASSUME RInv, Ordinary, Open
  PROVE  Reads' /\ Tables(macros, funcs)' /\ C!OpenGroup
  <1>1. /\ AtLine /\ Advance /\ UNCHANGED <<src, tables, exited>>
        /\ Line.k \in {"ifdef", "ifndef", "if"} /\ UNCHANGED <<out, hadError>>
    BY DEF Open, AtOpening
  <1>2. /\ Reads' /\ Tables(macros, funcs)' /\ C!OnLine /\ C!Advance
        /\ UNCHANGED <<src, exited, DefsOf(macros, funcs)>>
    BY <1>1, Passes
  <1>3. Condition \in BOOLEAN
    BY DEF Condition, Meets, Defined, IsIn
  <1>4. PICK b \in BOOLEAN : (b <=> Condition) /\ Push(b)
    BY <1>3, Zenon DEF Open
  <1>5. condEmit \in Seq(BOOLEAN) /\ condSkip = Cardinality(OffIn(condEmit))
    BY DEF RInv, SkipInv, TypeOK
  <1>6. OffIn(condEmit) = {} <=> condSkip = 0
    BY <1>5, OffFinite, FS_EmptySet
  <1>7. condEmit' = Append(condEmit, b)
    BY <1>4 DEF Push
  <1>8. GroupsOf(condEmit)' = Append(GroupsOf(condEmit),
          IF OffIn(condEmit) # {} THEN "dead" ELSE IF b THEN "on" ELSE "off")
    BY <1>5, <1>7, GroupsOpened
  <1>9. condSkip = 0 => ~IsIn(funcs, Tested)
    BY <1>1 DEF Ordinary
  <1>10. condSkip = 0 => (C!True <=> b)
    BY <1>1, <1>4, <1>9, SameCondition
  <1>11. C!Live <=> condSkip = 0
    BY SameLive
  <1>12. (IF OffIn(condEmit) # {} THEN "dead" ELSE IF b THEN "on" ELSE "off")
         = (IF ~C!Live THEN "dead" ELSE IF C!True THEN "on" ELSE "off")
    BY <1>6, <1>10, <1>11, Zenon
  <1>13. C!Opening
    BY <1>1, <1>2, SameLine DEF C!Opening
  <1>14. C!Keep(<<DefsOf(macros, funcs), out, hadError>>)
    BY <1>1, <1>2 DEF C!Keep
  <1>15. C!OpenGroup
    BY <1>2, <1>8, <1>12, <1>13, <1>14 DEF C!OpenGroup
  <1>16. QED
    BY <1>2, <1>15

(* or the limit is met, *)
LEMMA TooDeepStep ==
  ASSUME RInv, OpenTooDeep
  PROVE  Reads' /\ Tables(macros, funcs)' /\ C!Reject
  <1>1. /\ AtLine /\ Line.k \in {"ifdef", "ifndef", "if"}
        /\ Len(condEmit) >= MaxCond
        /\ UNCHANGED <<src, incl, macros, funcs, condEmit, out, hadError>>
        /\ exited' = TRUE
    BY DEF OpenTooDeep, AtOpening, Exit, tables, condVars
  <1>2. Reads' /\ Tables(macros, funcs)'
    BY <1>1 DEF RInv, Reads
  <1>3. Len(GroupsOf(condEmit)) = Len(condEmit)
    BY GroupsAre DEF RInv, SkipInv, TypeOK
  <1>4. C!OnLine /\ C!Opening
    BY <1>1, SameLine DEF C!Opening
  <1>5. C!Reject
    BY <1>1, <1>3, <1>4 DEF C!Reject
  <1>6. QED
    BY <1>2, <1>5

(* turned, *)
LEMMA ElseStep ==
  ASSUME RInv, Ordinary, Else
  PROVE  Reads' /\ Tables(macros, funcs)' /\ C!ElseGroup
  <1>1. /\ AtLine /\ Advance /\ UNCHANGED <<src, tables, exited>>
        /\ Line.k = "else" /\ UNCHANGED <<out, hadError>>
    BY DEF Else
  <1>2. /\ Reads' /\ Tables(macros, funcs)' /\ C!OnLine /\ C!Advance
        /\ UNCHANGED <<src, exited, DefsOf(macros, funcs)>>
    BY <1>1, Passes
  <1>3. condEmit \in Seq(BOOLEAN) /\ condEmit # <<>>
    BY <1>1 DEF RInv, SkipInv, TypeOK, Ordinary
  <1>4. Len(condEmit) > 0
    BY <1>3, EmptySeq
  <1>5. condEmit' = [condEmit EXCEPT ![Len(condEmit)] = ~@]
    BY <1>4 DEF Else, Depth
  <1>6. GroupsOf(condEmit)' = [GroupsOf(condEmit) EXCEPT ![Len(condEmit)] = C!Other(@)]
    BY <1>3, <1>4, <1>5, GroupsTurned
  <1>7. Len(GroupsOf(condEmit)) = Len(condEmit)
    BY <1>3, GroupsAre
  <1>8. GroupsOf(condEmit) # <<>>
    BY <1>4, <1>7
  <1>9. C!On("else")
    BY <1>1, <1>2, SameLine DEF C!On
  <1>10. C!Keep(<<DefsOf(macros, funcs), out, hadError>>)
    BY <1>1, <1>2 DEF C!Keep
  <1>11. C!ElseGroup
    BY <1>2, <1>6, <1>7, <1>8, <1>9, <1>10 DEF C!ElseGroup
  <1>12. QED
    BY <1>2, <1>11

(* and closed. *)
LEMMA EndifStep ==
  ASSUME RInv, Ordinary, Endif
  PROVE  Reads' /\ Tables(macros, funcs)' /\ C!CloseGroup
  <1>1. /\ AtLine /\ Advance /\ UNCHANGED <<src, tables, exited>>
        /\ Line.k = "endif" /\ UNCHANGED <<out, hadError>>
    BY DEF Endif
  <1>2. /\ Reads' /\ Tables(macros, funcs)' /\ C!OnLine /\ C!Advance
        /\ UNCHANGED <<src, exited, DefsOf(macros, funcs)>>
    BY <1>1, Passes
  <1>3. condEmit \in Seq(BOOLEAN) /\ condEmit # <<>>
    BY <1>1 DEF RInv, SkipInv, TypeOK, Ordinary
  <1>4. Len(condEmit) > 0
    BY <1>3, EmptySeq
  <1>5. condEmit' = SubSeq(condEmit, 1, Len(condEmit) - 1)
    BY <1>4 DEF Endif, Depth
  <1>6. GroupsOf(condEmit)' = SubSeq(GroupsOf(condEmit), 1, Len(condEmit) - 1)
    BY <1>3, <1>4, <1>5, GroupsClosed
  <1>7. Len(GroupsOf(condEmit)) = Len(condEmit)
    BY <1>3, GroupsAre
  <1>8. GroupsOf(condEmit) # <<>>
    BY <1>4, <1>7
  <1>9. C!On("endif")
    BY <1>1, <1>2, SameLine DEF C!On
  <1>10. C!Keep(<<DefsOf(macros, funcs), out, hadError>>)
    BY <1>1, <1>2 DEF C!Keep
  <1>11. C!CloseGroup
    BY <1>2, <1>6, <1>7, <1>8, <1>9, <1>10 DEF C!CloseGroup
  <1>12. QED
    BY <1>2, <1>11

(* A line of a skipped group is passed over, *)
LEMMA SkipStep ==
  ASSUME RInv, Ordinary, SkipLine \/ SkipDirective
  PROVE  Reads' /\ Tables(macros, funcs)' /\ (C!SkipOther \/ C!ElifGroup)
  <1>1. /\ AtLine /\ Advance /\ UNCHANGED <<src, tables, exited>>
        /\ UNCHANGED <<condEmit, out, hadError>>
    BY DEF SkipLine, SkipDirective, condVars
  <1>2. /\ Reads' /\ Tables(macros, funcs)' /\ C!OnLine /\ C!Advance
        /\ UNCHANGED <<src, exited, DefsOf(macros, funcs)>>
    BY <1>1, Passes
  <1>3. condSkip \in Nat
    BY DEF RInv, SkipInv, TypeOK
  <1>4. condSkip > 0 /\ Line.k \notin Conditionals
    <2>1. CASE SkipDirective
      BY <2>1 DEF SkipDirective
    <2>2. CASE SkipLine
      <3>1. condSkip > 0 /\ (IsText \/ Line.indent)
        BY <2>2 DEF SkipLine, LooksAt
      <3>2. IsText => Line.k \notin Conditionals
        BY DEF IsText, Conditionals
      <3>3. QED
        BY <1>1, <3>1, <3>2 DEF Ordinary
    <2>3. QED
      BY <2>1, <2>2
  <1>5. ~C!Live
    BY <1>3, <1>4, SameLive
  <1>6. C!Keep(<<DefsOf(macros, funcs), GroupsOf(condEmit), out, hadError>>)
    BY <1>1, <1>2 DEF C!Keep
  <1>7. CASE Line.k # "elif"
    <2>1. C!SkipOther
      BY <1>2, <1>4, <1>5, <1>6, <1>7, SameLine DEF C!SkipOther, Conditionals
    <2>2. QED
      BY <1>2, <2>1
  <1>8. CASE Line.k = "elif"
    <2>1. \E i \in 1 .. Len(condEmit) - 1 : ~condEmit[i]
      BY <1>1, <1>8 DEF Ordinary
    <2>2. GroupsOf(condEmit) # <<>>
          /\ GroupsOf(condEmit)[Len(condEmit)] = "dead"
          /\ [GroupsOf(condEmit) EXCEPT ![Len(condEmit)] = "dead"] = GroupsOf(condEmit)
          /\ Len(GroupsOf(condEmit)) = Len(condEmit)
      BY <2>1, DeadInside DEF RInv, SkipInv, TypeOK
    <2>3. C!Elif("dead") = "dead"
      BY DEF C!Elif
    <2>4. GroupsOf(condEmit) =
            [GroupsOf(condEmit) EXCEPT ![Len(condEmit)] = C!Elif(@)]
      BY <2>2, <2>3, Zenon
    <2>5. C!On("elif")
      BY <1>1, <1>2, <1>8, SameLine DEF C!On
    <2>6. GroupsOf(condEmit)' = GroupsOf(condEmit)
      BY <1>1
    <2>7. C!ElifGroup
      BY <1>2, <1>6, <2>2, <2>4, <2>5, <2>6 DEF C!ElifGroup, C!Keep
    <2>8. QED
      BY <1>2, <2>7
  <1>9. QED
    BY <1>7, <1>8

(* one that do_directive does not know is passed over, *)
LEMMA IgnoreStep ==
  ASSUME RInv, Ordinary, IgnoreDirective
  PROVE  Reads' /\ Tables(macros, funcs)' /\ C!OtherLine
  <1>1. /\ AtLine /\ Advance /\ UNCHANGED <<src, tables, exited>>
        /\ condSkip = 0 /\ Line.k \in {"pragma", "elif"}
        /\ UNCHANGED <<condEmit, out, hadError>>
    BY DEF IgnoreDirective, Active, condVars
  <1>2. /\ Reads' /\ Tables(macros, funcs)' /\ C!OnLine /\ C!Advance
        /\ UNCHANGED <<src, exited, DefsOf(macros, funcs)>>
    BY <1>1, Passes
  <1>3. OffIn(condEmit) = {}
    <2>1. condEmit \in Seq(BOOLEAN) /\ condSkip = Cardinality(OffIn(condEmit))
      BY DEF RInv, SkipInv, TypeOK
    <2>2. QED
      BY <1>1, <2>1, OffFinite, FS_EmptySet
  <1>4. Line.k = "pragma"
    <2>1. ~ \E i \in 1 .. Len(condEmit) - 1 : ~condEmit[i]
      <3>1. condEmit \in Seq(BOOLEAN)
        BY DEF RInv, SkipInv, TypeOK
      <3>2. \A i \in 1 .. Len(condEmit) - 1 : i \in DOMAIN condEmit
        BY <3>1
      <3>3. QED
        BY <1>3, <3>2 DEF OffIn
    <2>2. QED
      BY <1>1, <2>1 DEF Ordinary
  <1>5. C!Does("pragma")
    BY <1>1, <1>2, <1>4, SameLine, SameLive DEF C!Does, C!On
  <1>6. C!Keep(<<DefsOf(macros, funcs), GroupsOf(condEmit), out, hadError>>)
    BY <1>1, <1>2 DEF C!Keep
  <1>7. C!OtherLine
    BY <1>2, <1>5, <1>6 DEF C!OtherLine
  <1>8. QED
    BY <1>2, <1>7

(* an #error remembered, *)
LEMMA ErrorStep ==
  ASSUME RInv, Error
  PROVE  Reads' /\ Tables(macros, funcs)' /\ C!ErrorLine
  <1>1. /\ AtLine /\ Advance /\ UNCHANGED <<src, tables, exited>>
        /\ Line.k = "error" /\ condSkip = 0 /\ hadError' = TRUE
        /\ UNCHANGED <<condEmit, out>>
    BY DEF Error, Active, condVars
  <1>2. /\ Reads' /\ Tables(macros, funcs)' /\ C!OnLine /\ C!Advance
        /\ UNCHANGED <<src, exited, DefsOf(macros, funcs)>>
    BY <1>1, Passes
  <1>3. C!Does("error")
    BY <1>1, <1>2, SameLine, SameLive DEF C!Does, C!On
  <1>4. C!Keep(<<DefsOf(macros, funcs), GroupsOf(condEmit), out>>)
    BY <1>1, <1>2 DEF C!Keep
  <1>5. C!ErrorLine
    BY <1>1, <1>2, <1>3, <1>4 DEF C!ErrorLine
  <1>6. QED
    BY <1>2, <1>5

(* a file read where it is included, *)
LEMMA IncludeStep ==
  ASSUME RInv, Include
  PROVE  Reads' /\ Tables(macros, funcs)' /\ C!IncludeFile
  <1>1. /\ AtLine /\ Line.k = "include" /\ condSkip = 0 /\ Line.file \in DOMAIN src
        /\ Len(incl) - 1 < MaxDepth
        /\ incl' = <<[file |-> Line.file, line |-> 1]>>
                   \o [incl EXCEPT ![1].line = @ + 1]
        /\ UNCHANGED <<src, macros, funcs, condEmit, out, hadError, exited>>
    BY DEF Include, Active, Found, Nested, tables, condVars
  <1>2. Reads' /\ Tables(macros, funcs)'
    BY <1>1, ReadsInclude DEF RInv
  <1>3. C!OnLine /\ C!Does("include") /\ C!Line = Line
    BY <1>1, SameLine, SameLive DEF C!Does, C!On
  <1>4. Len(incl) <= MaxDepth
    <2>1. Len(incl) \in Nat
      BY DEF RInv, SkipInv, TypeOK
    <2>2. QED
      BY <1>1, <2>1, BoundsAssumption
  <1>5. C!Keep(<<DefsOf(macros, funcs), GroupsOf(condEmit), out, hadError>>)
    BY <1>1 DEF C!Keep
  <1>6. C!IncludeFile
    BY <1>1, <1>3, <1>4, <1>5 DEF C!IncludeFile
  <1>7. QED
    BY <1>2, <1>6

(* or passed over, *)
LEMMA PassIncludeStep ==
  ASSUME RInv, Ordinary, PassInclude
  PROVE  Reads' /\ Tables(macros, funcs)' /\ C!IncludeFile
  <1>1. /\ AtLine /\ Advance /\ UNCHANGED <<src, tables, exited>>
        /\ condSkip = 0 /\ Line.k \in {"include", "system"}
        /\ UNCHANGED <<condEmit, out, hadError>>
    BY DEF PassInclude, Active, condVars
  <1>2. /\ Reads' /\ Tables(macros, funcs)' /\ C!OnLine /\ C!Advance
        /\ UNCHANGED <<src, exited, DefsOf(macros, funcs)>>
    BY <1>1, Passes
  <1>3. Line.file \notin DOMAIN src \/ Len(incl) > MaxDepth
    <2>1. CASE Line.k = "system"
      BY <1>1, <2>1 DEF Ordinary
    <2>2. CASE Line.k = "include"
      <3>1. ~Found \/ Nested >= MaxDepth
        BY <2>2 DEF PassInclude, Active
      <3>2. Len(incl) \in Nat
        BY DEF RInv, SkipInv, TypeOK
      <3>3. QED
        BY <3>1, <3>2, BoundsAssumption DEF Found, Nested
    <2>3. QED
      BY <1>1, <2>1, <2>2
  <1>4. C!Does("include") \/ C!Does("system")
    BY <1>1, <1>2, SameLine, SameLive DEF C!Does, C!On
  <1>5. C!Keep(<<DefsOf(macros, funcs), GroupsOf(condEmit), out, hadError>>)
    BY <1>1, <1>2 DEF C!Keep
  <1>6. C!IncludeFile
    BY <1>2, <1>3, <1>4, <1>5, SameLine DEF C!IncludeFile
  <1>7. QED
    BY <1>2, <1>6

(* the end of a file returns to the one that includes it, *)
LEMMA EndStep ==
  ASSUME RInv, EndInclude \/ EndMain
  PROVE  Reads' /\ Tables(macros, funcs)' /\ C!EndOfFile
  <1>1. /\ ~exited /\ incl # <<>> /\ Top.line > Len(File)
        /\ out' = IF Len(incl) = 1 /\ hadError THEN <<>> ELSE out
        /\ UNCHANGED <<src, macros, funcs, condEmit, hadError, exited>>
    <2>1. CASE EndInclude
      <3>1. Len(incl) \in Nat /\ Len(incl) > 1
        BY <2>1 DEF EndInclude, RInv, SkipInv, TypeOK
      <3>2. Len(incl) # 1
        <4>1. \A k \in Nat : k > 1 => k # 1
          OBVIOUS
        <4>2. QED
          BY <3>1, <4>1, Zenon
      <3>3. /\ ~exited /\ incl # <<>> /\ Top.line > Len(File)
            /\ UNCHANGED <<src, macros, funcs, condEmit, out, hadError, exited>>
        BY <2>1 DEF EndInclude, AtEnd, tables, condVars
      <3>4. out' = IF Len(incl) = 1 /\ hadError THEN <<>> ELSE out
        BY <3>2, <3>3, Zenon
      <3>5. QED
        BY <3>3, <3>4
    <2>2. CASE EndMain
      BY <2>2 DEF EndMain, AtEnd, tables, condVars
    <2>3. QED
      BY <2>1, <2>2
  <1>2. Reads' /\ incl' = Tail(incl)
    BY ReadsEnd
  <1>3. Tables(macros, funcs)'
    BY <1>1 DEF RInv
  <1>4. C!Reading /\ incl[1].line > Len(C!File)
    BY <1>1, SameLine DEF C!Reading, Top
  <1>5. C!Keep(<<DefsOf(macros, funcs), GroupsOf(condEmit), hadError>>)
    BY <1>1 DEF C!Keep
  <1>6. C!EndOfFile
    BY <1>1, <1>2, <1>4, <1>5 DEF C!EndOfFile
  <1>7. QED
    BY <1>2, <1>3, <1>6

(* and a name in text is replaced by what it stands for. *)
LEMMA TextStep ==
  ASSUME RInv, Text
  PROVE  Reads' /\ Tables(macros, funcs)' /\ C!TextLine
  <1>1. /\ AtLine /\ Advance /\ UNCHANGED <<src, tables, exited>>
        /\ condSkip = 0 /\ Line.k \in {"use", "call"}
        /\ out' = Append(out, <<Line.name, Replacement>>)
        /\ UNCHANGED <<condEmit, hadError>>
    BY DEF Text, IsText, condVars
  <1>2. /\ Reads' /\ Tables(macros, funcs)' /\ C!OnLine /\ C!Advance
        /\ UNCHANGED <<src, exited, DefsOf(macros, funcs)>>
    BY <1>1, Passes
  <1>3. C!Does("use") \/ C!Does("call")
    BY <1>1, <1>2, SameLine, SameLive DEF C!Does, C!On
  <1>4. C!Replaced = Replacement
    <2> DEFINE n == Line.name
               d == DefsOf(macros, funcs)
    <2>1. /\ C!IsDefined(n) <=> Defined(n) \/ IsIn(funcs, n)
          /\ Defined(n) => d[n] = ObjectOf(ValueOf(n))
          /\ ~Defined(n) /\ IsIn(funcs, n) => d[n] = FunctionOf(Lookup(funcs, n))
      BY SameNames
    <2>2. C!Replaced = IF C!IsDefined(n) /\ (d[n].kind = "function" => Line.k = "call")
                       THEN d[n].value ELSE None
      BY SameLine DEF C!Replaced
    <2>3. CASE Defined(n)
      <3>1. d[n].kind = "object" /\ d[n].value = ValueOf(n)
        BY <2>1, <2>3 DEF ObjectOf
      <3>2. Replacement = ValueOf(n)
        BY <2>3 DEF Replacement
      <3>3. QED
        BY <2>1, <2>2, <2>3, <3>1, <3>2
    <2>4. CASE ~Defined(n) /\ IsIn(funcs, n)
      <3>1. d[n].kind = "function" /\ d[n].value = Lookup(funcs, n)
        BY <2>1, <2>4 DEF FunctionOf
      <3>2. Replacement = IF Line.k = "call" THEN Lookup(funcs, n) ELSE None
        BY <2>4 DEF Replacement, Lookup
      <3>3. QED
        BY <2>1, <2>2, <2>4, <3>1, <3>2
    <2>5. CASE ~Defined(n) /\ ~IsIn(funcs, n)
      <3>1. Replacement = None
        BY <2>5 DEF Replacement
      <3>2. QED
        BY <2>1, <2>2, <2>5, <3>1
    <2>6. QED
      BY <2>3, <2>4, <2>5
  <1>5. C!Keep(<<DefsOf(macros, funcs), GroupsOf(condEmit), hadError>>)
    BY <1>1, <1>2 DEF C!Keep
  <1>6. C!TextLine
    BY <1>1, <1>2, <1>3, <1>4, <1>5, SameLine DEF C!TextLine
  <1>7. QED
    BY <1>2, <1>6

---------------------------------------------------------------------------
(* The source begins as C says, *)
LEMMA InitRefines == Init => RInv /\ C!Init
  <1> SUFFICES ASSUME Init PROVE RInv /\ C!Init
    OBVIOUS
  <1>1. Reads
    BY SourcesAssumption DEF Init, Reads
  <1>2. /\ macros = Predefined /\ funcs = <<>> /\ condEmit = <<>>
        /\ Predefined \in Seq(Entries) /\ Unique(Predefined)
    BY SourcesAssumption DEF Init
  <1>3. NamesIn(<<>>) = {} /\ <<>> \in Seq(Entries) /\ Unique(<<>>)
    BY DEF NamesIn, Unique
  <1>4. Tables(macros, funcs)
    BY <1>2, <1>3 DEF Tables
  <1>5. RInv
    BY <1>1, <1>4, InitSkip DEF RInv
  <1> DEFINE P == {Predefined[i] : i \in DOMAIN Predefined}
             N == {p.name : p \in P}
             D == [n \in N |-> C!Object((CHOOSE p \in P : p.name = n).value)]
  <1>6. N = NamesIn(Predefined)
    BY DEF NamesIn
  <1>7. ASSUME NEW n \in N PROVE D[n] = ObjectOf(Lookup(Predefined, n))
    <2>1. PICK i \in DOMAIN Predefined : Predefined[i].name = n
      BY <1>6 DEF NamesIn
    <2>2. Lookup(Predefined, n) = Predefined[i].value
      BY <1>2, <2>1, FirstIsOnly
    <2>3. Predefined[i] \in P /\ \A p \in P : p.name = n => p = Predefined[i]
      BY <1>2, <2>1 DEF Unique
    <2> HIDE DEF P
    <2>4. (CHOOSE p \in P : p.name = n) = Predefined[i]
      BY <2>1, <2>3
    <2>5. QED
      BY <2>2, <2>4 DEF ObjectOf, C!Object
  <1>8. D = [n \in NamesIn(macros) \cup NamesIn(funcs) |-> D[n]]
    BY <1>2, <1>3, <1>6
  <1>9. D = DefsOf(macros, funcs)
    <2>1. \A n \in NamesIn(macros) : D[n] = ObjectOf(Lookup(macros, n))
      BY <1>2, <1>6, <1>7
    <2>2. \A n \in NamesIn(funcs) \ NamesIn(macros) : D[n] = FunctionOf(Lookup(funcs, n))
      BY <1>2, <1>3
    <2> HIDE DEF D
    <2>3. QED
      BY <1>8, <2>1, <2>2, DefsOnly
  <1>10. GroupsOf(condEmit) = <<>>
    <2>1. condEmit \in Seq(BOOLEAN) /\ Len(condEmit) = 0
      BY <1>2
    <2>2. GroupsOf(condEmit) \in Seq({"on", "off", "dead"}) /\ Len(GroupsOf(condEmit)) = 0
      BY <2>1, GroupsAre
    <2>3. QED
      BY <2>2, EmptySeq
  <1>11. C!Init
    BY <1>9, <1>10 DEF Init, C!Init, D, N, P
  <1>12. QED
    BY <1>5, <1>11

(* and every step of an ordinary source is one of C's. *)
LEMMA NextRefines == RInv /\ Ordinary /\ [Next]_vars => RInv' /\ [C!Next]_(C!vars)
  <1> SUFFICES ASSUME RInv, Ordinary, [Next]_vars PROVE RInv' /\ [C!Next]_(C!vars)
    OBVIOUS
  <1>1. SkipInv'
    BY NextSkip DEF RInv
  <1>2. CASE UNCHANGED vars
    <2>1. Reads' /\ Tables(macros, funcs)'
      BY <1>2 DEF vars, RInv, Reads
    <2>2. UNCHANGED C!vars
      BY <1>2 DEF vars, C!vars
    <2>3. QED
      BY <1>1, <2>1, <2>2 DEF RInv
  <1>3. CASE Work
    <2>1. Reads' /\ Tables(macros, funcs)' /\ C!Next
      <3>1. CASE SkipLine \/ SkipDirective
        BY <3>1, SkipStep DEF C!Next
      <3>2. CASE Open
        BY <3>2, OpenStep DEF C!Next
      <3>3. CASE OpenTooDeep
        BY <3>3, TooDeepStep DEF C!Next
      <3>4. CASE Else
        BY <3>4, ElseStep DEF C!Next
      <3>5. CASE Endif
        BY <3>5, EndifStep DEF C!Next
      <3>6. CASE Define \/ DefineFunction
        <4>1. Tables(macros, funcs)' /\ (C!DefineMacro \/ C!Reject)
          BY <3>6, DefineStep
        <4>2. AtLine /\ (Advance \/ UNCHANGED incl) /\ UNCHANGED src
          BY <3>6 DEF Define, DefineFunction, Active, Exit
        <4>3. Reads'
          BY <4>2, ReadsAdvance
        <4>4. QED
          BY <4>1, <4>3 DEF C!Next
      <3>7. CASE Undef
        <4>1. Tables(macros, funcs)' /\ C!UndefMacro
          BY <3>7, UndefStep
        <4>2. AtLine /\ Advance /\ UNCHANGED src
          BY <3>7 DEF Undef, Active
        <4>3. Reads'
          BY <4>2, ReadsAdvance
        <4>4. QED
          BY <4>1, <4>3 DEF C!Next
      <3>8. CASE Error
        BY <3>8, ErrorStep DEF C!Next
      <3>9. CASE Include
        BY <3>9, IncludeStep DEF C!Next
      <3>10. CASE PassInclude
        BY <3>10, PassIncludeStep DEF C!Next
      <3>11. CASE EndInclude \/ EndMain
        BY <3>11, EndStep DEF C!Next
      <3>12. CASE Text
        BY <3>12, TextStep DEF C!Next
      <3>13. CASE IgnoreDirective
        BY <3>13, IgnoreStep DEF C!Next
      <3>14. QED
        BY <1>3, <3>1, <3>2, <3>3, <3>4, <3>5, <3>6, <3>7, <3>8, <3>9, <3>10,
           <3>11, <3>12, <3>13 DEF Work
    <2>2. QED
      BY <1>1, <2>1 DEF RInv
  <1>4. QED
    BY <1>2, <1>3 DEF Next, Stopped

(* Every source that is ordinary is preprocessed as C says: the counter of *)
(* skipped groups and the two tables, from which #undef takes an entry by  *)
(* moving the last one, do what nested groups and one function from names  *)
(* do, through every inclusion and every limit.                            *)
THEOREM OrdinaryAsC == Spec /\ []Ordinary => PreprocessesAsC
  BY InitRefines, NextRefines, PTL DEF Spec, PreprocessesAsC, C!Spec
=============================================================================
