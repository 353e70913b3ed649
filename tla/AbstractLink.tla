---------------------------- MODULE AbstractLink ----------------------------
(***************************************************************************)
(* What tld promises: either the executable that its input files determine *)
(* or a report of something that is wrong with them, unless a relocation   *)
(* leads outside of the sections they make, which it does not check.  The  *)
(* image is defined from the list of files alone, without tables, loops or *)
(* running totals.                                                         *)
(***************************************************************************)
EXTENDS ObjectFile, FiniteSets

CONSTANTS Objects, EntryName, GNames, BaseAddr, Word32, Word64, MaxInputs,
          MaxSyms

VARIABLES files, status, why, result
avars == <<files, status, why, result>>

Padding(s) == IF s = "text" THEN 16 ELSE 32
Padded(n, s) == IF n % Padding(s) = 0 THEN n
                ELSE n + (Padding(s) - (n % Padding(s)))

(* The padded sizes of section s in the first n files, added up.           *)
Extent(s) ==
  LET e[n \in 0 .. Len(files)] ==
        IF n = 0 THEN 0 ELSE e[n - 1] + Padded(files[n].size[s], s)
  IN  e
Size       == [s \in Section |-> Extent(s)[Len(files)]]
Start      == [s \in Section |-> BaseAddr
                 + (IF s = "text" THEN 0 ELSE Size["text"])
                 + (IF s = "bss" THEN Size["data"] ELSE 0)]
Offset(f)  == [s \in Section |-> Extent(s)[f - 1]]

Address(f, y) == CASE y.shndx = "UNDEF"   -> 0
                   [] y.shndx \in Section -> Start[y.shndx]
                                              + Offset(f)[y.shndx] + y.value
                   [] OTHER               -> y.value

Symbols == UNION {{f} \X DOMAIN files[f].syms : f \in DOMAIN files}
Sym(k)  == files[k[1]].syms[k[2]]
Named   == {k \in Symbols : IsDefinition(Sym(k)) \/ IsReference(Sym(k))}
Names   == {Sym(k).name : k \in Named}

Definitions(name) == {k \in Named : Sym(k).name = name /\ IsDefinition(Sym(k))}
NoLater(k, l)     == k[1] < l[1] \/ (k[1] = l[1] /\ k[2] <= l[2])
(* A name means its first definition in the order of the command line.     *)
Meaning(name) ==
  IF Definitions(name) = {} THEN 0
  ELSE LET d == CHOOSE k \in Definitions(name) :
                  \A l \in Definitions(name) : NoLater(k, l)
       IN  Address(d[1], Sym(d))

Unresolved == {n \in Names : Definitions(n) = {} /\ n \notin GNames}

Target(f, r) == IF r.sym \notin DOMAIN files[f].syms THEN 0
                ELSE LET y == files[f].syms[r.sym]
                     IN  IF y.bind = "LOCAL" THEN Address(f, y)
                         ELSE Meaning(y.name)
Nameless(f, r) == /\ r.sym \in DOMAIN files[f].syms
                  /\ files[f].syms[r.sym].bind # "LOCAL"
                  /\ files[f].syms[r.sym].name = NoName

Relas == UNION {{<<f, files[f].relas[i]>> : i \in DOMAIN files[f].relas}
                 : f \in DOMAIN files}
Written(f, r) ==
  LET place == Start[r.sec] + Offset(f)[r.sec] + r.off
  IN  [file  |-> f,
       sec   |-> r.sec,
       at    |-> place - Start[r.sec],
       width |-> Width(r.type),
       value |-> CASE r.type = "R64" -> (Target(f, r) + r.addend) % Word64
                   [] r.type = "R32" -> (Target(f, r) + r.addend) % Word32
                   [] OTHER -> (Target(f, r) + r.addend - place) % Word32]

(* It is written outside of the section that the files make together.      *)
Stray(f, r) == /\ r.type \notin {"NONE", "UNSUPPORTED"}
               /\ LET at == Offset(f)[r.sec] + r.off
                  IN  at < 0 \/ at + Width(r.type) > Size[r.sec]

Executable == [entry   |-> Meaning(EntryName),
               addr    |-> Start,
               size    |-> Size,
               copied  |-> [f \in DOMAIN files |-> Offset(f)],
               patches |-> {Written(k[1], k[2]) :
                              k \in {l \in Relas : l[2].type # "NONE"}}]

Init == files = <<>> /\ status = "busy" /\ why = "none" /\ result = <<>>

AddFile == /\ status = "busy"
           /\ \E o \in Objects : files' = Append(files, o)
           /\ UNCHANGED <<status, why, result>>

Resolved == /\ files # <<>>
            /\ Len(files) <= MaxInputs
            /\ Cardinality(Names) <= MaxSyms
            /\ Unresolved = {}
            /\ Meaning(EntryName) # 0
Linkable == /\ Resolved
            /\ \A k \in Relas : /\ ~Nameless(k[1], k[2])
                                /\ k[2].type # "UNSUPPORTED"
                                /\ ~Stray(k[1], k[2])

Produce == /\ status = "busy"
           /\ Linkable
           /\ status' = "done"
           /\ result' = <<Executable>>
           /\ UNCHANGED <<files, why>>

(* A complaint about the input is true of the input.                       *)
Justified(r) ==
  /\ r = "too many inputs"        => Len(files) >= MaxInputs
  /\ r = "no inputs"              => files = <<>>
  /\ r = "too many symbols"       => Cardinality(Names) > MaxSyms
  /\ r = "undefined symbol"       => Unresolved # {}
  /\ r = "no entry point"         => Unresolved = {} /\ Meaning(EntryName) = 0
  /\ r = "unsupported relocation" =>
       \E k \in Relas : k[2].type = "UNSUPPORTED"
  /\ r = "undefined symbol in relocation" =>
       \E k \in Relas : Nameless(k[1], k[2])

Reasons == {"too many inputs", "bad input", "no inputs", "no memory",
            "too many symbols", "undefined symbol", "no entry point",
            "undefined symbol in relocation", "unsupported relocation",
            "cannot create", "short write"}

(* An error leaves no executable, except that a write the system cut short *)
(* leaves an incomplete one.                                               *)
Reject == /\ status = "busy"
          /\ status' = "failed"
          /\ \E r \in Reasons : /\ Justified(r)
                                /\ why' = r
                                /\ result' = IF r = "short write"
                                             THEN <<"partial">> ELSE <<>>
          /\ UNCHANGED files

(* Nothing is promised of files of which a relocation is written outside.  *)
Lose == /\ status = "busy"
        /\ Resolved
        /\ \E k \in Relas : Stray(k[1], k[2])
        /\ status' = "lost"
        /\ UNCHANGED <<files, why, result>>

Next == AddFile \/ Produce \/ Reject \/ Lose
Spec == Init /\ [][Next]_avars
=============================================================================
