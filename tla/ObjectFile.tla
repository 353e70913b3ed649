----------------------------- MODULE ObjectFile -----------------------------
(***************************************************************************)
(* A relocatable object as the parts of the toolchain that read or write   *)
(* one see it: section sizes, symbols and relocations.  The contents of    *)
(* sections are abstract.                                                  *)
(***************************************************************************)
EXTENDS Integers, Sequences

CONSTANT NoName   \* the empty symbol name

Section  == {"text", "data", "bss"}
Zero     == [s \in Section |-> 0]
Bind     == {"LOCAL", "GLOBAL", "WEAK"}
Shndx    == Section \cup {"UNDEF", "ABS", "OTHER"}
RelaType == {"NONE", "R64", "PC32", "PLT32", "R32", "UNSUPPORTED"}

(* The bytes a relocation of this type overwrites.                         *)
Width(type) == IF type = "R64" THEN 8 ELSE 4

(* The null symbol is left out of syms: a relocation whose sym is no index *)
(* of syms names symbol 0 or one out of range.                             *)
IsSymbol(y) == /\ y.bind \in Bind
               /\ y.shndx \in Shndx
               /\ y.value \in Nat
IsRela(r)   == /\ r.sec \in {"text", "data"}
               /\ r.off \in Int
               /\ r.type \in RelaType
               /\ r.sym \in Nat
               /\ r.addend \in Int
(* The offset of a relocation is whatever number the file has: nothing says*)
(* that it lies in the section, and tld does not check that it does.       *)
IsObject(o) == /\ o.size \in [Section -> Nat]
               /\ DOMAIN o.syms = 1 .. Len(o.syms)
               /\ Len(o.syms) \in Nat
               /\ \A i \in DOMAIN o.syms : IsSymbol(o.syms[i])
               /\ DOMAIN o.relas = 1 .. Len(o.relas)
               /\ Len(o.relas) \in Nat
               /\ \A i \in DOMAIN o.relas : IsRela(o.relas[i])

(* A symbol other files may bind to, and one that must be bound to another *)
IsDefinition(y) == y.bind # "LOCAL" /\ y.shndx # "UNDEF" /\ y.name # NoName
IsReference(y)  == y.bind # "LOCAL" /\ y.shndx = "UNDEF" /\ y.name # NoName
=============================================================================
