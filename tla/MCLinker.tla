------------------------------ MODULE MCLinker ------------------------------
(***************************************************************************)
(* A small link: nine objects, of which the command line names up to      *)
(* MaxInputs, in any order and with repetitions.                           *)
(***************************************************************************)
EXTENDS Linker

CONSTANTS Main, Helper, Gone   \* symbol names

MCGNames == {GotName, Gone}

Sizes(t, d, b)        == [s \in Section |-> CASE s = "text" -> t
                                              [] s = "data" -> d
                                              [] s = "bss"  -> b]
Sy(name, bind, sh, v) == [name |-> name, bind |-> bind, shndx |-> sh,
                          value |-> v]
Rel(sec, off, type, sym, addend) ==
  [sec |-> sec, off |-> off, type |-> type, sym |-> sym, addend |-> addend]

(* The start file: calls main.                                             *)
Crt   == [size  |-> Sizes(20, 0, 0),
          syms  |-> <<Sy(EntryName, "GLOBAL", "text", 0),
                      Sy(Main, "GLOBAL", "UNDEF", 0)>>,
          relas |-> <<Rel("text", 8, "PLT32", 2, -4)>>]
(* main: calls Helper, takes the address of a local, has a data pointer.   *)
Prog  == [size  |-> Sizes(17, 9, 5),
          syms  |-> <<Sy(NoName, "LOCAL", "data", 1),
                      Sy(Main, "GLOBAL", "text", 3),
                      Sy(Helper, "GLOBAL", "UNDEF", 0)>>,
          relas |-> <<Rel("text", 1, "PC32", 1, -4),
                      Rel("text", 9, "R32", 3, 0),
                      Rel("data", 1, "R64", 3, 2)>>]
(* Helper in .bss, and again, weakly, in .data of another file.            *)
Strong == [size  |-> Sizes(0, 33, 4),
           syms  |-> <<Sy(Helper, "GLOBAL", "bss", 0)>>,
           relas |-> <<>>]
Weak   == [size  |-> Sizes(16, 8, 0),
           syms  |-> <<Sy(Helper, "WEAK", "data", 4),
                       Sy(Helper, "LOCAL", "text", 2)>>,
           relas |-> <<Rel("data", 0, "R64", 2, 0),
                       Rel("text", 4, "NONE", 1, 0)>>]
(* References to undefined names that begin with _G; an absolute symbol;   *)
(* main in a section that the linker does not merge.                       *)
GotUser  == [size  |-> Sizes(8, 0, 0),
             syms  |-> <<Sy(GotName, "GLOBAL", "UNDEF", 0),
                         Sy(Helper, "GLOBAL", "ABS", 40000)>>,
             relas |-> <<Rel("text", 0, "PC32", 1, 0),
                         Rel("text", 4, "R32", 0, -1)>>]
GoneUser == [size  |-> Sizes(8, 0, 0),
             syms  |-> <<Sy(Gone, "GLOBAL", "UNDEF", 0),
                         Sy(Main, "GLOBAL", "OTHER", 7)>>,
             relas |-> <<Rel("text", 0, "R64", 1, 0)>>]
(* A nameless global, and a relocation type the linker does not know.      *)
Odd      == [size  |-> Sizes(4, 4, 0),
             syms  |-> <<Sy(NoName, "GLOBAL", "UNDEF", 0)>>,
             relas |-> <<Rel("text", 0, "PC32", 1, 0)>>]
Foreign  == [size  |-> Sizes(4, 4, 0),
             syms  |-> <<>>,
             relas |-> <<Rel("data", 0, "UNSUPPORTED", 0, 0)>>]

(* Relocations outside of their section: in the file after or outside of   *)
(* the merged section, in the file before, and across its own end.         *)
Reaching == [size  |-> Sizes(4, 6, 0),
             syms  |-> <<>>,
             relas |-> <<Rel("text", 14, "R32", 0, 9),
                         Rel("data", 2, "R64", 0, 9),
                         Rel("data", -40, "NONE", 0, 0),
                         Rel("text", -16, "R64", 0, 9)>>]

MCObjects == {Crt, Prog, Strong, Weak, GotUser, GoneUser, Odd, Foreign,
              Reaching}
=============================================================================
