\* Every instruction once, with the registers and numbers at its edges; short
\* sources of labels, jumps, calls and directives; sources at the limits.
SPECIFICATION Spec
CONSTANTS
  MaxLocal = 4
  MaxFixups = 2
  MaxSyms = 3
  MaxRels = 2
  CodeSize = 140
  Programs <- MCPrograms
INVARIANTS InstructionsAsWritten SymbolsAsWritten
