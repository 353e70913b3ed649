SPECIFICATION Spec
CONSTANTS
  Programs <- MCPrograms
  StrtabSize = 15
  MaxSymStr = 3
  BufSize = 262144
  ShstrtabSize = 66
  TextSizes = {16, 21}
INVARIANTS RelocationsKeepSymbol LocalsFirst PlacedAsStated NamesReadBack
