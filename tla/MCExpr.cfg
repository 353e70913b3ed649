SPECIFICATION Spec
CONSTANTS
  Exprs <- GoodExprs
  Scalars <- TheScalars
  StructSizes <- TheStructs
  BitsOf <- NarrowBits
  StackWords = 40
INVARIANTS ComputesAsC
CHECK_DEADLOCK FALSE
