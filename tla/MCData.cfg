SPECIFICATION Spec
CONSTANTS
  Programs <- Files
  STRPOOL_SIZE = 11
  MAX_STRINGS = 4
  MAX_SYMS = 7
  MAX_RELS = 5
  ELF_MAX_RELS = 3
  DATA_BUF_SIZE = 72
  CODE_BUF_SIZE = 44
INVARIANTS ImageAsC
CHECK_DEADLOCK FALSE
