SPECIFICATION FairSpec
CONSTANTS
  Main = "main"
  Helper = "helper"
  GotName = "_GLOBAL_OFFSET_TABLE_"
  Gone = "_Gone"
  NoName = ""
  EntryName = "__tlibc_start"
  GNames <- MCGNames
  Objects <- MCObjects
  BaseAddr = 4096
  Word32 = 32768
  Word64 = 1073741824
  MaxInputs = 3
  MaxSyms = 4
INVARIANTS TypeOK PiecesDisjoint CopyAgrees OwnPatches
PROPERTIES DefinitionIsFinal ImplementsPromise Terminates
