SPECIFICATION Spec
CONSTANT Inputs <- MCPrograms
INVARIANTS GroupedAsC StorageAsC MembersAsC ValuesAsC MistakesReported
PROPERTY Advances
CHECK_DEADLOCK FALSE
