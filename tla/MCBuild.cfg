SPECIFICATION Spec
CONSTANTS
  OwnUnits <- TwoPrograms
  Headers <- TheHeaders
  Editable <- Listeds
  Faults <- LoudFaults
  Seeds <- TheSeeds
  EditInputs = FALSE
  MaxJobs = 2
  MaxMakes = 2
  MaxEdits = 2
INVARIANTS BuiltFromSources
CHECK_DEADLOCK FALSE
