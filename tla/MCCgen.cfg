SPECIFICATION Spec
CONSTANTS
  Files <- GoodFiles
  Plain <- MCPlain
  EndingC3 = {"c3"}
  Values = {0, 1, 2, 3}
  MaxLabels = 10
  MaxFixups = 10
  MaxCases = 3
  MaxGotos = 2
INVARIANTS ExecutesAsC JumpsLand
PROPERTIES ImplementsLabels EarlierCodeKept ReachesEvent
