SPECIFICATION Spec
CONSTANTS
  Conditions <- AllConditions
  Macros <- SimpleMacros
  None = None
INVARIANTS EvaluatesAsC
