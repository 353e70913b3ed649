\* Short strings over the alphabets of operators, numbers and literals, and
\* texts of a few macros.
SPECIFICATION Spec
CONSTANTS
  Word = 4096
  MaxDepth = 6
  MaxExpand = 4
  MaxArgs = 4
  MaxMacros = 5
  MaxFuncs = 5
  Predefined <- ThePredefined
  LongestSpelling = 18
  Sources <- MCSources
INVARIANT TokensAsC
PROPERTY Ends
