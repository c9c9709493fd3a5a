CONSTANTS
  VarCount = 2
  Len2 = 2
  Values <- MCValues
  Default <- MCDefault
  PageSize = 24
SPECIFICATION Spec
INVARIANT LegitValues
