CONSTANTS
  N = 6
  Q = 2
  MinGap = 2
  FirstOperands <- MCFirst
  NextOperands <- MCNext
  TotalPoints = 1800
  ThetaMax = 9
  Frequencies = {46296, 25000}
SPECIFICATION Spec
INVARIANTS ResultsRight TimesRight TimesIncrease
PROPERTY UnitsKeepHandshake
