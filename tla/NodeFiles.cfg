SPECIFICATION Spec
CONSTANTS
  p1 = p1
  p2 = p2
  Values = {p1, p2}
  NoFile = NoFile
  Torn = Torn
  MaxEvents = 3
INVARIANTS
  LedgerTold
PROPERTIES
  ImplementsRegister
