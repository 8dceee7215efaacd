SPECIFICATION Spec
CONSTANTS
  p1 = p1
  p2 = p2
  p3 = p3
  o1 = o1
  o2 = o2
  None = None
  Procs = {p1, p2, p3}
  Outcomes = {o1, o2}
  MaxCrashes = 2
  Calls <- MCClash
SYMMETRY MCSymmetry
INVARIANTS
  TypeOK
  PaidAtMostOnce
  TerminalBacked
  OneAnswer
PROPERTIES
  OrphanFrozen
  JournalSpec
