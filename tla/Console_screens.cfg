SPECIFICATION Spec
CONSTANTS
  Situation = {"saving", "failing", "dressing", "overlapping", "designing", "growing", "theming", "publishing", "reports", "support", "operators", "toggling", "users", "touring", "looking"}
  SituationOf <- Situations
  NoValue = NoValue
  Absent = Absent
  Removed = Removed
  Numbers = {0, 2, 3}
  Texts = {"", "B"}
  Registered <- Modules
  DayLength = 3
  DefaultLimit = 2
  ExportLimit = 3
  RecentLimit = 2
  Operators = {op1, op2}
  Staff = {ana, dee}
  Self = ana
  op1 = op1
  op2 = op2
  ana = ana
  dee = dee
  g1 = g1
  g2 = g2
  p1 = p1
  p2 = p2
INVARIANTS
  EditsAreKept
  ValidDraftsPlay
  ReportsAreWhole
  DeskIsAsAsked
CHECK_DEADLOCK FALSE
