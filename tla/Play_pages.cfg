SPECIFICATION Spec
CONSTANTS
  MaxPages = 2
  MaxSpins = 2
  MaxFaults = 1
  Module = {"wheel", "pick", "freeSpins"}
  NoValue = NoValue
  Steps = 1
  Slot = {1, 2}
  Situation <- Situations
INVARIANTS
  TypeOK
  OneRoundAtATime
  BonusPhaseHasABonus
  BalancesInOrder
  ClosedIsForgotten
PROPERTY
  OnlyGivenUpBonusesAreForgotten
  SpinsAreAnswered
CHECK_DEADLOCK FALSE
