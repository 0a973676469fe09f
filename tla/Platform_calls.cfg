SPECIFICATION Spec
CONSTANTS
  Call = {c1, c2, c3, c4}
  User = {ana, ben, dee}
  Situation = {"team", "sessions", "guessing", "boot", "editing", "lifecycle", "access", "ahead", "operators"}
  SituationOf <- Situations
  NoValue = NoValue
  Password = {old, new}
  SessionTtl = 2
  MaxAttempts = 2
  LockoutTime = 1
  MaxLockoutTime = 2
  AttemptWindow = 1
  Game = {g1}
  Math = {good, tilted, bad}
  Broken = {bad}
  Drifting = {tilted}
  Theme = {dark}
  Operator = {op1, op2}
  FirstKey = FirstKey
  MaxSkew = 2
  NonceMargin = 1
  LaunchTtl = 1
  ana = ana
  ben = ben
  dee = dee
  old = old
  new = new
  good = good
  tilted = tilted
  bad = bad
  dark = dark
  g1 = g1
  op1 = op1
  op2 = op2
  p1 = p1
SYMMETRY Symmetry
INVARIANTS
  TypeOK
  SessionsAreCurrent
  AnAdminRemains
  LockoutsAreEarned
  LiveIsASnapshot
  CollisionsAreExplained
  StoredAssetsExist
  PlayedGamesAreKept
  CredentialsAreUsedOnce
PROPERTY
  LocksHold
CHECK_DEADLOCK FALSE
