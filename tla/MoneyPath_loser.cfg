\* Two concurrent spins with one clientRequestId and money for one.
SPECIFICATION Spec
CONSTANTS
  a1 = a1
  a2 = a2
  o1 = o1
  k1 = k1
  t1 = t1
  daily = daily
  weekly = weekly
  Account = {a1}
  OperatorOf <- OneOperator
  InitialBalance = 2
  NoRound = NoRound
  Period = {daily}
  Unlimited = Unlimited
  NoPending = NoPending
  LooseningDelay = 1
  MaxTime = 0
  PeriodKeys <- Windows
  PeriodKey <- Daily
  NoUsage = NoUsage
  Call = {c1, c2}
  BetOptions = {2}
  Wins = {0, 3}
  ClientKey = {k1}
  NoKey = NoKey
  TransactionId = {t1}
  Requests <- SameSpin
  InitialLimits <- MoneyLimits
  NoRequest = NoRequest
  NoSnapshot = NoSnapshot
  NoDocument = NoDocument
  NoReply = NoReply
PROPERTIES LoserGetsTheWinner
SYMMETRY Symmetry
CHECK_DEADLOCK FALSE
