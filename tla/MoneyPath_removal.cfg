\* A limit that is removed in the middle of its week.
SPECIFICATION Spec
CONSTANTS
  a1 = a1
  a2 = a2
  o1 = o1
  k1 = k1
  t1 = t1
  daily = daily
  weekly = weekly
  Account = {a1}
  OperatorOf <- OneOperator
  InitialBalance = 20
  NoRound = NoRound
  Period = {daily, weekly}
  Unlimited = Unlimited
  NoPending = NoPending
  LooseningDelay = 1
  MaxTime = 1
  PeriodKeys <- Windows
  PeriodKey <- DailyWeekly
  NoUsage = NoUsage
  Call = {c1, c2, c3}
  BetOptions = {2}
  Wins = {0, 2}
  ClientKey = {k1}
  NoKey = NoKey
  TransactionId = {t1}
  Requests <- RemovalRequests
  InitialLimits <- RemovalMatures
  NoRequest = NoRequest
  NoSnapshot = NoSnapshot
  NoDocument = NoDocument
  NoReply = NoReply
INVARIANTS CountersMatchRounds
SYMMETRY Symmetry
CHECK_DEADLOCK FALSE
