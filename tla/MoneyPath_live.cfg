\* Every call is answered.
SPECIFICATION FairSpec
CONSTANTS
  a1 = a1
  a2 = a2
  o1 = o1
  k1 = k1
  t1 = t1
  daily = daily
  weekly = weekly
  Account = {a1}
  OperatorOf <- OneOperator
  InitialBalance = 2
  NoRound = NoRound
  Period = {daily, weekly}
  Unlimited = Unlimited
  NoPending = NoPending
  LooseningDelay = 1
  MaxTime = 0
  PeriodKeys <- Windows
  PeriodKey <- DailyWeekly
  NoUsage = NoUsage
  Call = {c1, c2, c3}
  BetOptions = {2}
  Wins = {0, 3}
  ClientKey = {k1}
  NoKey = NoKey
  TransactionId = {t1}
  Requests <- LiveRequests
  InitialLimits <- MoneyLimits
  NoRequest = NoRequest
  NoSnapshot = NoSnapshot
  NoDocument = NoDocument
  NoReply = NoReply
PROPERTIES EveryCallAnswered
CHECK_DEADLOCK FALSE
