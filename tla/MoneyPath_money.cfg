\* Money, retries and crashes; no limits, so the clock stands still.
SPECIFICATION Spec
CONSTANTS
  a1 = a1
  a2 = a2
  o1 = o1
  k1 = k1
  t1 = t1
  daily = daily
  weekly = weekly
  Account = {a1, a2}
  OperatorOf <- OneOperator
  InitialBalance = 2
  NoRound = NoRound
  Period = {daily}
  Unlimited = Unlimited
  NoPending = NoPending
  LooseningDelay = 1
  MaxTime = 0
  PeriodKeys <- Windows
  PeriodKey <- Daily
  NoUsage = NoUsage
  Call = {c1, c2, c3, c4}
  BetOptions = {2}
  Wins = {1}
  ClientKey = {k1}
  NoKey = NoKey
  TransactionId = {t1}
  Requests <- MoneyRequests
  InitialLimits <- MoneyLimits
  NoRequest = NoRequest
  NoSnapshot = NoSnapshot
  NoDocument = NoDocument
  NoReply = NoReply
INVARIANTS TypeOK NonNegativeBalance RoundsMatchMovements ExactlyOnce SameRequestSameRound AnswersMatchRounds BalanceExplained
PROPERTIES ImplementsWallet
SYMMETRY Symmetry
CHECK_DEADLOCK FALSE
