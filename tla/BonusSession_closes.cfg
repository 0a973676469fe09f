\* Every bonus round is closed in the end.
SPECIFICATION FairSpec
CONSTANTS
  r1 = r1
  r2 = r2
  r3 = r3
  a1 = a1
  a2 = a2
  t1 = t1
  t2 = t2
  t3 = t3
  Tile = {t1, t2, t3}
  Blank = Blank
  Part = 2
  LastVersion = 1
  Params <- ParamsOfVersion
  MostSpins = 1
  MostGranted = 2
  MostRetriggers = 1
  Call = {c1, c2, c3}
  Round = {r1, r2}
  Account = {a1, a2}
  OwnerOf <- OneOwner
  ModuleOf <- ModuleOfRound
  BetOf <- ThreeEach
  Seeds <- OneSeed
  Requests <- AllRequests
  AbandonAfter = 1
  MaxTime = 2
  NoSession = NoSession
  NoRequest = NoRequest
  NoReply = NoReply
PROPERTIES EveryBonusCloses
CHECK_DEADLOCK FALSE
