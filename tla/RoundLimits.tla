---------------------------- MODULE RoundLimits ----------------------------
(***************************************************************************)
(* apps/game-backend/src/rounds/limits.ts: the limits enforced on the      *)
(* money path.  Both operations run inside the spin's transaction, on the  *)
(* context x of module Ledger, and use the one clock reading t of the      *)
(* round.                                                                  *)
(***************************************************************************)
EXTENDS Ledger, PlayerLimits

CONSTANTS
  MaxTime,     \* bound: the last clock reading
  PeriodKeys,  \* the names of the windows
  PeriodKey,   \* PeriodKey[p][t]: the window of period p that t falls into
  NoUsage      \* an absent playerLimitUsage row

Time == 0..MaxTime
UsageRow == [staked : Nat, won : Nat]
UsageKey == Account \X Period \X PeriodKeys

ASSUME PeriodAssumption ==
  /\ MaxTime \in Nat
  /\ PeriodKey \in [Period -> [Time -> PeriodKeys]]
  /\ NoUsage \notin UsageRow

UsageDoc(u) == <<"playerLimitUsage", u>>

\* The rows of account a that are current at time t, one per period.
CurrentKey(a, p, t) == <<a, p, PeriodKey[p][t]>>
CurrentKeys(a, t) == {CurrentKey(a, p, t) : p \in Period}

RowOf(row) == IF row = NoUsage THEN [staked |-> 0, won |-> 0] ELSE row

UsageBefore(d, a, t) == [p \in Period |-> RowOf(d.usage[CurrentKey(a, p, t)])]

\* $inc staked with an upsert, in every period and not only the limited ones.
WithStake(usage, a, stake, t) ==
  [u \in UsageKey |->
     IF u \in CurrentKeys(a, t)
     THEN [staked |-> RowOf(usage[u]).staked + stake, won |-> RowOf(usage[u]).won]
     ELSE usage[u]]

AdvanceCounters(x, a, stake, t) ==
  Write(x, [x.db EXCEPT !.usage = WithStake(@, a, stake, t)],
        {UsageDoc(u) : u \in CurrentKeys(a, t)})

\* A player without limits is not counted at all.
StakeAgainstLimits(x, a, stake, t) ==
  LET limits   == EffectiveLimits(x.db.limits[a], t)
      advanced == AdvanceCounters(x, a, stake, t)
  IN  IF limits = NoLimits THEN x
      ELSE IF DecideBet(limits, UsageBefore(x.db, a, t), stake) THEN advanced
      ELSE Throw(advanced, "limit_exceeded")

\* $inc won without an upsert: only rows that exist are advanced.
Counted(usage, a, t) == {u \in CurrentKeys(a, t) : usage[u] # NoUsage}

WithWin(usage, a, won, t) ==
  [u \in UsageKey |->
     IF u \in Counted(usage, a, t)
     THEN [staked |-> usage[u].staked, won |-> usage[u].won + won]
     ELSE usage[u]]

\* Mutant: the win is credited and never counted.
RecordNoWin(x, a, won, t) == x

RecordWinAgainstLimits(x, a, won, t) ==
  IF Failed(x) \/ won <= 0 THEN x
  ELSE Write(x, [x.db EXCEPT !.usage = WithWin(@, a, won, t)],
             {UsageDoc(u) : u \in Counted(x.db.usage, a, t)})
=============================================================================
