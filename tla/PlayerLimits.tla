---------------------------- MODULE PlayerLimits ----------------------------
(***************************************************************************)
(* packages/player-limits: which ceilings a player is held to, how a       *)
(* change of them is split into what applies at once and what waits, and   *)
(* whether a stake fits.  Pure: no clock, no database.                     *)
(*                                                                         *)
(* A set of limits is a total function from periods and fields to          *)
(* ceilings; the absent ceiling of the code is Unlimited.  Distinct        *)
(* entries for one period are refused by the API, so nothing is lost.      *)
(***************************************************************************)
EXTENDS Integers

CONSTANTS
  Period,          \* LIMIT_PERIODS
  Unlimited,       \* an absent ceiling
  NoPending,       \* an absent pending change
  LooseningDelay   \* LOOSENING_DELAY_MS, in the clock's units

ASSUME LimitsAssumption ==
  /\ Unlimited \notin Nat
  /\ LooseningDelay \in Nat

Field == {"maxStake", "maxLoss"}
Ceiling == Nat \cup {Unlimited}
LimitSet == [Period -> [Field -> Ceiling]]
NoLimits == [p \in Period |-> [f \in Field |-> Unlimited]]

Pending == [limits : LimitSet, effectiveAt : Nat]
LimitsDocument == [limits : LimitSet, pending : Pending \cup {NoPending}]

ASSUME PendingAssumption == NoPending \notin Pending

-----------------------------------------------------------------------------
\* An absent ceiling is above every other one.
Looser(from, to) ==
  /\ from # Unlimited
  /\ to = Unlimited \/ to > from

Tighter(from, to) == Looser(to, from)

Loosenings(current, proposed) ==
  {pf \in Period \X Field : Looser(current[pf[1]][pf[2]], proposed[pf[1]][pf[2]])}

ApplyTighteningsOnly(current, proposed) ==
  [p \in Period |-> [f \in Field |->
     IF Tighter(current[p][f], proposed[p][f]) THEN proposed[p][f] ELSE current[p][f]]]

IsDue(pending, t) == pending # NoPending /\ t >= pending.effectiveAt

EffectiveLimits(doc, t) ==
  IF IsDue(doc.pending, t) THEN doc.pending.limits ELSE doc.limits

\* The document a PUT stores, given the one it read at time t.
PutDocument(existing, proposed, t) ==
  LET current == EffectiveLimits(existing, t) IN
  [limits  |-> ApplyTighteningsOnly(current, proposed),
   pending |-> IF Loosenings(current, proposed) = {}
               THEN NoPending
               ELSE [limits |-> proposed, effectiveAt |-> t + LooseningDelay]]

-----------------------------------------------------------------------------
AtLeastZero(n) == IF n > 0 THEN n ELSE 0

\* Mutant: the stake ceiling is held against the net of stakes and wins too.
RemainingNet(field, ceiling, used) == AtLeastZero(ceiling - AtLeastZero(used.staked - used.won))

\* What may still be staked under one ceiling.
Remaining(field, ceiling, used) ==
  IF field = "maxStake"
  THEN AtLeastZero(ceiling - used.staked)
  ELSE AtLeastZero(ceiling - AtLeastZero(used.staked - used.won))

\* usage[p] is what was staked and won in period p before this bet.
DecideBet(limits, usage, stake) ==
  \A p \in Period, f \in Field :
     limits[p][f] # Unlimited => stake <= Remaining(f, limits[p][f], usage[p])
=============================================================================
