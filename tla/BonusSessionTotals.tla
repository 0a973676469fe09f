------------------------- MODULE BonusSessionTotals -------------------------
(* What a bonus session may pay, in sums of the prizes of its seed.         *)
EXTENDS BonusSession, Sums

\* What each free spin of a seed adds to the round, when spin i is played on
\* version on[i].
SpinWins(seed, on) ==
  [i \in 0..MaxSpins |-> Times(seed.spins[on[i]][i].win, Params[on[i]].winMultiplier)]

\* What the first so many free spins add up to, each on some version.
FreeSpinTotals(seed) ==
  {SumOver(SpinWins(seed, on), 0..n) : n \in 0..MaxSpins, on \in [0..MaxSpins -> Version]}

\* What a session may pay: the prizes of some tiles, or of its free spins.
Payable(session) ==
  LET r == session.round
      seed == session.seed
  IN  CASE ModuleOf[r] = "wheel" -> {Times(BetOf[r], seed.multiplier)}
        [] ModuleOf[r] = "pick" -> {Times(BetOf[r], SumOver(seed.tiles, picked)) : picked \in SUBSET Prizes(seed)}
        [] ModuleOf[r] = "freeSpins" -> FreeSpinTotals(seed)

\* Every credit is one the session's seed can produce on versions that were
\* published: no interleaving of steps and publishes is paid for the same tile
\* or the same free spin twice.
CreditsAreEarned ==
  \A k \in credits : k.amount \in Payable(sessions[k.id])
=============================================================================
