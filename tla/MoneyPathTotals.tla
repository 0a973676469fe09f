-------------------------- MODULE MoneyPathTotals --------------------------
(***************************************************************************)
(* The properties of MoneyPath that are about sums over the ledger and the *)
(* rounds.                                                                 *)
(***************************************************************************)
EXTENDS MoneyPath, Sums

\* What the movements of one kind of one account add up to.
Total(movements, type, a) ==
  LET own == {m \in movements : m.type = type /\ m.account = a}
  IN  SumOver([m \in own |-> m.amount], own)

\* Every balance is explained by the ledger: what came in less what went out,
\* on top of the initial balance of a player first seen by a spin.  A lost
\* update or a movement applied twice would break it.
BalanceExplained ==
  \A a \in Account :
    db.balance[a] - Total(db.transactions, "credit", a) + Total(db.transactions, "debit", a)
      \in (IF a \in db.players THEN {0, InitialBalance} ELSE {0})

RoundsIn(rounds, a, p, key) ==
  {r \in rounds : r.account = a /\ PeriodKey[p][r.at] = key}

Staked(rounds) == SumOver([r \in rounds |-> r.bet], rounds)
Won(rounds) == SumOver([r \in rounds |-> r.win], rounds)

\* rounds/limits.ts: a counter "always holds both sides of the same rounds".
\* Each row is the sum of the stakes and of the wins of the rounds played in
\* its window.
CountersMatchRounds ==
  \A a \in Account, p \in Period :
    \A key \in {PeriodKey[p][t] : t \in Time} :
      LET row == db.usage[<<a, p, key>>]
          played == RoundsIn(db.rounds, a, p, key)
      IN  row # NoUsage => row.staked = Staked(played) /\ row.won = Won(played)
=============================================================================
