---------------------------- MODULE MCMoneyPath ----------------------------
(* Instances of MoneyPath for TLC; each cfg picks its requests.            *)
EXTENDS MoneyPathTotals, TLC

Symmetry == Permutations(Call)

CONSTANTS a1, a2, o1, k1, t1, daily, weekly

OneOperator == [a \in Account |-> o1]

\* A day is one unit of the clock, a week two.
Windows == {"day0", "day1", "day2", "week0", "week1"}
Calendar == (daily :> <<"day0", "day1", "day2">> @@ weekly :> <<"week0", "week0", "week1">>)
DailyWeekly == [p \in {daily, weekly} |-> [t \in 0..MaxTime |-> Calendar[p][t + 1]]]
Daily == [p \in {daily} |-> [t \in 0..MaxTime |-> Calendar[p][t + 1]]]

Spin(a, amount, key) == [op |-> "spin", account |-> a, amount |-> amount, key |-> key]
Cash(op, a, amount, key) == [op |-> op, account |-> a, amount |-> amount, key |-> key]

Unrestricted == [a \in Account |-> [limits |-> NoLimits, pending |-> NoPending]]

\* Two players of one operator whose back office reuses a transactionId,
\* and spins with and without a clientRequestId.
MoneyRequests ==
  {Spin(a1, 2, k1), Spin(a1, 2, NoKey),
   Cash("cashIn", a1, 2, t1), Cash("cashOut", a1, 1, t1), Cash("cashIn", a2, 1, t1)}
MoneyLimits == {Unrestricted}

-----------------------------------------------------------------------------
\* Limits: a ceiling per field; -1 stands for none.
Held(stake, loss) ==
  [f \in Field |-> LET n == IF f = "maxStake" THEN stake ELSE loss IN IF n = -1 THEN Unlimited ELSE n]
Limits(onDay, onWeek) == (daily :> onDay @@ weekly :> onWeek)
Put(a, limits) == [op |-> "putLimits", account |-> a, limits |-> limits]
From(limits) == [limits |-> limits, pending |-> NoPending]
Then(limits, next, t) == [limits |-> limits, pending |-> [limits |-> next, effectiveAt |-> t]]
ForA1(docs) == {[a \in Account |-> doc] : doc \in docs}

\* A player who is limited from the start and never without limits: a daily
\* stake limit under a weekly loss limit, or a weekly raise already asked for.
LimitedStart ==
  ForA1({From(Limits(Held(5, -1), Held(-1, 5))),
         Then(Limits(Held(-1, 3), Held(5, -1)), Limits(Held(-1, 4), Held(9, -1)), 1)})
LimitedRequests ==
  {Spin(a1, 2, NoKey), Spin(a1, 3, k1), Spin(a1, 5, NoKey),
   Put(a1, Limits(Held(3, -1), Held(9, -1)))}

\* A weekly limit whose removal, asked for earlier, matures at time 1.
RemovalMatures == ForA1({Then(Limits(Held(-1, -1), Held(9, -1)), NoLimits, 1)})
RemovalRequests == {Spin(a1, 2, NoKey)}

\* Two changes of the same player's limits: 4 and then 6, or 6 and then 4.
TenADay == ForA1({From(Limits(Held(10, -1), Held(-1, -1)))})
TwoChanges == {Put(a1, Limits(Held(n, -1), Held(-1, -1))) : n \in {4, 6}}

\* A double-clicked spin.
SameSpin == {Spin(a1, 2, k1)}

\* Calls of every kind that want the same documents.
LiveRequests ==
  {Spin(a1, 2, k1), Cash("cashIn", a1, 2, t1), Cash("cashOut", a1, 1, t1),
   Put(a1, Limits(Held(2, -1), Held(-1, -1)))}
=============================================================================
