-------------------------- MODULE MoneyPathProofs --------------------------
(***************************************************************************)
(* Proofs about MoneyPath for every value of its constants.                *)
(*                                                                         *)
(* The argument has three layers.  The first says what each operation does *)
(* to the context of a transaction.  The second is the snapshot invariant: *)
(* a document that no other call wrote since the snapshot was taken is in  *)
(* the database as the transaction saw it.  With it, a transaction that    *)
(* commits did to the database of that moment what it did to its snapshot, *)
(* and the third layer carries the properties over each commit.            *)
(*                                                                         *)
(* On that invariant rest the proofs about steps (they are steps of the    *)
(* abstract wallet, and no spin that commits passes a ceiling) and about   *)
(* totals (every balance is what its movements add up to, every counter    *)
(* what its rounds do), which use the lemmas about sums.                   *)
(***************************************************************************)
EXTENDS MoneyPathTotals, SumsProofs

Errors == {NoError, "limit_exceeded", "insufficient_funds", "duplicate_key"}
Context == [db : Database, wrote : SUBSET Documents, error : Errors]

-----------------------------------------------------------------------------
(* Operations on a context.                                                *)

LEMMA CurrentKeysType ==
  ASSUME NEW a \in Account, NEW t \in Time
  PROVE  CurrentKeys(a, t) \subseteq UsageKey
BY PeriodAssumption DEF CurrentKeys, CurrentKey, UsageKey

LEMMA EffectiveLimitsType ==
  ASSUME NEW doc \in LimitsDocument, NEW t \in Time
  PROVE  EffectiveLimits(doc, t) \in LimitSet
BY DEF EffectiveLimits, IsDue, LimitsDocument, Pending

LEMMA RowOfType ==
  ASSUME NEW row \in UsageRow \cup {NoUsage}
  PROVE  RowOf(row) \in UsageRow
BY DEF RowOf, UsageRow

LEMMA WithStakeType ==
  ASSUME NEW usage \in [UsageKey -> UsageRow \cup {NoUsage}],
         NEW a \in Account, NEW stake \in Nat, NEW t \in Time
  PROVE  WithStake(usage, a, stake, t) \in [UsageKey -> UsageRow \cup {NoUsage}]
<1> SUFFICES ASSUME NEW u \in UsageKey
             PROVE  [staked |-> RowOf(usage[u]).staked + stake, won |-> RowOf(usage[u]).won] \in UsageRow
  BY DEF WithStake
<1> QED
  BY RowOfType DEF UsageRow

LEMMA WithWinType ==
  ASSUME NEW usage \in [UsageKey -> UsageRow \cup {NoUsage}],
         NEW a \in Account, NEW won \in Nat, NEW t \in Time
  PROVE  WithWin(usage, a, won, t) \in [UsageKey -> UsageRow \cup {NoUsage}]
<1> SUFFICES ASSUME NEW u \in UsageKey, usage[u] # NoUsage
             PROVE  [staked |-> usage[u].staked, won |-> usage[u].won + won] \in UsageRow
  BY DEF WithWin, Counted
<1> QED
  BY DEF UsageRow

LEMMA UsageReplaced ==
  ASSUME NEW d \in Database, NEW usage \in [UsageKey -> UsageRow \cup {NoUsage}]
  PROVE  /\ [d EXCEPT !.usage = usage] \in Database
         /\ [d EXCEPT !.usage = usage].usage = usage
BY DEF Database

\* Staking changes nothing but usage rows, and records each row it changes.
LEMMA StakeLemma ==
  ASSUME NEW x \in Context, NEW a \in Account, NEW stake \in Nat, NEW t \in Time,
         NEW y, y = StakeAgainstLimits(x, a, stake, t)
  PROVE  /\ y \in Context
         /\ y.db = [x.db EXCEPT !.usage = y.db.usage]
         /\ x.wrote \subseteq y.wrote
         /\ \A u \in UsageKey : y.db.usage[u] # x.db.usage[u] => UsageDoc(u) \in y.wrote
         /\ y.error \in {x.error, "limit_exceeded"}
<1> DEFINE z == AdvanceCounters(x, a, stake, t)
<1>1. x.db \in Database /\ x.db.usage \in [UsageKey -> UsageRow \cup {NoUsage}]
  BY DEF Context, Database
<1>2. {UsageDoc(u) : u \in CurrentKeys(a, t)} \subseteq Documents
  BY CurrentKeysType DEF Documents
<1>3. /\ z.db = [x.db EXCEPT !.usage = WithStake(x.db.usage, a, stake, t)]
      /\ z.wrote = x.wrote \cup {UsageDoc(u) : u \in CurrentKeys(a, t)}
      /\ z.error = x.error
      /\ z = [db |-> z.db, wrote |-> z.wrote, error |-> z.error]
  BY DEF AdvanceCounters, Write
<1>4. z.db \in Database /\ z.db.usage = WithStake(x.db.usage, a, stake, t)
  BY <1>1, <1>3, WithStakeType, UsageReplaced
<1>5. z \in Context
  BY <1>2, <1>3, <1>4 DEF Context
<1>6. \A u \in UsageKey : z.db.usage[u] # x.db.usage[u] => UsageDoc(u) \in z.wrote
  BY <1>1, <1>3, <1>4 DEF WithStake
<1>7. CASE y = x
  BY <1>7 DEF Context, Database
<1>8. CASE y = z
  BY <1>3, <1>4, <1>5, <1>6, <1>8
<1>9. CASE y = Throw(z, "limit_exceeded")
  <2>1. y.db = z.db /\ y.wrote = z.wrote /\ y.error = "limit_exceeded" /\ y \in Context
    BY <1>5, <1>9 DEF Throw, Context, Errors
  <2> QED
    BY <2>1, <1>3, <1>4, <1>6
<1> QED
  BY <1>7, <1>8, <1>9 DEF StakeAgainstLimits

\* So does recording a win.
LEMMA WinLemma ==
  ASSUME NEW x \in Context, NEW a \in Account, NEW won \in Nat, NEW t \in Time,
         NEW y, y = RecordWinAgainstLimits(x, a, won, t)
  PROVE  /\ y \in Context
         /\ y.db = [x.db EXCEPT !.usage = y.db.usage]
         /\ x.wrote \subseteq y.wrote
         /\ \A u \in UsageKey : y.db.usage[u] # x.db.usage[u] => UsageDoc(u) \in y.wrote
         /\ y.error = x.error
<1> DEFINE docs == {UsageDoc(u) : u \in Counted(x.db.usage, a, t)}
           z == Write(x, [x.db EXCEPT !.usage = WithWin(x.db.usage, a, won, t)], docs)
<1>1. x.db \in Database /\ x.db.usage \in [UsageKey -> UsageRow \cup {NoUsage}]
  BY DEF Context, Database
<1>2. docs \subseteq Documents
  BY CurrentKeysType DEF Documents, Counted
<1>3. /\ z.db = [x.db EXCEPT !.usage = WithWin(x.db.usage, a, won, t)]
      /\ z.wrote = x.wrote \cup docs
      /\ z.error = x.error
      /\ z = [db |-> z.db, wrote |-> z.wrote, error |-> z.error]
  BY DEF Write
<1>4. z.db \in Database /\ z.db.usage = WithWin(x.db.usage, a, won, t)
  <2>1. WithWin(x.db.usage, a, won, t) \in [UsageKey -> UsageRow \cup {NoUsage}]
    BY <1>1, WithWinType
  <2>2. /\ [x.db EXCEPT !.usage = WithWin(x.db.usage, a, won, t)] \in Database
        /\ [x.db EXCEPT !.usage = WithWin(x.db.usage, a, won, t)].usage = WithWin(x.db.usage, a, won, t)
    BY <1>1, <2>1, UsageReplaced
  <2> QED
    BY <1>3, <2>2
<1>5. z \in Context
  BY <1>2, <1>3, <1>4 DEF Context
<1>6. \A u \in UsageKey : z.db.usage[u] # x.db.usage[u] => UsageDoc(u) \in z.wrote
  BY <1>1, <1>3, <1>4 DEF WithWin
<1>7. CASE y = x
  BY <1>7 DEF Context, Database
<1>8. CASE y = z
  BY <1>3, <1>4, <1>5, <1>6, <1>8
<1> QED
  BY <1>7, <1>8 DEF RecordWinAgainstLimits

\* A ledger operation whose movement is there already, or after an exception,
\* changes nothing.
LEMMA LedgerIdempotent ==
  ASSUME NEW x, NEW type, NEW a, NEW id, NEW amount, NEW round,
         Failed(x) \/ HasTransaction(x.db, a, id)
  PROVE  ApplyLedgerOp(x, type, a, id, amount, round) = x
BY DEF ApplyLedgerOp

\* Otherwise it throws, or it moves the money.
LEMMA LedgerMoves ==
  ASSUME NEW x \in Context, NEW type \in {"debit", "credit"}, NEW a \in Account,
         NEW id \in TransactionId \cup RoundTransactionId, NEW amount \in Nat \ {0},
         NEW round \in Call \cup {NoRound},
         NEW y, y = ApplyLedgerOp(x, type, a, id, amount, round),
         ~HasTransaction(x.db, a, id), y.error = NoError
  PROVE  /\ x.error = NoError
         /\ y.db.players = x.db.players \cup {a}
         /\ y.db.balance = [x.db.balance EXCEPT ![a] = @ + Delta(type, amount)]
         /\ y.db.transactions = x.db.transactions \cup {Movement(type, a, id, amount, round)}
         /\ {PlayerDoc(a), TransactionDoc(a, id)} \subseteq y.wrote
         /\ type = "debit" => CanPay(x.db, a, amount)
<1> DEFINE d == Moved(x.db, type, a, id, amount, round)
           z == Write(x, d, {PlayerDoc(a), TransactionDoc(a, id)})
<1>1. x.error = NoError
  BY LedgerIdempotent DEF Failed
<1>2. type = "debit" => CanPay(x.db, a, amount)
  BY <1>1 DEF ApplyLedgerOp, Failed, Throw, Context, NoError
<1>3. y = z
  BY <1>1, <1>2 DEF ApplyLedgerOp, Failed
<1>4. /\ d.players = x.db.players \cup {a}
      /\ d.balance = [x.db.balance EXCEPT ![a] = x.db.balance[a] + Delta(type, amount)]
      /\ d.transactions = x.db.transactions \cup {Movement(type, a, id, amount, round)}
  BY DEF Moved, WithPlayer
<1>5. z.db = d /\ z.wrote = x.wrote \cup {PlayerDoc(a), TransactionDoc(a, id)}
  BY DEF Write
<1> QED
  BY <1>1, <1>2, <1>3, <1>4, <1>5

\* In any case it touches no round, no counter and no limit.
LEMMA LedgerFrame ==
  ASSUME NEW x \in Context, NEW type \in {"debit", "credit"}, NEW a \in Account,
         NEW id \in TransactionId \cup RoundTransactionId, NEW amount \in Nat \ {0},
         NEW round \in Call \cup {NoRound},
         NEW y, y = ApplyLedgerOp(x, type, a, id, amount, round)
  PROVE  /\ y \in Context
         /\ x.wrote \subseteq y.wrote
         /\ y.db.rounds = x.db.rounds /\ y.db.usage = x.db.usage /\ y.db.limits = x.db.limits
         /\ y.error \in {x.error, "insufficient_funds"}
<1> DEFINE d == Moved(x.db, type, a, id, amount, round)
           z == Write(x, d, {PlayerDoc(a), TransactionDoc(a, id)})
<1>1. x.db \in Database /\ x.wrote \subseteq Documents /\ x.error \in Errors
  BY DEF Context
<1>2. Movement(type, a, id, amount, round) \in MovementRow
  BY DEF Movement, MovementRow
<1>3. Delta(type, amount) \in Int
  BY DEF Delta
<1>4. d \in Database /\ d.rounds = x.db.rounds /\ d.usage = x.db.usage /\ d.limits = x.db.limits
  BY <1>1, <1>2, <1>3 DEF Database, Moved, WithPlayer
<1>5. {PlayerDoc(a), TransactionDoc(a, id)} \subseteq Documents
  BY DEF Documents
<1>6. /\ z.db = d /\ z.error = x.error
      /\ z.wrote = x.wrote \cup {PlayerDoc(a), TransactionDoc(a, id)}
      /\ z \in Context
  BY <1>1, <1>4, <1>5 DEF Write, Context
<1>7. CASE y = x
  BY <1>7
<1>8. CASE y = Throw(x, "insufficient_funds")
  BY <1>8 DEF Throw, Context, Errors
<1>9. CASE y = z
  BY <1>4, <1>6, <1>9
<1> QED
  BY <1>7, <1>8, <1>9 DEF ApplyLedgerOp

LEMMA InsertLemma ==
  ASSUME NEW x \in Context, NEW r \in RoundRow, NEW y, y = InsertRound(x, r)
  PROVE  /\ y \in Context
         /\ x.wrote \subseteq y.wrote
         /\ y.db.usage = x.db.usage
         /\ y.error = NoError =>
              /\ x.error = NoError
              /\ ~HasRound(x.db, r.account, r.key)
              /\ y.db = [x.db EXCEPT !.rounds = x.db.rounds \cup {r}]
              /\ y.db.rounds = x.db.rounds \cup {r}
              /\ r.key # NoKey => RoundDoc(r.account, r.key) \in y.wrote
<1> DEFINE d == [x.db EXCEPT !.rounds = x.db.rounds \cup {r}]
           docs == IF r.key = NoKey THEN {} ELSE {RoundDoc(r.account, r.key)}
           z == Write(x, d, docs)
<1>1. x.db \in Database /\ x.wrote \subseteq Documents /\ x.error \in Errors
  BY DEF Context
<1>2. d \in Database /\ d.rounds = x.db.rounds \cup {r} /\ d.usage = x.db.usage
  BY <1>1 DEF Database
<1>3. docs \subseteq Documents
  BY DEF Documents, RoundRow
<1>4. z.db = d /\ z.error = x.error /\ z.wrote = x.wrote \cup docs /\ z \in Context
  BY <1>1, <1>2, <1>3 DEF Write, Context
<1>5. CASE Failed(x)
  BY <1>5 DEF InsertRound, Failed
<1>6. CASE ~Failed(x) /\ HasRound(x.db, r.account, r.key)
  <2>1. y = Throw(x, "duplicate_key")
    BY <1>6 DEF InsertRound
  <2> QED
    BY <2>1 DEF Throw, Context, Errors, NoError
<1>7. CASE ~Failed(x) /\ ~HasRound(x.db, r.account, r.key)
  <2>1. y = z
    BY <1>7 DEF InsertRound
  <2> QED
    BY <1>2, <1>4, <1>7, <2>1 DEF Failed
<1> QED
  BY <1>5, <1>6, <1>7

-----------------------------------------------------------------------------
(* The bodies of the transactions, on the snapshot s they start from.      *)

\* The identifiers of the movements of call c are its own.
Unplayed(d, c) ==
  /\ \A m \in d.transactions : m.id # <<c, "debit">> /\ m.id # <<c, "credit">>
  /\ \A r \in d.rounds : r.id # c

StartOf(s) == [db |-> s, wrote |-> {}, error |-> NoError]

\* A spin that throws nothing has debited the bet, credited the win and
\* inserted its round, and has recorded every document it changed.
SpinPlayed(s, x, r) ==
  x.error = NoError =>
    /\ CanPay(s, r.account, r.bet)
    /\ ~HasRound(s, r.account, r.key)
    /\ x.db.players = s.players \cup {r.account}
    /\ x.db.balance = [s.balance EXCEPT ![r.account] = @ + (r.win - r.bet)]
    /\ x.db.transactions = s.transactions \cup MovementsOf(r)
    /\ x.db.rounds = s.rounds \cup {r}
    /\ PlayerDoc(r.account) \in x.wrote
    /\ r.key # NoKey => RoundDoc(r.account, r.key) \in x.wrote
    /\ \A u \in UsageKey : x.db.usage[u] # s.usage[u] => UsageDoc(u) \in x.wrote

LEMMA SpinBodyLemma ==
  ASSUME NEW s \in Database, NEW c \in Call, request[c] \in SpinRequest, at[c] \in Time,
         NEW win \in Wins, Unplayed(s, c)
  PROVE  /\ SpinBody(StartOf(s), c, win) \in Context
         /\ NewRound(c, at[c], win) \in RoundRow
         /\ SpinPlayed(s, SpinBody(StartOf(s), c, win), NewRound(c, at[c], win))
<1> SUFFICES ASSUME NEW x, x = SpinBody(StartOf(s), c, win),
                    NEW r, r = NewRound(c, at[c], win),
                    NEW a, a = request[c].account
             PROVE  x \in Context /\ r \in RoundRow /\ SpinPlayed(s, x, r)
  OBVIOUS
<1> DEFINE bet == request[c].amount
           x0 == StartOf(s)
           x1 == StakeAgainstLimits(x0, a, bet, at[c])
           x2 == ApplyLedgerOp(x1, "debit", a, <<c, "debit">>, bet, c)
           x3 == ApplyLedgerOp(x2, "credit", a, <<c, "credit">>, win, c)
           x4 == RecordWinAgainstLimits(x3, a, win, at[c])
           x5 == IF win = 0 THEN x2 ELSE x4
<1>1. /\ a \in Account /\ bet \in Nat \ {0} /\ win \in Nat
      /\ request[c].key \in ClientKey \cup {NoKey}
  BY WinsAssumption DEF SpinRequest
<1>2. x = InsertRound(x5, r)
  BY DEF SpinBody, StartOf
<1> HIDE DEF x0, x1, x2, x3, x4, x5
<1>3. r \in RoundRow /\ r.account = a /\ r.bet = bet /\ r.win = win /\ r.id = c
  BY <1>1 DEF NewRound, RoundRow
<1>4. x0 \in Context /\ x0.db = s /\ x0.error = NoError
  BY DEF x0, StartOf, Context, Errors
<1>5. <<c, "debit">> \in RoundTransactionId /\ <<c, "credit">> \in RoundTransactionId
  BY DEF RoundTransactionId
<1>6. /\ x1 \in Context
      /\ x1.db = [s EXCEPT !.usage = x1.db.usage]
      /\ \A u \in UsageKey : x1.db.usage[u] # s.usage[u] => UsageDoc(u) \in x1.wrote
  BY <1>1, <1>4, StakeLemma DEF x1
<1>7. /\ x1.db.players = s.players /\ x1.db.balance = s.balance
      /\ x1.db.transactions = s.transactions /\ x1.db.rounds = s.rounds
  BY <1>6 DEF Database
<1>8. ~HasTransaction(x1.db, a, <<c, "debit">>)
  BY <1>7 DEF HasTransaction, Unplayed
<1>9. /\ x2 \in Context /\ x1.wrote \subseteq x2.wrote
      /\ x2.db.rounds = x1.db.rounds /\ x2.db.usage = x1.db.usage
      /\ x2.error = NoError =>
           /\ x2.db.players = x1.db.players \cup {a}
           /\ x2.db.balance = [x1.db.balance EXCEPT ![a] = @ + Delta("debit", bet)]
           /\ x2.db.transactions = x1.db.transactions \cup {Movement("debit", a, <<c, "debit">>, bet, c)}
           /\ PlayerDoc(a) \in x2.wrote
           /\ CanPay(x1.db, a, bet)
  <2>1. /\ x1 \in Context /\ "debit" \in {"debit", "credit"} /\ c \in Call \cup {NoRound}
        /\ <<c, "debit">> \in TransactionId \cup RoundTransactionId
    BY <1>5, <1>6
  <2>2. x2 = ApplyLedgerOp(x1, "debit", a, <<c, "debit">>, bet, c)
    BY DEF x2
  <2> HIDE DEF bet
  <2> QED
    BY <1>1, <1>8, <2>1, <2>2, LedgerFrame, LedgerMoves, SMTT(60)
<1>10. /\ x5 \in Context /\ x2.wrote \subseteq x5.wrote
       /\ \A u \in UsageKey : x5.db.usage[u] # s.usage[u] => UsageDoc(u) \in x5.wrote
       /\ x5.error = NoError =>
            /\ x2.error = NoError
            /\ x5.db.rounds = s.rounds
            /\ x5.db.players = s.players \cup {a}
            /\ x5.db.balance = [s.balance EXCEPT ![a] = @ + (win - bet)]
            /\ x5.db.transactions = s.transactions \cup MovementsOf(r)
  <2>1. CASE win = 0
    <3>1. MovementsOf(r) = {Movement("debit", a, <<c, "debit">>, bet, c)}
      BY <1>1, <1>3, <2>1 DEF MovementsOf
    <3>2. x2.error = NoError => x2.db.balance = [s.balance EXCEPT ![a] = @ + (win - bet)]
      BY <1>1, <1>7, <1>9, <2>1 DEF Delta, Database
    <3> QED
      BY <1>6, <1>7, <1>9, <2>1, <3>1, <3>2 DEF x5
  <2>2. CASE win # 0
    <3>1. win \in Nat \ {0}
      BY <1>1, <2>2
    <3>2. x2.error = NoError => ~HasTransaction(x2.db, a, <<c, "credit">>)
      BY <1>7, <1>9 DEF HasTransaction, Unplayed, Movement
    <3>3. /\ x3 \in Context /\ x2.wrote \subseteq x3.wrote
          /\ x3.db.rounds = x2.db.rounds /\ x3.db.usage = x2.db.usage
          /\ x3.error = NoError => x2.error = NoError
          /\ x3.error = NoError =>
               /\ x3.db.players = x2.db.players \cup {a}
               /\ x3.db.balance = [x2.db.balance EXCEPT ![a] = @ + Delta("credit", win)]
               /\ x3.db.transactions = x2.db.transactions \cup {Movement("credit", a, <<c, "credit">>, win, c)}
      <4>1. /\ x2 \in Context /\ a \in Account /\ win \in Nat \ {0}
            /\ "credit" \in {"debit", "credit"} /\ c \in Call \cup {NoRound}
            /\ <<c, "credit">> \in TransactionId \cup RoundTransactionId
        BY <1>1, <1>5, <1>9, <3>1
      <4>2. x3 = ApplyLedgerOp(x2, "credit", a, <<c, "credit">>, win, c)
        BY DEF x3
      <4>3. x3.error = NoError => x2.error = NoError
        BY <4>2, LedgerIdempotent DEF Failed
      <4>4. ASSUME x3.error = NoError
            PROVE  /\ x3.db.players = x2.db.players \cup {a}
                   /\ x3.db.balance = [x2.db.balance EXCEPT ![a] = @ + Delta("credit", win)]
                   /\ x3.db.transactions = x2.db.transactions \cup {Movement("credit", a, <<c, "credit">>, win, c)}
        BY <3>2, <4>1, <4>2, <4>3, <4>4, LedgerMoves
      <4> QED
        BY <4>1, <4>2, <4>3, <4>4, LedgerFrame
    <3>4. /\ x4 \in Context /\ x3.wrote \subseteq x4.wrote /\ x4.error = x3.error
          /\ x4.db = [x3.db EXCEPT !.usage = x4.db.usage]
          /\ \A u \in UsageKey : x4.db.usage[u] # x3.db.usage[u] => UsageDoc(u) \in x4.wrote
      BY <1>1, <3>3, WinLemma DEF x4
    <3>5. /\ x4.db.players = x3.db.players /\ x4.db.balance = x3.db.balance
          /\ x4.db.transactions = x3.db.transactions /\ x4.db.rounds = x3.db.rounds
      BY <3>3, <3>4 DEF Database, Context
    <3>6. MovementsOf(r) = {Movement("debit", a, <<c, "debit">>, bet, c),
                            Movement("credit", a, <<c, "credit">>, win, c)}
      BY <1>1, <1>3, <3>1 DEF MovementsOf
    <3>7. x3.error = NoError => x3.db.balance = [s.balance EXCEPT ![a] = @ + (win - bet)]
      BY <1>1, <1>7, <1>9, <3>3 DEF Delta, Database
    <3> QED
      BY <1>6, <1>7, <1>9, <2>2, <3>3, <3>4, <3>5, <3>6, <3>7 DEF x5
  <2> QED
    BY <2>1, <2>2
<1>11. /\ x \in Context /\ x5.wrote \subseteq x.wrote
       /\ x.db.usage = x5.db.usage
       /\ x.error = NoError =>
            /\ x5.error = NoError
            /\ ~HasRound(x5.db, a, r.key)
            /\ x.db = [x5.db EXCEPT !.rounds = x5.db.rounds \cup {r}]
            /\ x.db.rounds = x5.db.rounds \cup {r}
            /\ r.key # NoKey => RoundDoc(a, r.key) \in x.wrote
  BY <1>2, <1>3, <1>10, InsertLemma
<1>12. ASSUME x.error = NoError
       PROVE  /\ x.db.players = x5.db.players /\ x.db.balance = x5.db.balance
              /\ x.db.transactions = x5.db.transactions
  BY <1>10, <1>11, <1>12 DEF Context, Database
<1>13. ASSUME x.error = NoError
       PROVE  CanPay(s, a, r.bet) /\ ~HasRound(s, a, r.key)
  BY <1>3, <1>7, <1>9, <1>10, <1>11, <1>13 DEF CanPay, HasRound
<1>14. \A u \in UsageKey : x.db.usage[u] # s.usage[u] => UsageDoc(u) \in x.wrote
  BY <1>10, <1>11
<1>15. ASSUME x.error = NoError
       PROVE  /\ x.db.players = s.players \cup {a}
              /\ x.db.balance = [s.balance EXCEPT ![a] = @ + (win - bet)]
              /\ x.db.transactions = s.transactions \cup MovementsOf(r)
              /\ x.db.rounds = s.rounds \cup {r}
              /\ PlayerDoc(a) \in x.wrote
              /\ r.key # NoKey => RoundDoc(a, r.key) \in x.wrote
  BY <1>9, <1>10, <1>11, <1>12, <1>15
<1> HIDE DEF bet
<1> QED
  BY <1>3, <1>11, <1>13, <1>14, <1>15 DEF SpinPlayed
-----------------------------------------------------------------------------
(* The inductive invariant.                                                *)

InTransaction(c) == pc[c] = "transaction"

\* A call that is past its arrival has the request its step belongs to.
CallOK(c) ==
  /\ pc[c] # "idle" => request[c] \in Requests
  /\ pc[c] \in {"ensure", "lookup"} => request[c].op = "spin"
  /\ pc[c] \in {"begin", "transaction"} => request[c].op \in {"spin", "cashIn", "cashOut"}
  /\ pc[c] \in {"readLimits", "storeLimits"} => request[c].op = "putLimits"
  /\ pc[c] = "storeLimits" => document[c] \in LimitsDocument
  /\ InTransaction(c) => snapshot[c] \in Database

CallInv == \A c \in Call : CallOK(c)

\* What the snapshot of call c still says about the database: nothing is
\* deleted, a player or counter no other call wrote since is as it was, and
\* what was inserted since under a unique key is known to conflict.
SnapshotAgrees(s, d, docs) ==
  /\ s.transactions \subseteq d.transactions /\ s.rounds \subseteq d.rounds
  /\ \A a \in Account : PlayerDoc(a) \notin docs =>
       /\ a \in s.players <=> a \in d.players
       /\ s.balance[a] = d.balance[a]
  /\ \A u \in UsageKey : UsageDoc(u) \notin docs => s.usage[u] = d.usage[u]
  /\ \A m \in d.transactions \ s.transactions :
       m.round = NoRound => TransactionDoc(m.account, m.id) \in docs
  /\ \A r \in d.rounds \ s.rounds : r.key # NoKey => RoundDoc(r.account, r.key) \in docs

SnapshotOK(c) == InTransaction(c) => SnapshotAgrees(snapshot[c], db, stale[c])

SnapshotInv == \A c \in Call : SnapshotOK(c)

\* What a call answered, or will answer unless it dies or loses the result of
\* its commit.
Told(c, outcomes) == pc[c] \in {"committed", "done"} /\ reply[c].outcome \in outcomes

MayHavePlayed(c) == pc[c] = "crashed" \/ Told(c, {"resolved", "failed"})

\* A call has played nothing before it commits, and what it answers with is a
\* round of its own request: its own round if it says that it played.
FreshOK(c) ==
  /\ ~MayHavePlayed(c) => Unplayed(db, c)
  /\ Told(c, {"resolved"}) => reply[c].round = c
  /\ Told(c, {"resolved", "replayed"}) =>
       \E r \in db.rounds : /\ r.id = reply[c].round
                            /\ r.account = request[c].account
                            /\ r.key = request[c].key

FreshInv == \A c \in Call : FreshOK(c)

\* The transactionIds of operators are told apart from those of rounds.
IdsInv ==
  \A m \in db.transactions :
    IF m.round = NoRound THEN m.id \in TransactionId ELSE m.id \in RoundTransactionId

DbInv == NonNegativeBalance /\ RoundsMatchMovements /\ ExactlyOnce /\ IdsInv

IInv == TypeOK /\ CallInv /\ SnapshotInv /\ FreshInv /\ DbInv

-----------------------------------------------------------------------------
(* The transactions a call may commit.                                     *)

CashType(c) == IF request[c].op = "cashIn" THEN "credit" ELSE "debit"
CashMovement(c) ==
  Movement(CashType(c), request[c].account, request[c].key, request[c].amount, NoRound)

\* A cash movement that throws nothing was there already, or is new.
LEMMA CashBodyLemma ==
  ASSUME NEW s \in Database, NEW c \in Call, request[c] \in CashRequest,
         NEW x, x = CashBody(StartOf(s), c),
         NEW a, a = request[c].account,
         NEW id, id = request[c].key,
         NEW amount, amount = request[c].amount
  PROVE  /\ x \in Context
         /\ CashMovement(c) \in MovementRow
         /\ x.db.rounds = s.rounds /\ x.db.usage = s.usage
         /\ x.error = NoError =>
              \/ x = StartOf(s)
              \/ /\ ~HasTransaction(s, a, id)
                 /\ x.db.players = s.players \cup {a}
                 /\ x.db.balance = [s.balance EXCEPT ![a] = @ + Delta(CashType(c), amount)]
                 /\ x.db.transactions = s.transactions \cup {CashMovement(c)}
                 /\ {PlayerDoc(a), TransactionDoc(a, id)} \subseteq x.wrote
                 /\ CashType(c) = "debit" => CanPay(s, a, amount)
<1>1. /\ a \in Account /\ amount \in Nat \ {0} /\ id \in TransactionId
      /\ CashType(c) \in {"debit", "credit"}
  BY DEF CashRequest, CashType
<1>2. StartOf(s) \in Context /\ StartOf(s).db = s /\ StartOf(s).error = NoError
  BY DEF StartOf, Context, Errors
<1>3. x = ApplyLedgerOp(StartOf(s), CashType(c), a, id, amount, NoRound)
  BY DEF CashBody, CashType
<1>4. CashMovement(c) \in MovementRow
  BY <1>1 DEF CashMovement, Movement, MovementRow
<1>5. x \in Context /\ x.db.rounds = s.rounds /\ x.db.usage = s.usage
  BY <1>1, <1>2, <1>3, LedgerFrame
<1>6. CASE HasTransaction(s, a, id)
  BY <1>2, <1>3, <1>4, <1>5, <1>6, LedgerIdempotent
<1>7. CASE ~HasTransaction(s, a, id)
  <2> SUFFICES ASSUME x.error = NoError
               PROVE  /\ x.db.players = s.players \cup {a}
                      /\ x.db.balance = [s.balance EXCEPT ![a] = @ + Delta(CashType(c), amount)]
                      /\ x.db.transactions = s.transactions \cup {CashMovement(c)}
                      /\ {PlayerDoc(a), TransactionDoc(a, id)} \subseteq x.wrote
                      /\ CashType(c) = "debit" => CanPay(s, a, amount)
    BY <1>4, <1>5, <1>7
  <2>1. CashMovement(c) = Movement(CashType(c), a, id, amount, NoRound)
    BY DEF CashMovement
  <2> QED
    BY <1>1, <1>2, <1>3, <1>7, <2>1, LedgerMoves
<1> QED
  BY <1>6, <1>7

\* From database d to e, account a gained n and these movements and rounds
\* were inserted.
Moves(d, e, a, n, movements, rounds) ==
  /\ e.players = d.players \cup {a}
  /\ e.balance = [d.balance EXCEPT ![a] = @ + n]
  /\ e.transactions = d.transactions \cup movements
  /\ e.rounds = d.rounds \cup rounds

\* A transaction that conflicts with nothing does to the database of its
\* commit what it did to its snapshot.
LEMMA InstallLemma ==
  ASSUME db \in Database, NEW s \in Database, NEW docs, SnapshotAgrees(s, db, docs),
         NEW x \in Context, x.wrote \cap docs = {},
         NEW a \in Account, NEW n \in Int, NEW movements, NEW rounds,
         Moves(s, x.db, a, n, movements, rounds),
         PlayerDoc(a) \in x.wrote
  PROVE  /\ Moves(db, Install(x.db, x.wrote), a, n, movements, rounds)
         /\ a \in s.players <=> a \in db.players
         /\ s.balance[a] = db.balance[a]
<1> SUFFICES ASSUME NEW e, e = Install(x.db, x.wrote)
             PROVE  /\ Moves(db, e, a, n, movements, rounds)
                    /\ a \in s.players <=> a \in db.players
                    /\ s.balance[a] = db.balance[a]
  OBVIOUS
<1>1. PlayerDoc(a) \notin docs
  OBVIOUS
<1>2. (a \in s.players <=> a \in db.players) /\ s.balance[a] = db.balance[a]
  BY <1>1 DEF SnapshotAgrees
<1>3. db.players \subseteq Account /\ db.balance \in [Account -> Int] /\ s.balance \in [Account -> Int]
  BY DEF Database
<1>4. \A b \in Account : PlayerDoc(b) \in x.wrote =>
        /\ b \in x.db.players <=> b \in db.players \cup {a}
        /\ x.db.balance[b] = [db.balance EXCEPT ![a] = @ + n][b]
  BY <1>2, <1>3 DEF SnapshotAgrees, Moves
<1>5. e.players = db.players \cup {a}
  BY <1>3, <1>4 DEF Install
<1>6. e.balance = [db.balance EXCEPT ![a] = @ + n]
  <2>1. e.balance = [b \in Account |-> IF PlayerDoc(b) \in x.wrote THEN x.db.balance[b] ELSE db.balance[b]]
    BY DEF Install
  <2>2. \A b \in Account : e.balance[b] = [db.balance EXCEPT ![a] = @ + n][b]
    BY <1>3, <1>4, <2>1
  <2> QED
    BY <1>3, <2>1, <2>2
<1>7. e.transactions = db.transactions \cup movements /\ e.rounds = db.rounds \cup rounds
  BY DEF Install, SnapshotAgrees, Moves
<1> QED
  BY <1>2, <1>5, <1>6, <1>7 DEF Moves

LEMMA InstallType ==
  ASSUME db \in Database, NEW x \in Context
  PROVE  Install(x.db, x.wrote) \in Database
BY DEF Install, Context, Database

\* What a commit does to the snapshot of another open transaction is recorded
\* among the documents that transaction will conflict on.
LEMMA SnapshotKept ==
  ASSUME db \in Database, NEW s \in Database, NEW docs, SnapshotAgrees(s, db, docs),
         NEW x \in Context, NEW e, e = Install(x.db, x.wrote),
         \A m \in e.transactions \ db.transactions :
           m.round = NoRound => TransactionDoc(m.account, m.id) \in x.wrote,
         \A r \in e.rounds \ db.rounds : r.key # NoKey => RoundDoc(r.account, r.key) \in x.wrote
  PROVE  SnapshotAgrees(s, e, docs \cup x.wrote)
<1>1. /\ db.transactions \subseteq e.transactions /\ db.rounds \subseteq e.rounds
      /\ \A a \in Account : PlayerDoc(a) \notin x.wrote =>
           /\ a \in e.players <=> a \in db.players
           /\ e.balance[a] = db.balance[a]
      /\ \A u \in UsageKey : UsageDoc(u) \notin x.wrote => e.usage[u] = db.usage[u]
  BY DEF Install, Database
<1> QED
  BY <1>1 DEF SnapshotAgrees

-----------------------------------------------------------------------------
(* One call moves and the others stand still.                              *)

OthersStand(c) ==
  \A o \in Call \ {c} :
    /\ pc'[o] = pc[o] /\ request'[o] = request[o] /\ snapshot'[o] = snapshot[o]
    /\ document'[o] = document[o] /\ reply'[o] = reply[o]

LEMMA CallFrame ==
  ASSUME CallInv, NEW c \in Call, OthersStand(c), CallOK(c)'
  PROVE  CallInv'
<1> SUFFICES ASSUME NEW o \in Call, o # c PROVE CallOK(o)'
  BY DEF CallInv
<1>1. CallOK(o)
  BY DEF CallInv
<1> QED
  BY <1>1 DEF CallOK, InTransaction, OthersStand

LEMMA FreshFrame ==
  ASSUME FreshInv, NEW c \in Call, OthersStand(c), db.rounds \subseteq db'.rounds,
         \A o \in Call \ {c} : Unplayed(db, o) => Unplayed(db', o),
         FreshOK(c)'
  PROVE  FreshInv'
<1> SUFFICES ASSUME NEW o \in Call, o # c PROVE FreshOK(o)'
  BY DEF FreshInv
<1>1. FreshOK(o)
  BY DEF FreshInv
<1>2. /\ pc'[o] = pc[o] /\ request'[o] = request[o] /\ reply'[o] = reply[o]
      /\ Unplayed(db, o) => Unplayed(db', o)
  BY DEF OthersStand
<1>3. \A outcomes : Told(o, outcomes)' <=> Told(o, outcomes)
  BY <1>2 DEF Told
<1>4. MayHavePlayed(o)' <=> MayHavePlayed(o)
  BY <1>2, <1>3 DEF MayHavePlayed
<1> QED
  BY <1>1, <1>2, <1>3, <1>4 DEF FreshOK

\* A step of call c that leaves the database alone.
LEMMA QuietStep ==
  ASSUME IInv, NEW c \in Call, OthersStand(c), db' = db, TypeOK', CallOK(c)', FreshOK(c)',
         \A o \in Call \ {c} : stale'[o] = stale[o], SnapshotOK(c)'
  PROVE  IInv'
<1>1. CallInv'
  BY CallFrame DEF IInv
<1>2. FreshInv'
  BY FreshFrame DEF IInv
<1>3. SnapshotInv'
  <2> SUFFICES ASSUME NEW o \in Call, o # c PROVE SnapshotOK(o)'
    BY DEF SnapshotInv
  <2>1. SnapshotOK(o)
    BY DEF IInv, SnapshotInv
  <2> QED
    BY <2>1 DEF SnapshotOK, InTransaction, OthersStand
<1>4. DbInv'
  BY DEF IInv, DbInv, NonNegativeBalance, RoundsMatchMovements, ExactlyOnce, IdsInv
<1> QED
  BY <1>1, <1>2, <1>3, <1>4 DEF IInv

LEMMA AnswerType ==
  ASSUME pc \in [Call -> Label], reply \in [Call -> Replies \cup {NoReply}],
         NEW c \in Call, NEW outcome, NEW round,
         [outcome |-> outcome, round |-> round] \in Replies, Answer(c, outcome, round)
  PROVE  /\ pc' \in [Call -> Label] /\ reply' \in [Call -> Replies \cup {NoReply}]
         /\ pc'[c] = "done" /\ reply'[c].outcome = outcome /\ reply'[c].round = round
         /\ \A o \in Call \ {c} : pc'[o] = pc[o] /\ reply'[o] = reply[o]
BY DEF Answer, Goto, Label

LEMMA GotoType ==
  ASSUME pc \in [Call -> Label], NEW c \in Call, NEW label \in Label, Goto(c, label)
  PROVE  /\ pc' \in [Call -> Label]
         /\ pc'[c] = label
         /\ \A o \in Call \ {c} : pc'[o] = pc[o]
BY DEF Goto

LEMMA KeepType ==
  ASSUME pc \in [Call -> Label], reply \in [Call -> Replies \cup {NoReply}],
         NEW c \in Call, NEW outcome, NEW round,
         [outcome |-> outcome, round |-> round] \in Replies, Goto(c, "committed"), Keep(c, outcome, round)
  PROVE  /\ pc' \in [Call -> Label] /\ reply' \in [Call -> Replies \cup {NoReply}]
         /\ pc'[c] = "committed" /\ reply'[c].outcome = outcome /\ reply'[c].round = round
         /\ \A o \in Call \ {c} : pc'[o] = pc[o] /\ reply'[o] = reply[o]
BY DEF Keep, Goto, Label

\* What a round found under a clientRequestId is.
LEMMA RoundOfType ==
  ASSUME NEW d \in Database, NEW a, NEW key, HasRound(d, a, key)
  PROVE  /\ RoundOf(d, a, key) \in d.rounds
         /\ RoundOf(d, a, key).id \in Call
         /\ RoundOf(d, a, key).account = a /\ RoundOf(d, a, key).key = key
BY DEF HasRound, RoundOf, Database, RoundRow
-----------------------------------------------------------------------------
(* The steps that leave the database alone.                                *)

LEMMA ArriveStep ==
  ASSUME IInv, NEW c \in Call, Arrive(c)
  PROVE  IInv'
<1>1. PICK r \in Requests :
        /\ request' = [request EXCEPT ![c] = r]
        /\ \/ r.op = "spin" /\ Goto(c, "ensure") /\ UNCHANGED reply
           \/ r.op = "spin" /\ Answer(c, "invalid_bet", NoRound)
           \/ r.op \in {"cashIn", "cashOut"} /\ Goto(c, "begin") /\ UNCHANGED reply
           \/ r.op = "putLimits" /\ Goto(c, "readLimits") /\ UNCHANGED reply
  BY DEF Arrive
<1>2. TypeOK /\ pc[c] = "idle" /\ UNCHANGED <<db, now, at, snapshot, stale, document>>
  BY DEF Arrive, IInv
<1>3. Unplayed(db, c)
  BY <1>2 DEF IInv, FreshInv, FreshOK, MayHavePlayed, Told
<1>4. /\ request' \in [Call -> Requests \cup {NoRequest}] /\ request'[c] = r
      /\ \A o \in Call \ {c} : request'[o] = request[o]
  BY <1>1, <1>2 DEF TypeOK
<1>5. pc \in [Call -> Label] /\ reply \in [Call -> Replies \cup {NoReply}]
  BY <1>2 DEF TypeOK
<1>6. CASE UNCHANGED reply /\ \E label \in {"ensure", "begin", "readLimits"} :
             /\ Goto(c, label)
             /\ label = "ensure" => r.op = "spin"
             /\ label = "begin" => r.op \in {"cashIn", "cashOut"}
             /\ label = "readLimits" => r.op = "putLimits"
  <2>1. PICK label \in {"ensure", "begin", "readLimits"} :
             /\ Goto(c, label)
             /\ label = "ensure" => r.op = "spin"
             /\ label = "begin" => r.op \in {"cashIn", "cashOut"}
             /\ label = "readLimits" => r.op = "putLimits"
    BY <1>6
  <2>2. pc' \in [Call -> Label] /\ pc'[c] = label /\ \A o \in Call \ {c} : pc'[o] = pc[o]
    BY <1>5, <2>1, GotoType DEF Label
  <2>3. TypeOK'
    BY <1>2, <1>4, <1>6, <2>2 DEF TypeOK
  <2>4. CallOK(c)'
    BY <1>4, <2>1, <2>2 DEF CallOK, InTransaction
  <2>5. FreshOK(c)' /\ SnapshotOK(c)'
    BY <1>2, <1>3, <2>2 DEF FreshOK, SnapshotOK, MayHavePlayed, Told, InTransaction, Unplayed
  <2>6. OthersStand(c)
    BY <1>2, <1>4, <1>6, <2>2 DEF OthersStand
  <2> QED
    BY <1>2, <2>3, <2>4, <2>5, <2>6, QuietStep
<1>7. CASE Answer(c, "invalid_bet", NoRound)
  <2>1. /\ pc' \in [Call -> Label] /\ reply' \in [Call -> Replies \cup {NoReply}]
        /\ pc'[c] = "done" /\ reply'[c].outcome = "invalid_bet"
        /\ \A o \in Call \ {c} : pc'[o] = pc[o] /\ reply'[o] = reply[o]
    BY <1>5, <1>7, AnswerType DEF Replies
  <2>2. TypeOK'
    BY <1>2, <1>4, <2>1 DEF TypeOK
  <2>3. CallOK(c)'
    BY <1>4, <2>1 DEF CallOK, InTransaction
  <2>4. FreshOK(c)' /\ SnapshotOK(c)'
    BY <1>2, <1>3, <2>1 DEF FreshOK, SnapshotOK, MayHavePlayed, Told, InTransaction, Unplayed
  <2>5. OthersStand(c)
    BY <1>2, <1>4, <2>1 DEF OthersStand
  <2> QED
    BY <1>2, <2>2, <2>3, <2>4, <2>5, QuietStep
<1> QED
  BY <1>1, <1>6, <1>7

\* Answering with a round that is there already.
LEMMA ReplayStep ==
  ASSUME IInv, NEW c \in Call, NEW a, NEW key, HasRound(db, a, key),
         a = request[c].account, key = request[c].key, pc[c] \in {"lookup", "recover"},
         Answer(c, "replayed", RoundOf(db, a, key).id),
         UNCHANGED <<db, now, request, at, snapshot, stale, document>>
  PROVE  IInv'
<1>1. TypeOK /\ CallOK(c) /\ Unplayed(db, c)
  BY DEF IInv, CallInv, FreshInv, FreshOK, MayHavePlayed, Told
<1>2. /\ RoundOf(db, a, key) \in db.rounds /\ RoundOf(db, a, key).id \in Call
      /\ RoundOf(db, a, key).account = a /\ RoundOf(db, a, key).key = key
  BY <1>1, RoundOfType DEF TypeOK
<1>3. /\ pc' \in [Call -> Label] /\ reply' \in [Call -> Replies \cup {NoReply}]
      /\ pc'[c] = "done" /\ reply'[c].outcome = "replayed" /\ reply'[c].round = RoundOf(db, a, key).id
      /\ \A o \in Call \ {c} : pc'[o] = pc[o] /\ reply'[o] = reply[o]
  BY <1>1, <1>2, AnswerType DEF TypeOK, Replies
<1>4. TypeOK'
  BY <1>1, <1>3 DEF TypeOK
<1>5. CallOK(c)' /\ SnapshotOK(c)'
  BY <1>1, <1>3 DEF CallOK, SnapshotOK, InTransaction
<1>6. FreshOK(c)'
  BY <1>1, <1>2, <1>3 DEF FreshOK, MayHavePlayed, Told, Unplayed
<1> QED
  BY <1>3, <1>4, <1>5, <1>6, QuietStep DEF OthersStand

\* Answering without a round: an error, or a change of limits.
LEMMA RefuseStep ==
  ASSUME IInv, NEW c \in Call, pc[c] \notin {"idle", "committed", "done", "crashed"},
         NEW outcome \in {"insufficient_funds", "limit_exceeded", "duplicate_key"},
         Answer(c, outcome, NoRound), TypeOK',
         UNCHANGED <<db, request, document>>,
         \A o \in Call \ {c} : stale'[o] = stale[o] /\ snapshot'[o] = snapshot[o]
  PROVE  IInv'
<1>1. TypeOK /\ CallOK(c) /\ Unplayed(db, c)
  BY DEF IInv, CallInv, FreshInv, FreshOK, MayHavePlayed, Told
<1>2. /\ pc'[c] = "done" /\ reply'[c].outcome = outcome
      /\ \A o \in Call \ {c} : pc'[o] = pc[o] /\ reply'[o] = reply[o]
  BY <1>1, AnswerType DEF TypeOK, Replies
<1>3. CallOK(c)' /\ SnapshotOK(c)'
  BY <1>1, <1>2 DEF CallOK, SnapshotOK, InTransaction
<1>4. FreshOK(c)'
  BY <1>1, <1>2 DEF FreshOK, MayHavePlayed, Told, Unplayed
<1> QED
  BY <1>2, <1>3, <1>4, QuietStep DEF OthersStand
\* Going on with something else.
LEMMA ResumeStep ==
  ASSUME IInv, NEW c \in Call, pc[c] \notin {"idle", "committed", "done", "crashed"},
         NEW label \in {"begin", "recover"}, Goto(c, label),
         label = "begin" => request[c].op \in {"spin", "cashIn", "cashOut"},
         TypeOK', UNCHANGED <<db, request, reply>>,
         \A o \in Call \ {c} :
           stale'[o] = stale[o] /\ snapshot'[o] = snapshot[o] /\ document'[o] = document[o]
  PROVE  IInv'
<1>1. TypeOK /\ CallOK(c) /\ Unplayed(db, c)
  BY DEF IInv, CallInv, FreshInv, FreshOK, MayHavePlayed, Told
<1>2. pc'[c] = label /\ \A o \in Call \ {c} : pc'[o] = pc[o]
  BY <1>1, GotoType DEF TypeOK, Label
<1>3. CallOK(c)' /\ SnapshotOK(c)'
  BY <1>1, <1>2 DEF CallOK, SnapshotOK, InTransaction
<1>4. FreshOK(c)'
  BY <1>1, <1>2 DEF FreshOK, MayHavePlayed, Told, Unplayed
<1> QED
  BY <1>2, <1>3, <1>4, QuietStep DEF OthersStand

LEMMA LookUpStep ==
  ASSUME IInv, NEW c \in Call, LookUp(c)
  PROVE  IInv'
<1> DEFINE a == request[c].account
           key == request[c].key
<1>1. pc[c] = "lookup" /\ UNCHANGED <<db, now, request, at, snapshot, stale, document>>
  BY DEF LookUp
<1>2. CASE HasRound(db, a, key) /\ Answer(c, "replayed", RoundOf(db, a, key).id)
  BY <1>1, <1>2, ReplayStep
<1>3. CASE Goto(c, "begin") /\ UNCHANGED reply
  <2>1. TypeOK /\ request[c].op = "spin"
    BY <1>1 DEF IInv, CallInv, CallOK
  <2>2. TypeOK'
    BY <1>1, <1>3, <2>1, GotoType DEF TypeOK, Label
  <2> QED
    BY <1>1, <1>3, <2>1, <2>2, ResumeStep
<1> QED
  BY <1>2, <1>3 DEF LookUp

LEMMA RecoverStep ==
  ASSUME IInv, NEW c \in Call, Recover(c)
  PROVE  IInv'
<1> DEFINE a == request[c].account
           key == request[c].key
<1>1. pc[c] = "recover" /\ UNCHANGED <<db, now, request, at, snapshot, stale, document>>
  BY DEF Recover
<1>2. CASE HasRound(db, a, key) /\ Answer(c, "replayed", RoundOf(db, a, key).id)
  BY <1>1, <1>2, ReplayStep
<1>3. CASE Answer(c, "duplicate_key", NoRound)
  <2>1. TypeOK
    BY DEF IInv
  <2>2. TypeOK'
    BY <1>1, <1>3, <2>1, AnswerType DEF TypeOK, Replies
  <2> QED
    BY <1>1, <1>3, <2>2, RefuseStep
<1> QED
  BY <1>2, <1>3 DEF Recover

LEMMA BeginStep ==
  ASSUME IInv, NEW c \in Call, Begin(c)
  PROVE  IInv'
<1>1. /\ pc[c] = "begin" /\ Goto(c, "transaction")
      /\ UNCHANGED <<db, now, request, document, reply>>
      /\ at' = [at EXCEPT ![c] = now]
      /\ snapshot' = [snapshot EXCEPT ![c] = db]
      /\ stale' = [stale EXCEPT ![c] = {}]
  BY DEF Begin
<1>2. TypeOK /\ CallOK(c) /\ Unplayed(db, c)
  BY <1>1 DEF IInv, CallInv, FreshInv, FreshOK, MayHavePlayed, Told
<1>3. pc' \in [Call -> Label] /\ pc'[c] = "transaction" /\ \A o \in Call \ {c} : pc'[o] = pc[o]
  BY <1>1, <1>2, GotoType DEF TypeOK, Label
<1>4. TypeOK'
  BY <1>1, <1>2, <1>3 DEF TypeOK
<1>5. db \in Database /\ snapshot'[c] = db /\ stale'[c] = {}
  BY <1>1, <1>2 DEF TypeOK
<1>6. CallOK(c)'
  BY <1>1, <1>2, <1>3, <1>5 DEF CallOK, InTransaction
<1>7. SnapshotOK(c)'
  BY <1>1, <1>5 DEF SnapshotOK, SnapshotAgrees
<1>8. FreshOK(c)'
  BY <1>1, <1>2, <1>3 DEF FreshOK, MayHavePlayed, Told, Unplayed
<1>9. OthersStand(c) /\ \A o \in Call \ {c} : stale'[o] = stale[o]
  BY <1>1, <1>2, <1>3 DEF OthersStand, TypeOK
<1> QED
  BY <1>1, <1>4, <1>6, <1>7, <1>8, <1>9, QuietStep

LEMMA EndTransactionType ==
  ASSUME TypeOK, NEW c \in Call, EndTransaction(c)
  PROVE  /\ at' \in [Call -> Time] /\ snapshot' \in [Call -> Database \cup {NoSnapshot}]
         /\ \A o \in Call \ {c} : snapshot'[o] = snapshot[o]
BY PeriodAssumption DEF EndTransaction, TypeOK, Time

LEMMA WriteConflictStep ==
  ASSUME IInv, NEW c \in Call, NEW win \in Wins, WriteConflict(c, win)
  PROVE  IInv'
<1>1. /\ pc[c] = "transaction" /\ EndTransaction(c) /\ Goto(c, "begin")
      /\ stale' = [stale EXCEPT ![c] = {}]
      /\ UNCHANGED <<db, now, request, document, reply>>
  BY DEF WriteConflict
<1>2. TypeOK /\ CallOK(c)
  BY DEF IInv, CallInv
<1>3. TypeOK' /\ \A o \in Call \ {c} : stale'[o] = stale[o] /\ snapshot'[o] = snapshot[o]
  BY <1>1, <1>2, EndTransactionType, GotoType DEF TypeOK, Label
<1> QED
  BY <1>1, <1>2, <1>3, ResumeStep DEF CallOK

\* The requests of calls that open transactions.
LEMMA TransactionRequest ==
  ASSUME NEW c \in Call, CallOK(c), pc[c] \in {"begin", "transaction"}
  PROVE  IF request[c].op = "spin" THEN request[c] \in SpinRequest ELSE request[c] \in CashRequest
<1>1. request[c] \in Requests /\ request[c].op \in {"spin", "cashIn", "cashOut"}
  BY DEF CallOK
<1> QED
  BY <1>1, RequestsAssumption DEF SpinRequest, CashRequest, LimitsRequest

LEMMA OutcomeType ==
  ASSUME IInv, NEW c \in Call, pc[c] = "transaction", NEW win \in Wins
  PROVE  Outcome(c, win) \in Context
<1>1. TypeOK /\ CallOK(c) /\ SnapshotOK(c) /\ Unplayed(db, c)
  BY DEF IInv, CallInv, SnapshotInv, FreshInv, FreshOK, MayHavePlayed, Told
<1>2. snapshot[c] \in Database /\ at[c] \in Time /\ Unplayed(snapshot[c], c)
  BY <1>1 DEF CallOK, SnapshotOK, SnapshotAgrees, InTransaction, Unplayed, TypeOK
<1>3. IF request[c].op = "spin" THEN request[c] \in SpinRequest ELSE request[c] \in CashRequest
  BY <1>1, TransactionRequest
<1>4. CASE request[c].op = "spin"
  <2>1. Outcome(c, win) = SpinBody(StartOf(snapshot[c]), c, win)
    BY <1>4 DEF Outcome, StartOf
  <2>2. request[c] \in SpinRequest
    BY <1>3, <1>4
  <2> QED
    BY <1>2, <2>1, <2>2, SpinBodyLemma
<1>5. CASE request[c].op # "spin"
  <2>1. Outcome(c, win) = CashBody(StartOf(snapshot[c]), c)
    BY <1>5 DEF Outcome, StartOf
  <2> QED
    BY <1>2, <1>3, <1>5, <2>1, CashBodyLemma
<1> QED
  BY <1>4, <1>5

LEMMA RollbackStep ==
  ASSUME IInv, NEW c \in Call, NEW win \in Wins, Rollback(c, win)
  PROVE  IInv'
<1> DEFINE error == Outcome(c, win).error
<1>1. /\ pc[c] = "transaction" /\ EndTransaction(c) /\ error # NoError
      /\ stale' = [stale EXCEPT ![c] = {}]
      /\ UNCHANGED <<db, now, request, document>>
      /\ \/ Goto(c, "recover") /\ UNCHANGED reply
         \/ Answer(c, error, NoRound)
  BY DEF Rollback
<1>2. error \in {"insufficient_funds", "limit_exceeded", "duplicate_key"}
  BY <1>1, OutcomeType DEF Context, Errors
<1>3. TypeOK
  BY DEF IInv
<1>4. /\ at' \in [Call -> Time] /\ snapshot' \in [Call -> Database \cup {NoSnapshot}]
      /\ stale' \in [Call -> SUBSET Documents]
      /\ \A o \in Call \ {c} : stale'[o] = stale[o] /\ snapshot'[o] = snapshot[o]
  BY <1>1, <1>3, EndTransactionType DEF TypeOK
<1> HIDE DEF error
<1>5. CASE Goto(c, "recover") /\ UNCHANGED reply
  <2>1. TypeOK'
    BY <1>1, <1>3, <1>4, <1>5, GotoType DEF TypeOK, Label
  <2> QED
    BY <1>1, <1>4, <1>5, <2>1, ResumeStep
<1>6. CASE Answer(c, error, NoRound)
  <2>1. [outcome |-> error, round |-> NoRound] \in Replies
    BY <1>2 DEF Replies
  <2>2. TypeOK'
    BY <1>1, <1>3, <1>4, <1>6, <2>1, AnswerType DEF TypeOK
  <2> QED
    BY <1>1, <1>2, <1>4, <1>6, <2>2, RefuseStep
<1> QED
  BY <1>1, <1>5, <1>6

LEMMA PutDocumentType ==
  ASSUME NEW existing \in LimitsDocument, NEW proposed \in LimitSet, NEW t \in Time
  PROVE  PutDocument(existing, proposed, t) \in LimitsDocument
<1>1. EffectiveLimits(existing, t) \in LimitSet
  BY EffectiveLimitsType
<1>2. \A current \in LimitSet : ApplyTighteningsOnly(current, proposed) \in LimitSet
  BY DEF ApplyTighteningsOnly, LimitSet
<1>3. [limits |-> proposed, effectiveAt |-> t + LooseningDelay] \in Pending
  BY LimitsAssumption, PeriodAssumption DEF Pending, Time
<1> QED
  BY <1>1, <1>2, <1>3 DEF PutDocument, LimitsDocument

LEMMA ReadLimitsStep ==
  ASSUME IInv, NEW c \in Call, ReadLimits(c)
  PROVE  IInv'
<1> DEFINE doc == PutDocument(db.limits[request[c].account], request[c].limits, now)
<1>1. /\ pc[c] = "readLimits" /\ Goto(c, "storeLimits")
      /\ document' = [document EXCEPT ![c] = doc]
      /\ UNCHANGED <<db, now, request, at, snapshot, stale, reply>>
  BY DEF ReadLimits
<1>2. TypeOK /\ CallOK(c) /\ Unplayed(db, c)
  BY <1>1 DEF IInv, CallInv, FreshInv, FreshOK, MayHavePlayed, Told
<1>3. request[c] \in LimitsRequest
  BY <1>1, <1>2, RequestsAssumption DEF CallOK, SpinRequest, CashRequest, LimitsRequest
<1>4. doc \in LimitsDocument
  BY <1>2, <1>3, PutDocumentType DEF TypeOK, LimitsRequest, Database
<1> HIDE DEF doc
<1>5. pc' \in [Call -> Label] /\ pc'[c] = "storeLimits" /\ \A o \in Call \ {c} : pc'[o] = pc[o]
  BY <1>1, <1>2, GotoType DEF TypeOK, Label
<1>6. TypeOK' /\ document'[c] = doc
  BY <1>1, <1>2, <1>4, <1>5 DEF TypeOK
<1>7. CallOK(c)' /\ SnapshotOK(c)'
  BY <1>1, <1>2, <1>4, <1>5, <1>6 DEF CallOK, SnapshotOK, InTransaction
<1>8. FreshOK(c)'
  BY <1>1, <1>2, <1>5 DEF FreshOK, MayHavePlayed, Told, Unplayed
<1>9. OthersStand(c)
  BY <1>1, <1>2, <1>5 DEF OthersStand, TypeOK
<1> QED
  BY <1>1, <1>6, <1>7, <1>8, <1>9, QuietStep

LEMMA CrashStep ==
  ASSUME IInv, NEW c \in Call, Crash(c)
  PROVE  IInv'
<1>1. /\ pc[c] # "idle" /\ EndTransaction(c) /\ Goto(c, "crashed")
      /\ stale' = [stale EXCEPT ![c] = {}]
      /\ document' = [document EXCEPT ![c] = NoDocument]
      /\ reply' = [reply EXCEPT ![c] = NoReply]
      /\ UNCHANGED <<db, now, request>>
  BY DEF Crash
<1>2. TypeOK /\ CallOK(c)
  BY DEF IInv, CallInv
<1>3. pc' \in [Call -> Label] /\ pc'[c] = "crashed" /\ \A o \in Call \ {c} : pc'[o] = pc[o]
  BY <1>1, <1>2, GotoType DEF TypeOK, Label
<1>4. /\ TypeOK'
      /\ \A o \in Call \ {c} :
           /\ stale'[o] = stale[o] /\ snapshot'[o] = snapshot[o] /\ document'[o] = document[o]
           /\ reply'[o] = reply[o]
  BY <1>1, <1>2, <1>3, EndTransactionType DEF TypeOK
<1>5. CallOK(c)' /\ SnapshotOK(c)'
  BY <1>1, <1>2, <1>3 DEF CallOK, SnapshotOK, InTransaction
<1>6. FreshOK(c)'
  BY <1>3 DEF FreshOK, MayHavePlayed, Told
<1>7. OthersStand(c)
  BY <1>1, <1>3, <1>4 DEF OthersStand
<1> QED
  BY <1>1, <1>4, <1>5, <1>6, <1>7, QuietStep

\* What was committed is answered.
LEMMA RespondStep ==
  ASSUME IInv, NEW c \in Call, Respond(c)
  PROVE  IInv'
<1>1. /\ pc[c] = "committed" /\ Goto(c, "done")
      /\ UNCHANGED <<db, now, request, at, snapshot, stale, document, reply>>
  BY DEF Respond
<1>2. TypeOK /\ CallOK(c) /\ FreshOK(c)
  BY DEF IInv, CallInv, FreshInv
<1>3. pc' \in [Call -> Label] /\ pc'[c] = "done" /\ \A o \in Call \ {c} : pc'[o] = pc[o]
  BY <1>1, <1>2, GotoType DEF TypeOK, Label
<1>4. TypeOK'
  BY <1>1, <1>2, <1>3 DEF TypeOK
<1>5. CallOK(c)' /\ SnapshotOK(c)'
  BY <1>1, <1>2, <1>3 DEF CallOK, SnapshotOK, InTransaction
<1>6. FreshOK(c)'
  BY <1>1, <1>2, <1>3 DEF FreshOK, MayHavePlayed, Told, Unplayed
<1>7. OthersStand(c)
  BY <1>1, <1>3 DEF OthersStand
<1> QED
  BY <1>1, <1>4, <1>5, <1>6, <1>7, QuietStep

\* The caller hears of a failure, whatever was committed.
LEMMA LoseCommitResultStep ==
  ASSUME IInv, NEW c \in Call, LoseCommitResult(c)
  PROVE  IInv'
<1>1. /\ pc[c] = "committed" /\ Answer(c, "failed", NoRound)
      /\ UNCHANGED <<db, now, request, at, snapshot, stale, document>>
  BY DEF LoseCommitResult
<1>2. TypeOK /\ CallOK(c)
  BY DEF IInv, CallInv
<1>3. /\ pc' \in [Call -> Label] /\ reply' \in [Call -> Replies \cup {NoReply}]
      /\ pc'[c] = "done" /\ reply'[c].outcome = "failed"
      /\ \A o \in Call \ {c} : pc'[o] = pc[o] /\ reply'[o] = reply[o]
  BY <1>1, <1>2, AnswerType DEF TypeOK, Replies
<1>4. TypeOK'
  BY <1>1, <1>2, <1>3 DEF TypeOK
<1>5. CallOK(c)' /\ SnapshotOK(c)'
  BY <1>1, <1>2, <1>3 DEF CallOK, SnapshotOK, InTransaction
<1>6. FreshOK(c)'
  BY <1>3 DEF FreshOK, MayHavePlayed, Told
<1>7. OthersStand(c)
  BY <1>1, <1>3 DEF OthersStand
<1> QED
  BY <1>1, <1>4, <1>5, <1>6, <1>7, QuietStep

LEMMA TickStep ==
  ASSUME IInv, Tick
  PROVE  IInv'
<1>1. now' \in Time /\ UNCHANGED <<db, pc, request, at, snapshot, stale, document, reply>>
  BY PeriodAssumption DEF Tick, IInv, TypeOK, Time
<1>2. TypeOK'
  BY <1>1 DEF IInv, TypeOK
<1>3. CallInv' /\ SnapshotInv' /\ FreshInv'
  BY <1>1 DEF IInv, CallInv, CallOK, SnapshotInv, SnapshotOK, SnapshotAgrees, InTransaction, FreshInv, FreshOK,
              MayHavePlayed, Told, Unplayed
<1>4. DbInv'
  BY <1>1 DEF IInv, DbInv, NonNegativeBalance, RoundsMatchMovements, ExactlyOnce, IdsInv
<1> QED
  BY <1>2, <1>3, <1>4 DEF IInv
-----------------------------------------------------------------------------
(* The steps that change the database.                                     *)

LEMMA InvalidateType ==
  ASSUME TypeOK, NEW c \in Call, NEW docs \in SUBSET Documents, Invalidate(c, docs)
  PROVE  /\ stale' \in [Call -> SUBSET Documents]
         /\ \A o \in Call \ {c} : InTransaction(o) => stale'[o] = stale[o] \cup docs
BY DEF Invalidate, TypeOK, InTransaction

LEMMA SnapshotFrame ==
  ASSUME SnapshotInv, NEW c \in Call, OthersStand(c), pc'[c] # "transaction",
         \A o \in Call \ {c} :
           InTransaction(o) /\ SnapshotAgrees(snapshot[o], db, stale[o])
             => SnapshotAgrees(snapshot[o], db', stale'[o])
  PROVE  SnapshotInv'
<1> SUFFICES ASSUME NEW o \in Call, InTransaction(o)' PROVE SnapshotAgrees(snapshot[o], db, stale[o])'
  BY DEF SnapshotInv, SnapshotOK
<1>1. o # c
  BY DEF InTransaction
<1>2. InTransaction(o) /\ snapshot'[o] = snapshot[o]
  BY <1>1 DEF InTransaction, OthersStand
<1>3. SnapshotAgrees(snapshot[o], db, stale[o])
  BY <1>2 DEF SnapshotInv, SnapshotOK
<1>4. SnapshotAgrees(snapshot[o], db', stale'[o])
  BY <1>1, <1>2, <1>3
<1> QED
  BY <1>2, <1>4 DEF SnapshotAgrees

LEMMA EnsureStep ==
  ASSUME IInv, NEW c \in Call, Ensure(c)
  PROVE  IInv'
<1> DEFINE a == request[c].account
           docs == IF a \in db.players THEN {} ELSE {PlayerDoc(a)}
<1>1. /\ pc[c] = "ensure" /\ db' = EnsurePlayer(db, a) /\ Invalidate(c, docs)
      /\ Goto(c, IF request[c].key = NoKey THEN "begin" ELSE "lookup")
      /\ UNCHANGED <<now, request, at, snapshot, document, reply>>
  BY DEF Ensure
<1>2. TypeOK /\ CallOK(c) /\ Unplayed(db, c) /\ db \in Database
  BY <1>1 DEF IInv, CallInv, FreshInv, FreshOK, MayHavePlayed, Told, TypeOK
<1>3. a \in Account /\ request[c].op = "spin"
  BY <1>1, <1>2, RequestsAssumption DEF CallOK, SpinRequest, CashRequest, LimitsRequest
<1>4. docs \subseteq Documents
  BY <1>3 DEF Documents
<1> HIDE DEF a
<1>5. /\ db' \in Database
      /\ db'.transactions = db.transactions /\ db'.rounds = db.rounds /\ db'.usage = db.usage
      /\ \A b \in Account : PlayerDoc(b) \notin docs =>
           (b \in db'.players <=> b \in db.players) /\ db'.balance[b] = db.balance[b]
      /\ \A b \in Account : db'.balance[b] = db.balance[b] \/ db'.balance[b] = InitialBalance
  <2>1. CASE a \in db.players
    BY <1>1, <1>2, <2>1 DEF EnsurePlayer
  <2>2. CASE a \notin db.players
    <3>1. db' = WithPlayer(db, a, InitialBalance, db.transactions)
      BY <1>1, <2>2 DEF EnsurePlayer
    <3> QED
      BY <1>2, <1>3, <2>2, <3>1, InitialBalanceAssumption DEF WithPlayer, Database
  <2> QED
    BY <2>1, <2>2
<1> HIDE DEF docs
<1>6. /\ stale' \in [Call -> SUBSET Documents]
      /\ \A o \in Call \ {c} : InTransaction(o) => stale'[o] = stale[o] \cup docs
  BY <1>1, <1>2, <1>4, InvalidateType
<1>7. /\ pc' \in [Call -> Label] /\ pc'[c] \in {"begin", "lookup"}
      /\ \A o \in Call \ {c} : pc'[o] = pc[o]
  BY <1>1, <1>2, GotoType DEF TypeOK, Label
<1>8. TypeOK'
  BY <1>1, <1>2, <1>5, <1>6, <1>7 DEF TypeOK
<1>9. OthersStand(c)
  BY <1>1, <1>7 DEF OthersStand
<1>10. CallInv'
  <2>1. CallOK(c)'
    BY <1>1, <1>2, <1>3, <1>7 DEF CallOK, InTransaction
  <2> QED
    BY <1>9, <2>1, CallFrame DEF IInv
<1>11. SnapshotInv'
  <2> SUFFICES ASSUME NEW o \in Call \ {c}, InTransaction(o), SnapshotAgrees(snapshot[o], db, stale[o])
               PROVE  SnapshotAgrees(snapshot[o], db', stale'[o])
    BY <1>7, <1>9, SnapshotFrame DEF IInv
  <2> QED
    BY <1>5, <1>6 DEF SnapshotAgrees
<1>12. FreshInv'
  <2>1. \A o \in Call \ {c} : Unplayed(db, o) => Unplayed(db', o)
    BY <1>5 DEF Unplayed
  <2>2. FreshOK(c)'
    BY <1>2, <1>5, <1>7 DEF FreshOK, MayHavePlayed, Told, Unplayed
  <2> QED
    BY <1>5, <1>9, <2>1, <2>2, FreshFrame DEF IInv
<1>13. DbInv'
  BY <1>2, <1>5, InitialBalanceAssumption
     DEF IInv, DbInv, NonNegativeBalance, RoundsMatchMovements, ExactlyOnce, IdsInv
<1> QED
  BY <1>8, <1>10, <1>11, <1>12, <1>13 DEF IInv

LEMMA StoreLimitsStep ==
  ASSUME IInv, NEW c \in Call, StoreLimits(c)
  PROVE  IInv'
<1> DEFINE a == request[c].account
<1>1. /\ pc[c] = "storeLimits" /\ db' = [db EXCEPT !.limits[a] = document[c]]
      /\ Invalidate(c, {LimitsDoc(a)})
      /\ document' = [document EXCEPT ![c] = NoDocument]
      /\ Answer(c, "stored", NoRound)
      /\ UNCHANGED <<now, request, at, snapshot>>
  BY DEF StoreLimits
<1>2. TypeOK /\ CallOK(c) /\ Unplayed(db, c) /\ db \in Database
  BY <1>1 DEF IInv, CallInv, FreshInv, FreshOK, MayHavePlayed, Told, TypeOK
<1>3. a \in Account /\ document[c] \in LimitsDocument
  BY <1>1, <1>2, RequestsAssumption DEF CallOK, SpinRequest, CashRequest, LimitsRequest
<1>4. {LimitsDoc(a)} \subseteq Documents
  BY <1>3 DEF Documents
<1> HIDE DEF a
<1>5. /\ db' \in Database
      /\ db'.transactions = db.transactions /\ db'.rounds = db.rounds /\ db'.usage = db.usage
      /\ db'.players = db.players /\ db'.balance = db.balance
  BY <1>1, <1>2, <1>3 DEF Database
<1>6. /\ stale' \in [Call -> SUBSET Documents]
      /\ \A o \in Call \ {c} : InTransaction(o) => stale'[o] = stale[o] \cup {LimitsDoc(a)}
  BY <1>1, <1>2, <1>4, InvalidateType
<1>7. /\ pc' \in [Call -> Label] /\ reply' \in [Call -> Replies \cup {NoReply}]
      /\ pc'[c] = "done" /\ reply'[c].outcome = "stored"
      /\ \A o \in Call \ {c} : pc'[o] = pc[o] /\ reply'[o] = reply[o]
  BY <1>1, <1>2, AnswerType DEF TypeOK, Replies
<1>8. TypeOK'
  BY <1>1, <1>2, <1>5, <1>6, <1>7 DEF TypeOK
<1>9. OthersStand(c)
  BY <1>1, <1>2, <1>7 DEF OthersStand, TypeOK
<1>10. CallInv'
  <2>1. CallOK(c)'
    BY <1>1, <1>2, <1>7 DEF CallOK, InTransaction
  <2> QED
    BY <1>9, <2>1, CallFrame DEF IInv
<1>11. SnapshotInv'
  <2> SUFFICES ASSUME NEW o \in Call \ {c}, InTransaction(o), SnapshotAgrees(snapshot[o], db, stale[o])
               PROVE  SnapshotAgrees(snapshot[o], db', stale'[o])
    BY <1>7, <1>9, SnapshotFrame DEF IInv
  <2> QED
    BY <1>5, <1>6 DEF SnapshotAgrees
<1>12. FreshInv'
  <2>1. \A o \in Call \ {c} : Unplayed(db, o) => Unplayed(db', o)
    BY <1>5 DEF Unplayed
  <2>2. FreshOK(c)'
    BY <1>2, <1>5, <1>7 DEF FreshOK, MayHavePlayed, Told, Unplayed
  <2> QED
    BY <1>5, <1>9, <2>1, <2>2, FreshFrame DEF IInv
<1>13. DbInv'
  BY <1>5 DEF IInv, DbInv, NonNegativeBalance, RoundsMatchMovements, ExactlyOnce, IdsInv
<1> QED
  BY <1>8, <1>10, <1>11, <1>12, <1>13 DEF IInv
\* What a spin that commits does to a consistent database.
LEMMA SpinKeepsDb ==
  ASSUME DbInv, db \in Database, db' \in Database, NEW r \in RoundRow, Unplayed(db, r.id),
         r.bet <= db.balance[r.account],
         r.key # NoKey => ~HasRound(db, r.account, r.key),
         db'.balance = [db.balance EXCEPT ![r.account] = @ + (r.win - r.bet)],
         db'.transactions = db.transactions \cup MovementsOf(r),
         db'.rounds = db.rounds \cup {r}
  PROVE  DbInv'
<1>1. /\ r.id \in Call /\ r.account \in Account /\ r.bet \in Nat \ {0} /\ r.win \in Nat
      /\ db.balance \in [Account -> Int]
  BY WinsAssumption DEF RoundRow, Database
<1>2. \A m \in MovementsOf(r) :
        /\ m.round = r.id /\ m.round # NoRound /\ m.id \in RoundTransactionId
        /\ m.id \in {<<r.id, "debit">>, <<r.id, "credit">>}
  BY <1>1, KeysAssumption DEF MovementsOf, Movement, RoundTransactionId
<1>3. NonNegativeBalance'
  BY <1>1 DEF DbInv, NonNegativeBalance
<1>4. RoundsMatchMovements'
  <2>1. {m \in db'.transactions : m.round # NoRound}
          = {m \in db.transactions : m.round # NoRound} \cup MovementsOf(r)
    BY <1>2
  <2>2. UNION {MovementsOf(q) : q \in db'.rounds} = (UNION {MovementsOf(q) : q \in db.rounds}) \cup MovementsOf(r)
    OBVIOUS
  <2> QED
    BY <2>1, <2>2 DEF DbInv, RoundsMatchMovements
<1>5. ExactlyOnce'
  <2>1. ASSUME NEW r1 \in db'.rounds, NEW r2 \in db'.rounds,
               r1.account = r2.account, r1.key = r2.key, r1.key # NoKey
        PROVE  r1 = r2
    BY <2>1 DEF DbInv, ExactlyOnce, HasRound
  <2>2. ASSUME NEW m1 \in db'.transactions, NEW m2 \in db'.transactions,
               OperatorOf[m1.account] = OperatorOf[m2.account], m1.id = m2.id
        PROVE  m1 = m2
    <3>1. \A m \in db.transactions : m.id \notin {<<r.id, "debit">>, <<r.id, "credit">>}
      BY DEF Unplayed
    <3>2. \A n1, n2 \in MovementsOf(r) : n1.id = n2.id => n1 = n2
      BY DEF MovementsOf, Movement
    <3>3. (m1 \in db.transactions /\ m2 \in db.transactions) \/ (m1 \in MovementsOf(r) /\ m2 \in MovementsOf(r))
      BY <1>2, <2>2, <3>1
    <3> QED
      BY <2>2, <3>2, <3>3 DEF DbInv, ExactlyOnce
  <2> QED
    BY <2>1, <2>2 DEF ExactlyOnce
<1>6. IdsInv'
  BY <1>2 DEF DbInv, IdsInv
<1> QED
  BY <1>3, <1>4, <1>5, <1>6 DEF DbInv

\* And a new movement of an operator.
LEMMA CashKeepsDb ==
  ASSUME DbInv, db \in Database, db' \in Database,
         NEW m \in MovementRow, m.round = NoRound, m.id \in TransactionId,
         \A n \in db.transactions :
           n.round = NoRound => ~(OperatorOf[n.account] = OperatorOf[m.account] /\ n.id = m.id),
         m.type = "debit" => m.amount <= db.balance[m.account],
         db'.balance = [db.balance EXCEPT ![m.account] = @ + Delta(m.type, m.amount)],
         db'.transactions = db.transactions \cup {m},
         db'.rounds = db.rounds
  PROVE  DbInv'
<1>1. /\ m.account \in Account /\ m.amount \in Nat /\ m.type \in {"debit", "credit"}
      /\ db.balance \in [Account -> Int]
  BY DEF MovementRow, Database
<1>2. NonNegativeBalance'
  BY <1>1 DEF DbInv, NonNegativeBalance, Delta
<1>3. RoundsMatchMovements'
  BY DEF DbInv, RoundsMatchMovements, MovementsOf
<1>4. ExactlyOnce'
  <2>1. \A n \in db.transactions : ~(OperatorOf[n.account] = OperatorOf[m.account] /\ n.id = m.id)
    BY KeysAssumption DEF DbInv, IdsInv
  <2> QED
    BY <2>1 DEF DbInv, ExactlyOnce
<1>5. IdsInv'
  BY DEF DbInv, IdsInv
<1> QED
  BY <1>2, <1>3, <1>4, <1>5 DEF DbInv
\* The parts of a commit that do not depend on what was committed.
LEMMA CommitFrame ==
  ASSUME IInv, NEW c \in Call, NEW x \in Context, pc[c] = "transaction",
         db' = Install(x.db, x.wrote), Invalidate(c, x.wrote), EndTransaction(c),
         NEW outcome \in {"resolved", "processed", "already_processed"},
         NEW round \in Call \cup {NoRound},
         Goto(c, "committed"), Keep(c, outcome, round), UNCHANGED <<now, request, document>>
  PROVE  /\ TypeOK' /\ CallInv' /\ OthersStand(c) /\ db' \in Database
         /\ pc'[c] = "committed" /\ reply'[c].outcome = outcome /\ reply'[c].round = round
         /\ \A o \in Call \ {c} : InTransaction(o) => stale'[o] = stale[o] \cup x.wrote
<1>1. TypeOK /\ CallOK(c) /\ db \in Database
  BY DEF IInv, CallInv, TypeOK
<1>2. x.wrote \in SUBSET Documents /\ db' \in Database
  BY <1>1, InstallType DEF Context
<1>3. /\ stale' \in [Call -> SUBSET Documents]
      /\ \A o \in Call \ {c} : InTransaction(o) => stale'[o] = stale[o] \cup x.wrote
  BY <1>1, <1>2, InvalidateType
<1>4. /\ pc' \in [Call -> Label] /\ reply' \in [Call -> Replies \cup {NoReply}]
      /\ pc'[c] = "committed" /\ reply'[c].outcome = outcome /\ reply'[c].round = round
      /\ \A o \in Call \ {c} : pc'[o] = pc[o] /\ reply'[o] = reply[o]
  <2>1. [outcome |-> outcome, round |-> round] \in Replies
    BY DEF Replies
  <2> QED
    BY <1>1, <2>1, KeepType DEF TypeOK
<1>5. /\ at' \in [Call -> Time] /\ snapshot' \in [Call -> Database \cup {NoSnapshot}]
      /\ \A o \in Call \ {c} : snapshot'[o] = snapshot[o]
  BY <1>1, EndTransactionType
<1>6. TypeOK'
  BY <1>1, <1>2, <1>3, <1>4, <1>5 DEF TypeOK
<1>7. OthersStand(c)
  BY <1>4, <1>5 DEF OthersStand
<1>8. CallOK(c)'
  BY <1>1, <1>4 DEF CallOK, InTransaction
<1> QED
  BY <1>2, <1>3, <1>4, <1>6, <1>7, <1>8, CallFrame DEF IInv

\* The other open transactions, if every cash movement and every round with a
\* clientRequestId that this commit adds is on record.
LEMMA CommitSnapshots ==
  ASSUME IInv, NEW c \in Call, NEW x \in Context, db' = Install(x.db, x.wrote),
         OthersStand(c), pc'[c] = "committed",
         \A o \in Call \ {c} : InTransaction(o) => stale'[o] = stale[o] \cup x.wrote,
         \A m \in db'.transactions \ db.transactions :
           m.round = NoRound => TransactionDoc(m.account, m.id) \in x.wrote,
         \A r \in db'.rounds \ db.rounds : r.key # NoKey => RoundDoc(r.account, r.key) \in x.wrote
  PROVE  SnapshotInv'
<1> SUFFICES ASSUME NEW o \in Call \ {c}, InTransaction(o), SnapshotAgrees(snapshot[o], db, stale[o])
             PROVE  SnapshotAgrees(snapshot[o], db', stale'[o])
  BY SnapshotFrame DEF IInv
<1>1. db \in Database /\ snapshot[o] \in Database
  BY DEF IInv, TypeOK, CallInv, CallOK
<1>2. SnapshotAgrees(snapshot[o], db', stale[o] \cup x.wrote)
  BY <1>1, SnapshotKept
<1> QED
  BY <1>2

\* A spin that commits does to the database, in one step, what its body does:
\* the player of that moment could pay, and had not played this request.
LEMMA SpinCommits ==
  ASSUME IInv, NEW c \in Call, NEW win \in Wins, Commit(c, win), request[c].op = "spin",
         NEW x, x = Outcome(c, win),
         NEW r, r = NewRound(c, at[c], win)
  PROVE  /\ request[c] \in SpinRequest
         /\ x \in Context /\ r \in RoundRow /\ r.id = c
         /\ r.account = request[c].account /\ r.key = request[c].key
         /\ r.account \in db.players /\ r.bet <= db.balance[r.account]
         /\ r.key # NoKey => ~HasRound(db, r.account, r.key) /\ RoundDoc(r.account, r.key) \in x.wrote
         /\ Moves(db, db', r.account, r.win - r.bet, MovementsOf(r), {r})
<1> DEFINE s == snapshot[c]
           a == request[c].account
<1>1. /\ pc[c] = "transaction" /\ x.wrote \cap stale[c] = {} /\ x.error = NoError
      /\ db' = Install(x.db, x.wrote)
  BY DEF Commit
<1>2. TypeOK /\ CallOK(c) /\ SnapshotOK(c) /\ Unplayed(db, c) /\ db \in Database
  BY <1>1 DEF IInv, CallInv, SnapshotInv, FreshInv, FreshOK, MayHavePlayed, Told, TypeOK
<1>3. s \in Database /\ SnapshotAgrees(s, db, stale[c]) /\ at[c] \in Time /\ Unplayed(s, c)
  BY <1>1, <1>2 DEF CallOK, SnapshotOK, SnapshotAgrees, InTransaction, Unplayed, TypeOK
<1>4. request[c] \in SpinRequest
  BY <1>1, <1>2, TransactionRequest
<1>5. x \in Context /\ r \in RoundRow /\ SpinPlayed(s, x, r)
  <2>1. x = SpinBody(StartOf(s), c, win)
    BY DEF Outcome, StartOf
  <2> HIDE DEF s
  <2> QED
    BY <1>3, <1>4, <2>1, SpinBodyLemma
<1>6. r.id = c /\ r.account = a /\ r.key = request[c].key /\ a \in Account
  BY <1>4 DEF NewRound, SpinRequest
<1> HIDE DEF s, a
<1>7. r.bet \in Nat \ {0} /\ r.win \in Nat /\ r.win - r.bet \in Int
  BY <1>5, WinsAssumption DEF RoundRow
<1>8. /\ CanPay(s, a, r.bet) /\ ~HasRound(s, a, r.key)
      /\ x.db.players = s.players \cup {a}
      /\ x.db.balance = [s.balance EXCEPT ![a] = @ + (r.win - r.bet)]
      /\ x.db.transactions = s.transactions \cup MovementsOf(r)
      /\ x.db.rounds = s.rounds \cup {r}
      /\ PlayerDoc(a) \in x.wrote
      /\ r.key # NoKey => RoundDoc(a, r.key) \in x.wrote
  BY <1>1, <1>5, <1>6 DEF SpinPlayed
<1>9. /\ Moves(db, db', a, r.win - r.bet, MovementsOf(r), {r})
      /\ a \in s.players <=> a \in db.players
      /\ s.balance[a] = db.balance[a]
  <2>1. Moves(s, x.db, a, r.win - r.bet, MovementsOf(r), {r}) /\ PlayerDoc(a) \in x.wrote
    BY <1>8 DEF Moves
  <2>2. a \in Account /\ x \in Context /\ r.win - r.bet \in Int
    BY <1>5, <1>6, <1>7
  <2> QED
    BY <1>1, <1>2, <1>3, <2>1, <2>2, InstallLemma
<1>10. a \in db.players /\ r.bet <= db.balance[a]
  BY <1>7, <1>8, <1>9, <1>2, <1>6 DEF CanPay, Database
<1>11. r.key # NoKey => ~HasRound(db, a, r.key)
  BY <1>1, <1>3, <1>8 DEF HasRound, SnapshotAgrees
<1>12. r.account = request[c].account
  BY <1>6 DEF a
<1> QED
  BY <1>4, <1>5, <1>6, <1>8, <1>9, <1>10, <1>11, <1>12

LEMMA CommitSpinStep ==
  ASSUME IInv, NEW c \in Call, NEW win \in Wins, Commit(c, win), request[c].op = "spin"
  PROVE  IInv'
<1> DEFINE x == Outcome(c, win)
           r == NewRound(c, at[c], win)
           a == request[c].account
<1>1. /\ pc[c] = "transaction" /\ db' = Install(x.db, x.wrote) /\ Invalidate(c, x.wrote) /\ EndTransaction(c)
      /\ Goto(c, "committed") /\ Keep(c, "resolved", c) /\ UNCHANGED <<now, request, document>>
  BY DEF Commit
<1>2. TypeOK /\ CallOK(c) /\ Unplayed(db, c) /\ db \in Database
  BY <1>1 DEF IInv, CallInv, FreshInv, FreshOK, MayHavePlayed, Told, TypeOK
<1>3. /\ x \in Context /\ r \in RoundRow /\ r.id = c /\ r.account = a /\ r.key = request[c].key
      /\ r.bet <= db.balance[a]
      /\ r.key # NoKey => ~HasRound(db, a, r.key) /\ RoundDoc(a, r.key) \in x.wrote
      /\ Moves(db, db', a, r.win - r.bet, MovementsOf(r), {r})
  BY SpinCommits DEF a
<1>4. a \in Account
  BY <1>3 DEF RoundRow
<1> HIDE DEF x, r, a
<1>5. /\ TypeOK' /\ CallInv' /\ OthersStand(c) /\ db' \in Database
      /\ pc'[c] = "committed" /\ reply'[c].outcome = "resolved" /\ reply'[c].round = c
      /\ \A o \in Call \ {c} : InTransaction(o) => stale'[o] = stale[o] \cup x.wrote
  BY <1>1, <1>3, CommitFrame
<1>6. /\ db'.balance = [db.balance EXCEPT ![a] = @ + (r.win - r.bet)]
      /\ db'.transactions = db.transactions \cup MovementsOf(r)
      /\ db'.rounds = db.rounds \cup {r}
  BY <1>3 DEF Moves
<1>7. DbInv'
  BY <1>2, <1>3, <1>5, <1>6, SpinKeepsDb DEF IInv
<1>8. \A m \in MovementsOf(r) : /\ m.round = c /\ m.round # NoRound
                                /\ m.id \in {<<c, "debit">>, <<c, "credit">>}
  BY <1>3, KeysAssumption DEF MovementsOf, Movement
<1>9. SnapshotInv'
  BY <1>1, <1>3, <1>5, <1>6, <1>8, CommitSnapshots
<1>10. FreshInv'
  <2>1. \A o \in Call \ {c} : Unplayed(db, o) => Unplayed(db', o)
    BY <1>3, <1>6, <1>8 DEF Unplayed
  <2>2. \E q \in db'.rounds : q.id = c /\ q.account = request'[c].account /\ q.key = request'[c].key
    BY <1>1, <1>3, <1>6 DEF a
  <2>3. Told(c, {"resolved"})' /\ MayHavePlayed(c)'
    BY <1>5 DEF Told, MayHavePlayed
  <2>4. FreshOK(c)'
    BY <1>5, <2>2, <2>3 DEF FreshOK
  <2> QED
    BY <1>5, <1>6, <2>1, <2>4, FreshFrame DEF IInv
<1> QED
  BY <1>5, <1>7, <1>9, <1>10 DEF IInv

\* And a cash movement that commits was there already, or is new: it opens the
\* account, or takes from it what it holds at that moment.
LEMMA CashCommits ==
  ASSUME IInv, NEW c \in Call, NEW win \in Wins, Commit(c, win), request[c].op # "spin",
         NEW x, x = Outcome(c, win),
         NEW m, m = CashMovement(c)
  PROVE  /\ request[c] \in CashRequest
         /\ x \in Context /\ m \in MovementRow /\ m.round = NoRound /\ m.id \in TransactionId
         /\ \/ UNCHANGED <<db.players, db.balance, db.transactions, db.rounds>>
            \/ /\ \A n \in db.transactions :
                    n.round = NoRound => ~(OperatorOf[n.account] = OperatorOf[m.account] /\ n.id = m.id)
               /\ TransactionDoc(m.account, m.id) \in x.wrote
               /\ m.type = "debit" => m.account \in db.players /\ m.amount <= db.balance[m.account]
               /\ Moves(db, db', m.account, Delta(m.type, m.amount), {m}, {})
<1> DEFINE s == snapshot[c]
           a == request[c].account
           id == request[c].key
<1>1. /\ pc[c] = "transaction" /\ x.wrote \cap stale[c] = {} /\ x.error = NoError
      /\ db' = Install(x.db, x.wrote)
  BY DEF Commit
<1>2. TypeOK /\ CallOK(c) /\ SnapshotOK(c) /\ db \in Database
  BY <1>1 DEF IInv, CallInv, SnapshotInv, TypeOK
<1>3. s \in Database /\ SnapshotAgrees(s, db, stale[c])
  BY <1>1, <1>2 DEF CallOK, SnapshotOK, InTransaction
<1>4. request[c] \in CashRequest
  BY <1>1, <1>2, TransactionRequest
<1>5. x = CashBody(StartOf(s), c)
  BY DEF Outcome, StartOf
<1>6. /\ m.type = CashType(c) /\ m.account = a /\ m.id = id /\ m.amount = request[c].amount
      /\ m.round = NoRound /\ a \in Account /\ id \in TransactionId /\ m.amount \in Nat \ {0}
  BY <1>4 DEF CashMovement, Movement, CashRequest
<1> HIDE DEF s, a, id
<1>7. /\ x \in Context /\ m \in MovementRow
      /\ x.db.rounds = s.rounds
      /\ \/ x = StartOf(s)
         \/ /\ ~HasTransaction(s, a, id)
            /\ x.db.players = s.players \cup {a}
            /\ x.db.balance = [s.balance EXCEPT ![a] = @ + Delta(m.type, m.amount)]
            /\ x.db.transactions = s.transactions \cup {m}
            /\ {PlayerDoc(a), TransactionDoc(a, id)} \subseteq x.wrote
            /\ m.type = "debit" => CanPay(s, a, m.amount)
  <2>1. /\ x \in Context /\ CashMovement(c) \in MovementRow
        /\ x.db.rounds = s.rounds /\ x.db.usage = s.usage
        /\ \/ x = StartOf(s)
           \/ /\ ~HasTransaction(s, a, id)
              /\ x.db.players = s.players \cup {a}
              /\ x.db.balance = [s.balance EXCEPT ![a] = @ + Delta(CashType(c), request[c].amount)]
              /\ x.db.transactions = s.transactions \cup {CashMovement(c)}
              /\ {PlayerDoc(a), TransactionDoc(a, id)} \subseteq x.wrote
              /\ CashType(c) = "debit" => CanPay(s, a, request[c].amount)
    BY <1>1, <1>3, <1>4, <1>5, CashBodyLemma DEF a, id
  <2> QED
    BY <1>6, <2>1
<1>8. CASE x = StartOf(s)
  <2>1. /\ db'.players = db.players /\ db'.balance = db.balance
        /\ db'.transactions = db.transactions /\ db'.rounds = db.rounds
    BY <1>1, <1>2, <1>3, <1>8 DEF StartOf, Install, SnapshotAgrees, Database
  <2> QED
    BY <1>4, <1>6, <1>7, <2>1
<1>9. CASE x # StartOf(s)
  <2>1. Delta(m.type, m.amount) \in Int
    BY <1>6 DEF Delta
  <2>2. /\ Moves(s, x.db, a, Delta(m.type, m.amount), {m}, {})
        /\ PlayerDoc(a) \in x.wrote /\ TransactionDoc(a, id) \in x.wrote
    BY <1>7, <1>9 DEF Moves
  <2>3. /\ Moves(db, db', a, Delta(m.type, m.amount), {m}, {})
        /\ a \in s.players <=> a \in db.players
        /\ s.balance[a] = db.balance[a]
    <3>1. a \in Account /\ x \in Context
      BY <1>6, <1>7
    <3> QED
      BY <1>1, <1>2, <1>3, <2>1, <2>2, <3>1, InstallLemma
  <2>4. m.type = "debit" => a \in db.players /\ m.amount <= db.balance[a]
    BY <1>2, <1>6, <1>7, <1>9, <2>3 DEF CanPay, Database
  <2>5. ASSUME NEW n \in db.transactions, n.round = NoRound,
               OperatorOf[n.account] = OperatorOf[m.account], n.id = m.id
        PROVE  FALSE
    <3>1. n \notin s.transactions
      BY <1>6, <1>7, <1>9, <2>5 DEF HasTransaction
    <3>2. TransactionDoc(n.account, n.id) \in stale[c]
      BY <1>3, <2>5, <3>1 DEF SnapshotAgrees
    <3>3. TransactionDoc(n.account, n.id) = TransactionDoc(a, id)
      BY <1>6, <2>5 DEF TransactionDoc
    <3> QED
      BY <1>1, <2>2, <3>2, <3>3
  <2> QED
    BY <1>4, <1>6, <1>7, <2>2, <2>3, <2>4, <2>5
<1> QED
  BY <1>8, <1>9

LEMMA CommitCashStep ==
  ASSUME IInv, NEW c \in Call, NEW win \in Wins, Commit(c, win), request[c].op # "spin"
  PROVE  IInv'
<1> DEFINE x == Outcome(c, win)
           m == CashMovement(c)
<1>1. /\ pc[c] = "transaction" /\ db' = Install(x.db, x.wrote) /\ Invalidate(c, x.wrote) /\ EndTransaction(c)
      /\ UNCHANGED <<now, request, document>>
  BY DEF Commit
<1>2. PICK outcome \in {"processed", "already_processed"} : Goto(c, "committed") /\ Keep(c, outcome, NoRound)
  BY DEF Commit
<1>3. TypeOK /\ CallOK(c) /\ Unplayed(db, c) /\ db \in Database
  BY <1>1 DEF IInv, CallInv, FreshInv, FreshOK, MayHavePlayed, Told, TypeOK
<1>4. /\ x \in Context /\ m \in MovementRow /\ m.round = NoRound /\ m.id \in TransactionId
      /\ \/ UNCHANGED <<db.players, db.balance, db.transactions, db.rounds>>
         \/ /\ \A n \in db.transactions :
                 n.round = NoRound => ~(OperatorOf[n.account] = OperatorOf[m.account] /\ n.id = m.id)
            /\ TransactionDoc(m.account, m.id) \in x.wrote
            /\ m.type = "debit" => m.account \in db.players /\ m.amount <= db.balance[m.account]
            /\ Moves(db, db', m.account, Delta(m.type, m.amount), {m}, {})
  BY CashCommits
<1> HIDE DEF x, m
<1>5. /\ TypeOK' /\ CallInv' /\ OthersStand(c) /\ db' \in Database
      /\ pc'[c] = "committed" /\ reply'[c].outcome = outcome /\ reply'[c].round = NoRound
      /\ \A o \in Call \ {c} : InTransaction(o) => stale'[o] = stale[o] \cup x.wrote
  BY <1>1, <1>2, <1>4, CommitFrame
<1>6. CASE UNCHANGED <<db.players, db.balance, db.transactions, db.rounds>>
  <2>1. db'.balance = db.balance /\ db'.transactions = db.transactions /\ db'.rounds = db.rounds
    BY <1>6
  <2>2. DbInv'
    BY <2>1 DEF IInv, DbInv, NonNegativeBalance, RoundsMatchMovements, ExactlyOnce, IdsInv
  <2>3. SnapshotInv'
    BY <1>1, <1>4, <1>5, <2>1, CommitSnapshots
  <2>4. \A o \in Call : Unplayed(db, o) => Unplayed(db', o)
    BY <2>1 DEF Unplayed
  <2>5. FreshOK(c)'
    BY <1>3, <1>5, <2>4 DEF FreshOK, MayHavePlayed, Told, Unplayed
  <2>6. FreshInv'
    BY <1>5, <2>1, <2>4, <2>5, FreshFrame DEF IInv
  <2> QED
    BY <1>5, <2>2, <2>3, <2>6 DEF IInv
<1>7. CASE ~UNCHANGED <<db.players, db.balance, db.transactions, db.rounds>>
  <2>1. /\ db'.balance = [db.balance EXCEPT ![m.account] = @ + Delta(m.type, m.amount)]
        /\ db'.transactions = db.transactions \cup {m}
        /\ db'.rounds = db.rounds
    BY <1>4, <1>7 DEF Moves
  <2>2. DbInv'
    BY <1>3, <1>4, <1>5, <1>7, <2>1, CashKeepsDb DEF IInv
  <2>3. SnapshotInv'
    BY <1>1, <1>4, <1>5, <1>7, <2>1, CommitSnapshots
  <2>4. \A o \in Call : Unplayed(db, o) => Unplayed(db', o)
    <3>1. \A o \in Call : m.id # <<o, "debit">> /\ m.id # <<o, "credit">>
      BY <1>4, KeysAssumption DEF RoundTransactionId
    <3> QED
      BY <2>1, <3>1 DEF Unplayed
  <2>5. FreshOK(c)'
    BY <1>3, <1>5, <2>4 DEF FreshOK, MayHavePlayed, Told, Unplayed
  <2>6. FreshInv'
    BY <1>5, <2>1, <2>4, <2>5, FreshFrame DEF IInv
  <2> QED
    BY <1>5, <2>2, <2>3, <2>6 DEF IInv
<1> QED
  BY <1>6, <1>7

-----------------------------------------------------------------------------
(* The invariant.                                                          *)

LEMMA InitInvariant == Init => IInv
<1> SUFFICES ASSUME Init PROVE IInv
  OBVIOUS
<1>1. PICK limits \in InitialLimits : db = EmptyDatabase(limits)
  BY DEF Init
<1>2. /\ db.transactions = {} /\ db.rounds = {} /\ db.balance = [a \in Account |-> 0]
      /\ db \in Database
  BY <1>1, InitialLimitsAssumption DEF EmptyDatabase, Database
<1>3. pc = [c \in Call |-> "idle"]
  BY DEF Init
<1>4. TypeOK
  BY <1>2, PeriodAssumption DEF Init, TypeOK, Label, Time
<1>5. CallInv /\ SnapshotInv
  BY <1>3 DEF CallInv, CallOK, SnapshotInv, SnapshotOK, InTransaction
<1>6. FreshInv
  BY <1>2, <1>3 DEF FreshInv, FreshOK, MayHavePlayed, Told, Unplayed
<1>7. DbInv
  BY <1>2 DEF DbInv, NonNegativeBalance, RoundsMatchMovements, ExactlyOnce, IdsInv
<1> QED
  BY <1>4, <1>5, <1>6, <1>7 DEF IInv

LEMMA NextInvariant == IInv /\ [Next]_vars => IInv'
<1> SUFFICES ASSUME IInv, [Next]_vars PROVE IInv'
  OBVIOUS
<1>1. ASSUME NEW c \in Call, Arrive(c) PROVE IInv'
  BY <1>1, ArriveStep
<1>2. ASSUME NEW c \in Call, Ensure(c) \/ LookUp(c) \/ Begin(c) \/ Recover(c) PROVE IInv'
  BY <1>2, EnsureStep, LookUpStep, BeginStep, RecoverStep
<1>3. ASSUME NEW c \in Call, NEW win \in Wins, WriteConflict(c, win) \/ Rollback(c, win) PROVE IInv'
  BY <1>3, WriteConflictStep, RollbackStep
<1>4. ASSUME NEW c \in Call, NEW win \in Wins, Commit(c, win) PROVE IInv'
  BY <1>4, CommitSpinStep, CommitCashStep
<1>5. ASSUME NEW c \in Call, ReadLimits(c) \/ StoreLimits(c) PROVE IInv'
  BY <1>5, ReadLimitsStep, StoreLimitsStep
<1>6. ASSUME NEW c \in Call, Respond(c) \/ LoseCommitResult(c) \/ Crash(c) PROVE IInv'
  BY <1>6, RespondStep, LoseCommitResultStep, CrashStep
<1>7. ASSUME Tick PROVE IInv'
  BY <1>7, TickStep
<1>8. ASSUME UNCHANGED vars PROVE IInv'
  BY <1>8 DEF vars, IInv, TypeOK, CallInv, CallOK, SnapshotInv, SnapshotOK, SnapshotAgrees, InTransaction,
              FreshInv, FreshOK, MayHavePlayed, Told, Unplayed, DbInv, NonNegativeBalance, RoundsMatchMovements,
              ExactlyOnce, IdsInv
<1> QED
  BY <1>1, <1>2, <1>3, <1>4, <1>5, <1>6, <1>7, <1>8 DEF Next, Step

\* Every reachable state satisfies the inductive invariant: transactions work
\* on snapshots that differ from the database only where they will conflict.
THEOREM Invariance == Spec => []IInv
  BY InitInvariant, NextInvariant, PTL DEF Spec

-----------------------------------------------------------------------------
(* The properties of MoneyPath.                                            *)

\* Every document a call reads, works on or stores is a whole document.
THEOREM TypeCorrect == Spec => []TypeOK
<1>1. IInv => TypeOK
  BY DEF IInv
<1> QED
  BY <1>1, Invariance, PTL

\* applyLedgerOp: no interleaving overdraws an account.
THEOREM NeverOverdrawn == Spec => []NonNegativeBalance
<1>1. IInv => NonNegativeBalance
  BY DEF IInv, DbInv
<1> QED
  BY <1>1, Invariance, PTL

\* spinRound: a round and its movements exist together or not at all.
THEOREM RoundsPaid == Spec => []RoundsMatchMovements
<1>1. IInv => RoundsMatchMovements
  BY DEF IInv, DbInv
<1> QED
  BY <1>1, Invariance, PTL

\* clientRequestId and transactionId: nothing is played or applied twice.
THEOREM Idempotence == Spec => []ExactlyOnce
<1>1. IInv => ExactlyOnce
  BY DEF IInv, DbInv
<1> QED
  BY <1>1, Invariance, PTL

\* spinRound and withLedgerTransaction: an answer is true of the database.  A
\* spin refused, or answered with another's round, has played nothing; only a
\* call that failed after its commit, or that died, may have played unknown to
\* its caller, and a replay is of the round of its own request.
THEOREM HonestAnswers == Spec => []AnswersMatchRounds
<1>1. IInv => AnswersMatchRounds
  <2> SUFFICES ASSUME IInv, NEW c \in Call
               PROVE  /\ (\E r \in db.rounds : r.id = c) =>
                           pc[c] \in {"committed", "crashed"} \/ Answered(c, {"resolved", "failed"})
                      /\ Answered(c, {"resolved", "replayed"}) =>
                           \E r \in db.rounds :
                             /\ r.id = reply[c].round
                             /\ r.account = request[c].account /\ r.key = request[c].key
                             /\ r.id = c <=> reply[c].outcome = "resolved"
    BY DEF AnswersMatchRounds
  <2>1. FreshOK(c)
    BY DEF IInv, FreshInv
  <2>2. ASSUME NEW r \in db.rounds, r.id = c
        PROVE  pc[c] \in {"committed", "crashed"} \/ Answered(c, {"resolved", "failed"})
    BY <2>1, <2>2 DEF FreshOK, MayHavePlayed, Told, Answered, Unplayed
  <2>3. ASSUME Answered(c, {"resolved", "replayed"})
        PROVE  \E r \in db.rounds : /\ r.id = reply[c].round
                                    /\ r.account = request[c].account /\ r.key = request[c].key
                                    /\ r.id = c <=> reply[c].outcome = "resolved"
    BY <2>1, <2>3 DEF FreshOK, MayHavePlayed, Told, Answered, Unplayed
  <2> QED
    BY <2>2, <2>3
<1> QED
  BY <1>1, Invariance, PTL

\* Whichever of several identical requests is answered, and by whatever path,
\* it is answered with the one round that was played for it.
THEOREM OneRoundPerRequest == Spec => []SameRequestSameRound
<1>1. IInv => SameRequestSameRound
  <2> SUFFICES ASSUME IInv, NEW c1 \in Call, NEW c2 \in Call,
                      Answered(c1, {"resolved", "replayed"}), Answered(c2, {"resolved", "replayed"}),
                      request[c1].account = request[c2].account,
                      request[c1].key = request[c2].key, request[c1].key # NoKey
               PROVE  reply[c1].round = reply[c2].round
    BY DEF SameRequestSameRound
  <2>1. PICK r1 \in db.rounds :
          r1.id = reply[c1].round /\ r1.account = request[c1].account /\ r1.key = request[c1].key
    BY DEF IInv, FreshInv, FreshOK, Told, Answered
  <2>2. PICK r2 \in db.rounds :
          r2.id = reply[c2].round /\ r2.account = request[c2].account /\ r2.key = request[c2].key
    BY DEF IInv, FreshInv, FreshOK, Told, Answered
  <2>3. r1 = r2
    BY <2>1, <2>2 DEF IInv, DbInv, ExactlyOnce
  <2> QED
    BY <2>1, <2>2, <2>3
<1> QED
  BY <1>1, Invariance, PTL
-----------------------------------------------------------------------------
(* The abstract wallet.                                                    *)

\* Rounds and movements of the ledger are told apart by their keys.
LEMMA KeysApart ==
  ASSUME NEW r, NEW q, NEW m
  PROVE  /\ RoundKey(r) = RoundKey(q) =>
              \/ r.key = NoKey /\ q.key = NoKey /\ r.id = q.id
              \/ r.key # NoKey /\ q.key # NoKey /\ r.account = q.account /\ r.key = q.key
         /\ CashOperation(m).key # RoundKey(r)

<1> QED
  BY DEF RoundKey, CashOperation

LEMMA SettledSame ==
  ASSUME UNCHANGED <<db.rounds, db.transactions>>
  PROVE  UNCHANGED Settled
BY DEF Settled, CashMovements

LEMMA WalletInit == Init => AbstractWallet!Init
<1> SUFFICES ASSUME Init
             PROVE  AbstractWallet!Init
  OBVIOUS
<1>1. db.players = {} /\ db.balance = [a \in Account |-> 0] /\ db.transactions = {} /\ db.rounds = {}
  BY DEF Init, EmptyDatabase
<1> QED
  BY <1>1 DEF AbstractWallet!Init, Settled, CashMovements
\* The first spin of a player opens the account.
LEMMA EnsureOpens ==
  ASSUME IInv, NEW c \in Call, Ensure(c)
  PROVE  UNCHANGED AbstractWallet!vars \/ \E a \in Account : AbstractWallet!Open(a)
<1> DEFINE a == request[c].account
<1>1. pc[c] = "ensure" /\ db' = EnsurePlayer(db, a)
  BY DEF Ensure
<1>2. a \in Account
  BY <1>1, RequestsAssumption DEF IInv, CallInv, CallOK, SpinRequest, CashRequest, LimitsRequest
<1> HIDE DEF a
<1>3. CASE a \in db.players
  BY <1>1, <1>3, SettledSame DEF EnsurePlayer, AbstractWallet!vars
<1>4. CASE a \notin db.players
  <2>1. db' = WithPlayer(db, a, InitialBalance, db.transactions)
    BY <1>1, <1>4 DEF EnsurePlayer
  <2>2. /\ db'.players = db.players \cup {a} /\ db'.balance = [db.balance EXCEPT ![a] = InitialBalance]
        /\ db'.rounds = db.rounds /\ db'.transactions = db.transactions
    BY <2>1 DEF WithPlayer
  <2>3. AbstractWallet!Open(a)
    BY <1>4, <2>2, SettledSame DEF AbstractWallet!Open
  <2> QED
    BY <1>2, <2>3
<1> QED
  BY <1>3, <1>4

\* A database that gains a round settles its operation.
LEMMA SpinSettles ==
  ASSUME IInv, NEW c \in Call, NEW win \in Wins, Commit(c, win), request[c].op = "spin"
  PROVE  \E op \in SpinOperations : AbstractWallet!Settle(op)
<1> DEFINE r == NewRound(c, at[c], win)
           op == RoundOperation(r)
<1>1. /\ request[c] \in SpinRequest /\ r \in RoundRow /\ r.id = c /\ r.key = request[c].key
      /\ r.account = request[c].account /\ r.account \in db.players /\ r.bet <= db.balance[r.account]
      /\ r.key # NoKey => ~HasRound(db, r.account, r.key)
      /\ Moves(db, db', r.account, r.win - r.bet, MovementsOf(r), {r})
  BY SpinCommits
<1>2. /\ request[c] \in Requests /\ Unplayed(db, c) /\ db \in Database
  BY DEF Commit, IInv, TypeOK, CallInv, CallOK, FreshInv, FreshOK, MayHavePlayed, Told
<1>3. op \in SpinOperations
  <2> DEFINE q == request[c]
  <2>1. op = RoundOperation([id |-> c, account |-> q.account, key |-> q.key, bet |-> q.amount, win |-> win, at |-> 0])
    BY DEF NewRound, RoundOperation, RoundKey
  <2>2. q \in Requests \cap SpinRequest
    BY <1>1, <1>2
  <2> HIDE DEF op, q
  <2> QED
    BY <2>1, <2>2 DEF SpinOperations
<1>4. r.bet \in Nat \ {0} /\ r.win \in Nat /\ r.account \in Account /\ db.balance \in [Account -> Int]
  BY <1>1, <1>2, WinsAssumption DEF RoundRow, Database
<1>5. op.account = r.account /\ op.key = RoundKey(r) /\ op.takes = r.bet /\ op.gives = r.win
  BY DEF RoundOperation
<1>6. MovementsOf(r) \subseteq {m \in db'.transactions : m.round # NoRound}
  BY <1>1, KeysAssumption DEF Moves, MovementsOf, Movement
<1> HIDE DEF r, op
<1>7. Settled' = Settled \cup {op}
  <2>1. CashMovements' = CashMovements
    BY <1>1, <1>6 DEF Moves, CashMovements
  <2>2. db'.rounds = db.rounds \cup {r}
    BY <1>1 DEF Moves
  <2> QED
    BY <2>1, <2>2 DEF Settled, op
<1>8. ASSUME NEW done \in Settled
      PROVE  done.key # op.key
  <2>1. CASE \E q \in db.rounds : done = RoundOperation(q)
    <3>1. PICK q \in db.rounds : done = RoundOperation(q)
      BY <2>1
    <3>2. done.key = RoundKey(q)
      BY <3>1 DEF RoundOperation
    <3>3. q.id # r.id /\ (r.key # NoKey => ~(q.account = r.account /\ q.key = r.key))
      BY <1>1, <1>2 DEF Unplayed, HasRound
    <3> QED
      BY <1>5, <3>2, <3>3, KeysApart
  <2>2. CASE \E m \in CashMovements : done = CashOperation(m)
    BY <1>5, <2>2, KeysApart
  <2> QED
    BY <2>1, <2>2 DEF Settled
<1>9. /\ db'.players = db.players \cup {r.account}
      /\ db'.balance = [db.balance EXCEPT ![r.account] = @ - r.bet + r.win]
  <2>1. db'.balance = [db.balance EXCEPT ![r.account] = @ + (r.win - r.bet)]
    BY <1>1 DEF Moves
  <2>2. db.balance[r.account] + (r.win - r.bet) = db.balance[r.account] - r.bet + r.win
    BY <1>4
  <2> QED
    BY <1>1, <2>1, <2>2 DEF Moves
<1>10. AbstractWallet!Settle(op)
  BY <1>1, <1>5, <1>7, <1>8, <1>9 DEF AbstractWallet!Settle
<1> QED
  BY <1>3, <1>10

\* So does one that gains a movement of the operator.
LEMMA CashSettles ==
  ASSUME IInv, NEW c \in Call, NEW win \in Wins, Commit(c, win), request[c].op # "spin"
  PROVE  UNCHANGED AbstractWallet!vars \/ \E op \in CashOperations : AbstractWallet!Settle(op)
<1> DEFINE m == CashMovement(c)
           op == CashOperation(m)
<1>1. /\ request[c] \in CashRequest /\ m \in MovementRow /\ m.round = NoRound
      /\ \/ UNCHANGED <<db.players, db.balance, db.transactions, db.rounds>>
         \/ /\ \A n \in db.transactions :
                 n.round = NoRound => ~(OperatorOf[n.account] = OperatorOf[m.account] /\ n.id = m.id)
            /\ m.type = "debit" => m.account \in db.players /\ m.amount <= db.balance[m.account]
            /\ Moves(db, db', m.account, Delta(m.type, m.amount), {m}, {})
  BY CashCommits
<1>2. request[c] \in Requests /\ db \in Database
  BY DEF Commit, IInv, TypeOK, CallInv, CallOK
<1>3. op \in CashOperations
  BY <1>1, <1>2 DEF CashOperations, CashMovement, CashType
<1>4. /\ m.amount \in Nat \ {0} /\ m.account \in Account /\ m.type \in {"debit", "credit"}
      /\ db.balance \in [Account -> Int]
  BY <1>1, <1>2 DEF MovementRow, Database
<1>5. /\ op.account = m.account /\ op.key = <<"cash", OperatorOf[m.account], m.id>>
      /\ op.takes = IF m.type = "debit" THEN m.amount ELSE 0
      /\ op.gives = IF m.type = "credit" THEN m.amount ELSE 0
  BY DEF CashOperation
<1> HIDE DEF m, op
<1>6. CASE UNCHANGED <<db.players, db.balance, db.transactions, db.rounds>>
  BY <1>6, SettledSame DEF AbstractWallet!vars
<1>7. CASE ~UNCHANGED <<db.players, db.balance, db.transactions, db.rounds>>
  <2>1. /\ \A n \in db.transactions :
             n.round = NoRound => ~(OperatorOf[n.account] = OperatorOf[m.account] /\ n.id = m.id)
        /\ m.type = "debit" => m.account \in db.players /\ m.amount <= db.balance[m.account]
        /\ db'.players = db.players \cup {m.account}
        /\ db'.balance = [db.balance EXCEPT ![m.account] = @ + Delta(m.type, m.amount)]
        /\ db'.transactions = db.transactions \cup {m} /\ db'.rounds = db.rounds
    BY <1>1, <1>7 DEF Moves
  <2>2. Settled' = Settled \cup {op}
    <3>1. CashMovements' = CashMovements \cup {m}
      BY <1>1, <2>1 DEF CashMovements
    <3> QED
      BY <2>1, <3>1 DEF Settled, op
  <2>3. ASSUME NEW done \in Settled
        PROVE  done.key # op.key
    <3>1. CASE \E q \in db.rounds : done = RoundOperation(q)
      <4>1. PICK q \in db.rounds : done = RoundOperation(q)
        BY <3>1
      <4>2. done.key = RoundKey(q)
        BY <4>1 DEF RoundOperation
      <4> QED
        BY <4>2, KeysApart DEF op
    <3>2. CASE \E n \in CashMovements : done = CashOperation(n)
      <4>1. PICK n \in CashMovements : done = CashOperation(n)
        BY <3>2
      <4>2. done.key = <<"cash", OperatorOf[n.account], n.id>>
        BY <4>1 DEF CashOperation
      <4>3. ~(OperatorOf[n.account] = OperatorOf[m.account] /\ n.id = m.id)
        BY <2>1, <4>1 DEF CashMovements
      <4> QED
        BY <1>5, <4>2, <4>3
    <3> QED
      BY <3>1, <3>2 DEF Settled
  <2>4. db.balance[m.account] + Delta(m.type, m.amount) = db.balance[m.account] - op.takes + op.gives
    BY <1>4, <1>5 DEF Delta
  <2>5. db'.balance = [db.balance EXCEPT ![op.account] = @ - op.takes + op.gives]
    BY <1>5, <2>1, <2>4
  <2>6. op.takes > 0 => op.account \in db.players /\ op.takes <= db.balance[op.account]
    BY <1>4, <1>5, <2>1
  <2>7. AbstractWallet!Settle(op)
    BY <1>5, <2>1, <2>2, <2>3, <2>5, <2>6 DEF AbstractWallet!Settle
  <2> QED
    BY <1>3, <2>7
<1> QED
  BY <1>6, <1>7

\* Every other step leaves the accounts and the operations alone.
LEMMA WalletStep == IInv /\ [Next]_vars => [AbstractWallet!Next]_(AbstractWallet!vars)
<1> SUFFICES ASSUME IInv, [Next]_vars
             PROVE  UNCHANGED AbstractWallet!vars \/ AbstractWallet!Next
  OBVIOUS
<1>1. CASE UNCHANGED <<db.players, db.balance, db.transactions, db.rounds>>
  BY <1>1, SettledSame DEF AbstractWallet!vars
<1>2. ASSUME NEW c \in Call, Ensure(c)
      PROVE  UNCHANGED AbstractWallet!vars \/ AbstractWallet!Next
  BY <1>2, EnsureOpens DEF AbstractWallet!Next
<1>3. ASSUME NEW c \in Call, NEW win \in Wins, Commit(c, win)
      PROVE  UNCHANGED AbstractWallet!vars \/ AbstractWallet!Next
  BY <1>3, SpinSettles, CashSettles DEF AbstractWallet!Next
<1>4. ASSUME NEW c \in Call, StoreLimits(c)
      PROVE  UNCHANGED <<db.players, db.balance, db.transactions, db.rounds>>
  <2>1. db \in Database
    BY DEF IInv, TypeOK
  <2> QED
    BY <1>4, <2>1 DEF StoreLimits, Database
<1>5. ASSUME NEW c \in Call,
             \/ Arrive(c) \/ LookUp(c) \/ Begin(c) \/ Recover(c) \/ ReadLimits(c) \/ Respond(c) \/ LoseCommitResult(c) \/ Crash(c)
             \/ \E win \in Wins : WriteConflict(c, win) \/ Rollback(c, win)
      PROVE  db' = db
  BY <1>5 DEF Arrive, LookUp, Begin, Recover, ReadLimits, Respond, LoseCommitResult, Crash, WriteConflict,
                  Rollback
<1>6. CASE Tick \/ UNCHANGED vars
  BY <1>1, <1>6 DEF Tick, vars
<1>7. CASE \E c \in Call : Arrive(c) \/ Step(c) \/ LoseCommitResult(c) \/ Crash(c)
  <2>1. PICK c \in Call : Arrive(c) \/ Step(c) \/ LoseCommitResult(c) \/ Crash(c)
    BY <1>7
  <2>2. \/ db' = db
        \/ Ensure(c) \/ StoreLimits(c)
        \/ \E win \in Wins : Commit(c, win)
    BY <1>5, <2>1 DEF Step
  <2> QED
    BY <1>1, <1>2, <1>3, <1>4, <2>2
<1> QED
  BY <1>6, <1>7 DEF Next

\* The money path implements the abstract wallet: whatever the interleaving,
\* the retries, the write conflicts and the crashes, each operation settles in
\* one step, completely, once under its key, and for money the account holds.
THEOREM WalletImplemented == Spec => ImplementsWallet
  BY WalletInit, WalletStep, Invariance, PTL DEF Spec, ImplementsWallet, AbstractWallet!Spec
-----------------------------------------------------------------------------
(* The ceilings.                                                           *)

\* A stake that is let through fits, and is counted in every window.
LEMMA StakeCounts ==
  ASSUME NEW x \in Context, NEW a \in Account, NEW stake \in Nat, NEW t \in Time,
         NEW y, y = StakeAgainstLimits(x, a, stake, t), y.error = NoError,
         NEW limits, limits = EffectiveLimits(x.db.limits[a], t), limits # NoLimits
  PROVE  /\ DecideBet(limits, UsageBefore(x.db, a, t), stake)
         /\ y.db.usage = WithStake(x.db.usage, a, stake, t)
         /\ \A p \in Period : UsageDoc(CurrentKey(a, p, t)) \in y.wrote
<1> DEFINE advanced == AdvanceCounters(x, a, stake, t)
<1>1. x.db \in Database /\ x.db.usage \in [UsageKey -> UsageRow \cup {NoUsage}]
  BY DEF Context, Database
<1>2. /\ advanced.db = [x.db EXCEPT !.usage = WithStake(x.db.usage, a, stake, t)]
      /\ advanced.wrote = x.wrote \cup {UsageDoc(u) : u \in CurrentKeys(a, t)}
      /\ advanced = [db |-> advanced.db, wrote |-> advanced.wrote, error |-> advanced.error]
  BY DEF AdvanceCounters, Write
<1>3. advanced.db.usage = WithStake(x.db.usage, a, stake, t)
  BY <1>1, <1>2, WithStakeType, UsageReplaced
<1> HIDE DEF advanced
<1>4. Throw(advanced, "limit_exceeded").error = "limit_exceeded"
  BY <1>2 DEF Throw
<1>5. y = advanced /\ DecideBet(limits, UsageBefore(x.db, a, t), stake)
  BY <1>4 DEF StakeAgainstLimits, advanced, NoError
<1> QED
  BY <1>2, <1>3, <1>5 DEF CurrentKeys

\* A win leaves what was staked as it was.
LEMMA WinKeepsStakes ==
  ASSUME NEW x \in Context, NEW a \in Account, NEW won \in Nat, NEW t \in Time,
         NEW y, y = RecordWinAgainstLimits(x, a, won, t),
         NEW u \in UsageKey
  PROVE  RowOf(y.db.usage[u]).staked = RowOf(x.db.usage[u]).staked
<1>1. x.db \in Database /\ x.db.usage \in [UsageKey -> UsageRow \cup {NoUsage}]
  BY DEF Context, Database
<1>2. CASE y = x
  BY <1>2
<1>3. CASE y # x
  <2>1. y.db = [x.db EXCEPT !.usage = WithWin(x.db.usage, a, won, t)]
    BY <1>3 DEF RecordWinAgainstLimits, Write
  <2>2. y.db.usage = WithWin(x.db.usage, a, won, t)
    BY <1>1, <2>1, WithWinType, UsageReplaced
  <2>3. y.db.usage[u] = IF u \in Counted(x.db.usage, a, t)
                        THEN [staked |-> x.db.usage[u].staked, won |-> x.db.usage[u].won + won]
                        ELSE x.db.usage[u]
    BY <2>2 DEF WithWin
  <2>4. CASE u \in Counted(x.db.usage, a, t)
    <3>1. x.db.usage[u] \in UsageRow /\ x.db.usage[u] # NoUsage
      BY <1>1, <2>4 DEF Counted
    <3>2. y.db.usage[u] = [staked |-> x.db.usage[u].staked, won |-> x.db.usage[u].won + won]
      BY <2>3, <2>4
    <3>3. y.db.usage[u] \in UsageRow
      BY <3>1, <3>2 DEF UsageRow
    <3>4. y.db.usage[u] # NoUsage
      BY <3>3, PeriodAssumption
    <3> QED
      BY <3>1, <3>2, <3>4 DEF RowOf
  <2>5. CASE u \notin Counted(x.db.usage, a, t)
    BY <2>3, <2>5
  <2> QED
    BY <2>4, <2>5
<1> QED
  BY <1>2, <1>3

LEMMA WinFrame ==
  ASSUME NEW x \in Context, NEW a \in Account, NEW won \in Nat, NEW t \in Time,
         NEW y, y = RecordWinAgainstLimits(x, a, won, t)
  PROVE  y \in Context /\ x.wrote \subseteq y.wrote /\ y.error = x.error
<1>1. /\ y \in Context
      /\ y.db = [x.db EXCEPT !.usage = y.db.usage]
      /\ x.wrote \subseteq y.wrote
      /\ \A u \in UsageKey : y.db.usage[u] # x.db.usage[u] => UsageDoc(u) \in y.wrote
      /\ y.error = x.error
  BY WinLemma
<1> QED
  BY <1>1

LEMMA InsertFrame ==
  ASSUME NEW x \in Context, NEW r \in RoundRow, NEW y, y = InsertRound(x, r), y.error = NoError
  PROVE  x.wrote \subseteq y.wrote /\ y.db.usage = x.db.usage /\ x.error = NoError
BY InsertLemma

\* The stake of a spin that throws nothing is counted once, whatever it wins.
LEMMA SpinCounts ==
  ASSUME NEW s \in Database, NEW c \in Call, request[c] \in SpinRequest,
         NEW t \in Time, t = at[c], NEW win \in Wins,
         NEW a \in Account, a = request[c].account,
         NEW bet \in Nat \ {0}, bet = request[c].amount,
         NEW x, x = SpinBody(StartOf(s), c, win), x.error = NoError,
         NEW limits, limits = EffectiveLimits(s.limits[a], t), limits # NoLimits
  PROVE  /\ DecideBet(limits, UsageBefore(s, a, t), bet)
         /\ \A p \in Period :
              /\ UsageDoc(CurrentKey(a, p, t)) \in x.wrote
              /\ RowOf(x.db.usage[CurrentKey(a, p, t)]).staked = RowOf(s.usage[CurrentKey(a, p, t)]).staked + bet
<1> DEFINE x0 == StartOf(s)
           x1 == StakeAgainstLimits(x0, a, bet, t)
           x2 == ApplyLedgerOp(x1, "debit", a, <<c, "debit">>, bet, c)
           x3 == ApplyLedgerOp(x2, "credit", a, <<c, "credit">>, win, c)
           x4 == RecordWinAgainstLimits(x3, a, win, t)
           x5 == IF win = 0 THEN x2 ELSE x4
           r == NewRound(c, t, win)
<1>1. x = InsertRound(x5, r)
  BY DEF SpinBody, StartOf
<1>2. r \in RoundRow /\ win \in Nat
  BY WinsAssumption DEF NewRound, RoundRow, SpinRequest
<1> HIDE DEF x0, x1, x2, x3, x4, x5, r
<1>3. x0 \in Context /\ x0.db = s /\ x0.error = NoError
  BY DEF x0, StartOf, Context, Errors
<1>4. <<c, "debit">> \in RoundTransactionId /\ <<c, "credit">> \in RoundTransactionId
  BY DEF RoundTransactionId
<1>5. x1 \in Context
  BY <1>3, StakeLemma DEF x1
<1>6. /\ x2 \in Context /\ x1.wrote \subseteq x2.wrote /\ x2.db.usage = x1.db.usage
      /\ x2.error = NoError => x1.error = NoError
  <2>1. /\ "debit" \in {"debit", "credit"} /\ c \in Call \cup {NoRound}
        /\ <<c, "debit">> \in TransactionId \cup RoundTransactionId
    BY <1>4
  <2>2. x2 = ApplyLedgerOp(x1, "debit", a, <<c, "debit">>, bet, c)
    BY DEF x2
  <2>3. x2.error = NoError => x1.error = NoError
    BY <2>2, LedgerIdempotent DEF Failed
  <2> QED
    BY <1>5, <2>1, <2>2, <2>3, LedgerFrame
<1>7. /\ x5 \in Context /\ x2.wrote \subseteq x5.wrote
      /\ x5.error = NoError => x2.error = NoError
      /\ \A u \in UsageKey : RowOf(x5.db.usage[u]).staked = RowOf(x2.db.usage[u]).staked
  <2>1. CASE win = 0
    BY <1>6, <2>1 DEF x5
  <2>2. CASE win # 0
    <3>1. /\ x2 \in Context /\ win \in Nat \ {0} /\ "credit" \in {"debit", "credit"}
          /\ c \in Call \cup {NoRound} /\ <<c, "credit">> \in TransactionId \cup RoundTransactionId
      BY <1>2, <1>4, <1>6, <2>2
    <3>2. x3 = ApplyLedgerOp(x2, "credit", a, <<c, "credit">>, win, c)
      BY DEF x3
    <3>3. x3.error = NoError => x2.error = NoError
      BY <3>2, LedgerIdempotent DEF Failed
    <3>4. x3 \in Context /\ x2.wrote \subseteq x3.wrote /\ x3.db.usage = x2.db.usage
      BY <3>1, <3>2, LedgerFrame
    <3>5. x4 = RecordWinAgainstLimits(x3, a, win, t)
      BY DEF x4
    <3>6. x4 \in Context /\ x3.wrote \subseteq x4.wrote /\ x4.error = x3.error
      BY <1>2, <3>4, <3>5, WinFrame
    <3>7. \A u \in UsageKey : RowOf(x4.db.usage[u]).staked = RowOf(x3.db.usage[u]).staked
      BY <1>2, <3>4, <3>5, WinKeepsStakes
    <3> QED
      BY <2>2, <3>3, <3>4, <3>6, <3>7 DEF x5
  <2> QED
    BY <2>1, <2>2
<1>8. x5.wrote \subseteq x.wrote /\ x.db.usage = x5.db.usage /\ x5.error = NoError
  <2>1. x5 \in Context
    BY <1>7
  <2> QED
    BY <1>1, <1>2, <2>1, InsertFrame
<1>9. x1.error = NoError
  BY <1>6, <1>7, <1>8
<1>10. /\ DecideBet(limits, UsageBefore(s, a, t), bet)
       /\ x1.db.usage = WithStake(s.usage, a, bet, t)
       /\ \A p \in Period : UsageDoc(CurrentKey(a, p, t)) \in x1.wrote
  BY <1>3, <1>9, StakeCounts DEF x1
<1>11. ASSUME NEW p \in Period, NEW u, u = CurrentKey(a, p, t)
       PROVE  UsageDoc(u) \in x.wrote /\ RowOf(x.db.usage[u]).staked = RowOf(s.usage[u]).staked + bet
  <2>1. u \in UsageKey /\ u \in CurrentKeys(a, t)
    BY <1>11, CurrentKeysType DEF CurrentKeys
  <2>2. s.usage[u] \in UsageRow \cup {NoUsage}
    BY <2>1 DEF Database
  <2>3. x1.db.usage[u] = [staked |-> RowOf(s.usage[u]).staked + bet, won |-> RowOf(s.usage[u]).won]
    BY <1>10, <2>1 DEF WithStake
  <2>4. RowOf(s.usage[u]) \in UsageRow
    BY <2>2, RowOfType
  <2>5. x1.db.usage[u] \in UsageRow
    BY <2>3, <2>4 DEF UsageRow
  <2>6. RowOf(x1.db.usage[u]).staked = RowOf(s.usage[u]).staked + bet
    BY <2>3, <2>5, PeriodAssumption DEF RowOf
  <2> QED
    BY <1>6, <1>7, <1>8, <1>10, <1>11, <2>1, <2>6
<1> QED
  BY <1>10, <1>11

\* A stake that fits under a ceiling leaves the counter within it.
LEMMA FitsUnderCeilings ==
  ASSUME NEW limits \in LimitSet, NEW usage \in [Period -> UsageRow], NEW stake \in Nat \ {0},
         DecideBet(limits, usage, stake), NEW p \in Period
  PROVE  /\ limits[p]["maxStake"] # Unlimited => usage[p].staked + stake <= limits[p]["maxStake"]
         /\ limits[p]["maxLoss"] # Unlimited => usage[p].staked + stake - usage[p].won <= limits[p]["maxLoss"]
<1>1. usage[p].staked \in Nat /\ usage[p].won \in Nat
  BY DEF UsageRow
<1>2. ASSUME limits[p]["maxStake"] # Unlimited
      PROVE  usage[p].staked + stake <= limits[p]["maxStake"]
  <2>1. limits[p]["maxStake"] \in Nat /\ stake <= Remaining("maxStake", limits[p]["maxStake"], usage[p])
    BY <1>2 DEF DecideBet, LimitSet, Ceiling, Field
  <2> QED
    BY <1>1, <2>1 DEF Remaining, AtLeastZero
<1>3. ASSUME limits[p]["maxLoss"] # Unlimited
      PROVE  usage[p].staked + stake - usage[p].won <= limits[p]["maxLoss"]
  <2>1. limits[p]["maxLoss"] \in Nat /\ stake <= Remaining("maxLoss", limits[p]["maxLoss"], usage[p])
    BY <1>3 DEF DecideBet, LimitSet, Ceiling, Field
  <2> QED
    BY <1>1, <2>1 DEF Remaining, AtLeastZero
<1> QED
  BY <1>2, <1>3

\* Counters a transaction wrote are what it made of those it read.
LEMMA CountersInstalled ==
  ASSUME IInv, NEW c \in Call, NEW win \in Wins, Commit(c, win),
         NEW x, x = Outcome(c, win), NEW u \in UsageKey, UsageDoc(u) \in x.wrote
  PROVE  db.usage[u] = snapshot[c].usage[u] /\ db'.usage[u] = x.db.usage[u]
<1>1. SnapshotAgrees(snapshot[c], db, stale[c])
  BY DEF Commit, IInv, SnapshotInv, SnapshotOK, InTransaction
<1>2. x.wrote \cap stale[c] = {} /\ db' = Install(x.db, x.wrote)
  BY DEF Commit
<1> QED
  BY <1>1, <1>2 DEF SnapshotAgrees, Install

\* The one step that takes a spin out of its transaction so is its commit.
LEMMA ResolvesCommits ==
  ASSUME IInv, [Next]_vars, NEW c \in Call, Resolves(c)
  PROVE  request[c].op = "spin" /\ \E win \in Wins : Commit(c, win)
<1>1. /\ pc[c] = "transaction" /\ pc'[c] = "committed" /\ request[c].op = "spin"
      /\ pc \in [Call -> Label] /\ reply \in [Call -> Replies \cup {NoReply}]
  BY DEF Resolves, IInv, TypeOK
<1>2. ASSUME NEW d \in Call \ {c}, Arrive(d) \/ Step(d) \/ LoseCommitResult(d) \/ Crash(d)
      PROVE  FALSE
  <2>1. pc'[c] = pc[c]
    BY <1>1, <1>2 DEF Arrive, Step, Ensure, LookUp, Begin, Recover, WriteConflict, Rollback, Commit, ReadLimits,
                      StoreLimits, Respond, LoseCommitResult, Crash, Answer, Goto
  <2> QED
    BY <1>1, <2>1
<1>3. ~Arrive(c) /\ ~LoseCommitResult(c) /\ ~Crash(c) /\ ~Tick /\ ~UNCHANGED vars
  BY <1>1 DEF Arrive, LoseCommitResult, Crash, Tick, vars, Goto
<1>4. PICK win \in Wins : WriteConflict(c, win) \/ Rollback(c, win) \/ Commit(c, win)
  <2>1. PICK d \in Call : Arrive(d) \/ Step(d) \/ LoseCommitResult(d) \/ Crash(d)
    BY <1>3 DEF Next
  <2>2. Step(c)
    BY <1>2, <1>3, <2>1
  <2> QED
    BY <1>1, <2>2 DEF Step, Ensure, LookUp, Begin, Recover, Respond, ReadLimits, StoreLimits
<1>5. ~WriteConflict(c, win)
  BY <1>1 DEF WriteConflict, Goto
<1>6. ~Rollback(c, win)
  <2> SUFFICES ASSUME Rollback(c, win)
               PROVE  FALSE
    OBVIOUS
  <2>1. Outcome(c, win).error \in Errors /\ Outcome(c, win).error # NoError
    BY <1>1, OutcomeType DEF Rollback, Context
  <2> QED
    BY <1>1, <2>1 DEF Rollback, Goto, Answer, Errors
<1>7. Commit(c, win)
  BY <1>4, <1>5, <1>6
<1> QED
  BY <1>1, <1>7

LEMMA SpinWithinLimits ==
  ASSUME IInv, NEW c \in Call, NEW win \in Wins, Commit(c, win), request[c].op = "spin",
         NEW a, a = request[c].account,
         NEW t, t = at[c],
         NEW limits, limits = EffectiveLimits(snapshot[c].limits[a], t),
         NEW p \in Period
  PROVE  /\ limits[p]["maxStake"] # Unlimited => UsageIn(db', a, p, t).staked <= limits[p]["maxStake"]
         /\ limits[p]["maxLoss"] # Unlimited =>
              UsageIn(db, a, p, t).staked + request[c].amount - UsageIn(db, a, p, t).won <= limits[p]["maxLoss"]
<1>1. PICK s : s = snapshot[c]
  OBVIOUS
<1>2. PICK bet : bet = request[c].amount
  OBVIOUS
<1>3. PICK x : x = Outcome(c, win)
  OBVIOUS
<1>4. pc[c] = "transaction" /\ x.error = NoError
  BY <1>3 DEF Commit
<1>5. TypeOK /\ CallOK(c) /\ s \in Database /\ t \in Time
  BY <1>1, <1>4 DEF IInv, TypeOK, CallInv, CallOK, InTransaction
<1>6. request[c] \in SpinRequest
  BY <1>4, <1>5, TransactionRequest
<1>7. a \in Account /\ bet \in Nat \ {0}
  BY <1>2, <1>6 DEF SpinRequest
<1>8. limits \in LimitSet
  BY <1>1, <1>5, <1>7, EffectiveLimitsType DEF Database
<1>9. CASE limits = NoLimits
  BY <1>9 DEF NoLimits, Field
<1>10. CASE limits # NoLimits
  <2>1. x = SpinBody(StartOf(s), c, win)
    BY <1>1, <1>3 DEF Outcome, StartOf
  <2>2. /\ DecideBet(limits, UsageBefore(s, a, t), bet)
        /\ UsageDoc(CurrentKey(a, p, t)) \in x.wrote
        /\ RowOf(x.db.usage[CurrentKey(a, p, t)]).staked = RowOf(s.usage[CurrentKey(a, p, t)]).staked + bet
    BY <1>1, <1>2, <1>4, <1>5, <1>6, <1>7, <1>10, <2>1, SpinCounts
  <2>3. CurrentKey(a, p, t) \in UsageKey
    BY <1>5, <1>7, CurrentKeysType DEF CurrentKeys
  <2>4. UsageIn(db, a, p, t) = UsageBefore(s, a, t)[p] /\ UsageIn(db', a, p, t).staked = UsageBefore(s, a, t)[p].staked + bet
    BY <1>1, <1>3, <2>2, <2>3, CountersInstalled DEF UsageIn, UsageBefore
  <2>5. UsageBefore(s, a, t) \in [Period -> UsageRow]
    <3> SUFFICES ASSUME NEW q \in Period
                 PROVE  RowOf(s.usage[CurrentKey(a, q, t)]) \in UsageRow
      BY DEF UsageBefore
    <3>1. CurrentKey(a, q, t) \in UsageKey
      BY <1>5, <1>7, CurrentKeysType DEF CurrentKeys
    <3> QED
      BY <1>5, <3>1, RowOfType DEF Database
  <2> QED
    BY <1>2, <1>7, <1>8, <2>2, <2>4, <2>5, FitsUnderCeilings
<1> QED
  BY <1>9, <1>10

\* stakeAgainstLimits: whichever other spins, wins and changes of limits run
\* at the same time, a spin that commits found the counters of its windows
\* within the ceilings it was held to, and leaves them there.
THEOREM CeilingsHold == Spec => StakesWithinLimits
<1> DEFINE Within(c) ==
      LET a      == request[c].account
          limits == EffectiveLimits(snapshot[c].limits[a], at[c])
      IN  \A p \in Period :
            /\ limits[p]["maxStake"] # Unlimited => UsageIn(db', a, p, at[c]).staked <= limits[p]["maxStake"]
            /\ limits[p]["maxLoss"] # Unlimited =>
                 UsageIn(db, a, p, at[c]).staked + request[c].amount - UsageIn(db, a, p, at[c]).won
                   <= limits[p]["maxLoss"]
<1>1. IInv /\ [Next]_vars => [\A c \in Call : Resolves(c) => Within(c)]_vars
  <2> SUFFICES ASSUME IInv, [Next]_vars, NEW c \in Call, Resolves(c)
               PROVE  Within(c)
    OBVIOUS
  <2>1. PICK win \in Wins : Commit(c, win) /\ request[c].op = "spin"
    BY ResolvesCommits
  <2> QED
    BY <2>1, SpinWithinLimits
<1>2. Spec => [][\A c \in Call : Resolves(c) => Within(c)]_vars
  <2> HIDE DEF Within
  <2> QED
    BY <1>1, Invariance, PTL DEF Spec
<1> QED
  BY <1>2 DEF StakesWithinLimits
-----------------------------------------------------------------------------
(* The totals of the ledger.                                               *)

LEMMA TotalType ==
  ASSUME NEW movements \in SUBSET MovementRow, IsFiniteSet(movements), NEW type, NEW a
  PROVE  Total(movements, type, a) \in Nat
<1> DEFINE own == {m \in movements : m.type = type /\ m.account = a}
           f == [m \in own |-> m.amount]
<1>1. IsFiniteSet(own)
  BY FS_Subset
<1>2. \A m \in own : f[m] \in Int /\ f[m] >= 0
  BY DEF MovementRow
<1>3. Total(movements, type, a) = SumOver(f, own)
  BY DEF Total
<1> HIDE DEF f, own
<1> QED
  BY <1>1, <1>2, <1>3, SumType

\* A new movement counts for its own kind and account, and for nothing else.
LEMMA TotalAdds ==
  ASSUME NEW movements \in SUBSET MovementRow, IsFiniteSet(movements),
         NEW n \in MovementRow, n \notin movements, NEW type, NEW a
  PROVE  Total(movements \cup {n}, type, a) =
           Total(movements, type, a) + (IF n.type = type /\ n.account = a THEN n.amount ELSE 0)
<1> DEFINE own == {m \in movements : m.type = type /\ m.account = a}
           more == {m \in movements \cup {n} : m.type = type /\ m.account = a}
           f == [m \in own |-> m.amount]
           g == [m \in more |-> m.amount]
<1>1. /\ Total(movements, type, a) = SumOver(f, own)
      /\ Total(movements \cup {n}, type, a) = SumOver(g, more)
  BY DEF Total
<1>2. IsFiniteSet(own) /\ n \notin own /\ \A m \in own : m \in more /\ f[m] = g[m] /\ g[m] \in Int
  <2>1. IsFiniteSet(own)
    BY FS_Subset
  <2>2. \A m \in own : m \in more /\ f[m] = g[m] /\ g[m] \in Int
    BY DEF MovementRow
  <2> QED
    BY <2>1, <2>2
<1>3. SumOver(g, own) = SumOver(f, own) /\ SumOver(g, own) \in Int
  <2> HIDE DEF f, g, own, more
  <2> QED
    BY <1>2, SumSame, SumType
<1>4. CASE n.type = type /\ n.account = a
  <2>1. more = own \cup {n} /\ g[n] = n.amount /\ g[n] \in Int
    BY <1>4 DEF MovementRow
  <2>2. SumOver(g, more) = SumOver(g, own) + g[n]
    <3> HIDE DEF f, g, own, more
    <3> QED
      BY <1>2, <2>1, SumAdds
  <2> QED
    BY <1>1, <1>3, <1>4, <2>1, <2>2
<1>5. CASE ~(n.type = type /\ n.account = a)
  <2>1. more = own
    BY <1>5
  <2>2. SumOver(g, more) = SumOver(f, own)
    <3> HIDE DEF f, g, own, more
    <3> QED
      BY <1>3, <2>1
  <2>3. SumOver(f, own) \in Int
    <3> HIDE DEF f, g, own, more
    <3> QED
      BY <1>3
  <2> QED
    BY <1>1, <1>5, <2>2, <2>3
<1> QED
  BY <1>4, <1>5

\* What the ledger says an account gained.
Net(movements, a) == Total(movements, "credit", a) - Total(movements, "debit", a)

LEMMA NetAdds ==
  ASSUME NEW movements \in SUBSET MovementRow, IsFiniteSet(movements),
         NEW n \in MovementRow, n \notin movements, NEW a
  PROVE  /\ IsFiniteSet(movements \cup {n}) /\ movements \cup {n} \in SUBSET MovementRow
         /\ Net(movements, a) \in Int
         /\ Net(movements \cup {n}, a) =
              Net(movements, a) + (IF n.account = a THEN Delta(n.type, n.amount) ELSE 0)
<1>1. IsFiniteSet(movements \cup {n})
  BY FS_AddElement
<1>2. /\ Total(movements, "credit", a) \in Nat /\ Total(movements, "debit", a) \in Nat
      /\ Total(movements \cup {n}, "credit", a) =
           Total(movements, "credit", a) + (IF n.type = "credit" /\ n.account = a THEN n.amount ELSE 0)
      /\ Total(movements \cup {n}, "debit", a) =
           Total(movements, "debit", a) + (IF n.type = "debit" /\ n.account = a THEN n.amount ELSE 0)
  <2>1. Total(movements, "credit", a) \in Nat /\ Total(movements, "debit", a) \in Nat
    BY TotalType
  <2>2. Total(movements \cup {n}, "credit", a) =
          Total(movements, "credit", a) + (IF n.type = "credit" /\ n.account = a THEN n.amount ELSE 0)
    BY TotalAdds
  <2>3. Total(movements \cup {n}, "debit", a) =
          Total(movements, "debit", a) + (IF n.type = "debit" /\ n.account = a THEN n.amount ELSE 0)
    BY TotalAdds
  <2> QED
    BY <2>1, <2>2, <2>3
<1>3. n.type \in {"debit", "credit"} /\ n.amount \in Nat
  BY DEF MovementRow
<1> QED
  BY <1>1, <1>2, <1>3 DEF Net, Delta

\* A round changes what the ledger says by its win less its bet.
LEMMA NetOfRound ==
  ASSUME NEW movements \in SUBSET MovementRow, IsFiniteSet(movements), NEW r \in RoundRow,
         \A m \in MovementsOf(r) : m \notin movements, NEW a
  PROVE  /\ IsFiniteSet(movements \cup MovementsOf(r))
         /\ Net(movements, a) \in Int
         /\ Net(movements \cup MovementsOf(r), a) =
              Net(movements, a) + (IF r.account = a THEN r.win - r.bet ELSE 0)
<1> DEFINE deb == Movement("debit", r.account, <<r.id, "debit">>, r.bet, r.id)
           cred == Movement("credit", r.account, <<r.id, "credit">>, r.win, r.id)
<1>1. /\ r.bet \in Nat \ {0} /\ r.win \in Nat
      /\ deb.type = "debit" /\ deb.account = r.account /\ deb.amount = r.bet
      /\ cred.type = "credit" /\ cred.account = r.account /\ cred.amount = r.win
      /\ deb \in MovementRow /\ (r.win > 0 => cred \in MovementRow)
  <2>1. /\ r.id \in Call /\ r.account \in Account /\ r.bet \in Nat \ {0} /\ r.win \in Wins
    BY DEF RoundRow
  <2>2. r.win \in Nat
    BY <2>1, WinsAssumption
  <2>3. <<r.id, "debit">> \in RoundTransactionId /\ <<r.id, "credit">> \in RoundTransactionId
    BY <2>1 DEF RoundTransactionId
  <2>4. deb \in MovementRow /\ (r.win > 0 => cred \in MovementRow)
    BY <2>1, <2>2, <2>3 DEF Movement, MovementRow
  <2> QED
    BY <2>1, <2>2, <2>4 DEF Movement
<1>2. MovementsOf(r) = {deb} \cup (IF r.win > 0 THEN {cred} ELSE {})
  BY DEF MovementsOf
<1> HIDE DEF deb, cred
<1>3. deb \notin movements /\ (r.win > 0 => cred \notin movements)
  BY <1>1, <1>2
<1>4. /\ IsFiniteSet(movements \cup {deb}) /\ movements \cup {deb} \in SUBSET MovementRow
      /\ Net(movements, a) \in Int
      /\ Net(movements \cup {deb}, a) = Net(movements, a) + (IF r.account = a THEN -r.bet ELSE 0)
  BY <1>1, <1>3, NetAdds DEF Delta
<1>5. CASE r.win = 0
  BY <1>1, <1>2, <1>4, <1>5
<1>6. CASE r.win > 0
  <2> DEFINE more == movements \cup {deb}
  <2>1. cred \notin more /\ cred \in MovementRow /\ more \in SUBSET MovementRow /\ IsFiniteSet(more)
    BY <1>1, <1>3, <1>4, <1>6
  <2>3. movements \cup MovementsOf(r) = more \cup {cred}
    BY <1>2, <1>6
  <2>4. Net(more, a) = Net(movements, a) + (IF r.account = a THEN -r.bet ELSE 0)
    BY <1>4
  <2> HIDE DEF more
  <2>5. /\ IsFiniteSet(more \cup {cred})
        /\ Net(more \cup {cred}, a) = Net(more, a) + (IF cred.account = a THEN Delta(cred.type, cred.amount) ELSE 0)
    BY <2>1, NetAdds
  <2>2. Delta(cred.type, cred.amount) = r.win
    BY <1>1 DEF Delta
  <2> QED
    <3>1. Net(movements \cup MovementsOf(r), a) =
            Net(movements, a) + (IF r.account = a THEN -r.bet ELSE 0) + (IF r.account = a THEN r.win ELSE 0)
      BY <1>1, <2>2, <2>3, <2>4, <2>5
    <3>2. CASE r.account = a
      <4>1. Net(movements, a) \in Int /\ r.bet \in Int /\ r.win \in Int
        BY <1>1, <1>4
      <4>2. Net(movements \cup MovementsOf(r), a) = Net(movements, a) + (-r.bet) + r.win
        BY <3>1, <3>2
      <4>3. Net(movements, a) + (-r.bet) + r.win = Net(movements, a) + (r.win - r.bet)
        BY <4>1
      <4> QED
        BY <2>3, <2>5, <3>2, <4>1, <4>2, <4>3
    <3>3. CASE r.account # a
      BY <1>1, <1>4, <2>3, <2>5, <3>1, <3>3
    <3> QED
      BY <3>2, <3>3
<1> QED
  BY <1>1, <1>5, <1>6

\* The ledger and the rounds are finite, every balance is explained, and an
\* account nobody has seen holds nothing.
BalanceInv ==
  /\ IsFiniteSet(db.transactions)
  /\ \A a \in Account :
       /\ db.balance[a] - Net(db.transactions, a) \in {0, InitialBalance}
       /\ a \notin db.players => db.balance[a] = 0 /\ Net(db.transactions, a) = 0

LEMMA BalanceExplains ==
  ASSUME IInv, BalanceInv
  PROVE  BalanceExplained
<1> SUFFICES ASSUME NEW a \in Account
             PROVE  db.balance[a] - Total(db.transactions, "credit", a) + Total(db.transactions, "debit", a)
                      \in (IF a \in db.players THEN {0, InitialBalance} ELSE {0})
  BY DEF BalanceExplained
<1>1. db.transactions \in SUBSET MovementRow /\ db.balance[a] \in Int
  BY DEF IInv, TypeOK, Database
<1>2. Total(db.transactions, "credit", a) \in Nat /\ Total(db.transactions, "debit", a) \in Nat
  BY <1>1, TotalType DEF BalanceInv
<1>3. db.balance[a] - Total(db.transactions, "credit", a) + Total(db.transactions, "debit", a)
        = db.balance[a] - Net(db.transactions, a)
  BY <1>1, <1>2 DEF Net
<1> QED
  BY <1>3 DEF BalanceInv

\* What one step may do to the accounts, the ledger and the rounds.
LEMMA MoneyMoves ==
  ASSUME IInv, [Next]_vars
  PROVE  \/ UNCHANGED <<db.players, db.balance, db.transactions, db.rounds>>
         \/ \E a \in Account \ db.players :
              /\ db'.players = db.players \cup {a} /\ db'.balance = [db.balance EXCEPT ![a] = InitialBalance]
              /\ db'.transactions = db.transactions /\ db'.rounds = db.rounds
         \/ \E r \in RoundRow :
              /\ Unplayed(db, r.id) /\ r.account \in db.players
              /\ Moves(db, db', r.account, r.win - r.bet, MovementsOf(r), {r})
         \/ \E m \in MovementRow :
              /\ m \notin db.transactions
              /\ Moves(db, db', m.account, Delta(m.type, m.amount), {m}, {})
<1>1. ASSUME NEW c \in Call, Ensure(c)
      PROVE  \/ UNCHANGED <<db.players, db.balance, db.transactions, db.rounds>>
             \/ \E a \in Account \ db.players :
                  /\ db'.players = db.players \cup {a} /\ db'.balance = [db.balance EXCEPT ![a] = InitialBalance]
                  /\ db'.transactions = db.transactions /\ db'.rounds = db.rounds
  <2>1. db' = EnsurePlayer(db, request[c].account) /\ request[c].account \in Account
    BY <1>1, RequestsAssumption
       DEF Ensure, IInv, CallInv, CallOK, SpinRequest, CashRequest, LimitsRequest
  <2> QED
    BY <2>1 DEF EnsurePlayer, WithPlayer
<1>2. ASSUME NEW c \in Call, NEW win \in Wins, Commit(c, win), request[c].op = "spin"
      PROVE  \E r \in RoundRow :
               /\ Unplayed(db, r.id) /\ r.account \in db.players
               /\ Moves(db, db', r.account, r.win - r.bet, MovementsOf(r), {r})
  <2>1. Unplayed(db, c)
    BY <1>2 DEF Commit, IInv, FreshInv, FreshOK, MayHavePlayed, Told
  <2> QED
    BY <1>2, <2>1, SpinCommits
<1>3. ASSUME NEW c \in Call, NEW win \in Wins, Commit(c, win), request[c].op # "spin"
      PROVE  \/ UNCHANGED <<db.players, db.balance, db.transactions, db.rounds>>
             \/ \E m \in MovementRow :
                  /\ m \notin db.transactions
                  /\ Moves(db, db', m.account, Delta(m.type, m.amount), {m}, {})
  BY <1>3, CashCommits
<1>4. ASSUME NEW c \in Call, StoreLimits(c)
      PROVE  UNCHANGED <<db.players, db.balance, db.transactions, db.rounds>>
  <2>1. db \in Database
    BY DEF IInv, TypeOK
  <2> QED
    BY <1>4, <2>1 DEF StoreLimits, Database
<1>5. ASSUME NEW c \in Call,
             \/ Arrive(c) \/ LookUp(c) \/ Begin(c) \/ Recover(c) \/ ReadLimits(c) \/ Respond(c) \/ LoseCommitResult(c) \/ Crash(c)
             \/ \E win \in Wins : WriteConflict(c, win) \/ Rollback(c, win)
      PROVE  db' = db
  BY <1>5 DEF Arrive, LookUp, Begin, Recover, ReadLimits, Respond, LoseCommitResult, Crash, WriteConflict,
                  Rollback
<1>6. CASE Tick \/ UNCHANGED vars
  BY <1>6 DEF Tick, vars
<1>7. CASE \E c \in Call : Arrive(c) \/ Step(c) \/ LoseCommitResult(c) \/ Crash(c)
  <2>1. PICK c \in Call : Arrive(c) \/ Step(c) \/ LoseCommitResult(c) \/ Crash(c)
    BY <1>7
  <2>2. \/ db' = db
        \/ Ensure(c) \/ StoreLimits(c)
        \/ \E win \in Wins : Commit(c, win)
    BY <1>5, <2>1 DEF Step
  <2> QED
    BY <1>1, <1>2, <1>3, <1>4, <2>2
<1> QED
  BY <1>6, <1>7 DEF Next

LEMMA BalanceInit == Init => BalanceInv
<1> SUFFICES ASSUME Init
             PROVE  BalanceInv
  OBVIOUS
<1>1. db.transactions = {} /\ db.balance = [a \in Account |-> 0]
  BY DEF Init, EmptyDatabase
<1>2. IsFiniteSet({}) /\ {} \in SUBSET MovementRow
  BY FS_EmptySet
<1>3. \A a \in Account : Net({}, a) = 0
  <2> SUFFICES ASSUME NEW a \in Account PROVE Net({}, a) = 0
    OBVIOUS
  <2>1. \A type : Total({}, type, a) = 0
    <3> SUFFICES ASSUME NEW type PROVE Total({}, type, a) = 0
      OBVIOUS
    <3>1. {m \in {} : m.type = type /\ m.account = a} = {}
      OBVIOUS
    <3> QED
      BY <3>1, SumOfNone DEF Total
  <2> QED
    BY <2>1 DEF Net
<1> QED
  BY <1>1, <1>2, <1>3 DEF BalanceInv

\* A balance and the ledger move together.
LEMMA BalanceMoved ==
  ASSUME BalanceInv, db \in Database, NEW a \in Account, NEW n \in Int,
         IsFiniteSet(db'.transactions),
         db'.players = db.players \cup {a},
         db'.balance = [db.balance EXCEPT ![a] = @ + n],
         \A b \in Account :
           /\ Net(db.transactions, b) \in Int
           /\ Net(db'.transactions, b) = Net(db.transactions, b) + (IF a = b THEN n ELSE 0)
  PROVE  BalanceInv'
<1> SUFFICES ASSUME NEW b \in Account
             PROVE  /\ db'.balance[b] - Net(db'.transactions, b) \in {0, InitialBalance}
                    /\ b \notin db'.players => db'.balance[b] = 0 /\ Net(db'.transactions, b) = 0
  BY DEF BalanceInv
<1>1. /\ db.balance \in [Account -> Int] /\ db.balance[b] \in Int
      /\ db.balance[b] - Net(db.transactions, b) \in {0, InitialBalance}
      /\ b \notin db.players => db.balance[b] = 0 /\ Net(db.transactions, b) = 0
  BY DEF BalanceInv, Database
<1>2. Net(db.transactions, b) \in Int
  OBVIOUS
<1>3. CASE a = b
  <2>1. db'.balance[b] = db.balance[b] + n /\ Net(db'.transactions, b) = Net(db.transactions, b) + n
    BY <1>1, <1>3
  <2> QED
    BY <1>1, <1>2, <1>3, <2>1
<1>4. CASE a # b
  <2>1. db'.balance[b] = db.balance[b] /\ Net(db'.transactions, b) = Net(db.transactions, b)
    BY <1>1, <1>2, <1>4
  <2> QED
    BY <1>1, <1>4, <2>1
<1> QED
  BY <1>3, <1>4

LEMMA BalanceStep == IInv /\ BalanceInv /\ [Next]_vars => BalanceInv'
<1> SUFFICES ASSUME IInv, BalanceInv, [Next]_vars
             PROVE  BalanceInv'
  OBVIOUS
<1>1. /\ db \in Database /\ db.transactions \in SUBSET MovementRow /\ IsFiniteSet(db.transactions)
      /\ db.balance \in [Account -> Int] /\ InitialBalance \in Int
  BY InitialBalanceAssumption DEF IInv, TypeOK, Database, BalanceInv
<1>2. \A a \in Account : Net(db.transactions, a) \in Int
  BY <1>1, TotalType DEF Net
<1>3. CASE UNCHANGED <<db.players, db.balance, db.transactions, db.rounds>>
  BY <1>3 DEF BalanceInv
<1>4. ASSUME NEW a \in Account \ db.players,
             db'.players = db.players \cup {a}, db'.balance = [db.balance EXCEPT ![a] = InitialBalance],
             db'.transactions = db.transactions
      PROVE  BalanceInv'
  <2>1. db.balance[a] = 0 /\ db.balance[a] + InitialBalance = InitialBalance /\ Net(db.transactions, a) = 0
    BY <1>1, <1>4 DEF BalanceInv
  <2>2. ASSUME NEW b \in Account
        PROVE  /\ db'.balance[b] - Net(db.transactions, b) \in {0, InitialBalance}
               /\ b \notin db'.players => db'.balance[b] = 0 /\ Net(db.transactions, b) = 0
    <3>1. CASE b = a
      BY <1>1, <1>4, <2>1, <3>1
    <3>2. CASE b # a
      BY <1>1, <1>4, <3>2 DEF BalanceInv
    <3> QED
      BY <3>1, <3>2
  <2> QED
    BY <1>1, <1>4, <2>2 DEF BalanceInv
<1>5. ASSUME NEW r \in RoundRow, Unplayed(db, r.id), r.account \in db.players,
             Moves(db, db', r.account, r.win - r.bet, MovementsOf(r), {r})
      PROVE  BalanceInv'
  <2>1. \A m \in MovementsOf(r) : m \notin db.transactions
    BY <1>5 DEF Unplayed, MovementsOf, Movement
  <2>2. /\ db'.transactions = db.transactions \cup MovementsOf(r)
        /\ db'.players = db.players \cup {r.account}
        /\ db'.balance = [db.balance EXCEPT ![r.account] = @ + (r.win - r.bet)]
    BY <1>5 DEF Moves
  <2>3. IsFiniteSet(db'.transactions)
    BY <1>1, <2>1, <2>2, NetOfRound
  <2>4. ASSUME NEW a \in Account
        PROVE  Net(db'.transactions, a) = Net(db.transactions, a) + (IF r.account = a THEN r.win - r.bet ELSE 0)
    <3>1. Net(db.transactions \cup MovementsOf(r), a) =
            Net(db.transactions, a) + (IF r.account = a THEN r.win - r.bet ELSE 0)
      BY <1>1, <2>1, NetOfRound
    <3> QED
      BY <2>2, <3>1
  <2>5. r.win \in Wins /\ r.bet \in Nat \ {0} /\ r.account \in Account
    BY DEF RoundRow
  <2>6. r.win - r.bet \in Int
    <3>1. r.win \in Nat
      BY <2>5, WinsAssumption
    <3> QED
      BY <2>5, <3>1
  <2> QED
    <3>0. PICK n, a : n = r.win - r.bet /\ a = r.account
      OBVIOUS
    <3>1. /\ n \in Int /\ a \in Account /\ db'.players = db.players \cup {a}
          /\ db'.balance = [db.balance EXCEPT ![a] = @ + n]
          /\ \A b \in Account :
               /\ Net(db.transactions, b) \in Int
               /\ Net(db'.transactions, b) = Net(db.transactions, b) + (IF a = b THEN n ELSE 0)
      BY <1>2, <2>2, <2>4, <2>5, <2>6, <3>0
    <3> QED
      BY <1>1, <2>3, <3>1, BalanceMoved
<1>6. ASSUME NEW m \in MovementRow, m \notin db.transactions,
             Moves(db, db', m.account, Delta(m.type, m.amount), {m}, {})
      PROVE  BalanceInv'
  <2>1. /\ db'.transactions = db.transactions \cup {m}
        /\ db'.players = db.players \cup {m.account}
        /\ db'.balance = [db.balance EXCEPT ![m.account] = @ + Delta(m.type, m.amount)]
    BY <1>6 DEF Moves
  <2>2. IsFiniteSet(db'.transactions)
    BY <1>1, <1>6, <2>1, NetAdds
  <2>3. ASSUME NEW a \in Account
        PROVE  Net(db'.transactions, a) =
                 Net(db.transactions, a) + (IF m.account = a THEN Delta(m.type, m.amount) ELSE 0)
    <3>1. Net(db.transactions \cup {m}, a) =
            Net(db.transactions, a) + (IF m.account = a THEN Delta(m.type, m.amount) ELSE 0)
      BY <1>1, <1>6, NetAdds
    <3> QED
      BY <2>1, <3>1
  <2>4. Delta(m.type, m.amount) \in Int /\ m.account \in Account
    BY DEF MovementRow, Delta
  <2> QED
    <3>0. PICK n, a : n = Delta(m.type, m.amount) /\ a = m.account
      OBVIOUS
    <3>1. /\ n \in Int /\ a \in Account /\ db'.players = db.players \cup {a}
          /\ db'.balance = [db.balance EXCEPT ![a] = @ + n]
          /\ \A b \in Account :
               /\ Net(db.transactions, b) \in Int
               /\ Net(db'.transactions, b) = Net(db.transactions, b) + (IF a = b THEN n ELSE 0)
      BY <1>2, <2>1, <2>3, <2>4, <3>0
    <3> QED
      BY <1>1, <2>2, <3>1, BalanceMoved
<1> QED
  BY <1>3, <1>4, <1>5, <1>6, MoneyMoves

\* The books balance: whatever the interleaving, the retries and the crashes,
\* every balance is what its movements in the ledger add up to, on top of an
\* initial balance granted once or not at all.
THEOREM BooksBalance == Spec => []BalanceExplained
<1>1. Spec => []BalanceInv
  BY BalanceInit, BalanceStep, Invariance, PTL DEF Spec
<1>2. IInv /\ BalanceInv => BalanceExplained
  BY BalanceExplains
<1> QED
  BY <1>1, <1>2, Invariance, PTL

-----------------------------------------------------------------------------
(* The counters.                                                           *)

Limited(doc) == doc.limits # NoLimits /\ (doc.pending # NoPending => doc.pending.limits # NoLimits)
Unrestricted(doc) == doc.limits = NoLimits /\ doc.pending = NoPending

\* A player who is limited from the start and never asks for no limits.
KeptLimited(a) ==
  /\ \A limits \in InitialLimits : Limited(limits[a])
  /\ \A r \in Requests \cap LimitsRequest : r.account = a => r.limits # NoLimits

\* A player without limits who never asks for any.
NeverLimited(a) ==
  /\ \A limits \in InitialLimits : Unrestricted(limits[a])
  /\ \A r \in Requests \cap LimitsRequest : r.account # a

AllSteady == \A a \in Account : KeptLimited(a) \/ NeverLimited(a)

\* Both keep their kind of document, whatever is read or stored in between.
LimitsKept(limits) ==
  \A a \in Account : IF KeptLimited(a) THEN Limited(limits[a]) ELSE Unrestricted(limits[a])

\* The row of a limited player holds the rounds of its window; the others
\* have no rows.
RowMatches(a, p, key) ==
  LET row == db.usage[<<a, p, key>>]
      played == RoundsIn(db.rounds, a, p, key)
  IN  IF KeptLimited(a)
      THEN RowOf(row).staked = Staked(played) /\ RowOf(row).won = Won(played)
      ELSE row = NoUsage

Uncounted(d) ==
  \A a \in Account, p \in Period, key \in PeriodKeys : ~KeptLimited(a) => d.usage[<<a, p, key>>] = NoUsage

CountersInv ==
  /\ IsFiniteSet(db.rounds)
  /\ LimitsKept(db.limits)
  /\ \A c \in Call : InTransaction(c) => LimitsKept(snapshot[c].limits) /\ Uncounted(snapshot[c])
  /\ \A c \in Call : pc[c] = "storeLimits" => KeptLimited(request[c].account) /\ Limited(document[c])
  /\ \A a \in Account, p \in Period, key \in PeriodKeys : RowMatches(a, p, key)

\* A limited player has limits in force, at any time; a change of them leaves
\* some in force and some to come.
LEMMA LimitedInForce ==
  ASSUME NEW doc \in LimitsDocument, Limited(doc), NEW t
  PROVE  EffectiveLimits(doc, t) # NoLimits
BY DEF Limited, EffectiveLimits, IsDue

LEMMA UnrestrictedInForce ==
  ASSUME NEW doc, Unrestricted(doc), NEW t
  PROVE  EffectiveLimits(doc, t) = NoLimits
BY DEF Unrestricted, EffectiveLimits, IsDue

LEMMA PutKeepsLimited ==
  ASSUME NEW doc \in LimitsDocument, Limited(doc), NEW limits \in LimitSet, limits # NoLimits, NEW t \in Time
  PROVE  Limited(PutDocument(doc, limits, t))
<1> DEFINE current == EffectiveLimits(doc, t)
           put == PutDocument(doc, limits, t)
<1>1. current \in LimitSet /\ current # NoLimits
  BY EffectiveLimitsType, LimitedInForce
<1>2. PICK p \in Period, f \in Field : current[p][f] # Unlimited
  BY <1>1 DEF LimitSet, NoLimits
<1>3. put.limits = ApplyTighteningsOnly(current, limits)
  BY DEF PutDocument
<1>4. put.limits[p][f] = IF Tighter(current[p][f], limits[p][f]) THEN limits[p][f] ELSE current[p][f]
  BY <1>3 DEF ApplyTighteningsOnly
<1>5. put.limits[p][f] # Unlimited
  BY <1>2, <1>4 DEF Tighter, Looser
<1>6. put.limits # NoLimits
  BY <1>5 DEF NoLimits
<1>7. put.pending # NoPending => put.pending.limits = limits
  BY DEF PutDocument
<1> QED
  BY <1>6, <1>7 DEF Limited

-----------------------------------------------------------------------------
\* A win that is recorded reaches the rows there are of its windows.
LEMMA WinCounts ==
  ASSUME NEW x \in Context, ~Failed(x), NEW a \in Account, NEW won \in Nat \ {0}, NEW t \in Time,
         NEW y, y = RecordWinAgainstLimits(x, a, won, t), NEW u \in UsageKey
  PROVE  y.db.usage[u] = IF u \in CurrentKeys(a, t) /\ x.db.usage[u] # NoUsage
                         THEN [staked |-> x.db.usage[u].staked, won |-> x.db.usage[u].won + won]
                         ELSE x.db.usage[u]
<1>1. x.db \in Database /\ x.db.usage \in [UsageKey -> UsageRow \cup {NoUsage}]
  BY DEF Context, Database
<1>2. y = Write(x, [x.db EXCEPT !.usage = WithWin(x.db.usage, a, won, t)],
                {UsageDoc(v) : v \in Counted(x.db.usage, a, t)})
  BY DEF RecordWinAgainstLimits
<1>3. y.db = [x.db EXCEPT !.usage = WithWin(x.db.usage, a, won, t)]
  BY <1>2 DEF Write
<1>4. y.db.usage = WithWin(x.db.usage, a, won, t)
  BY <1>1, <1>3, WithWinType, UsageReplaced
<1> QED
  BY <1>4 DEF WithWin, Counted

\* A spin of a player without limits in force, and without rows, counts
\* nothing; one of a limited player counts its bet and its win in the row of
\* each of its windows.
LEMMA SpinCountsBoth ==
  ASSUME NEW s \in Database, NEW c \in Call, request[c] \in SpinRequest,
         NEW t \in Time, t = at[c], NEW win \in Wins,
         NEW a \in Account, a = request[c].account,
         NEW bet \in Nat \ {0}, bet = request[c].amount,
         NEW x, x = SpinBody(StartOf(s), c, win), x.error = NoError,
         NEW limits, limits = EffectiveLimits(s.limits[a], t),
         NEW u \in UsageKey
  PROVE  /\ limits # NoLimits =>
              /\ u \in CurrentKeys(a, t) =>
                   /\ UsageDoc(u) \in x.wrote
                   /\ x.db.usage[u] = [staked |-> RowOf(s.usage[u]).staked + bet, won |-> RowOf(s.usage[u]).won + win]
              /\ u \notin CurrentKeys(a, t) => x.db.usage[u] = s.usage[u]
         /\ limits = NoLimits /\ (u \in CurrentKeys(a, t) => s.usage[u] = NoUsage) => x.db.usage[u] = s.usage[u]
<1> DEFINE x0 == StartOf(s)
           x1 == StakeAgainstLimits(x0, a, bet, t)
           x2 == ApplyLedgerOp(x1, "debit", a, <<c, "debit">>, bet, c)
           x3 == ApplyLedgerOp(x2, "credit", a, <<c, "credit">>, win, c)
           x4 == RecordWinAgainstLimits(x3, a, win, t)
           x5 == IF win = 0 THEN x2 ELSE x4
           r == NewRound(c, t, win)
<1>1. x = InsertRound(x5, r)
  BY DEF SpinBody, StartOf
<1>2. r \in RoundRow /\ win \in Nat
  BY WinsAssumption DEF NewRound, RoundRow, SpinRequest
<1> HIDE DEF x0, x1, x2, x3, x4, x5, r
<1>3. x0 \in Context /\ x0.db = s /\ x0.error = NoError
  BY DEF x0, StartOf, Context, Errors
<1>4. <<c, "debit">> \in RoundTransactionId /\ <<c, "credit">> \in RoundTransactionId
  BY DEF RoundTransactionId
<1>5. x1 \in Context
  BY <1>3, StakeLemma DEF x1
<1>6. /\ x2 \in Context /\ x1.wrote \subseteq x2.wrote /\ x2.db.usage = x1.db.usage
      /\ x2.error = NoError => x1.error = NoError
  <2>1. /\ "debit" \in {"debit", "credit"} /\ c \in Call \cup {NoRound}
        /\ <<c, "debit">> \in TransactionId \cup RoundTransactionId
    BY <1>4
  <2>2. x2 = ApplyLedgerOp(x1, "debit", a, <<c, "debit">>, bet, c)
    BY DEF x2
  <2>3. x2.error = NoError => x1.error = NoError
    BY <2>2, LedgerIdempotent DEF Failed
  <2> QED
    BY <1>5, <2>1, <2>2, <2>3, LedgerFrame
<1>7. ASSUME win # 0
      PROVE  /\ x3 \in Context /\ x2.wrote \subseteq x3.wrote /\ x3.db.usage = x2.db.usage
             /\ x4 \in Context /\ x3.wrote \subseteq x4.wrote /\ x4.error = x3.error
             /\ x3.error = NoError => x2.error = NoError
  <2>1. /\ x2 \in Context /\ win \in Nat \ {0} /\ "credit" \in {"debit", "credit"}
        /\ c \in Call \cup {NoRound} /\ <<c, "credit">> \in TransactionId \cup RoundTransactionId
    BY <1>2, <1>4, <1>6, <1>7
  <2>2. x3 = ApplyLedgerOp(x2, "credit", a, <<c, "credit">>, win, c)
    BY DEF x3
  <2>3. x3.error = NoError => x2.error = NoError
    BY <2>2, LedgerIdempotent DEF Failed
  <2>4. x3 \in Context /\ x2.wrote \subseteq x3.wrote /\ x3.db.usage = x2.db.usage
    BY <2>1, <2>2, LedgerFrame
  <2>5. x4 \in Context /\ x3.wrote \subseteq x4.wrote /\ x4.error = x3.error
    BY <1>2, <2>4, WinFrame DEF x4
  <2> QED
    BY <2>3, <2>4, <2>5
<1>8. /\ x5 \in Context /\ x2.wrote \subseteq x5.wrote
      /\ x5.error = NoError => x2.error = NoError
  <2>1. CASE win = 0
    BY <1>6, <2>1 DEF x5
  <2>2. CASE win # 0
    BY <1>6, <1>7, <2>2 DEF x5
  <2> QED
    BY <2>1, <2>2
<1>9. x5.wrote \subseteq x.wrote /\ x.db.usage = x5.db.usage /\ x5.error = NoError
  <2>1. x5 \in Context
    BY <1>8
  <2> QED
    BY <1>1, <1>2, <2>1, InsertFrame
<1>10. x1.error = NoError /\ x2.error = NoError
  BY <1>6, <1>8, <1>9
\* What the win adds to the rows after the stake.
<1>11. x.db.usage[u] = IF win # 0 /\ u \in CurrentKeys(a, t) /\ x1.db.usage[u] # NoUsage
                       THEN [staked |-> x1.db.usage[u].staked, won |-> x1.db.usage[u].won + win]
                       ELSE x1.db.usage[u]
  <2>1. CASE win = 0
    BY <1>6, <1>9, <2>1 DEF x5
  <2>2. CASE win # 0
    <3>1. x5 = x4 /\ ~Failed(x3) /\ win \in Nat \ {0}
      BY <1>2, <1>7, <1>9, <2>2 DEF x5, Failed
    <3>2. x4.db.usage[u] = IF u \in CurrentKeys(a, t) /\ x3.db.usage[u] # NoUsage
                           THEN [staked |-> x3.db.usage[u].staked, won |-> x3.db.usage[u].won + win]
                           ELSE x3.db.usage[u]
      BY <1>7, <2>2, <3>1, WinCounts DEF x4
    <3> QED
      BY <1>6, <1>7, <1>9, <2>2, <3>1, <3>2
  <2> QED
    BY <2>1, <2>2
<1>12. s.usage[u] \in UsageRow \cup {NoUsage} /\ RowOf(s.usage[u]) \in UsageRow
  BY RowOfType DEF Database
<1>13. CASE limits = NoLimits
  <2>1. x1 = x0
    BY <1>3, <1>13 DEF x1, StakeAgainstLimits
  <2> QED
    BY <1>3, <1>11, <1>13, <2>1
<1>14. CASE limits # NoLimits
  <2>1. /\ x1.db.usage = WithStake(s.usage, a, bet, t)
        /\ \A p \in Period : UsageDoc(CurrentKey(a, p, t)) \in x1.wrote
    BY <1>3, <1>10, <1>14, StakeCounts DEF x1
  <2>2. CASE u \notin CurrentKeys(a, t)
    BY <1>11, <1>14, <2>1, <2>2 DEF WithStake
  <2>3. CASE u \in CurrentKeys(a, t)
    <3>1. UsageDoc(u) \in x.wrote
      BY <1>6, <1>8, <1>9, <2>1, <2>3 DEF CurrentKeys
    <3>2. x1.db.usage[u] = [staked |-> RowOf(s.usage[u]).staked + bet, won |-> RowOf(s.usage[u]).won]
      BY <2>1, <2>3 DEF WithStake
    <3>3. x1.db.usage[u] \in UsageRow
      BY <1>12, <3>2 DEF UsageRow
    <3>4. x1.db.usage[u] # NoUsage
      BY <3>3, PeriodAssumption
    <3>5. x1.db.usage[u].staked = RowOf(s.usage[u]).staked + bet /\ x1.db.usage[u].won = RowOf(s.usage[u]).won
      BY <3>2
    <3>6. CASE win # 0
      BY <1>11, <1>14, <2>3, <3>1, <3>4, <3>5, <3>6
    <3>7. CASE win = 0
      <4>1. RowOf(s.usage[u]).won + win = RowOf(s.usage[u]).won
        BY <1>12, <3>7 DEF UsageRow
      <4> QED
        BY <1>11, <1>14, <2>3, <3>1, <3>2, <3>7, <4>1
    <3> QED
      BY <3>6, <3>7
  <2> QED
    BY <2>2, <2>3
<1> QED
  BY <1>13, <1>14

\* What one more round adds to a window.
LEMMA PlayedAdds ==
  ASSUME NEW rounds \in SUBSET RoundRow, IsFiniteSet(rounds), NEW r \in RoundRow, r \notin rounds,
         NEW a, NEW p, NEW key,
         NEW played, played = RoundsIn(rounds, a, p, key),
         NEW more, more = RoundsIn(rounds \cup {r}, a, p, key)
  PROVE  IF r.account = a /\ PeriodKey[p][r.at] = key
         THEN Staked(more) = Staked(played) + r.bet /\ Won(more) = Won(played) + r.win
         ELSE more = played
<1>1. IsFiniteSet(played) /\ r \notin played
  BY FS_Subset DEF RoundsIn
<1>2. CASE ~(r.account = a /\ PeriodKey[p][r.at] = key)
  BY <1>2 DEF RoundsIn
<1>3. CASE r.account = a /\ PeriodKey[p][r.at] = key
  <2>1. more = played \cup {r}
    BY <1>3 DEF RoundsIn
  <2>2. \A q \in more : q.bet \in Int /\ q.win \in Int
    <3>1. more \subseteq RoundRow
      BY DEF RoundsIn
    <3>2. \A q \in RoundRow : q.bet \in Int /\ q.win \in Int
      <4> SUFFICES ASSUME NEW q \in RoundRow
                   PROVE  q.bet \in Int /\ q.win \in Int
        OBVIOUS
      <4>1. q.bet \in Nat \ {0} /\ q.win \in Wins
        BY DEF RoundRow
      <4>2. q.win \in Nat
        BY <4>1, WinsAssumption
      <4> QED
        BY <4>1, <4>2
    <3> QED
      BY <3>1, <3>2
  <2>3. Staked(more) = Staked(played) + r.bet
    <3> DEFINE f == [q \in played |-> q.bet]
               g == [q \in more |-> q.bet]
    <3>1. /\ \A q \in played : f[q] = g[q] /\ g[q] \in Int
          /\ g[r] = r.bet /\ g[r] \in Int
      BY <2>1, <2>2
    <3>2. Staked(more) = SumOver(g, more) /\ Staked(played) = SumOver(f, played)
      BY DEF Staked
    <3> HIDE DEF f, g
    <3>3. SumOver(f, played) = SumOver(g, played)
      BY <1>1, <3>1, SumSame
    <3>4. SumOver(g, played \cup {r}) = SumOver(g, played) + g[r]
      BY <1>1, <3>1, SumAdds
    <3> QED
      BY <2>1, <3>1, <3>2, <3>3, <3>4
  <2>4. Won(more) = Won(played) + r.win
    <3> DEFINE f == [q \in played |-> q.win]
               g == [q \in more |-> q.win]
    <3>1. /\ \A q \in played : f[q] = g[q] /\ g[q] \in Int
          /\ g[r] = r.win /\ g[r] \in Int
      BY <2>1, <2>2
    <3>2. Won(more) = SumOver(g, more) /\ Won(played) = SumOver(f, played)
      BY DEF Won
    <3> HIDE DEF f, g
    <3>3. SumOver(f, played) = SumOver(g, played)
      BY <1>1, <3>1, SumSame
    <3>4. SumOver(g, played \cup {r}) = SumOver(g, played) + g[r]
      BY <1>1, <3>1, SumAdds
    <3> QED
      BY <2>1, <3>1, <3>2, <3>3, <3>4
  <2> QED
    BY <1>3, <2>3, <2>4
<1> QED
  BY <1>2, <1>3

\* A counter the body left alone stays; one it changed is what the body made
\* of the counter the database has.
LEMMA CounterCommits ==
  ASSUME IInv, NEW c \in Call, NEW win \in Wins, Commit(c, win),
         NEW x, x = Outcome(c, win), NEW u \in UsageKey
  PROVE  /\ UsageDoc(u) \in x.wrote => db.usage[u] = snapshot[c].usage[u] /\ db'.usage[u] = x.db.usage[u]
         /\ x.db.usage[u] = snapshot[c].usage[u] => db'.usage[u] = db.usage[u]
         /\ db'.limits = db.limits
<1>1. db' = Install(x.db, x.wrote)
  BY DEF Commit
<1>2. UsageDoc(u) \in x.wrote => db.usage[u] = snapshot[c].usage[u] /\ db'.usage[u] = x.db.usage[u]
  BY CountersInstalled
<1>3. UsageDoc(u) \notin x.wrote => db'.usage[u] = db.usage[u]
  BY <1>1 DEF Install
<1> QED
  BY <1>1, <1>2, <1>3 DEF Install

\* The other calls, and what they work on, are as they were; the call itself
\* is out of its transaction.
LEMMA CommitLeaves ==
  ASSUME IInv, NEW c \in Call, NEW win \in Wins, Commit(c, win)
  PROVE  /\ pc'[c] = "committed"
         /\ \A o \in Call \ {c} : pc'[o] = pc[o] /\ snapshot'[o] = snapshot[o]
         /\ request' = request /\ document' = document
BY DEF Commit, Goto, EndTransaction, IInv, TypeOK

LEMMA CallsKeepLimits ==
  ASSUME IInv, CountersInv, NEW c \in Call, pc'[c] \notin {"transaction", "storeLimits"},
         \A o \in Call \ {c} : /\ pc'[o] = pc[o] /\ snapshot'[o] = snapshot[o]
                               /\ request'[o] = request[o] /\ document'[o] = document[o]
  PROVE  /\ \A o \in Call : InTransaction(o)' => LimitsKept(snapshot'[o].limits) /\ Uncounted(snapshot'[o])
         /\ \A o \in Call : pc'[o] = "storeLimits" => KeptLimited(request'[o].account) /\ Limited(document'[o])
<1> SUFFICES ASSUME NEW o \in Call
             PROVE  /\ InTransaction(o)' => LimitsKept(snapshot'[o].limits) /\ Uncounted(snapshot'[o])
                    /\ pc'[o] = "storeLimits" => KeptLimited(request'[o].account) /\ Limited(document'[o])
  OBVIOUS
<1>1. CASE o = c
  BY <1>1 DEF InTransaction
<1>2. CASE o # c
  BY <1>2 DEF InTransaction, CountersInv
<1> QED
  BY <1>1, <1>2

\* A spin that commits counts its bet and its win in the windows of its round
\* if its player is limited, and nothing if not.
LEMMA SpinRows ==
  ASSUME IInv, CountersInv, AllSteady, NEW c \in Call, NEW win \in Wins, Commit(c, win), request[c].op = "spin"
  PROVE  CountersInv'
<1> DEFINE s == snapshot[c]
           t == at[c]
           b == request[c].account
           bet == request[c].amount
           x == Outcome(c, win)
           r == NewRound(c, t, win)
           limits == EffectiveLimits(s.limits[b], t)
<1>1. /\ request[c] \in SpinRequest /\ r \in RoundRow /\ r.id = c
      /\ db'.rounds = db.rounds \cup {r}
  <2>1. /\ request[c] \in SpinRequest /\ r \in RoundRow /\ r.id = c
        /\ Moves(db, db', r.account, r.win - r.bet, MovementsOf(r), {r})
    BY SpinCommits
  <2> HIDE DEF r
  <2> QED
    BY <2>1 DEF Moves
<1>2. /\ b \in Account /\ bet \in Nat \ {0} /\ t \in Time /\ win \in Nat
      /\ r.account = b /\ r.at = t /\ r.bet = bet /\ r.win = win
  BY <1>1, WinsAssumption DEF SpinRequest, NewRound, RoundRow
<1>3. s \in Database /\ InTransaction(c) /\ x.error = NoError
  BY DEF Commit, IInv, CallInv, CallOK, InTransaction
<1>4. LimitsKept(s.limits) /\ Uncounted(s)
  BY <1>3 DEF CountersInv
<1>5. x = SpinBody(StartOf(s), c, win)
  BY DEF Outcome, StartOf
<1>6. r \notin db.rounds
  BY <1>1, <1>3 DEF IInv, FreshInv, FreshOK, MayHavePlayed, Told, Unplayed, InTransaction
<1>7. db.rounds \in SUBSET RoundRow /\ IsFiniteSet(db.rounds) /\ db.usage \in [UsageKey -> UsageRow \cup {NoUsage}]
  BY DEF IInv, TypeOK, Database, CountersInv
<1>8. IF KeptLimited(b) THEN limits # NoLimits ELSE limits = NoLimits
  <2>1. s.limits[b] \in LimitsDocument
    BY <1>2, <1>3 DEF Database
  <2> QED
    BY <1>2, <1>4, <2>1, LimitedInForce, UnrestrictedInForce DEF LimitsKept
<1> HIDE DEF s, t, b, bet, x, r, limits
<1>9. ASSUME NEW a \in Account, NEW p \in Period, NEW key \in PeriodKeys
      PROVE  RowMatches(a, p, key)'
  <2> DEFINE u == <<a, p, key>>
             played == RoundsIn(db.rounds, a, p, key)
             more == RoundsIn(db'.rounds, a, p, key)
  <2>0. u \in UsageKey /\ RowMatches(a, p, key)
    BY DEF UsageKey, CountersInv
  <2>1. u \in CurrentKeys(b, t) <=> a = b /\ key = PeriodKey[p][t]
    BY DEF CurrentKeys, CurrentKey
  <2>2. IF a = b /\ PeriodKey[p][t] = key
        THEN Staked(more) = Staked(played) + bet /\ Won(more) = Won(played) + win
        ELSE more = played
    BY <1>1, <1>2, <1>6, <1>7, PlayedAdds
  <2>3. /\ limits # NoLimits =>
             /\ u \in CurrentKeys(b, t) =>
                  /\ UsageDoc(u) \in x.wrote
                  /\ x.db.usage[u] = [staked |-> RowOf(s.usage[u]).staked + bet, won |-> RowOf(s.usage[u]).won + win]
             /\ u \notin CurrentKeys(b, t) => x.db.usage[u] = s.usage[u]
        /\ limits = NoLimits /\ (u \in CurrentKeys(b, t) => s.usage[u] = NoUsage) => x.db.usage[u] = s.usage[u]
    BY <1>1, <1>2, <1>3, <1>5, <2>0, SpinCountsBoth DEF s, t, b, bet, limits
  <2>4. /\ UsageDoc(u) \in x.wrote => db.usage[u] = s.usage[u] /\ db'.usage[u] = x.db.usage[u]
        /\ x.db.usage[u] = s.usage[u] => db'.usage[u] = db.usage[u]
    BY <2>0, CounterCommits DEF s, x
  <2> HIDE DEF u, played, more
  <2>5. CASE limits # NoLimits /\ u \in CurrentKeys(b, t)
    <3>1. /\ db'.usage[u] = [staked |-> RowOf(db.usage[u]).staked + bet, won |-> RowOf(db.usage[u]).won + win]
      BY <2>3, <2>4, <2>5
    <3>2. RowOf(db.usage[u]) \in UsageRow
      BY <1>7, <2>0, RowOfType
    <3>3. db'.usage[u] \in UsageRow
      BY <1>2, <3>1, <3>2 DEF UsageRow
    <3>4. RowOf(db'.usage[u]) = db'.usage[u]
      BY <3>3, PeriodAssumption DEF RowOf
    <3>5. KeptLimited(a) /\ RowOf(db.usage[u]).staked = Staked(played) /\ RowOf(db.usage[u]).won = Won(played)
      BY <1>8, <2>0, <2>1, <2>5 DEF RowMatches, u, played
    <3>6. RowOf(db'.usage[u]).staked = Staked(more) /\ RowOf(db'.usage[u]).won = Won(more)
      BY <2>1, <2>2, <2>5, <3>1, <3>4, <3>5
    <3> QED
      BY <3>5, <3>6 DEF RowMatches, u, more
  <2>6. CASE ~(limits # NoLimits /\ u \in CurrentKeys(b, t))
    <3>1. u \in CurrentKeys(b, t) => s.usage[u] = NoUsage
      BY <1>4, <1>8, <2>1, <2>6 DEF Uncounted, u
    <3>2. db'.usage[u] = db.usage[u]
      BY <2>3, <2>4, <2>6, <3>1
    <3>3. KeptLimited(a) => more = played
      BY <1>8, <2>1, <2>2, <2>6
    <3> QED
      BY <2>0, <3>2, <3>3 DEF RowMatches, u, more, played
  <2> QED
    BY <2>5, <2>6
<1>10. IsFiniteSet(db'.rounds)
  BY <1>1, <1>7, FS_AddElement
<1>11. db'.limits = db.limits
  BY DEF Commit, Install
<1>12. /\ \A o \in Call : InTransaction(o)' => LimitsKept(snapshot'[o].limits) /\ Uncounted(snapshot'[o])
       /\ \A o \in Call : pc'[o] = "storeLimits" => KeptLimited(request'[o].account) /\ Limited(document'[o])
  BY CommitLeaves, CallsKeepLimits
<1>13. LimitsKept(db'.limits)
  BY <1>11 DEF CountersInv
<1> QED
  BY <1>9, <1>10, <1>12, <1>13 DEF CountersInv

\* A cash movement that commits counts nothing.
LEMMA CashRows ==
  ASSUME IInv, CountersInv, NEW c \in Call, NEW win \in Wins, Commit(c, win), request[c].op # "spin"
  PROVE  CountersInv'
<1> DEFINE s == snapshot[c]
           x == Outcome(c, win)
<1>1. request[c] \in CashRequest /\ db'.rounds = db.rounds
  <2>1. request[c] \in CashRequest
    BY CashCommits
  <2>2. \/ UNCHANGED <<db.players, db.balance, db.transactions, db.rounds>>
        \/ Moves(db, db', CashMovement(c).account, Delta(CashMovement(c).type, CashMovement(c).amount), {CashMovement(c)}, {})
    BY CashCommits
  <2> QED
    BY <2>1, <2>2 DEF Moves
<1>2. s \in Database
  BY DEF Commit, IInv, CallInv, CallOK, InTransaction
<1>3. x = CashBody(StartOf(s), c)
  BY DEF Outcome, StartOf
<1>4. x.db.usage = s.usage
  BY <1>1, <1>2, <1>3, CashBodyLemma
<1> HIDE DEF s, x
<1>5. ASSUME NEW u \in UsageKey
      PROVE  db'.usage[u] = db.usage[u]
  BY <1>4, CounterCommits DEF s, x
<1>6. db'.limits = db.limits
  BY DEF Commit, Install
<1>7. /\ \A o \in Call : InTransaction(o)' => LimitsKept(snapshot'[o].limits) /\ Uncounted(snapshot'[o])
      /\ \A o \in Call : pc'[o] = "storeLimits" => KeptLimited(request'[o].account) /\ Limited(document'[o])
  BY CommitLeaves, CallsKeepLimits
<1>8. ASSUME NEW a \in Account, NEW p \in Period, NEW key \in PeriodKeys
      PROVE  RowMatches(a, p, key)'
  <2>1. <<a, p, key>> \in UsageKey /\ RowMatches(a, p, key)
    BY DEF UsageKey, CountersInv
  <2> QED
    BY <1>1, <1>5, <2>1 DEF RowMatches
<1>9. IsFiniteSet(db'.rounds) /\ LimitsKept(db'.limits)
  BY <1>1, <1>6 DEF CountersInv
<1> QED
  BY <1>7, <1>8, <1>9 DEF CountersInv

\* Whatever leaves the rounds and the counters alone keeps what they say.
LEMMA RowsStand ==
  ASSUME CountersInv, db'.rounds = db.rounds, db'.usage = db.usage,
         LimitsKept(db'.limits),
         \A o \in Call : InTransaction(o)' => LimitsKept(snapshot'[o].limits) /\ Uncounted(snapshot'[o]),
         \A o \in Call : pc'[o] = "storeLimits" => KeptLimited(request'[o].account) /\ Limited(document'[o])
  PROVE  CountersInv'
BY DEF CountersInv, RowMatches

\* A snapshot holds the limits and the rows of the database it was taken of.
LEMMA BeginRows ==
  ASSUME IInv, CountersInv, NEW c \in Call, Begin(c)
  PROVE  CountersInv'
<1>1. /\ pc'[c] = "transaction" /\ snapshot'[c] = db
      /\ \A o \in Call \ {c} : /\ pc'[o] = pc[o] /\ snapshot'[o] = snapshot[o]
                               /\ request'[o] = request[o] /\ document'[o] = document[o]
      /\ db' = db
  BY DEF Begin, Goto, IInv, TypeOK
<1>2. LimitsKept(db.limits) /\ Uncounted(db)
  BY DEF CountersInv, Uncounted, RowMatches
<1>3. ASSUME NEW o \in Call
      PROVE  /\ InTransaction(o)' => LimitsKept(snapshot'[o].limits) /\ Uncounted(snapshot'[o])
             /\ pc'[o] = "storeLimits" => KeptLimited(request'[o].account) /\ Limited(document'[o])
  <2>1. CASE o = c
    BY <1>1, <1>2, <2>1
  <2>2. CASE o # c
    BY <1>1, <2>2 DEF InTransaction, CountersInv
  <2> QED
    BY <2>1, <2>2
<1> QED
  BY <1>1, <1>2, <1>3, RowsStand

\* What a PUT computes for a player who is limited is limited.
LEMMA ReadLimitsRows ==
  ASSUME IInv, CountersInv, AllSteady, NEW c \in Call, ReadLimits(c)
  PROVE  CountersInv'
<1> DEFINE a == request[c].account
<1>1. /\ pc'[c] = "storeLimits" /\ request' = request /\ db' = db
      /\ document'[c] = PutDocument(db.limits[a], request[c].limits, now)
      /\ \A o \in Call \ {c} : /\ pc'[o] = pc[o] /\ snapshot'[o] = snapshot[o]
                               /\ request'[o] = request[o] /\ document'[o] = document[o]
  BY DEF ReadLimits, Goto, IInv, TypeOK
<1>2. request[c] \in Requests \cap LimitsRequest
  BY RequestsAssumption DEF ReadLimits, IInv, CallInv, CallOK, SpinRequest, CashRequest, LimitsRequest
<1>3. a \in Account /\ request[c].limits \in LimitSet
  BY <1>2 DEF LimitsRequest
<1>4. KeptLimited(a) /\ request[c].limits # NoLimits
  BY <1>2, <1>3 DEF AllSteady, NeverLimited, KeptLimited
<1>5. db.limits[a] \in LimitsDocument /\ now \in Time
  BY <1>3 DEF IInv, TypeOK, Database
<1>6. Limited(db.limits[a])
  BY <1>3, <1>4 DEF CountersInv, LimitsKept
<1>7. Limited(document'[c])
  BY <1>1, <1>3, <1>4, <1>5, <1>6, PutKeepsLimited
<1> HIDE DEF a
<1>8. ASSUME NEW o \in Call
      PROVE  /\ InTransaction(o)' => LimitsKept(snapshot'[o].limits) /\ Uncounted(snapshot'[o])
             /\ pc'[o] = "storeLimits" => KeptLimited(request'[o].account) /\ Limited(document'[o])
  <2>1. CASE o = c
    BY <1>1, <1>4, <1>7, <2>1 DEF a, InTransaction
  <2>2. CASE o # c
    BY <1>1, <2>2 DEF InTransaction, CountersInv
  <2> QED
    BY <2>1, <2>2
<1>9. LimitsKept(db'.limits)
  BY <1>1 DEF CountersInv
<1> QED
  BY <1>1, <1>8, <1>9, RowsStand

\* And so is the document that is stored.
LEMMA StoreLimitsRows ==
  ASSUME IInv, CountersInv, NEW c \in Call, StoreLimits(c)
  PROVE  CountersInv'
<1> DEFINE a == request[c].account
<1>1. /\ pc[c] = "storeLimits" /\ pc'[c] = "done"
      /\ db' = [db EXCEPT !.limits[a] = document[c]]
      /\ \A o \in Call \ {c} : /\ pc'[o] = pc[o] /\ snapshot'[o] = snapshot[o]
                               /\ request'[o] = request[o] /\ document'[o] = document[o]
  BY DEF StoreLimits, Goto, Answer, IInv, TypeOK
<1>2. KeptLimited(a) /\ Limited(document[c])
  BY <1>1 DEF CountersInv
<1> HIDE DEF a
<1>3. db \in Database /\ db.limits \in [Account -> LimitsDocument]
  BY DEF IInv, TypeOK, Database
<1>4. db'.limits = [db.limits EXCEPT ![a] = document[c]] /\ db'.rounds = db.rounds /\ db'.usage = db.usage
  BY <1>1, <1>3 DEF Database
<1>5. LimitsKept(db'.limits)
  <2> SUFFICES ASSUME NEW b \in Account
               PROVE  IF KeptLimited(b) THEN Limited(db'.limits[b]) ELSE Unrestricted(db'.limits[b])
    BY DEF LimitsKept
  <2>1. IF KeptLimited(b) THEN Limited(db.limits[b]) ELSE Unrestricted(db.limits[b])
    BY DEF CountersInv, LimitsKept
  <2>2. CASE b = a
    BY <1>2, <1>3, <1>4, <2>2
  <2>3. CASE b # a
    BY <1>3, <1>4, <2>1, <2>3
  <2> QED
    BY <2>2, <2>3
<1>6. /\ \A o \in Call : InTransaction(o)' => LimitsKept(snapshot'[o].limits) /\ Uncounted(snapshot'[o])
      /\ \A o \in Call : pc'[o] = "storeLimits" => KeptLimited(request'[o].account) /\ Limited(document'[o])
  BY <1>1, CallsKeepLimits
<1> QED
  BY <1>4, <1>5, <1>6, RowsStand

\* Every other step leaves the limits and the counters alone.
LEMMA OtherRows ==
  ASSUME IInv, CountersInv, NEW c \in Call,
         \/ Arrive(c) \/ Ensure(c) \/ LookUp(c) \/ Recover(c) \/ Respond(c) \/ LoseCommitResult(c) \/ Crash(c)
         \/ \E win \in Wins : WriteConflict(c, win) \/ Rollback(c, win)
  PROVE  CountersInv'
<1>1. db'.rounds = db.rounds /\ db'.usage = db.usage /\ db'.limits = db.limits
  <2>1. CASE Ensure(c)
    BY <2>1 DEF Ensure, EnsurePlayer, WithPlayer
  <2>2. CASE ~Ensure(c)
    <3>1. db' = db
      BY <2>2 DEF Arrive, LookUp, Recover, Respond, LoseCommitResult, Crash, WriteConflict, Rollback
    <3> QED
      BY <3>1
  <2> QED
    BY <2>1, <2>2
<1>2. \A o \in Call \ {c} : /\ pc'[o] = pc[o] /\ snapshot'[o] = snapshot[o]
                            /\ request'[o] = request[o] /\ document'[o] = document[o]
  BY DEF Arrive, Ensure, LookUp, Recover, Respond, LoseCommitResult, Crash, WriteConflict, Rollback, Goto, Answer,
         EndTransaction, IInv, TypeOK
<1>3. pc'[c] \notin {"transaction", "storeLimits"}
  BY DEF Arrive, Ensure, LookUp, Recover, Respond, LoseCommitResult, Crash, WriteConflict, Rollback, Goto, Answer, IInv, TypeOK
<1>4. /\ \A o \in Call : InTransaction(o)' => LimitsKept(snapshot'[o].limits) /\ Uncounted(snapshot'[o])
      /\ \A o \in Call : pc'[o] = "storeLimits" => KeptLimited(request'[o].account) /\ Limited(document'[o])
  BY <1>2, <1>3, CallsKeepLimits
<1>5. LimitsKept(db'.limits)
  BY <1>1 DEF CountersInv
<1> QED
  BY <1>1, <1>4, <1>5, RowsStand

LEMMA CountersInit == AllSteady /\ Init => CountersInv
<1> SUFFICES ASSUME AllSteady, Init
             PROVE  CountersInv
  OBVIOUS
<1>1. PICK limits \in InitialLimits : db = EmptyDatabase(limits)
  BY DEF Init
<1>2. db.rounds = {} /\ db.usage = [u \in UsageKey |-> NoUsage] /\ db.limits = limits
  BY <1>1 DEF EmptyDatabase
<1>3. LimitsKept(db.limits)
  BY <1>2 DEF LimitsKept, AllSteady, KeptLimited, NeverLimited
<1>4. \A c \in Call : ~InTransaction(c) /\ pc[c] # "storeLimits"
  BY DEF Init, InTransaction
<1>5. ASSUME NEW a \in Account, NEW p \in Period, NEW key \in PeriodKeys
      PROVE  RowMatches(a, p, key)
  <2>1. db.usage[<<a, p, key>>] = NoUsage
    BY <1>2 DEF UsageKey
  <2>2. RoundsIn(db.rounds, a, p, key) = {}
    BY <1>2 DEF RoundsIn
  <2>3. Staked({}) = 0 /\ Won({}) = 0
    BY SumOfNone DEF Staked, Won
  <2> QED
    BY <2>1, <2>2, <2>3 DEF RowMatches, RowOf
<1> QED
  BY <1>2, <1>3, <1>4, <1>5, FS_EmptySet DEF CountersInv

LEMMA CountersStep == AllSteady /\ IInv /\ CountersInv /\ [Next]_vars => CountersInv'
<1> SUFFICES ASSUME AllSteady, IInv, CountersInv, [Next]_vars
             PROVE  CountersInv'
  OBVIOUS
<1>1. CASE Tick \/ UNCHANGED vars
  BY <1>1 DEF Tick, vars, CountersInv, RowMatches, InTransaction
<1>2. ASSUME NEW c \in Call, Arrive(c) \/ Step(c) \/ LoseCommitResult(c) \/ Crash(c)
      PROVE  CountersInv'
  <2>1. ASSUME NEW win \in Wins, Commit(c, win)
        PROVE  CountersInv'
    BY <2>1, SpinRows, CashRows
  <2>2. CASE Begin(c) \/ ReadLimits(c) \/ StoreLimits(c)
    BY <2>2, BeginRows, ReadLimitsRows, StoreLimitsRows
  <2>3. CASE \/ Arrive(c) \/ Ensure(c) \/ LookUp(c) \/ Recover(c) \/ Respond(c) \/ LoseCommitResult(c) \/ Crash(c)
             \/ \E win \in Wins : WriteConflict(c, win) \/ Rollback(c, win)
    BY <2>3, OtherRows
  <2> QED
    BY <1>2, <2>1, <2>2, <2>3 DEF Step
<1> QED
  BY <1>1, <1>2 DEF Next

\* rounds/limits.ts: for players who are limited from the start and never
\* without limits, or never limited at all, every counter is what the rounds of
\* its window staked and won, however the spins, their re-runs and the changes
\* of the limits interleave.  A player whose limits come or go within a window
\* is outside the theorem, and rightly so: the comment in the code does not
\* hold of him.
THEOREM CountersHoldTheRounds == AllSteady => (Spec => []CountersMatchRounds)
<1> SUFFICES ASSUME AllSteady
             PROVE  Spec => []CountersMatchRounds
  OBVIOUS
<1>1. Init => CountersInv
  BY CountersInit
<1>2. IInv /\ CountersInv /\ [Next]_vars => CountersInv'
  BY CountersStep
<1>3. CountersInv => CountersMatchRounds
  <2> SUFFICES ASSUME CountersInv, NEW a \in Account, NEW p \in Period, NEW t \in Time,
                      NEW key, key = PeriodKey[p][t], db.usage[<<a, p, key>>] # NoUsage
               PROVE  /\ db.usage[<<a, p, key>>].staked = Staked(RoundsIn(db.rounds, a, p, key))
                      /\ db.usage[<<a, p, key>>].won = Won(RoundsIn(db.rounds, a, p, key))
    BY DEF CountersMatchRounds
  <2>1. key \in PeriodKeys
    BY PeriodAssumption
  <2>2. RowMatches(a, p, key)
    BY <2>1 DEF CountersInv
  <2> QED
    BY <2>2 DEF RowMatches, RowOf
<1> QED
  BY <1>1, <1>2, <1>3, Invariance, PTL DEF Spec
=============================================================================
