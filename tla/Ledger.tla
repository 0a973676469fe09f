------------------------------- MODULE Ledger -------------------------------
(***************************************************************************)
(* packages/ledger: balances and the append-only list of money movements.  *)
(*                                                                         *)
(* Every operation is applied inside a transaction somebody else opened.   *)
(* The context x of an open transaction is a record: x.db is the database  *)
(* as this transaction sees it (its snapshot and its own writes), x.wrote  *)
(* the documents it wrote, x.error the exception thrown so far.  Once      *)
(* something is thrown the rest of the body does not run, so each          *)
(* operation leaves a failed context alone.                                *)
(***************************************************************************)
EXTENDS Integers

CONSTANTS
  Account,         \* (operatorId, playerId) pairs
  OperatorOf,      \* the operator of an account
  InitialBalance,  \* INITIAL_PLAYER_BALANCE
  NoRound          \* the roundId of a movement that belongs to no round

ASSUME InitialBalanceAssumption == InitialBalance \in Nat

NoError == "none"
Failed(x) == x.error # NoError
Throw(x, error) == [x EXCEPT !.error = error]
Write(x, d, docs) == [db |-> d, wrote |-> x.wrote \cup docs, error |-> x.error]

\* The document of a player, and the slot of the unique index on
\* (operatorId, transactionId).
PlayerDoc(a) == <<"players", a>>
TransactionDoc(a, id) == <<"transactions", OperatorOf[a], id>>

\* Mutant: the index on transactionId is per player.
PlayerHasTransaction(d, a, id) == \E row \in d.transactions : row.account = a /\ row.id = id

HasTransaction(d, a, id) ==
  \E row \in d.transactions : OperatorOf[row.account] = OperatorOf[a] /\ row.id = id

\* Mutant: the player exists, whatever the balance.
CanPayAnything(d, a, amount) == a \in d.players

CanPay(d, a, amount) == a \in d.players /\ d.balance[a] >= amount

Movement(type, a, id, amount, round) ==
  [type |-> type, account |-> a, id |-> id, amount |-> amount, round |-> round]

Delta(type, amount) == IF type = "debit" THEN -amount ELSE amount

-----------------------------------------------------------------------------
\* The database with account a there and holding amount, and these movements.
WithPlayer(d, a, amount, transactions) ==
  [players |-> d.players \cup {a}, balance |-> [d.balance EXCEPT ![a] = amount],
   transactions |-> transactions,
   rounds |-> d.rounds, usage |-> d.usage, limits |-> d.limits]

\* Mutant: $set where $setOnInsert is meant.
ResetPlayer(d, a) == WithPlayer(d, a, InitialBalance, d.transactions)

\* Outside any transaction: the player exists afterwards, an existing balance
\* is left alone ($setOnInsert).
EnsurePlayer(d, a) ==
  IF a \in d.players THEN d
  ELSE WithPlayer(d, a, InitialBalance, d.transactions)

\* The database after a new movement.  Only a credit gets here for a player
\* that does not exist, and its upsert starts from nothing.
Moved(d, type, a, id, amount, round) ==
  WithPlayer(d, a, d.balance[a] + Delta(type, amount),
             d.transactions \cup {Movement(type, a, id, amount, round)})

\* A known transactionId changes nothing; a debit needs a player who can pay.
ApplyLedgerOp(x, type, a, id, amount, round) ==
  IF Failed(x) \/ HasTransaction(x.db, a, id) THEN x
  ELSE IF type = "debit" /\ ~CanPay(x.db, a, amount) THEN Throw(x, "insufficient_funds")
  ELSE Write(x, Moved(x.db, type, a, id, amount, round), {PlayerDoc(a), TransactionDoc(a, id)})
=============================================================================
