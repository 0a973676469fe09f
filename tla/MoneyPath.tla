----------------------------- MODULE MoneyPath -----------------------------
(***************************************************************************)
(* Everything that moves a player's money outside a bonus: spins           *)
(* (game-backend/src/rounds/service.ts), the operator's cash-in and        *)
(* cash-out (integration-api/src/routes/wallet.ts), and the operator's     *)
(* change of the player's limits (integration-api/src/routes/limits.ts)    *)
(* that spins are held to.                                                 *)
(*                                                                         *)
(* A call is one HTTP request being served by some process of either       *)
(* service.  Calls share nothing but the database, and every await of the  *)
(* code is a point where other calls may run.  A client that retries is    *)
(* another call with the same request.                                     *)
(*                                                                         *)
(* A transaction is modelled as MongoDB runs it: its body sees a snapshot  *)
(* and its own writes, nothing of it is visible before it commits, and     *)
(* writing a document that somebody else wrote since the snapshot is a     *)
(* write conflict, upon which the driver runs the body again.              *)
(***************************************************************************)
EXTENDS RoundLimits

CONSTANTS
  Call,           \* requests being served; a spin's roundId is its call
  BetOptions,     \* gameDef.betOptions
  Wins,           \* what an evaluation may pay
  ClientKey,      \* clientRequestIds
  NoKey,          \* a spin without clientRequestId
  TransactionId,  \* transactionIds chosen by operators
  Requests,       \* the requests that arrive
  InitialLimits,  \* the playerLimits documents there may be at the start
  NoRequest, NoSnapshot, NoDocument, NoReply

SpinRequest ==
  [op : {"spin"}, account : Account, amount : Nat \ {0}, key : ClientKey \cup {NoKey}]
CashRequest ==
  [op : {"cashIn", "cashOut"}, account : Account, amount : Nat \ {0}, key : TransactionId]
LimitsRequest ==
  [op : {"putLimits"}, account : Account, limits : LimitSet]

RoundTransactionId == Call \X {"debit", "credit"}

ASSUME RequestsAssumption == Requests \subseteq SpinRequest \cup CashRequest \cup LimitsRequest
ASSUME WinsAssumption == Wins \subseteq Nat /\ Wins # {}
ASSUME KeysAssumption ==
  /\ NoKey \notin ClientKey
  /\ TransactionId \cap RoundTransactionId = {}
  /\ NoRound \notin Call
ASSUME InitialLimitsAssumption == InitialLimits \subseteq [Account -> LimitsDocument]

VARIABLES
  db,        \* the committed database
  now,       \* the clock, the same for all processes
  pc,        \* where each call is
  request,   \* what it was asked
  at,        \* the clock reading of its round
  snapshot,  \* what its open transaction sees
  stale,     \* the documents written by others since that snapshot
  document,  \* the playerLimits document it is about to store
  reply      \* what it answered, or is about to once its transaction has committed

vars == <<db, now, pc, request, at, snapshot, stale, document, reply>>

-----------------------------------------------------------------------------
(* The database.                                                           *)

RoundDoc(a, key) == <<"rounds", a, key>>
LimitsDoc(a) == <<"playerLimits", a>>

HasRound(d, a, key) == key # NoKey /\ \E r \in d.rounds : r.account = a /\ r.key = key
RoundOf(d, a, key) == CHOOSE r \in d.rounds : r.account = a /\ r.key = key

EmptyDatabase(limits) ==
  [players |-> {}, balance |-> [a \in Account |-> 0], transactions |-> {},
   rounds |-> {}, usage |-> [u \in UsageKey |-> NoUsage], limits |-> limits]

\* What is committed of a transaction: the documents it wrote.  Movements and
\* rounds are only ever inserted.
Install(view, wrote) ==
  [players      |-> {a \in Account : IF PlayerDoc(a) \in wrote THEN a \in view.players ELSE a \in db.players},
   balance      |-> [a \in Account |-> IF PlayerDoc(a) \in wrote THEN view.balance[a] ELSE db.balance[a]],
   transactions |-> db.transactions \cup view.transactions,
   rounds       |-> db.rounds \cup view.rounds,
   usage        |-> [u \in UsageKey |-> IF UsageDoc(u) \in wrote THEN view.usage[u] ELSE db.usage[u]],
   limits       |-> db.limits]

\* Mutant: a write outside the session, which no transaction conflicts with.
InvalidateNothing(c, docs) == stale' = [stale EXCEPT ![c] = {}]

\* Every other open transaction will conflict if it writes one of these.
Invalidate(c, docs) ==
  stale' = [o \in Call |-> IF o # c /\ pc[o] = "transaction" THEN stale[o] \cup docs
                           ELSE IF o = c THEN {} ELSE stale[o]]

-----------------------------------------------------------------------------
(* The bodies of the transactions.                                         *)

\* Mutant: the round stores the net result as its win.
NetRound(c, t, win) ==
  [id |-> c, account |-> request[c].account, key |-> request[c].key,
   bet |-> request[c].amount, win |-> win - request[c].amount, at |-> t]

NewRound(c, t, win) ==
  [id |-> c, account |-> request[c].account, key |-> request[c].key,
   bet |-> request[c].amount, win |-> win, at |-> t]

\* Mutant: the duplicate key error is swallowed and the movements stay.
InsertRoundOrNothing(x, r) ==
  IF Failed(x) \/ HasRound(x.db, r.account, r.key) THEN x
  ELSE Write(x, [x.db EXCEPT !.rounds = @ \cup {r}],
             IF r.key = NoKey THEN {} ELSE {RoundDoc(r.account, r.key)})

\* Mutant: there is no unique index on clientRequestId.
InsertRoundAnyway(x, r) ==
  IF Failed(x) THEN x ELSE Write(x, [x.db EXCEPT !.rounds = @ \cup {r}], {})

\* The unique index on (operatorId, playerId, clientRequestId) is partial:
\* rounds without a clientRequestId never collide.
InsertRound(x, r) ==
  IF Failed(x) THEN x
  ELSE IF HasRound(x.db, r.account, r.key) THEN Throw(x, "duplicate_key")
  ELSE Write(x, [x.db EXCEPT !.rounds = @ \cup {r}],
             IF r.key = NoKey THEN {} ELSE {RoundDoc(r.account, r.key)})

SpinBody(x, c, win) ==
  LET a        == request[c].account
      bet      == request[c].amount
      staked   == StakeAgainstLimits(x, a, bet, at[c])
      debited  == ApplyLedgerOp(staked, "debit", a, <<c, "debit">>, bet, c)
      credited == IF win = 0 THEN debited
                  ELSE RecordWinAgainstLimits(
                         ApplyLedgerOp(debited, "credit", a, <<c, "credit">>, win, c), a, win, at[c])
  IN  InsertRound(credited, NewRound(c, at[c], win))

CashBody(x, c) ==
  ApplyLedgerOp(x, IF request[c].op = "cashIn" THEN "credit" ELSE "debit",
                request[c].account, request[c].key, request[c].amount, NoRound)

\* What the transaction of call c comes to, on its snapshot.
Outcome(c, win) ==
  LET x == [db |-> snapshot[c], wrote |-> {}, error |-> NoError] IN
  IF request[c].op = "spin" THEN SpinBody(x, c, win) ELSE CashBody(x, c)

-----------------------------------------------------------------------------
(* Steps every call takes.                                                 *)

Goto(c, label) == pc' = [pc EXCEPT ![c] = label]

Answer(c, outcome, round) ==
  /\ Goto(c, "done")
  /\ reply' = [reply EXCEPT ![c] = [outcome |-> outcome, round |-> round]]

\* A bet that is not on the game's list is refused before a player is touched.
Arrive(c) ==
  /\ pc[c] = "idle"
  /\ \E r \in Requests :
       /\ request' = [request EXCEPT ![c] = r]
       /\ \/ /\ r.op = "spin"
             /\ r.amount \in BetOptions
             /\ Goto(c, "ensure")
             /\ UNCHANGED reply
          \/ /\ r.op = "spin"
             /\ r.amount \notin BetOptions
             /\ Answer(c, "invalid_bet", NoRound)
          \/ /\ r.op \in {"cashIn", "cashOut"}
             /\ Goto(c, "begin")
             /\ UNCHANGED reply
          \/ /\ r.op = "putLimits"
             /\ Goto(c, "readLimits")
             /\ UNCHANGED reply
  /\ UNCHANGED <<db, now, at, snapshot, stale, document>>

\* await ensurePlayer
Ensure(c) ==
  LET a == request[c].account IN
  /\ pc[c] = "ensure"
  /\ db' = EnsurePlayer(db, a)
  /\ Invalidate(c, IF a \in db.players THEN {} ELSE {PlayerDoc(a)})
  /\ Goto(c, IF request[c].key = NoKey THEN "begin" ELSE "lookup")
  /\ UNCHANGED <<now, request, at, snapshot, document, reply>>

\* The fast path of a retry: the round that is there already.
LookUp(c) ==
  LET a == request[c].account
      key == request[c].key
  IN
  /\ pc[c] = "lookup"
  /\ \/ /\ HasRound(db, a, key)
        /\ Answer(c, "replayed", RoundOf(db, a, key).id)
     \/ /\ ~HasRound(db, a, key)
        /\ Goto(c, "begin")
        /\ UNCHANGED reply
  /\ UNCHANGED <<db, now, request, at, snapshot, stale, document>>

-----------------------------------------------------------------------------
(* withLedgerTransaction.                                                  *)

Begin(c) ==
  /\ pc[c] = "begin"
  /\ at' = [at EXCEPT ![c] = now]
  /\ snapshot' = [snapshot EXCEPT ![c] = db]
  /\ stale' = [stale EXCEPT ![c] = {}]
  /\ Goto(c, "transaction")
  /\ UNCHANGED <<db, now, request, document, reply>>

EndTransaction(c) ==
  /\ at' = [at EXCEPT ![c] = 0]
  /\ snapshot' = [snapshot EXCEPT ![c] = NoSnapshot]

\* The driver aborts and runs the body again.
WriteConflict(c, win) ==
  /\ pc[c] = "transaction"
  /\ Outcome(c, win).wrote \cap stale[c] # {}
  /\ EndTransaction(c)
  /\ stale' = [stale EXCEPT ![c] = {}]
  /\ Goto(c, "begin")
  /\ UNCHANGED <<db, now, request, document, reply>>

\* Mutant: any error is taken for a transient one and the body run again.
RollbackAndRetry(c, win) ==
  /\ pc[c] = "transaction"
  /\ Outcome(c, win).error # NoError
  /\ EndTransaction(c)
  /\ stale' = [stale EXCEPT ![c] = {}]
  /\ Goto(c, "begin")
  /\ UNCHANGED <<db, now, request, document, reply>>

\* The body threw: everything is rolled back.  Only a duplicate key of a spin
\* with a clientRequestId is recovered from.
Rollback(c, win) ==
  LET error == Outcome(c, win).error IN
  /\ pc[c] = "transaction"
  /\ Outcome(c, win).wrote \cap stale[c] = {}
  /\ error # NoError
  /\ EndTransaction(c)
  /\ stale' = [stale EXCEPT ![c] = {}]
  /\ IF error = "duplicate_key" /\ request[c].key # NoKey
     THEN Goto(c, "recover") /\ UNCHANGED reply
     ELSE Answer(c, error, NoRound)
  /\ UNCHANGED <<db, now, request, document>>

\* What the body returned, for the handler to send.
Keep(c, outcome, round) == reply' = [reply EXCEPT ![c] = [outcome |-> outcome, round |-> round]]

\* The server commits; the process serving the call has yet to hear of it.
Commit(c, win) ==
  LET x == Outcome(c, win) IN
  /\ pc[c] = "transaction"
  /\ x.wrote \cap stale[c] = {}
  /\ x.error = NoError
  /\ db' = Install(x.db, x.wrote)
  /\ Invalidate(c, x.wrote)
  /\ EndTransaction(c)
  /\ Goto(c, "committed")
  /\ IF request[c].op = "spin" THEN Keep(c, "resolved", c)
     ELSE Keep(c, IF x.wrote = {} THEN "already_processed" ELSE "processed", NoRound)
  /\ UNCHANGED <<now, request, document>>

\* withTransaction has resolved: the result of the body is answered.
Respond(c) ==
  /\ pc[c] = "committed"
  /\ Goto(c, "done")
  /\ UNCHANGED <<db, now, request, at, snapshot, stale, document, reply>>

\* The driver never learns what became of the commit and gives up:
\* withTransaction rejects, and the caller is told of an error.
LoseCommitResult(c) ==
  /\ pc[c] = "committed"
  /\ Answer(c, "failed", NoRound)
  /\ UNCHANGED <<db, now, request, at, snapshot, stale, document>>

\* Mutant: the loser of the race answers with the round it rolled back.
RecoverOwnRound(c) ==
  /\ pc[c] = "recover"
  /\ Answer(c, "resolved", c)
  /\ UNCHANGED <<db, now, request, at, snapshot, stale, document>>

\* The loser of the race for a clientRequestId answers with the winner.
Recover(c) ==
  LET a == request[c].account
      key == request[c].key
  IN
  /\ pc[c] = "recover"
  /\ IF HasRound(db, a, key)
     THEN Answer(c, "replayed", RoundOf(db, a, key).id)
     ELSE Answer(c, "duplicate_key", NoRound)
  /\ UNCHANGED <<db, now, request, at, snapshot, stale, document>>

-----------------------------------------------------------------------------
(* PUT /v1/players/limits: a read, then an unconditional replacement.      *)

ReadLimits(c) ==
  /\ pc[c] = "readLimits"
  /\ document' = [document EXCEPT ![c] =
                    PutDocument(db.limits[request[c].account], request[c].limits, now)]
  /\ Goto(c, "storeLimits")
  /\ UNCHANGED <<db, now, request, at, snapshot, stale, reply>>

StoreLimits(c) ==
  LET a == request[c].account IN
  /\ pc[c] = "storeLimits"
  /\ db' = [db EXCEPT !.limits[a] = document[c]]
  /\ Invalidate(c, {LimitsDoc(a)})
  /\ document' = [document EXCEPT ![c] = NoDocument]
  /\ Answer(c, "stored", NoRound)
  /\ UNCHANGED <<now, request, at, snapshot>>

-----------------------------------------------------------------------------
(* The environment.                                                        *)

\* The process serving the call dies; the server aborts its transaction if
\* it has not committed.
Crash(c) ==
  /\ pc[c] \notin {"idle", "done", "crashed"}
  /\ Goto(c, "crashed")
  /\ EndTransaction(c)
  /\ stale' = [stale EXCEPT ![c] = {}]
  /\ document' = [document EXCEPT ![c] = NoDocument]
  /\ reply' = [reply EXCEPT ![c] = NoReply]
  /\ UNCHANGED <<db, now, request>>

Tick ==
  /\ now < MaxTime
  /\ now' = now + 1
  /\ UNCHANGED <<db, pc, request, at, snapshot, stale, document, reply>>

-----------------------------------------------------------------------------
Init ==
  /\ \E limits \in InitialLimits : db = EmptyDatabase(limits)
  /\ now = 0
  /\ pc = [c \in Call |-> "idle"]
  /\ request = [c \in Call |-> NoRequest]
  /\ at = [c \in Call |-> 0]
  /\ snapshot = [c \in Call |-> NoSnapshot]
  /\ stale = [c \in Call |-> {}]
  /\ document = [c \in Call |-> NoDocument]
  /\ reply = [c \in Call |-> NoReply]

\* What the process serving c does next by itself.
Step(c) ==
  \/ Ensure(c) \/ LookUp(c) \/ Begin(c) \/ Recover(c)
  \/ \E win \in Wins : WriteConflict(c, win) \/ Rollback(c, win) \/ Commit(c, win)
  \/ Respond(c) \/ ReadLimits(c) \/ StoreLimits(c)

Next ==
  \/ \E c \in Call : Arrive(c) \/ Step(c) \/ LoseCommitResult(c) \/ Crash(c)
  \/ Tick

\* A request being served is worked on until it is answered or its process
\* dies; nothing makes a request arrive, a process die or a spin win.
Fairness == \A c \in Call : WF_vars(Step(c))

Spec == Init /\ [][Next]_vars
FairSpec == Spec /\ Fairness

-----------------------------------------------------------------------------
(* Types.                                                                  *)

MovementRow ==
  [type : {"debit", "credit"}, account : Account, id : TransactionId \cup RoundTransactionId,
   amount : Nat \ {0}, round : Call \cup {NoRound}]

RoundRow ==
  [id : Call, account : Account, key : ClientKey \cup {NoKey}, bet : Nat \ {0}, win : Wins, at : Time]

Database ==
  [players : SUBSET Account, balance : [Account -> Int], transactions : SUBSET MovementRow,
   rounds : SUBSET RoundRow, usage : [UsageKey -> UsageRow \cup {NoUsage}],
   limits : [Account -> LimitsDocument]]

Documents ==
  {PlayerDoc(a) : a \in Account} \cup {LimitsDoc(a) : a \in Account}
  \cup {UsageDoc(u) : u \in UsageKey}
  \cup {TransactionDoc(a, id) : a \in Account, id \in TransactionId \cup RoundTransactionId}
  \cup {RoundDoc(a, key) : a \in Account, key \in ClientKey}

Label == {"idle", "ensure", "lookup", "begin", "transaction", "committed", "recover",
          "readLimits", "storeLimits", "done", "crashed"}

Replies ==
  [outcome : {"invalid_bet", "insufficient_funds", "limit_exceeded", "duplicate_key", "resolved",
              "replayed", "processed", "already_processed", "stored", "failed"},
   round : Call \cup {NoRound}]

\* Every variable has its type: in particular every document a call works on
\* is a whole document of the collection it came from.
TypeOK ==
  /\ db \in Database
  /\ now \in Time
  /\ pc \in [Call -> Label]
  /\ request \in [Call -> Requests \cup {NoRequest}]
  /\ at \in [Call -> Time]
  /\ snapshot \in [Call -> Database \cup {NoSnapshot}]
  /\ stale \in [Call -> SUBSET Documents]
  /\ document \in [Call -> LimitsDocument \cup {NoDocument}]
  /\ reply \in [Call -> Replies \cup {NoReply}]

-----------------------------------------------------------------------------
(* Safety.                                                                 *)

\* No interleaving of bets and cash-outs takes more than the account holds
\* (the funds check of applyLedgerOp reads a balance that may be old by the
\* time the transaction commits).
NonNegativeBalance == \A a \in Account : db.balance[a] >= 0

MovementsOf(r) ==
  {Movement("debit", r.account, <<r.id, "debit">>, r.bet, r.id)} \cup
  (IF r.win > 0 THEN {Movement("credit", r.account, <<r.id, "credit">>, r.win, r.id)} ELSE {})

\* spinRound: money never leaves a balance for a round that does not exist,
\* no round exists unpaid for, and its win is paid with it.
RoundsMatchMovements ==
  {m \in db.transactions : m.round # NoRound} = UNION {MovementsOf(r) : r \in db.rounds}

\* A clientRequestId is played at most once and an operator's transactionId
\* is applied at most once, however often and from wherever they are retried.
ExactlyOnce ==
  /\ \A r1, r2 \in db.rounds :
       r1.account = r2.account /\ r1.key = r2.key /\ r1.key # NoKey => r1 = r2
  /\ \A m1, m2 \in db.transactions :
       OperatorOf[m1.account] = OperatorOf[m2.account] /\ m1.id = m2.id => m1 = m2

Answered(c, outcomes) == pc[c] = "done" /\ reply[c].outcome \in outcomes

\* Two calls that carry the same clientRequestId and are both answered with a
\* round are answered with the same round.
SameRequestSameRound ==
  \A c1, c2 \in Call :
    /\ Answered(c1, {"resolved", "replayed"})
    /\ Answered(c2, {"resolved", "replayed"})
    /\ request[c1].account = request[c2].account
    /\ request[c1].key = request[c2].key
    /\ request[c1].key # NoKey
    => reply[c1].round = reply[c2].round

\* What a caller is told is so.  A spin refused or answered with another's
\* round has played nothing of its own: only one that is told so, that hears
\* of a failure after the commit, or that is never answered may have played.
\* And the round a spin is answered with is committed and is its own exactly
\* if it is told that it was played; a replay is of the round played for its
\* own player and clientRequestId, so a lost answer is found by asking again.
AnswersMatchRounds ==
  \A c \in Call :
    /\ (\E r \in db.rounds : r.id = c) =>
         pc[c] \in {"committed", "crashed"} \/ Answered(c, {"resolved", "failed"})
    /\ Answered(c, {"resolved", "replayed"}) =>
         \E r \in db.rounds :
           /\ r.id = reply[c].round
           /\ r.account = request[c].account /\ r.key = request[c].key
           /\ r.id = c <=> reply[c].outcome = "resolved"

\* The step in which a spin commits.
Resolves(c) == pc[c] = "transaction" /\ pc'[c] = "committed" /\ request[c].op = "spin"

UsageIn(d, a, p, t) == RowOf(d.usage[CurrentKey(a, p, t)])

\* A spin that commits leaves the counters, as they are when it commits,
\* within every ceiling it was held to: no two spins pass the same ceiling.
StakesWithinLimits ==
  [][\A c \in Call : Resolves(c) =>
       LET a      == request[c].account
           limits == EffectiveLimits(snapshot[c].limits[a], at[c])
       IN  \A p \in Period :
             /\ limits[p]["maxStake"] # Unlimited =>
                  UsageIn(db', a, p, at[c]).staked <= limits[p]["maxStake"]
             /\ limits[p]["maxLoss"] # Unlimited =>
                  UsageIn(db, a, p, at[c]).staked + request[c].amount - UsageIn(db, a, p, at[c]).won
                    <= limits[p]["maxLoss"]]_vars

\* service.ts on two concurrent spins with one clientRequestId: the right
\* response to the loser is the round that won, not an error.
LoserGetsTheWinner ==
  [][\A c \in Call :
       pc[c] # "done" /\ Answered(c, {"insufficient_funds", "limit_exceeded", "duplicate_key"})'
         /\ request[c].op = "spin"
       => ~HasRound(db, request[c].account, request[c].key)]_vars

\* README: a loosening waits.  Nothing but the passage of time gives a player
\* a higher ceiling than the one in force.
LooseningWaits ==
  [][\A a \in Account :
       now' = now =>
         Loosenings(EffectiveLimits(db.limits[a], now), EffectiveLimits(db'.limits[a], now)) = {}]_vars

-----------------------------------------------------------------------------
(* Liveness.                                                               *)

\* Every call that arrives is answered unless its process dies: write
\* conflicts make calls retry, but never for ever.
EveryCallAnswered ==
  \A c \in Call : pc[c] # "idle" ~> pc[c] \in {"done", "crashed"}

-----------------------------------------------------------------------------
(* The money path implements the abstract wallet.                          *)

RoundKey(r) == IF r.key = NoKey THEN <<"round", r.id>> ELSE <<"request", r.account, r.key>>

RoundOperation(r) ==
  [account |-> r.account, key |-> RoundKey(r), takes |-> r.bet, gives |-> r.win]

CashOperation(m) ==
  [account |-> m.account, key |-> <<"cash", OperatorOf[m.account], m.id>>,
   takes |-> IF m.type = "debit" THEN m.amount ELSE 0,
   gives |-> IF m.type = "credit" THEN m.amount ELSE 0]

CashMovements == {m \in db.transactions : m.round = NoRound}

Settled == {RoundOperation(r) : r \in db.rounds} \cup {CashOperation(m) : m \in CashMovements}

SpinOperations ==
  {RoundOperation([id |-> c, account |-> r.account, key |-> r.key, bet |-> r.amount, win |-> win, at |-> 0]) :
     c \in Call, win \in Wins, r \in Requests \cap SpinRequest}

CashOperations ==
  {CashOperation(Movement(IF r.op = "cashIn" THEN "credit" ELSE "debit", r.account, r.key, r.amount, NoRound)) :
     r \in Requests \cap CashRequest}

AbstractWallet ==
  INSTANCE Wallet WITH opened <- db.players, balance <- db.balance, settled <- Settled,
                       Operation <- SpinOperations \cup CashOperations

\* Every behaviour of the money path is one of the abstract wallet: each
\* operation settles in one step, once, and never beyond the balance.
ImplementsWallet == AbstractWallet!Spec
=============================================================================
