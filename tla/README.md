# SlotsEngine: models, checks and proofs

This directory models SlotsEngine in TLA+: the money path and the bonus rounds, the services'
calls on the shared database, a player's page and its socket, the rules of a game, and the
backoffice in a browser. TLC model-checks the models on small instances. TLAPS proves the safety
properties of the money path, of the bonus rounds, of the services' calls on the shared database,
of a page with its socket and of the backoffice page for every value of the constants.
`PROJECT.json` lists components, runs, mutants, the source lines each definition stands for,
hazards, findings and theorems.

    tlc -config MoneyPath_money.cfg MCMoneyPath      # one run; the list is in section 4
    tlapm MoneyPathProofs.tla                        # the proofs

## 1. Inventory

SlotsEngine is a TypeScript monorepo over one MongoDB replica set. Services are stateless:
everything that survives a request is in the database, and several instances of a service may
run. Concurrency is therefore between requests (each `await` is an interleaving point) and,
in `game-socket` and the browser client, between messages of one connection.

| Component | State | Operations | Interacts with | What makes it correct |
|---|---|---|---|---|
| `packages/ledger` | `players.balance`, `transactions` | debit, credit, ensurePlayer, in a transaction | called by rounds, bonus, wallet routes | a balance is explained by its movements, never negative; an id is applied once |
| `game-backend` rounds | `rounds`, `playerLimitUsage` | spin, recover | ledger, player-limits, math-engine | stake, win, counters and round commit together; one round per clientRequestId |
| `packages/player-limits` | none (pure) | decideBet, diffLimits, effectiveLimits, periodKey | rounds, integration-api | no stake passes a ceiling; a loosening waits, a tightening does not |
| `integration-api` wallet, limits | `playerLimits` | cash-in, cash-out, put limits | ledger, player-limits | idempotent under the operator's transactionId |
| `game-backend` bonus | `bonusSessions` | start, step, sweep | ledger, bonus modules | a triggering spin pays at most once, the amount recorded, and its round ends |
| `math-engine` bonus modules | none (pure) | start, step of wheel, pick, freeSpins | bonus | the seed and the version loaded decide everything; rounds are finite |
| `math-engine` evaluation | none (pure) | matrix, wilds, paylines, scatters, trigger | rounds, simulation | agrees with its definition on every matrix |
| `math-engine` simulation, `rng` | none | RTP estimation, generators, tests | publish gate | statistics |
| `game-socket` | a session per connection | JOIN, SPIN, BONUS_STEP, ROUND_RECOVER, close | game-backend over HTTP | identity never from the message; the bonus a spin triggered is reachable |
| `game-frontend` | phase, autoplay, panel, reels | server messages, frames, timers, clicks | game-socket | no second spin while one is in flight; bonuses are finished first; every spin ends |
| `backoffice-api` games | `gameDrafts`, `gameVersions`, `games`, stored artwork | create, save, upload, clear, publish, delete, seed | math-engine simulation | a live game is a snapshot that passed the gate; versions are consecutive |
| `backoffice-api` users, login | `users`, `loginAttempts`, session tokens | login, lockout, logout, role changes, first boot | audit | a super admin remains; a revoked session stays so; locks hold |
| `backoffice-api` reports, operators, audit | `operators`, append-only log, queries | create, change, rotate, page, export | ledger | paging neither skips nor repeats; one secret at a time |
| `integration-api` auth, `launch-token` | `usedRequestSignatures`, `usedLaunchTokens` (both with a TTL) | verify, launch, consume | game-socket | a signature is served once, a token opens one session |
| `backoffice-frontend` | route, session, screen, calls in flight | edits, delayed saves, pages of a report, toggles | backoffice-api | an edit is not lost; what is shown is what is stored |
| `rate-limit-store` | counters in Redis or in memory | hit | all services | a window admits its budget |
| `mongo-schemas`, `shared-types`, `asset-storage` | indexes, types, keys | - | all | the indexes the idempotency rests on |
| `secrets`, `service-auth`, `logging`, `operator-demo` | configuration, I/O, forms | - | - | outside what a state machine adds to |

The hard behaviours: transactions that conflict and are run again; retries under an idempotency
key while the first attempt is still running; reads before a transaction used inside it; crashes
between two writes that are not in one transaction; counters in calendar windows; deadlines that
pass while a step is being worked on; counts and roles read before the update that they allow;
records with a TTL that a lock or a nonce relies on; handlers of one connection that overtake one
another; answers that reach a page that has moved on. Each is listed in `PROJECT.json` under `hazards` with the
line where it bites.

## 2. Modules

| Module | Models | State |
|---|---|---|
| `PlayerLimits` | `packages/player-limits`: ceilings, loosenings, pending changes, the bet decision; the document `PUT /v1/players/limits` builds | pure |
| `Ledger` | `packages/ledger`: movements, balances, ensurePlayer, as functions of a transaction context (a database view, the documents written, the error thrown) | pure |
| `RoundLimits` | `rounds/limits.ts`: staking against the counters and recording wins, on the same context | pure |
| `MoneyPath` | the calls of `spinRound`, the wallet routes and the limits route, over a shared database | `db`, per call `pc`, `request`, `snapshot`, `stale`, `at`, `document`, `reply`, and the clock `now` |
| `MoneyPathTotals` | the properties of the money path that sum over the ledger | - |
| `Sums` | the sum of a function over a finite set | pure |
| `Wallet` | what the money path promises, abstractly: an operation settles in one step, once, within the balance | `opened`, `balance`, `settled` |
| `BonusModules` | the wheel, pick and freeSpins modules | pure |
| `BonusSession` | `bonus/session.ts`: starting, stepping and sweeping bonus rounds | `sessions`, `credits`, `live`, per call `pc`, `request`, `loaded`, `seen`, `row`, `reply`, and `now` |
| `BonusSessionTotals` | what a bonus round may pay, a sum over its seed | - |
| `ApiCalls` | an HTTP request in service: arrival, audit write, crash, clock, and the history of which calls overlapped | `situation`, `now`, per call `pc`, `request`, `session`, `seen`, `reply`, `during`, and `audit` |
| `BackofficeAccounts` | login and its throttle, sessions and their revocation, the session hook, user administration | `users`, `tokens`, `attempts`, `failures` (history) |
| `GamePublishing` | drafts, uploads, publish, delete, seed, and the spin that reads a live game | `drafts`, `versions`, `live`, `bucket`, `played` |
| `OperatorAccess` | operators and secrets, signed requests, launch tokens | `operators`, `signatures`, `launches`, `usedTokens`, and the histories `accepted`, `joined` |
| `Platform` | the three composed over one set of calls | theirs |
| `PlayWire` | the connections of a player's pages | `page`, `link`, `socket`, `toServer`, `toClient`, `situation` |
| `SocketSession` | `game-socket`: the sessions and the concurrent handlers, with game-backend as what it answers | `sessions`, `handler`, `usedTokens`, `balance`, `bonuses`, `overtaken` (history) |
| `GameClient` | the page: `main.ts`, the state machine, autoplay, the bonus panel, the reels' callbacks | `spins`, `ui` |
| `Play` | page and socket composed | theirs |
| `SlotMath` | `math-engine/src/engine`: matrix, wilds, lines, scatters, triggers | pure |
| `DraftRules` | `validateDraft`, the gate | pure |
| `DraftEditors` | the builder's controls: what each makes of a draft | pure |
| `ConsoleCalls` | the browser's calls to backoffice-api, roles, failures, sessions | `situation`, `acts`, `route`, `session`, `screen`, `mounts`, `sessions`, `calls`, `issued` |
| `GameBuilder` | list and builder screens, the delayed save, and how their calls are served | `stored`, `live`, `kept` (history) |
| `MoneyReports` | reports, export and support screens and the queries behind them | `transactions` |
| `OperatorDesk` | operators, users and audit screens and their calls | `desk`, and the histories `promises`, `overtaken` |
| `Console` | `App`: routes and sessions over the screens | theirs |
| `MCMoneyPath`, `MCBonusSession`, `MCPlatform`, `MCPlay`, `MCConsole` | the instances TLC checks | - |
| `SumsProofs` | what `Sums` computes: the lemmas about adding an element, or a value | - |
| `MoneyPathProofs` | the theorems about the money path: its states, its steps with the refinement of `Wallet`, its totals | - |
| `BonusSessionProofs` | the theorems about bonus rounds | - |
| `PlatformProofs`, `PublishingProofs`, `AccountProofs` | the theorems about calls in general, sessions and operators; about games; about users and the throttle | - |
| `PlayProofs` | the theorems about a page and its socket | - |
| `ConsoleProofs` | the theorems about the backoffice page: its calls, its desks, the edits of a draft, the reports | - |

**MoneyPath.** A call is a request in service; `pc` names the `await` it is at, so each action
is the code between two awaits that touch shared state. A transaction is modelled as MongoDB runs
it. `Begin` takes a snapshot. `Outcome` computes the whole body on it: the stake against the
limits, the debit, the credit, the recorded win and the insertion of the round, in the code's
order, each carrying on the error of the one before. `Commit` installs what it wrote if nobody
else wrote one of those documents since the snapshot (`stale`); the process hears of it later
(`Respond`), or never: it dies (`Crash`), or the driver gives up on an unknown commit result and the
caller hears of a failure (`LoseCommitResult`). `WriteConflict` runs the body
again, as `withTransaction` does; `Rollback` is a body that threw, and `Recover` the search for
the round that won when the error was a duplicate key. A document is what conflicts are about,
and a slot of a unique index is one too. `ensurePlayer`, the retry look-up and both halves of
`PUT /v1/players/limits` run outside a transaction and are actions of their own. A spin's result
is any element of `Wins`; the re-run of a body draws again, as the code does.

**BonusSession.** The step claims its index (`Claim`, a `findOneAndUpdate`) and writes its
result (`Write`, a transaction) in two actions, because the code does. Each transaction is one
action here: it starts by writing the session row or its slot in the unique index on `roundId`,
and what it writes does not depend on what it read in it, so a conflicting transaction that is
run again does what it would have done at its commit. `Sweep` is the interval in every process,
`Crash` the death of a process between two actions. A seed stands for everything that is drawn
from it (the wheel's segment, the whole board, the outcome of each free spin on each version of the
game), which is how `deriveStepRng` and `spinSeed` use it. Every call loads the live version first
(`Arrive` sets `loaded`: until then it has done nothing) and keeps it to its end, while `Publish` may
put the next version live: the session does not store the version it began on, so the spins of one
round are played on the parameters of the version each step loaded, also of one already replaced.
Wheel and pick draw everything at the start. A session's identifier is the call that opened it.

Left out of both: the wording of errors, the view sent to the client, archival after two years,
the parsing of module parameters (a version gives the freeSpins ones `config` returns), the calendar arithmetic of `periods.ts` (a constant function
from clock readings to windows). Bonus credits and spins share the ledger in the code; they are
not composed: `BonusSession` keeps only its own credits.

**Platform.** A call is one HTTP request; its label names the `await` it is at, so other calls run
between any two of its reads and writes. `ApiCalls` has what every call shares: it arrives with a
token that was issued, writes its audit entry after its work (an insert whose failure is
swallowed), and may die with its process at any label. `during` records which calls overlapped:
where an overlap breaks a promise, the property says exactly which overlap, so it still fails when
the promise breaks without one. `BackofficeAccounts` splits `login` at its six awaits (`CheckLock`,
`FindUser`, `ReadAttempts`, `RecordFailure` or `ClearFailures`, `SignSession`) and `updateUser` at
its three; the row of `loginAttempts` has the TTL the code gives it and `ReapAttempts` is MongoDB's
monitor, which runs whenever it likes after that. `GamePublishing` splits publish into the read,
the snapshot and the replacement, and deletion into its three `deleteOne`/`deleteMany`; a draft is a
record of fields whose contents are model values, an object in storage is named by the call that
uploaded it. `OperatorAccess` models a signature by what it signs, and the two collections that
make credentials single-use with their TTL.

**Play.** `game-socket` handles each message without waiting for the one before, so a handler is a
value in a `Slot` that names what it awaits (`verify`, `spin`, `start`, `step`, `balance`), and
answers come in any order. A close forgets the session whatever is under way; `SocketCrash` loses
every session and handler, and what game-backend did stays done. The page has its phase, the
callback the moving reels will run, the panel with its two timers, and the autoplay run. Frames and
timers come in any order with messages, as in a tab that is hidden. Each message is followed to the
end of its handler in `main.ts`, `fireNext` and `handleError` included. No answer names its round;
the field `of` of a message and `givenUp` and `late` of the page are histories for the properties.
`givenUp` is the last round the page left unfinished: by an error, with the page itself, by taking
the answer of an earlier round for the last one's (`Taken`), or by beginning among what is left of
the round before (`Remains`: a panel, its timers or a callback that leads to idle; in the instances
explored only an ERROR leaves any of it). The later rounds are the ones it *kept*. Reels of a kept
round that stop only in the next one, because the tab was hidden, are no exception.

**Games.** `SlotMath` follows `evaluateSpin`: the matrix of a deal, the wilds that expand, the
lines, the scatters, the triggers. `DraftRules` is `validateDraft` over the structure of a draft,
and `DraftEditors` what each control of the builder makes of one.

**Console.** The browser's side is synchronous between answers, so a step is one event handler or
one answer, React's commit included: `Commit` mounts what the route and the session call for,
flushes what the old screen still had to save and sends what the new one asks. A call is sent, then
served or refused, or fails before it is served, then answered, each in any order with other calls;
an answer for a screen that is gone is dropped where the code drops it and applied where it does
not. The handlers that store a draft (save, upload, create, open what is live) are served in two
steps: `ReadDraft`, then `ServeSave`, `ServeUpload`, `ServeCreate` or `ServeFromPublished`, which write
the whole document back whatever was stored in between (`games.ts:285` and 358, 379 and 417). The
other handlers are one step each (`Platform` has the overlaps inside a service).

## 3. Properties

Money path:
- `NonNegativeBalance`, `BalanceExplained`: the funds check reads a balance that may be old at
  commit; no interleaving overdraws, loses or doubles a movement.
- `RoundsMatchMovements`: round and movements commit together or not at all.
- `ExactlyOnce`, `SameRequestSameRound`: retries under one key play once and get one round.
- `AnswersMatchRounds`: a spin refused, or answered with another's round, has played nothing; only
  one whose call died, or failed, after its commit may have played unknown to its caller; and the
  round a spin is answered with is committed and of its own request. With the two above, who hears
  nothing of a round finds it by asking again.
- `CountersMatchRounds`, `StakesWithinLimits`: the counters are the sums of the rounds of their
  window, and no two spins pass one ceiling.
- `EveryCallAnswered`: conflicts do not retry for ever.
- `ImplementsWallet`: the refinement of `Wallet`.

Bonus:
- `PaidOncePerRound`, `ResolvedIsPaid`, `StepClaimedOnce`, `ResolvedIsFinal`.
- `FreeSpinsAreFinite`: across publishes too, the retriggers stay within the largest cap any version
  has, and the spins played and left within the largest award and that many of the largest grants.
  The cap of one version is not a bound: a round begun under it may go on under the next.
- `CreditsAreEarned`: the amount paid is one the seed can produce: the sum of the first so many free
  spins, each on some published version, or of some tiles. That the seed alone decides it, as
  `freeSpins.ts:103` says, does not hold when a publish falls between two steps.
- `EveryBonusCloses`: nothing stays open past its deadline for ever.

Platform:
- `SessionsAreCurrent`: a session the hook accepts has the roles and the password of now, also when
  a slow login signs it after the change.
- `AnAdminRemains`: only two overlapping changes take the last super admin away. The count and the
  update are two operations, and the property names that exception; every other order is covered.
- `LockoutsAreEarned`, `LocksHold`: failures that race lose counts but never lock for less, and no
  TTL or crash ends a lock in force: a login that succeeds does, and so does a failure that overlapped
  another login of the account and is written over its row.
- `LiveIsASnapshot`: whatever is live was validated, was within tolerance or forced, and is the
  snapshot of its version, unless a deletion overlapped a publication or a seeding, or a seeding
  found its version taken or stands between its two writes.
- `CollisionsAreExplained`: a publication finds its number taken only after two writers of the game
  met, or one of them died between its writes.
- `StoredAssetsExist`: no signed link ever takes the place of a key.
- `PlayedGamesAreKept`: only a deletion that overlapped the spin takes a played game away.
- `CredentialsAreUsedOnce`: what it takes to use a credential twice, whatever is reaped. A signed
  request: a clock ahead of ours by the margin, or a copy that passes the timestamp check and stalls
  until the timestamp has run out before its insert. A launch token: a use verified by `exp` and
  consumed at `exp` or later. `game-socket` verifies, `game-backend` consumes, without looking at a
  date and under a record that ends at `exp` (`collections.ts:327`), so the code does allow a second
  session there; the comment at `consume.ts:14` overlooks it.

Play:
- `OneRoundAtATime`: the server does not serialise; the page alone keeps one spin under way, of the
  rounds it kept. The exceptions are rounds given up: after an ERROR, after the answer of an earlier
  round, or among what an ERROR left of a round on the page.
- `OnlyGivenUpBonusesAreForgotten`: `activeBonusSessionId` of an open bonus is overwritten by another
  start (`session.ts:153`) or cleared by another's end (`session.ts:248`) only after an ERROR. That
  exception is real: `main.ts:338` goes back to idle with the bonus open, the player spins, and a
  second trigger makes the connection forget the first bonus, or a late answer about the round given
  up makes it forget the second. `session.ts:29` ("Only one bonus session is ever active per
  connection") is not true then, and the bonus nobody can play on is closed unpaid by the sweep. TLC reaches both.
- `BonusPhaseHasABonus`: the page waits for a bonus only when one, an error or the end is coming. It
  excepts reels that stop after the page left their reveal (a hidden tab gets timers and messages
  but no frames): the callback of `main.ts:287` then sets the phase of a round that is over, and
  nothing leads the page out of it but an error or a reload. The model reaches that too.
- `BalancesInOrder`: balances reach the page in the order of the changes they report.
- `ClosedIsForgotten`: the map of sessions forgets a closed connection, unless the close overtook its
  JOIN, whose handler then enters a session that stays until the process ends (`session.ts:173`).
- `SpinsAreAnswered` (liveness): with a result, an error or the loss of the connection.

Console:
- `EditsAreKept`: edits, delayed saves, flushes on leaving, a sign-in and another screen. Four things
  lose an edit, and the property says that no other does: an answer that replaced the page's draft
  before the next edit; a save that failed or followed a sign-out; a call that was sent before the
  edit and served after it; a call whose handler had read the draft without the edit. The last is an
  upload and an autosave, or two saves, that overlap in the service: TLC reaches it in the situation
  `overlapping`, and nothing in the code prevents it. An edit the handler had read stays.
- `ValidDraftsPlay`: a draft the gate lets through plays on every matrix its reels can deal: stakes
  add up to the bet, lines pay their longest run, payouts stay in their tables, triggers exist.
- `ReportsAreWhole`: keyset pages neither skip nor repeat while rows commit; totals and exports. A page
  asked for in an earlier run, or twice, is appended all the same; such a report is not `whole` and
  excepted.
- `DeskIsAsAsked`: the rows of operators and users, and the secret on show. A later change of the
  same row that was sent from a list without the first, or served before it, overwrites it (a toggle
  sends the whole set); the property excepts that, calls that failed, and a secret that was answered
  in the other order than another or to a screen that is gone. What is left are the orders in which
  a change asked of a row must be found in it: across screens, refreshes, other rows, rotations.

## 4. Runs

| Run | Instance | Result |
|---|---|---|
| `money` | 4 calls, 2 players of one operator, one clientRequestId, one transactionId used for both players, bets within and beyond the balance, crashes and lost commit results | holds |
| `limits` | 3 calls, one player with daily and weekly limits, 3 days over 2 weeks, a bet the game does not offer, a concurrent change of limits | holds |
| `live` | 3 calls that want the same documents, fairness | holds |
| `bonus` | 4 calls, one round of each module, a seed with a blank and free spins that always retrigger, a publish that changes the free spins' parameters, a deadline that passes | holds |
| `bonus_closes` | 3 calls, a pick and a free-spins round, fairness | holds |
| `platform` | 3 or 4 calls in 9 situations: a team that changes one another, sessions, guessing over 2 windows, first boot, editing, the life of a game with crashes, signed requests over 4 clock readings, the same from a clock ahead of ours, new operators | holds |
| `play` | 2 spins in 4 situations: every bonus module with a broken connection, autoplay, a reload, a crash of `game-socket` | holds |
| `console` | 2 to 4 acts of the user in 15 situations (`MCConsole`): saving, failures, artwork, artwork uploaded while a name is saved, themes, every control of the builder on four games, publishing, reports with exports, support, operators, toggles, users, all screens for two roles | holds |
| `removal` | a weekly limit whose removal matures inside its week | violates `CountersMatchRounds` |
| `put_race` | two concurrent changes of one player's limits | violates `LooseningWaits` |
| `loser` | two spins with one clientRequestId and money for one | violates `LoserGetsTheWinner` |
| `bonus_race` | two steps that overlap | violates `RecordedIsPaid` |

The last four runs check what a comment or the README of the repository states and the code does
not do; `PROJECT.json` quotes the text under `findings`.

*Bounds.* Two calls are needed for a race, a third to retry what the race left, a fourth for a
movement of another kind. The amounts make every outcome reachable: a bet that fits, one that
does not after another, a win that makes the next one fit. Three days over two weeks make the
daily and the weekly window end at different moments. One seed suffices for a bonus: what
differs between seeds is data, and the theorems cover all seeds. `MaxTime` bounds the clock;
no action depends on its last value but `Tick`. Calls are interchangeable in every property
without fairness, hence the symmetry sets; the liveness runs use none.

A *situation* (`platform`, `play`, `console`) says which requests, pages or acts are possible and
what is stored at first; one behaviour stays in one situation. The situations split what would be
one instance too large into the interactions the properties are about: `Team` has the two
administrators, `Lifecycle` every writer of a live game and a crash. In `platform` three calls make
a race and the retry that follows it, and four make two lockouts; `SessionTtl`, `LockoutTime` and
the other times are the least that tell their order apart. The clock of `platform` runs between any
two steps of a call: a call may pass a check and stall before what it guards, and both second uses
that `CredentialsAreUsedOnce` describes are reached. Dates of requests are any, ahead of the clock
too: `CredentialsAreUsedOnce` names the exception, and the situation `EarlyClock` reaches it: the
record of a signature lives for `MaxSkew` and a margin from the moment it is written
(`middleware.ts:46`), while a request dated ahead of our clock by more than the margin is accepted
for longer than that. All processes and the TTL monitor read one clock. In `play` two spins are a
round and the next one, which is where pages, handlers and bonuses meet; two slots are two
concurrent handlers. In `console` an act is anything the user or the world does, and answers come
in every order after each.

*Deadlock* is not checked: a call is served once, acts and the clock are bounded, so every behaviour
ends. `EveryCallAnswered` and `EveryBonusCloses` say what must have happened by then.

*Fairness.* Weak fairness of what the process serving a call does next: Node runs a ready
continuation eventually and the driver answers or throws. Weak fairness of the clock, and of the
sweep, a `setInterval` in every process. In `Play`, of the server's
accept, of each handler's next step, of the delivery of a message and of the close of a socket:
Node runs a continuation whose answer has come, game-backend answers or the call times out, and the
browser fires the events of its socket. None for arrivals, crashes, particular outcomes, nor for
the player, frames or timers: `SpinsAreAnswered` holds in a hidden tab.

*Mutants.* Each property of a passing run has a variant of a modelled definition, with the bug
it is meant to catch (the definitions commented "Mutant"), under which TLC finds it violated.

## 5. Proofs

The theorems hold for any sets of accounts, users, calls, games, operators, requests, seeds, limits
and times, from the assumptions named in the modules only:

| Module | Theorems | State |
|---|---|---|
| `MoneyPathProofs` | `TypeCorrect`, `NeverOverdrawn`, `RoundsPaid`, `Idempotence`, `HonestAnswers`, `OneRoundPerRequest` | `TypeOK`, `NonNegativeBalance`, `RoundsMatchMovements`, `ExactlyOnce`, `AnswersMatchRounds`, `SameRequestSameRound` |
| `MoneyPathProofs` | `WalletImplemented`, `CeilingsHold`, `BooksBalance`, `CountersHoldTheRounds` | `ImplementsWallet`, `StakesWithinLimits`, `BalanceExplained`, `CountersMatchRounds` |
| `BonusSessionProofs` | `TypeCorrect`, `PaidOnce`, `Paid`, `ClaimedOnce`, `FreeSpinsFinite`, `Final`, `Earnings` | `TypeOK`, `PaidOncePerRound`, `ResolvedIsPaid`, `StepClaimedOnce`, `FreeSpinsAreFinite`, `ResolvedIsFinal`, `CreditsAreEarned` |
| `PlatformProofs` | `SessionsCurrent`, `CredentialsUsedOnce` | `SessionsAreCurrent`, `CredentialsAreUsedOnce` |
| `PublishingProofs` | `LiveGamesAreSnapshots`, `PublicationsCollideForAReason`, `AssetsAreStored`, `PlayedGamesStay` | `LiveIsASnapshot`, `CollisionsAreExplained`, `StoredAssetsExist`, `PlayedGamesAreKept` |
| `AccountProofs` | `AdminRemains`, `LocksAreEarned`, `LocksEndForAReason`, `CollectionsTyped` | `AnAdminRemains`, `LockoutsAreEarned`, `LocksHold`, `TypeOK` |
| `PlayProofs` | `PlayTypes`, `PlayOneRound`, `PlayForgotten`, `PlayBonusPhase`, `PlayBalances`, `PlayClosed` | `TypeOK`, `OneRoundAtATime`, `OnlyGivenUpBonusesAreForgotten`, `BonusPhaseHasABonus`, `BalancesInOrder`, `ClosedIsForgotten` |
| `ConsoleProofs` | `PageHolds`, `DeskHolds`, `DeskAsAsked`, `EditsHold`, `EditsKept`, `ReportsHold`, `ReportsWhole` | `PageInv`, `DeskInv`, `DeskIsAsAsked`, `EditsInv`, `EditsAreKept`, `ReportsInv`, `ReportsAreWhole` |

*Money path.* The properties speak of `db`, but a commit installs what was computed on an older
snapshot. The inductive invariant says how a snapshot may differ from the database: every
document that differs is in `stale`, and movements and rounds only grow. So a transaction that
may commit (what it wrote is not stale) computed on the current balance of the player, on the
current counters, and against the current occupants of the index slots it fills; the lemmas on
`ApplyLedgerOp`, `StakeAgainstLimits` and `RecordWinAgainstLimits` say what each leaves in the
context, and `SpinBody` is their composition.

*The steps of the money path.* `WalletImplemented` maps the database to the abstract wallet. By the
invariant a body that commits was computed on the current balance, so its commit is one `Settle` of
the wallet; `ensurePlayer` is its `Open`; all else, snapshots, conflicts, re-runs, rollbacks,
crashes, is a stutter (`SpinSettles`, `CashSettles`, `WalletStep`). `CeilingsHold` uses the same
fact for the counters: `SpinCounts` says what a committing body left in them, `FitsUnderCeilings`
that the bet decision refused whatever would have passed a ceiling. Proving it corrected the
property, which read the counter of the window of the call's next clock reading.

*Sums.* A sum is a recursive function on the subsets of a finite set, so what it comes to would need
induction over data. `SumsProofs` argues by a smallest counterexample instead: among the subsets on
which a lemma fails there is one that contains no other (`SmallestCounterexample`, from the
library's theorems on well-founded orders), and there one step of the recursion contradicts it. The
totals use `SumTakes` (any element may be taken out first), `SumAdds` (a set gains an element) and
`SumSame`.

*Totals.* `BalanceInv` says of every account that its balance less the net of its movements is
nothing or the initial balance, and nothing of the kind before its player exists. By the invariant
of the money path a committing body computed on the current balance, and each of its movements is
new to the ledger, so balance and net change by the same (`SumAdds`). `CountersMatchRounds` needs to
know who has rows. `CountersInv` follows two kinds of players: those whose limits are never all
absent, whose rows hold every round of their windows, and those who never have any, who have no
rows; in the database, in every snapshot and in what a change of limits is about to store. That all
players are of one of these kinds is the hypothesis `AllSteady` of `CountersHoldTheRounds`. The
instances of `money` and `limits` satisfy it. The one of `removal` does not, and there the property
fails: a window in which limits come or go is the exception that the finding is about.

*Bonus.* A row a call claimed is an earlier state of its session: same round, same seed, and a
`stepIndex` the session has passed. The last part gives `StepClaimedOnce`, since a claim takes
the current index; the first give that the result of a claimed row is a state of its session
although another step may have written since. The bound on spins and retriggers is kept by each
step of the module, on any version, for any row it works on, so an overlapping write keeps it too.
`CreditsAreEarned` follows the amount (`EarnedInv`): a pick round has won the sum of the tiles opened
so far, free spins the sum of the first so many spins for some assignment of versions to them, which
a further spin extends by the version it loaded; a claimed row agrees with its session on that, so
what is credited at the end is a sum over the seed, whoever writes it.

*Sessions.* `SessionsAreCurrent` is not inductive: a login signs a session from a row it read three
`await`s earlier. The invariant is about versions. What a token, or a login past its password
check, knows of a user is not newer than the user's row, and is what the row says if it is as new;
every change of a row makes it newer, and users are never removed, so both survive every step of
every other call. `SituationsAssumption` is what the routes and the collections' validators let in:
a known role, a flag that is a boolean, a session where the route wants one. The steps of games and
operators are shown to leave accounts alone.

*Calls.* `CallsInv` is what the other arguments of the platform share: two calls under way overlap,
a request stays what it was, an answer stays given, and `during` only grows (`Later`). So an
exception of a property ("two writers met"), once it holds, holds for good, and what remains to be
shown is what holds without it.

*Games.* `RowsInv` says of every draft, live row and snapshot, and of every row that a call has read
and still carries, that it passed the gate its place wants and names stored objects only: a `PUT`
keeps the keys of the row it read (`PutKeepsAssets`), an upload adds the object it stored, a stored
object stays. `SnapshotsInv` follows the one pair of writes: a publication that inserted its
snapshot and has not replaced the live row yet has a snapshot of what it will write, or a deletion
parted them; a live game without snapshots is being seeded. `NumbersInv` says that, while no two
writers met and none died in the middle, the snapshots do not pass the live version but between
those two writes; then the number a publication computes is free. `RoundsInv` is the same kind of
argument for the count of rounds.

*Operators.* A key is owned by one operator, also in the memory of a call that looked its owner up
(`KeysInv`). An accepted signature has a record, or the clock has passed the record's end
(`SignaturesInv`): whoever is about to insert a second one is within the skew, so it finds the
record unless the request is dated ahead by the margin, or the clock has passed the timestamp's end
since it was compared. A token's use is recorded, or the clock has reached the token's `exp`
(`TokensInv`): a second insert succeeds only then. Nothing is assumed of how long a call takes.

*Administrators.* `AnAdminRemains` is not inductive for want of what the count found. `AdminsInv`
adds it: as long as no two updates of users overlap, a call that is about to take an administrator
away leaves another one. Every step but an update keeps the administrators there are, and the first
user of an empty collection is one (`UsersGrow`); between the count and the update no other update
runs. The proof needed to know that creating a user takes a session, which `Fits` says now.

*The throttle.* A row is written over whatever is there, from an older read. `ThrottleInv` bounds
both: neither a stored row nor one a login still computes from claims more failures than were
recorded (`OneFailureMore`: the row that follows claims one more at most). For `LocksHold`: a login
past its check of the lock that meets a lock in force ran while another login of the account did,
and a row's TTL is not before the end of its lock. That a lockout lasts a natural number of units
needs that a power of two is one, for which `PowersOfTwo` counts subsets.

*Play.* None of the properties of a page is inductive: each says what must not be seen, and the
reason is where the round stands. `RoundInv` follows one round through wire and handlers: it is
requested or being spun or told, never two of these, its bonus is started by the one handler that
spun it, stepped by one that knows it, settled once, and nothing is known of a round that was not
asked for. `LinkInv` and `JoinInv` give what a connection can carry: nothing once it is down, and
until its JOIN is answered nothing else, on a page that is untouched. With these `PageInv` joins the
two ends: a kept round that is not over (`Pending`) is the last one, and no callback, timer or phase
on the page leads to idle, from which alone it would ask for another. `OneRoundAtATime` follows, and
`OnlyGivenUpBonusesAreForgotten`: an open bonus that was kept is the last round's, so the start or
the end of another is of a round given up. A third way to forget it, a second session for a
connection that has one, is excluded by `FreshInv`: a connection joins once. `PhaseInv` is the promise a triggered result makes: behind it on the
wire come its bonus or an error, or the handler that started the bonus is still at work; the
promise is handed from the wire to the reveal and from the reveal to the phase. For the balances,
`BalanceInv` says that an answer under way about a kept round is no older than anything shown: by
`PageInv` only the last kept round has one, and the backend's count only grows. `ClosedIsForgotten`
needs only that what enters a session is a JOIN, and that a close marks the ones it overtakes.
The assumptions are `WireAssumption`, `SessionAssumption` and `PlayAssumption`: what the sets of
pages, rounds, modules and situations are.

The attempt at `PageInv` showed that `OneRoundAtATime`, as first stated with ERROR as its only
exception, was false: after an error the page spins again while the old round is still at work, takes
its answer for the new round's, and goes idle. That takes more rounds than `play` has, and
TLC found it once it was given five. So `givenUp` counts the answers of earlier rounds and the
remains of a round that was left, and the property names both exceptions.

The invariants were checked with TLC over the runs' instances as well.

*Console.* `PageInv` is inductive, and with it each of the others. It is the bookkeeping of the page: a
call belongs to a screen that was mounted, the screen on show is the last one, and a call of a kind
is answered to a screen of the kind that makes it. It is proved once what each step does to the page
(`Committed`, `InPlace`, `Replies`), and the others look only at that. `DeskInv` is about the rows
of operators and users: what was asked of a row is what it holds, or a call that stores it is still
to be served, or one of the exceptions `DeskIsAsAsked` names has met it (`PromisesInv`); the secret on
show is the one stored, or the stored one is of a call yet to be answered, or they overtook one
another (`ShownInv`). `DraftsInv` says what drafts are, wherever one is kept, and `EditsInv` follows
the edit of a field: it is stored, or waits on the page to be sent, or is in a save yet to be
served, or one of the exceptions of `EditsAreKept` has met it. `SentInv` adds that a save sent after an
edit carries it: a handler that stores a draft without the edit is then of a call sent before it, or
had read a draft without it, and those are the exceptions.

`ReportsInv` is about the reports screen, and speaks of no sorting. A row of a page is the one with
as many newer rows as there are before it: rows have different ranks (`RanksDiffer`), so by counting
every rank has its row (`RanksFilled`), and a page is in order and ends above all it leaves out
(`NewestRows`). What a page says (`IsPage`: rows of the query below a cursor, and none missing of
those that were there when it was served, but those below its last one) stays true while the ledger
grows (`PagesLast`), and two pages make one when the second starts at the cursor of the first and was
served later (`PagesJoin`). The invariant says this of every answer under way, of what a run has so
far and of what is shown, and keeps two facts about the calls: one that continues a report is of the
run on show or of an earlier one, and the calls of the run that is on are of one query. The screen
cancels nothing, so a page asked for in an earlier report can still be appended to a later one; by the
first fact it is told apart by its run, and the report is then no longer `whole`.

`EditsHold`, `EditsKept`, `ReportsHold` and `ReportsWhole` have a hypothesis, `NoFunction`: the markers
for "no value" and "no field" are not themselves functions, so they differ from every draft, every
list and every cursor. It is a hypothesis and not an `ASSUME` because TLC cannot decide it of a model
value. `RouteAssumption` and `DraftAssumption` say what routes and drafts are, `ReportsAssumption`
that instants and ids are numbers and that the rows a ledger starts with have ids of their own.

Three attempts at these proofs failed because the model was wrong, and it was corrected.
`KeptAfter` counted an optional field that an answer had removed as an edit still on the page. The
record of overtaken secrets (`OvertakenAfter`) missed a secret answered to a screen that is gone. Two
cases of `AfterAnswer` overlapped, a logout answered with 401.

The invariants were checked with TLC over the runs' instances as well.

Only model-checked: `ValidDraftsPlay`, whose statement evaluates every matrix of a game by folds over
lines and reels (induction over data); and liveness (`EveryCallAnswered`, `EveryBonusCloses`,
`SpinsAreAnswered`). These are out of the prover's reach.

## 6. Not modelled

- *Platform*: `lastLoginAt` and `rtpSimulationRuns`, which nothing reads back in a decision; routes
  that only read; the simulation itself (a draft drifts from its target or does not). Creating a
  game whose id is an existing one with spaces overwrites that draft (`routes/games.ts:191`): it is
  modelled as written, and no property takes a side.
- *Play*: PING, ROUND_RECOVER, a JOIN with a session token, sound and words, the amounts of bets
  and wins (a balance is the round it follows). The rate limiter's verdict is any verdict.
- *Console*: a call that is served and whose answer is lost; a change of the user's own role; the
  parameters of bonus modules; edits of wild lists and `wildCounts`, which no control offers (the
  games of `MCConsole` have both kinds); uploads that fail in storage; the ledger's ties in an export and a look-up,
  which sort by `createdAt` only (the model breaks them by id).
- `periods.ts` (a calendar), `rng`, the statistics of the simulation, `rate-limit-store`, `secrets`,
  `service-auth`, `logging`, `operator-demo`: pure I/O, statistics or configuration.
- `bonus/session.ts:332`: bonus wins never reach the usage counters. No text says which is meant.

Behaviour the models show and the exceptions of the properties name, for a reader who wonders
whether it is meant:

- Two demotions that overlap leave no super admin (`routes/users.ts:109`). A deletion that overlaps
  a spin deletes a played game (`routes/games.ts:227`). A crash after `publish.ts:139` makes the
  game unpublishable until it is deleted.
- When a lock runs out, the TTL may remove the row and its count of lockouts, although
  `loginThrottle.ts` says that count is not aged out.
- An ERROR names no request and an answer names no round: after an error the page leaves whatever it
  was doing (`main.ts:338`), may ask for a round while one is under way, and then takes that one's
  answer for the new round's (`main.ts:273`).
- A save's answer replaces the page's draft, later edits included; the next edit is then made on
  the old one (`GameBuilderScreen.tsx:76`). A sign-out within 700 ms of an edit loses it, although
  line 119 says a pending edit must not be lost. Publish, simulate and "open what is live" do not
  wait for a pending edit.
- An upload or a save writes back the whole draft its handler read: an autosave stored in between is
  undone (`games.ts:417`, 358).
- A URL typed for artwork is never stored, but clearing the last one sends `assets: null`, which
  deletes all stored keys, although `games.ts:301` says the PUT does not accept `assets`.
- A 401 or a logout that is answered late ends the session begun meanwhile; a created game opens
  wherever the user is by then.
- "Load more" pressed twice, or a query changed between pages, repeats or mixes rows; the totals
  are read apart from the rows.
- Toggles of games and of roles send a whole list computed from what the page last read; two
  rotations answered in the other order show a secret that is dead.

## 7. Plan

Done: money path, bonus rounds, platform, play, games and console; the proofs of the money path,
of bonus rounds, of the platform, of play and of the backoffice page. Next:

1. `BonusSession` composed with `MoneyPath` over one ledger; `PeriodKeys`, the calendar.
2. ROUND_RECOVER and a second page with a session token in `Play`.
