------------------------------ MODULE Console ------------------------------
(***************************************************************************)
(* The backoffice in a browser: App, its screens, and the calls they make. *)
(***************************************************************************)
EXTENDS GameBuilder, MoneyReports, OperatorDesk

vars == <<pageVars, gameVars, transactions, deskVars>>

-----------------------------------------------------------------------------
(* App                                                                     *)

NewScreen(as, to, mount) ==
  IF as = NoValue THEN LoginScreen(mount)
  ELSE CASE to = "games" -> GameListScreen(mount)
         [] to = "game" -> GameBuilderScreen(mount)
         [] to = "reports" -> ReportsScreen(mount)
         [] to = "support" -> SupportScreen(mount)
         [] to = "operators" -> OperatorsScreen(mount)
         [] to = "users" -> UsersScreen(mount)
         [] to = "audit" -> [name |-> "audit", mount |-> mount]

\* What a screen asks for when it appears.
OnMount(s) ==
  CASE s.name = "games" -> <<Request("listGames", NoValue, s.mount)>>
    [] s.name = "game" -> <<Request("getGame", NoValue, s.mount)>>
    [] s.name = "reports" -> <<Request("listOperators", NoValue, s.mount)>>
    [] s.name \in {"operators", "users"} -> <<List(s)>>
    [] s.name = "audit" -> <<Request("audit", NoValue, s.mount)>>
    [] OTHER -> <<>>

\* React's commit: a screen of another route, or of a session begun or ended,
\* is a new one, and the old one sends what it still has, in what session
\* there is by then.
Commit(page, others) ==
  LET moved == page.route # route \/ (page.session = NoValue) # (session = NoValue)
      next == NewScreen(page.session, page.route, mounts + 1)
  IN
  /\ session' = page.session
  /\ route' = page.route
  /\ screen' = IF moved THEN next ELSE page.screen
  /\ mounts' = IF moved THEN mounts + 1 ELSE mounts
  /\ Send(IF moved THEN page.send \o Flush(page.screen) \o OnMount(next) ELSE page.send, page.session, others)
  /\ UNCHANGED <<situation, sessions>>

Page(s, requests, as, to) == [screen |-> s, send |-> requests, session |-> as, route |-> to]

\* The routes App offers its user.
Offered(to) ==
  CASE to = "games" -> TRUE
    [] to = "game" -> screen.name = "games" /\ screen.listed
    [] to = "users" -> The.role \in RolesFor("listUsers")
    [] to \in {"operators", "reports", "support"} -> The.role \in RolesFor("listOperators")
    [] to = "audit" -> The.role \in RolesFor("audit")

Navigate ==
  /\ Act
  /\ session # NoValue
  /\ \E to \in The.routes : to # route /\ Offered(to) /\ Commit(Page(screen, <<>>, session, to), DOMAIN calls)

\* A 401 ends the session; a logout ends it whatever came of it, and leaves
\* the route; a new game opens, wherever the user is by then.
AfterAnswer(c) ==
  LET then == IF c.op \in {"transactions", "summary", "csv", "lookup"} THEN OnReportsAnswer(c)
              ELSE IF c.op \in {"listOperators", "createOperator", "updateOperator", "rotateSecret", "listUsers",
                                "createUser", "updateUser", "setPassword", "audit"} THEN OnDeskAnswer(c)
              ELSE OnGameAnswer(c)
  IN IF LosesSession(c) THEN Page(screen, <<>>, NoValue, "games") ELSE
     CASE c.op = "login" -> Page(IF screen.name = "login" THEN [screen EXCEPT !.busy = FALSE] ELSE screen, <<>>,
                                 IF Good(c) THEN c.reply.body ELSE session, route)
       [] c.op = "logout" -> Page(screen, <<>>, NoValue, route)
       [] OTHER -> Page(then.screen, then.send, session,
                        IF c.op = "createGame" /\ c.reply.status = 201 THEN "game" ELSE route)

Answer(n) ==
  /\ calls[n].reply # NoValue
  /\ Commit(AfterAnswer(calls[n]), DOMAIN calls \ {n})
  /\ overtaken' = OvertakenAfter(n)
  /\ UNCHANGED <<acts, gameVars, transactions, desk, promises>>

\* A call comes to nothing, and so does what it asked.
ComeToNothing(n) ==
  /\ Refusal(n) \/ Failure(n)
  /\ kept' = KeptAfterFailing(n)
  /\ promises' = PromisesAfterFailing(n)
  /\ UNCHANGED <<stored, live, transactions, desk, overtaken>>

-----------------------------------------------------------------------------
Init ==
  /\ situation \in Situation
  /\ acts = 0
  /\ sessions = {0} /\ session = 0
  /\ route = The.start
  /\ mounts = 1
  /\ screen = NewScreen(session, route, 1)
  /\ calls = Sent(OnMount(screen), session, 0)
  /\ issued = Len(OnMount(screen))
  /\ \E first \in The.drafts : stored = first.draft /\ live = first.live
  /\ kept = [f \in {} |-> NoValue]
  /\ transactions = The.transactions
  /\ desk = The.desk
  /\ promises = [k \in {} |-> NoValue]
  /\ overtaken = {}

Next ==
  \/ (Submit \/ SignOut \/ Navigate \/ Revoke) /\ UNCHANGED <<gameVars, transactions, deskVars>>
  \/ BuilderStep /\ UNCHANGED <<transactions, deskVars>>
  \/ (ReportsStep \/ Insert) /\ UNCHANGED <<gameVars, deskVars>>
  \/ DeskStep /\ UNCHANGED <<gameVars, transactions>>
  \/ \E n \in DOMAIN calls :
       \/ (ReadDraft(n) \/ ServeGame(n)) /\ UNCHANGED <<transactions, deskVars>>
       \/ ServeReports(n) /\ UNCHANGED <<gameVars, deskVars>>
       \/ ServeDesk(n) /\ UNCHANGED <<gameVars, transactions>>
       \/ (ServeLogin(n) \/ ServeLogout(n)) /\ UNCHANGED <<gameVars, transactions, deskVars>>
       \/ ComeToNothing(n)
       \/ Answer(n)

Spec == Init /\ [][Next]_vars

-----------------------------------------------------------------------------
Quiet == DOMAIN calls = {}

\* Once nothing is pending or under way, every edit of the builder is in the
\* stored draft (GameBuilderScreen.tsx:119), unless the draft it was made on
\* was replaced by an answer before the next edit, its save failed or was
\* sent after a sign-out, or it was stored and then taken away by a call that
\* was sent before the edit or whose handler had read the draft without it
\* (games.ts:285 and 358, 379 and 417).
EditsAreKept ==
  Quiet /\ (screen.name = "game" => screen.pending = NoValue) =>
    \A f \in DOMAIN kept : kept[f].risky \/ stored[f] = kept[f].value

\* A draft the gate lets through (validateDraft.ts:9-27) plays, whatever the
\* reels deal: the lines' stakes add up to the bet, every cell shows a symbol
\* the game has, only wilds expand, a line pays for the longest run of its
\* symbol from reel 0, the scatters on the grid never outnumber the payout
\* table unless wilds count too, and every bonus a spin triggers is there.
PlaysOn(draft, dealt, bet) ==
  \A spin \in {EvaluateSpin(draft, dealt, bet)} :
    LET Fits(w, reel) == StandsFor(draft, spin.matrix[reel][draft.paylines[w.line + 1][reel]], w.symbol) IN
    /\ \A reel \in Reels(draft), row \in Rows(draft) : spin.matrix[reel][row] \in SymbolIds(draft)
    /\ \A reel \in ExpandedReels(draft, dealt) : \A row \in Rows(draft) : IsWild(draft, spin.matrix[reel][row])
    /\ \A w \in spin.winLines :
         /\ \A reel \in 0 .. w.count - 1 : Fits(w, reel)
         /\ w.count < draft.grid.reels =>
              draft.paylines[w.line + 1][w.count] = Absent \/ ~Fits(w, w.count)
    /\ draft.rule = "highestOnly" => Cardinality(spin.winLines) <= 1
    /\ \A i \in Scatters(draft) :
         LET rule == draft.symbols[i] IN
         rule.scatter # Absent /\ ~rule.scatter.wildCounts /\ DOMAIN rule.scatter.payout # {} =>
           ScatterCount(draft, spin.matrix, rule) <= Max(DOMAIN rule.scatter.payout)
    /\ spin.bonus \ {Absent} \subseteq ModuleIds(draft)
    /\ Len(draft.modules) = 1 => spin.bonus \subseteq {SimulatedModule(draft), Absent}

Plays(draft) ==
  LET lines == Len(draft.paylines) IN
  \A i \in DOMAIN draft.bets :
    /\ MapThenSumSet(LAMBDA line : Stake(draft.bets[i], lines, line), 0 .. lines - 1) = draft.bets[i]
    /\ \A dealt \in Matrices(draft) : PlaysOn(draft, dealt, draft.bets[i])

ValidDraftsPlay ==
  \A n \in DOMAIN calls :
    calls[n].op = "saveDraft" /\ calls[n].reply # NoValue =>
      ~Good(calls[n]) \/ ~calls[n].reply.body.valid \/ Plays(calls[n].reply.body.draft)

\* A report the user has only run and paged on is in the ledger's order,
\* without a row twice or of another query, and lacks no row that was there
\* when it was run (ReportsScreen.tsx:164-175, query.ts:105-115).  Its totals
\* are those of its rows when nothing was committed between the two, and an
\* export says when it is cut.
Matching(rows, q, known) == {t \in rows : t.nth <= known /\ OfQuery(t, q) /\ Within(t, q)}

ReportsAreWhole ==
  screen.name = "reports" =>
    /\ screen.page # NoValue /\ screen.whole =>
         LET shown == ToSet(screen.rows) IN
         /\ \A i \in 1 .. Len(screen.rows) - 1 : Before(screen.rows[i + 1], screen.rows[i])
         /\ shown \subseteq Matching(transactions, screen.of.query, Cardinality(transactions))
         /\ \A t \in Matching(transactions, screen.of.query, screen.page.of) \ shown :
              screen.page.next # NoValue /\ Before(t, screen.page.next)
         /\ screen.page.next = NoValue /\ screen.page.of = screen.summary.of /\ shown \subseteq Matching(transactions, screen.of.query, screen.page.of) =>
              screen.summary.staked = Amounts(shown, "debit") /\ screen.summary.paidOut = Amounts(shown, "credit")
    /\ screen.file # NoValue /\ ~screen.file.truncated =>
         screen.file.rows = Matching(transactions, screen.file.query, screen.file.of)

\* Once nothing is under way, every game an operator was granted or refused,
\* every role a user was given or denied, is so (OperatorsScreen.tsx:212,
\* UsersScreen.tsx:212), unless a later change of the same row was sent from
\* a list without it, was served before it, or the call failed.  A secret on
\* show is the operator's (OperatorsScreen.tsx:28-37), or a newer one is on
\* its way, unless two of them were answered in the other order or the newer
\* one was answered to a screen that is gone.
DeskIsAsAsked ==
  /\ Quiet => \A k \in DOMAIN promises : promises[k].risky \/ Keeps(desk, k, promises[k])
  /\ screen.name = "operators" /\ screen.issued # NoValue =>
       \/ desk[screen.issued.who].secret \in {screen.issued.secret} \cup DOMAIN calls
       \/ screen.issued.who \in overtaken
=============================================================================
