---------------------------- MODULE MoneyReports ----------------------------
(***************************************************************************)
(* The reports and support screens, over a ledger that goes on growing.    *)
(* Pages are cut by key: a cursor names the last row of the page before.   *)
(***************************************************************************)
EXTENDS ConsoleCalls, FiniteSetsExt, SequencesExt

CONSTANTS
  DayLength,     \* instants in a day
  DefaultLimit,  \* rows of a page
  ExportLimit,   \* CSV_EXPORT_LIMIT
  RecentLimit    \* rows of a support lookup

VARIABLES
  transactions   \* the ledger's rows: [at, id, operator, player, type, amount, nth]
                 \* in the order of their inserts

-----------------------------------------------------------------------------
(* Queries                                                                 *)

\* Rows are told apart and put in order by ids; instants are times.
ASSUME ReportsAssumption ==
  /\ DayLength \in Nat /\ DefaultLimit \in Nat \ {0} /\ ExportLimit \in Nat
  /\ \A s \in Situation :
       LET rows == SituationOf[s].transactions IN
       /\ IsFiniteSet(rows)
       /\ \A t \in rows : t.nth \in 1 .. Cardinality(rows) /\ \A u \in rows : t.id = u.id => t = u
       /\ \A t \in rows \cup SituationOf[s].inserts : t.at \in Int /\ t.id \in Int
       /\ \A q \in SituationOf[s].queries : q.from.at \in Int /\ q.to.at \in Int

Blank == [kind |-> "blank", at |-> 0]

\* parseDateRange: a "to" that is a date means the whole day.
From(q) == IF q.from.kind = "day" THEN q.from.at * DayLength ELSE q.from.at
To(q) == IF q.to.kind = "day" THEN q.to.at * DayLength + DayLength - 1 ELSE q.to.at

BadRange(q) ==
  \/ q.from.kind = "unreadable" \/ q.to.kind = "unreadable"
  \/ q.from.kind # "blank" /\ q.to.kind # "blank" /\ From(q) > To(q)

Before(t, u) == t.at < u.at \/ (t.at = u.at /\ t.id < u.id)

Within(t, q) == (q.from.kind # "blank" => t.at >= From(q)) /\ (q.to.kind # "blank" => t.at <= To(q))

OfQuery(t, q) == q.operator \in {"", t.operator} /\ q.player \in {"", t.player}

\* Mutant: the cursor is the instant alone, and takes it in.
FromInstant(rows, q, cursor) ==
  {t \in rows :
     OfQuery(t, q) /\ Within(t, q) /\ (cursor # NoValue => t.at < cursor.at)}

\* buildTransactionFilter: a range that ends before the cursor leaves the
\* cursor out; otherwise rows below it, of which those of its own instant
\* are not compared with "from".
Selected(rows, q, cursor) ==
  {t \in rows :
     /\ OfQuery(t, q)
     /\ IF cursor = NoValue \/ (q.to.kind # "blank" /\ To(q) < cursor.at) THEN Within(t, q)
        ELSE \/ t.at < cursor.at /\ (q.from.kind # "blank" => t.at >= From(q))
             \/ t.at = cursor.at /\ t.id < cursor.id}

\* The newest of the rows, at most limit of them: the i-th has i - 1 newer ones.
Newest(rows, limit) ==
  [i \in 1 .. Min({limit, Cardinality(rows)}) |->
     CHOOSE t \in rows : Cardinality({u \in rows : Before(t, u)}) = i - 1]

-----------------------------------------------------------------------------
(* backoffice-api                                                          *)

ServePage(n) ==
  LET arg == calls[n].arg
      found == Selected(transactions, arg.query, arg.cursor)
      page == Newest(found, DefaultLimit)
      more == Cardinality(found) > DefaultLimit
  IN
  /\ Admitted(n, {"transactions"})
  /\ Reply(n, IF BadRange(arg.query) THEN Status(400)
              ELSE Ok([rows |-> page, next |-> IF more THEN [at |-> Last(page).at, id |-> Last(page).id] ELSE NoValue,
                       of |-> Cardinality(transactions)]))

Amounts(rows, type) == MapThenSumSet(LAMBDA t : t.amount, {t \in rows : t.type = type})

ServeSummary(n) ==
  LET found == Selected(transactions, calls[n].arg.query, NoValue) IN
  /\ Admitted(n, {"summary"})
  /\ Reply(n, IF BadRange(calls[n].arg.query) THEN Status(400)
              ELSE Ok([staked |-> Amounts(found, "debit"), paidOut |-> Amounts(found, "credit"),
                       net |-> Amounts(found, "debit") - Amounts(found, "credit"),
                       of |-> Cardinality(transactions)]))

\* The export reads one row more than it writes, to know whether it is cut.
ServeCsv(n) ==
  LET found == Selected(transactions, calls[n].arg.query, NoValue) IN
  /\ Admitted(n, {"csv"})
  /\ Reply(n, IF BadRange(calls[n].arg.query) THEN Status(400)
              ELSE Ok([rows |-> ToSet(Newest(found, ExportLimit)), truncated |-> Cardinality(found) > ExportLimit,
                       of |-> Cardinality(transactions)]))

\* A list as long as the limit counts as cut, whether it is or not.
ServeLookup(n) ==
  LET q == calls[n].arg
      recent == Newest({t \in transactions : t.operator = q.operator /\ t.player = q.player}, RecentLimit)
  IN
  /\ Admitted(n, {"lookup"})
  /\ Reply(n, IF q \notin The.players THEN Status(404)
              ELSE Ok([rows |-> recent, truncated |-> Len(recent) = RecentLimit, usage |-> The.usage]))

ServeReports(n) ==
  /\ ServePage(n) \/ ServeSummary(n) \/ ServeCsv(n) \/ ServeLookup(n)
  /\ UNCHANGED <<sessions, transactions>>

\* A round commits, perhaps behind one that began later.
Insert ==
  /\ Act
  /\ \E t \in The.inserts :
       /\ \A u \in transactions : u.id # t.id
       /\ transactions' = transactions \cup
            {[at |-> t.at, id |-> t.id, operator |-> t.operator, player |-> t.player, type |-> t.type,
              amount |-> t.amount, nth |-> Cardinality(transactions) + 1]}
  /\ UNCHANGED <<situation, sessions, session, route, screen, mounts, calls, issued>>

-----------------------------------------------------------------------------
(* The reports screen                                                      *)

NoQuery == [operator |-> "", player |-> "", from |-> Blank, to |-> Blank]

Asked(query, cursor, run) == [query |-> query, cursor |-> cursor, run |-> run]

\* "of" is what was asked for when the rows were run; "whole" is history: only next pages of the run's own query were appended.
ReportsScreen(mount) ==
  [name |-> "reports", mount |-> mount, query |-> NoQuery, running |-> FALSE, run |-> 0, first |-> NoValue,
   totals |-> NoValue, page |-> NoValue, summary |-> NoValue, rows |-> <<>>, of |-> Asked(NoQuery, NoValue, 0), whole |-> TRUE,
   file |-> NoValue]

Ask(op, query, cursor, run) ==
  Request(op, Asked(query, cursor, run), screen.mount)

Filter ==
  /\ Act
  /\ screen.name = "reports"
  /\ \E q \in The.queries : q # screen.query /\ Update([screen EXCEPT !.query = q], <<>>)
  /\ UNCHANGED transactions

\* Both calls are sent at once, and the report waits for both.
Run ==
  /\ Act
  /\ screen.name = "reports" /\ ~screen.running
  /\ Update([screen EXCEPT !.running = TRUE, !.run = @ + 1, !.first = NoValue, !.totals = NoValue, !.file = NoValue],
            <<Ask("transactions", screen.query, NoValue, screen.run + 1),
              Ask("summary", screen.query, NoValue, screen.run + 1)>>)
  /\ UNCHANGED transactions

\* Nothing keeps a second click, or a new run, from overtaking this.
LoadMore ==
  /\ Act
  /\ screen.name = "reports" /\ screen.page # NoValue /\ screen.page.next # NoValue /\ screen.rows # <<>>
  /\ Update(screen, <<Ask("transactions", screen.query, screen.page.next, screen.of.run)>>)
  /\ UNCHANGED transactions

ExportCsv ==
  /\ Act
  /\ screen.name = "reports" /\ The.exports
  /\ Update(screen, <<Ask("csv", screen.query, NoValue, 0)>>)
  /\ UNCHANGED transactions

\* Promise.all: the first failure empties the report, and the other answer
\* is of no use.
RunFailed(s) ==
  [s EXCEPT !.running = FALSE, !.page = NoValue, !.rows = <<>>, !.summary = NoValue, !.first = NoValue, !.totals = NoValue]

RunDone(s, asked) ==
  [s EXCEPT !.running = FALSE, !.page = s.first, !.rows = s.first.rows, !.summary = s.totals, !.of = asked,
            !.whole = TRUE, !.first = NoValue, !.totals = NoValue]

OnRun(c, field) ==
  LET s == [screen EXCEPT ![field] = c.reply.body] IN
  IF c.arg.run # screen.run \/ ~screen.running THEN screen
  ELSE IF ~Good(c) THEN RunFailed(screen)
  ELSE IF s.first # NoValue /\ s.totals # NoValue THEN RunDone(s, c.arg) ELSE s

OnMore(c) ==
  IF ~Good(c) THEN screen
  ELSE [screen EXCEPT !.rows = @ \o c.reply.body.rows,
                      !.page = [c.reply.body EXCEPT !.of = IF screen.page = NoValue THEN 0 ELSE screen.page.of],
                      !.whole = @ /\ screen.page # NoValue /\ screen.page.next = c.arg.cursor
                                  /\ c.arg.query = screen.of.query /\ c.arg.run = screen.of.run]

\* Only the export that was just asked for is looked at.
OnCsv(c) ==
  LET body == c.reply.body IN
  IF ~Good(c) THEN screen
  ELSE [screen EXCEPT !.file = [rows |-> body.rows, truncated |-> body.truncated, of |-> body.of, query |-> c.arg.query]]

-----------------------------------------------------------------------------
(* The support screen                                                      *)

SupportScreen(mount) == [name |-> "support", mount |-> mount, searching |-> FALSE, result |-> NoValue]

Search ==
  /\ Act
  /\ screen.name = "support" /\ ~screen.searching
  /\ \E player \in The.searches :
       Update([screen EXCEPT !.searching = TRUE], <<Request("lookup", player, screen.mount)>>)
  /\ UNCHANGED transactions

\* currentUsage: the latest row of the period kind, be it over or not.
CurrentUsage(usage, period) ==
  LET ofPeriod == {row \in usage : row.period = period} IN
  IF ofPeriod = {} THEN [staked |-> 0, won |-> 0]
  ELSE LET latest == CHOOSE row \in ofPeriod : \A other \in ofPeriod : other.key <= row.key IN
       [staked |-> latest.staked, won |-> latest.won]

Lost(usage) == Max({0, usage.staked - usage.won})

OnLookup(c) ==
  [screen EXCEPT !.searching = FALSE,
                 !.result = IF ~Good(c) THEN NoValue
                            ELSE [rows |-> c.reply.body.rows, truncated |-> c.reply.body.truncated,
                                  lost |-> Lost(CurrentUsage(c.reply.body.usage, "daily"))]]

-----------------------------------------------------------------------------
OnReportsAnswer(c) ==
  [screen |-> IF c.mount # screen.mount THEN screen
              ELSE CASE c.op = "transactions" -> IF c.arg.cursor # NoValue THEN OnMore(c) ELSE OnRun(c, "first")
                     [] c.op = "summary" -> OnRun(c, "totals")
                     [] c.op = "csv" -> OnCsv(c)
                     [] c.op = "lookup" -> OnLookup(c),
   send |-> <<>>]

ReportsStep == Filter \/ Run \/ LoadMore \/ ExportCsv \/ Search
=============================================================================
