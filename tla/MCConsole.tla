----------------------------- MODULE MCConsole -----------------------------
(* The situations of Console for TLC.                                      *)
EXTENDS Console

CONSTANTS op1, op2, ana, dee, g1, g2, p1, p2

Nobody == [o \in Operators \cup Staff |-> NoValue]

Modules == <<"wheel", "pick", "freeSpins">>

-----------------------------------------------------------------------------
(* Games                                                                   *)

Regular(symbol, paytable) == [NoRule EXCEPT !.symbol = symbol, !.role = "regular", !.paytable = paytable]
Wild(symbol, all, list, expanding) ==
  [NoRule EXCEPT !.symbol = symbol, !.role = "wild",
                 !.wild = [all |-> all, list |-> list, expanding |-> expanding, multiplier |-> 2]]
Scatter(symbol, payout, wildCounts) ==
  [NoRule EXCEPT !.symbol = symbol, !.role = "scatter",
                 !.scatter = [payout |-> payout, wildCounts |-> wildCounts]]
Trigger(symbol, module, minCount) ==
  [NoRule EXCEPT !.symbol = symbol, !.role = "bonusTrigger",
                 !.trigger = [module |-> module, minCount |-> minCount, wildCounts |-> FALSE]]

Line(rows) == [reel \in 0 .. Len(rows) - 1 |-> rows[reel + 1]]
Strips(strips) == [reel \in 0 .. Len(strips) - 1 |-> strips[reel + 1]]

Plain2 == 2 :> 3
Plain3 == 2 :> 1 @@ 3 :> 5

\* Two reels, one row, one symbol.
Small ==
  [name |-> "A", grid |-> [reels |-> 2, rows |-> 1], rtp |-> 96, rule |-> "sum", currency |-> "A",
   bets |-> <<3>>, modules |-> <<>>, mode |-> "reel-strip", weights |-> [reel \in {} |-> 0],
   symbols |-> <<Regular("A", Plain2)>>, strips |-> Strips(<<<<"A">>, <<"A">>>>),
   paylines |-> <<Line(<<0, 0>>)>>, assets |-> Absent, theme |-> Absent]

\* Wilds that expand, a scatter, a bonus; two lines of three reels.
Rich ==
  [Small EXCEPT
     !.grid = [reels |-> 3, rows |-> 2],
     !.modules = <<[id |-> "wheel", chance |-> Absent]>>,
     !.symbols = <<Regular("A", Plain3), Wild("W", TRUE, {}, TRUE), Scatter("S", 2 :> 1 @@ 3 :> 4, FALSE),
                   Trigger("B", "wheel", 3)>>,
     !.strips = Strips(<<<<"A", "S", "B">>, <<"A", "W", "S">>, <<"B", "A", "W", "S">>>>),
     !.paylines = <<Line(<<0, 0, 0>>), Line(<<1, 0, Absent>>)>>]

\* Five reels, which the defaults of the symbol editor are made for.
Wide ==
  [Small EXCEPT
     !.grid = [reels |-> 5, rows |-> 1], !.rule = "highestOnly",
     !.modules = <<[id |-> "wheel", chance |-> Absent], [id |-> "pick", chance |-> 50]>>,
     !.symbols = <<Regular("A", RegularPays), Regular("B", RegularPays), Wild("W", FALSE, {"A"}, TRUE)>>,
     !.strips = Strips(<<<<"A">>, <<"A", "B">>, <<"A", "W">>, <<"B">>, <<"B">>>>),
     !.paylines = <<Line(<<0, 0, 0, 0, 0>>), Line(<<0, 0, 0, 0, Absent>>)>>]

\* Weighted reels, a scatter that wilds count towards, a bonus by chance.
Weights ==
  [Small EXCEPT
     !.mode = "weighted-symbol", !.rule = Absent,
     !.modules = <<[id |-> "pick", chance |-> 100]>>,
     !.symbols = <<Regular("A", Plain2), Wild("W", FALSE, {"A", "S"}, FALSE), Scatter("S", 2 :> 3, TRUE)>>,
     !.strips = [reel \in {} |-> <<>>],
     !.weights = [reel \in 0 .. 1 |-> "A" :> 2 @@ "W" :> 1 @@ "S" :> reel]]

\* A situation in which the user does nothing; each of them says more.
Idle ==
  [acts |-> 0, role |-> "super_admin", routes |-> {}, start |-> "game", faults |-> FALSE, revokes |-> FALSE,
   tabs |-> {}, fields |-> {}, patient |-> FALSE, blank |-> Small, drafts |-> {}, transactions |-> {},
   desk |-> Nobody, grants |-> {}, queries |-> {}, inserts |-> {}, exports |-> FALSE, players |-> {},
   searches |-> {}, usage |-> {}]

Draft(draft) == [draft |-> draft, live |-> NoValue]

\* Edits, saves, a sign-out, a sign-in and another screen.
Saving ==
  [Idle EXCEPT !.acts = 3, !.role = "game_designer", !.routes = {"games"},
               !.tabs = {"settings"}, !.fields = {"name"}, !.drafts = {Draft(Small)}]

\* Edits of two fields, calls that fail, sessions that end elsewhere.
Failing ==
  [Saving EXCEPT !.routes = {"games", "game"}, !.fields = {"name", "currency"},
                 !.faults = TRUE, !.revokes = TRUE]

\* Artwork and theme, whose fields the server keeps or drops by other rules.
Dressing ==
  [Idle EXCEPT !.acts = 3, !.role = "game_designer", !.routes = {"games", "game"},
               !.tabs = {"artwork"}, !.fields = {"assets"}, !.drafts = {Draft(Small)}]

\* Artwork is uploaded and a name typed; the two are stored over each other.
Overlapping ==
  [Dressing EXCEPT !.routes = {}, !.tabs = {"artwork", "settings"}, !.fields = {"name"}]

\* A theme is set or cleared while other fields are edited.
Themed == [Small EXCEPT !.theme = Entry(Absent, CHOOSE key \in ThemeKeys : TRUE, "B")]

Theming ==
  [Idle EXCEPT !.acts = 3, !.role = "game_designer", !.tabs = {"settings", "theme"}, !.fields = {"name", "theme"},
               !.drafts = {Draft(Small), Draft(Themed)}]

\* Every control of the builder, one at a time, on games of several kinds.
Designing ==
  [Idle EXCEPT !.acts = 2, !.patient = TRUE,
               !.tabs = {"settings", "symbols", "reels", "paylines", "theme"}, !.fields = DOMAIN Small,
               !.drafts = {Draft(Rich), Draft(Wide), Draft(Weights)}]

\* Two edits of a game that has next to nothing.
Growing == [Designing EXCEPT !.acts = 2, !.drafts = {Draft(Small)}]

\* A game is created, or opened from what is live, simulated and published.
Publishing ==
  [Idle EXCEPT !.acts = 3, !.routes = {"games", "game"}, !.start = "games", !.faults = TRUE,
               !.tabs = {"math", "history", "settings"}, !.fields = {"name"},
               !.drafts = {Draft(NoValue), [draft |-> NoValue, live |-> [version |-> 1, def |-> Small]], Draft(Small)}]

-----------------------------------------------------------------------------
(* Money                                                                   *)

Transaction(at, id, player, type, amount) ==
  [at |-> at, id |-> id, operator |-> op1, player |-> player, type |-> type, amount |-> amount]
Numbered(rows) == {rows[i] @@ [nth |-> i] : i \in DOMAIN rows}

Day(n) == [kind |-> "day", at |-> n]
Instant(n) == [kind |-> "instant", at |-> n]
Query(player, from, to) == [operator |-> "", player |-> player, from |-> from, to |-> to]

Spin == <<Transaction(1, 1, p1, "debit", 3), Transaction(1, 2, p1, "credit", 5), Transaction(1, 3, p2, "debit", 1),
          Transaction(3, 5, p1, "debit", 2)>>

\* Rows that share an instant, rounds that commit late, pages and exports of
\* queries by day, by instant and by player; calls may fail.
Reports ==
  [Idle EXCEPT !.acts = 3, !.role = "viewer", !.start = "reports", !.transactions = Numbered(Spin),
               !.exports = TRUE, !.faults = TRUE,
               !.queries = {Query(p1, Day(0), Day(0)), Query("", Instant(3), Instant(1))},
               !.inserts = {Transaction(1, 4, p1, "credit", 1), Transaction(4, 6, p2, "debit", 4)}]

Support ==
  [Idle EXCEPT !.acts = 4, !.role = "operations", !.start = "support", !.routes = {"support", "audit"},
               !.transactions = Numbered(Spin), !.inserts = {Transaction(4, 6, p2, "debit", 4)},
               !.players = {[operator |-> op1, player |-> p1], [operator |-> op1, player |-> p2]},
               !.searches = {[operator |-> op1, player |-> p] : p \in {p1, p2}} \cup {[operator |-> op2, player |-> p1]},
               !.usage = {[period |-> "daily", key |-> 0, staked |-> 5, won |-> 2],
                          [period |-> "daily", key |-> 1, staked |-> 2, won |-> 3]}]

-----------------------------------------------------------------------------
(* Operators and users                                                     *)

\* Operators are created, changed, disabled; secrets rotated and shown.
OperatorsDesk ==
  [Idle EXCEPT !.acts = 3, !.role = "operations", !.start = "operators", !.faults = TRUE, !.grants = {g1},
               !.desk = [Nobody EXCEPT ![op1] = Row({g1}, 0)]]

\* Two games are toggled from one list.
Toggling == [OperatorsDesk EXCEPT !.acts = 2, !.grants = {g1, g2}]

UsersDesk ==
  [Idle EXCEPT !.acts = 2, !.start = "users", !.routes = {"users"}, !.grants = {"viewer", "game_designer"},
               !.desk = [Nobody EXCEPT ![ana] = Row({"viewer"}, 0), ![dee] = Row({"viewer"}, 0)]]

\* Every screen, for each role; the user's sessions may end elsewhere.
Touring(role) ==
  [Idle EXCEPT !.acts = 3, !.role = role, !.revokes = TRUE, !.start = "games", !.drafts = {Draft(Small)},
               !.routes = {"games", "game", "reports", "support", "operators", "users", "audit"}]

-----------------------------------------------------------------------------
Situations ==
  [s \in Situation |->
     LET of == CASE s = "saving" -> Saving [] s = "failing" -> Failing
                 [] s = "dressing" -> Dressing [] s = "overlapping" -> Overlapping
                 [] s = "designing" -> Designing [] s = "growing" -> Growing [] s = "theming" -> Theming
                 [] s = "publishing" -> Publishing [] s = "reports" -> Reports [] s = "support" -> Support
                 [] s = "operators" -> OperatorsDesk [] s = "toggling" -> Toggling [] s = "users" -> UsersDesk
                 [] s = "touring" -> Touring("super_admin") [] s = "looking" -> Touring("viewer")
     IN IF of.drafts = {} THEN [of EXCEPT !.drafts = {Draft(NoValue)}] ELSE of]
=============================================================================
