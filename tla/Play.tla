-------------------------------- MODULE Play --------------------------------
(***************************************************************************)
(* A player's pages and game-socket together: GameClient and SocketSession  *)
(* over the connections of PlayWire.                                        *)
(***************************************************************************)
EXTENDS SocketSession, GameClient

CONSTANT Situation

ASSUME PlayAssumption == Situation \subseteq Bounds

vars == <<wireVars, serverVars, clientVars>>

TypeOK == WireTypeOK /\ ServerTypeOK /\ ClientTypeOK

Init ==
  /\ situation \in Situation
  /\ page = 1 /\ link = [c \in Page |-> "none"] /\ socket = "connecting"
  /\ toServer = <<>> /\ toClient = <<>>
  /\ sessions = [c \in Page |-> NoValue] /\ handler = [s \in Slot |-> NoValue]
  /\ usedTokens = {} /\ balance = 1 /\ bonuses = [b \in Round |-> NoValue] /\ overtaken = {}
  /\ spins = 0 /\ ui = NewPage

Connect == Accept /\ Open
Serving(s) == ServerStep(s) /\ UNCHANGED clientVars
Failing(s) == BackendFails(s) /\ UNCHANGED clientVars
Closing(c) == OnClose(c) /\ UNCHANGED clientVars
Sweeping == Sweep /\ UNCHANGED <<wireVars, sessions, handler, overtaken, clientVars>>
Breaking == Break /\ UNCHANGED <<serverVars, clientVars>>
Crashing == SocketCrash /\ UNCHANGED clientVars
Playing == PlayerStep /\ UNCHANGED serverVars
Showing == PageStep /\ UNCHANGED serverVars
Loading == (Load \/ Fatal) /\ UNCHANGED serverVars

Next ==
  \/ Connect \/ Sweeping \/ Breaking \/ Crashing \/ Playing \/ Showing \/ Loading
  \/ \E s \in Slot : Serving(s) \/ Failing(s)
  \/ \E c \in Page : Closing(c)

\* Node runs the handlers whose answers have come, game-backend answers or the
\* call fails, and the browser delivers the events of its socket.  Nothing is
\* assumed of the player, of frames, of timers, of the sweep or of faults.
Fairness ==
  /\ WF_vars(Connect)
  /\ \A s \in Slot : WF_vars(Serving(s))
  /\ WF_vars(Receive /\ UNCHANGED serverVars)
  /\ WF_vars(Disconnected /\ UNCHANGED serverVars)

Spec == Init /\ [][Next]_vars /\ Fairness

----------------------------------------------------------------------------
Handling(call) == \E s \in Slot : handler[s] # NoValue /\ handler[s].conn = page /\ handler[s].call = call
Coming(type) == \E i \in 1..Len(toClient) : toClient[i].type = type

\* The rounds the page asked for and has not given up: see GameClient.
Kept == (ui.givenUp + 1)..spins

\* The kept rounds whose spin nobody has answered yet.
Awaited ==
  {r \in Kept :
     \/ \E i \in 1..Len(toServer) : toServer[i] = [type |-> "SPIN_REQUEST", round |-> r]
     \/ \E s \in Slot : handler[s] # NoValue /\ handler[s].call = "spin" /\ handler[s].arg = r}

\* game-socket handles the messages of a connection concurrently (server.ts
\* 159), so that a player has one spin under way is up to the page alone: no
\* press, frame, timer, autoplay run or answer makes it ask for a second, save
\* after an ERROR, which names no request and ends whatever the page did
\* (main.ts 338), or after the answer of an earlier round, which names none
\* either, or among the remains of a round that it had left early.
OneRoundAtATime == Cardinality(Awaited) <= 1

\* The round that a handler's call is about.
About(h) == CASE h.call = "start" -> h.arg.round [] h.call \in {"spin", "step"} -> h.arg [] OTHER -> NoValue

\* An answer about a round that the page gave up, or about an abandoned bonus.
Belated(h) ==
  \/ About(h) \in 1..ui.givenUp
  \/ h.call = "step" /\ h.got # NoValue /\ h.got.refusal = "bonus_session_abandoned"

\* A connection that stays joined no longer knows the bonus by its number.
Forgets(c, b) ==
  /\ sessions[c] # NoValue /\ sessions[c].activeBonusSessionId = b
  /\ sessions'[c] # NoValue /\ sessions'[c].activeBonusSessionId # b

\* A bonus that is still open is not overwritten by the next one (session.ts
\* 153) nor cleared by the end of another (session.ts 248), however reels,
\* timers and answers interleave: that only one is open per connection
\* (session.ts 29) is up to the page, which does not spin into a bonus.  After
\* an ERROR it does (main.ts 338 returns to idle): then a second trigger, or a
\* late answer about the round given up, makes the connection forget an open
\* bonus, which nobody can play on and the sweep closes unpaid.
OnlyGivenUpBonusesAreForgotten ==
  [][\A c \in Page, b \in Round : Forgets(c, b) /\ bonuses[b].status = "active" =>
       b <= ui.givenUp \/ \E s \in Slot : handler'[s] # handler[s] /\ handler[s] # NoValue /\ Belated(handler[s])]_vars

\* The page never waits in the bonus phase for a bonus that will not come: it
\* shows one, or one, an error or the end of the connection is on its way,
\* save when the reels stopped after their round had been left (a hidden tab
\* gets timers and messages but no frames, so the callback of main.ts 287-314
\* may run last and nothing leads out of the phase it sets).
BonusPhaseHasABonus ==
  ui.phase = "bonus" =>
    \/ ui.panel # "none" \/ Coming("BONUS_STEP_RESULT") \/ Coming("ERROR") \/ Handling("start")
    \/ socket = "lost" \/ ui.late

\* What the page shows or will: the balance, then the messages on their way.
Shown == <<ui.balance>> \o toClient
\* A balance that a kept round returned.
IsBalance(m) == m.type \in {"BALANCE_UPDATE", "JOINED"} /\ m.of \in Kept

\* The balance on the page never goes back to an older one: the answers of
\* concurrent handlers reach it in the order of the changes they report.  A
\* balance that is read after a bonus without a win (session.ts 150, 255) is
\* left out: that read can answer after the next round.
BalancesInOrder ==
  \A i, j \in DOMAIN Shown :
    i <= j /\ IsBalance(Shown[i]) /\ IsBalance(Shown[j]) => Shown[i].balance <= Shown[j].balance

\* The map of sessions forgets a connection that has closed (server.ts
\* 168-171), unless the close overtook its JOIN, whose handler then enters a
\* session that nothing removes (session.ts 173).
ClosedIsForgotten == \A c \in Page : link[c] = "closed" /\ sessions[c] # NoValue => c \in overtaken

\* Every spin ends: with its result, an error or the loss of the connection.
SpinsAreAnswered == ui.phase = "spinning" ~> ui.phase # "spinning"
=============================================================================
