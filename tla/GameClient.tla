----------------------------- MODULE GameClient -----------------------------
(***************************************************************************)
(* The game page: the phase machine (state/gameState.ts), the autoplay run  *)
(* (state/autoplay.ts), the bonus panel (ui/bonusPanel.ts), the reveal of   *)
(* the reels and the wiring of main.ts.  The state machine notifies its     *)
(* listeners before it returns, so a transition to idle may end in the next *)
(* spin of an autoplay run: an event's effect is its whole chain of them.   *)
(* A frame, a timer and a message can come in any order: a hidden tab gets  *)
(* no frames at all.                                                        *)
(***************************************************************************)
EXTENDS PlayWire

VARIABLES
  ui,       \* phase, reveal, panel, timers, autoplay run, the balance shown
  spins     \* the spins asked for so far

clientVars == <<ui, spins>>

Phase == {"idle", "spinning", "revealing", "skipped", "bonus", "offline", "unrecoverable"}

Ui ==
  [phase : Phase,
   reveal : {"none", "plain", "triggered"},   \* the callback the moving reels will run
   panel : Module \cup {"none", "resolved"}, inFlight : BOOLEAN,
   wheelTurns : BOOLEAN, dwell : BOOLEAN,     \* the panel's two timers
   running : BOOLEAN, left : Nat, stopOnWin : BOOLEAN,
   balance : BalanceMessage,
   \* history, for the properties: the last round that an error gave up, that
   \* took the answer of an earlier one for its own or that began among the
   \* remains of one, and whether the reels stopped after the page had left
   \* their reveal
   givenUp : 0..MaxSpins, late : BOOLEAN]

ClientTypeOK == ui \in Ui /\ spins \in 0..MaxSpins

NewPage ==
  [phase |-> "offline", reveal |-> "none", panel |-> "none", inFlight |-> FALSE, wheelTurns |-> FALSE,
   dwell |-> FALSE, running |-> FALSE, left |-> 0, stopOnWin |-> FALSE,
   balance |-> Balance("JOINED", 0, NoValue),
   givenUp |-> spins, late |-> FALSE]

Stopped(s) == [s EXCEPT !.running = FALSE, !.left = 0]

\* Mutant: a press while a spin is under way spins again.
SpinWhileSpinning(s) == s.phase \in {"idle", "spinning", "revealing"}

\* deriveEnablement: mid-reveal the live button means skip.
SpinEnabled(s) == s.phase \in {"idle", "revealing"}
SkipAffordance(s) == s.phase = "revealing"

\* A balance that has not been told covers no bet; after the last of the situation none does.
MayAfford(s) == s.balance.balance > 0 /\ spins < situation.spins

\* What is left of a round on the page when the next one begins and could end
\* it.  The callback of a round that triggered a bonus may be left too (main.ts
\* 287-314, when frames come late): it leads to the bonus phase, not to idle.
Remains(s) == s.reveal = "plain" \/ s.panel # "none" \/ s.wheelTurns \/ s.dwell

\* client.spin on a socket that is open: the request is sent.
AskSpin(s) ==
  /\ socket = "open" /\ MayAfford(s)
  /\ ui' = [s EXCEPT !.phase = "spinning", !.givenUp = IF Remains(s) THEN spins + 1 ELSE @]
  /\ spins' = spins + 1
  /\ toServer' = Append(toServer, [type |-> "SPIN_REQUEST", round |-> spins + 1])

Shows(s) == ui' = s /\ UNCHANGED <<spins, toServer>>

\* Mutant: the count is checked one spin too late.
FireOneMore(s) ==
  \/ s.left >= 0 /\ AskSpin([s EXCEPT !.left = @ - 1])
  \/ Shows(Stopped(s))

\* fireNext, from idle.  On a socket that is not open every spin fails back
\* into idle and fires the next, until the run's count is used up.
FireNext(s) ==
  \/ s.left > 0 /\ AskSpin([s EXCEPT !.left = @ - 1])
  \/ Shows(Stopped(s))

\* GameStateMachine.transition and its listeners.
Transition(s, phase) ==
  CASE phase \in {"offline", "unrecoverable"} -> Shows(Stopped([s EXCEPT !.phase = phase]))
    [] phase = "idle" /\ s.running -> FireNext([s EXCEPT !.phase = "idle"])
    [] OTHER -> Shows([s EXCEPT !.phase = phase])

\* handleError: an error ends whatever the page was doing.
HandleError(s, code) ==
  Transition([s EXCEPT !.givenUp = spins],
             IF code \in {"token_expired", "token_already_used", "invalid_token"} THEN "unrecoverable" ELSE "idle")

----------------------------------------------------------------------------
\* The player.  spinOrSkip: the button, the space bar.
PressSpin ==
  /\ SpinEnabled(ui) /\ ~SkipAffordance(ui)
  /\ IF socket = "open" THEN AskSpin(ui)
     ELSE MayAfford(ui) /\ HandleError(ui, "not_connected")
  /\ UNCHANGED <<situation, page, link, socket, toClient>>

\* Mutant: a round that triggered a bonus is over when its reels stop.
AfterReelsIdle(s) == "idle"

AfterReels(s) == IF s.reveal = "triggered" THEN "bonus" ELSE "idle"

\* The reels stop: the callback of the spin that started them.
Reveal(s) == Transition([s EXCEPT !.reveal = "none"], AfterReels(s))

Skip ==
  /\ SkipAffordance(ui)
  /\ IF ui.reveal = "none" THEN Transition(ui, "skipped") ELSE Reveal([ui EXCEPT !.phase = "skipped"])
  /\ UNCHANGED <<situation, page, link, socket, toClient>>

ReelsStop ==
  /\ ui.reveal # "none"
  /\ Reveal([ui EXCEPT !.late = @ \/ ui.phase \notin {"revealing", "skipped"}])
  /\ UNCHANGED <<situation, page, link, socket, toClient>>

\* A tile or the free spins' button, unless a step is in flight.
PressStep ==
  /\ ui.panel \in {"pick", "freeSpins"} /\ ~ui.inFlight
  /\ LET s == [ui EXCEPT !.inFlight = TRUE] IN
     IF socket = "open"
     THEN /\ ui' = s /\ UNCHANGED spins
          /\ toServer' = Append(toServer, [type |-> "BONUS_STEP"])
     ELSE HandleError(s, "not_connected")
  /\ UNCHANGED <<situation, page, link, socket, toClient>>

StartAutoplay ==
  /\ ui.phase = "idle" /\ ~ui.running
  /\ \E count \in situation.counts, stopOnWin \in BOOLEAN :
       FireNext([ui EXCEPT !.running = TRUE, !.left = count, !.stopOnWin = stopOnWin])
  /\ UNCHANGED <<situation, page, link, socket, toClient>>

StopAutoplay ==
  /\ ui.running
  /\ Shows(Stopped(ui))
  /\ UNCHANGED <<situation, page, link, socket, toClient>>

----------------------------------------------------------------------------
\* The bonus panel's timers.
WheelStops ==
  /\ ui.wheelTurns
  /\ Shows([ui EXCEPT !.wheelTurns = FALSE, !.dwell = TRUE])
  /\ UNCHANGED <<situation, page, link, socket, toClient>>

Hide(s) == [s EXCEPT !.panel = "none", !.inFlight = FALSE, !.wheelTurns = FALSE, !.dwell = FALSE]

\* Mutant: the page is not told that the panel is gone.
HideQuietly(s) == Shows(Hide(s))

HandBack(s) == Transition(Hide(s), "idle")

Dismiss ==
  /\ ui.dwell
  /\ HandBack(ui)
  /\ UNCHANGED <<situation, page, link, socket, toClient>>

----------------------------------------------------------------------------
\* The socket's events.  A page may be opened from a link that was used before.
Open ==
  /\ socket = "connecting"
  /\ socket' = "open"
  /\ \E token \in {page - 1, page} \ {0} : toServer' = Append(toServer, [type |-> "JOIN", token |-> token])
  /\ UNCHANGED <<situation, page, toClient, clientVars>>

Disconnected ==
  /\ socket = "lost"
  /\ socket' = "closed"
  /\ Transition(ui, "offline")
  /\ UNCHANGED <<situation, page, link, toClient>>

\* The browser may report an error before the close.
SocketError ==
  /\ socket = "lost"
  /\ HandleError(ui, "connection_failed")
  /\ UNCHANGED <<situation, page, link, socket, toClient>>

Joined(message) == Transition([ui EXCEPT !.balance = message], "idle")

\* The page takes the answer of an earlier round for that of the last.
Taken(s, message) == IF message.of = spins THEN s ELSE [s EXCEPT !.givenUp = spins]

\* notifySpinResult, then the reveal, which replaces the callback of any other.
SpinResult(message) ==
  LET s == Taken(IF ui.running /\ ui.stopOnWin /\ message.won THEN Stopped(ui) ELSE ui, message) IN
     Transition([s EXCEPT !.reveal = IF message.triggered = NoValue THEN "plain" ELSE "triggered",
                         !.late = FALSE], "revealing")

\* render: a free spin is replayed on the reels, without a callback.
Rendered(s, state) ==
  [s EXCEPT !.reveal = IF state.module = "freeSpins" /\ state.stepped THEN "none" ELSE @,
            !.inFlight = FALSE,
            !.panel = IF state.done /\ state.module # "wheel" THEN "resolved" ELSE state.module,
            !.wheelTurns = (state.module = "wheel") \/ @,
            !.dwell = (state.done /\ state.module # "wheel") \/ @]

Receive ==
  /\ socket = "open" /\ toClient # <<>>
  /\ toClient' = Tail(toClient)
  /\ LET message == Head(toClient) IN
     CASE message.type = "JOINED" -> Joined(message)
       [] message.type = "SPIN_RESULT" -> SpinResult(message)
       [] message.type = "BALANCE_UPDATE" -> Shows([ui EXCEPT !.balance = message])
       [] message.type = "BONUS_STEP_RESULT" -> Shows(Rendered(Taken(ui, message), message))
       [] message.type = "ERROR" -> HandleError(ui, message.code)
  /\ UNCHANGED <<situation, page, link, socket>>

----------------------------------------------------------------------------
\* The player loads another page, launched anew or from the old link, or the
\* game cannot be started on this one.
Load ==
  /\ page < situation.pages
  /\ page' = page + 1
  /\ link' = [link EXCEPT ![page] = IF @ = "open" THEN "lost" ELSE @]
  /\ toServer' = <<>> /\ toClient' = <<>>
  /\ ui' = NewPage
  /\ UNCHANGED <<situation, spins>>
  /\ socket' = "connecting"

Fatal ==
  /\ socket = "connecting" /\ link[page] = "none" /\ ui.phase = "offline"
  /\ Transition(ui, "unrecoverable")
  /\ socket' = "closed"
  /\ UNCHANGED <<situation, page, link, toClient>>

PlayerStep == PressSpin \/ Skip \/ PressStep \/ StartAutoplay \/ StopAutoplay
PageStep == ReelsStop \/ WheelStops \/ Dismiss \/ Disconnected \/ SocketError \/ Receive
=============================================================================
