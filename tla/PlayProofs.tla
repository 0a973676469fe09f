------------------------------ MODULE PlayProofs ------------------------------
(***************************************************************************)
(* The game page and game-socket, for any numbers of pages, rounds, slots  *)
(* and steps, and any situations.                                          *)
(*                                                                         *)
(* The argument follows a round: it is asked for, told, and its bonus      *)
(* started, stepped and settled, each once and in this order, wherever the *)
(* handlers and the messages are.  A round that is not over yet, and that  *)
(* the page kept, is the last one, and the page is neither idle nor has a  *)
(* timer or a callback that leads it there.                                *)
(***************************************************************************)
EXTENDS Play, SequenceTheorems, FiniteSetTheorems, TLAPS

-----------------------------------------------------------------------------
(* Where a round is                                                        *)

Busy(s, call) == handler[s] # NoValue /\ handler[s].call = call
\* The page's handlers.
Here(s) == handler[s] # NoValue /\ handler[s].conn = page

Request(r) == [type |-> "SPIN_REQUEST", round |-> r]
Requested(r) == \E i \in 1..Len(toServer) : toServer[i] = Request(r)

Spinning(s, r) == Busy(s, "spin") /\ handler[s].arg = r
Starting(s, r) == Busy(s, "start") /\ handler[s].arg.round = r
Stepping(s, r) == Busy(s, "step") /\ handler[s].arg = r

Got(s) == handler[s].got # NoValue
\* The answer of a step that was not refused, and of the one that ended the bonus.
Stepped(s, r) == Stepping(s, r) /\ Got(s) /\ handler[s].got.refusal = NoValue
Ending(s, r) == Stepped(s, r) /\ handler[s].got.done

IsResult(m, r) == m.type = "SPIN_RESULT" /\ m.of = r
IsState(m, r) == m.type = "BONUS_STEP_RESULT" /\ m.of = r

Opened(r) == bonuses[r] # NoValue
Active(r) == Opened(r) /\ bonuses[r].status = "active"

Asked(r) == Requested(r) \/ \E s \in Slot : Spinning(s, r)
Told(r) == \E i \in 1..Len(toClient) : IsResult(toClient[i], r)
Starts(r) == \E s \in Slot : Starting(s, r)
Ends(r) == \E s \in Slot : Ending(s, r)
\* Someone knows the bonus by its number.
Known(r) ==
  \/ \E c \in Page : sessions[c] # NoValue /\ sessions[c].activeBonusSessionId = r
  \/ \E s \in Slot : Stepping(s, r)
  \/ \E i \in 1..Len(toClient) : IsState(toClient[i], r)

\* The round is not over: something is still to come of it.
Pending(r) == Asked(r) \/ Told(r) \/ Starts(r) \/ Ends(r) \/ Active(r)

-----------------------------------------------------------------------------
(* Types                                                                   *)

\* What is known of a bonus is the number of one that was opened.
OpenedInv ==
  /\ \A r \in Round : Known(r) => Opened(r)
  /\ \A s \in Slot : Busy(s, "start") /\ Got(s) => Opened(handler[s].arg.round)
  /\ \A r \in Round : Active(r) => bonuses[r].left > 0

TypeInv == TypeOK /\ OpenedInv

-----------------------------------------------------------------------------
(* The connection                                                          *)

\* Both ends agree that the connection is up; a page that has not connected
\* has no handlers.
LinkInv ==
  /\ socket = "open" <=> link[page] = "open"
  /\ \A c \in Page : link[c] = "open" => c = page
  /\ socket = "connecting" => link[page] = "none"
  /\ \A c \in Page : c > page => link[c] = "none"
  /\ \A s \in Slot : handler[s] # NoValue => link[handler[s].conn] # "none"
  /\ socket # "open" => toServer = <<>> /\ toClient = <<>>

ClosedInv ==
  \A c \in Page : link[c] = "closed" =>
    /\ sessions[c] # NoValue => c \in overtaken
    /\ \A s \in Slot : Busy(s, "consume") /\ handler[s].conn = c => c \in overtaken

\* A page that has not joined: nothing was asked, shown or sent.
Untouched ==
  /\ ui.phase \in {"offline", "unrecoverable"} /\ ui.givenUp = spins
  /\ ui.reveal = "none" /\ ui.panel = "none" /\ ~ui.wheelTurns /\ ~ui.dwell

IsJoin(s) == Here(s) /\ (handler[s].call = "consume" \/ (handler[s].call = "balance" /\ handler[s].arg = "JOINED"))

JoinSent == toClient = <<>> /\ Len(toServer) = 1 /\ toServer[1].type = "JOIN" /\ \A s \in Slot : ~Here(s)
JoinHandled ==
  /\ toClient = <<>> /\ toServer = <<>>
  /\ \E s \in Slot : IsJoin(s) /\ \A t \in Slot : Here(t) => t = s
JoinAnswered == toServer = <<>> /\ Len(toClient) = 1 /\ toClient[1].type = "JOINED" /\ \A s \in Slot : ~Here(s)
NoJoin ==
  /\ \A i \in 1..Len(toServer) : toServer[i].type # "JOIN"
  /\ \A i \in 1..Len(toClient) : toClient[i].type # "JOINED"
  /\ \A s \in Slot : ~IsJoin(s)

JoinInv ==
  /\ socket = "connecting" => Untouched
  /\ socket = "open" => (Untouched /\ (JoinSent \/ JoinHandled \/ JoinAnswered)) \/ NoJoin

-----------------------------------------------------------------------------
(* Rounds on their way                                                     *)

OneSpin(r) ==
  /\ \A i, j \in 1..Len(toServer) : toServer[i] = Request(r) /\ toServer[j] = Request(r) => i = j
  /\ \A s, t \in Slot : Spinning(s, r) /\ Spinning(t, r) => s = t
  /\ \A s \in Slot : Spinning(s, r) => ~Requested(r)

OneResult(r) ==
  /\ \A i, j \in 1..Len(toClient) : IsResult(toClient[i], r) /\ IsResult(toClient[j], r) => i = j
  /\ Told(r) => ~Asked(r)
  /\ \A i \in 1..Len(toClient) :
       IsResult(toClient[i], r) /\ toClient[i].triggered = NoValue => ~Starts(r) /\ ~Opened(r)

OneStart(r) ==
  /\ \A s, t \in Slot : Starting(s, r) /\ Starting(t, r) => s = t
  /\ Starts(r) \/ Opened(r) => ~Asked(r)
  /\ \A s \in Slot : Starting(s, r) /\ ~Got(s) => ~Opened(r)
  /\ Known(r) => ~Starts(r)

OneEnd(r) ==
  /\ \A s, t \in Slot : Ending(s, r) /\ Ending(t, r) => s = t
  /\ Ends(r) => ~Active(r)
  /\ \A s \in Slot : Starting(s, r) /\ Got(s) /\ handler[s].got.done => ~Active(r)
  /\ \A i, j \in 1..Len(toClient) : IsState(toClient[i], r) /\ IsResult(toClient[j], r) => j < i
  /\ \A i \in 1..Len(toClient) :
       IsState(toClient[i], r) /\ toClient[i].done => ~Active(r) /\ ~Ends(r)

\* The wheel is over when it is opened.
Wheel(r) ==
  Opened(r) /\ bonuses[r].module = "wheel" =>
    /\ ~Active(r)
    /\ \A s \in Slot : ~Stepped(s, r)
    /\ \A s \in Slot : Starting(s, r) /\ Got(s) => handler[s].got.done

WheelShown(r) ==
  \A i \in 1..Len(toClient) :
    IsState(toClient[i], r) /\ toClient[i].module = "wheel" => toClient[i].done

\* Nothing is known of a round that was not asked for.
Future(r) ==
  r > spins => ~Asked(r) /\ ~Told(r) /\ ~Starts(r) /\ ~Opened(r)

RoundInv(r) == OneSpin(r) /\ OneResult(r) /\ OneStart(r) /\ OneEnd(r) /\ Wheel(r) /\ WheelShown(r) /\ Future(r)

RoundsInv == \A r \in Round : RoundInv(r)

-----------------------------------------------------------------------------
(* The page                                                                *)

\* The page waits for the spin, perhaps with reels that stop late.
WaitsForSpin ==
  /\ ui.phase \in {"spinning", "bonus", "offline", "unrecoverable"}
  /\ ~Remains(ui)

\* Nothing on the page leads to idle.
WaitsForRound(r) ==
  /\ r = spins /\ ui.phase # "idle"
  /\ ~ui.dwell /\ ~ui.wheelTurns /\ ui.reveal # "plain"

PageInv ==
  \A r \in Kept \cap Round :
    /\ Asked(r) \/ Told(r) => WaitsForSpin
    /\ Pending(r) => WaitsForRound(r)

-----------------------------------------------------------------------------
(* The bonus phase                                                         *)

BonusInSight ==
  \/ ui.panel # "none" \/ Coming("BONUS_STEP_RESULT") \/ Coming("ERROR") \/ Handling("start")
  \/ socket = "lost"

PhaseInv ==
  /\ ui.phase \in {"revealing", "skipped"} /\ ui.reveal = "triggered" => BonusInSight
  /\ ui.phase = "bonus" => BonusInSight \/ ui.late
  /\ socket = "closed" => ui.phase \notin {"revealing", "skipped"} /\ (ui.phase = "bonus" => ui.late)
  /\ \A i \in 1..Len(toClient) :
       toClient[i].type = "SPIN_RESULT" /\ toClient[i].triggered # NoValue =>
         Handling("start") \/ \E j \in i..Len(toClient) : toClient[j].type \in {"BONUS_STEP_RESULT", "ERROR"}

-----------------------------------------------------------------------------
(* Balances                                                                *)

\* The balance that the answer of a round's call reports.
Reports(s, r, b) ==
  /\ \/ Spinning(s, r) /\ Got(s) /\ handler[s].got.refusal = NoValue
     \/ ((Starting(s, r) /\ Got(s)) \/ Stepped(s, r)) /\ handler[s].got.done
  /\ b = handler[s].got.balanceAfter

IsTold(m) == m.type \in {"BALANCE_UPDATE", "JOINED"}
\* The messages the page shows or will.
Seen == {ui.balance} \cup {toClient[i] : i \in 1..Len(toClient)}

Older(m, n) == IsBalance(m) /\ IsBalance(n) => m.balance <= n.balance
Ordered ==
  /\ \A i \in 1..Len(toClient) : Older(ui.balance, toClient[i])
  /\ \A i, j \in 1..Len(toClient) : i <= j => Older(toClient[i], toClient[j])

\* What is shown is no newer than the backend, nor than an answer that is on
\* its way about a round the page kept.
BalanceInv ==
  /\ ui.givenUp <= spins
  /\ \A m \in Seen : IsTold(m) => m.balance <= balance /\ (m.of # NoValue => m.of <= spins)
  /\ \A s \in Slot : Busy(s, "balance") /\ Got(s) => handler[s].got <= balance
  /\ \A s \in Slot, r \in Round, b \in Nat : Reports(s, r, b) =>
       b <= balance /\ (r \in Kept => \A m \in Seen : IsBalance(m) => m.balance <= b)
  /\ Ordered

-----------------------------------------------------------------------------
(* Values                                                                  *)

LEMMA MessageKinds ==
  ASSUME NEW m \in ServerToClientMessage
  PROVE  /\ m.type \in {"ERROR", "JOINED", "BALANCE_UPDATE", "SPIN_RESULT", "BONUS_STEP_RESULT"}
         /\ m.type = "ERROR" => m.code \in ErrorCode
         /\ m.type \in {"JOINED", "BALANCE_UPDATE"} => m \in BalanceMessage
         /\ m.type = "SPIN_RESULT" =>
              m.won \in BOOLEAN /\ m.triggered \in Module \cup {NoValue} /\ m.of \in Round
         /\ m.type = "BONUS_STEP_RESULT" =>
              m.module \in Module /\ m.done \in BOOLEAN /\ m.stepped \in BOOLEAN /\ m.of \in Round
BY DEF ServerToClientMessage, BalanceMessage, Error

LEMMA RequestKinds ==
  ASSUME NEW m \in ClientToServerMessage
  PROVE  /\ m.type \in {"JOIN", "SPIN_REQUEST", "BONUS_STEP"}
         /\ m.type = "JOIN" => m.token \in Page
         /\ m.type = "SPIN_REQUEST" => m.round \in Round /\ m = Request(m.round)
BY DEF ClientToServerMessage, Request

LEMMA HandlerKinds ==
  ASSUME NEW h \in Handler
  PROVE  /\ h.conn \in Page /\ h.call \in {"consume", "balance", "spin", "start", "step"}
         /\ h = [conn |-> h.conn, call |-> h.call, arg |-> h.arg, got |-> h.got]
         /\ h.call = "consume" => h.arg \in Page /\ h.got \in BOOLEAN \cup {NoValue}
         /\ h.call = "balance" => h.arg \in {"JOINED", "BALANCE_UPDATE"} /\ h.got \in Nat \cup {NoValue}
         /\ h.call = "spin" => h.arg \in Round /\ h.got \in SpinAnswer \cup {NoValue}
         /\ h.call = "start" =>
              h.arg.round \in Round /\ h.arg.module \in Module /\ h.got \in BonusAnswer \cup {NoValue}
         /\ h.call = "step" => h.arg \in Round /\ h.got \in StepAnswer \cup {NoValue}
BY DEF Handler, Waits

LEMMA AnswerKinds ==
  /\ \A a \in SpinAnswer : IF a.refusal = NoValue
       THEN a.won \in BOOLEAN /\ a.triggered \in Module \cup {NoValue} /\ a.balanceAfter \in Nat
       ELSE a.refusal \in ErrorCode
  /\ \A a \in BonusAnswer :
       a.refusal = NoValue /\ a.done \in BOOLEAN /\ a.balanceAfter \in Nat \cup {NoValue}
  /\ \A a \in StepAnswer : IF a.refusal = NoValue THEN a \in BonusAnswer ELSE a.refusal \in ErrorCode
BY WireAssumption DEF SpinAnswer, StepAnswer, BonusAnswer, ErrorCode

\* What the page keeps when it changes its phase.
SameRound(t, s) ==
  /\ t.reveal = s.reveal /\ t.panel = s.panel /\ t.inFlight = s.inFlight
  /\ t.wheelTurns = s.wheelTurns /\ t.dwell = s.dwell
  /\ t.balance = s.balance /\ t.givenUp = s.givenUp /\ t.late = s.late

\* The page goes to a phase, and from idle perhaps on to the next spin.
Moves(s, phase) ==
  \E t \in Ui :
    /\ SameRound(t, s) /\ t.phase = phase
    /\ Shows(t) \/ (phase = "idle" /\ AskSpin(t))

LEMMA TransitionMoves ==
  ASSUME NEW s \in Ui, NEW phase \in Phase, Transition(s, phase)
  PROVE  Moves(s, phase)
<1> USE DEF Moves, SameRound
<1>1. CASE phase \in {"offline", "unrecoverable"}
  <2> DEFINE t == Stopped([s EXCEPT !.phase = phase])
  <2>1. t \in Ui /\ SameRound(t, s) /\ t.phase = phase
    BY DEF Ui, Stopped
  <2>2. Shows(t)
    BY <1>1 DEF Transition
  <2> HIDE DEF t
  <2> QED
    BY <2>1, <2>2
<1>2. CASE phase = "idle" /\ s.running
  <2> DEFINE idle == [s EXCEPT !.phase = "idle"]
             t == Stopped(idle)
             u == [idle EXCEPT !.left = @ - 1]
  <2>0. idle \in Ui /\ SameRound(idle, s) /\ idle.phase = "idle" /\ idle.left = s.left
    BY DEF Ui, Phase
  <2>1. t \in Ui /\ SameRound(t, s) /\ t.phase = "idle"
    BY DEF Ui, Stopped, Phase
  <2>2. s.left > 0 => u \in Ui /\ SameRound(u, s) /\ u.phase = "idle"
    <3> HIDE DEF idle
    <3>1. idle.left > 0 => idle.left - 1 \in Nat
      BY <2>0 DEF Ui
    <3> QED
      BY <2>0, <3>1 DEF Ui
  <2>3. FireNext(idle)
    BY <1>2 DEF Transition
  <2>4. Shows(t) \/ (s.left > 0 /\ AskSpin(u))
    BY <2>3 DEF FireNext, Ui
  <2> QED
    BY <1>2, <2>1, <2>2, <2>4
<1>3. CASE phase \notin {"offline", "unrecoverable"} /\ ~(phase = "idle" /\ s.running)
  <2> DEFINE t == [s EXCEPT !.phase = phase]
  <2>1. t \in Ui /\ SameRound(t, s) /\ t.phase = phase
    BY DEF Ui
  <2> QED
    BY <1>3, <2>1 DEF Transition
<1> QED
  BY <1>1, <1>2, <1>3

LEMMA ErrorMoves ==
  ASSUME NEW s \in Ui, NEW code, spins \in 0..MaxSpins, HandleError(s, code)
  PROVE  \E phase \in {"idle", "unrecoverable"} : Moves([s EXCEPT !.givenUp = spins], phase)
<1> DEFINE t == [s EXCEPT !.givenUp = spins]
           phase == IF code \in {"token_expired", "token_already_used", "invalid_token"} THEN "unrecoverable" ELSE "idle"
<1>1. t \in Ui /\ phase \in Phase
  BY DEF Ui, Phase
<1>2. Moves(t, phase)
  BY <1>1, TransitionMoves DEF HandleError
<1> QED
  BY <1>2

-----------------------------------------------------------------------------
(* What the page does, in terms of what it was                             *)

\* Moves, spelled out.
After(s, phase) ==
  /\ ui' \in Ui
  /\ ui'.reveal = s.reveal /\ ui'.panel = s.panel /\ ui'.wheelTurns = s.wheelTurns
  /\ ui'.dwell = s.dwell /\ ui'.balance = s.balance /\ ui'.late = s.late
  /\ \/ /\ ui'.phase = phase /\ ui'.givenUp = s.givenUp
        /\ UNCHANGED <<spins, toServer>>
     \/ /\ phase = "idle" /\ socket = "open" /\ spins < MaxSpins
        /\ ui'.phase = "spinning" /\ spins' = spins + 1
        /\ ui'.givenUp = IF Remains(s) THEN spins + 1 ELSE s.givenUp
        /\ toServer' = Append(toServer, Request(spins + 1))

LEMMA MovesAfter ==
  ASSUME TypeOK, NEW s \in Ui, NEW phase \in Phase, Moves(s, phase)
  PROVE  After(s, phase)
<1> PICK t \in Ui :
      /\ SameRound(t, s) /\ t.phase = phase
      /\ Shows(t) \/ (phase = "idle" /\ AskSpin(t))
  BY DEF Moves
<1>1. CASE Shows(t)
  BY <1>1 DEF Shows, After, SameRound
<1>2. CASE phase = "idle" /\ AskSpin(t)
  <2> DEFINE u == [t EXCEPT !.phase = "spinning", !.givenUp = IF Remains(t) THEN spins + 1 ELSE @]
  <2>1. spins < situation.spins /\ situation.spins \in 0..MaxSpins
    BY <1>2 DEF AskSpin, MayAfford, TypeOK, WireTypeOK, Bounds
  <2>2. spins \in 0..MaxSpins /\ spins < MaxSpins /\ spins + 1 \in 0..MaxSpins
    BY <2>1, WireAssumption DEF TypeOK, ClientTypeOK
  <2>3. Remains(t) = Remains(s)
    BY DEF Remains, SameRound
  <2>4. /\ u \in Ui /\ u.phase = "spinning"
        /\ u.reveal = t.reveal /\ u.panel = t.panel /\ u.wheelTurns = t.wheelTurns
        /\ u.dwell = t.dwell /\ u.balance = t.balance /\ u.late = t.late
        /\ u.givenUp = IF Remains(t) THEN spins + 1 ELSE t.givenUp
    BY <2>2 DEF Ui, Phase
  <2>5. ui' = u
    BY <1>2 DEF AskSpin
  <2> HIDE DEF u
  <2> QED
    BY <1>2, <2>2, <2>3, <2>4, <2>5 DEF AskSpin, After, SameRound, Request
<1> QED
  BY <1>1, <1>2

\* Nothing but the page changes.
Still == UNCHANGED <<situation, page, link, socket, toClient, serverVars>>

\* From idle, the page may go on to the next round.
GoesOn == ui.phase = "idle" /\ After(ui, "idle")
\* An error ends whatever the page did.
GivesUp == \E phase \in {"idle", "unrecoverable"} : After([ui EXCEPT !.givenUp = spins], phase)
\* So does the page itself, when it cannot send or hears of the loss.
Trips == GivesUp /\ (ui.phase = "idle" \/ ui.panel # "none" \/ socket = "lost")
\* The reels stop, and the page is late when it had left their reveal.
Stopping ==
  /\ ui.reveal # "none"
  /\ \E late \in BOOLEAN :
       /\ After([ui EXCEPT !.reveal = "none", !.late = late], AfterReels(ui))
       /\ late = ui.late \/ (late /\ ui.phase \notin {"revealing", "skipped"})
       /\ ui.phase \in {"revealing", "skipped"} \/ late
HandsBack == ui.dwell /\ After(Hide(ui), "idle")
\* The page stays in its round.
Stays ==
  /\ ui' \in Ui
  /\ ui'.phase = ui.phase \/ (ui.phase = "revealing" /\ ui.reveal = "none" /\ ui'.phase = "skipped")
  /\ ui'.reveal = ui.reveal /\ ui'.panel = ui.panel /\ ui'.balance = ui.balance
  /\ ui'.late = ui.late /\ ui'.givenUp = ui.givenUp
  /\ ui'.wheelTurns \/ ui'.dwell => ui.wheelTurns \/ ui.dwell
  /\ spins' = spins
  /\ \/ toServer' = toServer
     \/ socket = "open" /\ ui.panel # "none" /\ toServer' = Append(toServer, [type |-> "BONUS_STEP"])

LEMMA ErrorAfter ==
  ASSUME TypeOK, NEW s \in Ui, NEW code, HandleError(s, code)
  PROVE  \E phase \in {"idle", "unrecoverable"} : After([s EXCEPT !.givenUp = spins], phase)
<1>1. spins \in 0..MaxSpins
  BY DEF TypeOK, ClientTypeOK
<1>2. PICK phase \in {"idle", "unrecoverable"} : Moves([s EXCEPT !.givenUp = spins], phase)
  BY <1>1, ErrorMoves
<1>3. [s EXCEPT !.givenUp = spins] \in Ui /\ phase \in Phase
  BY <1>1 DEF Ui, Phase
<1> QED
  BY <1>2, <1>3, MovesAfter

LEMMA ErrorGivesUp ==
  ASSUME TypeOK, NEW code, HandleError(ui, code)
  PROVE  GivesUp
BY ErrorAfter DEF GivesUp, TypeOK, ClientTypeOK

LEMMA ReelsMove ==
  ASSUME TypeOK, NEW s \in Ui, Reveal(s)
  PROVE  After([s EXCEPT !.reveal = "none"], AfterReels(s))
<1>1. [s EXCEPT !.reveal = "none"] \in Ui /\ AfterReels(s) \in Phase
  BY DEF Ui, AfterReels, Phase
<1>2. Moves([s EXCEPT !.reveal = "none"], AfterReels(s))
  BY <1>1, TransitionMoves DEF Reveal
<1> QED
  BY <1>1, <1>2, MovesAfter

LEMMA PlayerMoves ==
  ASSUME TypeOK, Playing
  PROVE  Still /\ (GoesOn \/ Trips \/ Stopping \/ Stays)
<1>0. ui \in Ui /\ spins \in 0..MaxSpins
  BY DEF TypeOK, ClientTypeOK
<1>1. CASE PressSpin
  <2>1. CASE socket = "open"
    <3>1. ui.phase = "idle" /\ AskSpin(ui)
      BY <1>1, <2>1 DEF PressSpin, SpinEnabled, SkipAffordance
    <3>2. After(ui, "idle")
      BY <1>0, <3>1, MovesAfter DEF Moves, SameRound, Phase
    <3> QED
      BY <1>1, <3>1, <3>2 DEF Playing, PressSpin, GoesOn, Still
  <2>2. CASE socket # "open"
    <3>1. HandleError(ui, "not_connected")
      BY <1>1, <2>2 DEF PressSpin
    <3> QED
      BY <1>1, <3>1, ErrorGivesUp DEF Playing, PressSpin, SpinEnabled, SkipAffordance, Still, Trips
  <2> QED
    BY <2>1, <2>2
<1>2. CASE Skip
  <2>1. ui.phase = "revealing"
    BY <1>2 DEF Skip, SkipAffordance
  <2>2. CASE ui.reveal = "none"
    <3>1. ui' = [ui EXCEPT !.phase = "skipped"] /\ UNCHANGED <<spins, toServer>>
      BY <1>2, <2>2 DEF Skip, Transition, Shows
    <3>2. Stays
      BY <1>0, <2>1, <2>2, <3>1 DEF Stays, Ui, Phase
    <3> QED
      BY <1>2, <3>2 DEF Playing, Skip, Still
  <2>3. CASE ui.reveal # "none"
    <3> DEFINE s == [ui EXCEPT !.phase = "skipped"]
    <3>1. s \in Ui
      BY <1>0 DEF Ui, Phase
    <3>2. After([s EXCEPT !.reveal = "none"], AfterReels(s))
      BY <1>2, <2>3, <3>1, ReelsMove DEF Skip
    <3>3. After([ui EXCEPT !.reveal = "none", !.late = ui.late], AfterReels(ui))
      BY <1>0, <3>2 DEF After, AfterReels, Ui, Remains
    <3>4. Stopping
      BY <1>0, <2>1, <2>3, <3>3 DEF Stopping, Ui
    <3> QED
      BY <1>2, <3>4 DEF Playing, Skip, Still
  <2> QED
    BY <2>2, <2>3
<1>3. CASE PressStep
  <2> DEFINE s == [ui EXCEPT !.inFlight = TRUE]
  <2>1. s \in Ui /\ ui.panel # "none"
    BY <1>0, <1>3 DEF Ui, PressStep
  <2>2. CASE socket = "open"
    <3>1. ui' = s /\ spins' = spins /\ toServer' = Append(toServer, [type |-> "BONUS_STEP"])
      BY <1>3, <2>2 DEF PressStep
    <3>2. Stays
      BY <1>0, <2>1, <2>2, <3>1 DEF Stays, Ui
    <3> QED
      BY <1>3, <3>2 DEF Playing, PressStep, Still
  <2>3. CASE socket # "open"
    <3>1. HandleError(s, "not_connected")
      BY <1>3, <2>3 DEF PressStep
    <3>2. PICK phase \in {"idle", "unrecoverable"} : After([s EXCEPT !.givenUp = spins], phase)
      BY <2>1, <3>1, ErrorAfter
    <3>3. GivesUp
      BY <1>0, <3>2 DEF GivesUp, After, Ui, Remains
    <3> QED
      BY <1>3, <2>1, <3>3 DEF Playing, PressStep, Still, Trips
  <2> QED
    BY <2>2, <2>3
<1>4. CASE StartAutoplay
  <2>1. PICK count \in situation.counts, stopOnWin \in BOOLEAN :
          FireNext([ui EXCEPT !.running = TRUE, !.left = count, !.stopOnWin = stopOnWin])
    BY <1>4 DEF StartAutoplay
  <2> DEFINE s == [ui EXCEPT !.running = TRUE, !.left = count, !.stopOnWin = stopOnWin]
  <2>2. count \in Nat
    BY DEF TypeOK, WireTypeOK, Bounds
  <2>3. s \in Ui /\ SameRound(s, ui) /\ s.phase = "idle" /\ s.running
    BY <1>0, <1>4, <2>2 DEF Ui, StartAutoplay, SameRound
  <2>4. s = [s EXCEPT !.phase = "idle"]
    BY <2>3 DEF Ui
  <2>5. Transition(s, "idle")
    <3> HIDE DEF s
    <3> QED
      BY <2>1, <2>3, <2>4 DEF Transition, s
  <2>6. After(s, "idle")
    <3> HIDE DEF s
    <3> QED
      BY <2>3, <2>5, TransitionMoves, MovesAfter DEF Phase
  <2>7. GoesOn
    <3> HIDE DEF s
    <3> QED
      BY <1>4, <2>3, <2>6 DEF GoesOn, After, SameRound, Remains, StartAutoplay
  <2> QED
    BY <1>4, <2>7 DEF Playing, StartAutoplay, Still
<1>5. CASE StopAutoplay
  <2>1. ui' = Stopped(ui) /\ UNCHANGED <<spins, toServer>>
    BY <1>5 DEF StopAutoplay, Shows
  <2>2. Stays
    BY <1>0, <2>1 DEF Stays, Stopped, Ui
  <2> QED
    BY <1>5, <2>2 DEF Playing, StopAutoplay, Still
<1> QED
  BY <1>1, <1>2, <1>3, <1>4, <1>5 DEF Playing, PlayerStep

\* What is about another round than the last one gives the last one up.
GivenUpBy(m) == IF m.of = spins THEN ui.givenUp ELSE spins

\* The first message is taken off the wire.
Receives == socket = "open" /\ toClient # <<>> /\ toClient' = Tail(toClient) /\ UNCHANGED <<situation, page, link, socket, serverVars>>

TakesJoined(m) == m.type = "JOINED" /\ After([ui EXCEPT !.balance = m], "idle")
TakesResult(m) ==
  /\ m.type = "SPIN_RESULT"
  /\ After([ui EXCEPT !.reveal = IF m.triggered = NoValue THEN "plain" ELSE "triggered",
                      !.late = FALSE, !.givenUp = GivenUpBy(m)], "revealing")
TakesBalance(m) ==
  m.type = "BALANCE_UPDATE" /\ ui' = [ui EXCEPT !.balance = m] /\ UNCHANGED <<spins, toServer>>
TakesState(m) ==
  /\ m.type = "BONUS_STEP_RESULT"
  /\ ui' \in Ui /\ ui'.phase = ui.phase /\ ui'.panel # "none" /\ ui'.balance = ui.balance
  /\ ui'.late = ui.late /\ ui'.givenUp = GivenUpBy(m)
  /\ ui'.reveal \in {ui.reveal, "none"}
  /\ ui'.wheelTurns => ui.wheelTurns \/ m.module = "wheel"
  /\ ui'.dwell => ui.dwell \/ (m.module # "wheel" /\ m.done)
  /\ UNCHANGED <<spins, toServer>>
TakesError(m) == m.type = "ERROR" /\ GivesUp

Disconnects ==
  /\ socket = "lost" /\ socket' = "closed" /\ After(ui, "offline")
  /\ UNCHANGED <<situation, page, link, toClient, serverVars>>

LEMMA ReceiveMoves ==
  ASSUME TypeOK, Receive, UNCHANGED serverVars
  PROVE  /\ Receives /\ toClient[1] \in ServerToClientMessage
         /\ LET m == toClient[1] IN
              TakesJoined(m) \/ TakesResult(m) \/ TakesBalance(m) \/ TakesState(m) \/ TakesError(m)
<1> DEFINE m == toClient[1]
<1>1. toClient \in Seq(ServerToClientMessage) /\ toClient # <<>> /\ Head(toClient) = m
  BY DEF Receive, TypeOK, WireTypeOK
<1>2. m \in ServerToClientMessage
  BY <1>1
<1>3. Receives
  BY DEF Receive, Receives
<1>4. ui \in Ui /\ spins \in 0..MaxSpins
  BY DEF TypeOK, ClientTypeOK
<1> HIDE DEF m
<1>5. CASE m.type = "JOINED"
  <2>1. Joined(m)
    BY <1>1, <1>5 DEF Receive
  <2>2. [ui EXCEPT !.balance = m] \in Ui
    BY <1>2, <1>4, <1>5, MessageKinds DEF Ui
  <2>3. TakesJoined(m)
    BY <1>5, <2>1, <2>2, TransitionMoves, MovesAfter DEF Joined, TakesJoined, Phase
  <2> QED
    BY <1>2, <1>3, <2>3 DEF m
<1>6. CASE m.type = "SPIN_RESULT"
  <2> DEFINE t == IF ui.running /\ ui.stopOnWin /\ m.won THEN Stopped(ui) ELSE ui
             u == Taken(t, m)
             v == [u EXCEPT !.reveal = IF m.triggered = NoValue THEN "plain" ELSE "triggered", !.late = FALSE]
             w == [ui EXCEPT !.reveal = IF m.triggered = NoValue THEN "plain" ELSE "triggered",
                      !.late = FALSE, !.givenUp = GivenUpBy(m)]
  <2>1. SpinResult(m)
    BY <1>1, <1>6 DEF Receive
  <2>2. t \in Ui /\ SameRound(t, ui)
    BY <1>4 DEF Ui, Stopped, SameRound
  <2>3. u \in Ui /\ u.givenUp = GivenUpBy(m) /\ SameRound([u EXCEPT !.givenUp = ui.givenUp], ui)
    <3> HIDE DEF t
    <3> QED
      BY <1>4, <2>2 DEF Ui, Taken, GivenUpBy, SameRound
  <2>4. v \in Ui /\ SameRound(v, w)
    <3> HIDE DEF u
    <3> QED
      BY <1>4, <2>3 DEF Ui, SameRound
  <2>5. After(v, "revealing")
    <3>1. Transition(v, "revealing")
      BY <2>1 DEF SpinResult
    <3> HIDE DEF v
    <3> QED
      BY <2>4, <3>1, TransitionMoves, MovesAfter DEF Phase
  <2>6. After(w, "revealing")
    <3> HIDE DEF v, w
    <3> QED
      BY <2>4, <2>5 DEF After, SameRound
  <2> QED
    BY <1>2, <1>3, <1>6, <2>6 DEF m, TakesResult
<1>7. CASE m.type = "BALANCE_UPDATE"
  <2>1. TakesBalance(m)
    BY <1>1, <1>7 DEF Receive, Shows, TakesBalance
  <2> QED
    BY <1>2, <1>3, <2>1 DEF m
<1>8. CASE m.type = "BONUS_STEP_RESULT"
  <2> DEFINE t == Taken(ui, m)
  <2>1. ui' = Rendered(t, m) /\ UNCHANGED <<spins, toServer>>
    BY <1>1, <1>8 DEF Receive, Shows
  <2>2. t \in Ui /\ t.givenUp = GivenUpBy(m) /\ SameRound([t EXCEPT !.givenUp = ui.givenUp], ui) /\ t.phase = ui.phase
    BY <1>4 DEF Ui, Taken, GivenUpBy, SameRound
  <2>3. m.module \in Module /\ m.done \in BOOLEAN /\ m.stepped \in BOOLEAN /\ m.module # "none"
    BY <1>2, <1>8, MessageKinds, WireAssumption
  <2>4. TakesState(m)
    <3> HIDE DEF t
    <3> DEFINE u == Rendered(t, m)
    <3>1. u \in Ui
      <4> DEFINE turns == (m.module = "wheel") \/ t.wheelTurns
                 dwell == (m.done /\ m.module # "wheel") \/ t.dwell
                 panel == IF m.done /\ m.module # "wheel" THEN "resolved" ELSE m.module
                 reveal == IF m.module = "freeSpins" /\ m.stepped THEN "none" ELSE t.reveal
      <4>1. turns \in BOOLEAN /\ dwell \in BOOLEAN
        OBVIOUS
      <4>2. panel \in Module \cup {"none", "resolved"} /\ reveal \in {"none", "plain", "triggered"}
        BY <2>2, <2>3 DEF Ui
      <4>3. u = [t EXCEPT !.reveal = reveal, !.inFlight = FALSE, !.panel = panel, !.wheelTurns = turns, !.dwell = dwell]
        BY DEF Rendered
      <4> HIDE DEF turns, dwell, panel, reveal, u
      <4> QED
        BY <2>2, <4>1, <4>2, <4>3 DEF Ui
    <3>2. /\ u.phase = t.phase /\ u.balance = t.balance /\ u.late = t.late /\ u.givenUp = t.givenUp
          /\ u.panel # "none" /\ u.reveal \in {t.reveal, "none"}
      BY <2>2, <2>3 DEF Ui, Rendered
    <3>3. /\ u.wheelTurns => t.wheelTurns \/ m.module = "wheel"
          /\ u.dwell => t.dwell \/ (m.module # "wheel" /\ m.done)
      BY <2>2, <2>3 DEF Ui, Rendered
    <3>4. /\ t.phase = ui.phase /\ t.balance = ui.balance /\ t.late = ui.late /\ t.reveal = ui.reveal
          /\ t.wheelTurns = ui.wheelTurns /\ t.dwell = ui.dwell
      BY <1>4, <2>2 DEF Ui, SameRound
    <3> HIDE DEF u
    <3> QED
      BY <1>8, <2>1, <2>2, <3>1, <3>2, <3>3, <3>4 DEF TakesState, u
  <2> QED
    BY <1>2, <1>3, <2>4 DEF m
<1>9. CASE m.type = "ERROR"
  <2>1. HandleError(ui, m.code)
    BY <1>1, <1>9 DEF Receive
  <2> QED
    BY <1>2, <1>3, <1>9, <2>1, ErrorGivesUp DEF TakesError, m
<1> QED
  BY <1>2, <1>5, <1>6, <1>7, <1>8, <1>9, MessageKinds

LEMMA PageMoves ==
  ASSUME TypeOK, Showing
  PROVE  \/ Still /\ (Stopping \/ Stays \/ HandsBack)
         \/ Still /\ Trips
         \/ Disconnects
         \/ Receive /\ UNCHANGED serverVars
<1>0. ui \in Ui /\ spins \in 0..MaxSpins
  BY DEF TypeOK, ClientTypeOK
<1>1. CASE ReelsStop
  <2> DEFINE late == ui.late \/ ui.phase \notin {"revealing", "skipped"}
             s == [ui EXCEPT !.late = late]
  <2>1. s \in Ui /\ late \in BOOLEAN
    BY <1>0 DEF Ui
  <2>2. Reveal(s)
    BY <1>1, <1>0 DEF ReelsStop, Ui
  <2>3. After([s EXCEPT !.reveal = "none"], AfterReels(s))
    BY <2>1, <2>2, ReelsMove
  <2>4. After([ui EXCEPT !.reveal = "none", !.late = late], AfterReels(ui))
    BY <1>0, <2>3 DEF After, AfterReels, Ui, Remains
  <2>5. Stopping
    BY <1>0, <1>1, <2>1, <2>4 DEF Stopping, ReelsStop, Ui
  <2> QED
    BY <1>1, <2>5 DEF Showing, ReelsStop, Still
<1>2. CASE WheelStops
  <2>1. ui' = [ui EXCEPT !.wheelTurns = FALSE, !.dwell = TRUE] /\ UNCHANGED <<spins, toServer>>
    BY <1>2 DEF WheelStops, Shows
  <2>2. Stays
    BY <1>0, <1>2, <2>1 DEF Stays, Ui, WheelStops
  <2> QED
    BY <1>2, <2>2 DEF Showing, WheelStops, Still
<1>3. CASE Dismiss
  <2>1. Hide(ui) \in Ui
    BY <1>0 DEF Ui, Hide
  <2>2. Transition(Hide(ui), "idle")
    BY <1>3 DEF Dismiss, HandBack
  <2>3. HandsBack
    BY <1>3, <2>1, <2>2, TransitionMoves, MovesAfter DEF HandsBack, Dismiss, Phase
  <2> QED
    BY <1>3, <2>3 DEF Showing, Dismiss, Still
<1>4. CASE Disconnected
  <2>1. After(ui, "offline")
    BY <1>0, <1>4, TransitionMoves, MovesAfter DEF Disconnected, Phase
  <2> QED
    BY <1>4, <2>1 DEF Showing, Disconnected, Disconnects
<1>5. CASE SocketError
  BY <1>5, ErrorGivesUp DEF Showing, SocketError, Still, Trips
<1> QED
  BY <1>1, <1>2, <1>3, <1>4, <1>5 DEF Showing, PageStep

LEMMA FatalMoves ==
  ASSUME TypeOK, Fatal
  PROVE  After(ui, "unrecoverable")
BY TransitionMoves, MovesAfter DEF TypeOK, ClientTypeOK, Fatal, Phase

-----------------------------------------------------------------------------
(* What game-socket sends                                                  *)

\* Messages are added behind those on their way, each of them one of the set.
Adds(sent) ==
  /\ toClient' \in Seq(ServerToClientMessage)
  /\ Len(toClient) <= Len(toClient')
  /\ \A i \in 1..Len(toClient) : toClient'[i] = toClient[i]
  /\ \A i \in 1..Len(toClient') : i > Len(toClient) => toClient'[i] \in sent

Tells(c, m) ==
  /\ Adds({m})
  /\ IF link[c] = "open"
     THEN Len(toClient') = Len(toClient) + 1 /\ toClient'[Len(toClient) + 1] = m
     ELSE toClient' = toClient

TellsBoth(c, m, n) ==
  /\ Adds({m, n})
  /\ IF link[c] = "open"
     THEN /\ Len(toClient') = Len(toClient) + 2
          /\ toClient'[Len(toClient) + 1] = m /\ toClient'[Len(toClient) + 2] = n
     ELSE toClient' = toClient

LEMMA SendsOne ==
  ASSUME TypeOK, NEW c, NEW m \in ServerToClientMessage, Send(c, <<m>>)
  PROVE  Tells(c, m)
<1> USE DEF Tells
<1>1. toClient \in Seq(ServerToClientMessage) /\ <<m>> \in Seq(ServerToClientMessage)
  BY DEF TypeOK, WireTypeOK
<1>2. Len(<<m>>) = 1 /\ <<m>>[1] = m
  OBVIOUS
<1>3. CASE link[c] = "open"
  <2>1. toClient' = toClient \o <<m>>
    BY <1>3 DEF Send
  <2>2. /\ toClient' \in Seq(ServerToClientMessage)
        /\ Len(toClient') = Len(toClient) + 1
        /\ \A i \in 1..Len(toClient') :
             toClient'[i] = IF i <= Len(toClient) THEN toClient[i] ELSE <<m>>[i - Len(toClient)]
    BY <1>1, <1>2, <2>1, ConcatProperties
  <2> QED
    BY <1>1, <1>2, <1>3, <2>2 DEF Adds
<1>4. CASE link[c] # "open"
  BY <1>1, <1>4 DEF Send, Adds
<1> QED
  BY <1>3, <1>4

LEMMA SendsTwo ==
  ASSUME TypeOK, NEW c, NEW m \in ServerToClientMessage, NEW n \in ServerToClientMessage, Send(c, <<m, n>>)
  PROVE  TellsBoth(c, m, n)
<1> USE DEF TellsBoth
<1>1. toClient \in Seq(ServerToClientMessage) /\ <<m, n>> \in Seq(ServerToClientMessage)
  BY DEF TypeOK, WireTypeOK
<1>2. Len(<<m, n>>) = 2 /\ <<m, n>>[1] = m /\ <<m, n>>[2] = n
  OBVIOUS
<1>3. CASE link[c] = "open"
  <2>1. toClient' = toClient \o <<m, n>>
    BY <1>3 DEF Send
  <2>2. /\ toClient' \in Seq(ServerToClientMessage)
        /\ Len(toClient') = Len(toClient) + 2
        /\ \A i \in 1..Len(toClient') :
             toClient'[i] = IF i <= Len(toClient) THEN toClient[i] ELSE <<m, n>>[i - Len(toClient)]
    BY <1>1, <1>2, <2>1, ConcatProperties
  <2>3. \A i \in 1..Len(toClient') : i > Len(toClient) => i = Len(toClient) + 1 \/ i = Len(toClient) + 2
    BY <1>1, <2>2
  <2>4. toClient'[Len(toClient) + 1] = m /\ toClient'[Len(toClient) + 2] = n
    BY <1>1, <1>2, <2>2
  <2>5. \A i \in 1..Len(toClient) : i \in 1..Len(toClient') /\ toClient'[i] = toClient[i]
    BY <1>1, <2>2
  <2>6. \A i \in 1..Len(toClient') : i > Len(toClient) => toClient'[i] \in {m, n}
    BY <2>3, <2>4
  <2>7. Adds({m, n})
    BY <1>1, <2>2, <2>5, <2>6 DEF Adds
  <2> QED
    BY <1>3, <2>2, <2>4, <2>7
<1>4. CASE link[c] # "open"
  BY <1>1, <1>4 DEF Send, Adds
<1> QED
  BY <1>3, <1>4

LEMMA Errors ==
  \A code \in ErrorCode : Error(code) \in ServerToClientMessage
BY DEF ServerToClientMessage

\* The message taken off the wire was the first, and the others move up.
LEMMA TakesOne ==
  ASSUME NEW S, NEW q \in Seq(S), q # <<>>
  PROVE  /\ Tail(q) \in Seq(S) /\ Len(Tail(q)) = Len(q) - 1 /\ Len(q) \in Nat \ {0}
         /\ Head(q) = q[1] /\ q[1] \in S
         /\ \A i \in 1..Len(Tail(q)) : Tail(q)[i] = q[i + 1] /\ i + 1 \in 1..Len(q)
BY HeadTailProperties, LenProperties, ElementOfSeq

-----------------------------------------------------------------------------
(* Types                                                                   *)

\* One slot changes.
Sets(s, h) ==
  /\ handler'[s] = h /\ h \in Handler \cup {NoValue}
  /\ handler' \in [Slot -> Handler \cup {NoValue}]
  /\ \A t \in Slot \ {s} : handler'[t] = handler[t]

LEMMA AwaitSets ==
  ASSUME TypeOK, NEW s \in Slot, NEW conn \in Page, NEW call, NEW arg,
         \/ call = "consume" /\ arg \in Page
         \/ call = "balance" /\ arg \in {"JOINED", "BALANCE_UPDATE"}
         \/ call = "spin" /\ arg \in Round
         \/ call = "start" /\ arg \in [round : Round, module : Module]
         \/ call = "step" /\ arg \in Round,
         Await(s, conn, call, arg)
  PROVE  Sets(s, [conn |-> conn, call |-> call, arg |-> arg, got |-> NoValue]) /\ handler'[s] # NoValue
<1> DEFINE h == [conn |-> conn, call |-> call, arg |-> arg, got |-> NoValue]
<1>1. h \in Handler
  BY DEF Handler, Waits
<1>2. handler \in [Slot -> Handler \cup {NoValue}] /\ handler' = [handler EXCEPT ![s] = h]
  BY DEF TypeOK, ServerTypeOK, Await
<1> HIDE DEF h
<1>3. Sets(s, h) /\ handler'[s] # NoValue
  BY <1>1, <1>2, SessionAssumption DEF Sets
<1> QED
  BY <1>3 DEF h

LEMMA FinishSets ==
  ASSUME TypeOK, NEW s \in Slot, Finish(s)
  PROVE  Sets(s, NoValue)
BY DEF TypeOK, ServerTypeOK, Finish, Sets

\* The answers each call may have.
Answers(call) ==
  CASE call = "consume" -> BOOLEAN
    [] call = "balance" -> Nat
    [] call = "spin" -> SpinAnswer
    [] call = "start" -> BonusAnswer
    [] OTHER -> StepAnswer

LEMMA ResultSets ==
  ASSUME TypeOK, NEW s \in Slot, handler[s] # NoValue, NEW a \in Answers(handler[s].call), Result(s, a)
  PROVE  /\ Sets(s, handler'[s]) /\ handler'[s] \in Handler
         /\ handler'[s].conn = handler[s].conn /\ handler'[s].call = handler[s].call
         /\ handler'[s].arg = handler[s].arg /\ handler'[s].got = a /\ a # NoValue
<1> DEFINE h == handler[s]
           g == [h EXCEPT !.got = a]
<1>1. handler \in [Slot -> Handler \cup {NoValue}] /\ h \in Handler
  BY DEF TypeOK, ServerTypeOK
<1>2. handler' = [handler EXCEPT ![s] = g]
  BY <1>1 DEF Result
<1>3. g \in Handler /\ g.conn = h.conn /\ g.call = h.call /\ g.arg = h.arg /\ g.got = a
  BY <1>1 DEF Handler, Waits, Answers
<1>4. a # NoValue
  BY SessionAssumption, WireAssumption DEF Answers, StepAnswer
<1> HIDE DEF g
<1>5. handler'[s] = g
  BY <1>1, <1>2
<1> QED
  BY <1>1, <1>2, <1>3, <1>4, <1>5 DEF Sets

-----------------------------------------------------------------------------
(* What game-socket does, in terms of what it was                          *)

TakesRequest == link[page] = "open" /\ toServer # <<>> /\ toServer' = Tail(toServer)

Refused ==
  /\ TakesRequest /\ UNCHANGED <<sessions, handler, backendVars>>
  /\ \E code \in ErrorCode : Tells(page, Error(code))

Dispatched(s) ==
  /\ TakesRequest /\ UNCHANGED <<toClient, sessions, backendVars>>
  /\ handler[s] = NoValue
  /\ \E h \in Handler :
       /\ Sets(s, h) /\ h # NoValue /\ h.conn = page /\ h.got = NoValue
       /\ \/ toServer[1].type = "JOIN" /\ h.call = "consume"
          \/ h.call = "spin" /\ toServer[1] = Request(h.arg)
          \/ /\ toServer[1].type = "BONUS_STEP" /\ h.call = "step"
             /\ sessions[page] # NoValue /\ sessions[page].activeBonusSessionId = h.arg

\* game-backend has served the call of a handler.
Fills(s, call, a) ==
  /\ Busy(s, call) /\ ~Got(s)
  /\ Sets(s, handler'[s]) /\ handler'[s] \in Handler /\ handler'[s] # NoValue
  /\ handler'[s].conn = handler[s].conn /\ handler'[s].call = call
  /\ handler'[s].arg = handler[s].arg /\ handler'[s].got = a /\ a # NoValue
  /\ UNCHANGED <<toServer, toClient, sessions>>

\* An answer returns the balance if it changed it.
Credits(a) ==
  \/ a.balanceAfter = NoValue /\ balance' = balance
  \/ a.done /\ a.balanceAfter = balance + 1 /\ balance' = balance + 1

TokenServed(s) == (\E a \in BOOLEAN : Fills(s, "consume", a)) /\ usedTokens' \subseteq Page /\ UNCHANGED <<balance, bonuses>>
BalanceServed(s) == Fills(s, "balance", balance) /\ UNCHANGED backendVars
SpinServed(s) ==
  /\ UNCHANGED <<usedTokens, bonuses>>
  /\ \E a \in SpinAnswer :
       /\ Fills(s, "spin", a)
       /\ \/ a.refusal # NoValue /\ balance' = balance
          \/ a.refusal = NoValue /\ a.balanceAfter = balance + 1 /\ balance' = balance + 1
\* One bonus changes.
Turns(r, b) ==
  /\ bonuses' \in [Round -> Bonus \cup {NoValue}] /\ bonuses'[r] = b /\ b \in Bonus /\ b # NoValue
  /\ \A q \in Round \ {r} : bonuses'[q] = bonuses[q]
  /\ b.status = "active" => b.left > 0
StartServed(s) ==
  /\ UNCHANGED usedTokens
  /\ \E a \in BonusAnswer, b \in Bonus :
       /\ Fills(s, "start", a) /\ Credits(a) /\ Turns(handler[s].arg.round, b)
       /\ b.module = handler[s].arg.module
       /\ a.done <=> b.module = "wheel"
       /\ a.done <=> b.status # "active"
StepServed(s) ==
  /\ UNCHANGED usedTokens
  /\ \E a \in StepAnswer :
       /\ Fills(s, "step", a)
       /\ \/ a.refusal # NoValue /\ UNCHANGED <<balance, bonuses>>
          \/ \E b \in Bonus :
               /\ a \in BonusAnswer /\ Credits(a) /\ Turns(handler[s].arg, b)
               /\ Active(handler[s].arg) /\ b.module = bonuses[handler[s].arg].module
               /\ a.done <=> b.status # "active"

\* A handler goes on with the answer.
Uses(s, call) == Busy(s, call) /\ Got(s) /\ UNCHANGED <<toServer, backendVars>>
\* The session of a connection, if it is still there, remembers another bonus.
Remembers(conn, bonus) ==
  /\ sessions' \in [Page -> Session \cup {NoValue}]
  /\ \A c \in Page : c # conn \/ sessions[c] = NoValue => sessions'[c] = sessions[c]
  /\ sessions'[conn] # NoValue => sessions'[conn].activeBonusSessionId = bonus
HasJoined(s) ==
  /\ Uses(s, "consume") /\ toClient' = toClient
  /\ Sets(s, [conn |-> handler[s].conn, call |-> "balance", arg |-> "JOINED", got |-> NoValue]) /\ handler'[s] # NoValue
  /\ sessions' \in [Page -> Session \cup {NoValue}] /\ sessions'[handler[s].conn].activeBonusSessionId = NoValue
  /\ \A c \in Page : c # handler[s].conn => sessions'[c] = sessions[c]
IsRefused(s) ==
  /\ \E call \in {"consume", "spin", "step"} : Uses(s, call)
  /\ \E code \in ErrorCode : Tells(handler[s].conn, Error(code))
  /\ Sets(s, NoValue)
  /\ sessions' = sessions \/ Remembers(handler[s].conn, NoValue)
BalanceTold(s) ==
  /\ Uses(s, "balance") /\ UNCHANGED sessions /\ Sets(s, NoValue)
  /\ Tells(handler[s].conn, Balance(handler[s].arg, handler[s].got, NoValue))
SpinTold(s) ==
  /\ Uses(s, "spin") /\ UNCHANGED sessions
  /\ LET a == handler[s].got
         r == handler[s].arg
     IN /\ a.refusal = NoValue
        /\ TellsBoth(handler[s].conn, [type |-> "SPIN_RESULT", won |-> a.won, triggered |-> a.triggered, of |-> r],
                     Balance("BALANCE_UPDATE", a.balanceAfter, r))
        /\ \/ a.triggered = NoValue /\ Sets(s, NoValue)
           \/ /\ a.triggered # NoValue /\ handler'[s] # NoValue
              /\ Sets(s, [conn |-> handler[s].conn, call |-> "start", arg |-> [round |-> r, module |-> a.triggered],
                          got |-> NoValue])
\* The state of a bonus, and the balance that the answer returned or that is read next.
StateTold(s, r, stepped) ==
  LET a == handler[s].got
      state == [type |-> "BONUS_STEP_RESULT", module |-> bonuses[r].module, done |-> a.done, stepped |-> stepped, of |-> r]
  IN \/ ~a.done /\ Tells(handler[s].conn, state) /\ Sets(s, NoValue)
     \/ /\ a.done /\ a.balanceAfter \in Nat /\ Sets(s, NoValue)
        /\ TellsBoth(handler[s].conn, state, Balance("BALANCE_UPDATE", a.balanceAfter, r))
     \/ /\ a.done /\ a.balanceAfter = NoValue /\ Tells(handler[s].conn, state) /\ handler'[s] # NoValue
        /\ Sets(s, [conn |-> handler[s].conn, call |-> "balance", arg |-> "BALANCE_UPDATE", got |-> NoValue])
StartTold(s) ==
  /\ Uses(s, "start") /\ StateTold(s, handler[s].arg.round, FALSE)
  /\ \/ handler[s].got.done /\ sessions' = sessions
     \/ ~handler[s].got.done /\ Remembers(handler[s].conn, handler[s].arg.round)
StepTold(s) ==
  /\ Uses(s, "step") /\ handler[s].got.refusal = NoValue /\ StateTold(s, handler[s].arg, TRUE)
  /\ sessions' = sessions \/ Remembers(handler[s].conn, NoValue)

HasFailed(s) ==
  /\ handler[s] # NoValue /\ Tells(handler[s].conn, Error("internal_error")) /\ Sets(s, NoValue)
  /\ UNCHANGED <<toServer, sessions, backendVars>>

\* What the handler of a slot may do.
IsServed(s) == TokenServed(s) \/ BalanceServed(s) \/ SpinServed(s) \/ StartServed(s) \/ StepServed(s)
Continues(s) == HasJoined(s) \/ IsRefused(s) \/ BalanceTold(s) \/ SpinTold(s) \/ StartTold(s) \/ StepTold(s) \/ HasFailed(s)
Elsewhere == UNCHANGED <<situation, page, link, socket, clientVars, overtaken>>
SlotMoves(s) == Elsewhere /\ (Refused \/ Dispatched(s) \/ IsServed(s) \/ Continues(s))

LEMMA MessagesMove ==
  ASSUME TypeInv, NEW s \in Slot, OnMessage(s)
  PROVE  Refused \/ Dispatched(s)
<1> DEFINE m == Head(toServer)
<1>1. /\ toServer \in Seq(ClientToServerMessage) /\ toServer # <<>> /\ page \in Page
      /\ sessions \in [Page -> Session \cup {NoValue}]
  BY DEF OnMessage, TypeInv, TypeOK, WireTypeOK, ServerTypeOK
<1>2. m = toServer[1] /\ m \in ClientToServerMessage
  BY <1>1, TakesOne
<1>3. TakesRequest /\ UNCHANGED <<sessions, backendVars>> /\ handler[s] = NoValue
  BY DEF OnMessage, TakesRequest
<1> HIDE DEF m
<1>4. ASSUME NEW code \in ErrorCode, Send(page, <<Error(code)>>), UNCHANGED handler
      PROVE  Refused
  BY <1>3, <1>4, SendsOne, Errors DEF Refused, TypeInv
<1>5. CASE Send(page, <<Error("rate_limited")>>) /\ UNCHANGED handler
  BY <1>4, <1>5 DEF ErrorCode
<1>6. CASE \E code \in {"token_expired", "invalid_token"} : Send(page, <<Error(code)>>) /\ UNCHANGED handler
  BY <1>4, <1>6 DEF ErrorCode
<1>7. CASE Refusal(page, m) # NoValue /\ Send(page, <<Error(Refusal(page, m))>>) /\ UNCHANGED handler
  <2>1. Refusal(page, m) \in ErrorCode
    BY <1>7 DEF Refusal, ErrorCode
  <2> QED
    BY <1>4, <1>7, <2>1
<1>8. CASE Refusal(page, m) = NoValue /\ Dispatch(s, page, m) /\ UNCHANGED toClient
  <2>1. "not_joined" # NoValue /\ "no_active_bonus" # NoValue
    BY WireAssumption DEF ErrorCode
  <2>2. CASE m.type = "JOIN"
    <3>1. Await(s, page, "consume", m.token) /\ m.token \in Page
      BY <1>2, <1>8, <2>2, RequestKinds DEF Dispatch
    <3> DEFINE h == [conn |-> page, call |-> "consume", arg |-> m.token, got |-> NoValue]
    <3>2. Sets(s, h) /\ handler'[s] # NoValue
      BY <1>1, <3>1, AwaitSets DEF TypeInv
    <3>3. h \in Handler /\ h # NoValue /\ h.conn = page /\ h.got = NoValue /\ h.call = "consume"
      BY <3>2, SessionAssumption DEF Sets
    <3> HIDE DEF h
    <3> QED
      BY <1>2, <1>3, <1>8, <2>2, <3>2, <3>3 DEF Dispatched
  <2>3. CASE m.type = "SPIN_REQUEST"
    <3>1. Await(s, page, "spin", m.round) /\ m.round \in Round /\ m = Request(m.round)
      BY <1>2, <1>8, <2>3, RequestKinds DEF Dispatch
    <3> DEFINE h == [conn |-> page, call |-> "spin", arg |-> m.round, got |-> NoValue]
    <3>2. Sets(s, h) /\ handler'[s] # NoValue
      BY <1>1, <3>1, AwaitSets DEF TypeInv
    <3>3. /\ h \in Handler /\ h # NoValue /\ h.conn = page /\ h.got = NoValue /\ h.call = "spin"
          /\ toServer[1] = Request(h.arg)
      BY <1>2, <3>1, <3>2, SessionAssumption DEF Sets
    <3> HIDE DEF h
    <3> QED
      BY <1>2, <1>3, <1>8, <2>3, <3>2, <3>3 DEF Dispatched
  <2>4. CASE m.type = "BONUS_STEP"
    <3> DEFINE r == sessions[page].activeBonusSessionId
               h == [conn |-> page, call |-> "step", arg |-> r, got |-> NoValue]
    <3>1. Await(s, page, "step", r)
      BY <1>8, <2>4 DEF Dispatch
    <3>2. sessions[page] # NoValue /\ r # NoValue
      BY <1>8, <2>1, <2>4 DEF Refusal
    <3>3. r \in Round
      BY <1>1, <3>2 DEF Session
    <3>4. Sets(s, h) /\ handler'[s] # NoValue
      BY <1>1, <3>1, <3>3, AwaitSets DEF TypeInv
    <3>5. h \in Handler /\ h # NoValue /\ h.conn = page /\ h.got = NoValue /\ h.call = "step" /\ h.arg = r
      BY <3>4, SessionAssumption DEF Sets
    <3> HIDE DEF h
    <3> QED
      BY <1>2, <1>3, <1>8, <2>4, <3>2, <3>4, <3>5 DEF Dispatched
  <2> QED
    BY <1>2, <2>2, <2>3, <2>4, RequestKinds
<1> QED
  BY <1>5, <1>6, <1>7, <1>8 DEF OnMessage, m

LEMMA RowKinds ==
  ASSUME TypeOK, NEW s \in Slot, handler[s] # NoValue
  PROVE  /\ handler[s] \in Handler /\ handler[s].conn \in Page
         /\ Got(s) => handler[s].got \in Answers(handler[s].call)
         /\ handler[s].call \in {"consume", "step"} => handler[s].arg \in Page \cup Round
         /\ handler[s].call \in {"spin", "step"} => handler[s].arg \in Round
         /\ handler[s].call = "balance" => handler[s].arg \in {"JOINED", "BALANCE_UPDATE"}
         /\ handler[s].call = "start" => handler[s].arg.round \in Round /\ handler[s].arg.module \in Module
BY HandlerKinds DEF TypeOK, ServerTypeOK, Answers, Got

LEMMA ResultFills ==
  ASSUME TypeOK, NEW s \in Slot, NEW call, Served(s, call), NEW a \in Answers(call), Result(s, a),
         UNCHANGED <<toServer, toClient, sessions>>
  PROVE  Fills(s, call, a)
<1>1. Busy(s, call) /\ ~Got(s) /\ handler[s] # NoValue /\ a \in Answers(handler[s].call)
  BY DEF Served, Busy, Got
<1>2. handler'[s] # NoValue
  BY <1>1, ResultSets, SessionAssumption
<1> QED
  BY <1>1, <1>2, ResultSets DEF Fills, Busy

\* A finished bonus credits its win and returns the balance.
LEMMA SettledCredits ==
  ASSUME TypeOK, NEW s \in Slot, NEW finished \in BOOLEAN, NEW won \in BOOLEAN, Settled(s, finished, won)
  PROVE  \E a \in BonusAnswer : Result(s, a) /\ Credits(a) /\ a.done = finished
<1> DEFINE after == IF finished /\ won THEN balance + 1 ELSE NoValue
           a == [refusal |-> NoValue, done |-> finished, balanceAfter |-> after]
<1>1. balance \in Nat /\ after \in Nat \cup {NoValue}
  BY DEF TypeOK, ServerTypeOK
<1>2. a \in BonusAnswer /\ a.done = finished /\ a.balanceAfter = after
  BY <1>1 DEF BonusAnswer
<1>3. Result(s, a)
  BY DEF Settled
<1>4. Credits(a)
  <2> HIDE DEF a
  <2> QED
    BY <1>1, <1>2, WireAssumption DEF Settled, Credits
<1> QED
  BY <1>2, <1>3, <1>4

LEMMA ServesMove ==
  ASSUME TypeInv, NEW s \in Slot, Serve(s)
  PROVE  IsServed(s)
<1>0. /\ TypeOK /\ balance \in Nat /\ UNCHANGED <<toServer, toClient, sessions>>
      /\ bonuses \in [Round -> Bonus \cup {NoValue}]
  BY DEF TypeInv, TypeOK, ServerTypeOK, Serve, wireVars
<1>1. CASE ConsumeToken(s)
  <2> DEFINE a == handler[s].arg \notin usedTokens
  <2>1. a \in BOOLEAN /\ Served(s, "consume") /\ Result(s, a)
    BY <1>1 DEF ConsumeToken
  <2> HIDE DEF a
  <2>2. Fills(s, "consume", a)
    BY <1>0, <2>1, ResultFills DEF Answers
  <2>3. usedTokens' \subseteq Page
    BY <1>0, <1>1, RowKinds, HandlerKinds DEF ConsumeToken, Served, TypeOK, ServerTypeOK
  <2> QED
    BY <1>1, <2>1, <2>2, <2>3 DEF ConsumeToken, TokenServed, IsServed
<1>2. CASE ReadBalance(s)
  <2>1. Fills(s, "balance", balance)
    BY <1>0, <1>2, ResultFills DEF ReadBalance, Answers
  <2> QED
    BY <1>2, <2>1 DEF ReadBalance, BalanceServed, IsServed
<1>3. CASE SpinRound(s)
  <2>0. Served(s, "spin") /\ UNCHANGED <<usedTokens, bonuses>>
    BY <1>3 DEF SpinRound
  <2>1. CASE Result(s, [refusal |-> "refused"]) /\ UNCHANGED balance
    <3> DEFINE a == [refusal |-> "refused"]
    <3>1. a \in SpinAnswer /\ a.refusal # NoValue
      BY WireAssumption DEF SpinAnswer, ErrorCode
    <3> HIDE DEF a
    <3>2. Fills(s, "spin", a)
      BY <1>0, <2>0, <2>1, <3>1, ResultFills DEF Answers, a
    <3> QED
      BY <2>0, <2>1, <3>1, <3>2 DEF SpinServed, IsServed
  <2>2. CASE /\ balance' = balance + 1
             /\ \E won \in BOOLEAN, triggered \in situation.modules \cup {NoValue} :
                  Result(s, [refusal |-> NoValue, won |-> won, triggered |-> triggered, balanceAfter |-> balance + 1])
    <3> PICK won \in BOOLEAN, triggered \in situation.modules \cup {NoValue} :
          Result(s, [refusal |-> NoValue, won |-> won, triggered |-> triggered, balanceAfter |-> balance + 1])
      BY <2>2
    <3> DEFINE a == [refusal |-> NoValue, won |-> won, triggered |-> triggered, balanceAfter |-> balance + 1]
    <3>1. triggered \in Module \cup {NoValue} /\ balance + 1 \in Nat
      BY <1>0 DEF TypeOK, WireTypeOK, Bounds
    <3>2. a \in SpinAnswer /\ a.refusal = NoValue /\ a.balanceAfter = balance + 1
      BY <3>1 DEF SpinAnswer
    <3> HIDE DEF a
    <3>3. Fills(s, "spin", a)
      BY <1>0, <2>0, <3>2, ResultFills DEF Answers, a
    <3> QED
      BY <2>0, <2>2, <3>2, <3>3 DEF SpinServed, IsServed
  <2> QED
    BY <1>3, <2>1, <2>2 DEF SpinRound
<1>4. CASE StartBonus(s)
  <2> DEFINE r == handler[s].arg.round
             module == handler[s].arg.module
             wheel == module = "wheel"
             b == [module |-> module, status |-> IF wheel THEN "resolved" ELSE "active",
                   left |-> IF wheel THEN 0 ELSE Steps]
  <2>1. /\ Served(s, "start") /\ UNCHANGED usedTokens
        /\ bonuses' = [bonuses EXCEPT ![r] = b]
        /\ \E won \in BOOLEAN : Settled(s, wheel, won)
    BY <1>4 DEF StartBonus
  <2>2. r \in Round /\ module \in Module
    BY <1>0, <2>1, RowKinds DEF Served
  <2>3. /\ b \in Bonus /\ b.module = module /\ (b.status # "active" <=> wheel) /\ wheel \in BOOLEAN
        /\ b.status = "active" => b.left > 0
    BY <2>2, SessionAssumption DEF Bonus
  <2>4. PICK a \in BonusAnswer : Result(s, a) /\ Credits(a) /\ a.done = wheel
    BY <1>0, <2>1, <2>3, SettledCredits
  <2>5. Fills(s, "start", a)
    BY <1>0, <2>1, <2>4, ResultFills DEF Answers
  <2> HIDE DEF b
  <2>6. Turns(r, b)
    BY <1>0, <2>1, <2>2, <2>3, SessionAssumption DEF Turns
  <2>7. StartServed(s)
    BY <2>1, <2>3, <2>4, <2>5, <2>6 DEF StartServed
  <2> QED
    BY <2>7 DEF IsServed
<1>5. CASE StepBonus(s)
  <2> DEFINE r == handler[s].arg
             old == bonuses[r]
  <2>0. Served(s, "step") /\ UNCHANGED usedTokens /\ Busy(s, "step")
    BY <1>5 DEF StepBonus, Served, Busy
  <2>1. r \in Round /\ Opened(r) /\ old \in Bonus
    <3>1. r \in Round
      BY <1>0, <2>0, RowKinds DEF Busy
    <3>2. Known(r)
      BY <2>0 DEF Known, Stepping
    <3> QED
      BY <1>0, <3>1, <3>2 DEF TypeInv, OpenedInv, Opened
  <2>2. CASE old.status # "active"
    <3> DEFINE code == IF old.status = "abandoned" THEN "bonus_session_abandoned" ELSE "invalid_bonus_action"
               a == [refusal |-> code]
    <3>1. a \in StepAnswer /\ a.refusal # NoValue
      BY WireAssumption DEF StepAnswer, ErrorCode
    <3>2. Result(s, a) /\ UNCHANGED <<bonuses, balance>>
      BY <1>5, <2>2 DEF StepBonus
    <3> HIDE DEF a
    <3>3. Fills(s, "step", a)
      BY <1>0, <2>0, <3>1, <3>2, ResultFills DEF Answers
    <3> QED
      BY <2>0, <3>1, <3>2, <3>3 DEF StepServed, IsServed
  <2>3. CASE old.status = "active"
    <3> DEFINE b == [old EXCEPT !.left = @ - 1, !.status = IF old.left = 1 THEN "resolved" ELSE "active"]
               last == old.left = 1
    <3>1. /\ bonuses' = [bonuses EXCEPT ![r].left = @ - 1,
                                        ![r].status = IF old.left = 1 THEN "resolved" ELSE "active"]
          /\ \E won \in BOOLEAN : Settled(s, last, won)
      BY <1>5, <2>3 DEF StepBonus
    <3>2. bonuses' = [bonuses EXCEPT ![r] = b]
      BY <1>0, <2>1, <3>1
    <3>3. Active(r) /\ old.left > 0 /\ old.left \in 0..Steps
      BY <2>1, <2>3 DEF Active, TypeInv, OpenedInv, Bonus
    <3>4. /\ b \in Bonus /\ b.module = old.module /\ (b.status # "active" <=> last) /\ last \in BOOLEAN
          /\ b.status = "active" => b.left > 0
      <4> DEFINE left == old.left - 1
                 status == IF old.left = 1 THEN "resolved" ELSE "active"
      <4>1. left \in 0..Steps /\ (left > 0 <=> ~last)
        BY <3>3, SessionAssumption
      <4>2. status \in {"active", "resolved", "abandoned"} /\ (status # "active" <=> last)
        OBVIOUS
      <4>3. b = [old EXCEPT !.left = left, !.status = status]
        BY <2>1 DEF Bonus
      <4> HIDE DEF left, status, b
      <4>4. b \in Bonus /\ b.module = old.module /\ b.left = left /\ b.status = status
        BY <2>1, <4>1, <4>2, <4>3 DEF Bonus
      <4> QED
        BY <4>1, <4>2, <4>4
    <3>5. PICK a \in BonusAnswer : Result(s, a) /\ Credits(a) /\ a.done = last
      BY <1>0, <3>1, <3>4, SettledCredits
    <3>6. a \in StepAnswer /\ a.refusal = NoValue
      BY DEF StepAnswer, BonusAnswer
    <3>7. Fills(s, "step", a)
      BY <1>0, <2>0, <3>5, <3>6, ResultFills DEF Answers
    <3> HIDE DEF b
    <3>8. Turns(r, b)
      BY <1>0, <2>1, <3>2, <3>4, SessionAssumption DEF Turns
    <3>9. StepServed(s)
      BY <2>0, <3>3, <3>4, <3>5, <3>6, <3>7, <3>8 DEF StepServed
    <3> QED
      BY <3>9 DEF IsServed
  <2> QED
    BY <2>2, <2>3
<1> QED
  BY <1>1, <1>2, <1>3, <1>4, <1>5 DEF Serve

LEMMA RememberRemembers ==
  ASSUME TypeOK, NEW conn \in Page, NEW bonus \in Round \cup {NoValue}, Remember(conn, bonus)
  PROVE  Remembers(conn, bonus)
<1>1. sessions \in [Page -> Session \cup {NoValue}] /\ [activeBonusSessionId |-> bonus] \in Session
  BY DEF TypeOK, ServerTypeOK, Session
<1> QED
  BY <1>1, SessionAssumption DEF Remember, Remembers

LEMMA ShowBonusTells ==
  ASSUME TypeOK, NEW s \in Slot, handler[s] # NoValue, NEW r \in Round, NEW stepped \in BOOLEAN,
         Opened(r), handler[s].got \in BonusAnswer, ShowBonus(s, r, stepped)
  PROVE  StateTold(s, r, stepped)
<1> DEFINE a == handler[s].got
           conn == handler[s].conn
           state == [type |-> "BONUS_STEP_RESULT", module |-> bonuses[r].module, done |-> a.done,
                     stepped |-> stepped, of |-> r]
           after == Balance("BALANCE_UPDATE", a.balanceAfter, r)
<1>1. bonuses[r].module \in Module /\ conn \in Page
  BY RowKinds DEF TypeOK, ServerTypeOK, Bonus, Opened
<1>2. a.done \in BOOLEAN /\ a.balanceAfter \in Nat \cup {NoValue}
  BY AnswerKinds
<1>3. state \in ServerToClientMessage
  BY <1>1, <1>2 DEF ServerToClientMessage
<1>4. a.balanceAfter \in Nat => after \in ServerToClientMessage
  BY DEF ServerToClientMessage, BalanceMessage, Balance
<1>5. CASE a.done /\ a.balanceAfter = NoValue
  <2>1. Send(conn, <<state>>) /\ Await(s, conn, "balance", "BALANCE_UPDATE")
    BY <1>5 DEF ShowBonus
  <2>2. Tells(conn, state)
    BY <1>3, <2>1, SendsOne
  <2>3. /\ Sets(s, [conn |-> conn, call |-> "balance", arg |-> "BALANCE_UPDATE", got |-> NoValue])
        /\ handler'[s] # NoValue
    BY <1>1, <2>1, AwaitSets
  <2> QED
    BY <1>5, <2>2, <2>3 DEF StateTold
<1>6. CASE a.done /\ a.balanceAfter # NoValue
  <2>1. Send(conn, <<state, after>>) /\ Finish(s)
    BY <1>6 DEF ShowBonus
  <2>2. TellsBoth(conn, state, after)
    BY <1>2, <1>3, <1>4, <1>6, <2>1, SendsTwo
  <2> QED
    BY <1>2, <1>6, <2>1, <2>2, FinishSets DEF StateTold
<1>7. CASE ~a.done
  <2>1. Send(conn, <<state>>) /\ Finish(s)
    BY <1>7 DEF ShowBonus
  <2>2. Tells(conn, state)
    BY <1>3, <2>1, SendsOne
  <2> QED
    BY <1>7, <2>1, <2>2, FinishSets DEF StateTold
<1> QED
  BY <1>2, <1>5, <1>6, <1>7

LEMMA ContinuesMove ==
  ASSUME TypeInv, NEW s \in Slot, Continue(s)
  PROVE  Continues(s)
<1> DEFINE conn == handler[s].conn
           got == handler[s].got
<1>0. TypeOK /\ UNCHANGED <<toServer, backendVars>> /\ sessions \in [Page -> Session \cup {NoValue}]
  BY DEF TypeInv, Continue, TypeOK, ServerTypeOK
<1>1. CASE OnConsumed(s)
  <2>1. Uses(s, "consume") /\ conn \in Page /\ got \in BOOLEAN
    BY <1>0, <1>1, RowKinds DEF OnConsumed, Answered, Uses, Busy, Got, Answers
  <2>2. CASE got
    <3>1. /\ sessions' = [sessions EXCEPT ![conn] = [activeBonusSessionId |-> NoValue]]
          /\ Await(s, conn, "balance", "JOINED") /\ UNCHANGED toClient
      BY <1>1, <2>2 DEF OnConsumed
    <3>2. [activeBonusSessionId |-> NoValue] \in Session
      BY DEF Session
    <3> QED
      BY <1>0, <2>1, <3>1, <3>2, AwaitSets DEF HasJoined, Continues
  <2>3. CASE ~got
    <3>1. Send(conn, <<Error("token_already_used")>>) /\ Finish(s) /\ UNCHANGED sessions
      BY <1>1, <2>3 DEF OnConsumed
    <3>2. Tells(conn, Error("token_already_used")) /\ "token_already_used" \in ErrorCode
      BY <1>0, <3>1, SendsOne, Errors DEF ErrorCode
    <3> QED
      BY <1>0, <2>1, <3>1, <3>2, FinishSets DEF IsRefused, Continues
  <2> QED
    BY <2>1, <2>2, <2>3
<1>2. CASE OnBalance(s)
  <2> DEFINE m == Balance(handler[s].arg, got, NoValue)
  <2>1. Uses(s, "balance") /\ got \in Nat /\ handler[s].arg \in {"JOINED", "BALANCE_UPDATE"}
    BY <1>0, <1>2, RowKinds DEF OnBalance, Answered, Uses, Busy, Got, Answers
  <2>2. m \in ServerToClientMessage
    BY <2>1 DEF ServerToClientMessage, BalanceMessage, Balance
  <2>3. Tells(conn, m) /\ Finish(s) /\ UNCHANGED sessions
    BY <1>0, <1>2, <2>2, SendsOne DEF OnBalance
  <2> QED
    BY <1>0, <2>1, <2>3, FinishSets DEF BalanceTold, Continues
<1>3. CASE OnSpun(s)
  <2>1. /\ Uses(s, "spin") /\ conn \in Page /\ got \in SpinAnswer /\ handler[s].arg \in Round
        /\ UNCHANGED sessions
    BY <1>0, <1>3, RowKinds DEF OnSpun, Answered, Uses, Busy, Got, Answers
  <2>2. CASE got.refusal # NoValue
    <3>1. Send(conn, <<Error(got.refusal)>>) /\ Finish(s) /\ got.refusal \in ErrorCode
      BY <1>3, <2>1, <2>2, AnswerKinds DEF OnSpun
    <3>2. Tells(conn, Error(got.refusal))
      BY <1>0, <3>1, SendsOne, Errors
    <3> QED
      BY <1>0, <2>1, <3>1, <3>2, FinishSets DEF IsRefused, Continues
  <2>3. CASE got.refusal = NoValue
    <3> DEFINE r == handler[s].arg
               m == [type |-> "SPIN_RESULT", won |-> got.won, triggered |-> got.triggered, of |-> r]
               n == Balance("BALANCE_UPDATE", got.balanceAfter, r)
    <3>1. got.won \in BOOLEAN /\ got.triggered \in Module \cup {NoValue} /\ got.balanceAfter \in Nat
      BY <2>1, <2>3, AnswerKinds
    <3>2. m \in ServerToClientMessage /\ n \in ServerToClientMessage
      BY <2>1, <3>1 DEF ServerToClientMessage, BalanceMessage, Balance
    <3>3. /\ Send(conn, <<m, n>>)
          /\ IF got.triggered = NoValue THEN Finish(s)
             ELSE Await(s, conn, "start", [round |-> r, module |-> got.triggered])
      BY <1>3, <2>3 DEF OnSpun
    <3>4. TellsBoth(conn, m, n)
      BY <1>0, <3>2, <3>3, SendsTwo
    <3>5. CASE got.triggered = NoValue
      BY <1>0, <2>1, <2>3, <3>3, <3>4, <3>5, FinishSets DEF SpinTold, Continues
    <3>6. CASE got.triggered # NoValue
      <4>1. [round |-> r, module |-> got.triggered] \in [round : Round, module : Module]
        BY <2>1, <3>1, <3>6
      <4>2. /\ Sets(s, [conn |-> conn, call |-> "start", arg |-> [round |-> r, module |-> got.triggered], got |-> NoValue])
            /\ handler'[s] # NoValue
        BY <1>0, <2>1, <3>3, <3>6, <4>1, AwaitSets
      <4> QED
        BY <2>1, <2>3, <3>4, <3>6, <4>2 DEF SpinTold, Continues
    <3> QED
      BY <3>5, <3>6
  <2> QED
    BY <2>2, <2>3
<1>4. CASE OnStarted(s)
  <2> DEFINE r == handler[s].arg.round
  <2>1. Uses(s, "start") /\ conn \in Page /\ got \in BonusAnswer /\ r \in Round
    BY <1>0, <1>4, RowKinds DEF OnStarted, Answered, Uses, Busy, Got, Answers
  <2>2. Opened(r)
    BY <2>1 DEF TypeInv, OpenedInv, Uses
  <2>3. StateTold(s, r, FALSE)
    BY <1>0, <1>4, <2>1, <2>2, ShowBonusTells DEF OnStarted, Uses, Busy
  <2>4. \/ got.done /\ sessions' = sessions
        \/ ~got.done /\ Remembers(conn, r)
    BY <1>0, <1>4, <2>1, RememberRemembers DEF OnStarted, RememberStarted
  <2> QED
    BY <2>1, <2>3, <2>4 DEF StartTold, Continues
<1>5. CASE OnStepped(s)
  <2> DEFINE r == handler[s].arg
  <2>1. Uses(s, "step") /\ conn \in Page /\ got \in StepAnswer /\ r \in Round
    BY <1>0, <1>5, RowKinds DEF OnStepped, Answered, Uses, Busy, Got, Answers
  <2>2. sessions' = sessions \/ Remembers(conn, NoValue)
    BY <1>0, <1>5, <2>1, RememberRemembers DEF OnStepped
  <2>3. CASE got.refusal # NoValue
    <3>1. Send(conn, <<Error(got.refusal)>>) /\ Finish(s) /\ got.refusal \in ErrorCode
      BY <1>5, <2>1, <2>3, AnswerKinds DEF OnStepped
    <3>2. Tells(conn, Error(got.refusal))
      BY <1>0, <3>1, SendsOne, Errors
    <3> QED
      BY <1>0, <2>1, <2>2, <3>1, <3>2, FinishSets DEF IsRefused, Continues
  <2>4. CASE got.refusal = NoValue
    <3>1. got \in BonusAnswer /\ ShowBonus(s, r, TRUE) /\ handler[s] # NoValue
      BY <1>5, <2>1, <2>4, AnswerKinds DEF OnStepped, Uses, Busy
    <3>2. Known(r)
      BY <2>1 DEF Known, Stepping, Uses
    <3>3. Opened(r)
      BY <2>1, <3>2 DEF TypeInv, OpenedInv
    <3>4. StateTold(s, r, TRUE)
      BY <1>0, <2>1, <3>1, <3>3, ShowBonusTells
    <3> QED
      BY <2>1, <2>2, <2>4, <3>4 DEF StepTold, Continues
  <2> QED
    BY <2>3, <2>4
<1> QED
  BY <1>1, <1>2, <1>3, <1>4, <1>5 DEF Continue

LEMMA SlotsMove ==
  ASSUME TypeInv, NEW s \in Slot, Serving(s) \/ Failing(s)
  PROVE  SlotMoves(s)
<1>1. Elsewhere
  BY DEF Serving, Failing, ServerStep, OnMessage, Serve, Continue, BackendFails, Elsewhere, wireVars
<1>2. CASE OnMessage(s)
  BY <1>1, <1>2, MessagesMove DEF SlotMoves
<1>3. CASE Serve(s)
  BY <1>1, <1>3, ServesMove DEF SlotMoves
<1>4. CASE Continue(s)
  BY <1>1, <1>4, ContinuesMove DEF SlotMoves
<1>5. CASE BackendFails(s)
  <2>1. Tells(handler[s].conn, Error("internal_error")) /\ Sets(s, NoValue)
    BY <1>5, SendsOne, Errors, FinishSets DEF BackendFails, TellFailure, ErrorCode, TypeInv
  <2>2. HasFailed(s)
    BY <1>5, <2>1 DEF BackendFails, HasFailed
  <2> QED
    BY <1>1, <2>2 DEF SlotMoves, Continues
<1> QED
  BY <1>2, <1>3, <1>4, <1>5 DEF Serving, Failing, ServerStep

-----------------------------------------------------------------------------
(* Types are kept                                                          *)

\* A message on its way is an old one or a new one.
LEMMA OldOrNew ==
  ASSUME TypeOK, NEW sent, Adds(sent), NEW i \in 1..Len(toClient')
  PROVE  (i \in 1..Len(toClient) /\ toClient'[i] = toClient[i]) \/ (i > Len(toClient) /\ toClient'[i] \in sent)
BY DEF TypeOK, WireTypeOK, Adds

LEMMA TellsAdds ==
  /\ \A c, m : Tells(c, m) => Adds({m})
  /\ \A c, m, n : TellsBoth(c, m, n) => Adds({m, n})
BY DEF Tells, TellsBoth

\* What a step of a handler adds: errors, balances, one result, one state.
SentBy(s) ==
  {Error(code) : code \in ErrorCode} \cup BalanceMessage
  \cup {m \in ServerToClientMessage :
          \/ m.type = "SPIN_RESULT" /\ SpinTold(s) /\ m.of = handler[s].arg /\ m.triggered = handler[s].got.triggered
          \/ m.type = "BONUS_STEP_RESULT" /\ StartTold(s) /\ m.of = handler[s].arg.round
               /\ m.done = handler[s].got.done /\ m.module = bonuses[m.of].module
          \/ m.type = "BONUS_STEP_RESULT" /\ StepTold(s) /\ m.of = handler[s].arg
               /\ m.done = handler[s].got.done /\ m.module = bonuses[m.of].module}

LEMMA SlotSends ==
  ASSUME TypeInv, NEW s \in Slot, SlotMoves(s)
  PROVE  Adds(SentBy(s))
<1>0. TypeOK /\ toClient \in Seq(ServerToClientMessage)
  BY DEF TypeInv, TypeOK, WireTypeOK
<1>1. CASE toClient' = toClient
  BY <1>0, <1>1 DEF Adds
<1>2. ASSUME NEW c, NEW m, Tells(c, m), m \in SentBy(s)
      PROVE  Adds(SentBy(s))
  BY <1>2 DEF Tells, Adds
<1>3. ASSUME NEW c, NEW m, NEW n, TellsBoth(c, m, n), m \in SentBy(s), n \in SentBy(s)
      PROVE  Adds(SentBy(s))
  BY <1>3 DEF TellsBoth, Adds
<1>4. CASE Refused \/ IsRefused(s) \/ HasFailed(s)
  <2>1. \A code \in ErrorCode : Error(code) \in SentBy(s)
    BY DEF SentBy
  <2>2. "internal_error" \in ErrorCode
    BY DEF ErrorCode
  <2> QED
    BY <1>2, <1>4, <2>1, <2>2 DEF Refused, IsRefused, HasFailed
<1>5. CASE Dispatched(s) \/ IsServed(s) \/ HasJoined(s)
  <2>1. toClient' = toClient
    BY <1>5 DEF Dispatched, IsServed, TokenServed, BalanceServed, SpinServed, StartServed, StepServed, Fills, HasJoined
  <2> QED
    BY <1>1, <2>1
<1>6. CASE BalanceTold(s)
  <2>1. handler[s].got \in Nat /\ handler[s].arg \in {"JOINED", "BALANCE_UPDATE"}
    BY <1>0, <1>6, RowKinds DEF BalanceTold, Uses, Busy, Answers
  <2>2. Balance(handler[s].arg, handler[s].got, NoValue) \in SentBy(s)
    BY <2>1 DEF SentBy, Balance, BalanceMessage
  <2> QED
    BY <1>2, <1>6, <2>2 DEF BalanceTold
<1>7. CASE SpinTold(s)
  <2> DEFINE a == handler[s].got
             r == handler[s].arg
             m == [type |-> "SPIN_RESULT", won |-> a.won, triggered |-> a.triggered, of |-> r]
             n == Balance("BALANCE_UPDATE", a.balanceAfter, r)
  <2>1. a \in SpinAnswer /\ r \in Round /\ a.refusal = NoValue
    BY <1>0, <1>7, RowKinds DEF SpinTold, Uses, Busy, Answers
  <2>2. a.won \in BOOLEAN /\ a.triggered \in Module \cup {NoValue} /\ a.balanceAfter \in Nat
    BY <2>1, AnswerKinds
  <2>3. m \in SentBy(s)
    BY <1>7, <2>1, <2>2 DEF SentBy, ServerToClientMessage
  <2>4. n \in SentBy(s)
    BY <2>1, <2>2 DEF SentBy, Balance, BalanceMessage
  <2> QED
    BY <1>3, <1>7, <2>3, <2>4 DEF SpinTold
<1>8. ASSUME NEW r \in Round, NEW stepped \in BOOLEAN, StateTold(s, r, stepped), handler[s] # NoValue, Opened(r),
             handler[s].got \in BonusAnswer,
             \/ StartTold(s) /\ r = handler[s].arg.round
             \/ StepTold(s) /\ r = handler[s].arg
      PROVE  Adds(SentBy(s))
  <2> DEFINE a == handler[s].got
             m == [type |-> "BONUS_STEP_RESULT", module |-> bonuses[r].module, done |-> a.done,
                   stepped |-> stepped, of |-> r]
             n == Balance("BALANCE_UPDATE", a.balanceAfter, r)
  <2>1. bonuses[r].module \in Module /\ a.done \in BOOLEAN
    BY <1>0, <1>8, AnswerKinds DEF TypeOK, ServerTypeOK, Bonus, Opened
  <2>2. m \in SentBy(s)
    BY <1>8, <2>1 DEF SentBy, ServerToClientMessage
  <2>3. a.balanceAfter \in Nat => n \in SentBy(s)
    BY <1>8 DEF SentBy, Balance, BalanceMessage
  <2> QED
    BY <1>2, <1>3, <1>8, <2>2, <2>3 DEF StateTold
<1>9. CASE StartTold(s)
  <2>1. handler[s] # NoValue /\ handler[s].arg.round \in Round /\ handler[s].got \in BonusAnswer /\ Opened(handler[s].arg.round)
    BY <1>0, <1>9, RowKinds DEF StartTold, Uses, Busy, Answers, TypeInv, OpenedInv
  <2> QED
    BY <1>8, <1>9, <2>1 DEF StartTold
<1>10. CASE StepTold(s)
  <2>1. handler[s] # NoValue /\ handler[s].arg \in Round /\ handler[s].got \in StepAnswer
    BY <1>0, <1>10, RowKinds DEF StepTold, Uses, Busy, Answers
  <2>2. Known(handler[s].arg)
    BY <1>10 DEF StepTold, Uses, Known, Stepping
  <2>3. handler[s].got \in BonusAnswer /\ Opened(handler[s].arg)
    BY <1>10, <2>1, <2>2, AnswerKinds DEF StepTold, TypeInv, OpenedInv
  <2> QED
    BY <1>8, <1>10, <2>1, <2>3 DEF StepTold
<1> QED
  BY <1>4, <1>5, <1>6, <1>7, <1>9, <1>10 DEF SlotMoves, Continues

\* The other handlers keep what they wait for.
LEMMA OtherRows ==
  ASSUME TypeInv, NEW s \in Slot, SlotMoves(s), NEW t \in Slot, t # s
  PROVE  handler'[t] = handler[t]
<1>1. CASE Refused
  BY <1>1 DEF Refused
<1>2. CASE Dispatched(s)
  BY <1>2 DEF Dispatched, Sets
<1>3. CASE IsServed(s)
  BY <1>3 DEF IsServed, TokenServed, BalanceServed, SpinServed, StartServed, StepServed, Fills, Sets
<1>4. CASE Continues(s)
  BY <1>4 DEF Continues, HasJoined, IsRefused, BalanceTold, SpinTold, StartTold, StepTold, StateTold, HasFailed, Sets
<1> QED
  BY <1>1, <1>2, <1>3, <1>4 DEF SlotMoves

\* What the handler of the slot waits for afterwards.
Joins(s) == Dispatched(s) /\ toServer[1].type = "JOIN"
Spins(s, r) == Dispatched(s) /\ toServer[1] = Request(r)
StepsOn(s, r) ==
  Dispatched(s) /\ toServer[1].type = "BONUS_STEP" /\ sessions[page] # NoValue /\ sessions[page].activeBonusSessionId = r

LEMMA OwnRow ==
  ASSUME TypeInv, NEW s \in Slot, SlotMoves(s), handler'[s] # NoValue
  PROVE  \/ Refused /\ handler'[s] = handler[s]
         \/ /\ IsServed(s) /\ handler[s] # NoValue /\ ~Got(s) /\ Got(s)'
            /\ handler'[s].conn = handler[s].conn /\ handler'[s].call = handler[s].call /\ handler'[s].arg = handler[s].arg
         \/ /\ ~Got(s)' /\ handler'[s].conn = page /\ link[page] = "open" /\ Dispatched(s)
            /\ \/ Joins(s) /\ handler'[s].call = "consume"
               \/ Spins(s, handler'[s].arg) /\ handler'[s].call = "spin"
               \/ StepsOn(s, handler'[s].arg) /\ handler'[s].call = "step"
         \/ /\ ~Got(s)' /\ handler[s] # NoValue /\ handler'[s].conn = handler[s].conn
            /\ \/ HasJoined(s) /\ handler'[s].call = "balance" /\ handler'[s].arg = "JOINED"
               \/ /\ SpinTold(s) /\ Busy(s, "spin") /\ handler'[s].call = "start" /\ handler'[s].arg.round = handler[s].arg
                  /\ handler[s].got.triggered # NoValue /\ handler'[s].arg.module = handler[s].got.triggered
               \/ StartTold(s) /\ handler'[s].call = "balance" /\ handler'[s].arg = "BALANCE_UPDATE"
               \/ StepTold(s) /\ handler'[s].call = "balance" /\ handler'[s].arg = "BALANCE_UPDATE"
<1>1. CASE Refused
  BY <1>1 DEF Refused
<1>2. CASE Dispatched(s)
  BY <1>2 DEF Dispatched, TakesRequest, Sets, Joins, Spins, StepsOn, Got
<1>3. CASE IsServed(s)
  BY <1>3 DEF IsServed, TokenServed, BalanceServed, SpinServed, StartServed, StepServed, Fills, Busy, Got
<1>4. CASE HasJoined(s)
  BY <1>4 DEF HasJoined, Sets, Got, Uses, Busy
<1>5. CASE SpinTold(s)
  BY <1>5 DEF SpinTold, Sets, Got, Uses, Busy
<1>6. CASE StartTold(s)
  BY <1>6 DEF StartTold, StateTold, Sets, Got, Uses, Busy
<1>7. CASE StepTold(s)
  BY <1>7 DEF StepTold, StateTold, Sets, Got, Uses, Busy
<1>8. CASE IsRefused(s) \/ BalanceTold(s) \/ HasFailed(s)
  BY <1>8 DEF IsRefused, BalanceTold, HasFailed, Sets
<1> QED
  BY <1>1, <1>2, <1>3, <1>4, <1>5, <1>6, <1>7, <1>8 DEF SlotMoves, Continues

LEMMA Rows ==
  ASSUME TypeInv, NEW s \in Slot, SlotMoves(s), NEW t \in Slot, NEW r \in Round
  PROVE  /\ Spinning(t, r)' => Spinning(t, r) \/ (t = s /\ Spins(s, r) /\ ~Got(t)')
         /\ Starting(t, r)' =>
              \/ Starting(t, r)
              \/ t = s /\ SpinTold(s) /\ Spinning(s, r) /\ handler[s].got.triggered # NoValue /\ ~Got(t)'
         /\ Stepping(t, r)' => Stepping(t, r) \/ (t = s /\ StepsOn(s, r) /\ ~Got(t)')
<1>1. CASE t # s
  BY <1>1, OtherRows DEF Spinning, Starting, Stepping, Busy
<1>2. CASE t = s
  <2>1. CASE handler'[s] = NoValue
    BY <1>2, <2>1 DEF Spinning, Starting, Stepping, Busy
  <2>2. CASE handler'[s] # NoValue
    BY <1>2, <2>2, OwnRow DEF Spinning, Starting, Stepping, Busy
  <2> QED
    BY <2>1, <2>2
<1> QED
  BY <1>1, <1>2

\* A handler that told its answer goes on to another call, if any.
LEMMA TellingEnds ==
  ASSUME TypeInv, NEW s \in Slot, NEW r
  PROVE  /\ SpinTold(s) => ~Spinning(s, r)' /\ ~Stepping(s, r)'
         /\ StartTold(s) => ~Starting(s, r)'
         /\ StepTold(s) => ~Stepping(s, r)'
<1>1. handler'[s] = NoValue => ~Busy(s, "start")' /\ ~Busy(s, "step")' /\ ~Busy(s, "spin")'
  BY DEF Busy
<1>2. ASSUME SpinTold(s)
      PROVE  ~Spinning(s, r)' /\ ~Stepping(s, r)'
  BY <1>2, <1>1 DEF SpinTold, Sets, Spinning, Stepping, Busy
<1>3. ASSUME StartTold(s)
      PROVE  ~Starting(s, r)'
  BY <1>3, <1>1 DEF StartTold, StateTold, Sets, Starting, Busy
<1>4. ASSUME StepTold(s)
      PROVE  ~Stepping(s, r)'
  BY <1>4, <1>1 DEF StepTold, StateTold, Sets, Stepping, Busy
<1> QED
  BY <1>2, <1>3, <1>4

\* What is new of a result or a state was told by the handler.
LEMMA Sent ==
  ASSUME TypeInv, NEW s \in Slot, SlotMoves(s), NEW i \in 1..Len(toClient'), NEW r \in Round
  PROVE  /\ IsResult(toClient'[i], r) =>
              \/ i \in 1..Len(toClient) /\ toClient'[i] = toClient[i] /\ IsResult(toClient[i], r)
              \/ i > Len(toClient) /\ SpinTold(s) /\ Spinning(s, r) /\ toClient'[i].triggered = handler[s].got.triggered
         /\ IsState(toClient'[i], r) =>
              \/ i \in 1..Len(toClient) /\ toClient'[i] = toClient[i] /\ IsState(toClient[i], r)
              \/ /\ i > Len(toClient)
                 /\ (StartTold(s) /\ Starting(s, r) /\ Got(s)) \/ (StepTold(s) /\ Stepped(s, r))
                 /\ toClient'[i].done = handler[s].got.done /\ toClient'[i].module = bonuses[r].module
<1>1. TypeOK /\ Adds(SentBy(s))
  BY SlotSends DEF TypeInv
<1>2. CASE i \in 1..Len(toClient) /\ toClient'[i] = toClient[i]
  BY <1>2
<1>3. CASE i > Len(toClient) /\ toClient'[i] \in SentBy(s)
  <2>1. toClient'[i] \notin {Error(code) : code \in ErrorCode} \cup BalanceMessage \/ toClient'[i].type \in {"ERROR", "JOINED", "BALANCE_UPDATE"}
    BY DEF Error, BalanceMessage
  <2> DEFINE m == toClient'[i]
  <2>2. CASE IsResult(m, r)
    <3>1. SpinTold(s) /\ m.of = handler[s].arg /\ m.triggered = handler[s].got.triggered
      BY <1>3, <2>1, <2>2 DEF SentBy, IsResult
    <3> QED
      BY <1>3, <2>2, <3>1 DEF IsResult, IsState, SpinTold, Uses, Spinning
  <2>3. CASE IsState(m, r)
    <3>1. /\ m.of = r /\ m.done = handler[s].got.done /\ m.module = bonuses[m.of].module
          /\ \/ StartTold(s) /\ m.of = handler[s].arg.round
             \/ StepTold(s) /\ m.of = handler[s].arg
      BY <1>3, <2>1, <2>3 DEF SentBy, IsState
    <3> QED
      BY <1>3, <2>3, <3>1 DEF IsResult, IsState, StartTold, StepTold, Uses, Starting, Stepping, Stepped
  <2> QED
    BY <2>2, <2>3
<1> QED
  BY <1>1, <1>2, <1>3, OldOrNew

\* The number of a bonus is known from its start on.
LEMMA KnownSpreads ==
  ASSUME TypeInv, NEW s \in Slot, SlotMoves(s), NEW r \in Round, Known(r)'
  PROVE  Known(r) \/ (StartTold(s) /\ Starting(s, r) /\ Got(s))
<1>1. ASSUME NEW c \in Page, sessions'[c] # NoValue, sessions'[c].activeBonusSessionId = r
      PROVE  Known(r) \/ (StartTold(s) /\ Starting(s, r) /\ Got(s))
  <2>0. r # NoValue
    BY WireAssumption DEF Round
  <2>1. CASE sessions'[c] = sessions[c]
    BY <1>1, <2>1 DEF Known
  <2>2. CASE HasJoined(s)
    BY <1>1, <2>0, <2>1, <2>2 DEF HasJoined
  <2>3. CASE Remembers(handler[s].conn, NoValue)
    BY <1>1, <2>0, <2>1, <2>3 DEF Remembers
  <2>4. CASE StartTold(s)
    <3>1. Busy(s, "start") /\ Got(s)
      BY <2>4 DEF StartTold, Uses
    <3>2. CASE Remembers(handler[s].conn, handler[s].arg.round)
      BY <1>1, <2>1, <2>4, <3>1, <3>2 DEF Remembers, Starting
    <3> QED
      BY <1>1, <2>1, <2>4, <3>2 DEF StartTold
  <2>5. CASE Refused \/ Dispatched(s) \/ IsServed(s) \/ HasFailed(s) \/ BalanceTold(s) \/ SpinTold(s)
    <3>1. sessions' = sessions
      BY <2>5 DEF Refused, Dispatched, IsServed, TokenServed, BalanceServed, SpinServed, StartServed, StepServed,
        Fills, HasFailed, BalanceTold, SpinTold
    <3> QED
      BY <2>1, <3>1
  <2>6. CASE IsRefused(s) \/ StepTold(s)
    <3>1. sessions' = sessions \/ Remembers(handler[s].conn, NoValue)
      BY <2>6 DEF IsRefused, StepTold
    <3> QED
      BY <2>1, <2>3, <3>1
  <2> QED
    BY <2>2, <2>4, <2>5, <2>6 DEF SlotMoves, Continues
<1>2. ASSUME NEW t \in Slot, Stepping(t, r)'
      PROVE  Known(r)
  BY <1>2, Rows DEF Known, StepsOn, TypeInv, TypeOK, WireTypeOK
<1>3. ASSUME NEW i \in 1..Len(toClient'), IsState(toClient'[i], r)
      PROVE  Known(r) \/ (StartTold(s) /\ Starting(s, r) /\ Got(s))
  BY <1>3, Sent DEF Known, Stepped
<1> QED
  BY <1>1, <1>2, <1>3 DEF Known

\* A bonus changes when its start or a step is served.
LEMMA BonusRows ==
  ASSUME TypeInv, NEW s \in Slot, SlotMoves(s), NEW r \in Round
  PROVE  \/ bonuses'[r] = bonuses[r]
         \/ StartServed(s) /\ Starting(s, r) /\ ~Got(s) /\ Opened(r)'
         \/ StepServed(s) /\ Stepping(s, r) /\ Active(r) /\ Opened(r)' /\ bonuses'[r].module = bonuses[r].module
<1>1. CASE StartServed(s)
  BY <1>1 DEF StartServed, Turns, Opened, Starting, Fills
<1>2. CASE StepServed(s)
  BY <1>2 DEF StepServed, Turns, Opened, Stepping, Fills
<1>3. CASE bonuses' = bonuses
  BY <1>3
<1> QED
  BY <1>1, <1>2, <1>3 DEF SlotMoves, Refused, Dispatched, IsServed, TokenServed, BalanceServed, SpinServed,
    Continues, HasJoined, IsRefused, BalanceTold, SpinTold, StartTold, StepTold, HasFailed, Uses, backendVars

LEMMA OpenedStays ==
  ASSUME TypeInv, NEW s \in Slot, SlotMoves(s), NEW r \in Round
  PROVE  Opened(r) => Opened(r)'
BY BonusRows DEF Opened

-----------------------------------------------------------------------------
(* What the page does, in one list                                         *)

Takes(m) == TakesJoined(m) \/ TakesResult(m) \/ TakesBalance(m) \/ TakesState(m) \/ TakesError(m)
Receiving == Receives /\ toClient[1] \in ServerToClientMessage /\ Takes(toClient[1])
Acting == Still /\ (GoesOn \/ Trips \/ Stopping \/ Stays \/ HandsBack)
PageMove == Acting \/ Disconnects \/ Receiving

LEMMA PagesMove ==
  ASSUME TypeOK, Playing \/ Showing
  PROVE  PageMove
BY PlayerMoves, PageMoves, ReceiveMoves DEF PageMove, Acting, Receiving, Takes

\* What the page asks for as it moves.
Quiet == UNCHANGED <<spins, toServer>>
AsksStep == socket = "open" /\ spins' = spins /\ toServer' = Append(toServer, [type |-> "BONUS_STEP"])
AsksSpin == socket = "open" /\ spins < MaxSpins /\ spins' = spins + 1 /\ toServer' = Append(toServer, Request(spins + 1))

LEMMA AfterAsks ==
  ASSUME NEW s, NEW phase, After(s, phase)
  PROVE  ui' \in Ui /\ (Quiet \/ AsksSpin)
BY DEF After, Quiet, AsksSpin

LEMMA MovesAsk ==
  ASSUME TypeOK, PageMove
  PROVE  ui' \in Ui /\ (Quiet \/ AsksStep \/ AsksSpin)
<1>1. CASE \E s, phase : After(s, phase)
  BY <1>1, AfterAsks
<1>2. CASE Stays
  BY <1>2 DEF Stays, Quiet, AsksStep
<1>3. ASSUME NEW m \in ServerToClientMessage, TakesBalance(m)
      PROVE  ui' \in Ui /\ Quiet
  <2>1. m \in BalanceMessage /\ ui \in Ui
    BY <1>3, MessageKinds DEF TakesBalance, TypeOK, ClientTypeOK
  <2> QED
    BY <1>3, <2>1 DEF TakesBalance, Quiet, Ui
<1>4. ASSUME NEW m \in ServerToClientMessage, TakesState(m)
      PROVE  ui' \in Ui /\ Quiet
  BY <1>4 DEF TakesState, Quiet
<1>5. CASE Acting
  BY <1>1, <1>2, <1>5 DEF Acting, GoesOn, Trips, GivesUp, Stopping, HandsBack
<1>6. CASE Disconnects
  BY <1>1, <1>6 DEF Disconnects
<1>7. CASE Receiving
  BY <1>1, <1>3, <1>4, <1>7 DEF Receiving, Takes, TakesJoined, TakesResult, TakesError, GivesUp
<1> QED
  BY <1>5, <1>6, <1>7 DEF PageMove

\* The server's side and the connection as the page moves.
LEMMA MovesKeep ==
  ASSUME TypeOK, PageMove
  PROVE  /\ UNCHANGED <<situation, page, link, serverVars>>
         /\ socket' = socket \/ (socket = "lost" /\ socket' = "closed")
         /\ toClient' = toClient \/ (toClient # <<>> /\ toClient' = Tail(toClient))
BY DEF PageMove, Acting, Still, Disconnects, Receiving, Receives

-----------------------------------------------------------------------------
(* Every step keeps the types                                              *)

LEMMA MovesType ==
  ASSUME TypeOK, PageMove
  PROVE  TypeOK'
<1>1. /\ ui' \in Ui /\ (Quiet \/ AsksStep \/ AsksSpin)
      /\ UNCHANGED <<situation, page, link, serverVars>>
      /\ socket' = socket \/ (socket = "lost" /\ socket' = "closed")
      /\ toClient' = toClient \/ (toClient # <<>> /\ toClient' = Tail(toClient))
  BY MovesAsk, MovesKeep
<1>2. toClient' \in Seq(ServerToClientMessage)
  <2>1. toClient \in Seq(ServerToClientMessage)
    BY DEF TypeOK, WireTypeOK
  <2>2. toClient # <<>> => Tail(toClient) \in Seq(ServerToClientMessage)
    BY <2>1
  <2> QED
    BY <1>1, <2>1, <2>2
<1>3. spins' \in 0..MaxSpins /\ toServer' \in Seq(ClientToServerMessage)
  <2>0. spins \in 0..MaxSpins /\ toServer \in Seq(ClientToServerMessage) /\ MaxSpins \in Nat
    BY WireAssumption DEF TypeOK, WireTypeOK, ClientTypeOK
  <2>1. [type |-> "BONUS_STEP"] \in ClientToServerMessage /\ \A r \in Round : Request(r) \in ClientToServerMessage
    BY DEF ClientToServerMessage, Request
  <2>2. CASE Quiet
    BY <2>0, <2>2 DEF Quiet
  <2>3. CASE AsksStep
    BY <2>0, <2>1, <2>3, AppendProperties DEF AsksStep
  <2>4. CASE AsksSpin
    <3>1. spins + 1 \in Round /\ spins' \in 0..MaxSpins
      BY <2>0, <2>4 DEF AsksSpin, Round
    <3> QED
      BY <2>0, <2>1, <2>4, <3>1, AppendProperties DEF AsksSpin
  <2> QED
    BY <1>1, <2>2, <2>3, <2>4
<1> QED
  BY <1>1, <1>2, <1>3 DEF TypeOK, WireTypeOK, ServerTypeOK, ClientTypeOK, serverVars, Page, Round, Ui

LEMMA SlotsType ==
  ASSUME TypeInv, NEW s \in Slot, SlotMoves(s)
  PROVE  TypeOK'
<1>0. TypeOK /\ Elsewhere
  BY DEF TypeInv, SlotMoves
<1>1. toClient' \in Seq(ServerToClientMessage)
  BY SlotSends DEF Adds
<1>2. toServer' = toServer \/ (toServer # <<>> /\ toServer' = Tail(toServer))
  BY DEF SlotMoves, Refused, Dispatched, TakesRequest, IsServed, TokenServed, BalanceServed, SpinServed, StartServed, StepServed,
    Fills, Continues, HasJoined, IsRefused, BalanceTold, SpinTold, StartTold, StepTold, HasFailed, Uses
<1>3. toServer' \in Seq(ClientToServerMessage)
  BY <1>0, <1>2, TakesOne DEF TypeOK, WireTypeOK
<1>4. handler' \in [Slot -> Handler \cup {NoValue}]
  BY <1>0 DEF TypeOK, ServerTypeOK, SlotMoves, Refused, Dispatched, IsServed, TokenServed, BalanceServed, SpinServed, StartServed, StepServed,
    Fills, Continues, HasJoined, IsRefused, BalanceTold, SpinTold, StartTold, StepTold, StateTold, HasFailed, Sets
<1>5. sessions' \in [Page -> Session \cup {NoValue}]
  BY <1>0 DEF TypeOK, ServerTypeOK, SlotMoves, Refused, Dispatched, IsServed, TokenServed, BalanceServed, SpinServed, StartServed, StepServed,
    Fills, Continues, HasJoined, IsRefused, BalanceTold, SpinTold, StartTold, StepTold, HasFailed, Remembers
<1>6. usedTokens' \subseteq Page
  BY <1>0 DEF TypeOK, ServerTypeOK, SlotMoves, Refused, Dispatched, IsServed, TokenServed, BalanceServed, SpinServed, StartServed, StepServed,
    Continues, HasJoined, IsRefused, BalanceTold, SpinTold, StartTold, StepTold, HasFailed, Uses, backendVars
<1>7. balance' \in Nat
  <2>1. balance \in Nat
    BY <1>0 DEF TypeOK, ServerTypeOK
  <2>2. balance' = balance \/ balance' = balance + 1
    BY DEF SlotMoves, Refused, Dispatched, IsServed, TokenServed, BalanceServed, SpinServed, StartServed, StepServed, Credits,
      Continues, HasJoined, IsRefused, BalanceTold, SpinTold, StartTold, StepTold, HasFailed, Uses, backendVars
  <2> QED
    BY <2>1, <2>2
<1>8. bonuses' \in [Round -> Bonus \cup {NoValue}]
  BY <1>0 DEF TypeOK, ServerTypeOK, SlotMoves, Refused, Dispatched, IsServed, TokenServed, BalanceServed, SpinServed, StartServed, StepServed,
    Turns, Continues, HasJoined, IsRefused, BalanceTold, SpinTold, StartTold, StepTold, HasFailed, Uses, backendVars
<1> QED
  BY <1>0, <1>1, <1>3, <1>4, <1>5, <1>6, <1>7, <1>8
    DEF TypeOK, WireTypeOK, ServerTypeOK, ClientTypeOK, Elsewhere, clientVars, Page, Round, Ui, Bounds

LEMMA SlotsOpened ==
  ASSUME TypeInv, NEW s \in Slot, SlotMoves(s)
  PROVE  OpenedInv'
<1>1. ASSUME NEW r \in Round, Known(r)'
      PROVE  Opened(r)'
  BY <1>1, KnownSpreads, OpenedStays DEF TypeInv, OpenedInv, Starting
<1>2. ASSUME NEW t \in Slot, Busy(t, "start")', Got(t)'
      PROVE  Opened(handler[t].arg.round)'
  <2>1. CASE handler'[t] = handler[t]
    <3>1. Busy(t, "start") /\ Got(t)
      BY <1>2, <2>1 DEF Busy, Got
    <3>2. Opened(handler[t].arg.round) /\ handler[t].arg.round \in Round
      BY <3>1, RowKinds DEF TypeInv, OpenedInv, Busy
    <3> QED
      BY <2>1, <3>2, OpenedStays
  <2>2. CASE handler'[t] # handler[t]
    <3>1. t = s /\ IsServed(s) /\ handler'[s].call = handler[s].call /\ handler'[s].arg = handler[s].arg
      BY <1>2, <2>2, OtherRows, OwnRow DEF Busy
    <3>2. StartServed(s)
      BY <1>2, <3>1 DEF IsServed, TokenServed, BalanceServed, SpinServed, StepServed, Fills, Busy
    <3> QED
      BY <3>1, <3>2 DEF StartServed, Turns, Opened
  <2> QED
    BY <2>1, <2>2
<1>3. ASSUME NEW r \in Round, Active(r)'
      PROVE  bonuses'[r].left > 0
  <2>1. CASE bonuses'[r] = bonuses[r]
    BY <1>3, <2>1 DEF TypeInv, OpenedInv, Active, Opened
  <2>2. CASE StartServed(s) /\ Starting(s, r)
    BY <1>3, <2>2 DEF StartServed, Turns, Starting, Active
  <2>3. CASE StepServed(s) /\ Stepping(s, r)
    BY <1>3, <2>1, <2>3 DEF StepServed, Turns, Stepping, Active
  <2> QED
    BY <2>1, <2>2, <2>3, BonusRows
<1> QED
  BY <1>1, <1>2, <1>3 DEF OpenedInv

\* Where nothing new is learnt of a bonus.
LEMMA OpenedKept ==
  ASSUME OpenedInv,
         \A r \in Round : Known(r)' => Known(r),
         \A r \in Round : (Opened(r) => Opened(r)') /\ (Active(r)' => bonuses'[r] = bonuses[r]),
         \A s \in Slot : Busy(s, "start")' => handler'[s] = handler[s] /\ handler[s].arg.round \in Round
  PROVE  OpenedInv'
<1>1. \A r \in Round : Known(r)' => Opened(r)'
  BY DEF OpenedInv
<1>2. \A s \in Slot : Busy(s, "start")' /\ Got(s)' => Opened(handler[s].arg.round)'
  BY DEF OpenedInv, Busy, Got
<1>3. \A r \in Round : Active(r)' => bonuses'[r].left > 0
  BY DEF OpenedInv, Active, Opened
<1> QED
  BY <1>1, <1>2, <1>3 DEF OpenedInv

\* The steps of the system, told apart.
Leaves == Load /\ UNCHANGED serverVars
CannotStart == Fatal /\ UNCHANGED serverVars

LEMMA NextMoves ==
  ASSUME TypeInv, Next
  PROVE  \/ PageMove \/ (\E s \in Slot : SlotMoves(s))
         \/ Connect \/ Sweeping \/ Breaking \/ Crashing \/ Leaves \/ CannotStart \/ (\E c \in Page : Closing(c))
BY PagesMove, SlotsMove DEF TypeInv, Next, Loading, Leaves, CannotStart

\* A step that leaves game-socket and game-backend alone.
LEMMA QuietOpened ==
  ASSUME TypeInv, UNCHANGED serverVars,
         toClient' = toClient \/ toClient' = <<>> \/ (toClient # <<>> /\ toClient' = Tail(toClient))
  PROVE  OpenedInv'
<1>1. ASSUME NEW r \in Round, NEW i \in 1..Len(toClient'), IsState(toClient'[i], r)
      PROVE  \E j \in 1..Len(toClient) : IsState(toClient[j], r)
  <2>1. CASE toClient' = toClient
    BY <1>1, <2>1
  <2>2. CASE toClient' = <<>>
    BY <1>1, <2>2
  <2>3. CASE toClient # <<>> /\ toClient' = Tail(toClient)
    BY <1>1, <2>3, TakesOne DEF TypeInv, TypeOK, WireTypeOK
  <2> QED
    BY <2>1, <2>2, <2>3
<1>2. \A r \in Round : Known(r)' => Known(r)
  BY <1>1 DEF Known, serverVars, Stepping, Busy
<1>3. \A r \in Round : (Opened(r) => Opened(r)') /\ (Active(r)' => bonuses'[r] = bonuses[r])
  BY DEF Opened, serverVars, backendVars
<1>4. \A s \in Slot : Busy(s, "start")' => handler'[s] = handler[s] /\ handler[s].arg.round \in Round
  BY RowKinds DEF TypeInv, Busy, serverVars
<1> QED
  BY <1>2, <1>3, <1>4, OpenedKept DEF TypeInv

LEMMA ConnectType ==
  ASSUME TypeOK, Connect
  PROVE  TypeOK'
<1>1. /\ socket' = "open" /\ link' = [link EXCEPT ![page] = "open"]
      /\ UNCHANGED <<situation, page, toClient, serverVars, clientVars>>
  BY DEF Connect, Accept, Open
<1>2. PICK token \in {page - 1, page} \ {0} : toServer' = Append(toServer, [type |-> "JOIN", token |-> token])
  BY DEF Connect, Open
<1>3. token \in Page
  BY WireAssumption DEF TypeOK, WireTypeOK, Page
<1>4. toServer' \in Seq(ClientToServerMessage)
  BY <1>2, <1>3, AppendProperties DEF TypeOK, WireTypeOK, ClientToServerMessage
<1> QED
  BY <1>1, <1>4 DEF TypeOK, WireTypeOK, ServerTypeOK, ClientTypeOK, serverVars, clientVars, Page, Round, Ui

LEMMA SweepingType ==
  ASSUME TypeInv, Sweeping
  PROVE  TypeInv'
<1>0. PICK b \in Round :
        bonuses[b] # NoValue /\ bonuses[b].status = "active" /\ bonuses' = [bonuses EXCEPT ![b].status = "abandoned"]
  BY DEF Sweeping, Sweep
<1>1. /\ balance' = balance + 1
      /\ UNCHANGED <<wireVars, sessions, handler, usedTokens, overtaken, clientVars>>
  BY DEF Sweeping, Sweep
<1> DEFINE swept == [bonuses[b] EXCEPT !.status = "abandoned"]
<1>2. bonuses \in [Round -> Bonus \cup {NoValue}] /\ bonuses[b] \in Bonus /\ balance \in Nat
  BY <1>0 DEF TypeInv, TypeOK, ServerTypeOK
<1>3. swept \in Bonus /\ swept.status = "abandoned" /\ swept # NoValue
  BY <1>2, SessionAssumption DEF Bonus
<1>4. bonuses' = [bonuses EXCEPT ![b] = swept]
  BY <1>0, <1>2
<1> HIDE DEF swept
<1>5. TypeOK'
  BY <1>1, <1>2, <1>3, <1>4
    DEF TypeInv, TypeOK, WireTypeOK, ServerTypeOK, ClientTypeOK, wireVars, clientVars, Page, Round, Ui
<1>6. OpenedInv'
  <2>1. \A r \in Round : Known(r)' => Known(r)
    BY <1>1 DEF Known, Stepping, Busy, wireVars
  <2>2. \A r \in Round : (Opened(r) => Opened(r)') /\ (Active(r)' => bonuses'[r] = bonuses[r])
    BY <1>2, <1>3, <1>4 DEF Opened, Active
  <2>3. \A s \in Slot : Busy(s, "start")' => handler'[s] = handler[s] /\ handler[s].arg.round \in Round
    BY <1>1, RowKinds DEF TypeInv, Busy
  <2> QED
    BY <2>1, <2>2, <2>3, OpenedKept DEF TypeInv
<1> QED
  BY <1>5, <1>6 DEF TypeInv

LEMMA FaultsType ==
  ASSUME TypeInv, Breaking \/ Crashing
  PROVE  TypeInv'
<1>1. /\ socket' \in {socket, "lost"}
      /\ UNCHANGED <<page, usedTokens, balance, bonuses, overtaken, clientVars>>
      /\ toServer' = <<>> /\ toClient' = <<>>
  BY DEF Breaking, Break, Crashing, SocketCrash, serverVars, backendVars
<1>2. situation' \in Bounds
  <2>0. situation \in Bounds /\ MaxFaults \in Nat
    BY WireAssumption DEF TypeInv, TypeOK, WireTypeOK
  <2>1. CASE Breaking
    <3>1. situation.breaks - 1 \in 0..MaxFaults
      BY <2>0, <2>1 DEF Breaking, Break, Bounds
    <3> QED
      BY <2>0, <2>1, <3>1 DEF Breaking, Break, Bounds
  <2>2. CASE Crashing
    <3>1. situation.crashes - 1 \in 0..MaxFaults
      BY <2>0, <2>2 DEF Crashing, SocketCrash, Bounds
    <3> QED
      BY <2>0, <2>2, <3>1 DEF Crashing, SocketCrash, Bounds
  <2> QED
    BY <2>1, <2>2
<1>3. link' \in [Page -> {"none", "open", "lost", "closed"}]
  BY DEF TypeInv, TypeOK, WireTypeOK, Breaking, Break, Crashing, SocketCrash
<1>4. /\ sessions' \in [Page -> Session \cup {NoValue}] /\ handler' \in [Slot -> Handler \cup {NoValue}]
      /\ \A c \in Page : sessions'[c] # NoValue => sessions'[c] = sessions[c]
      /\ \A s \in Slot : handler'[s] # NoValue => handler'[s] = handler[s]
  BY DEF TypeInv, TypeOK, ServerTypeOK, Breaking, Break, Crashing, SocketCrash, serverVars
<1>5. TypeOK'
  BY <1>1, <1>2, <1>3, <1>4
    DEF TypeInv, TypeOK, WireTypeOK, ServerTypeOK, ClientTypeOK, clientVars, Page, Round, Ui
<1>6. OpenedInv'
  <2>0. ~(\E i \in 1..Len(toClient') : TRUE)
    BY <1>1
  <2>1. \A r \in Round : Known(r)' => Known(r)
    BY <1>4, <2>0 DEF Known, Stepping, Busy
  <2>2. \A r \in Round : (Opened(r) => Opened(r)') /\ (Active(r)' => bonuses'[r] = bonuses[r])
    BY <1>1 DEF Opened, Active
  <2>3. \A s \in Slot : Busy(s, "start")' => handler'[s] = handler[s] /\ handler[s].arg.round \in Round
    BY <1>4, RowKinds DEF TypeInv, Busy
  <2> QED
    BY <2>1, <2>2, <2>3, OpenedKept DEF TypeInv
<1> QED
  BY <1>5, <1>6 DEF TypeInv

LEMMA PagesType ==
  ASSUME TypeInv, Leaves \/ CannotStart
  PROVE  TypeInv'
<1>0. TypeOK /\ MaxPages \in Nat \ {0} /\ spins \in 0..MaxSpins
  BY WireAssumption DEF TypeInv, TypeOK, ClientTypeOK
<1>1. CASE Leaves
  <2>1. /\ page < situation.pages /\ page' = page + 1 /\ ui' = NewPage /\ socket' = "connecting"
        /\ link' = [link EXCEPT ![page] = IF @ = "open" THEN "lost" ELSE @]
        /\ toServer' = <<>> /\ toClient' = <<>> /\ UNCHANGED <<situation, spins, serverVars>>
    BY <1>1 DEF Leaves, Load
  <2>2. page' \in Page
    BY <1>0, <2>1 DEF TypeOK, WireTypeOK, Bounds, Page
  <2>3. NewPage \in Ui
    BY <1>0 DEF NewPage, Ui, Phase, Balance, BalanceMessage
  <2>4. TypeOK'
    BY <1>0, <2>1, <2>2, <2>3
      DEF TypeOK, WireTypeOK, ServerTypeOK, ClientTypeOK, serverVars, backendVars, Page, Round, Ui
  <2> QED
    BY <2>1, <2>4, QuietOpened DEF TypeInv
<1>2. CASE CannotStart
  <2>1. /\ After(ui, "unrecoverable") /\ socket' = "closed"
        /\ UNCHANGED <<situation, page, link, toClient, serverVars>>
    BY <1>0, <1>2, FatalMoves DEF CannotStart, Fatal
  <2>2. ui' \in Ui /\ UNCHANGED <<spins, toServer>>
    BY <2>1 DEF After
  <2>3. TypeOK'
    BY <1>0, <2>1, <2>2
      DEF TypeOK, WireTypeOK, ServerTypeOK, ClientTypeOK, serverVars, backendVars, Page, Round, Ui
  <2> QED
    BY <2>1, <2>3, QuietOpened DEF TypeInv
<1> QED
  BY <1>1, <1>2

LEMMA ClosingType ==
  ASSUME TypeInv, NEW c \in Page, Closing(c)
  PROVE  TypeInv'
<1>1. /\ link' = [link EXCEPT ![c] = "closed"] /\ sessions' = [sessions EXCEPT ![c] = NoValue]
      /\ overtaken' \subseteq Page
      /\ UNCHANGED <<situation, page, socket, toServer, toClient, handler, backendVars, clientVars>>
  BY DEF Closing, OnClose, ForgottenSession, TypeInv, TypeOK, ServerTypeOK
<1>2. TypeOK'
  BY <1>1 DEF TypeInv, TypeOK, WireTypeOK, ServerTypeOK, ClientTypeOK, backendVars, clientVars, Page, Round, Ui
<1>3. \A r \in Round : Known(r)' => Known(r)
  BY <1>1 DEF Known, Stepping, Busy, TypeInv, TypeOK, ServerTypeOK
<1>4. \A r \in Round : (Opened(r) => Opened(r)') /\ (Active(r)' => bonuses'[r] = bonuses[r])
  BY <1>1 DEF Opened, backendVars
<1>5. \A s \in Slot : Busy(s, "start")' => handler'[s] = handler[s] /\ handler[s].arg.round \in Round
  BY <1>1, RowKinds DEF TypeInv, Busy
<1> QED
  BY <1>2, <1>3, <1>4, <1>5, OpenedKept DEF TypeInv

LEMMA InitType ==
  ASSUME Init
  PROVE  TypeInv
<1>1. MaxPages \in Nat \ {0} /\ MaxSpins \in Nat
  BY WireAssumption
<1>2. WireTypeOK
  BY <1>1, PlayAssumption DEF Init, WireTypeOK, Page
<1>3. ServerTypeOK
  BY DEF Init, ServerTypeOK
<1>4. ClientTypeOK
  BY <1>1 DEF Init, ClientTypeOK, NewPage, Ui, Phase, Balance, BalanceMessage
<1>5. OpenedInv
  BY DEF Init, OpenedInv, Known, Stepping, Busy, Active, Opened
<1> QED
  BY <1>2, <1>3, <1>4, <1>5 DEF TypeInv, TypeOK

LEMMA TypeKept ==
  ASSUME TypeInv, [Next]_vars
  PROVE  TypeInv'
<1>1. CASE PageMove
  <2>1. TypeOK'
    BY <1>1, MovesType DEF TypeInv
  <2>2. UNCHANGED serverVars /\ (toClient' = toClient \/ (toClient # <<>> /\ toClient' = Tail(toClient)))
    BY <1>1, MovesKeep DEF TypeInv
  <2> QED
    BY <2>1, <2>2, QuietOpened DEF TypeInv
<1>2. ASSUME NEW s \in Slot, SlotMoves(s)
      PROVE  TypeInv'
  BY <1>2, SlotsType, SlotsOpened DEF TypeInv
<1>3. CASE Connect
  BY <1>3, ConnectType, QuietOpened DEF TypeInv, Connect, Accept, Open
<1>4. CASE UNCHANGED vars
  <2>1. UNCHANGED <<wireVars, serverVars, clientVars>>
    BY <1>4 DEF vars
  <2>2. TypeOK'
    BY <2>1 DEF TypeInv, TypeOK, WireTypeOK, ServerTypeOK, ClientTypeOK, wireVars, serverVars, backendVars, clientVars,
      Page, Round, Ui
  <2> QED
    BY <2>1, <2>2, QuietOpened DEF TypeInv, wireVars
<1> QED
  BY <1>1, <1>2, <1>3, <1>4, NextMoves, SweepingType, FaultsType, PagesType, ClosingType

\* The variables of Play keep their types (PlayWire, SocketSession, GameClient).
\* What needs more than the types is game-backend's answer to a step: it reads
\* the bonus whose number a session or a handler holds (session.ts 315), which
\* is one that was opened.
THEOREM PlayTypes == Spec => []TypeOK
<1>1. Init => TypeInv
  BY InitType
<1>2. TypeInv /\ [Next]_vars => TypeInv'
  BY TypeKept
<1>3. TypeInv => TypeOK
  BY DEF TypeInv
<1> QED
  BY <1>1, <1>2, <1>3, PTL DEF Spec

-----------------------------------------------------------------------------
(* The connection                                                          *)

\* A connection that is down carries nothing.
LEMMA SlotsSilent ==
  ASSUME TypeInv, LinkInv, NEW s \in Slot, SlotMoves(s), socket # "open"
  PROVE  UNCHANGED <<toServer, toClient>>
<1>0. \A c \in Page : link[c] # "open"
  BY DEF LinkInv, TypeInv, TypeOK, WireTypeOK
<1>1. ~TakesRequest /\ handler[s] # NoValue => handler[s].conn \in Page
  BY <1>0, RowKinds DEF TakesRequest, TypeInv, TypeOK, WireTypeOK
<1>2. CASE Refused \/ Dispatched(s)
  BY <1>0, <1>2 DEF Refused, Dispatched, TakesRequest, TypeInv, TypeOK, WireTypeOK
<1>3. CASE IsServed(s)
  BY <1>3 DEF IsServed, TokenServed, BalanceServed, SpinServed, StartServed, StepServed, Fills
<1>4. CASE Continues(s)
  <2>1. handler[s] # NoValue /\ UNCHANGED toServer
    BY <1>4 DEF Continues, HasJoined, IsRefused, BalanceTold, SpinTold, StartTold, StepTold, HasFailed, Uses, Busy
  <2>2. link[handler[s].conn] # "open"
    BY <1>0, <2>1, RowKinds DEF TypeInv
  <2>3. toClient' = toClient
    BY <1>4, <2>2 DEF Continues, HasJoined, IsRefused, BalanceTold, SpinTold, StartTold, StepTold, StateTold, HasFailed,
      Tells, TellsBoth
  <2> QED
    BY <2>1, <2>3
<1> QED
  BY <1>2, <1>3, <1>4 DEF SlotMoves

LEMMA LinkKept ==
  ASSUME TypeInv, LinkInv, [Next]_vars
  PROVE  LinkInv'
<1>0. TypeOK /\ page \in Page /\ link \in [Page -> {"none", "open", "lost", "closed"}]
  BY DEF TypeInv, TypeOK, WireTypeOK
<1>1. CASE PageMove
  <2>1. /\ UNCHANGED <<page, link, handler>>
        /\ socket' = socket \/ (socket = "lost" /\ socket' = "closed")
        /\ toClient' = toClient \/ (toClient # <<>> /\ toClient' = Tail(toClient))
        /\ toServer' = toServer \/ socket = "open"
    BY <1>0, <1>1, MovesKeep, MovesAsk DEF serverVars, Quiet, AsksStep, AsksSpin
  <2>2. socket # "open" => toClient' = toClient /\ toServer' = toServer
    BY <2>1 DEF LinkInv
  <2> QED
    BY <2>1, <2>2 DEF LinkInv
<1>2. ASSUME NEW s \in Slot, SlotMoves(s)
      PROVE  LinkInv'
  <2>1. UNCHANGED <<page, link, socket>>
    BY <1>2 DEF SlotMoves, Elsewhere
  <2>2. ASSUME NEW t \in Slot, handler'[t] # NoValue
        PROVE  link[handler'[t].conn] # "none"
    BY <1>2, <2>2, OtherRows, OwnRow DEF LinkInv
  <2>3. socket # "open" => UNCHANGED <<toServer, toClient>>
    BY <1>2, SlotsSilent
  <2> QED
    BY <2>1, <2>2, <2>3 DEF LinkInv
<1>3. CASE Connect
  <2>1. /\ socket = "connecting" /\ socket' = "open" /\ link' = [link EXCEPT ![page] = "open"]
        /\ UNCHANGED <<page, handler>>
    BY <1>3 DEF Connect, Accept, Open, serverVars
  <2>2. link'[page] = "open" /\ \A c \in Page : c # page => link'[c] = link[c]
    BY <1>0, <2>1
  <2>3. \A s \in Slot : handler'[s] # NoValue => link'[handler'[s].conn] # "none"
    BY <1>0, <2>1, <2>2, RowKinds DEF LinkInv
  <2>4. \A c \in Page : c > page => c # page
    BY <1>0 DEF Page
  <2> QED
    BY <2>1, <2>2, <2>3, <2>4 DEF LinkInv
<1>4. CASE Sweeping
  BY <1>4 DEF Sweeping, wireVars, LinkInv
<1>5. CASE Breaking
  <2>1. /\ socket' = "lost" /\ link' = [link EXCEPT ![page] = IF @ = "open" THEN "lost" ELSE @]
        /\ toServer' = <<>> /\ toClient' = <<>> /\ UNCHANGED <<page, handler>>
    BY <1>5 DEF Breaking, Break, serverVars
  <2> QED
    BY <1>0, <2>1, RowKinds DEF LinkInv
<1>6. CASE Crashing
  <2>1. /\ socket' = IF socket \in {"connecting", "open"} THEN "lost" ELSE socket
        /\ link' = [c \in Page |-> IF link[c] = "none" THEN "none" ELSE "closed"]
        /\ handler' = [s \in Slot |-> NoValue]
        /\ toServer' = <<>> /\ toClient' = <<>> /\ UNCHANGED page
    BY <1>6 DEF Crashing, SocketCrash
  <2> QED
    BY <1>0, <2>1 DEF LinkInv
<1>7. CASE Leaves
  <2>1. /\ page < situation.pages /\ page' = page + 1 /\ socket' = "connecting"
        /\ link' = [link EXCEPT ![page] = IF @ = "open" THEN "lost" ELSE @]
        /\ toServer' = <<>> /\ toClient' = <<>> /\ UNCHANGED handler
    BY <1>7 DEF Leaves, Load, serverVars
  <2>2. page + 1 \in Page /\ page < page + 1 /\ page \in Nat
    BY <1>0, <2>1, WireAssumption DEF TypeOK, WireTypeOK, Bounds, Page
  <2>3. \A c \in Page : c > page + 1 => c > page
    BY <2>2 DEF Page
  <2>4. link'[page + 1] = "none" /\ \A c \in Page : link'[c] # "open"
    BY <1>0, <2>1, <2>2 DEF LinkInv
  <2>5. \A s \in Slot : handler'[s] # NoValue => link'[handler'[s].conn] # "none"
    BY <1>0, <2>1, RowKinds DEF LinkInv
  <2> QED
    BY <1>0, <2>1, <2>2, <2>3, <2>4, <2>5 DEF LinkInv
<1>8. CASE CannotStart
  <2>1. socket = "connecting" /\ socket' = "closed" /\ UNCHANGED <<page, link, toClient, handler>>
    BY <1>8 DEF CannotStart, Fatal, serverVars
  <2>2. toServer' = toServer
    BY <1>0, <1>8, FatalMoves DEF CannotStart, After
  <2> QED
    BY <2>1, <2>2 DEF LinkInv
<1>9. ASSUME NEW c \in Page, Closing(c)
      PROVE  LinkInv'
  <2>1. /\ link[c] = "lost" /\ link' = [link EXCEPT ![c] = "closed"]
        /\ UNCHANGED <<page, socket, toServer, toClient, handler>>
    BY <1>9 DEF Closing, OnClose
  <2> QED
    BY <1>0, <2>1, RowKinds DEF LinkInv
<1>10. CASE UNCHANGED vars
  BY <1>10 DEF vars, wireVars, serverVars, LinkInv
<1> QED
  BY <1>1, <1>2, <1>3, <1>4, <1>5, <1>6, <1>7, <1>8, <1>9, <1>10, NextMoves

LEMMA SlotsClosed ==
  ASSUME TypeInv, ClosedInv, NEW s \in Slot, SlotMoves(s)
  PROVE  ClosedInv'
<1>0. UNCHANGED <<page, link, overtaken>>
  BY DEF SlotMoves, Elsewhere
<1>1. ASSUME NEW c \in Page, link[c] = "closed", NEW t \in Slot, Busy(t, "consume")', handler'[t].conn = c
      PROVE  c \in overtaken
  BY <1>1, OtherRows, OwnRow DEF ClosedInv, Busy
<1>2. ASSUME NEW c \in Page, link[c] = "closed", sessions'[c] # NoValue
      PROVE  c \in overtaken
  <2>1. CASE HasJoined(s)
    BY <1>2, <2>1 DEF HasJoined, Uses, ClosedInv
  <2>2. ASSUME NEW conn, NEW bonus, Remembers(conn, bonus)
        PROVE  c \in overtaken
    BY <1>2, <2>2 DEF Remembers, ClosedInv
  <2>3. CASE sessions' = sessions
    BY <1>2, <2>3 DEF ClosedInv
  <2> QED
    BY <2>1, <2>2, <2>3 DEF SlotMoves, Refused, Dispatched, IsServed, TokenServed, BalanceServed, SpinServed, StartServed,
      StepServed, Fills, Continues, IsRefused, BalanceTold, SpinTold, StartTold, StepTold, HasFailed
<1> QED
  BY <1>0, <1>1, <1>2 DEF ClosedInv

LEMMA ClosedKept ==
  ASSUME TypeInv, ClosedInv, [Next]_vars
  PROVE  ClosedInv'
<1>0. TypeOK /\ page \in Page /\ link \in [Page -> {"none", "open", "lost", "closed"}]
  BY DEF TypeInv, TypeOK, WireTypeOK
<1>1. CASE PageMove
  BY <1>0, <1>1, MovesKeep DEF serverVars, ClosedInv, Busy
<1>2. CASE \E s \in Slot : SlotMoves(s)
  BY <1>2, SlotsClosed
<1>3. CASE Connect
  <2>1. link' = [link EXCEPT ![page] = "open"] /\ UNCHANGED <<sessions, handler, overtaken>>
    BY <1>3 DEF Connect, Accept, serverVars
  <2> QED
    BY <1>0, <2>1 DEF ClosedInv, Busy
<1>4. CASE Sweeping \/ UNCHANGED vars \/ CannotStart
  <2>1. UNCHANGED <<link, sessions, handler, overtaken>>
    BY <1>4 DEF Sweeping, vars, wireVars, serverVars, CannotStart, Fatal
  <2> QED
    BY <2>1 DEF ClosedInv, Busy
<1>5. CASE Breaking \/ Leaves
  <2>1. link' = [link EXCEPT ![page] = IF @ = "open" THEN "lost" ELSE @] /\ UNCHANGED <<sessions, handler, overtaken>>
    BY <1>5 DEF Breaking, Break, Leaves, Load, serverVars
  <2>2. \A c \in Page : link'[c] = "closed" => link[c] = "closed"
    BY <1>0, <2>1
  <2> QED
    BY <2>1, <2>2 DEF ClosedInv, Busy
<1>6. CASE Crashing
  BY <1>6 DEF Crashing, SocketCrash, ClosedInv, Busy
<1>7. ASSUME NEW c \in Page, Closing(c)
      PROVE  ClosedInv'
  <2>1. /\ link' = [link EXCEPT ![c] = "closed"] /\ sessions' = [sessions EXCEPT ![c] = NoValue]
        /\ overtaken \subseteq overtaken' /\ UNCHANGED handler
        /\ \A s \in Slot : Busy(s, "consume") /\ handler[s].conn = c => c \in overtaken'
    BY <1>7 DEF Closing, OnClose, ForgottenSession, Busy
  <2>2. \A d \in Page : d # c => link'[d] = link[d] /\ sessions'[d] = sessions[d]
    BY <1>0, <2>1 DEF TypeOK, ServerTypeOK
  <2>3. sessions'[c] = NoValue
    BY <1>0, <2>1 DEF TypeOK, ServerTypeOK
  <2> QED
    BY <2>1, <2>2, <2>3 DEF ClosedInv, Busy
<1> QED
  BY <1>1, <1>2, <1>3, <1>4, <1>5, <1>6, <1>7, NextMoves

\* The map of sessions forgets a closed connection, unless the close overtook
\* its JOIN (server.ts 168-171, session.ts 173): only such a JOIN is still
\* handled when a connection is closed, and nothing else enters a session.
THEOREM PlayClosed == Spec => []ClosedIsForgotten
<1>1. Init => TypeInv /\ ClosedInv
  <2>1. Init => ClosedInv
    BY DEF Init, ClosedInv, Busy
  <2> QED
    BY <2>1, InitType
<1>2. TypeInv /\ ClosedInv /\ [Next]_vars => (TypeInv /\ ClosedInv)'
  BY TypeKept, ClosedKept
<1>3. ClosedInv => ClosedIsForgotten
  BY DEF ClosedInv, ClosedIsForgotten
<1> QED
  BY <1>1, <1>2, <1>3, PTL DEF Spec

-----------------------------------------------------------------------------
(* Rounds on their way                                                     *)

\* A handler that waits for the same call as before has its answer at most.
LEMMA RowsKeep ==
  ASSUME TypeInv, NEW s \in Slot, SlotMoves(s), NEW t \in Slot,
         handler[t] # NoValue, handler'[t] # NoValue, handler'[t].call = handler[t].call
  PROVE  \/ handler'[t] = handler[t]
         \/ t = s /\ IsServed(s) /\ ~Got(t) /\ Got(t)' /\ handler'[t].arg = handler[t].arg
<1>1. CASE t # s
  BY <1>1, OtherRows
<1>2. CASE t = s
  BY <1>2, OwnRow DEF HasJoined, SpinTold, StartTold, StepTold, Uses, Busy, Dispatched
<1> QED
  BY <1>1, <1>2

LEMMA ServedKinds ==
  ASSUME NEW s, IsServed(s)
  PROVE  /\ Busy(s, "spin") => SpinServed(s)
         /\ Busy(s, "start") => StartServed(s)
         /\ Busy(s, "step") => StepServed(s)
BY DEF IsServed, TokenServed, BalanceServed, SpinServed, StartServed, StepServed, Fills, Busy

\* A result or a state comes first, and a balance after it.
LEMMA SentFirst ==
  ASSUME TypeInv, NEW s \in Slot, SpinTold(s) \/ StartTold(s) \/ StepTold(s),
         NEW i \in 1..Len(toClient'), i > Len(toClient)
  PROVE  i = Len(toClient) + 1 \/ toClient'[i].type = "BALANCE_UPDATE"
<1>1. Len(toClient) \in Nat /\ i \in Nat
  BY DEF TypeInv, TypeOK, WireTypeOK
<1>2. ASSUME NEW c, NEW m, Tells(c, m)
      PROVE  i = Len(toClient) + 1
  BY <1>1, <1>2 DEF Tells
<1>3. ASSUME NEW c, NEW m, NEW b, NEW r, TellsBoth(c, m, Balance("BALANCE_UPDATE", b, r))
      PROVE  i = Len(toClient) + 1 \/ toClient'[i].type = "BALANCE_UPDATE"
  <2>1. CASE i = Len(toClient) + 2
    BY <1>1, <1>3, <2>1 DEF TellsBoth, Balance
  <2>2. CASE i # Len(toClient) + 2
    BY <1>1, <1>3, <2>2 DEF TellsBoth
  <2> QED
    BY <2>1, <2>2
<1>4. CASE SpinTold(s)
  BY <1>3, <1>4 DEF SpinTold
<1>5. ASSUME NEW r, NEW stepped, StateTold(s, r, stepped)
      PROVE  i = Len(toClient) + 1 \/ toClient'[i].type = "BALANCE_UPDATE"
  BY <1>2, <1>3, <1>5 DEF StateTold
<1> QED
  BY <1>4, <1>5 DEF StartTold, StepTold

\* The old requests that are still under way, one place further when one was taken.
Shifts(new, old) ==
  \E k \in Nat : \A i \in 1..Len(new) : i + k \in 1..Len(old) /\ new[i] = old[i + k]

LEMMA TailShifts ==
  ASSUME NEW S, NEW q \in Seq(S), q # <<>>
  PROVE  Shifts(Tail(q), q)
BY TakesOne DEF Shifts

LEMMA SameShifts ==
  ASSUME NEW S, NEW q \in Seq(S)
  PROVE  Shifts(q, q) /\ Shifts(<<>>, q)
<1>1. \A i \in 1..Len(q) : i + 0 \in 1..Len(q) /\ q[i] = q[i + 0]
  OBVIOUS
<1>2. 0 \in Nat /\ ~(\E i \in 1..Len(<<>>) : TRUE)
  OBVIOUS
<1> QED
  BY <1>1, <1>2 DEF Shifts

\* A step that only makes less of a round.
Shrinks(r) ==
  /\ Shifts(toClient', toClient)
  /\ Requested(r)' => Requested(r)
  /\ \A i, j \in 1..Len(toServer') : toServer'[i] = Request(r) /\ toServer'[j] = Request(r) => i = j
  /\ \A s \in Slot : handler'[s] \in {handler[s], NoValue}
  /\ \A c \in Page : sessions'[c] \in {sessions[c], NoValue}
  /\ Opened(r)' => Opened(r) /\ bonuses'[r].module = bonuses[r].module
  /\ Active(r)' => Active(r)
  /\ spins' \in {spins, spins + 1}

LEMMA RoundShrinks ==
  ASSUME TypeOK, NEW r \in Round, RoundInv(r), Shrinks(r)
  PROVE  RoundInv(r)' /\ (Pending(r)' => Pending(r)) /\ ((Asked(r) \/ Told(r))' => Asked(r) \/ Told(r))
<1> USE DEF RoundInv
<1>0. PICK k \in Nat : \A i \in 1..Len(toClient') : i + k \in 1..Len(toClient) /\ toClient'[i] = toClient[i + k]
  BY DEF Shrinks, Shifts
<1>1. \A s \in Slot : /\ Spinning(s, r)' => Spinning(s, r)
                      /\ Starting(s, r)' => Starting(s, r) /\ (Got(s)' => Got(s)) /\ (Got(s) => Got(s)') /\ handler'[s] = handler[s]
                      /\ Stepping(s, r)' => Stepping(s, r)
                      /\ Stepped(s, r)' => Stepped(s, r)
                      /\ Ending(s, r)' => Ending(s, r)
  BY DEF Shrinks, Spinning, Starting, Stepping, Stepped, Ending, Busy, Got
<1>2. (Asked(r)' => Asked(r)) /\ (Starts(r)' => Starts(r)) /\ (Ends(r)' => Ends(r)) /\ (Told(r)' => Told(r))
  BY <1>0, <1>1 DEF Asked, Starts, Ends, Told, Shrinks
<1>3. Known(r)' => Known(r)
  BY <1>0, <1>1 DEF Known, Shrinks
<1>4. OneSpin(r)'
  BY <1>1 DEF OneSpin, Shrinks
<1>5. OneResult(r)'
  <2>1. \A i, j \in 1..Len(toClient') : IsResult(toClient'[i], r) /\ IsResult(toClient'[j], r) => i = j
    <3>1. \A i, j \in 1..Len(toClient') : i + k = j + k => i = j
      OBVIOUS
    <3> QED
      BY <1>0, <3>1 DEF OneResult
  <2>2. \A i \in 1..Len(toClient') :
          IsResult(toClient'[i], r) /\ toClient'[i].triggered = NoValue => ~Starts(r)' /\ ~Opened(r)'
    BY <1>0, <1>2 DEF OneResult, Shrinks
  <2> QED
    BY <1>2, <2>1, <2>2 DEF OneResult
<1>6. OneStart(r)'
  BY <1>1, <1>2, <1>3 DEF OneStart, Shrinks
<1>7. OneEnd(r)'
  <2>1. \A i, j \in 1..Len(toClient') : IsState(toClient'[i], r) /\ IsResult(toClient'[j], r) => j < i
    <3>1. \A i, j \in 1..Len(toClient') : j + k < i + k => j < i
      OBVIOUS
    <3> QED
      BY <1>0, <3>1 DEF OneEnd
  <2>2. \A i \in 1..Len(toClient') :
          IsState(toClient'[i], r) /\ toClient'[i].done => ~Active(r)' /\ ~Ends(r)'
    BY <1>0, <1>2 DEF OneEnd, Shrinks
  <2> QED
    BY <1>1, <1>2, <2>1, <2>2 DEF OneEnd, Shrinks
<1>8. Wheel(r)'
  BY <1>1 DEF Wheel, Shrinks
<1>9. WheelShown(r)'
  BY <1>0 DEF WheelShown
<1>10. Future(r)'
  BY <1>2 DEF Future, Shrinks, TypeOK, ClientTypeOK, Round
<1> QED
  BY <1>2, <1>4, <1>5, <1>6, <1>7, <1>8, <1>9, <1>10 DEF Pending, Shrinks

\* A request that a handler takes was there, and is gone.
LEMMA Requests ==
  ASSUME TypeInv, NEW s \in Slot, SlotMoves(s), NEW r \in Round, OneSpin(r)
  PROVE  /\ Requested(r)' => Requested(r)
         /\ \A i, j \in 1..Len(toServer') : toServer'[i] = Request(r) /\ toServer'[j] = Request(r) => i = j
         /\ Spins(s, r) => Requested(r) /\ ~Requested(r)' /\ handler[s] = NoValue
<1>0. toServer \in Seq(ClientToServerMessage)
  BY DEF TypeInv, TypeOK, WireTypeOK
<1>1. CASE toServer' = toServer /\ ~Dispatched(s)
  BY <1>1 DEF Requested, OneSpin, Spins
<1>2. CASE toServer # <<>> /\ toServer' = Tail(toServer)
  <2>1. /\ Len(toServer) \in Nat \ {0} /\ 1 \in 1..Len(toServer)
        /\ \A i \in 1..Len(toServer') : toServer'[i] = toServer[i + 1] /\ i + 1 \in 1..Len(toServer)
    BY <1>0, <1>2, TakesOne
  <2>2. Requested(r)' => Requested(r)
    BY <2>1 DEF Requested
  <2>3. \A i, j \in 1..Len(toServer') : toServer'[i] = Request(r) /\ toServer'[j] = Request(r) => i + 1 = j + 1
    BY <2>1 DEF OneSpin
  <2>4. \A i, j \in 1..Len(toServer') : i + 1 = j + 1 => i = j
    OBVIOUS
  <2>5. Spins(s, r) => Requested(r) /\ handler[s] = NoValue
    BY <2>1 DEF Spins, Requested, Dispatched
  <2>6. \A i \in 1..Len(toServer') : i + 1 # 1
    OBVIOUS
  <2>7. Spins(s, r) => ~Requested(r)'
    BY <2>1, <2>6 DEF Spins, Requested, OneSpin
  <2> QED
    BY <2>2, <2>3, <2>4, <2>5, <2>7
<1>3. (toServer' = toServer /\ ~Dispatched(s)) \/ (toServer # <<>> /\ toServer' = Tail(toServer))
  BY DEF SlotMoves, Refused, Dispatched, TakesRequest, IsServed, TokenServed, BalanceServed, SpinServed, StartServed, StepServed,
    Fills, Continues, HasJoined, IsRefused, BalanceTold, SpinTold, StartTold, StepTold, HasFailed, Uses
<1> QED
  BY <1>1, <1>2, <1>3

\* What a step of a handler adds to a round: its spin, result, bonus and states
\* are each taken from what comes before them.
LEMMA RoundMoves ==
  ASSUME TypeInv, NEW s \in Slot, SlotMoves(s), NEW r \in Round, RoundInv(r)
  PROVE  /\ Asked(r)' => Asked(r)
         /\ Told(r)' => Told(r) \/ (SpinTold(s) /\ Spinning(s, r) /\ ~Asked(r)')
         /\ Starts(r)' => Starts(r) \/ (SpinTold(s) /\ Spinning(s, r) /\ handler[s].got.triggered # NoValue)
         /\ Opened(r)' => Opened(r) \/ (StartServed(s) /\ Starting(s, r) /\ ~Got(s))
         /\ Active(r)' => Active(r) \/ (StartServed(s) /\ Starting(s, r) /\ ~Got(s))
         /\ \A t \in Slot : Stepped(t, r)' =>
              \/ Stepped(t, r) /\ handler'[t] = handler[t]
              \/ t = s /\ StepServed(s) /\ Stepping(s, r) /\ Active(r) /\ ~Got(s)
         /\ Ends(r)' => Ends(r) \/ (StepServed(s) /\ Stepping(s, r) /\ Active(r) /\ ~Active(r)')
         /\ \A t \in Slot : Starting(t, r)' /\ Got(t)' =>
              \/ Starting(t, r) /\ Got(t) /\ handler'[t] = handler[t]
              \/ t = s /\ StartServed(s) /\ Starting(s, r) /\ ~Got(s)
         /\ \A t \in Slot : Starting(t, r)' /\ ~Got(t)' => (Starting(t, r) /\ ~Got(t)) \/ (SpinTold(s) /\ Spinning(s, r))
<1> USE DEF RoundInv
<1>1. Asked(r)' => Asked(r)
  BY Requests, Rows DEF Asked
<1>2. SpinTold(s) /\ Spinning(s, r) => ~Asked(r)'
  <2> SUFFICES ASSUME SpinTold(s), Spinning(s, r)
               PROVE  ~Asked(r)'
    OBVIOUS
  <2>1. ~Requested(r)
    BY DEF OneSpin
  <2>2. \A t \in Slot : ~Spinning(t, r)'
    BY <2>1, Rows, Requests, TellingEnds DEF OneSpin
  <2> QED
    BY <2>1, <2>2, Requests DEF Asked
<1>3. Told(r)' => Told(r) \/ (SpinTold(s) /\ Spinning(s, r))
  BY Sent DEF Told
<1>4. Starts(r)' => Starts(r) \/ (SpinTold(s) /\ Spinning(s, r) /\ handler[s].got.triggered # NoValue)
  BY Rows DEF Starts
<1>5. /\ Opened(r)' => Opened(r) \/ (StartServed(s) /\ Starting(s, r) /\ ~Got(s))
      /\ Active(r)' => Active(r) \/ (StartServed(s) /\ Starting(s, r) /\ ~Got(s))
  BY BonusRows DEF Opened, Active
<1>6. ASSUME NEW t \in Slot, Stepped(t, r)'
      PROVE  \/ Stepped(t, r) /\ handler'[t] = handler[t]
             \/ t = s /\ StepServed(s) /\ Stepping(s, r) /\ Active(r) /\ ~Got(s) /\ (Ending(t, r)' => ~Active(r)')
  <2>1. Stepping(t, r) /\ Stepping(t, r)'
    BY <1>6, Rows DEF Stepped
  <2>2. CASE handler'[t] = handler[t]
    BY <1>6, <2>2 DEF Stepped, Stepping, Busy, Got
  <2>3. CASE t = s /\ IsServed(s) /\ ~Got(s)
    <3>1. StepServed(s)
      BY <2>1, <2>3, ServedKinds DEF Stepping
    <3>2. handler'[s].got.refusal = NoValue
      BY <1>6, <2>3 DEF Stepped
    <3>3. /\ Active(r)
          /\ handler'[s].got.done => ~Active(r)'
      BY <2>1, <2>3, <3>1, <3>2 DEF StepServed, Fills, Stepping, Turns, Active
    <3> QED
      BY <2>1, <2>3, <3>1, <3>3 DEF Ending
  <2> QED
    BY <2>1, <2>2, <2>3, RowsKeep DEF Stepping, Busy
<1>7. Ends(r)' => Ends(r) \/ (StepServed(s) /\ Stepping(s, r) /\ Active(r) /\ ~Active(r)')
  BY <1>6 DEF Ends, Ending
<1>8. ASSUME NEW t \in Slot, Starting(t, r)', Starting(t, r)
      PROVE  \/ handler'[t] = handler[t]
             \/ t = s /\ StartServed(s) /\ ~Got(s) /\ Got(t)'
  BY <1>8, RowsKeep, ServedKinds DEF Starting, Busy
<1>9. ASSUME NEW t \in Slot, Starting(t, r)', Got(t)'
      PROVE  \/ Starting(t, r) /\ Got(t) /\ handler'[t] = handler[t]
             \/ t = s /\ StartServed(s) /\ Starting(s, r) /\ ~Got(s)
  BY <1>8, <1>9, Rows DEF Got
<1>10. ASSUME NEW t \in Slot, Starting(t, r)', ~Got(t)'
       PROVE  (Starting(t, r) /\ ~Got(t)) \/ (SpinTold(s) /\ Spinning(s, r))
  BY <1>8, <1>10, Rows DEF Got
<1> QED
  BY <1>1, <1>2, <1>3, <1>4, <1>5, <1>6, <1>7, <1>9, <1>10

LEMMA SlotsOneSpin ==
  ASSUME TypeInv, NEW s \in Slot, SlotMoves(s), NEW r \in Round, RoundInv(r)
  PROVE  OneSpin(r)'
<1> USE DEF RoundInv
<1>1. ASSUME NEW t \in Slot, NEW u \in Slot, Spinning(t, r)', Spinning(u, r)'
      PROVE  t = u
  <2>1. (Spinning(t, r) \/ (t = s /\ Spins(s, r))) /\ (Spinning(u, r) \/ (u = s /\ Spins(s, r)))
    BY <1>1, Rows
  <2> QED
    BY <2>1, Requests DEF OneSpin
<1>2. ASSUME NEW t \in Slot, Spinning(t, r)'
      PROVE  ~Requested(r)'
  BY <1>2, Rows, Requests DEF OneSpin
<1> QED
  BY <1>1, <1>2, Requests DEF OneSpin

LEMMA SlotsOneResult ==
  ASSUME TypeInv, NEW s \in Slot, SlotMoves(s), NEW r \in Round, RoundInv(r)
  PROVE  OneResult(r)'
<1> USE DEF RoundInv
<1>1. ASSUME NEW i \in 1..Len(toClient'), IsResult(toClient'[i], r)
      PROVE  \/ i \in 1..Len(toClient) /\ toClient'[i] = toClient[i] /\ IsResult(toClient[i], r) /\ Told(r)
             \/ /\ i = Len(toClient) + 1 /\ SpinTold(s) /\ Spinning(s, r) /\ ~Told(r) /\ Asked(r)
                /\ toClient'[i].triggered = handler[s].got.triggered
  <2>1. SpinTold(s) /\ i > Len(toClient) => i = Len(toClient) + 1
    BY <1>1, SentFirst DEF IsResult
  <2>2. Spinning(s, r) => Asked(r) /\ ~Told(r)
    BY DEF Asked, OneResult
  <2> QED
    BY <1>1, <2>1, <2>2, Sent DEF Told
<1>2. \A i, j \in 1..Len(toClient') : IsResult(toClient'[i], r) /\ IsResult(toClient'[j], r) => i = j
  BY <1>1 DEF OneResult
<1>3. Told(r)' => ~Asked(r)'
  BY RoundMoves DEF OneResult
<1>4. ASSUME NEW i \in 1..Len(toClient'), IsResult(toClient'[i], r), toClient'[i].triggered = NoValue
      PROVE  ~Starts(r)' /\ ~Opened(r)'
  <2>1. CASE i \in 1..Len(toClient) /\ toClient'[i] = toClient[i] /\ Told(r)
    <3>1. ~Asked(r) /\ ~Starts(r) /\ ~Opened(r)
      BY <1>4, <2>1 DEF OneResult
    <3> QED
      BY <3>1, RoundMoves DEF Asked, Starts
  <2>2. CASE SpinTold(s) /\ Spinning(s, r) /\ handler[s].got.triggered = NoValue /\ Asked(r)
    <3>1. ~Starts(r) /\ ~Opened(r)
      BY <2>2 DEF OneStart
    <3> QED
      BY <2>2, <3>1, RoundMoves DEF Starts
  <2> QED
    BY <1>1, <1>4, <2>1, <2>2
<1> QED
  BY <1>2, <1>3, <1>4 DEF OneResult

LEMMA SlotsOneStart ==
  ASSUME TypeInv, NEW s \in Slot, SlotMoves(s), NEW r \in Round, RoundInv(r)
  PROVE  OneStart(r)'
<1> USE DEF RoundInv
<1>0. Spinning(s, r) => Asked(r) /\ ~Starts(r) /\ ~Opened(r)
  BY DEF Asked, OneStart
<1>1. ASSUME NEW t \in Slot, NEW u \in Slot, Starting(t, r)', Starting(u, r)'
      PROVE  t = u
  BY <1>0, <1>1, Rows DEF OneStart, Starts
<1>2. Starts(r)' \/ Opened(r)' => ~Asked(r)'
  <2>1. SpinTold(s) /\ Spinning(s, r) => ~Asked(r)'
    <3>1. SpinTold(s) /\ Spinning(s, r) => ~Requested(r)
      BY DEF OneSpin
    <3>2. SpinTold(s) /\ Spinning(s, r) => \A t \in Slot : ~Spinning(t, r)'
      BY <3>1, Rows, Requests, TellingEnds DEF OneSpin
    <3> QED
      BY <3>1, <3>2, Requests DEF Asked
  <2>2. StartServed(s) /\ Starting(s, r) => Starts(r)
    BY DEF Starts
  <2> QED
    BY <2>1, <2>2, RoundMoves DEF OneStart
<1>3. ASSUME NEW t \in Slot, Starting(t, r)', ~Got(t)', Opened(r)'
      PROVE  FALSE
  <2>1. CASE Starting(t, r) /\ ~Got(t)
    <3>1. ~Opened(r)
      BY <2>1 DEF OneStart
    <3>2. StartServed(s) /\ Starting(s, r)
      BY <1>3, <3>1, RoundMoves
    <3>3. t = s
      BY <2>1, <3>2 DEF OneStart
    <3>4. Got(s)'
      BY <3>2 DEF StartServed, Fills, Got
    <3> QED
      BY <1>3, <3>3, <3>4
  <2>2. CASE SpinTold(s) /\ Spinning(s, r)
    BY <1>0, <1>3, <2>2, RoundMoves DEF Starts
  <2> QED
    BY <1>3, <2>1, <2>2, RoundMoves
<1>4. ASSUME Known(r)'
      PROVE  ~Starts(r)'
  <2>1. CASE Known(r)
    <3>1. ~Starts(r) /\ Opened(r)
      BY <2>1 DEF OneStart, TypeInv, OpenedInv
    <3> QED
      BY <1>0, <3>1, RoundMoves
  <2>2. CASE StartTold(s) /\ Starting(s, r)
    <3>1. ASSUME NEW t \in Slot, Starting(t, r)'
          PROVE  FALSE
      BY <1>0, <2>2, <3>1, Rows, TellingEnds DEF OneStart, Starts
    <3> QED
      BY <3>1 DEF Starts
  <2> QED
    BY <1>4, <2>1, <2>2, KnownSpreads
<1> QED
  BY <1>1, <1>2, <1>3, <1>4 DEF OneStart

LEMMA SlotsOneEnd ==
  ASSUME TypeInv, NEW s \in Slot, SlotMoves(s), NEW r \in Round, RoundInv(r)
  PROVE  OneEnd(r)'
<1> USE DEF RoundInv
<1>0. /\ Spinning(s, r) => Asked(r) /\ ~Starts(r) /\ ~Opened(r) /\ ~Known(r)
      /\ Starting(s, r) => Starts(r) /\ ~Known(r)
      /\ \A t \in Slot : Stepping(t, r) => Known(r) /\ Opened(r)
  BY DEF Asked, Starts, OneStart, Known, TypeInv, OpenedInv
<1>1. ASSUME NEW t \in Slot, Ending(t, r)'
      PROVE  \/ Ending(t, r)
             \/ t = s /\ StepServed(s) /\ Active(r) /\ ~Got(s) /\ Stepping(s, r)
  BY <1>1, RoundMoves DEF Ending, Stepped
<1>2. \A t, u \in Slot : Ending(t, r)' /\ Ending(u, r)' => t = u
  BY <1>1 DEF OneEnd, Ends
<1>3. ASSUME Known(r)
      PROVE  Active(r)' => Active(r)
  BY <1>0, <1>3, RoundMoves
<1>4. Ends(r)' => ~Active(r)'
  <2>1. Ends(r) => Known(r)
    BY <1>0 DEF Ends, Ending, Stepped
  <2> QED
    BY <1>3, <2>1, RoundMoves DEF OneEnd
<1>5. ASSUME NEW t \in Slot, Starting(t, r)', Got(t)', handler'[t].got.done
      PROVE  ~Active(r)'
  <2>1. CASE Starting(t, r) /\ Got(t) /\ handler'[t] = handler[t]
    <3>1. ~Active(r)
      BY <1>5, <2>1 DEF OneEnd
    <3>2. StartServed(s) /\ Starting(s, r) /\ ~Got(s) => FALSE
      BY <2>1 DEF OneStart
    <3> QED
      BY <3>1, <3>2, RoundMoves
  <2>2. CASE t = s /\ StartServed(s) /\ Starting(s, r)
    BY <1>5, <2>2 DEF StartServed, Fills, Turns, Starting, Active
  <2> QED
    BY <1>5, <2>1, <2>2, RoundMoves
<1>6. ASSUME NEW i \in 1..Len(toClient'), NEW j \in 1..Len(toClient'), IsState(toClient'[i], r), IsResult(toClient'[j], r)
      PROVE  j < i
  <2>0. Len(toClient) \in Nat /\ (i \in 1..Len(toClient) /\ IsState(toClient[i], r) => Known(r))
    BY DEF Known, TypeInv, TypeOK, WireTypeOK
  <2>1. CASE SpinTold(s) /\ Spinning(s, r)
    BY <1>0, <1>6, <2>0, <2>1, Sent DEF Stepped
  <2>2. CASE ~(SpinTold(s) /\ Spinning(s, r))
    <3>1. j \in 1..Len(toClient) /\ IsResult(toClient[j], r)
      BY <1>6, <2>2, Sent
    <3> QED
      BY <1>6, <2>0, <3>1, Sent DEF OneEnd
  <2> QED
    BY <2>1, <2>2
<1>7. ASSUME NEW i \in 1..Len(toClient'), IsState(toClient'[i], r), toClient'[i].done
      PROVE  ~Active(r)' /\ ~Ends(r)'
  <2>1. CASE i \in 1..Len(toClient) /\ toClient'[i] = toClient[i] /\ IsState(toClient[i], r)
    <3>1. Known(r) /\ ~Active(r) /\ ~Ends(r)
      BY <1>7, <2>1 DEF Known, OneEnd
    <3> QED
      BY <1>3, <3>1, RoundMoves
  <2>2. CASE StartTold(s) /\ Starting(s, r) /\ Got(s) /\ handler[s].got.done
    <3>1. ~Active(r) /\ ~Known(r)
      BY <1>0, <2>2 DEF OneEnd
    <3>2. ~Ends(r)
      BY <1>0, <3>1 DEF Ends, Ending, Stepped
    <3> QED
      BY <2>2, <3>1, <3>2, RoundMoves
  <2>3. CASE StepTold(s) /\ Stepped(s, r) /\ handler[s].got.done
    <3>1. Ending(s, r) /\ ~Active(r) /\ Known(r)
      BY <1>0, <2>3 DEF Ending, OneEnd, Ends, Stepped
    <3>2. ASSUME NEW t \in Slot, Ending(t, r)'
          PROVE  FALSE
      <4>1. Ending(t, r)
        BY <1>1, <3>1, <3>2
      <4>2. t = s
        BY <3>1, <4>1 DEF OneEnd
      <4> QED
        BY <2>3, <3>2, <4>2, TellingEnds DEF Ending, Stepped
    <3> QED
      BY <1>3, <3>1, <3>2 DEF Ends
  <2> QED
    BY <1>7, <2>1, <2>2, <2>3, Sent
<1> QED
  BY <1>2, <1>4, <1>5, <1>6, <1>7 DEF OneEnd

LEMMA SlotsWheel ==
  ASSUME TypeInv, NEW s \in Slot, SlotMoves(s), NEW r \in Round, RoundInv(r)
  PROVE  Wheel(r)' /\ WheelShown(r)'
<1> USE DEF RoundInv
<1>0. \A t \in Slot : Stepping(t, r) => Known(r) /\ Opened(r) /\ ~Starting(s, r)
  BY DEF Starts, OneStart, Known, TypeInv, OpenedInv
<1>1. CASE StartServed(s) /\ Starting(s, r) /\ ~Got(s)
  <2>1. PICK a \in BonusAnswer, b \in Bonus :
          Fills(s, "start", a) /\ Turns(r, b) /\ (a.done <=> b.module = "wheel") /\ (a.done <=> b.status # "active")
    BY <1>1 DEF StartServed, Starting
  <2>2. bonuses'[r] = b /\ handler'[s].got = a /\ Starting(s, r)
    BY <1>1, <2>1 DEF Turns, Fills
  <2>3. ASSUME bonuses'[r].module = "wheel"
        PROVE  ~Active(r)'
    BY <2>1, <2>2, <2>3 DEF Active
  <2>4. \A t \in Slot : ~Stepped(t, r)'
    BY <1>0, <1>1, RoundMoves DEF Stepped
  <2>5. ASSUME NEW t \in Slot, Starting(t, r)', Got(t)', bonuses'[r].module = "wheel"
        PROVE  handler'[t].got.done
    <3>1. t = s
      BY <1>1, <2>5, RoundMoves DEF OneStart
    <3> QED
      BY <2>1, <2>2, <2>5, <3>1
  <2>6. WheelShown(r)'
    <3>1. ASSUME NEW i \in 1..Len(toClient'), IsState(toClient'[i], r)
          PROVE  FALSE
      BY <1>1, <3>1, Sent DEF Known, Starts, OneStart, Stepped
    <3> QED
      BY <3>1 DEF WheelShown
  <2> QED
    BY <2>3, <2>4, <2>5, <2>6 DEF Wheel
<1>2. CASE ~(StartServed(s) /\ Starting(s, r) /\ ~Got(s))
  <2>1. Opened(r)' => Opened(r) /\ bonuses'[r].module = bonuses[r].module
    BY <1>2, BonusRows DEF Opened, Active
  <2>2. Active(r)' => Active(r)
    BY <1>2, RoundMoves
  <2>3. \A t \in Slot : Stepped(t, r)' => Stepped(t, r) \/ Active(r)
    BY RoundMoves
  <2>4. \A t \in Slot : Starting(t, r)' /\ Got(t)' => Starting(t, r) /\ Got(t) /\ handler'[t] = handler[t]
    BY <1>2, RoundMoves
  <2>5. Wheel(r)'
    BY <2>1, <2>2, <2>3, <2>4 DEF Wheel
  <2>6. ASSUME NEW i \in 1..Len(toClient'), IsState(toClient'[i], r), toClient'[i].module = "wheel"
        PROVE  toClient'[i].done
    <3>1. CASE i \in 1..Len(toClient) /\ toClient'[i] = toClient[i]
      BY <2>6, <3>1 DEF WheelShown
    <3>2. CASE StartTold(s) /\ Starting(s, r) /\ Got(s) /\ toClient'[i].done = handler[s].got.done /\ bonuses[r].module = "wheel"
      <4>1. Opened(r)
        BY <3>2 DEF TypeInv, OpenedInv, Starting
      <4> QED
        BY <3>2, <4>1 DEF Wheel
    <3>3. CASE Stepped(s, r) /\ bonuses[r].module = "wheel"
      <4>1. Opened(r)
        BY <1>0, <3>3 DEF Stepped
      <4> QED
        BY <3>3, <4>1 DEF Wheel
    <3> QED
      BY <2>6, <3>1, <3>2, <3>3, Sent
  <2> QED
    BY <2>5, <2>6 DEF WheelShown
<1> QED
  BY <1>1, <1>2

LEMMA SlotsRound ==
  ASSUME TypeInv, NEW s \in Slot, SlotMoves(s), NEW r \in Round, RoundInv(r)
  PROVE  RoundInv(r)'
<1>1. Future(r)'
  <2>1. spins' = spins
    BY DEF SlotMoves, Elsewhere, clientVars
  <2>2. Spinning(s, r) => Asked(r)
    BY DEF Asked
  <2>3. Starting(s, r) => Starts(r)
    BY DEF Starts
  <2> QED
    BY <2>1, <2>2, <2>3, RoundMoves DEF Future, RoundInv
<1> QED
  BY <1>1, SlotsOneSpin, SlotsOneResult, SlotsOneStart, SlotsOneEnd, SlotsWheel DEF RoundInv

\* The page's requests but for the spin of a round leave the round as it is.
LEMMA Appended ==
  ASSUME TypeOK, NEW r \in Round, OneSpin(r), NEW m \in ClientToServerMessage, m # Request(r), toServer' = Append(toServer, m)
  PROVE  /\ Requested(r)' => Requested(r)
         /\ \A i, j \in 1..Len(toServer') : toServer'[i] = Request(r) /\ toServer'[j] = Request(r) => i = j
<1>1. /\ toServer \in Seq(ClientToServerMessage) /\ Len(toServer') = Len(toServer) + 1 /\ Len(toServer) \in Nat
      /\ \A i \in 1..Len(toServer) : toServer'[i] = toServer[i]
      /\ toServer'[Len(toServer) + 1] = m
  BY AppendProperties DEF TypeOK, WireTypeOK
<1>2. \A i \in 1..Len(toServer') : toServer'[i] = Request(r) => i \in 1..Len(toServer) /\ toServer[i] = Request(r)
  <2> TAKE i \in 1..Len(toServer')
  <2>1. i \in 1..Len(toServer) \/ i = Len(toServer) + 1
    BY <1>1
  <2> QED
    BY <1>1, <2>1
<1> QED
  BY <1>2 DEF Requested, OneSpin

LEMMA SameRequests ==
  ASSUME NEW r \in Round, OneSpin(r), toServer' = toServer \/ toServer' = <<>>
  PROVE  /\ Requested(r)' => Requested(r)
         /\ \A i, j \in 1..Len(toServer') : toServer'[i] = Request(r) /\ toServer'[j] = Request(r) => i = j
<1>1. CASE toServer' = toServer
  BY <1>1 DEF Requested, OneSpin
<1>2. CASE toServer' = <<>>
  <2>1. ~(\E i \in 1..Len(toServer') : TRUE)
    BY <1>2
  <2> QED
    BY <2>1 DEF Requested
<1> QED
  BY <1>1, <1>2

LEMMA MovesShrink ==
  ASSUME TypeOK, PageMove, NEW r \in Round, RoundInv(r), Quiet \/ AsksStep \/ (AsksSpin /\ r # spins + 1)
  PROVE  Shrinks(r)
<1>0. UNCHANGED <<sessions, handler, bonuses>> /\ (toClient' = toClient \/ (toClient # <<>> /\ toClient' = Tail(toClient)))
  BY MovesKeep DEF serverVars, backendVars
<1>1. Shifts(toClient', toClient)
  BY <1>0, SameShifts, TailShifts DEF TypeOK, WireTypeOK
<1>2. /\ Requested(r)' => Requested(r)
      /\ \A i, j \in 1..Len(toServer') : toServer'[i] = Request(r) /\ toServer'[j] = Request(r) => i = j
  <2>1. CASE Quiet
    BY <2>1, SameRequests DEF Quiet, RoundInv
  <2>2. CASE AsksStep
    <3>1. [type |-> "BONUS_STEP"] \in ClientToServerMessage /\ [type |-> "BONUS_STEP"] # Request(r)
      BY DEF ClientToServerMessage, Request
    <3> QED
      BY <2>2, <3>1, Appended DEF AsksStep, RoundInv
  <2>3. CASE AsksSpin /\ r # spins + 1
    <3>1. spins + 1 \in Round
      BY <2>3, WireAssumption DEF AsksSpin, Round, TypeOK, ClientTypeOK
    <3>2. Request(spins + 1) \in ClientToServerMessage /\ Request(spins + 1) # Request(r)
      BY <2>3, <3>1 DEF ClientToServerMessage, Request
    <3> QED
      BY <2>3, <3>2, Appended DEF AsksSpin, RoundInv
  <2> QED
    BY <2>1, <2>2, <2>3
<1> QED
  BY <1>0, <1>1, <1>2 DEF Shrinks, Opened, Active, Quiet, AsksStep, AsksSpin

LEMMA OthersShrink ==
  ASSUME TypeOK, NEW r \in Round, RoundInv(r),
         Connect \/ Sweeping \/ Breaking \/ Crashing \/ Leaves \/ CannotStart \/ (\E c \in Page : Closing(c)) \/ UNCHANGED vars
  PROVE  Shrinks(r)
<1>0. toClient \in Seq(ServerToClientMessage) /\ page \in Page
  BY DEF TypeOK, WireTypeOK
<1>1. CASE Connect
  <2>1. /\ UNCHANGED <<toClient, sessions, handler, bonuses, spins>>
        /\ \E token \in {page - 1, page} \ {0} : toServer' = Append(toServer, [type |-> "JOIN", token |-> token])
    BY <1>1 DEF Connect, Accept, Open, serverVars, backendVars, clientVars
  <2>2. PICK token \in Page : toServer' = Append(toServer, [type |-> "JOIN", token |-> token])
    BY <1>0, <2>1, WireAssumption DEF Page
  <2>3. [type |-> "JOIN", token |-> token] \in ClientToServerMessage /\ [type |-> "JOIN", token |-> token] # Request(r)
    BY DEF ClientToServerMessage, Request
  <2>4. /\ Requested(r)' => Requested(r)
        /\ \A i, j \in 1..Len(toServer') : toServer'[i] = Request(r) /\ toServer'[j] = Request(r) => i = j
    BY <2>2, <2>3, Appended DEF RoundInv
  <2> QED
    BY <1>0, <2>1, <2>4, SameShifts DEF Shrinks, Opened, Active
<1>2. ASSUME toServer' = toServer \/ toServer' = <<>>, toClient' = toClient \/ toClient' = <<>>, spins' = spins,
             \A s \in Slot : handler'[s] \in {handler[s], NoValue}, \A c \in Page : sessions'[c] \in {sessions[c], NoValue},
             Opened(r)' => Opened(r) /\ bonuses'[r].module = bonuses[r].module, Active(r)' => Active(r)
      PROVE  Shrinks(r)
  BY <1>0, <1>2, SameShifts, SameRequests DEF Shrinks, RoundInv
<1>3. CASE Sweeping
  <2>1. PICK b \in Round :
          bonuses[b] # NoValue /\ bonuses[b].status = "active" /\ bonuses' = [bonuses EXCEPT ![b].status = "abandoned"]
    BY <1>3 DEF Sweeping, Sweep
  <2>2. UNCHANGED <<toServer, toClient, spins, handler, sessions>>
    BY <1>3 DEF Sweeping, wireVars, clientVars
  <2>3. bonuses \in [Round -> Bonus \cup {NoValue}] /\ bonuses[b] \in Bonus
    BY <2>1 DEF TypeOK, ServerTypeOK
  <2>4. bonuses'[b].status = "abandoned" /\ bonuses'[b].module = bonuses[b].module
    BY <2>1, <2>3 DEF Bonus
  <2>5. r # b => bonuses'[r] = bonuses[r]
    BY <2>1, <2>3
  <2>6. Opened(r)' => Opened(r) /\ bonuses'[r].module = bonuses[r].module
    BY <2>1, <2>4, <2>5 DEF Opened
  <2>7. Active(r)' => Active(r)
    BY <2>4, <2>5 DEF Active, Opened
  <2> QED
    BY <1>2, <2>2, <2>6, <2>7
<1>4. ASSUME UNCHANGED bonuses
      PROVE  (Opened(r)' => Opened(r) /\ bonuses'[r].module = bonuses[r].module) /\ (Active(r)' => Active(r))
  BY <1>4 DEF Opened, Active
<1>5. CASE Breaking \/ Leaves \/ UNCHANGED vars
  <2>1. /\ toServer' = toServer \/ toServer' = <<>>
        /\ toClient' = toClient \/ toClient' = <<>>
        /\ UNCHANGED <<spins, bonuses, handler, sessions>>
    BY <1>5 DEF Breaking, Break, Leaves, Load, vars, wireVars, serverVars, backendVars, clientVars
  <2> QED
    BY <1>2, <1>4, <2>1
<1>6. CASE CannotStart
  <2>1. UNCHANGED <<toClient, bonuses, handler, sessions>>
    BY <1>6 DEF CannotStart, Fatal, serverVars, backendVars
  <2>2. UNCHANGED <<spins, toServer>>
    BY <1>6, FatalMoves DEF CannotStart, After
  <2> QED
    BY <1>2, <1>4, <2>1, <2>2
<1>7. CASE Crashing
  <2>1. /\ toServer' = <<>> /\ toClient' = <<>> /\ UNCHANGED <<spins, bonuses>>
        /\ \A s \in Slot : handler'[s] = NoValue
        /\ \A c \in Page : sessions'[c] = NoValue
    BY <1>7 DEF Crashing, SocketCrash, backendVars, clientVars
  <2> QED
    BY <1>2, <1>4, <2>1
<1>8. ASSUME NEW c \in Page, Closing(c)
      PROVE  Shrinks(r)
  <2>1. /\ UNCHANGED <<toServer, toClient, spins, bonuses, handler>>
        /\ sessions' = [sessions EXCEPT ![c] = NoValue]
    BY <1>8 DEF Closing, OnClose, ForgottenSession, backendVars, clientVars
  <2>2. \A d \in Page : sessions'[d] \in {sessions[d], NoValue}
    BY <2>1 DEF TypeOK, ServerTypeOK
  <2> QED
    BY <1>2, <1>4, <2>1, <2>2
<1> QED
  BY <1>1, <1>3, <1>5, <1>6, <1>7, <1>8

\* A round that is asked for now is all there is of it.
LEMMA AskedNow ==
  ASSUME TypeInv, PageMove, AsksSpin, NEW r \in Round, r = spins + 1, RoundInv(r)
  PROVE  RoundInv(r)'
<1>0. UNCHANGED <<sessions, handler, bonuses>> /\ (toClient' = toClient \/ (toClient # <<>> /\ toClient' = Tail(toClient)))
  BY MovesKeep DEF TypeInv, serverVars, backendVars
<1>1. /\ TypeOK /\ spins \in Nat /\ toServer \in Seq(ClientToServerMessage) /\ toClient \in Seq(ServerToClientMessage)
  BY DEF TypeInv, TypeOK, WireTypeOK, ClientTypeOK
<1>2. ~Asked(r) /\ ~Told(r) /\ ~Starts(r) /\ ~Opened(r) /\ ~Known(r)
  BY <1>1 DEF RoundInv, Future, TypeInv, OpenedInv
<1>3. Shifts(toClient', toClient)
  BY <1>0, <1>1, SameShifts, TailShifts
<1>4. ~Told(r)' /\ \A i \in 1..Len(toClient') : ~IsState(toClient'[i], r)
  BY <1>2, <1>3 DEF Shifts, Told, Known
<1>5. \A s \in Slot : ~Spinning(s, r)' /\ ~Starting(s, r)' /\ ~Stepping(s, r)'
  BY <1>0, <1>2 DEF Asked, Starts, Known, Spinning, Starting, Stepping, Busy
<1>6. ~Starts(r)' /\ ~Opened(r)' /\ ~Active(r)' /\ ~Known(r)'
  BY <1>0, <1>2, <1>4, <1>5 DEF Starts, Opened, Active, Known
<1>7. \A i, j \in 1..Len(toServer') : toServer'[i] = Request(r) /\ toServer'[j] = Request(r) => i = j
  <2>0. Request(spins + 1) \in ClientToServerMessage
    BY DEF ClientToServerMessage, Request
  <2>1. /\ Len(toServer') = Len(toServer) + 1 /\ Len(toServer) \in Nat
        /\ \A i \in 1..Len(toServer) : toServer'[i] = toServer[i]
    BY <1>1, <2>0, AppendProperties DEF AsksSpin
  <2>2. \A i \in 1..Len(toServer') : toServer'[i] = Request(r) => i \notin 1..Len(toServer)
    BY <1>2, <2>1 DEF Asked, Requested
  <2>3. \A i \in 1..Len(toServer') : i \notin 1..Len(toServer) => i = Len(toServer) + 1
    BY <2>1
  <2> QED
    BY <2>2, <2>3
<1>8. OneSpin(r)'
  BY <1>5, <1>7 DEF OneSpin
<1>9. OneResult(r)'
  BY <1>4, <1>6 DEF OneResult, Told
<1>10. OneStart(r)' /\ OneEnd(r)' /\ Wheel(r)' /\ WheelShown(r)'
  BY <1>4, <1>5, <1>6 DEF OneStart, OneEnd, Wheel, WheelShown, Ending, Stepped, Ends
<1>11. Future(r)'
  BY <1>1 DEF Future, AsksSpin
<1> QED
  BY <1>8, <1>9, <1>10, <1>11 DEF RoundInv

LEMMA RoundsKept ==
  ASSUME TypeInv, RoundsInv, [Next]_vars
  PROVE  RoundsInv'
<1> SUFFICES ASSUME NEW r \in Round
             PROVE  RoundInv(r)'
  BY DEF RoundsInv, Round
<1>0. TypeOK /\ RoundInv(r)
  BY DEF TypeInv, RoundsInv
<1>1. CASE PageMove
  BY <1>0, <1>1, MovesAsk, MovesShrink, RoundShrinks, AskedNow
<1>2. CASE \E s \in Slot : SlotMoves(s)
  BY <1>0, <1>2, SlotsRound
<1>3. CASE Connect \/ Sweeping \/ Breaking \/ Crashing \/ Leaves \/ CannotStart \/ (\E c \in Page : Closing(c)) \/ UNCHANGED vars
  BY <1>0, <1>3, OthersShrink, RoundShrinks
<1> QED
  BY <1>1, <1>2, <1>3, NextMoves

-----------------------------------------------------------------------------
(* Joining                                                                 *)

\* Nothing but the connection moves a page that was not touched.
LEMMA UntouchedStays ==
  ASSUME TypeOK, PageMove, Untouched, socket # "lost", ~Receiving
  PROVE  Untouched' /\ UNCHANGED <<socket, toServer, toClient>>
<1>0. ui \in Ui /\ Still
  BY DEF TypeOK, ClientTypeOK, PageMove, Disconnects, Acting
<1>1. Stays
  BY DEF PageMove, Acting, GoesOn, Trips, Stopping, HandsBack, Disconnects, Untouched
<1>2. /\ ui'.phase = ui.phase /\ ui'.reveal = "none" /\ ui'.panel = "none" /\ ui'.givenUp = ui.givenUp
      /\ spins' = spins /\ toServer' = toServer /\ ui' \in Ui /\ ~(ui'.wheelTurns \/ ui'.dwell)
  BY <1>1 DEF Stays, Untouched
<1> QED
  BY <1>0, <1>2 DEF Untouched, Still

\* The page does not join again.
LEMMA AsksNoJoin ==
  ASSUME TypeOK, Quiet \/ AsksStep \/ AsksSpin,
         \A i \in 1..Len(toServer) : toServer[i].type # "JOIN"
  PROVE  \A i \in 1..Len(toServer') : toServer'[i].type # "JOIN"
<1>1. CASE Quiet
  BY <1>1 DEF Quiet
<1>2. ASSUME NEW m \in ClientToServerMessage, m.type # "JOIN", toServer' = Append(toServer, m)
      PROVE  \A i \in 1..Len(toServer') : toServer'[i].type # "JOIN"
  <2>1. /\ Len(toServer') = Len(toServer) + 1 /\ Len(toServer) \in Nat
        /\ \A i \in 1..Len(toServer) : toServer'[i] = toServer[i]
        /\ toServer'[Len(toServer) + 1] = m
    BY <1>2, AppendProperties DEF TypeOK, WireTypeOK
  <2>2. \A i \in 1..Len(toServer') : i \in 1..Len(toServer) \/ i = Len(toServer) + 1
    BY <2>1
  <2> QED
    BY <1>2, <2>1, <2>2
<1>3. CASE AsksStep
  BY <1>2, <1>3 DEF AsksStep, ClientToServerMessage
<1>4. CASE AsksSpin
  <2>1. spins + 1 \in Round
    BY <1>4, WireAssumption DEF AsksSpin, TypeOK, ClientTypeOK, Round
  <2>2. Request(spins + 1) \in ClientToServerMessage /\ Request(spins + 1).type # "JOIN"
    BY <2>1 DEF ClientToServerMessage, Request
  <2> QED
    BY <1>2, <1>4, <2>2 DEF AsksSpin
<1> QED
  BY <1>1, <1>3, <1>4

LEMMA MovesJoin ==
  ASSUME TypeInv, LinkInv, JoinInv, PageMove
  PROVE  JoinInv'
<1>0. /\ TypeOK /\ toClient \in Seq(ServerToClientMessage) /\ UNCHANGED <<page, handler>>
      /\ socket' = socket \/ (socket = "lost" /\ socket' = "closed")
  BY MovesKeep DEF TypeInv, TypeOK, WireTypeOK, serverVars
<1>1. CASE socket = "connecting"
  <2>1. ~Receiving
    BY <1>1 DEF Receiving, Receives
  <2> QED
    BY <1>0, <1>1, <2>1, UntouchedStays DEF JoinInv
<1>2. CASE socket = "open" /\ Untouched /\ (JoinSent \/ JoinHandled \/ JoinAnswered) /\ ~Receiving
  <2>1. Untouched' /\ UNCHANGED <<socket, toServer, toClient>>
    BY <1>0, <1>2, UntouchedStays
  <2>2. (JoinSent \/ JoinHandled \/ JoinAnswered)'
    BY <1>0, <1>2, <2>1 DEF JoinSent, JoinHandled, JoinAnswered, IsJoin, Here
  <2> QED
    BY <1>2, <2>1, <2>2 DEF JoinInv
<1>3. CASE socket = "open" /\ Untouched /\ (JoinSent \/ JoinHandled \/ JoinAnswered) /\ Receiving
  <2>1. JoinAnswered /\ toClient # <<>> /\ toClient' = Tail(toClient)
    BY <1>3 DEF Receiving, Receives, JoinSent, JoinHandled
  <2>2. Len(toClient') = 0
    BY <1>0, <2>1, TakesOne DEF JoinAnswered
  <2>3. \A i \in 1..Len(toServer) : toServer[i].type # "JOIN"
    BY <2>1 DEF JoinAnswered
  <2>4. \A i \in 1..Len(toServer') : toServer'[i].type # "JOIN"
    BY <1>0, <2>3, MovesAsk, AsksNoJoin
  <2>5. NoJoin'
    BY <1>0, <2>1, <2>2, <2>4 DEF NoJoin, JoinAnswered, IsJoin, Here
  <2> QED
    BY <1>0, <1>3, <2>5 DEF JoinInv
<1>4. CASE socket = "open" /\ NoJoin
  <2>1. \A i \in 1..Len(toServer') : toServer'[i].type # "JOIN"
    BY <1>0, <1>4, MovesAsk, AsksNoJoin DEF NoJoin
  <2>2. \A i \in 1..Len(toClient') : toClient'[i].type # "JOINED"
    BY <1>0, <1>4, MovesKeep, TakesOne DEF NoJoin
  <2>3. NoJoin'
    BY <1>0, <1>4, <2>1, <2>2 DEF NoJoin, IsJoin, Here
  <2> QED
    BY <1>0, <1>4, <2>3 DEF JoinInv
<1>5. CASE socket \notin {"connecting", "open"}
  BY <1>0, <1>5 DEF JoinInv
<1> QED
  BY <1>1, <1>2, <1>3, <1>4, <1>5 DEF JoinInv

LEMMA OthersJoin ==
  ASSUME TypeInv, LinkInv, JoinInv,
         Connect \/ Sweeping \/ Breaking \/ Crashing \/ Leaves \/ CannotStart \/ (\E c \in Page : Closing(c)) \/ UNCHANGED vars
  PROVE  JoinInv'
<1>1. CASE Connect
  <2>1. /\ socket = "connecting" /\ socket' = "open" /\ UNCHANGED <<page, toClient, handler, ui, spins>>
        /\ \E token \in {page - 1, page} \ {0} : toServer' = Append(toServer, [type |-> "JOIN", token |-> token])
    BY <1>1 DEF Connect, Accept, Open, serverVars, clientVars
  <2>2. toServer = <<>> /\ toClient = <<>> /\ \A s \in Slot : ~Here(s)
    BY <2>1 DEF LinkInv, Here
  <2>3. Len(toServer') = 1 /\ toServer'[1].type = "JOIN"
    BY <2>1, <2>2
  <2>4. JoinSent' /\ Untouched'
    BY <2>1, <2>2, <2>3 DEF JoinSent, Untouched, JoinInv, Here
  <2> QED
    BY <2>1, <2>4 DEF JoinInv
<1>2. CASE Sweeping \/ UNCHANGED vars \/ (\E c \in Page : Closing(c))
  <2>1. UNCHANGED <<page, socket, toServer, toClient, handler, ui, spins>>
    BY <1>2 DEF Sweeping, vars, Closing, OnClose, wireVars, serverVars, clientVars
  <2> QED
    BY <2>1 DEF JoinInv, Untouched, JoinSent, JoinHandled, JoinAnswered, NoJoin, IsJoin, Here
<1>3. CASE Breaking \/ CannotStart
  BY <1>3 DEF Breaking, Break, CannotStart, Fatal, JoinInv
<1>4. CASE Crashing
  BY <1>4 DEF Crashing, SocketCrash, JoinInv, LinkInv
<1>5. CASE Leaves
  <2>1. socket' = "connecting" /\ ui' = NewPage /\ spins' = spins
    BY <1>5 DEF Leaves, Load
  <2>2. Untouched'
    BY <2>1 DEF Untouched, NewPage
  <2> QED
    BY <2>1, <2>2 DEF JoinInv
<1> QED
  BY <1>1, <1>2, <1>3, <1>4, <1>5

\* A handler of another page does nothing that this one could see.
LEMMA ElsewhereSilent ==
  ASSUME TypeInv, LinkInv, NEW s \in Slot, IsServed(s) \/ Continues(s), ~Here(s)
  PROVE  UNCHANGED <<toServer, toClient>>
<1>1. CASE IsServed(s)
  BY <1>1 DEF IsServed, TokenServed, BalanceServed, SpinServed, StartServed, StepServed, Fills
<1>2. CASE Continues(s)
  <2>1. handler[s] # NoValue /\ UNCHANGED toServer
    BY <1>2 DEF Continues, HasJoined, IsRefused, BalanceTold, SpinTold, StartTold, StepTold, HasFailed, Uses, Busy
  <2>2. link[handler[s].conn] # "open"
    BY <2>1, RowKinds DEF TypeInv, LinkInv, Here
  <2>3. toClient' = toClient
    BY <1>2, <2>2 DEF Continues, HasJoined, IsRefused, BalanceTold, SpinTold, StartTold, StepTold, StateTold, HasFailed,
      Tells, TellsBoth
  <2> QED
    BY <2>1, <2>3
<1> QED
  BY <1>1, <1>2

\* Nor does it become one of this page.
LEMMA HereStays ==
  ASSUME TypeInv, NEW s \in Slot, SlotMoves(s), IsServed(s) \/ Continues(s), NEW t \in Slot, Here(t)'
  PROVE  Here(t)
<1>0. page' = page
  BY DEF SlotMoves, Elsewhere
<1>1. handler[s] # NoValue
  BY DEF IsServed, TokenServed, BalanceServed, SpinServed, StartServed, StepServed, Fills,
    Continues, HasJoined, IsRefused, BalanceTold, SpinTold, StartTold, StepTold, HasFailed, Uses, Busy
<1> QED
  BY <1>0, <1>1, OtherRows, OwnRow DEF Here, Dispatched

\* A JOINED is told by the handler that read the balance for it.
LEMMA JoinedSent ==
  ASSUME TypeInv, NEW s \in Slot, SlotMoves(s), NEW i \in 1..Len(toClient'), toClient'[i].type = "JOINED"
  PROVE  \/ i \in 1..Len(toClient) /\ toClient'[i] = toClient[i]
         \/ BalanceTold(s) /\ handler[s].arg = "JOINED"
<1>0. TypeOK /\ Len(toClient) \in Nat
  BY DEF TypeInv, TypeOK, WireTypeOK
<1>1. ASSUME NEW c, NEW m, Tells(c, m), m.type # "JOINED"
      PROVE  i \in 1..Len(toClient) /\ toClient'[i] = toClient[i]
  BY <1>0, <1>1, OldOrNew DEF Tells
<1>2. CASE toClient' = toClient
  BY <1>2
<1>3. CASE \E c : \E code \in ErrorCode : Tells(c, Error(code))
  BY <1>1, <1>3 DEF Error
<1>4. CASE BalanceTold(s) /\ handler[s].arg = "BALANCE_UPDATE"
  BY <1>1, <1>4 DEF BalanceTold, Balance
<1>5. ASSUME NEW c, NEW m, NEW b, NEW r, TellsBoth(c, m, Balance("BALANCE_UPDATE", b, r)), m.type # "JOINED"
      PROVE  i \in 1..Len(toClient) /\ toClient'[i] = toClient[i]
  BY <1>0, <1>5, OldOrNew DEF TellsBoth, Balance
<1>6. CASE SpinTold(s) \/ StartTold(s) \/ StepTold(s)
  <2>1. CASE SpinTold(s)
    <3> DEFINE m == [type |-> "SPIN_RESULT", won |-> handler[s].got.won, triggered |-> handler[s].got.triggered,
                     of |-> handler[s].arg]
    <3>1. m.type # "JOINED" /\ TellsBoth(handler[s].conn, m, Balance("BALANCE_UPDATE", handler[s].got.balanceAfter, handler[s].arg))
      BY <2>1 DEF SpinTold
    <3> QED
      BY <1>5, <3>1
  <2>2. ASSUME NEW r, NEW stepped, StateTold(s, r, stepped)
        PROVE  i \in 1..Len(toClient) /\ toClient'[i] = toClient[i]
    <3> DEFINE m == [type |-> "BONUS_STEP_RESULT", module |-> bonuses[r].module, done |-> handler[s].got.done,
                     stepped |-> stepped, of |-> r]
    <3>1. /\ m.type # "JOINED"
          /\ \/ Tells(handler[s].conn, m)
             \/ TellsBoth(handler[s].conn, m, Balance("BALANCE_UPDATE", handler[s].got.balanceAfter, r))
      BY <2>2 DEF StateTold
    <3> QED
      BY <1>1, <1>5, <3>1
  <2> QED
    BY <1>6, <2>1, <2>2 DEF StartTold, StepTold
<1>7. BalanceTold(s) => handler[s].arg \in {"JOINED", "BALANCE_UPDATE"}
  BY <1>0, RowKinds DEF BalanceTold, Uses, Busy
<1>8. Refused \/ IsRefused(s) \/ HasFailed(s) => \E c : \E code \in ErrorCode : Tells(c, Error(code))
  BY DEF Refused, IsRefused, HasFailed, ErrorCode
<1>9. Dispatched(s) \/ IsServed(s) \/ HasJoined(s) => toClient' = toClient
  BY DEF Dispatched, IsServed, TokenServed, BalanceServed, SpinServed, StartServed, StepServed, Fills, HasJoined
<1> QED
  BY <1>2, <1>3, <1>4, <1>6, <1>7, <1>8, <1>9 DEF SlotMoves, Continues

LEMMA SlotsJoin ==
  ASSUME TypeInv, LinkInv, JoinInv, NEW s \in Slot, SlotMoves(s)
  PROVE  JoinInv'
<1>0. /\ TypeOK /\ toClient \in Seq(ServerToClientMessage) /\ toServer \in Seq(ClientToServerMessage)
      /\ UNCHANGED <<page, link, socket, ui, spins>> /\ (Untouched => Untouched') /\ page \in Page
  BY DEF TypeInv, TypeOK, WireTypeOK, SlotMoves, Elsewhere, clientVars, Untouched
<1>1. CASE socket # "open"
  BY <1>0, <1>1 DEF JoinInv
<1>2. CASE socket = "open" /\ Untouched /\ (JoinSent \/ JoinHandled \/ JoinAnswered)
  <2> SUFFICES (JoinSent \/ JoinHandled \/ JoinAnswered \/ NoJoin)'
    BY <1>0, <1>2 DEF JoinInv
  <2>0. link[page] = "open"
    BY <1>2 DEF LinkInv
  <2>1. CASE TakesRequest
    <3>1. JoinSent /\ Len(toServer') = 0 /\ toServer[1].type = "JOIN"
      BY <1>0, <1>2, <2>1, TakesOne DEF TakesRequest, JoinHandled, JoinAnswered, JoinSent
    <3>2. CASE Refused
      <4>1. \A t \in Slot : ~Here(t)'
        BY <1>0, <3>1, <3>2 DEF Refused, JoinSent, Here
      <4>2. \A i \in 1..Len(toClient') : toClient'[i].type # "JOINED"
        <5>1. PICK code \in ErrorCode : Adds({Error(code)})
          BY <3>2, TellsAdds DEF Refused
        <5> QED
          BY <1>0, <3>1, <5>1, OldOrNew DEF JoinSent, Error
      <4> QED
        BY <3>1, <4>1, <4>2 DEF NoJoin, IsJoin
    <3>3. CASE Dispatched(s)
      <4>1. handler'[s] # NoValue /\ handler'[s].conn = page /\ handler'[s].call = "consume"
        BY <3>1, <3>3 DEF Dispatched, Sets, Request
      <4>2. IsJoin(s)' /\ \A t \in Slot : Here(t)' => t = s
        BY <1>0, <3>1, <4>1, OtherRows DEF IsJoin, Here, JoinSent
      <4>3. toClient' = <<>> /\ toServer' = <<>>
        <5>1. toServer' \in Seq(ClientToServerMessage)
          BY <1>0, <2>1, TakesOne DEF TakesRequest
        <5> QED
          BY <3>1, <3>3, <5>1 DEF Dispatched, JoinSent
      <4> QED
        BY <4>2, <4>3 DEF JoinHandled
    <3>4. CASE IsServed(s) \/ Continues(s)
      <4>1. toServer' = toServer
        BY <3>4 DEF IsServed, TokenServed, BalanceServed, SpinServed, StartServed, StepServed, Fills,
          Continues, HasJoined, IsRefused, BalanceTold, SpinTold, StartTold, StepTold, HasFailed, Uses
      <4> QED
        BY <3>1, <4>1 DEF JoinSent
    <3> QED
      BY <3>2, <3>3, <3>4 DEF SlotMoves
  <2>2. CASE (IsServed(s) \/ Continues(s)) /\ ~Here(s)
    <3>1. UNCHANGED <<toServer, toClient>> /\ (\A t \in Slot : Here(t)' => Here(t)) /\ (\A t \in Slot : t # s => handler'[t] = handler[t])
      BY <2>2, ElsewhereSilent, HereStays, OtherRows
    <3>2. \A t \in Slot : Here(t)' <=> Here(t)
      BY <1>0, <2>2, <3>1 DEF Here
    <3>3. \A t \in Slot : IsJoin(t)' <=> IsJoin(t)
      BY <2>2, <3>1, <3>2 DEF IsJoin
    <3> QED
      BY <1>2, <3>1, <3>2, <3>3 DEF JoinSent, JoinHandled, JoinAnswered
  <2>3. CASE (IsServed(s) \/ Continues(s)) /\ Here(s)
    <3>1. JoinHandled /\ IsJoin(s) /\ \A t \in Slot : Here(t) => t = s
      BY <1>2, <2>3 DEF JoinSent, JoinHandled, JoinAnswered, IsJoin
    <3>2. /\ toClient = <<>> /\ toServer' = <<>> /\ Len(toClient) = 0
          /\ \A t \in Slot : Here(t)' => t = s
      BY <2>3, <3>1, HereStays DEF JoinHandled, IsServed, TokenServed, BalanceServed, SpinServed, StartServed, StepServed, Fills,
        Continues, HasJoined, IsRefused, BalanceTold, SpinTold, StartTold, StepTold, HasFailed, Uses
    <3>3. CASE IsServed(s)
      <4>1. /\ toClient' = <<>> /\ handler'[s] # NoValue
            /\ handler'[s].conn = handler[s].conn /\ handler'[s].call = handler[s].call /\ handler'[s].arg = handler[s].arg
        BY <3>2, <3>3 DEF IsServed, TokenServed, BalanceServed, SpinServed, StartServed, StepServed, Fills, Busy
      <4>2. IsJoin(s)'
        BY <1>0, <3>1, <4>1 DEF IsJoin, Here
      <4> QED
        BY <3>2, <4>1, <4>2 DEF JoinHandled
    <3>4. CASE HasJoined(s)
      <4>1. IsJoin(s)' /\ toClient' = <<>>
        BY <1>0, <3>1, <3>2, <3>4 DEF HasJoined, Sets, IsJoin, Here
      <4> QED
        BY <3>2, <4>1 DEF JoinHandled
    <3>5. CASE BalanceTold(s)
      <4>1. handler[s].arg = "JOINED" /\ handler[s].conn = page
        BY <3>1, <3>5 DEF IsJoin, BalanceTold, Uses, Busy, Here
      <4>2. Len(toClient') = 1 /\ toClient'[1].type = "JOINED"
        BY <2>0, <3>2, <3>5, <4>1 DEF BalanceTold, Tells, Balance
      <4>3. \A t \in Slot : ~Here(t)'
        BY <3>2, <3>5 DEF BalanceTold, Sets, Here
      <4> QED
        BY <3>2, <4>2, <4>3 DEF JoinAnswered
    <3>6. CASE IsRefused(s) \/ HasFailed(s)
      <4>1. \A t \in Slot : ~Here(t)'
        BY <3>2, <3>6 DEF IsRefused, HasFailed, Sets, Here
      <4>2. \A i \in 1..Len(toClient') : toClient'[i].type # "JOINED"
        <5>1. PICK code \in ErrorCode : Adds({Error(code)})
          BY <3>6, TellsAdds DEF IsRefused, HasFailed, ErrorCode
        <5> QED
          BY <1>0, <3>2, <5>1, OldOrNew DEF Error
      <4> QED
        BY <3>2, <4>1, <4>2 DEF NoJoin, IsJoin
    <3>7. ~SpinTold(s) /\ ~StartTold(s) /\ ~StepTold(s)
      BY <3>1 DEF SpinTold, StartTold, StepTold, Uses, Busy, IsJoin
    <3> QED
      BY <2>3, <3>3, <3>4, <3>5, <3>6, <3>7 DEF Continues
  <2> QED
    BY <2>1, <2>2, <2>3 DEF SlotMoves, Refused, Dispatched
<1>3. CASE socket = "open" /\ NoJoin
  <2>1. \A i \in 1..Len(toServer') : toServer'[i].type # "JOIN"
    <3>1. toServer' = toServer \/ (toServer # <<>> /\ toServer' = Tail(toServer))
      BY DEF SlotMoves, Refused, Dispatched, TakesRequest, IsServed, TokenServed, BalanceServed, SpinServed, StartServed, StepServed,
        Fills, Continues, HasJoined, IsRefused, BalanceTold, SpinTold, StartTold, StepTold, HasFailed, Uses
    <3>2. CASE toServer' = toServer
      BY <1>3, <3>2 DEF NoJoin
    <3>3. CASE toServer # <<>> /\ toServer' = Tail(toServer)
      <4>1. \A i \in 1..Len(toServer') : toServer'[i] = toServer[i + 1] /\ i + 1 \in 1..Len(toServer)
        BY <1>0, <3>3, TakesOne
      <4> QED
        BY <1>3, <4>1 DEF NoJoin
    <3> QED
      BY <3>1, <3>2, <3>3
  <2>2. \A i \in 1..Len(toClient') : toClient'[i].type # "JOINED"
    <3> SUFFICES ASSUME NEW i \in 1..Len(toClient'), toClient'[i].type = "JOINED"
                 PROVE  FALSE
      OBVIOUS
    <3>1. BalanceTold(s) /\ handler[s].arg = "JOINED"
      BY <1>3, JoinedSent DEF NoJoin
    <3>2. ~Here(s)
      BY <1>3, <3>1 DEF NoJoin, IsJoin, BalanceTold, Uses, Busy
    <3>3. toClient' = toClient
      BY <3>1, <3>2, ElsewhereSilent DEF Continues
    <3> QED
      BY <1>3, <3>3 DEF NoJoin
  <2>3. ASSUME NEW t \in Slot, IsJoin(t)'
        PROVE  FALSE
    <3>1. CASE t # s \/ (Refused /\ handler'[s] = handler[s])
      BY <1>0, <1>3, <2>3, <3>1, OtherRows DEF NoJoin, IsJoin, Here
    <3>2. CASE t = s /\ IsServed(s) /\ handler[s] # NoValue
      <4>1. handler'[s].conn = handler[s].conn /\ handler'[s].call = handler[s].call /\ handler'[s].arg = handler[s].arg
        BY <3>2 DEF IsServed, TokenServed, BalanceServed, SpinServed, StartServed, StepServed, Fills, Busy
      <4> QED
        BY <1>0, <1>3, <2>3, <3>2, <4>1 DEF NoJoin, IsJoin, Here
    <3>3. CASE t = s /\ HasJoined(s)
      <4>1. handler'[s].conn = handler[s].conn /\ handler[s] # NoValue /\ handler[s].call = "consume"
        BY <3>3 DEF HasJoined, Uses, Busy, Sets
      <4> QED
        BY <1>0, <1>3, <2>3, <3>3, <4>1 DEF NoJoin, IsJoin, Here
    <3>4. ~Joins(s)
      <4>1. Dispatched(s) => 1 \in 1..Len(toServer)
        BY <1>0, TakesOne DEF Dispatched, TakesRequest
      <4> QED
        BY <1>3, <4>1 DEF Joins, NoJoin
    <3> QED
      BY <2>3, <3>1, <3>2, <3>3, <3>4, OwnRow DEF IsJoin, Here
  <2>4. NoJoin'
    BY <2>1, <2>2, <2>3 DEF NoJoin
  <2> QED
    BY <1>0, <1>3, <2>4 DEF JoinInv
<1> QED
  BY <1>1, <1>2, <1>3 DEF JoinInv

LEMMA JoinKept ==
  ASSUME TypeInv, LinkInv, JoinInv, [Next]_vars
  PROVE  JoinInv'
BY NextMoves, MovesJoin, SlotsJoin, OthersJoin

-----------------------------------------------------------------------------
(* The page waits for the round                                            *)

\* Nothing is kept of the rounds, or what is kept stays as it was.
LEMMA NothingKept ==
  ASSUME ui'.givenUp = spins', spins' \in Nat
  PROVE  PageInv'
<1>1. \A n \in Nat : (n + 1)..n = {}
  OBVIOUS
<1>2. Kept' = {}
  BY <1>1 DEF Kept
<1> QED
  BY <1>2 DEF PageInv

LEMMA PageStays ==
  ASSUME PageInv, spins' = spins, ui'.givenUp = ui.givenUp,
         \A r \in Round : (Pending(r)' => Pending(r)) /\ ((Asked(r) \/ Told(r))' => Asked(r) \/ Told(r)),
         WaitsForSpin => WaitsForSpin',
         \A r \in Round : WaitsForRound(r) => WaitsForRound(r)'
  PROVE  PageInv'
BY DEF PageInv, Kept, Round

\* The page may spin when nothing it keeps is to come.
LEMMA GoesToIdle ==
  ASSUME TypeInv, RoundsInv, PageMove, NEW s \in Ui, After(s, "idle"),
         \A r \in Round : r > s.givenUp => ~Pending(r)
  PROVE  PageInv'
<1>0. TypeOK /\ spins \in 0..MaxSpins /\ MaxSpins \in Nat /\ s.givenUp \in Nat
  BY WireAssumption DEF TypeInv, TypeOK, ClientTypeOK, Ui
<1>1. CASE ui'.phase = "idle" /\ ui'.givenUp = s.givenUp /\ UNCHANGED <<spins, toServer>>
  <2>1. \A r \in Round : (Pending(r)' => Pending(r)) /\ ((Asked(r) \/ Told(r))' => Asked(r) \/ Told(r))
    BY <1>0, <1>1, MovesShrink, RoundShrinks DEF Quiet, RoundsInv
  <2>2. \A r \in (Kept \cap Round)' : ~Pending(r)' /\ ~(Asked(r) \/ Told(r))'
    BY <1>0, <1>1, <2>1 DEF Kept, Round, Pending
  <2> QED
    BY <2>2 DEF PageInv
<1>2. CASE /\ socket = "open" /\ spins < MaxSpins
           /\ ui'.phase = "spinning" /\ spins' = spins + 1
           /\ ui'.givenUp = IF Remains(s) THEN spins + 1 ELSE s.givenUp
           /\ toServer' = Append(toServer, Request(spins + 1))
  <2>1. CASE Remains(s)
    BY <1>0, <1>2, <2>1, NothingKept
  <2>2. CASE ~Remains(s)
    <3>1. AsksSpin
      BY <1>2 DEF AsksSpin
    <3>2. ASSUME NEW r \in Round, r > ui'.givenUp, r # spins + 1
          PROVE  ~Pending(r)' /\ ~(Asked(r) \/ Told(r))'
      <4>1. (Pending(r)' => Pending(r)) /\ ((Asked(r) \/ Told(r))' => Asked(r) \/ Told(r))
        BY <1>0, <3>1, <3>2, MovesShrink, RoundShrinks DEF RoundsInv
      <4>2. ~Pending(r)
        BY <1>2, <2>2, <3>2
      <4> QED
        BY <4>1, <4>2 DEF Pending
    <3>3. ~Remains(ui)'
      BY <2>2 DEF After, Remains
    <3>4. WaitsForSpin' /\ \A r \in Round : r = spins + 1 => WaitsForRound(r)'
      BY <1>2, <3>3 DEF WaitsForSpin, WaitsForRound, Remains
    <3>5. \A r \in (Kept \cap Round)' : r \in Round /\ r > ui'.givenUp
      BY <1>0, <1>2, <2>2 DEF Kept, Round
    <3> QED
      BY <3>2, <3>4, <3>5 DEF PageInv
  <2> QED
    BY <2>1, <2>2
<1> QED
  BY <1>1, <1>2 DEF After

\* Elsewhere it asks for nothing.
LEMMA GoesElsewhere ==
  ASSUME NEW s, NEW phase, phase # "idle", After(s, phase)
  PROVE  /\ Quiet /\ ui' \in Ui /\ ui'.phase = phase /\ ui'.givenUp = s.givenUp
         /\ ui'.reveal = s.reveal /\ ui'.panel = s.panel /\ ui'.wheelTurns = s.wheelTurns
         /\ ui'.dwell = s.dwell /\ ui'.balance = s.balance /\ ui'.late = s.late
BY DEF After, Quiet

LEMMA GivesUpPage ==
  ASSUME TypeInv, RoundsInv, PageMove, GivesUp
  PROVE  PageInv'
<1> DEFINE s == [ui EXCEPT !.givenUp = spins]
<1>0. spins \in Nat /\ s \in Ui /\ s.givenUp = spins
  BY WireAssumption DEF TypeInv, TypeOK, ClientTypeOK, Ui
<1>1. PICK phase \in {"idle", "unrecoverable"} : After(s, phase)
  BY DEF GivesUp
<1> HIDE DEF s
<1>2. CASE phase = "idle"
  <2>1. \A r \in Round : r > spins => ~Pending(r)
    <3> SUFFICES ASSUME NEW r \in Round, r > spins
                 PROVE  ~Pending(r)
      OBVIOUS
    <3>1. ~Asked(r) /\ ~Told(r) /\ ~Starts(r) /\ ~Opened(r)
      BY DEF RoundsInv, RoundInv, Future
    <3>2. ~Known(r)
      BY <3>1 DEF TypeInv, OpenedInv
    <3> QED
      BY <3>1, <3>2 DEF Pending, Active, Ends, Ending, Stepped, Known
  <2> QED
    BY <1>0, <1>1, <1>2, <2>1, GoesToIdle
<1>3. CASE phase = "unrecoverable"
  BY <1>0, <1>1, <1>3, GoesElsewhere, NothingKept DEF Quiet
<1> QED
  BY <1>2, <1>3

\* A kept round that is not over is the last.
LEMMA KeptIsLast ==
  ASSUME TypeInv, RoundsInv, PageInv, NEW r \in Round, r > ui.givenUp, Pending(r)
  PROVE  r = spins /\ r \in Kept /\ WaitsForRound(r) /\ (Asked(r) \/ Told(r) => WaitsForSpin)
<1>0. spins \in Nat /\ ui.givenUp \in Nat
  BY WireAssumption DEF TypeInv, TypeOK, ClientTypeOK, Ui
<1>1. r <= spins
  <2> SUFFICES ASSUME r > spins
               PROVE  FALSE
    BY <1>0 DEF Round
  <2>1. ~Asked(r) /\ ~Told(r) /\ ~Starts(r) /\ ~Opened(r)
    BY DEF RoundsInv, RoundInv, Future
  <2>2. ~Known(r)
    BY <2>1 DEF TypeInv, OpenedInv
  <2> QED
    BY <2>1, <2>2 DEF Pending, Active, Ends, Ending, Stepped, Known
<1>2. r \in Kept
  BY <1>0, <1>1 DEF Kept, Round
<1> QED
  BY <1>2 DEF PageInv, WaitsForRound

LEMMA ActingPage ==
  ASSUME TypeInv, RoundsInv, PageInv, Acting
  PROVE  PageInv'
<1>0. TypeOK /\ PageMove /\ ui \in Ui /\ spins \in Nat
  BY WireAssumption DEF PageMove, TypeInv, TypeOK, ClientTypeOK
<1>1. CASE GoesOn
  <2>1. \A r \in Round : r > ui.givenUp => ~Pending(r)
    BY <1>1, KeptIsLast DEF GoesOn, WaitsForRound
  <2> QED
    BY <1>0, <1>1, <2>1, GoesToIdle DEF GoesOn
<1>2. CASE Trips
  BY <1>0, <1>2, GivesUpPage DEF Trips
<1>3. ASSUME Quiet \/ AsksStep
      PROVE  \A r \in Round : (Pending(r)' => Pending(r)) /\ ((Asked(r) \/ Told(r))' => Asked(r) \/ Told(r))
  BY <1>0, <1>3, MovesShrink, RoundShrinks DEF RoundsInv
<1>4. CASE Stopping
  <2>1. PICK late \in BOOLEAN : After([ui EXCEPT !.reveal = "none", !.late = late], AfterReels(ui))
    BY <1>4 DEF Stopping
  <2> DEFINE s == [ui EXCEPT !.reveal = "none", !.late = late]
  <2>2. /\ s \in Ui /\ s.givenUp = ui.givenUp /\ s.reveal = "none" /\ s.dwell = ui.dwell /\ s.wheelTurns = ui.wheelTurns
        /\ s.panel = ui.panel /\ After(s, AfterReels(ui))
    BY <1>0, <2>1 DEF Ui
  <2> HIDE DEF s
  <2>3. ui.reveal # "none"
    BY <1>4 DEF Stopping
  <2>4. CASE ui.reveal = "triggered"
    <3>1. Quiet /\ ui'.phase = "bonus" /\ ui'.givenUp = ui.givenUp /\ ui'.reveal = "none" /\ ui'.dwell = ui.dwell
          /\ ui'.wheelTurns = ui.wheelTurns /\ ui'.panel = ui.panel
      BY <2>2, <2>4, GoesElsewhere DEF AfterReels
    <3>2. \A r \in Round : WaitsForRound(r) => WaitsForRound(r)'
      BY <3>1 DEF WaitsForRound, Quiet
    <3>3. WaitsForSpin => WaitsForSpin'
      BY <3>1 DEF WaitsForSpin, Remains
    <3> QED
      BY <1>3, <3>1, <3>2, <3>3, PageStays DEF Quiet
  <2>5. CASE ui.reveal # "triggered"
    <3>1. ui.reveal = "plain"
      BY <1>0, <2>3, <2>5 DEF Ui
    <3>2. \A r \in Round : r > ui.givenUp => ~Pending(r)
      BY <3>1, KeptIsLast DEF WaitsForRound
    <3> QED
      BY <1>0, <2>2, <2>5, <3>2, GoesToIdle DEF AfterReels
  <2> QED
    BY <2>4, <2>5
<1>5. CASE Stays
  <2>1. Quiet \/ AsksStep
    BY <1>5 DEF Stays, Quiet, AsksStep
  <2>2. WaitsForSpin => WaitsForSpin'
    BY <1>5 DEF Stays, WaitsForSpin, Remains
  <2>3. \A r \in Round : WaitsForRound(r) => WaitsForRound(r)'
    BY <1>5 DEF Stays, WaitsForRound
  <2> QED
    BY <1>3, <1>5, <2>1, <2>2, <2>3, PageStays DEF Stays
<1>6. CASE HandsBack
  <2>1. Hide(ui) \in Ui /\ Hide(ui).givenUp = ui.givenUp /\ After(Hide(ui), "idle")
    BY <1>0, <1>6 DEF HandsBack, Hide, Ui
  <2>2. \A r \in Round : r > ui.givenUp => ~Pending(r)
    BY <1>6, KeptIsLast DEF HandsBack, WaitsForRound
  <2> QED
    BY <1>0, <2>1, <2>2, GoesToIdle
<1> QED
  BY <1>1, <1>2, <1>4, <1>5, <1>6 DEF Acting

\* The messages are taken one after the other.
LEMMA TakesFirst ==
  ASSUME TypeOK, Receiving
  PROVE  /\ toClient \in Seq(ServerToClientMessage) /\ 1 \in 1..Len(toClient) /\ Len(toClient) \in Nat
         /\ \A i \in 1..Len(toClient') : toClient'[i] = toClient[i + 1] /\ i + 1 \in 1..Len(toClient) /\ i + 1 # 1
<1>1. toClient \in Seq(ServerToClientMessage) /\ toClient # <<>> /\ toClient' = Tail(toClient)
  BY DEF TypeOK, WireTypeOK, Receiving, Receives
<1>2. \A i \in 1..Len(toClient') : i + 1 # 1
  BY <1>1
<1> QED
  BY <1>1, <1>2, TakesOne

\* Where the first message is a result, the round was told and nothing else of
\* it is to come but its bonus.
LEMMA FirstResult ==
  ASSUME TypeInv, Receiving, NEW r \in Round, RoundInv(r), IsResult(toClient[1], r)
  PROVE  /\ Told(r) /\ ~Asked(r) /\ ~Told(r)'
         /\ toClient[1].triggered = NoValue => ~Starts(r) /\ ~Ends(r) /\ ~Active(r)
<1>1. Told(r) /\ ~Asked(r)
  BY TakesFirst DEF Told, TypeInv, RoundInv, OneResult
<1>2. ~Told(r)'
  BY TakesFirst DEF Told, TypeInv, RoundInv, OneResult
<1>3. ASSUME toClient[1].triggered = NoValue
      PROVE  ~Starts(r) /\ ~Ends(r) /\ ~Active(r)
  <2>1. ~Starts(r) /\ ~Opened(r)
    BY <1>3, TakesFirst DEF TypeInv, RoundInv, OneResult
  <2>2. ~Known(r)
    BY <2>1 DEF TypeInv, OpenedInv
  <2> QED
    BY <2>1, <2>2 DEF Active, Ends, Ending, Stepped, Known
<1> QED
  BY <1>1, <1>2, <1>3

\* Where it is a bonus state, the round was told before, and is over if the
\* bonus is.
LEMMA FirstState ==
  ASSUME TypeInv, Receiving, NEW r \in Round, RoundInv(r), IsState(toClient[1], r)
  PROVE  /\ ~Asked(r) /\ ~Told(r) /\ ~Starts(r)
         /\ toClient[1].done => ~Ends(r) /\ ~Active(r)
         /\ toClient[1].module = "wheel" => toClient[1].done
<1>1. Known(r) /\ Opened(r)
  BY TakesFirst DEF Known, TypeInv, OpenedInv
<1>2. ~Starts(r) /\ ~Asked(r)
  BY <1>1 DEF RoundInv, OneStart
<1>3. ~Told(r)
  <2> SUFFICES ASSUME NEW j \in 1..Len(toClient), IsResult(toClient[j], r)
               PROVE  FALSE
    BY DEF Told
  <2>1. j < 1
    BY TakesFirst DEF TypeInv, RoundInv, OneEnd
  <2> QED
    BY <2>1
<1>4. toClient[1].done => ~Ends(r) /\ ~Active(r)
  BY TakesFirst DEF TypeInv, RoundInv, OneEnd
<1>5. toClient[1].module = "wheel" => toClient[1].done
  BY TakesFirst DEF TypeInv, RoundInv, WheelShown
<1> QED
  BY <1>2, <1>3, <1>4, <1>5

LEMMA ReceivingPage ==
  ASSUME TypeInv, RoundsInv, JoinInv, PageInv, Receiving
  PROVE  PageInv'
<1> DEFINE m == toClient[1]
<1>0. /\ TypeOK /\ PageMove /\ ui \in Ui /\ spins \in Nat /\ ui.givenUp \in Nat /\ m \in ServerToClientMessage
      /\ spins \in 0..MaxSpins
  BY WireAssumption DEF PageMove, TypeInv, TypeOK, ClientTypeOK, Receiving, Ui
<1>1. ASSUME Quiet
      PROVE  \A r \in Round : (Pending(r)' => Pending(r)) /\ ((Asked(r) \/ Told(r))' => Asked(r) \/ Told(r))
                              /\ (Asked(r)' => Asked(r)) /\ (Told(r)' => Told(r))
  <2>1. \A r \in Round : (Pending(r)' => Pending(r)) /\ ((Asked(r) \/ Told(r))' => Asked(r) \/ Told(r))
    BY <1>0, <1>1, MovesShrink, RoundShrinks DEF RoundsInv
  <2>2. toServer' = toServer /\ handler' = handler
    BY <1>0, <1>1, MovesKeep DEF Quiet, serverVars
  <2>3. \A r \in Round : Asked(r)' => Asked(r)
    BY <2>2 DEF Asked, Requested, Spinning, Busy
  <2>4. \A r \in Round : Told(r)' => Told(r)
    BY <1>0, TakesFirst DEF Told
  <2> QED
    BY <2>1, <2>3, <2>4
<1> HIDE DEF m
<1>2. CASE TakesJoined(m)
  <2>1. ui.givenUp = spins
    <3>1. socket = "open" /\ m.type = "JOINED" /\ 1 \in 1..Len(toClient)
      BY <1>0, <1>2, TakesFirst DEF Receiving, Receives, TakesJoined
    <3>2. ~NoJoin
      BY <3>1 DEF NoJoin, m
    <3> QED
      BY <3>1, <3>2 DEF JoinInv, Untouched
  <2>2. [ui EXCEPT !.balance = m] \in Ui
    BY <1>0, <1>2, MessageKinds DEF TakesJoined, Ui
  <2>3. \A r \in Round : r > ui.givenUp => ~Pending(r)
    BY <1>0, <2>1, KeptIsLast
  <2>4. After([ui EXCEPT !.balance = m], "idle") /\ [ui EXCEPT !.balance = m].givenUp = ui.givenUp
    BY <1>0, <1>2 DEF TakesJoined, Ui
  <2> QED
    BY <1>0, <2>2, <2>3, <2>4, GoesToIdle
<1>3. CASE TakesResult(m)
  <2> DEFINE reveal == IF m.triggered = NoValue THEN "plain" ELSE "triggered"
             s == [ui EXCEPT !.reveal = reveal, !.late = FALSE, !.givenUp = GivenUpBy(m)]
  <2>0. m.of \in Round
    BY <1>0, <1>3, MessageKinds DEF TakesResult
  <2>1. After(s, "revealing")
    BY <1>3 DEF TakesResult
  <2>2. s.givenUp = GivenUpBy(m) /\ s.reveal = reveal /\ s.dwell = ui.dwell /\ s.wheelTurns = ui.wheelTurns
    BY <1>0 DEF Ui
  <2> HIDE DEF s
  <2>3. /\ Quiet /\ ui'.phase = "revealing" /\ ui'.givenUp = GivenUpBy(m) /\ ui'.reveal = reveal
        /\ ui'.dwell = ui.dwell /\ ui'.wheelTurns = ui.wheelTurns
    BY <2>1, <2>2, GoesElsewhere
  <2>4. CASE m.of # spins
    BY <1>0, <2>3, <2>4, NothingKept DEF GivenUpBy, Quiet
  <2>5. CASE m.of = spins
    <3>1. IsResult(toClient[1], spins) /\ RoundInv(spins) /\ spins \in Round
      BY <1>3, <2>0, <2>5 DEF TakesResult, IsResult, m, RoundsInv
    <3> PICK q \in Round : q = spins
      BY <3>1
    <3>2. /\ Told(q) /\ ~Asked(q) /\ ~Told(q)'
          /\ m.triggered = NoValue => ~Starts(q) /\ ~Ends(q) /\ ~Active(q)
      <4>1. IsResult(toClient[1], q) /\ RoundInv(q)
        BY <3>1
      <4> QED
        BY <4>1, FirstResult DEF m
    <3>3. ASSUME NEW r \in Round, r > ui'.givenUp, Pending(r)'
          PROVE  ~(Asked(r) \/ Told(r))' /\ WaitsForRound(r)'
      <4>1. Pending(r) /\ r > ui.givenUp
        BY <1>1, <2>3, <2>5, <3>3 DEF GivenUpBy
      <4>2. r = spins /\ WaitsForRound(r) /\ WaitsForSpin
        BY <3>2, <4>1, KeptIsLast
      <4>3. ~Asked(r)' /\ ~Told(r)'
        <5>1. Told(r)' = Told(q)' /\ Asked(r) = Asked(q)
          <6>1. r = q
            BY <4>2
          <6> QED
            BY <6>1 DEF Told, Asked
        <5> QED
          BY <1>1, <2>3, <3>2, <5>1
      <4>4. m.triggered # NoValue
        <5>1. handler' = handler /\ bonuses' = bonuses
          BY <1>0, MovesKeep DEF serverVars, backendVars
        <5>2. (Starts(r)' => Starts(r)) /\ (Ends(r)' => Ends(r)) /\ (Active(r)' => Active(r))
          BY <5>1 DEF Starts, Starting, Ends, Ending, Stepped, Stepping, Busy, Got, Active, Opened
        <5> QED
          BY <3>2, <3>3, <4>2, <4>3, <5>2 DEF Pending
      <4>5. WaitsForRound(r)'
        BY <2>3, <4>2, <4>4 DEF WaitsForRound, Quiet
      <4> QED
        BY <4>3, <4>5
    <3>4. \A r \in (Kept \cap Round)' : r \in Round /\ r > ui'.givenUp
      <4>1. ui'.givenUp \in Nat /\ spins' \in Nat
        BY <1>0, <2>3, <2>5 DEF GivenUpBy, Quiet
      <4> QED
        BY <4>1 DEF Kept, Round
    <3> QED
      BY <3>3, <3>4 DEF PageInv, Pending
  <2> QED
    BY <2>4, <2>5
<1>4. CASE TakesBalance(m)
  <2>1. Quiet /\ ui' = [ui EXCEPT !.balance = m]
    BY <1>4 DEF TakesBalance, Quiet
  <2>2. /\ ui'.givenUp = ui.givenUp /\ ui'.phase = ui.phase /\ ui'.reveal = ui.reveal /\ ui'.panel = ui.panel
        /\ ui'.dwell = ui.dwell /\ ui'.wheelTurns = ui.wheelTurns /\ spins' = spins
    BY <1>0, <2>1 DEF Ui, Quiet
  <2>3. (WaitsForSpin => WaitsForSpin') /\ \A r \in Round : WaitsForRound(r) => WaitsForRound(r)'
    BY <2>2 DEF WaitsForSpin, WaitsForRound, Remains
  <2> QED
    BY <1>1, <2>1, <2>2, <2>3, PageStays
<1>5. CASE TakesState(m)
  <2>0. m.of \in Round /\ Quiet /\ ui'.givenUp = GivenUpBy(m)
    BY <1>0, <1>5, MessageKinds DEF TakesState, Quiet
  <2>1. CASE m.of # spins
    BY <1>0, <2>0, <2>1, NothingKept DEF GivenUpBy, Quiet
  <2>2. CASE m.of = spins
    <3>1. IsState(toClient[1], spins) /\ RoundInv(spins) /\ spins \in Round
      BY <1>5, <2>0, <2>2 DEF TakesState, IsState, m, RoundsInv
    <3>2. /\ ~Asked(spins) /\ ~Told(spins) /\ ~Starts(spins)
          /\ m.done => ~Ends(spins) /\ ~Active(spins)
          /\ m.module = "wheel" => m.done
      BY <3>1, FirstState DEF m
    <3>3. ASSUME NEW r \in Round, r > ui'.givenUp, Pending(r)'
          PROVE  ~(Asked(r) \/ Told(r))' /\ WaitsForRound(r)'
      <4>1. Pending(r) /\ r > ui.givenUp
        BY <1>1, <2>0, <2>2, <3>3 DEF GivenUpBy
      <4>2. r = spins /\ WaitsForRound(r)
        BY <4>1, KeptIsLast
      <4>3. ~(Asked(r) \/ Told(r))' /\ ~m.done
        BY <1>1, <2>0, <3>2, <4>1, <4>2 DEF Pending
      <4>4. WaitsForRound(r)'
        BY <1>5, <2>0, <3>2, <4>2, <4>3 DEF WaitsForRound, TakesState, Quiet
      <4> QED
        BY <4>3, <4>4
    <3>4. \A r \in (Kept \cap Round)' : r \in Round /\ r > ui'.givenUp
      <4>1. ui'.givenUp \in Nat /\ spins' \in Nat
        BY <1>0, <2>0, <2>2 DEF GivenUpBy, Quiet
      <4> QED
        BY <4>1 DEF Kept, Round
    <3> QED
      BY <3>3, <3>4 DEF PageInv, Pending
  <2> QED
    BY <2>1, <2>2
<1>6. CASE TakesError(m)
  BY <1>0, <1>6, GivesUpPage DEF TakesError
<1> QED
  BY <1>2, <1>3, <1>4, <1>5, <1>6 DEF Receiving, Takes, m

LEMMA OthersPage ==
  ASSUME TypeInv, RoundsInv, PageInv, [Next]_vars, ~PageMove
  PROVE  PageInv'
<1>0. TypeOK /\ ui \in Ui /\ spins \in Nat
  BY WireAssumption DEF TypeInv, TypeOK, ClientTypeOK
<1>1. CASE Leaves
  <2>1. ui'.givenUp = spins' /\ spins' \in Nat
    BY <1>0, <1>1 DEF Leaves, Load, NewPage
  <2> QED
    BY <2>1, NothingKept
<1>2. CASE CannotStart
  <2>1. \A r \in Round : (Pending(r)' => Pending(r)) /\ ((Asked(r) \/ Told(r))' => Asked(r) \/ Told(r))
    BY <1>0, <1>2, OthersShrink, RoundShrinks DEF RoundsInv
  <2>2. After(ui, "unrecoverable")
    BY <1>0, <1>2, FatalMoves DEF CannotStart
  <2>3. Quiet /\ ui'.phase = "unrecoverable" /\ ui'.givenUp = ui.givenUp /\ ui'.reveal = ui.reveal
        /\ ui'.panel = ui.panel /\ ui'.dwell = ui.dwell /\ ui'.wheelTurns = ui.wheelTurns
    BY <2>2, GoesElsewhere
  <2>4. WaitsForSpin => WaitsForSpin'
    BY <2>3 DEF WaitsForSpin, Remains
  <2>5. \A r \in Round : WaitsForRound(r) => WaitsForRound(r)'
    BY <2>3 DEF WaitsForRound, Quiet
  <2> QED
    BY <2>1, <2>3, <2>4, <2>5, PageStays DEF Quiet
<1>3. ASSUME ui' = ui, spins' = spins,
             \A r \in Round : (Pending(r)' => Pending(r)) /\ ((Asked(r) \/ Told(r))' => Asked(r) \/ Told(r))
      PROVE  PageInv'
  <2>1. (WaitsForSpin => WaitsForSpin') /\ \A r \in Round : WaitsForRound(r) => WaitsForRound(r)'
    BY <1>3 DEF WaitsForSpin, WaitsForRound, Remains
  <2> QED
    BY <1>3, <2>1, PageStays
<1>4. ASSUME NEW s \in Slot, SlotMoves(s)
      PROVE  PageInv'
  <2>1. ui' = ui /\ spins' = spins
    BY <1>4 DEF SlotMoves, Elsewhere, clientVars
  <2>2. ASSUME NEW r \in Round
        PROVE  (Pending(r)' => Pending(r)) /\ ((Asked(r) \/ Told(r))' => Asked(r) \/ Told(r))
    <3>1. RoundInv(r)
      BY DEF RoundsInv
    <3>2. (Spinning(s, r) => Asked(r)) /\ (Starting(s, r) => Starts(r))
      BY DEF Asked, Starts
    <3> QED
      BY <1>4, <3>1, <3>2, RoundMoves DEF Pending
  <2> QED
    BY <1>3, <2>1, <2>2
<1>5. CASE Connect \/ Sweeping \/ Breaking \/ Crashing \/ (\E c \in Page : Closing(c)) \/ UNCHANGED vars
  <2>1. ui' = ui /\ spins' = spins
    BY <1>5 DEF Connect, Open, Accept, Sweeping, Breaking, Break, Crashing, Closing, vars, clientVars
  <2>2. \A r \in Round : (Pending(r)' => Pending(r)) /\ ((Asked(r) \/ Told(r))' => Asked(r) \/ Told(r))
    BY <1>0, <1>5, OthersShrink, RoundShrinks DEF RoundsInv
  <2> QED
    BY <1>3, <2>1, <2>2
<1> QED
  BY <1>1, <1>2, <1>4, <1>5, NextMoves

LEMMA PageKept ==
  ASSUME TypeInv, RoundsInv, JoinInv, PageInv, [Next]_vars
  PROVE  PageInv'
<1>0. TypeOK /\ ui \in Ui
  BY DEF TypeInv, TypeOK, ClientTypeOK
<1>1. CASE Disconnects
  <2>1. PageMove
    BY <1>1 DEF PageMove
  <2>2. Quiet /\ ui'.phase = "offline" /\ ui'.givenUp = ui.givenUp /\ ui'.reveal = ui.reveal
        /\ ui'.panel = ui.panel /\ ui'.dwell = ui.dwell /\ ui'.wheelTurns = ui.wheelTurns
    BY <1>1, GoesElsewhere DEF Disconnects
  <2>3. \A r \in Round : (Pending(r)' => Pending(r)) /\ ((Asked(r) \/ Told(r))' => Asked(r) \/ Told(r))
    BY <1>0, <2>1, <2>2, MovesShrink, RoundShrinks DEF RoundsInv
  <2>4. WaitsForSpin => WaitsForSpin'
    BY <2>2 DEF WaitsForSpin, Remains
  <2>5. \A r \in Round : WaitsForRound(r) => WaitsForRound(r)'
    BY <2>2 DEF WaitsForRound, Quiet
  <2> QED
    BY <2>2, <2>3, <2>4, <2>5, PageStays DEF Quiet
<1> QED
  BY <1>1, ActingPage, ReceivingPage, OthersPage DEF PageMove

LEMMA InitPlay ==
  ASSUME Init
  PROVE  LinkInv /\ JoinInv /\ RoundsInv /\ PageInv
<1>1. LinkInv
  BY WireAssumption DEF Init, LinkInv, Page
<1>2. JoinInv
  BY DEF Init, JoinInv, Untouched, NewPage
<1>3. \A r \in Round : ~Asked(r) /\ ~Told(r) /\ ~Starts(r) /\ ~Opened(r) /\ ~Ends(r) /\ ~Active(r)
  BY DEF Init, Asked, Requested, Spinning, Busy, Told, Starts, Starting, Opened, Ends, Ending, Stepped, Stepping, Active
<1>4. RoundsInv
  <2> SUFFICES ASSUME NEW r \in Round
               PROVE  RoundInv(r)
    BY DEF RoundsInv
  <2>1. OneSpin(r)
    BY DEF Init, OneSpin, Spinning, Busy
  <2>2. OneResult(r)
    BY <1>3 DEF Init, OneResult
  <2>3. OneStart(r)
    BY <1>3 DEF Init, OneStart, Starting, Busy
  <2>4. OneEnd(r)
    BY <1>3 DEF Init, OneEnd, Starting, Ending, Stepped, Stepping, Busy
  <2>5. Wheel(r) /\ WheelShown(r) /\ Future(r)
    BY <1>3 DEF Init, Wheel, WheelShown, Future
  <2> QED
    BY <2>1, <2>2, <2>3, <2>4, <2>5 DEF RoundInv
<1>5. PageInv
  BY <1>3 DEF PageInv, Pending
<1> QED
  BY <1>1, <1>2, <1>4, <1>5

\* What the theorems that follow rest on.
PlayInv == TypeInv /\ LinkInv /\ JoinInv /\ RoundsInv /\ PageInv

LEMMA PlayInvariant == Spec => []PlayInv
<1>1. Init => PlayInv
  BY InitType, InitPlay DEF PlayInv
<1>2. PlayInv /\ [Next]_vars => PlayInv'
  BY TypeKept, LinkKept, JoinKept, RoundsKept, PageKept DEF PlayInv
<1> QED
  BY <1>1, <1>2, PTL DEF Spec

\* No press, frame, timer, autoplay run or answer makes the page ask for a
\* second spin while one of its rounds is with game-socket (main.ts 213-223,
\* 267-271, autoplay.ts 235-253):
\* such a round is the last one, so there is no other.
THEOREM PlayOneRound == Spec => []OneRoundAtATime
<1>1. ASSUME PlayInv
      PROVE  OneRoundAtATime
  <2>1. spins \in Nat /\ ui.givenUp \in Nat /\ spins \in 0..MaxSpins
    BY <1>1, WireAssumption DEF PlayInv, TypeInv, TypeOK, ClientTypeOK, Ui
  <2>2. Awaited \subseteq {spins}
    <3> SUFFICES ASSUME NEW r \in Awaited
                 PROVE  r = spins
      OBVIOUS
    <3>1. r \in Round /\ r > ui.givenUp
      BY <2>1, WireAssumption DEF Awaited, Kept, Round
    <3>2. Asked(r)
      BY DEF Awaited, Asked, Requested, Request, Spinning, Busy
    <3> QED
      BY <1>1, <3>1, <3>2, KeptIsLast DEF PlayInv, Pending
  <2>3. IsFiniteSet({spins}) /\ Cardinality({spins}) = 1
    BY FS_Singleton
  <2>4. IsFiniteSet(Awaited) /\ Cardinality(Awaited) <= Cardinality({spins})
    BY <2>2, <2>3, FS_Subset
  <2> QED
    BY <2>3, <2>4, FS_CardinalityType DEF OneRoundAtATime
<1> QED
  BY <1>1, PlayInvariant, PTL

\* A connection joins once: while its token is consumed it has no session, and
\* the token of one that was just accepted is not consumed.
FreshInv ==
  /\ \A c \in Page : link[c] = "none" => sessions[c] = NoValue
  /\ (\E i \in 1..Len(toServer) : toServer[i].type = "JOIN") => sessions[page] = NoValue
  /\ \A s \in Slot : Busy(s, "consume") => sessions[handler[s].conn] = NoValue
  /\ \A s, t \in Slot : Busy(s, "consume") /\ Busy(t, "consume") /\ handler[s].conn = handler[t].conn => s = t

\* A step that neither joins nor makes a session.
LEMMA FreshStays ==
  ASSUME FreshInv, TypeOK, UNCHANGED page,
         \A c \in Page : link'[c] = "none" => link[c] = "none",
         \A c \in Page : sessions[c] = NoValue => sessions'[c] = NoValue,
         (\E i \in 1..Len(toServer') : toServer'[i].type = "JOIN") => \E i \in 1..Len(toServer) : toServer[i].type = "JOIN",
         \A s \in Slot : Busy(s, "consume")' => Busy(s, "consume") /\ handler'[s].conn = handler[s].conn
  PROVE  FreshInv'
<1>1. page \in Page /\ \A s \in Slot : Busy(s, "consume") => handler[s].conn \in Page
  BY RowKinds DEF TypeOK, WireTypeOK, Busy
<1> QED
  BY <1>1 DEF FreshInv

LEMMA SlotsFresh ==
  ASSUME TypeInv, LinkInv, JoinInv, FreshInv, NEW s \in Slot, SlotMoves(s)
  PROVE  FreshInv'
<1>0. /\ TypeOK /\ UNCHANGED <<page, link, socket>> /\ page \in Page
      /\ toServer \in Seq(ClientToServerMessage) /\ \A t \in Slot : Busy(t, "consume") => handler[t].conn \in Page
  BY RowKinds DEF TypeInv, TypeOK, WireTypeOK, SlotMoves, Elsewhere, Busy
<1>1. (\E i \in 1..Len(toServer') : toServer'[i].type = "JOIN") => \E i \in 1..Len(toServer) : toServer[i].type = "JOIN"
  <2>1. CASE toServer' = toServer
    BY <2>1
  <2>2. CASE TakesRequest
    BY <1>0, <2>2, TakesOne DEF TakesRequest
  <2> QED
    BY <2>1, <2>2 DEF SlotMoves, Refused, Dispatched, IsServed, TokenServed, BalanceServed, SpinServed, StartServed,
      StepServed, Fills, Continues, HasJoined, IsRefused, BalanceTold, SpinTold, StartTold, StepTold, HasFailed, Uses
<1>2. ASSUME Dispatched(s), toServer[1].type = "JOIN"
      PROVE  /\ sessions[page] = NoValue /\ ~(\E i \in 1..Len(toServer') : toServer'[i].type = "JOIN")
             /\ \A t \in Slot : ~Here(t)
  <2>1. socket = "open" /\ 1 \in 1..Len(toServer) /\ toServer' = Tail(toServer)
    BY <1>0, <1>2, TakesOne DEF Dispatched, TakesRequest, LinkInv
  <2>2. JoinSent
    <3>1. ~NoJoin
      BY <1>2, <2>1 DEF NoJoin
    <3> QED
      BY <2>1, <3>1 DEF JoinInv, JoinHandled, JoinAnswered
  <2>3. Len(toServer') = 0
    BY <1>0, <2>1, <2>2, TakesOne DEF JoinSent
  <2>4. sessions[page] = NoValue
    BY <1>2, <2>1 DEF FreshInv
  <2>5. ~(\E i \in 1..Len(toServer') : toServer'[i].type = "JOIN")
    BY <2>3
  <2> QED
    BY <2>2, <2>4, <2>5 DEF JoinSent
<1>3. ASSUME NEW t \in Slot, Busy(t, "consume")'
      PROVE  \/ Busy(t, "consume") /\ handler'[t].conn = handler[t].conn
             \/ t = s /\ Dispatched(s) /\ toServer[1].type = "JOIN" /\ handler'[t].conn = page
  <2>1. CASE t # s
    BY <1>3, <2>1, OtherRows DEF Busy
  <2>2. CASE t = s
    BY <1>3, <2>2, OwnRow DEF Busy, HasJoined, SpinTold, StartTold, StepTold, StateTold, Dispatched, Sets
  <2> QED
    BY <2>1, <2>2
<1>4. CASE Dispatched(s) /\ toServer[1].type = "JOIN"
  <2>1. sessions' = sessions
    BY <1>4 DEF Dispatched
  <2>2. \A t \in Slot : Busy(t, "consume") => handler[t].conn # page
    BY <1>2, <1>4 DEF Busy, Here
  <2> QED
    BY <1>0, <1>2, <1>3, <1>4, <2>1, <2>2 DEF FreshInv
<1>5. CASE HasJoined(s)
  <2>1. /\ Busy(s, "consume") /\ ~Busy(s, "consume")' /\ toServer' = toServer
        /\ \A c \in Page : c # handler[s].conn => sessions'[c] = sessions[c]
    BY <1>0, <1>5 DEF HasJoined, Uses, Busy, Sets
  <2>2. link[handler[s].conn] # "none"
    BY <2>1 DEF Busy, LinkInv
  <2>3. \A t \in Slot : Busy(t, "consume")' =>
          /\ t # s /\ Busy(t, "consume") /\ handler'[t].conn = handler[t].conn /\ handler[t].conn # handler[s].conn
    BY <1>3, <1>5, <2>1, OtherRows DEF FreshInv, Busy
  <2>4. ~(\E i \in 1..Len(toServer) : toServer[i].type = "JOIN") \/ handler[s].conn # page
    <3> SUFFICES ASSUME NEW i \in 1..Len(toServer), toServer[i].type = "JOIN", handler[s].conn = page
                 PROVE  FALSE
      OBVIOUS
    <3>1. Here(s) /\ socket = "open" /\ ~NoJoin
      BY <2>1 DEF Here, Busy, NoJoin, LinkInv
    <3> QED
      BY <3>1 DEF JoinInv, JoinSent, JoinHandled, JoinAnswered
  <2> QED
    BY <1>0, <2>1, <2>2, <2>3, <2>4 DEF FreshInv
<1>6. CASE ~HasJoined(s) /\ ~(Dispatched(s) /\ toServer[1].type = "JOIN")
  <2>1. \A c \in Page : sessions[c] = NoValue => sessions'[c] = NoValue
    <3>1. sessions' = sessions \/ \E conn, bonus : Remembers(conn, bonus)
      BY <1>6 DEF SlotMoves, Refused, Dispatched, IsServed, TokenServed, BalanceServed, SpinServed, StartServed,
        StepServed, Fills, Continues, IsRefused, BalanceTold, SpinTold, StartTold, StepTold, HasFailed
    <3> QED
      BY <3>1 DEF Remembers
  <2> QED
    BY <1>0, <1>1, <1>3, <1>6, <2>1, FreshStays
<1> QED
  BY <1>4, <1>5, <1>6

LEMMA FreshKept ==
  ASSUME TypeInv, LinkInv, JoinInv, FreshInv, [Next]_vars
  PROVE  FreshInv'
<1>0. TypeOK /\ page \in Page /\ link \in [Page -> {"none", "open", "lost", "closed"}]
      /\ handler \in [Slot -> Handler \cup {NoValue}]
  BY DEF TypeInv, TypeOK, WireTypeOK, ServerTypeOK
<1>1. CASE PageMove
  <2>1. UNCHANGED <<page, serverVars>> /\ link' = link
    BY <1>0, <1>1, MovesKeep
  <2>2. (\E i \in 1..Len(toServer') : toServer'[i].type = "JOIN") => \E i \in 1..Len(toServer) : toServer[i].type = "JOIN"
    BY <1>0, <1>1, MovesAsk, AsksNoJoin
  <2> QED
    BY <1>0, <2>1, <2>2, FreshStays DEF serverVars, Busy
<1>2. CASE Connect
  <2>1. /\ link[page] = "none" /\ toServer = <<>> /\ UNCHANGED <<page, sessions, handler>>
        /\ link' = [link EXCEPT ![page] = "open"]
    BY <1>2 DEF Connect, Accept, Open, serverVars, LinkInv
  <2> QED
    BY <1>0, <2>1 DEF FreshInv, Busy
<1>3. CASE Leaves
  <2>1. /\ page' = page + 1 /\ toServer' = <<>> /\ UNCHANGED <<sessions, handler>>
        /\ \A c \in Page : link'[c] = "none" => link[c] = "none"
    BY <1>0, <1>3 DEF Leaves, Load, serverVars
  <2> QED
    BY <1>0, <2>1 DEF FreshInv, Busy
<1>4. CASE CannotStart \/ Sweeping \/ Breaking \/ UNCHANGED vars
  <2>1. UNCHANGED <<page, sessions, handler>>
    BY <1>4 DEF CannotStart, Fatal, Sweeping, Breaking, Break, vars, wireVars, serverVars
  <2>2. toServer' = toServer \/ toServer' = <<>>
    <3>1. CASE CannotStart
      <4>1. After(ui, "unrecoverable")
        BY <1>0, <3>1, FatalMoves DEF CannotStart
      <4> QED
        BY <4>1, GoesElsewhere DEF Quiet
    <3> QED
      BY <1>4, <3>1 DEF Sweeping, Breaking, Break, vars, wireVars
  <2>3. \A c \in Page : link'[c] = "none" => link[c] = "none"
    BY <1>0, <1>4 DEF CannotStart, Fatal, Sweeping, Breaking, Break, vars, wireVars
  <2> QED
    BY <1>0, <2>1, <2>2, <2>3, FreshStays DEF Busy
<1>5. CASE Crashing
  <2>1. /\ UNCHANGED page /\ toServer' = <<>> /\ sessions' = [c \in Page |-> NoValue]
        /\ \A s \in Slot : handler'[s] = NoValue
    BY <1>5 DEF Crashing, SocketCrash
  <2> QED
    BY <1>0, <2>1 DEF FreshInv, Busy
<1>6. ASSUME NEW c \in Page, Closing(c)
      PROVE  FreshInv'
  <2>1. /\ UNCHANGED <<page, toServer, handler>> /\ link' = [link EXCEPT ![c] = "closed"]
        /\ sessions' = [sessions EXCEPT ![c] = NoValue] /\ sessions \in [Page -> Session \cup {NoValue}]
    BY <1>0, <1>6 DEF Closing, OnClose, ForgottenSession, TypeOK, ServerTypeOK
  <2> QED
    BY <1>0, <2>1, FreshStays DEF Busy
<1> QED
  BY <1>1, <1>2, <1>3, <1>4, <1>5, <1>6, NextMoves, SlotsFresh

\* What makes a connection forget: the answer of a start that was not the end
\* of its bonus, of a last step, or that the bonus was abandoned.
LEMMA ForgetsBy ==
  ASSUME TypeInv, FreshInv, Next, NEW c \in Page, NEW b \in Round, Forgets(c, b)
  PROVE  \E s \in Slot, r \in Round :
           /\ handler[s] # NoValue /\ handler'[s] # handler[s]
           /\ \/ Starting(s, r) /\ r # b
              \/ Ending(s, r)
              \/ Stepping(s, r) /\ Got(s) /\ handler[s].got.refusal = "bonus_session_abandoned"
<1>0. TypeOK /\ sessions \in [Page -> Session \cup {NoValue}] /\ sessions'[c] # sessions[c]
      /\ handler \in [Slot -> Handler \cup {NoValue}]
  BY DEF TypeInv, TypeOK, ServerTypeOK, Forgets
<1>1. ~(Connect \/ Sweeping \/ Breaking \/ Playing \/ Showing \/ Loading)
  BY <1>0 DEF Connect, Accept, Sweeping, Breaking, Playing, Showing, Loading, serverVars
<1>2. ~Crashing
  BY <1>0 DEF Crashing, SocketCrash, Forgets
<1>3. \A k \in Page : ~Closing(k)
  BY <1>0 DEF Closing, OnClose, ForgottenSession, Forgets
<1>4. PICK s \in Slot : Serving(s) \/ Failing(s)
  BY <1>1, <1>2, <1>3 DEF Next
<1>5. Continue(s)
  BY <1>0, <1>4 DEF Serving, Failing, ServerStep, OnMessage, Serve, BackendFails
<1>6. ~OnConsumed(s)
  <2> SUFFICES ASSUME OnConsumed(s)
               PROVE  FALSE
    OBVIOUS
  <2>1. Busy(s, "consume")
    BY DEF OnConsumed, Answered, Busy
  <2>2. sessions[handler[s].conn] = NoValue /\ handler[s].conn \in Page
    BY <1>0, <2>1, RowKinds DEF FreshInv, Busy
  <2> QED
    BY <1>0, <2>2 DEF OnConsumed, Forgets
<1>7. CASE OnStarted(s)
  <2>1. /\ Busy(s, "start") /\ Got(s) /\ handler[s].arg.round \in Round
        /\ handler[s].got \in BonusAnswer /\ Opened(handler[s].arg.round) /\ handler[s].conn \in Page
    BY <1>0, <1>7, RowKinds DEF OnStarted, Answered, Busy, Got, Answers, TypeInv, OpenedInv
  <2>2. ~handler[s].got.done /\ Remembers(handler[s].conn, handler[s].arg.round)
    BY <1>0, <1>7, <2>1, RememberRemembers DEF OnStarted, RememberStarted
  <2>3. handler[s].arg.round # b
    BY <1>0, <2>1, <2>2 DEF Remembers, Forgets
  <2>4. handler'[s] # handler[s]
    BY <1>0, <1>7, <2>1, <2>2, FinishSets DEF OnStarted, ShowBonus, Busy, Sets
  <2> QED
    BY <2>1, <2>3, <2>4 DEF Starting, Busy
<1>8. CASE OnStepped(s)
  <2>1. /\ Busy(s, "step") /\ Got(s) /\ handler[s].arg \in Round /\ handler[s].got \in StepAnswer
    BY <1>0, <1>8, RowKinds DEF OnStepped, Answered, Busy, Got, Answers
  <2>2. handler'[s] # handler[s]
    <3>1. (Finish(s) \/ Await(s, handler[s].conn, "balance", "BALANCE_UPDATE"))
      BY <1>8 DEF OnStepped, ShowBonus
    <3>2. Await(s, handler[s].conn, "balance", "BALANCE_UPDATE") => handler'[s].call = "balance"
      BY <1>0 DEF Await
    <3>3. Finish(s) => handler'[s] = NoValue
      BY <1>0 DEF Finish
    <3> QED
      BY <2>1, <3>1, <3>2, <3>3 DEF Busy
  <2>3. \/ handler[s].got.refusal = "bonus_session_abandoned"
        \/ handler[s].got.refusal = NoValue /\ handler[s].got.done
    BY <1>0, <1>8 DEF OnStepped
  <2> QED
    BY <2>1, <2>2, <2>3 DEF Ending, Stepped, Stepping, Busy
<1>9. CASE OnBalance(s) \/ OnSpun(s)
  BY <1>0, <1>9 DEF OnBalance, OnSpun
<1> QED
  BY <1>5, <1>6, <1>7, <1>8, <1>9 DEF Continue

\* A bonus that is still open is forgotten only if it or the round that the
\* answer is about was given up, or the answer's own bonus was abandoned
\* (session.ts 153, 248): a bonus that the page keeps is the last round's, and
\* no other is being started or ended.
THEOREM PlayForgotten == Spec => OnlyGivenUpBonusesAreForgotten
<1>1. Init => FreshInv
  BY DEF Init, FreshInv, Busy
<1>2. PlayInv /\ FreshInv /\ [Next]_vars => FreshInv'
  BY FreshKept DEF PlayInv
<1>3. ASSUME PlayInv, FreshInv, [Next]_vars, NEW c \in Page, NEW b \in Round, Forgets(c, b), bonuses[b].status = "active"
      PROVE  b <= ui.givenUp \/ \E s \in Slot : handler'[s] # handler[s] /\ handler[s] # NoValue /\ Belated(handler[s])
  <2> SUFFICES ASSUME ~(b <= ui.givenUp)
               PROVE  \E s \in Slot : handler'[s] # handler[s] /\ handler[s] # NoValue /\ Belated(handler[s])
    OBVIOUS
  <2>0. TypeInv /\ RoundsInv /\ PageInv /\ ui.givenUp \in Nat /\ b > ui.givenUp
    BY <1>3, WireAssumption DEF PlayInv, TypeInv, TypeOK, ClientTypeOK, Ui, Round
  <2>1. Known(b) /\ Opened(b)
    BY <1>3, <2>0 DEF Forgets, Known, TypeInv, OpenedInv
  <2>2. Active(b) /\ b = spins
    BY <1>3, <2>0, <2>1, KeptIsLast DEF Active, Pending
  <2>3. Next
    BY <1>3 DEF Forgets, vars, serverVars
  <2>4. PICK s \in Slot, r \in Round :
           /\ handler[s] # NoValue /\ handler'[s] # handler[s]
           /\ \/ Starting(s, r) /\ r # b
              \/ Ending(s, r)
              \/ Stepping(s, r) /\ Got(s) /\ handler[s].got.refusal = "bonus_session_abandoned"
    BY <1>3, <2>0, <2>3, ForgetsBy
  <2>5. CASE Starting(s, r) /\ r # b
    <3>1. ~(r > ui.givenUp)
      BY <2>0, <2>2, <2>5, KeptIsLast DEF Starts, Pending
    <3> QED
      BY <2>0, <2>4, <2>5, <3>1 DEF Belated, About, Starting, Busy, Round
  <2>6. CASE Ending(s, r)
    <3>1. ~(r > ui.givenUp)
      <4> SUFFICES ASSUME r > ui.givenUp
                   PROVE  FALSE
        OBVIOUS
      <4>1. Ends(r)
        BY <2>6 DEF Ends
      <4>2. r = b
        BY <2>0, <2>2, <4>1, KeptIsLast DEF Pending
      <4> QED
        BY <2>0, <2>2, <4>1, <4>2 DEF RoundsInv, RoundInv, OneEnd
    <3> QED
      BY <2>0, <2>4, <2>6, <3>1 DEF Belated, About, Ending, Stepped, Stepping, Busy, Round
  <2>7. CASE Stepping(s, r) /\ Got(s) /\ handler[s].got.refusal = "bonus_session_abandoned"
    BY <2>4, <2>7 DEF Belated, Stepping, Busy, Got
  <2> QED
    BY <2>4, <2>5, <2>6, <2>7
<1>4. PlayInv /\ FreshInv /\ [Next]_vars =>
        [\A c \in Page, b \in Round : Forgets(c, b) /\ bonuses[b].status = "active" =>
           b <= ui.givenUp \/ \E s \in Slot : handler'[s] # handler[s] /\ handler[s] # NoValue /\ Belated(handler[s])]_vars
  BY <1>3
<1> QED
  BY <1>1, <1>2, <1>4, PlayInvariant, PTL DEF Spec, OnlyGivenUpBonusesAreForgotten

-----------------------------------------------------------------------------
(* The bonus phase                                                         *)

\* A start that the page's handler waited for is answered: with a state of the
\* bonus, or an error.
LEMMA StartAnswered ==
  ASSUME TypeInv, LinkInv, NEW s \in Slot, SlotMoves(s), socket = "open", Handling("start"), ~Handling("start")'
  PROVE  \E i \in 1..Len(toClient') : i > Len(toClient) /\ toClient'[i].type \in {"BONUS_STEP_RESULT", "ERROR"}
<1>0. page' = page /\ link[page] = "open" /\ Len(toClient) \in Nat
  BY DEF SlotMoves, Elsewhere, LinkInv, TypeInv, TypeOK, WireTypeOK
<1>1. PICK t \in Slot : handler[t] # NoValue /\ handler[t].conn = page /\ handler[t].call = "start"
  BY DEF Handling
<1>2. t = s
  BY <1>0, <1>1, OtherRows DEF Handling
<1>3. Busy(s, "start") /\ handler[s].conn = page
  BY <1>1, <1>2 DEF Busy
<1>4. ~Refused /\ ~Dispatched(s)
  BY <1>0, <1>1, <1>2 DEF Refused, Dispatched, Handling
<1>5. ~IsServed(s)
  BY <1>0, <1>3, ServedKinds DEF StartServed, Fills, Handling
<1>6. ASSUME NEW m, Tells(page, m), m.type \in {"BONUS_STEP_RESULT", "ERROR"}
      PROVE  \E i \in 1..Len(toClient') : i > Len(toClient) /\ toClient'[i].type \in {"BONUS_STEP_RESULT", "ERROR"}
  <2>1. Len(toClient') = Len(toClient) + 1 /\ toClient'[Len(toClient) + 1] = m
    BY <1>0, <1>6 DEF Tells
  <2> QED
    BY <1>0, <1>6, <2>1
<1>7. ASSUME NEW m, NEW n, TellsBoth(page, m, n), m.type = "BONUS_STEP_RESULT"
      PROVE  \E i \in 1..Len(toClient') : i > Len(toClient) /\ toClient'[i].type \in {"BONUS_STEP_RESULT", "ERROR"}
  <2>1. Len(toClient') = Len(toClient) + 2 /\ toClient'[Len(toClient) + 1] = m
    BY <1>0, <1>7 DEF TellsBoth
  <2> QED
    BY <1>0, <1>7, <2>1
<1>8. CASE StartTold(s)
  <2> DEFINE state == [type |-> "BONUS_STEP_RESULT", module |-> bonuses[handler[s].arg.round].module,
                       done |-> handler[s].got.done, stepped |-> FALSE, of |-> handler[s].arg.round]
  <2>1. /\ state.type = "BONUS_STEP_RESULT"
        /\ Tells(page, state) \/ \E n : TellsBoth(page, state, n)
    BY <1>3, <1>8 DEF StartTold, StateTold
  <2> HIDE DEF state
  <2> QED
    BY <1>6, <1>7, <2>1
<1>9. CASE HasFailed(s)
  <2>1. Tells(page, Error("internal_error")) /\ Error("internal_error").type = "ERROR"
    BY <1>3, <1>9 DEF HasFailed, Error
  <2> QED
    BY <1>6, <2>1
<1>10. StartTold(s) \/ HasFailed(s)
  BY <1>3, <1>4, <1>5 DEF SlotMoves, Continues, HasJoined, IsRefused, BalanceTold, SpinTold, StepTold, Uses, Busy
<1> QED
  BY <1>8, <1>9, <1>10

LEMMA SlotsPhase ==
  ASSUME TypeInv, LinkInv, PhaseInv, NEW s \in Slot, SlotMoves(s)
  PROVE  PhaseInv'
<1>0. /\ UNCHANGED <<ui, socket, page, link>> /\ TypeOK /\ Len(toClient) \in Nat
      /\ toClient \in Seq(ServerToClientMessage) /\ page \in Page
  BY DEF SlotMoves, Elsewhere, clientVars, TypeInv, TypeOK, WireTypeOK
<1>1. Adds(SentBy(s))
  BY SlotSends
<1>2. \A i \in 1..Len(toClient) : i \in 1..Len(toClient') /\ toClient'[i] = toClient[i]
  BY <1>0, <1>1 DEF Adds
<1>3. ASSUME socket # "closed", BonusInSight
      PROVE  BonusInSight'
  <2>1. CASE Handling("start") /\ socket = "open"
    <3>1. Handling("start")' \/ \E i \in 1..Len(toClient') : toClient'[i].type \in {"BONUS_STEP_RESULT", "ERROR"}
      BY <2>1, StartAnswered
    <3> QED
      BY <3>1 DEF BonusInSight, Coming
  <2>2. CASE Handling("start") /\ socket = "connecting"
    BY <2>2 DEF Handling, LinkInv
  <2>3. CASE Coming("BONUS_STEP_RESULT") \/ Coming("ERROR")
    BY <1>2, <2>3 DEF Coming, BonusInSight
  <2>4. socket \in {"connecting", "open", "lost", "closed"}
    BY <1>0 DEF TypeOK, WireTypeOK
  <2> QED
    BY <1>0, <1>3, <2>1, <2>2, <2>3, <2>4 DEF BonusInSight
<1>4. ASSUME NEW i \in 1..Len(toClient'), toClient'[i].type = "SPIN_RESULT", toClient'[i].triggered # NoValue
      PROVE  Handling("start")' \/ \E j \in i..Len(toClient') : toClient'[j].type \in {"BONUS_STEP_RESULT", "ERROR"}
  <2>1. CASE i \in 1..Len(toClient)
    <3>1. toClient # <<>> /\ socket = "open"
      BY <1>0, <2>1 DEF LinkInv
    <3>2. \/ Handling("start")
          \/ \E j \in i..Len(toClient) : toClient[j].type \in {"BONUS_STEP_RESULT", "ERROR"}
      BY <1>2, <1>4, <2>1 DEF PhaseInv
    <3>3. \A j \in i..Len(toClient) : j \in 1..Len(toClient)
      BY <1>0, <2>1
    <3>4. \A j \in i..Len(toClient) : j \in i..Len(toClient') /\ toClient'[j] = toClient[j]
      BY <1>0, <1>2, <2>1, <3>3
    <3>5. CASE Handling("start")
      <4>1. \/ Handling("start")'
            \/ \E j \in 1..Len(toClient') : j > Len(toClient) /\ toClient'[j].type \in {"BONUS_STEP_RESULT", "ERROR"}
        BY <3>1, <3>5, StartAnswered
      <4>2. \A j \in 1..Len(toClient') : j > Len(toClient) => j \in i..Len(toClient')
        BY <1>0, <2>1
      <4> QED
        BY <4>1, <4>2
    <3> QED
      BY <3>2, <3>4, <3>5
  <2>2. CASE i \notin 1..Len(toClient)
    <3>1. toClient' \in Seq(ServerToClientMessage) /\ toClient'[i] \in ServerToClientMessage
      BY <1>1, ElementOfSeq DEF Adds
    <3>2. PICK r \in Round : IsResult(toClient'[i], r)
      BY <1>4, <3>1, MessageKinds DEF IsResult
    <3>3. SpinTold(s) /\ handler[s].got.triggered # NoValue
      BY <1>4, <2>2, <3>2, Sent
    <3>4. link[handler[s].conn] = "open" /\ handler[s].conn \in Page
      BY <1>0, <2>2, <3>3, RowKinds DEF SpinTold, TellsBoth, Uses, Busy
    <3>5. handler[s].conn = page
      BY <3>4 DEF LinkInv
    <3>6. handler'[s] # NoValue /\ handler'[s].conn = page /\ handler'[s].call = "start"
      BY <3>3, <3>5 DEF SpinTold, Sets
    <3> QED
      BY <1>0, <3>6 DEF Handling
  <2> QED
    BY <2>1, <2>2
<1> QED
  BY <1>0, <1>3, <1>4 DEF PhaseInv

LEMMA ReceivingPhase ==
  ASSUME TypeInv, PhaseInv, Receiving
  PROVE  PhaseInv'
<1> DEFINE m == toClient[1]
<1>0. /\ TypeOK /\ ui \in Ui /\ m \in ServerToClientMessage
      /\ socket = "open" /\ UNCHANGED <<page, socket, handler>>
  BY DEF TypeInv, TypeOK, ClientTypeOK, Receiving, Receives, serverVars
<1>1. \A i \in 1..Len(toClient') : toClient'[i] = toClient[i + 1] /\ i + 1 \in 1..Len(toClient)
  BY <1>0, TakesFirst
<1>2. \A j \in 1..Len(toClient) : j # 1 => j - 1 \in 1..Len(toClient') /\ toClient'[j - 1] = toClient[j]
  <2>1. Len(toClient') = Len(toClient) - 1 /\ Len(toClient) \in Nat
    BY <1>0, TakesOne DEF TypeOK, WireTypeOK, Receiving, Receives
  <2> QED
    BY <1>1, <2>1
<1>3. Handling("start")' <=> Handling("start")
  BY <1>0 DEF Handling
<1>4. ASSUME NEW i \in 1..Len(toClient'), toClient'[i].type = "SPIN_RESULT", toClient'[i].triggered # NoValue
      PROVE  Handling("start")' \/ \E j \in i..Len(toClient') : toClient'[j].type \in {"BONUS_STEP_RESULT", "ERROR"}
  <2>1. \/ Handling("start")
        \/ \E j \in (i + 1)..Len(toClient) : toClient[j].type \in {"BONUS_STEP_RESULT", "ERROR"}
    BY <1>1, <1>4 DEF PhaseInv
  <2>2. \A j \in (i + 1)..Len(toClient) : j - 1 \in i..Len(toClient') /\ toClient'[j - 1] = toClient[j]
    <3> SUFFICES ASSUME NEW j \in (i + 1)..Len(toClient)
                 PROVE  j - 1 \in i..Len(toClient') /\ toClient'[j - 1] = toClient[j]
      OBVIOUS
    <3>1. j \in 1..Len(toClient) /\ j # 1
      OBVIOUS
    <3> QED
      BY <1>2, <3>1
  <2> QED
    BY <1>3, <2>1, <2>2
<1>5. ASSUME NEW type, Coming(type), m.type # type
      PROVE  Coming(type)'
  BY <1>2, <1>5 DEF Coming
<1>6. ASSUME ui'.phase \in {"revealing", "skipped"} /\ ui'.reveal = "triggered" => BonusInSight',
             ui'.phase = "bonus" => BonusInSight' \/ ui'.late
      PROVE  PhaseInv'
  BY <1>0, <1>4, <1>6 DEF PhaseInv
<1>7. CASE TakesJoined(m) \/ TakesError(m)
  <2>1. ui'.phase \in {"idle", "spinning", "unrecoverable"}
    BY <1>7 DEF TakesJoined, TakesError, GivesUp, After
  <2> QED
    BY <1>6, <2>1
<1>8. CASE TakesResult(m)
  <2>1. ui'.phase = "revealing" /\ (ui'.reveal = "triggered" => m.triggered # NoValue)
    BY <1>0, <1>8 DEF TakesResult, After, Ui
  <2>2. ASSUME m.triggered # NoValue
        PROVE  BonusInSight'
    <3>1. 1 \in 1..Len(toClient) /\ m.type = "SPIN_RESULT"
      BY <1>0, <1>8, TakesFirst DEF TakesResult
    <3>2. \/ Handling("start")
          \/ \E j \in 1..Len(toClient) : toClient[j].type \in {"BONUS_STEP_RESULT", "ERROR"}
      BY <2>2, <3>1 DEF PhaseInv
    <3>3. Handling("start") \/ Coming("BONUS_STEP_RESULT") \/ Coming("ERROR")
      BY <3>2 DEF Coming
    <3> QED
      BY <1>3, <1>5, <3>1, <3>3 DEF BonusInSight
  <2> QED
    BY <1>6, <2>1, <2>2
<1>9. CASE TakesBalance(m)
  <2>1. m.type = "BALANCE_UPDATE" /\ ui' = [ui EXCEPT !.balance = m]
    BY <1>9 DEF TakesBalance
  <2>2. ui'.phase = ui.phase /\ ui'.reveal = ui.reveal /\ ui'.panel = ui.panel /\ ui'.late = ui.late
    BY <1>0, <2>1 DEF Ui
  <2>3. BonusInSight => BonusInSight'
    BY <1>0, <1>3, <1>5, <2>1, <2>2 DEF BonusInSight
  <2> QED
    BY <1>6, <2>2, <2>3 DEF PhaseInv
<1>10. CASE TakesState(m)
  BY <1>6, <1>10 DEF TakesState, BonusInSight
<1> QED
  BY <1>7, <1>8, <1>9, <1>10 DEF Receiving, Takes

LEMMA ActingPhase ==
  ASSUME TypeInv, PhaseInv, Acting
  PROVE  PhaseInv'
<1>0. /\ UNCHANGED <<page, socket, toClient, handler>> /\ ui \in Ui
      /\ ui'.panel = ui.panel => (BonusInSight => BonusInSight')
  BY DEF Acting, Still, serverVars, TypeInv, TypeOK, ClientTypeOK, BonusInSight, Handling, Coming
<1>1. \A i \in 1..Len(toClient') :
        toClient'[i].type = "SPIN_RESULT" /\ toClient'[i].triggered # NoValue =>
          Handling("start")' \/ \E j \in i..Len(toClient') : toClient'[j].type \in {"BONUS_STEP_RESULT", "ERROR"}
  BY <1>0 DEF PhaseInv, Handling
<1>2. CASE ui'.phase \in {"idle", "spinning", "offline", "unrecoverable"}
  BY <1>1, <1>2 DEF PhaseInv
<1>3. CASE GoesOn \/ Trips \/ HandsBack
  BY <1>2, <1>3 DEF GoesOn, Trips, GivesUp, HandsBack, After
<1>4. CASE Stopping
  <2>1. PICK late \in BOOLEAN :
          /\ After([ui EXCEPT !.reveal = "none", !.late = late], AfterReels(ui))
          /\ ui.phase \in {"revealing", "skipped"} \/ late
    BY <1>4 DEF Stopping
  <2> DEFINE s == [ui EXCEPT !.reveal = "none", !.late = late]
  <2>2. After(s, AfterReels(ui)) /\ s.late = late /\ s.panel = ui.panel
    BY <1>0, <2>1 DEF Ui
  <2> HIDE DEF s
  <2>3. CASE ui.reveal = "triggered"
    <3>1. ui'.phase = "bonus" /\ ui'.late = late /\ ui'.panel = ui.panel
      BY <2>2, <2>3 DEF AfterReels, After
    <3>2. late \/ (BonusInSight' /\ socket # "closed")
      BY <1>0, <2>1, <2>3, <3>1 DEF PhaseInv
    <3> QED
      BY <1>0, <1>1, <3>1, <3>2 DEF PhaseInv
  <2>4. CASE ui.reveal # "triggered"
    BY <1>2, <2>2, <2>4 DEF AfterReels, After
  <2> QED
    BY <2>3, <2>4
<1>5. CASE Stays
  <2>1. /\ ui'.reveal = ui.reveal /\ ui'.panel = ui.panel /\ ui'.late = ui.late
        /\ ui'.phase = ui.phase \/ (ui.phase = "revealing" /\ ui.reveal = "none" /\ ui'.phase = "skipped")
    BY <1>5 DEF Stays
  <2> QED
    BY <1>0, <1>1, <2>1 DEF PhaseInv
<1> QED
  BY <1>3, <1>4, <1>5 DEF Acting

LEMMA PhaseKept ==
  ASSUME TypeInv, LinkInv, JoinInv, PhaseInv, [Next]_vars
  PROVE  PhaseInv'
<1>0. TypeOK
  BY DEF TypeInv
<1>1. CASE Disconnects
  <2>1. ui'.phase = "offline" /\ UNCHANGED <<page, toClient, handler>>
    BY <1>1 DEF Disconnects, After, serverVars
  <2> QED
    BY <2>1 DEF PhaseInv, Handling
<1>2. ASSUME NEW s \in Slot, SlotMoves(s)
      PROVE  PhaseInv'
  BY <1>2, SlotsPhase
<1>3. CASE Connect
  <2>1. /\ socket = "connecting" /\ socket' = "open" /\ UNCHANGED <<page, toClient, handler, ui>>
    BY <1>3 DEF Connect, Accept, Open, serverVars, clientVars
  <2>2. ui.phase \in {"offline", "unrecoverable"}
    BY <2>1 DEF JoinInv, Untouched
  <2> QED
    BY <2>1, <2>2 DEF PhaseInv, Handling
<1>4. CASE Sweeping \/ UNCHANGED vars \/ (\E c \in Page : Closing(c))
  <2>1. UNCHANGED <<page, socket, toClient, handler, ui>>
    BY <1>4 DEF Sweeping, vars, Closing, OnClose, wireVars, serverVars, clientVars
  <2> QED
    BY <2>1 DEF PhaseInv, BonusInSight, Handling, Coming
<1>5. CASE Breaking
  <2>1. socket' = "lost" /\ toClient' = <<>> /\ ui' = ui
    BY <1>5 DEF Breaking, Break, clientVars
  <2>2. BonusInSight'
    BY <2>1 DEF BonusInSight
  <2> QED
    BY <2>1, <2>2 DEF PhaseInv
<1>6. CASE Crashing
  <2>1. /\ socket' = IF socket \in {"connecting", "open"} THEN "lost" ELSE socket
        /\ toClient' = <<>> /\ ui' = ui /\ socket \in {"connecting", "open", "lost", "closed"}
    BY <1>0, <1>6 DEF Crashing, SocketCrash, clientVars, TypeOK, WireTypeOK
  <2>2. socket' = "closed" \/ BonusInSight'
    BY <2>1 DEF BonusInSight
  <2> QED
    BY <2>1, <2>2 DEF PhaseInv
<1>7. CASE Leaves
  <2>1. ui'.phase = "offline" /\ toClient' = <<>>
    BY <1>7 DEF Leaves, Load, NewPage
  <2> QED
    BY <2>1 DEF PhaseInv
<1>8. CASE CannotStart
  <2>1. After(ui, "unrecoverable") /\ UNCHANGED <<page, toClient, handler>>
    BY <1>0, <1>8, FatalMoves DEF CannotStart, Fatal, serverVars
  <2>2. ui'.phase = "unrecoverable"
    BY <2>1 DEF After
  <2> QED
    BY <2>1, <2>2 DEF PhaseInv, Handling
<1> QED
  BY <1>1, <1>2, <1>3, <1>4, <1>5, <1>6, <1>7, <1>8, NextMoves, ActingPhase, ReceivingPhase DEF PageMove

\* The page does not wait for a bonus that will not come (main.ts 287-314), if
\* its reels stop before it leaves their reveal: a triggered spin is told with
\* its bonus, an error or the end of the connection to follow, from the wire
\* to the reveal to the phase.  Of reels that stop later nothing is shown.
THEOREM PlayBonusPhase == Spec => []BonusPhaseHasABonus
<1>1. Init => PlayInv /\ PhaseInv
  <2>1. Init => PhaseInv
    BY DEF Init, NewPage, PhaseInv
  <2> QED
    BY <2>1, InitType, InitPlay DEF PlayInv
<1>2. PlayInv /\ PhaseInv /\ [Next]_vars => (PlayInv /\ PhaseInv)'
  BY TypeKept, LinkKept, JoinKept, RoundsKept, PageKept, PhaseKept DEF PlayInv
<1>3. PhaseInv => BonusPhaseHasABonus
  BY DEF PhaseInv, BonusInSight, BonusPhaseHasABonus
<1> QED
  BY <1>1, <1>2, <1>3, PTL DEF Spec

-----------------------------------------------------------------------------
(* Balances                                                                *)

\* An answer about a kept round is about the last one, and there is no other.
LEMMA ReportsPending ==
  ASSUME NEW s \in Slot, NEW r, NEW b, Reports(s, r, b)
  PROVE  Pending(r)
BY DEF Reports, Pending, Asked, Starts, Ends, Ending

LEMMA OneReports ==
  ASSUME TypeInv, NEW r \in Round, RoundInv(r), NEW s \in Slot, NEW t \in Slot, NEW b, NEW c,
         Reports(s, r, b), Reports(t, r, c)
  PROVE  s = t
<1>1. \A u \in Slot : Spinning(u, r) => Asked(r) /\ ~Starts(r) /\ ~Opened(r)
  BY DEF RoundInv, OneStart, Asked
<1>2. \A u \in Slot : Starting(u, r) => Starts(r)
  BY DEF Starts
<1>3. \A u \in Slot : Stepped(u, r) => Opened(r) /\ ~Starts(r)
  BY DEF RoundInv, OneStart, Known, Stepped, TypeInv, OpenedInv
<1> QED
  BY <1>1, <1>2, <1>3 DEF Reports, RoundInv, OneSpin, OneStart, OneEnd, Ending

\* Nothing of a round that was not asked for.
LEMMA ReportsAsked ==
  ASSUME TypeInv, RoundsInv, NEW s \in Slot, NEW r \in Round, NEW b, Reports(s, r, b)
  PROVE  r <= spins
<1>0. spins \in Nat
  BY DEF TypeInv, TypeOK, ClientTypeOK
<1>1. RoundInv(r)
  BY DEF RoundsInv
<1>2. Asked(r) \/ Starts(r) \/ Opened(r)
  BY DEF Reports, Asked, Starts, Stepped, Known, TypeInv, OpenedInv
<1> QED
  BY <1>0, <1>1, <1>2 DEF RoundInv, Future, Round

\* The messages of a list that only moved up keep their order.
LEMMA BalanceShrinks ==
  ASSUME TypeInv, RoundsInv, BalanceInv, TypeOK',
         balance <= balance', spins <= spins', ui.givenUp <= ui'.givenUp, ui'.givenUp <= spins',
         \A s \in Slot : handler'[s] \in {handler[s], NoValue},
         NEW k \in Nat, \A i \in 1..Len(toClient') : i + k \in 1..Len(toClient) /\ toClient'[i] = toClient[i + k],
         \/ ui'.balance = ui.balance
         \/ k = 1 /\ toClient # <<>> /\ ui'.balance = toClient[1]
         \/ ui'.balance.balance = 0 /\ ui'.balance.of = NoValue
  PROVE  BalanceInv'
<1>0. /\ spins \in Nat /\ spins' \in Nat /\ ui.givenUp \in Nat /\ ui'.givenUp \in Nat
      /\ balance \in Nat /\ balance' \in Nat /\ Len(toClient) \in Nat /\ Len(toClient') \in Nat
      /\ ui'.balance \in BalanceMessage /\ ui.balance \in BalanceMessage
      /\ NoValue \notin Nat
  BY WireAssumption DEF TypeInv, TypeOK, ClientTypeOK, ServerTypeOK, WireTypeOK, Ui
<1>1. ASSUME NEW m \in Seen', IsTold(m)
      PROVE  m \in Seen \/ (m.balance = 0 /\ m.of = NoValue)
  <2>1. CASE m = ui'.balance
    <3>1. toClient # <<>> => 1 \in 1..Len(toClient)
      BY DEF TypeInv, TypeOK, WireTypeOK
    <3> QED
      BY <2>1, <3>1 DEF Seen
  <2>2. CASE \E i \in 1..Len(toClient') : m = toClient'[i]
    BY <2>2 DEF Seen
  <2> QED
    BY <1>1, <2>1, <2>2 DEF Seen
<1>2. ASSUME NEW m \in Seen, IsTold(m), IsBalance(m)'
      PROVE  IsBalance(m)
  BY <1>0, <1>2 DEF IsBalance, IsTold, Kept, BalanceInv
<1>3. \A m \in Seen' : IsTold(m) => m.balance <= balance' /\ (m.of # NoValue => m.of <= spins')
  <2> SUFFICES ASSUME NEW m \in Seen', IsTold(m)
               PROVE  m.balance <= balance' /\ (m.of # NoValue => m.of <= spins')
    OBVIOUS
  <2>1. CASE m \in Seen
    <3>1. m \in BalanceMessage
      <4>1. m = ui.balance \/ m \in ServerToClientMessage
        BY <2>1, ElementOfSeq DEF Seen, TypeInv, TypeOK, WireTypeOK
      <4> QED
        BY <1>0, <4>1, MessageKinds DEF IsTold
    <3>2. m.balance \in Nat /\ m.of \in Round \cup {NoValue}
      BY <3>1 DEF BalanceMessage
    <3> QED
      BY <1>0, <2>1, <3>2 DEF BalanceInv, Round
  <2>2. CASE m.balance = 0 /\ m.of = NoValue
    BY <1>0, <2>2
  <2> QED
    BY <1>1, <2>1, <2>2
<1>4. \A s \in Slot : (Busy(s, "balance") /\ Got(s))' => handler'[s].got <= balance'
  <2> SUFFICES ASSUME NEW s \in Slot, (Busy(s, "balance") /\ Got(s))'
               PROVE  handler'[s].got <= balance'
    OBVIOUS
  <2>1. handler'[s] = handler[s] /\ Busy(s, "balance") /\ Got(s)
    BY DEF Busy, Got
  <2>2. handler[s].got \in Nat
    BY <2>1, RowKinds DEF TypeInv, Busy, Got, Answers
  <2> QED
    BY <1>0, <2>1, <2>2 DEF BalanceInv
<1>5. ASSUME NEW s \in Slot, NEW r \in Round, NEW b \in Nat, Reports(s, r, b)'
      PROVE  b <= balance' /\ (r \in Kept' => \A m \in Seen' : IsBalance(m)' => m.balance <= b)
  <2>1. handler'[s] = handler[s] /\ Reports(s, r, b)
    BY <1>5 DEF Reports, Spinning, Starting, Stepped, Stepping, Busy, Got
  <2>2. b <= balance /\ (r \in Kept => \A m \in Seen : IsBalance(m) => m.balance <= b)
    BY <2>1 DEF BalanceInv
  <2>3. r \in Kept' => r \in Kept
    BY <1>0, <2>1, ReportsAsked DEF Kept, Round
  <2>4. ASSUME NEW m \in Seen', IsBalance(m)', r \in Kept'
        PROVE  m.balance <= b
    BY <1>0, <1>1, <1>2, <2>2, <2>3, <2>4 DEF IsTold, IsBalance
  <2> QED
    BY <1>0, <2>2, <2>4
<1>6. ASSUME NEW m \in Seen, NEW n \in Seen, Older(m, n), IsTold(m), IsTold(n), m.of \in Kept', n.of \in Kept'
      PROVE  m.balance <= n.balance
  BY <1>2, <1>6 DEF Older, IsTold, IsBalance
<1>7. \A i \in 1..Len(toClient) : toClient[i] \in Seen
  BY DEF Seen
<1>8. \A i, j \in 1..Len(toClient') : i <= j => Older(toClient[i], toClient[j])'
  <2> SUFFICES ASSUME NEW i \in 1..Len(toClient'), NEW j \in 1..Len(toClient'), i <= j
               PROVE  Older(toClient[i], toClient[j])'
    OBVIOUS
  <2>1. i + k <= j + k
    BY <1>0
  <2>2. Older(toClient[i + k], toClient[j + k])
    BY <2>1 DEF BalanceInv, Ordered
  <2> QED
    BY <1>6, <1>7, <2>2 DEF Older, IsBalance, IsTold
<1>9. \A i \in 1..Len(toClient') : Older(ui.balance, toClient[i])'
  <2> SUFFICES ASSUME NEW i \in 1..Len(toClient')
               PROVE  Older(ui.balance, toClient[i])'
    OBVIOUS
  <2>1. CASE ui'.balance = ui.balance
    <3>1. Older(ui.balance, toClient[i + k]) /\ ui.balance \in Seen
      BY DEF BalanceInv, Ordered, Seen
    <3> QED
      BY <1>6, <1>7, <2>1, <3>1 DEF Older, IsBalance, IsTold
  <2>2. CASE k = 1 /\ toClient # <<>> /\ ui'.balance = toClient[1]
    <3>1. 1 \in 1..Len(toClient) /\ 1 <= i + k
      BY <1>0, <2>2
    <3>2. Older(toClient[1], toClient[i + k])
      BY <3>1 DEF BalanceInv, Ordered
    <3> QED
      BY <1>6, <1>7, <2>2, <3>1, <3>2 DEF Older, IsBalance, IsTold
  <2>3. CASE ui'.balance.of = NoValue
    BY <1>0, <2>3 DEF Older, IsBalance, Kept
  <2> QED
    BY <2>1, <2>2, <2>3
<1> QED
  BY <1>3, <1>4, <1>5, <1>8, <1>9 DEF BalanceInv, Ordered

\* What the page does to the balance and to the rounds it kept.
LEMMA AfterBalance ==
  ASSUME TypeInv, NEW s \in Ui, NEW phase, After(s, phase), ui.givenUp <= s.givenUp, s.givenUp <= spins
  PROVE  ui'.balance = s.balance /\ spins <= spins' /\ ui.givenUp <= ui'.givenUp /\ ui'.givenUp <= spins'
<1>1. spins \in Nat /\ ui.givenUp \in Nat /\ s.givenUp \in Nat
  BY WireAssumption DEF TypeInv, TypeOK, ClientTypeOK, Ui
<1> QED
  BY <1>1 DEF After

LEMMA PageBalance ==
  ASSUME TypeInv, PageMove, ui.givenUp <= spins
  PROVE  /\ spins <= spins' /\ ui.givenUp <= ui'.givenUp /\ ui'.givenUp <= spins'
         /\ IF Receiving THEN ui'.balance \in {ui.balance, toClient[1]}
            ELSE ui'.balance = ui.balance /\ toClient' = toClient
<1>0. TypeOK /\ ui \in Ui /\ spins \in Nat /\ ui.givenUp \in Nat /\ spins \in 0..MaxSpins
  BY WireAssumption DEF TypeInv, TypeOK, ClientTypeOK, Ui
<1>1. ASSUME GivesUp
      PROVE  ui'.balance = ui.balance /\ spins <= spins' /\ ui.givenUp <= ui'.givenUp /\ ui'.givenUp <= spins'
  <2> DEFINE s == [ui EXCEPT !.givenUp = spins]
  <2>1. PICK phase \in {"idle", "unrecoverable"} : After(s, phase)
    BY <1>1 DEF GivesUp
  <2>2. s \in Ui /\ s.givenUp = spins /\ s.balance = ui.balance
    BY <1>0 DEF Ui
  <2> HIDE DEF s
  <2> QED
    BY <1>0, <2>1, <2>2, AfterBalance
<1>2. CASE Acting
  <2>1. toClient' = toClient /\ ~Receiving
    <3>1. toClient' = toClient
      BY <1>2 DEF Acting, Still
    <3>2. Receiving => Len(toClient') = Len(toClient) - 1 /\ Len(toClient) \in Nat
      BY <1>0, TakesOne DEF Receiving, Receives, TypeOK, WireTypeOK
    <3> QED
      BY <3>1, <3>2
  <2>2. CASE GoesOn
    BY <1>0, <2>1, <2>2, AfterBalance DEF GoesOn
  <2>3. CASE Trips
    BY <1>1, <2>1, <2>3 DEF Trips
  <2>4. CASE Stopping
    <3>1. PICK late \in BOOLEAN : After([ui EXCEPT !.reveal = "none", !.late = late], AfterReels(ui))
      BY <2>4 DEF Stopping
    <3> DEFINE s == [ui EXCEPT !.reveal = "none", !.late = late]
    <3>2. s \in Ui /\ s.givenUp = ui.givenUp /\ s.balance = ui.balance /\ After(s, AfterReels(ui))
      BY <1>0, <3>1 DEF Ui
    <3> HIDE DEF s
    <3> QED
      BY <1>0, <2>1, <3>2, AfterBalance
  <2>5. CASE Stays
    BY <1>0, <2>1, <2>5 DEF Stays
  <2>6. CASE HandsBack
    <3>1. /\ Hide(ui) \in Ui /\ Hide(ui).givenUp = ui.givenUp /\ Hide(ui).balance = ui.balance
          /\ After(Hide(ui), "idle")
      BY <1>0, <2>6 DEF HandsBack, Hide, Ui
    <3> QED
      BY <1>0, <2>1, <3>1, AfterBalance
  <2> QED
    BY <1>2, <2>2, <2>3, <2>4, <2>5, <2>6 DEF Acting
<1>3. CASE Disconnects
  <2>1. ~Receiving /\ toClient' = toClient /\ After(ui, "offline")
    BY <1>3 DEF Disconnects, Receiving, Receives
  <2> QED
    BY <1>0, <2>1, AfterBalance
<1>4. CASE Receiving
  <2> DEFINE m == toClient[1]
  <2>0. m \in ServerToClientMessage
    BY <1>4 DEF Receiving
  <2>1. CASE TakesJoined(m)
    <3> DEFINE s == [ui EXCEPT !.balance = m]
    <3>1. s \in Ui /\ s.givenUp = ui.givenUp /\ s.balance = m /\ After(s, "idle")
      BY <1>0, <2>0, <2>1, MessageKinds DEF TakesJoined, Ui
    <3> HIDE DEF s
    <3> QED
      BY <1>0, <1>4, <3>1, AfterBalance
  <2>2. CASE TakesResult(m)
    <3> DEFINE s == [ui EXCEPT !.reveal = IF m.triggered = NoValue THEN "plain" ELSE "triggered",
                               !.late = FALSE, !.givenUp = GivenUpBy(m)]
    <3>1. /\ s \in Ui /\ s.givenUp \in {ui.givenUp, spins} /\ s.balance = ui.balance
          /\ After(s, "revealing")
      BY <1>0, <2>2 DEF TakesResult, Ui, GivenUpBy
    <3> HIDE DEF s
    <3> QED
      BY <1>0, <1>4, <3>1, AfterBalance
  <2>3. CASE TakesBalance(m)
    <3>1. ui'.balance = m /\ ui'.givenUp = ui.givenUp /\ spins' = spins
      BY <1>0, <2>3 DEF TakesBalance, Ui
    <3> QED
      BY <1>0, <1>4, <3>1
  <2>4. CASE TakesState(m)
    BY <1>0, <1>4, <2>4 DEF TakesState, GivenUpBy
  <2>5. CASE TakesError(m)
    BY <1>1, <1>4, <2>5 DEF TakesError
  <2> QED
    BY <1>4, <2>1, <2>2, <2>3, <2>4, <2>5 DEF Receiving, Takes
<1> QED
  BY <1>2, <1>3, <1>4 DEF PageMove

LEMMA PagesBalance ==
  ASSUME TypeInv, RoundsInv, BalanceInv, PageMove
  PROVE  BalanceInv'
<1>0. /\ TypeOK' /\ balance' = balance /\ handler' = handler /\ balance \in Nat
      /\ toClient \in Seq(ServerToClientMessage)
  BY MovesKeep, MovesType DEF TypeInv, TypeOK, WireTypeOK, ServerTypeOK, serverVars, backendVars
<1>1. /\ spins <= spins' /\ ui.givenUp <= ui'.givenUp /\ ui'.givenUp <= spins'
      /\ IF Receiving THEN ui'.balance \in {ui.balance, toClient[1]}
         ELSE ui'.balance = ui.balance /\ toClient' = toClient
  BY PageBalance DEF BalanceInv
<1>2. balance <= balance' /\ \A s \in Slot : handler'[s] \in {handler[s], NoValue}
  BY <1>0
<1>3. CASE Receiving
  <2>1. /\ \A i \in 1..Len(toClient') : i + 1 \in 1..Len(toClient) /\ toClient'[i] = toClient[i + 1]
        /\ toClient # <<>> /\ 1 \in Nat
    BY <1>3, TakesFirst DEF TypeInv, Receiving, Receives
  <2> QED
    BY <1>0, <1>1, <1>2, <1>3, <2>1, BalanceShrinks
<1>4. CASE ~Receiving
  <2>1. 0 \in Nat /\ \A i \in 1..Len(toClient') : i + 0 \in 1..Len(toClient) /\ toClient'[i] = toClient[i + 0]
    BY <1>0, <1>1, <1>4
  <2> QED
    BY <1>0, <1>1, <1>2, <1>4, <2>1, BalanceShrinks
<1> QED
  BY <1>3, <1>4

LEMMA OthersBalance ==
  ASSUME TypeInv, TypeOK', RoundsInv, BalanceInv,
         Connect \/ Sweeping \/ Breaking \/ Crashing \/ Leaves \/ CannotStart \/ (\E c \in Page : Closing(c)) \/ UNCHANGED vars
  PROVE  BalanceInv'
<1>0. /\ TypeOK /\ balance \in Nat /\ ui \in Ui /\ toClient \in Seq(ServerToClientMessage) /\ 0 \in Nat
      /\ spins \in Nat /\ ui.givenUp \in Nat /\ ui.givenUp <= spins
  BY WireAssumption DEF TypeInv, TypeOK, WireTypeOK, ServerTypeOK, ClientTypeOK, Ui, BalanceInv
<1>1. ASSUME balance <= balance', spins' = spins, ui'.givenUp \in {ui.givenUp, spins},
             \A s \in Slot : handler'[s] \in {handler[s], NoValue},
             toClient' = toClient \/ toClient' = <<>>,
             ui'.balance = ui.balance \/ (ui'.balance.balance = 0 /\ ui'.balance.of = NoValue)
      PROVE  BalanceInv'
  <2>1. \A i \in 1..Len(toClient') : i + 0 \in 1..Len(toClient) /\ toClient'[i] = toClient[i + 0]
    BY <1>0, <1>1
  <2>2. spins <= spins' /\ ui.givenUp <= ui'.givenUp /\ ui'.givenUp <= spins'
    BY <1>0, <1>1
  <2> QED
    BY <1>0, <1>1, <2>1, <2>2, BalanceShrinks
<1>2. CASE Connect \/ Sweeping \/ Breaking \/ Crashing \/ (\E c \in Page : Closing(c)) \/ UNCHANGED vars
  <2>1. UNCHANGED <<ui, spins>> /\ (toClient' = toClient \/ toClient' = <<>>)
    BY <1>2 DEF Connect, Open, Accept, Sweeping, Breaking, Break, Crashing, SocketCrash, Closing, OnClose, vars, wireVars,
      serverVars, clientVars
  <2>2. balance <= balance'
    BY <1>0, <1>2 DEF Connect, Accept, Sweeping, Sweep, Breaking, Crashing, SocketCrash, Closing, OnClose, vars,
      serverVars, backendVars
  <2>3. \A s \in Slot : handler'[s] \in {handler[s], NoValue}
    BY <1>2 DEF Connect, Accept, Sweeping, Breaking, Crashing, SocketCrash, Closing, OnClose, vars, serverVars
  <2> QED
    BY <1>1, <2>1, <2>2, <2>3
<1>3. CASE Leaves
  <2>1. /\ UNCHANGED <<balance, handler, spins>> /\ toClient' = <<>>
        /\ ui' = NewPage
    BY <1>3 DEF Leaves, Load, serverVars, backendVars
  <2>2. ui'.givenUp = spins /\ ui'.balance.balance = 0 /\ ui'.balance.of = NoValue
    BY <2>1 DEF NewPage, Balance
  <2>3. balance <= balance'
    BY <1>0, <2>1
  <2> QED
    BY <1>1, <2>1, <2>2, <2>3
<1>4. CASE CannotStart
  <2>1. After(ui, "unrecoverable") /\ UNCHANGED <<toClient, handler, balance>>
    BY <1>0, <1>4, FatalMoves DEF CannotStart, Fatal, serverVars, backendVars
  <2>2. spins' = spins /\ ui'.givenUp = ui.givenUp /\ ui'.balance = ui.balance
    BY <2>1 DEF After
  <2>3. balance <= balance'
    BY <1>0, <2>1
  <2> QED
    BY <1>1, <2>1, <2>2, <2>3
<1> QED
  BY <1>2, <1>3, <1>4

\* A balance that a handler tells is one that it read, or the one its call
\* returned, and the handler is done with it.
LEMMA BalanceSent ==
  ASSUME TypeInv, NEW s \in Slot, SlotMoves(s), NEW i \in 1..Len(toClient'), i > Len(toClient), IsTold(toClient'[i])
  PROVE  /\ balance' = balance /\ ~(handler'[s] # NoValue /\ Got(s)')
         /\ \/ toClient'[i].of = NoValue /\ Busy(s, "balance") /\ Got(s) /\ toClient'[i].balance = handler[s].got
            \/ \E r \in Round : toClient'[i].of = r /\ Reports(s, r, toClient'[i].balance)
<1>0. TypeOK /\ Len(toClient) \in Nat
  BY DEF TypeInv, TypeOK, WireTypeOK
<1>1. ASSUME NEW c, NEW m, Tells(c, m), ~IsTold(m)
      PROVE  FALSE
  BY <1>0, <1>1, OldOrNew DEF Tells
<1>2. ASSUME NEW c, NEW m, NEW n, TellsBoth(c, m, n), ~IsTold(m)
      PROVE  toClient'[i] = n
  BY <1>0, <1>2, OldOrNew DEF TellsBoth
<1>3. ~Refused /\ ~IsRefused(s) /\ ~HasFailed(s)
  <2>1. \A code : ~IsTold(Error(code))
    BY DEF IsTold, Error
  <2> QED
    BY <1>1, <2>1 DEF Refused, IsRefused, HasFailed
<1>4. ~Dispatched(s) /\ ~IsServed(s) /\ ~HasJoined(s)
  <2>1. toClient' # toClient
    BY <1>0
  <2> QED
    BY <2>1 DEF Dispatched, IsServed, TokenServed, BalanceServed, SpinServed, StartServed, StepServed, Fills, HasJoined
<1>5. CASE BalanceTold(s)
  <2>1. toClient'[i] = Balance(handler[s].arg, handler[s].got, NoValue)
    BY <1>0, <1>5, OldOrNew DEF BalanceTold, Tells
  <2> QED
    BY <1>5, <2>1 DEF BalanceTold, Uses, Balance, Sets, backendVars
<1>6. CASE SpinTold(s)
  <2> DEFINE m == [type |-> "SPIN_RESULT", won |-> handler[s].got.won, triggered |-> handler[s].got.triggered,
                   of |-> handler[s].arg]
  <2>1. ~IsTold(m) /\ TellsBoth(handler[s].conn, m, Balance("BALANCE_UPDATE", handler[s].got.balanceAfter, handler[s].arg))
    BY <1>6 DEF SpinTold, IsTold
  <2>2. toClient'[i] = Balance("BALANCE_UPDATE", handler[s].got.balanceAfter, handler[s].arg)
    BY <1>2, <2>1
  <2>3. toClient'[i].of = handler[s].arg /\ toClient'[i].balance = handler[s].got.balanceAfter
    BY <2>2 DEF Balance
  <2>4. handler[s].arg \in Round /\ Spinning(s, handler[s].arg) /\ Got(s) /\ handler[s].got.refusal = NoValue
    BY <1>0, <1>6, RowKinds DEF SpinTold, Uses, Spinning, Busy
  <2>5. balance' = balance /\ ~(handler'[s] # NoValue /\ Got(s)')
    BY <1>6 DEF SpinTold, Uses, backendVars, Sets, Got
  <2> QED
    BY <2>3, <2>4, <2>5 DEF Reports
<1>7. ASSUME NEW r \in Round, NEW stepped, StateTold(s, r, stepped), (Starting(s, r) /\ Got(s)) \/ Stepped(s, r),
             balance' = balance
      PROVE  /\ balance' = balance /\ ~(handler'[s] # NoValue /\ Got(s)')
             /\ \E q \in Round : toClient'[i].of = q /\ Reports(s, q, toClient'[i].balance)
  <2> DEFINE m == [type |-> "BONUS_STEP_RESULT", module |-> bonuses[r].module, done |-> handler[s].got.done,
                   stepped |-> stepped, of |-> r]
  <2>1. ~IsTold(m)
    BY DEF IsTold
  <2>2. \/ Tells(handler[s].conn, m)
        \/ /\ TellsBoth(handler[s].conn, m, Balance("BALANCE_UPDATE", handler[s].got.balanceAfter, r))
           /\ handler[s].got.done /\ Sets(s, NoValue)
    BY <1>7 DEF StateTold
  <2> HIDE DEF m
  <2>3. /\ toClient'[i] = Balance("BALANCE_UPDATE", handler[s].got.balanceAfter, r)
        /\ handler[s].got.done /\ Sets(s, NoValue)
    BY <1>1, <1>2, <2>1, <2>2
  <2>4. toClient'[i].of = r /\ toClient'[i].balance = handler[s].got.balanceAfter
    BY <2>3 DEF Balance
  <2> QED
    BY <1>7, <2>3, <2>4 DEF Reports, Sets
<1>8. CASE StartTold(s)
  <2>1. handler[s].arg.round \in Round /\ Starting(s, handler[s].arg.round) /\ Got(s) /\ balance' = balance
    BY <1>0, <1>8, RowKinds DEF StartTold, Uses, Starting, Busy, backendVars
  <2> QED
    BY <1>7, <1>8, <2>1 DEF StartTold
<1>9. CASE StepTold(s)
  <2>1. handler[s].arg \in Round /\ Stepped(s, handler[s].arg) /\ balance' = balance
    BY <1>0, <1>9, RowKinds DEF StepTold, Uses, Stepped, Stepping, Busy, backendVars
  <2> QED
    BY <1>7, <1>9, <2>1 DEF StepTold
<1> QED
  BY <1>3, <1>4, <1>5, <1>6, <1>8, <1>9 DEF SlotMoves, Continues

\* An answer of game-backend comes with the balance after it.
LEMMA Answering ==
  ASSUME TypeInv, NEW s \in Slot, SlotMoves(s)
  PROVE  /\ balance <= balance'
         /\ \A t \in Slot, r \in Round, b \in Nat : Reports(t, r, b)' =>
              \/ handler'[t] = handler[t] /\ Reports(t, r, b)
              \/ b = balance' /\ toClient' = toClient
         /\ \A t \in Slot : (Busy(t, "balance") /\ Got(t))' =>
              handler'[t] = handler[t] \/ (handler'[t].got = balance /\ balance' = balance)
<1>0. TypeOK /\ balance \in Nat /\ NoValue \notin Nat
  BY WireAssumption DEF TypeInv, TypeOK, ServerTypeOK
<1>1. balance' \in {balance, balance + 1}
  BY DEF SlotMoves, Refused, Dispatched, IsServed, TokenServed, BalanceServed, SpinServed, StartServed, StepServed, Credits,
    Continues, HasJoined, IsRefused, BalanceTold, SpinTold, StartTold, StepTold, HasFailed, Uses, backendVars
<1>2. ASSUME NEW t \in Slot, handler'[t] # NoValue, Got(t)'
      PROVE  handler'[t] = handler[t] \/ (t = s /\ IsServed(s) /\ toClient' = toClient)
  <2>1. IsServed(s) => toClient' = toClient
    BY DEF IsServed, TokenServed, BalanceServed, SpinServed, StartServed, StepServed, Fills
  <2> QED
    BY <1>2, <2>1, OtherRows, OwnRow
<1>3. ASSUME NEW t \in Slot, NEW r \in Round, NEW b \in Nat, Reports(t, r, b)'
      PROVE  (handler'[t] = handler[t] /\ Reports(t, r, b)) \/ (b = balance' /\ toClient' = toClient)
  <2>1. handler'[t] # NoValue /\ Got(t)'
    BY <1>3 DEF Reports, Spinning, Starting, Stepped, Stepping, Busy
  <2>2. CASE handler'[t] = handler[t]
    BY <1>3, <2>2 DEF Reports, Spinning, Starting, Stepped, Stepping, Busy, Got
  <2>3. CASE t = s /\ IsServed(s) /\ toClient' = toClient
    <3>1. b # NoValue /\ b = handler'[s].got.balanceAfter
      BY <1>0, <1>3, <2>3 DEF Reports
    <3>2. CASE TokenServed(s) \/ BalanceServed(s)
      BY <1>3, <2>3, <3>2 DEF TokenServed, BalanceServed, Fills, Reports, Spinning, Starting, Stepped, Stepping, Busy
    <3>3. CASE SpinServed(s)
      BY <1>3, <2>3, <3>1, <3>3 DEF SpinServed, Fills, Reports, Spinning, Starting, Stepped, Stepping, Busy
    <3>4. CASE StartServed(s)
      BY <1>3, <2>3, <3>1, <3>4 DEF StartServed, Fills, Credits
    <3>5. CASE StepServed(s)
      BY <1>3, <2>3, <3>1, <3>5 DEF StepServed, Fills, Credits, Reports, Spinning, Starting, Stepped, Stepping, Busy
    <3> QED
      BY <2>3, <3>2, <3>3, <3>4, <3>5 DEF IsServed
  <2> QED
    BY <1>2, <2>1, <2>2, <2>3
<1>4. ASSUME NEW t \in Slot, (Busy(t, "balance") /\ Got(t))'
      PROVE  handler'[t] = handler[t] \/ (handler'[t].got = balance /\ balance' = balance)
  <2>1. CASE t = s /\ IsServed(s)
    BY <1>4, <2>1 DEF IsServed, TokenServed, BalanceServed, SpinServed, StartServed, StepServed, Fills, Busy, backendVars
  <2> QED
    BY <1>2, <1>4, <2>1 DEF Busy
<1> QED
  BY <1>0, <1>1, <1>3, <1>4

LEMMA SlotsBalance ==
  ASSUME TypeInv, TypeOK', RoundsInv, PageInv, BalanceInv, NEW s \in Slot, SlotMoves(s)
  PROVE  BalanceInv'
<1>0. /\ UNCHANGED <<ui, spins>> /\ TypeOK /\ spins \in Nat /\ ui.givenUp \in Nat /\ balance \in Nat /\ balance' \in Nat
      /\ Len(toClient) \in Nat /\ Len(toClient') \in Nat /\ ui.balance \in BalanceMessage /\ NoValue \notin Nat
      /\ toClient \in Seq(ServerToClientMessage) /\ toClient' \in Seq(ServerToClientMessage) /\ balance <= balance'
  BY WireAssumption, Answering DEF SlotMoves, Elsewhere, clientVars, TypeInv, TypeOK, WireTypeOK, ServerTypeOK, ClientTypeOK, Ui
<1>1. Adds(SentBy(s)) /\ \A i \in 1..Len(toClient) : i \in 1..Len(toClient') /\ toClient'[i] = toClient[i]
  BY <1>0, SlotSends DEF Adds
<1>2. Kept' = Kept /\ \A m : (IsBalance(m)' <=> IsBalance(m)) /\ (IsBalance(m) => IsTold(m) /\ m.of \in Kept /\ m.of # NoValue)
  BY <1>0 DEF Kept, IsBalance, IsTold
<1>3. ASSUME NEW m \in Seen'
      PROVE  m \in Seen \/ \E i \in 1..Len(toClient') : i > Len(toClient) /\ m = toClient'[i]
  BY <1>0, <1>1, <1>3, OldOrNew DEF Seen
<1>4. \A m \in Seen' : IsTold(m) => m \in BalanceMessage /\ m.balance \in Nat /\ m.of \in Round \cup {NoValue}
  <2> SUFFICES ASSUME NEW m \in Seen', IsTold(m)
               PROVE  m \in BalanceMessage
    BY DEF BalanceMessage
  <2>1. m = ui.balance \/ m \in ServerToClientMessage
    BY <1>0, ElementOfSeq DEF Seen
  <2> QED
    BY <1>0, <2>1, MessageKinds DEF IsTold
<1>5. ASSUME NEW m \in Seen', IsTold(m)
      PROVE  m.balance <= balance' /\ (m.of # NoValue => m.of <= spins)
  <2>1. CASE m \in Seen
    BY <1>0, <1>4, <1>5, <2>1 DEF BalanceInv
  <2>2. ASSUME NEW i \in 1..Len(toClient'), i > Len(toClient), m = toClient'[i]
        PROVE  m.balance <= balance' /\ (m.of # NoValue => m.of <= spins)
    <3>1. balance' = balance
      BY <1>5, <2>2, BalanceSent
    <3>2. CASE m.of = NoValue /\ Busy(s, "balance") /\ Got(s) /\ m.balance = handler[s].got
      BY <3>1, <3>2 DEF BalanceInv
    <3>3. ASSUME NEW r \in Round, m.of = r, Reports(s, r, m.balance)
          PROVE  m.balance <= balance' /\ m.of <= spins
      <4>1. m.balance \in Nat
        BY <1>4, <1>5
      <4> QED
        BY <3>1, <3>3, <4>1, ReportsAsked DEF BalanceInv
    <3> QED
      BY <1>5, <2>2, <3>2, <3>3, BalanceSent
  <2> QED
    BY <1>3, <2>1, <2>2
<1>6. \A t \in Slot : (Busy(t, "balance") /\ Got(t))' => handler'[t].got <= balance'
  <2> SUFFICES ASSUME NEW t \in Slot, (Busy(t, "balance") /\ Got(t))'
               PROVE  handler'[t].got <= balance'
    OBVIOUS
  <2>1. CASE handler'[t] = handler[t]
    <3>1. Busy(t, "balance") /\ Got(t)
      BY <2>1 DEF Busy, Got
    <3>2. handler[t].got \in Nat
      BY <1>0, <3>1, RowKinds DEF Busy, Got, Answers
    <3> QED
      BY <1>0, <2>1, <3>1, <3>2 DEF BalanceInv
  <2> QED
    BY <1>0, <2>1, Answering
\* A new balance of a kept round is no older than what is shown, and no newer
\* than any answer under way.
<1>7. ASSUME NEW i \in 1..Len(toClient'), i > Len(toClient), IsBalance(toClient'[i])
      PROVE  /\ Reports(s, spins, toClient'[i].balance) /\ spins \in Round /\ ~(handler'[s] # NoValue /\ Got(s)')
             /\ \A m \in Seen : IsBalance(m) => m.balance <= toClient'[i].balance
  <2> DEFINE n == toClient'[i]
  <2>1. IsTold(n) /\ n.of \in Kept /\ n.of # NoValue /\ n \in Seen'
    BY <1>2, <1>7 DEF Seen
  <2>2. n.balance \in Nat
    BY <1>4, <2>1
  <2>3. PICK r \in Round : n.of = r /\ Reports(s, r, n.balance)
    BY <1>7, <2>1, BalanceSent
  <2>4. r > ui.givenUp
    BY <1>0, <2>1, <2>3 DEF Kept, Round
  <2>5. r = spins
    BY <2>3, <2>4, ReportsPending, KeptIsLast
  <2>6. ~(handler'[s] # NoValue /\ Got(s)')
    BY <1>7, <2>1, BalanceSent
  <2> QED
    BY <2>1, <2>2, <2>3, <2>5, <2>6 DEF BalanceInv
<1>8. ASSUME NEW t \in Slot, NEW r \in Round, NEW b \in Nat, Reports(t, r, b)'
      PROVE  b <= balance' /\ (r \in Kept' => \A m \in Seen' : IsBalance(m)' => m.balance <= b)
  <2>1. CASE b = balance' /\ toClient' = toClient
    <3>1. \A m \in Seen' : IsTold(m) => m.balance <= balance'
      BY <1>5
    <3> QED
      BY <1>0, <1>2, <2>1, <3>1
  <2>2. CASE handler'[t] = handler[t] /\ Reports(t, r, b)
    <3>1. b <= balance /\ (r \in Kept => \A m \in Seen : IsBalance(m) => m.balance <= b)
      BY <2>2 DEF BalanceInv
    <3>2. ASSUME r \in Kept, NEW i \in 1..Len(toClient'), i > Len(toClient), IsBalance(toClient'[i])
          PROVE  FALSE
      <4>1. r > ui.givenUp
        BY <1>0, <3>2 DEF Kept, Round
      <4>2. r = spins
        BY <2>2, <4>1, ReportsPending, KeptIsLast
      <4>3. Reports(s, r, toClient'[i].balance) /\ ~(handler'[s] # NoValue /\ Got(s)') /\ RoundInv(r)
        BY <1>7, <3>2, <4>2 DEF RoundsInv
      <4>4. t = s
        BY <2>2, <4>3, OneReports
      <4>5. handler'[t] # NoValue /\ Got(t)'
        BY <1>8 DEF Reports, Spinning, Starting, Stepped, Stepping, Busy
      <4> QED
        BY <4>3, <4>4, <4>5
    <3>3. ASSUME r \in Kept, NEW m \in Seen', IsBalance(m)
          PROVE  m.balance <= b
      BY <1>3, <3>1, <3>2, <3>3
    <3> QED
      BY <1>0, <1>2, <3>1, <3>3
  <2> QED
    BY <1>8, <2>1, <2>2, Answering
<1>9. \A i \in 1..Len(toClient) : toClient[i] \in Seen
  BY DEF Seen
<1>10. ASSUME NEW i \in 1..Len(toClient'), NEW j \in 1..Len(toClient'), i <= j, IsBalance(toClient'[i]), IsBalance(toClient'[j])
       PROVE  toClient'[i].balance <= toClient'[j].balance
  <2>1. CASE j \in 1..Len(toClient)
    <3>1. i \in 1..Len(toClient)
      BY <1>0, <1>10, <2>1
    <3>2. Older(toClient[i], toClient[j])
      BY <1>10, <2>1, <3>1 DEF BalanceInv, Ordered
    <3> QED
      BY <1>1, <1>10, <2>1, <3>1, <3>2 DEF Older
  <2>2. CASE j > Len(toClient) /\ i \in 1..Len(toClient)
    BY <1>1, <1>7, <1>9, <1>10, <2>2
  <2>3. CASE j > Len(toClient) /\ i > Len(toClient)
    <3>1. toClient'[i].balance = toClient'[j].balance
      BY <1>7, <1>10, <2>3 DEF Reports
    <3>2. toClient'[i].balance \in Nat
      BY <1>2, <1>4, <1>10 DEF Seen
    <3> QED
      BY <3>1, <3>2
  <2> QED
    BY <1>0, <2>1, <2>2, <2>3
<1>11. ASSUME NEW i \in 1..Len(toClient'), IsBalance(ui.balance), IsBalance(toClient'[i])
       PROVE  ui.balance.balance <= toClient'[i].balance
  <2>1. CASE i \in 1..Len(toClient)
    BY <1>1, <1>11, <2>1 DEF BalanceInv, Ordered, Older
  <2>2. CASE i > Len(toClient)
    BY <1>7, <1>11, <2>2 DEF Seen
  <2> QED
    BY <1>0, <2>1, <2>2
<1>12. Ordered'
  BY <1>0, <1>2, <1>10, <1>11 DEF Ordered, Older, IsBalance
<1> QED
  BY <1>0, <1>5, <1>6, <1>8, <1>12 DEF BalanceInv

LEMMA BalanceKept ==
  ASSUME PlayInv, BalanceInv, [Next]_vars
  PROVE  BalanceInv'
<1>1. TypeInv /\ TypeInv' /\ TypeOK' /\ RoundsInv /\ PageInv
  BY TypeKept DEF PlayInv, TypeInv
<1> QED
  BY <1>1, NextMoves, PagesBalance, SlotsBalance, OthersBalance

\* The balance on the page never goes back (the BALANCE_UPDATE of each answer,
\* session.ts 149, 203, 254): of the rounds the page kept only the last one has an
\* answer under way, it has one at most, and that answer is no older than
\* what the page shows or will.
THEOREM PlayBalances == Spec => []BalancesInOrder
<1>1. Init => PlayInv /\ BalanceInv
  <2> SUFFICES ASSUME Init
               PROVE  PlayInv /\ BalanceInv
    OBVIOUS
  <2>1. PlayInv
    BY InitType, InitPlay DEF PlayInv
  <2>2. ui.balance.balance = 0 /\ ui.balance.of = NoValue /\ ui.givenUp = 0 /\ spins = 0 /\ balance = 1
    BY DEF Init, NewPage, Balance
  <2>3. Seen = {ui.balance} /\ toClient = <<>>
    BY DEF Seen, Init
  <2>4. \A s \in Slot : handler[s] = NoValue
    BY DEF Init
  <2>5. Ordered
    BY <2>3 DEF Ordered
  <2> QED
    BY <2>1, <2>2, <2>3, <2>4, <2>5 DEF BalanceInv, Reports, Spinning, Starting, Stepped, Stepping, Busy
<1>2. PlayInv /\ BalanceInv /\ [Next]_vars => (PlayInv /\ BalanceInv)'
  BY TypeKept, LinkKept, JoinKept, RoundsKept, PageKept, BalanceKept DEF PlayInv
<1>3. ASSUME TypeInv, BalanceInv
      PROVE  BalancesInOrder
  <2>0. toClient \in Seq(ServerToClientMessage) /\ Len(toClient) \in Nat
    BY <1>3 DEF TypeInv, TypeOK, WireTypeOK
  <2>1. /\ DOMAIN Shown = 1..(Len(toClient) + 1)
        /\ Shown[1] = ui.balance /\ \A i \in 2..(Len(toClient) + 1) : Shown[i] = toClient[i - 1]
    BY <2>0 DEF Shown
  <2> SUFFICES ASSUME NEW i \in DOMAIN Shown, NEW j \in DOMAIN Shown, i <= j, IsBalance(Shown[i]), IsBalance(Shown[j])
               PROVE  Shown[i].balance <= Shown[j].balance
    BY DEF BalancesInOrder
  <2>2. CASE i = 1 /\ j = 1
    <3>1. ui.balance.balance \in Nat
      BY <1>3 DEF TypeInv, TypeOK, ClientTypeOK, Ui, BalanceMessage
    <3> QED
      BY <2>1, <2>2, <3>1
  <2>3. CASE i = 1 /\ j # 1
    <3>1. j - 1 \in 1..Len(toClient) /\ Shown[j] = toClient[j - 1] /\ Shown[i] = ui.balance
      BY <2>0, <2>1, <2>3
    <3> QED
      BY <1>3, <3>1 DEF BalanceInv, Ordered, Older
  <2>4. CASE i # 1
    <3>1. /\ i - 1 \in 1..Len(toClient) /\ j - 1 \in 1..Len(toClient) /\ i - 1 <= j - 1
          /\ Shown[i] = toClient[i - 1] /\ Shown[j] = toClient[j - 1]
      BY <2>0, <2>1, <2>4
    <3> QED
      BY <1>3, <3>1 DEF BalanceInv, Ordered, Older
  <2> QED
    BY <2>2, <2>3, <2>4
<1> QED
  BY <1>1, <1>2, <1>3, PTL DEF Spec, PlayInv
=============================================================================
