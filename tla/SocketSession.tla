---------------------------- MODULE SocketSession ----------------------------
(***************************************************************************)
(* game-socket: the session of each connection and the handlers of its      *)
(* messages, which run concurrently (server.ts does not wait for one before *)
(* it starts the next), over game-backend as MoneyPath and BonusSession     *)
(* show it: a spin commits once, a bonus is started once per round, a step  *)
(* is claimed once, the sweep closes what is left.                          *)
(* A balance is the number of changes it has seen; a round's bonus has the  *)
(* round's number; a launch token has the number of the page it opens.      *)
(***************************************************************************)
EXTENDS PlayWire

CONSTANTS Steps, Slot

\* What a call of game-backend answers.
SpinAnswer ==
  [refusal : {"refused"}]
  \cup [refusal : {NoValue}, won : BOOLEAN, triggered : Module \cup {NoValue}, balanceAfter : Nat]
BonusAnswer == [refusal : {NoValue}, done : BOOLEAN, balanceAfter : Nat \cup {NoValue}]
StepAnswer == [refusal : {"bonus_session_abandoned", "invalid_bonus_action"}] \cup BonusAnswer

Session == [activeBonusSessionId : Round \cup {NoValue}]
Bonus == [module : Module, status : {"active", "resolved", "abandoned"}, left : 0..Steps]

\* A handler that waits for a call, and the answer if it is on the way.
Waits(call, arg, answer) == [conn : Page, call : {call}, arg : arg, got : answer \cup {NoValue}]
Handler ==
  Waits("consume", Page, BOOLEAN) \cup Waits("balance", {"JOINED", "BALANCE_UPDATE"}, Nat)
  \cup Waits("spin", Round, SpinAnswer) \cup Waits("start", [round : Round, module : Module], BonusAnswer)
  \cup Waits("step", Round, StepAnswer)

ASSUME SessionAssumption ==
  /\ Steps \in Nat \ {0} /\ Slot \subseteq Nat
  /\ NoValue \notin BOOLEAN \cup SpinAnswer \cup StepAnswer
  /\ NoValue \notin Handler \cup Bonus \cup Session

VARIABLES
  sessions,   \* the session of each connection
  handler,    \* what each of the concurrent handlers waits for
  usedTokens, balance, bonuses,   \* game-backend's
  overtaken   \* history: connections that closed while their JOIN was handled

serverVars == <<sessions, handler, usedTokens, balance, bonuses, overtaken>>
backendVars == <<usedTokens, balance, bonuses>>

ServerTypeOK ==
  /\ sessions \in [Page -> Session \cup {NoValue}]
  /\ handler \in [Slot -> Handler \cup {NoValue}]
  /\ usedTokens \subseteq Page
  /\ balance \in Nat
  /\ bonuses \in [Round -> Bonus \cup {NoValue}]
  /\ overtaken \subseteq Page

\* connection.send: nothing is sent to a socket that is not open.
Send(conn, messages) ==
  toClient' = IF link[conn] = "open" THEN toClient \o messages ELSE toClient

Await(s, conn, call, arg) == handler' = [handler EXCEPT ![s] = [conn |-> conn, call |-> call, arg |-> arg, got |-> NoValue]]
Finish(s) == handler' = [handler EXCEPT ![s] = NoValue]

Served(s, call) == handler[s] # NoValue /\ handler[s].call = call /\ handler[s].got = NoValue
Answered(s, call) == handler[s] # NoValue /\ handler[s].call = call /\ handler[s].got # NoValue
Result(s, result) == handler' = [handler EXCEPT ![s].got = result]

\* session.activeBonusSessionId of a session still in the map; a handler may
\* hold the session of a closed connection, which nobody reads again.
Remember(conn, bonus) ==
  sessions' = [sessions EXCEPT ![conn] = IF @ = NoValue THEN @ ELSE [activeBonusSessionId |-> bonus]]

----------------------------------------------------------------------------
\* The verdict on a message that needs no call of the backend, or NoValue.
Refusal(conn, message) ==
  LET session == sessions[conn] IN
  IF message.type = "JOIN" THEN NoValue
  ELSE IF session = NoValue THEN "not_joined"
  ELSE IF message.type = "BONUS_STEP" /\ session.activeBonusSessionId = NoValue THEN "no_active_bonus"
  ELSE NoValue

Dispatch(s, conn, message) ==
  CASE message.type = "JOIN" -> Await(s, conn, "consume", message.token)
    [] message.type = "SPIN_REQUEST" -> Await(s, conn, "spin", message.round)
    [] message.type = "BONUS_STEP" -> Await(s, conn, "step", sessions[conn].activeBonusSessionId)

\* The connection's message listener.  The limiter may refuse any message and
\* the verification of a launch token may find it expired or forged.
OnMessage(s) ==
  /\ link[page] = "open" /\ toServer # <<>> /\ handler[s] = NoValue
  /\ \A other \in Slot : handler[other] = NoValue => s <= other
  /\ toServer' = Tail(toServer)
  /\ LET message == Head(toServer)
         refusal == Refusal(page, message)
     IN \/ Send(page, <<Error("rate_limited")>>) /\ UNCHANGED handler
        \/ /\ message.type = "JOIN"
           /\ \E code \in {"token_expired", "invalid_token"} : Send(page, <<Error(code)>>)
           /\ UNCHANGED handler
        \/ /\ refusal # NoValue
           /\ Send(page, <<Error(refusal)>>) /\ UNCHANGED handler
        \/ /\ refusal = NoValue
           /\ Dispatch(s, page, message) /\ UNCHANGED toClient
  /\ UNCHANGED <<situation, page, link, socket, sessions, backendVars, overtaken>>

Accept ==
  /\ socket = "connecting" /\ link[page] = "none"
  /\ link' = [link EXCEPT ![page] = "open"]
  /\ UNCHANGED serverVars

\* Mutant: the entry of a closed connection stays in the map.
KeptSession(conn) == sessions

ForgottenSession(conn) == [sessions EXCEPT ![conn] = NoValue]

OnClose(conn) ==
  /\ link[conn] = "lost"
  /\ link' = [link EXCEPT ![conn] = "closed"]
  /\ sessions' = ForgottenSession(conn)
  /\ overtaken' = IF \E s \in Slot : handler[s] # NoValue /\ handler[s].conn = conn /\ handler[s].call = "consume"
                  THEN overtaken \cup {conn} ELSE overtaken
  /\ UNCHANGED <<situation, page, socket, toServer, toClient, handler, backendVars>>

----------------------------------------------------------------------------
\* game-backend serves a call; its answer is on the way.
ConsumeToken(s) ==
  /\ Served(s, "consume")
  /\ Result(s, handler[s].arg \notin usedTokens)
  /\ usedTokens' = usedTokens \cup {handler[s].arg}
  /\ UNCHANGED <<balance, bonuses>>

ReadBalance(s) ==
  /\ Served(s, "balance")
  /\ Result(s, balance)
  /\ UNCHANGED backendVars

\* The round is refused, or settled with or without a win and a bonus.
SpinRound(s) ==
  /\ Served(s, "spin")
  /\ \/ Result(s, [refusal |-> "refused"]) /\ UNCHANGED balance
     \/ /\ balance' = balance + 1
        /\ \E won \in BOOLEAN, triggered \in situation.modules \cup {NoValue} :
             Result(s, [refusal |-> NoValue, won |-> won, triggered |-> triggered, balanceAfter |-> balance + 1])
  /\ UNCHANGED <<usedTokens, bonuses>>

\* A finished bonus credits its win, if any, and returns the balance then.
Settled(s, finished, won) ==
  /\ balance' = IF finished /\ won THEN balance + 1 ELSE balance
  /\ Result(s, [refusal |-> NoValue, done |-> finished, balanceAfter |-> IF finished /\ won THEN balance + 1 ELSE NoValue])

StartBonus(s) ==
  /\ Served(s, "start")
  /\ LET round == handler[s].arg.round
         wheel == handler[s].arg.module = "wheel"
     IN /\ bonuses' = [bonuses EXCEPT ![round] =
                         [module |-> handler[s].arg.module, status |-> IF wheel THEN "resolved" ELSE "active",
                          left |-> IF wheel THEN 0 ELSE Steps]]
        /\ \E won \in BOOLEAN : (~wheel => ~won) /\ Settled(s, wheel, won)
  /\ UNCHANGED usedTokens

StepBonus(s) ==
  /\ Served(s, "step")
  /\ LET b == handler[s].arg
         bonus == bonuses[b]
     IN IF bonus.status # "active"
        THEN /\ Result(s, [refusal |-> IF bonus.status = "abandoned" THEN "bonus_session_abandoned"
                                               ELSE "invalid_bonus_action"])
             /\ UNCHANGED <<bonuses, balance>>
        ELSE /\ bonuses' = [bonuses EXCEPT ![b].left = @ - 1,
                                           ![b].status = IF bonus.left = 1 THEN "resolved" ELSE "active"]
             /\ \E won \in BOOLEAN : (bonus.left > 1 => ~won) /\ Settled(s, bonus.left = 1, won)
  /\ UNCHANGED usedTokens

\* The sweep closes an expired bonus and credits what it is worth.
Sweep ==
  /\ \E b \in Round :
       /\ bonuses[b] # NoValue /\ bonuses[b].status = "active"
       /\ bonuses' = [bonuses EXCEPT ![b].status = "abandoned"]
  /\ balance' = balance + 1
  /\ UNCHANGED usedTokens

Serve(s) ==
  /\ ConsumeToken(s) \/ ReadBalance(s) \/ SpinRound(s) \/ StartBonus(s) \/ StepBonus(s)
  /\ UNCHANGED <<wireVars, sessions, overtaken>>

----------------------------------------------------------------------------
\* A handler goes on with the answer it waited for.
OnConsumed(s) ==
  /\ Answered(s, "consume")
  /\ LET conn == handler[s].conn IN
     IF handler[s].got
     THEN /\ sessions' = [sessions EXCEPT ![conn] = [activeBonusSessionId |-> NoValue]]
          /\ Await(s, conn, "balance", "JOINED") /\ UNCHANGED toClient
     ELSE /\ Send(conn, <<Error("token_already_used")>>)
          /\ Finish(s) /\ UNCHANGED sessions

OnBalance(s) ==
  /\ Answered(s, "balance")
  /\ Send(handler[s].conn, <<Balance(handler[s].arg, handler[s].got, NoValue)>>)
  /\ Finish(s) /\ UNCHANGED sessions

OnSpun(s) ==
  /\ Answered(s, "spin")
  /\ LET conn == handler[s].conn
         got == handler[s].got
     IN IF got.refusal # NoValue
        THEN Send(conn, <<Error(got.refusal)>>) /\ Finish(s)
        ELSE /\ Send(conn, <<[type |-> "SPIN_RESULT", won |-> got.won, triggered |-> got.triggered, of |-> handler[s].arg],
                             Balance("BALANCE_UPDATE", got.balanceAfter, handler[s].arg)>>)
             /\ IF got.triggered = NoValue THEN Finish(s)
                ELSE Await(s, conn, "start", [round |-> handler[s].arg, module |-> got.triggered])
  /\ UNCHANGED sessions

\* What both bonus calls do with a bonus state: show it, then the balance.
ShowBonus(s, round, stepped) ==
  LET conn == handler[s].conn
      got == handler[s].got
      state == [type |-> "BONUS_STEP_RESULT", module |-> bonuses[round].module, done |-> got.done,
                stepped |-> stepped, of |-> round]
  IN IF got.done /\ got.balanceAfter = NoValue
     THEN Send(conn, <<state>>) /\ Await(s, conn, "balance", "BALANCE_UPDATE")
     ELSE Send(conn, IF got.done THEN <<state, Balance("BALANCE_UPDATE", got.balanceAfter, round)>> ELSE <<state>>) /\ Finish(s)

RememberStarted(conn, round, done) == IF done THEN UNCHANGED sessions ELSE Remember(conn, round)

OnStarted(s) ==
  /\ Answered(s, "start")
  /\ ShowBonus(s, handler[s].arg.round, FALSE)
  /\ RememberStarted(handler[s].conn, handler[s].arg.round, handler[s].got.done)

OnStepped(s) ==
  /\ Answered(s, "step")
  /\ LET conn == handler[s].conn
         got == handler[s].got
     IN IF got.refusal # NoValue
        THEN /\ Send(conn, <<Error(got.refusal)>>) /\ Finish(s)
             /\ IF got.refusal = "bonus_session_abandoned" THEN Remember(conn, NoValue) ELSE UNCHANGED sessions
        ELSE /\ ShowBonus(s, handler[s].arg, TRUE)
             /\ IF got.done THEN Remember(conn, NoValue) ELSE UNCHANGED sessions

Continue(s) ==
  /\ OnConsumed(s) \/ OnBalance(s) \/ OnSpun(s) \/ OnStarted(s) \/ OnStepped(s)
  /\ UNCHANGED <<situation, page, link, socket, toServer, backendVars, overtaken>>

\* Mutant: the failure is logged and the client told nothing.
FailQuietly(conn) == UNCHANGED toClient

TellFailure(conn) == Send(conn, <<Error("internal_error")>>)

\* The call of the backend fails, before or after the backend has done it.
BackendFails(s) ==
  /\ handler[s] # NoValue
  /\ TellFailure(handler[s].conn)
  /\ Finish(s)
  /\ UNCHANGED <<situation, page, link, socket, toServer, sessions, backendVars, overtaken>>

\* game-socket dies with its sessions and handlers and comes back empty.
SocketCrash ==
  /\ situation.crashes > 0
  /\ situation' = [situation EXCEPT !.crashes = @ - 1]
  /\ sessions' = [c \in Page |-> NoValue]
  /\ handler' = [s \in Slot |-> NoValue]
  /\ link' = [c \in Page |-> IF link[c] = "none" THEN "none" ELSE "closed"]
  /\ socket' = IF socket \in {"connecting", "open"} THEN "lost" ELSE socket
  /\ toServer' = <<>> /\ toClient' = <<>>
  /\ UNCHANGED <<page, backendVars, overtaken>>

ServerStep(s) == OnMessage(s) \/ Serve(s) \/ Continue(s)
=============================================================================
