---------------------------- MODULE ConsoleCalls ----------------------------
(***************************************************************************)
(* The backoffice page and its calls of backoffice-api.                    *)
(*                                                                         *)
(* One page is open.  It shows the login screen or, within a session, the  *)
(* screen of its route; a screen's React state is the record "screen", and *)
(* "mount" tells its instances apart.  A call is served at some time after *)
(* it is sent, in any order and in one step, but for the handlers that     *)
(* store a draft: they read it first ("read") and write it later.  Answers *)
(* arrive in any order too.                                                *)
(***************************************************************************)
EXTENDS Integers, Sequences, FiniteSets

CONSTANTS
  Situation,    \* the situations a behaviour may start from
  SituationOf,  \* what each of them is
  NoValue

VARIABLES
  situation,    \* the situation of this behaviour
  acts,         \* how many things the user and the world have done
  sessions,     \* the sessions the server accepts
  session,      \* the session of the page: sessionToken, and App's user
  route,        \* App's route, which outlives a session
  screen,       \* the mounted screen
  mounts,       \* how many screens were mounted
  calls,        \* calls that are not answered yet, by number
  issued        \* how many calls were sent

pageVars == <<situation, acts, sessions, session, route, screen, mounts, calls, issued>>

The == SituationOf[situation]

\* The routes of App.
Routes == {"games", "game", "reports", "support", "operators", "users", "audit"}

ASSUME RouteAssumption == \A s \in Situation : {SituationOf[s].start} \cup SituationOf[s].routes \subseteq Routes

\* Something the user does, of which a situation allows only so many.
Act ==
  /\ acts < The.acts
  /\ acts' = acts + 1

Request(op, arg, mount) == [op |-> op, arg |-> arg, mount |-> mount]

\* request(): the call carries the session the page has when it is sent.
Sent(requests, as, before) ==
  [n \in before + 1 .. before + Len(requests) |->
     [op |-> requests[n - before].op, arg |-> requests[n - before].arg, mount |-> requests[n - before].mount,
      session |-> as, read |-> NoValue, reply |-> NoValue]]

\* Of the calls that wait for their answers, "others" stay and requests join.
Send(requests, as, others) ==
  LET sent == Sent(requests, as, issued) IN
  /\ issued' = issued + Len(requests)
  /\ calls' = [n \in others \cup DOMAIN sent |-> IF n \in others THEN calls[n] ELSE sent[n]]

\* The screen changes in place and sends calls.
Update(next, requests) ==
  /\ screen' = next
  /\ Send(requests, session, DOMAIN calls)
  /\ UNCHANGED <<situation, sessions, session, route, mounts>>

-----------------------------------------------------------------------------
(* The server's side                                                       *)

Viewers == {"operations", "viewer", "super_admin"}

\* requireRole of each route.
RolesFor(op) ==
  CASE op \in {"listGames", "getGame", "history"} -> {"game_designer"} \cup Viewers
    [] op \in {"createGame", "fromPublished", "saveDraft", "upload", "simulate", "publish"} ->
         {"game_designer", "super_admin"}
    [] op \in {"listOperators", "transactions", "summary", "csv", "lookup"} -> Viewers
    [] op \in {"createOperator", "updateOperator", "rotateSecret", "audit"} -> {"operations", "super_admin"}
    [] op \in {"listUsers", "createUser", "updateUser", "setPassword"} -> {"super_admin"}
    [] op \in {"login", "logout"} -> {"game_designer"} \cup Viewers

Waiting(n, ops) ==
  /\ n \in DOMAIN calls
  /\ calls[n].op \in ops
  /\ calls[n].reply = NoValue

\* A call a handler takes up: its session is good and its user may ask it.
Admitted(n, ops) ==
  /\ Waiting(n, ops)
  /\ calls[n].session \in sessions
  /\ The.role \in RolesFor(calls[n].op)

Reply(n, reply) ==
  /\ calls' = [calls EXCEPT ![n].reply = reply]
  /\ UNCHANGED <<situation, acts, session, route, screen, mounts, issued>>

Status(code) == [status |-> code]
Ok(body) == [status |-> 200, body |-> body]
Good(c) == c.reply.status = 200

\* The session hook and requireRole refuse a call before its handler runs.
Refusal(n) ==
  /\ n \in DOMAIN calls /\ calls[n].op # "login" /\ calls[n].read = NoValue /\ calls[n].reply = NoValue
  /\ IF calls[n].session \notin sessions THEN Reply(n, Status(401))
     ELSE The.role \notin RolesFor(calls[n].op) /\ Reply(n, Status(403))
  /\ UNCHANGED sessions

\* A call that does not reach the server, or that fails there.
Failure(n) ==
  /\ The.faults
  /\ Act
  /\ n \in DOMAIN calls /\ calls[n].reply = NoValue
  /\ calls' = [calls EXCEPT ![n].reply = Status(500)]
  /\ UNCHANGED <<situation, sessions, session, route, screen, mounts, issued>>

\* A login opens a session; which password is good is BackofficeAccounts'.
ServeLogin(n) ==
  /\ Waiting(n, {"login"})
  /\ sessions' = sessions \cup {n}
  /\ Reply(n, Ok(n))

\* A logout takes every session of the user away.
ServeLogout(n) ==
  /\ Admitted(n, {"logout"})
  /\ sessions' = {}
  /\ Reply(n, Status(200))

\* An administrator changes the user's roles or password.
Revoke ==
  /\ The.revokes
  /\ Act
  /\ sessions # {}
  /\ sessions' = {}
  /\ UNCHANGED <<situation, session, route, screen, mounts, calls, issued>>

-----------------------------------------------------------------------------
(* The page's side                                                         *)

\* The answer of a 401 ends the session the page has by now.
LosesSession(c) == c.reply.status = 401 /\ session # NoValue

LoginScreen(mount) == [name |-> "login", mount |-> mount, busy |-> FALSE]

Submit ==
  /\ Act
  /\ screen.name = "login" /\ ~screen.busy
  /\ Update([screen EXCEPT !.busy = TRUE], <<Request("login", NoValue, screen.mount)>>)

SignOut ==
  /\ Act
  /\ session # NoValue
  /\ Update(screen, <<Request("logout", NoValue, screen.mount)>>)
=============================================================================
