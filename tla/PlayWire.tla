------------------------------ MODULE PlayWire ------------------------------
(***************************************************************************)
(* The WebSocket between a game page (apps/game-frontend) and game-socket.  *)
(* A player loads up to MaxPages pages, one after the other; each opens one *)
(* connection, and the client never reconnects it.  Either direction keeps  *)
(* the order of its messages, and a lost connection loses the rest.         *)
(***************************************************************************)
EXTENDS Naturals, Sequences, FiniteSets

CONSTANTS MaxPages, MaxSpins, MaxFaults, Module, NoValue

ErrorCode ==
  {"token_already_used", "token_expired", "invalid_token", "internal_error", "rate_limited", "not_joined",
   "no_active_bonus", "invalid_bonus_action", "bonus_session_abandoned", "refused"}

ASSUME WireAssumption ==
  /\ MaxPages \in Nat \ {0} /\ MaxSpins \in Nat /\ MaxFaults \in Nat
  /\ Module \subseteq {"wheel", "pick", "freeSpins"}
  /\ NoValue \notin Nat /\ NoValue \notin ErrorCode

VARIABLES
  situation, \* bounds: pages, spins, modules, autoplay counts, breaks and crashes left
  page,      \* the page on screen: its connection has the same number
  link,      \* the connection as game-socket sees it
  socket,    \* the page's WebSocket as the page sees it
  toServer, toClient

Page == 1..MaxPages
Round == 1..MaxSpins

wireVars == <<situation, page, link, socket, toServer, toClient>>

Error(code) == [type |-> "ERROR", code |-> code]
\* No answer names its round.  "of" is history, for the properties: the round
\* that the answer is about, NoValue for a balance that was read.
Balance(type, b, of) == [type |-> type, balance |-> b, of |-> of]

BalanceMessage == [type : {"JOINED", "BALANCE_UPDATE"}, balance : Nat, of : Round \cup {NoValue}]

ServerToClientMessage ==
  {Error(code) : code \in ErrorCode}
  \cup BalanceMessage
  \cup [type : {"SPIN_RESULT"}, won : BOOLEAN, triggered : Module \cup {NoValue}, of : Round]
  \cup [type : {"BONUS_STEP_RESULT"}, module : Module, done : BOOLEAN, stepped : BOOLEAN, of : Round]

ClientToServerMessage ==
  [type : {"JOIN"}, token : Page] \cup [type : {"SPIN_REQUEST"}, round : Round] \cup {[type |-> "BONUS_STEP"]}

Bounds ==
  [pages : Page, spins : 0..MaxSpins, modules : SUBSET Module, counts : SUBSET Nat,
   breaks : 0..MaxFaults, crashes : 0..MaxFaults]

WireTypeOK ==
  /\ situation \in Bounds
  /\ page \in Page
  /\ link \in [Page -> {"none", "open", "lost", "closed"}]
  /\ socket \in {"connecting", "open", "lost", "closed"}
  /\ toServer \in Seq(ClientToServerMessage)
  /\ toClient \in Seq(ServerToClientMessage)

\* The connection breaks: neither end has noticed, what was under way is lost.
Break ==
  /\ socket \in {"connecting", "open"} /\ situation.breaks > 0
  /\ situation' = [situation EXCEPT !.breaks = @ - 1]
  /\ socket' = "lost"
  /\ link' = [link EXCEPT ![page] = IF @ = "open" THEN "lost" ELSE @]
  /\ toServer' = <<>> /\ toClient' = <<>>
  /\ UNCHANGED page
=============================================================================
