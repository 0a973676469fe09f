------------------------------ MODULE Platform ------------------------------
(***************************************************************************)
(* backoffice-api, integration-api and game-backend as the calls on their  *)
(* shared database: accounts, publishing and operators' access together.   *)
(***************************************************************************)
EXTENDS BackofficeAccounts, OperatorAccess

\* The label a handler starts at, once the session hook has let it in.
First ==
  [login |-> "lock", logout |-> "revoke", boot |-> "count_users",
   createUser |-> "target", updateUser |-> "target", setPassword |-> "set",
   createGame |-> "read", put |-> "read", upload |-> "read", clear |-> "read",
   fromPublished |-> "read", publish |-> "read", delete |-> "read",
   seed |-> "seed_live", spin |-> "load",
   createOperator |-> "read", updateOperator |-> "set", rotateSecret |-> "set",
   launch |-> "signature", join |-> "verify"]

\* The routes refuse a body that is not so, and those of the backoffice a call
\* without a session.
Fits(r) ==
  /\ r.op \in DOMAIN First
  /\ r.op \in {"login", "boot", "createUser", "updateUser", "setPassword"} => r.user \in User
  /\ r.op \in {"boot", "createUser", "setPassword"} => r.password \in Password
  /\ r.op = "createUser" => r.roles \subseteq RoleId
  /\ r.op = "updateUser" /\ "roles" \in DOMAIN r.patch => r.patch.roles \subseteq RoleId
  /\ r.op = "updateUser" /\ "active" \in DOMAIN r.patch => r.patch.active \in BOOLEAN
  /\ r.op \notin {"login", "boot", "seed", "spin", "launch", "join"} => "as" \in DOMAIN r
  /\ r.op \in {"createGame", "put", "upload", "clear", "fromPublished", "publish", "delete", "seed", "spin", "launch"}
       => r.game \in Game
  /\ r.op = "put" => r.patch \in Patch /\ r.removed \subseteq Field \ {"math"}
  /\ r.op \in {"upload", "clear"} => r.slot \in Slot
  /\ r.op = "publish" => r.force \in BOOLEAN
  /\ r.op \in {"createOperator", "updateOperator", "rotateSecret"} => r.operator \in Operator
  /\ r.op = "createOperator" => r.games \subseteq Game
  /\ r.op = "updateOperator" /\ "games" \in DOMAIN r.patch => r.patch.games \subseteq Game
  /\ r.op = "updateOperator" /\ "disabled" \in DOMAIN r.patch => r.patch.disabled \in BOOLEAN
  /\ r.op = "launch" => r.key \in Key /\ r.timestamp \in Nat

\* What the database holds at first: rows that the validators accept, a game
\* that was published without force, an administrator if there is a user, and
\* operators of which one may have the first key.
Begins(S) ==
  /\ S.users \in [User -> UserRow \cup {NoValue}]
  /\ (\E u \in User : S.users[u] # NoValue) => ActiveAdmins(S.users) # {}
  /\ S.draft # NoValue => S.draft \in Draft /\ "assets" \notin DOMAIN S.draft
  /\ S.live # NoValue =>
       /\ S.live \in LiveRow /\ "assets" \notin DOMAIN S.live.def
       /\ S.live.def["math"] \notin Broken \cup Drifting
  /\ S.operators \in [Operator -> OperatorRow \cup {NoValue}]
  /\ \A o, p \in Operator : S.operators[o] # NoValue /\ S.operators[p] # NoValue =>
       S.operators[o].key = FirstKey /\ o = p

ASSUME SituationsAssumption ==
  /\ NoValue \notin UserRow /\ NoValue \notin AttemptRow
  /\ NoValue \notin Draft /\ NoValue \notin LiveRow /\ NoValue \notin OperatorRow
  /\ NoValue \notin {"replace", "delete_versions", "seed_version", "duplicate_version"}
  /\ FirstKey \notin Call
  /\ \A s \in Situation :
       /\ Begins(SituationOf[s])
       /\ \A r \in SituationOf[s].requests : r # NoValue /\ Fits(r)

vars == <<callVars, accountVars, publishingVars, accessVars>>

-----------------------------------------------------------------------------
\* Everyone who is a user at first is logged in, since the clock's origin.
Init ==
  LET S == SituationOf[situation] IN
  /\ CallsInit
  /\ users = S.users
  /\ tokens = {[user |-> u, roles |-> S.users[u].roles, tokenVersion |-> S.users[u].tokenVersion,
                exp |-> SessionTtl, password |-> S.users[u].password] :
                 u \in {v \in User : S.users[v] # NoValue}}
  /\ attempts = [u \in User |-> NoValue]
  /\ failures = [u \in User |-> 0]
  /\ drafts = [g \in Game |-> S.draft]
  /\ live = [g \in Game |-> S.live]
  /\ versions = {Snapshot(g, S.live, FALSE, NoValue) : g \in {h \in Game : S.live # NoValue}}
  /\ bucket = {}
  /\ played = {}
  /\ operators = S.operators
  /\ signatures = {}
  /\ accepted = {}
  /\ launches = {}
  /\ usedTokens = {}
  /\ joined = {}

\* The account whose lockout is logged is the one that was attempted.
Actor(c) == IF request[c].op = "login" THEN request[c].user ELSE session[c].user

CallStep(c) ==
  \/ Arrive(c, tokens, First)
  \/ WriteAudit(c, Actor(c))
  \/ Crash(c)

Reap == (\E u \in User : ReapAttempts(u)) /\ UNCHANGED <<publishingVars, accessVars>>

ReapRecords ==
  /\ (\E s \in signatures : ReapSignature(s)) \/ (\E t \in usedTokens : ReapToken(t))
  /\ UNCHANGED <<accountVars, publishingVars>>

Next ==
  \/ \E c \in Call :
       \/ CallStep(c) /\ UNCHANGED <<accountVars, publishingVars, accessVars>>
       \/ (AuthHook(c, First) \/ AccountStep(c)) /\ UNCHANGED <<publishingVars, accessVars>>
       \/ PublishingStep(c) /\ UNCHANGED <<accountVars, accessVars>>
       \/ AccessStep(c) /\ UNCHANGED <<accountVars, publishingVars>>
  \/ Tick /\ UNCHANGED <<accountVars, publishingVars, accessVars>>
  \/ Reap
  \/ ReapRecords

Spec == Init /\ [][Next]_vars

-----------------------------------------------------------------------------
\* The collections hold what their validators and the routes let in.
TypeOK ==
  /\ situation \in Situation /\ now \in Nat
  /\ users \in [User -> UserRow \cup {NoValue}]
  /\ failures \in [User -> Nat]
  /\ attempts \in [User -> AttemptRow \cup {NoValue}]
  /\ drafts \in [Game -> Draft \cup {NoValue}]
  /\ live \in [Game -> LiveRow \cup {NoValue}]
  /\ \A v, w \in versions : v.game = w.game /\ v.version = w.version => v = w
  /\ bucket \subseteq Call /\ played \subseteq Game
  /\ operators \in [Operator -> OperatorRow \cup {NoValue}]
  /\ \A a \in accepted : a.call \in Call /\ a.at \in Nat
=============================================================================
