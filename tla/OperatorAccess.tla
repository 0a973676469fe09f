--------------------------- MODULE OperatorAccess ---------------------------
(***************************************************************************)
(* How an operator's server gets a player into a game: the operators the   *)
(* backoffice keeps, the signature check of integration-api, the launch it *)
(* answers, and the one use game-backend allows of each launch token.      *)
(*                                                                         *)
(* A key is an apiKeyId with its secret: both are drawn by the call that   *)
(* makes them and replaced together.  A signed request is one value: two   *)
(* calls with the same request carry the same signature.                   *)
(***************************************************************************)
EXTENDS GamePublishing

CONSTANTS
  Operator,
  FirstKey,      \* the key an operator has before any rotation
  MaxSkew,       \* MAX_SKEW_MS
  NonceMargin,   \* NONCE_RETENTION_MARGIN_MS
  LaunchTtl      \* LAUNCH_TOKEN_TTL_MS

ASSUME AccessAssumption ==
  /\ MaxSkew \in Nat
  /\ NonceMargin \in Nat
  /\ LaunchTtl \in Nat

Key == Call \cup {FirstKey}
OperatorRow == [key : Key, games : SUBSET Game, disabled : BOOLEAN]

VARIABLES
  operators,     \* the operators collection
  signatures,    \* the usedRequestSignatures collection
  accepted,      \* history: the calls that the signature check let through, and when
                 \* each compared its timestamp with the clock and was recorded
  launches,      \* the launch tokens issued
  usedTokens,    \* the usedLaunchTokens collection
  joined         \* history: the players' sessions opened, with the token each one used,
                 \* and when it was verified and consumed

accessVars == <<operators, signatures, accepted, launches, usedTokens, joined>>

-----------------------------------------------------------------------------
(* The backoffice's operators                                              *)

CheckOperator(c) ==
  /\ Asked(c, "read", "createOperator")
  /\ IF operators[request[c].operator] # NoValue
     THEN Answer(c, "operator_already_exists") ELSE Goto(c, "insert", NoValue)
  /\ UNCHANGED accessVars

InsertOperator(c) ==
  LET r == request[c] IN
  /\ Asked(c, "insert", "createOperator")
  /\ IF operators[r.operator] # NoValue
     THEN Answer(c, "operator_already_exists") /\ UNCHANGED operators
     ELSE /\ operators' = [operators EXCEPT ![r.operator] =
                             [key |-> c, games |-> r.games, disabled |-> FALSE]]
          /\ Goto(c, "audit", NoValue)
  /\ UNCHANGED <<signatures, accepted, launches, usedTokens, joined>>

Updated(row, patch) ==
  [row EXCEPT !.games = IF "games" \in DOMAIN patch THEN patch.games ELSE @,
              !.disabled = IF "disabled" \in DOMAIN patch THEN patch.disabled ELSE @]

\* One atomic update, of the fields the patch names; one that names none is refused.
UpdateOperator(c) ==
  LET r == request[c] IN
  /\ Asked(c, "set", "updateOperator")
  /\ IF DOMAIN r.patch = {} THEN Answer(c, "nothing_to_update") /\ UNCHANGED operators
     ELSE IF operators[r.operator] = NoValue THEN Answer(c, "operator_not_found") /\ UNCHANGED operators
     ELSE /\ operators' = [operators EXCEPT ![r.operator] = Updated(@, r.patch)]
          /\ Goto(c, "audit", NoValue)
  /\ UNCHANGED <<signatures, accepted, launches, usedTokens, joined>>

RotateSecret(c) ==
  LET o == request[c].operator IN
  /\ Asked(c, "set", "rotateSecret")
  /\ IF operators[o] = NoValue THEN Answer(c, "operator_not_found") /\ UNCHANGED operators
     ELSE operators' = [operators EXCEPT ![o].key = c] /\ Goto(c, "audit", NoValue)
  /\ UNCHANGED <<signatures, accepted, launches, usedTokens, joined>>

-----------------------------------------------------------------------------
(* integration-api                                                         *)

Distance(a, b) == IF a <= b THEN b - a ELSE a - b

\* findOperatorByKeyId; apiKeyId is unique.
KeyOwners(key) == {o \in Operator : operators[o] # NoValue /\ operators[o].key = key}

\* The hook up to the signature: the timestamp, the operator that has the key,
\* whether it is disabled.  The operator found here is the one of the launch.
CheckSignature(c) ==
  LET r == request[c]
      owners == KeyOwners(r.key)
  IN
  /\ Asked(c, "signature", "launch")
  /\ IF Distance(now, r.timestamp) > MaxSkew THEN Answer(c, "timestamp_out_of_range")
     ELSE IF owners = {} THEN Answer(c, "unknown_api_key")
     ELSE LET o == CHOOSE o \in owners : TRUE IN
          IF operators[o].disabled THEN Answer(c, "operator_disabled")
          ELSE Goto(c, "nonce", [operator |-> o, checked |-> now])
  /\ UNCHANGED accessVars

\* Mutant: a record is kept for the margin alone.
KeptBriefly == now + NonceMargin

\* A record outlives the time for which its timestamp is accepted.
SignatureExpiry == now + MaxSkew + NonceMargin

SignatureRecord(o, r) == [operator |-> o, request |-> r, expireAt |-> SignatureExpiry]

\* The unique index on operator and signature: the insert itself is the check.
\* It is another await: the clock has run on, and is read again for the record.
RecordSignature(c) ==
  LET r == request[c]
      o == seen[c].operator
  IN
  /\ Asked(c, "nonce", "launch")
  /\ IF \E s \in signatures : s.operator = o /\ s.request = r
     THEN Answer(c, "replayed_request") /\ UNCHANGED <<signatures, accepted>>
     ELSE /\ signatures' = signatures \cup {SignatureRecord(o, r)}
          /\ accepted' = accepted \cup {[call |-> c, checked |-> seen[c].checked, at |-> now]}
          /\ Goto(c, "enabled", o)
  /\ UNCHANGED <<operators, launches, usedTokens, joined>>

CheckEnabled(c) ==
  LET row == operators[seen[c]] IN
  /\ Asked(c, "enabled", "launch")
  /\ IF row = NoValue \/ request[c].game \notin row.games
     THEN Answer(c, "game_not_enabled_for_operator") ELSE Goto(c, "published", seen[c])
  /\ UNCHANGED accessVars

\* signLaunchToken
LaunchToken(c) ==
  [jti |-> c, operator |-> seen[c], player |-> request[c].player, game |-> request[c].game, exp |-> now + LaunchTtl]

IssueLaunchToken(c) ==
  LET r == request[c] IN
  /\ Asked(c, "published", "launch")
  /\ IF live[r.game] = NoValue THEN Answer(c, "game_not_found") /\ UNCHANGED launches
     ELSE /\ launches' = launches \cup {LaunchToken(c)}
          /\ Answer(c, "launched")
  /\ UNCHANGED <<operators, signatures, accepted, usedTokens, joined>>

ReapSignature(s) ==
  /\ s.expireAt <= now
  /\ signatures' = signatures \ {s}
  /\ UNCHANGED <<operators, accepted, launches, usedTokens, joined>>
  /\ UNCHANGED callVars

-----------------------------------------------------------------------------
(* The launch token                                                        *)

\* verifyLaunchToken
Expired(token) == now > token.exp

\* A connection presents some token that was issued; game-socket verifies it.
PresentToken(c) ==
  /\ Asked(c, "verify", "join")
  /\ \E t \in launches :
       IF Expired(t) THEN Answer(c, "token_expired") ELSE Goto(c, "consume", [token |-> t, verified |-> now])
  /\ UNCHANGED accessVars

UsedToken(t) == [jti |-> t.jti, expireAt |-> t.exp]

\* consumeLaunchToken, in game-backend, which game-socket calls with a token it
\* has verified: the unique index on jti is the check, and exp is not looked at.
ConsumeToken(c) ==
  LET t == seen[c].token IN
  /\ Asked(c, "consume", "join")
  /\ IF \E u \in usedTokens : u.jti = t.jti
     THEN Answer(c, "launch_token_already_used") /\ UNCHANGED <<usedTokens, joined>>
     ELSE /\ usedTokens' = usedTokens \cup {UsedToken(t)}
          /\ joined' = joined \cup {[call |-> c, token |-> t, verified |-> seen[c].verified, at |-> now]}
          /\ Answer(c, "joined")
  /\ UNCHANGED <<operators, signatures, accepted, launches>>

\* The TTL monitor may come by at the date, or at any time after it.
ReapToken(u) ==
  /\ u.expireAt <= now
  /\ usedTokens' = usedTokens \ {u}
  /\ UNCHANGED <<operators, signatures, accepted, launches, joined>>
  /\ UNCHANGED callVars

-----------------------------------------------------------------------------
AccessStep(c) ==
  \/ CheckOperator(c) \/ InsertOperator(c) \/ UpdateOperator(c) \/ RotateSecret(c)
  \/ CheckSignature(c) \/ RecordSignature(c) \/ CheckEnabled(c) \/ IssueLaunchToken(c)
  \/ PresentToken(c) \/ ConsumeToken(c)

\* The clock that dated the request was ahead of ours by the margin or more.
Ahead(a) == request[a.call].timestamp - a.at >= NonceMargin

\* A check that passed and an insert between which a date went by: the last at
\* which the timestamp is accepted, or the token's exp.
StalledPast(date, checked, inserted) == checked <= date /\ date < inserted

\* A retry or a copy of a signed request is refused for as long as its timestamp
\* is accepted, although its record is reaped: it is served again only if the
\* operator's clock is ahead by the margin, or if the copy was compared with the
\* clock in time and then stalled, until that time was over, before its insert.
\* A launch token, however its uses race, opens a second session only if that
\* use was verified by exp and consumed at exp or later: the record of the first
\* one ends at exp, without a margin, and its consumer looks at no date.
CredentialsAreUsedOnce ==
  /\ \A a, b \in accepted :
       a # b /\ request[a.call] = request[b.call] /\ a.at <= b.at =>
         Ahead(a) \/ StalledPast(request[b.call].timestamp + MaxSkew, b.checked, b.at)
  /\ \A j, k \in joined :
       j # k /\ j.token = k.token /\ j.at <= k.at => k.verified <= k.token.exp /\ k.token.exp <= k.at
=============================================================================
