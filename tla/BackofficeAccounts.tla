------------------------- MODULE BackofficeAccounts -------------------------
(***************************************************************************)
(* backoffice-api's people: users and their roles, the login with its      *)
(* throttle, the session tokens, and the hook every other route passes.    *)
(* Passwords and tokens are values: hashing and signing are left out.      *)
(***************************************************************************)
EXTENDS ApiCalls

CONSTANTS
  Password,
  SessionTtl,     \* SESSION_TTL_MS, in the clock's units
  MaxAttempts,    \* LOGIN_MAX_ATTEMPTS
  LockoutTime,    \* LOGIN_LOCKOUT_MINUTES
  MaxLockoutTime, \* LOGIN_MAX_LOCKOUT_MINUTES
  AttemptWindow   \* LOGIN_ATTEMPT_WINDOW_MINUTES

ASSUME AccountsAssumption ==
  /\ SessionTtl \in Nat
  /\ MaxAttempts \in Nat \ {0}
  /\ LockoutTime \in Nat \ {0}
  /\ MaxLockoutTime \in Nat
  /\ LockoutTime <= MaxLockoutTime
  /\ AttemptWindow \in Nat

RoleId == {"super_admin", "game_designer", "operations", "viewer"}

AttemptRow ==
  [attempts : 0..(MaxAttempts - 1), consecutiveLockouts : Nat, lastAttemptAt : Nat, lockedUntil : Nat, expiresAt : Nat]

UserRow == [password : Password, roles : SUBSET RoleId, active : BOOLEAN, tokenVersion : Nat]

VARIABLES
  users,     \* the users collection
  tokens,    \* the session tokens issued; password is the one the login was given
  attempts,  \* the loginAttempts collection, by attempted address; 0 is a null lockedUntil
  failures   \* history: failures recorded against each address

accountVars == <<users, tokens, attempts, failures>>

-----------------------------------------------------------------------------
(* The session hook                                                        *)

\* requireRole: what each route allows besides super_admin.
Allowed(op) ==
  CASE op \in {"createUser", "updateUser", "setPassword"} -> {}
    [] op \in {"createGame", "put", "upload", "clear", "delete", "fromPublished", "publish"} -> {"game_designer"}
    [] op \in {"createOperator", "updateOperator", "rotateSecret"} -> {"operations"}
    [] op = "logout" -> RoleId

MayDo(roles, op) == "super_admin" \in roles \/ roles \cap Allowed(op) # {}

\* verifySession: the claims of a token that was signed, until it expires.
Verifies(token) == now <= token.exp

\* The hook compares the claims with the user as it is now.
Revoked(token) ==
  \/ ~Verifies(token)
  \/ users[token.user] = NoValue
  \/ ~users[token.user].active
  \/ users[token.user].tokenVersion # token.tokenVersion

AuthHook(c, first) ==
  /\ pc[c] = "hook"
  /\ IF Revoked(session[c]) THEN Answer(c, "unauthorized")
     ELSE IF ~MayDo(session[c].roles, request[c].op) THEN Answer(c, "forbidden")
     ELSE Goto(c, first[request[c].op], NoValue)
  /\ UNCHANGED accountVars

-----------------------------------------------------------------------------
(* The login and its throttle                                              *)

Smaller(a, b) == IF a <= b THEN a ELSE b
Larger(a, b) == IF a <= b THEN b ELSE a

\* The nth lockout in a row lasts twice as long as the one before, up to a cap.
LockoutDuration(n) == Smaller(LockoutTime * 2 ^ Larger(0, n - 1), MaxLockoutTime)

InForce(row, t) == row # NoValue /\ row.lockedUntil > t

CheckLock(c) ==
  /\ Asked(c, "lock", "login")
  /\ IF InForce(attempts[request[c].user], now)
     THEN Answer(c, "account_locked") ELSE Goto(c, "find", NoValue)
  /\ UNCHANGED accountVars

\* verifyPassword: a hash is that of one password.
PasswordMatches(row, password) == row.password = password

\* findUserByEmail and verifyPassword: the row is used as it was read here.
FindUser(c) ==
  LET row == users[request[c].user] IN
  /\ Asked(c, "find", "login")
  /\ IF row # NoValue /\ row.active /\ PasswordMatches(row, request[c].password)
     THEN Goto(c, "clear", row) ELSE Goto(c, "failed", row)
  /\ UNCHANGED accountVars

\* recordFailure reads the row, computes and writes it back unconditionally.
ReadAttempts(c) ==
  /\ Asked(c, "failed", "login")
  /\ Goto(c, "record", [row |-> attempts[request[c].user], known |-> seen[c] # NoValue])
  /\ UNCHANGED accountVars

\* Mutant: the attempts do not start again when the lock is applied.
KeptAttempts(count) == count

\* Mutant: the row is dated from the attempt alone.
ReapedAfterAttempt(lockedUntil) == now

\* The attempts start again the moment a lock is applied.
NextAttempts(count) == IF count >= MaxAttempts THEN 0 ELSE count

\* expiresAt, which feeds the TTL index.
ExpiresAt(lockedUntil) == Larger(now + AttemptWindow, lockedUntil)

AfterFailure(row) ==
  LET recent == row # NoValue /\ now - row.lastAttemptAt <= AttemptWindow
      count == (IF recent THEN row.attempts ELSE 0) + 1
      locked == count >= MaxAttempts
      before == IF row = NoValue THEN 0 ELSE row.consecutiveLockouts
      lockouts == IF locked THEN before + 1 ELSE before
      lockedUntil == IF locked THEN now + LockoutDuration(lockouts) ELSE 0
  IN  [attempts |-> NextAttempts(count), consecutiveLockouts |-> lockouts,
       lastAttemptAt |-> now, lockedUntil |-> lockedUntil, expiresAt |-> ExpiresAt(lockedUntil)]

RecordFailure(c) ==
  LET u == request[c].user
      next == AfterFailure(seen[c].row)
  IN
  /\ Asked(c, "record", "login")
  /\ attempts' = [attempts EXCEPT ![u] = next]
  /\ failures' = [failures EXCEPT ![u] = @ + 1]
  /\ IF InForce(next, now) /\ seen[c].known
     THEN Goto(c, "audit", NoValue) ELSE Answer(c, "invalid_credentials")
  /\ UNCHANGED <<users, tokens>>

\* Reset in place: an address without a row gets none.
ClearFailures(c) ==
  LET u == request[c].user IN
  /\ Asked(c, "clear", "login")
  /\ attempts' = IF attempts[u] = NoValue THEN attempts
                 ELSE [attempts EXCEPT ![u].attempts = 0, ![u].consecutiveLockouts = 0,
                                       ![u].lockedUntil = 0]
  /\ Goto(c, "sign", seen[c])
  /\ UNCHANGED <<users, tokens, failures>>

SignedFor(u, row) ==
  [user |-> u, roles |-> row.roles, tokenVersion |-> row.tokenVersion,
   exp |-> now + SessionTtl, password |-> row.password]

\* Mutant: the claims are those of the user as it is by now.
SignTheLatest(c) ==
  [SignedFor(request[c].user, seen[c]) EXCEPT !.tokenVersion = users[request[c].user].tokenVersion]

Claims(c) == SignedFor(request[c].user, seen[c])

SignSession(c) ==
  /\ Asked(c, "sign", "login")
  /\ tokens' = tokens \cup {Claims(c)}
  /\ Answer(c, "token")
  /\ UNCHANGED <<users, attempts, failures>>

\* The TTL monitor deletes a row whose date is past, some time after it is.
ReapAttempts(u) ==
  /\ attempts[u] # NoValue
  /\ attempts[u].expiresAt <= now
  /\ attempts' = [attempts EXCEPT ![u] = NoValue]
  /\ UNCHANGED <<users, tokens, failures>>
  /\ UNCHANGED callVars

-----------------------------------------------------------------------------
(* The users                                                               *)

NewRow(password, roles) ==
  [password |-> password, roles |-> roles, active |-> TRUE, tokenVersion |-> 0]

Inserted(c, u, row) ==
  /\ IF users[u] # NoValue THEN Answer(c, "duplicate_key") /\ UNCHANGED users
     ELSE users' = [users EXCEPT ![u] = row] /\ Goto(c, "audit", NoValue)
  /\ UNCHANGED <<tokens, attempts, failures>>

\* seedInitialAdmin, by every process that starts: count, then insert.
CountUsers(c) ==
  /\ Asked(c, "count_users", "boot")
  /\ IF \E u \in User : users[u] # NoValue THEN Answer(c, "not_seeded") ELSE Goto(c, "insert", NoValue)
  /\ UNCHANGED accountVars

SeedAdmin(c) ==
  /\ Asked(c, "insert", "boot")
  /\ IF users[request[c].user] # NoValue THEN Answer(c, "duplicate_key") /\ UNCHANGED users
     ELSE /\ users' = [users EXCEPT ![request[c].user] = NewRow(request[c].password, {"super_admin"})]
          /\ Answer(c, "seeded")
  /\ UNCHANGED <<tokens, attempts, failures>>

CheckEmail(c) ==
  /\ Asked(c, "target", "createUser")
  /\ IF users[request[c].user] # NoValue
     THEN Answer(c, "email_already_registered") ELSE Goto(c, "insert", NoValue)
  /\ UNCHANGED accountVars

CreateUser(c) ==
  /\ Asked(c, "insert", "createUser")
  /\ Inserted(c, request[c].user, NewRow(request[c].password, request[c].roles))

ActiveAdmins(rows) == {u \in User : rows[u] # NoValue /\ rows[u].active /\ "super_admin" \in rows[u].roles}

\* Mutant: only a deactivation is seen as the loss of an administrator.
LosesActiveOnly(target, patch) ==
  /\ "super_admin" \in target.roles
  /\ "active" \in DOMAIN patch /\ ~patch.active

LosesAdmin(target, patch) ==
  /\ "super_admin" \in target.roles
  /\ \/ "roles" \in DOMAIN patch /\ "super_admin" \notin patch.roles
     \/ "active" \in DOMAIN patch /\ ~patch.active

ReadTarget(c) ==
  LET r == request[c]
      target == users[r.user]
  IN
  /\ Asked(c, "target", "updateUser")
  /\ IF target = NoValue THEN Answer(c, "user_not_found")
     ELSE IF "active" \in DOMAIN r.patch /\ ~r.patch.active /\ r.user = session[c].user
          THEN Answer(c, "cannot_deactivate_self")
     ELSE IF LosesAdmin(target, r.patch) THEN Goto(c, "count", NoValue)
     ELSE Goto(c, "update", NoValue)
  /\ UNCHANGED accountVars

CountAdmins(c) ==
  /\ Asked(c, "count", "updateUser")
  /\ IF ActiveAdmins(users) \ {request[c].user} = {}
     THEN Answer(c, "last_super_admin") ELSE Goto(c, "update", NoValue)
  /\ UNCHANGED accountVars

\* Mutant: the change leaves the sessions that are out there alone.
PatchedQuietly(row, patch) ==
  [row EXCEPT !.roles = IF "roles" \in DOMAIN patch THEN patch.roles ELSE @,
              !.active = IF "active" \in DOMAIN patch THEN patch.active ELSE @]

\* updateUser: one atomic update; a patch without fields changes nothing.
Patched(row, patch) ==
  IF DOMAIN patch = {} THEN row
  ELSE [row EXCEPT !.roles = IF "roles" \in DOMAIN patch THEN patch.roles ELSE @,
                   !.active = IF "active" \in DOMAIN patch THEN patch.active ELSE @,
                   !.tokenVersion = @ + 1]

UpdateUser(c) ==
  LET r == request[c] IN
  /\ Asked(c, "update", "updateUser")
  /\ users' = [users EXCEPT ![r.user] = Patched(@, r.patch)]
  /\ Goto(c, "audit", NoValue)
  /\ UNCHANGED <<tokens, attempts, failures>>

SetPassword(c) ==
  LET u == request[c].user IN
  /\ Asked(c, "set", "setPassword")
  /\ IF users[u] = NoValue THEN Answer(c, "user_not_found") /\ UNCHANGED users
     ELSE /\ users' = [users EXCEPT ![u].password = request[c].password, ![u].tokenVersion = @ + 1]
          /\ Goto(c, "audit", NoValue)
  /\ UNCHANGED <<tokens, attempts, failures>>

\* Logging out revokes every session of the user.
Logout(c) ==
  /\ Asked(c, "revoke", "logout")
  /\ users' = [users EXCEPT ![session[c].user].tokenVersion = @ + 1]
  /\ Goto(c, "audit", NoValue)
  /\ UNCHANGED <<tokens, attempts, failures>>

-----------------------------------------------------------------------------
AccountStep(c) ==
  \/ CheckLock(c) \/ FindUser(c) \/ ReadAttempts(c) \/ RecordFailure(c) \/ ClearFailures(c) \/ SignSession(c)
  \/ CountUsers(c) \/ SeedAdmin(c) \/ CheckEmail(c) \/ CreateUser(c)
  \/ ReadTarget(c) \/ CountAdmins(c) \/ UpdateUser(c) \/ SetPassword(c) \/ Logout(c)

\* A session that the hook still accepts carries the roles its user has now,
\* and comes from a login with the password its user has now: whatever changes
\* either also revokes the sessions issued before, even one a slow login signs
\* after the change.
SessionsAreCurrent ==
  \A t \in tokens : ~Revoked(t) =>
    t.roles = users[t.user].roles /\ t.password = users[t.user].password

\* Once the backoffice has users, one of them is an active super admin.  Only
\* two changes of users that overlap can take the last one away: each counts
\* the administrators before the other's update.
AnAdminRemains ==
  (\A c, d \in Call : Overlap(c, d) =>
     ~(request[c].op \in {"updateUser"} /\ request[d].op \in {"updateUser"}))
  => ((\E u \in User : users[u] # NoValue) => ActiveAdmins(users) # {})

\* Every lockout in a row took MaxAttempts failures of its own: failures that
\* race lose counts, but no account is locked, or locked for longer, for less.
LockoutsAreEarned ==
  \A u \in User : attempts[u] # NoValue =>
    attempts[u].consecutiveLockouts * MaxAttempts + attempts[u].attempts <= failures[u]

\* A lock in force ends early only when a login succeeds, or when the failures
\* of two logins overlapped and the older read is written last.  The TTL never
\* ends one.
LocksHold ==
  [][\A u \in User :
       InForce(attempts[u], now') /\ ~InForce(attempts'[u], now') =>
         \E c \in Call :
           /\ pc[c] # pc'[c]
           /\ request[c].op = "login" /\ request[c].user = u
           /\ \/ pc[c] = "clear"
              \/ \E d \in during[c] : request[d].op = "login" /\ request[d].user = u]_<<callVars, accountVars>>
=============================================================================
