---------------------------- MODULE PlatformProofs ----------------------------
(***************************************************************************)
(* A session that the hook accepts is current, and a credential is used    *)
(* once, for any users, operators, calls, clocks and situations.           *)
(*                                                                         *)
(* The first argument is about versions: what a token, or a login that is  *)
(* under way, knows of a user is not newer than the user's row, and says   *)
(* what the row says when it is as new.  The second is about what is       *)
(* remembered: a signature, or the use of a token, stays recorded for as   *)
(* long as a copy of it would be accepted.                                 *)
(***************************************************************************)
EXTENDS Platform, TLAPS

\* What was read of a user: an older version of the row, or what it is now.
Current(u, row) ==
  /\ u \in User
  /\ users[u] # NoValue
  /\ row.tokenVersion \in Nat
  /\ row.tokenVersion <= users[u].tokenVersion
  /\ row.tokenVersion = users[u].tokenVersion =>
       row.roles = users[u].roles /\ row.password = users[u].password

\* The parts of the state that the argument rests on.
Shapes ==
  /\ situation \in Situation
  /\ users \in [User -> UserRow \cup {NoValue}]
  /\ DOMAIN pc = Call /\ DOMAIN request = Call /\ DOMAIN session = Call /\ DOMAIN seen = Call

\* A call that has arrived has a request of the situation, and the session
\* its route wants.
Arrived ==
  \A c \in Call : pc[c] # "idle" =>
    /\ request[c] \in SituationOf[situation].requests
    /\ "as" \in DOMAIN request[c] => session[c] \in tokens

TokensAreCurrent == \A t \in tokens : Current(t.user, t)

\* A login past the password check holds the row it checked.
Holds(c) == pc[c] \in {"clear", "sign"} /\ request[c].op = "login"
ReadsAreCurrent == \A c \in Call : Holds(c) => Current(request[c].user, seen[c])

\* A user that is to be changed was found, and users are never removed.
Changes(c) == pc[c] \in {"count", "update"} /\ request[c].op = "updateUser"
TargetsExist == \A c \in Call : Changes(c) => users[request[c].user] # NoValue

IInv == Shapes /\ Arrived /\ TokensAreCurrent /\ ReadsAreCurrent /\ TargetsExist

-----------------------------------------------------------------------------
(* What the assumption on situations says                                  *)

LEMMA RowsAreValues ==
  /\ NoValue \notin UserRow /\ NoValue \notin AttemptRow
  /\ NoValue \notin Draft /\ NoValue \notin LiveRow /\ NoValue \notin OperatorRow
BY SituationsAssumption

LEMMA RequestsAreFit ==
  ASSUME situation \in Situation, NEW r \in SituationOf[situation].requests
  PROVE  Fits(r) /\ r # NoValue
BY SituationsAssumption

LEMMA SituationsBegin ==
  ASSUME situation \in Situation
  PROVE  Begins(SituationOf[situation])
BY SituationsAssumption

-----------------------------------------------------------------------------
Over == {"idle", "done", "crashed"}

\* A call that is under way goes on to a label with a value, or ends.
Moves(c, label, value) ==
  /\ pc[c] \notin Over
  /\ label # "idle"
  /\ pc' = [pc EXCEPT ![c] = label]
  /\ seen' = [seen EXCEPT ![c] = value]
  /\ \/ UNCHANGED reply
     \/ label \in {"done", "crashed"} /\ \E outcome : reply' = [reply EXCEPT ![c] = outcome]
  /\ UNCHANGED <<situation, request, session, during>>

LEMMA GotoMoves ==
  ASSUME NEW c, NEW label, NEW value, pc[c] \notin Over, label # "idle", Goto(c, label, value)
  PROVE  Moves(c, label, value)
BY DEF Goto, Frame, Moves

LEMMA AnswerMoves ==
  ASSUME NEW c, NEW outcome, pc[c] \notin Over, Answer(c, outcome)
  PROVE  Moves(c, "done", NoValue)
BY DEF Answer, Frame, Moves

\* A call that goes on without a row and with the accounts as they were.
LEMMA MovePreserves ==
  ASSUME IInv, NEW c \in Call, NEW label, NEW value, Moves(c, label, value),
         UNCHANGED <<users, tokens>>,
         request[c].op = "login" => label \notin {"clear", "sign"},
         request[c].op = "updateUser" => label \notin {"count", "update"}
  PROVE  IInv'
<1>1. Shapes'
  BY DEF IInv, Shapes, Moves
<1>2. Arrived'
  BY DEF IInv, Shapes, Arrived, Moves, Over
<1>3. TokensAreCurrent'
  BY DEF IInv, TokensAreCurrent, Current
<1>4. ReadsAreCurrent'
  <2> SUFFICES ASSUME NEW d \in Call, Holds(d)'
               PROVE  Current(request[d].user, seen[d])'
    BY DEF ReadsAreCurrent
  <2>1. d # c
    BY DEF IInv, Shapes, Moves, Holds
  <2>2. Holds(d) /\ seen'[d] = seen[d] /\ request' = request
    BY <2>1 DEF IInv, Shapes, Moves, Holds
  <2> QED
    BY <2>2 DEF IInv, ReadsAreCurrent, Current
<1>5. TargetsExist'
  <2> SUFFICES ASSUME NEW d \in Call, Changes(d)'
               PROVE  users[request[d].user]' # NoValue
    BY DEF TargetsExist
  <2>1. d # c
    BY DEF IInv, Shapes, Moves, Changes
  <2>2. Changes(d) /\ request' = request
    BY <2>1 DEF IInv, Shapes, Moves, Changes
  <2> QED
    BY <2>2 DEF IInv, TargetsExist
<1> QED
  BY <1>1, <1>2, <1>3, <1>4, <1>5 DEF IInv

\* A call that changes the row of a user, making it newer than it was.
LEMMA ChangePreserves ==
  ASSUME IInv, NEW c \in Call, NEW label, NEW value, Moves(c, label, value),
         label \notin {"clear", "sign", "count", "update"}, UNCHANGED tokens,
         NEW u \in User, NEW row \in UserRow, users' = [users EXCEPT ![u] = row],
         users[u] # NoValue => row = users[u] \/ row.tokenVersion > users[u].tokenVersion
  PROVE  IInv'
<1> USE RowsAreValues
<1>1. Shapes'
  BY DEF IInv, Shapes, Moves
<1>2. Arrived'
  BY DEF IInv, Shapes, Arrived, Moves, Over
<1>3. ASSUME NEW v, NEW read, Current(v, read)
      PROVE  Current(v, read)'
  <2>1. CASE v # u
    BY <1>3, <2>1 DEF IInv, Shapes, Current
  <2>2. CASE v = u
    <3>1. users[u] \in UserRow /\ users'[u] = row /\ row # NoValue
      BY <1>3, <2>2 DEF IInv, Shapes, Current
    <3>2. users[u].tokenVersion \in Nat /\ row.tokenVersion \in Nat
      BY <3>1 DEF UserRow
    <3>3. row = users[u] \/ row.tokenVersion > users[u].tokenVersion
      BY <1>3, <2>2 DEF Current
    <3> QED
      BY <1>3, <2>2, <3>1, <3>2, <3>3 DEF Current
  <2> QED
    BY <2>1, <2>2
<1>4. TokensAreCurrent'
  BY <1>3 DEF IInv, TokensAreCurrent
<1>5. ReadsAreCurrent'
  <2> SUFFICES ASSUME NEW d \in Call, Holds(d)'
               PROVE  Current(request[d].user, seen[d])'
    BY DEF ReadsAreCurrent
  <2>1. d # c
    BY DEF IInv, Shapes, Moves, Holds
  <2>2. Holds(d) /\ seen'[d] = seen[d] /\ request' = request
    BY <2>1 DEF IInv, Shapes, Moves, Holds
  <2>3. Current(request[d].user, seen[d])
    BY <2>2 DEF IInv, ReadsAreCurrent
  <2> QED
    BY <1>3, <2>2, <2>3 DEF Current
<1>6. TargetsExist'
  <2> SUFFICES ASSUME NEW d \in Call, Changes(d)'
               PROVE  users[request[d].user]' # NoValue
    BY DEF TargetsExist
  <2>1. d # c
    BY DEF IInv, Shapes, Moves, Changes
  <2>2. Changes(d) /\ request'[d] = request[d]
    BY <2>1 DEF IInv, Shapes, Moves, Changes
  <2>3. request[d].user \in User /\ users[request[d].user] # NoValue
    BY <2>2, RequestsAreFit DEF IInv, Shapes, Arrived, TargetsExist, Changes, Fits
  <2> QED
    BY <2>2, <2>3 DEF IInv, Shapes
<1> QED
  BY <1>1, <1>2, <1>4, <1>5, <1>6 DEF IInv

\* A change of a user goes on once the user was found.
LEMMA FoundPreserves ==
  ASSUME IInv, NEW c \in Call, NEW label, NEW value, Moves(c, label, value),
         UNCHANGED <<users, tokens>>, request[c].op = "updateUser", users[request[c].user] # NoValue
  PROVE  IInv'
<1>1. Shapes' /\ Arrived'
  BY DEF IInv, Shapes, Arrived, Moves, Over
<1>2. TokensAreCurrent'
  BY DEF IInv, TokensAreCurrent, Current
<1>3. ReadsAreCurrent'
  <2> SUFFICES ASSUME NEW d \in Call, Holds(d)'
               PROVE  Current(request[d].user, seen[d])'
    BY DEF ReadsAreCurrent
  <2>1. Holds(d) /\ seen'[d] = seen[d] /\ request' = request
    BY DEF IInv, Shapes, Moves, Holds
  <2> QED
    BY <2>1 DEF IInv, ReadsAreCurrent, Current
<1>4. TargetsExist'
  BY DEF IInv, Shapes, Moves, Changes, TargetsExist
<1> QED
  BY <1>1, <1>2, <1>3, <1>4 DEF IInv

-----------------------------------------------------------------------------
(* The calls of games and of operators                                     *)

\* A call that is neither a login nor a change of a user goes on.
Elsewhere(c) ==
  /\ request[c].op \notin {"login", "updateUser"}
  /\ \E label, value : Moves(c, label, value)

LEMMA ElsewherePreserves ==
  ASSUME IInv, NEW c \in Call, Elsewhere(c), UNCHANGED <<users, tokens>>
  PROVE  IInv'
BY MovePreserves DEF Elsewhere

LEMMA PublishingStepsElsewhere ==
  ASSUME NEW c \in Call, PublishingStep(c)
  PROVE  Elsewhere(c)
<1> USE GotoMoves, AnswerMoves DEF Elsewhere, Asked, Over
<1>1. CASE CheckNew(c)
  BY <1>1 DEF CheckNew
<1>2. CASE SaveNew(c)
  BY <1>2 DEF SaveNew
<1>3. CASE ReadForPut(c)
  BY <1>3 DEF ReadForPut
<1>4. CASE SavePut(c)
  BY <1>4 DEF SavePut
<1>5. CASE FromPublished(c)
  BY <1>5 DEF FromPublished
<1>6. CASE ReadPublished(c)
  BY <1>6 DEF ReadPublished
<1>7. CASE SaveFromPublished(c)
  BY <1>7 DEF SaveFromPublished
<1>8. CASE ReadForUpload(c)
  BY <1>8 DEF ReadForUpload
<1>9. CASE UploadAsset(c)
  BY <1>9 DEF UploadAsset
<1>10. CASE SaveUpload(c)
  BY <1>10 DEF SaveUpload
<1>11. CASE ReadForClear(c)
  BY <1>11 DEF ReadForClear
<1>12. CASE SaveClear(c)
  BY <1>12 DEF SaveClear
<1>13. CASE ReadForPublish(c)
  BY <1>13 DEF ReadForPublish
<1>14. CASE ReadVersion(c)
  BY <1>14 DEF ReadVersion
<1>15. CASE InsertVersion(c)
  BY <1>15 DEF InsertVersion
<1>16. CASE ReplaceLive(c)
  BY <1>16 DEF ReplaceLive
<1>17. CASE ReadForDelete(c)
  BY <1>17 DEF ReadForDelete
<1>18. CASE CountRounds(c)
  BY <1>18 DEF CountRounds
<1>19. CASE DeleteLive(c)
  BY <1>19 DEF DeleteLive
<1>20. CASE DeleteVersions(c)
  BY <1>20 DEF DeleteVersions
<1>21. CASE DeleteDraft(c)
  BY <1>21 DEF DeleteDraft
<1>22. CASE SeedLive(c)
  BY <1>22 DEF SeedLive
<1>23. CASE SeedVersion(c)
  BY <1>23 DEF SeedVersion
<1>24. CASE LoadGame(c)
  BY <1>24 DEF LoadGame
<1>25. CASE PlayRound(c)
  BY <1>25 DEF PlayRound
<1> QED
  BY <1>1, <1>2, <1>3, <1>4, <1>5, <1>6, <1>7, <1>8, <1>9, <1>10, <1>11, <1>12, <1>13, <1>14, <1>15, <1>16, <1>17, <1>18, <1>19, <1>20, <1>21, <1>22, <1>23, <1>24, <1>25 DEF PublishingStep

LEMMA AccessStepsElsewhere ==
  ASSUME NEW c \in Call, AccessStep(c)
  PROVE  Elsewhere(c)
<1> USE GotoMoves, AnswerMoves DEF Elsewhere, Asked, Over
<1>1. CASE CheckOperator(c)
  BY <1>1 DEF CheckOperator
<1>2. CASE InsertOperator(c)
  BY <1>2 DEF InsertOperator
<1>3. CASE UpdateOperator(c)
  BY <1>3 DEF UpdateOperator
<1>4. CASE RotateSecret(c)
  BY <1>4 DEF RotateSecret
<1>5. CASE CheckSignature(c)
  BY <1>5 DEF CheckSignature
<1>6. CASE RecordSignature(c)
  BY <1>6 DEF RecordSignature
<1>7. CASE CheckEnabled(c)
  BY <1>7 DEF CheckEnabled
<1>8. CASE IssueLaunchToken(c)
  BY <1>8 DEF IssueLaunchToken
<1>9. CASE PresentToken(c)
  BY <1>9 DEF PresentToken
<1>10. CASE ConsumeToken(c)
  BY <1>10 DEF ConsumeToken
<1> QED
  BY <1>1, <1>2, <1>3, <1>4, <1>5, <1>6, <1>7, <1>8, <1>9, <1>10 DEF AccessStep

-----------------------------------------------------------------------------
(* The calls of accounts                                                   *)

\* The request of a call that has arrived.
LEMMA RequestsFit ==
  ASSUME IInv, NEW c \in Call, pc[c] \notin Over
  PROVE  /\ request[c].op \in {"login", "boot", "createUser", "updateUser", "setPassword"} => request[c].user \in User
         /\ request[c].op \in {"boot", "createUser", "setPassword"} => request[c].password \in Password
         /\ request[c].op = "createUser" => request[c].roles \subseteq RoleId
         /\ request[c].op = "updateUser" /\ "roles" \in DOMAIN request[c].patch => request[c].patch.roles \subseteq RoleId
         /\ request[c].op = "updateUser" /\ "active" \in DOMAIN request[c].patch => request[c].patch.active \in BOOLEAN
         /\ request[c].op = "logout" => session[c] \in tokens
BY RequestsAreFit DEF IInv, Shapes, Arrived, Fits, Over

\* The password check reads the row, and a login that passed it goes on with
\* what it read.
LEMMA LoginReads ==
  ASSUME IInv, NEW c \in Call, FindUser(c) \/ ClearFailures(c)
  PROVE  IInv'
<1>1. PICK label, row :
        /\ Moves(c, label, row)
        /\ label \in {"clear", "sign"} => Current(request[c].user, row)
  <2>1. CASE FindUser(c)
    <3> DEFINE row == users[request[c].user]
    <3>1. pc[c] \notin Over /\ request[c].op = "login"
      BY <2>1 DEF FindUser, Asked, Over
    <3>2. request[c].user \in User
      BY <3>1, RequestsFit
    <3>3. CASE row # NoValue /\ row.active /\ PasswordMatches(row, request[c].password)
      <4>1. row \in UserRow
        BY <3>2, <3>3 DEF IInv, Shapes
      <4>2. Current(request[c].user, row)
        BY <3>2, <3>3, <4>1 DEF Current, UserRow
      <4> QED
        BY <2>1, <3>1, <3>3, <4>2, GotoMoves DEF FindUser
    <3>4. CASE ~(row # NoValue /\ row.active /\ PasswordMatches(row, request[c].password))
      BY <2>1, <3>1, <3>4, GotoMoves DEF FindUser
    <3> QED
      BY <3>3, <3>4
  <2>2. CASE ClearFailures(c)
    <3>1. pc[c] \notin Over /\ Holds(c) /\ Goto(c, "sign", seen[c])
      BY <2>2 DEF ClearFailures, Asked, Holds, Over
    <3> QED
      BY <3>1, GotoMoves DEF IInv, ReadsAreCurrent
  <2> QED
    BY <2>1, <2>2
<1>2. UNCHANGED <<users, tokens>> /\ request[c].op = "login"
  BY DEF FindUser, ClearFailures, Asked, accountVars
<1>3. Shapes' /\ Arrived'
  BY <1>1, <1>2 DEF IInv, Shapes, Arrived, Moves, Over
<1>4. TokensAreCurrent'
  BY <1>2 DEF IInv, TokensAreCurrent, Current
<1>5. ReadsAreCurrent'
  <2> SUFFICES ASSUME NEW d \in Call, Holds(d)'
               PROVE  Current(request[d].user, seen[d])'
    BY DEF ReadsAreCurrent
  <2>1. CASE d = c
    <3>1. Current(request[c].user, row) /\ seen'[c] = row /\ request' = request
      BY <1>1, <2>1 DEF IInv, Shapes, Moves, Holds
    <3> QED
      BY <1>2, <2>1, <3>1 DEF Current
  <2>2. CASE d # c
    <3>1. Holds(d) /\ seen'[d] = seen[d] /\ request' = request
      BY <1>1, <2>2 DEF IInv, Shapes, Moves, Holds
    <3> QED
      BY <1>2, <3>1 DEF IInv, ReadsAreCurrent, Current
  <2> QED
    BY <2>1, <2>2
<1>6. TargetsExist'
  BY <1>1, <1>2 DEF IInv, Shapes, Moves, Changes, TargetsExist
<1> QED
  BY <1>3, <1>4, <1>5, <1>6 DEF IInv

\* The session that is signed is of the row that was checked.
LEMMA SignPreserves ==
  ASSUME IInv, NEW c \in Call, SignSession(c)
  PROVE  IInv'
<1>1. /\ pc[c] = "sign" /\ request[c].op = "login" /\ UNCHANGED users
      /\ tokens' = tokens \cup {Claims(c)} /\ Moves(c, "done", NoValue)
  BY AnswerMoves DEF SignSession, Asked, Over
<1>2. Shapes' /\ Arrived'
  BY <1>1 DEF IInv, Shapes, Arrived, Moves, Over
<1>3. Current(request[c].user, seen[c])
  BY <1>1 DEF IInv, ReadsAreCurrent, Holds
<1>4. Current(Claims(c).user, Claims(c))
  BY <1>3 DEF Current, Claims, SignedFor
<1>5. TokensAreCurrent'
  BY <1>1, <1>4 DEF IInv, TokensAreCurrent, Current
<1>6. ReadsAreCurrent'
  <2> SUFFICES ASSUME NEW d \in Call, Holds(d)'
               PROVE  Current(request[d].user, seen[d])'
    BY DEF ReadsAreCurrent
  <2>1. d # c
    BY <1>1 DEF IInv, Shapes, Moves, Holds
  <2>2. Holds(d) /\ seen'[d] = seen[d] /\ request' = request
    BY <1>1, <2>1 DEF IInv, Shapes, Moves, Holds
  <2> QED
    BY <1>1, <2>2 DEF IInv, ReadsAreCurrent, Current
<1>7. TargetsExist'
  BY <1>1 DEF IInv, Shapes, Moves, Changes, TargetsExist
<1> QED
  BY <1>2, <1>5, <1>6, <1>7 DEF IInv

\* The steps of accounts that only read.
LEMMA ReadingPreserves ==
  ASSUME IInv, NEW c \in Call,
         \/ CheckLock(c) \/ ReadAttempts(c) \/ RecordFailure(c) \/ CountUsers(c) \/ CheckEmail(c)
         \/ CountAdmins(c)
  PROVE  IInv'
<1>1. PICK label, value :
        /\ Moves(c, label, value)
        /\ \/ label \notin {"clear", "sign", "count", "update"}
           \/ label = "update" /\ Changes(c)
  <2> USE GotoMoves, AnswerMoves DEF Asked, Over
  <2>1. CASE CheckLock(c)
    BY <2>1 DEF CheckLock
  <2>2. CASE ReadAttempts(c)
    BY <2>2 DEF ReadAttempts
  <2>3. CASE RecordFailure(c)
    BY <2>3 DEF RecordFailure
  <2>4. CASE CountUsers(c)
    BY <2>4 DEF CountUsers
  <2>5. CASE CheckEmail(c)
    BY <2>5 DEF CheckEmail
  <2>6. CASE CountAdmins(c)
    BY <2>6 DEF CountAdmins, Changes
  <2> QED
    BY <2>1, <2>2, <2>3, <2>4, <2>5, <2>6
<1>2. UNCHANGED <<users, tokens>>
  BY DEF CheckLock, ReadAttempts, RecordFailure, CountUsers, CheckEmail, CountAdmins, accountVars
<1>3. CASE label \notin {"clear", "sign", "count", "update"}
  BY <1>1, <1>2, <1>3, MovePreserves
<1>4. CASE label = "update" /\ Changes(c)
  <2>1. Moves(c, "update", value) /\ request[c].op = "updateUser" /\ users[request[c].user] # NoValue
    BY <1>1, <1>4 DEF Changes, IInv, TargetsExist
  <2> QED
    BY <1>2, <2>1, FoundPreserves
<1> QED
  BY <1>1, <1>3, <1>4

\* A change makes a row newer, and a row still.
LEMMA NewerRow ==
  ASSUME NEW old \in UserRow, NEW password \in Password, NEW roles \in SUBSET RoleId, NEW active \in BOOLEAN
  PROVE  /\ [old EXCEPT !.roles = roles, !.active = active, !.tokenVersion = @ + 1] \in UserRow
         /\ [old EXCEPT !.roles = roles, !.active = active, !.tokenVersion = @ + 1].tokenVersion > old.tokenVersion
         /\ [old EXCEPT !.password = password, !.tokenVersion = @ + 1] \in UserRow
         /\ [old EXCEPT !.password = password, !.tokenVersion = @ + 1].tokenVersion > old.tokenVersion
<1> DEFINE granted == [old EXCEPT !.roles = roles]
           enabled == [granted EXCEPT !.active = active]
           locked == [old EXCEPT !.password = password]
<1>1. ASSUME NEW row \in UserRow
      PROVE  [row EXCEPT !.tokenVersion = @ + 1] \in UserRow
  BY DEF UserRow
<1>2. granted \in UserRow
  BY DEF UserRow
<1>3. enabled \in UserRow
  BY <1>2 DEF UserRow
<1>4. locked \in UserRow
  BY DEF UserRow
<1>5. [old EXCEPT !.roles = roles, !.active = active, !.tokenVersion = @ + 1]
        = [enabled EXCEPT !.tokenVersion = @ + 1]
  BY DEF UserRow
<1>6. [old EXCEPT !.password = password, !.tokenVersion = @ + 1]
        = [locked EXCEPT !.tokenVersion = @ + 1]
  BY DEF UserRow
<1>7. [old EXCEPT !.roles = roles, !.active = active, !.tokenVersion = @ + 1].tokenVersion > old.tokenVersion
  BY DEF UserRow
<1>8. [old EXCEPT !.password = password, !.tokenVersion = @ + 1].tokenVersion > old.tokenVersion
  BY DEF UserRow
<1> HIDE DEF granted, enabled, locked
<1> QED
  BY <1>1, <1>3, <1>4, <1>5, <1>6, <1>7, <1>8

\* The steps of accounts that change a user, or begin to.
LEMMA ChangingPreserves ==
  ASSUME IInv, NEW c \in Call,
         SeedAdmin(c) \/ CreateUser(c) \/ ReadTarget(c) \/ UpdateUser(c) \/ SetPassword(c) \/ Logout(c)
  PROVE  IInv'
<1> DEFINE r == request[c]
<1>1. pc[c] \notin Over /\ UNCHANGED tokens
  BY DEF Over, SeedAdmin, CreateUser, Inserted, ReadTarget, UpdateUser, SetPassword, Logout, Asked, accountVars
<1>2. CASE SeedAdmin(c)
  <2>1. r.user \in User /\ r.op = "boot" /\ NewRow(r.password, {"super_admin"}) \in UserRow
    BY <1>1, <1>2, RequestsFit DEF SeedAdmin, Asked, NewRow, UserRow, RoleId
  <2>2. CASE users[r.user] # NoValue
    <3>1. Moves(c, "done", NoValue) /\ UNCHANGED users
      BY <1>1, <1>2, <2>2, AnswerMoves DEF SeedAdmin
    <3> QED
      BY <1>1, <3>1, MovePreserves
  <2>3. CASE users[r.user] = NoValue
    <3> DEFINE row == NewRow(r.password, {"super_admin"})
    <3>1. Moves(c, "done", NoValue) /\ row \in UserRow /\ users' = [users EXCEPT ![r.user] = row]
      BY <1>1, <1>2, <2>1, <2>3, AnswerMoves DEF SeedAdmin
    <3> HIDE DEF row
    <3>2. users[r.user] # NoValue => row = users[r.user] \/ row.tokenVersion > users[r.user].tokenVersion
      BY <2>3
    <3> QED
      BY <1>1, <2>1, <3>1, <3>2, ChangePreserves
  <2> QED
    BY <2>2, <2>3
<1>3. CASE CreateUser(c)
  <2>1. r.user \in User /\ r.op = "createUser" /\ NewRow(r.password, r.roles) \in UserRow
    BY <1>1, <1>3, RequestsFit DEF CreateUser, Asked, NewRow, UserRow
  <2>2. CASE users[r.user] # NoValue
    <3>1. Moves(c, "done", NoValue) /\ UNCHANGED users
      BY <1>1, <1>3, <2>2, AnswerMoves DEF CreateUser, Inserted
    <3> QED
      BY <1>1, <2>1, <3>1, MovePreserves
  <2>3. CASE users[r.user] = NoValue
    <3> DEFINE row == NewRow(r.password, r.roles)
    <3>1. Moves(c, "audit", NoValue) /\ row \in UserRow /\ users' = [users EXCEPT ![r.user] = row]
      BY <1>1, <1>3, <2>1, <2>3, GotoMoves DEF CreateUser, Inserted
    <3> HIDE DEF row
    <3>2. users[r.user] # NoValue => row = users[r.user] \/ row.tokenVersion > users[r.user].tokenVersion
      BY <2>3
    <3> QED
      BY <1>1, <2>1, <3>1, <3>2, ChangePreserves
  <2> QED
    BY <2>2, <2>3
<1>4. CASE ReadTarget(c)
  <2>1. r.op = "updateUser" /\ UNCHANGED users
    BY <1>4 DEF ReadTarget, Asked, accountVars
  <2>2. CASE users[r.user] = NoValue
    <3>1. Moves(c, "done", NoValue)
      BY <1>1, <1>4, <2>2, AnswerMoves DEF ReadTarget
    <3> QED
      BY <1>1, <2>1, <3>1, MovePreserves
  <2>3. CASE users[r.user] # NoValue
    <3>1. PICK label : Moves(c, label, NoValue)
      BY <1>1, <1>4, <2>3, GotoMoves, AnswerMoves DEF ReadTarget
    <3> QED
      BY <1>1, <2>1, <2>3, <3>1, FoundPreserves
  <2> QED
    BY <2>2, <2>3
<1>5. CASE UpdateUser(c)
  <2> DEFINE old == users[r.user]
             new == Patched(old, r.patch)
  <2>1. /\ Changes(c) /\ Moves(c, "audit", NoValue)
        /\ users' = [users EXCEPT ![r.user] = new]
    BY <1>1, <1>5, GotoMoves DEF UpdateUser, Asked, Changes
  <2>2. r.user \in User /\ old \in UserRow
    BY <1>1, <2>1, RequestsFit DEF Changes, IInv, Shapes, TargetsExist
  <2>3. /\ "roles" \in DOMAIN r.patch => r.patch.roles \subseteq RoleId
        /\ "active" \in DOMAIN r.patch => r.patch.active \in BOOLEAN
    BY <1>1, <2>1, RequestsFit DEF Changes
  <2>4. new \in UserRow /\ (new = old \/ new.tokenVersion > old.tokenVersion)
    <3>1. CASE DOMAIN r.patch = {}
      BY <2>2, <3>1 DEF Patched
    <3>2. CASE DOMAIN r.patch # {}
      <4> DEFINE roles == IF "roles" \in DOMAIN r.patch THEN r.patch.roles ELSE old.roles
                 active == IF "active" \in DOMAIN r.patch THEN r.patch.active ELSE old.active
      <4>1. new = [old EXCEPT !.roles = roles, !.active = active, !.tokenVersion = @ + 1]
        BY <3>2 DEF Patched
      <4>2. roles \in SUBSET RoleId /\ active \in BOOLEAN
        BY <2>2, <2>3 DEF UserRow
      <4> HIDE DEF new, roles, active
      <4> QED
        BY <2>2, <4>1, <4>2, NewerRow DEF UserRow
    <3> QED
      BY <3>1, <3>2
  <2> HIDE DEF new
  <2> QED
    BY <1>1, <2>1, <2>2, <2>4, ChangePreserves
<1>6. CASE SetPassword(c)
  <2>1. r.user \in User /\ r.password \in Password /\ r.op = "setPassword"
    BY <1>1, <1>6, RequestsFit DEF SetPassword, Asked
  <2>2. CASE users[r.user] = NoValue
    <3>1. Moves(c, "done", NoValue) /\ UNCHANGED users
      BY <1>1, <1>6, <2>2, AnswerMoves DEF SetPassword
    <3> QED
      BY <1>1, <2>1, <3>1, MovePreserves
  <2>3. CASE users[r.user] # NoValue
    <3> DEFINE old == users[r.user]
               new == [old EXCEPT !.password = r.password, !.tokenVersion = @ + 1]
    <3>1. Moves(c, "audit", NoValue) /\ users' = [users EXCEPT ![r.user] = new]
      <4>1. Moves(c, "audit", NoValue)
        BY <1>1, <1>6, <2>3, GotoMoves DEF SetPassword
      <4>2. users' = [users EXCEPT ![r.user].password = r.password, ![r.user].tokenVersion = @ + 1]
        BY <1>6, <2>3 DEF SetPassword
      <4> QED
        BY <2>1, <4>1, <4>2 DEF IInv, Shapes
    <3>2. old \in UserRow
      BY <2>1, <2>3 DEF IInv, Shapes
    <3>3. new \in UserRow /\ new.tokenVersion > old.tokenVersion
      BY <2>1, <3>2, NewerRow DEF UserRow
    <3> HIDE DEF new
    <3> QED
      BY <1>1, <2>1, <3>1, <3>3, ChangePreserves
  <2> QED
    BY <2>2, <2>3
<1>7. CASE Logout(c)
  <2> DEFINE u == session[c].user
             new == [users[u] EXCEPT !.tokenVersion = @ + 1]
  <2>1. Moves(c, "audit", NoValue) /\ r.op = "logout"
    BY <1>1, <1>7, GotoMoves DEF Logout, Asked
  <2>2. u \in User /\ users[u] \in UserRow
    BY <1>1, <2>1, RequestsFit DEF IInv, Shapes, TokensAreCurrent, Current
  <2>3. users' = [users EXCEPT ![u] = new]
    BY <1>7, <2>2 DEF Logout
  <2>4. new \in UserRow /\ new.tokenVersion > users[u].tokenVersion
    BY <2>2 DEF UserRow
  <2> QED
    BY <1>1, <2>1, <2>2, <2>3, <2>4, ChangePreserves
<1> QED
  BY <1>2, <1>3, <1>4, <1>5, <1>6, <1>7

-----------------------------------------------------------------------------
(* Every step                                                              *)

LEMMA FirstLabels ==
  /\ First["login"] = "lock" /\ First["updateUser"] = "target"
  /\ \A op \in DOMAIN First :
       First[op] \in {"lock", "revoke", "count_users", "target", "set", "read", "seed_live", "load", "signature", "verify"}
BY DEF First

LEMMA ArrivePreserves ==
  ASSUME IInv, NEW c \in Call, Arrive(c, tokens, First), UNCHANGED accountVars
  PROVE  IInv'
<1>1. PICK r \in SituationOf[situation].requests :
        /\ request' = [request EXCEPT ![c] = r]
        /\ IF "as" \in DOMAIN r
           THEN \E t \in tokens : session' = [session EXCEPT ![c] = t] /\ pc' = [pc EXCEPT ![c] = "hook"]
           ELSE pc' = [pc EXCEPT ![c] = First[r.op]] /\ UNCHANGED session
  BY DEF Arrive
<1>2. UNCHANGED <<situation, seen, users, tokens>>
  BY DEF Arrive, accountVars
<1>3. Shapes'
  BY <1>1, <1>2 DEF IInv, Shapes
<1>4. Arrived'
  BY <1>1, <1>2 DEF IInv, Shapes, Arrived
<1>5. TokensAreCurrent'
  BY <1>2 DEF IInv, TokensAreCurrent, Current
<1>6. request'[c] = r /\ pc'[c] \in {"hook", First[r.op]}
  BY <1>1 DEF IInv, Shapes
<1>7. ReadsAreCurrent'
  <2> SUFFICES ASSUME NEW d \in Call, Holds(d)'
               PROVE  Current(request[d].user, seen[d])'
    BY DEF ReadsAreCurrent
  <2>1. d # c
    BY <1>6, FirstLabels DEF Holds
  <2>2. Holds(d) /\ request'[d] = request[d] /\ seen' = seen
    BY <1>1, <1>2, <2>1 DEF IInv, Shapes, Holds
  <2> QED
    BY <1>2, <2>2 DEF IInv, ReadsAreCurrent, Current
<1>8. TargetsExist'
  <2> SUFFICES ASSUME NEW d \in Call, Changes(d)'
               PROVE  users[request[d].user]' # NoValue
    BY DEF TargetsExist
  <2>1. d # c
    BY <1>6, FirstLabels DEF Changes
  <2>2. Changes(d) /\ request'[d] = request[d]
    BY <1>1, <2>1 DEF IInv, Shapes, Changes
  <2> QED
    BY <1>2, <2>2 DEF IInv, TargetsExist
<1> QED
  BY <1>3, <1>4, <1>5, <1>7, <1>8 DEF IInv

LEMMA HookPreserves ==
  ASSUME IInv, NEW c \in Call, AuthHook(c, First)
  PROVE  IInv'
<1>0. pc[c] \notin Over /\ First[request[c].op] # "idle"
  BY RequestsAreFit, FirstLabels DEF AuthHook, IInv, Shapes, Arrived, Fits, Over
<1>1. PICK label : /\ Moves(c, label, NoValue)
                   /\ label \in {"done", First[request[c].op]}
  BY <1>0, GotoMoves, AnswerMoves DEF AuthHook
<1>2. UNCHANGED <<users, tokens>>
  BY DEF AuthHook, accountVars
<1> QED
  BY <1>1, <1>2, MovePreserves, FirstLabels

\* The audit entry, and a process that dies: the call is over.
LEMMA EndPreserves ==
  ASSUME IInv, NEW c \in Call, WriteAudit(c, Actor(c)) \/ Crash(c), UNCHANGED accountVars
  PROVE  IInv'
<1>1. Moves(c, "done", NoValue) \/ Moves(c, "crashed", NoValue)
  BY DEF WriteAudit, Crash, InFlight, Frame, Moves, Over
<1> QED
  BY <1>1, MovePreserves DEF accountVars

\* A step that touches no call and no account.
LEMMA RestPreserves ==
  ASSUME IInv, UNCHANGED <<situation, pc, request, session, seen, users, tokens>>
  PROVE  IInv'
BY DEF IInv, Shapes, Arrived, TokensAreCurrent, ReadsAreCurrent, TargetsExist, Current, Holds, Changes

LEMMA InitHolds == Init => IInv
<1> SUFFICES ASSUME Init
             PROVE  IInv
  OBVIOUS
<1> DEFINE S == SituationOf[situation]
<1>1. /\ situation \in Situation /\ users = S.users
      /\ pc = [c \in Call |-> "idle"]
      /\ request = [c \in Call |-> NoValue] /\ session = [c \in Call |-> NoValue]
      /\ seen = [c \in Call |-> NoValue]
      /\ tokens = {[user |-> u, roles |-> S.users[u].roles, tokenVersion |-> S.users[u].tokenVersion,
                    exp |-> SessionTtl, password |-> S.users[u].password] :
                     u \in {v \in User : S.users[v] # NoValue}}
  BY DEF Init, CallsInit
<1>2. users \in [User -> UserRow \cup {NoValue}]
  BY <1>1, SituationsBegin DEF Begins
<1>3. Shapes
  BY <1>1, <1>2 DEF Shapes
<1>4. TokensAreCurrent
  <2> SUFFICES ASSUME NEW t \in tokens
               PROVE  Current(t.user, t)
    BY DEF TokensAreCurrent
  <2>1. PICK u \in User :
          /\ users[u] # NoValue
          /\ t = [user |-> u, roles |-> users[u].roles, tokenVersion |-> users[u].tokenVersion,
                  exp |-> SessionTtl, password |-> users[u].password]
    BY <1>1
  <2>2. users[u].tokenVersion \in Nat
    BY <1>2, <2>1 DEF UserRow
  <2> QED
    BY <2>1, <2>2 DEF Current
<1> QED
  BY <1>1, <1>3, <1>4 DEF IInv, Arrived, ReadsAreCurrent, TargetsExist, Holds, Changes

LEMMA NextPreserves == IInv /\ [Next]_vars => IInv'
<1> SUFFICES ASSUME IInv, [Next]_vars
             PROVE  IInv'
  OBVIOUS
<1>1. ASSUME NEW c \in Call, CallStep(c), UNCHANGED accountVars
      PROVE  IInv'
  BY <1>1, ArrivePreserves, EndPreserves DEF CallStep
<1>2. ASSUME NEW c \in Call, AuthHook(c, First)
      PROVE  IInv'
  BY <1>2, HookPreserves
<1>3. ASSUME NEW c \in Call, AccountStep(c)
      PROVE  IInv'
  BY <1>3, LoginReads, SignPreserves, ReadingPreserves, ChangingPreserves DEF AccountStep
<1>4. ASSUME NEW c \in Call, PublishingStep(c), UNCHANGED accountVars
      PROVE  IInv'
  BY <1>4, PublishingStepsElsewhere, ElsewherePreserves DEF accountVars
<1>5. ASSUME NEW c \in Call, AccessStep(c), UNCHANGED accountVars
      PROVE  IInv'
  BY <1>5, AccessStepsElsewhere, ElsewherePreserves DEF accountVars
<1>6. ASSUME Tick, UNCHANGED accountVars
      PROVE  IInv'
  BY <1>6, RestPreserves DEF Tick, accountVars
<1>7. ASSUME Reap
      PROVE  IInv'
  BY <1>7, RestPreserves DEF Reap, ReapAttempts, callVars
<1>8. ASSUME ReapRecords
      PROVE  IInv'
  BY <1>8, RestPreserves DEF ReapRecords, ReapSignature, ReapToken, callVars, accountVars
<1>9. CASE UNCHANGED vars
  BY <1>9, RestPreserves DEF vars, callVars, accountVars
<1> QED
  BY <1>1, <1>2, <1>3, <1>4, <1>5, <1>6, <1>7, <1>8, <1>9 DEF Next

-----------------------------------------------------------------------------
(* The calls, whatever they are about                                      *)

\* Two calls under way overlap, and a call has a request, then an answer.
CallsInv ==
  /\ situation \in Situation
  /\ DOMAIN pc = Call /\ DOMAIN request = Call /\ DOMAIN session = Call
  /\ DOMAIN seen = Call /\ DOMAIN reply = Call /\ DOMAIN during = Call
  /\ \A c \in Call :
       /\ IF pc[c] = "idle" THEN request[c] = NoValue /\ during[c] = {}
          ELSE request[c] \in SituationOf[situation].requests
       /\ reply[c] # NoValue => pc[c] \in {"done", "crashed"}
  /\ \A c, d \in InFlight : c # d => Overlap(c, d)

\* What is known of a call stays so.
Later ==
  \A c \in Call :
    /\ request[c] # NoValue => request'[c] = request[c]
    /\ reply[c] # NoValue => reply'[c] = reply[c]
    /\ during[c] \subseteq during'[c]
    /\ pc[c] \in {"done", "crashed"} => pc'[c] = pc[c]
    /\ pc[c] # "idle" => pc'[c] # "idle"

\* A step of one call leaves the others where they are.
OthersStay(c) ==
  \A d \in Call \ {c} : pc'[d] = pc[d] /\ seen'[d] = seen[d] /\ reply'[d] = reply[d] /\ request'[d] = request[d]

\* A call begins.
Enter(c, r) ==
  /\ pc[c] = "idle" /\ r \in SituationOf[situation].requests
  /\ request' = [request EXCEPT ![c] = r]
  /\ pc' = [pc EXCEPT ![c] = IF "as" \in DOMAIN r THEN "hook" ELSE First[r.op]]
  /\ \/ UNCHANGED session
     \/ \E t : session' = [session EXCEPT ![c] = t]
  /\ during' = [d \in Call |-> IF d = c THEN InFlight
                               ELSE IF d \in InFlight THEN during[d] \cup {c} ELSE during[d]]
  /\ UNCHANGED <<situation, seen, reply>>

\* No call does anything.
CallsStay == UNCHANGED <<situation, pc, request, session, seen, reply, during>>

LEMMA AccountStepsMove ==
  ASSUME NEW c \in Call, AccountStep(c)
  PROVE  \E label, value : Moves(c, label, value)
<1> USE GotoMoves, AnswerMoves DEF Asked, Over
<1>1. CASE CheckLock(c)
  BY <1>1 DEF CheckLock
<1>2. CASE FindUser(c)
  BY <1>2 DEF FindUser
<1>3. CASE ReadAttempts(c)
  BY <1>3 DEF ReadAttempts
<1>4. CASE RecordFailure(c)
  BY <1>4 DEF RecordFailure
<1>5. CASE ClearFailures(c)
  BY <1>5 DEF ClearFailures
<1>6. CASE SignSession(c)
  BY <1>6 DEF SignSession
<1>7. CASE CountUsers(c)
  BY <1>7 DEF CountUsers
<1>8. CASE SeedAdmin(c)
  BY <1>8 DEF SeedAdmin
<1>9. CASE CheckEmail(c)
  BY <1>9 DEF CheckEmail
<1>10. CASE CreateUser(c)
  BY <1>10 DEF CreateUser, Inserted
<1>11. CASE ReadTarget(c)
  BY <1>11 DEF ReadTarget
<1>12. CASE CountAdmins(c)
  BY <1>12 DEF CountAdmins
<1>13. CASE UpdateUser(c)
  BY <1>13 DEF UpdateUser
<1>14. CASE SetPassword(c)
  BY <1>14 DEF SetPassword
<1>15. CASE Logout(c)
  BY <1>15 DEF Logout
<1> QED
  BY <1>1, <1>2, <1>3, <1>4, <1>5, <1>6, <1>7, <1>8, <1>9, <1>10, <1>11, <1>12, <1>13, <1>14, <1>15 DEF AccountStep

LEMMA HookMoves ==
  ASSUME CallsInv, NEW c \in Call, AuthHook(c, First)
  PROVE  \E label : Moves(c, label, NoValue) /\ label \in {"done", First[request[c].op]}
<1>1. pc[c] \notin Over /\ First[request[c].op] # "idle"
  BY RequestsAreFit, FirstLabels DEF AuthHook, CallsInv, Fits, Over
<1> QED
  BY <1>1, GotoMoves, AnswerMoves DEF AuthHook

LEMMA EndMoves ==
  ASSUME NEW c \in Call, NEW actor, WriteAudit(c, actor) \/ Crash(c)
  PROVE  \E label : Moves(c, label, NoValue) /\ label \in {"done", "crashed"}
<1>1. Moves(c, "done", NoValue) \/ Moves(c, "crashed", NoValue)
  BY DEF WriteAudit, Crash, InFlight, Frame, Moves, Over
<1> QED
  BY <1>1

LEMMA ArriveBegins ==
  ASSUME NEW c \in Call, NEW issued, Arrive(c, issued, First)
  PROVE  \E r : Enter(c, r)
BY DEF Arrive, Enter

\* Every step is one of a call, or of none.
LEMMA StepsOfCalls ==
  ASSUME CallsInv, [Next]_vars
  PROVE  \/ \E c \in Call : \E label, value : Moves(c, label, value)
         \/ \E c \in Call : \E r : Enter(c, r)
         \/ CallsStay
<1>1. ASSUME NEW c \in Call, CallStep(c)
      PROVE  (\E label, value : Moves(c, label, value)) \/ (\E r : Enter(c, r))
  BY <1>1, ArriveBegins, EndMoves DEF CallStep
<1>2. ASSUME NEW c \in Call, AuthHook(c, First) \/ AccountStep(c) \/ PublishingStep(c) \/ AccessStep(c)
      PROVE  \E label, value : Moves(c, label, value)
  BY <1>2, HookMoves, AccountStepsMove, PublishingStepsElsewhere, AccessStepsElsewhere DEF Elsewhere
<1>3. CASE Tick \/ Reap \/ ReapRecords \/ UNCHANGED vars
  BY <1>3 DEF Tick, Reap, ReapAttempts, ReapRecords, ReapSignature, ReapToken, vars, callVars, CallsStay
<1> QED
  BY <1>1, <1>2, <1>3 DEF Next

LEMMA CallsGoOn ==
  ASSUME CallsInv, [Next]_vars
  PROVE  CallsInv' /\ Later
<1>1. ASSUME NEW c \in Call, NEW label, NEW value, Moves(c, label, value)
      PROVE  CallsInv' /\ Later
  <2>1. Later
    BY <1>1 DEF CallsInv, Later, Moves, Over
  <2>2. ASSUME NEW d \in InFlight'
        PROVE  d \in InFlight
    BY <1>1, <2>2 DEF CallsInv, Moves, Over, InFlight
  <2> QED
    BY <1>1, <2>1, <2>2 DEF CallsInv, Moves, Over, Overlap
<1>2. ASSUME NEW c \in Call, NEW r, Enter(c, r)
      PROVE  CallsInv' /\ Later
  <2>1. pc'[c] \notin Over /\ request[c] = NoValue /\ c \notin InFlight
    BY <1>2, RequestsAreFit, FirstLabels DEF CallsInv, Enter, Fits, Over, InFlight
  <2>2. \A d \in Call \ {c} : pc'[d] = pc[d] /\ request'[d] = request[d]
    BY <1>2 DEF CallsInv, Enter
  <2>3. \A d \in Call : reply'[d] = reply[d] /\ (d # c => during[d] \subseteq during'[d])
    BY <1>2 DEF CallsInv, Enter
  <2>4. pc[c] = "idle" /\ request'[c] = r /\ r \in SituationOf[situation].requests
        /\ during[c] = {} /\ during'[c] = InFlight
    BY <1>2 DEF CallsInv, Enter
  <2>5. Later
    BY <2>1, <2>2, <2>3, <2>4 DEF Later, Over, CallsInv
  <2>6. \A d, e \in InFlight' : d # e => Overlap(d, e)'
    BY <1>2, <2>1, <2>2 DEF CallsInv, Enter, InFlight, Overlap
  <2>7. \A d \in Call \ {c} : pc[d] = "idle" => during'[d] = during[d]
    BY <1>2 DEF CallsInv, Enter, InFlight
  <2> QED
    BY <1>2, <2>1, <2>2, <2>3, <2>4, <2>5, <2>6, <2>7 DEF CallsInv, Enter, Over
<1>3. ASSUME CallsStay
      PROVE  CallsInv' /\ Later
  BY <1>3 DEF CallsStay, CallsInv, Later, InFlight, Overlap
<1> QED
  BY <1>1, <1>2, <1>3, StepsOfCalls

LEMMA CallsBegin == Init => CallsInv
BY DEF Init, CallsInit, CallsInv, InFlight

-----------------------------------------------------------------------------
\* Whatever overlaps it and whenever it is signed, a session that the hook of
\* backoffice-api accepts has the roles its user has now, and comes from a
\* login with the password the user has now.
THEOREM SessionsCurrent == Spec => []SessionsAreCurrent
<1>1. IInv => SessionsAreCurrent
  BY DEF IInv, TokensAreCurrent, Current, SessionsAreCurrent, Revoked
<1> QED
  BY InitHolds, NextPreserves, <1>1, PTL DEF Spec

-----------------------------------------------------------------------------
(* What operators' requests and players' launch tokens are good for, for   *)
(* any operators, clocks and number of concurrent calls.                   *)

\* The calls that make keys, and those that use them or a token.
KeyOps == {"createOperator", "rotateSecret", "launch", "join"}

\* A call there has made its key, or had its signature recorded.
Past == {"audit", "enabled", "published", "done", "crashed"}

Checked(c) == pc[c] = "nonce" /\ request[c].op = "launch"
Verified(c) == pc[c] = "consume" /\ request[c].op = "join"

\* The operator has the key, or was found to have it by someone who remembers.
Claimed(k, o) ==
  \/ operators[o] # NoValue /\ operators[o].key = k
  \/ \E c \in Call : Checked(c) /\ request[c].key = k /\ seen[c].operator = o
  \/ \E s \in signatures : s.request.key = k /\ s.operator = o

\* Keys are drawn once: nobody has one of a call that has yet to make it.
KeysInv ==
  /\ operators \in [Operator -> OperatorRow \cup {NoValue}]
  /\ \A c \in Call : Checked(c) => seen[c].operator \in Operator
  /\ \A s \in signatures : s.operator \in Operator
  /\ \A k, o : Claimed(k, o) /\ o \in Operator => k = FirstKey \/ (k \in Call /\ request[k].op \in KeyOps /\ pc[k] \in Past)
  /\ \A k : \A o, p \in Operator : Claimed(k, o) /\ Claimed(k, p) => o = p

Recorded(a) ==
  \E s \in signatures :
    s.request = request[a.call] /\ s.expireAt = a.at + MaxSkew + NonceMargin

\* What excuses b, served after a with the same request, of the requests asked.
Excused(asked, a, b) ==
  \/ asked[a.call].timestamp - a.at >= NonceMargin
  \/ StalledPast(asked[b.call].timestamp + MaxSkew, b.checked, b.at)

InTime(r, checked) == r.timestamp \in Nat /\ checked \in Nat /\ checked <= r.timestamp + MaxSkew

\* An accepted request is remembered until its record expires, and whoever is
\* about to be accepted was compared with the clock in time.
SignaturesInv ==
  /\ now \in Nat
  /\ \A c \in Call : Checked(c) => InTime(request[c], seen[c].checked)
  /\ \A a \in accepted :
       /\ a.call \in Call /\ a.at \in Nat /\ a.at <= now
       /\ request[a.call].op = "launch" /\ InTime(request[a.call], a.checked) /\ pc[a.call] \in Past
       /\ Recorded(a) \/ now >= a.at + MaxSkew + NonceMargin
  /\ \A a, b \in accepted : a # b /\ request[a.call] = request[b.call] /\ a.at <= b.at => Excused(request, a, b)

\* A token is of the one call that issued it, and once it is used its use is
\* remembered until it expires.
TokensInv ==
  /\ \A t \in launches :
       /\ t.jti \in Call /\ t.exp \in Nat
       /\ request[t.jti].op = "launch" /\ pc[t.jti] \in {"done", "crashed"}
  /\ \A t, u \in launches : t.jti = u.jti => t = u
  /\ \A u \in usedTokens : \E t \in launches : u = UsedToken(t)
  /\ \A c \in Call : Verified(c) => seen[c].token \in launches /\ seen[c].verified <= seen[c].token.exp
  /\ \A j \in joined :
       /\ j.token \in launches /\ j.verified <= j.token.exp /\ j.at \in Nat /\ j.at <= now
       /\ UsedToken(j.token) \in usedTokens \/ now >= j.token.exp
  /\ \A j, k \in joined : j # k /\ j.token = k.token /\ j.at <= k.at => k.token.exp <= k.at

AccessInv == CallsInv /\ KeysInv /\ SignaturesInv /\ TokensInv
-----------------------------------------------------------------------------
(* The calls                                                               *)

\* Nobody comes to use a key or a token, and what calls did stays done.
PastStays ==
  \A d \in Call : pc[d] \in Past /\ request[d].op \in KeyOps => pc'[d] \in Past /\ request'[d] = request[d]

Calm ==
  /\ PastStays
  /\ \A d \in Call : Checked(d)' => Checked(d) /\ seen'[d] = seen[d] /\ request'[d] = request[d]
  /\ \A d \in Call : Verified(d)' => Verified(d) /\ seen'[d] = seen[d]

LEMMA MovesOn ==
  ASSUME CallsInv, NEW c \in Call, NEW label, NEW value, Moves(c, label, value)
  PROVE  /\ \A d \in Call \ {c} : pc'[d] = pc[d] /\ seen'[d] = seen[d]
         /\ pc'[c] = label /\ seen'[c] = value /\ request' = request /\ pc[c] \notin Over
BY DEF CallsInv, Moves

LEMMA MovesCalm ==
  ASSUME CallsInv, NEW c \in Call, NEW label, NEW value, Moves(c, label, value),
         \/ request[c].op \notin KeyOps
         \/ label \notin {"nonce", "consume"} /\ (pc[c] \in Past => label \in Past)
  PROVE  Calm
<1>1. /\ \A d \in Call \ {c} : pc'[d] = pc[d] /\ seen'[d] = seen[d]
      /\ pc'[c] = label /\ seen'[c] = value /\ request' = request
  BY MovesOn
<1>2. ASSUME NEW d \in Call
      PROVE  /\ pc[d] \in Past /\ request[d].op \in KeyOps => pc'[d] \in Past /\ request'[d] = request[d]
             /\ Checked(d)' => Checked(d) /\ seen'[d] = seen[d] /\ request'[d] = request[d]
             /\ Verified(d)' => Verified(d) /\ seen'[d] = seen[d]
  <2>1. CASE d = c
    BY <1>1, <2>1 DEF Checked, Verified, KeyOps
  <2>2. CASE d # c
    BY <1>1, <2>2 DEF Checked, Verified
  <2> QED
    BY <2>1, <2>2
<1> QED
  BY <1>2 DEF Calm, PastStays

LEMMA EnterCalm ==
  ASSUME CallsInv, NEW c \in Call, NEW r, Enter(c, r)
  PROVE  Calm
<1>1. pc'[c] \notin {"nonce", "consume"} /\ pc[c] \notin Past
  BY RequestsAreFit, FirstLabels DEF Enter, CallsInv, Fits, Past
<1>2. \A d \in Call \ {c} : pc'[d] = pc[d] /\ seen'[d] = seen[d] /\ request'[d] = request[d]
  BY DEF Enter, CallsInv
<1> QED
  BY <1>1, <1>2 DEF Calm, PastStays, Checked, Verified

LEMMA StayCalm ==
  ASSUME CallsStay
  PROVE  Calm
BY DEF CallsStay, Calm, PastStays, Checked, Verified

LEMMA OtherOpsKeepKeys ==
  ASSUME NEW c \in Call, AccountStep(c) \/ PublishingStep(c)
  PROVE  request[c].op \notin KeyOps
<1>1. CASE AccountStep(c)
  BY <1>1 DEF AccountStep, CheckLock, FindUser, ReadAttempts, RecordFailure, ClearFailures, SignSession,
              CountUsers, SeedAdmin, CheckEmail, CreateUser, ReadTarget, CountAdmins, UpdateUser, SetPassword, Logout,
              Asked, KeyOps
<1>2. CASE PublishingStep(c)
  BY <1>2 DEF PublishingStep, CheckNew, SaveNew, ReadForPut, SavePut, FromPublished, ReadPublished, SaveFromPublished,
              ReadForUpload, UploadAsset, SaveUpload, ReadForClear, SaveClear, ReadForPublish, ReadVersion,
              InsertVersion, ReplaceLive, ReadForDelete, CountRounds, DeleteLive, DeleteVersions, DeleteDraft,
              SeedLive, SeedVersion, LoadGame, PlayRound, Asked, KeyOps
<1> QED
  BY <1>1, <1>2

-----------------------------------------------------------------------------
(* Keys                                                                    *)

\* At most one claim is new, of a key that is drawn now or whose owner claims it.
LEMMA KeysGrow ==
  ASSUME KeysInv, PastStays, operators' \in [Operator -> OperatorRow \cup {NoValue}],
         \A d \in Call : Checked(d)' => seen'[d].operator \in Operator,
         \A s \in signatures' : s.operator \in Operator,
         NEW key, NEW owner,
         \A k, o : Claimed(k, o)' => Claimed(k, o) \/ (k = key /\ o = owner),
         \A p \in Operator : Claimed(key, p) => p = owner,
         key = FirstKey \/ (key \in Call /\ request'[key].op \in KeyOps /\ pc'[key] \in Past)
  PROVE  KeysInv'
BY DEF KeysInv, PastStays

LEMMA KeysSame ==
  ASSUME KeysInv, Calm, UNCHANGED operators, signatures' \subseteq signatures
  PROVE  KeysInv'
<1>1. \A k, o : Claimed(k, o)' => Claimed(k, o)
  BY DEF Claimed, Calm
<1> QED
  BY <1>1 DEF KeysInv, Calm, PastStays

-----------------------------------------------------------------------------
(* Signatures                                                              *)

LEMMA AcceptedStay ==
  ASSUME SignaturesInv, PastStays, NEW a \in accepted
  PROVE  request'[a.call] = request[a.call] /\ pc'[a.call] \in Past
BY DEF SignaturesInv, PastStays, KeyOps

LEMMA ExcusedStays ==
  ASSUME NEW a, NEW b, request'[a.call] = request[a.call], request'[b.call] = request[b.call], Excused(request, a, b)
  PROVE  Excused(request', a, b)
BY DEF Excused, StalledPast

LEMMA SignaturesSame ==
  ASSUME SignaturesInv, PastStays, UNCHANGED accepted,
         \A d \in Call : Checked(d)' => Checked(d) /\ seen'[d] = seen[d] /\ request'[d] = request[d],
         now' \in Nat, now <= now',
         \A s \in signatures : s \in signatures' \/ (s.expireAt \in Nat => s.expireAt <= now')
  PROVE  SignaturesInv'
<1>1. \A a \in accepted : request'[a.call] = request[a.call] /\ pc'[a.call] \in Past
  BY AcceptedStay
<1>2. ASSUME NEW a \in accepted
      PROVE  a.at <= now' /\ (Recorded(a)' \/ now' >= a.at + MaxSkew + NonceMargin)
  <2> a.at \in Nat /\ a.at <= now /\ now \in Nat
    BY <1>2 DEF SignaturesInv
  <2>1. CASE Recorded(a)
    BY <1>1, <1>2, <2>1, AccessAssumption DEF Recorded, SignaturesInv
  <2>2. CASE now >= a.at + MaxSkew + NonceMargin
    BY <1>2, <2>2, AccessAssumption DEF SignaturesInv
  <2> QED
    BY <1>2, <2>1, <2>2 DEF SignaturesInv
<1>3. \A a, b \in accepted : a # b /\ request'[a.call] = request'[b.call] /\ a.at <= b.at => Excused(request', a, b)
  BY <1>1, ExcusedStays DEF SignaturesInv
<1>4. \A c \in Call : Checked(c)' => InTime(request'[c], seen'[c].checked)
  BY DEF SignaturesInv
<1>5. \A a \in accepted : InTime(request'[a.call], a.checked) /\ request'[a.call].op = "launch" /\ a.call \in Call /\ a.at \in Nat
  BY <1>1 DEF SignaturesInv
<1> QED
  BY <1>1, <1>2, <1>3, <1>4, <1>5 DEF SignaturesInv, InTime

LEMMA TokensSame ==
  ASSUME TokensInv, Later, UNCHANGED <<launches, joined>>,
         \A c \in Call : pc[c] \in {"done", "crashed"} => request[c] # NoValue,
         \A d \in Call : Verified(d)' => Verified(d) /\ seen'[d] = seen[d],
         now \in Nat, now' \in Nat, now <= now', usedTokens' \subseteq usedTokens,
         \A u \in usedTokens : u \in usedTokens' \/ u.expireAt <= now'
  PROVE  TokensInv'
<1>1. \A t \in launches : request'[t.jti] = request[t.jti] /\ pc'[t.jti] \in {"done", "crashed"}
  BY DEF TokensInv, Later
<1>2. \A u \in usedTokens' : \E t \in launches : u = UsedToken(t)
  BY DEF TokensInv
<1>3. ASSUME NEW j \in joined
      PROVE  /\ j.at \in Nat /\ j.at <= now'
             /\ UsedToken(j.token) \in usedTokens' \/ now' >= j.token.exp
  BY DEF TokensInv, UsedToken
<1>4. \A c \in Call : Verified(c)' => seen'[c].token \in launches /\ seen'[c].verified <= seen'[c].token.exp
  BY DEF TokensInv
<1> QED
  BY <1>1, <1>2, <1>3, <1>4 DEF TokensInv, UsedToken
-----------------------------------------------------------------------------
(* The steps that make keys and use them                                   *)

LEMMA KeyMade ==
  ASSUME CallsInv, KeysInv, NEW c \in Call, NEW label \in {"insert", "set"}, NEW op \in KeyOps, Asked(c, label, op),
         Moves(c, "audit", NoValue), UNCHANGED signatures, NEW o \in Operator, NEW row \in OperatorRow,
         row.key = c, operators' = [operators EXCEPT ![o] = row]
  PROVE  KeysInv'
<1>1. pc[c] \notin Past /\ c # FirstKey
  BY SituationsAssumption DEF Asked, Past
<1>2. Calm
  BY <1>1, MovesCalm DEF Past
<1>3. \A p \in Operator : ~Claimed(c, p)
  BY <1>1 DEF KeysInv
<1>4. \A p : p # o => operators'[p] = operators[p]
  BY DEF KeysInv
<1>5. operators'[o] = row /\ operators' \in [Operator -> OperatorRow \cup {NoValue}]
  BY DEF KeysInv
<1>6. \A k, p : Claimed(k, p)' => Claimed(k, p) \/ (k = c /\ p = o)
  BY <1>2, <1>4, <1>5 DEF Claimed, Calm
<1>7. request'[c].op \in KeyOps /\ pc'[c] \in Past
  BY MovesOn DEF Asked, Past
<1>8. PastStays /\ \A d \in Call : Checked(d)' => seen'[d].operator \in Operator
  BY <1>2 DEF Calm, KeysInv
<1>9. \A s \in signatures' : s.operator \in Operator
  BY DEF KeysInv
<1> QED
  BY <1>3, <1>5, <1>6, <1>7, <1>8, <1>9, KeysGrow

LEMMA KeysMade ==
  ASSUME CallsInv, KeysInv, NEW c \in Call, InsertOperator(c) \/ RotateSecret(c)
  PROVE  KeysInv'
<1> DEFINE r == request[c]
           o == r.operator
<1>1. \/ Asked(c, "insert", "createOperator") \/ Asked(c, "set", "rotateSecret")
  BY DEF InsertOperator, RotateSecret
<1>2. pc[c] \notin Over /\ pc[c] \notin Past /\ o \in Operator
  BY <1>1, RequestsAreFit DEF Asked, Over, Past, CallsInv, Fits
<1>3. ASSUME UNCHANGED <<operators, signatures>>, NEW outcome, Answer(c, outcome)
      PROVE  KeysInv'
  <2>1. Calm
    BY <1>2, <1>3, AnswerMoves, MovesCalm
  <2> QED
    BY <1>3, <2>1, KeysSame
<1>4. CASE InsertOperator(c)
  <2>1. CASE operators[o] # NoValue
    BY <1>3, <1>4, <2>1 DEF InsertOperator
  <2>2. CASE operators[o] = NoValue
    <3> DEFINE row == [key |-> c, games |-> r.games, disabled |-> FALSE]
    <3>1. r.games \subseteq Game
      BY <1>4, RequestsAreFit DEF InsertOperator, Asked, CallsInv, Fits
    <3>2. row \in OperatorRow /\ row.key = c
      BY <3>1 DEF OperatorRow, Key
    <3>3. /\ operators' = [operators EXCEPT ![o] = row] /\ UNCHANGED signatures /\ Moves(c, "audit", NoValue)
          /\ Asked(c, "insert", "createOperator")
      BY <1>2, <1>4, <2>2, GotoMoves DEF InsertOperator
    <3> HIDE DEF row
    <3> QED
      BY <1>2, <3>2, <3>3, KeyMade DEF KeyOps
  <2> QED
    BY <2>1, <2>2
<1>5. CASE RotateSecret(c)
  <2>1. CASE operators[o] = NoValue
    BY <1>3, <1>5, <2>1 DEF RotateSecret
  <2>2. CASE operators[o] # NoValue
    <3> DEFINE row == [operators[o] EXCEPT !.key = c]
    <3>1. operators[o] \in OperatorRow
      BY <1>2, <2>2 DEF KeysInv
    <3>2. row \in OperatorRow /\ row.key = c
      BY <3>1 DEF OperatorRow, Key
    <3>3. operators' = [operators EXCEPT ![o].key = c] /\ UNCHANGED signatures /\ Moves(c, "audit", NoValue)
          /\ Asked(c, "set", "rotateSecret")
      BY <1>2, <1>5, <2>2, GotoMoves DEF RotateSecret
    <3>4. operators' = [operators EXCEPT ![o] = row]
      BY <1>2, <3>3 DEF KeysInv
    <3> HIDE DEF row
    <3> QED
      BY <1>2, <3>2, <3>3, <3>4, KeyMade DEF KeyOps
  <2> QED
    BY <2>1, <2>2
<1> QED
  BY <1>4, <1>5

\* An update keeps the key.
LEMMA KeysUpdated ==
  ASSUME CallsInv, KeysInv, NEW c \in Call, UpdateOperator(c)
  PROVE  KeysInv' /\ Calm
<1> DEFINE r == request[c]
           o == r.operator
           row == Updated(operators[o], r.patch)
<1>1. /\ pc[c] \notin Over /\ request[c].op \notin KeyOps /\ UNCHANGED signatures
      /\ o \in Operator
      /\ "games" \in DOMAIN r.patch => r.patch.games \subseteq Game
      /\ "disabled" \in DOMAIN r.patch => r.patch.disabled \in BOOLEAN
  BY RequestsAreFit DEF UpdateOperator, Asked, Over, KeyOps, CallsInv, Fits
<1>2. Moves(c, "done", NoValue) \/ Moves(c, "audit", NoValue)
  BY <1>1, GotoMoves, AnswerMoves DEF UpdateOperator
<1>3. Calm
  BY <1>1, <1>2, MovesCalm
<1>4. CASE UNCHANGED operators
  BY <1>1, <1>3, <1>4, KeysSame
<1>5. CASE ~UNCHANGED operators
  <2>1. operators' = [operators EXCEPT ![o] = row] /\ operators[o] # NoValue
    BY <1>5 DEF UpdateOperator
  <2>2. operators[o] \in OperatorRow
    BY <1>1, <2>1 DEF KeysInv
  <2>3. row \in OperatorRow /\ row.key = operators[o].key
    BY <1>1, <2>2 DEF OperatorRow, Updated
  <2> HIDE DEF row
  <2>4. /\ \A p \in Operator : p # o => operators'[p] = operators[p]
        /\ operators'[o] = row /\ operators' \in [Operator -> OperatorRow \cup {NoValue}]
    BY <1>1, <2>1, <2>3 DEF KeysInv
  <2>5. \A k : \A p \in Operator : Claimed(k, p)' => Claimed(k, p)
    BY <1>1, <1>3, <2>1, <2>3, <2>4 DEF Claimed, Calm
  <2> QED
    BY <1>1, <1>3, <2>4, <2>5 DEF KeysInv, Calm, PastStays
<1> QED
  BY <1>3, <1>4, <1>5

\* The hook finds the one operator that has the key.
LEMMA SignatureChecked ==
  ASSUME CallsInv, KeysInv, SignaturesInv, NEW c \in Call, CheckSignature(c)
  PROVE  KeysInv' /\ SignaturesInv'
<1> DEFINE r == request[c]
           owners == KeyOwners(r.key)
           o == CHOOSE p \in owners : TRUE
<1>1. /\ pc[c] \notin Over /\ pc[c] \notin Past /\ r.op = "launch" /\ UNCHANGED <<accessVars, now>>
      /\ r.key \in Key /\ r.timestamp \in Nat
  BY RequestsAreFit DEF CheckSignature, Asked, Over, Past, CallsInv, Fits, Goto, Answer, Frame
<1>2. CASE \E outcome : Answer(c, outcome)
  <2>1. Calm
    BY <1>1, <1>2, AnswerMoves, MovesCalm
  <2> QED
    BY <1>1, <2>1, KeysSame, SignaturesSame DEF accessVars, Calm, SignaturesInv
<1> DEFINE found == [operator |-> o, checked |-> now]
<1>3. CASE Distance(now, r.timestamp) <= MaxSkew /\ owners # {} /\ Goto(c, "nonce", found)
  <2>1. o \in owners
    BY <1>3
  <2>2. PICK p \in Operator : p = o /\ operators[p] # NoValue /\ operators[p].key = r.key
    BY <2>1 DEF KeyOwners
  <2>3. Claimed(r.key, p)
    BY <2>2 DEF Claimed
  <2>4. Moves(c, "nonce", found) /\ found.operator = p /\ found.checked = now
    BY <1>1, <1>3, <2>2, GotoMoves
  <2> HIDE DEF found
  <2>5. /\ \A d \in Call \ {c} : pc'[d] = pc[d] /\ seen'[d] = seen[d]
        /\ pc'[c] = "nonce" /\ seen'[c] = found /\ request' = request
    BY <2>4, MovesOn
  <2>6. PastStays
    BY <1>1, <2>5 DEF PastStays
  <2>7. \A d \in Call \ {c} : Checked(d)' => Checked(d) /\ seen'[d] = seen[d]
    BY <2>5 DEF Checked
  <2>8. \A k, q : Claimed(k, q)' => Claimed(k, q)
    <3> SUFFICES ASSUME NEW k, NEW q, Claimed(k, q)'
                 PROVE  Claimed(k, q)
      OBVIOUS
    <3>1. CASE operators'[q] # NoValue /\ operators'[q].key = k
      BY <1>1, <3>1 DEF Claimed, accessVars
    <3>2. CASE \E d \in Call : Checked(d)' /\ request'[d].key = k /\ seen'[d].operator = q
      BY <2>3, <2>4, <2>5, <2>7, <3>2 DEF Claimed
    <3>3. CASE \E s \in signatures' : s.request.key = k /\ s.operator = q
      BY <1>1, <3>3 DEF Claimed, accessVars
    <3> QED
      BY <3>1, <3>2, <3>3 DEF Claimed
  <2>9. KeysInv'
    <3>1. \A d \in Call : Checked(d)' => seen'[d].operator \in Operator
      BY <2>4, <2>5, <2>7 DEF KeysInv
    <3> QED
      BY <1>1, <2>6, <2>8, <3>1 DEF KeysInv, PastStays, accessVars
  <2>10. SignaturesInv'
    <3>1. \A a \in accepted : request'[a.call] = request[a.call] /\ pc'[a.call] \in Past
      BY <2>6, AcceptedStay
    <3>2. \A d \in Call : Checked(d)' => InTime(request'[d], seen'[d].checked)
      <4>1. InTime(r, now)
        BY <1>1, <1>3, AccessAssumption DEF InTime, Distance, SignaturesInv
      <4>2. \A d \in Call \ {c} : Checked(d)' => InTime(request'[d], seen'[d].checked)
        BY <2>5, <2>7 DEF SignaturesInv
      <4> QED
        BY <2>4, <2>5, <4>1, <4>2
    <3>3. \A a \in accepted : Recorded(a)' <=> Recorded(a)
      BY <1>1, <3>1 DEF Recorded, accessVars
    <3>4. \A a, b \in accepted : Excused(request, a, b) => Excused(request', a, b)
      BY <3>1, ExcusedStays
    <3>5. accepted' = accepted /\ now' = now
      BY <1>1 DEF accessVars
    <3> QED
      BY <3>1, <3>2, <3>3, <3>4, <3>5 DEF SignaturesInv, InTime
  <2> QED
    BY <2>9, <2>10
<1>4. Distance(now, r.timestamp) > MaxSkew \/ Distance(now, r.timestamp) <= MaxSkew
  BY <1>1, AccessAssumption DEF Distance, SignaturesInv
<1>5. \/ \E outcome : Answer(c, outcome)
      \/ ~(Distance(now, r.timestamp) > MaxSkew) /\ owners # {} /\ Goto(c, "nonce", found)
  BY DEF CheckSignature
<1> QED
  BY <1>2, <1>3, <1>4, <1>5
\* The insert of the signature's record is the check: whoever passes it was not
\* accepted before, or so long ago that the request is dated ahead or is late.
LEMMA SignatureRecorded ==
  ASSUME CallsInv, KeysInv, SignaturesInv, NEW c \in Call, RecordSignature(c)
  PROVE  KeysInv' /\ SignaturesInv' /\ Calm
<1> DEFINE r == request[c]
           o == seen[c].operator
           new == [call |-> c, checked |-> seen[c].checked, at |-> now]
           rec == SignatureRecord(o, r)
<1>1. /\ Checked(c) /\ pc[c] \notin Over /\ pc[c] \notin Past /\ UNCHANGED <<operators, now>> /\ now \in Nat
  BY DEF RecordSignature, Asked, Checked, Over, Past, Goto, Answer, Frame, SignaturesInv
<1>2. Moves(c, "done", NoValue) \/ Moves(c, "enabled", o)
  BY <1>1, GotoMoves, AnswerMoves DEF RecordSignature
<1>3. Calm
  BY <1>1, <1>2, MovesCalm
<1>4. CASE UNCHANGED <<signatures, accepted>>
  BY <1>1, <1>3, <1>4, KeysSame, SignaturesSame DEF Calm
<1>5. CASE ~UNCHANGED <<signatures, accepted>>
  <2>1. /\ signatures' = signatures \cup {rec} /\ accepted' = accepted \cup {new} /\ Goto(c, "enabled", o)
        /\ ~\E s \in signatures : s.operator = o /\ s.request = r
    BY <1>5 DEF RecordSignature
  <2>2. pc'[c] = "enabled" /\ request' = request
    BY <1>1, <2>1, GotoMoves, MovesOn
  <2>3. rec.operator = o /\ rec.request = r /\ rec.expireAt = now + MaxSkew + NonceMargin
    BY DEF SignatureRecord, SignatureExpiry
  <2>4. new.call = c /\ new.at = now /\ new.checked = seen[c].checked
    OBVIOUS
  <2> HIDE DEF rec, new
  <2>5. o \in Operator /\ Claimed(r.key, o)
    BY <1>1 DEF KeysInv, Claimed
  <2>6. KeysInv'
    <3>1. \A k, q : Claimed(k, q)' => Claimed(k, q)
      BY <1>1, <1>3, <2>1, <2>3, <2>5 DEF Claimed, Calm
    <3>2. \A s \in signatures' : s.operator \in Operator
      BY <2>1, <2>3, <2>5 DEF KeysInv
    <3> QED
      BY <1>1, <1>3, <3>1, <3>2 DEF KeysInv, Calm, PastStays
  <2>7. InTime(r, new.checked) /\ r.op = "launch"
    BY <1>1, <2>4 DEF SignaturesInv, Checked
  <2>8. \A a \in accepted : request'[a.call] = request[a.call] /\ pc'[a.call] \in Past /\ a.call # c
    BY <1>1, <1>3, AcceptedStay DEF Calm, SignaturesInv
  <2>9. ASSUME NEW a \in accepted, request[a.call] = r
        PROVE  Excused(request', a, new) /\ (new.at <= a.at => Excused(request', new, a))
    <3>1. ~Recorded(a)
      <4> SUFFICES ASSUME NEW s \in signatures, s.request = r
                   PROVE  FALSE
        BY <2>9 DEF Recorded
      <4>1. s.operator \in Operator /\ Claimed(r.key, s.operator)
        BY DEF KeysInv, Claimed
      <4> QED
        BY <2>1, <2>5, <4>1 DEF KeysInv
    <3>2. /\ now >= a.at + MaxSkew + NonceMargin /\ a.at \in Nat /\ a.at <= now
          /\ InTime(r, a.checked)
      BY <2>9, <3>1 DEF SignaturesInv
    <3>3. request'[a.call] = r /\ request'[new.call] = r
      BY <2>2, <2>4, <2>9
    <3>4. Excused(request', a, new)
      BY <1>1, <2>4, <2>7, <3>2, <3>3, AccessAssumption DEF Excused, StalledPast, InTime
    <3>5. ASSUME new.at <= a.at
          PROVE  Excused(request', new, a)
      BY <1>1, <2>4, <2>7, <3>2, <3>3, <3>5, AccessAssumption DEF Excused, StalledPast, InTime
    <3> QED
      BY <3>4, <3>5
  <2>10. \A a, b \in accepted : Excused(request, a, b) => Excused(request', a, b)
    BY <2>8, ExcusedStays
  <2>11. \A a, b \in accepted' : a # b /\ request'[a.call] = request'[b.call] /\ a.at <= b.at => Excused(request', a, b)
    <3> SUFFICES ASSUME NEW a \in accepted', NEW b \in accepted', a # b, request'[a.call] = request'[b.call], a.at <= b.at
                 PROVE  Excused(request', a, b)
      OBVIOUS
    <3>1. CASE a \in accepted /\ b \in accepted
      BY <2>8, <2>10, <3>1 DEF SignaturesInv
    <3>2. CASE a \in accepted /\ b = new
      BY <2>2, <2>4, <2>9, <3>2
    <3>3. CASE a = new /\ b \in accepted
      BY <2>2, <2>4, <2>9, <3>3
    <3> QED
      BY <2>1, <3>1, <3>2, <3>3
  <2>12. ASSUME NEW a \in accepted'
         PROVE  /\ a.call \in Call /\ a.at \in Nat /\ a.at <= now'
                /\ request'[a.call].op = "launch" /\ InTime(request'[a.call], a.checked) /\ pc'[a.call] \in Past
                /\ Recorded(a)' \/ now' >= a.at + MaxSkew + NonceMargin
    <3>1. CASE a \in accepted
      <4>1. Recorded(a) => Recorded(a)'
        BY <2>1, <2>8, <3>1 DEF Recorded
      <4> QED
        BY <1>1, <2>8, <3>1, <4>1 DEF SignaturesInv
    <3>2. CASE a = new
      <4>1. rec \in signatures' /\ rec.request = request'[a.call] /\ rec.expireAt = a.at + MaxSkew + NonceMargin
        BY <2>1, <2>2, <2>3, <2>4, <3>2
      <4> QED
        BY <1>1, <2>2, <2>4, <2>7, <3>2, <4>1 DEF Recorded, Past
    <3> QED
      BY <2>1, <3>1, <3>2
  <2>13. \A d \in Call : Checked(d)' => InTime(request'[d], seen'[d].checked)
    BY <1>1, <1>3 DEF Calm, SignaturesInv
  <2> QED
    BY <1>1, <1>3, <2>6, <2>11, <2>12, <2>13 DEF SignaturesInv, InTime
<1> QED
  BY <1>3, <1>4, <1>5

-----------------------------------------------------------------------------
(* The steps of launch tokens                                              *)

LEMMA TokenIssued ==
  ASSUME CallsInv, Later, TokensInv, now \in Nat, NEW c \in Call, IssueLaunchToken(c)
  PROVE  TokensInv' /\ Calm
<1> DEFINE t == LaunchToken(c)
<1>1. /\ pc[c] = "published" /\ request[c].op = "launch" /\ request[c] # NoValue
      /\ UNCHANGED <<usedTokens, joined, now>>
  BY RequestsAreFit DEF IssueLaunchToken, Asked, CallsInv, Goto, Answer, Frame
<1>2. Moves(c, "done", NoValue)
  BY <1>1, AnswerMoves DEF IssueLaunchToken, Over
<1>3. Calm
  BY <1>2, MovesCalm DEF Past
<1>4. CASE UNCHANGED launches
  <2>1. \A d \in Call : pc[d] \in {"done", "crashed"} => request[d] # NoValue
    BY RequestsAreFit DEF CallsInv
  <2> QED
    BY <1>1, <1>3, <1>4, <2>1, TokensSame DEF Calm
<1>5. CASE launches' = launches \cup {t}
  <2>1. t.jti = c /\ t.exp \in Nat
    BY AccessAssumption DEF LaunchToken
  <2> HIDE DEF t
  <2>2. pc'[c] = "done" /\ request' = request
    BY <1>2, MovesOn
  <2>3. \A u \in launches : u.jti # c
    BY <1>1 DEF TokensInv
  <2>4. ASSUME NEW u \in launches'
        PROVE  u.jti \in Call /\ u.exp \in Nat /\ request'[u.jti].op = "launch" /\ pc'[u.jti] \in {"done", "crashed"}
    <3>1. CASE u \in launches
      <4>1. u.jti \in Call /\ pc[u.jti] \in {"done", "crashed"}
        BY <3>1 DEF TokensInv
      <4> QED
        BY <2>2, <3>1, <4>1 DEF TokensInv, Later
    <3>2. CASE u = t
      BY <1>1, <2>1, <2>2, <3>2
    <3> QED
      BY <1>5, <3>1, <3>2
  <2>5. \A u, v \in launches' : u.jti = v.jti => u = v
    BY <1>5, <2>1, <2>3 DEF TokensInv
  <2>6. \A u \in usedTokens' : \E v \in launches' : u = UsedToken(v)
    BY <1>1, <1>5 DEF TokensInv
  <2>7. \A d \in Call : Verified(d)' => seen'[d].token \in launches' /\ seen'[d].verified <= seen'[d].token.exp
    BY <1>1, <1>3, <1>5 DEF TokensInv, Calm
  <2>8. \A j \in joined' : j.token \in launches' /\ (UsedToken(j.token) \in usedTokens' \/ now' >= j.token.exp)
    BY <1>1, <1>5 DEF TokensInv
  <2> QED
    BY <1>1, <1>3, <2>4, <2>5, <2>6, <2>7, <2>8 DEF TokensInv, UsedToken
<1> QED
  BY <1>3, <1>4, <1>5 DEF IssueLaunchToken

LEMMA TokenPresented ==
  ASSUME CallsInv, Later, TokensInv, now \in Nat, NEW c \in Call, PresentToken(c)
  PROVE  TokensInv' /\ PastStays /\ \A d \in Call : Checked(d)' => Checked(d) /\ seen'[d] = seen[d] /\ request'[d] = request[d]
<1>1. /\ pc[c] = "verify" /\ request[c].op = "join" /\ UNCHANGED <<launches, usedTokens, joined, now>>
  BY DEF PresentToken, Asked, accessVars, Goto, Answer, Frame
<1>2. PICK t \in launches : IF Expired(t) THEN Answer(c, "token_expired") ELSE Goto(c, "consume", [token |-> t, verified |-> now])
  BY DEF PresentToken
<1>3. \A d \in Call : pc[d] \in {"done", "crashed"} => request[d] # NoValue
  BY RequestsAreFit DEF CallsInv
<1>4. CASE Expired(t)
  <2>1. Calm
    BY <1>1, <1>2, <1>4, AnswerMoves, MovesCalm DEF Over, Past
  <2> QED
    BY <1>1, <1>3, <2>1, TokensSame DEF Calm
<1>5. CASE ~Expired(t)
  <2> DEFINE good == [token |-> t, verified |-> now]
  <2>1. /\ \A d \in Call \ {c} : pc'[d] = pc[d] /\ seen'[d] = seen[d]
        /\ pc'[c] = "consume" /\ seen'[c] = good /\ request' = request
    BY <1>1, <1>2, <1>5, GotoMoves, MovesOn DEF Over
  <2>2. good.token = t /\ good.verified <= t.exp
    BY <1>5 DEF Expired, TokensInv
  <2> HIDE DEF good
  <2>3. \A d \in Call : Verified(d)' => seen'[d].token \in launches' /\ seen'[d].verified <= seen'[d].token.exp
    BY <1>1, <2>1, <2>2 DEF TokensInv, Verified
  <2>4. \A u \in launches : request'[u.jti].op = "launch" /\ pc'[u.jti] \in {"done", "crashed"}
    BY <1>1, <2>1 DEF TokensInv
  <2>5. TokensInv'
    BY <1>1, <2>3, <2>4 DEF TokensInv, UsedToken
  <2>6. PastStays
    BY <1>1, <2>1 DEF PastStays, Past
  <2> QED
    BY <2>1, <2>5, <2>6 DEF Checked
<1> QED
  BY <1>4, <1>5

\* The insert of the record of a token's use is the check.
LEMMA TokenConsumed ==
  ASSUME CallsInv, Later, TokensInv, now \in Nat, NEW c \in Call, ConsumeToken(c)
  PROVE  TokensInv' /\ Calm
<1> DEFINE t == seen[c].token
           new == [call |-> c, token |-> t, verified |-> seen[c].verified, at |-> now]
<1>1. /\ Verified(c) /\ UNCHANGED <<launches, now>> /\ pc[c] \notin Over /\ pc[c] \notin Past
  BY DEF ConsumeToken, Asked, Verified, Goto, Answer, Frame, Over, Past
<1>2. Moves(c, "done", NoValue)
  BY <1>1, AnswerMoves DEF ConsumeToken
<1>3. Calm
  BY <1>1, <1>2, MovesCalm
<1>4. \A d \in Call : pc[d] \in {"done", "crashed"} => request[d] # NoValue
  BY RequestsAreFit DEF CallsInv
<1>5. CASE UNCHANGED <<usedTokens, joined>>
  BY <1>1, <1>3, <1>4, <1>5, TokensSame DEF Calm
<1>6. CASE ~UNCHANGED <<usedTokens, joined>>
  <2>1. /\ ~\E u \in usedTokens : u.jti = t.jti
        /\ usedTokens' = usedTokens \cup {UsedToken(t)} /\ joined' = joined \cup {new}
    BY <1>6 DEF ConsumeToken
  <2>2. t \in launches /\ seen[c].verified <= t.exp /\ t.exp \in Nat
    BY <1>1 DEF TokensInv
  <2>3. UsedToken(t).jti = t.jti /\ new.token = t /\ new.verified <= t.exp /\ new.at = now
    BY <2>2 DEF UsedToken
  <2> HIDE DEF new
  <2>4. \A j \in joined : j.at \in Nat /\ j.at <= now /\ (j.token = t => t.exp <= now)
    BY <2>1, <2>2, <2>3 DEF TokensInv
  <2>5. \A u \in launches : request'[u.jti] = request[u.jti] /\ pc'[u.jti] \in {"done", "crashed"}
    BY <1>4 DEF TokensInv, Later
  <2>6. \A u \in usedTokens' : \E v \in launches' : u = UsedToken(v)'
    BY <1>1, <2>1, <2>2 DEF TokensInv, UsedToken
  <2>7. \A j \in joined' :
          /\ j.token \in launches' /\ j.verified <= j.token.exp /\ j.at \in Nat /\ j.at <= now'
          /\ UsedToken(j.token)' \in usedTokens' \/ now' >= j.token.exp
    <3> SUFFICES ASSUME NEW j \in joined'
                 PROVE  /\ j.token \in launches' /\ j.verified <= j.token.exp /\ j.at \in Nat /\ j.at <= now'
                        /\ UsedToken(j.token) \in usedTokens' \/ now' >= j.token.exp
      BY DEF UsedToken
    <3>1. CASE j \in joined
      BY <1>1, <2>1, <3>1 DEF TokensInv
    <3>2. CASE j = new
      BY <1>1, <2>1, <2>2, <2>3, <3>2
    <3> QED
      BY <2>1, <3>1, <3>2
  <2>8. \A j, k \in joined' : j # k /\ j.token = k.token /\ j.at <= k.at => k.token.exp <= k.at
    <3> SUFFICES ASSUME NEW j \in joined', NEW k \in joined', j # k, j.token = k.token, j.at <= k.at
                 PROVE  k.token.exp <= k.at
      OBVIOUS
    <3>1. CASE j \in joined /\ k \in joined
      BY <3>1 DEF TokensInv
    <3>2. CASE k = new
      BY <2>1, <2>3, <2>4, <3>2
    <3>3. CASE j = new /\ k \in joined
      <4>1. k.at = now /\ k.token = t
        BY <2>3, <2>4, <3>3
      <4> QED
        BY <2>4, <3>3, <4>1
    <3> QED
      BY <2>1, <3>1, <3>2, <3>3
  <2>9. \A d \in Call : Verified(d)' => seen'[d].token \in launches' /\ seen'[d].verified <= seen'[d].token.exp
    BY <1>1, <1>3 DEF TokensInv, Calm
  <2> QED
    BY <1>1, <1>3, <2>5, <2>6, <2>7, <2>8, <2>9 DEF TokensInv
<1> QED
  BY <1>3, <1>5, <1>6
-----------------------------------------------------------------------------
(* Every step                                                              *)

\* No step of a call moves the clock.
LEMMA ClockStays ==
  ASSUME NEW c \in Call,
         \/ CallStep(c) \/ AuthHook(c, First) \/ AccountStep(c) \/ PublishingStep(c) \/ AccessStep(c)
  PROVE  now' = now
<1>1. CASE CallStep(c) \/ AuthHook(c, First)
  BY <1>1 DEF CallStep, Arrive, WriteAudit, Crash, AuthHook, Goto, Answer, Frame
<1>2. CASE AccountStep(c)
  <2>1. CASE CreateUser(c)
    BY <2>1 DEF CreateUser, Inserted, Goto, Answer, Frame
  <2>2. CASE ~CreateUser(c)
    BY <1>2, <2>2 DEF AccountStep, CheckLock, FindUser, ReadAttempts, RecordFailure, ClearFailures, SignSession,
                CountUsers, SeedAdmin, CheckEmail, ReadTarget, CountAdmins, UpdateUser, SetPassword, Logout,
                Goto, Answer, Frame
  <2> QED
    BY <2>1, <2>2
<1>3. CASE PublishingStep(c)
  BY <1>3 DEF PublishingStep, CheckNew, SaveNew, ReadForPut, SavePut, FromPublished, ReadPublished, SaveFromPublished,
              ReadForUpload, UploadAsset, SaveUpload, ReadForClear, SaveClear, ReadForPublish, ReadVersion,
              InsertVersion, ReplaceLive, ReadForDelete, CountRounds, DeleteLive, DeleteVersions, DeleteDraft,
              SeedLive, SeedVersion, LoadGame, PlayRound, Goto, Answer, Frame
<1>4. CASE AccessStep(c)
  BY <1>4 DEF AccessStep, CheckOperator, InsertOperator, UpdateOperator, RotateSecret, CheckSignature,
              RecordSignature, CheckEnabled, IssueLaunchToken, PresentToken, ConsumeToken, Goto, Answer, Frame
<1> QED
  BY <1>1, <1>2, <1>3, <1>4

LEMMA CalmPreserves ==
  ASSUME CallsInv, CallsInv', Later, AccessInv, Calm,
         UNCHANGED <<operators, accepted, launches, joined>>,
         now' = now \/ now' = now + 1,
         signatures' \subseteq signatures, \A s \in signatures : s \in signatures' \/ s.expireAt <= now,
         usedTokens' \subseteq usedTokens, \A u \in usedTokens : u \in usedTokens' \/ u.expireAt <= now
  PROVE  AccessInv'
<1>1. KeysInv /\ SignaturesInv /\ TokensInv /\ now \in Nat
  BY DEF AccessInv, SignaturesInv
<1>2. now' \in Nat /\ now <= now'
  BY <1>1
<1>4. KeysInv'
  BY <1>1, KeysSame
<1>5. \A s \in signatures : s \in signatures' \/ (s.expireAt \in Nat => s.expireAt <= now')
  <2> SUFFICES ASSUME NEW s \in signatures, s.expireAt <= now, s.expireAt \in Nat
               PROVE  s.expireAt <= now'
    OBVIOUS
  <2> QED
    BY <1>1
<1>6. \A u \in usedTokens : u \in usedTokens' \/ u.expireAt <= now'
  <2> SUFFICES ASSUME NEW u \in usedTokens, u.expireAt <= now, now' = now + 1
               PROVE  u.expireAt <= now'
    OBVIOUS
  <2>1. u.expireAt \in Nat
    BY <1>1 DEF TokensInv, UsedToken
  <2> QED
    BY <1>1, <2>1
<1>7. SignaturesInv'
  BY <1>1, <1>2, <1>5, SignaturesSame DEF Calm
<1>8. \A d \in Call : pc[d] \in {"done", "crashed"} => request[d] # NoValue
  BY RequestsAreFit DEF CallsInv
<1>9. TokensInv'
  BY <1>1, <1>2, <1>6, <1>8, TokensSame DEF Calm
<1> QED
  BY <1>4, <1>7, <1>9 DEF AccessInv

LEMMA AccessStepPreserves ==
  ASSUME CallsInv, CallsInv', Later, AccessInv, NEW c \in Call, AccessStep(c)
  PROVE  AccessInv'
<1>1. KeysInv /\ SignaturesInv /\ TokensInv /\ now' = now /\ now \in Nat
  BY ClockStays DEF AccessInv, SignaturesInv
<1>2. \A d \in Call : pc[d] \in {"done", "crashed"} => request[d] # NoValue
  BY RequestsAreFit DEF CallsInv
<1>3. CASE CheckOperator(c) \/ CheckEnabled(c)
  <2>1. /\ UNCHANGED accessVars
        /\ pc[c] \notin Over /\ (pc[c] \in Past => pc[c] = "enabled")
    BY <1>3 DEF CheckOperator, CheckEnabled, Asked, Over, Past
  <2>2. \/ Moves(c, "done", NoValue)
        \/ pc[c] = "read" /\ Moves(c, "insert", NoValue)
        \/ \E value : Moves(c, "published", value)
    BY <1>3, <2>1, GotoMoves, AnswerMoves DEF CheckOperator, CheckEnabled, Asked
  <2>3. Calm
    BY <2>2, MovesCalm DEF Past
  <2> QED
    BY <1>1, <2>1, <2>3, CalmPreserves DEF accessVars
<1>4. CASE InsertOperator(c) \/ RotateSecret(c)
  <2>1. UNCHANGED <<signatures, accepted, launches, usedTokens, joined>>
    BY <1>4 DEF InsertOperator, RotateSecret
  <2>2. pc[c] \notin Over /\ pc[c] \notin Past
    BY <1>4 DEF InsertOperator, RotateSecret, Asked, Over, Past
  <2>3. Moves(c, "done", NoValue) \/ Moves(c, "audit", NoValue)
    BY <1>4, <2>2, GotoMoves, AnswerMoves DEF InsertOperator, RotateSecret
  <2>4. Calm
    BY <2>2, <2>3, MovesCalm DEF Past
  <2>5. KeysInv'
    BY <1>1, <1>4, KeysMade
  <2>6. SignaturesInv'
    BY <1>1, <2>1, <2>4, SignaturesSame DEF Calm
  <2>7. TokensInv'
    BY <1>1, <1>2, <2>1, <2>4, TokensSame DEF Calm
  <2> QED
    BY <2>5, <2>6, <2>7 DEF AccessInv
<1>5. CASE UpdateOperator(c)
  <2>1. UNCHANGED <<signatures, accepted, launches, usedTokens, joined>>
    BY <1>5 DEF UpdateOperator
  <2>2. KeysInv' /\ Calm
    BY <1>1, <1>5, KeysUpdated
  <2>3. SignaturesInv'
    BY <1>1, <2>1, <2>2, SignaturesSame DEF Calm
  <2>4. TokensInv'
    BY <1>1, <1>2, <2>1, <2>2, TokensSame DEF Calm
  <2> QED
    BY <2>2, <2>3, <2>4 DEF AccessInv
<1>6. CASE CheckSignature(c)
  <2>1. KeysInv' /\ SignaturesInv'
    BY <1>1, <1>6, SignatureChecked
  <2>2. UNCHANGED accessVars /\ request[c].op = "launch" /\ pc[c] \notin Over
    BY <1>6 DEF CheckSignature, Asked, Over
  <2>3. \E label, value : Moves(c, label, value)
    BY <1>6, <2>2, GotoMoves, AnswerMoves DEF CheckSignature
  <2>4. \A d \in Call : Verified(d)' => Verified(d) /\ seen'[d] = seen[d]
    BY <2>2, <2>3, MovesOn DEF Verified
  <2>5. TokensInv'
    BY <1>1, <1>2, <2>2, <2>4, TokensSame DEF accessVars
  <2> QED
    BY <2>1, <2>5 DEF AccessInv
<1>7. CASE RecordSignature(c)
  <2>1. KeysInv' /\ SignaturesInv' /\ Calm
    BY <1>1, <1>7, SignatureRecorded
  <2>2. UNCHANGED <<launches, usedTokens, joined>>
    BY <1>7 DEF RecordSignature
  <2>3. TokensInv'
    BY <1>1, <1>2, <2>1, <2>2, TokensSame DEF Calm
  <2> QED
    BY <2>1, <2>3 DEF AccessInv
<1>8. CASE IssueLaunchToken(c) \/ ConsumeToken(c)
  <2>1. TokensInv' /\ Calm
    BY <1>1, <1>8, TokenIssued, TokenConsumed
  <2>2. UNCHANGED <<operators, signatures, accepted>>
    BY <1>8 DEF IssueLaunchToken, ConsumeToken
  <2>3. KeysInv'
    BY <1>1, <2>1, <2>2, KeysSame
  <2>4. SignaturesInv'
    BY <1>1, <2>1, <2>2, SignaturesSame DEF Calm
  <2> QED
    BY <2>1, <2>3, <2>4 DEF AccessInv
<1>9. CASE PresentToken(c)
  <2>1. /\ TokensInv' /\ PastStays
        /\ \A d \in Call : Checked(d)' => Checked(d) /\ seen'[d] = seen[d] /\ request'[d] = request[d]
    BY <1>1, <1>9, TokenPresented
  <2>2. UNCHANGED <<operators, signatures, accepted>>
    BY <1>9 DEF PresentToken, accessVars
  <2>3. KeysInv'
    <3>1. \A k, o : Claimed(k, o)' => Claimed(k, o)
      BY <2>1, <2>2 DEF Claimed
    <3> QED
      BY <1>1, <2>1, <2>2, <3>1 DEF KeysInv, PastStays
  <2>4. SignaturesInv'
    BY <1>1, <2>1, <2>2, SignaturesSame
  <2> QED
    BY <2>1, <2>3, <2>4 DEF AccessInv
<1> QED
  BY <1>3, <1>4, <1>5, <1>6, <1>7, <1>8, <1>9 DEF AccessStep

LEMMA AccessGoesOn == AccessInv /\ [Next]_vars => AccessInv'
<1> SUFFICES ASSUME AccessInv, [Next]_vars
             PROVE  AccessInv'
  OBVIOUS
<1>1. CallsInv /\ CallsInv' /\ Later
  BY CallsGoOn DEF AccessInv
<1>2. ASSUME Calm, UNCHANGED accessVars, now' = now \/ now' = now + 1
      PROVE  AccessInv'
  BY <1>1, <1>2, CalmPreserves DEF accessVars
<1>3. ASSUME NEW c \in Call, CallStep(c), UNCHANGED accessVars
      PROVE  AccessInv'
  <2>1. Calm
    <3>1. CASE WriteAudit(c, Actor(c)) \/ Crash(c)
      <4>1. \E label : Moves(c, label, NoValue) /\ label \in {"done", "crashed"}
        BY <3>1, EndMoves
      <4> QED
        BY <1>1, <4>1, MovesCalm DEF Past
    <3> QED
      BY <1>1, <1>3, <3>1, ArriveBegins, EnterCalm DEF CallStep
  <2> QED
    BY <1>2, <1>3, <2>1, ClockStays
<1>4. ASSUME NEW c \in Call, AuthHook(c, First), UNCHANGED accessVars
      PROVE  AccessInv'
  <2>1. PICK label : Moves(c, label, NoValue) /\ label \in {"done", First[request[c].op]}
    BY <1>1, <1>4, HookMoves
  <2>2. label \notin {"nonce", "consume"} /\ pc[c] \notin Past
    BY <1>1, <1>4, <2>1, RequestsAreFit, FirstLabels DEF AuthHook, CallsInv, Fits, Past
  <2> QED
    BY <1>1, <1>2, <1>4, <2>1, <2>2, MovesCalm, ClockStays
<1>5. ASSUME NEW c \in Call, AccountStep(c) \/ PublishingStep(c), UNCHANGED accessVars
      PROVE  AccessInv'
  BY <1>1, <1>2, <1>5, AccountStepsMove, PublishingStepsElsewhere, OtherOpsKeepKeys, MovesCalm, ClockStays DEF Elsewhere
<1>6. ASSUME NEW c \in Call, AccessStep(c)
      PROVE  AccessInv'
  BY <1>1, <1>6, AccessStepPreserves
<1>7. CASE Tick /\ UNCHANGED accessVars
  <2>1. CallsStay /\ now' = now + 1
    BY <1>7 DEF Tick, CallsStay
  <2> QED
    BY <1>2, <1>7, <2>1, StayCalm
<1>8. CASE Reap \/ UNCHANGED vars
  <2>1. CallsStay /\ now' = now /\ UNCHANGED accessVars
    BY <1>8 DEF Reap, ReapAttempts, CallsStay, vars, callVars
  <2> QED
    BY <1>2, <2>1, StayCalm
<1>9. CASE ReapRecords
  <2>1. CallsStay /\ now' = now /\ UNCHANGED <<operators, accepted, launches, joined>>
    BY <1>9 DEF ReapRecords, ReapSignature, ReapToken, CallsStay, callVars
  <2>2. /\ signatures' \subseteq signatures /\ \A s \in signatures : s \in signatures' \/ s.expireAt <= now
        /\ usedTokens' \subseteq usedTokens /\ \A u \in usedTokens : u \in usedTokens' \/ u.expireAt <= now
    BY <1>9 DEF ReapRecords, ReapSignature, ReapToken
  <2> QED
    BY <1>1, <2>1, <2>2, StayCalm, CalmPreserves
<1> QED
  BY <1>3, <1>4, <1>5, <1>6, <1>7, <1>8, <1>9 DEF Next

LEMMA AccessBegins == Init => AccessInv
<1> SUFFICES ASSUME Init
             PROVE  AccessInv
  OBVIOUS
<1> DEFINE S == SituationOf[situation]
<1>1. CallsInv
  BY CallsBegin
<1>2. Begins(S)
  BY SituationsBegin DEF Init, CallsInit
<1>3. /\ operators = S.operators /\ signatures = {} /\ accepted = {} /\ launches = {} /\ usedTokens = {}
      /\ joined = {} /\ now = 0 /\ \A c \in Call : pc[c] = "idle"
  BY DEF Init, CallsInit
<1>4. \A c \in Call : ~Checked(c) /\ ~Verified(c)
  BY <1>3 DEF Checked, Verified
<1>5. \A k, o : Claimed(k, o) => operators[o] # NoValue /\ operators[o].key = k
  BY <1>3, <1>4 DEF Claimed
<1>6. KeysInv
  BY <1>2, <1>3, <1>4, <1>5 DEF KeysInv, Begins
<1> QED
  BY <1>1, <1>3, <1>4, <1>6 DEF AccessInv, SignaturesInv, TokensInv

-----------------------------------------------------------------------------
\* However requests are retried or copied, tokens raced and keys rotated, and
\* whichever records the TTL monitor removes: a signed request is served twice
\* only if its operator's clock is ahead by the margin or the second call stalled
\* between its check and its insert until the timestamp had run out, and a launch
\* token opens a second session only for a use verified by exp and consumed at
\* exp or later.
THEOREM CredentialsUsedOnce == Spec => []CredentialsAreUsedOnce
<1>1. AccessInv => CredentialsAreUsedOnce
  BY DEF AccessInv, SignaturesInv, TokensInv, Excused, Ahead, CredentialsAreUsedOnce
<1> QED
  BY AccessBegins, AccessGoesOn, <1>1, PTL DEF Spec
=============================================================================
