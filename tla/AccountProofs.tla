----------------------------- MODULE AccountProofs -----------------------------
(***************************************************************************)
(* The backoffice keeps an administrator, and its login throttle locks     *)
(* what it should: for any users, calls, situations and windows.           *)
(*                                                                         *)
(* The argument about administrators is that of two counts: without a call *)
(* that overlaps, what a change of a user counted is what it finds.  The   *)
(* one about lockouts counts failures: a row never claims more of them     *)
(* than were recorded, whichever row a login computes the next one from.   *)
(***************************************************************************)
EXTENDS PublishingProofs, FiniteSetTheorems

\* Whoever ran during a call has begun.
DuringInv == \A c \in Call : \A d \in during[c] : d \in Call /\ pc[d] # "idle"

LEMMA DuringGrows ==
  ASSUME CallsInv, DuringInv, [Next]_vars
  PROVE  DuringInv'
<1>1. CallsInv' /\ Later
  BY CallsGoOn
<1>2. ASSUME NEW c \in Call, NEW label, NEW value, Moves(c, label, value)
      PROVE  DuringInv'
  BY <1>1, <1>2 DEF DuringInv, Later, Moves
<1>3. ASSUME NEW c \in Call, NEW r, Enter(c, r)
      PROVE  DuringInv'
  <2>1. \A d \in Call : during'[d] \subseteq during[d] \cup InFlight \cup {c}
    BY <1>3 DEF Enter
  <2>2. pc'[c] # "idle"
    BY <1>3, RequestsAreFit, FirstLabels DEF CallsInv, Enter, Fits
  <2>3. \A d \in InFlight : pc[d] # "idle"
    BY DEF InFlight
  <2> QED
    BY <1>1, <2>1, <2>2, <2>3 DEF DuringInv, Later, InFlight
<1>4. ASSUME CallsStay
      PROVE  DuringInv'
  BY <1>4 DEF CallsStay, DuringInv
<1> QED
  BY <1>2, <1>3, <1>4, StepsOfCalls

-----------------------------------------------------------------------------
(* An administrator remains                                                *)

NoUpdatesOverlap ==
  \A c, d \in Call : Overlap(c, d) =>
    ~(request[c].op \in {"updateUser"} /\ request[d].op \in {"updateUser"})

SomeUser == \E u \in User : users[u] # NoValue

Updates(c) == pc[c] = "update" /\ request[c].op = "updateUser"

\* What CountAdmins found for a change that takes an administrator away.
OthersRemain(c) ==
  Updates(c) /\ LosesAdmin(users[request[c].user], request[c].patch) =>
    ActiveAdmins(users) \ {request[c].user} # {}

AdminsInv ==
  NoUpdatesOverlap =>
    /\ SomeUser => ActiveAdmins(users) # {}
    /\ \A c \in Call : OthersRemain(c)

\* Updates that overlap do so for good.
LEMMA OverlapsStay ==
  ASSUME CallsInv, DuringInv, Later, NoUpdatesOverlap'
  PROVE  NoUpdatesOverlap
<1> SUFFICES ASSUME NEW c \in Call, NEW d \in Call, Overlap(c, d),
                    request[c].op = "updateUser", request[d].op = "updateUser"
             PROVE  FALSE
  BY DEF NoUpdatesOverlap
<1>1. pc[c] # "idle" /\ pc[d] # "idle"
  BY DEF CallsInv, DuringInv, Overlap
<1>2. request[c] # NoValue /\ request[d] # NoValue
  BY <1>1, RequestsAreFit DEF CallsInv
<1>3. request'[c] = request[c] /\ request'[d] = request[d] /\ Overlap(c, d)'
  BY <1>2 DEF Later, Overlap
<1> QED
  BY <1>3 DEF NoUpdatesOverlap

\* No row loses its roles or is switched off, and the first user is an
\* administrator.
UsersGrow ==
  /\ \A u \in User : users[u] # NoValue =>
       users'[u] # NoValue /\ users'[u].roles = users[u].roles /\ users'[u].active = users[u].active
  /\ SomeUser' => SomeUser \/ ActiveAdmins(users') # {}

LEMMA UsersSame ==
  ASSUME UNCHANGED users
  PROVE  UsersGrow
BY DEF UsersGrow, SomeUser

LEMMA AdminsStay ==
  ASSUME UsersGrow
  PROVE  ActiveAdmins(users) \subseteq ActiveAdmins(users')
BY DEF UsersGrow, ActiveAdmins

\* One row is put in, or changed in something else.
LEMMA RowGrows ==
  ASSUME IInv, NEW u \in User, NEW row, users' = [users EXCEPT ![u] = row], row # NoValue,
         \/ /\ users[u] # NoValue /\ row.roles = users[u].roles /\ row.active = users[u].active
         \/ /\ users[u] = NoValue
            /\ SomeUser \/ ("super_admin" \in row.roles /\ row.active)
  PROVE  UsersGrow
<1>1. DOMAIN users = User
  BY DEF IInv, Shapes
<1>2. \A v \in User : users'[v] = IF v = u THEN row ELSE users[v]
  BY <1>1
<1>3. \A v \in User : users[v] # NoValue =>
        users'[v] # NoValue /\ users'[v].roles = users[v].roles /\ users'[v].active = users[v].active
  BY <1>2
<1>4. SomeUser \/ ActiveAdmins(users') # {}
  BY <1>2 DEF SomeUser, ActiveAdmins
<1> QED
  BY <1>3, <1>4 DEF UsersGrow

LEMMA SessionsHaveUsers ==
  ASSUME IInv, NEW c \in Call, pc[c] # "idle", "as" \in DOMAIN request[c]
  PROVE  SomeUser
BY DEF IInv, Arrived, TokensAreCurrent, Current, SomeUser

\* Every step of accounts but the update of a user.
LEMMA AccountStepsGrow ==
  ASSUME IInv, NEW c \in Call, AccountStep(c), ~UpdateUser(c)
  PROVE  UsersGrow
<1> DEFINE r == request[c]
<1> USE RowsAreValues
<1>1. CASE SeedAdmin(c)
  <2>1. r.user \in User /\ pc[c] \notin Over
    BY <1>1, RequestsFit DEF SeedAdmin, Asked, Over
  <2>2. CASE users[r.user] # NoValue
    BY <1>1, <2>2, UsersSame DEF SeedAdmin
  <2>3. CASE users[r.user] = NoValue
    <3> DEFINE row == NewRow(r.password, {"super_admin"})
    <3>1. users' = [users EXCEPT ![r.user] = row]
      BY <1>1, <2>3 DEF SeedAdmin
    <3>2. row \in UserRow /\ "super_admin" \in row.roles /\ row.active
      BY <1>1, <2>1, RequestsFit DEF SeedAdmin, Asked, NewRow, UserRow, RoleId
    <3> HIDE DEF row
    <3> QED
      BY <2>1, <2>3, <3>1, <3>2, RowGrows
  <2> QED
    BY <2>2, <2>3
<1>2. CASE CreateUser(c)
  <2>1. r.user \in User /\ pc[c] \notin Over /\ r.op = "createUser"
    BY <1>2, RequestsFit DEF CreateUser, Asked, Over
  <2>2. CASE users[r.user] # NoValue
    BY <1>2, <2>2, UsersSame DEF CreateUser, Inserted
  <2>3. CASE users[r.user] = NoValue
    <3> DEFINE row == NewRow(r.password, r.roles)
    <3>1. users' = [users EXCEPT ![r.user] = row]
      BY <1>2, <2>3 DEF CreateUser, Inserted
    <3>2. row \in UserRow
      BY <2>1, RequestsFit DEF NewRow, UserRow
    <3>3. "as" \in DOMAIN r /\ pc[c] # "idle"
      BY <2>1, RequestsAreFit DEF IInv, Shapes, Arrived, Fits, Over
    <3>4. SomeUser
      BY <3>3, SessionsHaveUsers
    <3> HIDE DEF row
    <3> QED
      BY <2>1, <2>3, <3>1, <3>2, <3>4, RowGrows
  <2> QED
    BY <2>2, <2>3
<1>3. CASE SetPassword(c)
  <2>1. r.user \in User /\ pc[c] \notin Over
    BY <1>3, RequestsFit DEF SetPassword, Asked, Over
  <2>2. CASE users[r.user] = NoValue
    BY <1>3, <2>2, UsersSame DEF SetPassword
  <2>3. CASE users[r.user] # NoValue
    <3> DEFINE old == users[r.user]
               row == [old EXCEPT !.password = r.password, !.tokenVersion = @ + 1]
    <3>1. users' = [users EXCEPT ![r.user].password = r.password, ![r.user].tokenVersion = @ + 1]
      BY <1>3, <2>3 DEF SetPassword
    <3>2. users' = [users EXCEPT ![r.user] = row]
      BY <2>1, <3>1 DEF IInv, Shapes
    <3>3. r.password \in Password /\ old \in UserRow
      BY <1>3, <2>1, <2>3, RequestsFit DEF SetPassword, Asked, IInv, Shapes
    <3>4. row \in UserRow /\ row.roles = old.roles /\ row.active = old.active
      BY <3>3, NewerRow DEF UserRow
    <3> HIDE DEF row
    <3> QED
      BY <2>1, <2>3, <3>2, <3>4, RowGrows
  <2> QED
    BY <2>2, <2>3
<1>4. CASE Logout(c)
  <2> DEFINE u == session[c].user
             row == [users[u] EXCEPT !.tokenVersion = @ + 1]
  <2>1. pc[c] \notin Over /\ r.op = "logout"
    BY <1>4 DEF Logout, Asked, Over
  <2>2. u \in User /\ users[u] \in UserRow
    BY <2>1, RequestsFit DEF IInv, Shapes, TokensAreCurrent, Current
  <2>3. users' = [users EXCEPT ![u] = row]
    BY <1>4, <2>2 DEF Logout
  <2>4. row \in UserRow /\ row.roles = users[u].roles /\ row.active = users[u].active
    BY <2>2 DEF UserRow
  <2> HIDE DEF row
  <2> QED
    BY <2>2, <2>3, <2>4, RowGrows
<1>5. CASE UNCHANGED users
  BY <1>5, UsersSame
<1> QED
  BY <1>1, <1>2, <1>3, <1>4, <1>5
  DEF AccountStep, CheckLock, FindUser, ReadAttempts, RecordFailure, ClearFailures, SignSession,
      CountUsers, CheckEmail, ReadTarget, CountAdmins, accountVars

\* The step that is no update: what was counted is still there.
LEMMA GrowthPreserves ==
  ASSUME IInv, CallsInv, DuringInv, Later, AdminsInv, UsersGrow,
         \A c \in Call : Updates(c)' =>
           \/ Updates(c)
           \/ ~LosesAdmin(users[request[c].user], request[c].patch) /\ users[request[c].user] # NoValue
           \/ ActiveAdmins(users) \ {request[c].user} # {} /\ users[request[c].user] # NoValue,
         \A c \in Call : Updates(c)' => pc[c] \notin Over
  PROVE  AdminsInv'
<1> SUFFICES ASSUME NoUpdatesOverlap'
             PROVE  /\ SomeUser' => ActiveAdmins(users') # {}
                    /\ \A c \in Call : OthersRemain(c)'
  BY DEF AdminsInv
<1>1. NoUpdatesOverlap
  BY OverlapsStay
<1>2. ActiveAdmins(users) \subseteq ActiveAdmins(users')
  BY AdminsStay
<1>3. SomeUser' => ActiveAdmins(users') # {}
  BY <1>1, <1>2 DEF AdminsInv, UsersGrow
<1>4. ASSUME NEW c \in Call, Updates(c)', LosesAdmin(users[request[c].user], request[c].patch)'
      PROVE  ActiveAdmins(users') \ {request'[c].user} # {}
  <2>1. pc[c] \notin Over
    BY <1>4
  <2>2. request'[c] = request[c]
    BY <2>1, RequestsAreFit DEF CallsInv, Later, Over
  <2>3. request[c].op = "updateUser" /\ request[c].user \in User
    BY <1>4, <2>1, <2>2, RequestsFit DEF Updates
  <2>4. users[request[c].user] # NoValue
    BY <1>4 DEF IInv, TargetsExist, Updates, Changes
  <2>5. users'[request[c].user].roles = users[request[c].user].roles
    BY <2>3, <2>4 DEF UsersGrow
  <2>6. LosesAdmin(users[request[c].user], request[c].patch)
    BY <1>4, <2>2, <2>5 DEF LosesAdmin
  <2>7. ActiveAdmins(users) \ {request[c].user} # {}
    BY <1>1, <1>4, <2>6 DEF AdminsInv, OthersRemain
  <2> QED
    BY <1>2, <2>2, <2>7
<1> QED
  BY <1>3, <1>4 DEF OthersRemain

\* The update: what was counted is what it finds.
LEMMA UpdatePreserves ==
  ASSUME IInv, CallsInv, CallsInv', DuringInv, Later, AdminsInv, NEW c \in Call, UpdateUser(c)
  PROVE  AdminsInv'
<1> DEFINE r == request[c]
           old == users[r.user]
           new == Patched(old, r.patch)
<1> SUFFICES ASSUME NoUpdatesOverlap'
             PROVE  /\ SomeUser' => ActiveAdmins(users') # {}
                    /\ \A d \in Call : OthersRemain(d)'
  BY DEF AdminsInv
<1>1. NoUpdatesOverlap
  BY OverlapsStay
<1>2. Updates(c) /\ pc[c] \notin Over /\ Moves(c, "audit", NoValue)
  BY GotoMoves DEF UpdateUser, Asked, Updates, Over
<1>3. r.user \in User /\ old \in UserRow /\ old # NoValue
  BY <1>2, RequestsFit DEF Updates, IInv, Shapes, TargetsExist, Changes
<1>4. \A u \in User : users'[u] = IF u = r.user THEN new ELSE users[u]
  BY <1>3 DEF UpdateUser, IInv, Shapes
<1>5. ActiveAdmins(users) # {}
  BY <1>1, <1>3 DEF AdminsInv, SomeUser
<1>6. ActiveAdmins(users') # {}
  <2>1. CASE LosesAdmin(old, r.patch)
    <3>1. PICK u \in User : u # r.user /\ u \in ActiveAdmins(users)
      BY <1>1, <1>2, <2>1 DEF AdminsInv, OthersRemain, ActiveAdmins
    <3> QED
      BY <1>4, <3>1 DEF ActiveAdmins
  <2>2. CASE ~LosesAdmin(old, r.patch)
    <3>1. "super_admin" \in old.roles /\ old.active =>
            new # NoValue /\ "super_admin" \in new.roles /\ new.active
      <4> SUFFICES ASSUME "super_admin" \in old.roles, old.active
                   PROVE  new # NoValue /\ "super_admin" \in new.roles /\ new.active
        OBVIOUS
      <4>1. CASE DOMAIN r.patch = {}
        BY <1>3, <4>1 DEF Patched
      <4>2. CASE DOMAIN r.patch # {}
        <5> DEFINE roles == IF "roles" \in DOMAIN r.patch THEN r.patch.roles ELSE old.roles
                   active == IF "active" \in DOMAIN r.patch THEN r.patch.active ELSE old.active
        <5>1. new = [old EXCEPT !.roles = roles, !.active = active, !.tokenVersion = @ + 1]
          BY <4>2 DEF Patched
        <5>2. roles \in SUBSET RoleId /\ active \in BOOLEAN
          BY <1>2, <1>3, RequestsFit DEF Updates, UserRow
        <5>3. "super_admin" \in roles /\ active
          BY <2>2 DEF LosesAdmin
        <5> HIDE DEF new, roles, active
        <5>4. new \in UserRow /\ new.roles = roles /\ new.active = active
          BY <1>3, <5>1, <5>2, NewerRow DEF UserRow
        <5> QED
          BY <5>3, <5>4, RowsAreValues
      <4> QED
        BY <4>1, <4>2
    <3>2. ActiveAdmins(users) \subseteq ActiveAdmins(users')
      BY <1>4, <3>1 DEF ActiveAdmins
    <3> QED
      BY <1>5, <3>2
  <2> QED
    BY <2>1, <2>2
<1>7. ASSUME NEW d \in Call
      PROVE  ~Updates(d)'
  <2> SUFFICES ASSUME Updates(d)'
               PROVE  FALSE
    OBVIOUS
  <2>1. d # c
    BY <1>2 DEF Updates, Moves, CallsInv
  <2>2. Updates(d)
    BY <1>2, <2>1 DEF Updates, Moves, CallsInv
  <2>3. c \in InFlight /\ d \in InFlight
    BY <1>2, <2>2 DEF Updates, InFlight
  <2>4. Overlap(c, d)
    BY <2>1, <2>3 DEF CallsInv
  <2> QED
    BY <1>1, <1>2, <2>2, <2>4 DEF NoUpdatesOverlap, Updates
<1> QED
  BY <1>6, <1>7 DEF OthersRemain

\* A call that does not go on to an update.
LEMMA QuietPreserves ==
  ASSUME IInv, CallsInv, DuringInv, Later, AdminsInv, UsersGrow, NEW c \in Call, NEW label, NEW value,
         Moves(c, label, value), request[c].op = "updateUser" => label # "update"
  PROVE  AdminsInv'
<1>1. ASSUME NEW d \in Call, Updates(d)'
      PROVE  Updates(d) /\ pc[d] \notin Over
  <2>1. d # c
    BY <1>1 DEF Updates, Moves, CallsInv
  <2>2. Updates(d)
    BY <1>1, <2>1 DEF Updates, Moves, CallsInv
  <2> QED
    BY <2>2 DEF Updates, Over
<1> QED
  BY <1>1, GrowthPreserves

LEMMA EnterKeepsAdmins ==
  ASSUME IInv, CallsInv, DuringInv, Later, AdminsInv, UNCHANGED users, NEW c \in Call, NEW r, Enter(c, r)
  PROVE  AdminsInv'
<1>1. UsersGrow
  BY UsersSame
<1>2. ASSUME NEW d \in Call, Updates(d)'
      PROVE  Updates(d) /\ pc[d] \notin Over
  <2>1. d # c
    BY <1>2, FirstLabels, RequestsAreFit DEF Updates, Enter, CallsInv, Fits
  <2>2. Updates(d)
    BY <1>2, <2>1 DEF Updates, Enter, CallsInv
  <2> QED
    BY <2>2 DEF Updates, Over
<1> QED
  BY <1>1, <1>2, GrowthPreserves

LEMMA StayKeepsAdmins ==
  ASSUME IInv, CallsInv, DuringInv, Later, AdminsInv, UNCHANGED users, CallsStay
  PROVE  AdminsInv'
<1>1. UsersGrow
  BY UsersSame
<1>2. ASSUME NEW d \in Call, Updates(d)'
      PROVE  Updates(d) /\ pc[d] \notin Over
  BY <1>2 DEF CallsStay, Updates, Over
<1> QED
  BY <1>1, <1>2, GrowthPreserves

\* A call that goes on to its update has found the user, and others if it
\* takes an administrator away.
LEMMA CountedPreserves ==
  ASSUME IInv, CallsInv, DuringInv, Later, AdminsInv, NEW c \in Call, ReadTarget(c) \/ CountAdmins(c)
  PROVE  AdminsInv'
<1> DEFINE r == request[c]
<1>1. PICK label :
        /\ Moves(c, label, NoValue)
        /\ label = "update" => /\ users[r.user] # NoValue
                               /\ \/ ~LosesAdmin(users[r.user], r.patch)
                                  \/ ActiveAdmins(users) \ {r.user} # {}
  <2>1. pc[c] \notin Over
    BY DEF ReadTarget, CountAdmins, Asked, Over
  <2>2. CASE ReadTarget(c)
    BY <2>1, <2>2, GotoMoves, AnswerMoves DEF ReadTarget
  <2>3. CASE CountAdmins(c)
    <3>1. users[r.user] # NoValue
      BY <2>3 DEF CountAdmins, Asked, IInv, TargetsExist, Changes
    <3> QED
      BY <2>1, <2>3, <3>1, GotoMoves, AnswerMoves DEF CountAdmins
  <2> QED
    BY <2>2, <2>3
<1>2. UsersGrow /\ pc[c] \notin Over
  BY UsersSame DEF ReadTarget, CountAdmins, Asked, accountVars, Over
<1>3. ASSUME NEW d \in Call, Updates(d)'
      PROVE  /\ \/ Updates(d)
                \/ ~LosesAdmin(users[request[d].user], request[d].patch) /\ users[request[d].user] # NoValue
                \/ ActiveAdmins(users) \ {request[d].user} # {} /\ users[request[d].user] # NoValue
             /\ pc[d] \notin Over
  <2>1. CASE d = c
    <3>1. label = "update"
      BY <1>1, <1>3, <2>1 DEF Updates, Moves, CallsInv
    <3> QED
      BY <1>1, <1>2, <2>1, <3>1
  <2>2. CASE d # c
    BY <1>1, <1>3, <2>2 DEF Updates, Moves, CallsInv, Over
  <2> QED
    BY <2>1, <2>2
<1> QED
  BY <1>2, <1>3, GrowthPreserves

LEMMA AdminsGoOn ==
  ASSUME IInv, CallsInv, DuringInv, AdminsInv, [Next]_vars
  PROVE  AdminsInv'
<1>1. CallsInv' /\ Later
  BY CallsGoOn
<1>2. ASSUME UNCHANGED accountVars
      PROVE  UNCHANGED users /\ UsersGrow
  BY <1>2, UsersSame DEF accountVars
<1>3. ASSUME NEW c \in Call, CallStep(c), UNCHANGED accountVars
      PROVE  AdminsInv'
  <2>1. CASE Arrive(c, tokens, First)
    BY <1>1, <1>2, <1>3, <2>1, ArriveBegins, EnterKeepsAdmins
  <2>2. CASE WriteAudit(c, Actor(c)) \/ Crash(c)
    <3>1. PICK label : Moves(c, label, NoValue) /\ label \in {"done", "crashed"}
      BY <2>2, EndMoves
    <3> QED
      BY <1>1, <1>2, <1>3, <3>1, QuietPreserves
  <2> QED
    BY <1>3, <2>1, <2>2 DEF CallStep
<1>4. ASSUME NEW c \in Call, AuthHook(c, First)
      PROVE  AdminsInv'
  <2>1. PICK label : Moves(c, label, NoValue) /\ label \in {"done", First[request[c].op]}
    BY <1>4, HookMoves
  <2>2. request[c].op = "updateUser" => label # "update"
    BY <2>1, FirstLabels
  <2>3. UNCHANGED accountVars
    BY <1>4 DEF AuthHook
  <2> QED
    BY <1>1, <1>2, <2>1, <2>2, <2>3, QuietPreserves
<1>5. ASSUME NEW c \in Call, AccountStep(c)
      PROVE  AdminsInv'
  <2>1. CASE UpdateUser(c)
    BY <1>1, <2>1, UpdatePreserves
  <2>2. CASE ReadTarget(c) \/ CountAdmins(c)
    BY <1>1, <2>2, CountedPreserves
  <2>3. CASE ~(UpdateUser(c) \/ ReadTarget(c) \/ CountAdmins(c))
    <3>1. request[c].op # "updateUser"
      BY <1>5, <2>3 DEF AccountStep, CheckLock, FindUser, ReadAttempts, RecordFailure, ClearFailures,
         SignSession, CountUsers, SeedAdmin, CheckEmail, CreateUser, SetPassword, Logout, Asked
    <3>2. UsersGrow
      BY <1>5, <2>3, AccountStepsGrow
    <3>3. PICK label, value : Moves(c, label, value)
      BY <1>5, AccountStepsMove
    <3> QED
      BY <1>1, <3>1, <3>2, <3>3, QuietPreserves
  <2> QED
    BY <2>1, <2>2, <2>3
<1>6. ASSUME NEW c \in Call, PublishingStep(c) \/ AccessStep(c), UNCHANGED accountVars
      PROVE  AdminsInv'
  <2>1. Elsewhere(c)
    BY <1>6, PublishingStepsElsewhere, AccessStepsElsewhere
  <2>2. PICK label, value : Moves(c, label, value)
    BY <2>1 DEF Elsewhere
  <2>3. request[c].op # "updateUser"
    BY <2>1 DEF Elsewhere
  <2> QED
    BY <1>1, <1>2, <1>6, <2>2, <2>3, QuietPreserves
<1>7. CASE Tick /\ UNCHANGED accountVars
  BY <1>1, <1>2, <1>7, StayKeepsAdmins DEF Tick, CallsStay
<1>8. CASE Reap
  BY <1>1, <1>8, StayKeepsAdmins DEF Reap, ReapAttempts, callVars, CallsStay
<1>9. CASE ReapRecords
  BY <1>1, <1>2, <1>9, StayKeepsAdmins DEF ReapRecords, ReapSignature, ReapToken, callVars, CallsStay
<1>10. CASE UNCHANGED vars
  BY <1>1, <1>2, <1>10, StayKeepsAdmins DEF vars, callVars, CallsStay
<1> QED
  BY <1>3, <1>4, <1>5, <1>6, <1>7, <1>8, <1>9, <1>10 DEF Next

LEMMA AdminsBegin == Init => AdminsInv /\ DuringInv
<1> SUFFICES ASSUME Init
             PROVE  AdminsInv /\ DuringInv
  OBVIOUS
<1>1. /\ situation \in Situation /\ users = SituationOf[situation].users
      /\ pc = [c \in Call |-> "idle"] /\ during = [c \in Call |-> {}]
  BY DEF Init, CallsInit
<1>2. SomeUser => ActiveAdmins(users) # {}
  BY <1>1, SituationsBegin DEF Begins, SomeUser
<1> QED
  BY <1>1, <1>2 DEF AdminsInv, OthersRemain, Updates, DuringInv

\* As long as no two changes of users overlap, the backoffice that has users
\* has an active super admin: whoever else is created, locked out, given a new
\* password or logged out meanwhile, and whatever crashes.
THEOREM AdminRemains == Spec => []AnAdminRemains
<1> DEFINE Inv == IInv /\ CallsInv /\ DuringInv /\ AdminsInv
<1>1. Init => Inv
  BY InitHolds, CallsBegin, AdminsBegin
<1>2. Inv /\ [Next]_vars => Inv'
  BY NextPreserves, CallsGoOn, DuringGrows, AdminsGoOn
<1>3. Inv => AnAdminRemains
  BY DEF AdminsInv, NoUpdatesOverlap, SomeUser, AnAdminRemains
<1> QED
  BY <1>1, <1>2, <1>3, PTL DEF Spec

-----------------------------------------------------------------------------
(* The login throttle                                                      *)

\* A row counts no failure that was not recorded.
Earned(row, u) ==
  row # NoValue => row.consecutiveLockouts * MaxAttempts + row.attempts <= failures[u]

AttemptsInv ==
  /\ now \in Nat
  /\ attempts \in [User -> AttemptRow \cup {NoValue}]
  /\ failures \in [User -> Nat]
  /\ \A u \in User : attempts[u] # NoValue => attempts[u].lockedUntil <= attempts[u].expiresAt
  /\ \A u \in User : Earned(attempts[u], u)

Fails(c) == pc[c] = "record" /\ request[c].op = "login"

\* Nor does the row a login read, from which it computes the next.
ReadRowsInv ==
  \A c \in Call : Fails(c) =>
    seen[c].row \in AttemptRow \cup {NoValue} /\ Earned(seen[c].row, request[c].user)

\* A login past the check of the lock.
Tries(c) == pc[c] \in {"find", "failed", "record", "clear", "sign"} /\ request[c].op = "login"

LoginOf(c, u) == request[c].op = "login" /\ request[c].user = u

\* A lock that such a login finds in force was put there meanwhile.
MeanwhileInv ==
  \A c \in Call : Tries(c) /\ InForce(attempts[request[c].user], now) =>
    \E d \in during[c] : LoginOf(d, request[c].user)

ThrottleInv == CallsInv /\ DuringInv /\ AttemptsInv /\ ReadRowsInv /\ MeanwhileInv

LEMMA TriesAreOfUsers ==
  ASSUME CallsInv, NEW c \in Call, pc[c] \notin Over, request[c].op = "login"
  PROVE  request[c].user \in User
BY RequestsAreFit DEF CallsInv, Fits, Over

\* A power of two is natural: so many are the subsets of 1..k.
LEMMA PowersOfTwo ==
  ASSUME NEW k \in Nat
  PROVE  2 ^ k \in Nat
<1>1. IsFiniteSet(1..k) /\ Cardinality(1..k) = k
  BY FS_Interval
<1>2. IsFiniteSet(SUBSET (1..k)) /\ Cardinality(SUBSET (1..k)) = 2 ^ k
  BY <1>1, FS_SUBSET
<1> QED
  BY <1>2, FS_CardinalityType

\* A lockout lasts a natural number of units.
LEMMA LockoutsLast ==
  ASSUME NEW n \in Nat
  PROVE  LockoutDuration(n) \in Nat
<1>1. Larger(0, n - 1) \in Nat
  BY DEF Larger
<1>2. 2 ^ Larger(0, n - 1) \in Nat
  BY <1>1, PowersOfTwo
<1> DEFINE p == 2 ^ Larger(0, n - 1)
<1> HIDE DEF p
<1>3. p \in Nat
  BY <1>2 DEF p
<1>4. LockoutTime * p \in Nat /\ MaxLockoutTime \in Nat
  BY <1>3, AccountsAssumption
<1>5. LockoutDuration(n) = Smaller(LockoutTime * p, MaxLockoutTime)
  BY DEF LockoutDuration, p
<1> QED
  BY <1>4, <1>5 DEF Smaller

\* One failure more: the row that follows counts one more at most.
LEMMA OneFailureMore ==
  ASSUME NEW row \in AttemptRow \cup {NoValue}, now \in Nat, NEW f \in Nat,
         row # NoValue => row.consecutiveLockouts * MaxAttempts + row.attempts <= f
  PROVE  /\ AfterFailure(row) \in AttemptRow
         /\ AfterFailure(row).lockedUntil <= AfterFailure(row).expiresAt
         /\ AfterFailure(row).consecutiveLockouts * MaxAttempts + AfterFailure(row).attempts <= f + 1
<1> DEFINE recent == row # NoValue /\ now - row.lastAttemptAt <= AttemptWindow
           count == (IF recent THEN row.attempts ELSE 0) + 1
           locked == count >= MaxAttempts
           before == IF row = NoValue THEN 0 ELSE row.consecutiveLockouts
           lockouts == IF locked THEN before + 1 ELSE before
           lockedUntil == IF locked THEN now + LockoutDuration(lockouts) ELSE 0
           next == AfterFailure(row)
<1>1. MaxAttempts \in Nat \ {0} /\ AttemptWindow \in Nat
  BY AccountsAssumption
<1>2. row # NoValue => row.attempts \in 0..(MaxAttempts - 1) /\ row.consecutiveLockouts \in Nat
  BY DEF AttemptRow
<1>3. count \in 1..MaxAttempts /\ before \in Nat
  BY <1>1, <1>2
<1>4. before * MaxAttempts + (count - 1) <= f
  <2>1. CASE row = NoValue
    BY <1>1, <2>1
  <2>2. CASE row # NoValue
    <3> DEFINE l == row.consecutiveLockouts
               a == row.attempts
    <3>1. l \in Nat /\ a \in Nat /\ before = l /\ l * MaxAttempts + a <= f /\ (count = a + 1 \/ count = 1)
      BY <1>2, <2>2
    <3> HIDE DEF l, a, count, before
    <3>2. l * MaxAttempts \in Nat
      BY <1>1, <3>1
    <3> QED
      BY <3>1, <3>2
  <2> QED
    BY <2>1, <2>2
<1>5. next = [attempts |-> NextAttempts(count), consecutiveLockouts |-> lockouts,
              lastAttemptAt |-> now, lockedUntil |-> lockedUntil, expiresAt |-> ExpiresAt(lockedUntil)]
  BY DEF AfterFailure
<1> HIDE DEF recent, count, before, next
<1>6. lockouts \in Nat
  BY <1>3
<1>7. LockoutDuration(lockouts) \in Nat
  BY <1>6, LockoutsLast
<1>8. lockedUntil \in Nat
  BY <1>7
<1>9. NextAttempts(count) \in 0..(MaxAttempts - 1)
  BY <1>1, <1>3 DEF NextAttempts
<1>10. lockouts * MaxAttempts + NextAttempts(count) <= f + 1
  <2>1. CASE locked
    <3>1. NextAttempts(count) = 0 /\ lockouts = before + 1 /\ count - 1 >= MaxAttempts - 1
      BY <1>1, <1>3, <2>1 DEF NextAttempts
    <3>2. lockouts * MaxAttempts = before * MaxAttempts + MaxAttempts
      BY <1>1, <1>3, <3>1
    <3>3. before * MaxAttempts \in Nat
      BY <1>1, <1>3
    <3> QED
      BY <1>1, <1>3, <1>4, <3>1, <3>2, <3>3
  <2>2. CASE ~locked
    <3>1. NextAttempts(count) = count /\ lockouts = before
      BY <2>2 DEF NextAttempts
    <3>2. before * MaxAttempts \in Nat
      BY <1>1, <1>3
    <3> QED
      BY <1>3, <1>4, <3>1, <3>2
  <2> QED
    BY <2>1, <2>2
<1> HIDE DEF locked, lockouts, lockedUntil
<1>11. ExpiresAt(lockedUntil) \in Nat /\ lockedUntil <= ExpiresAt(lockedUntil)
  BY <1>1, <1>8 DEF ExpiresAt, Larger
<1> QED
  BY <1>5, <1>6, <1>8, <1>9, <1>10, <1>11 DEF AttemptRow, next

\* A step that writes no attempts, of a call that goes on.
LEMMA AttemptsSame ==
  ASSUME AttemptsInv, UNCHANGED <<attempts, failures>>, now' \in {now, now + 1}
  PROVE  /\ AttemptsInv'
         /\ \A u \in User : InForce(attempts[u], now)' => InForce(attempts[u], now)
<1>1. AttemptsInv'
  BY DEF AttemptsInv, Earned
<1>2. ASSUME NEW u \in User, InForce(attempts[u], now)'
      PROVE  InForce(attempts[u], now)
  <2>1. attempts[u] \in AttemptRow /\ attempts[u].lockedUntil \in Nat
    BY <1>2 DEF AttemptsInv, InForce, AttemptRow
  <2> QED
    BY <1>2, <2>1 DEF AttemptsInv, InForce
<1> QED
  BY <1>1, <1>2

LEMMA MeanwhilePreserves ==
  ASSUME CallsInv, DuringInv, Later, MeanwhileInv,
         \A d \in Call : Tries(d)' =>
           /\ pc[d] \notin Over
           /\ Tries(d) \/ ~InForce(attempts[request[d].user], now)
           /\ InForce(attempts[request[d].user], now)' =>
                \/ InForce(attempts[request[d].user], now)
                \/ \E e \in during[d] : LoginOf(e, request[d].user)
  PROVE  MeanwhileInv'
<1> SUFFICES ASSUME NEW d \in Call, Tries(d)', InForce(attempts[request[d].user], now)'
             PROVE  \E e \in during'[d] : LoginOf(e, request[d].user)'
  BY DEF MeanwhileInv
<1>1. request'[d] = request[d]
  BY RequestsAreFit DEF CallsInv, Later, Over
<1>2. \E e \in during[d] : LoginOf(e, request[d].user)
  BY DEF MeanwhileInv
<1>3. \E e \in during'[d] : LoginOf(e, request[d].user)'
  <2> DEFINE u == request[d].user
  <2>1. \E e \in during[d] : LoginOf(e, u)
    BY <1>2
  <2>2. u' = u
    BY <1>1
  <2>3. PICK e \in during[d] : LoginOf(e, u)
    BY <2>1
  <2>4. e \in Call /\ pc[e] # "idle"
    BY <2>3 DEF DuringInv
  <2>5. request'[e] = request[e] /\ e \in during'[d]
    BY <2>3, <2>4, RequestsAreFit DEF CallsInv, Later
  <2> QED
    BY <1>1, <2>3, <2>5 DEF LoginOf
<1> QED
  BY <1>3

\* A call goes on, and no attempts are written.
LEMMA GoingOnPreserves ==
  ASSUME ThrottleInv, CallsInv', DuringInv', Later, UNCHANGED <<attempts, failures>>, now' = now,
         NEW c \in Call, NEW label, NEW value, Moves(c, label, value),
         request[c].op = "login" /\ label = "record" => value.row = attempts[request[c].user],
         request[c].op = "login" /\ label \in {"find", "failed", "clear", "sign", "record"} =>
           Tries(c) \/ ~InForce(attempts[request[c].user], now)
  PROVE  ThrottleInv'
<1>1. AttemptsInv' /\ \A u \in User : InForce(attempts[u], now)' => InForce(attempts[u], now)
  BY AttemptsSame DEF ThrottleInv
<1>2. \A d \in Call \ {c} : pc'[d] = pc[d] /\ seen'[d] = seen[d] /\ request'[d] = request[d]
  BY DEF Moves, ThrottleInv, CallsInv
<1>3. pc'[c] = label /\ seen'[c] = value /\ request'[c] = request[c] /\ pc[c] \notin Over
  BY DEF Moves, ThrottleInv, CallsInv
<1>4. ReadRowsInv'
  <2> SUFFICES ASSUME NEW d \in Call, Fails(d)'
               PROVE  (seen[d].row \in AttemptRow \cup {NoValue} /\ Earned(seen[d].row, request[d].user))'
    BY DEF ReadRowsInv
  <2>1. CASE d = c
    <3>1. seen'[d].row = attempts[request[d].user] /\ request'[d] = request[d]
      BY <1>3, <2>1 DEF Fails
    <3>2. request[d].user \in User
      BY <1>3, <2>1, TriesAreOfUsers DEF ThrottleInv, Fails
    <3> QED
      BY <3>1, <3>2 DEF ThrottleInv, AttemptsInv, Earned
  <2>2. CASE d # c
    BY <1>2, <2>2 DEF ThrottleInv, ReadRowsInv, Fails, Earned
  <2> QED
    BY <2>1, <2>2
<1>5. MeanwhileInv'
  <2>1. ASSUME NEW d \in Call, Tries(d)'
        PROVE  /\ pc[d] \notin Over
               /\ Tries(d) \/ ~InForce(attempts[request[d].user], now)
               /\ InForce(attempts[request[d].user], now)' => InForce(attempts[request[d].user], now)
    <3>1. pc[d] \notin Over /\ request'[d] = request[d] /\ request[d].op = "login"
      BY <1>2, <1>3, <2>1 DEF Tries, Over
    <3>2. request[d].user \in User
      BY <3>1, TriesAreOfUsers DEF ThrottleInv
    <3>3. Tries(d) \/ ~InForce(attempts[request[d].user], now)
      BY <1>2, <1>3, <2>1, <3>1 DEF Tries
    <3> QED
      BY <1>1, <3>1, <3>2, <3>3
  <2> QED
    BY <2>1, MeanwhilePreserves DEF ThrottleInv
<1> QED
  BY <1>1, <1>4, <1>5 DEF ThrottleInv

\* A call begins, or none does anything, and no attempts are written.
LEMMA StandingPreserves ==
  ASSUME ThrottleInv, CallsInv', DuringInv', Later, UNCHANGED <<attempts, failures>>, now' \in {now, now + 1},
         CallsStay \/ \E c \in Call : \E r : Enter(c, r)
  PROVE  ThrottleInv'
<1>1. AttemptsInv' /\ \A u \in User : InForce(attempts[u], now)' => InForce(attempts[u], now)
  BY AttemptsSame DEF ThrottleInv
<1>2. ASSUME NEW d \in Call, pc'[d] \in {"find", "failed", "record", "clear", "sign"}
      PROVE  pc[d] = pc'[d] /\ seen'[d] = seen[d] /\ request'[d] = request[d]
  <2>1. CASE CallsStay
    BY <2>1 DEF CallsStay
  <2>2. ASSUME NEW c \in Call, NEW r, Enter(c, r)
        PROVE  pc[d] = pc'[d] /\ seen'[d] = seen[d] /\ request'[d] = request[d]
    <3>1. pc'[c] \in {"hook", First[r.op]} /\ r.op \in DOMAIN First
      BY <2>2, RequestsAreFit DEF Enter, Fits, ThrottleInv, CallsInv
    <3>2. d # c
      BY <1>2, <3>1, FirstLabels
    <3> QED
      BY <2>2, <3>2 DEF Enter, ThrottleInv, CallsInv
  <2> QED
    BY <2>1, <2>2
<1>3. ReadRowsInv'
  BY <1>2 DEF ThrottleInv, ReadRowsInv, Fails, Earned
<1>4. MeanwhileInv'
  <2>1. ASSUME NEW d \in Call, Tries(d)'
        PROVE  /\ pc[d] \notin Over
               /\ Tries(d)
               /\ InForce(attempts[request[d].user], now)' => InForce(attempts[request[d].user], now)
    <3>1. Tries(d) /\ pc[d] \notin Over /\ request'[d] = request[d] /\ request[d].op = "login"
      BY <1>2, <2>1 DEF Tries, Over
    <3>2. request[d].user \in User
      BY <3>1, TriesAreOfUsers DEF ThrottleInv
    <3> QED
      BY <1>1, <3>1, <3>2
  <2> QED
    BY <2>1, MeanwhilePreserves DEF ThrottleInv
<1> QED
  BY <1>1, <1>3, <1>4 DEF ThrottleInv

\* A failure is recorded, over whatever the row is by now.
LEMMA FailurePreserves ==
  ASSUME ThrottleInv, CallsInv', DuringInv', Later, NEW c \in Call, RecordFailure(c)
  PROVE  ThrottleInv'
<1> DEFINE u == request[c].user
           next == AfterFailure(seen[c].row)
<1>1. /\ Fails(c) /\ Tries(c) /\ pc[c] \notin Over /\ request[c].op = "login"
      /\ attempts' = [attempts EXCEPT ![u] = next]
      /\ failures' = [failures EXCEPT ![u] = @ + 1]
  BY DEF RecordFailure, Asked, Fails, Tries, Over
<1>2. u \in User
  BY <1>1, TriesAreOfUsers DEF ThrottleInv
<1>3. now' = now
  BY DEF RecordFailure, Goto, Answer, Frame
<1>4. PICK label \in {"audit", "done"} : Moves(c, label, NoValue)
  BY <1>1, GotoMoves, AnswerMoves DEF RecordFailure
<1>5. now \in Nat /\ failures[u] \in Nat /\ seen[c].row \in AttemptRow \cup {NoValue} /\ Earned(seen[c].row, u)
  BY <1>1, <1>2 DEF ThrottleInv, AttemptsInv, ReadRowsInv
<1>6. /\ next \in AttemptRow /\ next.lockedUntil <= next.expiresAt
      /\ next.consecutiveLockouts * MaxAttempts + next.attempts <= failures[u] + 1
  BY <1>5, OneFailureMore DEF Earned
<1> HIDE DEF next
<1>7. /\ attempts'[u] = next /\ failures'[u] = failures[u] + 1
      /\ \A v \in User \ {u} : attempts'[v] = attempts[v] /\ failures'[v] = failures[v]
      /\ attempts' \in [User -> AttemptRow \cup {NoValue}] /\ failures' \in [User -> Nat]
  BY <1>1, <1>2, <1>5, <1>6 DEF ThrottleInv, AttemptsInv
<1>8. ASSUME NEW row \in AttemptRow \cup {NoValue}, NEW v \in User, Earned(row, v)
      PROVE  row # NoValue => row.consecutiveLockouts * MaxAttempts + row.attempts <= failures'[v]
  <2> SUFFICES ASSUME row # NoValue
               PROVE  row.consecutiveLockouts * MaxAttempts + row.attempts <= failures'[v]
    OBVIOUS
  <2> DEFINE n == row.consecutiveLockouts * MaxAttempts + row.attempts
  <2>1. n \in Int /\ n <= failures[v]
    BY <1>8, AccountsAssumption DEF Earned, AttemptRow
  <2>2. failures[v] \in Nat /\ failures'[v] \in {failures[v], failures[v] + 1}
    BY <1>7 DEF ThrottleInv, AttemptsInv
  <2> HIDE DEF n
  <2>3. n <= failures'[v]
    BY <2>1, <2>2
  <2> QED
    BY <2>3 DEF n
<1>9. \A v \in User : attempts'[v] # NoValue => attempts'[v].lockedUntil <= attempts'[v].expiresAt
  BY <1>6, <1>7 DEF ThrottleInv, AttemptsInv
<1>10. \A v \in User : Earned(attempts[v], v)'
  <2> SUFFICES ASSUME NEW v \in User
               PROVE  attempts'[v] # NoValue =>
                        attempts'[v].consecutiveLockouts * MaxAttempts + attempts'[v].attempts <= failures'[v]
    BY DEF Earned
  <2>1. CASE v = u
    BY <1>6, <1>7, <2>1
  <2>2. CASE v # u
    <3>1. attempts[v] \in AttemptRow \cup {NoValue} /\ Earned(attempts[v], v) /\ attempts'[v] = attempts[v]
      BY <1>7, <2>2 DEF ThrottleInv, AttemptsInv
    <3> QED
      BY <1>8, <3>1
  <2> QED
    BY <2>1, <2>2
<1>11. AttemptsInv'
  BY <1>3, <1>7, <1>9, <1>10 DEF ThrottleInv, AttemptsInv
<1>12. \A d \in Call \ {c} : pc'[d] = pc[d] /\ seen'[d] = seen[d] /\ request'[d] = request[d]
  BY <1>4 DEF Moves, ThrottleInv, CallsInv
<1>13. pc'[c] \in {"audit", "done"}
  BY <1>4 DEF Moves, ThrottleInv, CallsInv
<1>14. ReadRowsInv'
  <2> SUFFICES ASSUME NEW d \in Call, Fails(d)'
               PROVE  (seen[d].row \in AttemptRow \cup {NoValue} /\ Earned(seen[d].row, request[d].user))'
    BY DEF ReadRowsInv
  <2>1. d # c
    BY <1>13 DEF Fails
  <2>2. Fails(d) /\ seen'[d] = seen[d] /\ request'[d] = request[d]
    BY <1>12, <2>1 DEF Fails
  <2>3. seen[d].row \in AttemptRow \cup {NoValue} /\ Earned(seen[d].row, request[d].user)
    BY <2>2 DEF ThrottleInv, ReadRowsInv
  <2>4. request[d].user \in User
    BY <2>2, TriesAreOfUsers DEF Fails, Over, ThrottleInv
  <2>5. seen[d].row # NoValue =>
          seen[d].row.consecutiveLockouts * MaxAttempts + seen[d].row.attempts <= failures'[request[d].user]
    BY <1>8, <2>3, <2>4
  <2> QED
    BY <2>2, <2>3, <2>5 DEF Earned
<1>15. ASSUME NEW d \in Call, Tries(d)'
       PROVE  /\ pc[d] \notin Over
              /\ Tries(d)
              /\ InForce(attempts[request[d].user], now)' =>
                   \/ InForce(attempts[request[d].user], now)
                   \/ \E e \in during[d] : LoginOf(e, request[d].user)
  <2>1. d # c
    BY <1>13, <1>15 DEF Tries
  <2>2. Tries(d) /\ pc[d] \notin Over /\ request'[d] = request[d]
    BY <1>12, <1>15, <2>1 DEF Tries, Over
  <2>3. request[d].user \in User
    BY <2>2, TriesAreOfUsers DEF Tries, ThrottleInv
  <2>4. CASE request[d].user = u
    <3>1. c \in InFlight /\ d \in InFlight
      BY <1>1, <2>2 DEF InFlight, Over
    <3>2. c \in during[d]
      BY <2>1, <3>1 DEF ThrottleInv, CallsInv, Overlap
    <3> QED
      BY <1>1, <2>2, <2>4, <3>2 DEF LoginOf
  <2>5. CASE request[d].user # u
    BY <1>3, <1>7, <2>2, <2>3, <2>5
  <2> QED
    BY <2>2, <2>4, <2>5
<1>16. MeanwhileInv'
  BY <1>15, MeanwhilePreserves DEF ThrottleInv
<1> QED
  BY <1>11, <1>14, <1>16 DEF ThrottleInv

\* A step that only takes from the rows: the login that succeeds, and the TTL.
LEMMA ForgettingPreserves ==
  ASSUME ThrottleInv, CallsInv', DuringInv', Later, UNCHANGED failures, now' = now,
         NEW u \in User, NEW row \in AttemptRow \cup {NoValue}, attempts' = [attempts EXCEPT ![u] = row],
         ~InForce(row, now),
         row # NoValue => row.lockedUntil <= row.expiresAt /\ Earned(row, u),
         \A d \in Call : Tries(d)' => Tries(d) /\ request'[d] = request[d],
         \A d \in Call : Fails(d)' => Fails(d) /\ request'[d] = request[d] /\ seen'[d] = seen[d]
  PROVE  ThrottleInv'
<1>1. /\ attempts'[u] = row /\ \A v \in User \ {u} : attempts'[v] = attempts[v]
      /\ attempts' \in [User -> AttemptRow \cup {NoValue}]
  BY DEF ThrottleInv, AttemptsInv
<1>2. AttemptsInv'
  BY <1>1 DEF ThrottleInv, AttemptsInv, Earned
<1>3. ReadRowsInv'
  BY DEF ThrottleInv, ReadRowsInv, Earned
<1>4. ASSUME NEW d \in Call, Tries(d)'
      PROVE  /\ pc[d] \notin Over
             /\ Tries(d)
             /\ InForce(attempts[request[d].user], now)' => InForce(attempts[request[d].user], now)
  <2>1. Tries(d) /\ request'[d] = request[d] /\ pc[d] \notin Over
    BY <1>4 DEF Tries, Over
  <2>2. request[d].user \in User
    BY <2>1, TriesAreOfUsers DEF Tries, ThrottleInv
  <2> QED
    BY <1>1, <2>1, <2>2 DEF InForce
<1>5. MeanwhileInv'
  BY <1>4, MeanwhilePreserves DEF ThrottleInv
<1> QED
  BY <1>2, <1>3, <1>5 DEF ThrottleInv

LEMMA ClearPreserves ==
  ASSUME ThrottleInv, CallsInv', DuringInv', Later, NEW c \in Call, ClearFailures(c)
  PROVE  ThrottleInv'
<1> DEFINE u == request[c].user
           old == attempts[u]
           row == IF old = NoValue THEN NoValue
                  ELSE [old EXCEPT !.attempts = 0, !.consecutiveLockouts = 0, !.lockedUntil = 0]
<1> USE RowsAreValues
<1>1. Tries(c) /\ pc[c] \notin Over /\ request[c].op = "login" /\ UNCHANGED failures
  BY DEF ClearFailures, Asked, Tries, Over
<1>2. u \in User
  BY <1>1, TriesAreOfUsers DEF ThrottleInv
<1>3. now' = now /\ Moves(c, "sign", seen[c])
  BY <1>1, GotoMoves DEF ClearFailures, Goto, Frame
<1>4. now \in Nat /\ failures[u] \in Nat /\ old \in AttemptRow \cup {NoValue} /\ DOMAIN attempts = User
      /\ attempts = [v \in User |-> attempts[v]]
  BY <1>2 DEF ThrottleInv, AttemptsInv
<1>5. attempts' = [attempts EXCEPT ![u] = row]
  <2>1. CASE old = NoValue
    BY <1>2, <1>4, <2>1 DEF ClearFailures
  <2>2. CASE old # NoValue
    <3>1. attempts' = [attempts EXCEPT ![u].attempts = 0, ![u].consecutiveLockouts = 0, ![u].lockedUntil = 0]
      BY <2>2 DEF ClearFailures
    <3> QED
      BY <1>2, <1>4, <2>2, <3>1
  <2> QED
    BY <2>1, <2>2
<1>6. /\ row \in AttemptRow \cup {NoValue}
      /\ row # NoValue => /\ row.attempts = 0 /\ row.consecutiveLockouts = 0 /\ row.lockedUntil = 0
                          /\ row.expiresAt \in Nat
  <2>1. CASE old = NoValue
    BY <2>1
  <2>2. CASE old # NoValue
    <3>1. MaxAttempts \in Nat \ {0} /\ old \in AttemptRow
      BY <1>4, <2>2, AccountsAssumption
    <3>2. 0 \in 0..(MaxAttempts - 1)
      BY <3>1
    <3> QED
      BY <2>2, <3>1, <3>2 DEF AttemptRow
  <2> QED
    BY <2>1, <2>2
<1> HIDE DEF row
<1>7. ~InForce(row, now)
  BY <1>4, <1>6 DEF InForce
<1>8. row # NoValue => row.lockedUntil <= row.expiresAt /\ Earned(row, u)
  BY <1>4, <1>6, AccountsAssumption DEF Earned
<1>9. /\ \A d \in Call : Tries(d)' => Tries(d) /\ request'[d] = request[d]
      /\ \A d \in Call : Fails(d)' => Fails(d) /\ request'[d] = request[d] /\ seen'[d] = seen[d]
  BY <1>1, <1>3 DEF Moves, ThrottleInv, CallsInv, Tries, Fails
<1> QED
  BY <1>1, <1>2, <1>3, <1>5, <1>6, <1>7, <1>8, <1>9, ForgettingPreserves

LEMMA ReapPreserves ==
  ASSUME ThrottleInv, CallsInv', DuringInv', Later, NEW u \in User, ReapAttempts(u)
  PROVE  ThrottleInv'
<1>1. /\ attempts' = [attempts EXCEPT ![u] = NoValue] /\ UNCHANGED failures /\ now' = now
      /\ UNCHANGED <<pc, request, seen>>
  BY DEF ReapAttempts, callVars
<1>2. ~InForce(NoValue, now)
  BY DEF InForce
<1>3. /\ \A d \in Call : Tries(d)' => Tries(d) /\ request'[d] = request[d]
      /\ \A d \in Call : Fails(d)' => Fails(d) /\ request'[d] = request[d] /\ seen'[d] = seen[d]
  BY <1>1 DEF Tries, Fails
<1> QED
  BY <1>1, <1>2, <1>3, ForgettingPreserves

\* The steps of a login that write no attempts, and those of other calls.
LEMMA LoginGoesOn ==
  ASSUME ThrottleInv, CallsInv', DuringInv', Later, UNCHANGED <<attempts, failures>>, now' = now,
         NEW c \in Call,
         CheckLock(c) \/ FindUser(c) \/ ReadAttempts(c) \/ SignSession(c)
  PROVE  ThrottleInv'
<1>1. PICK label, value :
        /\ Moves(c, label, value)
        /\ label = "record" => value.row = attempts[request[c].user]
        /\ label \in {"find", "failed", "clear", "sign", "record"} =>
             Tries(c) \/ ~InForce(attempts[request[c].user], now)
  <2> USE GotoMoves, AnswerMoves DEF Asked, Over, Tries
  <2>1. CASE CheckLock(c)
    BY <2>1 DEF CheckLock
  <2>2. CASE FindUser(c)
    BY <2>2 DEF FindUser
  <2>3. CASE ReadAttempts(c)
    BY <2>3 DEF ReadAttempts
  <2>4. CASE SignSession(c)
    BY <2>4 DEF SignSession
  <2> QED
    BY <2>1, <2>2, <2>3, <2>4
<1> QED
  BY <1>1, GoingOnPreserves

LEMMA OthersGoOn ==
  ASSUME ThrottleInv, CallsInv', DuringInv', Later, UNCHANGED <<attempts, failures>>, now' = now,
         NEW c \in Call, NEW label, NEW value, Moves(c, label, value),
         request[c].op = "login" => label \in {"lock", "audit", "done", "crashed"}
  PROVE  ThrottleInv'
BY GoingOnPreserves

LEMMA ThrottleGoesOn == ThrottleInv /\ [Next]_vars => ThrottleInv'
<1> SUFFICES ASSUME ThrottleInv, [Next]_vars
             PROVE  ThrottleInv'
  OBVIOUS
<1>1. CallsInv' /\ DuringInv' /\ Later
  BY CallsGoOn, DuringGrows DEF ThrottleInv
<1>2. ASSUME NEW c \in Call, CallStep(c), UNCHANGED accountVars
      PROVE  ThrottleInv'
  <2>1. UNCHANGED <<attempts, failures>> /\ now' = now
    BY <1>2, ClockStays DEF accountVars
  <2>2. CASE Arrive(c, tokens, First)
    <3>1. \E r : Enter(c, r)
      BY <2>2, ArriveBegins
    <3> QED
      BY <1>1, <2>1, <3>1, StandingPreserves
  <2>3. CASE WriteAudit(c, Actor(c)) \/ Crash(c)
    <3>1. PICK label : Moves(c, label, NoValue) /\ label \in {"done", "crashed"}
      BY <2>3, EndMoves
    <3> QED
      BY <1>1, <2>1, <3>1, OthersGoOn
  <2> QED
    BY <1>2, <2>2, <2>3 DEF CallStep
<1>3. ASSUME NEW c \in Call, AuthHook(c, First)
      PROVE  ThrottleInv'
  <2>1. UNCHANGED <<attempts, failures>> /\ now' = now
    BY <1>3, ClockStays DEF AuthHook, accountVars
  <2>2. PICK label : Moves(c, label, NoValue) /\ label \in {"done", First[request[c].op]}
    BY <1>3, HookMoves DEF ThrottleInv
  <2>3. request[c].op = "login" => label \in {"lock", "done"}
    BY <2>2, FirstLabels
  <2> QED
    BY <1>1, <2>1, <2>2, <2>3, OthersGoOn
<1>4. ASSUME NEW c \in Call, AccountStep(c)
      PROVE  ThrottleInv'
  <2>1. CASE RecordFailure(c)
    BY <1>1, <2>1, FailurePreserves
  <2>2. CASE ClearFailures(c)
    BY <1>1, <2>2, ClearPreserves
  <2>3. CASE ~(RecordFailure(c) \/ ClearFailures(c))
    <3>1. UNCHANGED <<attempts, failures>>
      BY <1>4, <2>3 DEF AccountStep, CheckLock, FindUser, ReadAttempts, SignSession, CountUsers, SeedAdmin,
         CheckEmail, CreateUser, Inserted, ReadTarget, CountAdmins, UpdateUser, SetPassword, Logout, accountVars
    <3>2. now' = now
      BY <1>4, ClockStays
    <3>3. CASE CheckLock(c) \/ FindUser(c) \/ ReadAttempts(c) \/ SignSession(c)
      BY <1>1, <3>1, <3>2, <3>3, LoginGoesOn
    <3>4. CASE ~(CheckLock(c) \/ FindUser(c) \/ ReadAttempts(c) \/ SignSession(c))
      <4>1. request[c].op # "login"
        BY <1>4, <2>3, <3>4 DEF AccountStep, CountUsers, SeedAdmin, CheckEmail, CreateUser, ReadTarget,
           CountAdmins, UpdateUser, SetPassword, Logout, Asked
      <4>2. PICK label, value : Moves(c, label, value)
        BY <1>4, AccountStepsMove
      <4> QED
        BY <1>1, <3>1, <3>2, <4>1, <4>2, OthersGoOn
    <3> QED
      BY <3>3, <3>4
  <2> QED
    BY <2>1, <2>2, <2>3
<1>5. ASSUME NEW c \in Call, PublishingStep(c) \/ AccessStep(c), UNCHANGED accountVars
      PROVE  ThrottleInv'
  <2>1. UNCHANGED <<attempts, failures>> /\ now' = now
    BY <1>5, ClockStays DEF accountVars
  <2>2. Elsewhere(c)
    BY <1>5, PublishingStepsElsewhere, AccessStepsElsewhere
  <2>3. PICK label, value : Moves(c, label, value)
    BY <2>2 DEF Elsewhere
  <2>4. request[c].op # "login"
    BY <2>2 DEF Elsewhere
  <2> QED
    BY <1>1, <2>1, <2>3, <2>4, OthersGoOn
<1>6. CASE Tick /\ UNCHANGED accountVars
  BY <1>1, <1>6, StandingPreserves DEF Tick, CallsStay, accountVars
<1>7. CASE Reap
  BY <1>1, <1>7, ReapPreserves DEF Reap
<1>8. CASE ReapRecords
  BY <1>1, <1>8, StandingPreserves DEF ReapRecords, ReapSignature, ReapToken, callVars, accountVars, CallsStay
<1>9. CASE UNCHANGED vars
  BY <1>1, <1>9, StandingPreserves DEF vars, callVars, accountVars, CallsStay
<1> QED
  BY <1>2, <1>3, <1>4, <1>5, <1>6, <1>7, <1>8, <1>9 DEF Next

LEMMA ThrottleBegins == Init => ThrottleInv
<1> SUFFICES ASSUME Init
             PROVE  ThrottleInv
  OBVIOUS
<1>1. CallsInv /\ DuringInv
  BY CallsBegin, AdminsBegin
<1>2. /\ now = 0 /\ attempts = [u \in User |-> NoValue] /\ failures = [u \in User |-> 0]
      /\ pc = [c \in Call |-> "idle"]
  BY DEF Init, CallsInit
<1>3. AttemptsInv
  BY <1>2 DEF AttemptsInv, Earned
<1>4. ReadRowsInv /\ MeanwhileInv
  BY <1>2 DEF ReadRowsInv, MeanwhileInv, Fails, Tries
<1> QED
  BY <1>1, <1>3, <1>4 DEF ThrottleInv

LEMMA ThrottleHolds == Spec => []ThrottleInv
<1>1. Init => ThrottleInv
  BY ThrottleBegins
<1>2. ThrottleInv /\ [Next]_vars => ThrottleInv'
  BY ThrottleGoesOn
<1> QED
  BY <1>1, <1>2, PTL DEF Spec

\* No account is locked, or locked for longer, for fewer failures than were
\* recorded against it, however the logins that fail overlap.
THEOREM LocksAreEarned == Spec => []LockoutsAreEarned
<1>1. ThrottleInv => LockoutsAreEarned
  BY DEF ThrottleInv, AttemptsInv, Earned, LockoutsAreEarned
<1> QED
  BY <1>1, ThrottleHolds, PTL

\* Of the three steps that write attempts, the TTL's ends no lock in force.
LEMMA LockEnds ==
  ASSUME ThrottleInv, [Next]_vars, NEW u \in User,
         InForce(attempts[u], now'), ~InForce(attempts'[u], now')
  PROVE  \E c \in Call :
           /\ pc[c] # pc'[c]
           /\ request[c].op = "login" /\ request[c].user = u
           /\ \/ pc[c] = "clear"
              \/ \E d \in during[c] : request[d].op = "login" /\ request[d].user = u
<1>1. attempts' # attempts
  OBVIOUS
<1>2. attempts[u] \in AttemptRow /\ now \in Nat /\ attempts[u].lockedUntil <= attempts[u].expiresAt
  BY DEF ThrottleInv, AttemptsInv, InForce
<1>3. ASSUME NEW c \in Call, RecordFailure(c)
      PROVE  /\ pc[c] # pc'[c] /\ request[c].op = "login" /\ request[c].user = u
             /\ \E d \in during[c] : request[d].op = "login" /\ request[d].user = u
  <2>1. Tries(c) /\ pc[c] = "record" /\ pc[c] \notin Over /\ now' = now /\ request[c].op = "login"
    BY <1>3 DEF RecordFailure, Asked, Tries, Over, Goto, Answer, Frame
  <2>2. request[c].user \in User
    BY <2>1, TriesAreOfUsers DEF ThrottleInv
  <2>3. attempts'[u] = attempts[u] \/ request[c].user = u
    BY <1>3, <2>2 DEF RecordFailure, ThrottleInv, AttemptsInv
  <2>4. request[c].user = u
    BY <2>3
  <2>5. \E d \in during[c] : LoginOf(d, u)
    BY <2>1, <2>4 DEF ThrottleInv, MeanwhileInv
  <2>6. pc'[c] \in {"audit", "done"}
    BY <1>3 DEF RecordFailure, Goto, Answer, ThrottleInv, CallsInv
  <2> QED
    BY <2>1, <2>4, <2>5, <2>6 DEF LoginOf
<1>4. ASSUME NEW c \in Call, ClearFailures(c)
      PROVE  pc[c] # pc'[c] /\ request[c].op = "login" /\ request[c].user = u /\ pc[c] = "clear"
  <2>1. pc[c] = "clear" /\ pc[c] \notin Over /\ request[c].op = "login" /\ pc'[c] = "sign"
    BY <1>4 DEF ClearFailures, Asked, Over, Goto, ThrottleInv, CallsInv
  <2>2. request[c].user \in User
    BY <2>1, TriesAreOfUsers DEF ThrottleInv
  <2>3. attempts'[u] = attempts[u] \/ request[c].user = u
    BY <1>4, <2>2 DEF ClearFailures, ThrottleInv, AttemptsInv
  <2> QED
    BY <2>1, <2>3
<1>5. ~Reap
  <2> SUFFICES ASSUME NEW v \in User, ReapAttempts(v)
               PROVE  FALSE
    BY DEF Reap
  <2>1. now' = now /\ attempts' = [attempts EXCEPT ![v] = NoValue] /\ attempts[v].expiresAt <= now
    BY DEF ReapAttempts, callVars
  <2>2. v = u
    BY <2>1 DEF ThrottleInv, AttemptsInv
  <2> QED
    BY <1>2, <2>1, <2>2 DEF InForce, AttemptRow
<1>6. \E c \in Call : RecordFailure(c) \/ ClearFailures(c)
  <2>1. UNCHANGED accountVars => attempts' = attempts
    BY DEF accountVars
  <2>2. ASSUME NEW c \in Call, AuthHook(c, First)
        PROVE  attempts' = attempts
    BY <2>2 DEF AuthHook, accountVars
  <2>3. ASSUME NEW c \in Call, AccountStep(c), ~(RecordFailure(c) \/ ClearFailures(c))
        PROVE  attempts' = attempts
    BY <2>3 DEF AccountStep, CheckLock, FindUser, ReadAttempts, SignSession, CountUsers, SeedAdmin,
       CheckEmail, CreateUser, Inserted, ReadTarget, CountAdmins, UpdateUser, SetPassword, Logout, accountVars
  <2>4. UNCHANGED vars => attempts' = attempts
    BY DEF vars, accountVars
  <2>5. ReapRecords => attempts' = attempts
    BY DEF ReapRecords, accountVars
  <2> QED
    BY <1>1, <1>5, <2>1, <2>2, <2>3, <2>4, <2>5 DEF Next
<1> QED
  BY <1>3, <1>4, <1>6

\* A lock in force is ended early by a login that succeeds, or by one that ran
\* while another of the same account did, and by nothing else: no TTL, no
\* crash, no call of another account.
THEOREM LocksEndForAReason == Spec => LocksHold
<1>1. ThrottleInv /\ [Next]_vars =>
        [\A u \in User :
           InForce(attempts[u], now') /\ ~InForce(attempts'[u], now') =>
             \E c \in Call :
               /\ pc[c] # pc'[c]
               /\ request[c].op = "login" /\ request[c].user = u
               /\ \/ pc[c] = "clear"
                  \/ \E d \in during[c] : request[d].op = "login" /\ request[d].user = u]_<<callVars, accountVars>>
  BY LockEnds
<1> QED
  BY <1>1, ThrottleHolds, PTL DEF Spec, LocksHold

-----------------------------------------------------------------------------
(* The collections                                                         *)

\* What the other invariants do not say of the shape of the collections.
TablesInv ==
  /\ IsAFunction(drafts) /\ IsAFunction(live)
  /\ \A a \in accepted : a.call \in Call /\ a.at \in Nat

LEMMA PublishingKeepsTables ==
  ASSUME NEW c \in Call, PublishingStep(c), IsAFunction(drafts), IsAFunction(live)
  PROVE  IsAFunction(drafts') /\ IsAFunction(live')
<1>1. ASSUME NEW f, NEW x, NEW y
      PROVE  IsAFunction([f EXCEPT ![x] = y])
  BY DEF IsAFunction
<1>2. UNCHANGED drafts \/ \E g, row : drafts' = [drafts EXCEPT ![g] = row]
  BY DEF PublishingStep, CheckNew, SaveNew, ReadForPut, SavePut, FromPublished, ReadPublished, SaveFromPublished,
     ReadForUpload, UploadAsset, SaveUpload, ReadForClear, SaveClear, ReadForPublish, ReadVersion, InsertVersion,
     ReplaceLive, ReadForDelete, CountRounds, DeleteLive, DeleteVersions, DeleteDraft, SeedLive, SeedVersion,
     LoadGame, PlayRound, SaveDraft, publishingVars
<1>3. UNCHANGED live \/ \E g, row : live' = [live EXCEPT ![g] = row]
  BY DEF PublishingStep, CheckNew, SaveNew, ReadForPut, SavePut, FromPublished, ReadPublished, SaveFromPublished,
     ReadForUpload, UploadAsset, SaveUpload, ReadForClear, SaveClear, ReadForPublish, ReadVersion, InsertVersion,
     ReplaceLive, ReadForDelete, CountRounds, DeleteLive, DeleteVersions, DeleteDraft, SeedLive, SeedVersion,
     LoadGame, PlayRound, SaveDraft, publishingVars
<1> QED
  BY <1>1, <1>2, <1>3

LEMMA AccessKeepsAccepted ==
  ASSUME NEW c \in Call, AccessStep(c), now \in Nat, \A a \in accepted : a.call \in Call /\ a.at \in Nat
  PROVE  \A a \in accepted' : a.call \in Call /\ a.at \in Nat
<1>1. UNCHANGED accepted \/ accepted' = accepted \cup {[call |-> c, checked |-> seen[c].checked, at |-> now]}
  BY DEF AccessStep, CheckOperator, InsertOperator, UpdateOperator, RotateSecret, CheckSignature,
     RecordSignature, CheckEnabled, IssueLaunchToken, PresentToken, ConsumeToken, accessVars
<1> QED
  BY <1>1

LEMMA TablesGoOn ==
  ASSUME TablesInv, now \in Nat, [Next]_vars
  PROVE  TablesInv'
<1>1. CASE UNCHANGED <<drafts, live, accepted>>
  BY <1>1 DEF TablesInv, IsAFunction
<1>2. ASSUME NEW c \in Call, PublishingStep(c), UNCHANGED accessVars
      PROVE  TablesInv'
  BY <1>2, PublishingKeepsTables DEF TablesInv, accessVars
<1>3. ASSUME NEW c \in Call, AccessStep(c), UNCHANGED publishingVars
      PROVE  TablesInv'
  <2>1. drafts' = drafts /\ live' = live
    BY <1>3 DEF publishingVars
  <2> QED
    BY <1>3, <2>1, AccessKeepsAccepted DEF TablesInv
<1>4. ReapRecords => UNCHANGED <<drafts, live, accepted>>
  BY DEF ReapRecords, ReapSignature, ReapToken, publishingVars
<1>5. Reap => UNCHANGED <<drafts, live, accepted>>
  BY DEF Reap, publishingVars, accessVars
<1> QED
  BY <1>1, <1>2, <1>3, <1>4, <1>5 DEF Next, vars, publishingVars, accessVars

LEMMA TablesBegin == Init => TablesInv
BY DEF Init, TablesInv, IsAFunction

\* Every collection holds what its validator and the routes let in, and no two
\* snapshots of a game have one number.
THEOREM CollectionsTyped == Spec => []TypeOK
<1> DEFINE Inv == IInv /\ PublishingInv /\ AccessInv /\ ThrottleInv /\ TablesInv
<1>1. Init => Inv
  BY InitHolds, PublishingBegins, AccessBegins, ThrottleBegins, TablesBegin
<1>2. Inv /\ [Next]_vars => Inv'
  BY NextPreserves, PublishingGoesOn, AccessGoesOn, ThrottleGoesOn, TablesGoOn DEF ThrottleInv, AttemptsInv
<1>3. Inv => TypeOK
  <2> SUFFICES ASSUME Inv
               PROVE  TypeOK
    OBVIOUS
  <2>1. situation \in Situation /\ users \in [User -> UserRow \cup {NoValue}]
    BY DEF IInv, Shapes
  <2>2. now \in Nat /\ failures \in [User -> Nat] /\ attempts \in [User -> AttemptRow \cup {NoValue}]
    BY DEF ThrottleInv, AttemptsInv
  <2>3. drafts \in [Game -> Draft \cup {NoValue}]
    <3>1. \A g \in Game : drafts[g] \in Draft \cup {NoValue}
      BY DEF PublishingInv, RowsInv, Held
    <3>2. DOMAIN drafts = Game /\ drafts = [g \in DOMAIN drafts |-> drafts[g]]
      BY DEF PublishingInv, RowsInv, TablesInv, IsAFunction
    <3> QED
      BY <3>1, <3>2
  <2>4. live \in [Game -> LiveRow \cup {NoValue}]
    <3>1. \A g \in Game : live[g] \in LiveRow \cup {NoValue}
      BY DEF PublishingInv, RowsInv
    <3>2. DOMAIN live = Game /\ live = [g \in DOMAIN live |-> live[g]]
      BY DEF PublishingInv, RowsInv, TablesInv, IsAFunction
    <3> QED
      BY <3>1, <3>2
  <2>5. /\ \A v, w \in versions : v.game = w.game /\ v.version = w.version => v = w
        /\ bucket \subseteq Call /\ played \subseteq Game
    BY DEF PublishingInv, RowsInv
  <2>6. operators \in [Operator -> OperatorRow \cup {NoValue}]
    BY DEF AccessInv, KeysInv
  <2>7. \A a \in accepted : a.call \in Call /\ a.at \in Nat
    BY DEF TablesInv
  <2> QED
    BY <2>1, <2>2, <2>3, <2>4, <2>5, <2>6, <2>7 DEF TypeOK
<1> QED
  BY <1>1, <1>2, <1>3, PTL DEF Spec
=============================================================================
