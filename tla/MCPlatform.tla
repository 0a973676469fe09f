----------------------------- MODULE MCPlatform -----------------------------
(* The situations of Platform for TLC.                                     *)
EXTENDS Platform, TLC

CONSTANTS ana, ben, dee, old, new, good, tilted, bad, dark, g1, op1, op2, p1

Symmetry == Permutations(Call)

NoDrafts == [draft |-> NoValue, live |-> NoValue, operators |-> [o \in Operator |-> NoValue]]
Staff(roles) == [u \in User |-> IF u \in DOMAIN roles THEN NewRow(old, roles[u]) ELSE NoValue]
Of(requests, calls, until, crashes, staff) ==
  [requests |-> requests, calls |-> calls, until |-> until, crashes |-> crashes, users |-> staff]

Admin == {"super_admin"}
Designer == {"game_designer"}
Operations == {"operations"}

LoginAs(u, password) == [op |-> "login", user |-> u, password |-> password]
Update(by, u, patch) == [op |-> "updateUser", as |-> by, user |-> u, patch |-> patch]
Demote == [roles |-> Designer]
Promote == [roles |-> Admin]
Deactivate == [active |-> FALSE]

\* Two administrators and a designer change one another.
Team ==
  Of({Update(by, u, patch) : by \in {ana, ben}, u \in {ana, ben}, patch \in {Demote, Deactivate}}
     \cup {Update(ana, dee, Promote), Update(dee, ana, Demote)},
     3, 0, 0, Staff(ana :> Admin @@ ben :> Admin @@ dee :> Designer)) @@ NoDrafts

\* A user logs in and out while another changes the password or the roles.
Sessions ==
  Of({LoginAs(ben, old), LoginAs(ben, new), Update(ana, ben, Demote), [op |-> "logout", as |-> ben],
      [op |-> "setPassword", as |-> ana, user |-> ben, password |-> new]},
     3, 1, 0, Staff(ana :> Admin @@ ben :> Admin)) @@ NoDrafts

\* One account, the right password and the wrong one, over several windows.
Guessing ==
  Of({LoginAs(ana, old), LoginAs(ana, new)}, 4, 2, 0, Staff(ana :> Admin)) @@ NoDrafts

\* Processes that start on an empty database.
FirstBoot ==
  Of({[op |-> "boot", user |-> ana, password |-> old], LoginAs(ana, old),
      [op |-> "createUser", as |-> ana, user |-> ben, password |-> new, roles |-> Designer]},
     4, 0, 1, [u \in User |-> NoValue]) @@ NoDrafts

On(op) == [op |-> op, as |-> dee, game |-> g1]
Put(patch, removed) == On("put") @@ [patch |-> patch, removed |-> removed]
Shown == [object |-> NoValue, signed |-> TRUE]
Publish(force) == On("publish") @@ [force |-> force]

GoodDraft == [f \in {"math"} |-> good]
Themed == [math |-> good, theme |-> dark]
LiveGame == [version |-> 1, def |-> GoodDraft]
Studio == Staff(ana :> Admin @@ dee :> Designer)
NoOperators == [operators |-> [o \in Operator |-> NoValue]]

\* Designers edit, upload, clear and publish a game that is live.
Editing ==
  Of({Put([math |-> bad], {}), Put([math |-> tilted, assets |-> [s \in {"music"} |-> Shown]], {"theme"}),
      On("upload") @@ [slot |-> "music"], On("clear") @@ [slot |-> "music"],
      Publish(FALSE), Publish(TRUE)}, 3, 0, 0, Studio)
  @@ [draft |-> Themed, live |-> LiveGame] @@ NoOperators

\* Games are published, deleted, seeded, created and played; processes die.
Lifecycle ==
  Of({Publish(FALSE), On("delete"), On("fromPublished"), On("createGame") @@ [padded |-> TRUE],
      [op |-> "seed", game |-> g1], [op |-> "spin", game |-> g1]}, 3, 0, 1, Studio)
  @@ [draft |-> Themed, live |-> NoValue] @@ NoOperators

Clerks == Staff(ana :> Admin @@ dee :> Operations)
Operators == op1 :> [key |-> FirstKey, games |-> {g1}, disabled |-> FALSE] @@ op2 :> NoValue
Launch == [op |-> "launch", key |-> FirstKey, timestamp |-> 0, player |-> p1, game |-> g1]

\* An operator's server retries a launch, the player's browser a join, while
\* the operator is disabled, its secret rotated, the game withdrawn.
Access ==
  Of({Launch, [op |-> "join"],
      [op |-> "updateOperator", as |-> dee, operator |-> op1, patch |-> [disabled |-> TRUE]],
      [op |-> "updateOperator", as |-> dee, operator |-> op1, patch |-> [games |-> {}]],
      [op |-> "rotateSecret", as |-> dee, operator |-> op1]}, 3, 4, 0, Clerks)
  @@ [draft |-> NoValue, live |-> LiveGame, operators |-> Operators]

\* The same, from a server whose clock is ahead of ours.
EarlyClock ==
  Of({[Launch EXCEPT !.timestamp = 2]}, 3, 4, 0, Clerks)
  @@ [draft |-> NoValue, live |-> LiveGame, operators |-> Operators]

\* Two calls create the same operator.
NewOperators ==
  Of({[op |-> "createOperator", as |-> dee, operator |-> o, games |-> {g1}] : o \in {op1, op2}}
     \cup {[op |-> "updateOperator", as |-> dee, operator |-> op2, patch |-> [s \in {} |-> {}]],
           [op |-> "rotateSecret", as |-> dee, operator |-> op2]},
     3, 0, 0, Clerks)
  @@ [draft |-> NoValue, live |-> LiveGame, operators |-> Operators]

Situations ==
  [team |-> Team, sessions |-> Sessions, guessing |-> Guessing, boot |-> FirstBoot, editing |-> Editing,
   lifecycle |-> Lifecycle, access |-> Access, ahead |-> EarlyClock, operators |-> NewOperators]
=============================================================================
