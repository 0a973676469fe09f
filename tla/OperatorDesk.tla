---------------------------- MODULE OperatorDesk ----------------------------
(***************************************************************************)
(* The operators and users screens.  Both show a list, and both change a   *)
(* row by sending what the list shows of it with one entry turned: an      *)
(* operator's games, a user's roles.  What the server makes of such calls  *)
(* beyond this is the subject of OperatorAccess and BackofficeAccounts.    *)
(***************************************************************************)
EXTENDS ConsoleCalls

CONSTANTS
  Operators,   \* operators' ids
  Staff,       \* users' ids
  Self         \* the user of the page

VARIABLES
  desk,        \* the rows, or NoValue: [grants (games or roles), off, secret]
  promises,    \* history: what was last asked of each grant, and whether
               \* something has put it at risk: [on, risky]
  overtaken    \* history: operators with secrets answered out of order, or to
               \* a screen that is gone

deskVars == <<desk, promises, overtaken>>

\* What can be granted: games, or roles.
Grants == UNION {SituationOf[s].grants : s \in Situation}
DeskRow == [grants : SUBSET Grants, off : BOOLEAN, secret : Nat]

\* NoValue is neither a row nor an answer, and nobody starts with a secret
\* that a call of the page made.
ASSUME DeskAssumption ==
  /\ Operators \cap Staff = {}
  /\ "off" \notin Grants
  /\ NoValue \notin DeskRow /\ NoValue \notin [status : {200}, body : Nat]
  /\ \A s \in Situation :
       LET rows == SituationOf[s].desk IN
       /\ rows \in [Operators \cup Staff -> DeskRow \cup {NoValue}]
       /\ \A h \in Operators \cup Staff : rows[h] # NoValue => rows[h].secret = 0

Row(grants, secret) == [grants |-> grants, off |-> FALSE, secret |-> secret]

-----------------------------------------------------------------------------
(* The screens                                                             *)

\* "issued" is the secret on show; its panel's checkbox outlives the secret.
OperatorsScreen(mount) ==
  [name |-> "operators", mount |-> mount, rows |-> NoValue, issued |-> NoValue, acknowledged |-> FALSE]

UsersScreen(mount) == [name |-> "users", mount |-> mount, rows |-> NoValue]

List(s) == Request(IF s.name = "users" THEN "listUsers" ELSE "listOperators", NoValue, s.mount)

OnDesk == screen.name \in {"operators", "users"} /\ screen.rows # NoValue
OnOperators == OnDesk /\ screen.name = "operators"
CanManage == The.role \in RolesFor("updateOperator")

Shown(h) == screen.rows[h]
Listed == {h \in DOMAIN screen.rows : Shown(h) # NoValue}

Change(op, arg) == Update(screen, <<Request(op, arg, screen.mount)>>)

UpdateOp == IF screen.name = "users" THEN "updateUser" ELSE "updateOperator"

\* setEnabled, and the picker of a user's roles, which keeps one at least.
Toggle ==
  /\ Act
  /\ OnDesk /\ CanManage
  /\ \E h \in Listed, g \in The.grants :
       LET next == IF g \in Shown(h).grants THEN Shown(h).grants \ {g} ELSE Shown(h).grants \cup {g} IN
       /\ screen.name = "users" => next # {}
       /\ Change(UpdateOp, [who |-> h, field |-> "grants", value |-> next])
       /\ promises' = [k \in DOMAIN promises \cup {<<h, g>>} |->
                         IF k = <<h, g>> THEN [on |-> g \in next, risky |-> FALSE]
                         ELSE IF k[1] = h /\ k[2] # "off"
                         THEN [on |-> promises[k].on, risky |-> (k[2] \in next) # promises[k].on] ELSE promises[k]]
  /\ UNCHANGED <<desk, overtaken>>

\* setDisabled; nobody can deactivate their own account.
Disable ==
  /\ Act
  /\ OnDesk /\ CanManage
  /\ \E h \in Listed \ {Self} :
       /\ Change(UpdateOp, [who |-> h, field |-> "off", value |-> ~Shown(h).off])
       /\ promises' = [k \in DOMAIN promises \cup {<<h, "off">>} |->
                         IF k = <<h, "off">> THEN [on |-> ~Shown(h).off, risky |-> FALSE] ELSE promises[k]]
  /\ UNCHANGED <<desk, overtaken>>

Rotate ==
  /\ Act
  /\ OnOperators /\ CanManage
  /\ \E h \in Listed : Change("rotateSecret", [who |-> h])
  /\ UNCHANGED deskVars

Add ==
  /\ Act
  /\ OnDesk /\ CanManage
  /\ \E h \in IF screen.name = "users" THEN Staff ELSE Operators :
       Change(IF screen.name = "users" THEN "createUser" ELSE "createOperator", [who |-> h])
  /\ UNCHANGED deskVars

SetPassword ==
  /\ Act
  /\ OnDesk /\ screen.name = "users"
  /\ \E h \in Listed : Change("setPassword", [who |-> h])
  /\ UNCHANGED deskVars

\* "I have stored this secret", and "Done", which needs it.
Acknowledge ==
  /\ Act
  /\ OnOperators /\ screen.issued # NoValue
  /\ Update(IF screen.acknowledged THEN [screen EXCEPT !.issued = NoValue, !.acknowledged = FALSE]
            ELSE [screen EXCEPT !.acknowledged = TRUE], <<>>)
  /\ UNCHANGED deskVars

-----------------------------------------------------------------------------
(* backoffice-api                                                          *)

Keeps(rows, k, promise) ==
  (IF k[2] = "off" THEN rows[k[1]].off ELSE k[2] \in rows[k[1]].grants) = promise.on

\* An update puts back what a later one has stored: that is at risk.
PromisesAfter(next) ==
  [k \in DOMAIN promises |->
     [on |-> promises[k].on,
      risky |-> promises[k].risky \/ (Keeps(desk, k, promises[k]) /\ ~Keeps(next, k, promises[k]))]]

\* A change of one's own roles or password ends every session one has.
SignsOut(who) == sessions' = IF who = Self THEN {} ELSE sessions

\* The refusals of an update (the last super admin, one's own account) are
\* the subject of BackofficeAccounts.
ServeUpdate(n) ==
  LET arg == calls[n].arg
      next == [desk EXCEPT ![arg.who] = IF arg.field = "off" THEN [@ EXCEPT !.off = arg.value]
                                        ELSE [@ EXCEPT !.grants = arg.value]]
  IN
  /\ Admitted(n, {"updateOperator", "updateUser"})
  /\ desk' = next
  /\ promises' = PromisesAfter(next)
  /\ Reply(n, Status(200))
  /\ SignsOut(arg.who)
  /\ UNCHANGED overtaken

ServePassword(n) ==
  /\ Admitted(n, {"setPassword"})
  /\ Reply(n, Status(200))
  /\ SignsOut(calls[n].arg.who)
  /\ UNCHANGED deskVars

\* The call's number stands for the secret it makes.
ServeRotate(n) ==
  /\ Admitted(n, {"rotateSecret"})
  /\ desk' = [desk EXCEPT ![calls[n].arg.who].secret = n]
  /\ Reply(n, Ok(n))
  /\ UNCHANGED <<sessions, promises, overtaken>>

ServeAdd(n) ==
  LET who == calls[n].arg.who IN
  /\ Admitted(n, {"createOperator", "createUser"})
  /\ IF desk[who] # NoValue THEN Reply(n, Status(409)) /\ UNCHANGED desk
     ELSE Reply(n, Ok(n)) /\ desk' = [desk EXCEPT ![who] = Row(IF who \in Staff THEN The.grants ELSE {}, n)]
  /\ UNCHANGED <<sessions, promises, overtaken>>

ServeList(n) ==
  /\ Admitted(n, {"listOperators", "listUsers", "audit"})
  /\ Reply(n, CASE calls[n].op = "listOperators" -> Ok([h \in Operators |-> desk[h]])
                [] calls[n].op = "listUsers" -> Ok([h \in Staff |-> desk[h]])
                [] calls[n].op = "audit" -> Status(200))
  /\ UNCHANGED <<sessions, deskVars>>

ServeDesk(n) == ServeUpdate(n) \/ ServePassword(n) \/ ServeRotate(n) \/ ServeAdd(n) \/ ServeList(n)

\* What an update that fails had asked for, and is not stored, is at risk.
PromisesAfterFailing(n) ==
  [k \in DOMAIN promises |->
     [on |-> promises[k].on,
      risky |-> promises[k].risky
                \/ (calls[n].op \in {"updateOperator", "updateUser"} /\ calls[n].arg.who = k[1]
                      /\ ~Keeps(desk, k, promises[k]))]]

-----------------------------------------------------------------------------
(* Answers                                                                 *)

\* Mutant: a secret that is still on show stays.
KeepShown(c) ==
  IF screen.issued # NoValue THEN screen ELSE [screen EXCEPT !.issued = [who |-> c.arg.who, secret |-> c.reply.body]]

\* A later secret replaces the one on show.
Issue(c) == [screen EXCEPT !.issued = [who |-> c.arg.who, secret |-> c.reply.body]]

\* The operators screen opens, without a row, when its first list fails.
Loaded(c) ==
  IF c.op = "listOperators" /\ screen.name = "operators" /\ screen.rows = NoValue
  THEN [screen EXCEPT !.rows = [h \in Operators |-> NoValue]] ELSE screen

\* After every change that went through the list is loaded again.
OnDeskAnswer(c) ==
  LET here == c.mount = screen.mount
      changes == c.op \notin {"listOperators", "listUsers", "audit"}
  IN
  [screen |-> IF ~here THEN screen
              ELSE IF ~Good(c) THEN Loaded(c)
              ELSE IF c.op \in {"rotateSecret", "createOperator"} THEN Issue(c)
              ELSE IF ~changes /\ screen.name \in {"operators", "users"} THEN [screen EXCEPT !.rows = c.reply.body]
              ELSE screen,
   send |-> IF changes /\ Good(c)
            THEN <<Request(IF c.op \in {"updateUser", "createUser", "setPassword"} THEN "listUsers" ELSE "listOperators",
                           NoValue, c.mount)>>
            ELSE <<>>]

\* The secret that is good was answered before this one, or is answered to a
\* screen that is gone; a screen that gets it makes up for that.
OvertakenAfter(n) ==
  LET c == calls[n]
      here == c.mount = screen.mount
      good == desk[c.arg.who].secret
  IN
  IF c.op \notin {"rotateSecret", "createOperator"} \/ ~Good(c) THEN overtaken
  ELSE IF here /\ good = n THEN overtaken \ {c.arg.who}
  ELSE IF (here \/ good = n) /\ good \notin DOMAIN calls \ {n} THEN overtaken \cup {c.arg.who}
  ELSE overtaken

DeskStep == Toggle \/ Disable \/ Rotate \/ Add \/ SetPassword \/ Acknowledge
=============================================================================
