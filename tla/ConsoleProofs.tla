---------------------------- MODULE ConsoleProofs ----------------------------
(***************************************************************************)
(* What every behaviour of the backoffice page keeps, for every situation, *)
(* any number of screens and any number of calls under way: calls are      *)
(* answered to the screen that made them, changes of rows are kept, so are *)
(* the edits of a draft, and a report lacks nothing.                       *)
(*                                                                         *)
(* PageInv is inductive, and with it each of DeskInv, the pair DraftsInv,  *)
(* EditsInv, and ReportsInv.  First what a step does to the page           *)
(* (Committed, InPlace, Replies, ...) is told once; the desk, the drafts   *)
(* and the reports then look only at that.                                 *)
(***************************************************************************)
EXTENDS Console, FiniteSetTheorems, TLAPS

-----------------------------------------------------------------------------
(* The page: its screen and its calls.                                     *)

GameOps == {"getGame", "fromPublished", "saveDraft", "upload", "simulate", "publish", "history"}
OperatorOps == {"createOperator", "updateOperator", "rotateSecret"}
UserOps == {"listUsers", "createUser", "updateUser", "setPassword"}
ReportOps == {"transactions", "summary", "csv"}
Ops == GameOps \cup OperatorOps \cup UserOps \cup ReportOps
       \cup {"listGames", "createGame", "lookup", "listOperators", "audit", "login", "logout"}

\* The screens that make a call, or wait for its answer.
Home(op) ==
  IF op \in GameOps THEN {"game"}
  ELSE IF op \in OperatorOps THEN {"operators"}
  ELSE IF op \in UserOps THEN {"users"}
  ELSE IF op \in ReportOps THEN {"reports"}
  ELSE IF op \in {"listGames", "createGame"} THEN {"games"}
  ELSE IF op = "lookup" THEN {"support"}
  ELSE IF op = "listOperators" THEN {"operators", "reports"}
  ELSE IF op = "audit" THEN {"audit"}
  ELSE IF op = "login" THEN {"login"}
  ELSE {"login", "games", "game", "reports", "support", "operators", "users", "audit"}

\* The fields of a screen that the arguments speak of.
Shape(s) ==
  /\ {"name", "mount"} \subseteq DOMAIN s
  /\ s.name \in {"login", "games", "game", "reports", "support", "operators", "users", "audit"}
  /\ s.name = "game" => {"draft", "pending", "timer"} \subseteq DOMAIN s
  /\ s.name = "operators" => {"rows", "issued"} \subseteq DOMAIN s
  /\ s.name = "users" => "rows" \in DOMAIN s

IsCall(c) ==
  /\ DOMAIN c = {"op", "arg", "mount", "session", "read", "reply"}
  /\ c.op \in Ops
  /\ c.mount \in Nat

\* A call is answered to the screen that made it, if that is still there.
PageInv ==
  /\ situation \in Situation
  /\ route \in Routes
  /\ issued \in Nat /\ mounts \in Nat
  /\ Shape(screen) /\ screen.mount = mounts
  /\ DOMAIN calls \subseteq 1..issued
  /\ \A n \in DOMAIN calls :
       /\ IsCall(calls[n])
       /\ calls[n].mount <= mounts
       /\ calls[n].mount = mounts => screen.name \in Home(calls[n].op)

-----------------------------------------------------------------------------
(* The desk.                                                               *)

UpdateOps == {"updateOperator", "updateUser"}
SecretOps == {"rotateSecret", "createOperator"}
People == Operators \cup Staff

\* A list of some of the rows, as they are or were.
IsList(rows, who, now) ==
  /\ rows \in [who -> DeskRow \cup {NoValue}]
  /\ \A h \in who : rows[h] # NoValue => now[h] # NoValue

Answered(c) == c.reply # NoValue /\ Good(c)

DeskCallOK(n) ==
  LET c == calls[n] IN
  /\ c.op \in UpdateOps =>
       /\ DOMAIN c.arg = {"who", "field", "value"}
       /\ c.arg.who \in People /\ desk[c.arg.who] # NoValue
       /\ \/ c.arg.field = "off" /\ c.arg.value \in BOOLEAN
          \/ c.arg.field = "grants" /\ c.arg.value \subseteq Grants
  /\ c.op \in SecretOps => c.arg.who \in Operators
  /\ c.op = "rotateSecret" => desk[c.arg.who] # NoValue
  /\ c.op = "createUser" => c.arg.who \in Staff
  /\ c.op \in SecretOps /\ Answered(c) => c.reply.body = n /\ desk[c.arg.who] # NoValue
  /\ c.op = "listOperators" /\ Answered(c) => IsList(c.reply.body, Operators, desk)
  /\ c.op = "listUsers" /\ Answered(c) => IsList(c.reply.body, Staff, desk)

\* The secret of a row is from the start, or of a call that was answered.
SecretOK(w) ==
  LET n == desk[w].secret IN
  /\ n \in 0..issued
  /\ n \in DOMAIN calls =>
       /\ calls[n].op \in SecretOps \cup {"createUser"}
       /\ calls[n].arg.who = w
       /\ Answered(calls[n])

DeskTypes ==
  /\ desk \in [People -> DeskRow \cup {NoValue}]
  /\ screen.name = "operators" /\ screen.rows # NoValue => IsList(screen.rows, Operators, desk)
  /\ screen.name = "users" /\ screen.rows # NoValue => IsList(screen.rows, Staff, desk)
  /\ \A n \in DOMAIN calls : DeskCallOK(n)
  /\ \A w \in People : desk[w] # NoValue => SecretOK(w)

\* A secret on show is good, or overtaken, or the good one is on its way.
ShownInv ==
  screen.name = "operators" /\ screen.issued # NoValue =>
    /\ screen.issued.who \in Operators
    /\ desk[screen.issued.who] # NoValue
    /\ \/ desk[screen.issued.who].secret \in {screen.issued.secret} \cup DOMAIN calls
       \/ screen.issued.who \in overtaken

\* A call, when it is served, stores what was asked of k.
Stores(c, k, on) ==
  /\ c.op \in UpdateOps /\ c.reply = NoValue
  /\ c.arg.who = k[1]
  /\ IF k[2] = "off" THEN c.arg.field = "off" /\ c.arg.value = on
     ELSE c.arg.field = "grants" /\ (k[2] \in c.arg.value) = on

PromiseKey == {k \in People \X (Grants \cup {"off"}) : desk[k[1]] # NoValue}

PromisesInv ==
  /\ DOMAIN promises \subseteq PromiseKey
  /\ \A k \in DOMAIN promises :
       /\ DOMAIN promises[k] = {"on", "risky"}
       /\ promises[k].on \in BOOLEAN /\ promises[k].risky \in BOOLEAN
       /\ \/ promises[k].risky
          \/ Keeps(desk, k, promises[k])
          \/ \E n \in DOMAIN calls : Stores(calls[n], k, promises[k].on)

DeskInv == DeskTypes /\ ShownInv /\ PromisesInv

-----------------------------------------------------------------------------
(* The drafts.                                                             *)

Known(d, now) == d # NoValue => now # NoValue /\ DOMAIN d = Fields

DraftOps == {"getGame", "saveDraft", "upload", "fromPublished"}

IsLive(l) == l # NoValue => DOMAIN l = {"version", "def"} /\ l.def # NoValue /\ DOMAIN l.def = Fields

\* A save that was sent since an edit has it, and so has what is pending.
SentInv ==
  \A f \in DOMAIN kept :
    \/ kept[f].risky
    \/ /\ screen.name = "game" /\ screen.pending # NoValue => Plain(screen.pending[f]) = kept[f].value
       /\ \A n \in DOMAIN calls :
            n > kept[f].since /\ calls[n].op = "saveDraft" /\ calls[n].reply = NoValue =>
              Plain(calls[n].arg[f]) = kept[f].value

DraftsInv ==
  /\ stored # NoValue => DOMAIN stored = Fields
  /\ IsLive(live)
  /\ screen.name = "game" =>
       /\ Known(screen.draft, stored) /\ Known(screen.pending, stored)
       /\ screen.timer \in BOOLEAN /\ (screen.timer => screen.pending # NoValue)
  /\ \A n \in DOMAIN calls :
       /\ calls[n].op = "saveDraft" => calls[n].arg # NoValue /\ Known(calls[n].arg, stored)
       /\ calls[n].read # NoValue => Known(calls[n].read.draft, stored)
       /\ calls[n].op = "saveDraft" /\ calls[n].read # NoValue => calls[n].read.draft # NoValue
       /\ calls[n].op \in DraftOps /\ Answered(calls[n]) => Known(calls[n].reply.body.draft, stored)
  /\ DOMAIN kept \subseteq Fields \ {"assets"}
  /\ DOMAIN kept # {} => stored # NoValue
  /\ \A f \in DOMAIN kept :
       DOMAIN kept[f] = {"value", "since", "risky"} /\ kept[f].since \in 0 .. issued /\ kept[f].risky \in BOOLEAN
  /\ SentInv

\* A body that stores the value of f when it is served.
Carries(body, f, value) ==
  /\ f \in DOMAIN body
  /\ f \in Optional => body[f] # Absent
  /\ Plain(body[f]) = value

\* An edit is stored, or waits to be sent, or is on its way.
EditsInv ==
  \A f \in DOMAIN kept :
    \/ kept[f].risky
    \/ stored[f] = kept[f].value
    \/ screen.name = "game" /\ screen.pending # NoValue /\ Carries(screen.pending, f, kept[f].value)
    \/ \E n \in DOMAIN calls :
         calls[n].op = "saveDraft" /\ calls[n].reply = NoValue /\ Carries(calls[n].arg, f, kept[f].value)

-----------------------------------------------------------------------------
(* Steps of the page                                                       *)

Made(request, as) ==
  [op |-> request.op, arg |-> request.arg, mount |-> request.mount, session |-> as, read |-> NoValue,
   reply |-> NoValue]

\* The calls in "others" stay and the requests join them.
Joins(requests, as, others) ==
  /\ issued' = issued + Len(requests)
  /\ DOMAIN calls' = others \cup (issued + 1 .. issued + Len(requests))
  /\ \A n \in others : calls'[n] = calls[n]
  /\ \A i \in 1 .. Len(requests) : calls'[issued + i] = Made(requests[i], as)

LEMMA Joining ==
  ASSUME PageInv, NEW R, NEW requests \in Seq(R), NEW as, NEW others \in SUBSET DOMAIN calls,
         Send(requests, as, others)
  PROVE  Joins(requests, as, others)
<1> DEFINE sent == Sent(requests, as, issued)
<1>1. issued \in Nat /\ Len(requests) \in Nat
  BY DEF PageInv
<1>2. DOMAIN sent = issued + 1 .. issued + Len(requests)
  BY DEF Sent
<1>3. \A n \in others : n \notin DOMAIN sent /\ n <= issued
  BY <1>1, <1>2 DEF PageInv
<1>4. calls' = [n \in others \cup DOMAIN sent |-> IF n \in others THEN calls[n] ELSE sent[n]]
  BY DEF Send
<1>5. ASSUME NEW i \in 1 .. Len(requests) PROVE calls'[issued + i] = Made(requests[i], as)
  <2>1. issued + i \in DOMAIN sent /\ issued + i \notin others /\ (issued + i) - issued = i
    BY <1>1, <1>2, <1>3
  <2>2. sent[issued + i] = Made(requests[i], as)
    BY <2>1 DEF Sent, Made
  <2> QED BY <1>4, <2>1, <2>2
<1> QED BY <1>2, <1>4, <1>5 DEF Joins, Send

\* What the page may ask for, from the screen that is there.
Fits(r) ==
  /\ r.op \in Ops
  /\ r.mount \in Nat /\ r.mount <= mounts
  /\ r.mount = mounts => screen.name \in Home(r.op)

\* The screen is still the same one.
Alike(s) == DOMAIN s = DOMAIN screen /\ s.name = screen.name /\ s.mount = screen.mount

\* A call that joined is one of the requests.
LEMMA Joined ==
  ASSUME PageInv, NEW R, NEW requests \in Seq(R), NEW as, NEW others \in SUBSET DOMAIN calls,
         Joins(requests, as, others),
         NEW n \in DOMAIN calls'
  PROVE  \/ n \in others /\ calls'[n] = calls[n]
         \/ n \notin others /\ n > issued /\ \E r \in R : calls'[n] = Made(r, as)
<1>1. issued \in Nat /\ Len(requests) \in Nat
  BY DEF PageInv
<1>2. CASE n \in others
  BY <1>2 DEF Joins
<1>3. CASE n \notin others
  <2> DEFINE i == n - issued
  <2>1. i \in 1 .. Len(requests) /\ n = issued + i /\ n > issued
    BY <1>1, <1>3 DEF Joins
  <2>2. requests[i] \in R
    BY <2>1
  <2> QED BY <1>3, <2>1, <2>2 DEF Joins
<1> QED BY <1>2, <1>3

LEMMA UpdateKeepsPage ==
  ASSUME PageInv, NEW R, NEW requests \in Seq(R), NEW next, Update(next, requests),
         \A r \in R : Fits(r), Alike(next)
  PROVE  PageInv' /\ Joins(requests, session, DOMAIN calls)
<1>1. Joins(requests, session, DOMAIN calls)
  BY Joining DEF Update
<1>2. issued \in Nat /\ Len(requests) \in Nat /\ mounts \in Nat
  BY DEF PageInv
<1>3. issued' \in Nat /\ DOMAIN calls' \subseteq 1 .. issued'
  BY <1>1, <1>2 DEF Joins, PageInv
<1>4. ASSUME NEW n \in DOMAIN calls'
      PROVE /\ IsCall(calls'[n])
            /\ calls'[n].mount <= mounts
            /\ calls'[n].mount = mounts => screen.name \in Home(calls'[n].op)
  <2>1. CASE n \in DOMAIN calls /\ calls'[n] = calls[n]
    BY <2>1 DEF PageInv
  <2>2. CASE \E r \in R : calls'[n] = Made(r, session)
    <3>1. PICK r \in R : calls'[n] = Made(r, session)
      BY <2>2
    <3> QED BY <3>1 DEF Made, IsCall, Fits
  <2> QED BY <1>1, <2>1, <2>2, Joined
<1>5. Shape(screen') /\ screen'.mount = mounts' /\ screen'.name = screen.name /\ mounts' = mounts
  BY DEF Update, Alike, PageInv, Shape
<1>6. situation' \in Situation /\ route' \in Routes
  BY DEF Update, PageInv
<1> QED BY <1>1, <1>2, <1>3, <1>4, <1>5, <1>6 DEF PageInv

\* A server's step answers one call.
Replied(n) ==
  /\ n \in DOMAIN calls /\ calls[n].reply = NoValue
  /\ UNCHANGED <<situation, route, screen, mounts, issued>>
  /\ \E reply : calls' = [calls EXCEPT ![n].reply = reply]

\* The answered call is the same but for its reply, and the others are the same.
LEMMA Replies ==
  ASSUME PageInv, NEW n \in DOMAIN calls, NEW reply, calls' = [calls EXCEPT ![n].reply = reply]
  PROVE  /\ DOMAIN calls' = DOMAIN calls
         /\ \A m \in DOMAIN calls : m # n => calls'[m] = calls[m]
         /\ IsCall(calls'[n]) /\ calls'[n].reply = reply
         /\ calls'[n].op = calls[n].op /\ calls'[n].arg = calls[n].arg /\ calls'[n].mount = calls[n].mount
         /\ calls'[n].read = calls[n].read
<1>1. IsCall(calls[n])
  BY DEF PageInv
<1>2. calls'[n] = [calls[n] EXCEPT !.reply = reply]
  OBVIOUS
<1>3. DOMAIN calls'[n] = DOMAIN calls[n]
  BY <1>2
<1> QED BY <1>1, <1>2, <1>3 DEF IsCall

LEMMA ReplyKeepsPage ==
  ASSUME PageInv, NEW n, Replied(n)
  PROVE  PageInv'
<1>1. PICK reply : calls' = [calls EXCEPT ![n].reply = reply]
  BY DEF Replied
<1>2. n \in DOMAIN calls /\ UNCHANGED <<situation, route, screen, mounts, issued>>
  BY DEF Replied
<1>3. /\ DOMAIN calls' = DOMAIN calls
      /\ \A m \in DOMAIN calls : m # n => calls'[m] = calls[m]
      /\ IsCall(calls'[n])
      /\ calls'[n].op = calls[n].op /\ calls'[n].mount = calls[n].mount
  BY <1>1, <1>2, Replies
<1>4. ASSUME NEW m \in DOMAIN calls'
      PROVE /\ IsCall(calls'[m])
            /\ calls'[m].mount <= mounts
            /\ calls'[m].mount = mounts => screen.name \in Home(calls'[m].op)
  BY <1>3 DEF PageInv
<1>5. Shape(screen')
  BY <1>2 DEF PageInv
<1> QED BY <1>2, <1>3, <1>4, <1>5 DEF PageInv

\* A handler has read the draft: its call is the same but for what it knows.
Looks(n) ==
  /\ DOMAIN calls' = DOMAIN calls
  /\ calls[n].op \in {"saveDraft", "upload", "createGame", "fromPublished"}
  /\ calls[n].reply = NoValue /\ calls'[n].read = [draft |-> stored]
  /\ \A m \in DOMAIN calls :
       /\ IsCall(calls'[m])
       /\ calls'[m].op = calls[m].op /\ calls'[m].arg = calls[m].arg
       /\ calls'[m].mount = calls[m].mount /\ calls'[m].reply = calls[m].reply
       /\ m # n => calls'[m] = calls[m]
  /\ UNCHANGED <<situation, route, screen, mounts, issued, stored, live, kept>>

LEMMA Reads ==
  ASSUME PageInv, NEW n \in DOMAIN calls, ReadDraft(n)
  PROVE  Looks(n)
<1> DEFINE known == [draft |-> stored]
<1>1. /\ calls[n].op \in {"saveDraft", "upload", "createGame", "fromPublished"} /\ calls[n].reply = NoValue
      /\ calls' = [calls EXCEPT ![n].read = known]
      /\ UNCHANGED <<situation, route, screen, mounts, issued, stored, live, kept>>
  BY DEF ReadDraft, Admitted, Waiting, gameVars
<1> HIDE DEF known
<1>2. \A m \in DOMAIN calls : IsCall(calls[m])
  BY DEF PageInv
<1>3. calls'[n] = [calls[n] EXCEPT !.read = known]
  BY <1>1
<1>4. /\ IsCall(calls'[n]) /\ calls'[n].read = known
      /\ calls'[n].op = calls[n].op /\ calls'[n].arg = calls[n].arg
      /\ calls'[n].mount = calls[n].mount /\ calls'[n].reply = calls[n].reply
  BY <1>2, <1>3 DEF IsCall
<1>5. DOMAIN calls' = DOMAIN calls /\ \A m \in DOMAIN calls : m # n => calls'[m] = calls[m]
  BY <1>1
<1> QED BY <1>1, <1>2, <1>4, <1>5 DEF Looks, known

LEMMA ReadKeepsPage ==
  ASSUME PageInv, NEW n \in DOMAIN calls, Looks(n)
  PROVE  PageInv'
<1>1. ASSUME NEW m \in DOMAIN calls'
      PROVE /\ IsCall(calls'[m])
            /\ calls'[m].mount <= mounts
            /\ calls'[m].mount = mounts => screen.name \in Home(calls'[m].op)
  BY DEF PageInv, Looks
<1>2. Shape(screen')
  BY DEF PageInv, Looks
<1> QED BY <1>1, <1>2 DEF PageInv, Looks

-----------------------------------------------------------------------------
(* Another screen                                                          *)

Fresh(s) ==
  /\ Shape(s)
  /\ s.name = "game" => s.draft = NoValue /\ s.pending = NoValue /\ s.timer = FALSE
  /\ s.name = "operators" => s.rows = NoValue /\ s.issued = NoValue
  /\ s.name = "users" => s.rows = NoValue
  /\ s.name = "reports" => s = ReportsScreen(s.mount)

LEMMA NewScreens ==
  ASSUME NEW as, NEW to \in Routes, NEW mount
  PROVE  LET s == NewScreen(as, to, mount) IN
         /\ Fresh(s) /\ s.mount = mount
         /\ \/ OnMount(s) = <<>>
            \/ \E op \in {"listGames", "getGame", "listOperators", "listUsers", "audit"} :
                 OnMount(s) = <<Request(op, NoValue, mount)>> /\ s.name \in Home(op)
<1> DEFINE s == NewScreen(as, to, mount)
<1>1. CASE as = NoValue
  <2>1. s = [name |-> "login", mount |-> mount, busy |-> FALSE]
    BY <1>1 DEF NewScreen, LoginScreen
  <2>2. OnMount(s) = <<>>
    BY <2>1 DEF OnMount
  <2> QED BY <2>1, <2>2 DEF Fresh, Shape
<1>2. CASE as # NoValue /\ to = "games"
  <2>1. s = GameListScreen(mount)
    BY <1>2 DEF NewScreen
  <2>2. OnMount(s) = <<Request("listGames", NoValue, mount)>>
    BY <2>1 DEF OnMount, GameListScreen
  <2> QED BY <2>1, <2>2 DEF Fresh, Shape, GameListScreen, Home, GameOps, OperatorOps, UserOps, ReportOps
<1>3. CASE as # NoValue /\ to = "game"
  <2>1. s = GameBuilderScreen(mount)
    BY <1>3 DEF NewScreen
  <2>2. OnMount(s) = <<Request("getGame", NoValue, mount)>>
    BY <2>1 DEF OnMount, GameBuilderScreen
  <2> QED BY <2>1, <2>2 DEF Fresh, Shape, GameBuilderScreen, Home, GameOps, OperatorOps, UserOps, ReportOps
<1>4. CASE as # NoValue /\ to = "reports"
  <2>1. s = ReportsScreen(mount)
    BY <1>4 DEF NewScreen
  <2>2. OnMount(s) = <<Request("listOperators", NoValue, mount)>>
    BY <2>1 DEF OnMount, ReportsScreen
  <2> QED BY <2>1, <2>2 DEF Fresh, Shape, ReportsScreen, Home, GameOps, OperatorOps, UserOps, ReportOps
<1>5. CASE as # NoValue /\ to = "support"
  <2>1. s = SupportScreen(mount)
    BY <1>5 DEF NewScreen
  <2>2. OnMount(s) = <<>>
    BY <2>1 DEF OnMount, SupportScreen
  <2> QED BY <2>1, <2>2 DEF Fresh, Shape, SupportScreen
<1>6. CASE as # NoValue /\ to = "operators"
  <2>1. s = OperatorsScreen(mount)
    BY <1>6 DEF NewScreen
  <2>2. OnMount(s) = <<Request("listOperators", NoValue, mount)>>
    BY <2>1 DEF OnMount, OperatorsScreen, List
  <2> QED BY <2>1, <2>2 DEF Fresh, Shape, OperatorsScreen, Home, GameOps, OperatorOps, UserOps, ReportOps
<1>7. CASE as # NoValue /\ to = "users"
  <2>1. s = UsersScreen(mount)
    BY <1>7 DEF NewScreen
  <2>2. OnMount(s) = <<Request("listUsers", NoValue, mount)>>
    BY <2>1 DEF OnMount, UsersScreen, List
  <2> QED BY <2>1, <2>2 DEF Fresh, Shape, UsersScreen, Home, GameOps, OperatorOps, UserOps, ReportOps
<1>8. CASE as # NoValue /\ to = "audit"
  <2>1. s = [name |-> "audit", mount |-> mount]
    BY <1>8 DEF NewScreen
  <2>2. OnMount(s) = <<Request("audit", NoValue, mount)>>
    BY <2>1 DEF OnMount
  <2> QED BY <2>1, <2>2 DEF Fresh, Shape, Home, GameOps, OperatorOps, UserOps, ReportOps
<1> QED BY <1>1, <1>2, <1>3, <1>4, <1>5, <1>6, <1>7, <1>8 DEF Routes

\* What a commit does: the screen stays, or a new one opens and the old one
\* sends what it still has.
Opens == {Request(op, NoValue, mounts + 1) : op \in {"listGames", "getGame", "listOperators", "listUsers", "audit"}}

Stays(page, others) ==
  /\ screen' = page.screen /\ mounts' = mounts
  /\ Joins(page.send, page.session, others)

Moves(page, others) ==
  /\ Fresh(screen') /\ screen'.mount = mounts + 1 /\ mounts' = mounts + 1
  /\ issued' >= issued
  /\ \A n \in DOMAIN calls' :
       \/ n \in others /\ calls'[n] = calls[n]
       \/ /\ n \notin others /\ n > issued
          /\ \E i \in DOMAIN page.send : calls'[n] = Made(page.send[i], page.session)
       \/ /\ n \notin others /\ n > issued
          /\ screen.name = "game" /\ page.screen.pending # NoValue
          /\ calls'[n] = Made(Save(page.screen), page.session)
       \/ /\ n \notin others /\ n > issued
          /\ \E r \in Opens : calls'[n] = Made(r, page.session) /\ screen'.name \in Home(r.op)
  /\ others \subseteq DOMAIN calls'
  /\ screen.name = "game" /\ page.screen.pending # NoValue =>
       \E n \in DOMAIN calls' : calls'[n] = Made(Save(page.screen), page.session)

LEMMA AtMostOne ==
  ASSUME NEW R, NEW s, s = <<>> \/ \E r \in R : s = <<r>>
  PROVE  s \in Seq(R)
<1>1. CASE s = <<>>
  BY <1>1
<1>2. ASSUME NEW r \in R, s = <<r>> PROVE s \in Seq(R)
  <2>1. <<r>> \in Seq(R)
    OBVIOUS
  <2> QED BY <1>2, <2>1
<1> QED BY <1>1, <1>2

LEMMA Commits ==
  ASSUME PageInv, NEW page, NEW others \in SUBSET DOMAIN calls, Commit(page, others),
         page.route \in Routes,
         page.send = <<>> \/ \E r : page.send = <<r>> /\ Fits(r),
         Alike(page.screen)
  PROVE  /\ PageInv'
         /\ Stays(page, others) \/ Moves(page, others)
<1> DEFINE moved == page.route # route \/ (page.session = NoValue) # (session = NoValue)
           next == NewScreen(page.session, page.route, mounts + 1)
           flush == Flush(page.screen)
           opens == OnMount(next)
           R == {page.send[1], flush[1], opens[1]}
<1>1. issued \in Nat /\ mounts \in Nat
  BY DEF PageInv
<1>2. /\ Fresh(next) /\ next.mount = mounts + 1
      /\ \/ opens = <<>>
         \/ \E op \in {"listGames", "getGame", "listOperators", "listUsers", "audit"} :
              opens = <<Request(op, NoValue, mounts + 1)>> /\ next.name \in Home(op)
  BY NewScreens
<1>3. IF screen.name = "game" /\ page.screen.pending # NoValue THEN flush = <<Save(page.screen)>> ELSE flush = <<>>
  BY DEF Flush, Alike
<1>4. /\ session' = page.session /\ route' = page.route
      /\ screen' = IF moved THEN next ELSE page.screen
      /\ mounts' = IF moved THEN mounts + 1 ELSE mounts
      /\ Send(IF moved THEN page.send \o flush \o opens ELSE page.send, page.session, others)
      /\ UNCHANGED situation
  BY DEF Commit
<1> HIDE DEF next, flush, opens, moved
<1>5. page.send \in Seq(R) /\ flush \in Seq(R) /\ opens \in Seq(R)
  <2>1. page.send = <<>> \/ \E r \in R : page.send = <<r>>
    <3>1. ASSUME NEW r, page.send = <<r>> PROVE r \in R
      BY <3>1
    <3> QED BY <3>1
  <2>2. flush = <<>> \/ \E r \in R : flush = <<r>>
    <3>1. ASSUME NEW r, flush = <<r>> PROVE r \in R
      BY <3>1
    <3> QED BY <1>3, <3>1
  <2>3. opens = <<>> \/ \E r \in R : opens = <<r>>
    <3>1. ASSUME NEW r, opens = <<r>> PROVE r \in R
      BY <3>1
    <3> QED BY <1>2, <3>1
  <2> HIDE DEF R
  <2> QED BY <2>1, <2>2, <2>3, AtMostOne
<1> HIDE DEF R
<1>6. CASE ~moved
  <2>1. Send(page.send, page.session, others)
    BY <1>4, <1>6
  <2>2. Joins(page.send, page.session, others)
    BY <1>5, <2>1, Joining
  <2>3. Stays(page, others)
    BY <1>4, <1>6, <2>2 DEF Stays
  <2>4. ASSUME NEW n \in DOMAIN calls'
        PROVE /\ IsCall(calls'[n])
              /\ calls'[n].mount <= mounts
              /\ calls'[n].mount = mounts => screen.name \in Home(calls'[n].op)
    <3>1. CASE n \in others /\ calls'[n] = calls[n]
      BY <3>1 DEF PageInv
    <3>2. CASE n \notin others
      <4>1. PICK i \in 1 .. Len(page.send) : calls'[n] = Made(page.send[i], page.session)
        <5>1. n \in issued + 1 .. issued + Len(page.send) /\ Len(page.send) \in Nat
          BY <1>5, <2>2, <3>2 DEF Joins
        <5>2. n - issued \in 1 .. Len(page.send) /\ n = issued + (n - issued)
          BY <1>1, <5>1
        <5> QED BY <2>2, <5>2 DEF Joins
      <4>2. PICK r : page.send = <<r>> /\ Fits(r)
        BY <4>1
      <4>3. calls'[n] = Made(r, page.session)
        BY <4>1, <4>2
      <4> QED BY <4>2, <4>3 DEF Made, IsCall, Fits
    <3> QED BY <2>2, <3>1, <3>2 DEF Joins
  <2>5. Shape(screen') /\ screen'.mount = mounts' /\ screen'.name = screen.name /\ mounts' = mounts
    BY <1>4, <1>6 DEF Alike, PageInv, Shape
  <2>6. issued' \in Nat /\ DOMAIN calls' \subseteq 1 .. issued'
    <3>1. Len(page.send) \in Nat
      BY <1>5
    <3> QED BY <1>1, <2>2, <3>1 DEF Joins, PageInv
  <2>7. situation' \in Situation /\ route' \in Routes
    BY <1>4 DEF PageInv
  <2> QED BY <1>1, <2>3, <2>4, <2>5, <2>6, <2>7 DEF PageInv
<1>7. CASE moved
  <2> DEFINE all == page.send \o flush \o opens
  <2>1. all \in Seq(R) /\ Send(all, page.session, others)
    BY <1>4, <1>5, <1>7
  <2>2. Joins(all, page.session, others)
    BY <2>1, Joining
  <2>3. /\ Len(page.send) \in Nat /\ Len(flush) \in Nat /\ Len(opens) \in Nat
        /\ Len(all) = Len(page.send) + Len(flush) + Len(opens)
    BY <1>5
  <2>4. ASSUME NEW i \in 1 .. Len(all)
        PROVE \/ i \in DOMAIN page.send /\ all[i] = page.send[i]
              \/ i - Len(page.send) \in DOMAIN flush /\ all[i] = flush[i - Len(page.send)]
              \/ /\ i - Len(page.send) - Len(flush) \in DOMAIN opens
                 /\ all[i] = opens[i - Len(page.send) - Len(flush)]
    BY <1>5, <2>3
  <2>5. screen' = next /\ mounts' = mounts + 1
    BY <1>4, <1>7
  <2>6. ASSUME NEW n \in DOMAIN calls'
        PROVE \/ n \in others /\ calls'[n] = calls[n]
              \/ /\ n \notin others /\ n > issued
                 /\ \E i \in DOMAIN page.send : calls'[n] = Made(page.send[i], page.session)
              \/ /\ n \notin others /\ n > issued
                 /\ screen.name = "game" /\ page.screen.pending # NoValue
                 /\ calls'[n] = Made(Save(page.screen), page.session)
              \/ /\ n \notin others /\ n > issued
                 /\ \E r \in Opens : calls'[n] = Made(r, page.session) /\ screen'.name \in Home(r.op)
    <3>1. CASE n \in others
      BY <2>2, <3>1 DEF Joins
    <3>2. CASE n \notin others
      <4>1. n \in issued + 1 .. issued + Len(all) /\ Len(all) \in Nat
        BY <2>2, <2>3, <3>2 DEF Joins
      <4> DEFINE i == n - issued
      <4>2. i \in 1 .. Len(all) /\ n = issued + i /\ n > issued
        BY <1>1, <4>1
      <4> HIDE DEF all, i
      <4>3. calls'[n] = Made(all[i], page.session)
        BY <2>2, <4>2 DEF Joins
      <4>4. CASE i \in DOMAIN page.send /\ all[i] = page.send[i]
        BY <3>2, <4>2, <4>3, <4>4
      <4>5. CASE i - Len(page.send) \in DOMAIN flush /\ all[i] = flush[i - Len(page.send)]
        <5>1. screen.name = "game" /\ page.screen.pending # NoValue /\ flush = <<Save(page.screen)>>
          BY <1>3, <4>5
        <5>2. all[i] = Save(page.screen)
          BY <4>5, <5>1
        <5> QED BY <3>2, <4>2, <4>3, <5>1, <5>2
      <4>6. CASE /\ i - Len(page.send) - Len(flush) \in DOMAIN opens
                 /\ all[i] = opens[i - Len(page.send) - Len(flush)]
        <5>1. PICK op \in {"listGames", "getGame", "listOperators", "listUsers", "audit"} :
                opens = <<Request(op, NoValue, mounts + 1)>> /\ next.name \in Home(op)
          BY <1>2, <4>6
        <5> DEFINE r == Request(op, NoValue, mounts + 1)
        <5>2. all[i] = r /\ r \in Opens /\ r.op = op
          BY <4>6, <5>1 DEF Opens, Request
        <5> HIDE DEF r
        <5> QED BY <2>5, <3>2, <4>2, <4>3, <5>1, <5>2
      <4> QED BY <2>4, <4>2, <4>4, <4>5, <4>6
    <3> QED BY <3>1, <3>2
  <2>7. ASSUME screen.name = "game" /\ page.screen.pending # NoValue
        PROVE  \E n \in DOMAIN calls' : calls'[n] = Made(Save(page.screen), page.session)
    <3> DEFINE i == Len(page.send) + 1
    <3>1. flush = <<Save(page.screen)>>
      BY <1>3, <2>7
    <3>2. i \in 1 .. Len(all) /\ all[i] = Save(page.screen)
      BY <1>5, <2>3, <3>1
    <3>3. issued + i \in issued + 1 .. issued + Len(all)
      BY <1>1, <2>3, <3>2
    <3> HIDE DEF all, i
    <3>4. calls'[issued + i] = Made(Save(page.screen), page.session) /\ issued + i \in DOMAIN calls'
      BY <2>2, <3>2, <3>3 DEF Joins
    <3> QED BY <3>4
  <2>8. others \subseteq DOMAIN calls'
    BY <2>2 DEF Joins
  <2>14. issued' >= issued
    BY <1>1, <2>2, <2>3 DEF Joins
  <2>9. Moves(page, others)
    BY <1>2, <2>5, <2>6, <2>7, <2>8, <2>14 DEF Moves
  <2>10. ASSUME NEW n \in DOMAIN calls'
         PROVE /\ IsCall(calls'[n])
               /\ calls'[n].mount <= mounts + 1
               /\ calls'[n].mount = mounts + 1 => screen'.name \in Home(calls'[n].op)
    <3>1. CASE n \in others /\ calls'[n] = calls[n]
      BY <1>1, <3>1 DEF PageInv, IsCall
    <3>2. CASE \E i \in DOMAIN page.send : calls'[n] = Made(page.send[i], page.session)
      <4>1. PICK i \in DOMAIN page.send : calls'[n] = Made(page.send[i], page.session)
        BY <3>2
      <4>2. PICK r : page.send = <<r>> /\ Fits(r)
        BY <4>1
      <4>3. calls'[n] = Made(r, page.session)
        BY <4>1, <4>2
      <4> QED BY <1>1, <4>2, <4>3 DEF Made, IsCall, Fits
    <3>3. CASE calls'[n] = Made(Save(page.screen), page.session)
      BY <1>1, <3>3 DEF Made, IsCall, Save, Request, Ops, GameOps, Alike, PageInv
    <3>4. CASE \E r \in Opens : calls'[n] = Made(r, page.session) /\ screen'.name \in Home(r.op)
      <4>1. PICK r \in Opens : calls'[n] = Made(r, page.session) /\ screen'.name \in Home(r.op)
        BY <3>4
      <4>2. r.op \in Ops /\ r.mount = mounts + 1
        BY <4>1 DEF Opens, Request, Ops, GameOps, UserOps
      <4> QED BY <1>1, <4>1, <4>2 DEF Made, IsCall
    <3> QED BY <2>6, <3>1, <3>2, <3>3, <3>4
  <2>11. issued' \in Nat /\ DOMAIN calls' \subseteq 1 .. issued'
    BY <1>1, <2>2, <2>3 DEF Joins, PageInv
  <2>12. Shape(screen') /\ screen'.mount = mounts' /\ mounts' \in Nat
    BY <1>1, <1>2, <2>5 DEF Fresh
  <2>13. situation' \in Situation /\ route' \in Routes
    BY <1>4 DEF PageInv
  <2> QED BY <2>5, <2>9, <2>10, <2>11, <2>12, <2>13 DEF PageInv
<1> QED BY <1>6, <1>7

-----------------------------------------------------------------------------
(* Answers                                                                 *)

\* What an answer can do to the screen that is there.
Answering(c, s) ==
  /\ Alike(s)
  /\ screen.name = "game" =>
       /\ s.pending = screen.pending /\ s.timer = screen.timer
       /\ \/ s.draft = screen.draft
          \/ c.op \in DraftOps /\ Good(c) /\ s.draft = c.reply.body.draft
  /\ screen.name = "operators" =>
       /\ IF c.op \in SecretOps /\ Good(c) /\ c.mount = screen.mount
          THEN s.issued = [who |-> c.arg.who, secret |-> c.reply.body]
          ELSE s.issued = screen.issued
       /\ \/ s.rows = screen.rows
          \/ s.rows = [h \in Operators |-> NoValue]
          \/ c.op = "listOperators" /\ Good(c) /\ s.rows = c.reply.body
  /\ screen.name = "users" =>
       \/ s.rows = screen.rows
       \/ c.op = "listUsers" /\ Good(c) /\ s.rows = c.reply.body

FollowUps == {"getGame", "fromPublished", "listUsers", "listOperators"}

\* What it can make the page ask for.
Following(c, requests) ==
  \/ requests = <<>>
  \/ \E op \in FollowUps :
       requests = <<Request(op, NoValue, c.mount)>> /\ (screen.name \in Home(c.op) => screen.name \in Home(op))

LEMMA Unanswered ==
  ASSUME Shape(screen), NEW c, ~(c.op \in SecretOps /\ Good(c) /\ c.mount = screen.mount)
  PROVE  Answering(c, screen)
  BY DEF Answering, Alike

LEMMA ReportsAnswers ==
  ASSUME Shape(screen), NEW c, c.op \in ReportOps \cup {"lookup"},
         c.mount = screen.mount => screen.name \in Home(c.op)
  PROVE  Answering(c, OnReportsAnswer(c).screen) /\ Following(c, OnReportsAnswer(c).send)
<1>1. c.op \notin SecretOps
  BY DEF ReportOps, SecretOps
<1>2. OnReportsAnswer(c).send = <<>>
  BY DEF OnReportsAnswer
<1>3. CASE c.mount # screen.mount
  BY <1>1, <1>2, <1>3, Unanswered DEF OnReportsAnswer, Following
<1>4. CASE c.mount = screen.mount
  <2> DEFINE s == OnReportsAnswer(c).screen
  <2>1. screen.name \in {"reports", "support"}
    BY <1>4 DEF ReportOps, Home, GameOps, OperatorOps, UserOps
  <2>2. CASE c.op = "transactions" /\ c.arg.cursor # NoValue
    <3>1. s = OnMore(c)
      BY <1>4, <2>2 DEF OnReportsAnswer
    <3> QED BY <1>2, <2>1, <3>1 DEF OnMore, Answering, Alike, Following, Shape
  <2>3. CASE (c.op = "transactions" /\ c.arg.cursor = NoValue) \/ c.op = "summary"
    <3>1. PICK field \in {"first", "totals"} : s = OnRun(c, field)
      BY <1>4, <2>3 DEF OnReportsAnswer
    <3>2. Alike(s)
      <4>1. CASE field = "first"
        BY <3>1, <4>1 DEF OnRun, RunFailed, RunDone, Alike, Shape
      <4>2. CASE field = "totals"
        BY <3>1, <4>2 DEF OnRun, RunFailed, RunDone, Alike, Shape
      <4> QED BY <4>1, <4>2
    <3> QED BY <1>2, <2>1, <3>2 DEF Answering, Following
  <2>4. CASE c.op = "csv"
    <3>1. s = OnCsv(c)
      BY <1>4, <2>4 DEF OnReportsAnswer
    <3> QED BY <1>2, <2>1, <3>1 DEF OnCsv, Answering, Alike, Following, Shape
  <2>5. CASE c.op = "lookup"
    <3>1. s = OnLookup(c)
      BY <1>4, <2>5 DEF OnReportsAnswer
    <3> QED BY <1>2, <2>1, <3>1 DEF OnLookup, Answering, Alike, Following, Shape
  <2> QED BY <2>2, <2>3, <2>4, <2>5 DEF ReportOps
<1> QED BY <1>3, <1>4

DeskOps == OperatorOps \cup UserOps \cup {"listOperators", "audit"}

LEMMA DeskAnswers ==
  ASSUME Shape(screen), NEW c, c.op \in DeskOps,
         c.mount = screen.mount => screen.name \in Home(c.op)
  PROVE  Answering(c, OnDeskAnswer(c).screen) /\ Following(c, OnDeskAnswer(c).send)
<1> DEFINE s == OnDeskAnswer(c).screen
<1>1. Following(c, OnDeskAnswer(c).send)
  BY DEF OnDeskAnswer, Following, FollowUps, DeskOps, OperatorOps, UserOps, GameOps, ReportOps, Home
<1>2. CASE c.mount # screen.mount
  BY <1>1, <1>2, Unanswered DEF OnDeskAnswer
<1>3. CASE c.mount = screen.mount /\ ~Good(c)
  <2>1. s = Loaded(c)
    BY <1>3 DEF OnDeskAnswer
  <2> QED BY <1>1, <1>3, <2>1 DEF Loaded, Answering, Alike, Shape
<1>4. CASE c.mount = screen.mount /\ Good(c)
  <2>1. CASE c.op \in {"rotateSecret", "createOperator"}
    <3>1. s = Issue(c)
      BY <1>4, <2>1 DEF OnDeskAnswer
    <3>2. screen.name = "operators"
      BY <1>4, <2>1 DEF Home, GameOps, OperatorOps
    <3> QED BY <1>1, <1>4, <2>1, <3>1, <3>2 DEF Issue, Answering, Alike, Shape, SecretOps
  <2>2. CASE c.op \in {"listOperators", "listUsers"} /\ screen.name \in {"operators", "users"}
    <3>1. s = [screen EXCEPT !.rows = c.reply.body]
      BY <1>4, <2>2 DEF OnDeskAnswer
    <3>2. screen.name = "operators" <=> c.op = "listOperators"
      BY <1>4, <2>2 DEF Home, GameOps, OperatorOps, UserOps, ReportOps
    <3> QED BY <1>1, <1>4, <2>2, <3>1, <3>2 DEF Answering, Alike, Shape, SecretOps
  <2>3. CASE /\ c.op \notin {"rotateSecret", "createOperator"}
             /\ ~(c.op \in {"listOperators", "listUsers"} /\ screen.name \in {"operators", "users"})
    <3>1. c.op = "audit" => screen.name = "audit"
      BY <1>4 DEF Home, GameOps, OperatorOps, UserOps, ReportOps
    <3>2. s = screen
      BY <1>4, <2>3, <3>1 DEF OnDeskAnswer
    <3> QED BY <1>1, <2>3, <3>2, Unanswered DEF SecretOps
  <2> QED BY <2>1, <2>2, <2>3
<1> QED BY <1>2, <1>3, <1>4

LEMMA GameAnswers ==
  ASSUME Shape(screen), NEW c, c.op \in GameOps \cup {"listGames", "createGame"},
         c.mount = screen.mount => screen.name \in Home(c.op)
  PROVE  Answering(c, OnGameAnswer(c).screen) /\ Following(c, OnGameAnswer(c).send)
<1> DEFINE s == OnGameAnswer(c).screen
<1>1. c.op \notin SecretOps
  BY DEF GameOps, SecretOps
<1>2. CASE c.op = "getGame"
  <2>1. OnGameAnswer(c) = OnLoaded(c)
    BY <1>2 DEF OnGameAnswer
  <2>2. Answering(c, s)
    BY <1>1, <1>2, <2>1 DEF OnLoaded, Then, IfMounted, Answering, Alike, Shape, DraftOps, Home, GameOps
  <2>3. Following(c, OnGameAnswer(c).send)
    BY <1>2, <2>1 DEF OnLoaded, Then, Following, FollowUps, Home, GameOps
  <2> QED BY <2>2, <2>3
<1>3. CASE c.op = "saveDraft"
  <2>1. OnGameAnswer(c) = OnSaved(c)
    BY <1>3 DEF OnGameAnswer
  <2> QED BY <1>1, <1>3, <2>1 DEF OnSaved, Then, IfMounted, Answering, Alike, Shape, DraftOps, Following
<1>4. CASE c.op \in {"fromPublished", "upload"}
  BY <1>1, <1>4 DEF OnGameAnswer, Then, IfMounted, Answering, Alike, Shape, DraftOps, Following
<1>5. CASE c.op = "simulate"
  BY <1>1, <1>5 DEF OnGameAnswer, Then, Done, Answering, Alike, Shape, Following
<1>6. CASE c.op = "publish"
  <2>1. OnGameAnswer(c) = OnPublished(c)
    BY <1>6 DEF OnGameAnswer
  <2>2. Answering(c, s)
    BY <1>1, <2>1 DEF OnPublished, Then, IfMounted, Done, Answering, Alike, Shape
  <2>3. Following(c, OnGameAnswer(c).send)
    BY <1>6, <2>1 DEF OnPublished, Then, Following, FollowUps, Home, GameOps
  <2> QED BY <2>2, <2>3
<1>7. CASE c.op \in {"history", "listGames", "createGame"}
  BY <1>1, <1>7 DEF OnGameAnswer, Then, IfMounted, Answering, Alike, Shape, Following
<1> QED BY <1>2, <1>3, <1>4, <1>5, <1>6, <1>7 DEF GameOps

LEMMA PageAnswers ==
  ASSUME PageInv, NEW n \in DOMAIN calls, NEW c, c = calls[n], NEW page, page = AfterAnswer(c)
  PROVE  /\ page.route \in Routes
         /\ Answering(c, page.screen)
         /\ Following(c, page.send)
<1>1. /\ Shape(screen) /\ c.op \in Ops /\ route \in Routes
      /\ c.mount = screen.mount => screen.name \in Home(c.op)
  BY DEF PageInv, IsCall
<1>2. CASE LosesSession(c)
  <2>1. page = Page(screen, <<>>, NoValue, "games")
    BY <1>2 DEF AfterAnswer
  <2>2. ~Good(c)
    BY <1>2 DEF LosesSession, Good
  <2> QED BY <1>1, <2>1, <2>2, Unanswered DEF Page, Following, Routes
<1>3. CASE ~LosesSession(c) /\ c.op = "login"
  <2>1. /\ page.screen = IF screen.name = "login" THEN [screen EXCEPT !.busy = FALSE] ELSE screen
        /\ page.send = <<>> /\ page.route = route
    BY <1>3 DEF AfterAnswer, Page
  <2> QED BY <1>1, <1>3, <2>1 DEF Answering, Alike, Shape, Following, SecretOps
<1>4. CASE ~LosesSession(c) /\ c.op = "logout"
  <2>1. page.screen = screen /\ page.send = <<>> /\ page.route = route
    BY <1>4 DEF AfterAnswer, Page
  <2> QED BY <1>1, <1>4, <2>1 DEF Answering, Alike, Shape, Following, SecretOps
<1>5. CASE ~LosesSession(c) /\ c.op \notin {"login", "logout"}
  <2> DEFINE then == IF c.op \in {"transactions", "summary", "csv", "lookup"} THEN OnReportsAnswer(c)
              ELSE IF c.op \in {"listOperators", "createOperator", "updateOperator", "rotateSecret", "listUsers",
                                "createUser", "updateUser", "setPassword", "audit"} THEN OnDeskAnswer(c)
              ELSE OnGameAnswer(c)
  <2>1. page = Page(then.screen, then.send, session,
                    IF c.op = "createGame" /\ c.reply.status = 201 THEN "game" ELSE route)
    BY <1>5 DEF AfterAnswer
  <2>2. Answering(c, then.screen) /\ Following(c, then.send)
    <3>1. CASE c.op \in ReportOps \cup {"lookup"}
      BY <1>1, <3>1, ReportsAnswers DEF ReportOps
    <3>2. CASE c.op \in DeskOps
      BY <1>1, <3>2, DeskAnswers DEF DeskOps, OperatorOps, UserOps
    <3>3. CASE c.op \in GameOps \cup {"listGames", "createGame"}
      BY <1>1, <3>3, GameAnswers DEF GameOps
    <3> QED BY <1>1, <1>5, <3>1, <3>2, <3>3 DEF Ops, DeskOps
  <2> HIDE DEF then
  <2> QED BY <1>1, <2>1, <2>2 DEF Page, Routes
<1> QED BY <1>2, <1>3, <1>4, <1>5

-----------------------------------------------------------------------------
(* The steps of the page in place                                          *)

CallKept(n) == n \in DOMAIN calls /\ n \in DOMAIN calls' /\ calls'[n] = calls[n]
CallNew(n) == n \notin DOMAIN calls /\ n > issued /\ calls'[n].read = NoValue /\ calls'[n].reply = NoValue

\* The screen stays and may ask for some of ops.
Asks(ops) ==
  /\ Alike(screen')
  /\ issued' \in Nat /\ issued' >= issued
  /\ \A n \in DOMAIN calls : CallKept(n)
  /\ \A n \in DOMAIN calls' : CallKept(n) \/ (CallNew(n) /\ calls'[n].op \in ops)

LEMMA InPlace ==
  ASSUME PageInv, NEW ops, NEW R, NEW requests \in Seq(R), NEW next, Update(next, requests),
         \A r \in R : Fits(r) /\ r.op \in ops, Alike(next)
  PROVE  PageInv' /\ Asks(ops) /\ screen' = next /\ Joins(requests, session, DOMAIN calls)
<1>1. PageInv' /\ Joins(requests, session, DOMAIN calls)
  BY UpdateKeepsPage
<1>2. screen' = next
  BY DEF Update
<1>3. issued' \in Nat /\ issued' >= issued
  BY <1>1 DEF Joins, PageInv
<1>4. \A n \in DOMAIN calls : CallKept(n)
  BY <1>1 DEF Joins, CallKept
<1>5. ASSUME NEW n \in DOMAIN calls' PROVE CallKept(n) \/ (CallNew(n) /\ calls'[n].op \in ops)
  <2>1. CASE n \in DOMAIN calls
    BY <1>4, <2>1
  <2>2. CASE n \notin DOMAIN calls /\ n > issued /\ \E r \in R : calls'[n] = Made(r, session)
    BY <2>2 DEF CallNew, Made
  <2> QED BY <1>1, <2>1, <2>2, Joined
<1> QED BY <1>1, <1>2, <1>3, <1>4, <1>5 DEF Asks

LEMMA InPlaceAsking ==
  ASSUME PageInv, NEW op \in Ops, NEW arg, NEW next, Update(next, <<Request(op, arg, screen.mount)>>),
         screen.name \in Home(op), Alike(next)
  PROVE  /\ PageInv' /\ Asks({op}) /\ screen' = next
         /\ issued + 1 \in DOMAIN calls' /\ issued + 1 \notin DOMAIN calls
         /\ calls'[issued + 1] = Made(Request(op, arg, screen.mount), session)
         /\ \A n \in DOMAIN calls' : n \in DOMAIN calls \/ n = issued + 1
<1> DEFINE r == Request(op, arg, screen.mount)
           requests == <<r>>
<1>1. Fits(r) /\ r.op \in {op}
  BY DEF Fits, Request, PageInv
<1> HIDE DEF r
<1>2. requests \in Seq({r}) /\ Len(requests) = 1 /\ requests[1] = r
  OBVIOUS
<1>3. Update(next, requests)
  BY DEF r
<1> HIDE DEF requests
<1>4. PageInv' /\ Asks({op}) /\ screen' = next /\ Joins(requests, session, DOMAIN calls)
  BY <1>1, <1>2, <1>3, InPlace
<1>5. issued \in Nat /\ DOMAIN calls \subseteq 1 .. issued
  BY DEF PageInv
<1> QED BY <1>2, <1>4, <1>5 DEF Joins, r

LEMMA InPlaceSilent ==
  ASSUME PageInv, NEW next, Update(next, <<>>), Alike(next)
  PROVE  PageInv' /\ Asks({}) /\ screen' = next
<1> DEFINE R == {}
           ops == {}
           requests == <<>>
<1>1. requests \in Seq(R) /\ \A r \in R : Fits(r) /\ r.op \in ops
  OBVIOUS
<1>2. Update(next, requests)
  OBVIOUS
<1> HIDE DEF R, requests, ops
<1>3. PageInv' /\ Asks(ops) /\ screen' = next
  BY <1>1, <1>2, InPlace
<1> QED BY <1>3 DEF ops

\* A screen that keeps what the arguments speak of.
Steady(s) ==
  /\ Alike(s)
  /\ screen.name = "game" => s.draft = screen.draft /\ s.pending = screen.pending /\ s.timer = screen.timer
  /\ screen.name = "operators" => s.rows = screen.rows /\ s.issued = screen.issued
  /\ screen.name = "users" => s.rows = screen.rows

\* Neither saves nor changes of rows.
PlainOps == Ops \ (UpdateOps \cup SecretOps \cup {"createUser", "saveDraft"})

\* Nor a report either.
OtherOps == PlainOps \ ReportOps

\* The steps that neither edit nor change rows nor make a report.
OtherSteps ==
  \/ Submit \/ SignOut \/ Search
  \/ Upload \/ Simulate \/ OpenHistory \/ Create \/ \E force \in BOOLEAN : Publish(force)

PlainSteps == OtherSteps \/ ReportsStep

Aside(s) == Steady(s) /\ (screen.name = "reports" => s = screen)

LEMMA OtherStepsAreAside ==
  ASSUME PageInv, OtherSteps
  PROVE  PageInv' /\ Asks(OtherOps) /\ Aside(screen')
<1> USE DEF Ops, GameOps, OperatorOps, UserOps, ReportOps
<1>1. Shape(screen) /\ screen.mount \in Nat
  BY DEF PageInv
<1>2. ASSUME NEW ops, ops \subseteq OtherOps, Asks(ops) PROVE Asks(OtherOps)
  BY <1>2 DEF Asks
<1>3. ASSUME NEW op \in OtherOps PROVE op \in Ops /\ {op} \subseteq OtherOps
  BY DEF OtherOps, PlainOps
<1>4. CASE Submit
  <2> DEFINE next == [screen EXCEPT !.busy = TRUE]
  <2>1. Alike(next) /\ Aside(next) /\ screen.name = "login"
    BY <1>1, <1>4 DEF Submit, Alike, Aside, Steady, Shape
  <2>2. "login" \in OtherOps /\ "login" \in Home("login")
    BY DEF OtherOps, PlainOps, UpdateOps, SecretOps, Home
  <2>3. Update(next, <<Request("login", NoValue, screen.mount)>>)
    BY <1>4 DEF Submit
  <2> HIDE DEF next
  <2> QED BY <1>2, <1>3, <2>1, <2>2, <2>3, InPlaceAsking
<1>5. CASE SignOut
  <2>1. Alike(screen) /\ Aside(screen)
    BY DEF Alike, Aside, Steady
  <2>2. "logout" \in OtherOps /\ screen.name \in Home("logout")
    BY <1>1 DEF OtherOps, PlainOps, UpdateOps, SecretOps, Home, Shape
  <2>3. Update(screen, <<Request("logout", NoValue, screen.mount)>>)
    BY <1>5 DEF SignOut
  <2> QED BY <1>2, <1>3, <2>1, <2>2, <2>3, InPlaceAsking
<1>6. CASE Search
  <2> DEFINE next == [screen EXCEPT !.searching = TRUE]
  <2>1. PICK player : Update(next, <<Request("lookup", player, screen.mount)>>)
    BY <1>6 DEF Search
  <2>2. screen.name = "support"
    BY <1>6 DEF Search
  <2>3. Alike(next) /\ Aside(next)
    BY <1>1, <2>2 DEF Alike, Aside, Steady, Shape
  <2>4. "lookup" \in OtherOps /\ screen.name \in Home("lookup")
    BY <2>2 DEF OtherOps, PlainOps, UpdateOps, SecretOps, Home
  <2> HIDE DEF next
  <2> QED BY <1>2, <1>3, <2>1, <2>3, <2>4, InPlaceAsking
<1>7. CASE Upload
  <2>1. PICK slot : Update(OffPanel(screen), <<Request("upload", slot, screen.mount)>>)
    BY <1>7 DEF Upload
  <2>2. screen.name = "game"
    BY <1>7 DEF Upload, Builder
  <2>3. Alike(OffPanel(screen)) /\ Aside(OffPanel(screen))
    BY <1>1, <2>2 DEF Alike, Aside, Steady, Shape, OffPanel
  <2>4. "upload" \in OtherOps /\ screen.name \in Home("upload")
    BY <2>2 DEF OtherOps, PlainOps, UpdateOps, SecretOps, Home
  <2> QED BY <1>2, <1>3, <2>1, <2>3, <2>4, InPlaceAsking
<1>8. CASE Simulate
  <2> DEFINE next == [screen EXCEPT !.busy = "simulate"]
  <2>1. screen.name = "game"
    BY <1>8 DEF Simulate, Builder
  <2>2. Update(next, <<Request("simulate", [panel |-> screen.panel], screen.mount)>>)
    BY <1>8 DEF Simulate
  <2>3. Alike(next) /\ Aside(next)
    BY <1>1, <2>1 DEF Alike, Aside, Steady, Shape
  <2>4. "simulate" \in OtherOps /\ screen.name \in Home("simulate")
    BY <2>1 DEF OtherOps, PlainOps, UpdateOps, SecretOps, Home
  <2> HIDE DEF next
  <2> QED BY <1>2, <1>3, <2>2, <2>3, <2>4, InPlaceAsking
<1>9. ASSUME NEW force \in BOOLEAN, Publish(force) PROVE PageInv' /\ Asks(OtherOps) /\ Aside(screen')
  <2> DEFINE next == [screen EXCEPT !.busy = "publish"]
  <2>1. screen.name = "game"
    BY <1>9 DEF Publish, Builder
  <2>2. Update(next, <<Request("publish", [panel |-> screen.panel, force |-> force], screen.mount)>>)
    BY <1>9 DEF Publish
  <2>3. Alike(next) /\ Aside(next)
    BY <1>1, <2>1 DEF Alike, Aside, Steady, Shape
  <2>4. "publish" \in OtherOps /\ screen.name \in Home("publish")
    BY <2>1 DEF OtherOps, PlainOps, UpdateOps, SecretOps, Home
  <2> HIDE DEF next
  <2> QED BY <1>2, <1>3, <2>2, <2>3, <2>4, InPlaceAsking
<1>10. CASE OpenHistory
  <2>1. Update(OffPanel(screen), <<Request("history", NoValue, screen.mount)>>)
    BY <1>10 DEF OpenHistory
  <2>2. screen.name = "game"
    BY <1>10 DEF OpenHistory, Builder
  <2>3. Alike(OffPanel(screen)) /\ Aside(OffPanel(screen))
    BY <1>1, <2>2 DEF Alike, Aside, Steady, Shape, OffPanel
  <2>4. "history" \in OtherOps /\ screen.name \in Home("history")
    BY <2>2 DEF OtherOps, PlainOps, UpdateOps, SecretOps, Home
  <2> QED BY <1>2, <1>3, <2>1, <2>3, <2>4, InPlaceAsking
<1>11. CASE Create
  <2> DEFINE next == [screen EXCEPT !.creating = TRUE]
  <2>1. screen.name = "games"
    BY <1>11 DEF Create
  <2>2. Update(next, <<Request("createGame", NoValue, screen.mount)>>)
    BY <1>11 DEF Create
  <2>3. Alike(next) /\ Aside(next)
    BY <1>1, <2>1 DEF Alike, Aside, Steady, Shape
  <2>4. "createGame" \in OtherOps /\ screen.name \in Home("createGame")
    BY <2>1 DEF OtherOps, PlainOps, UpdateOps, SecretOps, Home
  <2> HIDE DEF next
  <2> QED BY <1>2, <1>3, <2>2, <2>3, <2>4, InPlaceAsking
<1> QED BY <1>4, <1>5, <1>6, <1>7, <1>8, <1>9, <1>10, <1>11 DEF OtherSteps

LEMMA PlainStepsArePlain ==
  ASSUME PageInv, PlainSteps
  PROVE  PageInv' /\ Asks(PlainOps) /\ Steady(screen')
<1> USE DEF Ops, GameOps, OperatorOps, UserOps, ReportOps
<1>1. Shape(screen) /\ screen.mount \in Nat
  BY DEF PageInv
<1>2. ASSUME NEW ops, ops \subseteq PlainOps, Asks(ops) PROVE Asks(PlainOps)
  BY <1>2 DEF Asks
<1>3. ASSUME NEW op \in PlainOps PROVE op \in Ops /\ {op} \subseteq PlainOps
  BY DEF PlainOps
<1>4. CASE OtherSteps
  <2>1. PageInv' /\ Asks(OtherOps) /\ Aside(screen')
    BY <1>4, OtherStepsAreAside
  <2>2. OtherOps \subseteq PlainOps
    BY DEF OtherOps
  <2> QED BY <1>2, <2>1, <2>2 DEF Aside
<1>5. CASE Filter
  <2>1. PICK q : Update([screen EXCEPT !.query = q], <<>>)
    BY <1>5 DEF Filter
  <2>2. screen.name = "reports"
    BY <1>5 DEF Filter
  <2> DEFINE next == [screen EXCEPT !.query = q]
  <2>3. Alike(next) /\ Steady(next)
    BY <1>1, <2>2 DEF Alike, Steady, Shape
  <2> HIDE DEF next
  <2>4. Update(next, <<>>)
    BY <2>1 DEF next
  <2> QED BY <1>2, <2>3, <2>4, InPlaceSilent
<1>6. CASE Run
  <2> DEFINE next == [screen EXCEPT !.running = TRUE, !.run = @ + 1, !.first = NoValue, !.totals = NoValue,
                                    !.file = NoValue]
             page == Ask("transactions", screen.query, NoValue, screen.run + 1)
             totals == Ask("summary", screen.query, NoValue, screen.run + 1)
             requests == <<page, totals>>
  <2>1. screen.name = "reports" /\ Update(next, requests)
    BY <1>6 DEF Run
  <2>2. Alike(next) /\ Steady(next)
    BY <1>1, <2>1 DEF Alike, Steady, Shape
  <2>3. \A r \in {page, totals} : Fits(r) /\ r.op \in PlainOps
    BY <1>1, <2>1 DEF Ask, Request, Fits, PlainOps, UpdateOps, SecretOps, Home, PageInv
  <2> HIDE DEF page, totals
  <2>4. requests \in Seq({page, totals})
    OBVIOUS
  <2> DEFINE R == {page, totals}
  <2>5. requests \in Seq(R) /\ \A r \in R : Fits(r) /\ r.op \in PlainOps
    BY <2>3, <2>4
  <2> HIDE DEF next, requests, R
  <2>6. PageInv' /\ Asks(PlainOps) /\ screen' = next
    BY <2>1, <2>2, <2>5, InPlace
  <2> QED BY <2>2, <2>6
<1>7. CASE LoadMore \/ ExportCsv
  <2>1. screen.name = "reports"
    BY <1>7 DEF LoadMore, ExportCsv
  <2>2. PICK op \in {"transactions", "csv"} : \E arg : Update(screen, <<Request(op, arg, screen.mount)>>)
    BY <1>7 DEF LoadMore, ExportCsv, Ask
  <2>5. PICK arg : Update(screen, <<Request(op, arg, screen.mount)>>)
    BY <2>2
  <2>3. op \in PlainOps /\ screen.name \in Home(op)
    BY <2>1 DEF PlainOps, UpdateOps, SecretOps, Home
  <2>4. Alike(screen) /\ Steady(screen)
    BY DEF Alike, Steady
  <2> QED BY <1>2, <1>3, <2>3, <2>4, <2>5, InPlaceAsking
<1> QED BY <1>4, <1>5, <1>6, <1>7 DEF PlainSteps, OtherSteps, ReportsStep

-----------------------------------------------------------------------------
(* Commits                                                                 *)

\* The screen is still there, with what an answer made of it.
Remains(s, others) ==
  /\ screen' = s /\ Alike(s)
  /\ issued' \in Nat /\ issued' >= issued
  /\ \A n \in others : CallKept(n)
  /\ \A n \in DOMAIN calls' :
       \/ n \in others /\ CallKept(n)
       \/ CallNew(n) /\ calls'[n].op \in OtherOps

\* The screen is gone, and has sent what was pending.
Leaves(others) ==
  /\ Fresh(screen') /\ screen'.mount > mounts
  /\ issued' \in Nat /\ issued' >= issued
  /\ \A n \in others : CallKept(n)
  /\ \A n \in DOMAIN calls' :
       \/ n \in others /\ CallKept(n)
       \/ CallNew(n) /\ calls'[n].op \in OtherOps
       \/ /\ CallNew(n) /\ calls'[n].op = "saveDraft"
          /\ screen.name = "game" /\ screen.pending # NoValue /\ calls'[n].arg = screen.pending
  /\ screen.name = "game" /\ screen.pending # NoValue =>
       \E n \in DOMAIN calls' :
         calls'[n].op = "saveDraft" /\ calls'[n].reply = NoValue /\ calls'[n].arg = screen.pending

LEMMA Committed ==
  ASSUME PageInv, NEW page, NEW others \in SUBSET DOMAIN calls, Commit(page, others),
         page.route \in Routes, Alike(page.screen),
         screen.name = "game" => page.screen.pending = screen.pending,
         NEW mount \in Nat, mount <= mounts,
         \/ page.send = <<>>
         \/ \E op \in FollowUps :
              page.send = <<Request(op, NoValue, mount)>> /\ (mount = mounts => screen.name \in Home(op))
  PROVE  /\ PageInv'
         /\ Remains(page.screen, others) \/ Leaves(others)
<1>1. FollowUps \subseteq OtherOps /\ OtherOps \subseteq Ops
  BY DEF FollowUps, OtherOps, PlainOps, Ops, GameOps, OperatorOps, UserOps, ReportOps, UpdateOps, SecretOps
<1>2. page.send = <<>> \/ \E r : page.send = <<r>> /\ Fits(r) /\ r.op \in OtherOps
  <2>1. ASSUME NEW op \in FollowUps, page.send = <<Request(op, NoValue, mount)>>,
               mount = mounts => screen.name \in Home(op)
        PROVE  \E r : page.send = <<r>> /\ Fits(r) /\ r.op \in OtherOps
    <3> DEFINE r == Request(op, NoValue, mount)
    <3>1. Fits(r) /\ r.op \in OtherOps
      BY <1>1, <2>1 DEF Request, Fits
    <3> QED BY <2>1, <3>1
  <2> QED BY <2>1
<1>3. PageInv' /\ (Stays(page, others) \/ Moves(page, others))
  BY <1>2, Commits
<1>4. issued \in Nat /\ DOMAIN calls \subseteq 1 .. issued /\ issued' \in Nat
  BY <1>3 DEF PageInv
<1>5. \A i \in DOMAIN page.send : page.send[i].op \in OtherOps
  BY <1>2
<1>6. CASE Stays(page, others)
  <2> DEFINE R == {page.send[i] : i \in DOMAIN page.send}
  <2>1. Len(page.send) \in Nat /\ page.send \in Seq(R)
    <3>1. page.send = <<>> \/ \E r \in R : page.send = <<r>>
      <4>1. ASSUME NEW r, page.send = <<r>> PROVE r \in R
        <5>1. 1 \in DOMAIN page.send /\ page.send[1] = r
          BY <4>1
        <5> QED BY <5>1
      <4> QED BY <1>2, <4>1
    <3> HIDE DEF R
    <3> QED BY <3>1, AtMostOne
  <2> HIDE DEF R
  <2>2. issued' >= issued
    BY <1>4, <1>6, <2>1 DEF Stays, Joins
  <2>3. \A n \in others : CallKept(n)
    BY <1>6 DEF Stays, Joins, CallKept
  <2>4. ASSUME NEW n \in DOMAIN calls'
        PROVE  (n \in others /\ CallKept(n)) \/ (CallNew(n) /\ calls'[n].op \in OtherOps)
    <3>1. CASE n \in others
      BY <2>3, <3>1
    <3>2. CASE n \notin others /\ n > issued /\ \E r \in R : calls'[n] = Made(r, page.session)
      <4>1. PICK r \in R : calls'[n] = Made(r, page.session)
        BY <3>2
      <4>2. r.op \in OtherOps
        BY <1>5, <4>1 DEF R
      <4> QED BY <1>3, <1>4, <3>2, <4>1, <4>2 DEF CallNew, Made, PageInv
    <3> QED BY <1>6, <2>1, <3>1, <3>2, Joined DEF Stays
  <2> QED BY <1>3, <1>4, <1>6, <2>2, <2>3, <2>4 DEF Remains, Stays
<1>7. CASE Moves(page, others)
  <2>1. \A n \in others : n \in DOMAIN calls'
    BY <1>7 DEF Moves
  <2>2. ASSUME NEW n \in DOMAIN calls'
        PROVE  \/ n \in others /\ CallKept(n)
               \/ CallNew(n) /\ calls'[n].op \in OtherOps
               \/ /\ CallNew(n) /\ calls'[n].op = "saveDraft"
                  /\ screen.name = "game" /\ screen.pending # NoValue /\ calls'[n].arg = screen.pending
    <3>1. CASE n \in others /\ calls'[n] = calls[n]
      BY <3>1 DEF CallKept
    <3>2. CASE n > issued /\ \E i \in DOMAIN page.send : calls'[n] = Made(page.send[i], page.session)
      BY <1>3, <1>4, <1>5, <3>2 DEF CallNew, Made, PageInv
    <3>3. CASE /\ n > issued /\ screen.name = "game" /\ page.screen.pending # NoValue
               /\ calls'[n] = Made(Save(page.screen), page.session)
      BY <1>3, <1>4, <3>3 DEF CallNew, Made, Save, Request, PageInv
    <3>4. CASE n > issued /\ \E r \in Opens : calls'[n] = Made(r, page.session) /\ screen'.name \in Home(r.op)
      <4>1. PICK r \in Opens : calls'[n] = Made(r, page.session)
        BY <3>4
      <4>2. r.op \in OtherOps
        BY <4>1 DEF Opens, Request, OtherOps, PlainOps, ReportOps, Ops, GameOps, UserOps, UpdateOps, SecretOps
      <4> QED BY <1>3, <1>4, <3>4, <4>1, <4>2 DEF CallNew, Made, PageInv
    <3> QED BY <1>7, <3>1, <3>2, <3>3, <3>4 DEF Moves
  <2>3. \A n \in others : CallKept(n)
    <3>1. ASSUME NEW n \in others PROVE CallKept(n)
      <4>1. ~CallNew(n)
        BY DEF CallNew
      <4> QED BY <2>1, <2>2, <4>1
    <3> QED BY <3>1
  <2>4. screen.name = "game" /\ screen.pending # NoValue =>
       \E n \in DOMAIN calls' :
         calls'[n].op = "saveDraft" /\ calls'[n].reply = NoValue /\ calls'[n].arg = screen.pending
    BY <1>7 DEF Moves, Made, Save, Request
  <2>5. Fresh(screen') /\ screen'.mount > mounts /\ issued' >= issued
    BY <1>7 DEF Moves, PageInv
  <2> QED BY <1>3, <1>4, <2>2, <2>3, <2>4, <2>5 DEF Leaves
<1> QED BY <1>3, <1>6, <1>7

LEMMA Navigates ==
  ASSUME PageInv, Navigate
  PROVE  PageInv' /\ (Remains(screen, DOMAIN calls) \/ Leaves(DOMAIN calls))
<1>1. PICK to \in The.routes : Commit(Page(screen, <<>>, session, to), DOMAIN calls)
  BY DEF Navigate
<1>2. to \in Routes
  BY RouteAssumption DEF PageInv, The
<1> DEFINE page == Page(screen, <<>>, session, to)
<1>3. page.screen = screen /\ page.send = <<>> /\ page.route = to
  BY DEF Page
<1>4. Alike(screen) /\ mounts \in Nat
  BY DEF Alike, PageInv
<1> HIDE DEF page
<1> QED BY <1>1, <1>2, <1>3, <1>4, Committed DEF page

LEMMA AnswersCommit ==
  ASSUME PageInv, NEW n \in DOMAIN calls, Answer(n), NEW c, c = calls[n], NEW page, page = AfterAnswer(c)
  PROVE  /\ PageInv' /\ Answering(c, page.screen)
         /\ Remains(page.screen, DOMAIN calls \ {n}) \/ Leaves(DOMAIN calls \ {n})
<1>1. page.route \in Routes /\ Answering(c, page.screen) /\ Following(c, page.send)
  BY PageAnswers
<1>2. Commit(page, DOMAIN calls \ {n})
  BY DEF Answer
<1>3. /\ c.mount \in Nat /\ c.mount <= mounts
      /\ c.mount = mounts => screen.name \in Home(c.op)
  BY DEF PageInv, IsCall
<1>4. Alike(page.screen) /\ (screen.name = "game" => page.screen.pending = screen.pending)
  BY <1>1 DEF Answering
<1>5. \/ page.send = <<>>
      \/ \E op \in FollowUps :
           page.send = <<Request(op, NoValue, c.mount)>> /\ (c.mount = mounts => screen.name \in Home(op))
  BY <1>1, <1>3 DEF Following
<1> QED BY <1>1, <1>2, <1>3, <1>4, <1>5, Committed

\* The steps of the server answer a call and touch nothing else of the page.
LEMMA Serving ==
  ASSUME NEW n \in DOMAIN calls,
         \/ ServeGame(n) \/ ServeReports(n) \/ ServeDesk(n) \/ ServeLogin(n) \/ ServeLogout(n)
         \/ Refusal(n) \/ Failure(n)
  PROVE  Replied(n)
<1> USE DEF Replied, Admitted, Waiting, Reply
<1>1. CASE ServeGame(n)
  <2>1. CASE ServeRead(n) \/ ServePublish(n)
    BY <2>1 DEF ServeRead, ServePublish
  <2>2. CASE ServeSave(n) \/ ServeUpload(n) \/ ServeCreate(n) \/ ServeFromPublished(n)
    BY <2>2 DEF ServeSave, ServeUpload, ServeCreate, ServeFromPublished, HasRead, Store, Decline
  <2> QED BY <1>1, <2>1, <2>2 DEF ServeGame
<1>2. CASE ServeReports(n)
  BY <1>2 DEF ServeReports, ServePage, ServeSummary, ServeCsv, ServeLookup
<1>3. CASE ServeDesk(n)
  BY <1>3 DEF ServeDesk, ServeUpdate, ServePassword, ServeRotate, ServeAdd, ServeList
<1>4. CASE ServeLogin(n) \/ ServeLogout(n)
  BY <1>4 DEF ServeLogin, ServeLogout
<1>5. CASE Refusal(n) \/ Failure(n)
  BY <1>5 DEF Refusal, Failure
<1> QED BY <1>1, <1>2, <1>3, <1>4, <1>5

\* An edit is on the screen, and waits.
LEMMA Editing ==
  ASSUME PageInv, NEW next,
         Update([OffPanel(screen) EXCEPT !.draft = next, !.pending = next, !.timer = TRUE, !.saving = "idle"], <<>>),
         screen.name = "game"
  PROVE  /\ PageInv' /\ Asks({})
         /\ screen'.draft = next /\ screen'.pending = next /\ screen'.timer = TRUE
<1> DEFINE s == [OffPanel(screen) EXCEPT !.draft = next, !.pending = next, !.timer = TRUE, !.saving = "idle"]
<1>1. Alike(s) /\ s.draft = next /\ s.pending = next /\ s.timer = TRUE
  BY DEF Alike, OffPanel, PageInv, Shape
<1> HIDE DEF s
<1>2. Update(s, <<>>)
  BY DEF s
<1> QED BY <1>1, <1>2, InPlaceSilent

\* The save of what waits is sent.
LEMMA Saves ==
  ASSUME PageInv, Autosave
  PROVE  /\ PageInv' /\ Asks({"saveDraft"})
         /\ screen'.draft = screen.draft /\ screen'.pending = NoValue /\ screen'.timer = FALSE
         /\ issued + 1 \in DOMAIN calls'
         /\ \A n \in DOMAIN calls' : n \in DOMAIN calls \/ n = issued + 1
         /\ calls'[issued + 1].op = "saveDraft" /\ calls'[issued + 1].reply = NoValue
         /\ calls'[issued + 1].arg = screen.pending
<1> DEFINE s == [screen EXCEPT !.timer = FALSE, !.pending = NoValue, !.saving = "saving"]
<1>1. Alike(s) /\ s.draft = screen.draft /\ s.pending = NoValue /\ s.timer = FALSE
  BY DEF Autosave, Alike, PageInv, Shape
<1>2. "saveDraft" \in Ops /\ screen.name \in Home("saveDraft")
  BY DEF Autosave, Ops, GameOps, Home
<1> HIDE DEF s
<1>3. Update(s, <<Request("saveDraft", screen.pending, screen.mount)>>)
  BY DEF Autosave, Save, s
<1>4. /\ PageInv' /\ Asks({"saveDraft"}) /\ screen' = s
      /\ issued + 1 \in DOMAIN calls'
      /\ \A n \in DOMAIN calls' : n \in DOMAIN calls \/ n = issued + 1
      /\ calls'[issued + 1] = Made(Request("saveDraft", screen.pending, screen.mount), session)
  BY <1>1, <1>2, <1>3, InPlaceAsking
<1> QED BY <1>1, <1>4 DEF Made, Request

\* A change of a row, or a request for a secret or a password, is sent.
LEMMA Changes ==
  ASSUME PageInv, NEW op, NEW arg, Change(op, arg),
         (op \in OperatorOps /\ screen.name = "operators") \/ (op \in UserOps /\ screen.name = "users")
  PROVE  /\ PageInv' /\ Asks({op}) /\ screen' = screen
         /\ issued + 1 \in DOMAIN calls'
         /\ \A n \in DOMAIN calls' : n \in DOMAIN calls \/ n = issued + 1
         /\ calls'[issued + 1].op = op /\ calls'[issued + 1].reply = NoValue
         /\ calls'[issued + 1].arg = arg
<1>1. op \in Ops /\ screen.name \in Home(op)
  BY DEF Ops, GameOps, OperatorOps, UserOps, Home
<1>2. Alike(screen)
  BY DEF Alike
<1>3. Update(screen, <<Request(op, arg, screen.mount)>>)
  BY DEF Change
<1>4. /\ PageInv' /\ Asks({op}) /\ screen' = screen
      /\ issued + 1 \in DOMAIN calls'
      /\ \A n \in DOMAIN calls' : n \in DOMAIN calls \/ n = issued + 1
      /\ calls'[issued + 1] = Made(Request(op, arg, screen.mount), session)
  BY <1>1, <1>2, <1>3, InPlaceAsking
<1> QED BY <1>4 DEF Made, Request

\* The panel of a secret is ticked, or closed.
LEMMA Acknowledges ==
  ASSUME PageInv, Acknowledge
  PROVE  /\ PageInv' /\ Asks({}) /\ screen.name = "operators" /\ screen'.rows = screen.rows
         /\ screen'.issued \in {screen.issued, NoValue}
<1> DEFINE s == IF screen.acknowledged THEN [screen EXCEPT !.issued = NoValue, !.acknowledged = FALSE]
                ELSE [screen EXCEPT !.acknowledged = TRUE]
<1>1. screen.name = "operators"
  BY DEF Acknowledge, OnOperators
<1>2. Alike(s) /\ s.rows = screen.rows /\ s.issued \in {screen.issued, NoValue}
  BY <1>1 DEF Alike, PageInv, Shape
<1>3. Update(s, <<>>)
  BY DEF Acknowledge
<1> HIDE DEF s
<1> QED BY <1>1, <1>2, <1>3, InPlaceSilent

\* The steps of the desk: changes of its rows, and the panel of a secret.
LEMMA DeskSteps ==
  ASSUME PageInv, DeskStep
  PROVE  PageInv' /\ Asks(OperatorOps \cup UserOps) /\ screen.name \in {"operators", "users"}
<1> DEFINE ops == OperatorOps \cup UserOps
<1>1. OnDesk
  BY DEF DeskStep, Toggle, Disable, Rotate, Add, SetPassword, Acknowledge, OnOperators
<1>2. screen.name \in {"operators", "users"}
  BY <1>1 DEF OnDesk
<1> SUFFICES PageInv' /\ Asks(ops)
  BY <1>2
<1>3. (UpdateOp \in OperatorOps /\ screen.name = "operators") \/ (UpdateOp \in UserOps /\ screen.name = "users")
  BY <1>2 DEF UpdateOp, OperatorOps, UserOps
<1>4. ASSUME NEW op, NEW arg, Change(op, arg),
             (op \in OperatorOps /\ screen.name = "operators") \/ (op \in UserOps /\ screen.name = "users")
      PROVE  PageInv' /\ Asks(ops)
  <2>1. PageInv' /\ Asks({op}) /\ op \in ops
    BY <1>4, Changes
  <2> QED BY <2>1 DEF Asks
<1> HIDE DEF ops
<1>5. CASE Toggle
  BY <1>3, <1>4, <1>5 DEF Toggle
<1>6. CASE Disable
  BY <1>3, <1>4, <1>6 DEF Disable
<1>7. CASE Rotate
  <2>1. "rotateSecret" \in OperatorOps /\ screen.name = "operators"
    BY <1>7 DEF Rotate, OnOperators, OperatorOps
  <2> QED BY <1>4, <1>7, <2>1 DEF Rotate
<1>8. CASE Add
  <2> DEFINE op == IF screen.name = "users" THEN "createUser" ELSE "createOperator"
  <2>1. PICK arg : Change(op, arg)
    BY <1>8 DEF Add
  <2>2. (op \in OperatorOps /\ screen.name = "operators") \/ (op \in UserOps /\ screen.name = "users")
    BY <1>2 DEF OperatorOps, UserOps
  <2> HIDE DEF op
  <2> QED BY <1>4, <2>1, <2>2
<1>9. CASE SetPassword
  <2>1. "setPassword" \in UserOps /\ screen.name = "users"
    BY <1>9 DEF SetPassword, UserOps
  <2> QED BY <1>4, <1>9, <2>1 DEF SetPassword
<1>10. CASE Acknowledge
  <2>1. PageInv' /\ Asks({})
    BY <1>10, Acknowledges
  <2> QED BY <2>1 DEF Asks
<1> QED BY <1>5, <1>6, <1>7, <1>8, <1>9, <1>10 DEF DeskStep

LEMMA PageStill ==
  ASSUME PageInv, UNCHANGED <<situation, route, screen, mounts, calls, issued>>
  PROVE  PageInv'
  BY DEF PageInv

LEMMA PageStarts ==
  ASSUME Init
  PROVE  PageInv
<1>1. /\ situation \in Situation /\ route = The.start /\ mounts = 1
      /\ screen = NewScreen(session, route, 1)
      /\ calls = Sent(OnMount(screen), session, 0) /\ issued = Len(OnMount(screen))
  BY DEF Init
<1>2. route \in Routes
  BY <1>1, RouteAssumption DEF The
<1>3. /\ Fresh(screen) /\ screen.mount = 1
      /\ \/ OnMount(screen) = <<>>
         \/ \E op \in {"listGames", "getGame", "listOperators", "listUsers", "audit"} :
              OnMount(screen) = <<Request(op, NoValue, 1)>> /\ screen.name \in Home(op)
  BY <1>1, <1>2, NewScreens
<1>4. CASE OnMount(screen) = <<>>
  BY <1>1, <1>2, <1>3, <1>4 DEF PageInv, Sent, Fresh
<1>5. CASE \E op \in {"listGames", "getGame", "listOperators", "listUsers", "audit"} :
              OnMount(screen) = <<Request(op, NoValue, 1)>> /\ screen.name \in Home(op)
  <2>1. PICK op \in {"listGames", "getGame", "listOperators", "listUsers", "audit"} :
          OnMount(screen) = <<Request(op, NoValue, 1)>> /\ screen.name \in Home(op)
    BY <1>5
  <2>2. op \in Ops
    BY DEF Ops, GameOps, UserOps
  <2>3. issued = 1 /\ DOMAIN calls = {1} /\ calls[1] = Made(Request(op, NoValue, 1), session)
    BY <1>1, <2>1 DEF Sent, Made
  <2>4. IsCall(calls[1]) /\ calls[1].mount = 1 /\ calls[1].op = op
    BY <2>2, <2>3 DEF IsCall, Made, Request
  <2> QED BY <1>1, <1>2, <1>3, <2>1, <2>3, <2>4 DEF PageInv, Fresh
<1> QED BY <1>3, <1>4, <1>5

LEMMA PageSteps ==
  ASSUME PageInv, [Next]_vars
  PROVE  PageInv'
<1>1. CASE Submit \/ SignOut \/ ReportsStep
  BY <1>1, PlainStepsArePlain DEF PlainSteps, OtherSteps
<1>2. CASE Navigate
  BY <1>2, Navigates
<1>3. CASE Revoke \/ Insert
  BY <1>3, PageStill DEF Revoke, Insert
<1>4. CASE BuilderStep
  <2>1. CASE Edit
    <3>1. screen.name = "game"
      BY <2>1 DEF Edit, Builder
    <3>2. PICK next : Update([OffPanel(screen) EXCEPT !.draft = next, !.pending = next, !.timer = TRUE, !.saving = "idle"], <<>>)
      BY <2>1 DEF Edit
    <3> QED BY <3>1, <3>2, Editing
  <2>2. CASE Autosave
    BY <2>2, Saves
  <2>3. CASE Upload \/ Simulate \/ OpenHistory \/ Create \/ \E force \in BOOLEAN : Publish(force)
    BY <2>3, PlainStepsArePlain DEF PlainSteps, OtherSteps
  <2> QED BY <1>4, <2>1, <2>2, <2>3 DEF BuilderStep
<1>5. CASE DeskStep
  BY <1>5, DeskSteps
<1>6. ASSUME NEW n \in DOMAIN calls,
             \/ ServeGame(n) \/ ServeReports(n) \/ ServeDesk(n) \/ ServeLogin(n) \/ ServeLogout(n)
             \/ Refusal(n) \/ Failure(n)
      PROVE  PageInv'
  BY <1>6, Serving, ReplyKeepsPage
<1>7. ASSUME NEW n \in DOMAIN calls, Answer(n) PROVE PageInv'
  BY <1>7, AnswersCommit
<1>8. CASE UNCHANGED vars
  BY <1>8, PageStill DEF vars, pageVars
<1>9. ASSUME NEW n \in DOMAIN calls, ReadDraft(n) PROVE PageInv'
  BY <1>9, Reads, ReadKeepsPage
<1> QED BY <1>1, <1>2, <1>3, <1>4, <1>5, <1>6, <1>7, <1>8, <1>9 DEF Next, ComeToNothing

\* The type invariant of the page: a call waits for the screen that made it or
\* for one that is gone, never for a screen of another kind, so that what an
\* answer does to a screen it finds there (App.tsx's screens, api.ts request())
\* is done to one that has it.
THEOREM PageHolds == Spec => []PageInv
<1>1. Init => PageInv
  BY PageStarts
<1>2. PageInv /\ [Next]_vars => PageInv'
  BY PageSteps
<1> QED BY <1>1, <1>2, PTL DEF Spec

-----------------------------------------------------------------------------
(* The desk and the steps of the page                                      *)

RowsAreListed(s, now) ==
  /\ s.name = "operators" /\ s.rows # NoValue => IsList(s.rows, Operators, now)
  /\ s.name = "users" /\ s.rows # NoValue => IsList(s.rows, Staff, now)

LEMMA DeskStill ==
  ASSUME PageInv, DeskTypes, UNCHANGED desk, issued' \in Nat, issued' >= issued,
         \A n \in DOMAIN calls' : CallKept(n) \/ (CallNew(n) /\ DeskCallOK(n)'),
         RowsAreListed(screen', desk)
  PROVE  DeskTypes'
<1>1. ASSUME NEW n \in DOMAIN calls' PROVE DeskCallOK(n)'
  <2>1. CASE CallKept(n)
    <3>1. DeskCallOK(n)
      BY <2>1 DEF CallKept, DeskTypes
    <3> QED BY <2>1, <3>1 DEF CallKept, DeskCallOK
  <2> QED BY <2>1
<1>2. ASSUME NEW w \in People, desk[w] # NoValue PROVE SecretOK(w)'
  <2>1. SecretOK(w)
    BY <1>2 DEF DeskTypes
  <2>2. desk[w].secret \in Nat /\ issued \in Nat /\ desk[w].secret <= issued
    BY <2>1 DEF SecretOK, PageInv
  <2>3. desk[w].secret \in DOMAIN calls' => CallKept(desk[w].secret)
    BY <2>2 DEF CallNew
  <2> QED BY <2>1, <2>2, <2>3 DEF SecretOK, CallKept
<1>3. RowsAreListed(screen', desk')
  OBVIOUS
<1> QED BY <1>1, <1>2, <1>3 DEF DeskTypes, RowsAreListed

LEMMA PlainCalls ==
  ASSUME NEW n \in DOMAIN calls', CallNew(n), calls'[n].op \in PlainOps \cup {"saveDraft"}
  PROVE  DeskCallOK(n)'
  BY DEF CallNew, DeskCallOK, PlainOps, UpdateOps, SecretOps, Answered

LEMMA PromisesStill ==
  ASSUME PromisesInv, UNCHANGED <<desk, promises>>,
         \A n \in DOMAIN calls : calls[n].reply = NoValue => CallKept(n)
  PROVE  PromisesInv'
<1>1. PromiseKey' = PromiseKey
  BY DEF PromiseKey
<1>2. ASSUME NEW k \in DOMAIN promises'
      PROVE  /\ DOMAIN promises'[k] = {"on", "risky"}
             /\ promises'[k].on \in BOOLEAN /\ promises'[k].risky \in BOOLEAN
             /\ \/ promises'[k].risky
                \/ Keeps(desk', k, promises'[k])
                \/ \E n \in DOMAIN calls' : Stores(calls'[n], k, promises'[k].on)
  <2>1. ASSUME NEW n \in DOMAIN calls, Stores(calls[n], k, promises[k].on)
        PROVE  n \in DOMAIN calls' /\ calls'[n] = calls[n]
    BY <2>1 DEF Stores, CallKept
  <2>2. \/ promises[k].risky
        \/ Keeps(desk, k, promises[k])
        \/ \E n \in DOMAIN calls : Stores(calls[n], k, promises[k].on)
    BY DEF PromisesInv
  <2> QED BY <2>1, <2>2 DEF PromisesInv
<1> QED BY <1>1, <1>2 DEF PromisesInv, Keeps

LEMMA ShownStill ==
  ASSUME ShownInv, UNCHANGED <<desk, overtaken>>, DOMAIN calls \subseteq DOMAIN calls',
         screen'.name = "operators" /\ screen'.issued # NoValue =>
           screen.name = "operators" /\ screen'.issued = screen.issued
  PROVE  ShownInv'
  BY DEF ShownInv

LEMMA PlainDesk ==
  ASSUME PageInv, DeskInv, UNCHANGED deskVars,
         \/ /\ Asks(PlainOps \cup {"saveDraft"})
            /\ RowsAreListed(screen', desk)
            /\ screen.name = "operators" => screen'.issued \in {screen.issued, NoValue}
         \/ Remains(screen, DOMAIN calls) \/ Leaves(DOMAIN calls)
  PROVE  DeskInv'
<1>1. UNCHANGED <<desk, promises, overtaken>>
  BY DEF deskVars
<1>2. /\ issued' \in Nat /\ issued' >= issued
      /\ \A n \in DOMAIN calls : CallKept(n)
      /\ \A n \in DOMAIN calls' :
           CallKept(n) \/ (CallNew(n) /\ calls'[n].op \in PlainOps \cup {"saveDraft"})
  BY DEF Asks, Remains, Leaves, OtherOps
<1>3. RowsAreListed(screen', desk)
  <2>1. CASE Remains(screen, DOMAIN calls)
    BY <2>1 DEF Remains, DeskInv, DeskTypes, RowsAreListed
  <2>2. CASE Leaves(DOMAIN calls)
    BY <2>2 DEF Leaves, Fresh, RowsAreListed
  <2> QED BY <2>1, <2>2
<1>4. screen'.name = "operators" /\ screen'.issued # NoValue =>
        screen.name = "operators" /\ screen'.issued = screen.issued
  BY DEF Asks, Alike, Remains, Leaves, Fresh
<1>5. DeskTypes'
  BY <1>1, <1>2, <1>3, PlainCalls, DeskStill DEF DeskInv
<1>6. PromisesInv'
  BY <1>1, <1>2, PromisesStill DEF DeskInv
<1>7. ShownInv'
  BY <1>1, <1>2, <1>4, ShownStill DEF DeskInv, CallKept
<1> QED BY <1>5, <1>6, <1>7 DEF DeskInv

-----------------------------------------------------------------------------
(* The desk and the steps of the server                                    *)

RowsStay == \A w \in People : desk[w] # NoValue => desk'[w] # NoValue

\* A secret is the old one, or that of the call that is answered.
NewSecret(n, w) ==
  \/ desk[w] # NoValue /\ desk'[w].secret = desk[w].secret
  \/ /\ desk'[w].secret = n
     /\ calls[n].op \in SecretOps \cup {"createUser"} /\ calls[n].arg.who = w /\ Answered(calls'[n])

LEMMA DeskReplied ==
  ASSUME PageInv, DeskInv, NEW n \in DOMAIN calls, Replied(n), UNCHANGED overtaken,
         desk' \in [People -> DeskRow \cup {NoValue}], RowsStay,
         DeskCallOK(n)',
         \A w \in People : desk'[w] # NoValue => NewSecret(n, w)
  PROVE  DeskTypes' /\ ShownInv'
<1>1. PICK reply : calls' = [calls EXCEPT ![n].reply = reply]
  BY DEF Replied
<1>2. /\ DOMAIN calls' = DOMAIN calls
      /\ \A m \in DOMAIN calls : m # n => calls'[m] = calls[m]
      /\ calls'[n].op = calls[n].op /\ calls'[n].arg = calls[n].arg
  BY <1>1, Replies
<1>3. UNCHANGED <<screen, issued>> /\ calls[n].reply = NoValue
  BY DEF Replied
<1>4. ASSUME NEW m \in DOMAIN calls' PROVE DeskCallOK(m)'
  <2>1. CASE m # n
    <3>1. DeskCallOK(m) /\ calls'[m] = calls[m]
      BY <1>2, <2>1 DEF DeskInv, DeskTypes
    <3>2. Operators \subseteq People /\ Staff \subseteq People
      BY DEF People
    <3>3. ASSUME NEW rows, NEW who \in SUBSET People, IsList(rows, who, desk) PROVE IsList(rows, who, desk')
      BY <3>3 DEF IsList, RowsStay
    <3>4. ASSUME NEW w \in People, desk[w] # NoValue PROVE desk'[w] # NoValue
      BY <3>4 DEF RowsStay
    <3> QED BY <3>1, <3>2, <3>3, <3>4 DEF DeskCallOK, UpdateOps, SecretOps
  <2> QED BY <2>1
<1>5. ASSUME NEW w \in People, desk'[w] # NoValue PROVE SecretOK(w)'
  <2>1. NewSecret(n, w)
    BY <1>5
  <2>2. CASE desk[w] # NoValue /\ desk'[w].secret = desk[w].secret
    <3>1. SecretOK(w)
      BY <2>2 DEF DeskInv, DeskTypes
    <3>2. desk[w].secret # n
      BY <1>3, <3>1 DEF SecretOK, Answered
    <3> QED BY <1>2, <1>3, <2>2, <3>1, <3>2 DEF SecretOK
  <2>3. CASE /\ desk'[w].secret = n
             /\ calls[n].op \in SecretOps \cup {"createUser"} /\ calls[n].arg.who = w /\ Answered(calls'[n])
    <3>1. n \in 0 .. issued
      BY DEF PageInv
    <3> QED BY <1>2, <1>3, <2>3, <3>1 DEF SecretOK
  <2> QED BY <2>1, <2>2, <2>3 DEF NewSecret
<1>6. RowsAreListed(screen', desk')
  BY <1>3 DEF RowsAreListed, DeskInv, DeskTypes, IsList, RowsStay, People
<1>7. DeskTypes'
  BY <1>4, <1>5, <1>6 DEF DeskTypes, RowsAreListed
<1>8. ASSUME screen.name = "operators", screen.issued # NoValue
      PROVE  /\ screen.issued.who \in Operators
             /\ desk'[screen.issued.who] # NoValue
             /\ \/ desk'[screen.issued.who].secret \in {screen.issued.secret} \cup DOMAIN calls
                \/ screen.issued.who \in overtaken
  <2> DEFINE w == screen.issued.who
  <2>1. /\ w \in Operators /\ desk[w] # NoValue
        /\ desk[w].secret \in {screen.issued.secret} \cup DOMAIN calls \/ w \in overtaken
    BY <1>8 DEF DeskInv, ShownInv
  <2>2. w \in People /\ desk'[w] # NoValue
    BY <2>1 DEF People, RowsStay
  <2> HIDE DEF w
  <2>3. desk'[w].secret \in {screen.issued.secret} \cup DOMAIN calls \/ w \in overtaken
    BY <2>1, <2>2 DEF NewSecret
  <2> QED BY <2>1, <2>2, <2>3 DEF w
<1> QED BY <1>2, <1>3, <1>7, <1>8 DEF ShownInv

\* What each promise has of the step.
Goes(n, k) ==
  /\ DOMAIN promises'[k] = {"on", "risky"}
  /\ promises'[k].on = promises[k].on /\ promises'[k].risky \in BOOLEAN
  /\ \/ promises'[k].risky
     \/ Keeps(desk', k, promises[k])
     \/ ~promises[k].risky /\ ~Keeps(desk, k, promises[k]) /\ ~Stores(calls[n], k, promises[k].on)

LEMMA PromisesReplied ==
  ASSUME PageInv, DeskInv, NEW n \in DOMAIN calls, Replied(n), RowsStay,
         DOMAIN promises' = DOMAIN promises,
         \A k \in DOMAIN promises : Goes(n, k)
  PROVE  PromisesInv'
<1>1. PICK reply : calls' = [calls EXCEPT ![n].reply = reply]
  BY DEF Replied
<1>2. DOMAIN calls' = DOMAIN calls /\ \A m \in DOMAIN calls : m # n => calls'[m] = calls[m]
  BY <1>1, Replies
<1>3. DOMAIN promises' \subseteq PromiseKey'
  BY DEF PromisesInv, DeskInv, PromiseKey, RowsStay
<1>4. ASSUME NEW k \in DOMAIN promises
      PROVE  \/ promises'[k].risky
             \/ Keeps(desk', k, promises[k])
             \/ \E m \in DOMAIN calls' : Stores(calls'[m], k, promises'[k].on)
  <2>1. CASE ~promises[k].risky /\ ~Keeps(desk, k, promises[k]) /\ ~Stores(calls[n], k, promises[k].on)
    <3>1. PICK m \in DOMAIN calls : Stores(calls[m], k, promises[k].on)
      BY <2>1 DEF DeskInv, PromisesInv
    <3>2. m # n
      BY <2>1, <3>1
    <3>3. calls'[m] = calls[m] /\ m \in DOMAIN calls'
      BY <1>2, <3>2
    <3>4. promises'[k].on = promises[k].on
      BY DEF Goes
    <3>5. Stores(calls'[m], k, promises'[k].on)
      BY <3>1, <3>3, <3>4 DEF Stores
    <3> QED BY <3>3, <3>5
  <2> QED BY <2>1 DEF Goes
<1>5. ASSUME NEW k \in DOMAIN promises'
      PROVE  /\ DOMAIN promises'[k] = {"on", "risky"}
             /\ promises'[k].on \in BOOLEAN /\ promises'[k].risky \in BOOLEAN
             /\ \/ promises'[k].risky
                \/ Keeps(desk', k, promises'[k])
                \/ \E m \in DOMAIN calls' : Stores(calls'[m], k, promises'[k].on)
  <2>1. Goes(n, k) /\ k \in DOMAIN promises
    OBVIOUS
  <2>2. Keeps(desk', k, promises[k]) => Keeps(desk', k, promises'[k])
    BY <2>1 DEF Goes, Keeps
  <2> QED BY <1>4, <2>1, <2>2 DEF Goes, DeskInv, PromisesInv
<1> QED BY <1>3, <1>5 DEF PromisesInv, Keeps

\* An answer that is none of a secret, a new user or a list.
LEMMA DeskUntouched ==
  ASSUME PageInv, DeskInv, NEW n \in DOMAIN calls, Replied(n), UNCHANGED <<desk, overtaken>>,
         ~Answered(calls'[n]) \/ calls[n].op \notin SecretOps \cup {"listOperators", "listUsers"}
  PROVE  DeskTypes' /\ ShownInv'
<1>1. PICK reply : calls' = [calls EXCEPT ![n].reply = reply]
  BY DEF Replied
<1>2. calls'[n].op = calls[n].op /\ calls'[n].arg = calls[n].arg
  BY <1>1, Replies
<1>3. DeskCallOK(n)
  BY DEF DeskInv, DeskTypes
<1>4. DeskCallOK(n)'
  BY <1>2, <1>3 DEF DeskCallOK
<1>5. desk' \in [People -> DeskRow \cup {NoValue}] /\ RowsStay
  BY DEF DeskInv, DeskTypes, RowsStay
<1> QED BY <1>4, <1>5, DeskReplied DEF NewSecret

LEMMA PromisesUntouched ==
  ASSUME PageInv, DeskInv, NEW n \in DOMAIN calls, Replied(n), UNCHANGED promises, RowsStay,
         calls[n].op \notin UpdateOps,
         \A w \in People : desk[w] # NoValue => desk'[w].grants = desk[w].grants /\ desk'[w].off = desk[w].off
  PROVE  PromisesInv'
<1>1. ASSUME NEW k \in DOMAIN promises PROVE Goes(n, k)
  <2>1. k[1] \in People /\ desk[k[1]] # NoValue
    BY DEF DeskInv, PromisesInv, PromiseKey
  <2>2. Keeps(desk, k, promises[k]) => Keeps(desk', k, promises[k])
    BY <2>1 DEF Keeps
  <2>3. ~Stores(calls[n], k, promises[k].on)
    BY DEF Stores
  <2>4. DOMAIN promises[k] = {"on", "risky"} /\ promises[k].risky \in BOOLEAN
    BY DEF DeskInv, PromisesInv
  <2> QED BY <2>2, <2>3, <2>4 DEF Goes
<1> QED BY <1>1, PromisesReplied

LEMMA RowsTyped ==
  ASSUME DeskTypes, NEW w \in People, desk[w] # NoValue
  PROVE  /\ desk[w] \in DeskRow /\ desk[w] = [grants |-> desk[w].grants, off |-> desk[w].off, secret |-> desk[w].secret]
         /\ desk[w].grants \subseteq Grants /\ desk[w].off \in BOOLEAN /\ desk[w].secret \in Nat
  BY DEF DeskTypes, DeskRow

\* What an update asks for is stored, and what it puts back is at risk.
LEMMA UpdateServed ==
  ASSUME PageInv, DeskInv, NEW n \in DOMAIN calls, ServeUpdate(n)
  PROVE  DeskInv'
<1> DEFINE arg == calls[n].arg
           who == calls[n].arg.who
           next == [desk EXCEPT ![who] = IF arg.field = "off" THEN [@ EXCEPT !.off = arg.value]
                                         ELSE [@ EXCEPT !.grants = arg.value]]
<1>1. Replied(n)
  BY Serving DEF ServeDesk
<1>2. /\ calls[n].op \in UpdateOps /\ desk' = next /\ promises' = PromisesAfter(next)
      /\ UNCHANGED overtaken
  BY DEF ServeUpdate, Admitted, Waiting, UpdateOps
<1>3. /\ who \in People /\ desk[who] # NoValue
      /\ \/ arg.field = "off" /\ arg.value \in BOOLEAN
         \/ arg.field = "grants" /\ arg.value \subseteq Grants
  BY <1>2 DEF DeskInv, DeskTypes, DeskCallOK
<1>4. desk \in [People -> DeskRow \cup {NoValue}]
  BY DEF DeskInv, DeskTypes
<1> DEFINE row == IF arg.field = "off" THEN [desk[who] EXCEPT !.off = arg.value]
                  ELSE [desk[who] EXCEPT !.grants = arg.value]
<1>5. row \in DeskRow /\ row # NoValue /\ row.secret = desk[who].secret
  <2>1. desk[who] \in DeskRow
    BY <1>3, RowsTyped DEF DeskInv
  <2>2. row \in DeskRow /\ row.secret = desk[who].secret
    BY <1>3, <2>1 DEF DeskRow
  <2> QED BY <2>2, DeskAssumption
<1>6. next = [desk EXCEPT ![who] = row]
  OBVIOUS
<1>7. /\ next \in [People -> DeskRow \cup {NoValue}]
      /\ next[who] = row /\ \A w \in People : w # who => next[w] = desk[w]
  BY <1>3, <1>4, <1>5, <1>6
<1>8. RowsStay /\ \A w \in People : desk'[w] # NoValue => NewSecret(n, w)
  BY <1>2, <1>3, <1>5, <1>7 DEF RowsStay, NewSecret
<1>9. DeskCallOK(n)'
  <2>1. PICK reply : calls' = [calls EXCEPT ![n].reply = reply]
    BY <1>1 DEF Replied
  <2>2. calls'[n].op = calls[n].op /\ calls'[n].arg = calls[n].arg
    BY <2>1, Replies
  <2>3. DeskCallOK(n)
    BY DEF DeskInv, DeskTypes
  <2> QED BY <1>2, <1>3, <1>8, <2>2, <2>3 DEF DeskCallOK, UpdateOps, SecretOps, RowsStay
<1>10. DeskTypes' /\ ShownInv'
  BY <1>1, <1>2, <1>7, <1>8, <1>9, DeskReplied
<1>11. ASSUME NEW k \in DOMAIN promises PROVE Goes(n, k)
  <2>1. /\ DOMAIN promises'[k] = {"on", "risky"} /\ promises'[k].on = promises[k].on
        /\ promises'[k].risky = (promises[k].risky \/ (Keeps(desk, k, promises[k]) /\ ~Keeps(next, k, promises[k])))
    BY <1>2 DEF PromisesAfter
  <2>2. promises'[k].risky \in BOOLEAN
    BY <2>1
  <2>3. ASSUME Stores(calls[n], k, promises[k].on) PROVE Keeps(next, k, promises[k])
    <3>1. who = k[1] /\ next[k[1]] = row
      BY <1>7, <2>3 DEF Stores
    <3>2. desk[who] \in DeskRow
      BY <1>3, RowsTyped DEF DeskInv
    <3>3. CASE k[2] = "off"
      <4>1. arg.field = "off" /\ arg.value = promises[k].on
        BY <2>3, <3>3 DEF Stores
      <4>2. row.off = arg.value
        BY <3>2, <4>1 DEF DeskRow
      <4> QED BY <3>1, <3>3, <4>1, <4>2 DEF Keeps
    <3>4. CASE k[2] # "off"
      <4>1. arg.field = "grants" /\ (k[2] \in arg.value) = promises[k].on
        BY <2>3, <3>4 DEF Stores
      <4>2. row.grants = arg.value
        BY <3>2, <4>1 DEF DeskRow
      <4> QED BY <3>1, <3>4, <4>1, <4>2 DEF Keeps
    <3> QED BY <3>3, <3>4
  <2> HIDE DEF next
  <2> QED BY <1>2, <2>1, <2>2, <2>3 DEF Goes
<1>12. DOMAIN promises' = DOMAIN promises
  BY <1>2 DEF PromisesAfter
<1>13. PromisesInv'
  BY <1>1, <1>8, <1>11, <1>12, PromisesReplied
<1> QED BY <1>10, <1>13 DEF DeskInv

LEMMA SecretAnswered ==
  ASSUME NEW n \in Nat, NEW c, c.reply = Ok(n)
  PROVE  Answered(c) /\ c.reply.body = n
<1>1. Ok(n) \in [status : {200}, body : Nat] /\ Ok(n).body = n /\ Ok(n).status = 200
  BY DEF Ok
<1>2. Ok(n) # NoValue
  BY <1>1, DeskAssumption
<1> QED BY <1>1, <1>2 DEF Answered, Good

\* A rotation puts a new secret into a row that is there.
LEMMA RotateServed ==
  ASSUME PageInv, DeskInv, NEW n \in DOMAIN calls, ServeRotate(n)
  PROVE  DeskInv'
<1> DEFINE who == calls[n].arg.who
           row == [desk[who] EXCEPT !.secret = n]
<1>1. Replied(n)
  BY Serving DEF ServeDesk
<1>2. /\ calls[n].op = "rotateSecret" /\ desk' = [desk EXCEPT ![who] = row] /\ Reply(n, Ok(n))
      /\ UNCHANGED <<promises, overtaken>>
  BY DEF ServeRotate, Admitted, Waiting
<1>3. who \in Operators /\ who \in People /\ desk[who] # NoValue
  BY <1>2 DEF DeskInv, DeskTypes, DeskCallOK, SecretOps, People
<1>4. desk \in [People -> DeskRow \cup {NoValue}] /\ n \in Nat
  BY DEF DeskInv, DeskTypes, PageInv
<1>5. row \in DeskRow /\ row # NoValue /\ row.secret = n /\ row.grants = desk[who].grants /\ row.off = desk[who].off
  <2>1. desk[who] \in DeskRow
    BY <1>3, RowsTyped DEF DeskInv
  <2>2. row \in DeskRow /\ row.secret = n /\ row.grants = desk[who].grants /\ row.off = desk[who].off
    BY <1>4, <2>1 DEF DeskRow
  <2> QED BY <2>2, DeskAssumption
<1> HIDE DEF row
<1>6. /\ desk' \in [People -> DeskRow \cup {NoValue}]
      /\ desk'[who] = row /\ \A w \in People : w # who => desk'[w] = desk[w]
  BY <1>2, <1>3, <1>4, <1>5
<1>7. /\ calls'[n].op = calls[n].op /\ calls'[n].arg = calls[n].arg /\ calls'[n].reply = Ok(n)
  BY <1>2, Replies DEF Reply
<1>8. RowsStay
  BY <1>5, <1>6 DEF RowsStay
<1>9. Answered(calls'[n]) /\ calls'[n].reply.body = n
  BY <1>4, <1>7, SecretAnswered
<1>10. \A w \in People : desk'[w] # NoValue => NewSecret(n, w)
  BY <1>2, <1>5, <1>6, <1>9 DEF NewSecret, SecretOps
<1>11. DeskCallOK(n)'
  BY <1>2, <1>3, <1>5, <1>6, <1>7, <1>9 DEF DeskCallOK, UpdateOps, SecretOps
<1>12. DeskTypes' /\ ShownInv'
  BY <1>1, <1>2, <1>6, <1>8, <1>10, <1>11, DeskReplied
<1>13. PromisesInv'
  <2>1. \A w \in People : desk[w] # NoValue => desk'[w].grants = desk[w].grants /\ desk'[w].off = desk[w].off
    BY <1>5, <1>6
  <2>2. calls[n].op \notin UpdateOps
    BY <1>2 DEF UpdateOps
  <2> QED BY <1>1, <1>2, <1>8, <2>1, <2>2, PromisesUntouched
<1> QED BY <1>12, <1>13 DEF DeskInv

\* A refusal or a failure is no answer to build on.
Refused(n, code) == calls' = [calls EXCEPT ![n].reply = Status(code)]

LEMMA NotAnswered ==
  ASSUME PageInv, NEW n \in DOMAIN calls, NEW code, code # 200, Refused(n, code)
  PROVE  ~Answered(calls'[n])
<1> DEFINE reply == Status(code)
<1>1. calls' = [calls EXCEPT ![n].reply = reply]
  BY DEF Refused
<1>2. reply.status # 200
  BY DEF Status
<1> HIDE DEF reply
<1>3. calls'[n].reply = reply
  BY <1>1, Replies
<1> QED BY <1>2, <1>3 DEF Answered, Good

\* A new operator, or user, gets the secret of the call, unless it is there.
LEMMA AddServed ==
  ASSUME PageInv, DeskInv, NEW n \in DOMAIN calls, ServeAdd(n)
  PROVE  DeskInv'
<1> DEFINE who == calls[n].arg.who
           row == Row(IF who \in Staff THEN The.grants ELSE {}, n)
<1>1. Replied(n)
  BY Serving DEF ServeDesk
<1>2. calls[n].op \in {"createOperator", "createUser"} /\ UNCHANGED <<promises, overtaken>>
  BY DEF ServeAdd, Admitted, Waiting
<1>3. who \in People /\ (calls[n].op \in SecretOps => who \in Operators) /\ calls[n].op \notin UpdateOps
  BY <1>2 DEF DeskInv, DeskTypes, DeskCallOK, SecretOps, UpdateOps, People
<1>4. desk \in [People -> DeskRow \cup {NoValue}] /\ n \in Nat
  BY DEF DeskInv, DeskTypes, PageInv
<1>5. CASE desk[who] # NoValue
  <2>1. Reply(n, Status(409)) /\ UNCHANGED desk
    BY <1>5 DEF ServeAdd
  <2>2. Refused(n, 409)
    BY <2>1 DEF Reply, Refused
  <2>3. ~Answered(calls'[n])
    BY <2>2, NotAnswered
  <2>4. RowsStay
    BY <2>1 DEF RowsStay
  <2>5. DeskTypes' /\ ShownInv'
    BY <1>1, <1>2, <2>1, <2>3, DeskUntouched
  <2>6. PromisesInv'
    BY <1>1, <1>2, <1>3, <2>1, <2>4, PromisesUntouched
  <2> QED BY <2>5, <2>6 DEF DeskInv
<1>6. CASE desk[who] = NoValue
  <2>1. Reply(n, Ok(n)) /\ desk' = [desk EXCEPT ![who] = row]
    BY <1>6 DEF ServeAdd
  <2>2. row \in DeskRow /\ row # NoValue /\ row.secret = n
    <3>1. The.grants \subseteq Grants
      BY DEF The, Grants, PageInv
    <3>2. row \in DeskRow /\ row.secret = n
      BY <1>4, <3>1 DEF Row, DeskRow
    <3> QED BY <3>2, DeskAssumption
  <2> HIDE DEF row
  <2>3. /\ desk' \in [People -> DeskRow \cup {NoValue}]
        /\ desk'[who] = row /\ \A w \in People : w # who => desk'[w] = desk[w]
    BY <1>3, <1>4, <2>1, <2>2
  <2>4. /\ calls'[n].op = calls[n].op /\ calls'[n].arg = calls[n].arg /\ calls'[n].reply = Ok(n)
    BY <2>1, Replies DEF Reply
  <2>5. RowsStay
    BY <1>6, <2>3 DEF RowsStay
  <2>6. Answered(calls'[n]) /\ calls'[n].reply.body = n
    BY <1>4, <2>4, SecretAnswered
  <2>7. \A w \in People : desk'[w] # NoValue => NewSecret(n, w)
    BY <1>2, <2>2, <2>3, <2>6 DEF NewSecret, SecretOps
  <2>8. DeskCallOK(n)'
    <3>1. DeskCallOK(n)
      BY DEF DeskInv, DeskTypes
    <3> QED BY <1>2, <1>3, <2>2, <2>3, <2>4, <2>6, <3>1 DEF DeskCallOK, UpdateOps, SecretOps
  <2>9. DeskTypes' /\ ShownInv'
    BY <1>1, <1>2, <2>3, <2>5, <2>7, <2>8, DeskReplied
  <2>10. PromisesInv'
    <3>1. \A w \in People : desk[w] # NoValue => desk'[w].grants = desk[w].grants /\ desk'[w].off = desk[w].off
      BY <1>6, <2>3
    <3> QED BY <1>1, <1>2, <1>3, <2>5, <3>1, PromisesUntouched
  <2> QED BY <2>9, <2>10 DEF DeskInv
<1> QED BY <1>5, <1>6

\* A list is what the rows are when it is served.
LEMMA ListServed ==
  ASSUME PageInv, DeskInv, NEW n \in DOMAIN calls, ServeList(n)
  PROVE  DeskInv'
<1>1. Replied(n)
  BY Serving DEF ServeDesk
<1>2. calls[n].op \in {"listOperators", "listUsers", "audit"} /\ UNCHANGED <<desk, promises, overtaken>>
  BY DEF ServeList, Admitted, Waiting, deskVars
<1>3. PICK reply : calls' = [calls EXCEPT ![n].reply = reply]
  BY <1>1 DEF Replied
<1>4. calls'[n].op = calls[n].op /\ calls'[n].arg = calls[n].arg
  BY <1>3, Replies
<1>5. RowsStay /\ desk' \in [People -> DeskRow \cup {NoValue}]
  BY <1>2 DEF RowsStay, DeskInv, DeskTypes
<1>6. PromisesInv'
  BY <1>1, <1>2, <1>5, PromisesUntouched DEF UpdateOps
<1>7. DeskCallOK(n)'
  <2>1. CASE calls[n].op = "listOperators"
    <3> DEFINE rows == [h \in Operators |-> desk[h]]
    <3>1. IsList(rows, Operators, desk)
      BY DEF IsList, DeskInv, DeskTypes, People
    <3>2. Reply(n, Ok(rows))
      BY <2>1 DEF ServeList
    <3> HIDE DEF rows
    <3>3. calls'[n].reply = Ok(rows)
      BY <3>2, Replies DEF Reply
    <3>4. calls'[n].reply.body = rows
      BY <3>3 DEF Ok
    <3> QED BY <1>2, <1>4, <2>1, <3>1, <3>4 DEF DeskCallOK, UpdateOps, SecretOps
  <2>2. CASE calls[n].op = "listUsers"
    <3> DEFINE rows == [h \in Staff |-> desk[h]]
    <3>1. IsList(rows, Staff, desk)
      BY DEF IsList, DeskInv, DeskTypes, People
    <3>2. Reply(n, Ok(rows))
      BY <2>2 DEF ServeList
    <3> HIDE DEF rows
    <3>3. calls'[n].reply = Ok(rows)
      BY <3>2, Replies DEF Reply
    <3>4. calls'[n].reply.body = rows
      BY <3>3 DEF Ok
    <3> QED BY <1>2, <1>4, <2>2, <3>1, <3>4 DEF DeskCallOK, UpdateOps, SecretOps
  <2>3. CASE calls[n].op = "audit"
    BY <1>4, <2>3 DEF DeskCallOK, UpdateOps, SecretOps
  <2> QED BY <1>2, <2>1, <2>2, <2>3
<1>8. DeskTypes' /\ ShownInv'
  BY <1>1, <1>2, <1>5, <1>7, DeskReplied DEF NewSecret
<1> QED BY <1>6, <1>8 DEF DeskInv

\* The other answers.
LEMMA OtherServed ==
  ASSUME PageInv, DeskInv, NEW n \in DOMAIN calls, Replied(n), UNCHANGED deskVars,
         calls[n].op \notin UpdateOps \cup SecretOps \cup {"createUser", "listOperators", "listUsers"}
  PROVE  DeskInv'
<1>1. UNCHANGED <<desk, promises, overtaken>>
  BY DEF deskVars
<1>2. DeskTypes' /\ ShownInv'
  BY <1>1, DeskUntouched
<1>3. PromisesInv'
  BY <1>1, PromisesUntouched DEF RowsStay
<1> QED BY <1>2, <1>3 DEF DeskInv

\* A call that comes to nothing puts what it asked at risk.
LEMMA DeskFails ==
  ASSUME PageInv, DeskInv, NEW n \in DOMAIN calls, ComeToNothing(n)
  PROVE  DeskInv'
<1>1. Replied(n)
  BY Serving DEF ComeToNothing
<1>2. promises' = PromisesAfterFailing(n) /\ UNCHANGED <<desk, overtaken>>
  BY DEF ComeToNothing
<1>3. Refused(n, 401) \/ Refused(n, 403) \/ Refused(n, 500)
  BY DEF ComeToNothing, Refusal, Failure, Reply, Refused
<1>5. ~Answered(calls'[n])
  BY <1>3, NotAnswered
<1>6. DeskTypes' /\ ShownInv'
  BY <1>1, <1>2, <1>5, DeskUntouched
<1>7. ASSUME NEW k \in DOMAIN promises PROVE Goes(n, k)
  <2> DEFINE lost == /\ calls[n].op \in {"updateOperator", "updateUser"} /\ calls[n].arg.who = k[1]
                     /\ ~Keeps(desk, k, promises[k])
  <2>1. /\ DOMAIN promises'[k] = {"on", "risky"} /\ promises'[k].on = promises[k].on
        /\ promises'[k].risky = (promises[k].risky \/ lost)
    BY <1>2 DEF PromisesAfterFailing
  <2>2. promises'[k].risky \in BOOLEAN
    BY <2>1
  <2>3. Stores(calls[n], k, promises[k].on) => lost \/ Keeps(desk, k, promises[k])
    BY DEF Stores, UpdateOps
  <2> HIDE DEF lost
  <2>4. CASE promises[k].risky \/ lost
    BY <2>1, <2>2, <2>4 DEF Goes
  <2>5. CASE ~promises[k].risky /\ ~lost
    BY <1>2, <2>1, <2>2, <2>3, <2>5 DEF Goes
  <2> QED BY <2>4, <2>5
<1>8. DOMAIN promises' = DOMAIN promises /\ RowsStay
  BY <1>2 DEF PromisesAfterFailing, RowsStay
<1>9. PromisesInv'
  BY <1>1, <1>7, <1>8, PromisesReplied
<1> QED BY <1>6, <1>9 DEF DeskInv

LEMMA DeskServes ==
  ASSUME PageInv, DeskInv, NEW n \in DOMAIN calls,
         \/ ServeDesk(n)
         \/ (ServeGame(n) \/ ServeReports(n) \/ ServeLogin(n) \/ ServeLogout(n)) /\ UNCHANGED deskVars
         \/ ComeToNothing(n)
  PROVE  DeskInv'
<1> USE DEF Admitted, Waiting, UpdateOps, SecretOps
<1>1. CASE ServeGame(n) /\ UNCHANGED deskVars
  <2>1. calls[n].op \notin UpdateOps \cup SecretOps \cup {"createUser", "listOperators", "listUsers"}
    BY <1>1 DEF ServeGame, ServeSave, ServeUpload, ServeRead, ServeCreate, ServeFromPublished, ServePublish, HasRead
  <2> QED BY <1>1, <2>1, Serving, OtherServed
<1>2. CASE ServeReports(n) /\ UNCHANGED deskVars
  <2>1. calls[n].op \notin UpdateOps \cup SecretOps \cup {"createUser", "listOperators", "listUsers"}
    BY <1>2 DEF ServeReports, ServePage, ServeSummary, ServeCsv, ServeLookup
  <2> QED BY <1>2, <2>1, Serving, OtherServed
<1>3. CASE (ServeLogin(n) \/ ServeLogout(n)) /\ UNCHANGED deskVars
  <2>1. calls[n].op \notin UpdateOps \cup SecretOps \cup {"createUser", "listOperators", "listUsers"}
    BY <1>3 DEF ServeLogin, ServeLogout
  <2> QED BY <1>3, <2>1, Serving, OtherServed
<1>4. CASE ServePassword(n)
  <2>1. calls[n].op \notin UpdateOps \cup SecretOps \cup {"createUser", "listOperators", "listUsers"}
        /\ UNCHANGED deskVars /\ ServeDesk(n)
    BY <1>4 DEF ServePassword, ServeDesk
  <2> QED BY <2>1, Serving, OtherServed
<1>5. CASE ServeUpdate(n) \/ ServeRotate(n) \/ ServeAdd(n) \/ ServeList(n)
  BY <1>5, UpdateServed, RotateServed, AddServed, ListServed
<1>6. CASE ComeToNothing(n)
  BY <1>6, DeskFails
<1> QED BY <1>1, <1>2, <1>3, <1>4, <1>5, <1>6 DEF ServeDesk

-----------------------------------------------------------------------------
(* The desk and the user                                                   *)

LEMMA ListedRows ==
  ASSUME DeskTypes, OnDesk, NEW h \in Listed
  PROVE  /\ h \in People /\ desk[h] # NoValue
         /\ screen.name = "operators" => h \in Operators
         /\ Shown(h).grants \subseteq Grants /\ Shown(h).off \in BOOLEAN
<1>1. CASE screen.name = "operators"
  <2>1. IsList(screen.rows, Operators, desk)
    BY <1>1 DEF OnDesk, DeskTypes
  <2> QED BY <1>1, <2>1 DEF IsList, Listed, Shown, DeskRow, People
<1>2. CASE screen.name = "users"
  <2>1. IsList(screen.rows, Staff, desk)
    BY <1>2 DEF OnDesk, DeskTypes
  <2> QED BY <1>2, <2>1 DEF IsList, Listed, Shown, DeskRow, People
<1> QED BY <1>1, <1>2 DEF OnDesk

\* Any change leaves the desk itself alone; what it sends must be in order.
LEMMA ChangeKeepsDesk ==
  ASSUME PageInv, DeskInv, NEW op, NEW arg, Change(op, arg), UNCHANGED <<desk, overtaken>>,
         (op \in OperatorOps /\ screen.name = "operators") \/ (op \in UserOps /\ screen.name = "users"),
         op \in UpdateOps =>
           /\ DOMAIN arg = {"who", "field", "value"}
           /\ arg.who \in People /\ desk[arg.who] # NoValue
           /\ \/ arg.field = "off" /\ arg.value \in BOOLEAN
              \/ arg.field = "grants" /\ arg.value \subseteq Grants,
         op \in SecretOps => arg.who \in Operators,
         op = "rotateSecret" => desk[arg.who] # NoValue,
         op = "createUser" => arg.who \in Staff
  PROVE  /\ PageInv' /\ DeskTypes' /\ ShownInv' /\ \A n \in DOMAIN calls : CallKept(n)
         /\ \E n \in DOMAIN calls' : calls'[n].op = op /\ calls'[n].arg = arg /\ calls'[n].reply = NoValue
<1>1. /\ PageInv' /\ Asks({op}) /\ screen' = screen
      /\ issued + 1 \in DOMAIN calls'
      /\ \A n \in DOMAIN calls' : n \in DOMAIN calls \/ n = issued + 1
      /\ calls'[issued + 1].op = op /\ calls'[issued + 1].reply = NoValue
      /\ calls'[issued + 1].arg = arg
  BY Changes
<1>2. PICK m : m = issued + 1
  OBVIOUS
<1>3. ASSUME NEW n \in DOMAIN calls' PROVE CallKept(n) \/ (CallNew(n) /\ DeskCallOK(n)')
  <2>1. CallKept(n) \/ CallNew(n)
    BY <1>1 DEF Asks
  <2>2. CallNew(n) => n = m
    BY <1>1, <1>2 DEF CallNew
  <2>3. ASSUME n = m PROVE DeskCallOK(n)'
    <3> DEFINE c == calls'[n]
    <3>1. c.op = op /\ c.arg = arg /\ ~Answered(c)
      BY <1>1, <1>2, <2>3 DEF Answered
    <3> HIDE DEF c
    <3>2. op # "listOperators" /\ (op = "listUsers" => ~Answered(c))
      BY <3>1 DEF OperatorOps, UserOps
    <3> QED BY <3>1, <3>2 DEF DeskCallOK, c
  <2> QED BY <2>1, <2>2, <2>3
<1>4. /\ issued' \in Nat /\ issued' >= issued /\ \A n \in DOMAIN calls : CallKept(n)
  BY <1>1 DEF Asks
<1>5. RowsAreListed(screen', desk)
  BY <1>1 DEF RowsAreListed, DeskInv, DeskTypes
<1>6. DeskTypes'
  BY <1>3, <1>4, <1>5, DeskStill DEF DeskInv
<1>7. ShownInv'
  BY <1>1, <1>4, ShownStill DEF DeskInv, CallKept
<1> QED BY <1>1, <1>4, <1>6, <1>7

LEMMA UpdateOpFits ==
  ASSUME OnDesk
  PROVE  /\ UpdateOp \in UpdateOps /\ UpdateOp \notin SecretOps \cup {"createUser"}
         /\ (UpdateOp \in OperatorOps /\ screen.name = "operators") \/ (UpdateOp \in UserOps /\ screen.name = "users")
  BY DEF OnDesk, UpdateOp, UpdateOps, SecretOps, OperatorOps, UserOps

\* What the promise of k is after a change of h's row.
Promised(k, on) ==
  /\ k \in PromiseKey /\ on \in BOOLEAN
  /\ DOMAIN promises'[k] = {"on", "risky"} /\ promises'[k].on = on /\ promises'[k].risky \in BOOLEAN
  /\ promises'[k].risky \/ \E n \in DOMAIN calls' : Stores(calls'[n], k, on)

LEMMA PromisesChange ==
  ASSUME PromisesInv, UNCHANGED desk, \A n \in DOMAIN calls : CallKept(n),
         \A k \in DOMAIN promises' :
           \/ k \in DOMAIN promises /\ promises'[k] = promises[k]
           \/ \E on : Promised(k, on)
  PROVE  PromisesInv'
<1>1. PromiseKey' = PromiseKey
  BY DEF PromiseKey
<1>2. ASSUME NEW k \in DOMAIN promises'
      PROVE  /\ k \in PromiseKey
             /\ DOMAIN promises'[k] = {"on", "risky"}
             /\ promises'[k].on \in BOOLEAN /\ promises'[k].risky \in BOOLEAN
             /\ \/ promises'[k].risky
                \/ Keeps(desk', k, promises'[k])
                \/ \E n \in DOMAIN calls' : Stores(calls'[n], k, promises'[k].on)
  <2>1. CASE \E on : Promised(k, on)
    BY <2>1 DEF Promised
  <2>2. CASE k \in DOMAIN promises /\ promises'[k] = promises[k]
    <3>1. \/ promises[k].risky
          \/ Keeps(desk, k, promises[k])
          \/ \E n \in DOMAIN calls : Stores(calls[n], k, promises[k].on)
      BY <2>2 DEF PromisesInv
    <3>2. \A n \in DOMAIN calls : n \in DOMAIN calls' /\ calls'[n] = calls[n]
      BY DEF CallKept
    <3> QED BY <2>2, <3>1, <3>2 DEF PromisesInv
  <2> QED BY <2>1, <2>2
<1> QED BY <1>1, <1>2 DEF PromisesInv, Keeps

LEMMA ToggleKeepsDesk ==
  ASSUME PageInv, DeskInv, Toggle
  PROVE  DeskInv'
<1>1. PICK h \in Listed, g \in The.grants :
        LET next == IF g \in Shown(h).grants THEN Shown(h).grants \ {g} ELSE Shown(h).grants \cup {g} IN
        /\ Change(UpdateOp, [who |-> h, field |-> "grants", value |-> next])
        /\ promises' = [k \in DOMAIN promises \cup {<<h, g>>} |->
                          IF k = <<h, g>> THEN [on |-> g \in next, risky |-> FALSE]
                          ELSE IF k[1] = h /\ k[2] # "off"
                          THEN [on |-> promises[k].on, risky |-> (k[2] \in next) # promises[k].on] ELSE promises[k]]
  BY DEF Toggle
<1> DEFINE next == IF g \in Shown(h).grants THEN Shown(h).grants \ {g} ELSE Shown(h).grants \cup {g}
           arg == [who |-> h, field |-> "grants", value |-> next]
<1>2. OnDesk /\ UNCHANGED <<desk, overtaken>>
  BY DEF Toggle
<1>3. /\ h \in People /\ desk[h] # NoValue
      /\ Shown(h).grants \subseteq Grants
  BY <1>2, ListedRows DEF DeskInv
<1>4. g \in Grants /\ g # "off"
  BY DeskAssumption DEF The, Grants, PageInv
<1>5. next \subseteq Grants
  BY <1>3, <1>4
<1>6. Change(UpdateOp, arg)
  BY <1>1
<1>7. promises' = [k \in DOMAIN promises \cup {<<h, g>>} |->
                    IF k = <<h, g>> THEN [on |-> g \in next, risky |-> FALSE]
                    ELSE IF k[1] = h /\ k[2] # "off"
                    THEN [on |-> promises[k].on, risky |-> (k[2] \in next) # promises[k].on] ELSE promises[k]]
  BY <1>1
<1> HIDE DEF next
<1>8. /\ DeskTypes' /\ ShownInv' /\ \A n \in DOMAIN calls : CallKept(n)
      /\ \E n \in DOMAIN calls' : calls'[n].op = UpdateOp /\ calls'[n].arg = arg /\ calls'[n].reply = NoValue
  <2>1. DOMAIN arg = {"who", "field", "value"} /\ arg.who = h /\ arg.field = "grants" /\ arg.value = next
    OBVIOUS
  <2> HIDE DEF arg
  <2> QED BY <1>2, <1>3, <1>5, <1>6, <2>1, UpdateOpFits, ChangeKeepsDesk
<1>9. PICK n \in DOMAIN calls' : calls'[n].op = UpdateOp /\ calls'[n].arg = arg /\ calls'[n].reply = NoValue
  BY <1>8
<1>10. ASSUME NEW k \in DOMAIN promises'
       PROVE  \/ k \in DOMAIN promises /\ promises'[k] = promises[k]
              \/ \E on : Promised(k, on)
  <2>1. CASE k = <<h, g>>
    <3> DEFINE on == g \in next
    <3>1. promises'[k] = [on |-> on, risky |-> FALSE]
      BY <1>7, <2>1
    <3>2. k \in PromiseKey /\ k[1] = h /\ k[2] = g
      BY <1>3, <1>4, <2>1 DEF PromiseKey
    <3>3. Stores(calls'[n], k, on)
      BY <1>2, <1>4, <1>9, <3>2, UpdateOpFits DEF Stores
    <3>4. on \in BOOLEAN
      OBVIOUS
    <3> HIDE DEF on
    <3> QED BY <3>1, <3>2, <3>3, <3>4 DEF Promised
  <2>2. CASE k # <<h, g>> /\ k[1] = h /\ k[2] # "off"
    <3> DEFINE on == promises[k].on
               risky == (k[2] \in next) # on
    <3>1. k \in DOMAIN promises /\ promises'[k] = [on |-> on, risky |-> risky]
      BY <1>7, <2>2
    <3>2. k \in PromiseKey /\ on \in BOOLEAN
      BY <3>1 DEF DeskInv, PromisesInv
    <3>3. ~risky => Stores(calls'[n], k, on)
      BY <1>2, <1>9, <2>2, UpdateOpFits DEF Stores
    <3>4. risky \in BOOLEAN
      OBVIOUS
    <3> HIDE DEF on, risky
    <3> QED BY <3>1, <3>2, <3>3, <3>4 DEF Promised
  <2>3. CASE k # <<h, g>> /\ ~(k[1] = h /\ k[2] # "off")
    BY <1>7, <2>3
  <2> QED BY <2>1, <2>2, <2>3
<1>11. PromisesInv'
  BY <1>2, <1>8, <1>10, PromisesChange DEF DeskInv
<1> QED BY <1>8, <1>11 DEF DeskInv

LEMMA DisableKeepsDesk ==
  ASSUME PageInv, DeskInv, Disable
  PROVE  DeskInv'
<1>1. PICK h \in Listed \ {Self} :
        /\ Change(UpdateOp, [who |-> h, field |-> "off", value |-> ~Shown(h).off])
        /\ promises' = [k \in DOMAIN promises \cup {<<h, "off">>} |->
                          IF k = <<h, "off">> THEN [on |-> ~Shown(h).off, risky |-> FALSE] ELSE promises[k]]
  BY DEF Disable
<1> DEFINE on == ~Shown(h).off
           arg == [who |-> h, field |-> "off", value |-> on]
<1>2. OnDesk /\ UNCHANGED <<desk, overtaken>>
  BY DEF Disable
<1>3. h \in People /\ desk[h] # NoValue
  BY <1>2, ListedRows DEF DeskInv
<1>4. on \in BOOLEAN
  OBVIOUS
<1>5. Change(UpdateOp, arg) /\ arg.who = h /\ arg.field = "off" /\ arg.value = on /\ DOMAIN arg = {"who", "field", "value"}
  BY <1>1
<1>6. promises' = [k \in DOMAIN promises \cup {<<h, "off">>} |->
                    IF k = <<h, "off">> THEN [on |-> on, risky |-> FALSE] ELSE promises[k]]
  BY <1>1
<1> HIDE DEF on, arg
<1>7. /\ DeskTypes' /\ ShownInv' /\ \A n \in DOMAIN calls : CallKept(n)
      /\ \E n \in DOMAIN calls' : calls'[n].op = UpdateOp /\ calls'[n].arg = arg /\ calls'[n].reply = NoValue
  BY <1>2, <1>3, <1>4, <1>5, UpdateOpFits, ChangeKeepsDesk
<1>8. PICK n \in DOMAIN calls' : calls'[n].op = UpdateOp /\ calls'[n].arg = arg /\ calls'[n].reply = NoValue
  BY <1>7
<1>9. ASSUME NEW k \in DOMAIN promises'
       PROVE  \/ k \in DOMAIN promises /\ promises'[k] = promises[k]
              \/ \E o : Promised(k, o)
  <2>1. CASE k = <<h, "off">>
    <3>1. promises'[k] = [on |-> on, risky |-> FALSE]
      BY <1>6, <2>1
    <3>2. k \in PromiseKey /\ k[1] = h /\ k[2] = "off"
      BY <1>3, <2>1 DEF PromiseKey
    <3>3. Stores(calls'[n], k, on)
      BY <1>2, <1>5, <1>8, <3>2, UpdateOpFits DEF Stores
    <3> QED BY <1>4, <3>1, <3>2, <3>3 DEF Promised
  <2>2. CASE k # <<h, "off">>
    BY <1>6, <2>2
  <2> QED BY <2>1, <2>2
<1>10. PromisesInv'
  BY <1>2, <1>7, <1>9, PromisesChange DEF DeskInv
<1> QED BY <1>7, <1>10 DEF DeskInv

\* Requests for secrets, new rows and passwords promise nothing.
LEMMA RequestKeepsDesk ==
  ASSUME PageInv, DeskInv, Rotate \/ Add \/ SetPassword
  PROVE  DeskInv'
<1>1. UNCHANGED <<desk, promises, overtaken>>
  BY DEF Rotate, Add, SetPassword, deskVars
<1>2. /\ DeskTypes' /\ ShownInv' /\ \A n \in DOMAIN calls : CallKept(n)
  <2>1. CASE Rotate
    <3>1. PICK h \in Listed : Change("rotateSecret", [who |-> h])
      BY <2>1 DEF Rotate
    <3>2. OnDesk /\ screen.name = "operators"
      BY <2>1 DEF Rotate, OnOperators
    <3> DEFINE arg == [who |-> h]
    <3>3. arg.who \in Operators /\ desk[arg.who] # NoValue /\ Change("rotateSecret", arg)
      BY <3>1, <3>2, ListedRows DEF DeskInv
    <3> HIDE DEF arg
    <3> QED BY <1>1, <3>2, <3>3, ChangeKeepsDesk DEF OperatorOps, UpdateOps, SecretOps
  <2>2. CASE Add
    <3> DEFINE op == IF screen.name = "users" THEN "createUser" ELSE "createOperator"
    <3>1. PICK h \in IF screen.name = "users" THEN Staff ELSE Operators : Change(op, [who |-> h])
      BY <2>2 DEF Add
    <3>2. screen.name \in {"operators", "users"}
      BY <2>2 DEF Add, OnDesk
    <3> DEFINE arg == [who |-> h]
    <3>3. arg.who = h /\ Change(op, arg)
      BY <3>1
    <3> HIDE DEF arg
    <3>4. CASE screen.name = "users"
      <4>1. Change("createUser", arg) /\ arg.who \in Staff
        BY <3>1, <3>3, <3>4
      <4> QED BY <1>1, <3>4, <4>1, ChangeKeepsDesk DEF UserOps, UpdateOps, SecretOps
    <3>5. CASE screen.name = "operators"
      <4>1. Change("createOperator", arg) /\ arg.who \in Operators
        BY <3>1, <3>3, <3>5
      <4> QED BY <1>1, <3>5, <4>1, ChangeKeepsDesk DEF OperatorOps, UpdateOps, SecretOps
    <3> QED BY <3>2, <3>4, <3>5
  <2>3. CASE SetPassword
    <3>1. PICK h \in Listed : Change("setPassword", [who |-> h])
      BY <2>3 DEF SetPassword
    <3>2. screen.name = "users"
      BY <2>3 DEF SetPassword
    <3> DEFINE arg == [who |-> h]
    <3>3. Change("setPassword", arg)
      BY <3>1
    <3> HIDE DEF arg
    <3> QED BY <1>1, <3>2, <3>3, ChangeKeepsDesk DEF UserOps, UpdateOps, SecretOps
  <2> QED BY <2>1, <2>2, <2>3
<1>3. PromisesInv'
  BY <1>1, <1>2, PromisesStill DEF DeskInv
<1> QED BY <1>2, <1>3 DEF DeskInv

LEMMA AcknowledgeKeepsDesk ==
  ASSUME PageInv, DeskInv, Acknowledge
  PROVE  DeskInv'
<1>1. /\ Asks({}) /\ screen.name = "operators" /\ screen'.rows = screen.rows
      /\ screen'.issued \in {screen.issued, NoValue}
  BY Acknowledges
<1>2. Asks(PlainOps \cup {"saveDraft"})
  BY <1>1 DEF Asks
<1>3. RowsAreListed(screen', desk)
  BY <1>1 DEF Asks, Alike, RowsAreListed, DeskInv, DeskTypes
<1>4. UNCHANGED deskVars
  BY DEF Acknowledge
<1> QED BY <1>1, <1>2, <1>3, <1>4, PlainDesk

\* An answer.  A secret that is shown is good, or the good one is on its way,
\* or it was answered before.
LEMMA AnswerKeepsDesk ==
  ASSUME PageInv, DeskInv, NEW n \in DOMAIN calls, Answer(n)
  PROVE  DeskInv'
<1> DEFINE c == calls[n]
           page == AfterAnswer(c)
           others == DOMAIN calls \ {n}
<1>1. Answering(c, page.screen) /\ (Remains(page.screen, others) \/ Leaves(others))
  BY AnswersCommit
<1>2. UNCHANGED <<desk, promises>> /\ c.reply # NoValue /\ overtaken' = OvertakenAfter(n)
  BY DEF Answer
<1>3. /\ issued' \in Nat /\ issued' >= issued
      /\ \A m \in others : CallKept(m)
      /\ \A m \in DOMAIN calls' : CallKept(m) \/ (CallNew(m) /\ calls'[m].op \in PlainOps \cup {"saveDraft"})
  BY <1>1 DEF Remains, Leaves, OtherOps
<1>4. DeskCallOK(n)
  BY DEF DeskInv, DeskTypes
<1> HIDE DEF page
<1>5. RowsAreListed(screen', desk)
  <2>1. CASE Leaves(others)
    BY <2>1 DEF Leaves, Fresh, RowsAreListed
  <2>2. CASE Remains(page.screen, others)
    <3>1. screen' = page.screen /\ screen'.name = screen.name
      BY <2>2 DEF Remains, Alike
    <3>2. IsList([h \in Operators |-> NoValue], Operators, desk)
      BY DEF IsList
    <3>3. c.op = "listOperators" /\ Good(c) => IsList(c.reply.body, Operators, desk)
      BY <1>2, <1>4 DEF DeskCallOK, Answered
    <3>4. c.op = "listUsers" /\ Good(c) => IsList(c.reply.body, Staff, desk)
      BY <1>2, <1>4 DEF DeskCallOK, Answered
    <3>5. screen'.name = "operators" /\ screen'.rows # NoValue => IsList(screen'.rows, Operators, desk)
      BY <1>1, <3>1, <3>2, <3>3 DEF Answering, DeskInv, DeskTypes
    <3>6. screen'.name = "users" /\ screen'.rows # NoValue => IsList(screen'.rows, Staff, desk)
      BY <1>1, <3>1, <3>4 DEF Answering, DeskInv, DeskTypes
    <3> QED BY <3>5, <3>6 DEF RowsAreListed
  <2> QED BY <1>1, <2>1, <2>2
<1>6. DeskTypes'
  BY <1>2, <1>3, <1>5, PlainCalls, DeskStill DEF DeskInv
<1>7. PromisesInv'
  <2>1. \A m \in DOMAIN calls : calls[m].reply = NoValue => CallKept(m)
    BY <1>2, <1>3
  <2> QED BY <1>2, <2>1, PromisesStill DEF DeskInv
<1>8. ShownInv'
  <2> SUFFICES ASSUME screen'.name = "operators", screen'.issued # NoValue
               PROVE  /\ screen'.issued.who \in Operators
                      /\ desk[screen'.issued.who] # NoValue
                      /\ \/ desk[screen'.issued.who].secret \in {screen'.issued.secret} \cup DOMAIN calls'
                         \/ screen'.issued.who \in overtaken'
    BY <1>2 DEF ShownInv
  <2>1. screen' = page.screen /\ screen.name = "operators"
    BY <1>1 DEF Leaves, Fresh, Remains, Alike
  <2>2. \A m \in others : m \in DOMAIN calls'
    BY <1>3 DEF CallKept
  <2>3. CASE c.op \in SecretOps /\ Good(c) /\ c.mount = screen.mount
    <3> DEFINE w == c.arg.who
    <3>1. screen'.issued = [who |-> w, secret |-> c.reply.body]
      BY <1>1, <2>1, <2>3 DEF Answering
    <3>2. w \in Operators /\ desk[w] # NoValue /\ c.reply.body = n
      BY <1>2, <1>4, <2>3 DEF DeskCallOK, Answered
    <3>3. CASE desk[w].secret = n
      BY <3>1, <3>2, <3>3
    <3>4. CASE desk[w].secret # n /\ desk[w].secret \in others
      BY <2>2, <3>1, <3>2, <3>4
    <3>5. CASE desk[w].secret # n /\ desk[w].secret \notin others
      <4>1. w \in overtaken'
        BY <1>2, <2>3, <3>5 DEF OvertakenAfter, SecretOps
      <4> QED BY <3>1, <3>2, <4>1
    <3> QED BY <3>3, <3>4, <3>5
  <2>4. CASE ~(c.op \in SecretOps /\ Good(c) /\ c.mount = screen.mount)
    <3> DEFINE w == screen.issued.who
    <3>1. screen'.issued = screen.issued
      BY <1>1, <2>1, <2>4 DEF Answering
    <3>2. /\ w \in Operators /\ desk[w] # NoValue
          /\ desk[w].secret \in {screen.issued.secret} \cup DOMAIN calls \/ w \in overtaken
      BY <2>1, <3>1 DEF DeskInv, ShownInv
    <3> HIDE DEF w
    <3>3. w \in overtaken => w \in overtaken'
      BY <1>2, <2>4 DEF OvertakenAfter, SecretOps
    <3>4. ASSUME desk[w].secret = n PROVE w \in overtaken'
      <4>1. SecretOK(w) /\ w \in People
        BY <3>2 DEF DeskInv, DeskTypes, People
      <4>2. c.op \in SecretOps \cup {"createUser"} /\ c.arg.who = w /\ Good(c)
        BY <3>4, <4>1 DEF SecretOK, Answered
      <4>3. c.op \in SecretOps
        BY <1>4, <3>2, <4>2, DeskAssumption DEF DeskCallOK
      <4> QED BY <1>2, <2>4, <3>4, <4>2, <4>3 DEF OvertakenAfter, SecretOps
    <3>5. desk[w].secret \in DOMAIN calls => desk[w].secret \in DOMAIN calls' \/ w \in overtaken'
      BY <2>2, <3>4
    <3>6. desk[w].secret \in {screen.issued.secret} \cup DOMAIN calls' \/ w \in overtaken'
      BY <3>2, <3>3, <3>5
    <3> QED BY <3>1, <3>2, <3>6 DEF w
  <2> QED BY <2>3, <2>4
<1> QED BY <1>6, <1>7, <1>8 DEF DeskInv

LEMMA DeskUnmoved ==
  ASSUME DeskInv, UNCHANGED <<screen, calls, issued, desk, promises, overtaken>>
  PROVE  DeskInv'
<1>1. DeskTypes'
  BY DEF DeskInv, DeskTypes, DeskCallOK, SecretOK
<1>2. ShownInv' /\ PromisesInv'
  BY DEF DeskInv, ShownInv, PromisesInv, PromiseKey, Keeps
<1> QED BY <1>1, <1>2 DEF DeskInv

LEMMA ReadKeepsDesk ==
  ASSUME PageInv, DeskInv, NEW n \in DOMAIN calls, Looks(n), UNCHANGED deskVars
  PROVE  DeskInv'
<1>1. /\ DOMAIN calls' = DOMAIN calls /\ UNCHANGED <<screen, issued, desk, promises, overtaken>>
      /\ \A m \in DOMAIN calls :
           calls'[m].op = calls[m].op /\ calls'[m].arg = calls[m].arg /\ calls'[m].reply = calls[m].reply
  BY DEF Looks, deskVars
<1>2. ASSUME NEW m \in DOMAIN calls PROVE DeskCallOK(m)'
  <2>1. DeskCallOK(m)
    BY DEF DeskInv, DeskTypes
  <2> QED BY <1>1, <2>1 DEF DeskCallOK, Answered, Good
<1>3. ASSUME NEW w \in People, desk[w] # NoValue PROVE SecretOK(w)'
  <2>1. SecretOK(w)
    BY <1>3 DEF DeskInv, DeskTypes
  <2> QED BY <1>1, <2>1 DEF SecretOK, Answered, Good
<1>4. DeskTypes'
  BY <1>1, <1>2, <1>3 DEF DeskInv, DeskTypes
<1>5. ASSUME NEW k \in DOMAIN promises, NEW m \in DOMAIN calls, Stores(calls[m], k, promises[k].on)
      PROVE  Stores(calls'[m], k, promises[k].on)
  BY <1>1, <1>5 DEF Stores
<1>6. PromisesInv'
  BY <1>1, <1>5 DEF DeskInv, PromisesInv, PromiseKey, Keeps
<1>7. ShownInv'
  BY <1>1 DEF DeskInv, ShownInv
<1> QED BY <1>4, <1>6, <1>7 DEF DeskInv

LEMMA DeskStarts ==
  ASSUME Init, PageInv
  PROVE  DeskInv
<1>1. /\ situation \in Situation /\ desk = The.desk /\ promises = [k \in {} |-> NoValue] /\ overtaken = {}
      /\ screen = NewScreen(session, route, 1)
      /\ calls = Sent(OnMount(screen), session, 0)
  BY DEF Init
<1>2. /\ desk \in [People -> DeskRow \cup {NoValue}]
      /\ \A h \in People : desk[h] # NoValue => desk[h].secret = 0
  BY <1>1, DeskAssumption DEF The, People
<1>3. /\ Fresh(screen)
      /\ \/ OnMount(screen) = <<>>
         \/ \E op \in {"listGames", "getGame", "listOperators", "listUsers", "audit"} :
              OnMount(screen) = <<Request(op, NoValue, 1)>>
  <2>1. route \in Routes
    BY DEF PageInv
  <2> QED BY <1>1, <2>1, NewScreens
<1>4. ASSUME NEW n \in DOMAIN calls PROVE DeskCallOK(n)
  <2>1. OnMount(screen) # <<>>
    BY <1>1 DEF Sent
  <2>2. PICK op \in {"listGames", "getGame", "listOperators", "listUsers", "audit"} :
          OnMount(screen) = <<Request(op, NoValue, 1)>>
    BY <1>3, <2>1
  <2>3. calls[n].op = op /\ calls[n].reply = NoValue
    BY <1>1, <2>2 DEF Sent, Request
  <2> QED BY <2>3 DEF DeskCallOK, UpdateOps, SecretOps, Answered
<1>5. ASSUME NEW w \in People, desk[w] # NoValue PROVE SecretOK(w)
  <2>1. desk[w].secret = 0 /\ issued \in Nat /\ DOMAIN calls \subseteq 1 .. issued
    BY <1>2, <1>5 DEF PageInv
  <2> QED BY <2>1 DEF SecretOK
<1>6. DeskTypes
  BY <1>2, <1>3, <1>4, <1>5 DEF DeskTypes, Fresh
<1>7. ShownInv
  BY <1>3 DEF ShownInv, Fresh
<1>8. PromisesInv
  BY <1>1 DEF PromisesInv
<1> QED BY <1>6, <1>7, <1>8 DEF DeskInv

LEMMA DeskNext ==
  ASSUME PageInv, DeskInv, [Next]_vars
  PROVE  DeskInv'
<1>1. ASSUME PlainSteps, UNCHANGED deskVars PROVE DeskInv'
  <2>1. Asks(PlainOps) /\ Steady(screen')
    BY <1>1, PlainStepsArePlain
  <2>2. Asks(PlainOps \cup {"saveDraft"})
    BY <2>1 DEF Asks
  <2>3. RowsAreListed(screen', desk) /\ (screen.name = "operators" => screen'.issued = screen.issued)
    BY <2>1 DEF Steady, Alike, RowsAreListed, DeskInv, DeskTypes
  <2> QED BY <1>1, <2>2, <2>3, PlainDesk
<1>2. CASE (Submit \/ SignOut \/ ReportsStep) /\ UNCHANGED deskVars
  BY <1>1, <1>2 DEF PlainSteps, OtherSteps
<1>3. CASE Navigate /\ UNCHANGED deskVars
  BY <1>3, Navigates, PlainDesk
<1>4. CASE (Revoke \/ Insert) /\ UNCHANGED deskVars
  BY <1>4, DeskUnmoved DEF Revoke, Insert, deskVars
<1>5. CASE BuilderStep /\ UNCHANGED deskVars
  <2>1. CASE Edit \/ Autosave
    <3>1. Asks(PlainOps \cup {"saveDraft"}) /\ screen.name = "game"
      <4>1. CASE Edit
        <5>1. screen.name = "game"
          BY <4>1 DEF Edit, Builder
        <5>2. PICK next : Update([OffPanel(screen) EXCEPT !.draft = next, !.pending = next, !.timer = TRUE, !.saving = "idle"], <<>>)
          BY <4>1 DEF Edit
        <5>3. Asks({})
          BY <5>1, <5>2, Editing
        <5> QED BY <5>1, <5>3 DEF Asks
      <4>2. CASE Autosave
        <5>1. Asks({"saveDraft"}) /\ screen.name = "game"
          BY <4>2, Saves DEF Autosave
        <5> QED BY <5>1 DEF Asks
      <4> QED BY <2>1, <4>1, <4>2
    <3>2. RowsAreListed(screen', desk)
      BY <3>1 DEF Asks, Alike, RowsAreListed
    <3> QED BY <1>5, <3>1, <3>2, PlainDesk
  <2>2. CASE Upload \/ Simulate \/ OpenHistory \/ Create \/ \E force \in BOOLEAN : Publish(force)
    BY <1>1, <1>5, <2>2 DEF PlainSteps, OtherSteps
  <2> QED BY <1>5, <2>1, <2>2 DEF BuilderStep
<1>6. CASE DeskStep
  BY <1>6, ToggleKeepsDesk, DisableKeepsDesk, RequestKeepsDesk, AcknowledgeKeepsDesk DEF DeskStep
<1>7. ASSUME NEW n \in DOMAIN calls,
             \/ ServeDesk(n)
             \/ (ServeGame(n) \/ ServeReports(n) \/ ServeLogin(n) \/ ServeLogout(n)) /\ UNCHANGED deskVars
             \/ ComeToNothing(n)
      PROVE  DeskInv'
  BY <1>7, DeskServes
<1>8. ASSUME NEW n \in DOMAIN calls, Answer(n) PROVE DeskInv'
  BY <1>8, AnswerKeepsDesk
<1>9. CASE UNCHANGED vars
  BY <1>9, DeskUnmoved DEF vars, pageVars, deskVars
<1>10. ASSUME NEW n \in DOMAIN calls, ReadDraft(n), UNCHANGED deskVars PROVE DeskInv'
  BY <1>10, Reads, ReadKeepsDesk
<1> QED BY <1>2, <1>3, <1>4, <1>5, <1>6, <1>7, <1>8, <1>9, <1>10 DEF Next

\* A list on show has no row the server lacks, a row's secret is of a call that
\* was answered, a promise that is not kept is on its way, and so is the
\* secret that replaced the one on show (OperatorsScreen.tsx and
\* UsersScreen.tsx against the operators' and users' routes).
THEOREM DeskHolds == Spec => []DeskInv
<1>1. Init => PageInv /\ DeskInv
  BY PageStarts, DeskStarts
<1>2. PageInv /\ DeskInv /\ [Next]_vars => (PageInv /\ DeskInv)'
  BY PageSteps, DeskNext
<1> QED BY <1>1, <1>2, PTL DEF Spec

\* Once nothing is under way every change of a row that was asked last is there,
\* unless a later change of the row was sent from a list without it, was served
\* before it, or the call failed: those overwrite it, as operators.ts:161-218
\* stores the whole set it is sent.  A secret on show is the operator's own or
\* is soon replaced, unless two secrets were answered in the other order or
\* the newer one to a screen that is gone (OperatorsScreen.tsx:28-37 and 212,
\* UsersScreen.tsx:212).
THEOREM DeskAsAsked == Spec => []DeskIsAsAsked
<1>1. DeskInv => DeskIsAsAsked
  <2>1. ASSUME DeskInv, Quiet, NEW k \in DOMAIN promises
        PROVE  promises[k].risky \/ Keeps(desk, k, promises[k])
    BY <2>1 DEF DeskInv, PromisesInv, Quiet
  <2>2. ASSUME DeskInv, screen.name = "operators", screen.issued # NoValue
        PROVE  \/ desk[screen.issued.who].secret \in {screen.issued.secret} \cup DOMAIN calls
               \/ screen.issued.who \in overtaken
    BY <2>2 DEF DeskInv, ShownInv
  <2> QED BY <2>1, <2>2 DEF DeskIsAsAsked
<1> QED BY <1>1, DeskHolds, PTL

-----------------------------------------------------------------------------
(* The drafts and the page                                                 *)

\* What a screen shows of a game.
DraftsAreKnown(s, now) ==
  s.name = "game" =>
    /\ Known(s.draft, now) /\ Known(s.pending, now)
    /\ s.timer \in BOOLEAN /\ (s.timer => s.pending # NoValue)

Saving(c, body) == c.op = "saveDraft" /\ c.reply = NoValue /\ c.arg = body

\* Calls and screens come and go, and what is pending stays or is sent.
LEMMA DraftsStill ==
  ASSUME PageInv, DraftsInv, EditsInv, UNCHANGED gameVars, issued' \in Nat, issued' >= issued,
         DraftsAreKnown(screen', stored),
         \A n \in DOMAIN calls : calls[n].reply = NoValue => CallKept(n),
         \A n \in DOMAIN calls' :
           \/ CallKept(n)
           \/ /\ CallNew(n)
              /\ calls'[n].op = "saveDraft" =>
                   screen.name = "game" /\ screen.pending # NoValue /\ calls'[n].arg = screen.pending,
         screen'.name = "game" =>
           \/ screen'.pending = NoValue
           \/ screen.name = "game" /\ screen'.pending = screen.pending,
         screen.name = "game" /\ screen.pending # NoValue =>
           \/ screen'.name = "game" /\ screen'.pending = screen.pending
           \/ \E n \in DOMAIN calls' : Saving(calls'[n], screen.pending)
  PROVE  DraftsInv' /\ EditsInv'
<1>1. UNCHANGED <<stored, live, kept>>
  BY DEF gameVars
<1>2. ASSUME NEW n \in DOMAIN calls'
      PROVE  /\ calls'[n].op = "saveDraft" => calls'[n].arg # NoValue /\ Known(calls'[n].arg, stored)
             /\ calls'[n].read # NoValue => Known(calls'[n].read.draft, stored)
             /\ calls'[n].op = "saveDraft" /\ calls'[n].read # NoValue => calls'[n].read.draft # NoValue
             /\ calls'[n].op \in DraftOps /\ Answered(calls'[n]) => Known(calls'[n].reply.body.draft, stored)
  <2>1. CASE CallKept(n)
    BY <2>1 DEF CallKept, DraftsInv
  <2>2. CASE /\ CallNew(n)
             /\ calls'[n].op = "saveDraft" =>
                  screen.name = "game" /\ screen.pending # NoValue /\ calls'[n].arg = screen.pending
    BY <2>2 DEF CallNew, Answered, DraftsInv
  <2> QED BY <2>1, <2>2
<1>3. SentInv'
  <2> SUFFICES ASSUME NEW f \in DOMAIN kept, ~kept[f].risky
               PROVE  /\ screen'.name = "game" /\ screen'.pending # NoValue => Plain(screen'.pending[f]) = kept[f].value
                      /\ \A n \in DOMAIN calls' :
                           n > kept[f].since /\ calls'[n].op = "saveDraft" /\ calls'[n].reply = NoValue =>
                             Plain(calls'[n].arg[f]) = kept[f].value
    BY <1>1 DEF SentInv, Plain
  <2>1. /\ screen.name = "game" /\ screen.pending # NoValue => Plain(screen.pending[f]) = kept[f].value
        /\ \A n \in DOMAIN calls :
             n > kept[f].since /\ calls[n].op = "saveDraft" /\ calls[n].reply = NoValue =>
               Plain(calls[n].arg[f]) = kept[f].value
    BY DEF DraftsInv, SentInv
  <2>2. ASSUME NEW n \in DOMAIN calls', n > kept[f].since, calls'[n].op = "saveDraft", calls'[n].reply = NoValue
        PROVE  Plain(calls'[n].arg[f]) = kept[f].value
    <3>1. CASE CallKept(n)
      BY <2>1, <2>2, <3>1 DEF CallKept
    <3>2. CASE calls'[n].arg = screen.pending /\ screen.name = "game" /\ screen.pending # NoValue
      BY <2>1, <3>2
    <3> QED BY <2>2, <3>1, <3>2
  <2> QED BY <2>1, <2>2
<1>6. ASSUME NEW f \in DOMAIN kept
      PROVE  DOMAIN kept[f] = {"value", "since", "risky"} /\ kept[f].since \in 0 .. issued' /\ kept[f].risky \in BOOLEAN
  BY DEF DraftsInv, PageInv
<1>7. DraftsInv'
  BY <1>1, <1>2, <1>3, <1>6 DEF DraftsInv, DraftsAreKnown, IsLive
<1>4. ASSUME NEW f \in DOMAIN kept, ~kept[f].risky, stored[f] # kept[f].value
      PROVE  \/ screen'.name = "game" /\ screen'.pending # NoValue /\ Carries(screen'.pending, f, kept[f].value)
             \/ \E n \in DOMAIN calls' :
                  calls'[n].op = "saveDraft" /\ calls'[n].reply = NoValue /\ Carries(calls'[n].arg, f, kept[f].value)
  <2>1. \/ screen.name = "game" /\ screen.pending # NoValue /\ Carries(screen.pending, f, kept[f].value)
        \/ \E n \in DOMAIN calls :
             calls[n].op = "saveDraft" /\ calls[n].reply = NoValue /\ Carries(calls[n].arg, f, kept[f].value)
    BY <1>4 DEF EditsInv
  <2>2. CASE screen.name = "game" /\ screen.pending # NoValue /\ Carries(screen.pending, f, kept[f].value)
    BY <2>2 DEF Saving
  <2>3. CASE \E n \in DOMAIN calls :
             calls[n].op = "saveDraft" /\ calls[n].reply = NoValue /\ Carries(calls[n].arg, f, kept[f].value)
    BY <2>3 DEF CallKept
  <2> QED BY <2>1, <2>2, <2>3
<1>5. EditsInv'
  BY <1>1, <1>4 DEF EditsInv, Carries
<1> QED BY <1>5, <1>7

-----------------------------------------------------------------------------
(* The drafts and the server                                               *)

\* What each edit has of the step that answers call n.
Lasts(n, f) ==
  /\ DOMAIN kept'[f] = {"value", "since", "risky"}
  /\ kept'[f].value = kept[f].value /\ kept'[f].since = kept[f].since /\ kept'[f].risky \in BOOLEAN
  /\ \/ kept'[f].risky
     \/ /\ ~kept[f].risky
        /\ stored[f] = kept[f].value => stored'[f] = kept[f].value
        /\ calls[n].op = "saveDraft" /\ Carries(calls[n].arg, f, kept[f].value) => stored'[f] = kept[f].value

LEMMA DraftsReplied ==
  ASSUME PageInv, DraftsInv, EditsInv, NEW n \in DOMAIN calls, Replied(n),
         stored # NoValue => stored' # NoValue,
         stored' # NoValue => DOMAIN stored' = Fields,
         IsLive(live'),
         calls[n].op \in DraftOps /\ Answered(calls'[n]) => Known(calls'[n].reply.body.draft, stored'),
         DOMAIN kept' = DOMAIN kept, \A f \in DOMAIN kept : Lasts(n, f)
  PROVE  DraftsInv' /\ EditsInv'
<1>1. PICK reply : calls' = [calls EXCEPT ![n].reply = reply]
  BY DEF Replied
<1>2. /\ DOMAIN calls' = DOMAIN calls
      /\ \A m \in DOMAIN calls : m # n => calls'[m] = calls[m]
      /\ calls'[n].op = calls[n].op /\ calls'[n].arg = calls[n].arg /\ calls'[n].read = calls[n].read
  BY <1>1, Replies
<1>3. UNCHANGED <<screen, issued>> /\ calls[n].reply = NoValue
  BY DEF Replied
<1>4. ASSUME NEW d, Known(d, stored) PROVE Known(d, stored')
  BY <1>4 DEF Known
<1>5. ASSUME NEW m \in DOMAIN calls'
      PROVE  /\ calls'[m].op = "saveDraft" => calls'[m].arg # NoValue /\ Known(calls'[m].arg, stored')
             /\ calls'[m].read # NoValue => Known(calls'[m].read.draft, stored')
             /\ calls'[m].op = "saveDraft" /\ calls'[m].read # NoValue => calls'[m].read.draft # NoValue
             /\ calls'[m].op \in DraftOps /\ Answered(calls'[m]) => Known(calls'[m].reply.body.draft, stored')
  <2>1. CASE m # n
    BY <1>2, <1>4, <2>1 DEF DraftsInv
  <2>2. CASE m = n
    BY <1>2, <1>4, <2>2 DEF DraftsInv
  <2> QED BY <2>1, <2>2
<1>6. screen.name = "game" =>
       /\ Known(screen.draft, stored') /\ Known(screen.pending, stored')
       /\ screen.timer \in BOOLEAN /\ (screen.timer => screen.pending # NoValue)
  BY <1>4 DEF DraftsInv
<1>11. SentInv'
  <2> SUFFICES ASSUME NEW f \in DOMAIN kept, ~kept'[f].risky
               PROVE  /\ screen.name = "game" /\ screen.pending # NoValue => Plain(screen.pending[f]) = kept[f].value
                      /\ \A m \in DOMAIN calls' :
                           m > kept[f].since /\ calls'[m].op = "saveDraft" /\ calls'[m].reply = NoValue =>
                             Plain(calls'[m].arg[f]) = kept[f].value
    BY <1>3 DEF SentInv, Lasts, Plain
  <2>1. ~kept[f].risky
    BY DEF Lasts
  <2>2. /\ screen.name = "game" /\ screen.pending # NoValue => Plain(screen.pending[f]) = kept[f].value
        /\ \A m \in DOMAIN calls :
             m > kept[f].since /\ calls[m].op = "saveDraft" /\ calls[m].reply = NoValue =>
               Plain(calls[m].arg[f]) = kept[f].value
    BY <2>1 DEF DraftsInv, SentInv
  <2> QED BY <1>2, <1>3, <2>2
<1>7. DraftsInv'
  BY <1>3, <1>5, <1>6, <1>11 DEF DraftsInv, Lasts
<1>8. ASSUME NEW f \in DOMAIN kept, ~kept'[f].risky, stored'[f] # kept[f].value
      PROVE  \/ screen.name = "game" /\ screen.pending # NoValue /\ Carries(screen.pending, f, kept[f].value)
             \/ \E m \in DOMAIN calls' :
                  calls'[m].op = "saveDraft" /\ calls'[m].reply = NoValue /\ Carries(calls'[m].arg, f, kept[f].value)
  <2>1. /\ ~kept[f].risky /\ stored[f] # kept[f].value
        /\ ~(calls[n].op = "saveDraft" /\ Carries(calls[n].arg, f, kept[f].value))
    BY <1>8 DEF Lasts
  <2>2. \/ screen.name = "game" /\ screen.pending # NoValue /\ Carries(screen.pending, f, kept[f].value)
        \/ \E m \in DOMAIN calls :
             calls[m].op = "saveDraft" /\ calls[m].reply = NoValue /\ Carries(calls[m].arg, f, kept[f].value)
    BY <2>1 DEF EditsInv
  <2>3. ASSUME NEW m \in DOMAIN calls, calls[m].op = "saveDraft", Carries(calls[m].arg, f, kept[f].value)
        PROVE  m \in DOMAIN calls' /\ calls'[m] = calls[m]
    BY <1>2, <2>1, <2>3
  <2> QED BY <2>2, <2>3
<1>9. \A f \in DOMAIN kept : kept'[f].value = kept[f].value
  BY DEF Lasts
<1>10. EditsInv'
  <2> SUFFICES ASSUME NEW f \in DOMAIN kept', ~kept'[f].risky, stored'[f] # kept'[f].value
               PROVE  \/ screen'.name = "game" /\ screen'.pending # NoValue /\ Carries(screen'.pending, f, kept'[f].value)
                      \/ \E m \in DOMAIN calls' :
                           calls'[m].op = "saveDraft" /\ calls'[m].reply = NoValue /\ Carries(calls'[m].arg, f, kept'[f].value)
    BY DEF EditsInv, Carries
  <2>1. f \in DOMAIN kept /\ kept'[f].value = kept[f].value
    BY <1>9
  <2> QED BY <1>3, <1>8, <2>1
<1> QED BY <1>7, <1>10

\* Whatever leaves the game alone leaves the edits as they are.
LEMMA GameUntouched ==
  ASSUME PageInv, DraftsInv, EditsInv, NEW n \in DOMAIN calls, Replied(n), UNCHANGED kept,
         stored' = stored \/ (stored = NoValue /\ (stored' # NoValue => DOMAIN stored' = Fields)),
         IsLive(live'),
         calls[n].op \in DraftOps /\ Answered(calls'[n]) => Known(calls'[n].reply.body.draft, stored'),
         calls[n].op # "saveDraft"
  PROVE  DraftsInv' /\ EditsInv'
<1>1. ASSUME NEW f \in DOMAIN kept PROVE Lasts(n, f)
  <2>1. stored # NoValue
    BY DEF DraftsInv
  <2> QED BY <2>1 DEF DraftsInv, Lasts
<1>2. stored # NoValue => stored' # NoValue
  OBVIOUS
<1>3. stored' # NoValue => DOMAIN stored' = Fields
  BY DEF DraftsInv
<1> QED BY <1>1, <1>2, <1>3, DraftsReplied

LEMMA Declined ==
  ASSUME PageInv, DraftsInv, EditsInv, NEW n \in DOMAIN calls, Replied(n), UNCHANGED gameVars,
         NEW code, code # 200, Refused(n, code), calls[n].op # "saveDraft"
  PROVE  DraftsInv' /\ EditsInv'
<1>1. ~Answered(calls'[n])
  BY NotAnswered
<1>2. UNCHANGED <<stored, live, kept>> /\ IsLive(live')
  BY DEF gameVars, DraftsInv
<1> QED BY <1>1, <1>2, GameUntouched

\* A marker is no function: it is neither a draft nor a field's table.
NoFunction(x) == x # [y \in DOMAIN x |-> x[y]]

\* A save stores the whole body, but for what the server keeps.
LEMMA Merging ==
  ASSUME NoFunction(NoValue), NEW old, NEW body, NEW next, next = Merged(old, body)
  PROVE  /\ next # NoValue /\ DOMAIN next = DOMAIN body
         /\ \A f, value : f # "assets" /\ Carries(body, f, value) => next[f] = value
         /\ \A f \in DOMAIN body : \A value :
              f # "assets" /\ old[f] = value /\ Plain(body[f]) = value => next[f] = value
<1>1. DOMAIN next = DOMAIN body /\ next = [f \in DOMAIN next |-> next[f]]
  BY DEF Merged
<1>2. next # NoValue
  BY <1>1 DEF NoFunction
<1>3. ASSUME NEW f, NEW value, f # "assets", Carries(body, f, value) PROVE next[f] = value
  BY <1>3 DEF Merged, Carries
<1>4. ASSUME NEW f \in DOMAIN body, NEW value, f # "assets", old[f] = value, Plain(body[f]) = value
      PROVE  next[f] = value
  BY <1>4 DEF Merged
<1> QED BY <1>1, <1>2, <1>3, <1>4

\* A document replaces the draft.  What it takes away it was not made from.
LEMMA Storing ==
  ASSUME PageInv, DraftsInv, EditsInv, NEW n \in DOMAIN calls, Replied(n),
         NEW next, NEW reply, Store(n, next, reply),
         next # NoValue, DOMAIN next = Fields,
         calls[n].op \in DraftOps => reply.body.draft = next,
         \A f \in DOMAIN kept :
           /\ kept[f].risky \/ Stale(n, f) \/ next[f] = kept[f].value
           /\ calls[n].op = "saveDraft" /\ Carries(calls[n].arg, f, kept[f].value) => next[f] = kept[f].value
  PROVE  DraftsInv' /\ EditsInv'
<1>1. /\ stored' = next /\ live' = live /\ calls' = [calls EXCEPT ![n].reply = reply]
      /\ kept' = [f \in DOMAIN kept |->
                    [kept[f] EXCEPT !.risky = @ \/ (Stale(n, f) /\ stored[f] = kept[f].value /\ next[f] # kept[f].value)]]
  BY DEF Store, Reply
<1>2. calls'[n].reply = reply
  BY <1>1, Replies
<1>3. calls[n].op \in DraftOps /\ Answered(calls'[n]) => Known(calls'[n].reply.body.draft, stored')
  BY <1>1, <1>2 DEF Known
<1>4. ASSUME NEW f \in DOMAIN kept PROVE Lasts(n, f)
  <2> DEFINE lost == Stale(n, f) /\ stored[f] = kept[f].value /\ next[f] # kept[f].value
  <2>1. DOMAIN kept[f] = {"value", "since", "risky"} /\ kept[f].risky \in BOOLEAN
    BY DEF DraftsInv
  <2>2. kept'[f] = [kept[f] EXCEPT !.risky = (kept[f].risky \/ lost)]
    BY <1>1
  <2>3. ~lost => ~Stale(n, f) \/ stored[f] # kept[f].value \/ next[f] = kept[f].value
    OBVIOUS
  <2> HIDE DEF lost
  <2>4. /\ DOMAIN kept'[f] = {"value", "since", "risky"} /\ kept'[f].value = kept[f].value
        /\ kept'[f].since = kept[f].since /\ kept'[f].risky = (kept[f].risky \/ lost)
    BY <2>1, <2>2
  <2>5. kept'[f].risky \in BOOLEAN
    BY <2>4
  <2>6. CASE kept[f].risky \/ lost
    BY <2>4, <2>5, <2>6 DEF Lasts
  <2>7. CASE ~kept[f].risky /\ ~lost
    <3>1. stored[f] = kept[f].value => next[f] = kept[f].value
      BY <2>3, <2>7
    <3> QED BY <1>1, <2>4, <2>5, <2>7, <3>1 DEF Lasts
  <2> QED BY <2>6, <2>7
<1>5. DOMAIN kept' = DOMAIN kept
  BY <1>1
<1>6. IsLive(live')
  BY <1>1 DEF DraftsInv
<1> QED BY <1>1, <1>3, <1>4, <1>5, <1>6, DraftsReplied

LEMMA SaveServed ==
  ASSUME NoFunction(NoValue), PageInv, DraftsInv, EditsInv, NEW n \in DOMAIN calls, ServeSave(n)
  PROVE  DraftsInv' /\ EditsInv'
<1> DEFINE body == calls[n].arg
           old == calls[n].read.draft
           next == Merged(old, body)
           reply == Ok([draft |-> next, valid |-> Valid(next)])
<1>1. Replied(n) /\ calls[n].op = "saveDraft" /\ calls[n].read # NoValue /\ calls[n].reply = NoValue
  BY Serving DEF ServeGame, ServeSave, HasRead, Waiting
<1>2. /\ body # NoValue /\ Known(body, stored)
      /\ old # NoValue
  BY <1>1 DEF DraftsInv
<1>3. DOMAIN body = Fields
  BY <1>2 DEF Known
<1>4. Store(n, next, reply)
  BY <1>2 DEF ServeSave
<1>5. reply.body.draft = next
  BY DEF Ok
<1>6. /\ next # NoValue /\ DOMAIN next = Fields
      /\ \A f, value : f # "assets" /\ Carries(body, f, value) => next[f] = value
      /\ \A f \in Fields : \A value : f # "assets" /\ old[f] = value /\ Plain(body[f]) = value => next[f] = value
  <2> HIDE DEF old, body
  <2> QED BY <1>3, Merging
<1> HIDE DEF next, reply
<1>7. ASSUME NEW f \in DOMAIN kept
      PROVE  /\ kept[f].risky \/ Stale(n, f) \/ next[f] = kept[f].value
             /\ Carries(body, f, kept[f].value) => next[f] = kept[f].value
  <2>1. f \in Fields /\ f # "assets" /\ kept[f].since \in 0 .. issued
    BY DEF DraftsInv
  <2>2. ASSUME ~kept[f].risky, ~Stale(n, f) PROVE next[f] = kept[f].value
    <3>1. n > kept[f].since /\ old[f] = kept[f].value
      BY <2>1, <2>2 DEF Stale, PageInv
    <3>2. Plain(body[f]) = kept[f].value
      BY <1>1, <2>2, <3>1 DEF DraftsInv, SentInv
    <3> QED BY <1>6, <2>1, <3>1, <3>2
  <2> QED BY <1>6, <2>1, <2>2
<1> QED BY <1>1, <1>4, <1>5, <1>6, <1>7, Storing

LEMMA UploadServed ==
  ASSUME NoFunction(NoValue), PageInv, DraftsInv, EditsInv, NEW n \in DOMAIN calls, ServeUpload(n)
  PROVE  DraftsInv' /\ EditsInv'
<1> DEFINE old == calls[n].read.draft
<1>1. Replied(n) /\ calls[n].op = "upload" /\ calls[n].read # NoValue
  BY Serving DEF ServeGame, ServeUpload, HasRead, Waiting
<1>2. CASE old = NoValue
  <2>1. Refused(n, 404) /\ UNCHANGED gameVars
    BY <1>2 DEF ServeUpload, Decline, Reply, Refused
  <2> QED BY <1>1, <2>1, Declined
<1>3. CASE old # NoValue
  <2> DEFINE next == [old EXCEPT !.assets = Entry(@, calls[n].arg, "key")]
             reply == Ok([draft |-> next])
  <2>1. Store(n, next, reply)
    BY <1>3 DEF ServeUpload
  <2>2. DOMAIN old = Fields
    BY <1>1, <1>3 DEF DraftsInv, Known
  <2>3. DOMAIN next = Fields /\ \A f \in Fields : f # "assets" => next[f] = old[f]
    BY <2>2
  <2>4. next # NoValue
    <3>1. next = [f \in DOMAIN next |-> next[f]]
      OBVIOUS
    <3> HIDE DEF next
    <3> QED BY <3>1 DEF NoFunction
  <2>5. reply.body.draft = next
    BY DEF Ok
  <2> HIDE DEF next, reply
  <2>6. ASSUME NEW f \in DOMAIN kept PROVE kept[f].risky \/ Stale(n, f) \/ next[f] = kept[f].value
    BY <2>3 DEF DraftsInv, Stale
  <2> QED BY <1>1, <2>1, <2>3, <2>4, <2>5, <2>6, Storing
<1> QED BY <1>2, <1>3

\* A read of the draft answers what is stored.
LEMMA ReadServed ==
  ASSUME PageInv, DraftsInv, EditsInv, NEW n \in DOMAIN calls, ServeRead(n)
  PROVE  DraftsInv' /\ EditsInv'
<1>1. Replied(n) /\ calls[n].op \in {"getGame", "simulate", "listGames", "history"} /\ UNCHANGED <<stored, live, kept>>
  BY Serving DEF ServeGame, ServeRead, Admitted, Waiting, gameVars
<1>2. IsLive(live')
  BY <1>1 DEF DraftsInv
<1>3. calls[n].op = "getGame" /\ Answered(calls'[n]) => Known(calls'[n].reply.body.draft, stored')
  <2>1. CASE calls[n].op = "getGame" /\ stored = NoValue /\ live = NoValue
    <3>1. Refused(n, 404)
      BY <2>1 DEF ServeRead, Admitted, Waiting, Reply, Refused
    <3> QED BY <3>1, NotAnswered
  <2>2. CASE calls[n].op = "getGame" /\ ~(stored = NoValue /\ live = NoValue)
    <3> DEFINE reply == Ok([draft |-> stored, version |-> IF live = NoValue THEN NoValue ELSE live.version])
    <3>1. calls' = [calls EXCEPT ![n].reply = reply]
      BY <2>2 DEF ServeRead, Admitted, Waiting, Reply
    <3>2. reply.body.draft = stored
      BY DEF Ok
    <3> HIDE DEF reply
    <3>3. calls'[n].reply = reply
      BY <3>1, Replies
    <3> QED BY <1>1, <3>2, <3>3 DEF Known, DraftsInv
  <2> QED BY <2>1, <2>2
<1> QED BY <1>1, <1>2, <1>3, GameUntouched DEF DraftOps

\* A draft that appears is blank, or what is live.
LEMMA DraftAppears ==
  ASSUME PageInv, DraftsInv, EditsInv, NEW n \in DOMAIN calls, ServeCreate(n) \/ ServeFromPublished(n)
  PROVE  DraftsInv' /\ EditsInv'
<1>1. Replied(n)
  BY Serving DEF ServeGame
<1>2. CASE \E code \in {404, 409} : Decline(n, code)
  <2>0. PICK code \in {404, 409} : Decline(n, code)
    BY <1>2
  <2>1. Refused(n, code) /\ UNCHANGED gameVars
    BY <2>0 DEF Decline, Reply, Refused
  <2>2. calls[n].op # "saveDraft"
    BY DEF ServeCreate, ServeFromPublished, HasRead, Waiting
  <2> QED BY <1>1, <2>1, <2>2, Declined
<1>3. CASE /\ ServeCreate(n) /\ calls[n].read.draft = NoValue
  <2> DEFINE next == The.blank
  <2>1. calls[n].op = "createGame" /\ Store(n, next, Status(201))
    BY <1>3 DEF ServeCreate, HasRead, Waiting
  <2>2. next # NoValue /\ DOMAIN next = Fields
    BY DraftAssumption DEF The, PageInv
  <2>3. \A f \in DOMAIN kept : Stale(n, f)
    BY <1>3 DEF Stale
  <2> HIDE DEF next
  <2> QED BY <1>1, <2>1, <2>2, <2>3, Storing DEF DraftOps
<1>4. CASE /\ ServeFromPublished(n) /\ calls[n].read.draft = NoValue /\ live # NoValue
  <2> DEFINE next == live.def
             reply == Ok([draft |-> next])
  <2>1. calls[n].op = "fromPublished" /\ Store(n, next, reply)
    BY <1>4 DEF ServeFromPublished, HasRead, Waiting
  <2>2. next # NoValue /\ DOMAIN next = Fields
    BY <1>4 DEF DraftsInv, IsLive
  <2>3. \A f \in DOMAIN kept : Stale(n, f)
    BY <1>4 DEF Stale
  <2>4. reply.body.draft = next
    BY DEF Ok
  <2> HIDE DEF next, reply
  <2> QED BY <1>1, <2>1, <2>2, <2>3, <2>4, Storing
<1> QED BY <1>2, <1>3, <1>4 DEF ServeCreate, ServeFromPublished

LEMMA PublishServed ==
  ASSUME PageInv, DraftsInv, EditsInv, NEW n \in DOMAIN calls, ServePublish(n)
  PROVE  DraftsInv' /\ EditsInv'
<1>1. Replied(n) /\ calls[n].op = "publish" /\ UNCHANGED <<stored, kept>>
  BY Serving DEF ServeGame, ServePublish, Admitted, Waiting
<1>2. \/ live' = live
      \/ stored # NoValue /\ live' = [version |-> (IF live = NoValue THEN 0 ELSE live.version) + 1, def |-> stored]
  BY DEF ServePublish
<1>3. IsLive(live')
  BY <1>2 DEF DraftsInv, IsLive
<1> QED BY <1>1, <1>3, GameUntouched DEF DraftOps

\* What a handler reads of the draft is what is stored.
LEMMA ReadKeepsEdits ==
  ASSUME PageInv, DraftsInv, EditsInv, NEW n \in DOMAIN calls, Looks(n)
  PROVE  DraftsInv' /\ EditsInv'
<1>1. /\ DOMAIN calls' = DOMAIN calls /\ UNCHANGED <<screen, issued, stored, live, kept>>
      /\ \A m \in DOMAIN calls :
           /\ calls'[m].op = calls[m].op /\ calls'[m].arg = calls[m].arg /\ calls'[m].reply = calls[m].reply
           /\ m # n => calls'[m] = calls[m]
      /\ calls'[n].read.draft = stored
  BY DEF Looks
<1>2. ASSUME NEW m \in DOMAIN calls
      PROVE  /\ calls'[m].op = "saveDraft" => calls'[m].arg # NoValue /\ Known(calls'[m].arg, stored)
             /\ calls'[m].read # NoValue => Known(calls'[m].read.draft, stored)
             /\ calls'[m].op = "saveDraft" /\ calls'[m].read # NoValue => calls'[m].read.draft # NoValue
             /\ calls'[m].op \in DraftOps /\ Answered(calls'[m]) => Known(calls'[m].reply.body.draft, stored)
  <2>1. /\ calls[m].op = "saveDraft" => calls[m].arg # NoValue /\ Known(calls[m].arg, stored)
        /\ calls[m].op \in DraftOps /\ Answered(calls[m]) => Known(calls[m].reply.body.draft, stored)
    BY DEF DraftsInv
  <2>2. Answered(calls'[m]) => Answered(calls[m])
    BY <1>1 DEF Answered, Good
  <2>3. CASE m # n
    BY <1>1, <2>3 DEF DraftsInv
  <2>4. CASE m = n
    <3>1. Known(stored, stored) /\ (calls[n].op = "saveDraft" => stored # NoValue)
      BY <2>1, <2>4 DEF Known, DraftsInv
    <3> QED BY <1>1, <2>1, <2>2, <2>4, <3>1
  <2> QED BY <2>3, <2>4
<1>3. SentInv'
  BY <1>1 DEF DraftsInv, SentInv, Plain
<1>4. DraftsInv'
  BY <1>1, <1>2, <1>3 DEF DraftsInv, IsLive
<1>5. EditsInv'
  BY <1>1 DEF EditsInv, Carries, Plain
<1> QED BY <1>4, <1>5

\* A save that fails puts what it carries at risk.
LEMMA SaveFails ==
  ASSUME PageInv, DraftsInv, EditsInv, NEW n \in DOMAIN calls, ComeToNothing(n)
  PROVE  DraftsInv' /\ EditsInv'
<1>1. Replied(n) /\ UNCHANGED <<stored, live>> /\ kept' = KeptAfterFailing(n)
  BY Serving DEF ComeToNothing
<1>2. Refused(n, 401) \/ Refused(n, 403) \/ Refused(n, 500)
  BY DEF ComeToNothing, Refusal, Failure, Reply, Refused
<1>3. ~Answered(calls'[n])
  BY <1>2, NotAnswered
<1>4. IsLive(live')
  BY <1>1 DEF DraftsInv
<1>5. CASE calls[n].op # "saveDraft"
  <2>1. kept' = kept
    BY <1>1, <1>5 DEF KeptAfterFailing
  <2> QED BY <1>1, <1>3, <1>4, <1>5, <2>1, GameUntouched
<1>6. CASE calls[n].op = "saveDraft"
  <2>1. kept' = [f \in DOMAIN kept |-> [kept[f] EXCEPT !.risky = @ \/ Plain(calls[n].arg[f]) = kept[f].value]]
    BY <1>1, <1>6 DEF KeptAfterFailing
  <2>2. ASSUME NEW f \in DOMAIN kept PROVE Lasts(n, f)
    <3> DEFINE lost == Plain(calls[n].arg[f]) = kept[f].value
    <3>1. DOMAIN kept[f] = {"value", "since", "risky"} /\ kept[f].risky \in BOOLEAN
      BY DEF DraftsInv
    <3>2. kept'[f] = [kept[f] EXCEPT !.risky = (kept[f].risky \/ lost)]
      BY <2>1
    <3> HIDE DEF lost
    <3>3. /\ DOMAIN kept'[f] = {"value", "since", "risky"} /\ kept'[f].value = kept[f].value
          /\ kept'[f].since = kept[f].since /\ kept'[f].risky = (kept[f].risky \/ lost)
      BY <3>1, <3>2
    <3>4. kept'[f].risky \in BOOLEAN
      BY <3>3
    <3>5. Carries(calls[n].arg, f, kept[f].value) => lost
      BY DEF Carries, lost
    <3>6. CASE kept[f].risky \/ lost
      BY <3>3, <3>4, <3>6 DEF Lasts
    <3>7. CASE ~kept[f].risky /\ ~lost
      BY <1>1, <3>3, <3>4, <3>5, <3>7 DEF Lasts
    <3> QED BY <3>6, <3>7
  <2>3. DOMAIN kept' = DOMAIN kept
    BY <2>1
  <2>4. (stored # NoValue => stored' # NoValue) /\ (stored' # NoValue => DOMAIN stored' = Fields)
    BY <1>1 DEF DraftsInv
  <2> QED BY <1>1, <1>3, <1>4, <2>2, <2>3, <2>4, DraftsReplied
<1> QED BY <1>5, <1>6

LEMMA DraftsServed ==
  ASSUME NoFunction(NoValue), PageInv, DraftsInv, EditsInv, NEW n \in DOMAIN calls,
         \/ ServeGame(n)
         \/ (ServeReports(n) \/ ServeDesk(n) \/ ServeLogin(n) \/ ServeLogout(n)) /\ UNCHANGED gameVars
         \/ ComeToNothing(n)
  PROVE  DraftsInv' /\ EditsInv'
<1>1. CASE ServeGame(n)
  BY <1>1, SaveServed, UploadServed, ReadServed, DraftAppears, PublishServed DEF ServeGame
<1>2. CASE (ServeReports(n) \/ ServeDesk(n) \/ ServeLogin(n) \/ ServeLogout(n)) /\ UNCHANGED gameVars
  <2>1. UNCHANGED <<stored, live, kept>>
    BY <1>2 DEF gameVars
  <2>2. calls[n].op \notin DraftOps
    <3> USE DEF DraftOps, Admitted, Waiting
    <3>1. CASE ServeReports(n)
      BY <3>1 DEF ServeReports, ServePage, ServeSummary, ServeCsv, ServeLookup
    <3>2. CASE ServeDesk(n)
      BY <3>2 DEF ServeDesk, ServeUpdate, ServePassword, ServeRotate, ServeAdd, ServeList
    <3>3. CASE ServeLogin(n) \/ ServeLogout(n)
      BY <3>3 DEF ServeLogin, ServeLogout
    <3> QED BY <1>2, <3>1, <3>2, <3>3
  <2>3. IsLive(live')
    BY <2>1 DEF DraftsInv
  <2>4. calls[n].op # "saveDraft"
    BY <2>2 DEF DraftOps
  <2> QED BY <1>2, <2>1, <2>2, <2>3, <2>4, Serving, GameUntouched
<1>3. CASE ComeToNothing(n)
  BY <1>3, SaveFails
<1> QED BY <1>1, <1>2, <1>3

-----------------------------------------------------------------------------
(* The drafts and the user                                                 *)

\* An editor never leaves the mark for a field that is not there.
LEMMA Entries ==
  ASSUME NoFunction(Absent), NEW map, NEW key, NEW text
  PROVE  Entry(map, key, text) # Absent
<1> DEFINE known == IF map \in {Absent, Removed} THEN [k \in {} |-> ""] ELSE map
           next == IF text = "" THEN [k \in DOMAIN known \ {key} |-> known[k]] ELSE (key :> text) @@ known
<1>1. Entry(map, key, text) = IF DOMAIN next = {} THEN Removed ELSE next
  BY DEF Entry
<1>2. next = [k \in DOMAIN next |-> next[k]]
  <2>1. CASE text = ""
    BY <2>1
  <2>2. CASE text # ""
    <3>1. next = (key :> text) @@ known
      BY <2>2
    <3> HIDE DEF known
    <3> QED BY <3>1
  <2> QED BY <2>1, <2>2
<1> HIDE DEF next
<1> QED BY <1>1, <1>2, DraftAssumption DEF NoFunction

\* A patch changes one field.
LEMMA Patches ==
  ASSUME NoFunction(Absent), NEW draft, NEW tab, NEW patch \in Edits(draft, tab)
  PROVE  \E f \in Fields : \E value : patch = Patch(f, value) /\ (f \in Optional => value # Absent)
<1>1. CASE tab = "settings"
  <2>1. patch \in SettingsEditor(draft)
    BY <1>1 DEF Edits
  <2>2. CASE \E text \in Texts : patch = Patch("name", text)
    BY <2>2 DEF Fields, Optional
  <2>3. CASE \E grid \in GridEdits(draft.grid) : patch = Patch("grid", grid)
    BY <2>3 DEF Fields, Optional
  <2>4. CASE \E n \in Numbers : patch = Patch("rtp", n)
    BY <2>4 DEF Fields, Optional
  <2>5. CASE \E rule \in {"sum", "highestOnly"} : patch = Patch("rule", rule)
    BY <2>5, DraftAssumption DEF Fields
  <2>6. CASE \E text \in Texts : patch = Patch("currency", text)
    BY <2>6, DraftAssumption DEF Fields
  <2>7. CASE \E bets \in BetOptionsEditor(draft.bets) : patch = Patch("bets", bets)
    BY <2>7 DEF Fields, Optional
  <2>8. CASE \E modules \in BonusModulesEditor(draft.modules) : patch = Patch("modules", modules)
    BY <2>8 DEF Fields, Optional
  <2> QED BY <2>1, <2>2, <2>3, <2>4, <2>5, <2>6, <2>7, <2>8 DEF SettingsEditor
<1>2. CASE tab = "symbols"
  <2>1. PICK value \in SymbolsEditor(draft) : patch = Patch("symbols", value)
    BY <1>2 DEF Edits
  <2> QED BY <2>1 DEF Fields, Optional
<1>3. CASE tab = "reels"
  <2>1. PICK value \in ReelStripsEditor(draft) : patch = Patch("strips", value)
    BY <1>3 DEF Edits
  <2> QED BY <2>1 DEF Fields, Optional
<1>4. CASE tab = "paylines"
  <2>1. PICK value \in PaylinesEditor(draft) : patch = Patch("paylines", value)
    BY <1>4 DEF Edits
  <2> QED BY <2>1 DEF Fields, Optional
<1>5. CASE tab = "artwork"
  <2>1. PICK value \in AssetsEditor(draft) : patch = Patch("assets", value)
    BY <1>5 DEF Edits
  <2> QED BY <2>1 DEF Fields, Optional
<1>6. CASE tab = "theme"
  <2>1. PICK value \in ThemeEditor(draft) : patch = Patch("theme", value)
    BY <1>6 DEF Edits
  <2>2. value # Absent
    BY <2>1, Entries DEF ThemeEditor
  <2> QED BY <2>1, <2>2 DEF Fields
<1>7. CASE tab \notin {"settings", "symbols", "reels", "paylines", "artwork", "theme"}
  <2>1. Edits(draft, tab) = {}
    BY <1>7 DEF Edits
  <2> QED BY <2>1
<1> QED BY <1>1, <1>2, <1>3, <1>4, <1>5, <1>6, <1>7

\* An edited draft has every field, and an optional one that changed is there.
LEMMA Applying ==
  ASSUME NoFunction(NoValue), NoFunction(Absent), NEW draft, DOMAIN draft = Fields,
         NEW tab, NEW patch \in Edits(draft, tab), NEW next, next = Applied(draft, patch)
  PROVE  /\ DOMAIN next = Fields /\ next # NoValue
         /\ \A f \in Optional : next[f] # draft[f] => next[f] # Absent
<1>1. PICK f \in Fields : \E value : patch = Patch(f, value) /\ (f \in Optional => value # Absent)
  BY Patches
<1>2. PICK value : patch = Patch(f, value) /\ (f \in Optional => value # Absent)
  BY <1>1
<1> DEFINE first == [g \in DOMAIN draft |-> IF g \in DOMAIN patch THEN patch[g] ELSE draft[g]]
<1>3. DOMAIN first = Fields /\ \A g \in Fields : first[g] = IF g = f THEN value ELSE draft[g]
  BY <1>2 DEF Patch
<1>4. first = [g \in DOMAIN first |-> first[g]]
  OBVIOUS
<1> HIDE DEF first
<1>5. next = IF first.grid = draft.grid THEN first
             ELSE [first EXCEPT !.paylines = ReshapePaylines(first.paylines, first.grid)]
  BY DEF Applied, first
<1>6. /\ DOMAIN next = Fields /\ next = [g \in DOMAIN next |-> next[g]]
      /\ \A g \in Fields : g # "paylines" => next[g] = first[g]
  BY <1>3, <1>4, <1>5
<1>7. next # NoValue
  BY <1>6 DEF NoFunction
<1>8. \A g \in Optional : g \in Fields /\ g # "paylines"
  BY DEF Optional, Fields
<1> QED BY <1>2, <1>3, <1>6, <1>7, <1>8

\* An edit is on the screen; it takes the place of what was pending, and an
\* earlier edit it lacks is at risk.
LEMMA EditKeepsEdits ==
  ASSUME NoFunction(NoValue), NoFunction(Absent), PageInv, DraftsInv, EditsInv, Edit
  PROVE  DraftsInv' /\ EditsInv'
<1> DEFINE Shows(next) ==
             Update([OffPanel(screen) EXCEPT !.draft = next, !.pending = next, !.timer = TRUE, !.saving = "idle"], <<>>)
<1>1. PICK tab \in The.tabs :
        \E patch \in Edits(screen.draft, tab) :
          LET next == Applied(screen.draft, patch) IN Shows(next) /\ kept' = KeptAfter(next)
  BY DEF Edit
<1> HIDE DEF Shows
<1>0. PICK patch \in Edits(screen.draft, tab) :
        LET next == Applied(screen.draft, patch) IN Shows(next) /\ kept' = KeptAfter(next)
  BY <1>1
<1>2. PICK next : next = Applied(screen.draft, patch)
  OBVIOUS
<1>3. /\ screen.name = "game" /\ screen.draft # NoValue
      /\ UNCHANGED <<stored, live>> /\ kept' = KeptAfter(next)
  BY <1>0, <1>2 DEF Edit, Builder
<1>4. /\ Asks({}) /\ screen'.draft = next /\ screen'.pending = next /\ screen'.timer = TRUE
  BY <1>0, <1>2, <1>3, Editing DEF Shows
<1>5. stored # NoValue /\ DOMAIN screen.draft = Fields
  BY <1>3 DEF DraftsInv, Known
<1>6. /\ DOMAIN next = Fields /\ next # NoValue
      /\ \A f \in Optional : next[f] # screen.draft[f] => next[f] # Absent
  BY <1>2, <1>5, Applying
<1>7. DOMAIN kept' = DOMAIN kept \cup ({g \in Fields : next[g] # screen.draft[g]} \ {"assets"})
  BY <1>3, <1>6 DEF KeptAfter
<1>8. ASSUME NEW f \in DOMAIN kept'
      PROVE  IF next[f] # screen.draft[f] THEN kept'[f] = [value |-> Plain(next[f]), since |-> issued, risky |-> FALSE]
             ELSE kept'[f] = [value |-> kept[f].value,
                              since |-> IF kept[f].risky THEN issued ELSE kept[f].since,
                              risky |-> Plain(next[f]) # kept[f].value
                                        \/ (next[f] = Absent /\ (kept[f].risky \/ Unsent(f)))]
  BY <1>3, <1>7 DEF KeptAfter
<1>9. ASSUME NEW f \in DOMAIN kept' PROVE f \in Fields /\ f # "assets"
  BY <1>7 DEF DraftsInv
<1>10. ASSUME NEW n \in DOMAIN calls' PROVE n \in DOMAIN calls /\ calls'[n] = calls[n]
  BY <1>4 DEF Asks, CallKept
<1>11. ASSUME NEW n \in DOMAIN calls PROVE n \in DOMAIN calls' /\ calls'[n] = calls[n]
  BY <1>4 DEF Asks, CallKept
<1>12. ASSUME NEW f \in DOMAIN kept'
       PROVE  /\ DOMAIN kept'[f] = {"value", "since", "risky"} /\ kept'[f].risky \in BOOLEAN
              /\ \/ kept'[f].risky
                 \/ stored[f] = kept'[f].value
                 \/ Carries(next, f, kept'[f].value)
                 \/ \E n \in DOMAIN calls :
                      calls[n].op = "saveDraft" /\ calls[n].reply = NoValue /\ Carries(calls[n].arg, f, kept'[f].value)
  <2>1. CASE next[f] # screen.draft[f]
    <3>1. kept'[f] = [value |-> Plain(next[f]), since |-> issued, risky |-> FALSE]
      BY <1>8, <2>1
    <3>2. Carries(next, f, kept'[f].value)
      BY <1>6, <1>9, <2>1, <3>1 DEF Carries
    <3> QED BY <3>1, <3>2
  <2>2. CASE next[f] = screen.draft[f]
    <3> DEFINE risky == Plain(next[f]) # kept[f].value \/ (next[f] = Absent /\ (kept[f].risky \/ Unsent(f)))
           since == IF kept[f].risky THEN issued ELSE kept[f].since
    <3>1. f \in DOMAIN kept /\ kept'[f] = [value |-> kept[f].value, since |-> since, risky |-> risky]
      BY <1>7, <1>8, <2>2
    <3>2. risky \in BOOLEAN
      OBVIOUS
    <3>3. ASSUME ~risky, next[f] # Absent PROVE Carries(next, f, kept[f].value)
      BY <1>6, <1>9, <3>3 DEF Carries
    <3>4. ASSUME ~risky, next[f] = Absent
          PROVE  \/ stored[f] = kept[f].value
                 \/ Carries(next, f, kept[f].value)
                 \/ \E n \in DOMAIN calls :
                      calls[n].op = "saveDraft" /\ calls[n].reply = NoValue /\ Carries(calls[n].arg, f, kept[f].value)
      <4>1. kept[f].value = Absent /\ ~kept[f].risky /\ ~Unsent(f)
        BY <3>4, DraftAssumption DEF Plain
      <4>2. ASSUME screen.pending # NoValue, Carries(screen.pending, f, kept[f].value)
            PROVE  Carries(next, f, kept[f].value)
        <5>1. screen.pending[f] = Absent
          BY <4>1, <4>2 DEF Carries, Plain, Unsent
        <5>2. f \notin Optional
          BY <4>2, <5>1 DEF Carries
        <5> QED BY <1>6, <1>9, <3>4, <5>2 DEF Carries
      <4> QED BY <3>1, <4>1, <4>2 DEF EditsInv
    <3> HIDE DEF risky, since
    <3> QED BY <3>1, <3>2, <3>3, <3>4
  <2> QED BY <2>1, <2>2
<1>15. issued \in Nat /\ issued' \in Nat /\ issued' >= issued
  BY <1>4 DEF Asks, PageInv
<1>16. ASSUME NEW f \in DOMAIN kept' PROVE kept'[f].since \in 0 .. issued'
  <2>1. f \in DOMAIN kept => kept[f].since \in 0 .. issued
    BY DEF DraftsInv
  <2>2. CASE next[f] # screen.draft[f]
    BY <1>8, <1>15, <2>2
  <2>3. CASE next[f] = screen.draft[f]
    <3> DEFINE risky == Plain(next[f]) # kept[f].value \/ (next[f] = Absent /\ (kept[f].risky \/ Unsent(f)))
           since == IF kept[f].risky THEN issued ELSE kept[f].since
    <3>1. f \in DOMAIN kept /\ kept'[f] = [value |-> kept[f].value, since |-> since, risky |-> risky]
      BY <1>7, <1>8, <2>3
    <3>2. since \in 0 .. issued'
      BY <1>15, <2>1, <3>1
    <3> HIDE DEF risky, since
    <3> QED BY <3>1, <3>2
  <2> QED BY <2>2, <2>3
<1>17. ASSUME NEW f \in DOMAIN kept', ~kept'[f].risky
       PROVE  /\ Plain(next[f]) = kept'[f].value
              /\ \A n \in DOMAIN calls :
                   n > kept'[f].since /\ calls[n].op = "saveDraft" /\ calls[n].reply = NoValue =>
                     Plain(calls[n].arg[f]) = kept'[f].value
  <2> DEFINE Later(value, since) ==
               \A n \in DOMAIN calls :
                 n > since /\ calls[n].op = "saveDraft" /\ calls[n].reply = NoValue => Plain(calls[n].arg[f]) = value
  <2>1. \A value : Later(value, issued)
    BY <1>15 DEF PageInv
  <2>2. CASE next[f] # screen.draft[f]
    <3>1. kept'[f].value = Plain(next[f]) /\ kept'[f].since = issued
      BY <1>8, <2>2
    <3>2. Later(kept'[f].value, kept'[f].since)
      BY <2>1, <3>1
    <3> QED BY <3>1, <3>2
  <2>3. CASE next[f] = screen.draft[f]
    <3> DEFINE risky == Plain(next[f]) # kept[f].value \/ (next[f] = Absent /\ (kept[f].risky \/ Unsent(f)))
           since == IF kept[f].risky THEN issued ELSE kept[f].since
    <3>1. f \in DOMAIN kept /\ kept'[f] = [value |-> kept[f].value, since |-> since, risky |-> risky]
      BY <1>7, <1>8, <2>3
    <3>2. kept'[f].risky = risky /\ kept'[f].since = since /\ kept'[f].value = kept[f].value
      <4> HIDE DEF risky, since
      <4> QED BY <3>1
    <3>3. ~risky
      <4> HIDE DEF risky
      <4> QED BY <1>17, <3>2
    <3>4. Plain(next[f]) = kept'[f].value
      BY <3>2, <3>3
    <3>5. CASE kept[f].risky
      <4>1. kept'[f].since = issued
        BY <3>2, <3>5
      <4>2. Later(kept'[f].value, kept'[f].since)
        BY <2>1, <4>1
      <4> QED BY <3>4, <4>2
    <3>6. CASE ~kept[f].risky
      <4>1. kept'[f].since = kept[f].since /\ kept'[f].value = kept[f].value
        BY <3>2, <3>6
      <4>2. Later(kept[f].value, kept[f].since)
        BY <3>1, <3>6 DEF DraftsInv, SentInv
      <4> HIDE DEF Later
      <4>3. Later(kept'[f].value, kept'[f].since)
        BY <4>1, <4>2
      <4> QED BY <3>4, <4>3 DEF Later
    <3> QED BY <3>5, <3>6
  <2> QED BY <2>2, <2>3
<1>18. SentInv'
  <2> SUFFICES ASSUME NEW f \in DOMAIN kept', ~kept'[f].risky
               PROVE  /\ Plain(screen'.pending[f]) = kept'[f].value
                      /\ \A n \in DOMAIN calls' :
                           n > kept'[f].since /\ calls'[n].op = "saveDraft" /\ calls'[n].reply = NoValue =>
                             Plain(calls'[n].arg[f]) = kept'[f].value
    BY DEF SentInv, Plain
  <2> QED BY <1>4, <1>10, <1>17
<1>13. DraftsInv'
  <2>1. stored' # NoValue /\ DOMAIN stored' = Fields /\ IsLive(live')
    BY <1>3, <1>5 DEF DraftsInv
  <2>2. Known(screen'.draft, stored') /\ Known(screen'.pending, stored') /\ screen'.pending # NoValue
    BY <1>4, <1>6, <2>1 DEF Known
  <2>3. ASSUME NEW n \in DOMAIN calls'
        PROVE  /\ calls'[n].op = "saveDraft" => calls'[n].arg # NoValue /\ Known(calls'[n].arg, stored')
               /\ calls'[n].read # NoValue => Known(calls'[n].read.draft, stored')
               /\ calls'[n].op = "saveDraft" /\ calls'[n].read # NoValue => calls'[n].read.draft # NoValue
               /\ calls'[n].op \in DraftOps /\ Answered(calls'[n]) => Known(calls'[n].reply.body.draft, stored')
    BY <1>3, <1>10 DEF DraftsInv
  <2> QED BY <1>4, <1>9, <1>12, <1>16, <1>18, <2>1, <2>2, <2>3 DEF DraftsInv
<1>14. EditsInv'
  <2>1. screen'.name = "game" /\ screen'.pending # NoValue
    BY <1>3, <1>4, <1>6 DEF Asks, Alike
  <2> SUFFICES ASSUME NEW f \in DOMAIN kept', ~kept'[f].risky, stored'[f] # kept'[f].value
               PROVE  \/ screen'.name = "game" /\ screen'.pending # NoValue /\ Carries(screen'.pending, f, kept'[f].value)
                      \/ \E n \in DOMAIN calls' :
                           calls'[n].op = "saveDraft" /\ calls'[n].reply = NoValue /\ Carries(calls'[n].arg, f, kept'[f].value)
    BY DEF EditsInv, Carries
  <2> QED BY <1>3, <1>4, <1>11, <1>12, <2>1
<1> QED BY <1>13, <1>14

\* What is pending is sent.
LEMMA AutosaveKeepsEdits ==
  ASSUME PageInv, DraftsInv, EditsInv, Autosave
  PROVE  DraftsInv' /\ EditsInv'
<1>1. /\ Asks({"saveDraft"}) /\ issued + 1 \in DOMAIN calls'
      /\ screen'.draft = screen.draft /\ screen'.pending = NoValue /\ screen'.timer = FALSE
      /\ \A n \in DOMAIN calls' : n \in DOMAIN calls \/ n = issued + 1
      /\ Saving(calls'[issued + 1], screen.pending)
  BY Saves DEF Saving
<1>2. screen.name = "game" /\ screen.pending # NoValue /\ UNCHANGED gameVars
  BY DEF Autosave, DraftsInv
<1>3. DraftsAreKnown(screen', stored)
  BY <1>1, <1>2 DEF DraftsAreKnown, DraftsInv, Known
<1>4. \A n \in DOMAIN calls : CallKept(n)
  BY <1>1 DEF Asks
<1>5. ASSUME NEW n \in DOMAIN calls'
      PROVE  \/ CallKept(n)
             \/ /\ CallNew(n)
                /\ calls'[n].op = "saveDraft" =>
                     screen.name = "game" /\ screen.pending # NoValue /\ calls'[n].arg = screen.pending
  <2>1. CASE n \in DOMAIN calls
    BY <1>4, <2>1
  <2>2. CASE n = issued + 1 /\ n \notin DOMAIN calls
    BY <1>1, <1>2, <2>2 DEF Saving, Asks, CallKept
  <2> QED BY <1>1, <2>1, <2>2
<1>6. issued' \in Nat /\ issued' >= issued
  BY <1>1 DEF Asks
<1> QED BY <1>1, <1>2, <1>3, <1>4, <1>5, <1>6, DraftsStill

\* Steps that neither edit nor save.
LEMMA UnsavedKeepsEdits ==
  ASSUME PageInv, DraftsInv, EditsInv, UNCHANGED gameVars, NEW ops, Asks(ops), "saveDraft" \notin ops,
         screen.name = "game" =>
           screen'.draft = screen.draft /\ screen'.pending = screen.pending /\ screen'.timer = screen.timer
  PROVE  DraftsInv' /\ EditsInv'
<1>1. DraftsAreKnown(screen', stored)
  BY DEF Asks, Alike, DraftsAreKnown, DraftsInv
<1>2. \A n \in DOMAIN calls : CallKept(n)
  BY DEF Asks
<1>3. \A n \in DOMAIN calls' : CallKept(n) \/ (CallNew(n) /\ calls'[n].op # "saveDraft")
  BY DEF Asks
<1>4. /\ screen'.name = screen.name /\ (screen.name = "game" => screen'.pending = screen.pending)
      /\ issued' \in Nat /\ issued' >= issued
  BY DEF Asks, Alike
<1> QED BY <1>1, <1>2, <1>3, <1>4, DraftsStill

\* A change of rows is no edit.
LEMMA DeskStepKeepsEdits ==
  ASSUME PageInv, DraftsInv, EditsInv, DeskStep, UNCHANGED gameVars
  PROVE  DraftsInv' /\ EditsInv'
<1>1. OnDesk
  BY DEF DeskStep, Toggle, Disable, Rotate, Add, SetPassword, Acknowledge, OnOperators
<1>2. screen.name \in {"operators", "users"}
  BY <1>1 DEF OnDesk
<1>3. CASE Acknowledge
  <2>1. Asks({})
    BY <1>3, Acknowledges
  <2> QED BY <1>2, <2>1, UnsavedKeepsEdits
<1>4. ASSUME NEW op, NEW arg, Change(op, arg),
             (op \in OperatorOps /\ screen.name = "operators") \/ (op \in UserOps /\ screen.name = "users")
      PROVE  DraftsInv' /\ EditsInv'
  <2>1. Asks({op})
    BY <1>4, Changes
  <2>2. "saveDraft" \notin {op}
    BY <1>4 DEF OperatorOps, UserOps
  <2> QED BY <1>2, <2>1, <2>2, UnsavedKeepsEdits
<1>5. (UpdateOp \in OperatorOps /\ screen.name = "operators") \/ (UpdateOp \in UserOps /\ screen.name = "users")
  BY <1>2 DEF UpdateOp, OperatorOps, UserOps
<1>6. CASE Toggle
  <2>1. PICK arg : Change(UpdateOp, arg)
    BY <1>6 DEF Toggle
  <2> QED BY <1>4, <1>5, <2>1
<1>7. CASE Disable
  <2>1. PICK arg : Change(UpdateOp, arg)
    BY <1>7 DEF Disable
  <2> QED BY <1>4, <1>5, <2>1
<1>8. CASE Rotate
  <2>1. PICK arg : Change("rotateSecret", arg)
    BY <1>8 DEF Rotate
  <2>2. "rotateSecret" \in OperatorOps /\ screen.name = "operators"
    BY <1>8 DEF Rotate, OnOperators, OperatorOps
  <2> QED BY <1>4, <2>1, <2>2
<1>9. CASE Add
  <2> DEFINE op == IF screen.name = "users" THEN "createUser" ELSE "createOperator"
  <2>1. PICK arg : Change(op, arg)
    BY <1>9 DEF Add
  <2>2. (op \in OperatorOps /\ screen.name = "operators") \/ (op \in UserOps /\ screen.name = "users")
    BY <1>2 DEF OperatorOps, UserOps
  <2> QED BY <1>4, <2>1, <2>2
<1>10. CASE SetPassword
  <2>1. PICK arg : Change("setPassword", arg)
    BY <1>10 DEF SetPassword
  <2>2. "setPassword" \in UserOps /\ screen.name = "users"
    BY <1>10 DEF SetPassword, UserOps
  <2> QED BY <1>4, <2>1, <2>2
<1> QED BY <1>3, <1>6, <1>7, <1>8, <1>9, <1>10 DEF DeskStep

\* A commit: the screen stays with what was pending, or leaves and sends it.
LEMMA CommitKeepsEdits ==
  ASSUME PageInv, DraftsInv, EditsInv, UNCHANGED gameVars, NEW s, DraftsAreKnown(s, stored),
         screen.name = "game" => s.pending = screen.pending,
         NEW others \in SUBSET DOMAIN calls, \A n \in DOMAIN calls : calls[n].reply = NoValue => n \in others,
         Remains(s, others) \/ Leaves(others)
  PROVE  DraftsInv' /\ EditsInv'
<1>1. "saveDraft" \notin OtherOps
  BY DEF OtherOps, PlainOps
<1>2. DraftsAreKnown(screen', stored)
  BY DEF Remains, Leaves, Fresh, DraftsAreKnown, Known
<1>3. \A n \in DOMAIN calls : calls[n].reply = NoValue => CallKept(n)
  BY DEF Remains, Leaves
<1>4. ASSUME NEW n \in DOMAIN calls'
      PROVE  \/ CallKept(n)
             \/ /\ CallNew(n)
                /\ calls'[n].op = "saveDraft" =>
                     screen.name = "game" /\ screen.pending # NoValue /\ calls'[n].arg = screen.pending
  <2>1. CASE Remains(s, others)
    BY <1>1, <2>1 DEF Remains
  <2>2. CASE Leaves(others)
    BY <1>1, <2>2 DEF Leaves
  <2> QED BY <2>1, <2>2
<1>6. issued' \in Nat /\ issued' >= issued
  BY DEF Remains, Leaves
<1>7. screen'.name = "game" =>
        \/ screen'.pending = NoValue
        \/ screen.name = "game" /\ screen'.pending = screen.pending
  BY DEF Remains, Alike, Leaves, Fresh
<1>5. screen.name = "game" /\ screen.pending # NoValue =>
        \/ screen'.name = "game" /\ screen'.pending = screen.pending
        \/ \E n \in DOMAIN calls' : Saving(calls'[n], screen.pending)
  BY DEF Remains, Alike, Leaves, Saving
<1> QED BY <1>2, <1>3, <1>4, <1>5, <1>6, <1>7, DraftsStill

LEMMA AnswerKeepsEdits ==
  ASSUME PageInv, DraftsInv, EditsInv, NEW n \in DOMAIN calls, Answer(n)
  PROVE  DraftsInv' /\ EditsInv'
<1> DEFINE c == calls[n]
           page == AfterAnswer(c)
           others == DOMAIN calls \ {n}
<1>1. Answering(c, page.screen) /\ (Remains(page.screen, others) \/ Leaves(others))
  BY AnswersCommit
<1>2. UNCHANGED gameVars /\ c.reply # NoValue
  BY DEF Answer
<1>3. c.op \in DraftOps /\ Good(c) => Known(c.reply.body.draft, stored)
  BY <1>2 DEF DraftsInv, Answered
<1> HIDE DEF page
<1>4. DraftsAreKnown(page.screen, stored)
  BY <1>1, <1>3 DEF Answering, Alike, DraftsAreKnown, DraftsInv
<1>5. screen.name = "game" => page.screen.pending = screen.pending
  BY <1>1 DEF Answering
<1> QED BY <1>1, <1>2, <1>4, <1>5, CommitKeepsEdits

LEMMA DraftsUnmoved ==
  ASSUME DraftsInv, EditsInv, UNCHANGED <<screen, calls, issued, stored, live, kept>>
  PROVE  DraftsInv' /\ EditsInv'
<1>1. DraftsInv'
  BY DEF DraftsInv, SentInv, IsLive
<1>2. EditsInv'
  BY DEF EditsInv, Carries
<1> QED BY <1>1, <1>2

LEMMA DraftsStart ==
  ASSUME Init, PageInv
  PROVE  DraftsInv /\ EditsInv
<1>1. /\ situation \in Situation /\ kept = [f \in {} |-> NoValue]
      /\ screen = NewScreen(session, route, 1)
      /\ calls = Sent(OnMount(screen), session, 0)
  BY DEF Init
<1>2. PICK first \in The.drafts : stored = first.draft /\ live = first.live
  BY DEF Init
<1>3. /\ stored # NoValue => DOMAIN stored = Fields
      /\ IsLive(live)
  BY <1>1, <1>2, DraftAssumption DEF The, IsLive
<1>4. /\ Fresh(screen)
      /\ \/ OnMount(screen) = <<>>
         \/ \E op \in {"listGames", "getGame", "listOperators", "listUsers", "audit"} :
              OnMount(screen) = <<Request(op, NoValue, 1)>>
  <2>1. route \in Routes
    BY DEF PageInv
  <2> QED BY <1>1, <2>1, NewScreens
<1>5. ASSUME NEW n \in DOMAIN calls PROVE calls[n].op # "saveDraft" /\ calls[n].read = NoValue /\ ~Answered(calls[n])
  <2>1. OnMount(screen) # <<>>
    BY <1>1 DEF Sent
  <2>2. PICK op \in {"listGames", "getGame", "listOperators", "listUsers", "audit"} :
          OnMount(screen) = <<Request(op, NoValue, 1)>>
    BY <1>4, <2>1
  <2>3. calls[n].op = op /\ calls[n].read = NoValue /\ calls[n].reply = NoValue
    BY <1>1, <2>2 DEF Sent, Request
  <2> QED BY <2>3 DEF Answered
<1>6. DOMAIN kept = {}
  BY <1>1
<1>7. DraftsInv
  BY <1>3, <1>4, <1>5, <1>6 DEF DraftsInv, SentInv, Fresh, Known
<1>8. EditsInv
  BY <1>6 DEF EditsInv
<1> QED BY <1>7, <1>8

LEMMA DraftsNext ==
  ASSUME NoFunction(NoValue), NoFunction(Absent), PageInv, DraftsInv, EditsInv, [Next]_vars
  PROVE  DraftsInv' /\ EditsInv'
<1>1. ASSUME PlainSteps, UNCHANGED gameVars PROVE DraftsInv' /\ EditsInv'
  <2>1. Asks(PlainOps) /\ Steady(screen')
    BY <1>1, PlainStepsArePlain
  <2>2. "saveDraft" \notin PlainOps
    BY DEF PlainOps
  <2>3. screen.name = "game" =>
          screen'.draft = screen.draft /\ screen'.pending = screen.pending /\ screen'.timer = screen.timer
    BY <2>1 DEF Steady
  <2> QED BY <1>1, <2>1, <2>2, <2>3, UnsavedKeepsEdits
<1>2. CASE (Submit \/ SignOut \/ ReportsStep) /\ UNCHANGED gameVars
  BY <1>1, <1>2 DEF PlainSteps, OtherSteps
<1>3. CASE Navigate /\ UNCHANGED gameVars
  <2>1. Remains(screen, DOMAIN calls) \/ Leaves(DOMAIN calls)
    BY <1>3, Navigates
  <2>2. DraftsAreKnown(screen, stored)
    BY DEF DraftsAreKnown, DraftsInv
  <2> QED BY <1>3, <2>1, <2>2, CommitKeepsEdits
<1>4. CASE (Revoke \/ Insert) /\ UNCHANGED gameVars
  BY <1>4, DraftsUnmoved DEF Revoke, Insert, gameVars
<1>5. CASE BuilderStep
  <2>1. CASE Upload \/ Simulate \/ OpenHistory \/ Create \/ \E force \in BOOLEAN : Publish(force)
    <3>1. UNCHANGED gameVars
      BY <2>1 DEF Upload, Simulate, OpenHistory, Create, Publish
    <3> QED BY <1>1, <2>1, <3>1 DEF PlainSteps, OtherSteps
  <2> QED BY <1>5, <2>1, EditKeepsEdits, AutosaveKeepsEdits DEF BuilderStep
<1>6. CASE DeskStep /\ UNCHANGED gameVars
  BY <1>6, DeskStepKeepsEdits
<1>7. ASSUME NEW n \in DOMAIN calls,
             \/ ServeGame(n)
             \/ (ServeReports(n) \/ ServeDesk(n) \/ ServeLogin(n) \/ ServeLogout(n)) /\ UNCHANGED gameVars
             \/ ComeToNothing(n)
      PROVE  DraftsInv' /\ EditsInv'
  BY <1>7, DraftsServed
<1>8. ASSUME NEW n \in DOMAIN calls, Answer(n) PROVE DraftsInv' /\ EditsInv'
  BY <1>8, AnswerKeepsEdits
<1>9. CASE UNCHANGED vars
  BY <1>9, DraftsUnmoved DEF vars, pageVars, gameVars
<1>10. ASSUME NEW n \in DOMAIN calls, ReadDraft(n) PROVE DraftsInv' /\ EditsInv'
  BY <1>10, Reads, ReadKeepsEdits
<1> QED BY <1>2, <1>3, <1>4, <1>5, <1>6, <1>7, <1>8, <1>9, <1>10 DEF Next

\* Every edit that nothing has put at risk is stored, or pending on the screen
\* it was made on, or in a save under way (GameBuilderScreen.tsx's edit, flush
\* and autosave).  What puts an edit at risk is listed at EditsAreKept.  A marker for what is not there is not itself a function:
\* a draft is never taken for a missing one.
THEOREM EditsHold ==
  ASSUME NoFunction(NoValue), NoFunction(Absent)
  PROVE  Spec => [](DraftsInv /\ EditsInv)
<1>1. Init => PageInv /\ DraftsInv /\ EditsInv
  BY PageStarts, DraftsStart
<1>2. PageInv /\ DraftsInv /\ EditsInv /\ [Next]_vars => (PageInv /\ DraftsInv /\ EditsInv)'
  BY PageSteps, DraftsNext
<1> QED BY <1>1, <1>2, PTL DEF Spec

\* So once nothing is pending or under way, every such edit is in the stored
\* draft (GameBuilderScreen.tsx:119), whatever was opened, left, published or
\* refused in between.  A handler reads the draft and writes it back whole
\* later (games.ts:285 and 358, 379 and 417): an edit that one of them had read,
\* or that was sent after it, stays; one that was stored between the two may go.
THEOREM EditsKept ==
  ASSUME NoFunction(NoValue), NoFunction(Absent)
  PROVE  Spec => []EditsAreKept
<1>1. EditsInv => EditsAreKept
  BY DEF EditsInv, EditsAreKept, Quiet
<1>2. Spec => [](DraftsInv /\ EditsInv)
  BY EditsHold
<1> QED BY <1>1, <1>2, PTL

-----------------------------------------------------------------------------
(* Pages of the ledger                                                     *)

\* The ledger: ids tell its rows apart, and nth counts their inserts.
LedgerOK(rows) ==
  /\ IsFiniteSet(rows)
  /\ \A t \in rows :
       /\ t.at \in Int /\ t.id \in Int /\ t.nth \in 1 .. Cardinality(rows)
       /\ \A u \in rows : t.id = u.id => t = u

Newer(rows, t) == {u \in rows : Before(t, u)}
Rank(rows, t) == Cardinality(Newer(rows, t))

Sorted(page) == \A i \in 1 .. Len(page) - 1 : Before(page[i + 1], page[i])

\* Of two rows one is before the other, and its newer rows are the more.
LEMMA RanksDiffer ==
  ASSUME NEW T, LedgerOK(T), NEW rows \in SUBSET T, NEW t \in rows, NEW u \in rows
  PROVE  /\ Rank(rows, t) \in 0 .. Cardinality(rows) - 1
         /\ Before(t, u) <=> Rank(rows, t) > Rank(rows, u)
         /\ Rank(rows, t) = Rank(rows, u) => t = u
<1>1. IsFiniteSet(rows) /\ Cardinality(rows) \in Nat
  BY FS_Subset, FS_CardinalityType DEF LedgerOK
<1>2. /\ \A r \in rows : r.at \in Int /\ r.id \in Int
      /\ \A r, s \in rows : r.id = s.id => r = s
  BY DEF LedgerOK
<1>3. ASSUME NEW r \in rows
      PROVE  /\ IsFiniteSet(Newer(rows, r)) /\ Rank(rows, r) \in Nat
             /\ Rank(rows, r) < Cardinality(rows)
  <2>1. Newer(rows, r) \in SUBSET rows /\ r \notin Newer(rows, r)
    BY <1>2 DEF Newer, Before
  <2>2. /\ IsFiniteSet(Newer(rows, r)) /\ Cardinality(Newer(rows, r)) <= Cardinality(rows)
        /\ Cardinality(rows) = Cardinality(Newer(rows, r)) => rows = Newer(rows, r)
    BY <1>1, <2>1, FS_Subset
  <2>3. Cardinality(Newer(rows, r)) \in Nat
    BY <2>2, FS_CardinalityType
  <2> QED BY <1>1, <2>1, <2>2, <2>3 DEF Rank
<1>4. ASSUME NEW r \in rows, NEW s \in rows, Before(r, s)
      PROVE  Rank(rows, r) > Rank(rows, s)
  <2>1. Newer(rows, s) \in SUBSET Newer(rows, r)
    BY <1>2, <1>4 DEF Newer, Before
  <2>2. s \in Newer(rows, r) /\ s \notin Newer(rows, s)
    BY <1>2, <1>4 DEF Newer, Before
  <2>3. /\ Cardinality(Newer(rows, s)) <= Cardinality(Newer(rows, r))
        /\ Cardinality(Newer(rows, r)) = Cardinality(Newer(rows, s)) => Newer(rows, r) = Newer(rows, s)
    BY <1>3, <2>1, FS_Subset
  <2> QED BY <1>3, <2>2, <2>3 DEF Rank
<1>5. t = u \/ Before(t, u) \/ Before(u, t)
  BY <1>2 DEF Before
<1>6. ~Before(t, t)
  BY <1>2 DEF Before
<1> QED BY <1>1, <1>3, <1>4, <1>5, <1>6

\* Every rank has its row.
LEMMA RanksFilled ==
  ASSUME NEW T, LedgerOK(T), NEW rows \in SUBSET T, NEW k \in 0 .. Cardinality(rows) - 1
  PROVE  \E t \in rows : Rank(rows, t) = k
<1> DEFINE n == Cardinality(rows)
           ranks == [t \in rows |-> Rank(rows, t)]
<1>1. IsFiniteSet(rows) /\ n \in Nat
  BY FS_Subset, FS_CardinalityType DEF LedgerOK
<1>2. IsFiniteSet(0 .. n - 1) /\ Cardinality(0 .. n - 1) = n
  BY <1>1, FS_Interval
<1>3. ranks \in Injection(rows, 0 .. n - 1)
  <2>1. ranks \in [rows -> 0 .. n - 1]
    BY RanksDiffer
  <2>2. \A t, u \in rows : ranks[t] = ranks[u] => t = u
    BY RanksDiffer
  <2> QED BY <2>1, <2>2 DEF Injection, IsInjective
<1>4. ranks \in Surjection(rows, 0 .. n - 1)
  BY <1>1, <1>2, <1>3, FS_Injection
<1>5. \E t \in rows : ranks[t] = k
  BY <1>4 DEF Surjection
<1> QED BY <1>5

\* The newest rows are in order, and those left out are older than the last.
LEMMA NewestRows ==
  ASSUME NEW T, LedgerOK(T), NEW rows \in SUBSET T, NEW limit \in Nat, NEW page, page = Newest(rows, limit)
  PROVE  /\ page \in Seq(rows) /\ Sorted(page)
         /\ Cardinality(rows) \in Nat
         /\ Cardinality(rows) <= limit => ToSet(page) = rows
         /\ Cardinality(rows) > limit /\ limit > 0 =>
              page # <<>> /\ \A t \in rows : t \in ToSet(page) \/ Before(t, page[Len(page)])
<1> DEFINE n == Cardinality(rows)
           m == IF limit <= n THEN limit ELSE n
<1>1. n \in Nat
  BY FS_Subset, FS_CardinalityType DEF LedgerOK
<1>2. Min({limit, n}) = m
  BY <1>1 DEF Min
<1>3. page = [i \in 1 .. m |-> CHOOSE t \in rows : Rank(rows, t) = i - 1]
  BY <1>2 DEF Newest, Rank, Newer
<1>4. ASSUME NEW i \in 1 .. m
      PROVE  page[i] \in rows /\ Rank(rows, page[i]) = i - 1
  <2>1. i - 1 \in 0 .. n - 1
    BY <1>1
  <2>2. \E t \in rows : Rank(rows, t) = i - 1
    BY <2>1, RanksFilled
  <2> QED BY <1>3, <2>2
<1>5. page \in Seq(rows) /\ Len(page) = m /\ DOMAIN page = 1 .. m
  <2>1. m \in Nat
    BY <1>1
  <2>2. DOMAIN page = 1 .. m /\ page \in [1 .. m -> rows]
    BY <1>3, <1>4
  <2> HIDE DEF m
  <2> QED BY <2>1, <2>2
<1>6. Sorted(page)
  <2>1. ASSUME NEW i \in 1 .. Len(page) - 1
        PROVE  Before(page[i + 1], page[i])
    <3>1. i \in 1 .. m /\ i + 1 \in 1 .. m
      BY <1>1, <1>5
    <3>2. Rank(rows, page[i]) = i - 1 /\ Rank(rows, page[i + 1]) = i
      BY <1>4, <3>1
    <3> QED BY <1>4, <3>1, <3>2, RanksDiffer
  <2> QED BY <2>1 DEF Sorted
<1>7. ASSUME NEW t \in rows, Rank(rows, t) < m
      PROVE  t \in ToSet(page)
  <2> DEFINE i == Rank(rows, t) + 1
  <2>1. Rank(rows, t) \in Nat
    BY RanksDiffer
  <2>2. i \in 1 .. m
    BY <1>1, <1>7, <2>1
  <2>3. page[i] \in rows /\ Rank(rows, page[i]) = Rank(rows, t)
    BY <1>4, <2>1, <2>2
  <2>4. page[i] = t
    BY <2>3, RanksDiffer
  <2> QED BY <1>5, <2>2, <2>4 DEF ToSet
<1>8. ASSUME n <= limit
      PROVE  ToSet(page) = rows
  <2>1. \A t \in rows : Rank(rows, t) < m
    BY <1>1, <1>8, RanksDiffer
  <2>2. ToSet(page) \subseteq rows
    BY <1>4, <1>5 DEF ToSet
  <2> QED BY <1>7, <2>1, <2>2
<1>9. ASSUME n > limit, limit > 0
      PROVE  page # <<>> /\ \A t \in rows : t \in ToSet(page) \/ Before(t, page[Len(page)])
  <2>1. m = limit /\ m \in 1 .. m
    BY <1>1, <1>9
  <2>2. page[m] \in rows /\ Rank(rows, page[m]) = m - 1
    BY <1>4, <2>1
  <2>3. ASSUME NEW t \in rows, t \notin ToSet(page)
        PROVE  Before(t, page[m])
    <3>1. Rank(rows, t) >= m
      BY <1>1, <1>7, <2>3, RanksDiffer
    <3>2. Rank(rows, t) > Rank(rows, page[m])
      BY <2>1, <2>2, <3>1, RanksDiffer
    <3> QED BY <2>2, <3>2, RanksDiffer
  <2> QED BY <1>5, <1>9, <2>1, <2>3
<1> QED BY <1>1, <1>5, <1>6, <1>8, <1>9

-----------------------------------------------------------------------------
(* What a reply says of the ledger                                         *)

QueryOK(q) == q.from.at \in Int /\ q.to.at \in Int

\* The key of the page's last row, if there is more to come.
EndsAt(page, next) ==
  next # NoValue => /\ page # <<>>
                    /\ next.at = page[Len(page)].at /\ next.id = page[Len(page)].id

\* A page of the rows below a cursor, in the ledger's order, which lacks none
\* of the rows that were there but those after its last one.
IsPage(page, next, of, q, cursor, T) ==
  /\ of \in 0 .. Cardinality(T)
  /\ page \in Seq(Selected(T, q, cursor)) /\ Sorted(page)
  /\ EndsAt(page, next)
  /\ \A t \in Selected(T, q, cursor) :
       t.nth <= of => t \in ToSet(page) \/ (next # NoValue /\ Before(t, next))

AreTotals(totals, q, T) ==
  /\ totals.of \in 0 .. Cardinality(T)
  /\ totals.staked = Amounts(Matching(T, q, totals.of), "debit")
  /\ totals.paidOut = Amounts(Matching(T, q, totals.of), "credit")

IsFile(file, q, T) ==
  /\ file.of \in 0 .. Cardinality(T)
  /\ ~file.truncated => file.rows = Matching(T, q, file.of)

\* The ledger grows: rows that are there stay, and new ones are the later.
Grows(T, U) ==
  /\ T \subseteq U /\ Cardinality(T) \in Nat /\ Cardinality(U) \in Nat
  /\ Cardinality(T) <= Cardinality(U)
  /\ \A t \in U \ T : t.nth \in Nat /\ t.nth > Cardinality(T)

LEMMA SelectedGrows ==
  ASSUME NEW T, NEW U, T \subseteq U, NEW q, NEW cursor
  PROVE  Selected(T, q, cursor) = Selected(U, q, cursor) \cap T
BY DEF Selected

LEMMA MatchingGrows ==
  ASSUME NEW T, NEW U, Grows(T, U), NEW q, NEW known \in 0 .. Cardinality(T)
  PROVE  Matching(U, q, known) = Matching(T, q, known)
<1>1. Cardinality(T) \in Nat /\ known \in Int /\ known <= Cardinality(T)
  BY DEF Grows
<1>2. ASSUME NEW t \in U, t.nth <= known PROVE t \in T
  BY <1>1, <1>2 DEF Grows
<1> QED BY <1>2 DEF Matching, Grows

LEMMA PagesLast ==
  ASSUME NEW T, NEW U, Grows(T, U), NEW page, NEW next, NEW of, NEW q, NEW cursor, IsPage(page, next, of, q, cursor, T)
  PROVE  IsPage(page, next, of, q, cursor, U)
<1>1. of \in 0 .. Cardinality(U)
  BY DEF IsPage, Grows
<1>2. page \in Seq(Selected(U, q, cursor))
  <2>1. Selected(T, q, cursor) \subseteq Selected(U, q, cursor)
    BY SelectedGrows DEF Grows
  <2> QED BY <2>1 DEF IsPage
<1>3. ASSUME NEW t \in Selected(U, q, cursor), t.nth <= of
      PROVE  t \in Selected(T, q, cursor)
  <2>1. t \in U
    BY DEF Selected
  <2>2. Cardinality(T) \in Nat /\ of <= Cardinality(T) /\ of \in Int
    BY DEF IsPage, Grows
  <2>3. t \in T
    BY <1>3, <2>1, <2>2 DEF Grows
  <2> QED BY <2>3, SelectedGrows DEF Grows
<1> QED BY <1>1, <1>2, <1>3 DEF IsPage

LEMMA TotalsLast ==
  ASSUME NEW T, NEW U, Grows(T, U), NEW totals, NEW q, AreTotals(totals, q, T)
  PROVE  AreTotals(totals, q, U)
BY MatchingGrows DEF AreTotals, Grows

LEMMA FilesLast ==
  ASSUME NEW T, NEW U, Grows(T, U), NEW file, NEW q, IsFile(file, q, T)
  PROVE  IsFile(file, q, U)
BY MatchingGrows DEF IsFile, Grows

\* Below the key of a row of the query are the rows of the query before it.
LEMMA BelowACursor ==
  ASSUME NEW T, LedgerOK(T), NEW q, QueryOK(q), NEW last \in Selected(T, q, NoValue),
         NEW next, next # NoValue, next.at = last.at, next.id = last.id
  PROVE  Selected(T, q, next) = {t \in Selected(T, q, NoValue) : Before(t, next)}
<1>1. last \in T /\ Within(last, q) /\ \A t \in T : t.at \in Int /\ t.id \in Int
  BY DEF Selected, LedgerOK
<1>2. From(q) \in Int /\ To(q) \in Int
  <2>1. DayLength \in Int /\ q.from.at \in Int /\ q.to.at \in Int
    BY ReportsAssumption DEF QueryOK
  <2>2. q.from.at * DayLength \in Int /\ q.to.at * DayLength \in Int
    BY <2>1
  <2> QED BY <2>1, <2>2 DEF From, To
<1>3. ~(q.to.kind # "blank" /\ To(q) < next.at)
  BY <1>1, <1>2 DEF Within
<1>4. ASSUME NEW t \in T
      PROVE  (t.at < next.at /\ (q.from.kind # "blank" => t.at >= From(q))) \/ (t.at = next.at /\ t.id < next.id)
             <=> Within(t, q) /\ Before(t, next)
  BY <1>1, <1>2, <1>3 DEF Within, Before
<1> QED BY <1>3, <1>4 DEF Selected

LEMMA SelectedMatches ==
  ASSUME NEW T, NEW q, NEW known
  PROVE  Matching(T, q, known) = {t \in Selected(T, q, NoValue) : t.nth <= known}
BY DEF Matching, Selected

\* The next page continues the one before.
LEMMA PagesJoin ==
  ASSUME NEW T, LedgerOK(T), NEW q, QueryOK(q),
         NEW page, NEW next, next # NoValue, NEW of, IsPage(page, next, of, q, NoValue, T),
         NEW more, NEW then, NEW by, by >= of, IsPage(more, then, by, q, next, T)
  PROVE  IsPage(page \o more, then, of, q, NoValue, T)
<1> DEFINE S == Selected(T, q, NoValue)
           B == Selected(T, q, next)
           all == page \o more
           last == page[Len(page)]
<1>1. page \in Seq(S) /\ more \in Seq(B) /\ page # <<>> /\ next.at = last.at /\ next.id = last.id
  BY DEF IsPage, EndsAt
<1> HIDE DEF S, B
<1>2. Len(page) \in Nat \ {0} /\ last \in S
  BY <1>1
<1>3. B = {t \in S : Before(t, next)}
  BY <1>1, <1>2, BelowACursor DEF S, B
<1>4. all \in Seq(S)
  <2>1. more \in Seq(S)
    BY <1>1, <1>3
  <2> QED BY <1>1, <2>1
<1>5. Sorted(all)
  <2>1. ASSUME NEW i \in 1 .. Len(all) - 1
        PROVE  Before(all[i + 1], all[i])
    <3>1. Len(more) \in Nat /\ Len(all) = Len(page) + Len(more)
      BY <1>1
    <3>2. CASE i < Len(page)
      <4>1. i \in 1 .. Len(page) - 1 /\ all[i] = page[i] /\ all[i + 1] = page[i + 1]
        BY <1>1, <1>2, <3>1, <3>2
      <4> QED BY <4>1 DEF IsPage, Sorted
    <3>3. CASE i = Len(page)
      <4>1. all[i] = last /\ all[i + 1] = more[1] /\ more[1] \in B
        BY <1>1, <1>2, <3>1, <3>3
      <4> QED BY <1>1, <1>3, <4>1 DEF Before
    <3>4. CASE i > Len(page)
      <4> DEFINE j == i - Len(page)
      <4>1. j \in 1 .. Len(more) - 1 /\ all[i] = more[j] /\ all[i + 1] = more[j + 1]
        BY <1>1, <1>2, <3>1, <3>4
      <4> QED BY <4>1 DEF IsPage, Sorted
    <3> QED BY <1>2, <3>2, <3>3, <3>4
  <2> QED BY <2>1 DEF Sorted
<1>6. EndsAt(all, then)
  <2>1. ASSUME then # NoValue
        PROVE  all # <<>> /\ then.at = all[Len(all)].at /\ then.id = all[Len(all)].id
    <3>1. more # <<>> /\ then.at = more[Len(more)].at /\ then.id = more[Len(more)].id
      BY <2>1 DEF IsPage, EndsAt
    <3>2. all # <<>> /\ all[Len(all)] = more[Len(more)]
      BY <1>1, <3>1
    <3> QED BY <3>1, <3>2
  <2> QED BY <2>1 DEF EndsAt
<1>7. ToSet(all) = ToSet(page) \cup ToSet(more)
  <2>1. \A i \in 1 .. Len(page) : i \in DOMAIN all /\ all[i] = page[i]
    BY <1>1
  <2>2. \A i \in 1 .. Len(more) : Len(page) + i \in DOMAIN all /\ all[Len(page) + i] = more[i]
    BY <1>1
  <2>3. \A i \in DOMAIN all : \/ i \in 1 .. Len(page) /\ all[i] = page[i]
                              \/ i - Len(page) \in 1 .. Len(more) /\ all[i] = more[i - Len(page)]
    BY <1>1
  <2>4. DOMAIN page = 1 .. Len(page) /\ DOMAIN more = 1 .. Len(more)
    BY <1>1
  <2> HIDE DEF all
  <2> QED BY <2>1, <2>2, <2>3, <2>4 DEF ToSet
<1> HIDE DEF all
<1>8. ASSUME NEW t \in S, t.nth <= of, t \notin ToSet(all)
      PROVE  then # NoValue /\ Before(t, then)
  <2>1. Before(t, next)
    BY <1>7, <1>8 DEF IsPage, S
  <2>2. t \in B
    BY <1>3, <2>1
  <2>3. t.nth <= by
    <3>1. t.nth \in Int /\ of \in Int /\ by \in Int
      BY DEF S, Selected, LedgerOK, IsPage
    <3> QED BY <1>8, <3>1
  <2> QED BY <1>7, <1>8, <2>2, <2>3 DEF IsPage, B
<1>9. of \in 0 .. Cardinality(T)
  BY DEF IsPage
<1>10. IsPage(all, then, of, q, NoValue, T)
  BY <1>4, <1>5, <1>6, <1>8, <1>9 DEF IsPage, S
<1> QED BY <1>10 DEF all

-----------------------------------------------------------------------------
(* The reports                                                             *)

\* A call of the reports screen, and what its answer says of the ledger.
ReportCallOK(c, T) ==
  /\ c.op \in ReportOps => QueryOK(c.arg.query) /\ c.arg.run \in Nat
  /\ c.op = "transactions" /\ Answered(c) =>
       /\ DOMAIN c.reply.body = {"rows", "next", "of"}
       /\ IsPage(c.reply.body.rows, c.reply.body.next, c.reply.body.of, c.arg.query, c.arg.cursor, T)
  /\ c.op \in {"summary", "csv"} => c.arg.cursor = NoValue
  /\ c.op = "summary" /\ Answered(c) => AreTotals(c.reply.body, c.arg.query, T)
  /\ c.op = "csv" /\ Answered(c) => IsFile(c.reply.body, c.arg.query, T)

ReportFields ==
  {"name", "mount", "query", "running", "run", "first", "totals", "page", "summary", "rows", "of", "whole", "file"}

\* What is on show: the report that was run, as far as it was paged, and the
\* last export.
ReportOK(s, T) ==
  /\ DOMAIN s = ReportFields
  /\ QueryOK(s.query) /\ QueryOK(s.of.query)
  /\ s.run \in Nat /\ s.of.run \in Nat /\ s.of.run <= s.run
  /\ s.running \in BOOLEAN /\ (s.running => s.of.run < s.run)
  /\ s.page # NoValue => s.page.of \in 0 .. Cardinality(T)
  /\ s.page # NoValue /\ s.whole =>
       /\ IsPage(s.rows, s.page.next, s.page.of, s.of.query, NoValue, T)
       /\ AreTotals(s.summary, s.of.query, T)
  /\ s.file # NoValue => IsFile(s.file, s.file.query, T)

\* The calls of a run: its rows and its totals.
OfRun(c) == c.op \in {"transactions", "summary"} /\ c.arg.cursor = NoValue

\* A call for more rows was sent from the report on show or from one before,
\* and is served later than what it continues; no run is from the future.
CallFits(c, s) ==
  /\ c.op = "transactions" /\ c.arg.cursor # NoValue =>
       /\ c.arg.run <= s.of.run
       /\ c.arg.run = s.of.run /\ s.page # NoValue /\ Answered(c) => s.page.of <= c.reply.body.of
  /\ OfRun(c) => c.arg.run <= s.run

\* What a run has so far is of the query it was started with.
RunHolds(s, q, T) ==
  /\ QueryOK(q)
  /\ s.first # NoValue => IsPage(s.first.rows, s.first.next, s.first.of, q, NoValue, T)
  /\ s.totals # NoValue => AreTotals(s.totals, q, T)

\* The calls of the run that is on are of one query.
OneQuery(s, cs, q) ==
  \A n \in DOMAIN cs : cs[n].mount = s.mount /\ OfRun(cs[n]) /\ cs[n].arg.run = s.run => cs[n].arg.query = q

\* A reports screen and the calls under way.
Reported(s, cs, T) ==
  /\ ReportOK(s, T)
  /\ \A n \in DOMAIN cs : cs[n].mount = s.mount => CallFits(cs[n], s)
  /\ s.running => \E q : RunHolds(s, q, T) /\ OneQuery(s, cs, q)

ReportsInv ==
  /\ LedgerOK(transactions)
  /\ \A n \in DOMAIN calls : ReportCallOK(calls[n], transactions)
  /\ screen.name = "reports" => Reported(screen, calls, transactions)

LEMMA ReportsAreWholeThen ==
  ASSUME ReportsInv
  PROVE  ReportsAreWhole
<1> DEFINE q == screen.of.query
           S == Selected(transactions, q, NoValue)
           shown == ToSet(screen.rows)
           due == Matching(transactions, q, screen.page.of)
<1> SUFFICES ASSUME screen.name = "reports"
             PROVE  /\ screen.page # NoValue /\ screen.whole =>
                         /\ \A i \in 1 .. Len(screen.rows) - 1 : Before(screen.rows[i + 1], screen.rows[i])
                         /\ shown \subseteq Matching(transactions, q, Cardinality(transactions))
                         /\ \A t \in due \ shown : screen.page.next # NoValue /\ Before(t, screen.page.next)
                         /\ screen.page.next = NoValue /\ screen.page.of = screen.summary.of /\ shown \subseteq due =>
                              /\ screen.summary.staked = Amounts(shown, "debit")
                              /\ screen.summary.paidOut = Amounts(shown, "credit")
                    /\ screen.file # NoValue /\ ~screen.file.truncated =>
                         screen.file.rows = Matching(transactions, screen.file.query, screen.file.of)
  BY DEF ReportsAreWhole
<1>1. ReportOK(screen, transactions) /\ LedgerOK(transactions)
  BY DEF ReportsInv, Reported
<1>2. ASSUME screen.file # NoValue, ~screen.file.truncated
      PROVE  screen.file.rows = Matching(transactions, screen.file.query, screen.file.of)
  BY <1>1, <1>2 DEF ReportOK, IsFile
<1>3. ASSUME screen.page # NoValue, screen.whole
      PROVE  /\ \A i \in 1 .. Len(screen.rows) - 1 : Before(screen.rows[i + 1], screen.rows[i])
             /\ shown \subseteq Matching(transactions, q, Cardinality(transactions))
             /\ \A t \in due \ shown : screen.page.next # NoValue /\ Before(t, screen.page.next)
             /\ screen.page.next = NoValue /\ screen.page.of = screen.summary.of /\ shown \subseteq due =>
                  /\ screen.summary.staked = Amounts(shown, "debit")
                  /\ screen.summary.paidOut = Amounts(shown, "credit")
  <2>1. /\ IsPage(screen.rows, screen.page.next, screen.page.of, q, NoValue, transactions)
        /\ AreTotals(screen.summary, q, transactions)
    BY <1>1, <1>3 DEF ReportOK
  <2>2. screen.rows \in Seq(S) /\ Sorted(screen.rows)
    BY <2>1 DEF IsPage
  <2>3. shown \subseteq S
    BY <2>2 DEF ToSet
  <2>4. S \subseteq Matching(transactions, q, Cardinality(transactions))
    BY <1>1, SelectedMatches DEF LedgerOK, Selected
  <2>5. \A t \in due \ shown : screen.page.next # NoValue /\ Before(t, screen.page.next)
    BY <2>1, SelectedMatches DEF IsPage
  <2>6. ASSUME screen.page.next = NoValue, screen.page.of = screen.summary.of, shown \subseteq due
        PROVE  /\ screen.summary.staked = Amounts(shown, "debit")
               /\ screen.summary.paidOut = Amounts(shown, "credit")
    <3>1. shown = due
      BY <2>5, <2>6
    <3> QED BY <2>1, <2>6, <3>1 DEF AreTotals
  <2>7. \A i \in 1 .. Len(screen.rows) - 1 : Before(screen.rows[i + 1], screen.rows[i])
    BY <2>2 DEF Sorted
  <2>8. shown \subseteq Matching(transactions, q, Cardinality(transactions))
    BY <2>3, <2>4
  <2> QED BY <2>5, <2>6, <2>7, <2>8
<1> HIDE DEF q, S, shown, due
<1> QED BY <1>2, <1>3

-----------------------------------------------------------------------------
(* The reports and the ledger                                              *)

\* Calls that are still under way, others that are not of a report, or of
\* another screen.
LEMMA ReportedAside ==
  ASSUME NEW s, NEW cs, NEW ds, NEW T, Reported(s, cs, T),
         \A n \in DOMAIN ds :
           \/ n \in DOMAIN cs /\ ds[n] = cs[n]
           \/ ds[n].op \notin ReportOps
           \/ ds[n].mount # s.mount
  PROVE  Reported(s, ds, T)
<1>1. ASSUME NEW n \in DOMAIN ds, ds[n].mount = s.mount PROVE CallFits(ds[n], s)
  <2>1. CASE n \in DOMAIN cs /\ ds[n] = cs[n]
    BY <1>1, <2>1 DEF Reported
  <2>2. CASE ds[n].op \notin ReportOps
    BY <2>2 DEF CallFits, OfRun, ReportOps
  <2> QED BY <1>1, <2>1, <2>2
<1>2. ASSUME NEW q, OneQuery(s, cs, q) PROVE OneQuery(s, ds, q)
  BY <1>2 DEF OneQuery, OfRun, ReportOps
<1> QED BY <1>1, <1>2 DEF Reported

\* A screen without a report.
LEMMA NothingReported ==
  ASSUME NEW s, NEW cs, NEW T, s = ReportsScreen(s.mount),
         \A n \in DOMAIN cs : cs[n].op \notin ReportOps \/ cs[n].mount # s.mount
  PROVE  Reported(s, cs, T)
<1>1. s = [name |-> "reports", mount |-> s.mount, query |-> NoQuery, running |-> FALSE, run |-> 0, first |-> NoValue,
           totals |-> NoValue, page |-> NoValue, summary |-> NoValue, rows |-> <<>>, of |-> Asked(NoQuery, NoValue, 0),
           whole |-> TRUE, file |-> NoValue]
  BY DEF ReportsScreen
<1>2. QueryOK(NoQuery)
  BY DEF QueryOK, NoQuery, Blank
<1>5. s.query = NoQuery /\ s.of = Asked(NoQuery, NoValue, 0) /\ s.page = NoValue /\ s.file = NoValue
  BY <1>1
<1>6. s.running = FALSE /\ s.run = 0
  BY <1>1
<1>7. s.of.query = NoQuery /\ s.of.run = 0
  BY <1>5 DEF Asked
<1>8. DOMAIN s = ReportFields
  BY <1>1 DEF ReportFields
<1>9. s.of.run <= s.run /\ s.run \in Nat
  BY <1>6, <1>7
<1> HIDE DEF ReportsScreen
<1>3. ReportOK(s, T)
  <2>1. QueryOK(s.query) /\ QueryOK(s.of.query) /\ s.of.run \in Nat
    BY <1>2, <1>5, <1>7
  <2>3. s.running \in BOOLEAN
    BY <1>6
  <2>2. ~s.running /\ ~(s.page # NoValue) /\ ~(s.file # NoValue)
    BY <1>5, <1>6
  <2> QED BY <1>8, <1>9, <2>1, <2>2, <2>3 DEF ReportOK
<1>4. \A n \in DOMAIN cs : cs[n].mount = s.mount => CallFits(cs[n], s)
  BY DEF CallFits, OfRun, ReportOps
<1> QED BY <1>3, <1>4, <1>6 DEF Reported

\* A call is answered.
LEMMA ReportedReplied ==
  ASSUME NEW s, NEW cs, NEW ds, NEW T, LedgerOK(T), Reported(s, cs, T), DOMAIN ds = DOMAIN cs,
         \A n \in DOMAIN cs :
           \/ ds[n] = cs[n]
           \/ /\ ds[n].op = cs[n].op /\ ds[n].arg = cs[n].arg /\ ds[n].mount = cs[n].mount
              /\ ds[n].op = "transactions" /\ Answered(ds[n]) => ds[n].reply.body.of = Cardinality(T)
  PROVE  Reported(s, ds, T)
<1>1. Cardinality(T) \in Nat
  BY FS_CardinalityType DEF LedgerOK
<1>2. s.page # NoValue => s.page.of <= Cardinality(T)
  BY <1>1 DEF Reported, ReportOK
<1>3. ASSUME NEW n \in DOMAIN ds, ds[n].mount = s.mount PROVE CallFits(ds[n], s)
  BY <1>2, <1>3 DEF Reported, CallFits, OfRun
<1>4. ASSUME NEW q, OneQuery(s, cs, q) PROVE OneQuery(s, ds, q)
  BY <1>4 DEF OneQuery, OfRun
<1> QED BY <1>3, <1>4 DEF Reported

\* The ledger grows.
LEMMA ReportedGrows ==
  ASSUME NEW s, NEW cs, NEW T, NEW U, Grows(T, U), Reported(s, cs, T)
  PROVE  Reported(s, cs, U)
<1>1. ReportOK(s, U)
  BY PagesLast, TotalsLast, FilesLast DEF Reported, ReportOK, Grows
<1>2. ASSUME NEW q, RunHolds(s, q, T) PROVE RunHolds(s, q, U)
  BY <1>2, PagesLast, TotalsLast DEF RunHolds
<1> QED BY <1>1, <1>2 DEF Reported

LEMMA CallsGrow ==
  ASSUME NEW T, NEW U, Grows(T, U), NEW c, ReportCallOK(c, T)
  PROVE  ReportCallOK(c, U)
BY PagesLast, TotalsLast, FilesLast DEF ReportCallOK

LEMMA InsertKeepsReports ==
  ASSUME PageInv, ReportsInv, Insert
  PROVE  ReportsInv'
<1> DEFINE T == transactions
           n == Cardinality(T)
<1>1. PICK t \in The.inserts :
        /\ \A u \in T : u.id # t.id
        /\ transactions' = T \cup
             {[at |-> t.at, id |-> t.id, operator |-> t.operator, player |-> t.player, type |-> t.type,
               amount |-> t.amount, nth |-> n + 1]}
  BY DEF Insert
<1> DEFINE row == [at |-> t.at, id |-> t.id, operator |-> t.operator, player |-> t.player, type |-> t.type,
                   amount |-> t.amount, nth |-> n + 1]
           U == T \cup {row}
<1>2. t.at \in Int /\ t.id \in Int
  BY ReportsAssumption DEF PageInv, The
<1>3. LedgerOK(T) /\ n \in Nat
  BY FS_CardinalityType DEF ReportsInv, LedgerOK
<1>4. row \notin T /\ row.at \in Int /\ row.id \in Int /\ row.nth = n + 1 /\ \A u \in T : u.id # row.id
  BY <1>1, <1>2
<1> HIDE DEF row
<1>5. IsFiniteSet(U) /\ Cardinality(U) = n + 1
  BY <1>3, <1>4, FS_AddElement DEF LedgerOK
<1>6. LedgerOK(U)
  BY <1>3, <1>4, <1>5 DEF LedgerOK
<1>7. Grows(T, U)
  BY <1>3, <1>4, <1>5 DEF Grows
<1> HIDE DEF U, n
<1>8. transactions' = U /\ screen' = screen /\ calls' = calls
  BY <1>1 DEF Insert, U, row, n
<1>9. \A m \in DOMAIN calls : ReportCallOK(calls[m], U)
  BY <1>7, CallsGrow DEF ReportsInv
<1>10. screen.name = "reports" => Reported(screen, calls, U)
  BY <1>7, ReportedGrows DEF ReportsInv
<1> QED BY <1>6, <1>8, <1>9, <1>10 DEF ReportsInv

-----------------------------------------------------------------------------
(* The reports and the server                                              *)

\* A reply, and what it says of the ledger.
LEMMA ReplyKeepsReports ==
  ASSUME PageInv, ReportsInv, NEW n \in DOMAIN calls, Replied(n), UNCHANGED transactions,
         ReportCallOK(calls'[n], transactions),
         calls'[n].op = "transactions" /\ Answered(calls'[n]) => calls'[n].reply.body.of = Cardinality(transactions)
  PROVE  ReportsInv'
<1>1. PICK reply : calls' = [calls EXCEPT ![n].reply = reply]
  BY DEF Replied
<1>2. /\ DOMAIN calls' = DOMAIN calls
      /\ \A m \in DOMAIN calls : m # n => calls'[m] = calls[m]
      /\ calls'[n].op = calls[n].op /\ calls'[n].arg = calls[n].arg /\ calls'[n].mount = calls[n].mount
  BY <1>1, Replies
<1>3. screen' = screen
  BY DEF Replied
<1>4. \A m \in DOMAIN calls' : ReportCallOK(calls'[m], transactions)
  BY <1>2 DEF ReportsInv
<1>5. ASSUME screen.name = "reports" PROVE Reported(screen, calls', transactions)
  <2> DEFINE ds == calls'
  <2>1. Reported(screen, calls, transactions) /\ LedgerOK(transactions)
    BY <1>5 DEF ReportsInv
  <2>2. DOMAIN ds = DOMAIN calls
    BY <1>2
  <2>3. \A m \in DOMAIN calls :
           \/ ds[m] = calls[m]
           \/ /\ ds[m].op = calls[m].op /\ ds[m].arg = calls[m].arg /\ ds[m].mount = calls[m].mount
              /\ ds[m].op = "transactions" /\ Answered(ds[m]) => ds[m].reply.body.of = Cardinality(transactions)
    BY <1>2
  <2> HIDE DEF ds
  <2>4. Reported(screen, ds, transactions)
    BY <2>1, <2>2, <2>3, ReportedReplied
  <2> QED BY <2>4 DEF ds
<1> QED BY <1>3, <1>4, <1>5 DEF ReportsInv

\* A reply that is not an answer says nothing.
LEMMA SaysNothing ==
  ASSUME NEW c, NEW d, NEW T, ReportCallOK(c, T), d.op = c.op, d.arg = c.arg, d.op \notin ReportOps \/ ~Answered(d)
  PROVE  ReportCallOK(d, T)
BY DEF ReportCallOK, ReportOps

LEMMA PageServed ==
  ASSUME NoFunction(NoValue), PageInv, ReportsInv, NEW n \in DOMAIN calls, ServePage(n), UNCHANGED transactions
  PROVE  ReportsInv'
<1> DEFINE T == transactions
           c == calls[n]
           q == c.arg.query
           found == Selected(T, q, c.arg.cursor)
           page == Newest(found, DefaultLimit)
           more == Cardinality(found) > DefaultLimit
           key == [at |-> Last(page).at, id |-> Last(page).id]
           next == IF more THEN key ELSE NoValue
           body == [rows |-> page, next |-> next, of |-> Cardinality(T)]
           reply == IF BadRange(q) THEN Status(400) ELSE Ok(body)
<1>1. c.op = "transactions" /\ Replied(n) /\ calls' = [calls EXCEPT ![n].reply = reply]
  BY DEF ServePage, Admitted, Waiting, Reply, Replied
<1>2. /\ calls'[n].op = c.op /\ calls'[n].arg = c.arg /\ calls'[n].reply = reply
  <2> HIDE DEF reply
  <2> QED BY <1>1, Replies
<1>3. LedgerOK(T) /\ Cardinality(T) \in Nat /\ ReportCallOK(c, T)
  BY FS_CardinalityType DEF ReportsInv, LedgerOK
<1>4. found \in SUBSET T
  BY DEF Selected
<1>5. DefaultLimit \in Nat /\ DefaultLimit > 0
  BY ReportsAssumption
<1>6. key # NoValue
  <2>1. key = [y \in DOMAIN key |-> key[y]]
    OBVIOUS
  <2> HIDE DEF key
  <2> QED BY <2>1 DEF NoFunction
<1>7. /\ page \in Seq(found) /\ Sorted(page)
      /\ Cardinality(found) \in Nat
      /\ Cardinality(found) <= DefaultLimit => ToSet(page) = found
      /\ Cardinality(found) > DefaultLimit =>
              page # <<>> /\ \A t \in found : t \in ToSet(page) \/ Before(t, page[Len(page)])
  BY <1>3, <1>4, <1>5, NewestRows
<1>8. more => key.at = page[Len(page)].at /\ key.id = page[Len(page)].id
  BY DEF Last
<1> HIDE DEF found, page, key
<1>9. EndsAt(page, next)
  BY <1>7, <1>8 DEF EndsAt
<1>10. ASSUME NEW t \in found
       PROVE  t \in ToSet(page) \/ (next # NoValue /\ Before(t, next))
  <2>1. CASE more
    BY <1>6, <1>7, <1>8, <2>1 DEF Before
  <2>2. CASE ~more
    BY <1>5, <1>7, <2>2
  <2> QED BY <2>1, <2>2
<1>11. IsPage(page, next, Cardinality(T), q, c.arg.cursor, T)
  BY <1>3, <1>7, <1>9, <1>10 DEF IsPage, found
<1> HIDE DEF next
<1>12. DOMAIN body = {"rows", "next", "of"} /\ body.rows = page /\ body.next = next /\ body.of = Cardinality(T)
  OBVIOUS
<1> HIDE DEF body, q, T
<1>13. ASSUME Answered(calls'[n])
       PROVE  calls'[n].reply.body = body
  <2>1. ~BadRange(q)
    BY <1>2, <1>13 DEF Answered, Good, Status
  <2> QED BY <1>2, <2>1 DEF Ok
<1> HIDE DEF reply
<1>14. ReportCallOK(calls'[n], T)
  BY <1>1, <1>2, <1>3, <1>11, <1>12, <1>13 DEF ReportCallOK, q
<1> QED BY <1>1, <1>12, <1>13, <1>14, ReplyKeepsReports DEF T

LEMMA AllMatch ==
  ASSUME NEW T, LedgerOK(T), NEW q
  PROVE  Matching(T, q, Cardinality(T)) = Selected(T, q, NoValue)
<1>1. \A t \in Selected(T, q, NoValue) : t.nth <= Cardinality(T)
  BY DEF Selected, LedgerOK
<1> QED BY <1>1, SelectedMatches

LEMMA SummaryServed ==
  ASSUME PageInv, ReportsInv, NEW n \in DOMAIN calls, ServeSummary(n), UNCHANGED transactions
  PROVE  ReportsInv'
<1> DEFINE T == transactions
           c == calls[n]
           q == c.arg.query
           found == Selected(T, q, NoValue)
           body == [staked |-> Amounts(found, "debit"), paidOut |-> Amounts(found, "credit"),
                    net |-> Amounts(found, "debit") - Amounts(found, "credit"), of |-> Cardinality(T)]
           reply == IF BadRange(q) THEN Status(400) ELSE Ok(body)
<1>1. c.op = "summary" /\ Replied(n) /\ calls' = [calls EXCEPT ![n].reply = reply]
  BY DEF ServeSummary, Admitted, Waiting, Reply, Replied
<1>2. /\ calls'[n].op = c.op /\ calls'[n].arg = c.arg /\ calls'[n].reply = reply
  <2> HIDE DEF reply
  <2> QED BY <1>1, Replies
<1>3. LedgerOK(T) /\ Cardinality(T) \in Nat /\ ReportCallOK(c, T)
  BY FS_CardinalityType DEF ReportsInv, LedgerOK
<1>4. AreTotals(body, q, T)
  BY <1>3, AllMatch DEF AreTotals
<1> HIDE DEF body, q, T
<1>5. ASSUME Answered(calls'[n])
      PROVE  calls'[n].reply.body = body
  <2>1. ~BadRange(q)
    BY <1>2, <1>5 DEF Answered, Good, Status
  <2> QED BY <1>2, <2>1 DEF Ok
<1> HIDE DEF reply
<1>6. ReportCallOK(calls'[n], T)
  BY <1>1, <1>2, <1>3, <1>4, <1>5 DEF ReportCallOK, q
<1> QED BY <1>1, <1>2, <1>6, ReplyKeepsReports DEF T

LEMMA CsvServed ==
  ASSUME PageInv, ReportsInv, NEW n \in DOMAIN calls, ServeCsv(n), UNCHANGED transactions
  PROVE  ReportsInv'
<1> DEFINE T == transactions
           c == calls[n]
           q == c.arg.query
           found == Selected(T, q, NoValue)
           page == Newest(found, ExportLimit)
           truncated == Cardinality(found) > ExportLimit
           body == [rows |-> ToSet(page), truncated |-> truncated, of |-> Cardinality(T)]
           reply == IF BadRange(q) THEN Status(400) ELSE Ok(body)
<1>1. c.op = "csv" /\ Replied(n) /\ calls' = [calls EXCEPT ![n].reply = reply]
  BY DEF ServeCsv, Admitted, Waiting, Reply, Replied
<1>2. /\ calls'[n].op = c.op /\ calls'[n].arg = c.arg /\ calls'[n].reply = reply
  <2> HIDE DEF reply
  <2> QED BY <1>1, Replies
<1>3. LedgerOK(T) /\ Cardinality(T) \in Nat /\ ReportCallOK(c, T)
  BY FS_CardinalityType DEF ReportsInv, LedgerOK
<1>4. ~truncated => ToSet(page) = Matching(T, q, Cardinality(T))
  <2>1. found \in SUBSET T
    BY DEF Selected
  <2>2. ExportLimit \in Nat
    BY ReportsAssumption
  <2>3. Cardinality(found) \in Nat /\ (Cardinality(found) <= ExportLimit => ToSet(page) = found)
    BY <1>3, <2>1, <2>2, NewestRows
  <2>4. found = Matching(T, q, Cardinality(T))
    BY <1>3, AllMatch
  <2> HIDE DEF found, page
  <2> QED BY <2>2, <2>3, <2>4
<1> HIDE DEF found, page, truncated
<1>5. body.rows = ToSet(page) /\ body.truncated = truncated /\ body.of = Cardinality(T)
  OBVIOUS
<1> HIDE DEF body, q, T
<1>6. IsFile(body, q, T)
  BY <1>3, <1>4, <1>5 DEF IsFile
<1>7. ASSUME Answered(calls'[n])
      PROVE  calls'[n].reply.body = body
  <2>1. ~BadRange(q)
    BY <1>2, <1>7 DEF Answered, Good, Status
  <2> QED BY <1>2, <2>1 DEF Ok
<1> HIDE DEF reply
<1>8. ReportCallOK(calls'[n], T)
  BY <1>1, <1>2, <1>3, <1>6, <1>7 DEF ReportCallOK, q
<1> QED BY <1>1, <1>2, <1>8, ReplyKeepsReports DEF T

\* Of a call that is not of a report, or not answered well.
LEMMA OtherReplies ==
  ASSUME PageInv, ReportsInv, NEW n \in DOMAIN calls, Replied(n), UNCHANGED transactions,
         calls[n].op \notin ReportOps \/ ~Answered(calls'[n])
  PROVE  ReportsInv'
<1>1. PICK reply : calls' = [calls EXCEPT ![n].reply = reply]
  BY DEF Replied
<1>2. calls'[n].op = calls[n].op /\ calls'[n].arg = calls[n].arg
  BY <1>1, Replies
<1>3. ReportCallOK(calls'[n], transactions)
  BY <1>2, SaysNothing DEF ReportsInv
<1> QED BY <1>2, <1>3, ReplyKeepsReports DEF ReportOps

LEMMA ReadKeepsReports ==
  ASSUME PageInv, ReportsInv, NEW n \in DOMAIN calls, Looks(n), UNCHANGED transactions
  PROVE  ReportsInv'
<1> DEFINE ds == calls'
<1>1. calls[n].op \notin ReportOps /\ screen' = screen
  BY DEF Looks, ReportOps
<1>2. /\ DOMAIN ds = DOMAIN calls /\ \A m \in DOMAIN calls : m # n => ds[m] = calls[m]
      /\ ds[n].op = calls[n].op /\ ds[n].arg = calls[n].arg /\ ds[n].mount = calls[n].mount
  BY DEF Looks
<1> HIDE DEF ds
<1>3. ReportCallOK(ds[n], transactions)
  BY <1>1, <1>2, SaysNothing DEF ReportsInv
<1>4. \A m \in DOMAIN ds : ReportCallOK(ds[m], transactions)
  BY <1>2, <1>3 DEF ReportsInv
<1>5. ASSUME screen.name = "reports" PROVE Reported(screen, ds, transactions)
  <2>1. Reported(screen, calls, transactions) /\ LedgerOK(transactions)
    BY <1>5 DEF ReportsInv
  <2>2. ds[n].op # "transactions"
    BY <1>1, <1>2 DEF ReportOps
  <2>3. \A m \in DOMAIN calls :
           \/ ds[m] = calls[m]
           \/ /\ ds[m].op = calls[m].op /\ ds[m].arg = calls[m].arg /\ ds[m].mount = calls[m].mount
              /\ ds[m].op = "transactions" /\ Answered(ds[m]) => ds[m].reply.body.of = Cardinality(transactions)
    BY <1>2, <2>2
  <2> QED BY <1>2, <2>1, <2>3, ReportedReplied
<1> QED BY <1>1, <1>4, <1>5 DEF ReportsInv, ds

LEMMA ReportsServed ==
  ASSUME NoFunction(NoValue), PageInv, ReportsInv, NEW n \in DOMAIN calls,
         \/ ServeReports(n)
         \/ (ServeGame(n) \/ ServeDesk(n) \/ ServeLogin(n) \/ ServeLogout(n)) /\ UNCHANGED transactions
         \/ ComeToNothing(n)
  PROVE  ReportsInv'
<1>1. Replied(n) /\ UNCHANGED transactions
  BY Serving DEF ComeToNothing, ServeReports
<1>2. CASE ServePage(n) \/ ServeSummary(n) \/ ServeCsv(n)
  BY <1>1, <1>2, PageServed, SummaryServed, CsvServed
<1>3. CASE ServeLookup(n)
  <2>1. calls[n].op = "lookup"
    BY <1>3 DEF ServeLookup, Admitted, Waiting
  <2> QED BY <1>1, <2>1, OtherReplies DEF ReportOps
<1>4. CASE ServeGame(n)
  <2>1. calls[n].op \in GameOps \cup {"listGames", "createGame"}
    BY <1>4 DEF ServeGame, ServeSave, ServeUpload, ServeRead, ServeCreate, ServeFromPublished, ServePublish,
                HasRead, Admitted, Waiting, GameOps
  <2> QED BY <1>1, <2>1, OtherReplies DEF ReportOps, GameOps
<1>5. CASE ServeDesk(n)
  <2>1. calls[n].op \in DeskOps
    BY <1>5 DEF ServeDesk, ServeUpdate, ServePassword, ServeRotate, ServeAdd, ServeList, Admitted, Waiting,
                DeskOps, OperatorOps, UserOps
  <2> QED BY <1>1, <2>1, OtherReplies DEF ReportOps, DeskOps, OperatorOps, UserOps
<1>6. CASE ServeLogin(n) \/ ServeLogout(n)
  <2>1. calls[n].op \in {"login", "logout"}
    BY <1>6 DEF ServeLogin, ServeLogout, Admitted, Waiting
  <2> QED BY <1>1, <2>1, OtherReplies DEF ReportOps
<1>7. CASE ComeToNothing(n)
  <2>1. PICK code \in {401, 403, 500} : Refused(n, code)
    BY <1>7 DEF ComeToNothing, Refusal, Failure, Reply, Refused
  <2>2. ~Answered(calls'[n])
    BY <2>1, NotAnswered
  <2> QED BY <1>1, <2>2, OtherReplies
<1> QED BY <1>2, <1>3, <1>4, <1>5, <1>6, <1>7 DEF ServeReports

-----------------------------------------------------------------------------
(* The reports and the user                                                *)

\* The page does something else.
LEMMA AsideKeepsReports ==
  ASSUME PageInv, ReportsInv, UNCHANGED transactions, NEW ops, Asks(ops), ops \cap ReportOps = {},
         screen.name = "reports" => screen' = screen
  PROVE  ReportsInv'
<1>1. screen'.name = screen.name
  BY DEF Asks, Alike
<1>2. \A n \in DOMAIN calls' : (n \in DOMAIN calls /\ calls'[n] = calls[n]) \/ (calls'[n].op \notin ReportOps)
  BY DEF Asks, CallKept
<1>3. \A n \in DOMAIN calls' : ReportCallOK(calls'[n], transactions)
  BY <1>2 DEF ReportsInv, ReportCallOK, ReportOps
<1>4. ASSUME screen.name = "reports" PROVE Reported(screen, calls', transactions)
  <2> DEFINE ds == calls'
  <2>1. \A n \in DOMAIN ds : (n \in DOMAIN calls /\ ds[n] = calls[n]) \/ (ds[n].op \notin ReportOps)
    BY <1>2
  <2> HIDE DEF ds
  <2>2. Reported(screen, ds, transactions)
    BY <1>4, <2>1, ReportedAside DEF ReportsInv
  <2> QED BY <2>2 DEF ds
<1> QED BY <1>1, <1>3, <1>4 DEF ReportsInv

\* Another screen appears.
LEMMA LeavingKeepsReports ==
  ASSUME PageInv, ReportsInv, UNCHANGED transactions, NEW others \in SUBSET DOMAIN calls, Leaves(others)
  PROVE  ReportsInv'
<1>1. \A n \in DOMAIN calls' :
        (n \in DOMAIN calls /\ calls'[n] = calls[n]) \/ (calls'[n].op \notin ReportOps)
  BY DEF Leaves, CallKept, OtherOps, ReportOps
<1>2. \A n \in DOMAIN calls' : ReportCallOK(calls'[n], transactions)
  BY <1>1 DEF ReportsInv, ReportCallOK, ReportOps
<1>3. \A n \in DOMAIN calls' : calls'[n].op \notin ReportOps \/ calls'[n].mount # screen'.mount
  <2>1. \A n \in DOMAIN calls : calls[n].mount <= mounts /\ calls[n].mount \in Nat /\ mounts \in Nat
    BY DEF PageInv, IsCall
  <2>2. screen'.mount > mounts
    BY DEF Leaves
  <2>3. \A n \in DOMAIN calls : calls[n].mount # screen'.mount
    BY <2>1, <2>2
  <2> QED BY <1>1, <2>3
<1>4. ASSUME screen'.name = "reports" PROVE Reported(screen', calls', transactions)
  <2> DEFINE s == screen'
             ds == calls'
  <2>1. s = ReportsScreen(s.mount)
    BY <1>4 DEF Leaves, Fresh
  <2>2. \A n \in DOMAIN ds : ds[n].op \notin ReportOps \/ ds[n].mount # s.mount
    BY <1>3
  <2> HIDE DEF s, ds
  <2>3. Reported(s, ds, transactions)
    BY <2>1, <2>2, NothingReported
  <2> QED BY <2>3 DEF s, ds
<1> QED BY <1>2, <1>4 DEF ReportsInv

\* The screen and its calls, and a call that joins them.
LEMMA AskingKeepsReports ==
  ASSUME PageInv, ReportsInv, UNCHANGED transactions, NEW ops, Asks(ops), screen.name = "reports",
         NEW s, screen' = s, Reported(s, calls, transactions),
         \A n \in DOMAIN calls' :
           CallNew(n) => ReportCallOK(calls'[n], transactions) /\ CallFits(calls'[n], s) /\ ~OfRun(calls'[n])
  PROVE  ReportsInv'
<1> DEFINE ds == calls'
<1>1. \A n \in DOMAIN ds :
        \/ n \in DOMAIN calls /\ ds[n] = calls[n]
        \/ ReportCallOK(ds[n], transactions) /\ CallFits(ds[n], s) /\ ~OfRun(ds[n])
  BY DEF Asks, CallKept
<1> HIDE DEF ds
<1>2. \A n \in DOMAIN ds : ReportCallOK(ds[n], transactions)
  BY <1>1 DEF ReportsInv
<1>3. \A n \in DOMAIN ds : ds[n].mount = s.mount => CallFits(ds[n], s)
  BY <1>1 DEF Reported
<1>4. ASSUME NEW q, OneQuery(s, calls, q) PROVE OneQuery(s, ds, q)
  BY <1>1, <1>4 DEF OneQuery
<1>5. Reported(s, ds, transactions)
  BY <1>3, <1>4 DEF Reported
<1> QED BY <1>2, <1>5 DEF ReportsInv, ds

LEMMA FilterKeepsReports ==
  ASSUME PageInv, ReportsInv, Filter
  PROVE  ReportsInv'
<1>1. PICK q \in The.queries : Update([screen EXCEPT !.query = q], <<>>)
  BY DEF Filter
<1>2. screen.name = "reports" /\ UNCHANGED transactions
  BY DEF Filter
<1> DEFINE s == [screen EXCEPT !.query = q]
<1>3. QueryOK(q)
  BY ReportsAssumption DEF PageInv, The, QueryOK
<1>4. Reported(screen, calls, transactions) /\ DOMAIN screen = ReportFields
  BY <1>2 DEF ReportsInv, Reported, ReportOK
<1>5. s.query = q /\ DOMAIN s = ReportFields /\ \A f \in ReportFields \ {"query"} : s[f] = screen[f]
  BY <1>4 DEF ReportFields
<1>6. Alike(s)
  BY <1>4, <1>5 DEF Alike, ReportFields
<1> HIDE DEF s
<1>7. Reported(s, calls, transactions)
  BY <1>3, <1>4, <1>5 DEF Reported, ReportOK, CallFits, RunHolds, OneQuery, ReportFields
<1>8. Asks({}) /\ screen' = s
  BY <1>1, <1>6, InPlaceSilent DEF s
<1>9. \A n \in DOMAIN calls' : ~CallNew(n)
  BY <1>8 DEF Asks, CallKept, CallNew
<1> QED BY <1>2, <1>7, <1>8, <1>9, AskingKeepsReports

LEMMA LoadMoreKeepsReports ==
  ASSUME PageInv, ReportsInv, LoadMore
  PROVE  ReportsInv'
<1> DEFINE arg == Asked(screen.query, screen.page.next, screen.of.run)
<1>1. /\ screen.name = "reports" /\ screen.page.next # NoValue /\ UNCHANGED transactions
      /\ Update(screen, <<Request("transactions", arg, screen.mount)>>)
  BY DEF LoadMore, Ask
<1>2. /\ arg.query = screen.query /\ arg.cursor = screen.page.next /\ arg.run = screen.of.run
  BY DEF Asked
<1> HIDE DEF arg
<1>3. Reported(screen, calls, transactions)
  BY <1>1 DEF ReportsInv
<1>4. "transactions" \in Ops /\ screen.name \in Home("transactions") /\ Alike(screen)
  BY <1>1 DEF Ops, ReportOps, Home, GameOps, OperatorOps, UserOps, Alike
<1>5. /\ Asks({"transactions"}) /\ screen' = screen
      /\ calls'[issued + 1] = Made(Request("transactions", arg, screen.mount), session)
      /\ \A n \in DOMAIN calls' : n \in DOMAIN calls \/ n = issued + 1
  BY <1>1, <1>4, InPlaceAsking
<1>6. ASSUME NEW n \in DOMAIN calls', CallNew(n)
      PROVE  ReportCallOK(calls'[n], transactions) /\ CallFits(calls'[n], screen) /\ ~OfRun(calls'[n])
  <2> DEFINE c == calls'[n]
  <2>1. c.op = "transactions" /\ c.arg = arg /\ c.reply = NoValue
    BY <1>5, <1>6 DEF CallNew, Made, Request
  <2> HIDE DEF c
  <2>2. ReportCallOK(c, transactions)
    BY <1>2, <1>3, <2>1 DEF ReportCallOK, Answered, Reported, ReportOK, ReportOps
  <2>3. CallFits(c, screen) /\ ~OfRun(c)
    BY <1>1, <1>2, <1>3, <2>1 DEF CallFits, OfRun, Answered, Reported, ReportOK
  <2> QED BY <2>2, <2>3 DEF c
<1> QED BY <1>1, <1>3, <1>5, <1>6, AskingKeepsReports

LEMMA ExportKeepsReports ==
  ASSUME PageInv, ReportsInv, ExportCsv
  PROVE  ReportsInv'
<1> DEFINE arg == Asked(screen.query, NoValue, 0)
<1>1. /\ screen.name = "reports" /\ UNCHANGED transactions
      /\ Update(screen, <<Request("csv", arg, screen.mount)>>)
  BY DEF ExportCsv, Ask
<1>2. arg.query = screen.query /\ arg.cursor = NoValue /\ arg.run = 0
  BY DEF Asked
<1> HIDE DEF arg
<1>3. Reported(screen, calls, transactions)
  BY <1>1 DEF ReportsInv
<1>4. "csv" \in Ops /\ screen.name \in Home("csv") /\ Alike(screen)
  BY <1>1 DEF Ops, ReportOps, Home, GameOps, OperatorOps, UserOps, Alike
<1>5. /\ Asks({"csv"}) /\ screen' = screen
      /\ calls'[issued + 1] = Made(Request("csv", arg, screen.mount), session)
      /\ \A n \in DOMAIN calls' : n \in DOMAIN calls \/ n = issued + 1
  BY <1>1, <1>4, InPlaceAsking
<1>6. ASSUME NEW n \in DOMAIN calls', CallNew(n)
      PROVE  ReportCallOK(calls'[n], transactions) /\ CallFits(calls'[n], screen) /\ ~OfRun(calls'[n])
  <2> DEFINE c == calls'[n]
  <2>1. c.op = "csv" /\ c.arg = arg /\ c.reply = NoValue
    BY <1>5, <1>6 DEF CallNew, Made, Request
  <2> HIDE DEF c
  <2>2. ReportCallOK(c, transactions)
    BY <1>2, <1>3, <2>1 DEF ReportCallOK, Answered, Reported, ReportOK, ReportOps
  <2>3. CallFits(c, screen) /\ ~OfRun(c)
    BY <2>1 DEF CallFits, OfRun
  <2> QED BY <2>2, <2>3 DEF c
<1> QED BY <1>1, <1>3, <1>5, <1>6, AskingKeepsReports

\* A run is of the query of its two calls.
LEMMA RunKeepsReports ==
  ASSUME PageInv, ReportsInv, Run
  PROVE  ReportsInv'
<1> DEFINE s == [screen EXCEPT !.running = TRUE, !.run = @ + 1, !.first = NoValue, !.totals = NoValue, !.file = NoValue]
           page == Ask("transactions", screen.query, NoValue, screen.run + 1)
           totals == Ask("summary", screen.query, NoValue, screen.run + 1)
           requests == <<page, totals>>
           R == {page, totals}
           ops == {"transactions", "summary"}
           arg == Asked(screen.query, NoValue, screen.run + 1)
<1>1. screen.name = "reports" /\ UNCHANGED transactions /\ Update(s, requests)
  BY DEF Run
<1>2. /\ page = Request("transactions", arg, screen.mount) /\ totals = Request("summary", arg, screen.mount)
      /\ arg.query = screen.query /\ arg.cursor = NoValue /\ arg.run = screen.run + 1
  BY DEF Ask, Asked
<1> HIDE DEF page, totals, arg
<1>3. requests \in Seq(R)
  OBVIOUS
<1>4. \A r \in R : Fits(r) /\ r.op \in ops
  <2>1. /\ {"transactions", "summary"} \subseteq Ops
        /\ screen.name \in Home("transactions") /\ screen.name \in Home("summary")
    BY <1>1 DEF Ops, ReportOps, Home, GameOps, OperatorOps, UserOps
  <2>2. screen.mount \in Nat /\ screen.mount = mounts
    BY DEF PageInv
  <2> QED BY <1>2, <2>1, <2>2 DEF Fits, Request
<1>5. Reported(screen, calls, transactions) /\ DOMAIN screen = ReportFields
  BY <1>1 DEF ReportsInv, Reported, ReportOK
<1>6. /\ DOMAIN s = ReportFields /\ s.running = TRUE /\ s.run = screen.run + 1
      /\ s.first = NoValue /\ s.totals = NoValue /\ s.file = NoValue
      /\ \A f \in ReportFields \ {"running", "run", "first", "totals", "file"} : s[f] = screen[f]
  BY <1>5 DEF ReportFields
<1>7. Alike(s)
  BY <1>5, <1>6 DEF Alike, ReportFields
<1>8. screen.run \in Nat /\ screen.of.run \in Nat /\ screen.of.run <= screen.run /\ QueryOK(screen.query)
  BY <1>5 DEF Reported, ReportOK
<1> HIDE DEF s, requests, R, ops
<1>9. Asks(ops) /\ screen' = s /\ Joins(requests, session, DOMAIN calls)
  BY <1>1, <1>3, <1>4, <1>7, InPlace
<1> DEFINE ds == calls'
<1>10. \A n \in DOMAIN ds :
         \/ n \in DOMAIN calls /\ ds[n] = calls[n]
         \/ ds[n].op \in ops /\ ds[n].arg = arg /\ ds[n].reply = NoValue
  <2>1. ASSUME NEW n \in DOMAIN calls', ~(n \in DOMAIN calls /\ calls'[n] = calls[n])
        PROVE  calls'[n].op \in ops /\ calls'[n].arg = arg /\ calls'[n].reply = NoValue
    <3>1. PICK r \in R : calls'[n] = Made(r, session)
      BY <1>3, <1>9, <2>1, Joined
    <3>2. r.op \in ops /\ r.arg = arg
      BY <1>2 DEF R, Request, ops
    <3> QED BY <3>1, <3>2 DEF Made
  <2> QED BY <2>1
<1> HIDE DEF ds
<1>11. ASSUME NEW n \in DOMAIN ds PROVE ReportCallOK(ds[n], transactions)
  <2>1. CASE n \in DOMAIN calls /\ ds[n] = calls[n]
    BY <2>1 DEF ReportsInv
  <2>2. CASE ds[n].op \in ops /\ ds[n].arg = arg /\ ds[n].reply = NoValue
    BY <1>2, <1>8, <2>2 DEF ReportCallOK, Answered, ops
  <2> QED BY <1>10, <2>1, <2>2
<1>12. ASSUME NEW n \in DOMAIN ds, ds[n].mount = s.mount PROVE CallFits(ds[n], s)
  <2>1. s.page = screen.page /\ s.of = screen.of /\ s.mount = screen.mount
    BY <1>6 DEF ReportFields
  <2>2. CASE n \in DOMAIN calls /\ ds[n] = calls[n]
    <3>1. CallFits(calls[n], screen)
      BY <1>5, <1>12, <2>1, <2>2 DEF Reported
    <3>2. calls[n].op \in ReportOps => calls[n].arg.run \in Nat
      BY <2>2 DEF ReportsInv, ReportCallOK
    <3> QED BY <1>6, <1>8, <2>1, <2>2, <3>1, <3>2 DEF CallFits, OfRun, ReportOps
  <2>3. CASE ds[n].op \in ops /\ ds[n].arg = arg /\ ds[n].reply = NoValue
    BY <1>2, <1>6, <1>8, <2>3 DEF CallFits, OfRun, ops
  <2> QED BY <1>10, <2>2, <2>3
<1>13. OneQuery(s, ds, screen.query)
  <2>1. ASSUME NEW n \in DOMAIN ds, ds[n].mount = s.mount, OfRun(ds[n]), ds[n].arg.run = s.run
        PROVE  ds[n].arg.query = screen.query
    <3>1. CASE n \in DOMAIN calls /\ ds[n] = calls[n]
      <4>1. CallFits(calls[n], screen) /\ calls[n].arg.run \in Nat
        BY <1>5, <1>6, <2>1, <3>1 DEF Reported, ReportsInv, ReportCallOK, ReportFields, OfRun, ReportOps
      <4> QED BY <1>6, <1>8, <2>1, <3>1, <4>1 DEF CallFits
    <3>2. CASE ds[n].arg = arg
      BY <1>2, <3>2
    <3> QED BY <1>10, <3>1, <3>2
  <2> QED BY <2>1 DEF OneQuery
<1>14. RunHolds(s, screen.query, transactions)
  BY <1>6, <1>8 DEF RunHolds
<1>15. ReportOK(s, transactions)
  <2>1. /\ s.query = screen.query /\ s.of = screen.of /\ s.page = screen.page /\ s.rows = screen.rows
        /\ s.whole = screen.whole /\ s.summary = screen.summary
    BY <1>6 DEF ReportFields
  <2>2. s.running \in BOOLEAN
    BY <1>6
  <2>3. s.run \in Nat /\ s.of.run \in Nat /\ s.of.run < s.run /\ s.of.run <= s.run
    BY <1>6, <1>8, <2>1
  <2> QED BY <1>5, <1>6, <2>1, <2>2, <2>3 DEF ReportOK, Reported
<1>16. Reported(s, ds, transactions)
  BY <1>12, <1>13, <1>14, <1>15 DEF Reported
<1> QED BY <1>1, <1>9, <1>11, <1>16 DEF ReportsInv, ds

-----------------------------------------------------------------------------
(* The reports and answers                                                 *)

\* An answer to a report.
ForReports(c) == c.mount = screen.mount /\ c.op \in ReportOps

\* What other answers do on the reports screen: nothing.
LEMMA OtherAnswers ==
  ASSUME PageInv, screen.name = "reports", NEW n \in DOMAIN calls, NEW c, c = calls[n],
         NEW page, page = AfterAnswer(c)
  PROVE  page.screen = screen \/ (ForReports(c) /\ page.screen = OnReportsAnswer(c).screen)
<1>1. c.op \in Ops /\ (c.mount = screen.mount => "reports" \in Home(c.op))
  BY DEF PageInv, IsCall
<1>2. CASE LosesSession(c)
  BY <1>2 DEF AfterAnswer, Page
<1>3. CASE ~LosesSession(c) /\ c.op \in {"login", "logout"}
  BY <1>3 DEF AfterAnswer, Page
<1>4. CASE ~LosesSession(c) /\ c.op \notin {"login", "logout"}
  <2> DEFINE then == IF c.op \in {"transactions", "summary", "csv", "lookup"} THEN OnReportsAnswer(c)
              ELSE IF c.op \in {"listOperators", "createOperator", "updateOperator", "rotateSecret", "listUsers",
                                "createUser", "updateUser", "setPassword", "audit"} THEN OnDeskAnswer(c)
              ELSE OnGameAnswer(c)
  <2>1. page.screen = then.screen
    BY <1>4 DEF AfterAnswer, Page
  <2>2. CASE c.op \in ReportOps
    <3>1. then = OnReportsAnswer(c)
      BY <2>2 DEF ReportOps
    <3>2. c.mount # screen.mount => OnReportsAnswer(c).screen = screen
      BY DEF OnReportsAnswer
    <3> HIDE DEF then
    <3> QED BY <2>1, <2>2, <3>1, <3>2 DEF ForReports
  <2>3. CASE c.op = "lookup"
    <3>1. then = OnReportsAnswer(c) /\ c.mount # screen.mount
      BY <1>1, <2>3 DEF Home, GameOps, OperatorOps, UserOps, ReportOps
    <3>2. OnReportsAnswer(c).screen = screen
      BY <3>1 DEF OnReportsAnswer
    <3> HIDE DEF then
    <3> QED BY <2>1, <3>1, <3>2
  <2>4. CASE c.op \in DeskOps
    <3>1. then = OnDeskAnswer(c)
      BY <2>4 DEF DeskOps, OperatorOps, UserOps
    <3>2. c.mount # screen.mount \/ c.op = "listOperators"
      BY <1>1, <2>4 DEF Home, GameOps, DeskOps, OperatorOps, UserOps, ReportOps
    <3>3. Loaded(c) = screen
      BY DEF Loaded
    <3>4. OnDeskAnswer(c).screen = screen
      BY <3>2, <3>3 DEF OnDeskAnswer
    <3> HIDE DEF then
    <3> QED BY <2>1, <3>1, <3>4
  <2>5. CASE c.op \in GameOps \cup {"listGames", "createGame"}
    <3>1. then = OnGameAnswer(c)
      BY <2>5 DEF GameOps
    <3>3. c.mount # screen.mount
      BY <1>1, <2>5 DEF Home, GameOps, OperatorOps, UserOps, ReportOps
    <3>2. OnGameAnswer(c).screen = screen
      BY <2>5, <3>3 DEF OnGameAnswer, OnLoaded, OnSaved, OnPublished, Then, IfMounted, Done, GameOps
    <3> HIDE DEF then
    <3> QED BY <2>1, <3>1, <3>2
  <2> QED BY <1>1, <1>4, <2>2, <2>3, <2>4, <2>5 DEF Ops, DeskOps
<1> QED BY <1>2, <1>3, <1>4

\* A page that continues the rows on show.
LEMMA OnMoreKeepsReports ==
  ASSUME PageInv, ReportsInv, screen.name = "reports",
         NEW n \in DOMAIN calls, NEW c, c = calls[n], Answered(c), c.mount = screen.mount,
         c.op = "transactions", c.arg.cursor # NoValue
  PROVE  Reported(OnMore(c), calls, transactions)
<1> DEFINE T == transactions
           body == c.reply.body
           of == IF screen.page = NoValue THEN 0 ELSE screen.page.of
           page == [body EXCEPT !.of = of]
           rows == screen.rows \o body.rows
           whole == screen.whole /\ screen.page # NoValue /\ screen.page.next = c.arg.cursor
                    /\ c.arg.query = screen.of.query /\ c.arg.run = screen.of.run
           s == [screen EXCEPT !.rows = rows, !.page = page, !.whole = whole]
<1>1. Reported(screen, calls, T) /\ LedgerOK(T) /\ DOMAIN screen = ReportFields
  BY DEF ReportsInv, Reported, ReportOK
<1>2. OnMore(c) = s
  BY DEF OnMore, Answered
<1>3. DOMAIN body = {"rows", "next", "of"} /\ IsPage(body.rows, body.next, body.of, c.arg.query, c.arg.cursor, T)
  BY DEF ReportsInv, ReportCallOK
<1>4. Cardinality(T) \in Nat /\ of \in 0 .. Cardinality(T)
  BY <1>1, FS_CardinalityType DEF LedgerOK, Reported, ReportOK
<1>5. CallFits(c, screen)
  BY <1>1 DEF Reported
<1> HIDE DEF of, body
<1>6. page.of = of /\ page.next = body.next
  BY <1>3
<1> HIDE DEF page, rows, whole
<1>7. /\ DOMAIN s = ReportFields /\ s.rows = rows /\ s.page = page
      /\ \A f \in ReportFields \ {"rows", "page", "whole"} : s[f] = screen[f]
  BY <1>1 DEF ReportFields
<1>8. s.whole = whole
  BY <1>1 DEF ReportFields
<1>9. ASSUME whole
      PROVE  IsPage(rows, page.next, page.of, screen.of.query, NoValue, T) /\ AreTotals(screen.summary, screen.of.query, T)
  <2> DEFINE q == screen.of.query
             next == screen.page.next
             then == body.next
             by == body.of
  <2>1. /\ screen.page # NoValue /\ next = c.arg.cursor /\ c.arg.query = q /\ screen.whole /\ c.arg.run = screen.of.run
    BY <1>9 DEF whole
  <2>2. /\ IsPage(screen.rows, next, screen.page.of, q, NoValue, T) /\ AreTotals(screen.summary, q, T) /\ QueryOK(q)
    BY <1>1, <2>1 DEF Reported, ReportOK
  <2>3. IsPage(body.rows, then, by, q, next, T) /\ next # NoValue
    BY <1>3, <2>1
  <2>4. by >= screen.page.of
    <3>1. screen.page.of <= by
      BY <1>5, <2>1 DEF CallFits, body
    <3>2. screen.page.of \in Int /\ by \in Int
      BY <2>2, <2>3 DEF IsPage
    <3> QED BY <3>1, <3>2
  <2>5. of = screen.page.of
    BY <2>1 DEF of
  <2> HIDE DEF q, next, then, by
  <2>6. IsPage(screen.rows \o body.rows, then, screen.page.of, q, NoValue, T)
    BY <1>1, <2>2, <2>3, <2>4, PagesJoin
  <2> QED BY <1>6, <2>2, <2>5, <2>6 DEF rows, q, then
<1> HIDE DEF s
<1>10. /\ s.query = screen.query /\ s.of = screen.of /\ s.run = screen.run /\ s.running = screen.running
       /\ s.first = screen.first /\ s.totals = screen.totals /\ s.summary = screen.summary /\ s.file = screen.file
       /\ s.mount = screen.mount
  BY <1>7 DEF ReportFields
<1>11. ReportOK(s, T)
  <2>1. s.whole => IsPage(s.rows, s.page.next, s.page.of, s.of.query, NoValue, T) /\ AreTotals(s.summary, s.of.query, T)
    BY <1>7, <1>8, <1>9, <1>10
  <2>2. s.page.of \in 0 .. Cardinality(T)
    BY <1>4, <1>6, <1>7
  <2> QED BY <1>1, <1>7, <1>10, <2>1, <2>2 DEF Reported, ReportOK
<1>12. ASSUME NEW m \in DOMAIN calls, calls[m].mount = s.mount PROVE CallFits(calls[m], s)
  <2>1. CallFits(calls[m], screen) /\ ReportCallOK(calls[m], T)
    BY <1>1, <1>10, <1>12 DEF Reported, ReportsInv
  <2>2. screen.page = NoValue => s.page.of = 0
    BY <1>6, <1>7 DEF of
  <2>3. screen.page # NoValue => s.page.of = screen.page.of
    BY <1>6, <1>7 DEF of
  <2>4. calls[m].op = "transactions" /\ Answered(calls[m]) => calls[m].reply.body.of \in Nat
    BY <1>4, <2>1 DEF ReportCallOK, IsPage
  <2> QED BY <1>10, <2>1, <2>2, <2>3, <2>4 DEF CallFits
<1>13. ASSUME NEW q, RunHolds(screen, q, T), OneQuery(screen, calls, q)
       PROVE  RunHolds(s, q, T) /\ OneQuery(s, calls, q)
  BY <1>10, <1>13 DEF RunHolds, OneQuery
<1>14. Reported(s, calls, T)
  BY <1>1, <1>10, <1>11, <1>12, <1>13 DEF Reported
<1> QED BY <1>2, <1>14

\* An export.
LEMMA OnCsvKeepsReports ==
  ASSUME PageInv, ReportsInv, screen.name = "reports",
         NEW n \in DOMAIN calls, NEW c, c = calls[n], Answered(c), c.mount = screen.mount, c.op = "csv"
  PROVE  Reported(OnCsv(c), calls, transactions)
<1> DEFINE T == transactions
           body == c.reply.body
           file == [rows |-> body.rows, truncated |-> body.truncated, of |-> body.of, query |-> c.arg.query]
           s == [screen EXCEPT !.file = file]
<1>1. Reported(screen, calls, T) /\ DOMAIN screen = ReportFields
  BY DEF ReportsInv, Reported, ReportOK
<1>2. OnCsv(c) = s
  BY DEF OnCsv, Answered
<1>3. IsFile(body, c.arg.query, T)
  BY DEF ReportsInv, ReportCallOK
<1> HIDE DEF body
<1>4. file.rows = body.rows /\ file.truncated = body.truncated /\ file.of = body.of /\ file.query = c.arg.query
  OBVIOUS
<1> HIDE DEF file
<1>5. IsFile(file, file.query, T)
  BY <1>3, <1>4 DEF IsFile
<1>6. DOMAIN s = ReportFields /\ s.file = file /\ \A f \in ReportFields \ {"file"} : s[f] = screen[f]
  BY <1>1 DEF ReportFields
<1> HIDE DEF s
<1>7. Reported(s, calls, T)
  BY <1>1, <1>5, <1>6 DEF Reported, ReportOK, CallFits, RunHolds, OneQuery, ReportFields
<1> QED BY <1>2, <1>7

\* An answer that a run does not wait for, or that ends it.
LEMMA RunEnds ==
  ASSUME ReportsInv, screen.name = "reports"
  PROVE  Reported(screen, calls, transactions) /\ Reported(RunFailed(screen), calls, transactions)
<1> DEFINE T == transactions
           s == RunFailed(screen)
<1>1. Reported(screen, calls, T) /\ DOMAIN screen = ReportFields
  BY DEF ReportsInv, Reported, ReportOK
<1>2. /\ DOMAIN s = ReportFields /\ s.running = FALSE /\ s.page = NoValue
      /\ s.query = screen.query /\ s.of = screen.of /\ s.run = screen.run /\ s.file = screen.file /\ s.mount = screen.mount
  BY <1>1 DEF RunFailed, ReportFields
<1> HIDE DEF s
<1>3. s.running \in BOOLEAN /\ ~s.running
  BY <1>2
<1>4. ReportOK(s, T)
  BY <1>1, <1>2, <1>3 DEF Reported, ReportOK
<1>5. ASSUME NEW n \in DOMAIN calls, calls[n].mount = s.mount PROVE CallFits(calls[n], s)
  BY <1>1, <1>2, <1>5 DEF Reported, CallFits
<1>6. Reported(s, calls, T)
  BY <1>3, <1>4, <1>5 DEF Reported
<1> QED BY <1>1, <1>6 DEF s

\* The first of the two answers of a run waits for the other.
LEMMA RunGoesOn ==
  ASSUME ReportsInv, screen.name = "reports", screen.running, NEW field \in {"first", "totals"}, NEW body,
         NEW s, s = [screen EXCEPT ![field] = body],
         NEW q, RunHolds(screen, q, transactions), OneQuery(screen, calls, q),
         field = "first" => IsPage(body.rows, body.next, body.of, q, NoValue, transactions),
         field = "totals" => AreTotals(body, q, transactions)
  PROVE  /\ Reported(s, calls, transactions) /\ RunHolds(s, q, transactions)
         /\ DOMAIN s = ReportFields /\ s.run = screen.run /\ s.of = screen.of /\ s.query = screen.query
         /\ s.mount = screen.mount /\ s.file = screen.file
<1> DEFINE T == transactions
<1>1. Reported(screen, calls, T) /\ DOMAIN screen = ReportFields
  BY DEF ReportsInv, Reported, ReportOK
<1>2. DOMAIN s = ReportFields /\ s[field] = body /\ \A f \in ReportFields \ {field} : s[f] = screen[f]
  BY <1>1 DEF ReportFields
<1>3. /\ s.query = screen.query /\ s.of = screen.of /\ s.run = screen.run /\ s.running = screen.running
      /\ s.page = screen.page /\ s.rows = screen.rows /\ s.summary = screen.summary /\ s.file = screen.file
      /\ s.whole = screen.whole /\ s.mount = screen.mount
  BY <1>2 DEF ReportFields
<1>4. \/ field = "first" /\ s.first = body /\ s.totals = screen.totals
      \/ field = "totals" /\ s.totals = body /\ s.first = screen.first
  BY <1>2 DEF ReportFields
<1>5. RunHolds(s, q, T)
  BY <1>4 DEF RunHolds
<1>6. OneQuery(s, calls, q)
  BY <1>3 DEF OneQuery
<1>7. ReportOK(s, T)
  BY <1>1, <1>2, <1>3 DEF Reported, ReportOK
<1>8. Reported(s, calls, T)
  BY <1>1, <1>3, <1>5, <1>6, <1>7 DEF Reported, CallFits
<1> QED BY <1>2, <1>3, <1>5, <1>8

\* The second makes the report.
LEMMA RunIsDone ==
  ASSUME PageInv, ReportsInv, screen.name = "reports", screen.running,
         NEW s, DOMAIN s = ReportFields, s.run = screen.run, s.of = screen.of, s.query = screen.query,
         s.mount = screen.mount, s.file = screen.file, s.first # NoValue, s.totals # NoValue,
         NEW asked, RunHolds(s, asked.query, transactions), asked.run = screen.run
  PROVE  Reported(RunDone(s, asked), calls, transactions)
<1> DEFINE T == transactions
           t == RunDone(s, asked)
<1>1. Reported(screen, calls, T) /\ LedgerOK(T)
  BY DEF ReportsInv, Reported, ReportOK
<1>2. /\ DOMAIN t = ReportFields /\ t.running = FALSE /\ t.page = s.first /\ t.rows = s.first.rows
      /\ t.summary = s.totals /\ t.of = asked
      /\ t.query = screen.query /\ t.run = screen.run /\ t.file = screen.file /\ t.mount = screen.mount
  BY DEF RunDone, ReportFields
<1> HIDE DEF t
<1>3. t.running \in BOOLEAN /\ ~t.running
  BY <1>2
<1>4. /\ IsPage(t.rows, t.page.next, t.page.of, asked.query, NoValue, T)
      /\ AreTotals(t.summary, asked.query, T) /\ QueryOK(asked.query)
  BY <1>2 DEF RunHolds
<1>5. screen.run \in Nat /\ screen.of.run \in Nat /\ screen.of.run < screen.run
  BY <1>1 DEF Reported, ReportOK
<1>6. ReportOK(t, T)
  <2>1. t.page.of \in 0 .. Cardinality(T)
    BY <1>4 DEF IsPage
  <2>2. QueryOK(t.query) /\ (t.file # NoValue => IsFile(t.file, t.file.query, T))
    BY <1>1, <1>2 DEF Reported, ReportOK
  <2>3. t.run \in Nat /\ t.of.run \in Nat /\ t.of.run <= t.run
    BY <1>2, <1>5
  <2> QED BY <1>2, <1>3, <1>4, <2>1, <2>2, <2>3 DEF ReportOK
<1>7. ASSUME NEW n \in DOMAIN calls, calls[n].mount = t.mount PROVE CallFits(calls[n], t)
  <2>1. CallFits(calls[n], screen) /\ (calls[n].op \in ReportOps => calls[n].arg.run \in Nat)
    BY <1>1, <1>2, <1>7 DEF Reported, ReportsInv, ReportCallOK
  <2>2. t.of.run = screen.run /\ t.run = screen.run
    BY <1>2
  <2> QED BY <1>5, <2>1, <2>2 DEF CallFits, ReportOps
<1>8. Reported(t, calls, T)
  BY <1>3, <1>6, <1>7 DEF Reported
<1> QED BY <1>8 DEF t

LEMMA OnRunKeepsReports ==
  ASSUME PageInv, ReportsInv, screen.name = "reports",
         NEW n \in DOMAIN calls, NEW c, c = calls[n], c.reply # NoValue, c.mount = screen.mount,
         NEW field, \/ c.op = "transactions" /\ c.arg.cursor = NoValue /\ field = "first"
                    \/ c.op = "summary" /\ field = "totals"
  PROVE  Reported(OnRun(c, field), calls, transactions)
<1> DEFINE T == transactions
           s == [screen EXCEPT ![field] = c.reply.body]
<1>1. Reported(screen, calls, T) /\ Reported(RunFailed(screen), calls, T) /\ ReportCallOK(c, T)
  BY RunEnds DEF ReportsInv
<1>2. CASE c.arg.run # screen.run \/ ~screen.running
  BY <1>1, <1>2 DEF OnRun
<1>3. CASE c.arg.run = screen.run /\ screen.running /\ ~Good(c)
  BY <1>1, <1>3 DEF OnRun
<1>4. CASE c.arg.run = screen.run /\ screen.running /\ Good(c)
  <2>1. PICK q : RunHolds(screen, q, T) /\ OneQuery(screen, calls, q)
    BY <1>1, <1>4 DEF Reported
  <2>2. OfRun(c) /\ Answered(c)
    BY <1>1, <1>4 DEF OfRun, ReportCallOK, Answered
  <2>3. c.arg.query = q
    BY <1>4, <2>1, <2>2 DEF OneQuery
  <2> DEFINE body == c.reply.body
  <2>4. /\ field = "first" => IsPage(body.rows, body.next, body.of, q, NoValue, T)
        /\ field = "totals" => AreTotals(body, q, T)
    BY <1>1, <2>2, <2>3 DEF ReportCallOK
  <2>5. s = [screen EXCEPT ![field] = body] /\ field \in {"first", "totals"}
    OBVIOUS
  <2> HIDE DEF s, body
  <2>6. /\ Reported(s, calls, T) /\ RunHolds(s, q, T)
        /\ DOMAIN s = ReportFields /\ s.run = screen.run /\ s.of = screen.of /\ s.query = screen.query
        /\ s.mount = screen.mount /\ s.file = screen.file
    BY <1>4, <2>1, <2>4, <2>5, RunGoesOn
  <2>7. CASE s.first # NoValue /\ s.totals # NoValue
    <3> DEFINE asked == c.arg
    <3>1. RunHolds(s, asked.query, T) /\ asked.run = screen.run
      BY <1>4, <2>3, <2>6
    <3>2. OnRun(c, field) = RunDone(s, asked)
      BY <1>4, <2>7 DEF OnRun, s
    <3> HIDE DEF asked
    <3>3. Reported(RunDone(s, asked), calls, T)
      BY <1>4, <2>6, <2>7, <3>1, RunIsDone
    <3> QED BY <3>2, <3>3
  <2>8. CASE ~(s.first # NoValue /\ s.totals # NoValue)
    <3>1. OnRun(c, field) = s
      BY <1>4, <2>8 DEF OnRun, s
    <3> QED BY <2>6, <3>1
  <2> QED BY <2>7, <2>8
<1> QED BY <1>2, <1>3, <1>4

LEMMA AnswersReport ==
  ASSUME PageInv, ReportsInv, screen.name = "reports",
         NEW n \in DOMAIN calls, NEW c, c = calls[n], c.reply # NoValue, NEW page, page = AfterAnswer(c)
  PROVE  Reported(page.screen, calls, transactions)
<1>1. Reported(screen, calls, transactions)
  BY DEF ReportsInv
<1>2. ASSUME ForReports(c)
      PROVE  Reported(OnReportsAnswer(c).screen, calls, transactions)
  <2> DEFINE s == OnReportsAnswer(c).screen
  <2>1. CASE c.op = "transactions" /\ c.arg.cursor # NoValue
    <3>1. s = OnMore(c)
      BY <1>2, <2>1 DEF OnReportsAnswer, ForReports
    <3>2. CASE Good(c)
      BY <1>2, <2>1, <3>1, <3>2, OnMoreKeepsReports DEF Answered, ForReports
    <3>3. CASE ~Good(c)
      BY <1>1, <3>1, <3>3 DEF OnMore
    <3> QED BY <3>2, <3>3
  <2>2. CASE c.op = "transactions" /\ c.arg.cursor = NoValue
    <3>1. s = OnRun(c, "first")
      BY <1>2, <2>2 DEF OnReportsAnswer, ForReports
    <3> QED BY <1>2, <2>2, <3>1, OnRunKeepsReports DEF ForReports
  <2>3. CASE c.op = "summary"
    <3>1. s = OnRun(c, "totals")
      BY <1>2, <2>3 DEF OnReportsAnswer, ForReports
    <3> QED BY <1>2, <2>3, <3>1, OnRunKeepsReports DEF ForReports
  <2>4. CASE c.op = "csv"
    <3>1. s = OnCsv(c)
      BY <1>2, <2>4 DEF OnReportsAnswer, ForReports
    <3>2. CASE Good(c)
      BY <1>2, <2>4, <3>1, <3>2, OnCsvKeepsReports DEF Answered, ForReports
    <3>3. CASE ~Good(c)
      BY <1>1, <3>1, <3>3 DEF OnCsv
    <3> QED BY <3>2, <3>3
  <2> QED BY <1>2, <2>1, <2>2, <2>3, <2>4 DEF ForReports, ReportOps
<1> QED BY <1>1, <1>2, OtherAnswers

LEMMA RemainingKeepsReports ==
  ASSUME PageInv, ReportsInv, UNCHANGED transactions, NEW others \in SUBSET DOMAIN calls, NEW s, Remains(s, others),
         screen.name = "reports" => Reported(s, calls, transactions)
  PROVE  ReportsInv'
<1>1. screen' = s /\ s.name = screen.name
  BY DEF Remains, Alike
<1> DEFINE ds == calls'
<1>2. \A n \in DOMAIN ds : (n \in DOMAIN calls /\ ds[n] = calls[n]) \/ ds[n].op \notin ReportOps
  BY DEF Remains, CallKept, OtherOps
<1> HIDE DEF ds
<1>3. \A n \in DOMAIN ds : ReportCallOK(ds[n], transactions)
  BY <1>2 DEF ReportsInv, ReportCallOK, ReportOps
<1>4. screen.name = "reports" => Reported(s, ds, transactions)
  BY <1>2, ReportedAside
<1> QED BY <1>1, <1>3, <1>4 DEF ReportsInv, ds

LEMMA AnswerKeepsReports ==
  ASSUME PageInv, ReportsInv, NEW n \in DOMAIN calls, Answer(n)
  PROVE  ReportsInv'
<1> DEFINE c == calls[n]
           page == AfterAnswer(c)
           others == DOMAIN calls \ {n}
<1>1. c.reply # NoValue /\ UNCHANGED transactions
  BY DEF Answer
<1>2. others \in SUBSET DOMAIN calls
  OBVIOUS
<1>3. Remains(page.screen, others) \/ Leaves(others)
  BY AnswersCommit
<1> DEFINE s == page.screen
<1>4. screen.name = "reports" => Reported(s, calls, transactions)
  BY <1>1, AnswersReport
<1> HIDE DEF c, page, others, s
<1>5. CASE Remains(s, others)
  BY <1>1, <1>2, <1>4, <1>5, RemainingKeepsReports
<1>6. CASE Leaves(others)
  BY <1>1, <1>2, <1>6, LeavingKeepsReports
<1> QED BY <1>3, <1>5, <1>6 DEF s

-----------------------------------------------------------------------------
(* The reports and the steps                                               *)

LEMMA ReportsStart ==
  ASSUME Init
  PROVE  ReportsInv
<1>1. /\ situation \in Situation /\ transactions = The.transactions
      /\ screen = NewScreen(session, route, 1)
      /\ calls = Sent(OnMount(screen), session, 0)
  BY DEF Init
<1>2. route \in Routes
  BY PageStarts DEF PageInv
<1>3. LedgerOK(transactions)
  BY <1>1, ReportsAssumption DEF LedgerOK, The
<1>4. /\ Fresh(screen)
      /\ \/ OnMount(screen) = <<>>
         \/ \E op \in {"listGames", "getGame", "listOperators", "listUsers", "audit"} :
              OnMount(screen) = <<Request(op, NoValue, 1)>> /\ screen.name \in Home(op)
  BY <1>1, <1>2, NewScreens
<1>5. \A n \in DOMAIN calls : calls[n].op \notin ReportOps
  <2>1. CASE OnMount(screen) = <<>>
    BY <1>1, <2>1 DEF Sent
  <2>2. ASSUME NEW op \in {"listGames", "getGame", "listOperators", "listUsers", "audit"},
               OnMount(screen) = <<Request(op, NoValue, 1)>>
        PROVE  \A n \in DOMAIN calls : calls[n].op \notin ReportOps
    <3>1. DOMAIN calls = {1} /\ calls[1] = Made(Request(op, NoValue, 1), session)
      BY <1>1, <2>2 DEF Sent, Made
    <3> QED BY <3>1 DEF Made, Request, ReportOps
  <2> QED BY <1>4, <2>1, <2>2
<1>6. \A n \in DOMAIN calls : ReportCallOK(calls[n], transactions)
  BY <1>5 DEF ReportCallOK, ReportOps
<1>7. screen.name = "reports" => Reported(screen, calls, transactions)
  BY <1>4, <1>5, NothingReported DEF Fresh
<1> QED BY <1>3, <1>6, <1>7 DEF ReportsInv

LEMMA ReportsNext ==
  ASSUME NoFunction(NoValue), PageInv, ReportsInv, [Next]_vars
  PROVE  ReportsInv'
<1>1. ASSUME NEW ops, Asks(ops), ops \cap ReportOps = {}, screen.name = "reports" => screen' = screen,
             UNCHANGED transactions
      PROVE  ReportsInv'
  BY <1>1, AsideKeepsReports
<1>2. ASSUME OtherSteps, UNCHANGED transactions PROVE ReportsInv'
  <2>1. Asks(OtherOps) /\ Aside(screen')
    BY <1>2, OtherStepsAreAside
  <2> QED BY <1>1, <1>2, <2>1 DEF OtherOps, Aside
<1>3. CASE Navigate /\ UNCHANGED transactions
  <2> DEFINE others == DOMAIN calls
  <2>1. Remains(screen, others) \/ Leaves(others)
    BY <1>3, Navigates
  <2>2. others \in SUBSET DOMAIN calls /\ (screen.name = "reports" => Reported(screen, calls, transactions))
    BY DEF ReportsInv
  <2> HIDE DEF others
  <2> QED BY <1>3, <2>1, <2>2, RemainingKeepsReports, LeavingKeepsReports
<1>4. CASE BuilderStep /\ UNCHANGED transactions
  <2>1. CASE Edit
    <3>1. screen.name = "game"
      BY <2>1 DEF Edit, Builder
    <3>2. PICK next : Update([OffPanel(screen) EXCEPT !.draft = next, !.pending = next, !.timer = TRUE, !.saving = "idle"], <<>>)
      BY <2>1 DEF Edit
    <3>3. Asks({})
      BY <3>1, <3>2, Editing
    <3> QED BY <1>1, <1>4, <3>1, <3>3
  <2>2. CASE Autosave
    <3>1. Asks({"saveDraft"}) /\ screen.name = "game"
      BY <2>2, Saves DEF Autosave
    <3> QED BY <1>1, <1>4, <3>1 DEF ReportOps
  <2>3. CASE Upload \/ Simulate \/ OpenHistory \/ Create \/ \E force \in BOOLEAN : Publish(force)
    BY <1>2, <1>4, <2>3 DEF OtherSteps
  <2> QED BY <1>4, <2>1, <2>2, <2>3 DEF BuilderStep
<1>5. CASE ReportsStep
  <2>1. CASE Search
    BY <1>2, <2>1 DEF OtherSteps, Search
  <2> QED BY <1>5, <2>1, FilterKeepsReports, RunKeepsReports, LoadMoreKeepsReports, ExportKeepsReports DEF ReportsStep
<1>6. CASE DeskStep /\ UNCHANGED transactions
  <2>1. Asks(OperatorOps \cup UserOps) /\ screen.name # "reports"
    BY <1>6, DeskSteps
  <2>2. (OperatorOps \cup UserOps) \cap ReportOps = {}
    BY DEF OperatorOps, UserOps, ReportOps
  <2> QED BY <1>1, <1>6, <2>1, <2>2
<1>7. CASE Revoke /\ UNCHANGED transactions
  <2>1. UNCHANGED <<screen, calls, transactions>>
    BY <1>7 DEF Revoke
  <2> QED BY <2>1 DEF ReportsInv
<1>8. CASE UNCHANGED vars
  <2>1. UNCHANGED <<screen, calls, transactions>>
    BY <1>8 DEF vars, pageVars
  <2> QED BY <2>1 DEF ReportsInv
<1>9. CASE (Submit \/ SignOut) /\ UNCHANGED transactions
  BY <1>2, <1>9 DEF OtherSteps
<1>10. ASSUME NEW n \in DOMAIN calls,
              \/ ServeReports(n)
              \/ (ServeGame(n) \/ ServeDesk(n) \/ ServeLogin(n) \/ ServeLogout(n)) /\ UNCHANGED transactions
              \/ ComeToNothing(n)
       PROVE  ReportsInv'
  BY <1>10, ReportsServed
<1>11. ASSUME NEW n \in DOMAIN calls, Answer(n) PROVE ReportsInv'
  BY <1>11, AnswerKeepsReports
<1>12. ASSUME NEW n \in DOMAIN calls, ReadDraft(n), UNCHANGED transactions PROVE ReportsInv'
  BY <1>12, Reads, ReadKeepsReports
<1> QED BY <1>3, <1>4, <1>5, <1>6, <1>7, <1>8, <1>9, <1>10, <1>11, <1>12, InsertKeepsReports DEF Next

\* What the reports screen shows, and what an answer on its way to it says, is
\* of the ledger as it was when it was asked: rows are in its order and next
\* pages continue them, totals and exports are of the same query
\* (ReportsScreen.tsx's run, loadMore and exportCsv against query.ts).  A
\* cursor is not the marker for there being none.
THEOREM ReportsHold ==
  ASSUME NoFunction(NoValue)
  PROVE  Spec => []ReportsInv
<1>1. Init => PageInv /\ ReportsInv
  BY PageStarts, ReportsStart
<1>2. PageInv /\ ReportsInv /\ [Next]_vars => (PageInv /\ ReportsInv)'
  BY PageSteps, ReportsNext
<1> QED BY <1>1, <1>2, PTL DEF Spec

\* So a report that was only run and paged on is in the ledger's order, without
\* a row twice or of another query, lacks no row that was there when it was
\* run, and its totals are those of its rows when nothing was committed
\* between the two (ReportsScreen.tsx:164-175, query.ts:105-115), however many
\* rows the ledger has, however long a page, and in whatever order the calls
\* are served and answered.
THEOREM ReportsWhole ==
  ASSUME NoFunction(NoValue)
  PROVE  Spec => []ReportsAreWhole
<1>1. Spec => []ReportsInv
  BY ReportsHold
<1>2. ReportsInv => ReportsAreWhole
  BY ReportsAreWholeThen
<1> QED BY <1>1, <1>2, PTL
=============================================================================
