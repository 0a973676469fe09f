---------------------------- MODULE BonusSession ----------------------------
(***************************************************************************)
(* game-backend/src/bonus/session.ts: the bonus round a spin triggered is  *)
(* opened, stepped, paid, and closed when the player does not come back.   *)
(*                                                                         *)
(* A call is one HTTP request served by some game-backend process; a       *)
(* client or game-socket that retries is another call.  The identifier of  *)
(* a session is drawn by the call that opens it, so it is that call.       *)
(*                                                                         *)
(* Each transaction is one step.  It begins by writing the session row (or *)
(* its slot in the unique index on roundId) and what it writes does not    *)
(* depend on what it read, so a transaction that had to be run again did   *)
(* what it would have done at the moment it committed.                     *)
(***************************************************************************)
EXTENDS BonusModules

CONSTANTS
  Call,          \* requests being served
  Round,         \* the rounds that triggered a bonus
  Account,
  OwnerOf,       \* the account a round was played on
  ModuleOf,      \* evaluation.bonusModuleId of a round
  BetOf,         \* totalBet of a round
  Seeds,         \* what generateSeed may return
  Requests,      \* the requests that arrive
  AbandonAfter,  \* ABANDON_AFTER_MS, in the clock's units
  MaxTime,       \* bound: the last clock reading
  NoSession, NoRequest, NoReply

Time == 0..MaxTime

StartRequest == [op : {"start"}, round : Round]
StepRequest == [op : {"step"}, account : Account, session : Call, action : Tile \cup {"spin"}]

ASSUME SessionAssumption ==
  /\ OwnerOf \in [Round -> Account]
  /\ ModuleOf \in [Round -> ModuleId]
  /\ BetOf \in [Round -> Nat \ {0}]
  /\ Seeds \subseteq Seed /\ Seeds # {}
  /\ Requests \subseteq StartRequest \cup StepRequest
  /\ AbandonAfter \in Nat
  /\ MaxTime \in Nat

Status == {"active", "resolved", "abandoned"}
SessionRow ==
  [round : Round, status : Status, totalWin : Nat, state : ModuleState, seed : Seeds,
   stepIndex : Nat, createdAt : Time]

ASSUME NoSessionAssumption == NoSession \notin SessionRow

VARIABLES
  sessions,  \* the bonusSessions collection, by bonusSessionId
  credits,   \* the bonus credits in the ledger
  live,      \* the version in the games collection
  now,       \* the clock
  pc,        \* where each call is
  request,   \* what it was asked
  loaded,    \* the version it loaded, 0 when it holds none
  seen,      \* the stepIndex it read
  row,       \* the row it is about to insert, or the one it claimed
  reply      \* what it answered

vars == <<sessions, credits, live, now, pc, request, loaded, seen, row, reply>>

-----------------------------------------------------------------------------
SessionsOf(r) == {s \in Call : sessions[s] # NoSession /\ sessions[s].round = r}

Expired(session, t) == session.status = "active" /\ session.createdAt < t - AbandonAfter

\* Mutant: the guard that there is something to pay is missing.
CreditNothingToo(s, session, amount) ==
  IF \E k \in credits : k.id = s THEN credits
  ELSE credits \cup {[id |-> s, round |-> session.round, amount |-> amount]}

\* creditWithinSession under `${bonusSessionId}:bonus-credit`: a second credit
\* of one session changes nothing, and neither does one of nothing.
Credit(s, session, amount) ==
  IF amount = 0 \/ (\E k \in credits : k.id = s) THEN credits
  ELSE credits \cup {[id |-> s, round |-> session.round, amount |-> amount]}

Goto(c, label) == pc' = [pc EXCEPT ![c] = label]

Answer(c, outcome) ==
  /\ Goto(c, "done")
  /\ reply' = [reply EXCEPT ![c] = outcome]
  /\ loaded' = [loaded EXCEPT ![c] = 0]

\* The route loads the live version before it looks at any session.  A client
\* steps a session it was told of; nothing ever deletes one.
Arrive(c) ==
  /\ pc[c] = "idle"
  /\ loaded' = [loaded EXCEPT ![c] = live]
  /\ \E r \in Requests :
       /\ r.op = "step" => sessions[r.session] # NoSession
       /\ request' = [request EXCEPT ![c] = r]
       /\ Goto(c, IF r.op = "start" THEN "find" ELSE "read")
  /\ UNCHANGED <<sessions, credits, live, now, seen, row, reply>>

-----------------------------------------------------------------------------
(* startBonus                                                              *)

\* The session of the round if there is one; otherwise the module is started
\* and the row made.
Find(c) ==
  LET r == request[c].round IN
  /\ pc[c] = "find"
  /\ \/ /\ SessionsOf(r) # {}
        /\ Answer(c, "existing")
        /\ UNCHANGED row
     \/ /\ SessionsOf(r) = {}
        /\ \E seed \in Seeds :
             LET started == Start(loaded[c], ModuleOf[r], BetOf[r], seed) IN
             row' = [row EXCEPT ![c] =
               [round |-> r, status |-> IF started.done THEN "resolved" ELSE "active",
                totalWin |-> started.totalWin, state |-> started.state, seed |-> seed,
                stepIndex |-> 1, createdAt |-> now]]
        /\ Goto(c, "open")
        /\ UNCHANGED <<loaded, reply>>
  /\ UNCHANGED <<sessions, credits, live, now, request, seen>>

\* Mutant: there is no unique index on roundId.
OpenAnyway(c) ==
  /\ pc[c] = "open"
  /\ sessions' = [sessions EXCEPT ![c] = row[c]]
  /\ credits' = Credit(c, row[c], row[c].totalWin)
  /\ Answer(c, "opened")
  /\ UNCHANGED <<live, now, request, seen, row>>

\* The row and its payment, in one transaction; roundId is unique.
Open(c) ==
  /\ pc[c] = "open"
  /\ IF SessionsOf(row[c].round) # {}
     THEN Answer(c, "duplicate_key") /\ UNCHANGED <<sessions, credits>>
     ELSE /\ sessions' = [sessions EXCEPT ![c] = row[c]]
          /\ credits' = Credit(c, row[c], row[c].totalWin)
          /\ Answer(c, "opened")
  /\ UNCHANGED <<live, now, request, seen, row>>

-----------------------------------------------------------------------------
(* stepBonus                                                               *)

\* The row as it is read, and what the read alone refuses.
Refusal(c) ==
  LET s == request[c].session IN
  IF OwnerOf[sessions[s].round] # request[c].account THEN "not_found"
  ELSE IF sessions[s].status = "abandoned" \/ Expired(sessions[s], now) THEN "abandoned"
  ELSE IF sessions[s].status = "resolved" THEN "finished"
  ELSE "none"

Read(c) ==
  /\ pc[c] = "read"
  /\ \/ /\ Refusal(c) # "none"
        /\ Answer(c, Refusal(c))
        /\ UNCHANGED seen
     \/ /\ Refusal(c) = "none"
        /\ seen' = [seen EXCEPT ![c] = sessions[request[c].session].stepIndex]
        /\ Goto(c, "claim")
        /\ UNCHANGED <<loaded, reply>>
  /\ UNCHANGED <<sessions, credits, live, now, request, row>>

\* Mutant: the step is claimed whatever its index.
ClaimAny(c) ==
  LET s == request[c].session IN
  /\ pc[c] = "claim"
  /\ sessions' = [sessions EXCEPT ![s].stepIndex = seen[c] + 1]
  /\ row' = [row EXCEPT ![c] = [sessions[s] EXCEPT !.stepIndex = seen[c]]]
  /\ Goto(c, "write")
  /\ UNCHANGED <<credits, live, now, request, loaded, seen, reply>>

\* findOneAndUpdate on status and stepIndex, returning the row as it was.
Claim(c) ==
  LET s == request[c].session IN
  /\ pc[c] = "claim"
  /\ IF sessions[s].status = "active" /\ sessions[s].stepIndex = seen[c]
     THEN /\ sessions' = [sessions EXCEPT ![s].stepIndex = @ + 1]
          /\ row' = [row EXCEPT ![c] = sessions[s]]
          /\ Goto(c, "write")
          /\ UNCHANGED <<loaded, reply>>
     ELSE /\ Answer(c, "in_progress")
          /\ UNCHANGED <<sessions, row>>
  /\ UNCHANGED <<credits, live, now, request, seen>>

Accepted(c) == Accepts(ModuleOf[row[c].round], row[c].state, request[c].action)

\* module.step throws: the step stays claimed, the state as it was.
Refuse(c) ==
  /\ pc[c] = "write"
  /\ ~Accepted(c)
  /\ Answer(c, "invalid_action")
  /\ UNCHANGED <<sessions, credits, live, now, request, seen, row>>

Result(c) ==
  LET r == row[c].round IN Step(loaded[c], ModuleOf[r], BetOf[r], row[c].seed, row[c].state, request[c].action)

\* Mutant: the status goes with every write.
SteppedActive(session, result) ==
  [session EXCEPT !.state = result.state, !.status = IF result.done THEN "resolved" ELSE "active",
                  !.totalWin = result.totalWin]

\* The row after the write of a step's result.
Stepped(session, result) ==
  IF result.done
  THEN [session EXCEPT !.state = result.state, !.status = "resolved", !.totalWin = result.totalWin]
  ELSE [session EXCEPT !.state = result.state]

\* Mutant: the payment is lost when the process dies after the row is written.
WriteThenPay(c) ==
  LET s == request[c].session IN
  /\ pc[c] = "write"
  /\ Accepted(c)
  /\ sessions' = [sessions EXCEPT ![s] = Stepped(@, Result(c))]
  /\ \/ credits' = Credit(s, row[c], Result(c).totalWin)
     \/ credits' = credits
  /\ Answer(c, "stepped")
  /\ UNCHANGED <<live, now, request, seen, row>>

\* The state and, when the round is over, the payment, in one transaction that
\* names the row by its identifier alone.
Write(c) ==
  LET s == request[c].session IN
  /\ pc[c] = "write"
  /\ Accepted(c)
  /\ sessions' = [sessions EXCEPT ![s] = Stepped(@, Result(c))]
  /\ credits' = Credit(s, row[c], Result(c).totalWin)
  /\ Answer(c, "stepped")
  /\ UNCHANGED <<live, now, request, seen, row>>

-----------------------------------------------------------------------------
(* sweepAbandonedSessions, and the environment.                            *)

\* Mutant: only the rows that have been stepped are looked at.
SweepStepped(s) ==
  /\ sessions[s] # NoSession
  /\ sessions[s].stepIndex > 1
  /\ Expired(sessions[s], now)
  /\ sessions' = [sessions EXCEPT ![s].status = "abandoned"]
  /\ UNCHANGED <<credits, live, now, pc, request, loaded, seen, row, reply>>

\* updateMany, which is atomic for each row.
Sweep(s) ==
  /\ sessions[s] # NoSession
  /\ Expired(sessions[s], now)
  /\ sessions' = [sessions EXCEPT ![s].status = "abandoned"]
  /\ UNCHANGED <<credits, live, now, pc, request, loaded, seen, row, reply>>

\* The process serving the call dies between two steps.
Crash(c) ==
  /\ pc[c] \notin {"idle", "done", "crashed"}
  /\ Goto(c, "crashed")
  /\ loaded' = [loaded EXCEPT ![c] = 0]
  /\ UNCHANGED <<sessions, credits, live, now, request, seen, row, reply>>

Tick ==
  /\ now < MaxTime
  /\ now' = now + 1
  /\ UNCHANGED <<sessions, credits, live, pc, request, loaded, seen, row, reply>>

\* The next version goes live.
Publish ==
  /\ live < LastVersion
  /\ live' = live + 1
  /\ UNCHANGED <<sessions, credits, now, pc, request, loaded, seen, row, reply>>

Init ==
  /\ sessions = [c \in Call |-> NoSession]
  /\ credits = {}
  /\ live = 1
  /\ now = 0
  /\ pc = [c \in Call |-> "idle"]
  /\ request = [c \in Call |-> NoRequest]
  /\ loaded = [c \in Call |-> 0]
  /\ seen = [c \in Call |-> 0]
  /\ row = [c \in Call |-> NoSession]
  /\ reply = [c \in Call |-> NoReply]

\* What the process serving c does next by itself.
Serve(c) == Find(c) \/ Open(c) \/ Read(c) \/ Claim(c) \/ Refuse(c) \/ Write(c)

Next ==
  \/ \E c \in Call : Arrive(c) \/ Serve(c) \/ Crash(c) \/ Sweep(c)
  \/ Tick
  \/ Publish

\* Time passes and the sweep runs again and again in every process that is
\* up; a call is worked on until it is answered or its process dies.
Fairness ==
  /\ WF_vars(Tick)
  /\ \A c \in Call : WF_vars(Sweep(c)) /\ WF_vars(Serve(c))

Spec == Init /\ [][Next]_vars
FairSpec == Spec /\ Fairness

-----------------------------------------------------------------------------
(* Types.                                                                  *)

CreditRow == [id : Call, round : Round, amount : Nat \ {0}]

Label == {"idle", "find", "open", "read", "claim", "write", "done", "crashed"}

Replies == {"existing", "opened", "duplicate_key", "not_found", "abandoned", "finished",
            "in_progress", "invalid_action", "stepped"}

\* Every variable has its type; the state of a session is that of its module.
TypeOK ==
  /\ sessions \in [Call -> SessionRow \cup {NoSession}]
  /\ credits \subseteq CreditRow
  /\ live \in Version
  /\ now \in Time
  /\ pc \in [Call -> Label]
  /\ request \in [Call -> Requests \cup {NoRequest}]
  /\ loaded \in [Call -> Version \cup {0}]
  /\ seen \in [Call -> Nat]
  /\ row \in [Call -> SessionRow \cup {NoSession}]
  /\ reply \in [Call -> Replies \cup {NoReply}]

-----------------------------------------------------------------------------
(* Safety.                                                                 *)

\* One triggering spin opens at most one session and pays at most once,
\* however often the start or a step is retried or run concurrently.
PaidOncePerRound ==
  /\ \A s1, s2 \in Call :
       sessions[s1] # NoSession /\ sessions[s2] # NoSession /\ sessions[s1].round = sessions[s2].round
       => s1 = s2
  /\ \A k1, k2 \in credits : k1.round = k2.round => k1 = k2

\* A bonus recorded as won is paid, and nothing else is: no crash leaves a
\* resolved session owing its win, none is paid that is not resolved.
ResolvedIsPaid ==
  /\ \A s \in Call :
       sessions[s] # NoSession /\ sessions[s].status = "resolved" /\ sessions[s].totalWin > 0
       => \E k \in credits : k.id = s
  /\ \A k \in credits : sessions[k.id] # NoSession /\ sessions[k.id].status = "resolved"

Claimed(c) == row[c] # NoSession /\ request[c].op = "step"

\* stepBonus: exactly one caller can ever claim a given step of a session.
StepClaimedOnce ==
  \A c1, c2 \in Call :
    Claimed(c1) /\ Claimed(c2) /\ request[c1].session = request[c2].session
      /\ row[c1].stepIndex = row[c2].stepIndex
    => c1 = c2

\* freeSpins: the cap on retriggers makes every round finite.  Each step applies
\* the cap and the grant of the version that is live when it begins, so a round
\* played across publishes is bounded by the largest of them, also when two
\* steps work on one state.
SpinsGranted(state) ==
  /\ state.retriggers <= MostRetriggers
  /\ state.played + state.remaining <= MostSpins + MostGranted * state.retriggers

FreeSpinsAreFinite ==
  \A s \in Call :
    sessions[s] # NoSession /\ ModuleOf[sessions[s].round] = "freeSpins" => SpinsGranted(sessions[s].state)

\* A resolved session is never reopened or swept, whatever is still running.
ResolvedIsFinal ==
  [][\A s \in Call :
       sessions[s] # NoSession /\ sessions[s].status = "resolved" => sessions'[s].status = "resolved"]_vars

\* The comment on stepBonus: the recorded total cannot disagree with what was
\* actually paid.
RecordedIsPaid ==
  \A k \in credits : sessions[k.id].totalWin = k.amount

-----------------------------------------------------------------------------
(* Liveness.                                                               *)

\* Nothing stays open for ever: a bonus whose deadline can pass is resolved
\* or abandoned.
EveryBonusCloses ==
  \A s \in Call :
    (sessions[s] # NoSession /\ sessions[s].createdAt + AbandonAfter < MaxTime)
      ~> (sessions[s] # NoSession /\ sessions[s].status # "active")
=============================================================================
