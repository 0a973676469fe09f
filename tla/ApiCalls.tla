------------------------------ MODULE ApiCalls ------------------------------
(***************************************************************************)
(* The calls that backoffice-api, integration-api and game-backend serve   *)
(* over one database, and the audit log the backoffice writes.             *)
(*                                                                         *)
(* A call is one HTTP request.  Every await of its handler is a step, so   *)
(* other calls, of the same process or of another, run between two of its  *)
(* reads and writes.  A situation says which requests may arrive, how many *)
(* of them, how far the clock runs, and what the database holds at first.  *)
(***************************************************************************)
EXTENDS Integers, FiniteSets

CONSTANTS
  Call,         \* requests being served
  User,         \* e-mail addresses, which name the backoffice's users
  Situation,    \* the situations a behaviour may start from
  SituationOf,  \* what each of them is
  NoValue

VARIABLES
  situation,    \* the situation of this behaviour
  now,          \* the clock
  pc,           \* where each call is
  request,      \* what it was asked
  session,      \* the session token it came with (request.user)
  seen,         \* what it read and still uses
  reply,        \* what it answered, or where it was when its process died
  during,       \* history: the calls that ran while it ran
  audit         \* the auditLogs collection

callVars == <<situation, now, pc, request, session, seen, reply, during, audit>>

InFlight == {c \in Call : pc[c] \notin {"idle", "done", "crashed"}}

\* Two calls of which one began before the other had ended.
Overlap(c, d) == d \in during[c]

Asked(c, label, op) == pc[c] = label /\ request[c].op = op

Frame == UNCHANGED <<situation, now, request, session, during>>

\* The handler goes on, with what it has read.
Goto(c, label, value) ==
  /\ pc' = [pc EXCEPT ![c] = label]
  /\ seen' = [seen EXCEPT ![c] = value]
  /\ UNCHANGED <<reply, audit>>
  /\ Frame

Answer(c, outcome) ==
  /\ pc' = [pc EXCEPT ![c] = "done"]
  /\ seen' = [seen EXCEPT ![c] = NoValue]
  /\ reply' = [reply EXCEPT ![c] = outcome]
  /\ UNCHANGED audit
  /\ Frame

-----------------------------------------------------------------------------
\* A request of the situation arrives, with a token if its route wants one.
Arrive(c, issued, first) ==
  /\ pc[c] = "idle"
  /\ Cardinality({d \in Call : pc[d] # "idle"}) < SituationOf[situation].calls
  /\ \E r \in SituationOf[situation].requests :
       /\ request' = [request EXCEPT ![c] = r]
       /\ IF "as" \in DOMAIN r
          THEN \E t \in issued :
                 /\ t.user = r.as
                 /\ session' = [session EXCEPT ![c] = t]
                 /\ pc' = [pc EXCEPT ![c] = "hook"]
          ELSE pc' = [pc EXCEPT ![c] = first[r.op]] /\ UNCHANGED session
  /\ during' = [d \in Call |-> IF d = c THEN InFlight
                               ELSE IF d \in InFlight THEN during[d] \cup {c} ELSE during[d]]
  /\ UNCHANGED <<situation, now, seen, reply, audit>>

AuditEntry(c, actor) == [call |-> c, actor |-> actor, op |-> request[c].op]

\* writeAuditLog: an insert that fails is swallowed.
WriteAudit(c, actor) ==
  /\ pc[c] = "audit"
  /\ audit' \in {audit, audit \cup {AuditEntry(c, actor)}}
  /\ pc' = [pc EXCEPT ![c] = "done"]
  /\ seen' = [seen EXCEPT ![c] = NoValue]
  /\ reply' = [reply EXCEPT ![c] = "ok"]
  /\ Frame

\* The process serving the call dies.
Crash(c) ==
  /\ c \in InFlight
  /\ Cardinality({d \in Call : pc[d] = "crashed"}) < SituationOf[situation].crashes
  /\ pc' = [pc EXCEPT ![c] = "crashed"]
  /\ reply' = [reply EXCEPT ![c] = pc[c]]
  /\ seen' = [seen EXCEPT ![c] = NoValue]
  /\ UNCHANGED audit
  /\ Frame

Tick ==
  /\ now < SituationOf[situation].until
  /\ now' = now + 1
  /\ UNCHANGED <<situation, pc, request, session, seen, reply, during, audit>>

CallsInit ==
  /\ situation \in Situation
  /\ now = 0
  /\ pc = [c \in Call |-> "idle"]
  /\ request = [c \in Call |-> NoValue]
  /\ session = [c \in Call |-> NoValue]
  /\ seen = [c \in Call |-> NoValue]
  /\ reply = [c \in Call |-> NoValue]
  /\ during = [c \in Call |-> {}]
  /\ audit = {}
=============================================================================
