------------------------- MODULE BonusSessionProofs -------------------------
(***************************************************************************)
(* Proofs about BonusSession for every value of its constants.             *)
(*                                                                         *)
(* The modules come first: what a start or a step returns for a session of *)
(* the module's type.  The invariant then says three things of a call that *)
(* holds a row it claimed: the session is still there, it is the same      *)
(* round on the same seed, and its stepIndex is past the one claimed.      *)
(*                                                                         *)
(* The last part is about amounts: what a module has accumulated is the    *)
(* sum of the prizes it has drawn, in a session and in every row claimed   *)
(* of it, so that whatever row a step works on, it pays a sum of prizes.   *)
(***************************************************************************)
EXTENDS BonusSessionTotals, SumsProofs

\* The state of a session or of a claimed row.
StateInv(session) ==
  LET module == ModuleOf[session.round] IN
  /\ session.state \in StateOf(module)
  /\ module = "freeSpins" => SpinsGranted(session.state)

\* What each call holds.
CallOK(c) ==
  /\ pc[c] = "idle" => row[c] = NoSession
  /\ pc[c] \in {"find", "open"} => request[c] \in StartRequest /\ sessions[c] = NoSession
  /\ pc[c] \in {"find", "read", "claim", "write"} => loaded[c] \in Version
  /\ pc[c] \in {"idle", "find", "read", "claim"} => row[c] = NoSession /\ sessions[c] = NoSession
  /\ pc[c] \in {"open", "write"} => row[c] # NoSession
  /\ pc[c] = "open" => (row[c].totalWin > 0 => row[c].status = "resolved")
  /\ pc[c] \in {"read", "claim", "write"} =>
       request[c] \in StepRequest /\ sessions[c] = NoSession /\ sessions[request[c].session] # NoSession
  /\ row[c] # NoSession => request[c] \in StartRequest \cup StepRequest /\ StateInv(row[c])

CallInv == \A c \in Call : CallOK(c)

\* A claimed row is an earlier state of the session.
ClaimOK(c) ==
  Claimed(c) =>
    LET s == request[c].session IN
    /\ sessions[s] # NoSession
    /\ row[c].round = sessions[s].round
    /\ row[c].seed = sessions[s].seed
    /\ row[c].stepIndex < sessions[s].stepIndex

ClaimInv == \A c \in Call : ClaimOK(c)

SessionInv ==
  /\ \A s \in Call : sessions[s] # NoSession => StateInv(sessions[s])
  /\ \A s1, s2 \in Call :
       sessions[s1] # NoSession /\ sessions[s2] # NoSession /\ sessions[s1].round = sessions[s2].round
       => s1 = s2

CreditInv ==
  /\ \A k \in credits : sessions[k.id] # NoSession /\ sessions[k.id].round = k.round
  /\ \A k1, k2 \in credits : k1.id = k2.id => k1 = k2

IInv == TypeOK /\ CallInv /\ ClaimInv /\ SessionInv /\ CreditInv /\ ResolvedIsPaid /\ StepClaimedOnce

-----------------------------------------------------------------------------
(* The modules.                                                            *)

LEMMA TimesType ==
  ASSUME NEW a \in Nat, NEW b \in Nat
  PROVE  Times(a, b) \in Nat
<1>1. a * b \in Nat
  OBVIOUS
<1> DEFINE n == a * b
<1>2. n \div Part \in Nat
  <2> SUFFICES ASSUME NEW m \in Nat
               PROVE  m \div Part \in Nat
    BY <1>1
  <2> QED
    BY ModuleAssumption
<1> QED
  BY <1>2 DEF Times

\* The cap on retriggers bounds the spins a round can be granted.
LEMMA SpinsGrantedBound ==
  ASSUME NEW retriggers \in Nat, retriggers <= MostRetriggers
  PROVE  /\ MostGranted * retriggers \in Nat
         /\ MostSpins + MostGranted * retriggers <= MaxSpins
         /\ MaxSpins \in Nat
<1> DEFINE n == MostGranted * retriggers
           d == MostGranted * (MostRetriggers - retriggers)
<1>1. n \in Nat /\ d \in Nat
  <2>1. MostRetriggers - retriggers \in Nat
    BY ModuleAssumption
  <2> QED
    BY <2>1, ModuleAssumption
<1>2. MostGranted * MostRetriggers = n + d
  BY ModuleAssumption
<1> HIDE DEF n, d
<1>3. MostSpins + n <= MaxSpins /\ MaxSpins \in Nat
  BY <1>1, <1>2, ModuleAssumption DEF MaxSpins
<1> QED
  BY <1>1, <1>3 DEF n

\* What a module returns is a state of that module, and a win only at the end.
IsOutput(module, o) ==
  /\ o.state \in StateOf(module)
  /\ module = "freeSpins" => SpinsGranted(o.state)
  /\ o.done \in BOOLEAN
  /\ o.totalWin \in Nat
  /\ o.totalWin > 0 => o.done

LEMMA OutputType ==
  ASSUME NEW module, NEW state \in StateOf(module), module = "freeSpins" => SpinsGranted(state),
         NEW done \in BOOLEAN, NEW totalWin \in Nat, totalWin > 0 => done
  PROVE  IsOutput(module, Output(state, done, totalWin))
<1>1. CASE done = TRUE
  BY <1>1 DEF IsOutput, Output
<1>2. CASE done = FALSE
  BY <1>2 DEF IsOutput, Output
<1> QED
  BY <1>1, <1>2

LEMMA PickStateType ==
  ASSUME NEW revealed \in SUBSET Tile, NEW accumulated \in Nat, NEW done \in BOOLEAN
  PROVE  [revealed |-> revealed, accumulated |-> accumulated, done |-> done] \in StateOf("pick")
BY DEF StateOf, PickState

\* The parameters of a version, within their bounds.
LEMMA ParamsType ==
  ASSUME NEW version \in Version
  PROVE  /\ Params[version].spinCount \in Nat /\ Params[version].spinCount <= MostSpins
         /\ Params[version].retriggerSpins \in Nat /\ Params[version].retriggerSpins <= MostGranted
         /\ Params[version].maxRetriggers \in Nat /\ Params[version].maxRetriggers <= MostRetriggers
         /\ Params[version].winMultiplier \in Nat
BY ModuleAssumption DEF FreeSpinsConfig

LEMMA StartOutput ==
  ASSUME NEW version \in Version, NEW module \in ModuleId, NEW bet \in Nat, NEW seed \in Seed
  PROVE  IsOutput(module, Start(version, module, bet, seed))
<1>1. CASE module = "wheel"
  <2>1. seed.multiplier \in Nat
    BY DEF Seed
  <2> QED
    BY <1>1, <2>1, TimesType DEF IsOutput, Start, Output, StateOf, WheelState
<1>2. CASE module = "pick"
  BY <1>2 DEF IsOutput, Start, Output, StateOf, PickState
<1>3. CASE module = "freeSpins"
  <2>1. MostGranted * 0 = 0
    BY ModuleAssumption
  <2> QED
    BY <1>3, <2>1, ModuleAssumption, ParamsType DEF IsOutput, Start, Output, StateOf, FreeSpinsState, SpinsGranted
<1> QED
  BY <1>1, <1>2, <1>3 DEF ModuleId

LEMMA PickOutput ==
  ASSUME NEW bet \in Nat, NEW seed \in Seed, NEW state \in PickState, NEW tile \in Tile
  PROVE  IsOutput("pick", PickTile(bet, seed, state, tile))
<1> DEFINE blank == seed.tiles[tile] = Blank
           revealed == state.revealed \cup {tile}
           accumulated == state.accumulated + (IF blank THEN 0 ELSE seed.tiles[tile])
           done == blank \/ Prizes(seed) \subseteq revealed
           totalWin == IF done THEN Times(bet, accumulated) ELSE 0
<1>1. seed.tiles[tile] \in Nat \cup {Blank}
  BY DEF Seed
<1>2. accumulated \in Nat
  BY <1>1 DEF PickState
<1>3. revealed \in SUBSET Tile
  BY DEF PickState
<1>4. totalWin \in Nat /\ (totalWin > 0 => done) /\ done \in BOOLEAN
  <2>1. Times(bet, accumulated) \in Nat
    BY <1>2, TimesType
  <2>2. done \in BOOLEAN
    OBVIOUS
  <2>3. CASE done
    BY <2>1, <2>2, <2>3
  <2>4. CASE ~done
    BY <2>2, <2>4
  <2> QED
    BY <2>3, <2>4
<1>5. [revealed |-> revealed, accumulated |-> accumulated, done |-> done] \in StateOf("pick")
  BY <1>2, <1>3, <1>4, PickStateType
<1>6. IsOutput("pick", Output([revealed |-> revealed, accumulated |-> accumulated, done |-> done],
                              done, totalWin))
  BY <1>4, <1>5, OutputType
<1> QED
  BY <1>6 DEF PickTile

\* A spin that is left has a number within the bound.
LEMMA PlayedBound ==
  ASSUME NEW state \in FreeSpinsState, SpinsGranted(state)
  PROVE  state.played \in 0..MaxSpins
<1> DEFINE n == MostGranted * state.retriggers
<1>1. state.remaining \in Nat /\ state.played \in Nat /\ state.retriggers \in Nat
  BY DEF FreeSpinsState
<1>2. n \in Nat /\ MostSpins + n <= MaxSpins /\ MaxSpins \in Nat
  BY <1>1, SpinsGrantedBound DEF SpinsGranted
<1>3. state.played + state.remaining <= MostSpins + n
  BY DEF SpinsGranted
<1> HIDE DEF n
<1> QED
  BY <1>1, <1>2, <1>3, ModuleAssumption

LEMMA FreeSpinOutput ==
  ASSUME NEW version \in Version, NEW seed \in Seed, NEW state \in FreeSpinsState, SpinsGranted(state),
         state.remaining > 0
  PROVE  IsOutput("freeSpins", PlayFreeSpin(version, seed, state))
<1> DEFINE spin == seed.spins[version][state.played]
           grant == Params[version].retriggerSpins
           retriggered == spin.triggers /\ state.retriggers < Params[version].maxRetriggers
           remaining == state.remaining - 1 + (IF retriggered THEN grant ELSE 0)
           retriggers == state.retriggers + (IF retriggered THEN 1 ELSE 0)
           accumulated == state.accumulated + Times(spin.win, Params[version].winMultiplier)
           totalWin == IF remaining <= 0 THEN accumulated ELSE 0
<1>1. /\ state.remaining \in Nat /\ state.played \in Nat /\ state.retriggers \in Nat
      /\ state.accumulated \in Nat
  BY DEF FreeSpinsState
<1>2. state.played \in 0..MaxSpins
  BY <1>1, PlayedBound
<1>3. spin.win \in Nat /\ spin.triggers \in BOOLEAN
  <2>1. spin \in FreeSpin
    BY <1>2 DEF Seed
  <2> QED
    BY <2>1 DEF FreeSpin
<1>4. accumulated \in Nat
  <2>1. Times(spin.win, Params[version].winMultiplier) \in Nat
    BY <1>3, TimesType, ParamsType
  <2> HIDE DEF spin
  <2> QED
    BY <1>1, <2>1
<1>5. remaining \in Nat /\ retriggers \in Nat /\ retriggers <= MostRetriggers
  BY <1>1, <1>3, ModuleAssumption, ParamsType DEF SpinsGranted
<1>6. state.played + 1 + remaining <= MostSpins + MostGranted * retriggers
  <2> DEFINE n == MostGranted * state.retriggers
             g == MostGranted * retriggers
  <2>1. n \in Nat /\ state.played + state.remaining <= MostSpins + n
    BY <1>1, SpinsGrantedBound DEF SpinsGranted
  <2>2. MostGranted * (state.retriggers + 1) = n + MostGranted
    BY <1>1, ModuleAssumption
  <2>3. \/ remaining = state.remaining - 1 + grant /\ g = n + MostGranted
        \/ remaining = state.remaining - 1 /\ g = n
    <3>1. CASE retriggered
      <4>1. retriggers = state.retriggers + 1 /\ remaining = state.remaining - 1 + grant
        BY <3>1
      <4> QED
        BY <4>1, <2>2
    <3>2. CASE ~retriggered
      <4>1. retriggers = state.retriggers /\ remaining = state.remaining - 1
        BY <1>1, <3>2
      <4> QED
        BY <4>1
    <3> QED
      BY <3>1, <3>2
  <2>4. grant \in Nat /\ grant <= MostGranted
    BY ParamsType
  <2>5. state.played + 1 + remaining <= MostSpins + g
    <3> HIDE DEF n, g, grant, remaining, retriggers
    <3> QED
      BY <1>1, <2>1, <2>3, <2>4, ModuleAssumption
  <2> QED
    BY <2>5
<1>7. totalWin \in Nat /\ (totalWin > 0 => remaining <= 0)
  BY <1>4
<1> DEFINE next == [remaining |-> remaining, played |-> state.played + 1, retriggers |-> retriggers,
                    accumulated |-> accumulated, done |-> remaining <= 0]
<1>8. next \in StateOf("freeSpins")
  <2>1. state.played + 1 \in Nat /\ (remaining <= 0) \in BOOLEAN
    BY <1>1
  <2> QED
    BY <1>4, <1>5, <2>1 DEF StateOf, FreeSpinsState
<1>9. SpinsGranted(next)
  BY <1>5, <1>6 DEF SpinsGranted
<1>10. IsOutput("freeSpins", Output(next, remaining <= 0, totalWin))
  <2> DEFINE done == remaining <= 0
  <2>1. done \in BOOLEAN /\ (totalWin > 0 => done)
    BY <1>7
  <2>2. totalWin \in Nat
    BY <1>7
  <2> HIDE DEF next, totalWin, remaining, done
  <2>3. IsOutput("freeSpins", Output(next, done, totalWin))
    BY <1>8, <1>9, <2>1, <2>2, OutputType
  <2> QED
    BY <2>3 DEF done
<1> QED
  BY <1>10 DEF PlayFreeSpin

LEMMA StepOutput ==
  ASSUME NEW version \in Version, NEW module \in ModuleId, NEW bet \in Nat, NEW seed \in Seed,
         NEW state \in StateOf(module),
         module = "freeSpins" => SpinsGranted(state), NEW action, Accepts(module, state, action)
  PROVE  IsOutput(module, Step(version, module, bet, seed, state, action))
<1>1. CASE module = "pick"
  <2>1. state \in PickState /\ action \in Tile
    BY <1>1 DEF StateOf, Accepts
  <2> QED
    BY <1>1, <2>1, PickOutput DEF Step
<1>2. CASE module = "freeSpins"
  <2>1. state \in FreeSpinsState /\ state.remaining > 0
    BY <1>2 DEF StateOf, Accepts
  <2> QED
    BY <1>2, <2>1, FreeSpinOutput DEF Step
<1> QED
  BY <1>1, <1>2 DEF Accepts

-----------------------------------------------------------------------------
(* Rows.                                                                   *)

LEMMA RowType ==
  ASSUME NEW session \in SessionRow
  PROVE  /\ session.round \in Round /\ session.status \in Status /\ session.totalWin \in Nat
         /\ session.seed \in Seeds /\ session.stepIndex \in Nat /\ session.createdAt \in Time
         /\ session.state \in ModuleState
         /\ session # NoSession
         /\ ModuleOf[session.round] \in ModuleId
         /\ BetOf[session.round] \in Nat
         /\ session.seed \in Seed
BY SessionAssumption, NoSessionAssumption DEF SessionRow

LEMMA StateOfModule ==
  ASSUME NEW module
  PROVE  StateOf(module) \subseteq ModuleState
BY DEF StateOf, ModuleState

\* What a start makes of a round, and what an accepted step makes of a row.
LEMMA ResultType ==
  ASSUME NEW version \in Version, NEW session \in SessionRow, StateInv(session), NEW action,
         Accepts(ModuleOf[session.round], session.state, action)
  PROVE  IsOutput(ModuleOf[session.round],
                  Step(version, ModuleOf[session.round], BetOf[session.round], session.seed, session.state, action))
BY RowType, StepOutput DEF StateInv

LEMMA SteppedRow ==
  ASSUME NEW session \in SessionRow, NEW result, IsOutput(ModuleOf[session.round], result)
  PROVE  LET stepped == Stepped(session, result) IN
         /\ stepped \in SessionRow
         /\ StateInv(stepped)
         /\ stepped.round = session.round
         /\ stepped.seed = session.seed
         /\ stepped.stepIndex = session.stepIndex
         /\ result.done => stepped.status = "resolved" /\ stepped.totalWin = result.totalWin
         /\ ~result.done => stepped.status = session.status /\ stepped.totalWin = session.totalWin
<1>1. result.state \in ModuleState
  BY StateOfModule DEF IsOutput
<1>2. CASE result.done
  BY <1>1, <1>2 DEF Stepped, SessionRow, Status, StateInv, IsOutput
<1>3. CASE ~result.done
  BY <1>1, <1>3 DEF Stepped, SessionRow, Status, StateInv, IsOutput
<1> QED
  BY <1>2, <1>3 DEF IsOutput

LEMMA CreditFacts ==
  ASSUME credits \subseteq CreditRow, NEW s \in Call, NEW session \in SessionRow, NEW amount \in Nat
  PROVE  LET new == Credit(s, session, amount) IN
         /\ new \subseteq CreditRow
         /\ credits \subseteq new
         /\ \A k \in new \ credits : k.id = s /\ k.round = session.round /\ amount > 0
         /\ amount > 0 => \E k \in new : k.id = s
         /\ (\E k \in credits : k.id = s) => new = credits
         /\ \A k1, k2 \in new \ credits : k1 = k2
<1> DEFINE k0 == [id |-> s, round |-> session.round, amount |-> amount]
<1>1. CASE amount = 0 \/ \E k \in credits : k.id = s
  <2>1. Credit(s, session, amount) = credits
    BY <1>1 DEF Credit
  <2> QED
    BY <1>1, <2>1
<1>2. CASE amount > 0 /\ ~\E k \in credits : k.id = s
  <2>1. Credit(s, session, amount) = credits \cup {k0}
    BY <1>2 DEF Credit
  <2>2. k0 \in CreditRow /\ k0.id = s /\ k0.round = session.round
    BY <1>2, RowType DEF CreditRow
  <2> HIDE DEF k0
  <2> QED
    BY <1>2, <2>1, <2>2
<1> QED
  BY <1>1, <1>2

-----------------------------------------------------------------------------
(* The invariant holds initially.                                          *)

LEMMA InitIInv == Init => IInv
<1> SUFFICES ASSUME Init PROVE IInv
  OBVIOUS
<1>1. TypeOK
  BY SessionAssumption, ModuleAssumption DEF Init, TypeOK, Time, Label, Version
<1>2. \A c \in Call : row[c] = NoSession /\ sessions[c] = NoSession /\ pc[c] = "idle"
  BY DEF Init
<1>3. credits = {}
  BY DEF Init
<1> QED
  BY <1>1, <1>2, <1>3 DEF IInv, CallInv, CallOK, ClaimInv, ClaimOK, Claimed, SessionInv, CreditInv, ResolvedIsPaid, StepClaimedOnce

-----------------------------------------------------------------------------
(* Every action preserves it.                                              *)

\* A call ends, by its answer or by the death of its process.
LEMMA StopsIInv ==
  ASSUME IInv, NEW c \in Call, NEW label \in {"done", "crashed"},
         pc' = [pc EXCEPT ![c] = label],
         reply' \in [Call -> Replies \cup {NoReply}],
         loaded' = [loaded EXCEPT ![c] = 0],
         UNCHANGED <<sessions, credits, live, now, request, seen, row>>
  PROVE  IInv'
<1>1. /\ pc' \in [Call -> Label] /\ pc'[c] = label /\ \A d \in Call \ {c} : pc'[d] = pc[d]
      /\ loaded' \in [Call -> Version \cup {0}] /\ \A d \in Call \ {c} : loaded'[d] = loaded[d]
  BY DEF IInv, TypeOK, Label
<1>2. TypeOK'
  BY <1>1 DEF IInv, TypeOK
<1>3. CallInv'
  <2>1. \A d \in Call : StateInv(row[d])' <=> StateInv(row[d])
    BY DEF StateInv
  <2> QED
    BY <1>1, <2>1 DEF IInv, CallInv, CallOK
<1>4. ClaimInv' /\ StepClaimedOnce'
  BY DEF IInv, ClaimInv, ClaimOK, StepClaimedOnce, Claimed
<1>5. SessionInv' /\ CreditInv' /\ ResolvedIsPaid'
  BY DEF IInv, SessionInv, CreditInv, ResolvedIsPaid, StateInv
<1> QED
  BY <1>2, <1>3, <1>4, <1>5 DEF IInv

LEMMA ArriveIInv ==
  ASSUME IInv, NEW c \in Call, Arrive(c)
  PROVE  IInv'
<1>1. pc[c] = "idle" /\ row[c] = NoSession /\ sessions[c] = NoSession
  BY DEF IInv, CallInv, CallOK, Arrive
<1>2. PICK r \in Requests :
        /\ r.op = "step" => sessions[r.session] # NoSession
        /\ request' = [request EXCEPT ![c] = r]
        /\ Goto(c, IF r.op = "start" THEN "find" ELSE "read")
  BY DEF Arrive
<1>3. UNCHANGED <<sessions, credits, live, now, seen, row, reply>>
  BY DEF Arrive
<1>4. /\ request' \in [Call -> Requests \cup {NoRequest}]
      /\ request'[c] = r
      /\ \A d \in Call \ {c} : request'[d] = request[d]
      /\ loaded' \in [Call -> Version \cup {0}]
      /\ loaded'[c] \in Version
      /\ \A d \in Call \ {c} : loaded'[d] = loaded[d]
  BY <1>2 DEF IInv, TypeOK, Arrive
<1>5. /\ pc' \in [Call -> Label]
      /\ pc'[c] = (IF r.op = "start" THEN "find" ELSE "read")
      /\ \A d \in Call \ {c} : pc'[d] = pc[d]
  BY <1>2 DEF IInv, TypeOK, Label, Goto
<1>6. \/ r \in StartRequest /\ r.op = "start"
      \/ r \in StepRequest /\ r.op = "step"
  BY SessionAssumption DEF StartRequest, StepRequest
<1>7. TypeOK'
  BY <1>3, <1>4, <1>5 DEF IInv, TypeOK
<1>8. CallInv'
  <2>1. \A d \in Call : StateInv(row[d])' <=> StateInv(row[d])
    BY <1>3 DEF StateInv
  <2>2. SUFFICES ASSUME NEW d \in Call PROVE CallOK(d)'
    BY DEF CallInv
  <2>3. CASE d = c
    BY <1>1, <1>2, <1>3, <1>4, <1>5, <1>6, <2>3 DEF CallOK
  <2>4. CASE d # c
    BY <1>3, <1>4, <1>5, <2>1, <2>4 DEF IInv, CallInv, CallOK
  <2> QED
    BY <2>3, <2>4
<1>9. ClaimInv' /\ StepClaimedOnce'
  <2>1. \A d \in Call : Claimed(d)' => Claimed(d) /\ request'[d] = request[d]
    BY <1>1, <1>3, <1>4 DEF Claimed
  <2>2. ClaimInv'
    BY <1>3, <2>1 DEF IInv, ClaimInv, ClaimOK
  <2>3. StepClaimedOnce'
    BY <1>3, <2>1 DEF IInv, StepClaimedOnce
  <2> QED
    BY <2>2, <2>3
<1>10. SessionInv' /\ CreditInv' /\ ResolvedIsPaid'
  BY <1>3 DEF IInv, SessionInv, CreditInv, ResolvedIsPaid, StateInv
<1> QED
  BY <1>7, <1>8, <1>9, <1>10 DEF IInv

\* A start either finds the session of its round or holds the row of a new one.
LEMMA FindIInv ==
  ASSUME IInv, NEW c \in Call, Find(c)
  PROVE  IInv'
<1> DEFINE r == request[c].round
<1>1. pc[c] = "find" /\ row[c] = NoSession /\ sessions[c] = NoSession /\ request[c] \in StartRequest
  BY DEF IInv, CallInv, CallOK, Find
<1>2. r \in Round /\ request[c].op = "start"
  BY <1>1 DEF StartRequest
<1>3. UNCHANGED <<sessions, credits, live, now, request, seen>> /\ loaded[c] \in Version
  BY DEF Find, IInv, CallInv, CallOK
<1>4. CASE Answer(c, "existing") /\ UNCHANGED row
  <2>1. pc' = [pc EXCEPT ![c] = "done"] /\ loaded' = [loaded EXCEPT ![c] = 0]
    BY <1>4 DEF Answer, Goto
  <2>2. reply' \in [Call -> Replies \cup {NoReply}]
    BY <1>4 DEF Answer, IInv, TypeOK, Replies
  <2> QED
    BY <1>3, <1>4, <2>1, <2>2, StopsIInv
<1>5. ASSUME NEW seed \in Seeds,
             row' = [row EXCEPT ![c] =
               [round |-> r, status |-> IF Start(loaded[c], ModuleOf[r], BetOf[r], seed).done THEN "resolved" ELSE "active",
                totalWin |-> Start(loaded[c], ModuleOf[r], BetOf[r], seed).totalWin,
                state |-> Start(loaded[c], ModuleOf[r], BetOf[r], seed).state, seed |-> seed,
                stepIndex |-> 1, createdAt |-> now]],
             Goto(c, "open"), UNCHANGED <<loaded, reply>>
      PROVE  IInv'
  <2> DEFINE started == Start(loaded[c], ModuleOf[r], BetOf[r], seed)
             new == [round |-> r, status |-> IF started.done THEN "resolved" ELSE "active",
                     totalWin |-> started.totalWin, state |-> started.state, seed |-> seed,
                     stepIndex |-> 1, createdAt |-> now]
  <2>1. IsOutput(ModuleOf[r], started)
    BY <1>2, <1>3, SessionAssumption, StartOutput
  <2>2. started.state \in ModuleState
    BY <2>1, StateOfModule DEF IsOutput
  <2>3. now \in Time
    BY DEF IInv, TypeOK
  <2>4. new \in SessionRow /\ StateInv(new) /\ (new.totalWin > 0 => new.status = "resolved")
    <3> HIDE DEF started
    <3> QED
      BY <1>2, <2>1, <2>2, <2>3 DEF IsOutput, SessionRow, Status, StateInv
  <2>5. row' = [row EXCEPT ![c] = new]
    BY <1>5
  <2> HIDE DEF new
  <2>6. /\ row' \in [Call -> SessionRow \cup {NoSession}]
        /\ row'[c] = new
        /\ \A d \in Call \ {c} : row'[d] = row[d]
    BY <2>4, <2>5 DEF IInv, TypeOK
  <2>7. /\ pc' \in [Call -> Label]
        /\ pc'[c] = "open"
        /\ \A d \in Call \ {c} : pc'[d] = pc[d]
    BY <1>5 DEF IInv, TypeOK, Label, Goto
  <2>8. TypeOK'
    BY <1>3, <1>5, <2>6, <2>7 DEF IInv, TypeOK
  <2>9. CallInv'
    <3>1. new # NoSession
      BY <2>4, RowType
    <3>2. SUFFICES ASSUME NEW d \in Call PROVE CallOK(d)'
      BY DEF CallInv
    <3>3. CASE d = c
      BY <1>1, <1>3, <2>4, <2>6, <2>7, <3>1, <3>3 DEF CallOK, StateInv
    <3>4. CASE d # c
      BY <1>3, <1>5, <2>6, <2>7, <3>4 DEF IInv, CallInv, CallOK, StateInv
    <3> QED
      BY <3>3, <3>4
  <2>10. \A d \in Call : Claimed(d)' => Claimed(d) /\ row'[d] = row[d]
    BY <1>2, <1>3, <2>6 DEF Claimed
  <2>11. ClaimInv'
    BY <1>3, <2>10 DEF IInv, ClaimInv, ClaimOK
  <2>12. StepClaimedOnce'
    BY <1>3, <2>10 DEF IInv, StepClaimedOnce
  <2>13. SessionInv' /\ CreditInv' /\ ResolvedIsPaid'
    BY <1>3 DEF IInv, SessionInv, CreditInv, ResolvedIsPaid, StateInv
  <2> QED
    BY <2>8, <2>9, <2>11, <2>12, <2>13 DEF IInv
<1> QED
  BY <1>4, <1>5 DEF Find

\* A step of an open session holds nothing before its claim.
LEMMA ReadIInv ==
  ASSUME IInv, NEW c \in Call, Read(c)
  PROVE  IInv'
<1> DEFINE s == request[c].session
<1>1. /\ pc[c] = "read" /\ row[c] = NoSession /\ sessions[c] = NoSession
      /\ request[c] \in StepRequest /\ sessions[s] # NoSession
  BY DEF IInv, CallInv, CallOK, Read
<1>2. s \in Call /\ sessions[s] \in SessionRow
  BY <1>1 DEF StepRequest, IInv, TypeOK
<1>3. UNCHANGED <<sessions, credits, live, now, request, row>> /\ loaded[c] \in Version
  BY DEF Read, IInv, CallInv, CallOK
<1>4. CASE Refusal(c) # "none" /\ Answer(c, Refusal(c)) /\ UNCHANGED seen
  <2>1. pc' = [pc EXCEPT ![c] = "done"] /\ loaded' = [loaded EXCEPT ![c] = 0]
    BY <1>4 DEF Answer, Goto
  <2>2. Refusal(c) \in Replies
    BY <1>4 DEF Refusal, Replies
  <2>3. reply' \in [Call -> Replies \cup {NoReply}]
    BY <1>4, <2>2 DEF Answer, IInv, TypeOK
  <2> QED
    BY <1>3, <1>4, <2>1, <2>3, StopsIInv
<1>5. CASE seen' = [seen EXCEPT ![c] = sessions[s].stepIndex] /\ Goto(c, "claim") /\ UNCHANGED <<loaded, reply>>
  <2>1. seen' \in [Call -> Nat]
    BY <1>2, <1>5, RowType DEF IInv, TypeOK
  <2>2. /\ pc' \in [Call -> Label]
        /\ pc'[c] = "claim"
        /\ \A d \in Call \ {c} : pc'[d] = pc[d]
    BY <1>5 DEF IInv, TypeOK, Label, Goto
  <2>3. TypeOK'
    BY <1>3, <1>5, <2>1, <2>2 DEF IInv, TypeOK
  <2>4. CallInv'
    <3>1. SUFFICES ASSUME NEW d \in Call PROVE CallOK(d)'
      BY DEF CallInv
    <3>2. CASE d = c
      BY <1>1, <1>3, <1>5, <2>2, <3>2 DEF CallOK
    <3>3. CASE d # c
      BY <1>3, <1>5, <2>2, <3>3 DEF IInv, CallInv, CallOK, StateInv
    <3> QED
      BY <3>2, <3>3
  <2>5. ClaimInv' /\ StepClaimedOnce'
    BY <1>3 DEF IInv, ClaimInv, ClaimOK, StepClaimedOnce, Claimed
  <2>6. SessionInv' /\ CreditInv' /\ ResolvedIsPaid'
    BY <1>3 DEF IInv, SessionInv, CreditInv, ResolvedIsPaid, StateInv
  <2> QED
    BY <2>3, <2>4, <2>5, <2>6 DEF IInv
<1> QED
  BY <1>4, <1>5 DEF Read

\* The row of a session s is replaced by one of the same round and seed that is
\* no earlier, and credits may grow by the payment of s.
LEMMA SessionWritten ==
  ASSUME IInv, NEW s \in Call, sessions[s] # NoSession,
         NEW new \in SessionRow, StateInv(new),
         new.round = sessions[s].round, new.seed = sessions[s].seed,
         new.stepIndex >= sessions[s].stepIndex,
         sessions' = [sessions EXCEPT ![s] = new],
         NEW amount \in Nat, NEW session \in SessionRow, session.round = new.round,
         credits' = Credit(s, session, amount),
         amount > 0 => new.status = "resolved",
         sessions[s].status = "resolved" => new.status = "resolved",
         new.status = "resolved" => \/ new.totalWin <= amount
                                    \/ sessions[s].status = "resolved" /\ new.totalWin <= sessions[s].totalWin
  PROVE  /\ sessions' \in [Call -> SessionRow \cup {NoSession}]
         /\ credits' \subseteq CreditRow
         /\ sessions'[s] = new
         /\ \A t \in Call \ {s} : sessions'[t] = sessions[t]
         /\ SessionInv' /\ CreditInv' /\ ResolvedIsPaid'
<1>1. /\ sessions' \in [Call -> SessionRow \cup {NoSession}]
      /\ sessions'[s] = new
      /\ \A t \in Call \ {s} : sessions'[t] = sessions[t]
  BY DEF IInv, TypeOK
<1>2. new # NoSession /\ sessions[s] \in SessionRow
  BY RowType DEF IInv, TypeOK
<1>3. credits \subseteq CreditRow
  BY DEF IInv, TypeOK
<1>4. /\ credits' \subseteq CreditRow
      /\ credits \subseteq credits'
      /\ \A k \in credits' \ credits : k.id = s /\ k.round = new.round /\ amount > 0
      /\ amount > 0 => \E k \in credits' : k.id = s
      /\ (\E k \in credits : k.id = s) => credits' = credits
      /\ \A k1, k2 \in credits' \ credits : k1 = k2
  BY <1>3, CreditFacts
<1>5. \A k \in credits' : k.id \in Call
  BY <1>4 DEF CreditRow
<1>6. \A t \in Call : (sessions[t] # NoSession <=> sessions'[t] # NoSession)
                      /\ (sessions[t] # NoSession => sessions'[t].round = sessions[t].round)
  BY <1>1, <1>2
<1>7. SessionInv'
  <2>1. \A t \in Call : sessions'[t] # NoSession => StateInv(sessions'[t])
    BY <1>1 DEF IInv, SessionInv
  <2>2. \A s1, s2 \in Call :
          sessions'[s1] # NoSession /\ sessions'[s2] # NoSession /\ sessions'[s1].round = sessions'[s2].round
          => s1 = s2
    BY <1>6 DEF IInv, SessionInv
  <2>3. \A t \in Call : StateInv(sessions[t])' <=> StateInv(sessions'[t])
    BY DEF StateInv
  <2> QED
    BY <2>1, <2>2, <2>3 DEF SessionInv
<1>8. CreditInv'
  <2>1. \A k \in credits' : sessions'[k.id] # NoSession /\ sessions'[k.id].round = k.round
    BY <1>1, <1>2, <1>4, <1>5, <1>6 DEF IInv, CreditInv
  <2>2. \A k1, k2 \in credits' : k1.id = k2.id => k1 = k2
    BY <1>4 DEF IInv, CreditInv
  <2> QED
    BY <2>1, <2>2 DEF CreditInv
<1>9. ResolvedIsPaid'
  <2>1. ASSUME NEW t \in Call, sessions'[t] # NoSession, sessions'[t].status = "resolved", sessions'[t].totalWin > 0
        PROVE  \E k \in credits' : k.id = t
    <3>1. CASE t # s
      BY <1>1, <1>4, <2>1, <3>1 DEF IInv, ResolvedIsPaid
    <3>2. CASE t = s /\ new.totalWin <= amount
      <4>1. amount > 0
        BY <1>1, <2>1, <3>2, RowType
      <4> QED
        BY <1>4, <3>2, <4>1
    <3>3. CASE t = s /\ sessions[s].status = "resolved" /\ new.totalWin <= sessions[s].totalWin
      <4>1. sessions[s].totalWin > 0
        BY <1>1, <1>2, <2>1, <3>3, RowType
      <4> QED
        BY <1>4, <3>3, <4>1 DEF IInv, ResolvedIsPaid
    <3> QED
      BY <1>1, <2>1, <3>1, <3>2, <3>3
  <2>2. \A k \in credits' : sessions'[k.id] # NoSession /\ sessions'[k.id].status = "resolved"
    BY <1>1, <1>2, <1>4, <1>5 DEF IInv, ResolvedIsPaid
  <2> QED
    BY <2>1, <2>2 DEF ResolvedIsPaid
<1> QED
  BY <1>1, <1>4, <1>7, <1>8, <1>9

\* A call that claims nothing keeps its part of the invariant while sessions
\* move forward.
LEMMA OtherCall ==
  ASSUME IInv, NEW d \in Call,
         (pc'[d] = pc[d] /\ loaded'[d] = loaded[d]) \/ pc'[d] = "done",
         row'[d] = row[d], request' = request,
         sessions' \in [Call -> SessionRow \cup {NoSession}],
         sessions[d] = NoSession => sessions'[d] = NoSession,
         \A t \in Call : sessions[t] # NoSession =>
           /\ sessions'[t] # NoSession
           /\ sessions'[t].round = sessions[t].round
           /\ sessions'[t].seed = sessions[t].seed
           /\ sessions'[t].stepIndex >= sessions[t].stepIndex
  PROVE  CallOK(d)' /\ ClaimOK(d)' /\ (Claimed(d)' <=> Claimed(d))
<1>1. Claimed(d)' <=> Claimed(d)
  BY DEF Claimed
<1>2. CallOK(d)'
  <2>1. request[d] \in StepRequest => request[d].session \in Call
    BY DEF StepRequest
  <2> QED
    BY <2>1 DEF IInv, CallInv, CallOK, StateInv
<1>3. ClaimOK(d)'
  <2> DEFINE s == request[d].session
  <2>1. SUFFICES ASSUME Claimed(d)
                 PROVE  /\ sessions'[s] # NoSession
                        /\ row[d].round = sessions'[s].round
                        /\ row[d].seed = sessions'[s].seed
                        /\ row[d].stepIndex < sessions'[s].stepIndex
    BY <1>1 DEF ClaimOK
  <2>2. request[d] \in StepRequest
    BY <2>1 DEF IInv, CallInv, CallOK, Claimed, StartRequest
  <2>3. s \in Call
    BY <2>2 DEF StepRequest
  <2>4. /\ sessions[s] # NoSession /\ row[d].round = sessions[s].round
        /\ row[d].seed = sessions[s].seed /\ row[d].stepIndex < sessions[s].stepIndex
    BY <2>1 DEF IInv, ClaimInv, ClaimOK
  <2>5. row[d].stepIndex \in Nat /\ sessions[s].stepIndex \in Nat /\ sessions'[s].stepIndex \in Nat
    BY <2>1, <2>3, <2>4, RowType DEF IInv, TypeOK, Claimed
  <2> QED
    BY <2>3, <2>4, <2>5
<1> QED
  BY <1>1, <1>2, <1>3

\* The row is inserted where no session of the round is.
LEMMA OpenIInv ==
  ASSUME IInv, NEW c \in Call, Open(c)
  PROVE  IInv'
<1>1. /\ pc[c] = "open" /\ request[c] \in StartRequest /\ sessions[c] = NoSession
      /\ row[c] # NoSession /\ StateInv(row[c])
      /\ row[c].totalWin > 0 => row[c].status = "resolved"
  BY DEF IInv, CallInv, CallOK, Open
<1>2. row[c] \in SessionRow /\ request[c].op = "start"
  BY <1>1 DEF IInv, TypeOK, StartRequest
<1>3. UNCHANGED <<live, now, request, seen, row>>
  BY DEF Open
<1>4. /\ pc' = [pc EXCEPT ![c] = "done"] /\ loaded' = [loaded EXCEPT ![c] = 0]
      /\ reply' \in [Call -> Replies \cup {NoReply}]
  BY DEF Open, Answer, Goto, IInv, TypeOK, Replies
<1>5. CASE UNCHANGED <<sessions, credits>>
  BY <1>3, <1>4, <1>5, StopsIInv
<1>6. CASE /\ SessionsOf(row[c].round) = {}
           /\ sessions' = [sessions EXCEPT ![c] = row[c]]
           /\ credits' = Credit(c, row[c], row[c].totalWin)
  <2>1. /\ sessions' \in [Call -> SessionRow \cup {NoSession}]
        /\ sessions'[c] = row[c]
        /\ \A t \in Call \ {c} : sessions'[t] = sessions[t]
    BY <1>2, <1>6 DEF IInv, TypeOK
  <2>2. /\ pc' \in [Call -> Label]
        /\ pc'[c] = "done"
        /\ \A d \in Call \ {c} : pc'[d] = pc[d] /\ loaded'[d] = loaded[d]
        /\ loaded' \in [Call -> Version \cup {0}]
    BY <1>4 DEF IInv, TypeOK, Label
  <2>3. /\ credits' \subseteq CreditRow
        /\ credits \subseteq credits'
        /\ \A k \in credits' \ credits : k.id = c /\ k.round = row[c].round /\ row[c].totalWin > 0
        /\ row[c].totalWin > 0 => \E k \in credits' : k.id = c
        /\ \A k1, k2 \in credits' \ credits : k1 = k2
    BY <1>2, <1>6, RowType, CreditFacts DEF IInv, TypeOK
  <2>4. \A k \in credits : k.id \in Call /\ k.id # c
    BY <1>1 DEF IInv, TypeOK, CreditInv, CreditRow
  <2>5. TypeOK'
    BY <1>3, <1>4, <2>1, <2>2, <2>3 DEF IInv, TypeOK
  <2>6. \A t \in Call : sessions[t] # NoSession => sessions'[t] = sessions[t]
    BY <1>1, <2>1
  <2>7. \A d \in Call \ {c} : CallOK(d)' /\ ClaimOK(d)' /\ (Claimed(d)' <=> Claimed(d))
    <3>1. \A t \in Call : sessions[t] # NoSession =>
            sessions'[t] = sessions[t] /\ sessions[t].stepIndex \in Nat
      BY <2>6, RowType DEF IInv, TypeOK
    <3> QED
      BY <1>3, <2>1, <2>2, <3>1, OtherCall
  <2>8. CallInv'
    <3>1. CallOK(c)'
      BY <1>1, <1>3, <2>2 DEF CallOK, StateInv
    <3> QED
      BY <2>7, <3>1 DEF CallInv
  <2>9. ~Claimed(c)' /\ ~Claimed(c)
    BY <1>2, <1>3 DEF Claimed
  <2>10. ClaimInv'
    BY <2>7, <2>9 DEF ClaimInv, ClaimOK
  <2>11. StepClaimedOnce'
    BY <1>3, <2>7, <2>9 DEF IInv, StepClaimedOnce
  <2>12. SessionInv'
    <3>1. \A t \in Call : StateInv(sessions[t])' <=> StateInv(sessions'[t])
      BY DEF StateInv
    <3>2. \A t \in Call : sessions'[t] # NoSession => StateInv(sessions'[t])
      BY <1>1, <2>1 DEF IInv, SessionInv
    <3>3. \A t \in Call \ {c} : sessions'[t] # NoSession => sessions'[t].round # row[c].round
      BY <1>6, <2>1 DEF SessionsOf
    <3> QED
      BY <2>1, <3>1, <3>2, <3>3 DEF IInv, SessionInv
  <2>13. CreditInv'
    BY <1>2, <2>1, <2>3, <2>4, RowType DEF IInv, CreditInv
  <2>14. ResolvedIsPaid'
    BY <1>1, <1>2, <2>1, <2>3, <2>4, RowType DEF IInv, ResolvedIsPaid
  <2> QED
    BY <2>5, <2>8, <2>10, <2>11, <2>12, <2>13, <2>14 DEF IInv
<1> QED
  BY <1>5, <1>6 DEF Open

\* The claim moves stepIndex past every claim made before it.
LEMMA ClaimIInv ==
  ASSUME IInv, NEW c \in Call, Claim(c)
  PROVE  IInv'
<1> DEFINE s == request[c].session
<1>1. /\ pc[c] = "claim" /\ row[c] = NoSession /\ sessions[c] = NoSession
      /\ request[c] \in StepRequest /\ sessions[s] # NoSession
  BY DEF IInv, CallInv, CallOK, Claim
<1>2. s \in Call /\ s # c /\ sessions[s] \in SessionRow /\ request[c].op = "step"
  BY <1>1 DEF StepRequest, IInv, TypeOK
<1>3. UNCHANGED <<credits, live, now, request, seen>> /\ loaded[c] \in Version
  BY DEF Claim, IInv, CallInv, CallOK
<1>4. CASE Answer(c, "in_progress") /\ UNCHANGED <<sessions, row>>
  <2>1. /\ pc' = [pc EXCEPT ![c] = "done"] /\ reply' \in [Call -> Replies \cup {NoReply}]
        /\ loaded' = [loaded EXCEPT ![c] = 0]
    BY <1>4 DEF Answer, Goto, IInv, TypeOK, Replies
  <2> QED
    BY <1>3, <1>4, <2>1, StopsIInv
<1>5. CASE /\ sessions[s].status = "active"
           /\ sessions' = [sessions EXCEPT ![s].stepIndex = @ + 1]
           /\ row' = [row EXCEPT ![c] = sessions[s]]
           /\ Goto(c, "write")
           /\ UNCHANGED <<loaded, reply>>
  <2> DEFINE new == [sessions[s] EXCEPT !.stepIndex = @ + 1]
  <2>1. /\ new \in SessionRow
        /\ new.round = sessions[s].round /\ new.seed = sessions[s].seed
        /\ new.state = sessions[s].state /\ new.totalWin = sessions[s].totalWin
        /\ new.status = sessions[s].status
        /\ new.stepIndex = sessions[s].stepIndex + 1
    BY <1>2 DEF SessionRow
  <2>2. StateInv(sessions[s]) /\ StateInv(new)
    BY <1>1, <1>2, <2>1 DEF IInv, SessionInv, StateInv
  <2>3. sessions' = [sessions EXCEPT ![s] = new]
    BY <1>5
  <2>4. credits' = Credit(s, new, 0)
    BY <1>3 DEF Credit
  <2>5. sessions[s].stepIndex \in Nat
    BY <1>2, RowType
  <2> HIDE DEF new
  <2>6. /\ sessions' \in [Call -> SessionRow \cup {NoSession}]
        /\ credits' \subseteq CreditRow
        /\ sessions'[s] = new
        /\ \A t \in Call \ {s} : sessions'[t] = sessions[t]
        /\ SessionInv' /\ CreditInv' /\ ResolvedIsPaid'
    <3>1. new.stepIndex >= sessions[s].stepIndex /\ sessions[s].totalWin \in Nat
      BY <1>2, <2>1, <2>5, RowType
    <3>2. new.status # "resolved"
      BY <1>5, <2>1
    <3> DEFINE amount == 0
    <3>3. amount \in Nat /\ ~(amount > 0) /\ credits' = Credit(s, new, amount)
      BY <2>4
    <3> HIDE DEF s, amount
    <3> QED
      BY <1>1, <1>2, <2>1, <2>2, <2>3, <3>1, <3>2, <3>3, SessionWritten
  <2>7. /\ row' \in [Call -> SessionRow \cup {NoSession}]
        /\ row'[c] = sessions[s]
        /\ \A d \in Call \ {c} : row'[d] = row[d]
    BY <1>2, <1>5 DEF IInv, TypeOK
  <2>8. /\ pc' \in [Call -> Label]
        /\ pc'[c] = "write"
        /\ \A d \in Call \ {c} : pc'[d] = pc[d]
    BY <1>5 DEF IInv, TypeOK, Label, Goto
  <2>9. TypeOK'
    BY <1>3, <1>5, <2>6, <2>7, <2>8 DEF IInv, TypeOK
  <2>10. \A d \in Call \ {c} : CallOK(d)' /\ ClaimOK(d)' /\ (Claimed(d)' <=> Claimed(d))
    <3>1. new # NoSession
      BY <2>1, RowType
    <3>2. \A t \in Call : sessions[t] # NoSession =>
            /\ sessions'[t] # NoSession
            /\ sessions'[t].round = sessions[t].round
            /\ sessions'[t].seed = sessions[t].seed
            /\ sessions'[t].stepIndex >= sessions[t].stepIndex
      BY <2>1, <2>5, <2>6, <3>1, RowType DEF IInv, TypeOK
    <3> QED
      BY <1>1, <1>3, <1>5, <2>6, <2>7, <2>8, <3>2, OtherCall
  <2>11. CallInv'
    <3>1. CallOK(c)'
      BY <1>1, <1>2, <1>3, <1>5, <2>1, <2>2, <2>6, <2>7, <2>8, RowType DEF CallOK, StateInv
    <3> QED
      BY <2>10, <3>1 DEF CallInv
  <2>12. ClaimInv'
    <3>1. ClaimOK(c)'
      BY <1>3, <2>1, <2>5, <2>6, <2>7, RowType DEF ClaimOK
    <3> QED
      BY <2>10, <3>1 DEF ClaimInv
  <2>13. StepClaimedOnce'
    <3>1. \A d \in Call \ {c} : Claimed(d)' /\ request[d].session = s => row'[d].stepIndex # row'[c].stepIndex
      <4>1. SUFFICES ASSUME NEW d \in Call \ {c}, Claimed(d), request[d].session = s
                     PROVE  row[d].stepIndex # sessions[s].stepIndex
        BY <2>7, <2>10
      <4>2. row[d].stepIndex < sessions[s].stepIndex
        BY <4>1 DEF IInv, ClaimInv, ClaimOK
      <4>3. row[d].stepIndex \in Nat
        BY <4>1, RowType DEF Claimed, IInv, TypeOK
      <4> QED
        BY <2>5, <4>2, <4>3
    <3> QED
      BY <1>3, <2>7, <2>10, <3>1 DEF IInv, StepClaimedOnce
  <2> QED
    BY <2>6, <2>9, <2>11, <2>12, <2>13 DEF IInv
<1> QED
  BY <1>4, <1>5 DEF Claim

\* The result of a claimed row is a state of its session, whichever step wrote
\* last, and the win it records is the one it credits.
LEMMA WriteIInv ==
  ASSUME IInv, NEW c \in Call, Write(c)
  PROVE  IInv'
<1> DEFINE s == request[c].session
           result == Result(c)
           new == Stepped(sessions[s], result)
<1>1. /\ pc[c] = "write" /\ row[c] # NoSession
      /\ request[c] \in StepRequest /\ sessions[s] # NoSession /\ StateInv(row[c])
      /\ loaded[c] \in Version
  BY DEF IInv, CallInv, CallOK, Write
<1>2. /\ s \in Call /\ sessions[s] \in SessionRow /\ row[c] \in SessionRow
      /\ request[c].op = "step"
  BY <1>1 DEF StepRequest, IInv, TypeOK
<1>3. /\ UNCHANGED <<live, now, request, seen, row>>
      /\ pc' = [pc EXCEPT ![c] = "done"] /\ loaded' = [loaded EXCEPT ![c] = 0]
      /\ reply' \in [Call -> Replies \cup {NoReply}]
      /\ sessions' = [sessions EXCEPT ![s] = new]
      /\ credits' = Credit(s, row[c], result.totalWin)
  BY DEF Write, Answer, Goto, IInv, TypeOK, Replies
<1>4. row[c].round = sessions[s].round
  BY <1>1, <1>2 DEF IInv, ClaimInv, ClaimOK, Claimed
<1>5. IsOutput(ModuleOf[sessions[s].round], result)
  <2>1. IsOutput(ModuleOf[row[c].round], result)
    BY <1>1, <1>2, ResultType DEF Write, Accepted, Result
  <2> QED
    BY <1>4, <2>1
<1>6. /\ new \in SessionRow /\ StateInv(new)
      /\ new.round = sessions[s].round /\ new.seed = sessions[s].seed
      /\ new.stepIndex = sessions[s].stepIndex
      /\ result.done => new.status = "resolved" /\ new.totalWin = result.totalWin
      /\ ~result.done => new.status = sessions[s].status /\ new.totalWin = sessions[s].totalWin
  BY <1>2, <1>5, SteppedRow
<1>7. /\ result.done \in BOOLEAN /\ result.totalWin \in Nat
      /\ result.totalWin > 0 => result.done
  BY <1>5 DEF IsOutput
<1> HIDE DEF new, result
<1>8. /\ sessions[s].stepIndex \in Nat /\ sessions[s].totalWin \in Nat
      /\ new.totalWin \in Nat /\ new # NoSession
  BY <1>2, <1>6, RowType
<1>9. /\ result.totalWin > 0 => new.status = "resolved"
      /\ sessions[s].status = "resolved" => new.status = "resolved"
      /\ new.status = "resolved" => \/ new.totalWin <= result.totalWin
                                    \/ sessions[s].status = "resolved" /\ new.totalWin <= sessions[s].totalWin
  <2>1. CASE result.done
    BY <1>6, <1>7, <1>8, <2>1
  <2>2. CASE ~result.done
    BY <1>6, <1>7, <1>8, <2>2
  <2> QED
    BY <2>1, <2>2
<1>10. /\ sessions' \in [Call -> SessionRow \cup {NoSession}]
       /\ credits' \subseteq CreditRow
       /\ sessions'[s] = new
       /\ \A t \in Call \ {s} : sessions'[t] = sessions[t]
       /\ SessionInv' /\ CreditInv' /\ ResolvedIsPaid'
  <2>1. new.stepIndex >= sessions[s].stepIndex /\ row[c].round = new.round
    BY <1>4, <1>6, <1>8
  <2> HIDE DEF s
  <2> QED
    BY <1>1, <1>2, <1>3, <1>6, <1>7, <1>9, <2>1, SessionWritten
<1>11. /\ pc' \in [Call -> Label]
       /\ \A d \in Call : (pc'[d] = pc[d] /\ loaded'[d] = loaded[d]) \/ pc'[d] = "done"
       /\ loaded' \in [Call -> Version \cup {0}]
  BY <1>3 DEF IInv, TypeOK, Label
<1>12. TypeOK'
  BY <1>3, <1>10, <1>11 DEF IInv, TypeOK
<1>13. \A d \in Call : CallOK(d)' /\ ClaimOK(d)' /\ (Claimed(d)' <=> Claimed(d))
  <2>1. \A t \in Call : sessions[t] # NoSession =>
          /\ sessions'[t] # NoSession
          /\ sessions'[t].round = sessions[t].round
          /\ sessions'[t].seed = sessions[t].seed
          /\ sessions'[t].stepIndex >= sessions[t].stepIndex
    BY <1>6, <1>8, <1>10, RowType DEF IInv, TypeOK
  <2> QED
    BY <1>1, <1>3, <1>10, <1>11, <2>1, OtherCall
<1>14. CallInv' /\ ClaimInv'
  BY <1>13 DEF CallInv, ClaimInv
<1>15. StepClaimedOnce'
  BY <1>3, <1>13 DEF IInv, StepClaimedOnce
<1> QED
  BY <1>10, <1>12, <1>14, <1>15 DEF IInv

\* Only an active session is swept, and its payment is left to nobody.
LEMMA SweepIInv ==
  ASSUME IInv, NEW s \in Call, Sweep(s)
  PROVE  IInv'
<1> DEFINE new == [sessions[s] EXCEPT !.status = "abandoned"]
           amount == 0
<1>1. /\ sessions[s] # NoSession /\ sessions[s] \in SessionRow
      /\ sessions' = [sessions EXCEPT ![s] = new]
      /\ UNCHANGED <<credits, live, now, pc, request, loaded, seen, row, reply>>
      /\ sessions[s].status = "active"
  BY DEF Sweep, Expired, IInv, TypeOK
<1>2. /\ new \in SessionRow
      /\ new.round = sessions[s].round /\ new.seed = sessions[s].seed
      /\ new.state = sessions[s].state /\ new.status = "abandoned"
      /\ new.stepIndex = sessions[s].stepIndex
  BY <1>1 DEF SessionRow, Status
<1>3. StateInv(new)
  BY <1>1, <1>2 DEF IInv, SessionInv, StateInv
<1>4. amount \in Nat /\ ~(amount > 0) /\ credits' = Credit(s, new, amount)
  BY <1>1 DEF Credit
<1>5. sessions[s].stepIndex \in Nat /\ new.stepIndex >= sessions[s].stepIndex /\ new # NoSession
  BY <1>1, <1>2, RowType
<1> HIDE DEF new, amount
<1>6. /\ sessions' \in [Call -> SessionRow \cup {NoSession}]
      /\ credits' \subseteq CreditRow
      /\ sessions'[s] = new
      /\ \A t \in Call \ {s} : sessions'[t] = sessions[t]
      /\ SessionInv' /\ CreditInv' /\ ResolvedIsPaid'
  BY <1>1, <1>2, <1>3, <1>4, <1>5, SessionWritten
<1>7. TypeOK'
  BY <1>1, <1>6 DEF IInv, TypeOK
<1>8. \A d \in Call : CallOK(d)' /\ ClaimOK(d)' /\ (Claimed(d)' <=> Claimed(d))
  <2>1. \A t \in Call : sessions[t] # NoSession =>
          /\ sessions'[t] # NoSession
          /\ sessions'[t].round = sessions[t].round
          /\ sessions'[t].seed = sessions[t].seed
          /\ sessions'[t].stepIndex >= sessions[t].stepIndex
    BY <1>2, <1>5, <1>6, RowType DEF IInv, TypeOK
  <2> QED
    BY <1>1, <1>6, <2>1, OtherCall
<1>9. CallInv' /\ ClaimInv'
  BY <1>8 DEF CallInv, ClaimInv
<1>10. StepClaimedOnce'
  BY <1>1, <1>8 DEF IInv, StepClaimedOnce
<1> QED
  BY <1>6, <1>7, <1>9, <1>10 DEF IInv

LEMMA UnchangedIInv ==
  ASSUME IInv, UNCHANGED <<sessions, credits, pc, request, loaded, seen, row, reply>>,
         live' \in Version, now' \in Time
  PROVE  IInv'
<1>1. TypeOK'
  BY DEF IInv, TypeOK
<1>2. CallInv'
  BY DEF IInv, CallInv, CallOK, StateInv
<1>3. ClaimInv' /\ StepClaimedOnce'
  BY DEF IInv, ClaimInv, ClaimOK, StepClaimedOnce, Claimed
<1>4. SessionInv' /\ CreditInv' /\ ResolvedIsPaid'
  BY DEF IInv, SessionInv, CreditInv, ResolvedIsPaid, StateInv
<1> QED
  BY <1>1, <1>2, <1>3, <1>4 DEF IInv

LEMMA NextIInv == IInv /\ [Next]_vars => IInv'
<1> SUFFICES ASSUME IInv, [Next]_vars PROVE IInv'
  OBVIOUS
<1>1. ASSUME NEW c \in Call, Serve(c) PROVE IInv'
  <2>1. CASE Refuse(c)
    <3>1. /\ pc' = [pc EXCEPT ![c] = "done"]
          /\ reply' \in [Call -> Replies \cup {NoReply}]
          /\ loaded' = [loaded EXCEPT ![c] = 0]
          /\ UNCHANGED <<sessions, credits, live, now, request, seen, row>>
      BY <2>1 DEF Refuse, Answer, Goto, IInv, TypeOK, Replies
    <3> QED
      BY <3>1, StopsIInv
  <2> QED
    BY <1>1, <2>1, FindIInv, OpenIInv, ReadIInv, ClaimIInv, WriteIInv DEF Serve
<1>2. ASSUME NEW c \in Call, Crash(c) PROVE IInv'
  <2>1. /\ pc' = [pc EXCEPT ![c] = "crashed"]
        /\ reply' \in [Call -> Replies \cup {NoReply}]
        /\ loaded' = [loaded EXCEPT ![c] = 0]
        /\ UNCHANGED <<sessions, credits, live, now, request, seen, row>>
    BY <1>2 DEF Crash, Goto, IInv, TypeOK
  <2> QED
    BY <2>1, StopsIInv
<1>3. CASE Tick
  <2>1. now' \in Time /\ live' \in Version
    BY <1>3, SessionAssumption DEF Tick, IInv, TypeOK, Time
  <2> QED
    BY <1>3, <2>1, UnchangedIInv DEF Tick
<1>4. CASE UNCHANGED vars
  <2>1. now' \in Time /\ live' \in Version
    BY <1>4 DEF vars, IInv, TypeOK
  <2> QED
    BY <1>4, <2>1, UnchangedIInv DEF vars
<1>5. CASE Publish
  <2>1. now' \in Time /\ live' \in Version
    BY <1>5, ModuleAssumption DEF Publish, Version, IInv, TypeOK
  <2> QED
    BY <1>5, <2>1, UnchangedIInv DEF Publish
<1> QED
  BY <1>1, <1>2, <1>3, <1>4, <1>5, ArriveIInv, SweepIInv DEF Next

-----------------------------------------------------------------------------
(* The theorems.                                                           *)

\* The inductive invariant holds of every reachable state.
THEOREM Invariance == Spec => []IInv
<1>1. Init => IInv
  BY InitIInv
<1>2. IInv /\ [Next]_vars => IInv'
  BY NextIInv
<1> QED
  BY <1>1, <1>2, PTL DEF Spec

\* Every variable keeps its type, whatever the module, the seed and the calls.
THEOREM TypeCorrect == Spec => []TypeOK
<1>1. IInv => TypeOK
  BY DEF IInv
<1> QED
  BY <1>1, Invariance, PTL

\* However many starts and steps are retried or overlap, a round has one
\* session and one credit.
THEOREM PaidOnce == Spec => []PaidOncePerRound
<1>1. IInv => PaidOncePerRound
  <2> SUFFICES ASSUME IInv PROVE PaidOncePerRound
    OBVIOUS
  <2>1. ASSUME NEW k1 \in credits, NEW k2 \in credits, k1.round = k2.round
        PROVE  k1 = k2
    <3>1. k1.id \in Call /\ k2.id \in Call
      BY DEF IInv, TypeOK, CreditRow
    <3>2. k1.id = k2.id
      BY <2>1, <3>1 DEF IInv, CreditInv, SessionInv
    <3> QED
      BY <3>2 DEF IInv, CreditInv
  <2> QED
    BY <2>1 DEF IInv, SessionInv, PaidOncePerRound
<1> QED
  BY <1>1, Invariance, PTL

\* A process that dies between any two steps leaves no resolved bonus unpaid
\* and no credit without its resolved bonus.
THEOREM Paid == Spec => []ResolvedIsPaid
<1>1. IInv => ResolvedIsPaid
  BY DEF IInv
<1> QED
  BY <1>1, Invariance, PTL

\* The claim admits one caller for each step of a session.
THEOREM ClaimedOnce == Spec => []StepClaimedOnce
<1>1. IInv => StepClaimedOnce
  BY DEF IInv
<1> QED
  BY <1>1, Invariance, PTL

\* However steps overlap and whatever is published between them, a round is
\* retriggered no more often than the largest cap of any version, and plays no
\* more spins than that many of the largest grants.
THEOREM FreeSpinsFinite == Spec => []FreeSpinsAreFinite
<1>1. IInv => FreeSpinsAreFinite
  BY DEF IInv, SessionInv, StateInv, FreeSpinsAreFinite
<1> QED
  BY <1>1, Invariance, PTL

\* No later step, start, sweep or crash takes a session out of "resolved".
THEOREM Final == Spec => ResolvedIsFinal
<1> DEFINE Keeps == \A s \in Call :
             sessions[s] # NoSession /\ sessions[s].status = "resolved" => sessions'[s].status = "resolved"
<1>1. IInv /\ [Next]_vars => Keeps
  <2> SUFFICES ASSUME IInv, [Next]_vars,
                      NEW s \in Call, sessions[s] # NoSession, sessions[s].status = "resolved"
               PROVE  sessions'[s].status = "resolved"
    OBVIOUS
  <2>1. sessions \in [Call -> SessionRow \cup {NoSession}] /\ sessions[s] \in SessionRow
    BY DEF IInv, TypeOK
  <2>2. CASE UNCHANGED sessions
    BY <2>2
  <2>3. ASSUME NEW c \in Call, Open(c), ~UNCHANGED sessions PROVE sessions'[s].status = "resolved"
    <3>1. sessions[c] = NoSession /\ sessions' = [sessions EXCEPT ![c] = row[c]]
      BY <2>3 DEF Open, IInv, CallInv, CallOK
    <3> QED
      BY <2>1, <3>1
  <2>4. ASSUME NEW c \in Call, Claim(c), ~UNCHANGED sessions PROVE sessions'[s].status = "resolved"
    <3>1. sessions' = [sessions EXCEPT ![request[c].session].stepIndex = @ + 1]
      BY <2>4 DEF Claim
    <3> QED
      BY <2>1, <3>1 DEF SessionRow
  <2>5. ASSUME NEW c \in Call, Write(c) PROVE sessions'[s].status = "resolved"
    <3> DEFINE result == Result(c)
    <3>1. sessions' = [sessions EXCEPT ![request[c].session] = Stepped(@, result)]
      BY <2>5 DEF Write
    <3>2. CASE s = request[c].session
      <4> HIDE DEF result
      <4>1. sessions'[s] = Stepped(sessions[s], result)
        BY <2>1, <3>1, <3>2
      <4> QED
        BY <2>1, <4>1 DEF Stepped, SessionRow
    <3>3. CASE s # request[c].session
      BY <2>1, <3>1, <3>3
    <3> QED
      BY <3>2, <3>3
  <2>6. ASSUME NEW c \in Call, Sweep(c) PROVE sessions'[s].status = "resolved"
    BY <2>1, <2>6 DEF Sweep, Expired
  <2> QED
    BY <2>2, <2>3, <2>4, <2>5, <2>6 DEF Next, vars, Serve, Arrive, Find, Read, Refuse, Crash, Tick, Publish
<1>2. IInv /\ [Next]_vars => [Keeps]_vars
  BY <1>1
<1> QED
  BY <1>2, Invariance, PTL DEF Spec, ResolvedIsFinal

-----------------------------------------------------------------------------
(* What has been earned.                                                   *)

\* What a module has accumulated is the sum of the prizes it has drawn.
Earned(module, seed, state) ==
  /\ module = "pick" =>
       /\ IsFiniteSet(state.revealed)
       /\ state.accumulated = SumOver(seed.tiles, state.revealed \cap Prizes(seed))
  /\ module = "freeSpins" =>
       \E on \in [0..MaxSpins -> Version] :
         state.accumulated = SumOver(SpinWins(seed, on), 0..(state.played - 1))

EarnedState(session) == Earned(ModuleOf[session.round], session.seed, session.state)

\* A row that is about to be opened pays what the seed says, if it pays.
EarnedInv ==
  /\ \A s \in Call : sessions[s] # NoSession => EarnedState(sessions[s])
  /\ \A c \in Call : row[c] # NoSession => EarnedState(row[c])
  /\ \A c \in Call : pc[c] = "open" /\ row[c].totalWin > 0 => row[c].totalWin \in Payable(row[c])
  /\ CreditsAreEarned

LEMMA TilesType ==
  ASSUME NEW seed \in Seed
  PROVE  \A t \in Prizes(seed) : seed.tiles[t] \in Nat
BY DEF Prizes, Seed

LEMMA SpinWinsType ==
  ASSUME NEW seed \in Seed, NEW on \in [0..MaxSpins -> Version], NEW i \in 0..MaxSpins
  PROVE  /\ SpinWins(seed, on)[i] = Times(seed.spins[on[i]][i].win, Params[on[i]].winMultiplier)
         /\ SpinWins(seed, on)[i] \in Nat
<1>1. on[i] \in Version /\ seed.spins[on[i]][i] \in FreeSpin
  BY DEF Seed
<1>2. seed.spins[on[i]][i].win \in Nat
  BY <1>1 DEF FreeSpin
<1>3. Times(seed.spins[on[i]][i].win, Params[on[i]].winMultiplier) \in Nat
  BY <1>1, <1>2, TimesType, ParamsType
<1> QED
  BY <1>3 DEF SpinWins

\* Nothing is accumulated when a module starts, and the wheel pays at once.
LEMMA StartEarns ==
  ASSUME NEW version \in Version, NEW module \in ModuleId, NEW bet \in Nat, NEW seed \in Seed
  PROVE  /\ Earned(module, seed, Start(version, module, bet, seed).state)
         /\ Start(version, module, bet, seed).totalWin > 0 =>
              module = "wheel" /\ Start(version, module, bet, seed).totalWin = Times(bet, seed.multiplier)
<1>1. CASE module = "wheel"
  BY <1>1 DEF Earned, Start, Output
<1>2. CASE module = "pick"
  <2>1. IsFiniteSet({}) /\ {} \cap Prizes(seed) = {} /\ SumOver(seed.tiles, {}) = 0
    BY FS_EmptySet, SumOfNone
  <2> QED
    BY <1>2, <2>1 DEF Earned, Start, Output
<1>3. CASE module = "freeSpins"
  <2>1. 0..(0 - 1) = {}
    OBVIOUS
  <2> DEFINE on == [i \in 0..MaxSpins |-> version]
  <2>2. on \in [0..MaxSpins -> Version] /\ SumOver(SpinWins(seed, on), 0..(0 - 1)) = 0
    BY <2>1, SumOfNone
  <2> HIDE DEF on
  <2> QED
    BY <1>3, <2>2 DEF Earned, Start, Output
<1> QED
  BY <1>1, <1>2, <1>3 DEF ModuleId

\* A tile that was not revealed adds its prize, or nothing when it is blank.
LEMMA PickEarns ==
  ASSUME NEW bet \in Nat, NEW seed \in Seed, NEW state \in PickState, NEW tile \in Tile \ state.revealed,
         Earned("pick", seed, state)
  PROVE  LET o == PickTile(bet, seed, state, tile) IN
         /\ Earned("pick", seed, o.state)
         /\ o.totalWin > 0 =>
              \E picked \in SUBSET Prizes(seed) : o.totalWin = Times(bet, SumOver(seed.tiles, picked))
<1> DEFINE prizes == Prizes(seed)
           blank == seed.tiles[tile] = Blank
           revealed == state.revealed \cup {tile}
           accumulated == state.accumulated + (IF blank THEN 0 ELSE seed.tiles[tile])
           done == blank \/ Prizes(seed) \subseteq revealed
           o == PickTile(bet, seed, state, tile)
<1>1. /\ IsFiniteSet(state.revealed)
      /\ state.accumulated = SumOver(seed.tiles, state.revealed \cap prizes)
  BY DEF Earned
<1>2. IsFiniteSet(revealed)
  BY <1>1, FS_AddElement
<1>3. accumulated = SumOver(seed.tiles, revealed \cap prizes)
  <2>1. state.accumulated \in Nat
    BY DEF PickState
  <2>2. CASE blank
    <3>1. revealed \cap prizes = state.revealed \cap prizes
      BY <2>2 DEF Prizes
    <3> QED
      BY <1>1, <2>1, <2>2, <3>1
  <2>3. CASE ~blank
    <3> DEFINE S == state.revealed \cap prizes
    <3>1. revealed \cap prizes = S \cup {tile} /\ tile \notin S /\ tile \in prizes
      BY <2>3 DEF Prizes
    <3>2. IsFiniteSet(S)
      BY <1>1, FS_Subset
    <3>3. \A t \in S \cup {tile} : seed.tiles[t] \in Int
      BY <3>1, TilesType
    <3>4. SumOver(seed.tiles, S \cup {tile}) = SumOver(seed.tiles, S) + seed.tiles[tile]
      <4> HIDE DEF S
      <4> QED
        BY <3>1, <3>2, <3>3, SumAdds
    <3> QED
      BY <1>1, <2>3, <3>1, <3>4
  <2> QED
    BY <2>2, <2>3
<1>4. /\ o.state.revealed = revealed /\ o.state.accumulated = accumulated
      /\ o.totalWin = IF done THEN Times(bet, accumulated) ELSE 0
  BY DEF PickTile, Output
<1>5. Earned("pick", seed, o.state)
  BY <1>2, <1>3, <1>4 DEF Earned
<1>6. o.totalWin > 0 => o.totalWin = Times(bet, SumOver(seed.tiles, revealed \cap prizes))
  BY <1>3, <1>4
<1>7. revealed \cap prizes \in SUBSET Prizes(seed)
  OBVIOUS
<1> HIDE DEF o, revealed, prizes
<1>8. o.totalWin > 0 =>
        \E picked \in SUBSET Prizes(seed) : o.totalWin = Times(bet, SumOver(seed.tiles, picked))
  BY <1>6, <1>7
<1> QED
  BY <1>5, <1>8 DEF o

\* A free spin adds what the spin of its number wins on the version loaded; the
\* versions of the spins before it stay what they were.
LEMMA SpinEarns ==
  ASSUME NEW version \in Version, NEW seed \in Seed, NEW state \in FreeSpinsState, SpinsGranted(state),
         state.remaining > 0, Earned("freeSpins", seed, state)
  PROVE  LET o == PlayFreeSpin(version, seed, state) IN
         /\ Earned("freeSpins", seed, o.state)
         /\ o.totalWin > 0 =>
              \E n \in 0..MaxSpins, on \in [0..MaxSpins -> Version] : o.totalWin = SumOver(SpinWins(seed, on), 0..n)
<1> DEFINE n == state.played
           win == Times(seed.spins[version][n].win, Params[version].winMultiplier)
           accumulated == state.accumulated + win
           o == PlayFreeSpin(version, seed, state)
<1>1. n \in Nat /\ state.accumulated \in Nat
  BY DEF FreeSpinsState
<1>2. n \in 0..MaxSpins
  BY PlayedBound
<1>3. MaxSpins \in Int
  <2>1. 0 \in Nat /\ 0 <= MostRetriggers
    BY ModuleAssumption
  <2> QED
    BY <2>1, SpinsGrantedBound
<1>4. PICK before \in [0..MaxSpins -> Version] :
        state.accumulated = SumOver(SpinWins(seed, before), 0..(n - 1))
  BY DEF Earned
<1> DEFINE on == [before EXCEPT ![n] = version]
           f == SpinWins(seed, on)
           S == 0..(n - 1)
<1>5. /\ on \in [0..MaxSpins -> Version]
      /\ on[n] = version
      /\ \A i \in 0..MaxSpins : i # n => on[i] = before[i]
  BY <1>2
<1> HIDE DEF on
<1>6. 0..n = S \cup {n} /\ n \notin S /\ S \subseteq 0..MaxSpins
  BY <1>1, <1>2, <1>3
<1>7. IsFiniteSet(S)
  <2>1. 0 \in Int /\ n - 1 \in Int
    BY <1>1
  <2> HIDE DEF n
  <2> QED
    BY <2>1, FS_Interval
<1>8. f[n] = win /\ \A i \in 0..MaxSpins : f[i] \in Int
  <2>1. \A i \in 0..MaxSpins :
          f[i] = Times(seed.spins[on[i]][i].win, Params[on[i]].winMultiplier) /\ f[i] \in Nat
    BY <1>5, SpinWinsType
  <2> HIDE DEF f, n
  <2> QED
    BY <1>2, <1>5, <2>1
<1>9. SumOver(SpinWins(seed, before), S) = SumOver(f, S)
  <2> DEFINE g == SpinWins(seed, before)
  <2>1. \A i \in S : g[i] = f[i]
    <3>1. \A i \in 0..MaxSpins : g[i] = Times(seed.spins[before[i]][i].win, Params[before[i]].winMultiplier)
      BY <1>4, SpinWinsType
    <3>2. \A i \in 0..MaxSpins : f[i] = Times(seed.spins[on[i]][i].win, Params[on[i]].winMultiplier)
      BY <1>5, SpinWinsType
    <3> HIDE DEF f, g, n, S
    <3> QED
      BY <1>5, <1>6, <3>1, <3>2
  <2> HIDE DEF f, g, S
  <2>2. SumOver(g, S) = SumOver(f, S)
    BY <1>7, <2>1, SumSame
  <2> QED
    BY <2>2 DEF g
<1>10. accumulated = SumOver(f, 0..n)
  <2>1. f[n] \in Int /\ \A i \in S : f[i] \in Int
    BY <1>2, <1>6, <1>8
  <2>2. SumOver(f, S \cup {n}) = SumOver(f, S) + f[n]
    <3> HIDE DEF S, f, n
    <3> QED
      BY <1>6, <1>7, <2>1, SumAdds
  <2> QED
    BY <1>4, <1>6, <1>8, <1>9, <2>2
<1>11. /\ o.state.accumulated = accumulated /\ o.state.played = n + 1
       /\ o.totalWin > 0 => o.totalWin = accumulated
  BY DEF PlayFreeSpin, Output
<1>12. Earned("freeSpins", seed, o.state)
  <2>1. (n + 1) - 1 = n
    BY <1>1
  <2> HIDE DEF o
  <2> QED
    BY <1>5, <1>10, <1>11, <2>1 DEF Earned
<1>13. o.totalWin > 0 => o.totalWin = SumOver(SpinWins(seed, on), 0..n)
  BY <1>10, <1>11
<1> HIDE DEF o, n, f
<1>14. o.totalWin > 0 =>
         \E i \in 0..MaxSpins, v \in [0..MaxSpins -> Version] : o.totalWin = SumOver(SpinWins(seed, v), 0..i)
  BY <1>2, <1>5, <1>13
<1> QED
  BY <1>12, <1>14 DEF o

\* An accepted step of a row keeps what the row has earned, and wins what the
\* session may pay.
LEMMA StepEarns ==
  ASSUME NEW version \in Version, NEW session \in SessionRow, StateInv(session), EarnedState(session),
         NEW action, Accepts(ModuleOf[session.round], session.state, action)
  PROVE  LET o == Step(version, ModuleOf[session.round], BetOf[session.round], session.seed, session.state, action) IN
         /\ Earned(ModuleOf[session.round], session.seed, o.state)
         /\ o.totalWin > 0 => o.totalWin \in Payable(session)
<1> DEFINE module == ModuleOf[session.round]
           bet == BetOf[session.round]
           seed == session.seed
           state == session.state
           o == Step(version, module, bet, seed, state, action)
<1>1. bet \in Nat /\ seed \in Seed
  BY RowType
<1>2. CASE module = "pick"
  <2>1. state \in PickState /\ action \in Tile \ state.revealed
    BY <1>2 DEF Accepts, StateInv, StateOf
  <2>2. o = PickTile(bet, seed, state, action)
    BY <1>2 DEF Step
  <2>3. /\ Earned("pick", seed, o.state)
        /\ o.totalWin > 0 =>
             \E picked \in SUBSET Prizes(seed) : o.totalWin = Times(bet, SumOver(seed.tiles, picked))
    <3>1. Earned("pick", seed, state)
      BY <1>2 DEF EarnedState
    <3> HIDE DEF bet, seed, state
    <3> QED
      BY <1>1, <2>1, <2>2, <3>1, PickEarns DEF o
  <2>4. Payable(session) = {Times(bet, SumOver(seed.tiles, picked)) : picked \in SUBSET Prizes(seed)}
    BY <1>2 DEF Payable
  <2> HIDE DEF o, bet, seed
  <2> QED
    BY <1>2, <2>3, <2>4 DEF o, bet, seed
<1>3. CASE module = "freeSpins"
  <2>1. state \in FreeSpinsState /\ state.remaining > 0 /\ SpinsGranted(state)
    BY <1>3 DEF Accepts, StateInv, StateOf
  <2>2. o = PlayFreeSpin(version, seed, state)
    BY <1>3 DEF Step
  <2>3. /\ Earned("freeSpins", seed, o.state)
        /\ o.totalWin > 0 =>
             \E n \in 0..MaxSpins, on \in [0..MaxSpins -> Version] : o.totalWin = SumOver(SpinWins(seed, on), 0..n)
    <3>1. Earned("freeSpins", seed, state)
      BY <1>3 DEF EarnedState
    <3> HIDE DEF seed, state
    <3> QED
      BY <1>1, <2>1, <2>2, <3>1, SpinEarns DEF o
  <2>4. Payable(session) = FreeSpinTotals(seed)
    BY <1>3 DEF Payable
  <2> HIDE DEF o, seed
  <2>5. o.totalWin > 0 => o.totalWin \in FreeSpinTotals(seed)
    BY <2>3 DEF FreeSpinTotals
  <2> QED
    BY <1>3, <2>3, <2>4, <2>5 DEF o, seed
<1> QED
  BY <1>2, <1>3 DEF Accepts

-----------------------------------------------------------------------------
(* What the sessions and the claimed rows have earned.                     *)

\* Nothing moves but a call, which opens no row.
LEMMA QuietEarns ==
  ASSUME IInv, EarnedInv, UNCHANGED <<sessions, credits, row>>,
         \A c \in Call : pc'[c] = "open" => pc[c] = "open"
  PROVE  EarnedInv'
<1>1. /\ \A s \in Call : EarnedState(sessions[s])' <=> EarnedState(sessions[s])
      /\ \A c \in Call : EarnedState(row[c])' <=> EarnedState(row[c])
      /\ \A c \in Call : Payable(row[c])' = Payable(row[c])
      /\ \A k \in credits : Payable(sessions[k.id])' = Payable(sessions[k.id])
  BY DEF EarnedState, Payable
<1> QED
  BY <1>1 DEF EarnedInv, CreditsAreEarned

\* What a session may pay depends on its round and its seed.
LEMMA PayableSame ==
  ASSUME NEW session, NEW other, session.round = other.round, session.seed = other.seed
  PROVE  Payable(session) = Payable(other)
BY DEF Payable

\* A session is written with the same round and seed, a state that is earned,
\* and a credit, if any, of what it may pay.
LEMMA WrittenEarns ==
  ASSUME IInv, EarnedInv, NEW s \in Call, NEW new \in SessionRow,
         sessions[s] # NoSession => new.round = sessions[s].round /\ new.seed = sessions[s].seed,
         EarnedState(new),
         sessions' = [sessions EXCEPT ![s] = new],
         NEW session \in SessionRow, NEW amount \in Nat, credits' = Credit(s, session, amount),
         amount > 0 => amount \in Payable(new)
  PROVE  /\ \A t \in Call : sessions'[t] # NoSession => EarnedState(sessions'[t])
         /\ CreditsAreEarned'
<1>1. /\ sessions \in [Call -> SessionRow \cup {NoSession}]
      /\ sessions'[s] = new
      /\ \A t \in Call \ {s} : sessions'[t] = sessions[t]
  BY DEF IInv, TypeOK
<1>2. \A t \in Call : sessions'[t] # NoSession => EarnedState(sessions'[t])
  BY <1>1 DEF EarnedInv
<1>3. \A k \in credits' : k \in credits \/ (k.id = s /\ k.amount = amount /\ amount > 0)
  BY DEF Credit
<1>4. CreditsAreEarned'
  <2> SUFFICES ASSUME NEW k \in credits' PROVE k.amount \in Payable(sessions'[k.id])
    BY DEF CreditsAreEarned, Payable
  <2>1. CASE k \in credits
    <3>1. /\ k.id \in Call /\ sessions[k.id] # NoSession
          /\ k.amount \in Payable(sessions[k.id])
      BY <2>1 DEF IInv, TypeOK, CreditRow, CreditInv, EarnedInv, CreditsAreEarned
    <3>2. CASE k.id = s
      <4>1. Payable(sessions[s]) = Payable(new)
        BY <3>1, <3>2, PayableSame
      <4> QED
        BY <1>1, <3>1, <3>2, <4>1
    <3>3. CASE k.id # s
      BY <1>1, <3>1, <3>3
    <3> QED
      BY <3>2, <3>3
  <2>2. CASE k.id = s /\ k.amount = amount /\ amount > 0
    BY <1>1, <2>2
  <2> QED
    BY <1>3, <2>1, <2>2
<1> QED
  BY <1>2, <1>4

\* The row a start makes has earned nothing yet, or pays the wheel's prize.
LEMMA FindEarns ==
  ASSUME IInv, EarnedInv, NEW c \in Call, Find(c)
  PROVE  EarnedInv'
<1> DEFINE r == request[c].round
<1>1. request[c] \in StartRequest /\ r \in Round /\ loaded[c] \in Version
  BY DEF IInv, CallInv, CallOK, Find, StartRequest
<1>2. UNCHANGED <<sessions, credits, live, now, request, seen>>
  BY DEF Find
<1>3. CASE Answer(c, "existing") /\ UNCHANGED row
  <2>1. \A d \in Call : pc'[d] = "open" => pc[d] = "open"
    BY <1>3 DEF Answer, Goto, IInv, TypeOK
  <2> QED
    BY <1>2, <1>3, <2>1, QuietEarns
<1>4. ASSUME NEW seed \in Seeds,
             row' = [row EXCEPT ![c] =
               [round |-> r, status |-> IF Start(loaded[c], ModuleOf[r], BetOf[r], seed).done THEN "resolved" ELSE "active",
                totalWin |-> Start(loaded[c], ModuleOf[r], BetOf[r], seed).totalWin,
                state |-> Start(loaded[c], ModuleOf[r], BetOf[r], seed).state, seed |-> seed,
                stepIndex |-> 1, createdAt |-> now]],
             Goto(c, "open"), UNCHANGED <<loaded, reply>>
      PROVE  EarnedInv'
  <2> DEFINE started == Start(loaded[c], ModuleOf[r], BetOf[r], seed)
             new == [round |-> r, status |-> IF started.done THEN "resolved" ELSE "active",
                     totalWin |-> started.totalWin, state |-> started.state, seed |-> seed,
                     stepIndex |-> 1, createdAt |-> now]
  <2>1. /\ Earned(ModuleOf[r], seed, started.state)
        /\ started.totalWin > 0 =>
             ModuleOf[r] = "wheel" /\ started.totalWin = Times(BetOf[r], seed.multiplier)
    BY <1>1, SessionAssumption, StartEarns
  <2>2. EarnedState(new)
    BY <2>1 DEF EarnedState
  <2>3. new.totalWin > 0 => new.totalWin \in Payable(new)
    BY <2>1 DEF Payable
  <2>4. row'[c] = new /\ \A d \in Call \ {c} : row'[d] = row[d]
    BY <1>4 DEF IInv, TypeOK
  <2>5. \A d \in Call \ {c} : pc'[d] = pc[d]
    BY <1>4 DEF Goto, IInv, TypeOK
  <2> HIDE DEF new
  <2>6. \A s \in Call : sessions'[s] # NoSession => EarnedState(sessions'[s])
    BY <1>2 DEF EarnedInv
  <2>7. CreditsAreEarned'
    BY <1>2 DEF EarnedInv, CreditsAreEarned, Payable
  <2>8. \A d \in Call : row'[d] # NoSession => EarnedState(row'[d])
    BY <2>2, <2>4 DEF EarnedInv
  <2>9. \A d \in Call : pc'[d] = "open" /\ row'[d].totalWin > 0 => row'[d].totalWin \in Payable(row'[d])
    BY <2>3, <2>4, <2>5 DEF EarnedInv
  <2> QED
    BY <2>6, <2>7, <2>8, <2>9 DEF EarnedInv, EarnedState, Payable
<1> QED
  BY <1>3, <1>4 DEF Find

LEMMA OpenEarns ==
  ASSUME IInv, EarnedInv, NEW c \in Call, Open(c)
  PROVE  EarnedInv'
<1>1. /\ pc[c] = "open" /\ sessions[c] = NoSession /\ row[c] # NoSession
      /\ row[c] \in SessionRow /\ row' = row
      /\ \A d \in Call : pc'[d] = "open" => pc[d] = "open"
  BY DEF Open, Answer, Goto, IInv, TypeOK, CallInv, CallOK
<1>2. CASE UNCHANGED <<sessions, credits>>
  BY <1>1, <1>2, QuietEarns
<1>3. CASE /\ sessions' = [sessions EXCEPT ![c] = row[c]]
           /\ credits' = Credit(c, row[c], row[c].totalWin)
  <2>1. row[c].totalWin \in Nat /\ EarnedState(row[c])
        /\ (row[c].totalWin > 0 => row[c].totalWin \in Payable(row[c]))
    BY <1>1, RowType DEF EarnedInv
  <2>2. /\ \A t \in Call : sessions'[t] # NoSession => EarnedState(sessions'[t])
        /\ CreditsAreEarned'
    BY <1>1, <1>3, <2>1, WrittenEarns
  <2> QED
    BY <1>1, <2>2 DEF EarnedInv, EarnedState, Payable
<1> QED
  BY <1>2, <1>3 DEF Open

LEMMA ClaimEarns ==
  ASSUME IInv, EarnedInv, NEW c \in Call, Claim(c)
  PROVE  EarnedInv'
<1> DEFINE s == request[c].session
<1>1. /\ pc[c] = "claim" /\ request[c] \in StepRequest /\ sessions[s] # NoSession
      /\ credits' = credits
  BY DEF IInv, CallInv, CallOK, Claim
<1>2. s \in Call /\ sessions[s] \in SessionRow
  BY <1>1 DEF StepRequest, IInv, TypeOK
<1>3. CASE Answer(c, "in_progress") /\ UNCHANGED <<sessions, row>>
  <2>1. \A d \in Call : pc'[d] = "open" => pc[d] = "open"
    BY <1>3 DEF Answer, Goto, IInv, TypeOK
  <2> QED
    BY <1>1, <1>3, <2>1, QuietEarns
<1>4. CASE /\ sessions' = [sessions EXCEPT ![s].stepIndex = @ + 1]
           /\ row' = [row EXCEPT ![c] = sessions[s]]
           /\ Goto(c, "write")
  <2> DEFINE new == [sessions[s] EXCEPT !.stepIndex = @ + 1]
  <2>1. /\ new \in SessionRow /\ new.round = sessions[s].round
        /\ new.seed = sessions[s].seed /\ new.state = sessions[s].state
    BY <1>2 DEF SessionRow
  <2>2. sessions' = [sessions EXCEPT ![s] = new]
    BY <1>4
  <2>3. EarnedState(sessions[s]) /\ EarnedState(new)
    BY <1>1, <1>2, <2>1 DEF EarnedInv, EarnedState
  <2> DEFINE amount == 0
  <2>4. amount \in Nat /\ ~(amount > 0) /\ credits' = Credit(s, new, amount)
    BY <1>1 DEF Credit
  <2> HIDE DEF new, amount, s
  <2>5. /\ \A t \in Call : sessions'[t] # NoSession => EarnedState(sessions'[t])
        /\ CreditsAreEarned'
    BY <1>2, <2>1, <2>2, <2>3, <2>4, WrittenEarns
  <2>6. row'[c] = sessions[s] /\ \A d \in Call \ {c} : row'[d] = row[d]
    BY <1>4 DEF s, IInv, TypeOK
  <2>7. pc'[c] = "write" /\ \A d \in Call \ {c} : pc'[d] = pc[d]
    BY <1>4 DEF Goto, IInv, TypeOK
  <2>8. \A d \in Call : row'[d] # NoSession => EarnedState(row'[d])
    BY <2>3, <2>6 DEF EarnedInv
  <2>9. \A d \in Call : pc'[d] = "open" /\ row'[d].totalWin > 0 => row'[d].totalWin \in Payable(row'[d])
    BY <2>6, <2>7 DEF EarnedInv
  <2> QED
    BY <2>5, <2>8, <2>9 DEF EarnedInv, EarnedState, Payable
<1> QED
  BY <1>3, <1>4 DEF Claim

\* The result is that of the claimed row, which has the session's round and seed.
LEMMA WriteEarns ==
  ASSUME IInv, EarnedInv, NEW c \in Call, Write(c)
  PROVE  EarnedInv'
<1> DEFINE s == request[c].session
           result == Result(c)
           new == Stepped(sessions[s], result)
           module == ModuleOf[row[c].round]
<1>1. /\ pc[c] = "write" /\ row[c] # NoSession
      /\ request[c] \in StepRequest /\ sessions[s] # NoSession /\ StateInv(row[c])
      /\ loaded[c] \in Version
  BY DEF IInv, CallInv, CallOK, Write
<1>2. /\ s \in Call /\ sessions[s] \in SessionRow /\ row[c] \in SessionRow
      /\ request[c].op = "step" /\ EarnedState(row[c])
  BY <1>1 DEF StepRequest, IInv, TypeOK, EarnedInv
<1>3. row[c].round = sessions[s].round /\ row[c].seed = sessions[s].seed
  BY <1>1, <1>2 DEF IInv, ClaimInv, ClaimOK, Claimed
<1>4. Accepts(module, row[c].state, request[c].action)
  BY DEF Write, Accepted
<1>5. result = Step(loaded[c], module, BetOf[row[c].round], row[c].seed, row[c].state, request[c].action)
  BY DEF Result
<1>6. IsOutput(module, result)
  BY <1>1, <1>2, <1>4, <1>5, ResultType
<1>7. /\ Earned(module, row[c].seed, result.state)
      /\ result.totalWin > 0 => result.totalWin \in Payable(row[c])
  BY <1>1, <1>2, <1>4, <1>5, StepEarns
<1>8. /\ sessions' = [sessions EXCEPT ![s] = new] /\ row' = row
      /\ credits' = Credit(s, row[c], result.totalWin)
      /\ \A d \in Call : pc'[d] = "open" => pc[d] = "open"
  BY DEF Write, Answer, Goto, IInv, TypeOK
<1>9. new \in SessionRow /\ new.round = sessions[s].round /\ new.seed = sessions[s].seed
  <2>1. IsOutput(ModuleOf[sessions[s].round], result)
    BY <1>3, <1>6
  <2> HIDE DEF result, s
  <2> QED
    BY <1>2, <2>1, SteppedRow
<1>10. new.state = result.state
  <2> HIDE DEF result
  <2> QED
    BY <1>2 DEF Stepped, SessionRow
<1>11. result.totalWin \in Nat
  BY <1>6 DEF IsOutput
<1> HIDE DEF result, new, s
<1>12. EarnedState(new)
  BY <1>3, <1>7, <1>9, <1>10 DEF EarnedState
<1>13. result.totalWin > 0 => result.totalWin \in Payable(new)
  <2>1. Payable(row[c]) = Payable(new)
    BY <1>3, <1>9, PayableSame
  <2> QED
    BY <1>7, <2>1
<1>14. /\ \A t \in Call : sessions'[t] # NoSession => EarnedState(sessions'[t])
       /\ CreditsAreEarned'
  BY <1>2, <1>8, <1>9, <1>11, <1>12, <1>13, WrittenEarns
<1> QED
  BY <1>8, <1>14 DEF EarnedInv, EarnedState, Payable

LEMMA SweepEarns ==
  ASSUME IInv, EarnedInv, NEW s \in Call, Sweep(s)
  PROVE  EarnedInv'
<1> DEFINE new == [sessions[s] EXCEPT !.status = "abandoned"]
           amount == 0
<1>1. /\ sessions[s] # NoSession /\ sessions[s] \in SessionRow
      /\ sessions' = [sessions EXCEPT ![s] = new]
      /\ UNCHANGED <<credits, pc, row>>
  BY DEF Sweep, IInv, TypeOK
<1>2. /\ new \in SessionRow /\ new.round = sessions[s].round
      /\ new.seed = sessions[s].seed /\ new.state = sessions[s].state
  BY <1>1 DEF SessionRow, Status
<1>3. EarnedState(new)
  BY <1>1, <1>2 DEF EarnedInv, EarnedState
<1>4. amount \in Nat /\ ~(amount > 0) /\ credits' = Credit(s, new, amount)
  BY <1>1 DEF Credit
<1> HIDE DEF new, amount
<1>5. /\ \A t \in Call : sessions'[t] # NoSession => EarnedState(sessions'[t])
      /\ CreditsAreEarned'
  BY <1>1, <1>2, <1>3, <1>4, WrittenEarns
<1> QED
  BY <1>1, <1>5 DEF EarnedInv, EarnedState, Payable

LEMMA InitEarned == Init => EarnedInv
BY DEF Init, EarnedInv, CreditsAreEarned

LEMMA NextEarned == IInv /\ EarnedInv /\ [Next]_vars => EarnedInv'
<1> SUFFICES ASSUME IInv, EarnedInv, [Next]_vars PROVE EarnedInv'
  OBVIOUS
<1>1. ASSUME NEW c \in Call, Arrive(c) \/ Read(c) \/ Refuse(c) \/ Crash(c) PROVE EarnedInv'
  <2>1. /\ UNCHANGED <<sessions, credits, row>>
        /\ \E label : label # "open" /\ pc' = [pc EXCEPT ![c] = label]
    BY <1>1 DEF Arrive, Read, Refuse, Crash, Answer, Goto
  <2>2. \A d \in Call : pc'[d] = "open" => pc[d] = "open"
    BY <2>1 DEF IInv, TypeOK
  <2> QED
    BY <2>1, <2>2, QuietEarns
<1>2. CASE Tick \/ Publish \/ UNCHANGED vars
  <2>1. UNCHANGED <<sessions, credits, pc, row>>
    BY <1>2 DEF Tick, Publish, vars
  <2> QED
    BY <2>1, QuietEarns
<1> QED
  BY <1>1, <1>2, FindEarns, OpenEarns, ClaimEarns, WriteEarns, SweepEarns DEF Next, Serve

\* Every credit is a sum of prizes of the session's own seed, each free spin on
\* some published version, whatever the module, the seed, the steps that
\* overlapped and the publishes between them: a step that works on a row it
\* claimed before another wrote pays for no tile and no free spin twice.
THEOREM Earnings == Spec => []CreditsAreEarned
<1>1. Init => EarnedInv
  BY InitEarned
<1>2. IInv /\ EarnedInv /\ [Next]_vars => EarnedInv'
  BY NextEarned
<1>3. EarnedInv => CreditsAreEarned
  BY DEF EarnedInv
<1> QED
  BY <1>1, <1>2, <1>3, Invariance, PTL DEF Spec
=============================================================================
