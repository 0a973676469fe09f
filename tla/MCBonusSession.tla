--------------------------- MODULE MCBonusSession ---------------------------
(* Instances of BonusSession for TLC.                                      *)
EXTENDS BonusSessionTotals, TLC

CONSTANTS r1, r2, r3, a1, a2, t1, t2, t3

Symmetry == Permutations(Call)

-----------------------------------------------------------------------------
OneOwner == [r \in Round |-> a1]
ThreeEach == [r \in Round |-> 3]
Modules == r1 :> "pick" @@ r2 :> "freeSpins" @@ r3 :> "wheel"
ModuleOfRound == [r \in Round |-> Modules[r]]

OpenBonus(r) == [op |-> "start", round |-> r]
Play(a, s, action) == [op |-> "step", account |-> a, session |-> s, action |-> action]

\* The first version grants no more spins, the second two, once.
Versions ==
  1 :> [spinCount |-> 1, retriggerSpins |-> 1, maxRetriggers |-> 0, winMultiplier |-> 2]
  @@ 2 :> [spinCount |-> 1, retriggerSpins |-> 2, maxRetriggers |-> 1, winMultiplier |-> 3]

ParamsOfVersion == [v \in Version |-> Versions[v]]

\* A blank behind the second tile; every free spin triggers more.
\* Multipliers count halves of the bet.
OneSeed ==
  {[multiplier |-> 3, tiles |-> (t1 :> 1 @@ t2 :> Blank @@ t3 :> 3),
    spins |-> [v \in Version |-> [i \in 0..MaxSpins |-> [win |-> i + 1, triggers |-> TRUE]]]]}

AllRequests ==
  {OpenBonus(r) : r \in Round}
  \cup {Play(a1, s, action) : s \in Call, action \in Tile \cup {"spin"}}
  \cup {Play(a2, s, "spin") : s \in Call}
=============================================================================
