---------------------------- MODULE BonusModules ----------------------------
(***************************************************************************)
(* packages/math-engine/src/bonus: the wheel, pick and freeSpins modules.  *)
(* Pure: what a module draws is a function of the session's seed           *)
(* (deriveStepRng, spinSeed) and of the game it is called with, so a seed  *)
(* is modelled as what will be drawn from it: the wheel's segment and the  *)
(* board of pick, both drawn at the start, and the outcome of each free    *)
(* spin, which is played on the reels of the version that the step loaded. *)
(* Multipliers are counted in parts of the bet.                            *)
(***************************************************************************)
EXTENDS Integers

CONSTANTS
  Tile,           \* the tiles of the pick board
  Blank,          \* the tile that ends the round
  Part,           \* how many parts make the whole bet
  LastVersion,    \* bound: the last version of the game that is published
  Params,         \* the freeSpins parameters of each version
  MostSpins, MostGranted, MostRetriggers  \* bounds: the largest of those parameters

Version == 1..LastVersion

\* winMultiplier in parts, as the other multipliers.
FreeSpinsConfig ==
  [spinCount : 1..MostSpins, retriggerSpins : 0..MostGranted, maxRetriggers : 0..MostRetriggers,
   winMultiplier : Nat]

ASSUME ModuleAssumption ==
  /\ Blank \notin Nat
  /\ Part \in Nat \ {0}
  /\ MostSpins \in Nat \ {0} /\ MostGranted \in Nat /\ MostRetriggers \in Nat
  /\ LastVersion \in Nat \ {0}
  /\ Params \in [Version -> FreeSpinsConfig]

MaxSpins == MostSpins + MostGranted * MostRetriggers

FreeSpin == [win : Nat, triggers : BOOLEAN]
Seed ==
  [multiplier : Nat, tiles : [Tile -> Nat \cup {Blank}], spins : [Version -> [0..MaxSpins -> FreeSpin]]]

ModuleId == {"wheel", "pick", "freeSpins"}

WheelState == [multiplier : Nat]
PickState == [revealed : SUBSET Tile, accumulated : Nat, done : BOOLEAN]
FreeSpinsState == [remaining : Nat, played : Nat, retriggers : Nat, accumulated : Nat, done : BOOLEAN]
ModuleState == WheelState \cup PickState \cup FreeSpinsState

StateOf(module) ==
  IF module = "wheel" THEN WheelState
  ELSE IF module = "pick" THEN PickState
  ELSE FreeSpinsState

\* Math.floor(amount * multiplier)
Times(amount, multiplier) == (amount * multiplier) \div Part

Output(state, done, totalWin) == [state |-> state, done |-> done, totalWin |-> totalWin]

-----------------------------------------------------------------------------
Start(version, module, bet, seed) ==
  IF module = "wheel"
  THEN Output([multiplier |-> seed.multiplier], TRUE, Times(bet, seed.multiplier))
  ELSE IF module = "pick"
  THEN Output([revealed |-> {}, accumulated |-> 0, done |-> FALSE], FALSE, 0)
  ELSE Output([remaining |-> Params[version].spinCount, played |-> 0, retriggers |-> 0, accumulated |-> 0, done |-> FALSE],
              FALSE, 0)

\* Mutant: a tile may be picked again.
AcceptsAnyTile(module, state, action) ==
  \/ module = "pick" /\ ~state.done /\ action \in Tile
  \/ module = "freeSpins" /\ ~state.done /\ action = "spin" /\ state.remaining > 0

\* Any other action throws InvalidBonusActionError; the wheel takes none.
Accepts(module, state, action) ==
  \/ module = "pick" /\ ~state.done /\ action \in Tile \ state.revealed
  \/ module = "freeSpins" /\ ~state.done /\ action = "spin" /\ state.remaining > 0

Prizes(seed) == {t \in Tile : seed.tiles[t] # Blank}

PickTile(bet, seed, state, tile) ==
  LET blank       == seed.tiles[tile] = Blank
      revealed    == state.revealed \cup {tile}
      accumulated == state.accumulated + (IF blank THEN 0 ELSE seed.tiles[tile])
      done        == blank \/ Prizes(seed) \subseteq revealed
  IN  Output([revealed |-> revealed, accumulated |-> accumulated, done |-> done], done,
             IF done THEN Times(bet, accumulated) ELSE 0)

\* Mutant: one retrigger more than the cap.
PlayFreeSpinUncapped(version, seed, state) ==
  LET spin        == seed.spins[version][state.played]
      retriggered == spin.triggers /\ state.retriggers <= Params[version].maxRetriggers
      remaining   == state.remaining - 1 + (IF retriggered THEN Params[version].retriggerSpins ELSE 0)
  IN  Output([state EXCEPT !.remaining = remaining, !.played = @ + 1, !.done = remaining <= 0,
                           !.retriggers = @ + (IF retriggered THEN 1 ELSE 0)],
             remaining <= 0, 0)

\* A free spin may trigger the feature again.  The reels, the multiplier, the
\* grant and the cap are those of the game the step was given.
PlayFreeSpin(version, seed, state) ==
  LET spin        == seed.spins[version][state.played]
      retriggered == spin.triggers /\ state.retriggers < Params[version].maxRetriggers
      remaining   == state.remaining - 1 + (IF retriggered THEN Params[version].retriggerSpins ELSE 0)
      accumulated == state.accumulated + Times(spin.win, Params[version].winMultiplier)
  IN  Output([remaining |-> remaining, played |-> state.played + 1,
              retriggers |-> state.retriggers + (IF retriggered THEN 1 ELSE 0),
              accumulated |-> accumulated, done |-> remaining <= 0],
             remaining <= 0, IF remaining <= 0 THEN accumulated ELSE 0)

Step(version, module, bet, seed, state, action) ==
  IF module = "pick" THEN PickTile(bet, seed, state, action) ELSE PlayFreeSpin(version, seed, state)
=============================================================================
