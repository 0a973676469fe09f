------------------------------ MODULE SlotMath ------------------------------
(***************************************************************************)
(* math-engine's evaluation of one spin.                                   *)
(*                                                                         *)
(* A definition is a function from the fields it has.  Reels, rows and     *)
(* lines are counted from 0, as in the code.  A spin is evaluated for      *)
(* every grid the reels can deal: which one the generator draws is not     *)
(* modelled.  Paytable entries are counted in halves of a multiplier, so   *)
(* that rounding down matters.                                             *)
(***************************************************************************)
EXTENDS Integers, Sequences, FiniteSets, FiniteSetsExt, SequencesExt

CONSTANT Absent     \* an optional part of a symbol's rule that is not there

Reels(def) == 0 .. def.grid.reels - 1
Rows(def) == 0 .. def.grid.rows - 1

NoPay == [count \in {} |-> 0]

NoRule ==
  [symbol |-> Absent, role |-> "none", reels |-> {}, paytable |-> NoPay,
   wild |-> Absent, scatter |-> Absent, trigger |-> Absent]

\* symbolRule: the first rule of that name.
RuleOf(def, symbol) ==
  LET found == SelectInSeq(def.symbols, LAMBDA rule : rule.symbol = symbol) IN
  IF found = 0 THEN NoRule ELSE def.symbols[found]

IsWild(def, symbol) == RuleOf(def, symbol).role = "wild"

\* wildSubstitutes: "all-regular" leaves scatters and bonus triggers out, an
\* explicit list says whom it means.
WildSubstitutes(def, symbol, target) ==
  LET rule == RuleOf(def, symbol) IN
  /\ rule.role = "wild"
  /\ rule.wild # Absent
  /\ \/ symbol = target
     \/ rule.wild.all /\ RuleOf(def, target).role = "regular"
     \/ ~rule.wild.all /\ target \in rule.wild.list

-----------------------------------------------------------------------------
(* The grid                                                                *)

\* The stop is the top visible cell; the window wraps at the strip's end.
Window(def, strip, stop) ==
  [row \in Rows(def) |-> strip[((stop + row) % Len(strip)) + 1]]

\* The columns a reel can show: a window of its strip, or in every cell any
\* symbol of its pool that has weight.
Columns(def, reel) ==
  IF def.mode = "weighted-symbol"
  THEN [Rows(def) -> {s \in DOMAIN def.weights[reel] : def.weights[reel][s] > 0}]
  ELSE {Window(def, def.strips[reel], stop) : stop \in 0 .. Len(def.strips[reel]) - 1}

\* buildMatrix
Matrices(def) ==
  FoldSet(LAMBDA reel, dealt :
            {[r \in DOMAIN m \cup {reel} |-> IF r = reel THEN column ELSE m[r]] :
               m \in dealt, column \in Columns(def, reel)},
          {[r \in {} |-> 0]}, Reels(def))

IsExpanding(def, symbol) ==
  LET wild == RuleOf(def, symbol).wild IN wild # Absent /\ wild.expanding

\* applyExpandingWild: the topmost expanding symbol fills its reel.
ExpandWilds(def, m) ==
  [reel \in DOMAIN m |->
     LET tops == {row \in Rows(def) : IsExpanding(def, m[reel][row])} IN
     IF tops = {} THEN m[reel] ELSE [row \in Rows(def) |-> m[reel][Min(tops)]]]

-----------------------------------------------------------------------------
(* Paylines                                                                *)

\* splitIntegerEvenly: the first lines carry what is left over.
Stake(bet, lines, line) == (bet \div lines) + (IF line < bet % lines THEN 1 ELSE 0)

\* The reels a line covers before its first gap.
Covered(def, path) ==
  LET gaps == {reel \in Reels(def) : path[reel] \notin Rows(def)} IN
  IF gaps = {} THEN def.grid.reels ELSE Min(gaps)

\* The paying symbol of a line is the first that is not a wild; a line of
\* wilds falls back to the first of them.
Anchor(def, m, path) ==
  LET plain == {reel \in 0 .. Covered(def, path) - 1 : ~IsWild(def, m[reel][path[reel]])}
      first == IF plain = {} THEN 0 ELSE Min(plain)
  IN m[first][path[first]]

StandsFor(def, symbol, anchor) == symbol = anchor \/ WildSubstitutes(def, symbol, anchor)

\* The length of the run from reel 0.
RunLength(def, m, path, anchor) ==
  LET breaks == {reel \in 0 .. Covered(def, path) - 1 : ~StandsFor(def, m[reel][path[reel]], anchor)} IN
  IF breaks = {} THEN Covered(def, path) ELSE Min(breaks)

WildMultiplier(def, m, path, count) ==
  LET Config(reel) == RuleOf(def, m[reel][path[reel]]).wild IN
  FoldSet(LAMBDA reel, product : product * Config(reel).multiplier, 1,
          {reel \in 0 .. count - 1 : IsWild(def, m[reel][path[reel]]) /\ Config(reel) # Absent})

\* matchLine, and the amount evaluatePaylines makes of it: 0 for no win.
LineWin(def, m, line, bet) ==
  LET path == def.paylines[line + 1]
      anchor == Anchor(def, m, path)
      count == RunLength(def, m, path, anchor)
      paytable == RuleOf(def, anchor).paytable
  IN
  IF Covered(def, path) = 0 THEN [line |-> line, symbol |-> Absent, count |-> 0, amount |-> 0]
  ELSE [line |-> line, symbol |-> anchor, count |-> count,
        amount |-> IF RuleOf(def, anchor).role = "scatter" \/ count \notin DOMAIN paytable THEN 0
                   ELSE (Stake(bet, Len(def.paylines), line) * paytable[count]
                           * WildMultiplier(def, m, path, count)) \div 2]

\* evaluatePaylines: the lines that pay; "highestOnly" keeps the first of the best.
LineWins(def, m, bet) ==
  {w \in {LineWin(def, m, line, bet) : line \in 0 .. Len(def.paylines) - 1} : w.amount > 0}

FirstBest(wins) ==
  {w \in wins : \A other \in wins :
     other.amount < w.amount \/ (other.amount = w.amount /\ w.line <= other.line)}

WinLines(def, m, bet) ==
  IF def.rule = "highestOnly" THEN FirstBest(LineWins(def, m, bet)) ELSE LineWins(def, m, bet)

LineWinTotal(wins) == MapThenSumSet(LAMBDA w : w.amount, wins)

-----------------------------------------------------------------------------
(* Scatters and bonuses                                                    *)

\* countSymbol: anywhere on the grid, with the wilds that stand in for it if
\* the rule counts them.
CountOn(def, m, symbol, wildCounts) ==
  Cardinality({cell \in Reels(def) \X Rows(def) :
                 LET shown == m[cell[1]][cell[2]] IN
                 shown = symbol \/ (wildCounts /\ WildSubstitutes(def, shown, symbol))})

\* The rule of one symbol; a symbol may have a rule only of its own role.
Scatters(def) == {i \in DOMAIN def.symbols : def.symbols[i].role = "scatter"}

ScatterCount(def, m, rule) ==
  CountOn(def, m, rule.symbol, rule.scatter # Absent /\ rule.scatter.wildCounts)

\* evaluateScatter: the count is looked up exactly, on the whole bet.
ScatterPay(def, m, rule, bet) ==
  LET count == ScatterCount(def, m, rule) IN
  IF rule.scatter # Absent /\ count \in DOMAIN rule.scatter.payout
  THEN (bet * rule.scatter.payout[count]) \div 2 ELSE 0

ScatterAmount(def, m, bet) ==
  MapThenSumSet(LAMBDA i : ScatterPay(def, m, def.symbols[i], bet), Scatters(def))

TriggersOn(def, m) ==
  {i \in DOMAIN def.symbols :
     LET rule == def.symbols[i] IN
     /\ rule.role = "bonusTrigger" /\ rule.trigger # Absent
     /\ CountOn(def, m, rule.symbol, rule.trigger.wildCounts) >= rule.trigger.minCount}

\* Chances are percentages: at 100 the draw is always below it.
Certain(module) == module.chance # Absent /\ module.chance >= 100

\* checkFeatureTrigger: the modules a spin may trigger, Absent for none.  The
\* first symbol that is there often enough decides; only then the modules'
\* own chances, one after another.
Triggered(def, m) ==
  LET symbols == TriggersOn(def, m)
      reached == {i \in DOMAIN def.modules : \A j \in 1 .. i - 1 : ~Certain(def.modules[j])}
      drawn == {i \in reached : def.modules[i].chance # Absent /\ def.modules[i].chance > 0}
  IN IF symbols # {} THEN {def.symbols[Min(symbols)].trigger.module}
     ELSE {def.modules[i].id : i \in drawn}
          \cup (IF \E i \in DOMAIN def.modules : Certain(def.modules[i]) THEN {} ELSE {Absent})

\* runSimulation plays the first module whichever one the spin triggered.
SimulatedModule(def) == def.modules[1].id

\* evaluateSpin, on a grid as dealt: what the lines of a grid with its wilds
\* expanded and its scatters come to.
Evaluated(def, m, wins, bet) ==
  [matrix |-> m, winLines |-> wins, totalWin |-> LineWinTotal(wins) + ScatterAmount(def, m, bet),
   bonus |-> Triggered(def, m)]

ExpandedReels(def, raw) ==
  {reel \in Reels(def) : \E row \in Rows(def) : IsExpanding(def, raw[reel][row])}

EvaluateSpin(def, raw, bet) ==
  LET m == ExpandWilds(def, raw) IN
  Evaluated(def, m, WinLines(def, m, bet), bet)
=============================================================================
