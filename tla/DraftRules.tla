----------------------------- MODULE DraftRules -----------------------------
(***************************************************************************)
(* validateDraft, the gate a draft passes before it is published.          *)
(*                                                                         *)
(* A draft is a record with every field; a field the document lacks is     *)
(* Absent.  A reel has at most one strip here, so the rule against two is  *)
(* not stated.                                                             *)
(***************************************************************************)
EXTENDS SlotMath

Weighted(draft) == draft.mode = "weighted-symbol"

SymbolIds(draft) == {draft.symbols[i].symbol : i \in DOMAIN draft.symbols}
ModuleIds(draft) == {draft.modules[i].id : i \in DOMAIN draft.modules}

Presence(draft) ==
  /\ draft.name # ""
  /\ draft.grid.reels > 0 /\ draft.grid.rows > 0
  /\ draft.paylines # <<>> /\ draft.symbols # <<>> /\ draft.bets # <<>>
  /\ draft.mode \in {"reel-strip", "weighted-symbol"}
  /\ IF Weighted(draft) THEN DOMAIN draft.weights # {} ELSE DOMAIN draft.strips # {}

\* Percentages stand for the fractions of rtpTarget.
MoneyRules(draft) ==
  /\ \A i \in DOMAIN draft.bets : draft.bets[i] > 0
  /\ 0 < draft.rtp /\ draft.rtp < 150
  /\ draft.currency # ""
  /\ draft.rule \in {Absent, "sum", "highestOnly"}

PaylinesFit(draft) ==
  \A i \in DOMAIN draft.paylines :
    /\ DOMAIN draft.paylines[i] = Reels(draft)
    /\ \A reel \in Reels(draft) : draft.paylines[i][reel] \in Rows(draft) \cup {Absent}

StripsFit(draft) ==
  /\ DOMAIN draft.strips = Reels(draft)
  /\ \A reel \in Reels(draft) :
       /\ Len(draft.strips[reel]) >= draft.grid.rows
       /\ ToSet(draft.strips[reel]) \subseteq SymbolIds(draft)

WeightsFit(draft) ==
  /\ DOMAIN draft.weights = Reels(draft)
  /\ \A reel \in Reels(draft) :
       /\ DOMAIN draft.weights[reel] \subseteq SymbolIds(draft)
       /\ \A s \in DOMAIN draft.weights[reel] : draft.weights[reel][s] >= 0
       /\ \E s \in DOMAIN draft.weights[reel] : draft.weights[reel][s] > 0

\* maxReachableCount: the most copies one deal can show.
BestOn(draft, reel, symbol) ==
  IF Weighted(draft)
  THEN IF symbol \in DOMAIN draft.weights[reel] /\ draft.weights[reel][symbol] > 0 THEN draft.grid.rows ELSE 0
  ELSE Max({Cardinality({row \in Rows(draft) : column[row] = symbol}) : column \in Columns(draft, reel)})

MaxReachableCount(draft, symbol) ==
  MapThenSumSet(LAMBDA reel : BestOn(draft, reel, symbol), Reels(draft))

RegularRule(draft, rule) ==
  /\ DOMAIN rule.paytable # {}
  /\ \A count \in DOMAIN rule.paytable : count \in 1 .. draft.grid.reels /\ rule.paytable[count] > 0

WildRule(draft, rule) ==
  /\ rule.wild # Absent
  /\ rule.wild.all \/ rule.wild.list \subseteq SymbolIds(draft)
  /\ rule.wild.multiplier > 0

\* Mutant: the payout need not reach what can land.
AnyPayout(draft, rule) ==
  rule.scatter # Absent => \A count \in DOMAIN rule.scatter.payout : count > 0 /\ rule.scatter.payout[count] > 0

\* Only the highest count of a payout table is compared with what can land.
ScatterRule(draft, rule) ==
  rule.scatter # Absent =>
    LET payout == rule.scatter.payout IN
    /\ \A count \in DOMAIN payout : count > 0 /\ payout[count] > 0
    /\ DOMAIN payout # {} => MaxReachableCount(draft, rule.symbol) <= Max(DOMAIN payout)

TriggerRule(draft, rule) ==
  /\ rule.trigger # Absent
  /\ rule.trigger.module \in ModuleIds(draft)
  /\ rule.trigger.minCount \in 1 .. draft.grid.reels * draft.grid.rows

SymbolRules(draft) ==
  \A i \in DOMAIN draft.symbols :
    LET rule == draft.symbols[i] IN
    /\ rule.reels \subseteq Reels(draft)
    /\ rule.role = "regular" => RegularRule(draft, rule)
    /\ rule.role = "wild" => WildRule(draft, rule)
    /\ rule.role = "scatter" => ScatterRule(draft, rule)
    /\ rule.role = "bonusTrigger" => TriggerRule(draft, rule)

ModuleRules(draft) ==
  /\ IsInjective([i \in DOMAIN draft.modules |-> draft.modules[i].id])
  /\ \A i \in DOMAIN draft.modules :
       /\ draft.modules[i].id # ""
       /\ draft.modules[i].chance # Absent => draft.modules[i].chance \in 1 .. 100

\* validateDraft
Valid(draft) ==
  /\ Presence(draft)
  /\ MoneyRules(draft)
  /\ PaylinesFit(draft)
  /\ IsInjective([i \in DOMAIN draft.symbols |-> draft.symbols[i].symbol])
  /\ IF Weighted(draft) THEN WeightsFit(draft) ELSE StripsFit(draft)
  /\ SymbolRules(draft)
  /\ ModuleRules(draft)
=============================================================================
