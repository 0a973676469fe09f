---------------------------- MODULE DraftEditors ----------------------------
(***************************************************************************)
(* The controls of the game builder: from the draft a tab shows, the       *)
(* patches it can hand to edit().  A patch has the fields that change.     *)
(***************************************************************************)
EXTENDS DraftRules, TLC

CONSTANTS
  Numbers,     \* what is typed into a number input, which refuses nothing
  Texts,       \* what is typed into a text input, trimmed; "" when emptied
  Registered,  \* the bonus modules of this build, in their order
  Removed      \* an optional field set to undefined, which the wire keeps as null

Patch(field, value) == [f \in {field} |-> value]

\* A list with another entry at i, or without it.
With(list, i, entries) == {ReplaceAt(list, i, entry) : entry \in entries}
Without(list) == {RemoveAt(list, i) : i \in DOMAIN list}

-----------------------------------------------------------------------------
(* Settings                                                                *)

NewBet(bets) == 2 * (IF bets = <<>> THEN 100 ELSE Last(bets))

BetOptionsEditor(bets) ==
  {Append(bets, NewBet(bets))} \cup Without(bets) \cup UNION {With(bets, i, Numbers) : i \in DOMAIN bets}

\* A module that is not in this build stays selectable.
ModuleUpdates(module) ==
  {[module EXCEPT !.id = id] : id \in ToSet(Registered) \cup {module.id}}
  \cup {[module EXCEPT !.chance = IF module.chance = Absent THEN 1 ELSE Absent]}
  \cup {[module EXCEPT !.chance = n] : n \in IF module.chance = Absent THEN {} ELSE Numbers}

BonusModulesEditor(modules) ==
  {Append(modules, [id |-> Registered[1], chance |-> Absent])} \cup Without(modules)
  \cup UNION {With(modules, i, ModuleUpdates(modules[i])) : i \in DOMAIN modules}

GridEdits(grid) ==
  {[grid EXCEPT !.reels = n] : n \in Numbers} \cup {[grid EXCEPT !.rows = n] : n \in Numbers}

SettingsEditor(draft) ==
  {Patch("name", text) : text \in Texts}
  \cup {Patch("grid", grid) : grid \in GridEdits(draft.grid)}
  \cup {Patch("rtp", n) : n \in Numbers}
  \cup {Patch("rule", rule) : rule \in {"sum", "highestOnly"}}
  \cup {Patch("currency", text) : text \in Texts}
  \cup {Patch("bets", bets) : bets \in BetOptionsEditor(draft.bets)}
  \cup {Patch("modules", modules) : modules \in BonusModulesEditor(draft.modules)}

-----------------------------------------------------------------------------
(* Symbols                                                                 *)

RegularPays == 3 :> 20 @@ 4 :> 60 @@ 5 :> 200
ScatterPays == 3 :> 4 @@ 4 :> 20 @@ 5 :> 100
PlainWild == [all |-> TRUE, list |-> {}, expanding |-> FALSE, multiplier |-> 1]

\* A new role takes its own rule along and drops the others'; a paytable stays.
DefaultsForRole(rule, role, draft) ==
  [rule EXCEPT
     !.role = role,
     !.paytable = IF role = "regular" THEN RegularPays ELSE @,
     !.wild = IF role = "wild" THEN PlainWild ELSE Absent,
     !.scatter = IF role = "scatter" THEN [payout |-> ScatterPays, wildCounts |-> FALSE] ELSE Absent,
     !.trigger = IF role # "bonusTrigger" THEN Absent
                 ELSE [module |-> IF draft.modules = <<>> THEN "" ELSE draft.modules[1].id,
                       minCount |-> Min({3, draft.grid.reels}), wildCounts |-> FALSE]]

\* Counts of three and more have an input; nothing removes the others.
PaytableRow(paytable, reels) ==
  {IF n > 0 THEN (count :> n) @@ paytable ELSE [c \in DOMAIN paytable \ {count} |-> paytable[c]] :
     count \in 3 .. reels, n \in Numbers}

WildUpdates(rule) ==
  LET wild == IF rule.wild = Absent THEN PlainWild ELSE rule.wild IN
  {[rule EXCEPT !.wild = w] :
     w \in {[wild EXCEPT !.expanding = ~@]} \cup {[wild EXCEPT !.multiplier = n] : n \in Numbers}}

ScatterUpdates(rule, reels) ==
  LET scatter == IF rule.scatter = Absent THEN [payout |-> NoPay, wildCounts |-> FALSE] ELSE rule.scatter IN
  {[rule EXCEPT !.scatter = [scatter EXCEPT !.payout = payout]] : payout \in PaytableRow(scatter.payout, reels)}

TriggerUpdates(rule, draft) ==
  LET trigger == IF rule.trigger = Absent THEN [module |-> "", minCount |-> 3, wildCounts |-> FALSE]
                 ELSE rule.trigger
  IN {[rule EXCEPT !.trigger = [trigger EXCEPT !.module = id]] : id \in ModuleIds(draft)}
     \cup {[rule EXCEPT !.trigger = [trigger EXCEPT !.minCount = n]] : n \in Numbers}

RoleUpdates(rule, draft) ==
  CASE rule.role = "regular" -> {[rule EXCEPT !.paytable = p] : p \in PaytableRow(rule.paytable, draft.grid.reels)}
    [] rule.role = "wild" -> WildUpdates(rule)
    [] rule.role = "scatter" -> ScatterUpdates(rule, draft.grid.reels)
    [] rule.role = "bonusTrigger" -> TriggerUpdates(rule, draft)

SymbolUpdates(rule, draft) ==
  {[rule EXCEPT !.symbol = text] : text \in Texts}
  \cup {DefaultsForRole(rule, role, draft) : role \in {"regular", "wild", "scatter", "bonusTrigger"}}
  \cup {[rule EXCEPT !.reels = IF reel \in @ THEN @ \ {reel} ELSE @ \cup {reel}] : reel \in Reels(draft)}
  \cup RoleUpdates(rule, draft)

\* The first "symbolN" from the next number on that no symbol has.
FreshSymbol(draft) ==
  LET Name(n) == "symbol" \o ToString(n) IN
  Name(Min({n \in Len(draft.symbols) + 1 .. 2 * Len(draft.symbols) + 1 : Name(n) \notin SymbolIds(draft)}))

NewSymbol(draft) ==
  [NoRule EXCEPT !.symbol = FreshSymbol(draft), !.role = "regular", !.reels = Reels(draft), !.paytable = RegularPays]

SymbolsEditor(draft) ==
  {Append(draft.symbols, NewSymbol(draft))} \cup Without(draft.symbols)
  \cup UNION {With(draft.symbols, i, SymbolUpdates(draft.symbols[i], draft)) : i \in DOMAIN draft.symbols}

-----------------------------------------------------------------------------
(* Reels and paylines                                                      *)

StripFor(draft, reel) == IF reel \in DOMAIN draft.strips THEN draft.strips[reel] ELSE <<>>

\* What one keystroke makes of a strip's text; blank lines are dropped.
TypedStrips(strip) ==
  {Append(strip, text) : text \in Texts \ {""}} \cup (IF strip = <<>> THEN {} ELSE {Front(strip)})

UpdateStrip(draft, reel, strip) == (reel :> strip) @@ draft.strips

CopyFirst(draft) == [reel \in Reels(draft) |-> StripFor(draft, 0)]

ReelStripsEditor(draft) ==
  {CopyFirst(draft)}
  \cup UNION {{UpdateStrip(draft, reel, strip) : strip \in TypedStrips(StripFor(draft, reel))} : reel \in Reels(draft)}

\* A click on the cell a line passes through takes the reel off the line.
CycleCell(path, reel, row) ==
  (reel :> IF reel \in DOMAIN path /\ path[reel] = row THEN Absent ELSE row) @@ path

DefaultPayline(draft) == [reel \in Reels(draft) |-> draft.grid.rows \div 2]

PaylinesEditor(draft) ==
  {Append(draft.paylines, DefaultPayline(draft))} \cup Without(draft.paylines)
  \cup UNION {With(draft.paylines, i,
                   {CycleCell(draft.paylines[i], reel, row) : reel \in Reels(draft), row \in Rows(draft)}) :
                i \in DOMAIN draft.paylines}

\* A row that is no longer there becomes a gap, and so does a new reel.
ReshapePaylines(paylines, grid) ==
  [i \in DOMAIN paylines |->
     [reel \in 0 .. grid.reels - 1 |->
        IF reel \in DOMAIN paylines[i] /\ paylines[i][reel] \in 0 .. grid.rows - 1
        THEN paylines[i][reel] ELSE Absent]]

-----------------------------------------------------------------------------
(* Artwork and theme                                                       *)

\* An emptied entry goes; the last one takes the whole field with it.
Entry(map, key, text) ==
  LET known == IF map \in {Absent, Removed} THEN [k \in {} |-> ""] ELSE map
      next == IF text = "" THEN [k \in DOMAIN known \ {key} |-> known[k]] ELSE (key :> text) @@ known
  IN IF DOMAIN next = {} THEN Removed ELSE next

ThemeKeys == {"accent"}

\* applyThemeEdit
ThemeEditor(draft) == {Entry(draft.theme, key, text) : key \in ThemeKeys, text \in Texts}

Slots(draft) ==
  {[kind |-> kind, symbol |-> ""] : kind \in {"background", "music", "spinSound"}}
  \cup {[kind |-> "symbol", symbol |-> s] : s \in SymbolIds(draft)}

\* applyAssetEdit
AssetsEditor(draft) == {Entry(draft.assets, slot, text) : slot \in Slots(draft), text \in Texts}

-----------------------------------------------------------------------------
\* The patches of a tab.
Edits(draft, tab) ==
  CASE tab = "settings" -> SettingsEditor(draft)
    [] tab = "symbols" -> {Patch("symbols", symbols) : symbols \in SymbolsEditor(draft)}
    [] tab = "reels" -> {Patch("strips", strips) : strips \in ReelStripsEditor(draft)}
    [] tab = "paylines" -> {Patch("paylines", paylines) : paylines \in PaylinesEditor(draft)}
    [] tab = "artwork" -> {Patch("assets", assets) : assets \in AssetsEditor(draft)}
    [] tab = "theme" -> {Patch("theme", theme) : theme \in ThemeEditor(draft)}
    [] OTHER -> {}
=============================================================================
