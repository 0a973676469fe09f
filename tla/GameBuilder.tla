---------------------------- MODULE GameBuilder ----------------------------
(***************************************************************************)
(* The game list and the game builder, over one game.  An edit changes the *)
(* draft on screen at once and is saved, whole, when editing pauses.       *)
(***************************************************************************)
EXTENDS ConsoleCalls, DraftEditors

VARIABLES
  stored,       \* the game's draft
  live,         \* the published game, with its version
  kept          \* history: the last edit of each field, how many calls were sent
                \* before it, and whether something has put it at risk:
                \* [value, since, risky]

gameVars == <<stored, live, kept>>

\* What a game's draft has.
Fields ==
  {"name", "grid", "rtp", "rule", "currency", "bets", "modules", "mode", "weights", "symbols", "strips", "paylines",
   "assets", "theme"}

\* Nothing that is typed or chosen is one of the marks for a field without a value.
ASSUME DraftAssumption ==
  /\ Removed # Absent
  /\ Absent \notin Texts \cup {"sum", "highestOnly"}
  /\ \A s \in Situation :
       LET The_s == SituationOf[s] IN
       /\ The_s.blank # NoValue /\ DOMAIN The_s.blank = Fields
       /\ \A first \in The_s.drafts :
            /\ first.draft # NoValue => DOMAIN first.draft = Fields
            /\ first.live # NoValue =>
                 DOMAIN first.live = {"version", "def"} /\ first.live.def # NoValue /\ DOMAIN first.live.def = Fields

-----------------------------------------------------------------------------
(* The screens                                                             *)

GameListScreen(mount) == [name |-> "games", mount |-> mount, creating |-> FALSE, listed |-> FALSE]

\* "panel" tells apart the instances of the maths panel, which is there while
\* its tab is.
GameBuilderScreen(mount) ==
  [name |-> "game", mount |-> mount, draft |-> NoValue, version |-> NoValue, dead |-> FALSE,
   pending |-> NoValue, timer |-> FALSE, saving |-> "idle", valid |-> TRUE,
   panel |-> 0, busy |-> NoValue, offer |-> FALSE, history |-> NoValue]

CanEdit == The.role \in {"game_designer", "super_admin"}

\* Another tab is open: the maths panel is gone, with what it waited for.
OffPanel(s) ==
  IF s.busy = NoValue /\ ~s.offer THEN s ELSE [s EXCEPT !.panel = @ + 1, !.busy = NoValue, !.offer = FALSE]

Builder == screen.name = "game" /\ screen.draft # NoValue /\ ~screen.dead

Save(s) == Request("saveDraft", s.pending, s.mount)

\* Mutant: the screen closes without it.
NoFlush(s) == <<>>

\* flush, when the screen closes: what is pending is sent, if anything is.
Flush(s) == IF s.name = "game" /\ s.pending # NoValue THEN <<Save(s)>> ELSE <<>>

\* A grid of another shape reshapes every payline.
Applied(draft, patch) ==
  LET next == [f \in DOMAIN draft |-> IF f \in DOMAIN patch THEN patch[f] ELSE draft[f]] IN
  IF next.grid = draft.grid THEN next
  ELSE [next EXCEPT !.paylines = ReshapePaylines(next.paylines, next.grid)]

Plain(value) == IF value = Removed THEN Absent ELSE value

\* A removal that waits to be sent, which an edit of a draft without the field
\* takes the place of.
Unsent(f) == screen.pending # NoValue /\ screen.pending[f] = Removed

\* An edit is at risk from here on if the draft that is sent next lacks it; a
\* field that is not sent leaves things as they are.
KeptAfter(next) ==
  [f \in DOMAIN kept \cup ({g \in DOMAIN next : next[g] # screen.draft[g]} \ {"assets"}) |->
     IF next[f] # screen.draft[f] THEN [value |-> Plain(next[f]), since |-> issued, risky |-> FALSE]
     ELSE [value |-> kept[f].value,
           since |-> IF kept[f].risky THEN issued ELSE kept[f].since,
           risky |-> Plain(next[f]) # kept[f].value \/ (next[f] = Absent /\ (kept[f].risky \/ Unsent(f)))]]

Edit ==
  /\ Act
  /\ Builder /\ CanEdit
  /\ The.patient => screen.pending = NoValue /\ DOMAIN calls = {}
  /\ \E tab \in The.tabs : \E patch \in Edits(screen.draft, tab) :
       LET next == Applied(screen.draft, patch) IN
       /\ DOMAIN patch \cap The.fields # {}
       /\ Update([OffPanel(screen) EXCEPT !.draft = next, !.pending = next, !.timer = TRUE, !.saving = "idle"], <<>>)
       /\ kept' = KeptAfter(next)
  /\ UNCHANGED <<stored, live>>

\* Editing has paused.
Autosave ==
  /\ screen.name = "game" /\ screen.timer
  /\ Update([screen EXCEPT !.timer = FALSE, !.pending = NoValue, !.saving = "saving"], <<Save(screen)>>)
  /\ UNCHANGED <<acts, gameVars>>

Upload ==
  /\ Act
  /\ Builder /\ "artwork" \in The.tabs
  /\ \E slot \in Slots(screen.draft) : Update(OffPanel(screen), <<Request("upload", slot, screen.mount)>>)
  /\ UNCHANGED gameVars

\* simulate and publish of the maths panel, of what the server has stored.
Simulate ==
  /\ Act
  /\ Builder /\ CanEdit /\ screen.valid /\ screen.busy = NoValue /\ "math" \in The.tabs
  /\ Update([screen EXCEPT !.busy = "simulate"], <<Request("simulate", [panel |-> screen.panel], screen.mount)>>)
  /\ UNCHANGED gameVars

\* "Publish anyway" is offered after a refusal, whether the draft is valid or not.
Publish(force) ==
  /\ Act
  /\ Builder /\ CanEdit /\ screen.busy = NoValue /\ "math" \in The.tabs
  /\ IF force THEN screen.offer ELSE screen.valid
  /\ Update([screen EXCEPT !.busy = "publish"],
            <<Request("publish", [panel |-> screen.panel, force |-> force], screen.mount)>>)
  /\ UNCHANGED gameVars

OpenHistory ==
  /\ Act
  /\ Builder /\ "history" \in The.tabs
  /\ Update(OffPanel(screen), <<Request("history", NoValue, screen.mount)>>)
  /\ UNCHANGED gameVars

Create ==
  /\ Act
  /\ screen.name = "games" /\ CanEdit
  /\ Update([screen EXCEPT !.creating = TRUE], <<Request("createGame", NoValue, screen.mount)>>)
  /\ UNCHANGED gameVars

-----------------------------------------------------------------------------
(* backoffice-api                                                          *)

\* The PUT takes no artwork, and an optional field the body lacks stays as it is.
Optional == {"theme", "rule", "currency"}

Merged(old, body) ==
  [f \in DOMAIN body |->
     IF (f \in Optional /\ body[f] = Absent) \/ (f = "assets" /\ body[f] # Removed) THEN old[f] ELSE Plain(body[f])]

\* What these handlers know of the draft is what they read of it first.
ReadDraft(n) ==
  /\ Admitted(n, {"saveDraft", "upload", "createGame", "fromPublished"})
  /\ calls[n].read = NoValue
  /\ calls' = [calls EXCEPT ![n].read = [draft |-> stored]]
  /\ UNCHANGED <<situation, acts, sessions, session, route, screen, mounts, issued, gameVars>>

HasRead(n, ops) == Waiting(n, ops) /\ calls[n].read # NoValue

\* What call n stores is not made from the edit of f: the call was sent before
\* the edit, or its handler read a draft without it.
Stale(n, f) ==
  \/ n <= kept[f].since
  \/ calls[n].read.draft = NoValue
  \/ calls[n].read.draft[f] # kept[f].value

\* saveDraft: the whole document replaces what is stored by then.  An edit that
\* a stale document takes away is at risk.
Store(n, next, reply) ==
  /\ stored' = next
  /\ kept' = [f \in DOMAIN kept |->
                [kept[f] EXCEPT !.risky = @ \/ (Stale(n, f) /\ stored[f] = kept[f].value /\ next[f] # kept[f].value)]]
  /\ Reply(n, reply)
  /\ UNCHANGED <<sessions, live>>

Decline(n, code) == Reply(n, Status(code)) /\ UNCHANGED <<sessions, gameVars>>

ServeSave(n) ==
  /\ HasRead(n, {"saveDraft"})
  /\ LET old == calls[n].read.draft
         next == Merged(old, calls[n].arg)
     IN IF old = NoValue THEN Decline(n, 404) ELSE Store(n, next, Ok([draft |-> next, valid |-> Valid(next)]))

ServeUpload(n) ==
  /\ HasRead(n, {"upload"})
  /\ LET old == calls[n].read.draft
         next == [old EXCEPT !.assets = Entry(@, calls[n].arg, "key")]
     IN IF old = NoValue THEN Decline(n, 404) ELSE Store(n, next, Ok([draft |-> next]))

ServeRead(n) ==
  /\ \/ /\ Admitted(n, {"getGame"})
        /\ Reply(n, IF stored = NoValue /\ live = NoValue THEN Status(404)
                    ELSE Ok([draft |-> stored, version |-> IF live = NoValue THEN NoValue ELSE live.version]))
     \/ /\ Admitted(n, {"simulate"})
        /\ Reply(n, IF stored = NoValue THEN Status(404) ELSE Status(IF Valid(stored) THEN 200 ELSE 400))
     \/ Admitted(n, {"listGames"}) /\ Reply(n, Ok(stored # NoValue \/ live # NoValue))
     \/ /\ Admitted(n, {"history"})
        /\ Reply(n, IF The.role \in RolesFor("audit") THEN Status(200) ELSE Status(403))
  /\ UNCHANGED <<sessions, gameVars>>

ServeCreate(n) ==
  /\ HasRead(n, {"createGame"})
  /\ IF calls[n].read.draft # NoValue THEN Decline(n, 409) ELSE Store(n, The.blank, Status(201))

ServeFromPublished(n) ==
  /\ HasRead(n, {"fromPublished"})
  /\ CASE calls[n].read.draft # NoValue -> Decline(n, 409)
       [] calls[n].read.draft = NoValue /\ live = NoValue -> Decline(n, 404)
       [] OTHER -> Store(n, live.def, Ok([draft |-> live.def]))

\* publishDraft: a draft that misses its target needs force.
ServePublish(n) ==
  /\ Admitted(n, {"publish"})
  /\ IF stored = NoValue \/ ~Valid(stored)
     THEN Reply(n, Status(IF stored = NoValue THEN 404 ELSE 400)) /\ UNCHANGED live
     ELSE \/ /\ live' = [version |-> (IF live = NoValue THEN 0 ELSE live.version) + 1, def |-> stored]
             /\ Reply(n, Status(200))
          \/ ~calls[n].arg.force /\ Reply(n, Status(422)) /\ UNCHANGED live
  /\ UNCHANGED <<sessions, stored, kept>>

\* A handler's answer; what it reads before is ReadDraft.
ServeGame(n) ==
  \/ ServeSave(n) \/ ServeUpload(n) \/ ServeRead(n) \/ ServeCreate(n) \/ ServeFromPublished(n) \/ ServePublish(n)

\* A save that fails is not sent again, though the next edit may carry it.
KeptAfterFailing(n) ==
  IF calls[n].op # "saveDraft" THEN kept
  ELSE [f \in DOMAIN kept |-> [kept[f] EXCEPT !.risky = @ \/ Plain(calls[n].arg[f]) = kept[f].value]]

-----------------------------------------------------------------------------
(* Answers: what the screen is then, and what it asks next                 *)

Then(s, requests) == [screen |-> s, send |-> requests]

\* A screen that is gone ignores what is set on it.
IfMounted(c, s) == IF c.mount = screen.mount THEN s ELSE screen

\* load: a game without a draft gets one from what is live.
OnLoaded(c) ==
  IF ~Good(c) THEN Then(IfMounted(c, [screen EXCEPT !.dead = TRUE]), <<>>)
  ELSE IF c.reply.body.draft # NoValue
  THEN Then(IfMounted(c, [screen EXCEPT !.version = c.reply.body.version, !.draft = c.reply.body.draft]), <<>>)
  ELSE Then(IfMounted(c, [screen EXCEPT !.version = c.reply.body.version]),
            <<Request("fromPublished", NoValue, c.mount)>>)

\* The server's copy wins, whatever was edited since the save was sent.
OnSaved(c) ==
  Then(IfMounted(c, IF Good(c)
                    THEN [screen EXCEPT !.draft = c.reply.body.draft, !.valid = c.reply.body.valid, !.saving = "saved"]
                    ELSE [screen EXCEPT !.saving = "failed"]), <<>>)

\* The panel that asked, if it is still there, waits no more.
Done(c, s) == IF c.mount = screen.mount /\ c.arg.panel = screen.panel THEN s ELSE screen

\* The screen loads the game again, also when the panel is gone.
OnPublished(c) ==
  LET offer == IF Good(c) THEN FALSE ELSE screen.offer \/ c.reply.status = 422
      s == Done(c, [screen EXCEPT !.busy = NoValue, !.offer = offer])
  IN
  Then(IfMounted(c, IF Good(c) THEN [s EXCEPT !.history = NoValue] ELSE s),
       IF Good(c) THEN <<Request("getGame", NoValue, c.mount)>> ELSE <<>>)

OnGameAnswer(c) ==
  CASE c.op = "getGame" -> OnLoaded(c)
    [] c.op = "fromPublished" ->
         Then(IfMounted(c, IF Good(c) THEN [screen EXCEPT !.draft = c.reply.body.draft]
                           ELSE [screen EXCEPT !.dead = TRUE]), <<>>)
    [] c.op = "saveDraft" -> OnSaved(c)
    [] c.op = "upload" ->
         Then(IfMounted(c, IF Good(c) THEN [screen EXCEPT !.draft = c.reply.body.draft] ELSE screen), <<>>)
    [] c.op = "simulate" -> Then(Done(c, [screen EXCEPT !.busy = NoValue]), <<>>)
    [] c.op = "publish" -> OnPublished(c)
    [] c.op = "history" -> Then(IfMounted(c, IF Good(c) THEN [screen EXCEPT !.history = "shown"] ELSE screen), <<>>)
    [] c.op = "listGames" ->
         Then(IfMounted(c, IF Good(c) THEN [screen EXCEPT !.listed = c.reply.body] ELSE screen), <<>>)
    [] c.op = "createGame" ->
         Then(IfMounted(c, IF c.reply.status = 201 THEN [screen EXCEPT !.creating = FALSE] ELSE screen), <<>>)

BuilderStep ==
  \/ Edit \/ Autosave \/ Upload \/ Simulate \/ OpenHistory \/ Create
  \/ \E force \in BOOLEAN : Publish(force)
=============================================================================
