--------------------------- MODULE GamePublishing ---------------------------
(***************************************************************************)
(* backoffice-api's games: drafts, their uploaded assets, publication with *)
(* its snapshots, and deletion; with what game-backend does to the same    *)
(* collections, seeding the fixtures when it starts and playing rounds.    *)
(*                                                                         *)
(* A draft is a function from the fields it has.  "math" stands for all    *)
(* that a spin is computed from, and a published definition is the draft   *)
(* it was made from.  An asset value names the call that uploaded the      *)
(* object; signed is the short-lived URL a client is shown for it.         *)
(***************************************************************************)
EXTENDS ApiCalls

CONSTANTS
  Game,
  Math,      \* contents of the fields a spin is computed from
  Broken,    \* those that validateDraft refuses
  Drifting,  \* those whose simulation misses the RTP target
  Theme

\* The fixtures, and a game as it is created, pass the gate.
ASSUME PublishingAssumption ==
  /\ Broken \subseteq Math /\ Drifting \subseteq Math
  /\ \E m \in Math \ Broken : m \notin Drifting
  /\ Theme # {}

Slot == {"background", "music"}
Asset == [object : Call \cup {NoValue}, signed : BOOLEAN]
Assets == UNION {[slots -> Asset] : slots \in SUBSET Slot}

\* "math" is required; the others are in REMOVABLE_DRAFT_FIELDS.
Field == {"math", "theme", "assets"}

\* Some of the fields.
Patch ==
  {[f \in fields |-> full[f]] :
     fields \in SUBSET Field, full \in [math : Math, theme : Theme, assets : Assets]}

Draft == {d \in Patch : "math" \in DOMAIN d}
LiveRow == [version : Nat \ {0}, def : Draft]

VARIABLES
  drafts,    \* the gameDrafts collection
  live,      \* the games collection: what players are served
  versions,  \* the gameVersions collection; forced and by are history
  bucket,    \* the objects in storage, by the call that uploaded them
  played     \* the games with a round

publishingVars == <<drafts, live, versions, bucket, played>>

-----------------------------------------------------------------------------
(* Drafts                                                                  *)

Blank == [f \in {"math"} |-> CHOOSE m \in Math \ Broken : m \notin Drifting]

\* The fields of the patch over those of the draft.
Merge(patch, draft) ==
  [f \in DOMAIN patch \cup DOMAIN draft |-> IF f \in DOMAIN patch THEN patch[f] ELSE draft[f]]

Without(draft, fields) == [f \in DOMAIN draft \ fields |-> draft[f]]

\* saveDraft: $set of what the draft has and $unset of the optional fields it
\* lacks, so the whole document, whatever was stored since it was read.
SaveDraft(c) == drafts' = [drafts EXCEPT ![request[c].game] = seen[c]]

\* The identifier is looked up as it was typed and saved trimmed.
CheckNew(c) ==
  LET r == request[c] IN
  /\ Asked(c, "read", "createGame")
  /\ IF ~r.padded /\ drafts[r.game] # NoValue
     THEN Answer(c, "game_already_exists") ELSE Goto(c, "save", Blank)
  /\ UNCHANGED publishingVars

SaveNew(c) ==
  /\ Asked(c, "save", "createGame")
  /\ SaveDraft(c)
  /\ Goto(c, "audit", NoValue)
  /\ UNCHANGED <<live, versions, bucket, played>>

\* draftFromPublished: the definition without what publishing added to it.
DraftFromPublished(row) == row.def

\* Mutant: the body is merged with its assets, which a client was shown signed.
WholeBody(patch) == patch

\* PUT takes every field of the body but the assets.
AcceptedPatch(patch) == Without(patch, {"assets"})

ReadForPut(c) ==
  LET r == request[c] IN
  /\ Asked(c, "read", "put")
  /\ IF drafts[r.game] = NoValue THEN Answer(c, "draft_not_found")
     ELSE Goto(c, "save", Without(Merge(AcceptedPatch(r.patch), drafts[r.game]), r.removed))
  /\ UNCHANGED publishingVars

SavePut(c) ==
  /\ Asked(c, "save", "put")
  /\ SaveDraft(c)
  /\ Answer(c, "saved")
  /\ UNCHANGED <<live, versions, bucket, played>>

FromPublished(c) ==
  LET g == request[c].game IN
  /\ Asked(c, "read", "fromPublished")
  /\ IF drafts[g] # NoValue THEN Answer(c, "draft_already_exists")
     ELSE Goto(c, "published", NoValue)
  /\ UNCHANGED publishingVars

ReadPublished(c) ==
  LET g == request[c].game IN
  /\ Asked(c, "published", "fromPublished")
  /\ IF live[g] = NoValue THEN Answer(c, "game_not_found") ELSE Goto(c, "save", DraftFromPublished(live[g]))
  /\ UNCHANGED publishingVars

SaveFromPublished(c) ==
  /\ Asked(c, "save", "fromPublished")
  /\ SaveDraft(c)
  /\ Answer(c, "saved")
  /\ UNCHANGED <<live, versions, bucket, played>>

-----------------------------------------------------------------------------
(* Assets                                                                  *)

AssetsOf(draft) == IF "assets" \in DOMAIN draft THEN draft["assets"] ELSE [s \in {} |-> NoValue]

WithAssets(draft, assets) ==
  IF DOMAIN assets = {} THEN Without(draft, {"assets"})
  ELSE Merge([f \in {"assets"} |-> assets], draft)

\* buildAssetKey: a key no other upload has, and never a URL.
AssetKey(c) == [object |-> c, signed |-> FALSE]

\* withUploadedAsset: one slot is set or deleted; without any, no assets field.
WithUploadedAsset(draft, slot, key) ==
  WithAssets(draft, Merge([s \in {slot} |-> key], AssetsOf(draft)))

WithoutAsset(draft, slot) == WithAssets(draft, Without(AssetsOf(draft), {slot}))

ReadForUpload(c) ==
  LET g == request[c].game IN
  /\ Asked(c, "read", "upload")
  /\ IF drafts[g] = NoValue THEN Answer(c, "draft_not_found") ELSE Goto(c, "store", drafts[g])
  /\ UNCHANGED publishingVars

\* The object is stored under a key of its own before the draft names it.
UploadAsset(c) ==
  /\ Asked(c, "store", "upload")
  /\ \/ bucket' = bucket \cup {c} /\ Goto(c, "save", WithUploadedAsset(seen[c], request[c].slot, AssetKey(c)))
     \/ UNCHANGED bucket /\ Answer(c, "storage_failed")
  /\ UNCHANGED <<drafts, live, versions, played>>

SaveUpload(c) ==
  /\ Asked(c, "save", "upload")
  /\ SaveDraft(c)
  /\ Goto(c, "audit", NoValue)
  /\ UNCHANGED <<live, versions, bucket, played>>

ReadForClear(c) ==
  LET r == request[c] IN
  /\ Asked(c, "read", "clear")
  /\ IF drafts[r.game] = NoValue THEN Answer(c, "draft_not_found")
     ELSE Goto(c, "save", WithoutAsset(drafts[r.game], r.slot))
  /\ UNCHANGED publishingVars

SaveClear(c) ==
  /\ Asked(c, "save", "clear")
  /\ SaveDraft(c)
  /\ Answer(c, "saved")
  /\ UNCHANGED <<live, versions, bucket, played>>

-----------------------------------------------------------------------------
(* Publication                                                             *)

\* The draft is read and validated once; everything after uses it as read.
ReadForPublish(c) ==
  LET draft == drafts[request[c].game] IN
  /\ Asked(c, "read", "publish")
  /\ IF draft = NoValue THEN Answer(c, "draft_not_found")
     ELSE IF draft["math"] \in Broken THEN Answer(c, "draft_invalid")
     ELSE Goto(c, "version", draft)
  /\ UNCHANGED publishingVars

\* Mutant: a published game keeps the number it has.
SameVersion(row) == IF row = NoValue THEN 1 ELSE row.version

NextVersion(row) == (IF row = NoValue THEN 0 ELSE row.version) + 1

\* The next version is one past the live one; then the simulation runs.
ReadVersion(c) ==
  LET r == request[c] IN
  /\ Asked(c, "version", "publish")
  /\ IF seen[c]["math"] \in Drifting /\ ~r.force THEN Answer(c, "rtp_out_of_tolerance")
     ELSE Goto(c, "snapshot", [version |-> NextVersion(live[r.game]), def |-> seen[c]])
  /\ UNCHANGED publishingVars

Published(c) == seen[c]

Snapshot(g, row, forced, by) ==
  [game |-> g, version |-> row.version, def |-> row.def, forced |-> forced, by |-> by]

\* gameVersions is unique on gameId and version.
InsertVersion(c) ==
  LET g == request[c].game
      row == Published(c)
  IN
  /\ Asked(c, "snapshot", "publish")
  /\ IF \E v \in versions : v.game = g /\ v.version = row.version
     THEN Answer(c, "duplicate_version") /\ UNCHANGED versions
     ELSE /\ versions' = versions \cup {Snapshot(g, row, request[c].force, c)}
          /\ Goto(c, "replace", row)
  /\ UNCHANGED <<drafts, live, bucket, played>>

\* Mutant: what goes live is read from the draft again.
ReplaceWithDraft(c) ==
  LET g == request[c].game IN
  /\ Asked(c, "replace", "publish")
  /\ live' = [live EXCEPT ![g] = [seen[c] EXCEPT !.def = IF drafts[g] = NoValue THEN @ ELSE drafts[g]]]
  /\ Goto(c, "audit", NoValue)
  /\ UNCHANGED <<drafts, versions, bucket, played>>

ReplaceLive(c) ==
  /\ Asked(c, "replace", "publish")
  /\ live' = [live EXCEPT ![request[c].game] = seen[c]]
  /\ Goto(c, "audit", NoValue)
  /\ UNCHANGED <<drafts, versions, bucket, played>>

-----------------------------------------------------------------------------
(* Deletion                                                                *)

ReadForDelete(c) ==
  LET g == request[c].game IN
  /\ Asked(c, "read", "delete")
  /\ IF drafts[g] = NoValue /\ live[g] = NoValue
     THEN Answer(c, "game_not_found") ELSE Goto(c, "rounds", NoValue)
  /\ UNCHANGED publishingVars

\* Mutant: the rounds are not counted.
CountNothing(c) ==
  /\ Asked(c, "rounds", "delete")
  /\ Goto(c, "delete_live", NoValue)
  /\ UNCHANGED publishingVars

CountRounds(c) ==
  /\ Asked(c, "rounds", "delete")
  /\ IF request[c].game \in played THEN Answer(c, "game_has_rounds") ELSE Goto(c, "delete_live", NoValue)
  /\ UNCHANGED publishingVars

DeleteLive(c) ==
  /\ Asked(c, "delete_live", "delete")
  /\ live' = [live EXCEPT ![request[c].game] = NoValue]
  /\ Goto(c, "delete_versions", NoValue)
  /\ UNCHANGED <<drafts, versions, bucket, played>>

DeleteVersions(c) ==
  /\ Asked(c, "delete_versions", "delete")
  /\ versions' = {v \in versions : v.game # request[c].game}
  /\ Goto(c, "delete_draft", NoValue)
  /\ UNCHANGED <<drafts, live, bucket, played>>

DeleteDraft(c) ==
  /\ Asked(c, "delete_draft", "delete")
  /\ drafts' = [drafts EXCEPT ![request[c].game] = NoValue]
  /\ Goto(c, "audit", NoValue)
  /\ UNCHANGED <<live, versions, bucket, played>>

-----------------------------------------------------------------------------
(* game-backend                                                            *)

\* seedGame: the live row first, its snapshot second, each only if absent.
Seed == [version |-> 1, def |-> Blank]

SeedLive(c) ==
  LET g == request[c].game IN
  /\ Asked(c, "seed_live", "seed")
  /\ live' = IF live[g] = NoValue THEN [live EXCEPT ![g] = Seed] ELSE live
  /\ Goto(c, "seed_version", NoValue)
  /\ UNCHANGED <<drafts, versions, bucket, played>>

SeedVersion(c) ==
  LET g == request[c].game IN
  /\ Asked(c, "seed_version", "seed")
  /\ versions' = IF \E v \in versions : v.game = g /\ v.version = 1 THEN versions
                 ELSE versions \cup {Snapshot(g, Seed, FALSE, c)}
  /\ Answer(c, "seeded")
  /\ UNCHANGED <<drafts, live, bucket, played>>

\* A spin loads the definition and commits its round some time later.
LoadGame(c) ==
  /\ Asked(c, "load", "spin")
  /\ IF live[request[c].game] = NoValue THEN Answer(c, "game_not_found") ELSE Goto(c, "round", NoValue)
  /\ UNCHANGED publishingVars

PlayRound(c) ==
  /\ Asked(c, "round", "spin")
  /\ played' = played \cup {request[c].game}
  /\ Answer(c, "round")
  /\ UNCHANGED <<drafts, live, versions, bucket>>

-----------------------------------------------------------------------------
PublishingStep(c) ==
  \/ CheckNew(c) \/ SaveNew(c) \/ ReadForPut(c) \/ SavePut(c)
  \/ FromPublished(c) \/ ReadPublished(c) \/ SaveFromPublished(c)
  \/ ReadForUpload(c) \/ UploadAsset(c) \/ SaveUpload(c) \/ ReadForClear(c) \/ SaveClear(c)
  \/ ReadForPublish(c) \/ ReadVersion(c) \/ InsertVersion(c) \/ ReplaceLive(c)
  \/ ReadForDelete(c) \/ CountRounds(c) \/ DeleteLive(c) \/ DeleteVersions(c) \/ DeleteDraft(c)
  \/ SeedLive(c) \/ SeedVersion(c) \/ LoadGame(c) \/ PlayRound(c)

AskedFor(c, op, g) == request[c] # NoValue /\ request[c].op = op /\ request[c].game = g

\* The calls that write the published game: its live row or its snapshots.
Writers(g) == {c \in Call : AskedFor(c, "publish", g) \/ AskedFor(c, "delete", g) \/ AskedFor(c, "seed", g)}

\* A deletion that overlaps a publication of the game, or a seeding, can part
\* the live game from its snapshots.
Parted(g) ==
  \E c, d \in Call :
    /\ AskedFor(c, "delete", g) /\ Overlap(c, d)
    /\ AskedFor(d, "publish", g) \/ AskedFor(d, "seed", g)

\* A seeding that is, or died, between its two writes.
HalfSeeded(g) == \E c \in Call : AskedFor(c, "seed", g) /\ "seed_version" \in {pc[c], reply[c]}

\* A seeding that found its version taken: by a publication that overlapped it,
\* or by the snapshots of a publication or deletion that died.
Taken(g) ==
  \E c, d \in Call :
    /\ AskedFor(c, "seed", g)
    /\ \/ AskedFor(d, "publish", g) /\ (Overlap(c, d) \/ reply[d] = "replace")
       \/ AskedFor(d, "delete", g) /\ reply[d] = "delete_versions"

\* What a player is served can be audited: whatever went live was valid and
\* within the tolerance of its RTP target, or was forced past it, also when the
\* draft was edited while the simulation ran; and a live game is the snapshot
\* of its version, whichever call dies where, but for a seeding or a deletion
\* that meets another writer's half-done work.
LiveIsASnapshot ==
  /\ \A v \in versions :
       /\ v.def["math"] \notin Broken
       /\ v.def["math"] \in Drifting => v.forced
  /\ \A g \in Game :
       \/ live[g] = NoValue
       \/ \E v \in versions : v.game = g /\ v.version = live[g].version /\ v.def = live[g].def
       \/ Parted(g) \/ HalfSeeded(g) \/ Taken(g)

\* Two writers of the game overlapped, or one died between its writes.
Disturbed(g) ==
  \E d \in Writers(g) :
    \/ pc[d] = "crashed" /\ reply[d] \in {"replace", "delete_versions"}
    \/ \E e \in Writers(g) : Overlap(d, e)

\* Publications of a game never claim one version when those who write it come
\* one after another.  A publication that does follows two that overlapped, or
\* one whose process died after its snapshot: the live version never passed it.
CollisionsAreExplained ==
  \A g \in Game, c \in Call :
    AskedFor(c, "publish", g) /\ reply[c] = "duplicate_version" => Disturbed(g)

Stored(draft) ==
  \A s \in DOMAIN AssetsOf(draft) :
    /\ ~AssetsOf(draft)[s].signed
    /\ AssetsOf(draft)[s].object \in bucket

\* Drafts, snapshots and live games name objects that were stored, by their
\* keys: a signed URL a client was shown is never stored in the place of a key.
StoredAssetsExist ==
  /\ \A g \in Game : drafts[g] # NoValue => Stored(drafts[g])
  /\ \A g \in Game : live[g] # NoValue => Stored(live[g].def)
  /\ \A v \in versions : Stored(v.def)

Raced(g) == \E c, d \in Call : AskedFor(c, "delete", g) /\ AskedFor(d, "spin", g) /\ Overlap(c, d)

\* A game with rounds is still there: only a deletion that overlapped the spin
\* takes it away, having counted the rounds before the spin committed its own.
PlayedGamesAreKept ==
  \A g \in played : live[g] # NoValue \/ Raced(g)
=============================================================================
