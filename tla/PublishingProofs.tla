--------------------------- MODULE PublishingProofs ---------------------------
(***************************************************************************)
(* What backoffice-api and game-backend do to games, for any games, drafts *)
(* and number of concurrent calls.                                         *)
(***************************************************************************)
EXTENDS PlatformProofs

-----------------------------------------------------------------------------
(* Drafts                                                                  *)

IsAFunction(f) == f = [x \in DOMAIN f |-> f[x]]

IsAPatch(p) ==
  /\ IsAFunction(p) /\ DOMAIN p \subseteq Field
  /\ "math" \in DOMAIN p => p["math"] \in Math
  /\ "theme" \in DOMAIN p => p["theme"] \in Theme
  /\ "assets" \in DOMAIN p => p["assets"] \in Assets

LEMMA PatchFields ==
  ASSUME NEW p
  PROVE  p \in Patch <=> IsAPatch(p)
<1>1. ASSUME p \in Patch
      PROVE  IsAPatch(p)
  <2>1. PICK fields \in SUBSET Field, full \in [math : Math, theme : Theme, assets : Assets] :
          p = [f \in fields |-> full[f]]
    BY <1>1 DEF Patch
  <2> QED
    BY <2>1 DEF IsAPatch, IsAFunction
<1>2. ASSUME IsAPatch(p)
      PROVE  p \in Patch
  <2>1. PICK m \in Math, t \in Theme : TRUE
    BY PublishingAssumption
  <2>2. [s \in {} |-> NoValue] \in Assets
    BY DEF Assets
  <2> DEFINE full == [math |-> IF "math" \in DOMAIN p THEN p["math"] ELSE m,
                      theme |-> IF "theme" \in DOMAIN p THEN p["theme"] ELSE t,
                      assets |-> IF "assets" \in DOMAIN p THEN p["assets"] ELSE [s \in {} |-> NoValue]]
  <2>3. full \in [math : Math, theme : Theme, assets : Assets]
    BY <1>2, <2>1, <2>2 DEF IsAPatch
  <2>4. \A f \in DOMAIN p : p[f] = full[f]
    BY <1>2 DEF Field, IsAPatch
  <2>5. p = [f \in DOMAIN p |-> full[f]]
    BY <1>2, <2>4 DEF IsAFunction, IsAPatch
  <2> HIDE DEF full
  <2> QED
    BY <1>2, <2>3, <2>5 DEF Patch, IsAPatch
<1> QED
  BY <1>1, <1>2

\* Some assets.
IsAssets(a) == IsAFunction(a) /\ DOMAIN a \subseteq Slot /\ \A s \in DOMAIN a : a[s] \in Asset

LEMMA AssetFields ==
  ASSUME NEW a
  PROVE  a \in Assets <=> IsAssets(a)
<1>1. ASSUME a \in Assets
      PROVE  IsAssets(a)
  BY <1>1 DEF Assets, IsAssets, IsAFunction
<1>2. ASSUME IsAssets(a)
      PROVE  a \in Assets
  <2>1. a \in [DOMAIN a -> Asset]
    BY <1>2 DEF IsAssets, IsAFunction
  <2> QED
    BY <1>2, <2>1 DEF Assets, IsAssets
<1> QED
  BY <1>1, <1>2

LEMMA BlankIsValid ==
  /\ Blank \in Draft /\ "assets" \notin DOMAIN Blank
  /\ Blank["math"] \in Math \ (Broken \cup Drifting)
<1>1. (CHOOSE m \in Math \ Broken : m \notin Drifting) \in Math \ (Broken \cup Drifting)
  BY PublishingAssumption
<1>2. DOMAIN Blank = {"math"} /\ Blank["math"] \in Math \ (Broken \cup Drifting)
      /\ IsAFunction(Blank)
  BY <1>1 DEF Blank, IsAFunction
<1> HIDE DEF Blank
<1> QED
  BY <1>2, PatchFields DEF Draft, Field, IsAPatch

LEMMA MergeFields ==
  ASSUME NEW p, NEW d
  PROVE  /\ IsAFunction(Merge(p, d))
         /\ DOMAIN Merge(p, d) = DOMAIN p \cup DOMAIN d
         /\ \A f \in DOMAIN p : Merge(p, d)[f] = p[f]
         /\ \A f \in DOMAIN d \ DOMAIN p : Merge(p, d)[f] = d[f]
BY DEF Merge, IsAFunction

LEMMA WithoutFields ==
  ASSUME NEW d, NEW fields
  PROVE  /\ IsAFunction(Without(d, fields))
         /\ DOMAIN Without(d, fields) = DOMAIN d \ fields
         /\ \A f \in DOMAIN d \ fields : Without(d, fields)[f] = d[f]
BY DEF Without, IsAFunction

LEMMA MergeIsPatch ==
  ASSUME NEW p \in Patch, NEW d \in Patch
  PROVE  Merge(p, d) \in Patch
<1> DEFINE m == Merge(p, d)
<1>1. IsAPatch(p) /\ IsAPatch(d)
  BY PatchFields
<1>2. /\ IsAFunction(m) /\ DOMAIN m = DOMAIN p \cup DOMAIN d
      /\ \A f \in DOMAIN m : m[f] = IF f \in DOMAIN p THEN p[f] ELSE d[f]
  BY DEF Merge, IsAFunction
<1> HIDE DEF m
<1>3. IsAPatch(m)
  BY <1>1, <1>2 DEF IsAPatch
<1> QED
  BY <1>3, PatchFields DEF m

LEMMA WithoutIsPatch ==
  ASSUME NEW d \in Patch, NEW fields
  PROVE  Without(d, fields) \in Patch
<1> DEFINE m == Without(d, fields)
<1>1. IsAPatch(d)
  BY PatchFields
<1>2. /\ IsAFunction(m) /\ DOMAIN m = DOMAIN d \ fields
      /\ \A f \in DOMAIN m : m[f] = d[f]
  <2>1. DOMAIN m = DOMAIN d \ fields
    BY WithoutFields
  <2> QED
    BY <2>1, WithoutFields
<1> HIDE DEF m
<1>3. IsAPatch(m)
  BY <1>1, <1>2 DEF IsAPatch
<1> QED
  BY <1>3, PatchFields DEF m

LEMMA AssetsAreAssets ==
  ASSUME NEW d \in Patch
  PROVE  AssetsOf(d) \in Assets
<1>1. [s \in {} |-> NoValue] \in Assets
  BY DEF Assets
<1> QED
  BY <1>1, PatchFields DEF AssetsOf, IsAPatch

\* A saved body keeps the assets the draft had, or drops them all.
LEMMA PutKeepsAssets ==
  ASSUME NEW p \in Patch, NEW d \in Draft, NEW fields \in SUBSET (Field \ {"math"})
  PROVE  LET saved == Without(Merge(AcceptedPatch(p), d), fields) IN
         saved \in Draft /\ (Stored(d) => Stored(saved))
<1> DEFINE a == AcceptedPatch(p)
           m == Merge(a, d)
           saved == Without(m, fields)
<1>1. a \in Patch /\ "assets" \notin DOMAIN a
  BY WithoutIsPatch DEF AcceptedPatch, Without
<1>2. m \in Patch /\ "math" \in DOMAIN m
  BY <1>1, MergeIsPatch, MergeFields DEF Draft
<1>3. saved \in Draft
  BY <1>2, WithoutIsPatch, WithoutFields DEF Draft
<1>4. AssetsOf(m) = AssetsOf(d)
  BY <1>1 DEF AssetsOf, Merge
<1>5. AssetsOf(saved) = AssetsOf(m) \/ AssetsOf(saved) = [s \in {} |-> NoValue]
  BY DEF AssetsOf, Without
<1> HIDE DEF a, m, saved
<1>6. Stored(d) => Stored(saved)
  BY <1>4, <1>5 DEF Stored
<1> QED
  BY <1>3, <1>6 DEF saved, m, a

\* Putting assets into a draft.
LEMMA WithAssetsFields ==
  ASSUME NEW d \in Draft, NEW assets \in Assets
  PROVE  /\ WithAssets(d, assets) \in Draft
         /\ DOMAIN assets # {} => AssetsOf(WithAssets(d, assets)) = assets
         /\ DOMAIN assets = {} => AssetsOf(WithAssets(d, assets)) = [s \in {} |-> NoValue]
<1> DEFINE one == [f \in {"assets"} |-> assets]
<1>1. CASE DOMAIN assets = {}
  BY <1>1, WithoutIsPatch DEF WithAssets, AssetsOf, Draft, Without
<1>2. CASE DOMAIN assets # {}
  <2>1. one \in Patch
    BY PatchFields DEF Field, IsAFunction, IsAPatch
  <2>2. WithAssets(d, assets) = Merge(one, d)
    BY <1>2 DEF WithAssets
  <2>3. Merge(one, d) \in Draft
    BY <2>1, MergeIsPatch, MergeFields DEF Draft
  <2>4. AssetsOf(Merge(one, d)) = assets
    BY DEF AssetsOf, Merge
  <2> QED
    BY <1>2, <2>2, <2>3, <2>4
<1> QED
  BY <1>1, <1>2

LEMMA UploadStores ==
  ASSUME NEW d \in Draft, NEW slot \in Slot, NEW c \in Call, Stored(d), bucket' = bucket \cup {c}
  PROVE  /\ WithUploadedAsset(d, slot, AssetKey(c)) \in Draft
         /\ Stored(WithUploadedAsset(d, slot, AssetKey(c)))'
<1> DEFINE old == AssetsOf(d)
           one == [s \in {slot} |-> AssetKey(c)]
           assets == Merge(one, old)
           new == WithAssets(d, assets)
<1>1. old \in Assets
  BY AssetsAreAssets DEF Draft
<1>2. AssetKey(c) \in Asset /\ ~AssetKey(c).signed /\ AssetKey(c).object = c
  BY DEF AssetKey, Asset
<1>10. DOMAIN one = {slot} /\ one[slot] = AssetKey(c)
  OBVIOUS
<1> HIDE DEF one, old
<1>3. \A s \in DOMAIN assets : assets[s] = AssetKey(c) \/ (s \in DOMAIN old /\ assets[s] = old[s])
  BY <1>10 DEF Merge
<1>4. DOMAIN assets = {slot} \cup DOMAIN old /\ IsAFunction(assets)
  BY <1>10 DEF Merge, IsAFunction
<1> HIDE DEF assets
<1>5. assets \in Assets
  BY <1>1, <1>2, <1>3, <1>4, AssetFields DEF IsAssets
<1>6. new \in Draft /\ AssetsOf(new) = assets
  BY <1>4, <1>5, WithAssetsFields
<1>7. \A s \in DOMAIN assets : ~assets[s].signed /\ assets[s].object \in bucket'
  BY <1>2, <1>3 DEF Stored, old
<1>8. AssetsOf(new)' = AssetsOf(new)
  BY DEF AssetsOf
<1> HIDE DEF new
<1>9. Stored(new)'
  BY <1>6, <1>7, <1>8 DEF Stored
<1> QED
  BY <1>6, <1>9 DEF new, assets, old, one, WithUploadedAsset

LEMMA ClearKeepsStored ==
  ASSUME NEW d \in Draft, NEW slot
  PROVE  WithoutAsset(d, slot) \in Draft /\ (Stored(d) => Stored(WithoutAsset(d, slot)))
<1> DEFINE old == AssetsOf(d)
           assets == Without(old, {slot})
           new == WithAssets(d, assets)
<1>1. old \in Assets
  BY AssetsAreAssets DEF Draft
<1>2. /\ DOMAIN assets = DOMAIN old \ {slot} /\ IsAFunction(assets)
      /\ \A s \in DOMAIN assets : assets[s] = old[s]
  BY DEF Without, IsAFunction
<1> HIDE DEF assets
<1>3. assets \in Assets
  BY <1>1, <1>2, AssetFields DEF IsAssets
<1>4. new \in Draft /\ (DOMAIN AssetsOf(new) = {} \/ AssetsOf(new) = assets)
  BY <1>3, WithAssetsFields
<1> HIDE DEF new
<1>5. Stored(d) => Stored(new)
  BY <1>2, <1>4 DEF Stored
<1> QED
  BY <1>4, <1>5 DEF new, assets, WithoutAsset

\* Objects are never removed from the bucket.
LEMMA StoredStays ==
  ASSUME NEW d, Stored(d), bucket \subseteq bucket'
  PROVE  Stored(d)'
BY DEF Stored, AssetsOf

LEMMA NoAssetsStored ==
  ASSUME NEW d, "assets" \notin DOMAIN d
  PROVE  Stored(d)
BY DEF Stored, AssetsOf
-----------------------------------------------------------------------------
(* The rows                                                                *)

Held(draft) == draft \in Draft /\ Stored(draft)

\* A row that is published, or about to be: valid, and within the tolerance of
\* its target or forced.
Passed(row, forced) ==
  /\ row.version \in Nat \ {0} /\ Held(row.def)
  /\ row.def["math"] \notin Broken
  /\ row.def["math"] \in Drifting => forced

\* What a call read and still uses, at the label it is at.
Carries(c) ==
  /\ pc[c] = "save" /\ request[c].op \in {"createGame", "put", "upload", "clear", "fromPublished"} => Held(seen[c])
  /\ pc[c] = "store" /\ request[c].op = "upload" => Held(seen[c])
  /\ pc[c] = "version" /\ request[c].op = "publish" => Held(seen[c]) /\ seen[c]["math"] \notin Broken
  /\ pc[c] \in {"snapshot", "replace"} /\ request[c].op = "publish" =>
       seen[c] \in LiveRow /\ Passed(seen[c], request[c].force)

RowsInv ==
  /\ DOMAIN drafts = Game /\ DOMAIN live = Game
  /\ \A g \in Game : drafts[g] # NoValue => Held(drafts[g])
  /\ \A g \in Game : live[g] # NoValue => live[g] \in LiveRow /\ Stored(live[g].def)
  /\ \A v \in versions : v.game \in Game /\ Passed(v, v.forced)
  /\ \A v, w \in versions : v.game = w.game /\ v.version = w.version => v = w
  /\ \A c \in Call : Carries(c)
  /\ bucket \subseteq Call /\ played \subseteq Game

-----------------------------------------------------------------------------
(* The writers of a game                                                   *)

At(c, op, label, g) == AskedFor(c, op, g) /\ pc[c] = label

HasSnapshot(g, row) == \E v \in versions : v.game = g /\ v.version = row.version /\ v.def = row.def

\* Why a live game may not be its snapshot, for good.
Torn(g) == Parted(g) \/ Taken(g) \/ \E c \in Call : AskedFor(c, "seed", g) /\ reply[c] = "seed_version"

\* Why a game that is not live may have snapshots.
Unfinished(g) ==
  \E d \in Call : \/ AskedFor(d, "publish", g) /\ "replace" \in {pc[d], reply[d]}
                  \/ AskedFor(d, "delete", g) /\ "delete_versions" \in {pc[d], reply[d]}

Consistent(g) == live[g] = NoValue \/ HasSnapshot(g, live[g]) \/ Torn(g)

SnapshotsInv(g) ==
  /\ Consistent(g) \/ \E c \in Call : At(c, "seed", "seed_version", g)
  /\ live[g] = NoValue => (\A v \in versions : v.game # g) \/ Parted(g) \/ Unfinished(g)
  /\ \A c \in Call :
       /\ At(c, "publish", "replace", g) => HasSnapshot(g, seen[c]) \/ Parted(g)
       /\ At(c, "seed", "seed_version", g) =>
            /\ live[g] # NoValue \/ Parted(g)
            /\ \/ Consistent(g)
               \/ live[g] = Seed /\ \A v \in versions : v.game = g => v.version # 1
       /\ At(c, "delete", "delete_versions", g) => live[g] = NoValue \/ Parted(g)

Numbered(g) == \A v \in versions : v.game = g => live[g] # NoValue /\ v.version <= live[g].version

Numbers(c, g) ==
  /\ At(c, "publish", "snapshot", g) => seen[c].version = NextVersion(live[g])
  /\ At(c, "publish", "replace", g) => \A v \in versions : v.game = g => v.version <= seen[c].version
  /\ At(c, "seed", "seed_version", g) => live[g] # NoValue
  /\ ~At(c, "publish", "duplicate_version", g)
  /\ ~(AskedFor(c, "publish", g) /\ reply[c] = "duplicate_version")

\* While no two writers meet, the snapshots never pass the live version but
\* in the middle of a publication or a deletion.
NumbersInv(g) ==
  \/ Disturbed(g)
  \/ /\ \/ Numbered(g)
        \/ \E d \in Call : At(d, "publish", "replace", g) \/ At(d, "delete", "delete_versions", g)
     /\ \A c \in Call : Numbers(c, g)

RoundsInv(g) ==
  \/ Raced(g)
  \/ /\ g \in played => live[g] # NoValue
     /\ \A c \in Call :
          /\ At(c, "spin", "round", g) => live[g] # NoValue
          /\ At(c, "delete", "delete_live", g) => g \notin played

PublishingInv ==
  /\ CallsInv
  /\ RowsInv
  /\ \A g \in Game : SnapshotsInv(g) /\ NumbersInv(g) /\ RoundsInv(g)
-----------------------------------------------------------------------------
(* The steps                                                               *)

WriterOps == {"publish", "delete", "seed", "spin"}
Watched == {"snapshot", "replace", "delete_live", "delete_versions", "seed_version", "round", "duplicate_version"}
Outcomes == {"replace", "delete_versions", "seed_version", "duplicate_version"}

LEMMA OutcomesAreValues == NoValue \notin Outcomes
BY SituationsAssumption DEF Outcomes

\* Nothing happens at these labels to the calls that matter.
Aside(labels) ==
  \A d \in Call :
    \/ pc'[d] = pc[d] /\ seen'[d] = seen[d] /\ reply'[d] = reply[d] /\ request'[d] = request[d]
    \/ request[d].op \notin WriterOps /\ request'[d] = request[d]
    \/ /\ pc[d] \notin labels /\ pc'[d] \notin labels
       /\ reply[d] \notin Outcomes /\ reply'[d] \notin Outcomes

\* The steps that write the published game, or decide to.
Active(c) ==
  \/ ReadVersion(c) \/ InsertVersion(c) \/ ReplaceLive(c)
  \/ CountRounds(c) \/ DeleteLive(c) \/ DeleteVersions(c)
  \/ SeedLive(c) \/ SeedVersion(c) \/ LoadGame(c) \/ PlayRound(c)

LEMMA MovesStay ==
  ASSUME CallsInv, NEW c \in Call, NEW label, NEW value, Moves(c, label, value)
  PROVE  /\ OthersStay(c) /\ pc'[c] = label /\ seen'[c] = value
         /\ request' = request /\ during' = during
         /\ pc[c] \notin Over /\ reply[c] = NoValue
BY DEF CallsInv, Moves, OthersStay, Over

\* Where a step of a call leaves its answer.
LEMMA GotoReplies ==
  ASSUME CallsInv, NEW c \in Call, pc[c] \notin Over, NEW label, NEW value, Goto(c, label, value)
  PROVE  reply'[c] = NoValue /\ reply[c] = NoValue
BY DEF CallsInv, Over, Goto

LEMMA AnswerReplies ==
  ASSUME CallsInv, NEW c \in Call, NEW outcome, Answer(c, outcome)
  PROVE  reply'[c] = outcome
BY DEF CallsInv, Answer

LEMMA AccountOps ==
  ASSUME NEW c \in Call, AccountStep(c)
  PROVE  request[c].op \notin WriterOps
BY DEF AccountStep, CheckLock, FindUser, ReadAttempts, RecordFailure, ClearFailures, SignSession,
       CountUsers, SeedAdmin, CheckEmail, CreateUser, ReadTarget, CountAdmins, UpdateUser, SetPassword, Logout,
       Asked, WriterOps

LEMMA AccessOps ==
  ASSUME NEW c \in Call, AccessStep(c)
  PROVE  request[c].op \notin WriterOps
BY DEF AccessStep, CheckOperator, InsertOperator, UpdateOperator, RotateSecret, CheckSignature,
       RecordSignature, CheckEnabled, IssueLaunchToken, PresentToken, ConsumeToken, Asked, WriterOps

LEMMA MovesAside ==
  ASSUME CallsInv, NEW c \in Call, NEW label, NEW value, Moves(c, label, value),
         request[c].op \notin WriterOps
  PROVE  Aside(Watched)
BY MovesStay DEF Aside, OthersStay

LEMMA AnswersAside ==
  ASSUME CallsInv, NEW c \in Call, NEW label, NEW value, Moves(c, label, value),
         pc[c] \notin Watched, label \notin Watched, reply'[c] \notin Outcomes
  PROVE  Aside(Watched)
BY MovesStay, OutcomesAreValues DEF Aside, OthersStay

LEMMA PublishingAside ==
  ASSUME CallsInv, NEW c \in Call, PublishingStep(c), ~Active(c)
  PROVE  Aside(Watched) /\ UNCHANGED <<live, versions, played>>
<1>1. PICK label, value : Moves(c, label, value)
  BY PublishingStepsElsewhere DEF Elsewhere
<1>2. CASE request[c].op \notin WriterOps
  <2>1. UNCHANGED <<live, versions, played>>
    BY <1>2 DEF PublishingStep, Active, WriterOps, Asked, CheckNew, SaveNew, ReadForPut, SavePut, FromPublished,
         ReadPublished, SaveFromPublished, ReadForUpload, UploadAsset, SaveUpload, ReadForClear, SaveClear,
         ReadForPublish, ReadForDelete, DeleteDraft, publishingVars
  <2> QED
    BY <1>1, <1>2, <2>1, MovesAside
<1>3. CASE ReadForPublish(c) \/ ReadForDelete(c) \/ DeleteDraft(c)
  <2>1. UNCHANGED <<live, versions, played>>
    BY <1>3 DEF ReadForPublish, ReadForDelete, DeleteDraft, publishingVars
  <2>2. pc[c] \notin Watched \cup Over
    BY <1>3 DEF ReadForPublish, ReadForDelete, DeleteDraft, Asked, Watched, Over
  <2>3. PICK next, row, outcome :
          /\ next \notin Watched /\ outcome \notin Outcomes
          /\ Goto(c, next, row) \/ Answer(c, outcome)
    BY <1>3 DEF ReadForPublish, ReadForDelete, DeleteDraft, Watched, Outcomes
  <2>4. pc'[c] \notin Watched /\ reply'[c] \notin Outcomes
    BY <2>2, <2>3, GotoReplies, AnswerReplies, OutcomesAreValues DEF CallsInv, Goto, Answer, Watched
  <2> QED
    BY <1>1, <2>1, <2>2, <2>4, AnswersAside, MovesStay
<1>4. \/ request[c].op \notin WriterOps
      \/ ReadForPublish(c) \/ ReadForDelete(c) \/ DeleteDraft(c)
  BY DEF PublishingStep, Active, WriterOps, Asked, CheckNew, SaveNew, ReadForPut, SavePut, FromPublished,
         ReadPublished, SaveFromPublished, ReadForUpload, UploadAsset, SaveUpload, ReadForClear, SaveClear
<1> QED
  BY <1>2, <1>3, <1>4

LEMMA HookAside ==
  ASSUME CallsInv, NEW c \in Call, AuthHook(c, First)
  PROVE  Aside(Watched)
<1>1. PICK label : Moves(c, label, NoValue) /\ label \in {"done", First[request[c].op]}
  BY HookMoves
<1>2. pc[c] = "hook" /\ request[c].op \in DOMAIN First
  BY RequestsAreFit DEF AuthHook, CallsInv, Fits
<1>3. pc[c] \notin Watched \cup Over /\ label \notin Watched
  BY <1>1, <1>2, FirstLabels DEF Watched, Over
<1>4. \/ \E next : Goto(c, next, NoValue)
      \/ Answer(c, "unauthorized") \/ Answer(c, "forbidden")
  BY DEF AuthHook
<1>5. reply'[c] \notin Outcomes
  BY <1>3, <1>4, GotoReplies, AnswerReplies, OutcomesAreValues DEF Outcomes
<1> QED
  BY <1>1, <1>3, <1>5, AnswersAside

LEMMA AuditAside ==
  ASSUME CallsInv, NEW c \in Call, WriteAudit(c, Actor(c))
  PROVE  Aside(Watched)
<1>1. Moves(c, "done", NoValue) /\ pc[c] = "audit" /\ reply'[c] = "ok"
  BY DEF WriteAudit, Frame, Moves, Over, CallsInv
<1> QED
  BY <1>1, AnswersAside DEF Watched, Outcomes

LEMMA EnterAside ==
  ASSUME CallsInv, NEW c \in Call, NEW r, Enter(c, r)
  PROVE  Aside(Watched)
<1>1. pc'[c] \notin Watched /\ pc[c] \notin Watched
  BY RequestsAreFit, FirstLabels DEF Enter, CallsInv, Fits, Watched
<1>2. reply[c] = NoValue /\ reply' = reply
  BY DEF Enter, CallsInv
<1>3. OthersStay(c)
  BY DEF Enter, CallsInv, OthersStay
<1> QED
  BY <1>1, <1>2, <1>3, OutcomesAreValues DEF Aside, OthersStay

LEMMA PublishingCases ==
  ASSUME CallsInv, [Next]_vars
  PROVE  \/ Aside(Watched) /\ UNCHANGED <<live, versions, played>>
         \/ \E c \in Call : Crash(c) /\ UNCHANGED publishingVars
         \/ \E c \in Call : Active(c)
<1>1. ASSUME NEW c \in Call, CallStep(c), UNCHANGED publishingVars, ~Crash(c)
      PROVE  Aside(Watched) /\ UNCHANGED <<live, versions, played>>
  BY <1>1, ArriveBegins, EnterAside, AuditAside DEF CallStep, publishingVars
<1>2. ASSUME NEW c \in Call, AuthHook(c, First) \/ AccountStep(c), UNCHANGED publishingVars
      PROVE  Aside(Watched) /\ UNCHANGED <<live, versions, played>>
  BY <1>2, HookAside, AccountStepsMove, AccountOps, MovesAside DEF publishingVars
<1>3. ASSUME NEW c \in Call, AccessStep(c), UNCHANGED publishingVars
      PROVE  Aside(Watched) /\ UNCHANGED <<live, versions, played>>
  BY <1>3, AccessStepsElsewhere, AccessOps, MovesAside DEF Elsewhere, publishingVars
<1>4. CASE CallsStay /\ UNCHANGED publishingVars
  BY <1>4 DEF CallsStay, Aside, publishingVars
<1>5. ASSUME (Tick /\ UNCHANGED publishingVars) \/ Reap \/ ReapRecords \/ UNCHANGED vars
      PROVE  CallsStay /\ UNCHANGED publishingVars
  BY <1>5 DEF Tick, Reap, ReapAttempts, ReapRecords, ReapSignature, ReapToken, vars, callVars, CallsStay
<1> QED
  BY <1>1, <1>2, <1>3, <1>4, <1>5, PublishingAside DEF Next

-----------------------------------------------------------------------------
(* What stays                                                              *)

LEMMA Overlaps ==
  ASSUME CallsInv, NEW c \in Call, NEW d \in Call, c # d, pc[c] \notin Over, pc[d] \notin Over
  PROVE  Overlap(c, d)
BY DEF CallsInv, InFlight, Over

LEMMA AskedStays ==
  ASSUME Later, NEW c \in Call, NEW op, NEW g, AskedFor(c, op, g)
  PROVE  AskedFor(c, op, g)'
BY DEF Later, AskedFor

LEMMA Permanent ==
  ASSUME Later, NEW g
  PROVE  /\ Parted(g) => Parted(g)'
         /\ Taken(g) => Taken(g)'
         /\ Torn(g) => Torn(g)'
         /\ Disturbed(g) => Disturbed(g)'
         /\ Raced(g) => Raced(g)'
<1>1. ASSUME NEW c \in Call, NEW d \in Call, Overlap(c, d)
      PROVE  Overlap(c, d)'
  BY <1>1 DEF Later, Overlap
<1>2. ASSUME NEW c \in Call, reply[c] \in Outcomes
      PROVE  reply'[c] = reply[c]
  BY <1>2, OutcomesAreValues DEF Later
<1>3. Parted(g) => Parted(g)'
  BY <1>1, AskedStays DEF Parted
<1>4. Taken(g) => Taken(g)'
  BY <1>1, <1>2, AskedStays DEF Taken, Outcomes
<1>5. Torn(g) => Torn(g)'
  BY <1>2, <1>3, <1>4, AskedStays DEF Torn, Outcomes
<1>6. \A c \in Writers(g) : c \in Writers(g)'
  BY AskedStays DEF Writers
<1>7. Disturbed(g) => Disturbed(g)'
  <2> SUFFICES ASSUME Disturbed(g)
               PROVE  Disturbed(g)'
    OBVIOUS
  <2>1. PICK d \in Writers(g) :
          \/ pc[d] = "crashed" /\ reply[d] \in {"replace", "delete_versions"}
          \/ \E e \in Writers(g) : Overlap(d, e)
    BY DEF Disturbed
  <2>2. CASE pc[d] = "crashed" /\ reply[d] \in {"replace", "delete_versions"}
    <3>1. d \in Call /\ pc'[d] = "crashed" /\ reply'[d] \in {"replace", "delete_versions"}
      BY <1>2, <2>2 DEF Writers, Later, Outcomes
    <3> QED
      BY <1>6, <3>1 DEF Disturbed
  <2>3. CASE \E e \in Writers(g) : Overlap(d, e)
    <3>1. PICK e \in Writers(g) : Overlap(d, e)
      BY <2>3
    <3>2. Overlap(d, e)'
      BY <1>1, <3>1 DEF Writers
    <3> QED
      BY <1>6, <3>2 DEF Disturbed
  <2> QED
    BY <2>1, <2>2, <2>3
<1>8. Raced(g) => Raced(g)'
  BY <1>1, AskedStays DEF Raced
<1> QED
  BY <1>3, <1>4, <1>5, <1>7, <1>8

VersionsOf(g) == {v \in versions : v.game = g}

\* A step that concerns none of the game's calls at these labels.
Apart(g, labels, outcomes) ==
  \A d \in Call :
    \/ pc'[d] = pc[d] /\ seen'[d] = seen[d] /\ reply'[d] = reply[d] /\ request'[d] = request[d]
    \/ (request[d].op \notin WriterOps \/ request[d].game # g) /\ request'[d] = request[d]
    \/ /\ pc[d] \notin labels /\ pc'[d] \notin labels
       /\ reply[d] \notin outcomes /\ reply'[d] \notin outcomes

LEMMA AsideIsApart ==
  ASSUME Aside(Watched), NEW g, NEW labels \in SUBSET Watched, NEW outcomes \in SUBSET Outcomes
  PROVE  Apart(g, labels, outcomes)
BY DEF Aside, Apart

LEMMA OtherGameIsApart ==
  ASSUME CallsInv, NEW c \in Call, NEW label, NEW value, Moves(c, label, value),
         NEW g, request[c].game # g, NEW labels, NEW outcomes
  PROVE  Apart(g, labels, outcomes)
BY MovesStay DEF Apart, OthersStay

LEMMA ApartAt ==
  ASSUME Later, NEW g, NEW labels, NEW outcomes, Apart(g, labels, outcomes),
         NEW c \in Call, NEW op \in WriterOps, NEW label \in labels
  PROVE  /\ At(c, op, label, g)' => At(c, op, label, g) /\ seen'[c] = seen[c]
         /\ At(c, op, label, g) => At(c, op, label, g)'
BY DEF Later, Apart, At, AskedFor

LEMMA ApartReplies ==
  ASSUME Later, NEW g, NEW labels, NEW outcomes, outcomes \subseteq Outcomes, Apart(g, labels, outcomes),
         NEW c \in Call, NEW op \in WriterOps, NEW outcome \in outcomes
  PROVE  (AskedFor(c, op, g) /\ reply[c] = outcome) <=> (AskedFor(c, op, g) /\ reply[c] = outcome)'
BY OutcomesAreValues DEF Later, Apart, AskedFor

LEMMA OthersAt ==
  ASSUME NEW c \in Call, OthersStay(c), NEW d \in Call \ {c}, NEW op, NEW label, NEW g
  PROVE  /\ At(d, op, label, g)' <=> At(d, op, label, g)
         /\ AskedFor(d, op, g)' <=> AskedFor(d, op, g)
         /\ seen'[d] = seen[d] /\ reply'[d] = reply[d] /\ pc'[d] = pc[d]
BY DEF OthersStay, At, AskedFor

\* The calls at a label the step does not enter, or does not leave, are others.
LEMMA WasThere ==
  ASSUME NEW c \in Call, OthersStay(c), NEW d \in Call, NEW op, NEW label, NEW g,
         pc'[c] # label, At(d, op, label, g)'
  PROVE  d # c /\ At(d, op, label, g) /\ seen'[d] = seen[d]
<1>1. d # c
  BY DEF At
<1> QED
  BY <1>1, OthersAt

LEMMA StaysThere ==
  ASSUME NEW c \in Call, OthersStay(c), NEW d \in Call, NEW op, NEW label, NEW g,
         pc[c] # label, At(d, op, label, g)
  PROVE  d # c /\ At(d, op, label, g)' /\ seen'[d] = seen[d]
<1>1. d # c
  BY DEF At
<1> QED
  BY <1>1, OthersAt

LEMMA PartedBy ==
  ASSUME CallsInv, NEW g, NEW c \in Call, NEW d \in Call, AskedFor(c, "delete", g),
         AskedFor(d, "publish", g) \/ AskedFor(d, "seed", g), pc[c] \notin Over, pc[d] \notin Over
  PROVE  Parted(g) /\ Torn(g)
BY Overlaps DEF Parted, Torn, AskedFor

LEMMA TakenBy ==
  ASSUME CallsInv, NEW g, NEW c \in Call, NEW d \in Call, AskedFor(c, "seed", g), pc[c] \notin Over,
         \/ AskedFor(d, "publish", g) /\ (pc[d] \notin Over \/ reply[d] = "replace")
         \/ AskedFor(d, "delete", g) /\ reply[d] = "delete_versions"
  PROVE  Torn(g)
BY Overlaps DEF Taken, Torn, AskedFor

LEMMA TornLater ==
  ASSUME CallsInv', NEW g, NEW c \in Call, NEW d \in Call, (pc[c] \notin Over)', (pc[d] \notin Over)'
  PROVE  /\ AskedFor(c, "delete", g)' /\ (AskedFor(d, "publish", g) \/ AskedFor(d, "seed", g))' => Parted(g)'
         /\ AskedFor(c, "seed", g)' /\ AskedFor(d, "publish", g)' => Torn(g)'
<1>1. ASSUME c # d
      PROVE  Overlap(c, d)'
  BY <1>1 DEF CallsInv, InFlight, Over
<1>2. ASSUME AskedFor(c, "delete", g)', (AskedFor(d, "publish", g) \/ AskedFor(d, "seed", g))'
      PROVE  Parted(g)'
  <2>1. c # d
    BY <1>2 DEF AskedFor
  <2> QED
    BY <1>1, <1>2, <2>1 DEF Parted
<1>3. ASSUME AskedFor(c, "seed", g)', AskedFor(d, "publish", g)'
      PROVE  Torn(g)'
  <2>1. c # d
    BY <1>3 DEF AskedFor
  <2> QED
    BY <1>1, <1>3, <2>1 DEF Taken, Torn
<1> QED
  BY <1>2, <1>3

LEMMA WatchedIsInFlight ==
  ASSUME NEW c, NEW op, NEW label \in Watched, NEW g, At(c, op, label, g)
  PROVE  AskedFor(c, op, g) /\ pc[c] \notin Over
BY DEF At, Watched, Over

-----------------------------------------------------------------------------
(* A live game and its snapshots                                           *)

HalfDone == {"replace", "delete_versions", "seed_version"}

LEMMA SnapshotsApart ==
  ASSUME Later, NEW g, SnapshotsInv(g), Apart(g, HalfDone, HalfDone),
         live'[g] = live[g], VersionsOf(g)' = VersionsOf(g)
  PROVE  SnapshotsInv(g)'
<1> USE DEF HalfDone, WriterOps, Outcomes
<1>1. \A row : HasSnapshot(g, row) => HasSnapshot(g, row)'
  BY DEF HasSnapshot, VersionsOf
<1>2. \A v : (v \in versions' /\ v.game = g) <=> (v \in versions /\ v.game = g)
  BY DEF VersionsOf
<1>3. Consistent(g) => Consistent(g)'
  BY <1>1, Permanent DEF Consistent
<1>4. Unfinished(g) => Unfinished(g)'
  <2> SUFFICES ASSUME NEW d \in Call,
                      \/ AskedFor(d, "publish", g) /\ "replace" \in {pc[d], reply[d]}
                      \/ AskedFor(d, "delete", g) /\ "delete_versions" \in {pc[d], reply[d]}
               PROVE  Unfinished(g)'
    BY DEF Unfinished
  <2>1. CASE At(d, "publish", "replace", g)
    BY <2>1, ApartAt DEF At, Unfinished
  <2>2. CASE At(d, "delete", "delete_versions", g)
    BY <2>2, ApartAt DEF At, Unfinished
  <2>3. CASE AskedFor(d, "publish", g) /\ reply[d] = "replace"
    BY <2>3, ApartReplies DEF Unfinished
  <2>4. CASE AskedFor(d, "delete", g) /\ reply[d] = "delete_versions"
    BY <2>4, ApartReplies DEF Unfinished
  <2> QED
    BY <2>1, <2>2, <2>3, <2>4 DEF At
<1>5. Parted(g) => Parted(g)'
  BY Permanent
<1>6. ASSUME NEW c \in Call
      PROVE  /\ At(c, "publish", "replace", g)' => At(c, "publish", "replace", g) /\ seen'[c] = seen[c]
             /\ At(c, "seed", "seed_version", g)' => At(c, "seed", "seed_version", g)
             /\ At(c, "seed", "seed_version", g) => At(c, "seed", "seed_version", g)'
             /\ At(c, "delete", "delete_versions", g)' => At(c, "delete", "delete_versions", g)
  BY ApartAt
<1>7. (Consistent(g) \/ \E c \in Call : At(c, "seed", "seed_version", g))'
  BY <1>3, <1>6 DEF SnapshotsInv
<1>8. (live[g] = NoValue => (\A v \in versions : v.game # g) \/ Parted(g) \/ Unfinished(g))'
  BY <1>2, <1>4, <1>5 DEF SnapshotsInv
<1>9. ASSUME NEW c \in Call
      PROVE  /\ At(c, "publish", "replace", g)' => HasSnapshot(g, seen[c])' \/ Parted(g)'
             /\ At(c, "seed", "seed_version", g)' =>
                  /\ live'[g] # NoValue \/ Parted(g)'
                  /\ \/ Consistent(g)'
                     \/ live'[g] = Seed /\ \A v \in versions' : v.game = g => v.version # 1
             /\ At(c, "delete", "delete_versions", g)' => live'[g] = NoValue \/ Parted(g)'
  <2>1. ASSUME At(c, "publish", "replace", g)'
        PROVE  HasSnapshot(g, seen[c])' \/ Parted(g)'
    <3>1. seen'[c] = seen[c] /\ (HasSnapshot(g, seen[c]) \/ Parted(g))
      BY <1>6, <2>1 DEF SnapshotsInv
    <3> QED
      BY <1>2, <1>5, <3>1 DEF HasSnapshot
  <2> QED
    BY <1>2, <1>3, <1>5, <1>6, <2>1 DEF SnapshotsInv
<1> QED
  BY <1>7, <1>8, <1>9 DEF SnapshotsInv, Seed

\* A process that dies: what its call was about to write stays undone.
LEMMA SnapshotsCrash ==
  ASSUME CallsInv, Later, NEW g, SnapshotsInv(g), NEW c \in Call, Crash(c), UNCHANGED publishingVars
  PROVE  SnapshotsInv(g)'
<1>1. Moves(c, "crashed", NoValue) /\ reply'[c] = pc[c]
  BY DEF Crash, InFlight, Frame, Moves, Over, CallsInv
<1>2. OthersStay(c) /\ pc'[c] = "crashed"
  BY <1>1, MovesStay
<1>3. UNCHANGED <<live, versions>>
  BY DEF publishingVars
<1>4. ASSUME NEW op, NEW label, At(c, op, label, g)
      PROVE  AskedFor(c, op, g)' /\ reply'[c] = label
  BY <1>1, <1>4, AskedStays DEF At
<1>5. ASSUME NEW d \in Call, NEW op, NEW label \in Watched, At(d, op, label, g)'
      PROVE  d # c /\ At(d, op, label, g) /\ seen'[d] = seen[d]
  <2>1. pc'[c] # label
    BY <1>2 DEF Watched
  <2> QED
    BY <1>2, <1>5, <2>1, WasThere
<1>6. Consistent(g) => Consistent(g)'
  BY <1>3, Permanent DEF Consistent, HasSnapshot
<1>7. Unfinished(g) => Unfinished(g)'
  <2> SUFFICES ASSUME NEW d \in Call,
                      \/ AskedFor(d, "publish", g) /\ "replace" \in {pc[d], reply[d]}
                      \/ AskedFor(d, "delete", g) /\ "delete_versions" \in {pc[d], reply[d]}
               PROVE  Unfinished(g)'
    BY DEF Unfinished
  <2>1. CASE d # c
    BY <1>2, <2>1, OthersAt DEF Unfinished
  <2>2. CASE d = c /\ At(c, "publish", "replace", g)
    BY <1>4, <2>2 DEF Unfinished
  <2>3. CASE d = c /\ At(c, "delete", "delete_versions", g)
    BY <1>4, <2>3 DEF Unfinished
  <2>4. reply[c] = NoValue
    BY <1>1, MovesStay
  <2> QED
    BY <2>1, <2>2, <2>3, <2>4, OutcomesAreValues DEF At, Outcomes
<1>8. ASSUME NEW d \in Call, At(d, "seed", "seed_version", g)
      PROVE  At(d, "seed", "seed_version", g)' \/ Consistent(g)'
  <2>1. CASE d = c
    BY <1>4, <1>8, <2>1 DEF Consistent, Torn
  <2>2. CASE d # c
    BY <1>2, <1>8, <2>2, OthersAt
  <2> QED
    BY <2>1, <2>2
<1>9. Parted(g) => Parted(g)'
  BY Permanent
<1>10. (Consistent(g) \/ \E d \in Call : At(d, "seed", "seed_version", g))'
  BY <1>6, <1>8 DEF SnapshotsInv
<1>11. ASSUME NEW d \in Call
       PROVE  (/\ At(d, "publish", "replace", g) => HasSnapshot(g, seen[d]) \/ Parted(g)
               /\ At(d, "seed", "seed_version", g) =>
                    /\ live[g] # NoValue \/ Parted(g)
                    /\ \/ Consistent(g)
                       \/ live[g] = Seed /\ \A v \in versions : v.game = g => v.version # 1
               /\ At(d, "delete", "delete_versions", g) => live[g] = NoValue \/ Parted(g))'
  <2>1. At(d, "publish", "replace", g)' => HasSnapshot(g, seen[d])' \/ Parted(g)'
    BY <1>3, <1>5, <1>9 DEF SnapshotsInv, HasSnapshot, Watched
  <2> QED
    BY <1>3, <1>5, <1>6, <1>9, <2>1 DEF SnapshotsInv, Watched, Seed, Blank
<1>12. (live[g] = NoValue => (\A v \in versions : v.game # g) \/ Parted(g) \/ Unfinished(g))'
  BY <1>3, <1>7, <1>9 DEF SnapshotsInv
<1> QED
  BY <1>10, <1>11, <1>12 DEF SnapshotsInv

\* The writers' steps, seen from their game.
LEMMA SnapshotsInsert ==
  ASSUME CallsInv, CallsInv', Later, NEW g, SnapshotsInv(g), NEW c \in Call, At(c, "publish", "snapshot", g),
         Moves(c, "replace", seen[c]), UNCHANGED live,
         NEW s, versions' = versions \cup {s}, s.game = g, s.version = seen[c].version, s.def = seen[c].def
  PROVE  SnapshotsInv(g)'
<1>1. OthersStay(c) /\ pc'[c] = "replace" /\ seen'[c] = seen[c] /\ request' = request
  BY MovesStay
<1>2. \A row : HasSnapshot(g, row) => HasSnapshot(g, row)'
  BY DEF HasSnapshot
<1>3. Consistent(g) => Consistent(g)'
  BY <1>2, Permanent DEF Consistent
<1>4. Parted(g) => Parted(g)'
  BY Permanent
<1>5. AskedFor(c, "publish", g)'
  BY AskedStays DEF At
<1>6. Unfinished(g)'
  BY <1>1, <1>5 DEF Unfinished
<1>7. HasSnapshot(g, seen[c])'
  BY <1>1 DEF HasSnapshot
<1>8. ASSUME NEW d \in Call, At(d, "seed", "seed_version", g)'
      PROVE  At(d, "seed", "seed_version", g) /\ Consistent(g)'
  <2>1. d # c /\ At(d, "seed", "seed_version", g)
    BY <1>1, <1>8, WasThere
  <2>2. AskedFor(d, "seed", g)' /\ pc'[d] \notin Over /\ pc'[c] \notin Over
    BY <1>1, <1>8 DEF At, Over
  <2>3. Torn(g)'
    BY <1>5, <2>2, TornLater
  <2> QED
    BY <2>1, <2>3 DEF Consistent
<1>9. ASSUME NEW d \in Call, At(d, "seed", "seed_version", g)
      PROVE  At(d, "seed", "seed_version", g)'
  <2>1. d # c
    BY <1>9 DEF At
  <2> QED
    BY <1>1, <1>9, <2>1, OthersAt
<1>10. ASSUME NEW d \in Call
       PROVE  (/\ At(d, "publish", "replace", g) => HasSnapshot(g, seen[d]) \/ Parted(g)
               /\ At(d, "seed", "seed_version", g) =>
                    /\ live[g] # NoValue \/ Parted(g)
                    /\ \/ Consistent(g)
                       \/ live[g] = Seed /\ \A v \in versions : v.game = g => v.version # 1
               /\ At(d, "delete", "delete_versions", g) => live[g] = NoValue \/ Parted(g))'
  <2>1. At(d, "publish", "replace", g)' => HasSnapshot(g, seen[d])' \/ Parted(g)'
    <3>1. CASE d = c
      BY <1>7, <3>1
    <3>2. CASE d # c
      <4>1. At(d, "publish", "replace", g)' => At(d, "publish", "replace", g) /\ seen'[d] = seen[d]
        BY <1>1, <3>2, OthersAt
      <4> QED
        BY <1>4, <4>1 DEF SnapshotsInv, HasSnapshot
    <3> QED
      BY <3>1, <3>2
  <2>2. At(d, "delete", "delete_versions", g)' => At(d, "delete", "delete_versions", g)
    <3>1. CASE d = c
      BY <1>1, <3>1 DEF At
    <3>2. CASE d # c
      BY <1>1, <3>2, OthersAt
    <3> QED
      BY <3>1, <3>2
  <2> QED
    BY <1>4, <1>8, <2>1, <2>2 DEF SnapshotsInv
<1> QED
  BY <1>3, <1>6, <1>9, <1>10 DEF SnapshotsInv

LEMMA SnapshotsReplace ==
  ASSUME CallsInv, CallsInv', Later, NEW g, SnapshotsInv(g), NEW c \in Call, At(c, "publish", "replace", g),
         Moves(c, "audit", NoValue), UNCHANGED versions, live'[g] = seen[c], seen[c] # NoValue
  PROVE  SnapshotsInv(g)'
<1>1. OthersStay(c) /\ pc'[c] = "audit" /\ pc[c] = "replace"
  BY MovesStay DEF At
<1>2. HasSnapshot(g, seen[c]) \/ Parted(g)
  BY DEF SnapshotsInv
<1>3. Consistent(g)'
  BY <1>2, Permanent DEF Consistent, HasSnapshot, Torn
<1>4. AskedFor(c, "publish", g)'
  BY AskedStays DEF At
<1>5. ASSUME NEW d \in Call, NEW op, NEW label \in Watched, At(d, op, label, g)'
      PROVE  d # c /\ At(d, op, label, g) /\ seen'[d] = seen[d]
  <2>1. pc'[c] # label
    BY <1>1 DEF Watched
  <2> QED
    BY <1>1, <1>5, <2>1, WasThere
<1>6. ASSUME NEW d \in Call, At(d, "delete", "delete_versions", g)'
      PROVE  Parted(g)'
  <2>1. AskedFor(d, "delete", g)' /\ pc'[d] \notin Over /\ pc'[c] \notin Over
    BY <1>1, <1>6 DEF At, Over
  <2> QED
    BY <1>4, <2>1, TornLater
<1>7. Parted(g) => Parted(g)'
  BY Permanent
<1>8. ASSUME NEW d \in Call
      PROVE  (/\ At(d, "publish", "replace", g) => HasSnapshot(g, seen[d]) \/ Parted(g)
              /\ At(d, "seed", "seed_version", g) =>
                   /\ live[g] # NoValue \/ Parted(g)
                   /\ \/ Consistent(g)
                      \/ live[g] = Seed /\ \A v \in versions : v.game = g => v.version # 1
              /\ At(d, "delete", "delete_versions", g) => live[g] = NoValue \/ Parted(g))'
  <2>1. At(d, "publish", "replace", g)' => HasSnapshot(g, seen[d])' \/ Parted(g)'
    BY <1>5, <1>7 DEF SnapshotsInv, HasSnapshot, Watched
  <2> QED
    BY <1>3, <1>6, <2>1
<1> QED
  BY <1>3, <1>8 DEF SnapshotsInv

LEMMA SnapshotsDeleteLive ==
  ASSUME CallsInv, CallsInv', Later, NEW g, SnapshotsInv(g), NEW c \in Call, At(c, "delete", "delete_live", g),
         Moves(c, "delete_versions", NoValue), UNCHANGED versions, live'[g] = NoValue
  PROVE  SnapshotsInv(g)'
<1>1. OthersStay(c) /\ pc'[c] = "delete_versions"
  BY MovesStay
<1>2. Consistent(g)'
  BY DEF Consistent
<1>3. AskedFor(c, "delete", g)'
  BY AskedStays DEF At
<1>4. Unfinished(g)'
  BY <1>1, <1>3 DEF Unfinished
<1>5. ASSUME NEW d \in Call, At(d, "seed", "seed_version", g)'
      PROVE  Parted(g)'
  <2>1. AskedFor(d, "seed", g)' /\ pc'[d] \notin Over /\ pc'[c] \notin Over
    BY <1>1, <1>5 DEF At, Over
  <2> QED
    BY <1>3, <2>1, TornLater
<1>6. ASSUME NEW d \in Call
      PROVE  (/\ At(d, "publish", "replace", g) => HasSnapshot(g, seen[d]) \/ Parted(g)
              /\ At(d, "seed", "seed_version", g) =>
                   /\ live[g] # NoValue \/ Parted(g)
                   /\ \/ Consistent(g)
                      \/ live[g] = Seed /\ \A v \in versions : v.game = g => v.version # 1
              /\ At(d, "delete", "delete_versions", g) => live[g] = NoValue \/ Parted(g))'
  <2>1. At(d, "publish", "replace", g)' => HasSnapshot(g, seen[d])' \/ Parted(g)'
    <3>1. At(d, "publish", "replace", g)' => At(d, "publish", "replace", g) /\ seen'[d] = seen[d]
      BY <1>1, WasThere
    <3> QED
      BY <3>1, Permanent DEF SnapshotsInv, HasSnapshot
  <2> QED
    BY <1>2, <1>5, <2>1
<1> QED
  BY <1>2, <1>4, <1>6 DEF SnapshotsInv

LEMMA SnapshotsDeleteVersions ==
  ASSUME CallsInv, CallsInv', Later, NEW g, SnapshotsInv(g), NEW c \in Call, At(c, "delete", "delete_versions", g),
         Moves(c, "delete_draft", NoValue), UNCHANGED live, VersionsOf(g)' = {}
  PROVE  SnapshotsInv(g)'
<1>1. OthersStay(c) /\ pc'[c] = "delete_draft"
  BY MovesStay
<1>2. live[g] = NoValue \/ Parted(g)
  BY DEF SnapshotsInv
<1>3. Consistent(g)'
  BY <1>2, Permanent DEF Consistent, Torn
<1>4. AskedFor(c, "delete", g)'
  BY AskedStays DEF At
<1>5. ASSUME NEW d \in Call, At(d, "publish", "replace", g)' \/ At(d, "seed", "seed_version", g)'
      PROVE  Parted(g)'
  <2>1. /\ AskedFor(d, "publish", g)' \/ AskedFor(d, "seed", g)'
        /\ pc'[d] \notin Over /\ pc'[c] \notin Over
    BY <1>1, <1>5 DEF At, Over
  <2> QED
    BY <1>4, <2>1, TornLater
<1>6. \A v \in versions' : v.game # g
  BY DEF VersionsOf
<1>7. (live[g] = NoValue \/ Parted(g))'
  BY <1>2, Permanent
<1> QED
  BY <1>3, <1>5, <1>6, <1>7 DEF SnapshotsInv

LEMMA SnapshotsSeedLive ==
  ASSUME CallsInv, CallsInv', Later, NEW g, SnapshotsInv(g), NEW c \in Call, At(c, "seed", "seed_live", g),
         Moves(c, "seed_version", NoValue), UNCHANGED versions,
         live'[g] = IF live[g] = NoValue THEN Seed ELSE live[g], Seed # NoValue
  PROVE  SnapshotsInv(g)'
<1>1. OthersStay(c) /\ pc'[c] = "seed_version"
  BY MovesStay
<1>2. AskedFor(c, "seed", g)' /\ pc'[c] \notin Over
  BY <1>1, AskedStays DEF At, Over
<1>3. At(c, "seed", "seed_version", g)'
  BY <1>1, <1>2 DEF At
<1>4. live'[g] # NoValue
  OBVIOUS
<1>5. Parted(g) => Parted(g)'
  BY Permanent
<1>6. \/ Consistent(g)'
      \/ live'[g] = Seed /\ \A v \in versions' : v.game = g => v.version # 1
  <2>1. CASE live[g] # NoValue
    <3>1. Consistent(g) \/ (live[g] = Seed /\ \A v \in versions : v.game = g => v.version # 1)
      BY DEF SnapshotsInv
    <3>2. Consistent(g) => Consistent(g)'
      BY <2>1, Permanent DEF Consistent, HasSnapshot
    <3> QED
      BY <2>1, <3>1, <3>2
  <2>2. CASE live[g] = NoValue
    <3>1. CASE \A v \in versions : v.game # g
      BY <2>2, <3>1
    <3>2. CASE Parted(g)
      BY <1>5, <3>2 DEF Consistent, Torn
    <3>3. CASE Unfinished(g)
      <4>1. PICK d \in Call :
              \/ AskedFor(d, "publish", g) /\ "replace" \in {pc[d], reply[d]}
              \/ AskedFor(d, "delete", g) /\ "delete_versions" \in {pc[d], reply[d]}
        BY <3>3 DEF Unfinished
      <4>2. /\ AskedFor(c, "seed", g) /\ pc[c] \notin Over
            /\ pc[d] \in {"replace", "delete_versions"} => pc[d] \notin Over
        BY DEF At, Over
      <4>3. Torn(g)
        BY <4>1, <4>2, PartedBy, TakenBy
      <4> QED
        BY <4>3, Permanent DEF Consistent
    <3> QED
      BY <2>2, <3>1, <3>2, <3>3 DEF SnapshotsInv
  <2> QED
    BY <2>1, <2>2
<1>7. ASSUME NEW d \in Call, At(d, "delete", "delete_versions", g)'
      PROVE  Parted(g)'
  <2>1. AskedFor(d, "delete", g)' /\ pc'[d] \notin Over
    BY <1>7 DEF At, Over
  <2> QED
    BY <1>2, <2>1, TornLater
<1>8. ASSUME NEW d \in Call, At(d, "publish", "replace", g)'
      PROVE  HasSnapshot(g, seen[d])' \/ Parted(g)'
  <2>1. At(d, "publish", "replace", g) /\ seen'[d] = seen[d]
    BY <1>1, <1>8, WasThere
  <2> QED
    BY <1>5, <2>1 DEF SnapshotsInv, HasSnapshot
<1>9. Consistent(g)' \/ \E d \in Call : At(d, "seed", "seed_version", g)'
  BY <1>3
<1> QED
  BY <1>4, <1>6, <1>7, <1>8, <1>9 DEF SnapshotsInv

LEMMA SnapshotsSeedVersion ==
  ASSUME CallsInv, CallsInv', Later, NEW g, SnapshotsInv(g), NEW c \in Call, At(c, "seed", "seed_version", g),
         Moves(c, "done", NoValue), UNCHANGED live, versions \subseteq versions',
         \/ UNCHANGED versions /\ \E v \in versions : v.game = g /\ v.version = 1
         \/ HasSnapshot(g, Seed)'
  PROVE  SnapshotsInv(g)'
<1>1. OthersStay(c) /\ pc'[c] = "done"
  BY MovesStay
<1>2. \A row : HasSnapshot(g, row) => HasSnapshot(g, row)'
  BY DEF HasSnapshot
<1>3. Consistent(g)'
  <2>1. CASE Consistent(g)
    BY <1>2, <2>1, Permanent DEF Consistent
  <2>2. CASE live[g] = Seed /\ \A v \in versions : v.game = g => v.version # 1
    BY <2>2 DEF Consistent, HasSnapshot
  <2> QED
    BY <2>1, <2>2 DEF SnapshotsInv
<1>4. Parted(g) => Parted(g)'
  BY Permanent
<1>5. live[g] # NoValue \/ Parted(g)
  BY DEF SnapshotsInv
<1>6. ASSUME NEW d \in Call, NEW op, NEW label \in Watched, At(d, op, label, g)'
      PROVE  At(d, op, label, g) /\ seen'[d] = seen[d]
  BY <1>1, <1>6, OthersAt DEF At, Watched
<1>7. ASSUME NEW d \in Call, At(d, "publish", "replace", g)'
      PROVE  HasSnapshot(g, seen[d])' \/ Parted(g)'
  <2>1. At(d, "publish", "replace", g) /\ seen'[d] = seen[d]
    BY <1>6, <1>7 DEF Watched
  <2> QED
    BY <1>4, <2>1 DEF SnapshotsInv, HasSnapshot
<1>8. ASSUME NEW d \in Call, At(d, "delete", "delete_versions", g)'
      PROVE  (live[g] = NoValue \/ Parted(g))'
  BY <1>4, <1>6, <1>8 DEF SnapshotsInv, Watched
<1> QED
  BY <1>3, <1>4, <1>5, <1>7, <1>8 DEF SnapshotsInv
-----------------------------------------------------------------------------
(* The steps of the writers                                                *)

Goes(c, label, value) == Moves(c, label, value) /\ reply'[c] = NoValue
Ends(c, outcome) == Moves(c, "done", NoValue) /\ reply'[c] = outcome

\* What each of these steps does to its game.
Reads(c, g) ==
  /\ At(c, "publish", "version", g) /\ UNCHANGED <<live, versions, played>>
  /\ \/ Ends(c, "rtp_out_of_tolerance")
     \/ Goes(c, "snapshot", [version |-> NextVersion(live[g]), def |-> seen[c]])

Collides(c, g) ==
  /\ At(c, "publish", "snapshot", g) /\ UNCHANGED <<live, versions, played>>
  /\ \E v \in versions : v.game = g /\ v.version = seen[c].version
  /\ Ends(c, "duplicate_version")

Inserts(c, g) ==
  /\ At(c, "publish", "snapshot", g) /\ UNCHANGED <<live, played>>
  /\ versions' = versions \cup {Snapshot(g, seen[c], request[c].force, c)}
  /\ \A v \in versions : v.game = g => v.version # seen[c].version
  /\ Goes(c, "replace", seen[c])

Replaces(c, g) ==
  /\ At(c, "publish", "replace", g) /\ UNCHANGED <<versions, played>>
  /\ live' = [live EXCEPT ![g] = seen[c]]
  /\ Goes(c, "audit", NoValue)

Counts(c, g) ==
  /\ At(c, "delete", "rounds", g) /\ UNCHANGED <<live, versions, played>>
  /\ Ends(c, "game_has_rounds") \/ (g \notin played /\ Goes(c, "delete_live", NoValue))

DeletesLive(c, g) ==
  /\ At(c, "delete", "delete_live", g) /\ UNCHANGED <<versions, played>>
  /\ live' = [live EXCEPT ![g] = NoValue]
  /\ Goes(c, "delete_versions", NoValue)

DeletesVersions(c, g) ==
  /\ At(c, "delete", "delete_versions", g) /\ UNCHANGED <<live, played>>
  /\ versions' = {v \in versions : v.game # g}
  /\ Goes(c, "delete_draft", NoValue)

SeedsLive(c, g) ==
  /\ At(c, "seed", "seed_live", g) /\ UNCHANGED <<versions, played>>
  /\ live' = IF live[g] = NoValue THEN [live EXCEPT ![g] = Seed] ELSE live
  /\ Goes(c, "seed_version", NoValue)

SeedsVersion(c, g) ==
  /\ At(c, "seed", "seed_version", g) /\ UNCHANGED <<live, played>>
  /\ versions' = IF \E v \in versions : v.game = g /\ v.version = 1 THEN versions
                 ELSE versions \cup {Snapshot(g, Seed, FALSE, c)}
  /\ Ends(c, "seeded")

Loads(c, g) ==
  /\ At(c, "spin", "load", g) /\ UNCHANGED <<live, versions, played>>
  /\ Ends(c, "game_not_found") \/ (live[g] # NoValue /\ Goes(c, "round", NoValue))

Plays(c, g) ==
  /\ At(c, "spin", "round", g) /\ UNCHANGED <<live, versions>>
  /\ played' = played \cup {g}
  /\ Ends(c, "round")

Turn(c, g) ==
  \/ Reads(c, g) \/ Collides(c, g) \/ Inserts(c, g) \/ Replaces(c, g)
  \/ Counts(c, g) \/ DeletesLive(c, g) \/ DeletesVersions(c, g)
  \/ SeedsLive(c, g) \/ SeedsVersion(c, g) \/ Loads(c, g) \/ Plays(c, g)

LEMMA GotoGoes ==
  ASSUME CallsInv, NEW c \in Call, pc[c] \notin Over, NEW label, label # "idle", NEW value, Goto(c, label, value)
  PROVE  Goes(c, label, value)
BY GotoMoves, GotoReplies DEF Goes

LEMMA AnswerEnds ==
  ASSUME CallsInv, NEW c \in Call, pc[c] \notin Over, NEW outcome, Answer(c, outcome)
  PROVE  Ends(c, outcome)
BY AnswerMoves, AnswerReplies DEF Ends

LEMMA AskedAt ==
  ASSUME CallsInv, NEW c \in Call, NEW label, NEW op, Asked(c, label, op), label \notin Over
  PROVE  At(c, op, label, request[c].game) /\ pc[c] \notin Over
BY RequestsAreFit DEF CallsInv, Asked, At, AskedFor, Over

LEMMA ActiveTurns ==
  ASSUME CallsInv, NEW c \in Call, Active(c)
  PROVE  Turn(c, request[c].game) /\ request[c].game \in Game
<1> DEFINE g == request[c].game
<1>1. ASSUME NEW op \in {"publish", "delete", "seed", "spin"}, NEW label, At(c, op, label, g), label # "idle"
      PROVE  g \in Game
  BY <1>1, RequestsAreFit DEF CallsInv, At, AskedFor, Fits
<1>2. CASE ReadVersion(c)
  <2>1. At(c, "publish", "version", g) /\ pc[c] \notin Over
    BY <1>2, AskedAt DEF ReadVersion, Over
  <2>2. Reads(c, g)
    BY <1>2, <2>1, GotoGoes, AnswerEnds DEF ReadVersion, Reads, publishingVars
  <2> QED
    BY <1>1, <2>1, <2>2 DEF Turn
<1>3. CASE InsertVersion(c)
  <2>1. At(c, "publish", "snapshot", g) /\ pc[c] \notin Over
    BY <1>3, AskedAt DEF InsertVersion, Over
  <2>2. Collides(c, g) \/ Inserts(c, g)
    BY <1>3, <2>1, GotoGoes, AnswerEnds DEF InsertVersion, Published, Collides, Inserts
  <2> QED
    BY <1>1, <2>1, <2>2 DEF Turn
<1>4. CASE ReplaceLive(c)
  <2>1. At(c, "publish", "replace", g) /\ pc[c] \notin Over
    BY <1>4, AskedAt DEF ReplaceLive, Over
  <2>2. Replaces(c, g)
    BY <1>4, <2>1, GotoGoes DEF ReplaceLive, Replaces
  <2> QED
    BY <1>1, <2>1, <2>2 DEF Turn
<1>5. CASE CountRounds(c)
  <2>1. At(c, "delete", "rounds", g) /\ pc[c] \notin Over
    BY <1>5, AskedAt DEF CountRounds, Over
  <2>2. Counts(c, g)
    BY <1>5, <2>1, GotoGoes, AnswerEnds DEF CountRounds, Counts, publishingVars
  <2> QED
    BY <1>1, <2>1, <2>2 DEF Turn
<1>6. CASE DeleteLive(c)
  <2>1. At(c, "delete", "delete_live", g) /\ pc[c] \notin Over
    BY <1>6, AskedAt DEF DeleteLive, Over
  <2>2. DeletesLive(c, g)
    BY <1>6, <2>1, GotoGoes DEF DeleteLive, DeletesLive
  <2> QED
    BY <1>1, <2>1, <2>2 DEF Turn
<1>7. CASE DeleteVersions(c)
  <2>1. At(c, "delete", "delete_versions", g) /\ pc[c] \notin Over
    BY <1>7, AskedAt DEF DeleteVersions, Over
  <2>2. DeletesVersions(c, g)
    BY <1>7, <2>1, GotoGoes DEF DeleteVersions, DeletesVersions
  <2> QED
    BY <1>1, <2>1, <2>2 DEF Turn
<1>8. CASE SeedLive(c)
  <2>1. At(c, "seed", "seed_live", g) /\ pc[c] \notin Over
    BY <1>8, AskedAt DEF SeedLive, Over
  <2>2. SeedsLive(c, g)
    BY <1>8, <2>1, GotoGoes DEF SeedLive, SeedsLive
  <2> QED
    BY <1>1, <2>1, <2>2 DEF Turn
<1>9. CASE SeedVersion(c)
  <2>1. At(c, "seed", "seed_version", g) /\ pc[c] \notin Over
    BY <1>9, AskedAt DEF SeedVersion, Over
  <2>2. SeedsVersion(c, g)
    BY <1>9, <2>1, AnswerEnds DEF SeedVersion, SeedsVersion
  <2> QED
    BY <1>1, <2>1, <2>2 DEF Turn
<1>10. CASE LoadGame(c)
  <2>1. At(c, "spin", "load", g) /\ pc[c] \notin Over
    BY <1>10, AskedAt DEF LoadGame, Over
  <2>2. Loads(c, g)
    BY <1>10, <2>1, GotoGoes, AnswerEnds DEF LoadGame, Loads, publishingVars
  <2> QED
    BY <1>1, <2>1, <2>2 DEF Turn
<1>11. CASE PlayRound(c)
  <2>1. At(c, "spin", "round", g) /\ pc[c] \notin Over
    BY <1>11, AskedAt DEF PlayRound, Over
  <2>2. Plays(c, g)
    BY <1>11, <2>1, AnswerEnds DEF PlayRound, Plays
  <2> QED
    BY <1>1, <2>1, <2>2 DEF Turn
<1> QED
  BY <1>2, <1>3, <1>4, <1>5, <1>6, <1>7, <1>8, <1>9, <1>10, <1>11 DEF Active

\* Another game is left alone.
Untouched(h) == live'[h] = live[h] /\ VersionsOf(h)' = VersionsOf(h) /\ (h \in played' <=> h \in played)

LEMMA TurnMoves ==
  ASSUME NEW c \in Call, NEW g \in Game, Turn(c, g)
  PROVE  request[c].game = g /\ \E label, value : Moves(c, label, value)
BY DEF Turn, Reads, Collides, Inserts, Replaces, Counts, DeletesLive, DeletesVersions, SeedsLive, SeedsVersion,
       Loads, Plays, Goes, Ends, At, AskedFor

LEMMA TurnElsewhere ==
  ASSUME RowsInv, NEW c \in Call, NEW g \in Game, Turn(c, g), NEW h \in Game \ {g}
  PROVE  Untouched(h)
<1> USE DEF Untouched, VersionsOf
<1>1. CASE Reads(c, g) \/ Collides(c, g) \/ Counts(c, g) \/ Loads(c, g)
  BY <1>1 DEF Reads, Collides, Counts, Loads
<1>2. CASE Replaces(c, g) \/ DeletesLive(c, g) \/ SeedsLive(c, g)
  BY <1>2 DEF RowsInv, Replaces, DeletesLive, SeedsLive
<1>3. CASE Inserts(c, g)
  BY <1>3 DEF Inserts, Snapshot
<1>4. CASE DeletesVersions(c, g)
  BY <1>4 DEF DeletesVersions
<1>5. CASE SeedsVersion(c, g)
  BY <1>5 DEF SeedsVersion, Snapshot
<1>6. CASE Plays(c, g)
  BY <1>6 DEF Plays
<1> QED
  BY <1>1, <1>2, <1>3, <1>4, <1>5, <1>6 DEF Turn

LEMMA MovesApart ==
  ASSUME CallsInv, NEW c \in Call, NEW label, NEW value, Moves(c, label, value), NEW g, NEW labels, NEW outcomes,
         pc[c] \notin labels, label \notin labels, reply'[c] \notin outcomes, NoValue \notin outcomes
  PROVE  Apart(g, labels, outcomes)
BY MovesStay DEF Apart, OthersStay

LEMMA SnapshotsTurn ==
  ASSUME CallsInv, CallsInv', Later, RowsInv, NEW c \in Call, NEW g \in Game, Turn(c, g), SnapshotsInv(g)
  PROVE  SnapshotsInv(g)'
<1>1. CASE Reads(c, g) \/ Collides(c, g) \/ Counts(c, g) \/ Loads(c, g) \/ Plays(c, g)
  <2>1. UNCHANGED <<live, versions>>
    BY <1>1 DEF Reads, Collides, Counts, Loads, Plays
  <2>2. PICK label, value : Moves(c, label, value) /\ pc[c] \notin HalfDone /\ label \notin HalfDone
                            /\ reply'[c] \notin HalfDone
    BY <1>1, OutcomesAreValues
       DEF Reads, Collides, Counts, Loads, Plays, Goes, Ends, HalfDone, At, Outcomes
  <2>3. NoValue \notin HalfDone
    BY OutcomesAreValues DEF HalfDone, Outcomes
  <2>4. Apart(g, HalfDone, HalfDone)
    BY <2>2, <2>3, MovesApart
  <2> QED
    BY <2>1, <2>4, SnapshotsApart DEF VersionsOf
<1>2. CASE Inserts(c, g)
  <2> DEFINE s == Snapshot(g, seen[c], request[c].force, c)
  <2>1. s.game = g /\ s.version = seen[c].version /\ s.def = seen[c].def
    BY DEF Snapshot
  <2>2. versions' = versions \cup {s} /\ UNCHANGED live /\ At(c, "publish", "snapshot", g)
        /\ Moves(c, "replace", seen[c])
    BY <1>2 DEF Inserts, Goes
  <2> HIDE DEF s
  <2> QED
    BY <2>1, <2>2, SnapshotsInsert
<1>3. CASE Replaces(c, g)
  <2>1. seen[c] # NoValue
    BY <1>3, RowsAreValues DEF Replaces, RowsInv, Carries, At, AskedFor
  <2> QED
    BY <1>3, <2>1, SnapshotsReplace DEF Replaces, Goes, RowsInv
<1>4. CASE DeletesLive(c, g)
  BY <1>4, SnapshotsDeleteLive DEF DeletesLive, Goes, RowsInv
<1>5. CASE DeletesVersions(c, g)
  BY <1>5, SnapshotsDeleteVersions DEF DeletesVersions, Goes, VersionsOf
<1>6. CASE SeedsLive(c, g)
  <2>1. Seed # NoValue
    BY BlankIsValid, RowsAreValues DEF Seed, LiveRow
  <2>2. live'[g] = IF live[g] = NoValue THEN Seed ELSE live[g]
    BY <1>6 DEF SeedsLive, RowsInv
  <2> QED
    BY <1>6, <2>1, <2>2, SnapshotsSeedLive DEF SeedsLive, Goes
<1>7. CASE SeedsVersion(c, g)
  <2>1. \/ UNCHANGED versions /\ \E v \in versions : v.game = g /\ v.version = 1
        \/ HasSnapshot(g, Seed)'
    <3>1. CASE \E v \in versions : v.game = g /\ v.version = 1
      BY <1>7, <3>1 DEF SeedsVersion
    <3>2. CASE ~\E v \in versions : v.game = g /\ v.version = 1
      <4> DEFINE s == Snapshot(g, Seed, FALSE, c)
      <4>1. s \in versions' /\ s.game = g /\ s.version = Seed.version /\ s.def = Seed.def
        BY <1>7, <3>2 DEF SeedsVersion, Snapshot
      <4>2. Seed' = Seed
        BY DEF Seed, Blank
      <4> HIDE DEF s
      <4> QED
        BY <4>1, <4>2 DEF HasSnapshot
    <3> QED
      BY <3>1, <3>2
  <2>2. versions \subseteq versions'
    BY <1>7 DEF SeedsVersion
  <2> QED
    BY <1>7, <2>1, <2>2, SnapshotsSeedVersion DEF SeedsVersion, Ends
<1> QED
  BY <1>1, <1>2, <1>3, <1>4, <1>5, <1>6, <1>7 DEF Turn

LEMMA SnapshotsNext ==
  ASSUME CallsInv, CallsInv', Later, RowsInv, [Next]_vars, NEW g \in Game, SnapshotsInv(g)
  PROVE  SnapshotsInv(g)'
<1>1. CASE Aside(Watched) /\ UNCHANGED <<live, versions, played>>
  <2>1. Apart(g, HalfDone, HalfDone)
    BY <1>1, AsideIsApart DEF HalfDone, Watched, Outcomes
  <2> QED
    BY <1>1, <2>1, SnapshotsApart DEF VersionsOf
<1>2. CASE \E c \in Call : Crash(c) /\ UNCHANGED publishingVars
  BY <1>2, SnapshotsCrash
<1>3. ASSUME NEW c \in Call, Active(c)
      PROVE  SnapshotsInv(g)'
  <2> DEFINE h == request[c].game
  <2>1. Turn(c, h) /\ h \in Game
    BY <1>3, ActiveTurns
  <2>2. CASE h = g
    BY <2>1, <2>2, SnapshotsTurn
  <2>3. CASE h # g
    <3>1. Untouched(g)
      BY <2>1, <2>3, TurnElsewhere
    <3>2. Apart(g, HalfDone, HalfDone)
      BY <2>1, <2>3, TurnMoves, OtherGameIsApart
    <3> QED
      BY <3>1, <3>2, SnapshotsApart DEF Untouched
  <2> QED
    BY <2>2, <2>3
<1> QED
  BY <1>1, <1>2, <1>3, PublishingCases
-----------------------------------------------------------------------------
(* Rounds and the deletion of their game                                   *)

RoundLabels == {"round", "delete_live"}

\* No call came to one of these labels, and the game and its rounds are as before.
LEMMA RoundsKept ==
  ASSUME Later, NEW g, RoundsInv(g), live'[g] # NoValue \/ live'[g] = live[g], g \in played' <=> g \in played,
         \A c \in Call : /\ At(c, "spin", "round", g)' => At(c, "spin", "round", g)
                         /\ At(c, "delete", "delete_live", g)' => At(c, "delete", "delete_live", g)
  PROVE  RoundsInv(g)'
BY Permanent DEF RoundsInv

LEMMA RacedBy ==
  ASSUME CallsInv, NEW g, NEW c \in Call, NEW d \in Call,
         At(c, "delete", "delete_live", g), At(d, "spin", "round", g)
  PROVE  Raced(g)
<1>1. c # d /\ pc[c] \notin Over /\ pc[d] \notin Over
  BY DEF At, Over
<1> QED
  BY <1>1, Overlaps DEF Raced, At

LEMMA RoundsTurn ==
  ASSUME CallsInv, CallsInv', Later, RowsInv, NEW c \in Call, NEW g \in Game, Turn(c, g), RoundsInv(g)
  PROVE  RoundsInv(g)'
<1>1. PICK label, value : Moves(c, label, value)
  BY TurnMoves
<1>2. OthersStay(c) /\ pc'[c] = label
  BY <1>1, MovesStay
<1>3. ASSUME label \notin RoundLabels, live'[g] # NoValue \/ live'[g] = live[g], UNCHANGED played
      PROVE  RoundsInv(g)'
  <2>1. label # "round" /\ label # "delete_live"
    BY <1>3 DEF RoundLabels
  <2>2. \A d \in Call : /\ At(d, "spin", "round", g)' => At(d, "spin", "round", g)
                        /\ At(d, "delete", "delete_live", g)' => At(d, "delete", "delete_live", g)
    BY <1>2, <2>1, WasThere
  <2> QED
    BY <1>3, <2>2, RoundsKept
<1>4. CASE Reads(c, g) \/ Collides(c, g) \/ Inserts(c, g) \/ DeletesVersions(c, g) \/ SeedsVersion(c, g)
  <2>1. UNCHANGED <<live, played>>
    BY <1>4 DEF Reads, Collides, Inserts, DeletesVersions, SeedsVersion
  <2>2. \E next \in {"done", "snapshot", "replace", "delete_draft"} : \E row : Moves(c, next, row)
    BY <1>4 DEF Reads, Collides, Inserts, DeletesVersions, SeedsVersion, Goes, Ends
  <2>3. pc'[c] \in {"done", "snapshot", "replace", "delete_draft"}
    BY <2>2, MovesStay
  <2> QED
    BY <1>2, <1>3, <2>1, <2>3 DEF RoundLabels
<1>5. CASE Replaces(c, g)
  <2>1. seen[c] # NoValue
    BY <1>5, RowsAreValues DEF Replaces, RowsInv, Carries, At, AskedFor
  <2>2. label \notin RoundLabels /\ live'[g] # NoValue /\ UNCHANGED played
    BY <1>2, <1>5, <2>1, MovesStay DEF Replaces, Goes, RoundLabels, RowsInv
  <2> QED
    BY <1>3, <2>2
<1>6. CASE SeedsLive(c, g)
  <2>1. Seed # NoValue
    BY BlankIsValid, RowsAreValues DEF Seed, LiveRow
  <2>2. label \notin RoundLabels /\ live'[g] # NoValue /\ UNCHANGED played
    BY <1>2, <1>6, <2>1, MovesStay DEF SeedsLive, Goes, RoundLabels, RowsInv
  <2> QED
    BY <1>3, <2>2
<1>7. CASE Counts(c, g)
  <2>1. UNCHANGED <<live, played>>
    BY <1>7 DEF Counts
  <2>2. CASE label \notin RoundLabels
    BY <1>3, <2>1, <2>2
  <2>3. CASE label \in RoundLabels
    <3>1. g \notin played /\ label = "delete_live"
      BY <1>2, <1>7, <2>3, MovesStay DEF Counts, Ends, Goes, RoundLabels
    <3>2. \A d \in Call : At(d, "spin", "round", g)' => At(d, "spin", "round", g)
      BY <1>2, <3>1, WasThere
    <3> QED
      BY <2>1, <3>1, <3>2, Permanent DEF RoundsInv
  <2> QED
    BY <2>2, <2>3
<1>8. CASE DeletesLive(c, g)
  <2>1. At(c, "delete", "delete_live", g) /\ label = "delete_versions" /\ UNCHANGED played
    BY <1>2, <1>8, MovesStay DEF DeletesLive, Goes
  <2>2. \A d \in Call : /\ At(d, "spin", "round", g)' => At(d, "spin", "round", g)
                        /\ At(d, "delete", "delete_live", g)' => At(d, "delete", "delete_live", g)
    BY <1>2, <2>1, WasThere
  <2> QED
    BY <2>1, <2>2, RacedBy, Permanent DEF RoundsInv
<1>9. CASE Loads(c, g)
  <2>1. UNCHANGED <<live, played>>
    BY <1>9 DEF Loads
  <2>2. CASE label \notin RoundLabels
    BY <1>3, <2>1, <2>2
  <2>3. CASE label \in RoundLabels
    <3>1. live[g] # NoValue /\ label = "round"
      BY <1>2, <1>9, <2>3, MovesStay DEF Loads, Ends, Goes, RoundLabels
    <3>2. \A d \in Call : At(d, "delete", "delete_live", g)' => At(d, "delete", "delete_live", g)
      BY <1>2, <3>1, WasThere
    <3> QED
      BY <2>1, <3>1, <3>2, Permanent DEF RoundsInv
  <2> QED
    BY <2>2, <2>3
<1>10. CASE Plays(c, g)
  <2>1. At(c, "spin", "round", g) /\ label = "done" /\ UNCHANGED live /\ g \in played'
    BY <1>2, <1>10, MovesStay DEF Plays, Ends
  <2>2. \A d \in Call : At(d, "delete", "delete_live", g)' => At(d, "delete", "delete_live", g)
    BY <1>2, <2>1, WasThere
  <2> QED
    BY <2>1, <2>2, RacedBy, Permanent DEF RoundsInv
<1> QED
  BY <1>4, <1>5, <1>6, <1>7, <1>8, <1>9, <1>10 DEF Turn

LEMMA RoundsNext ==
  ASSUME CallsInv, CallsInv', Later, RowsInv, [Next]_vars, NEW g \in Game, RoundsInv(g)
  PROVE  RoundsInv(g)'
<1>1. ASSUME Apart(g, RoundLabels, {}), live'[g] = live[g], g \in played' <=> g \in played
      PROVE  RoundsInv(g)'
  <2>1. \A c \in Call : /\ At(c, "spin", "round", g)' => At(c, "spin", "round", g)
                        /\ At(c, "delete", "delete_live", g)' => At(c, "delete", "delete_live", g)
    BY <1>1, ApartAt DEF WriterOps, RoundLabels
  <2> QED
    BY <1>1, <2>1, RoundsKept
<1>2. CASE Aside(Watched) /\ UNCHANGED <<live, versions, played>>
  BY <1>1, <1>2, AsideIsApart DEF RoundLabels, Watched
<1>3. ASSUME NEW c \in Call, Crash(c), UNCHANGED publishingVars
      PROVE  RoundsInv(g)'
  <2>1. Moves(c, "crashed", NoValue)
    BY <1>3 DEF Crash, InFlight, Frame, Moves, Over
  <2>2. OthersStay(c) /\ pc'[c] = "crashed"
    BY <2>1, MovesStay
  <2>3. \A d \in Call : /\ At(d, "spin", "round", g)' => At(d, "spin", "round", g)
                        /\ At(d, "delete", "delete_live", g)' => At(d, "delete", "delete_live", g)
    BY <2>2, WasThere
  <2> QED
    BY <1>3, <2>3, RoundsKept DEF publishingVars
<1>4. ASSUME NEW c \in Call, Active(c)
      PROVE  RoundsInv(g)'
  <2> DEFINE h == request[c].game
  <2>1. Turn(c, h) /\ h \in Game
    BY <1>4, ActiveTurns
  <2>2. CASE h = g
    BY <2>1, <2>2, RoundsTurn
  <2>3. CASE h # g
    BY <1>1, <2>1, <2>3, TurnElsewhere, TurnMoves, OtherGameIsApart DEF Untouched
  <2> QED
    BY <2>2, <2>3
<1> QED
  BY <1>2, <1>3, <1>4, PublishingCases
-----------------------------------------------------------------------------
(* Versions' numbers                                                       *)

NumberLabels == {"snapshot", "replace", "delete_versions", "seed_version", "duplicate_version"}

LEMMA NumbersApart ==
  ASSUME Later, NEW g, NumbersInv(g), Apart(g, NumberLabels, {"duplicate_version"}),
         live'[g] = live[g], VersionsOf(g)' = VersionsOf(g)
  PROVE  NumbersInv(g)'
<1>1. \A v : (v \in versions' /\ v.game = g) <=> (v \in versions /\ v.game = g)
  BY DEF VersionsOf
<1>2. ASSUME NEW c \in Call, NEW op \in WriterOps, NEW label \in NumberLabels
      PROVE  /\ At(c, op, label, g)' => At(c, op, label, g) /\ seen'[c] = seen[c]
             /\ At(c, op, label, g) => At(c, op, label, g)'
  BY <1>2, ApartAt
<1>3. ASSUME NEW c \in Call
      PROVE  (AskedFor(c, "publish", g) /\ reply[c] = "duplicate_version")' =>
                AskedFor(c, "publish", g) /\ reply[c] = "duplicate_version"
  BY <1>3, ApartReplies DEF WriterOps, Outcomes
<1>4. Numbered(g) => Numbered(g)'
  BY <1>1 DEF Numbered
<1>5. ASSUME NEW c \in Call
      PROVE  Numbers(c, g) => Numbers(c, g)'
  <2>1. At(c, "publish", "snapshot", g)' => At(c, "publish", "snapshot", g) /\ seen'[c] = seen[c]
    BY <1>2 DEF WriterOps, NumberLabels
  <2>2. At(c, "publish", "replace", g)' => At(c, "publish", "replace", g) /\ seen'[c] = seen[c]
    BY <1>2 DEF WriterOps, NumberLabels
  <2>3. At(c, "seed", "seed_version", g)' => At(c, "seed", "seed_version", g)
    BY <1>2 DEF WriterOps, NumberLabels
  <2>4. At(c, "publish", "duplicate_version", g)' => At(c, "publish", "duplicate_version", g)
    BY <1>2 DEF WriterOps, NumberLabels
  <2> QED
    BY <1>1, <1>3, <2>1, <2>2, <2>3, <2>4 DEF Numbers, NextVersion
<1>6. ASSUME NEW d \in Call, At(d, "publish", "replace", g) \/ At(d, "delete", "delete_versions", g)
      PROVE  (At(d, "publish", "replace", g) \/ At(d, "delete", "delete_versions", g))'
  BY <1>2, <1>6 DEF WriterOps, NumberLabels
<1> QED
  BY <1>4, <1>5, <1>6, Permanent DEF NumbersInv

LEMMA WritersMeet ==
  ASSUME CallsInv, NEW g, NEW c \in Call, NEW d \in Call, c # d, c \in Writers(g), d \in Writers(g),
         pc[c] \notin Over, pc[d] \notin Over
  PROVE  Disturbed(g)
BY Overlaps DEF Disturbed

\* A process that dies between the writes of a game disturbs it.
LEMMA NumbersCrash ==
  ASSUME CallsInv, Later, NEW g, NumbersInv(g), NEW c \in Call, Crash(c), UNCHANGED publishingVars
  PROVE  NumbersInv(g)'
<1>1. Moves(c, "crashed", NoValue) /\ reply'[c] = pc[c]
  BY DEF Crash, InFlight, Frame, Moves, Over, CallsInv
<1>2. OthersStay(c) /\ pc'[c] = "crashed"
  BY <1>1, MovesStay
<1>3. UNCHANGED <<live, versions>>
  BY DEF publishingVars
<1>4. CASE At(c, "publish", "replace", g) \/ At(c, "delete", "delete_versions", g)
  <2>1. c \in Writers(g)' /\ reply'[c] \in {"replace", "delete_versions"}
    BY <1>1, <1>4, AskedStays DEF At, Writers
  <2> QED
    BY <1>2, <2>1 DEF NumbersInv, Disturbed
<1>5. CASE ~(At(c, "publish", "replace", g) \/ At(c, "delete", "delete_versions", g))
  <2>1. ASSUME NEW d \in Call, At(d, "publish", "replace", g) \/ At(d, "delete", "delete_versions", g)
        PROVE  (At(d, "publish", "replace", g) \/ At(d, "delete", "delete_versions", g))'
    <3>1. d # c
      BY <1>5, <2>1
    <3> QED
      BY <1>2, <2>1, <3>1, OthersAt
  <2>2. ASSUME NEW d \in Call
        PROVE  Numbers(d, g) => Numbers(d, g)'
    <3>1. /\ At(d, "publish", "snapshot", g)' => At(d, "publish", "snapshot", g) /\ seen'[d] = seen[d]
          /\ At(d, "publish", "replace", g)' => At(d, "publish", "replace", g) /\ seen'[d] = seen[d]
          /\ At(d, "seed", "seed_version", g)' => At(d, "seed", "seed_version", g)
          /\ At(d, "publish", "duplicate_version", g)' => At(d, "publish", "duplicate_version", g)
      BY <1>2, WasThere
    <3>2. CASE d = c
      <4>1. AskedFor(c, "publish", g)' => AskedFor(c, "publish", g)
        BY <1>1 DEF AskedFor, Moves
      <4>2. Numbers(c, g) => ~(AskedFor(c, "publish", g) /\ pc[c] = "duplicate_version")
        BY DEF Numbers, At
      <4> QED
        BY <1>1, <1>3, <3>1, <3>2, <4>1, <4>2 DEF Numbers, NextVersion
    <3>3. CASE d # c
      BY <1>2, <1>3, <3>1, <3>3, OthersAt DEF Numbers, NextVersion
    <3> QED
      BY <3>2, <3>3
  <2>3. Numbered(g) => Numbered(g)'
    BY <1>3 DEF Numbered
  <2> QED
    BY <2>1, <2>2, <2>3, Permanent DEF NumbersInv
<1> QED
  BY <1>4, <1>5
\* The one writer of the game at work: what it leaves to the others is nothing.
LEMMA NumbersAlone ==
  ASSUME CallsInv, CallsInv', NEW c \in Call, OthersStay(c), NEW g, c \in Writers(g), pc[c] \notin Over, ~Disturbed(g),
         NEW d \in Call \ {c}, Numbers(d, g)
  PROVE  /\ Numbers(d, g)'
         /\ ~At(d, "publish", "replace", g) /\ ~At(d, "delete", "delete_versions", g)
<1>1. \A op \in {"publish", "delete", "seed"}, label \in NumberLabels : ~At(d, op, label, g)
  BY WritersMeet DEF Writers, At, NumberLabels, Over
<1>2. \A op \in {"publish", "delete", "seed"}, label \in NumberLabels : ~At(d, op, label, g)'
  BY <1>1, OthersAt
<1>3. ~(AskedFor(d, "publish", g) /\ reply[d] = "duplicate_version")'
  BY OthersAt DEF Numbers
<1> QED
  BY <1>1, <1>2, <1>3 DEF Numbers, NumberLabels

LEMMA NumbersTurn ==
  ASSUME CallsInv, CallsInv', Later, RowsInv, NEW c \in Call, NEW g \in Game, Turn(c, g), NumbersInv(g)
  PROVE  NumbersInv(g)'
<1> SUFFICES ASSUME ~Disturbed(g)'
             PROVE  NumbersInv(g)'
  BY DEF NumbersInv
<1>1. ~Disturbed(g)
  BY Permanent
<1>2. \A d \in Call : Numbers(d, g)
  BY <1>1 DEF NumbersInv
<1>3. PICK label, value : Moves(c, label, value)
  BY TurnMoves
<1>4. OthersStay(c) /\ pc'[c] = label /\ pc[c] \notin Over
  BY <1>3, MovesStay
<1>5. live[g] # NoValue => live[g].version \in Nat \ {0}
  BY DEF RowsInv, LiveRow
<1>6. CASE Loads(c, g) \/ Plays(c, g)
  <2>1. UNCHANGED <<live, versions>> /\ pc[c] \notin NumberLabels
    BY <1>6 DEF Loads, Plays, At, NumberLabels
  <2>2. label \in {"done", "round"} /\ reply'[c] # "duplicate_version"
    <3>1. CASE Loads(c, g)
      <4>1. \/ Moves(c, "done", NoValue) /\ reply'[c] = "game_not_found"
            \/ Moves(c, "round", NoValue) /\ reply'[c] = NoValue
        BY <3>1 DEF Loads, Goes, Ends
      <4> QED
        BY <1>4, <4>1, MovesStay, OutcomesAreValues DEF Outcomes
    <3>2. CASE Plays(c, g)
      BY <1>4, <3>2, MovesStay DEF Plays, Ends
    <3> QED
      BY <1>6, <3>1, <3>2
  <2>3. label \notin NumberLabels /\ reply'[c] \notin {"duplicate_version"} /\ NoValue \notin {"duplicate_version"}
    BY <2>2, OutcomesAreValues DEF NumberLabels, Outcomes
  <2>4. Apart(g, NumberLabels, {"duplicate_version"})
    BY <1>3, <2>1, <2>3, MovesApart
  <2> QED
    BY <2>1, <2>4, NumbersApart DEF VersionsOf
<1>7. CASE ~(Loads(c, g) \/ Plays(c, g))
  <2>1. c \in Writers(g)
    BY <1>7 DEF Turn, Reads, Collides, Inserts, Replaces, Counts, DeletesLive, DeletesVersions, SeedsLive,
                SeedsVersion, At, Writers
  <2>2. ASSUME NEW d \in Call \ {c}
        PROVE  /\ Numbers(d, g)'
               /\ ~At(d, "publish", "replace", g) /\ ~At(d, "delete", "delete_versions", g)
    BY <1>1, <1>2, <1>4, <2>1, NumbersAlone
  <2>3. \/ Numbered(g) \/ At(c, "publish", "replace", g) \/ At(c, "delete", "delete_versions", g)
    BY <1>1, <2>2 DEF NumbersInv
  <2>4. SUFFICES /\ Numbers(c, g)'
                 /\ \/ Numbered(g)'
                    \/ At(c, "publish", "replace", g)' \/ At(c, "delete", "delete_versions", g)'
    BY <2>2, <2>4 DEF NumbersInv
  <2>5. AskedFor(c, "publish", g)' => AskedFor(c, "publish", g)
    BY <1>3 DEF AskedFor, Moves
  <2>6. Numbers(c, g)
    BY <1>2
  <2>7. ASSUME label \notin NumberLabels, reply'[c] # "duplicate_version"
        PROVE  Numbers(c, g)'
    BY <1>4, <2>7 DEF Numbers, At, NumberLabels
  <2>8. CASE Reads(c, g)
    <3>1. CASE Ends(c, "rtp_out_of_tolerance")
      <4>1. label = "done" /\ reply'[c] # "duplicate_version"
        BY <1>4, <3>1, MovesStay DEF Ends
      <4> QED
        BY <2>3, <2>7, <2>8, <4>1 DEF Reads, At, Numbered, NumberLabels
    <3>2. CASE Goes(c, "snapshot", [version |-> NextVersion(live[g]), def |-> seen[c]])
      <4>1. /\ pc'[c] = "snapshot" /\ reply'[c] # "duplicate_version"
            /\ seen'[c].version = NextVersion(live[g]) /\ UNCHANGED <<live, versions>>
        BY <2>8, <3>2, MovesStay, OutcomesAreValues DEF Goes, Reads, Outcomes
      <4>2. Numbers(c, g)'
        BY <4>1 DEF Numbers, At, NextVersion
      <4> QED
        BY <2>3, <2>8, <4>1, <4>2 DEF Reads, At, Numbered
    <3> QED
      BY <2>8, <3>1, <3>2 DEF Reads
  <2>9. CASE Collides(c, g)
    <3>1. Numbered(g) /\ seen[c].version = NextVersion(live[g])
      BY <2>3, <2>6, <2>9 DEF Collides, At, Numbers
    <3>2. PICK v \in versions : v.game = g /\ v.version = seen[c].version
      BY <2>9 DEF Collides
    <3>3. live[g] # NoValue /\ v.version <= live[g].version /\ v.version = live[g].version + 1
      BY <3>1, <3>2 DEF Numbered, NextVersion
    <3> QED
      BY <1>5, <3>3
  <2>10. CASE Inserts(c, g)
    <3>1. /\ pc'[c] = "replace" /\ reply'[c] # "duplicate_version" /\ seen'[c] = seen[c]
          /\ AskedFor(c, "publish", g) /\ At(c, "publish", "snapshot", g)
      BY <2>10, MovesStay, OutcomesAreValues DEF Goes, Inserts, Outcomes, At
    <3>2. AskedFor(c, "publish", g)'
      BY <3>1, AskedStays
    <3>3. Numbered(g) /\ seen[c].version = NextVersion(live[g])
      BY <2>3, <2>6, <3>1 DEF At, Numbers
    <3>4. seen[c].version \in Nat \ {0}
      BY <3>1 DEF RowsInv, Carries, LiveRow, At, AskedFor
    <3>5. ASSUME NEW v \in versions', v.game = g
          PROVE  v.version <= seen[c].version
      <4>1. CASE v \in versions
        <5>1. v.version \in Nat
          BY <4>1 DEF RowsInv, Passed
        <5>2. live[g] # NoValue /\ v.version <= live[g].version
          BY <3>3, <3>5, <4>1 DEF Numbered
        <5> QED
          BY <1>5, <3>3, <5>1, <5>2 DEF NextVersion
      <4>2. CASE v = Snapshot(g, seen[c], request[c].force, c)
        BY <3>4, <4>2 DEF Snapshot
      <4> QED
        BY <2>10, <3>5, <4>1, <4>2 DEF Inserts
    <3> QED
      BY <3>1, <3>2, <3>5 DEF Numbers, At
  <2>11. CASE Replaces(c, g)
    <3>1. /\ At(c, "publish", "replace", g) /\ pc'[c] = "audit" /\ reply'[c] # "duplicate_version"
          /\ live'[g] = seen[c] /\ UNCHANGED versions /\ seen[c] # NoValue
      BY <2>11, MovesStay, OutcomesAreValues, RowsAreValues
         DEF Goes, Replaces, Outcomes, RowsInv, Carries, At, AskedFor
    <3>2. Numbered(g)'
      BY <2>6, <3>1 DEF Numbers, Numbered
    <3> QED
      BY <1>4, <2>7, <3>1, <3>2 DEF NumberLabels
  <2>12. CASE Counts(c, g)
    <3>1. \/ Moves(c, "done", NoValue) /\ reply'[c] = "game_has_rounds"
          \/ Moves(c, "delete_live", NoValue) /\ reply'[c] = NoValue
      BY <2>12 DEF Counts, Goes, Ends
    <3>2. label \in {"done", "delete_live"} /\ reply'[c] # "duplicate_version"
      BY <1>4, <3>1, MovesStay, OutcomesAreValues DEF Outcomes
    <3> QED
      BY <2>3, <2>7, <2>12, <3>2 DEF Counts, At, Numbered, NumberLabels
  <2>13. CASE DeletesLive(c, g)
    <3>1. At(c, "delete", "delete_live", g) /\ pc'[c] = "delete_versions" /\ reply'[c] # "duplicate_version"
      BY <2>13, MovesStay, OutcomesAreValues DEF Goes, DeletesLive, Outcomes
    <3>2. AskedFor(c, "delete", g)'
      BY <3>1, AskedStays DEF At
    <3> QED
      BY <3>1, <3>2 DEF Numbers, At
  <2>14. CASE DeletesVersions(c, g)
    <3>1. pc'[c] = "delete_draft" /\ reply'[c] # "duplicate_version"
      BY <2>14, MovesStay, OutcomesAreValues DEF Goes, DeletesVersions, Outcomes
    <3>2. Numbered(g)'
      BY <2>14 DEF DeletesVersions, Numbered
    <3> QED
      BY <1>4, <2>7, <3>1, <3>2 DEF NumberLabels
  <2>15. CASE SeedsLive(c, g)
    <3>1. /\ pc'[c] = "seed_version" /\ reply'[c] # "duplicate_version" /\ UNCHANGED versions
          /\ At(c, "seed", "seed_live", g)
      BY <2>15, MovesStay, OutcomesAreValues DEF Goes, SeedsLive, Outcomes
    <3>2. Seed # NoValue
      BY BlankIsValid, RowsAreValues DEF Seed, LiveRow
    <3>3. live'[g] # NoValue /\ (live[g] # NoValue => live'[g] = live[g])
      BY <2>15, <3>2 DEF SeedsLive, RowsInv
    <3>4. Numbered(g)'
      BY <2>3, <3>1, <3>3 DEF At, Numbered
    <3> QED
      BY <3>1, <3>3, <3>4 DEF Numbers, At
  <2>16. CASE SeedsVersion(c, g)
    <3>1. /\ pc'[c] = "done" /\ reply'[c] # "duplicate_version" /\ UNCHANGED live
          /\ At(c, "seed", "seed_version", g)
      BY <2>16, MovesStay DEF Ends, SeedsVersion
    <3>2. Numbered(g) /\ live[g] # NoValue
      BY <2>3, <2>6, <3>1 DEF At, Numbers
    <3>3. ASSUME NEW v \in versions', v.game = g
          PROVE  v.version <= live[g].version
      <4>1. CASE v \in versions
        BY <3>2, <3>3, <4>1 DEF Numbered
      <4>2. CASE v = Snapshot(g, Seed, FALSE, c)
        BY <1>5, <3>2, <4>2 DEF Snapshot, Seed
      <4> QED
        BY <2>16, <3>3, <4>1, <4>2 DEF SeedsVersion
    <3>4. Numbered(g)'
      BY <3>1, <3>2, <3>3 DEF Numbered
    <3> QED
      BY <1>4, <2>7, <3>1, <3>4 DEF NumberLabels
  <2> QED
    BY <1>7, <2>8, <2>9, <2>10, <2>11, <2>12, <2>13, <2>14, <2>15, <2>16 DEF Turn
<1> QED
  BY <1>6, <1>7

LEMMA NumbersNext ==
  ASSUME CallsInv, CallsInv', Later, RowsInv, [Next]_vars, NEW g \in Game, NumbersInv(g)
  PROVE  NumbersInv(g)'
<1>1. CASE Aside(Watched) /\ UNCHANGED <<live, versions, played>>
  <2>1. Apart(g, NumberLabels, {"duplicate_version"})
    BY <1>1, AsideIsApart DEF NumberLabels, Watched, Outcomes
  <2> QED
    BY <1>1, <2>1, NumbersApart DEF VersionsOf
<1>2. CASE \E c \in Call : Crash(c) /\ UNCHANGED publishingVars
  BY <1>2, NumbersCrash
<1>3. ASSUME NEW c \in Call, Active(c)
      PROVE  NumbersInv(g)'
  <2> DEFINE h == request[c].game
  <2>1. Turn(c, h) /\ h \in Game
    BY <1>3, ActiveTurns
  <2>2. CASE h = g
    BY <2>1, <2>2, NumbersTurn
  <2>3. CASE h # g
    <3>1. Untouched(g)
      BY <2>1, <2>3, TurnElsewhere
    <3>2. Apart(g, NumberLabels, {"duplicate_version"})
      BY <2>1, <2>3, TurnMoves, OtherGameIsApart
    <3> QED
      BY <3>1, <3>2, NumbersApart DEF Untouched
  <2> QED
    BY <2>2, <2>3
<1> QED
  BY <1>1, <1>2, <1>3, PublishingCases
-----------------------------------------------------------------------------
(* What the collections hold                                               *)

CarryOps == {"createGame", "put", "upload", "clear", "fromPublished", "publish"}
CarryLabels == {"save", "store", "version", "snapshot", "replace"}

LEMMA CarriesNothing ==
  ASSUME NEW c, pc[c] \notin CarryLabels \/ request[c].op \notin CarryOps
  PROVE  Carries(c)
BY DEF Carries, CarryLabels, CarryOps

LEMMA RowsStay ==
  ASSUME RowsInv, UNCHANGED publishingVars,
         \A d \in Call : \/ pc'[d] = pc[d] /\ seen'[d] = seen[d] /\ request'[d] = request[d]
                         \/ pc'[d] \notin CarryLabels
                         \/ request'[d].op \notin CarryOps
  PROVE  RowsInv'
<1>1. \A row : /\ Held(row) => Held(row)'
               /\ \A forced : Passed(row, forced) => Passed(row, forced)'
               /\ Stored(row) => Stored(row)'
  BY DEF Held, Passed, Stored, AssetsOf, publishingVars
<1>2. ASSUME NEW d \in Call
      PROVE  Carries(d)'
  <2>1. CASE pc'[d] = pc[d] /\ seen'[d] = seen[d] /\ request'[d] = request[d]
    BY <1>1, <2>1 DEF RowsInv, Carries
  <2>2. CASE pc'[d] \notin CarryLabels \/ request'[d].op \notin CarryOps
    BY <2>2 DEF Carries, CarryLabels, CarryOps
  <2> QED
    BY <2>1, <2>2
<1>3. \A g \in Game : (drafts[g] # NoValue => Held(drafts[g]))'
  BY <1>1 DEF RowsInv, publishingVars
<1>4. \A g \in Game : (live[g] # NoValue => live[g] \in LiveRow /\ Stored(live[g].def))'
  BY <1>1 DEF RowsInv, publishingVars, LiveRow
<1>5. \A v \in versions' : v.game \in Game /\ Passed(v, v.forced)'
  BY <1>1 DEF RowsInv, publishingVars
<1> QED
  BY <1>2, <1>3, <1>4, <1>5 DEF RowsInv, publishingVars

LEMMA RowsStep ==
  ASSUME RowsInv, NEW c \in Call, OthersStay(c), request' = request, Carries(c)',
         bucket \subseteq bucket', bucket' \subseteq Call, played' \subseteq Game,
         NEW d, drafts' = drafts \/ \E g \in Game : drafts' = [drafts EXCEPT ![g] = d], d = NoValue \/ Held(d)',
         NEW r, live' = live \/ \E g \in Game : live' = [live EXCEPT ![g] = r],
         r = NoValue \/ (r \in LiveRow /\ Stored(r.def)'),
         NEW s, versions' \subseteq versions \cup {s},
         \/ s \notin versions' \/ s \in versions
         \/ /\ s.game \in Game /\ Passed(s, s.forced)'
            /\ \A w \in versions : ~(w.game = s.game /\ w.version = s.version)
  PROVE  RowsInv'
<1>1. \A row : /\ Held(row) => Held(row)'
               /\ \A forced : Passed(row, forced) => Passed(row, forced)'
               /\ Stored(row) => Stored(row)'
  BY StoredStays DEF Held, Passed
<1>2. \A e \in Call \ {c} : Carries(e)'
  BY <1>1 DEF RowsInv, Carries, OthersStay
<1>3. ASSUME NEW g \in Game
      PROVE  (drafts[g] # NoValue => Held(drafts[g]))'
  <2>1. drafts'[g] = drafts[g] \/ drafts'[g] = d
    BY DEF RowsInv
  <2> QED
    BY <1>1, <2>1 DEF RowsInv
<1>4. ASSUME NEW g \in Game
      PROVE  (live[g] # NoValue => live[g] \in LiveRow /\ Stored(live[g].def))'
  <2>1. live'[g] = live[g] \/ live'[g] = r
    BY DEF RowsInv
  <2>2. LiveRow' = LiveRow
    BY DEF LiveRow
  <2>3. CASE live'[g] = live[g] /\ live[g] # NoValue
    BY <1>1, <2>2, <2>3 DEF RowsInv
  <2>4. CASE live'[g] = r
    BY <2>2, <2>4
  <2> QED
    BY <2>1, <2>3, <2>4
<1>5. \A v \in versions' : v.game \in Game /\ Passed(v, v.forced)'
  BY <1>1 DEF RowsInv
<1>6. \A v, w \in versions' : v.game = w.game /\ v.version = w.version => v = w
  BY DEF RowsInv
<1>7. DOMAIN drafts' = Game /\ DOMAIN live' = Game
  BY DEF RowsInv
<1> QED
  BY <1>2, <1>3, <1>4, <1>5, <1>6, <1>7 DEF RowsInv

LEMMA NoSuchSnapshot == \E s : s \notin versions
<1> DEFINE s == {v \in versions : v \notin v}
<1>1. s \notin versions
  OBVIOUS
<1> QED
  BY <1>1

\* A step of a call that writes nothing.
LEMMA RowsRead ==
  ASSUME RowsInv, NEW c \in Call, OthersStay(c), request' = request, Carries(c)', UNCHANGED publishingVars
  PROVE  RowsInv'
<1>1. PICK s : s \notin versions
  BY NoSuchSnapshot
<1>2. /\ drafts' = drafts /\ live' = live /\ versions' = versions
      /\ bucket' = bucket /\ played' = played
  BY DEF publishingVars
<1>3. bucket \subseteq bucket' /\ bucket' \subseteq Call /\ played' \subseteq Game
      /\ versions' \subseteq versions \cup {s} /\ s \notin versions'
  BY <1>1, <1>2 DEF RowsInv
<1> QED
  BY <1>2, <1>3, RowsStep

\* A step of a call that stores what it carries as the draft.
LEMMA RowsSave ==
  ASSUME RowsInv, NEW c \in Call, OthersStay(c), request' = request, Carries(c)',
         UNCHANGED <<live, versions, bucket, played>>, request[c].game \in Game,
         NEW d, drafts' = [drafts EXCEPT ![request[c].game] = d], d = NoValue \/ Held(d)
  PROVE  RowsInv'
<1>1. PICK s : s \notin versions
  BY NoSuchSnapshot
<1>2. bucket \subseteq bucket' /\ bucket' \subseteq Call /\ played' \subseteq Game
      /\ versions' \subseteq versions \cup {s} /\ s \notin versions'
  BY <1>1 DEF RowsInv
<1>3. d = NoValue \/ Held(d)'
  BY StoredStays DEF Held
<1> QED
  BY <1>2, <1>3, RowsStep

\* A step of a call that writes the live row.
LEMMA RowsLive ==
  ASSUME RowsInv, NEW c \in Call, OthersStay(c), request' = request, Carries(c)',
         UNCHANGED <<drafts, versions, bucket, played>>, NEW g \in Game,
         NEW r, live' = live \/ live' = [live EXCEPT ![g] = r], r = NoValue \/ (r \in LiveRow /\ Stored(r.def))
  PROVE  RowsInv'
<1>1. PICK s : s \notin versions
  BY NoSuchSnapshot
<1>2. bucket \subseteq bucket' /\ bucket' \subseteq Call /\ played' \subseteq Game
      /\ versions' \subseteq versions \cup {s} /\ s \notin versions'
  BY <1>1 DEF RowsInv
<1>3. r = NoValue \/ (r \in LiveRow /\ Stored(r.def)')
  BY StoredStays
<1> QED
  BY <1>2, <1>3, RowsStep

\* A step of a call that inserts a snapshot.
LEMMA RowsVersion ==
  ASSUME RowsInv, NEW c \in Call, OthersStay(c), request' = request, Carries(c)',
         UNCHANGED <<drafts, live, bucket, played>>,
         NEW s, versions' = versions \cup {s}, s.game \in Game, Passed(s, s.forced),
         \A w \in versions : ~(w.game = s.game /\ w.version = s.version)
  PROVE  RowsInv'
<1>1. bucket \subseteq bucket' /\ bucket' \subseteq Call /\ played' \subseteq Game
      /\ versions' \subseteq versions \cup {s}
  BY DEF RowsInv
<1>2. Passed(s, s.forced)'
  BY StoredStays DEF Held, Passed
<1> QED
  BY <1>1, <1>2, RowsStep
\* What a step of a handler leaves for its call.
Leaves(c, label, value) ==
  /\ OthersStay(c) /\ request' = request
  /\ pc'[c] = label /\ seen'[c] = value

LEMMA GotoLeaves ==
  ASSUME CallsInv, NEW c \in Call, NEW label, NEW value, Goto(c, label, value)
  PROVE  Leaves(c, label, value)
BY DEF CallsInv, Goto, Frame, Leaves, OthersStay

LEMMA AnswerLeaves ==
  ASSUME CallsInv, NEW c \in Call, NEW outcome, Answer(c, outcome)
  PROVE  Leaves(c, "done", NoValue)
BY DEF CallsInv, Answer, Frame, Leaves, OthersStay

LEMMA LeavesNothing ==
  ASSUME NEW c \in Call, NEW label, label \notin CarryLabels, NEW value, Leaves(c, label, value)
  PROVE  Carries(c)'
BY DEF Leaves, Carries, CarryLabels

LEMMA RequestsFitGames ==
  ASSUME CallsInv, NEW c \in Call, NEW label, NEW op, Asked(c, label, op), label # "idle"
  PROVE  /\ Fits(request[c]) /\ request[c].op = op
         /\ op \in CarryOps \cup WriterOps => request[c].game \in Game
BY RequestsAreFit DEF CallsInv, Asked, Fits, CarryOps, WriterOps

\* A draft that is created, put, copied from the live game, or given assets.
LEMMA RowsEdited ==
  ASSUME CallsInv, RowsInv, NEW c \in Call,
         \/ CheckNew(c) \/ SaveNew(c) \/ ReadForPut(c) \/ SavePut(c)
         \/ FromPublished(c) \/ ReadPublished(c) \/ SaveFromPublished(c)
         \/ ReadForUpload(c) \/ UploadAsset(c) \/ SaveUpload(c) \/ ReadForClear(c) \/ SaveClear(c)
  PROVE  RowsInv'
<1> DEFINE r == request[c]
<1>1. ASSUME NEW label, NEW value, Leaves(c, label, value), label \notin CarryLabels, UNCHANGED publishingVars
      PROVE  RowsInv'
  BY <1>1, LeavesNothing, RowsRead DEF Leaves
<1>2. ASSUME NEW label \in {"save", "store"}, NEW value, Leaves(c, label, value), Held(value), UNCHANGED publishingVars,
             r.op \in CarryOps \ {"publish"}
      PROVE  RowsInv'
  <2>1. Held(value)'
    BY <1>2 DEF Held, Stored, AssetsOf, publishingVars
  <2>2. Carries(c)'
    BY <1>2, <2>1 DEF Leaves, Carries, CarryOps
  <2> QED
    BY <1>2, <2>2, RowsRead DEF Leaves
<1>3. ASSUME SaveDraft(c), NEW label, Leaves(c, label, NoValue), label \notin CarryLabels,
             pc[c] = "save", r.op \in CarryOps \ {"publish"}, r.game \in Game,
             UNCHANGED <<live, versions, bucket, played>>
      PROVE  RowsInv'
  <2>1. Carries(c)'
    BY <1>3, LeavesNothing
  <2>2. Held(seen[c])
    BY <1>3 DEF RowsInv, Carries, CarryOps
  <2> QED
    BY <1>3, <2>1, <2>2, RowsSave DEF Leaves, SaveDraft
<1>4. CASE CheckNew(c)
  <2>1. r.op \in CarryOps \ {"publish"}
    BY <1>4 DEF CheckNew, Asked, CarryOps
  <2>2. Held(Blank)
    BY BlankIsValid, NoAssetsStored DEF Held
  <2>3. Leaves(c, "done", NoValue) \/ Leaves(c, "save", Blank)
    BY <1>4, GotoLeaves, AnswerLeaves DEF CheckNew
  <2> QED
    BY <1>1, <1>2, <1>4, <2>1, <2>2, <2>3 DEF CheckNew, CarryLabels
<1>5. CASE SaveNew(c)
  <2>1. pc[c] = "save" /\ r.op = "createGame" /\ r.game \in Game
    BY <1>5, RequestsFitGames DEF SaveNew, Asked, CarryOps
  <2>2. Leaves(c, "audit", NoValue)
    BY <1>5, GotoLeaves DEF SaveNew
  <2> QED
    BY <1>3, <1>5, <2>1, <2>2 DEF SaveNew, CarryLabels, CarryOps
<1>6. CASE ReadForPut(c)
  <2>1. r.op = "put" /\ r.game \in Game /\ r.patch \in Patch /\ r.removed \in SUBSET (Field \ {"math"})
    BY <1>6, RequestsFitGames DEF ReadForPut, Asked, CarryOps, Fits
  <2>2. CASE drafts[r.game] = NoValue
    <3>1. Leaves(c, "done", NoValue)
      BY <1>6, <2>2, AnswerLeaves DEF ReadForPut
    <3> QED
      BY <1>1, <1>6, <3>1 DEF ReadForPut, CarryLabels
  <2>3. CASE drafts[r.game] # NoValue
    <3> DEFINE old == drafts[r.game]
               new == Without(Merge(AcceptedPatch(r.patch), old), r.removed)
    <3>1. Held(old)
      BY <2>1, <2>3 DEF RowsInv
    <3>2. Held(new)
      BY <2>1, <3>1, PutKeepsAssets DEF Held
    <3>3. Leaves(c, "save", new)
      BY <1>6, <2>3, GotoLeaves DEF ReadForPut
    <3> HIDE DEF new
    <3> QED
      BY <1>2, <1>6, <2>1, <3>2, <3>3 DEF ReadForPut, CarryOps
  <2> QED
    BY <2>2, <2>3
<1>7. CASE SavePut(c)
  <2>1. pc[c] = "save" /\ r.op = "put" /\ r.game \in Game
    BY <1>7, RequestsFitGames DEF SavePut, Asked, CarryOps
  <2>2. Leaves(c, "done", NoValue)
    BY <1>7, AnswerLeaves DEF SavePut
  <2> QED
    BY <1>3, <1>7, <2>1, <2>2 DEF SavePut, CarryLabels, CarryOps
<1>8. CASE FromPublished(c)
  <2>1. Leaves(c, "done", NoValue) \/ Leaves(c, "published", NoValue)
    BY <1>8, GotoLeaves, AnswerLeaves DEF FromPublished
  <2> QED
    BY <1>1, <1>8, <2>1 DEF FromPublished, CarryLabels
<1>9. CASE ReadPublished(c)
  <2>1. r.op = "fromPublished" /\ r.game \in Game
    BY <1>9, RequestsFitGames DEF ReadPublished, Asked, CarryOps
  <2>2. \/ Leaves(c, "done", NoValue)
        \/ live[r.game] # NoValue /\ Leaves(c, "save", DraftFromPublished(live[r.game]))
    BY <1>9, GotoLeaves, AnswerLeaves DEF ReadPublished
  <2>3. live[r.game] # NoValue => Held(DraftFromPublished(live[r.game]))
    BY <2>1 DEF RowsInv, DraftFromPublished, Held, LiveRow
  <2> QED
    BY <1>1, <1>2, <1>9, <2>1, <2>2, <2>3 DEF ReadPublished, CarryLabels, CarryOps
<1>10. CASE SaveFromPublished(c)
  <2>1. pc[c] = "save" /\ r.op = "fromPublished" /\ r.game \in Game
    BY <1>10, RequestsFitGames DEF SaveFromPublished, Asked, CarryOps
  <2>2. Leaves(c, "done", NoValue)
    BY <1>10, AnswerLeaves DEF SaveFromPublished
  <2> QED
    BY <1>3, <1>10, <2>1, <2>2 DEF SaveFromPublished, CarryLabels, CarryOps
<1>11. CASE ReadForUpload(c)
  <2>1. r.op = "upload" /\ r.game \in Game
    BY <1>11, RequestsFitGames DEF ReadForUpload, Asked, CarryOps
  <2>2. Leaves(c, "done", NoValue) \/ (drafts[r.game] # NoValue /\ Leaves(c, "store", drafts[r.game]))
    BY <1>11, GotoLeaves, AnswerLeaves DEF ReadForUpload
  <2>3. drafts[r.game] # NoValue => Held(drafts[r.game])
    BY <2>1 DEF RowsInv
  <2> QED
    BY <1>1, <1>2, <1>11, <2>1, <2>2, <2>3 DEF ReadForUpload, CarryLabels, CarryOps
<1>12. CASE UploadAsset(c)
  <2>1. pc[c] = "store" /\ r.op = "upload" /\ r.slot \in Slot
    BY <1>12, RequestsFitGames DEF UploadAsset, Asked, CarryOps, Fits
  <2>2. CASE UNCHANGED bucket /\ Answer(c, "storage_failed")
    BY <1>1, <1>12, <2>2, AnswerLeaves DEF UploadAsset, CarryLabels, publishingVars
  <2>3. CASE bucket' = bucket \cup {c} /\ Goto(c, "save", WithUploadedAsset(seen[c], r.slot, AssetKey(c)))
    <3>1. PICK old, new : old = seen[c] /\ new = WithUploadedAsset(old, r.slot, AssetKey(c))
      OBVIOUS
    <3>2. Held(old)
      BY <2>1, <3>1 DEF RowsInv, Carries
    <3>3. PICK slot \in Slot : slot = r.slot
      BY <2>1
    <3>4. Held(new)'
      <4>1. /\ WithUploadedAsset(old, slot, AssetKey(c)) \in Draft
            /\ Stored(WithUploadedAsset(old, slot, AssetKey(c)))'
        BY <2>3, <3>2, UploadStores DEF Held
      <4>2. new = WithUploadedAsset(old, slot, AssetKey(c))
        BY <3>1, <3>3
      <4> QED
        BY <4>1, <4>2 DEF Held
    <3>5. Leaves(c, "save", new)
      BY <2>3, <3>1, GotoLeaves
    <3>6. Carries(c)'
      BY <2>1, <3>4, <3>5 DEF Leaves, Carries
    <3>7. PICK s : s \notin versions
      BY NoSuchSnapshot
    <3>8. /\ drafts' = drafts /\ live' = live /\ versions' \subseteq versions \cup {s} /\ s \notin versions'
          /\ bucket \subseteq bucket' /\ bucket' \subseteq Call /\ played' \subseteq Game
      BY <1>12, <2>3, <3>7 DEF UploadAsset, RowsInv
    <3> QED
      BY <3>5, <3>6, <3>8, RowsStep DEF Leaves
  <2> QED
    BY <1>12, <2>2, <2>3 DEF UploadAsset
<1>13. CASE SaveUpload(c)
  <2>1. pc[c] = "save" /\ r.op = "upload" /\ r.game \in Game
    BY <1>13, RequestsFitGames DEF SaveUpload, Asked, CarryOps
  <2>2. Leaves(c, "audit", NoValue)
    BY <1>13, GotoLeaves DEF SaveUpload
  <2> QED
    BY <1>3, <1>13, <2>1, <2>2 DEF SaveUpload, CarryLabels, CarryOps
<1>14. CASE ReadForClear(c)
  <2>1. r.op = "clear" /\ r.game \in Game
    BY <1>14, RequestsFitGames DEF ReadForClear, Asked, CarryOps
  <2>2. \/ Leaves(c, "done", NoValue)
        \/ drafts[r.game] # NoValue /\ Leaves(c, "save", WithoutAsset(drafts[r.game], r.slot))
    BY <1>14, GotoLeaves, AnswerLeaves DEF ReadForClear
  <2>3. drafts[r.game] # NoValue => Held(WithoutAsset(drafts[r.game], r.slot))
    BY <2>1, ClearKeepsStored DEF RowsInv, Held
  <2> QED
    BY <1>1, <1>2, <1>14, <2>1, <2>2, <2>3 DEF ReadForClear, CarryLabels, CarryOps
<1>15. CASE SaveClear(c)
  <2>1. pc[c] = "save" /\ r.op = "clear" /\ r.game \in Game
    BY <1>15, RequestsFitGames DEF SaveClear, Asked, CarryOps
  <2>2. Leaves(c, "done", NoValue)
    BY <1>15, AnswerLeaves DEF SaveClear
  <2> QED
    BY <1>3, <1>15, <2>1, <2>2 DEF SaveClear, CarryLabels, CarryOps
<1> QED
  BY <1>4, <1>5, <1>6, <1>7, <1>8, <1>9, <1>10, <1>11, <1>12, <1>13, <1>14, <1>15
\* What is published, seeded or deleted.
LEMMA RowsPublished ==
  ASSUME CallsInv, RowsInv, NEW c \in Call,
         \/ ReadForPublish(c) \/ ReadVersion(c) \/ InsertVersion(c) \/ ReplaceLive(c)
         \/ ReadForDelete(c) \/ CountRounds(c) \/ DeleteLive(c) \/ DeleteVersions(c) \/ DeleteDraft(c)
         \/ SeedLive(c) \/ SeedVersion(c) \/ LoadGame(c) \/ PlayRound(c)
  PROVE  RowsInv'
<1> DEFINE r == request[c]
<1>1. ASSUME NEW label, NEW value, Leaves(c, label, value), label \notin CarryLabels, UNCHANGED publishingVars
      PROVE  RowsInv'
  BY <1>1, LeavesNothing, RowsRead DEF Leaves
<1>2. CASE ReadForPublish(c)
  <2>1. r.op = "publish" /\ r.game \in Game /\ UNCHANGED publishingVars
    BY <1>2, RequestsFitGames DEF ReadForPublish, Asked, CarryOps
  <2>2. CASE Leaves(c, "done", NoValue)
    BY <1>1, <2>1, <2>2 DEF CarryLabels
  <2>3. CASE drafts[r.game] # NoValue /\ drafts[r.game]["math"] \notin Broken /\ Leaves(c, "version", drafts[r.game])
    <3>1. PICK draft : draft = drafts[r.game]
      OBVIOUS
    <3>2. Held(draft)'
      BY <2>1, <2>3, <3>1, StoredStays DEF RowsInv, Held, publishingVars
    <3>3. Carries(c)'
      BY <2>1, <2>3, <3>1, <3>2 DEF Leaves, Carries
    <3> QED
      BY <2>1, <2>3, <3>3, RowsRead DEF Leaves
  <2>4. \/ Leaves(c, "done", NoValue)
        \/ drafts[r.game] # NoValue /\ drafts[r.game]["math"] \notin Broken /\ Leaves(c, "version", drafts[r.game])
    BY <1>2, GotoLeaves, AnswerLeaves DEF ReadForPublish
  <2> QED
    BY <2>2, <2>3, <2>4
<1>3. CASE ReadVersion(c)
  <2> DEFINE row == [version |-> NextVersion(live[r.game]), def |-> seen[c]]
  <2>1. r.op = "publish" /\ r.game \in Game /\ pc[c] = "version" /\ UNCHANGED publishingVars /\ r.force \in BOOLEAN
    BY <1>3, RequestsFitGames DEF ReadVersion, Asked, CarryOps, Fits
  <2>2. CASE Leaves(c, "done", NoValue)
    BY <1>1, <2>1, <2>2 DEF CarryLabels
  <2>3. CASE (seen[c]["math"] \in Drifting => r.force) /\ Leaves(c, "snapshot", row)
    <3>1. PICK new : new = row
      OBVIOUS
    <3>2. NextVersion(live[r.game]) \in Nat \ {0}
      BY <2>1 DEF RowsInv, LiveRow, NextVersion
    <3>3. Held(seen[c]) /\ seen[c]["math"] \notin Broken
      BY <2>1 DEF RowsInv, Carries
    <3>4. new \in LiveRow /\ Passed(new, r.force)
      BY <2>3, <3>1, <3>2, <3>3 DEF Passed, Held, LiveRow
    <3>5. LiveRow' = LiveRow
      BY DEF LiveRow
    <3>6. Passed(new, r.force)'
      <4>1. new.version \in Nat \ {0} /\ new.def \in Draft /\ Stored(new.def)
            /\ new.def["math"] \notin Broken /\ (new.def["math"] \in Drifting => r.force)
        BY <3>4 DEF Passed, Held
      <4>2. Stored(new.def)'
        BY <2>1, <4>1, StoredStays DEF publishingVars
      <4> QED
        BY <2>3, <4>1, <4>2 DEF Passed, Held, Leaves
    <3>7. Carries(c)'
      BY <2>1, <2>3, <3>1, <3>4, <3>5, <3>6 DEF Leaves, Carries
    <3> QED
      BY <2>1, <2>3, <3>7, RowsRead DEF Leaves
  <2>4. CASE seen[c]["math"] \in Drifting /\ ~r.force
    BY <1>3, <2>2, <2>4, AnswerLeaves DEF ReadVersion
  <2>5. CASE ~(seen[c]["math"] \in Drifting /\ ~r.force)
    BY <1>3, <2>3, <2>5, GotoLeaves DEF ReadVersion
  <2> QED
    BY <2>4, <2>5
<1>4. CASE InsertVersion(c)
  <2> DEFINE taken == \E v \in versions : v.game = r.game /\ v.version = seen[c].version
             s == Snapshot(r.game, seen[c], r.force, c)
  <2>1. r.op = "publish" /\ r.game \in Game /\ pc[c] = "snapshot"
    BY <1>4, RequestsFitGames DEF InsertVersion, Asked, CarryOps
  <2>2. CASE taken
    BY <1>1, <1>4, <2>2, AnswerLeaves DEF InsertVersion, Published, CarryLabels, publishingVars
  <2>3. CASE ~taken
    <3>1. /\ versions' = versions \cup {s} /\ UNCHANGED <<drafts, live, bucket, played>>
          /\ Leaves(c, "replace", seen[c])
      BY <1>4, <2>3, GotoLeaves DEF InsertVersion, Published
    <3>2. seen[c] \in LiveRow /\ Passed(seen[c], r.force)
      BY <2>1 DEF RowsInv, Carries
    <3>3. s.game = r.game /\ s.version = seen[c].version /\ s.def = seen[c].def /\ s.forced = r.force
      BY DEF Snapshot
    <3>4. Passed(s, s.forced) /\ s.game \in Game /\ \A w \in versions : ~(w.game = s.game /\ w.version = s.version)
      BY <2>1, <2>3, <3>2, <3>3 DEF Passed
    <3>5. PICK row : row = seen[c]
      OBVIOUS
    <3>6. LiveRow' = LiveRow
      BY DEF LiveRow
    <3>7. Passed(row, r.force)'
      BY <3>1, <3>2, <3>5 DEF Passed, Held, Stored, AssetsOf, Leaves
    <3>8. Carries(c)'
      BY <2>1, <3>1, <3>2, <3>5, <3>6, <3>7 DEF Leaves, Carries
    <3> HIDE DEF s
    <3> QED
      BY <3>1, <3>4, <3>8, RowsVersion DEF Leaves
  <2> QED
    BY <2>2, <2>3
<1>5. CASE ReplaceLive(c)
  <2>1. r.op = "publish" /\ r.game \in Game /\ pc[c] = "replace"
    BY <1>5, RequestsFitGames DEF ReplaceLive, Asked, CarryOps
  <2>2. seen[c] \in LiveRow /\ Stored(seen[c].def)
    BY <2>1 DEF RowsInv, Carries, Passed, Held
  <2>3. Leaves(c, "audit", NoValue)
    BY <1>5, GotoLeaves DEF ReplaceLive
  <2>4. Carries(c)'
    BY <2>3, LeavesNothing DEF CarryLabels
  <2> QED
    BY <1>5, <2>1, <2>2, <2>3, <2>4, RowsLive DEF ReplaceLive, Leaves
<1>6. CASE ReadForDelete(c) \/ CountRounds(c) \/ LoadGame(c)
  <2>1. \/ Leaves(c, "done", NoValue) \/ Leaves(c, "rounds", NoValue) \/ Leaves(c, "delete_live", NoValue)
        \/ Leaves(c, "round", NoValue)
    BY <1>6, GotoLeaves, AnswerLeaves DEF ReadForDelete, CountRounds, LoadGame
  <2> QED
    BY <1>1, <1>6, <2>1 DEF ReadForDelete, CountRounds, LoadGame, CarryLabels
<1>7. CASE DeleteLive(c)
  <2>1. r.game \in Game
    BY <1>7, RequestsFitGames DEF DeleteLive, WriterOps
  <2>2. Leaves(c, "delete_versions", NoValue)
    BY <1>7, GotoLeaves DEF DeleteLive
  <2>3. Carries(c)'
    BY <2>2, LeavesNothing DEF CarryLabels
  <2> QED
    BY <1>7, <2>1, <2>2, <2>3, RowsLive DEF DeleteLive, Leaves
<1>8. CASE DeleteVersions(c)
  <2>1. Leaves(c, "delete_draft", NoValue)
    BY <1>8, GotoLeaves DEF DeleteVersions
  <2>2. Carries(c)'
    BY <2>1, LeavesNothing DEF CarryLabels
  <2>3. PICK s : s \notin versions
    BY NoSuchSnapshot
  <2>4. /\ drafts' = drafts /\ live' = live /\ versions' \subseteq versions \cup {s} /\ s \notin versions'
        /\ bucket \subseteq bucket' /\ bucket' \subseteq Call /\ played' \subseteq Game
    BY <1>8, <2>3 DEF DeleteVersions, RowsInv
  <2> QED
    BY <2>1, <2>2, <2>4, RowsStep DEF Leaves
<1>9. CASE DeleteDraft(c)
  <2>1. r.game \in Game
    BY <1>9, RequestsFitGames DEF DeleteDraft, WriterOps
  <2>2. Leaves(c, "audit", NoValue)
    BY <1>9, GotoLeaves DEF DeleteDraft
  <2>3. Carries(c)'
    BY <2>2, LeavesNothing DEF CarryLabels
  <2> QED
    BY <1>9, <2>1, <2>2, <2>3, RowsSave DEF DeleteDraft, Leaves
<1>10. CASE SeedLive(c)
  <2>1. r.game \in Game
    BY <1>10, RequestsFitGames DEF SeedLive, WriterOps
  <2>2. Leaves(c, "seed_version", NoValue)
    BY <1>10, GotoLeaves DEF SeedLive
  <2>3. Carries(c)'
    BY <2>2, LeavesNothing DEF CarryLabels
  <2>4. Seed \in LiveRow /\ Stored(Seed.def)
    BY BlankIsValid, NoAssetsStored DEF Seed, LiveRow
  <2>5. live' = live \/ live' = [live EXCEPT ![r.game] = Seed]
    BY <1>10 DEF SeedLive
  <2>6. UNCHANGED <<drafts, versions, bucket, played>>
    BY <1>10 DEF SeedLive
  <2> QED
    BY <2>1, <2>2, <2>3, <2>4, <2>5, <2>6, RowsLive DEF Leaves
<1>11. CASE SeedVersion(c)
  <2> DEFINE taken == \E v \in versions : v.game = r.game /\ v.version = 1
             s == Snapshot(r.game, Seed, FALSE, c)
  <2>1. r.game \in Game
    BY <1>11, RequestsFitGames DEF SeedVersion, WriterOps
  <2>2. Leaves(c, "done", NoValue)
    BY <1>11, AnswerLeaves DEF SeedVersion
  <2>3. CASE taken
    BY <1>1, <1>11, <2>2, <2>3 DEF SeedVersion, CarryLabels, publishingVars
  <2>4. CASE ~taken
    <3>1. versions' = versions \cup {s} /\ UNCHANGED <<drafts, live, bucket, played>>
      BY <1>11, <2>4 DEF SeedVersion
    <3>2. s.game = r.game /\ s.version = 1 /\ s.def = Blank /\ s.forced = FALSE
      BY DEF Snapshot, Seed
    <3> HIDE DEF s
    <3>3. Passed(s, FALSE)
      <4>1. Held(Blank) /\ Blank["math"] \notin Broken /\ Blank["math"] \notin Drifting
        BY BlankIsValid, NoAssetsStored DEF Held
      <4> QED
        BY <3>2, <4>1 DEF Passed
    <3>4. Carries(c)'
      BY <2>2, LeavesNothing DEF CarryLabels
    <3>5. s.game \in Game /\ \A w \in versions : ~(w.game = s.game /\ w.version = s.version)
      BY <2>1, <2>4, <3>2
    <3>6. Passed(s, s.forced)
      BY <3>2, <3>3
    <3> QED
      BY <2>2, <3>1, <3>4, <3>5, <3>6, RowsVersion DEF Leaves
  <2> QED
    BY <2>3, <2>4
<1>12. CASE PlayRound(c)
  <2>1. r.game \in Game
    BY <1>12, RequestsFitGames DEF PlayRound, WriterOps
  <2>2. Leaves(c, "done", NoValue)
    BY <1>12, AnswerLeaves DEF PlayRound
  <2>3. Carries(c)'
    BY <2>2, LeavesNothing DEF CarryLabels
  <2>4. PICK s : s \notin versions
    BY NoSuchSnapshot
  <2>5. /\ drafts' = drafts /\ live' = live /\ versions' \subseteq versions \cup {s} /\ s \notin versions'
        /\ bucket \subseteq bucket' /\ bucket' \subseteq Call /\ played' \subseteq Game
    BY <1>12, <2>1, <2>4 DEF PlayRound, RowsInv
  <2> QED
    BY <2>2, <2>3, <2>5, RowsStep DEF Leaves
<1> QED
  BY <1>2, <1>3, <1>4, <1>5, <1>6, <1>7, <1>8, <1>9, <1>10, <1>11, <1>12

LEMMA CarriesElsewhere ==
  ASSUME CallsInv, RowsInv, UNCHANGED publishingVars, NEW c \in Call,
         \/ \E label, value : Moves(c, label, value) /\ (label \notin CarryLabels \/ request[c].op \notin CarryOps)
         \/ \E r : Enter(c, r)
  PROVE  RowsInv'
<1>1. CASE \E label, value : Moves(c, label, value) /\ (label \notin CarryLabels \/ request[c].op \notin CarryOps)
  <2>1. PICK label, value : Moves(c, label, value) /\ (label \notin CarryLabels \/ request[c].op \notin CarryOps)
    BY <1>1
  <2>2. OthersStay(c) /\ pc'[c] = label /\ request' = request
    BY <2>1, MovesStay
  <2> QED
    BY <2>1, <2>2, RowsStay DEF OthersStay
<1>2. CASE \E r : Enter(c, r)
  <2>1. PICK r : Enter(c, r)
    BY <1>2
  <2>2. pc'[c] \notin CarryLabels
    BY <2>1, RequestsAreFit, FirstLabels DEF Enter, CallsInv, Fits, CarryLabels
  <2>3. \A d \in Call \ {c} : pc'[d] = pc[d] /\ seen'[d] = seen[d] /\ request'[d] = request[d]
    BY <2>1 DEF Enter, CallsInv
  <2> QED
    BY <2>2, <2>3, RowsStay
<1> QED
  BY <1>1, <1>2

LEMMA OtherOps ==
  ASSUME NEW c \in Call, AccountStep(c) \/ AccessStep(c)
  PROVE  request[c].op \notin CarryOps
<1>1. CASE AccountStep(c)
  BY <1>1 DEF AccountStep, CheckLock, FindUser, ReadAttempts, RecordFailure, ClearFailures, SignSession,
              CountUsers, SeedAdmin, CheckEmail, CreateUser, ReadTarget, CountAdmins, UpdateUser, SetPassword, Logout,
              Asked, CarryOps
<1>2. CASE AccessStep(c)
  BY <1>2 DEF AccessStep, CheckOperator, InsertOperator, UpdateOperator, RotateSecret, CheckSignature,
              RecordSignature, CheckEnabled, IssueLaunchToken, PresentToken, ConsumeToken, Asked, CarryOps
<1> QED
  BY <1>1, <1>2

LEMMA RowsNext ==
  ASSUME CallsInv, RowsInv, [Next]_vars
  PROVE  RowsInv'
<1>1. ASSUME NEW c \in Call, CallStep(c), UNCHANGED publishingVars
      PROVE  RowsInv'
  <2>1. CASE WriteAudit(c, Actor(c)) \/ Crash(c)
    <3>1. \E label, value : Moves(c, label, value) /\ label \notin CarryLabels
      BY <2>1, EndMoves DEF CarryLabels
    <3> QED
      BY <1>1, <3>1, CarriesElsewhere
  <2> QED
    BY <1>1, <2>1, ArriveBegins, CarriesElsewhere DEF CallStep
<1>2. ASSUME NEW c \in Call, AuthHook(c, First), UNCHANGED publishingVars
      PROVE  RowsInv'
  <2>1. PICK label : Moves(c, label, NoValue) /\ label \in {"done", First[request[c].op]}
    BY <1>2, HookMoves
  <2>2. label \notin CarryLabels
    BY <1>2, <2>1, RequestsAreFit, FirstLabels DEF AuthHook, CallsInv, Fits, CarryLabels
  <2> QED
    BY <1>2, <2>1, <2>2, CarriesElsewhere
<1>3. ASSUME NEW c \in Call, AccountStep(c) \/ AccessStep(c), UNCHANGED publishingVars
      PROVE  RowsInv'
  BY <1>3, AccountStepsMove, AccessStepsElsewhere, OtherOps, CarriesElsewhere DEF Elsewhere
<1>4. ASSUME NEW c \in Call, PublishingStep(c)
      PROVE  RowsInv'
  BY <1>4, RowsEdited, RowsPublished DEF PublishingStep
<1>5. ASSUME CallsStay, UNCHANGED publishingVars
      PROVE  RowsInv'
  BY <1>5, RowsStay DEF CallsStay
<1>6. ASSUME (Tick /\ UNCHANGED publishingVars) \/ Reap \/ ReapRecords \/ UNCHANGED vars
      PROVE  CallsStay /\ UNCHANGED publishingVars
  BY <1>6 DEF Tick, Reap, ReapAttempts, ReapRecords, ReapSignature, ReapToken, vars, callVars, CallsStay
<1> QED
  BY <1>1, <1>2, <1>3, <1>4, <1>5, <1>6 DEF Next

-----------------------------------------------------------------------------
(* The theorems                                                            *)

LEMMA PublishingBegins == Init => PublishingInv
<1> SUFFICES ASSUME Init
             PROVE  PublishingInv
  OBVIOUS
<1> DEFINE S == SituationOf[situation]
<1>1. CallsInv
  BY CallsBegin
<1>2. Begins(S)
  BY SituationsBegin DEF Init, CallsInit
<1>3. /\ drafts = [g \in Game |-> S.draft] /\ live = [g \in Game |-> S.live]
      /\ versions = {Snapshot(g, S.live, FALSE, NoValue) : g \in {h \in Game : S.live # NoValue}}
      /\ bucket = {} /\ played = {}
      /\ \A c \in Call : pc[c] = "idle" /\ request[c] = NoValue
  BY DEF Init, CallsInit
<1>4. \A v \in versions : S.live # NoValue /\ v.game \in Game /\ v = Snapshot(v.game, S.live, FALSE, NoValue)
  BY <1>3 DEF Snapshot
<1>5. RowsInv
  <2>1. \A c \in Call : Carries(c)
    BY <1>3, CarriesNothing DEF CarryLabels
  <2>2. S.draft # NoValue => Held(S.draft)
    BY <1>2, NoAssetsStored DEF Begins, Held
  <2>3. S.live # NoValue =>
          /\ S.live \in LiveRow /\ Held(S.live.def)
          /\ S.live.def["math"] \notin Broken /\ S.live.def["math"] \notin Drifting
    BY <1>2, NoAssetsStored DEF Begins, Held, LiveRow
  <2>4. \A v \in versions : v.game \in Game /\ Passed(v, v.forced)
    BY <1>4, <2>3 DEF Snapshot, Passed, LiveRow
  <2>5. \A v, w \in versions : v.game = w.game /\ v.version = w.version => v = w
    BY <1>4
  <2> QED
    BY <1>3, <2>1, <2>2, <2>3, <2>4, <2>5 DEF RowsInv, Held
<1>6. ASSUME NEW g \in Game
      PROVE  SnapshotsInv(g) /\ NumbersInv(g) /\ RoundsInv(g)
  <2>1. \A c \in Call : /\ \A op, label : ~At(c, op, label, g)
                        /\ \A op : ~AskedFor(c, op, g)
    BY <1>3 DEF At, AskedFor
  <2>2. live[g] # NoValue => HasSnapshot(g, live[g])
    <3> SUFFICES ASSUME S.live # NoValue
                 PROVE  HasSnapshot(g, S.live)
      BY <1>3
    <3> DEFINE s == Snapshot(g, S.live, FALSE, NoValue)
    <3>1. s \in versions /\ s.game = g /\ s.version = S.live.version /\ s.def = S.live.def
      BY <1>3 DEF Snapshot
    <3> QED
      BY <3>1 DEF HasSnapshot
  <2>3. \A v \in versions : v.game = g => live[g] # NoValue /\ v.version = live[g].version
    BY <1>3, <1>4 DEF Snapshot
  <2>4. \A v \in versions : v.game = g => v.version <= live[g].version
    BY <1>5, <2>3 DEF RowsInv, LiveRow
  <2>5. SnapshotsInv(g)
    BY <2>1, <2>2, <2>3 DEF SnapshotsInv, Consistent
  <2>6. NumbersInv(g)
    BY <2>1, <2>3, <2>4 DEF NumbersInv, Numbered, Numbers
  <2> QED
    BY <1>3, <2>1, <2>5, <2>6 DEF RoundsInv
<1> QED
  BY <1>1, <1>5, <1>6 DEF PublishingInv

LEMMA PublishingGoesOn == PublishingInv /\ [Next]_vars => PublishingInv'
<1> SUFFICES ASSUME PublishingInv, [Next]_vars
             PROVE  PublishingInv'
  OBVIOUS
<1>1. CallsInv /\ RowsInv
  BY DEF PublishingInv
<1>2. CallsInv' /\ Later
  BY <1>1, CallsGoOn
<1>3. RowsInv'
  BY <1>1, RowsNext
<1>4. ASSUME NEW g \in Game
      PROVE  (SnapshotsInv(g) /\ NumbersInv(g) /\ RoundsInv(g))'
  BY <1>1, <1>2, SnapshotsNext, NumbersNext, RoundsNext DEF PublishingInv
<1> QED
  BY <1>2, <1>3, <1>4 DEF PublishingInv

LEMMA PublishingHolds == Spec => []PublishingInv
BY PublishingBegins, PublishingGoesOn, PTL DEF Spec

\* Whatever is edited, published, deleted and seeded at once, and wherever a
\* process dies, a snapshot is of a draft that passed the gate, or was forced
\* past the tolerance, and a live game is the snapshot of its version unless a
\* deletion or a seeding met another writer's half-done work.
THEOREM LiveGamesAreSnapshots == Spec => []LiveIsASnapshot
<1>1. PublishingInv => LiveIsASnapshot
  <2> SUFFICES ASSUME PublishingInv
               PROVE  LiveIsASnapshot
    OBVIOUS
  <2>1. \A v \in versions : v.def["math"] \notin Broken /\ (v.def["math"] \in Drifting => v.forced)
    BY DEF PublishingInv, RowsInv, Passed
  <2>2. ASSUME NEW g \in Game
        PROVE  \/ live[g] = NoValue \/ HasSnapshot(g, live[g])
               \/ Parted(g) \/ HalfSeeded(g) \/ Taken(g)
    BY DEF PublishingInv, SnapshotsInv, Consistent, Torn, HalfSeeded, At
  <2> QED
    BY <2>1, <2>2 DEF LiveIsASnapshot, HasSnapshot
<1> QED
  BY <1>1, PublishingHolds, PTL

\* Publications of one game never collide on a version unless two writers of
\* the game overlapped or one died between its writes.
THEOREM PublicationsCollideForAReason == Spec => []CollisionsAreExplained
<1>1. PublishingInv => CollisionsAreExplained
  BY DEF PublishingInv, NumbersInv, Numbers, CollisionsAreExplained
<1> QED
  BY <1>1, PublishingHolds, PTL

\* What a draft, a snapshot or a live game shows was stored before it was named
\* there, whatever a client sends back of what it was shown.
THEOREM AssetsAreStored == Spec => []StoredAssetsExist
<1>1. PublishingInv => StoredAssetsExist
  BY DEF PublishingInv, RowsInv, Held, Passed, StoredAssetsExist
<1> QED
  BY <1>1, PublishingHolds, PTL

\* A game with rounds is never deleted but by a deletion that counted them
\* before a spin under way had committed its own.
THEOREM PlayedGamesStay == Spec => []PlayedGamesAreKept
<1>1. PublishingInv => PlayedGamesAreKept
  BY DEF PublishingInv, RowsInv, RoundsInv, PlayedGamesAreKept
<1> QED
  BY <1>1, PublishingHolds, PTL
=============================================================================
