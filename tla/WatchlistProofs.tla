--------------------------- MODULE WatchlistProofs ---------------------------
(***************************************************************************)
(* For every set of instruments and any number of edits, offers and        *)
(* scripts: what a pruning removed stays out, and when the owner may lose  *)
(* a holding.                                                              *)
(***************************************************************************)
EXTENDS Watchlist, TLAPS

(* However early a write is cut off, the file has some of the entries.     *)
LEMMA BeginningsOf ==
  ASSUME NEW e, NEW f \in Beginnings(e)
  PROVE  \E S : f = Without(e, S)
BY DEF Beginnings

(* A function less some of its arguments.                                  *)
LEMMA WithoutFacts ==
  ASSUME NEW e, NEW S
  PROVE  /\ DOMAIN Without(e, S) = DOMAIN e \ S
         /\ \A t \in DOMAIN e \ S : Without(e, S)[t] = e[t]
BY DEF Without

LEMMA MergedDomain == DOMAIN Merged = DOMAIN build.read \cup DOMAIN offered
BY DEF Merged

------------------------------------------------------------------------------
(* What was pruned stays out: it is in none of the five places from which  *)
(* it could come back.                                                     *)

ReadsWithoutOut ==
  /\ build.at = "scraping" => DOMAIN build.read \cap out = {}
  /\ seed.at = "upserting" => DOMAIN seed.read \cap out = {}
  /\ backfill.at = "writing" => DOMAIN backfill.read \cap out = {}

Fields == {"at", "todo", "failed", "short", "read"}

OutInv == PrunedStaysOut /\ ReadsWithoutOut /\ DOMAIN backfill = Fields

LEMMA OutInit == Init => OutInv
BY DEF Init, OutInv, PrunedStaysOut, ReadsWithoutOut, Ready, Rested, Fields

LEMMA OutStep == OutInv /\ [Next]_vars => OutInv'
<1> SUFFICES ASSUME OutInv, [Next]_vars PROVE OutInv'
  OBVIOUS
<1> USE DEF OutInv, PrunedStaysOut, ReadsWithoutOut, outside
<1>1. CASE AddEntry
  BY <1>1 DEF AddEntry
<1>2. CASE OfferChanges
  BY <1>2 DEF OfferChanges
<1>3. CASE StartBuild
  BY <1>3 DEF StartBuild, Ready
<1>4. CASE WriteUniverse
  BY <1>4 DEF WriteUniverse, Ready
<1>5. CASE WriteUniverseCut
  <2>1. PICK S : file' = Without(Merged, S)
    BY <1>5, BeginningsOf DEF WriteUniverseCut
  <2>2. DOMAIN file' \subseteq DOMAIN Merged
    BY <2>1, WithoutFacts
  <2> QED
    BY <1>5, <2>2 DEF WriteUniverseCut, Ready
<1>6. CASE StartSeed
  BY <1>6 DEF StartSeed, Ready
<1>7. CASE SeedAssets
  <2>1. DOMAIN assets' = DOMAIN assets \cup DOMAIN seed.read
    BY <1>7 DEF SeedAssets
  <2> QED
    BY <1>7, <2>1 DEF SeedAssets, Ready
<1>8. CASE StartBackfill
  BY <1>8 DEF StartBackfill, Rested, Fields
<1>9. CASE LoadBatch
  <2>1. DOMAIN assets' = DOMAIN assets
    BY <1>9 DEF LoadBatch
  <2>2. UNCHANGED <<backfill.at, backfill.read, DOMAIN backfill>>
    BY <1>9 DEF LoadBatch, Fields
  <2> QED
    BY <1>9, <2>1, <2>2 DEF LoadBatch
<1>10. CASE Loaded
  <2>1. backfill'.at # "writing" /\ DOMAIN backfill' = Fields
    BY <1>10 DEF Loaded, Rested, Fields
  <2> QED
    BY <1>10, <2>1 DEF Loaded
<1>11. CASE PruneAssets
  <2>1. DOMAIN assets' \subseteq DOMAIN assets
    BY <1>11, WithoutFacts DEF PruneAssets
  <2>2. backfill'.at # "writing" /\ DOMAIN backfill' = Fields
    BY <1>11 DEF PruneAssets, Rested, Fields
  <2> QED
    BY <1>11, <2>1, <2>2 DEF PruneAssets
<1>12. CASE RewriteFile
  <2>1. DOMAIN file' = DOMAIN backfill.read \ backfill.short
    BY <1>12, WithoutFacts DEF RewriteFile, Kept
  <2>2. out' \subseteq out \cup (backfill.short \ DOMAIN assets)
    BY <1>12 DEF RewriteFile
  <2>3. PrunedStaysOut'
    BY <1>12, <2>1, <2>2 DEF RewriteFile
  <2>4. ReadsWithoutOut'
    BY <1>12 DEF RewriteFile, Rested
  <2> QED
    BY <1>12, <2>3, <2>4 DEF RewriteFile, Rested, Fields
<1>13. CASE RewriteFileCut
  <2>1. PICK S : file' = Without(Kept, S)
    BY <1>13, BeginningsOf DEF RewriteFileCut
  <2>2. DOMAIN file' = DOMAIN Kept \ S /\ DOMAIN Kept = DOMAIN backfill.read \ backfill.short
    BY <2>1, WithoutFacts DEF Kept
  <2> QED
    BY <1>13, <2>2 DEF RewriteFileCut, Rested, Fields
<1>14. CASE Killed
  BY <1>14 DEF Killed, Ready, Rested, Fields
<1>15. CASE ReadFile
  <2>0. \/ backfill' = Rested
        \/ backfill' = [at |-> "writing", todo |-> {}, failed |-> {}, short |-> backfill.short, read |-> file]
    BY <1>15 DEF ReadFile, Rested
  <2>1. backfill'.at = "writing" => backfill'.read = file
    BY <2>0 DEF Rested
  <2>2. DOMAIN backfill' = Fields
    BY <2>0 DEF Rested, Fields
  <2>3. UNCHANGED <<file, assets, build, seed, out>>
    BY <1>15 DEF ReadFile
  <2> QED
    BY <2>1, <2>2, <2>3
<1>16. CASE UNCHANGED vars
  BY <1>16 DEF vars
<1> QED
  BY <1>1, <1>2, <1>3, <1>4, <1>5, <1>6, <1>7, <1>8, <1>9, <1>10, <1>11,
     <1>12, <1>13, <1>14, <1>15, <1>16 DEF Next

(* What a pruning has removed stays removed, whatever seeds, builds and    *)
(* prunings overlap it or follow (backfill_historical_prices.py: "so the   *)
(* next seed does not re-add them").                                       *)
THEOREM PrunedStaysOutAlways == Spec => []PrunedStaysOut
<1>1. OutInv => PrunedStaysOut
  BY DEF OutInv
<1> QED
  BY <1>1, OutInit, OutStep, PTL DEF Spec

------------------------------------------------------------------------------
(* The owner's own: a holding that some entry or asset leaves to the       *)
(* pruning is one that a build has put there.                              *)

Tags == Universes \cup {Untagged}
Bars == {"none", "few", "enough"}

(* Entries of known instruments, the prunable holdings among them tagged.  *)
SafeEntries(f) ==
  /\ DOMAIN f \subseteq Tickers
  /\ \A t \in DOMAIN f : f[t] \in Tags
  /\ Prunable(f) \subseteq tagged

SafeAssets ==
  /\ DOMAIN assets \subseteq Tickers
  /\ \A t \in DOMAIN assets : assets[t] \in [universe : Universes, bars : Bars]
  /\ \A t \in DOMAIN assets \cap Holdings : assets[t].universe \in Pruned => t \in tagged

SafeBackfill ==
  /\ DOMAIN backfill = Fields
  /\ backfill.short \cap Holdings \subseteq tagged
  /\ SafeEntries(backfill.read)

SafeOffers ==
  /\ DOMAIN offered \subseteq Tickers
  /\ \A t \in DOMAIN offered : offered[t] \in Universes

HoldInv ==
  /\ SafeEntries(file) /\ SafeEntries(seed.read)
  /\ DOMAIN build.read \subseteq Tickers
  /\ SafeAssets /\ SafeBackfill /\ SafeOffers

LEMMA NoEntriesSafe == SafeEntries(NoEntries) /\ DOMAIN NoEntries = {}
BY DEF SafeEntries, NoEntries, Prunable

LEMMA RestedFacts ==
  /\ DOMAIN Rested = Fields
  /\ Rested.at = "idle" /\ Rested.short = {} /\ Rested.read = NoEntries
BY DEF Rested, Fields

(* Leaving entries out keeps the rest as they are.                         *)
LEMMA WithoutSafe ==
  ASSUME NEW e, SafeEntries(e), NEW S
  PROVE  SafeEntries(Without(e, S))
<1> DEFINE g == Without(e, S)
<1>1. DOMAIN g = DOMAIN e \ S /\ \A t \in DOMAIN g : g[t] = e[t]
  BY DEF Without
<1> HIDE DEF g
<1>2. SafeEntries(g)
  BY <1>1 DEF SafeEntries, Prunable
<1> QED
  BY <1>2 DEF g

(* What was safe stays safe: the tags are never taken back.                *)
LEMMA SafeEntriesStay ==
  ASSUME NEW f, SafeEntries(f), tagged \subseteq tagged'
  PROVE  /\ DOMAIN f \subseteq Tickers
         /\ \A t \in DOMAIN f : f[t] \in Tags
         /\ Prunable(f) \subseteq tagged'
BY DEF SafeEntries

LEMMA SafeAssetsStay ==
  ASSUME SafeAssets, tagged \subseteq tagged', assets' = assets
  PROVE  SafeAssets'
BY DEF SafeAssets

LEMMA SafeBackfillRested ==
  ASSUME backfill' = Rested
  PROVE  SafeBackfill'
<1>1. Prunable(NoEntries) = {} /\ DOMAIN NoEntries = {}
  BY DEF Prunable, NoEntries
<1>2. backfill'.read = NoEntries /\ backfill'.short = {}
      /\ DOMAIN backfill' = Fields
  BY RestedFacts
<1>3. SafeEntries(backfill.read)'
  BY <1>1, <1>2 DEF SafeEntries, Prunable
<1> QED
  BY <1>2, <1>3 DEF SafeBackfill

(* What is selected and what has failed do not matter.                     *)
LEMMA SafeBackfillStays ==
  ASSUME SafeBackfill, tagged \subseteq tagged',
         DOMAIN backfill' = DOMAIN backfill,
         backfill'.short = backfill.short, backfill'.read = backfill.read
  PROVE  SafeBackfill'
<1>1. SafeEntries(backfill.read)'
  BY SafeEntriesStay DEF SafeBackfill, SafeEntries, Prunable
<1> QED
  BY <1>1 DEF SafeBackfill

(* A build tags every instrument anew.                                     *)
LEMMA MergedTags ==
  ASSUME HoldInv
  PROVE  DOMAIN Merged \subseteq Tickers /\ \A t \in DOMAIN Merged : Merged[t] \in Tags
<1>1. DOMAIN Merged \subseteq Tickers
  BY MergedDomain DEF HoldInv, SafeOffers
<1>2. \A t \in DOMAIN Merged : Merged[t] = InferUniverse(t)
  BY DEF Merged
<1>3. \A t : InferUniverse(t) \in Tags
  BY DEF InferUniverse, Tags, Universes, HoldInv, SafeOffers
<1> QED
  BY <1>1, <1>2, <1>3

LEMMA HoldInit == Init => HoldInv
<1> SUFFICES ASSUME Init PROVE HoldInv
  OBVIOUS
<1>1. SafeEntries(file)
  BY WatchlistAssumption DEF Init, SafeEntries, Tags, Prunable, Universes, Untagged
<1>2. SafeAssets
  BY DEF Init, SafeAssets
<1>3. build.read = NoEntries /\ seed.read = NoEntries
  BY DEF Init, Ready
<1>4. SafeBackfill
  BY RestedFacts, NoEntriesSafe DEF Init, SafeBackfill
<1>5. SafeOffers
  BY DEF Init, SafeOffers
<1> QED
  BY <1>1, <1>2, <1>3, <1>4, <1>5, NoEntriesSafe DEF HoldInv

(* A step beside the entries: tags are only added.                         *)
LEMMA HoldAside ==
  ASSUME HoldInv, tagged \subseteq tagged',
         SafeEntries(file)', SafeAssets', SafeBackfill', SafeOffers',
         seed'.read \in {seed.read, NoEntries}, build'.read \in {build.read, NoEntries}
  PROVE  HoldInv'
<1>1. SafeEntries(seed.read)'
  <2>1. SafeEntries(seed'.read)
    BY NoEntriesSafe DEF HoldInv
  <2> QED
    BY <2>1 DEF SafeEntries, Prunable
<1>2. DOMAIN build'.read \subseteq Tickers
  BY NoEntriesSafe DEF HoldInv
<1> QED
  BY <1>1, <1>2 DEF HoldInv

LEMMA HoldStep == HoldInv /\ [Next]_vars => HoldInv'
<1> SUFFICES ASSUME HoldInv, [Next]_vars PROVE HoldInv'
  OBVIOUS
<1> USE DEF outside
<1>a. /\ SafeEntries(file) /\ SafeEntries(seed.read) /\ DOMAIN build.read \subseteq Tickers
      /\ SafeAssets /\ SafeBackfill /\ SafeOffers
  BY DEF HoldInv
<1>b. UNCHANGED <<file, tagged>> => SafeEntries(file)'
  BY <1>a DEF SafeEntries, Prunable
<1>c. UNCHANGED <<backfill, tagged>> => SafeBackfill'
  BY <1>a DEF SafeBackfill, SafeEntries, Prunable
<1>d. UNCHANGED offered => SafeOffers'
  BY <1>a DEF SafeOffers
<1>1. CASE AddEntry
  <2>1. PICK t \in Holdings \ DOMAIN file :
          file' = [u \in DOMAIN file \cup {t} |-> IF u = t THEN Untagged ELSE file[u]]
    BY <1>1 DEF AddEntry
  <2>2. SafeEntries(file)'
    BY <1>1, <1>a, <2>1, WatchlistAssumption
    DEF AddEntry, SafeEntries, Prunable, Tags, Universes, Untagged
  <2> QED
    BY <1>1, <1>a, <1>c, <1>d, <2>2, HoldAside, SafeAssetsStay DEF AddEntry
<1>2. CASE OfferChanges
  <2>1. PICK t \in Tickers :
          \/ offered' = Without(offered, {t})
          \/ \E u \in Listings(t) :
               offered' = [v \in DOMAIN offered \cup {t} |-> IF v = t THEN u ELSE offered[v]]
    BY <1>2 DEF OfferChanges
  <2>2. Listings(t) \subseteq Universes
    BY DEF Listings, Universes
  <2>3. SafeOffers'
    BY <1>a, <2>1, <2>2 DEF SafeOffers, Without
  <2> QED
    BY <1>2, <1>a, <1>b, <1>c, <2>3, HoldAside, SafeAssetsStay DEF OfferChanges
<1>3. CASE StartBuild
  <2>1. build'.read \in {NoEntries, file}
    BY <1>3 DEF StartBuild, Ready
  <2>2. DOMAIN build'.read \subseteq Tickers
    BY <1>a, <2>1, NoEntriesSafe DEF SafeEntries
  <2>3. SafeEntries(seed.read)'
    BY <1>3, <1>a DEF StartBuild, SafeEntries, Prunable
  <2> QED
    BY <1>3, <1>a, <1>b, <1>c, <1>d, <2>2, <2>3, SafeAssetsStay DEF StartBuild, HoldInv
<1>4. CASE WriteUniverse
  <2>1. build'.read = NoEntries
    BY <1>4 DEF WriteUniverse, Ready
  <2>2. file' = Merged /\ tagged' = tagged \cup Prunable(file')
    BY <1>4 DEF WriteUniverse
  <2>3. SafeEntries(file)'
    BY <2>2, MergedTags DEF SafeEntries, Prunable
  <2>4. SafeBackfill'
    BY <1>4, <1>a, <2>2, SafeBackfillStays DEF WriteUniverse
  <2> QED
    BY <1>4, <1>a, <1>d, <2>1, <2>2, <2>3, <2>4, HoldAside, SafeAssetsStay DEF WriteUniverse
<1>5. CASE WriteUniverseCut
  <2>1. build'.read = NoEntries
    BY <1>5 DEF WriteUniverseCut, Ready
  <2>2. PICK S : file' = Without(Merged, S)
    BY <1>5, BeginningsOf DEF WriteUniverseCut
  <2>3. tagged' = tagged \cup Prunable(file')
    BY <1>5 DEF WriteUniverseCut
  <2>4. DOMAIN file' \subseteq Tickers /\ \A t \in DOMAIN file' : file'[t] \in Tags
    <3>1. DOMAIN file' = DOMAIN Merged \ S /\ \A t \in DOMAIN Merged \ S : file'[t] = Merged[t]
      BY <2>2, WithoutFacts
    <3> QED
      BY <1>a, <3>1, MergedTags
  <2>5. SafeEntries(file)'
    BY <2>3, <2>4 DEF SafeEntries, Prunable
  <2>6. SafeBackfill'
    BY <1>5, <1>a, <2>3, SafeBackfillStays DEF WriteUniverseCut
  <2> QED
    BY <1>5, <1>a, <1>d, <2>1, <2>3, <2>5, <2>6, HoldAside, SafeAssetsStay DEF WriteUniverseCut
<1>6. CASE StartSeed
  <2>1. seed'.read \in {NoEntries, file}
    BY <1>6 DEF StartSeed, Ready
  <2>2. SafeEntries(seed'.read)
    BY <1>a, <2>1, NoEntriesSafe
  <2>3. SafeEntries(seed.read)'
    BY <1>6, <2>2 DEF StartSeed, SafeEntries, Prunable
  <2> QED
    BY <1>6, <1>a, <1>b, <1>c, <1>d, <2>3, SafeAssetsStay DEF StartSeed, HoldInv
<1>7. CASE SeedAssets
  <2>1. seed'.read = NoEntries
    BY <1>7 DEF SeedAssets, Ready
  <2>2. \A t \in DOMAIN seed.read : Default(seed.read[t]) \in Universes
    BY <1>a DEF SafeEntries, Default, Tags, Universes
  <2>3. \A t \in DOMAIN seed.read \cap Holdings : Default(seed.read[t]) \in Pruned => t \in tagged
    BY <1>a, WatchlistAssumption DEF SafeEntries, Prunable, Default
  <2>4. DOMAIN assets' = DOMAIN assets \cup DOMAIN seed.read
    BY <1>7 DEF SeedAssets
  <2>5. \A t \in DOMAIN assets' :
          IF t \in DOMAIN seed.read
            THEN assets'[t] = [universe |-> Default(seed.read[t]),
                               bars |-> IF t \in DOMAIN assets THEN assets[t].bars ELSE "none"]
            ELSE assets'[t] = assets[t]
    BY <1>7 DEF SeedAssets
  <2>6. DOMAIN assets' \subseteq Tickers
    BY <1>a, <2>4 DEF SafeAssets, SafeEntries
  <2>7. ASSUME NEW t \in DOMAIN assets'
        PROVE  /\ assets'[t] \in [universe : Universes, bars : Bars]
               /\ t \in Holdings /\ assets'[t].universe \in Pruned => t \in tagged
    <3>1. CASE t \in DOMAIN seed.read
      <4>1. "none" \in Bars /\ (t \in DOMAIN assets => assets[t].bars \in Bars)
        BY <1>a DEF SafeAssets, Bars
      <4>2. PICK b \in Bars : assets'[t] = [universe |-> Default(seed.read[t]), bars |-> b]
        BY <2>5, <3>1, <4>1
      <4> QED
        BY <2>2, <2>3, <3>1, <4>2
    <3>2. CASE t \notin DOMAIN seed.read
      BY <1>a, <2>4, <2>5, <3>2 DEF SafeAssets
    <3> QED
      BY <3>1, <3>2
  <2>8. SafeAssets'
    BY <1>7, <2>6, <2>7 DEF SafeAssets, SeedAssets
  <2> QED
    BY <1>7, <1>b, <1>c, <1>d, <2>1, <2>8, HoldAside DEF SeedAssets
<1>8. CASE StartBackfill
  <2>1. PICK todo : backfill' = [Rested EXCEPT !.at = "loading", !.todo = todo]
    BY <1>8 DEF StartBackfill
  <2>2. backfill' = [at |-> "loading", todo |-> todo, failed |-> {}, short |-> {}, read |-> NoEntries]
    BY <2>1 DEF Rested
  <2>3. SafeEntries(backfill.read)'
    BY <2>2, NoEntriesSafe DEF SafeEntries, Prunable
  <2>4. SafeBackfill'
    BY <2>2, <2>3 DEF SafeBackfill, Fields
  <2> QED
    BY <1>8, <1>a, <1>b, <1>d, <2>4, HoldAside, SafeAssetsStay DEF StartBackfill
<1>9. CASE LoadBatch
  <2>1. PICK batch, got :
          /\ assets' = [t \in DOMAIN assets |->
               IF t \in got THEN [assets[t] EXCEPT !.bars = IF t \in Young THEN "few" ELSE "enough"]
               ELSE assets[t]]
          /\ backfill' = [backfill EXCEPT !.todo = @ \ batch, !.failed = @ \cup (batch \ got)]
    BY <1>9 DEF LoadBatch
  <2>2. SafeAssets'
    BY <1>9, <1>a, <2>1 DEF LoadBatch, SafeAssets, Bars
  <2>3. SafeBackfill'
    BY <1>9, <1>a, <2>1, SafeBackfillStays DEF LoadBatch
  <2> QED
    BY <1>9, <1>b, <1>d, <2>2, <2>3, HoldAside DEF LoadBatch
<1>10. CASE Loaded
  <2>1. backfill' = Rested \/ backfill' = [backfill EXCEPT !.at = "pruning"]
    BY <1>10 DEF Loaded
  <2>2. SafeBackfill'
    BY <1>10, <1>a, <2>1, SafeBackfillRested, SafeBackfillStays DEF Loaded
  <2> QED
    BY <1>10, <1>a, <1>b, <1>d, <2>2, HoldAside, SafeAssetsStay DEF Loaded
<1>11. CASE PruneAssets
  <2>1. SafeAssets'
    <3>1. assets' = Without(assets, Short)
      BY <1>11 DEF PruneAssets
    <3>2. DOMAIN assets' \subseteq DOMAIN assets /\ \A t \in DOMAIN assets' : assets'[t] = assets[t]
      BY <3>1 DEF Without
    <3> QED
      BY <1>11, <1>a, <3>2 DEF PruneAssets, SafeAssets
  <2>2. SafeBackfill'
    <3>1. CASE backfill' = Rested
      BY <3>1, SafeBackfillRested
    <3>2. CASE backfill' = [Rested EXCEPT !.at = "rewriting", !.short = Short]
      <4>1. backfill' = [at |-> "rewriting", todo |-> {}, failed |-> {}, short |-> Short, read |-> NoEntries]
        BY <3>2 DEF Rested
      <4>2. Short \cap Holdings \subseteq tagged
        BY <1>a DEF Short, SafeAssets
      <4>3. SafeEntries(backfill.read)'
        BY <4>1, NoEntriesSafe DEF SafeEntries, Prunable
      <4>4. backfill'.short = Short /\ tagged' = tagged
        BY <1>11, <4>1 DEF PruneAssets
      <4>5. DOMAIN backfill' = Fields
        BY <4>1 DEF Fields
      <4> QED
        BY <4>2, <4>3, <4>4, <4>5 DEF SafeBackfill
    <3> QED
      BY <1>11, <3>1, <3>2 DEF PruneAssets
  <2> QED
    BY <1>11, <1>b, <1>d, <2>1, <2>2, HoldAside DEF PruneAssets
<1>12. CASE RewriteFile
  <2>1. SafeEntries(file') /\ tagged' = tagged
    BY <1>12, <1>a, WithoutSafe DEF RewriteFile, Kept, SafeBackfill
  <2>2. SafeEntries(file)'
    BY <2>1 DEF SafeEntries, Prunable
  <2> QED
    BY <1>12, <1>a, <1>d, <2>2, HoldAside, SafeAssetsStay, SafeBackfillRested DEF RewriteFile
<1>13. CASE RewriteFileCut
  <2>1. PICK S : file' = Without(Kept, S)
    BY <1>13, BeginningsOf DEF RewriteFileCut
  <2>2. SafeEntries(Kept)
    BY <1>a, WithoutSafe DEF Kept, SafeBackfill
  <2>3. SafeEntries(file') /\ tagged' = tagged
    BY <1>13, <2>1, <2>2, WithoutSafe DEF RewriteFileCut
  <2>4. SafeEntries(file)'
    BY <2>3 DEF SafeEntries, Prunable
  <2> QED
    BY <1>13, <1>a, <1>d, <2>4, HoldAside, SafeAssetsStay, SafeBackfillRested DEF RewriteFileCut
<1>14. CASE Killed
  <2>1. build'.read \in {NoEntries, build.read} /\ seed'.read \in {NoEntries, seed.read}
    BY <1>14 DEF Killed, Ready
  <2>2. SafeBackfill'
    BY <1>14, <1>c, SafeBackfillRested DEF Killed
  <2> QED
    BY <1>14, <1>a, <1>b, <1>d, <2>1, <2>2, HoldAside, SafeAssetsStay DEF Killed
<1>15. CASE ReadFile
  <2>1. backfill' = Rested \/ backfill' = [Rested EXCEPT !.at = "writing", !.short = backfill.short, !.read = file]
    BY <1>15 DEF ReadFile
  <2>2. SafeBackfill'
    <3>1. CASE backfill' = Rested
      BY <3>1, SafeBackfillRested
    <3>2. CASE backfill' = [Rested EXCEPT !.at = "writing", !.short = backfill.short, !.read = file]
      <4>1. DOMAIN backfill' = Fields /\ backfill'.short = backfill.short /\ backfill'.read = file
        BY <3>2 DEF Rested, Fields
      <4>2. SafeEntries(backfill.read)'
        BY <1>15, <1>a, <4>1 DEF ReadFile, SafeEntries, Prunable
      <4> QED
        BY <1>15, <1>a, <4>1, <4>2 DEF ReadFile, SafeBackfill
    <3> QED
      BY <2>1, <3>1, <3>2
  <2> QED
    BY <1>15, <1>a, <1>b, <1>d, <2>2, HoldAside, SafeAssetsStay DEF ReadFile
<1>16. CASE UNCHANGED vars
  BY <1>16, <1>a, <1>b, <1>c, <1>d, HoldAside, SafeAssetsStay DEF vars
<1> QED
  BY <1>1, <1>2, <1>3, <1>4, <1>5, <1>6, <1>7, <1>8, <1>9, <1>10, <1>11,
     <1>12, <1>13, <1>14, <1>15, <1>16 DEF Next

(* What HoldingsKept says of one step.                                     *)
KeptByStep ==
  /\ \A t \in Removed(assets) \cap Holdings : t \in tagged /\ assets[t].bars # "enough"
  /\ \A t \in DOMAIN assets \cap DOMAIN assets' \cap Holdings :
       assets[t].bars # "none" => assets'[t].bars # "none"
  /\ \A t \in Removed(file) \cap Holdings :
       \/ WriteUniverseCut \/ RewriteFileCut
       \/ WriteUniverse /\ t \notin DOMAIN build.read
       \/ RewriteFile /\ (t \notin DOMAIN backfill.read \/ t \in backfill.short \cap tagged)

(* Bars are only ever added to, and only the pruning removes an asset.     *)
LEMMA AssetsKept ==
  ASSUME HoldInv, [Next]_vars
  PROVE  /\ \A t \in Removed(assets) \cap Holdings : t \in tagged /\ assets[t].bars # "enough"
         /\ \A t \in DOMAIN assets \cap DOMAIN assets' \cap Holdings :
              assets[t].bars # "none" => assets'[t].bars # "none"
<1> USE DEF Removed
<1>1. CASE SeedAssets
  <2>1. \A t \in DOMAIN assets : t \in DOMAIN assets' /\ assets'[t].bars = assets[t].bars
    BY <1>1 DEF SeedAssets
  <2> QED
    BY <2>1
<1>2. CASE LoadBatch
  <2>1. PICK got :
          assets' = [t \in DOMAIN assets |->
               IF t \in got THEN [assets[t] EXCEPT !.bars = IF t \in Young THEN "few" ELSE "enough"]
               ELSE assets[t]]
    BY <1>2 DEF LoadBatch
  <2>2. DOMAIN assets' = DOMAIN assets
    BY <2>1
  <2>3. \A t \in DOMAIN assets : assets[t].bars # "none" => assets'[t].bars # "none"
    BY <2>1 DEF HoldInv, SafeAssets
  <2> QED
    BY <2>2, <2>3
<1>3. CASE PruneAssets
  <2>1. assets' = Without(assets, Short)
    BY <1>3 DEF PruneAssets
  <2>2. DOMAIN assets' = DOMAIN assets \ Short /\ \A t \in DOMAIN assets \ Short : assets'[t] = assets[t]
    BY <2>1 DEF Without
  <2>3. \A t \in Short \cap Holdings : t \in tagged /\ assets[t].bars # "enough"
    BY DEF Short, HoldInv, SafeAssets
  <2> QED
    BY <2>2, <2>3
<1>4. CASE UNCHANGED assets
  BY <1>4
<1> QED
  BY <1>1, <1>2, <1>3, <1>4
  DEF Next, AddEntry, OfferChanges, StartBuild, WriteUniverse, WriteUniverseCut, StartSeed,
      StartBackfill, Loaded, ReadFile, RewriteFile, RewriteFileCut, Killed, outside, vars

(* What the owner loses from the file, in any step.                        *)
LEMMA EntriesKept ==
  ASSUME HoldInv, [Next]_vars
  PROVE  \A t \in Removed(file) \cap Holdings :
           \/ WriteUniverseCut \/ RewriteFileCut
           \/ WriteUniverse /\ t \notin DOMAIN build.read
           \/ RewriteFile /\ (t \notin DOMAIN backfill.read \/ t \in backfill.short \cap tagged)
<1> SUFFICES ASSUME NEW t \in Removed(file) \cap Holdings, ~WriteUniverseCut, ~RewriteFileCut
             PROVE  \/ WriteUniverse /\ t \notin DOMAIN build.read
                    \/ RewriteFile /\ (t \notin DOMAIN backfill.read \/ t \in backfill.short \cap tagged)
  OBVIOUS
<1>1. CASE WriteUniverse
  BY <1>1, MergedDomain DEF WriteUniverse, Removed
<1>2. CASE AddEntry
  BY <1>2 DEF AddEntry, Removed
<1>3. CASE RewriteFile
  <2>1. DOMAIN file' = DOMAIN backfill.read \ backfill.short
    BY <1>3, WithoutFacts DEF RewriteFile, Kept
  <2> QED
    BY <1>3, <2>1 DEF Removed, HoldInv, SafeBackfill
<1>4. CASE UNCHANGED file
  BY <1>4 DEF Removed
<1> QED
  BY <1>1, <1>2, <1>3, <1>4
  DEF Next, OfferChanges, StartBuild, StartSeed, SeedAssets, StartBackfill, LoadBatch, Loaded,
      PruneAssets, ReadFile, Killed, outside, vars

(* A holding leaves the database only when a build has put it in a pruned  *)
(* universe and a pruning finds too few bars of it, and the file only then,*)
(* when a write is cut off, or by the lost update of a build or a pruning  *)
(* (build_universe.py: "Merge, not replace"; prune_short_history: "Only    *)
(* the given universes are ever touched").                                 *)
THEOREM HoldingsKeptAlways == Spec => HoldingsKept
<1>1. HoldInv /\ [Next]_vars => KeptByStep
  BY AssetsKept, EntriesKept DEF KeptByStep
<1>2. Spec => [][KeptByStep]_vars
  BY <1>1, HoldInit, HoldStep, PTL DEF Spec
<1> QED
  BY <1>2 DEF HoldingsKept, KeptByStep
==============================================================================
