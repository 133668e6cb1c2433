------------------------------ MODULE Watchlist ------------------------------
(***************************************************************************)
(* Which instruments there are: config/watchlist.yaml and DimAsset, and    *)
(* the three scripts that write them.  build_universe.py reads the file,   *)
(* asks Wikipedia and Yahoo for minutes and writes the file anew;          *)
(* seed_dimensions.py upserts the file into DimAsset;                      *)
(* backfill_historical_prices.py loads the history of the assets and, with *)
(* --prune-short-history, removes those with too little of it from the     *)
(* database and then from the file.  The owner edits the file by hand.     *)
(* Each script runs once at a time; any two overlap, any may be killed.    *)
(***************************************************************************)
EXTENDS Naturals, Sequences, SequencesExt

CONSTANTS
  Sorted,         \* all tickers, in the order in which the file lists them
  Holdings,       \* the owner's own, wherever they are listed
  TelAviv,        \* those whose name ends in .TA
  Young,          \* listed for fewer than --prune-short-history trading days
  Pruned,         \* the universes --universe names, and the pruning touches
  MaxEdits,       \* bound: entries the owner adds
  MaxOffers,      \* bound: changes of the indices and of Tel Aviv's turnover
  MaxStarts       \* bound: scripts started

Tickers == ToSet(Sorted)
(* sp400 stands for sp600 too, personal for etf, index and crypto          *)
Universes == {"sp500", "sp400", "tase", "personal"}
Untagged == "untagged"                      \* an entry without "universe"

(* what the indices of the S&P, or Tel Aviv, may list a ticker as          *)
Listings(t) == IF t \in TelAviv THEN {"tase"} ELSE {"sp500", "sp400"}

ASSUME WatchlistAssumption ==
  /\ Holdings \subseteq Tickers /\ TelAviv \subseteq Tickers
  /\ Young \subseteq Tickers
  /\ Pruned \subseteq Universes \ {"sp500", "personal"}
  /\ MaxEdits \in Nat /\ MaxOffers \in Nat /\ MaxStarts \in Nat

VARIABLES
  file,           \* the entries of watchlist.yaml: ticker -> universe
  assets,         \* DimAsset: ticker -> [universe, bars]
  offered,        \* the S&P members and the liquid shares of Tel Aviv:
                  \* ticker -> universe
  build,          \* build_universe.py: [at, read]
  seed,           \* seed_dimensions.py: [at, read]
  backfill,       \* backfill_historical_prices.py: [at, todo, failed, short, read]
  edits, offers, starts,
  tagged,         \* history: holdings that a build has put in a pruned universe
  out             \* history: pruned from both by an undisturbed pruning, and
                  \* not offered to a build or added by the owner since

vars == <<file, assets, offered, build, seed, backfill, edits, offers, starts, tagged, out>>
outside == <<offered, edits, offers>>

NoEntries == [t \in {} |-> Untagged]
Ready == [at |-> "idle", read |-> NoEntries]
Rested == [at |-> "idle", todo |-> {}, failed |-> {}, short |-> {}, read |-> NoEntries]

Init ==
  /\ \E listed \in SUBSET Holdings \ {{}} : file = [t \in listed |-> Untagged]
  /\ assets = [t \in {} |-> [universe |-> "sp500", bars |-> "none"]]
  /\ \E listed \in SUBSET Tickers :
       /\ offered \in [listed -> Universes]
       /\ \A t \in listed : offered[t] \in Listings(t)
  /\ build = Ready /\ seed = Ready /\ backfill = Rested
  /\ edits = 0 /\ offers = 0 /\ starts = 0
  /\ tagged = {} /\ out = {}

Without(f, S) == [t \in DOMAIN f \ S |-> f[t]]

(* What is left of entries when the write is cut off; the scripts write    *)
(* over the old file.                                                      *)
Beginnings(entries) ==
  {Without(entries, ToSet(SubSeq(Sorted, n, Len(Sorted)))) : n \in 1..Len(Sorted)}

Starts == starts < MaxStarts /\ starts' = starts + 1

------------------------------------------------------------------------------
(* The owner, Wikipedia and Yahoo.                                         *)

AddEntry ==
  /\ edits < MaxEdits
  /\ edits' = edits + 1
  /\ \E t \in Holdings \ DOMAIN file :
       /\ file' = [u \in DOMAIN file \cup {t} |-> IF u = t THEN Untagged ELSE file[u]]
       /\ out' = out \ {t}
  /\ UNCHANGED <<assets, offered, build, seed, backfill, offers, starts, tagged>>

OfferChanges ==
  /\ offers < MaxOffers
  /\ offers' = offers + 1
  /\ \E t \in Tickers :
       \/ t \in DOMAIN offered /\ offered' = Without(offered, {t})
       \/ \E u \in Listings(t) :
            offered' = [v \in DOMAIN offered \cup {t} |-> IF v = t THEN u ELSE offered[v]]
  /\ UNCHANGED <<file, assets, build, seed, backfill, edits, starts, tagged, out>>

------------------------------------------------------------------------------
(* build_universe.py                                                       *)

(* A file without entries lists none, or was cut off before the first:     *)
(* then yaml.safe_load(...)["assets"] fails.                               *)
CutOff == file = NoEntries

StartBuild ==
  /\ build.at = "idle" /\ Starts
  /\ \/ build' = [at |-> "scraping", read |-> file]
     \/ CutOff /\ build' = Ready
  /\ UNCHANGED <<file, assets, seed, backfill, tagged, out, outside>>

(* infer_universe: an index wins, then Tel Aviv, whoever holds the share.  *)
InferUniverse(t) ==
  CASE t \in DOMAIN offered \ TelAviv -> offered[t]
    [] t \in TelAviv -> "tase"
    [] OTHER -> "personal"

MergedAnew ==                               \* mutant: replaced, not merged
  [t \in DOMAIN offered |-> InferUniverse(t)]

(* The entries read, the index members and the selected shares of Tel      *)
(* Aviv, every one with its universe of today.                             *)
Merged == [t \in DOMAIN build.read \cup DOMAIN offered |-> InferUniverse(t)]

(* the holdings that entries leave to the pruning                          *)
Prunable(entries) == {t \in DOMAIN entries \cap Holdings : entries[t] \in Pruned}

WriteUniverse ==
  /\ build.at = "scraping"
  /\ file' = Merged
  /\ tagged' = tagged \cup Prunable(file')
  /\ out' = out \ DOMAIN Merged
  /\ build' = Ready
  /\ UNCHANGED <<assets, seed, backfill, starts, outside>>

WriteUniverseCut ==
  /\ build.at = "scraping"
  /\ file' \in Beginnings(Merged)
  /\ tagged' = tagged \cup Prunable(file')
  /\ out' = out \ DOMAIN Merged
  /\ build' = Ready
  /\ UNCHANGED <<assets, seed, backfill, starts, outside>>

------------------------------------------------------------------------------
(* seed_dimensions.py                                                      *)

StartSeed ==
  /\ seed.at = "idle" /\ Starts
  /\ \/ seed' = [at |-> "upserting", read |-> file]
     \/ CutOff /\ seed' = Ready
  /\ UNCHANGED <<file, assets, build, backfill, tagged, out, outside>>

(* a.get("universe", "sp500")                                              *)
Default(u) == IF u = Untagged THEN "sp500" ELSE u

SeedAssets ==
  /\ seed.at = "upserting"
  /\ assets' = [t \in DOMAIN assets \cup DOMAIN seed.read |->
                  IF t \notin DOMAIN seed.read THEN assets[t]
                  ELSE [universe |-> Default(seed.read[t]),
                        bars |-> IF t \in DOMAIN assets THEN assets[t].bars ELSE "none"]]
  /\ seed' = Ready
  /\ UNCHANGED <<file, build, backfill, starts, tagged, out, outside>>

------------------------------------------------------------------------------
(* backfill_historical_prices.py                                           *)

(* select_tickers; with --only-missing those with too few bars, with       *)
(* --universe those of the universes it names.                             *)
StartBackfill ==
  /\ backfill.at = "idle" /\ Starts
  /\ \E onlyMissing, named \in BOOLEAN :
       backfill' = [Rested EXCEPT
         !.at = "loading",
         !.todo = {t \in DOMAIN assets : /\ onlyMissing => assets[t].bars # "enough"
                                         /\ named => assets[t].universe \in Pruned}]
  /\ UNCHANGED <<file, assets, build, seed, tagged, out, outside>>

(* A batch is fetched, some of it in vain, upserted and committed.         *)
LoadBatch ==
  /\ backfill.at = "loading"
  /\ \E batch \in SUBSET backfill.todo : \E got \in SUBSET batch :
       /\ batch # {}
       /\ assets' = [t \in DOMAIN assets |->
            IF t \in got THEN [assets[t] EXCEPT !.bars = IF t \in Young THEN "few" ELSE "enough"]
            ELSE assets[t]]
       /\ backfill' = [backfill EXCEPT !.todo = @ \ batch, !.failed = @ \cup (batch \ got)]
  /\ UNCHANGED <<file, build, seed, starts, tagged, out, outside>>

(* Every batch is done; the pruning is an option.                          *)
Loaded ==
  /\ backfill.at = "loading" /\ backfill.todo = {}
  /\ \E prune \in BOOLEAN : backfill' = IF prune THEN [backfill EXCEPT !.at = "pruning"] ELSE Rested
  /\ UNCHANGED <<file, assets, build, seed, starts, tagged, out, outside>>

Short == {t \in DOMAIN assets : assets[t].universe \in Pruned /\ assets[t].bars # "enough"}

(* prune_short_history: one transaction for the database, then the file.   *)
PruneAssets ==
  /\ backfill.at = "pruning"
  /\ assets' = Without(assets, Short)
  /\ backfill' = IF Short = {} THEN Rested ELSE [Rested EXCEPT !.at = "rewriting", !.short = Short]
  /\ UNCHANGED <<file, build, seed, starts, tagged, out, outside>>

ReadFile ==
  /\ backfill.at = "rewriting"
  /\ \/ backfill' = [Rested EXCEPT !.at = "writing", !.short = backfill.short, !.read = file]
     \/ CutOff /\ backfill' = Rested
  /\ UNCHANGED <<file, assets, build, seed, starts, tagged, out, outside>>

KeptUnread == backfill.read                 \* mutant: the file is not filtered

Kept == Without(backfill.read, backfill.short)

RewriteFile ==
  /\ backfill.at = "writing"
  /\ file' = Kept
  /\ out' = IF build.at = "idle" /\ seed.at = "idle" THEN out \cup (backfill.short \ DOMAIN assets) ELSE out
  /\ backfill' = Rested
  /\ UNCHANGED <<assets, build, seed, starts, tagged, outside>>

RewriteFileCut ==
  /\ backfill.at = "writing"
  /\ file' \in Beginnings(Kept)
  /\ backfill' = Rested
  /\ UNCHANGED <<assets, build, seed, starts, tagged, out, outside>>

------------------------------------------------------------------------------
(* A script is killed, or fails, between two of its steps.                 *)
Killed ==
  /\ \/ build.at # "idle" /\ build' = Ready /\ UNCHANGED <<seed, backfill>>
     \/ seed.at # "idle" /\ seed' = Ready /\ UNCHANGED <<build, backfill>>
     \/ backfill.at # "idle" /\ backfill' = Rested /\ UNCHANGED <<build, seed>>
  /\ UNCHANGED <<file, assets, starts, tagged, out, outside>>

Next ==
  \/ AddEntry \/ OfferChanges
  \/ StartBuild \/ WriteUniverse \/ WriteUniverseCut
  \/ StartSeed \/ SeedAssets
  \/ StartBackfill \/ LoadBatch \/ Loaded \/ PruneAssets
  \/ ReadFile \/ RewriteFile \/ RewriteFileCut
  \/ Killed

Spec == Init /\ [][Next]_vars

------------------------------------------------------------------------------
Removed(f) == DOMAIN f \ DOMAIN f'

(* When the owner loses a holding. From the database, with its bars, only  *)
(* to a pruning that finds too few of them, and only if a build had put it *)
(* in a universe the pruning touches: Tel Aviv, or an index that lists it. *)
(* From the file, only then; or when a write is cut off; or when it was    *)
(* added after the build, or the pruning, that writes the file had read it *)
(* (build_universe.py: "Merge, not replace"; prune_short_history: "Only    *)
(* the given universes are ever touched"; infer_universe).                 *)
HoldingsKept ==
  [][/\ \A t \in Removed(assets) \cap Holdings : t \in tagged /\ assets[t].bars # "enough"
     /\ \A t \in DOMAIN assets \cap DOMAIN assets' \cap Holdings :
          assets[t].bars # "none" => assets'[t].bars # "none"
     /\ \A t \in Removed(file) \cap Holdings :
          \/ WriteUniverseCut \/ RewriteFileCut
          \/ WriteUniverse /\ t \notin DOMAIN build.read
          \/ RewriteFile /\ (t \notin DOMAIN backfill.read \/ t \in backfill.short \cap tagged)]_vars

(* What a pruning has removed stays removed ("so the next seed does not    *)
(* re-add them"), in the file and in the database, however many seeds and  *)
(* prunings follow, unless a seed or a build had read the old file before  *)
(* the pruning rewrote it, or a later build finds it offered again.        *)
PrunedStaysOut == out \cap (DOMAIN file \cup DOMAIN assets) = {}

(* Expected by the backfill itself, which ends with "failed tickers        *)
(* written to ... (re-run with --only-missing to retry them)", and by      *)
(* prune_short_history, which removes what "turned out to have fewer than  *)
(* `min_bars` trading days (recent listings)": an instrument is not pruned *)
(* by the run that failed to fetch it.                                     *)
FailedNotPruned == [][Removed(assets) \cap backfill.failed = {}]_vars
==============================================================================
