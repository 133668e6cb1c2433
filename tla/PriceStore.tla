----------------------------- MODULE PriceStore -----------------------------
(***************************************************************************)
(* The stored bars (FactDailyPrice) and technicals (FactStockTechnicals)   *)
(* of one asset, and everybody who writes them: the scheduled update       *)
(* (pipeline.py, then compute_stock_technicals.py), live refreshes         *)
(* (live_refresh.py), the backfill, the seeding that rescales what is      *)
(* stored when watchlist.yaml says that the asset is quoted in agorot, and *)
(* the cleanup of zero-volume rows.                                        *)
(*                                                                         *)
(* A bar is the quote it was made from and how many times it was divided   *)
(* by 100; the technicals of a day are the bars they were computed from.   *)
(* An action is one transaction or one request to the provider, except     *)
(* where others may act between two statements: the rows a load inserts    *)
(* are seen by nobody until it commits, a recomputation selects long       *)
(* before it commits, and the seeding takes its steps one by one. A        *)
(* statement sees what was committed when it began (READ COMMITTED), and   *)
(* waits for the transaction that holds a row it writes. A cycle of waits  *)
(* is ended by the server, which is a kill here.                           *)
(***************************************************************************)
EXTENDS Integers

CONSTANTS
  Update, Backfill, Seed, Cleanup,  \* one process each: none overlaps itself
  Refreshes,     \* live refreshes, which overlap anything
  Last,          \* the trading days are 1..Last
  Recent,        \* the days an update or a live refresh asks the provider for
  Closed,        \* days the exchange is closed: quoted with volume zero
  MaxQuotes,     \* bound: how often the quote of the last day changes
  MaxEdits,      \* bound: how often the operator edits the divisor
  MaxStarts      \* bound: how many processes are started

Days == 1..Last
Fetchers == {Update, Backfill} \union Refreshes
Procs == Fetchers \union {Seed, Cleanup}

ASSUME StoreAssumption ==
  /\ Last \in Nat /\ Recent \subseteq Days /\ Closed \subseteq Days
  /\ MaxQuotes \in Nat /\ MaxEdits \in Nat /\ MaxStarts \in Nat
  /\ Seed \notin Fetchers /\ Cleanup \notin Fetchers /\ Seed # Cleanup
  /\ Update \notin Refreshes /\ Backfill \notin Refreshes /\ Update # Backfill

(* quote 0 is the row of a day without trading                             *)
Bar == [quote : Nat, divided : Nat]
IsTable(t) == DOMAIN t \subseteq Days /\ t \in [DOMAIN t -> Bar]
Divisors == {1, 100}

(* the rows of a table up to a day, and an upsert of rows into a table     *)
UpTo(t, d) == [e \in {x \in DOMAIN t : x <= d} |-> t[e]]
Upserted(t, rows) ==
  [d \in DOMAIN t \union DOMAIN rows |-> IF d \in DOMAIN rows THEN rows[d] ELSE t[d]]
NoRows == [d \in {} |-> [quote |-> 0, divided |-> 0]]

VARIABLES
  quote,     \* the provider: [Days -> Nat], 0 where there was no trading
  listed,    \* price_divisor in watchlist.yaml
  divisor,   \* PriceDivisor in DimAsset
  bar,       \* FactDailyPrice: day -> bar, for the days that have a row
  tech,      \* FactStockTechnicals: day -> the bars its row was computed from
  pc,        \* [Procs -> where the process is]
  scale,     \* the divisor a process has read
  batch,     \* the rows a process holds: fetched, or read to recompute
  rescaled,  \* the rows the open UPDATE of the seeding saw, then wrote
  begun,     \* no change of the bars was committed since the transaction of
             \* the process began, whose now() becomes the stamp
  fresh,     \* TechnicalsComputedAt is not before the last change of the bars
  edits, starts,
  alone,     \* history: nobody else ran since the process was started
  missed,    \* history: a load that the open UPDATE does not see has committed
             \* a new row
  crossed,   \* history: the divisor changed under a fetch on its way or under
             \* such a load
  reverted   \* history: a divisor of 100 was taken back

store == <<divisor, bar, tech, fresh>>
memory == <<pc, scale, batch, rescaled, begun>>
outside == <<quote, listed, edits>>
history == <<starts, alone, missed, crossed, reverted>>
vars == <<store, memory, outside, history>>

Running(p) == pc[p] \notin {"idle", "recomputed"}

(* Before the phantom rows were filtered at the source they were stored.   *)
Init ==
  /\ quote = [d \in Days |-> IF d \in Closed \union {Last} THEN 0 ELSE 1]
  /\ listed = 1 /\ divisor = 1
  /\ bar = [d \in Days \ {Last} |-> [quote |-> quote[d], divided |-> 0]]
  /\ tech = [d \in DOMAIN bar |-> UpTo(bar, d)]
  /\ pc = [p \in Procs |-> "idle"]
  /\ scale = [p \in Procs |-> 1]
  /\ batch = [p \in Procs |-> NoRows]
  /\ rescaled = NoRows
  /\ begun = [p \in Procs |-> FALSE]
  /\ fresh = TRUE
  /\ edits = 0 /\ starts = 0
  /\ alone = [p \in Procs |-> FALSE]
  /\ missed = FALSE /\ crossed = FALSE /\ reverted = FALSE

OnItsWay == {"fetch", "load", "loading"}       \* a fetch, and what it stores
Rescaling == {"update", "updated", "publish"}  \* the transaction of a rescale

(* the process goes on at a pc, holding rows; it forgets the divisor when  *)
(* it needs it no longer                                                   *)
Goes(p, to, rows) ==
  /\ pc' = [pc EXCEPT ![p] = to]
  /\ batch' = [batch EXCEPT ![p] = rows]
  /\ scale' = [scale EXCEPT ![p] = IF to \in OnItsWay \union Rescaling THEN @ ELSE 1]

(* the days whose rows a process has written and not committed             *)
Held(p) ==
  CASE pc[p] = "loading" -> DOMAIN batch[p]
    [] pc[p] \in {"updated", "publish"} -> DOMAIN rescaled
    [] OTHER -> {}

Unlocked(p, days) == \A q \in Procs \ {p} : Held(q) \intersect days = {}

(* The bars become these rows while the transactions of others are open.   *)
BarsBecome(rows) ==
  /\ bar' = rows
  /\ begun' = [p \in Procs |-> begun[p] /\ rows = bar]
  /\ fresh' = (fresh /\ rows = bar)

------------------------------------------------------------------------------
(* The provider and the operator.                                          *)

Trade ==
  /\ Last \notin Closed
  /\ quote[Last] < MaxQuotes
  /\ quote' = [quote EXCEPT ![Last] = @ + 1]
  /\ UNCHANGED <<store, memory, listed, edits, history>>

EditWatchlist ==
  /\ edits < MaxEdits
  /\ edits' = edits + 1
  /\ \E d \in Divisors \ {listed} : listed' = d
  /\ UNCHANGED <<store, memory, quote, history>>

------------------------------------------------------------------------------
(* Fetching. A process reads the divisors when it starts.                  *)

(* where a process begins, and what it reads before: the divisors of the   *)
(* database, or for the seeding those of the watchlist                     *)
FirstPc(p) ==
  CASE p = Seed -> "seed" [] p = Cleanup -> "clean" [] OTHER -> "fetch"

Start(p) ==
  /\ ~Running(p)
  /\ starts < MaxStarts
  /\ starts' = starts + 1
  /\ pc' = [pc EXCEPT ![p] = FirstPc(p)]
  /\ scale' = [scale EXCEPT ![p] = IF p = Seed THEN listed ELSE divisor]
  /\ alone' = [q \in Procs |-> q = p /\ \A r \in Procs \ {p} : ~Running(r)]
  /\ UNCHANGED <<store, batch, rescaled, begun, outside, missed, crossed, reverted>>

Window(p) == IF p = Backfill THEN Days ELSE Recent

(* how often a price stored under a divisor is divided                     *)
Divisions(d) == IF d = 100 THEN 1 ELSE 0

(* rows without volume are skipped                                         *)
RecordsFromHistory(p, days) ==
  [d \in {x \in days : quote[x] > 0} |->
     [quote |-> quote[d], divided |-> Divisions(scale[p])]]

(* The update validates what it fetched and may drop any rows.             *)
Fetch(p) ==
  /\ p \in Fetchers
  /\ pc[p] = "fetch"
  /\ \E days \in SUBSET Window(p) :
       /\ p # Update => days = Window(p)
       /\ Goes(p, "load", RecordsFromHistory(p, days))
  /\ UNCHANGED <<store, rescaled, begun, outside, history>>

(* A live refresh gives up; the update loads nothing and recomputes all    *)
(* the same; the backfill goes on to its next tickers.                     *)
FetchFails(p) ==
  /\ p \in Fetchers
  /\ pc[p] = "fetch"
  /\ Goes(p, IF p = Update THEN "begin" ELSE "idle", NoRows)
  /\ UNCHANGED <<store, rescaled, begun, outside, history>>

(* The rows are inserted, and visible when the load commits.               *)
UpsertDailyPrices(p) ==
  /\ pc[p] = "load"
  /\ Unlocked(p, DOMAIN batch[p])
  /\ Goes(p, "loading", batch[p])
  /\ UNCHANGED <<store, rescaled, begun, outside, history>>

CommitLoad(p) ==
  /\ pc[p] = "loading"
  /\ BarsBecome(Upserted(bar, batch[p]))
  /\ Goes(p, IF p = Backfill THEN "idle" ELSE "begin", NoRows)
  /\ missed' = (missed \/ (pc[Seed] \in Rescaling /\ ~(DOMAIN batch[p] \subseteq DOMAIN rescaled)))
  /\ UNCHANGED <<divisor, tech, rescaled, outside, starts, alone, crossed, reverted>>

------------------------------------------------------------------------------
(* compute_and_upsert_technicals_for_asset: the SELECT of all bars, and    *)
(* the upsert of a row for each of them when the transaction commits. The  *)
(* transaction began earlier, with the assets before this one.             *)

BeginRecompute(p) ==
  /\ pc[p] = "begin"
  /\ begun' = [begun EXCEPT ![p] = TRUE]
  /\ Goes(p, "read", NoRows)
  /\ UNCHANGED <<store, rescaled, outside, history>>

SelectBars(p) ==
  /\ pc[p] = "read"
  /\ Goes(p, IF DOMAIN bar = {} THEN "recomputed" ELSE "write", bar)
  /\ UNCHANGED <<store, rescaled, begun, outside, history>>

(* mutant: the stamp is the time of the commit                             *)
StampsNow(p) == TRUE

(* mark_stocks stamps with now(), the beginning of the transaction         *)
Stamps(p) == begun[p]

TechnicalsOf(t) == [d \in DOMAIN t |-> UpTo(t, d)]

(* mutant: only the rows of the days just fetched are rewritten            *)
UpsertTechnicalsOfRecent(p) ==
  /\ pc[p] = "write" /\ pc[Seed] # "publish"
  /\ tech' = Upserted(tech, [d \in DOMAIN batch[p] \intersect Recent |-> UpTo(batch[p], d)])
  /\ fresh' = Stamps(p)
  /\ Goes(p, "recomputed", NoRows)
  /\ UNCHANGED <<divisor, bar, rescaled, begun, outside, history>>

(* It waits for a seeding that has deleted the rows.                       *)
UpsertTechnicals(p) ==
  /\ pc[p] = "write" /\ pc[Seed] # "publish"
  /\ tech' = Upserted(tech, TechnicalsOf(batch[p]))
  /\ fresh' = Stamps(p)
  /\ Goes(p, "recomputed", NoRows)
  /\ UNCHANGED <<divisor, bar, rescaled, begun, outside, history>>

------------------------------------------------------------------------------
(* Seeding: one transaction. Nobody else writes PriceDivisor, so it is     *)
(* enough to change it at the COMMIT.                                      *)

(* mutant: every seeding of an asset quoted in agorot rescales             *)
RescalesAlways(p) == scale[p] = 100

Rescales(p) == scale[p] = 100 /\ divisor = 1

Divided(t) == [d \in DOMAIN t |-> [t[d] EXCEPT !.divided = @ + 1]]

SeedAssets ==
  /\ pc[Seed] = "seed" /\ ~Rescales(Seed)
  /\ divisor' = scale[Seed]
  /\ Goes(Seed, "idle", NoRows)
  /\ crossed' = (crossed \/ (divisor' # divisor /\ \E p \in Fetchers : pc[p] \in OnItsWay))
  /\ reverted' = (reverted \/ (divisor = 100 /\ divisor' = 1))
  /\ UNCHANGED <<bar, tech, fresh, rescaled, begun, outside, starts, alone, missed>>

(* rescale_stored_prices: its UPDATE looks for the rows that are committed *)
(* when it begins, waits for the loads that hold one of them, and divides  *)
(* each row as it is then.                                                 *)
RescaleStoredPrices ==
  /\ pc[Seed] = "seed" /\ Rescales(Seed)
  /\ rescaled' = bar
  /\ missed' = FALSE
  /\ Goes(Seed, "update", NoRows)
  /\ UNCHANGED <<store, begun, outside, starts, alone, crossed, reverted>>

DivideStoredPrices ==
  /\ pc[Seed] = "update"
  /\ Unlocked(Seed, DOMAIN rescaled)
  /\ rescaled' = Divided([d \in DOMAIN rescaled \intersect DOMAIN bar |-> bar[d]])
  /\ Goes(Seed, "updated", NoRows)
  /\ UNCHANGED <<store, begun, outside, history>>

(* The technicals are deleted, and computed from its own rows and what     *)
(* else is committed by now.                                               *)
RecomputeRescaled ==
  /\ pc[Seed] = "updated"
  /\ Goes(Seed, "publish", Upserted(bar, rescaled))
  /\ UNCHANGED <<store, rescaled, begun, outside, history>>

(* COMMIT. The stamp of the technicals is the beginning of the transaction,*)
(* before the change it commits.                                           *)
CommitRescale ==
  /\ pc[Seed] = "publish"
  /\ divisor' = scale[Seed]
  /\ bar' = Upserted(bar, rescaled)
  /\ tech' = TechnicalsOf(batch[Seed])
  /\ fresh' = (fresh /\ DOMAIN batch[Seed] = {})
  /\ begun' = [p \in Procs |-> begun[p] /\ bar' = bar]
  /\ Goes(Seed, "recomputed", NoRows)
  /\ rescaled' = NoRows
  /\ crossed' = (crossed \/ missed \/ \E p \in Fetchers : pc[p] \in OnItsWay)
  /\ UNCHANGED <<outside, starts, alone, missed, reverted>>

(* Cleanup: the rows are deleted in one transaction, the technicals of the *)
(* affected assets recomputed in another.                                  *)
ZeroVolume == {d \in DOMAIN bar : bar[d].quote = 0}

DeletePhantoms ==
  /\ pc[Cleanup] = "clean"
  /\ Unlocked(Cleanup, ZeroVolume)
  /\ BarsBecome([d \in DOMAIN bar \ ZeroVolume |-> bar[d]])
  /\ Goes(Cleanup, IF ZeroVolume = {} THEN "idle" ELSE "begin", NoRows)
  /\ UNCHANGED <<divisor, tech, rescaled, outside, history>>

(* A process is killed: what it has not committed is lost.                 *)
Killed(p) ==
  /\ Running(p)
  /\ Goes(p, "idle", NoRows)
  /\ rescaled' = IF p = Seed THEN NoRows ELSE rescaled
  /\ UNCHANGED <<store, begun, outside, history>>

Next ==
  \/ Trade \/ EditWatchlist \/ DeletePhantoms
  \/ SeedAssets \/ RescaleStoredPrices \/ DivideStoredPrices
  \/ RecomputeRescaled \/ CommitRescale
  \/ \E p \in Procs :
       \/ Start(p) \/ Fetch(p) \/ FetchFails(p)
       \/ UpsertDailyPrices(p) \/ CommitLoad(p)
       \/ BeginRecompute(p) \/ SelectBars(p) \/ UpsertTechnicals(p) \/ Killed(p)

Spec == Init /\ [][Next]_vars

------------------------------------------------------------------------------
(* Types. A row divided a negative number of times was multiplied.         *)
TypeOK ==
  /\ quote \in [Days -> {0, 1} \union 0..MaxQuotes]
  /\ listed \in Divisors /\ divisor \in Divisors
  /\ IsTable(bar)
  /\ DOMAIN tech \subseteq Days /\ \A d \in DOMAIN tech : IsTable(tech[d])
  /\ pc \in [Procs -> OnItsWay \union Rescaling \union
                 {"idle", "begin", "read", "write", "seed", "clean", "recomputed"}]
  /\ scale \in [Procs -> Divisors]
  /\ DOMAIN batch = Procs /\ \A p \in Procs : IsTable(batch[p])
  /\ IsTable(rescaled)
  /\ begun \in [Procs -> BOOLEAN] /\ fresh \in BOOLEAN
  /\ edits \in 0..MaxEdits /\ starts \in 0..MaxStarts
  /\ alone \in [Procs -> BOOLEAN]
  /\ missed \in BOOLEAN /\ crossed \in BOOLEAN /\ reverted \in BOOLEAN

(* Whatever earlier processes left behind, killed between two of their     *)
(* transactions or overtaken by each other: one update or refresh that     *)
(* runs alone to its end leaves, for every stored bar, the technicals of   *)
(* exactly the bars stored up to its day. So does a rescale, and the       *)
(* cleanup (compute_and_upsert_technicals_for_asset recomputes the full    *)
(* history).                                                               *)
AloneRecomputesAll ==
  \A p \in Procs : pc[p] = "recomputed" /\ alone[p] =>
    \A d \in DOMAIN bar : d \in DOMAIN tech /\ tech[d] = UpTo(bar, d)

(* TechnicalsComputedAt is never ahead of the technicals: when it is not   *)
(* before the last change of the bars, every bar has its present           *)
(* technicals, however the recomputations of updates, refreshes and the    *)
(* cleanup overlapped ("updated at" in freshness.py; now() is the          *)
(* beginning of the transaction, compute_and_upsert_technicals_for_asset). *)
TechnicalsStampNotAhead ==
  fresh => \A d \in DOMAIN bar : d \in DOMAIN tech /\ tech[d] = UpTo(bar, d)

(* As long as no divisor is taken back, and a rescale neither overlaps a   *)
(* load of a day that is not stored yet nor commits while a fetch is on    *)
(* its way, all stored bars are in the unit PriceDivisor says, however     *)
(* often the seeding is repeated or killed, whatever was stored before the *)
(* asset was recognised as quoted in agorot, and whichever stored days     *)
(* loads write again meanwhile (seed_assets, rescale_stored_prices,        *)
(* _records_from_history).                                                 *)
UnitsAgree ==
  ~crossed /\ ~reverted =>
    \A d \in DOMAIN bar : bar[d].divided = Divisions(divisor)
==============================================================================
