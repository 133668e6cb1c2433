------------------------------ MODULE EodUpdate ------------------------------
(***************************************************************************)
(* The end-of-day update: scripts/run_daily_update.py and the six steps it *)
(* runs as subprocesses, with the stages of src/marketpulse/pipeline.py    *)
(* (step 2) and the PipelineExecutionLog rows log_stage writes around      *)
(* them, and beside it live_refresh.py, the web application's refresh of   *)
(* one ticker, which rewrites bars and technicals whenever a user asks.    *)
(* The operator's scripts that write bars (backfill, seeding, cleanup) are *)
(* not here but in PriceStore.                                             *)
(*                                                                         *)
(* One action is one thing that happens between two points where the       *)
(* process can be killed: a committed transaction, a fetch, an exit.  The  *)
(* data is abstracted to its provenance: every row carries the number of   *)
(* its writer, every derived row the numbers of the rows it was computed   *)
(* from, and a freshness timestamp is the number of the writer that        *)
(* stamped it.  Writers are the runs, 1 to MaxRuns, and the live           *)
(* refreshes, numbered from there on.                                      *)
(***************************************************************************)
EXTENDS Naturals

CONSTANTS
  Stocks,       \* watchlist tickers that are scored
  Sectors,      \* the sector SPDR ETFs of the watchlist: they get flows, never a score
  MaxRuns,      \* bound: orchestrator processes started
  MaxUpsets     \* bound: failing steps, killed processes and live refreshes, together

ASSUME EodAssumption ==
  /\ MaxRuns \in Nat
  /\ MaxUpsets \in Nat

Tickers == Stocks \cup Sectors

(* The steps of STEPS by number, and the stages of step 2. *)
Macro == 1
Load == 2
Technicals == 3
Flows == 4
Scores == 5
Brief == 6
Steps == 1..6

Extract == 1
Transform == 2
LoadStage == 3
DataQuality == 4
Stages == 1..4

(* SOURCES of freshness.py.  "fx" is stamped with "macro", or not at all.  *)
Sources == {"macro", "fx", "prices", "news", "sector_flows", "scores", "brief", "eod_update"}

VARIABLES
  \* the orchestrator and the pipeline process it waits for
  run,          \* processes started so far: the number of the current or last one
  pc,           \* where the current process is, "idle" when there is none
  stage,        \* the pipeline stage being run
  exit,         \* how the last process to end ended: "ok" is exit status 0
  failures,     \* failures so far (bound)
  fetched,      \* pipeline memory: tickers whose price fetch worked
  records,      \* pipeline memory: tickers with a price record left to load
  newsReached,  \* pipeline memory: one of the news feeds answered
  \* the database
  log,          \* PipelineExecutionLog: [run -> [stage -> status]]
  bar,          \* FactDailyPrice, per ticker
  tech,         \* FactStockTechnicals, per ticker: the bars it was computed from
  flow,         \* FactSectorVolume, per ETF: the bars it was computed from
  score,        \* FactInvestmentScore, per stock: the stored rows it was computed from
  brief,        \* DailyMarketBrief: everything it was computed from
  dq,           \* the last run whose DataQualityResults are stored
  stockStamp,   \* StockDataFreshness.PricesFetchedAt, per ticker
  source,       \* DataFreshness
  \* the web application
  refreshes,    \* live refreshes that have stored what they fetched
  live,         \* the transaction the refresh of a ticker waits to make next
  held,         \* the bars it has selected for the technicals
  \* history
  made,         \* made[i]: the run that last committed the output of step i
  amended,      \* tickers with a live refresh under way at any time since step 3 began
  skipped,      \* stocks the last step 5 did not score
  unstored      \* per ticker, the writers whose fetch worked and left no row to store

process == <<run, pc, stage, exit, failures>>
memory  == <<fetched, records, newsReached>>
derived == <<tech, flow, score, brief>>
web     == <<refreshes, live, held>>
memo    == <<amended, skipped, unstored>>
vars    == <<process, memory, derived, log, bar, dq, stockStamp, source, web, made, memo>>

Status == {"none", "Running", "Success", "Failed"}
PC == {"idle", "macro", "begin", "body", "finish", "technicals", "flows", "mark_flows",
       "scores", "brief", "record"}

(* The database after the initial backfill: everything is of run 0, and no *)
(* update has been logged or recorded yet.                                 *)
Init ==
  /\ run = 0 /\ pc = "idle" /\ stage = Extract /\ exit = "none" /\ failures = 0
  /\ fetched = {} /\ records = {} /\ newsReached = FALSE
  /\ log = [r \in 1..MaxRuns |-> [k \in Stages |-> "none"]]
  /\ bar = [t \in Tickers |-> 0]
  /\ tech = [t \in Tickers |-> 0]
  /\ flow = [e \in Sectors |-> 0]
  /\ score = [s \in Stocks |-> [macro |-> 0, bar |-> 0, tech |-> 0,
                                flow |-> [e \in Sectors |-> 0],
                                etf |-> [e \in Sectors |-> 0]]]
  /\ brief = [macro |-> 0, bar |-> [t \in Tickers |-> 0]]
  /\ dq = 0
  /\ stockStamp = [t \in Tickers |-> 0]
  /\ source = [s \in Sources |-> 0]
  /\ made = [i \in Steps |-> 0]
  /\ refreshes = 0
  /\ live = [t \in Tickers |-> "none"]
  /\ held = [t \in Tickers |-> 0]
  /\ amended = {} /\ skipped = {}
  /\ unstored = [t \in Tickers |-> {}]

------------------------------------------------------------------------------
(* mutant: a failed update takes the scheduler down with it                *)
StartRunUnlessFailed ==
  /\ pc = "idle"
  /\ run < MaxRuns
  /\ run = 0 \/ exit = "ok"
  /\ run' = run + 1
  /\ pc' = "macro"
  /\ stage' = Extract
  /\ exit' = "none"
  /\ UNCHANGED <<failures, memory, derived, log, bar, dq, stockStamp, source, made, web, memo>>

(* A process starts when the slot comes (or the Job restarts the failed    *)
(* one): never while another is running (concurrencyPolicy Forbid; the     *)
(* scheduler daemon blocks in subprocess.run).                             *)
StartRun ==
  /\ pc = "idle"
  /\ run < MaxRuns
  /\ run' = run + 1
  /\ pc' = "macro"
  /\ stage' = Extract
  /\ exit' = "none"
  /\ UNCHANGED <<failures, memory, derived, log, bar, dq, stockStamp, source, made, web, memo>>

(* The process ends: what it held in memory is gone.                       *)
Stop(status) ==
  /\ pc' = "idle"
  /\ exit' = status
  /\ stage' = Extract
  /\ fetched' = {} /\ records' = {} /\ newsReached' = FALSE
  /\ UNCHANGED run

GoTo(next) ==
  /\ pc' = next
  /\ UNCHANGED <<run, stage, exit, failures>>

Stamp(names) == [s \in Sources |-> IF s \in names THEN run ELSE source[s]]

Produced(i) == [made EXCEPT ![i] = run]

(* Step 1: everything is fetched first, then one transaction writes and    *)
(* stamps; the fx stamp only when a rate was inside the sanity band.       *)
FetchMacro ==
  /\ pc = "macro"
  /\ \E fx \in SUBSET {"fx"} : source' = Stamp({"macro"} \cup fx)
  /\ made' = Produced(Macro)
  /\ GoTo("begin")
  /\ UNCHANGED <<memory, derived, log, bar, dq, stockStamp, web, memo>>

(* Step 2, log_stage: the Running row is committed before the stage runs.  *)
BeginStage ==
  /\ pc = "begin"
  /\ log' = [log EXCEPT ![run][stage] = "Running"]
  /\ GoTo("body")
  /\ UNCHANGED <<memory, derived, bar, dq, stockStamp, source, made, web, memo>>

(* Any set of tickers may fail, all of them included: nothing raises.  A   *)
(* history that arrived may still hold no row (volume 0 is skipped).       *)
ExtractBody ==
  /\ pc = "body" /\ stage = Extract
  /\ fetched' \in SUBSET Tickers
  /\ newsReached' \in BOOLEAN
  /\ records' \in SUBSET fetched'
  /\ GoTo("finish")
  /\ UNCHANGED <<derived, log, bar, dq, stockStamp, source, made, web, memo>>

(* Validation and the quality checks drop records, possibly all of a       *)
(* ticker's.                                                               *)
TransformBody ==
  /\ pc = "body" /\ stage = Transform
  /\ records' \in SUBSET records
  /\ unstored' = [t \in Tickers |-> IF t \in fetched \ records' THEN unstored[t] \cup {run}
                                                             ELSE unstored[t]]
  /\ GoTo("finish")
  /\ UNCHANGED <<fetched, newsReached, derived, log, bar, dq, stockStamp, source, web, made,
                 amended, skipped>>

LoadSources ==
  (IF records # {} THEN {"prices"} ELSE {}) \cup (IF newsReached THEN {"news"} ELSE {})

PricesMarkedAll == Tickers      \* mutant: failed tickers are stamped too

(* The tickers stamped as fetched: valid_tickers - set(failed).            *)
PricesMarked == fetched

(* One transaction: prices, headlines (RecentNews), the stock stamps of    *)
(* the tickers that were reached, the source stamps of what is not empty.  *)
LoadBody ==
  /\ pc = "body" /\ stage = LoadStage
  /\ bar' = [t \in Tickers |-> IF t \in records THEN run ELSE bar[t]]
  /\ stockStamp' = [t \in Tickers |-> IF t \in PricesMarked THEN run ELSE stockStamp[t]]
  /\ source' = Stamp(LoadSources)
  /\ made' = Produced(Load)
  /\ GoTo("finish")
  /\ UNCHANGED <<memory, derived, log, dq, web, memo>>

DataQualityBody ==
  /\ pc = "body" /\ stage = DataQuality
  /\ dq' = run
  /\ GoTo("finish")
  /\ UNCHANGED <<memory, derived, log, bar, stockStamp, source, made, web, memo>>

AfterPipelineFlows == "flows"   \* mutant: steps 3 and 4 in the wrong order

(* Step 3 follows the last stage of step 2 (STEPS).                        *)
AfterPipeline == "technicals"

(* The tickers whose live refresh is under way.                            *)
Refreshing == {t \in Tickers : live[t] # "none"}

(* mutant: the stage counter runs past the last stage                      *)
FinishStageOffByOne ==
  /\ pc = "finish"
  /\ log' = [log EXCEPT ![run][stage] = "Success"]
  /\ pc' = "begin" /\ stage' = stage + 1
  /\ amended' = IF stage = DataQuality THEN Refreshing ELSE amended
  /\ UNCHANGED <<run, exit, failures, memory, derived, bar, dq, stockStamp, source, web, made,
                 skipped, unstored>>

(* The status row of a stage that ended well; after the last stage the     *)
(* pipeline process exits with 0.                                          *)
FinishStage ==
  /\ pc = "finish"
  /\ log' = [log EXCEPT ![run][stage] = "Success"]
  /\ IF stage < DataQuality
       THEN pc' = "begin" /\ stage' = stage + 1
       ELSE pc' = AfterPipeline /\ UNCHANGED stage
  /\ amended' = IF stage = DataQuality THEN Refreshing ELSE amended
  /\ UNCHANGED <<run, exit, failures, memory, derived, bar, dq, stockStamp, source, web, made,
                 skipped, unstored>>

StatusOnErrorKept == "Success"  \* mutant: the except branch does not set the status

(* The status written when the stage raised.                               *)
StatusOnError == "Failed"

(* An exception in a stage: roll back, write the Failed row, re-raise; the *)
(* pipeline process and then the orchestrator exit non-zero.               *)
StageRaises ==
  /\ pc = "body"
  /\ failures + refreshes < MaxUpsets
  /\ failures' = failures + 1
  /\ log' = [log EXCEPT ![run][stage] = StatusOnError]
  /\ Stop("failed")
  /\ UNCHANGED <<derived, bar, dq, stockStamp, source, made, web, memo>>

(* Step 3, one transaction over all tickers.                               *)
ComputeTechnicals ==
  /\ pc = "technicals"
  /\ tech' = bar
  /\ made' = Produced(Technicals)
  /\ GoTo("flows")
  /\ UNCHANGED <<memory, flow, score, brief, log, bar, dq, stockStamp, source, web, memo>>

(* Step 4 in two transactions: the rows, then the stamp.                   *)
ComputeFlows ==
  /\ pc = "flows"
  /\ flow' = [e \in Sectors |-> bar[e]]
  /\ made' = Produced(Flows)
  /\ GoTo("mark_flows")
  /\ UNCHANGED <<memory, tech, score, brief, log, bar, dq, stockStamp, source, web, memo>>

MarkFlows ==
  /\ pc = "mark_flows"
  /\ source' = Stamp({"sector_flows"})
  /\ GoTo("scores")
  /\ UNCHANGED <<memory, derived, log, bar, dq, stockStamp, made, web, memo>>

(* Step 5: flows, ETF prices and the S&P 500 are read once, then the       *)
(* stocks are scored, except those that have no bars or too few for a      *)
(* score: these keep the row they had.  (The score also reads the          *)
(* enrichment cache, which EnrichmentCache models.)                        *)
ComputeScores ==
  /\ pc = "scores"
  /\ skipped' \in SUBSET Stocks
  /\ score' = [s \in Stocks |->
                 IF s \in skipped' THEN score[s]
                 ELSE [macro |-> made[Macro], bar |-> bar[s], tech |-> tech[s], flow |-> flow,
                       etf |-> [e \in Sectors |-> bar[e]]]]
  /\ source' = Stamp({"scores"})
  /\ made' = Produced(Scores)
  /\ GoTo("brief")
  /\ UNCHANGED <<memory, tech, flow, brief, log, bar, dq, stockStamp, web, amended, unstored>>

(* Step 6.                                                                 *)
GenerateBrief ==
  /\ pc = "brief"
  /\ brief' = [macro |-> made[Macro], bar |-> bar]
  /\ source' = Stamp({"brief"})
  /\ made' = Produced(Brief)
  /\ GoTo("record")
  /\ UNCHANGED <<memory, tech, flow, score, log, bar, dq, stockStamp, web, memo>>

(* mutant: a failing technicals or flows step does not stop the run        *)
StepFailsIgnored ==
  /\ pc \in {"technicals", "flows"}
  /\ failures + refreshes < MaxUpsets
  /\ failures' = failures + 1
  /\ pc' = IF pc = "technicals" THEN "flows" ELSE "mark_flows"
  /\ UNCHANGED <<run, stage, exit, memory, derived, log, bar, dq, stockStamp, source, made,
                 web, memo>>

(* Outside the pipeline's stages a failing step commits nothing more and   *)
(* exits non-zero, and the orchestrator exits with it.                     *)
StepFails ==
  /\ pc \in {"macro", "begin", "technicals", "flows", "mark_flows", "scores", "brief"}
  /\ failures + refreshes < MaxUpsets
  /\ failures' = failures + 1
  /\ Stop("failed")
  /\ UNCHANGED <<derived, log, bar, dq, stockStamp, source, made, web, memo>>

(* The pod is evicted, the deadline passes, the machine goes down.         *)
Crash ==
  /\ pc # "idle"
  /\ failures + refreshes < MaxUpsets
  /\ failures' = failures + 1
  /\ Stop("failed")
  /\ UNCHANGED <<derived, log, bar, dq, stockStamp, source, made, web, memo>>

(* Every step exited with 0.                                               *)
RecordSuccess ==
  /\ pc = "record"
  /\ source' = Stamp({"eod_update"})
  /\ Stop("ok")
  /\ UNCHANGED <<failures, derived, log, bar, dq, stockStamp, made, web, memo>>

(* Failing to write the stamp does not fail the update.                    *)
RecordFails ==
  /\ pc = "record"
  /\ failures + refreshes < MaxUpsets
  /\ failures' = failures + 1
  /\ Stop("ok")
  /\ UNCHANGED <<derived, log, bar, dq, stockStamp, source, made, web, memo>>

(* The number of the last live refresh.                                    *)
Refresh == MaxRuns + refreshes

(* A live refresh whose fetch worked: its first transaction, the rows (if  *)
(* any) and the stamp.  (The second stores headlines: RecentNews.)         *)
RefreshPrices(t) ==
  /\ live[t] = "none"
  /\ failures + refreshes < MaxUpsets
  /\ refreshes' = refreshes + 1
  /\ live' = [live EXCEPT ![t] = "select"]
  /\ \/ bar' = [bar EXCEPT ![t] = Refresh'] /\ UNCHANGED unstored
     \/ unstored' = [unstored EXCEPT ![t] = @ \cup {Refresh'}] /\ UNCHANGED bar
  /\ stockStamp' = [stockStamp EXCEPT ![t] = Refresh']
  /\ amended' = amended \cup {t}
  /\ UNCHANGED <<process, memory, derived, log, dq, source, held, made, skipped>>

(* Its third: the bars of the ticker are selected ...                      *)
RefreshSelects(t) ==
  /\ live[t] = "select"
  /\ live' = [live EXCEPT ![t] = "technicals"]
  /\ held' = [held EXCEPT ![t] = bar[t]]
  /\ UNCHANGED <<process, memory, derived, log, bar, dq, stockStamp, source, refreshes, made,
                 memo>>

LeaveRefresh(t) ==
  /\ live' = [live EXCEPT ![t] = "none"]
  /\ held' = [held EXCEPT ![t] = 0]
  /\ UNCHANGED <<process, memory, log, bar, dq, stockStamp, source, refreshes, made, memo>>

(* ... and the technicals computed from them committed.  Nothing else is   *)
(* recomputed: no flows, no scores, no brief.                              *)
RefreshTechnicals(t) ==
  /\ live[t] = "technicals"
  /\ tech' = [tech EXCEPT ![t] = held[t]]
  /\ LeaveRefresh(t)
  /\ UNCHANGED <<flow, score, brief>>

(* It fails, or the web application goes down, between two of the three.   *)
RefreshDies(t) ==
  /\ live[t] # "none"
  /\ LeaveRefresh(t)
  /\ UNCHANGED derived

LiveRefresh(t) ==
  RefreshPrices(t) \/ RefreshSelects(t) \/ RefreshTechnicals(t) \/ RefreshDies(t)

Proceed ==
  \/ FetchMacro
  \/ BeginStage \/ ExtractBody \/ TransformBody \/ LoadBody \/ DataQualityBody \/ FinishStage
  \/ ComputeTechnicals \/ ComputeFlows \/ MarkFlows \/ ComputeScores \/ GenerateBrief
  \/ RecordSuccess

Next ==
  \/ StartRun
  \/ Proceed
  \/ StageRaises \/ StepFails \/ Crash \/ RecordFails
  \/ \E t \in Tickers : LiveRefresh(t)

Spec == Init /\ [][Next]_vars

(* Slots keep coming and a step that has started keeps going: every call   *)
(* it makes has a timeout, and the Job has a deadline.                     *)
FairSpec == Spec /\ WF_vars(StartRun) /\ WF_vars(Proceed)

------------------------------------------------------------------------------
ProcessType ==
  /\ run \in 0..MaxRuns
  /\ pc \in PC
  /\ stage \in Stages
  /\ exit \in {"none", "ok", "failed"}
  /\ failures \in 0..MaxUpsets

MemoryType ==
  /\ fetched \in SUBSET Tickers
  /\ records \in SUBSET fetched
  /\ newsReached \in BOOLEAN

DataType ==
  /\ bar \in [Tickers -> Nat]
  /\ tech \in [Tickers -> Nat]
  /\ flow \in [Sectors -> Nat]
  /\ score \in [Stocks -> [macro : Nat, bar : Nat, tech : Nat, flow : [Sectors -> Nat],
                           etf : [Sectors -> Nat]]]
  /\ brief \in [macro : Nat, bar : [Tickers -> Nat]]

RecordType ==
  /\ log \in [1..MaxRuns -> [Stages -> Status]]
  /\ dq \in Nat
  /\ stockStamp \in [Tickers -> Nat]
  /\ source \in [Sources -> Nat]
  /\ made \in [Steps -> Nat]

WebType ==
  /\ refreshes \in 0..MaxUpsets
  /\ live \in [Tickers -> {"none", "select", "technicals"}]
  /\ held \in [Tickers -> Nat]
  /\ amended \in SUBSET Tickers
  /\ skipped \in SUBSET Stocks
  /\ unstored \in [Tickers -> SUBSET Nat]

TypeOK == ProcessType /\ MemoryType /\ DataType /\ RecordType /\ WebType

(* After a run that succeeded, and until the next one starts, every row    *)
(* step 3 to 6 are for was computed from the rows that are stored now, and *)
(* flows, scores and brief from one another's: the "two as-of dates on one *)
(* dashboard" of run_daily_update.py's docstring cannot happen, whatever   *)
(* failed or was killed in earlier runs.  Excepted are the bars and the    *)
(* technicals of the tickers a live refresh has been at since step 3       *)
(* began, which by its docstring recomputes nothing else (live_refresh.py, *)
(* "Scope note"), and the stocks step 5 could not score; and it is stated  *)
(* for as long as the operator runs no script that writes bars.            *)
SuccessIsCoherent ==
  (pc = "idle" /\ exit = "ok") =>
    /\ \A t \in Tickers \ amended : tech[t] = bar[t] /\ brief.bar[t] = bar[t]
    /\ \A e \in Sectors \ amended : flow[e] = bar[e]
    /\ \A s \in Stocks \ skipped :
         /\ score[s].macro = made[Macro] /\ score[s].flow = flow
         /\ \A e \in Sectors \ amended : score[s].etf[e] = bar[e]
         /\ s \notin amended => score[s].bar = bar[s] /\ score[s].tech = tech[s]
    /\ brief.macro = made[Macro]

StepStampsEarned ==
  /\ source["macro"] <= made[Macro] /\ source["fx"] <= made[Macro]
  /\ source["sector_flows"] <= made[Flows]
  /\ \A s \in Stocks \ skipped : source["scores"] <= score[s].macro
  /\ source["brief"] <= brief.macro

(* PricesFetchedAt is of the writer of the newest bars, or of one whose    *)
(* fetch worked and left no row to store: the code stamps it all the same. *)
StockStampsEarned ==
  \A t \in Tickers : stockStamp[t] = bar[t] \/ stockStamp[t] \in unstored[t]

PriceStampEarned ==
  source["prices"] > 0 => \E t \in Tickers : bar[t] >= source["prices"]

(* When a timestamp is ahead of the data it describes, which it never is   *)
(* according to freshness.py: in one case only, a ticker whose fetch       *)
(* worked and whose rows were all dropped is stamped above its older bars. *)
(* Else a source is stamped by a run that has committed its rows, for      *)
(* scores and brief rows computed from the macro data of that run or a     *)
(* later one; a ticker's PricesFetchedAt by who stored its bars, update or *)
(* live refresh; the price source by a run that stored at least one bar.   *)
StampsNeverAhead == StepStampsEarned /\ StockStampsEarned /\ PriceStampEarned

RowsInOrder ==
  \A r \in 1..MaxRuns : \A j, k \in Stages :
    j < k /\ log[r][k] # "none" => log[r][j] = "Success"

RowsMatchData ==
  \A r \in 1..MaxRuns :
    /\ log[r][LoadStage] = "Success" => made[Load] >= r
    /\ log[r][LoadStage] = "Failed" => made[Load] # r /\ \A t \in Tickers : bar[t] # r
    /\ log[r][DataQuality] = "Success" => dq >= r
    /\ log[r][DataQuality] = "Failed" => dq # r /\ made[Load] >= r

RowIsRunning == pc \in {"body", "finish"} => log[run][stage] = "Running"

(* PipelineExecutionLog can be believed: a stage has a row only if every   *)
(* earlier stage of its run succeeded; Success of Load and DataQuality     *)
(* means their rows are committed, Failed that none of them is; while a    *)
(* stage runs its row says so.                                             *)
LogTellsTheTruth ==
  /\ RowsInOrder
  /\ RowsMatchData
  /\ RowIsRunning

(* The run recorded in the eod_update stamp went through all four stages   *)
(* and committed the output of all six steps.                              *)
EodStampEarned ==
  LET r == source["eod_update"] IN
    r > 0 => /\ \A k \in Stages : log[r][k] = "Success"
             /\ \A i \in Steps : made[i] >= r

(* How many steps of the current run have committed their output.          *)
Done ==
  CASE pc \in {"idle", "macro"} -> 0
    [] pc \in {"begin", "body"} -> IF stage <= LoadStage THEN 1 ELSE 2
    [] pc = "finish"            -> IF stage < LoadStage THEN 1 ELSE 2
    [] pc = "technicals"        -> 2
    [] pc = "flows"             -> 3
    [] pc \in {"mark_flows", "scores"} -> 4
    [] pc = "brief"             -> 5
    [] pc = "record"            -> 6

(* run_daily_update.py with its subprocesses, stages and stamps implements *)
(* the ordered update: data downstream is never newer than data upstream,  *)
(* and a stamp is never newer than any of it.                              *)
Promise == INSTANCE OrderedUpdate WITH
  N <- 6, busy <- (pc # "idle"), done <- Done, stamp <- source["eod_update"]
ImplementsOrderedUpdate == Promise!Spec

(* Failures and kills do not wedge the update: with MaxRuns > MaxUpsets    *)
(* slots, some run is recorded as fully successful.                        *)
Recovers == <>(source["eod_update"] > 0)
==============================================================================
