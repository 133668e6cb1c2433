--------------------------- MODULE EodUpdateProofs ---------------------------
(***************************************************************************)
(* Proofs about EodUpdate, for any watchlist and any number of runs and    *)
(* failures.                                                               *)
(***************************************************************************)
EXTENDS EodUpdate, TLAPS

USE DEF Macro, Load, Technicals, Flows, Scores, Brief, Steps,
        Extract, Transform, LoadStage, DataQuality, Stages, Status, PC

------------------------------------------------------------------------------
(* Which actions write what.                                               *)

(* A step beside the update: a live refresh, or nothing.                   *)
Aside == UNCHANGED <<process, memory, flow, score, brief, log, dq, source, made, skipped>>

LEMMA RefreshIsAside ==
  ASSUME NEW t \in Tickers, LiveRefresh(t) PROVE Aside
  BY DEF LiveRefresh, RefreshPrices, RefreshSelects, RefreshTechnicals, RefreshDies,
         LeaveRefresh, Aside, memo, derived

LEMMA Moves ==
  [Next]_vars => \/ StartRun \/ Proceed \/ StageRaises \/ StepFails \/ Crash \/ RecordFails
                 \/ Aside
  BY RefreshIsAside DEF Next, vars, Aside, derived, memo

LEMMA BarWriters ==
  [Next]_vars => LoadBody \/ (\E t \in Tickers : RefreshPrices(t)) \/ UNCHANGED bar
  <1>1. ASSUME NEW t \in Tickers, LiveRefresh(t) PROVE RefreshPrices(t) \/ UNCHANGED bar
    BY <1>1 DEF LiveRefresh, RefreshSelects, RefreshTechnicals, RefreshDies, LeaveRefresh
  <1>2. StartRun \/ Proceed \/ StageRaises \/ StepFails \/ Crash \/ RecordFails
          => LoadBody \/ UNCHANGED bar
    BY DEF Proceed, StartRun, FetchMacro, BeginStage, ExtractBody, TransformBody,
         DataQualityBody, FinishStage, StageRaises, MarkFlows, StepFails, Crash,
         RecordSuccess, RecordFails, ComputeTechnicals, ComputeFlows, ComputeScores,
         GenerateBrief
  <1> QED
    BY <1>1, <1>2 DEF Next, vars

LEMMA TechWriters ==
  [Next]_vars => \/ ComputeTechnicals \/ (\E t \in Tickers : RefreshTechnicals(t))
                 \/ UNCHANGED tech
  <1>1. ASSUME NEW t \in Tickers, LiveRefresh(t) PROVE RefreshTechnicals(t) \/ UNCHANGED tech
    BY <1>1 DEF LiveRefresh, RefreshSelects, RefreshPrices, RefreshDies, derived
  <1>2. StartRun \/ Proceed \/ StageRaises \/ StepFails \/ Crash \/ RecordFails
          => ComputeTechnicals \/ UNCHANGED tech
    BY DEF Proceed, StartRun, FetchMacro, BeginStage, ExtractBody, TransformBody, LoadBody,
         DataQualityBody, FinishStage, StageRaises, MarkFlows, StepFails, Crash,
         RecordSuccess, RecordFails, ComputeFlows, ComputeScores, GenerateBrief, derived
  <1> QED
    BY <1>1, <1>2 DEF Next, vars, derived

LEMMA TableWriters ==
  [Next]_vars => \/ ComputeFlows \/ ComputeScores \/ GenerateBrief
                 \/ UNCHANGED <<flow, score, brief, skipped>>
  BY Moves DEF Aside, Proceed, StartRun, FetchMacro, BeginStage, ExtractBody, TransformBody,
         LoadBody, DataQualityBody, FinishStage, StageRaises, MarkFlows, StepFails, Crash,
         RecordSuccess, RecordFails, ComputeTechnicals, derived, memo

LEMMA LogWriters ==
  [Next]_vars => BeginStage \/ FinishStage \/ StageRaises \/ UNCHANGED log
  BY Moves DEF Aside, Proceed, StartRun, FetchMacro, ExtractBody, TransformBody, LoadBody,
         DataQualityBody, ComputeTechnicals, ComputeFlows, MarkFlows, ComputeScores,
         GenerateBrief, StepFails, Crash, RecordSuccess, RecordFails

LEMMA SourceWriters ==
  [Next]_vars => \/ FetchMacro \/ LoadBody \/ MarkFlows \/ ComputeScores \/ GenerateBrief
                 \/ RecordSuccess
                 \/ UNCHANGED source
  BY Moves DEF Aside, Proceed, StartRun, BeginStage, ExtractBody, TransformBody,
         DataQualityBody, FinishStage, StageRaises, ComputeTechnicals, ComputeFlows,
         StepFails, Crash, RecordFails

LEMMA HistoryWriters ==
  [Next]_vars => \/ FetchMacro \/ LoadBody \/ DataQualityBody
                 \/ ComputeTechnicals \/ ComputeFlows \/ ComputeScores \/ GenerateBrief
                 \/ UNCHANGED <<dq, made>>
  BY Moves DEF Aside, Proceed, StartRun, BeginStage, ExtractBody, TransformBody, FinishStage,
         StageRaises, MarkFlows, StepFails, Crash, RecordSuccess, RecordFails

LEMMA StockStampWriters ==
  [Next]_vars => \/ LoadBody \/ (\E t \in Tickers : RefreshPrices(t))
                 \/ UNCHANGED <<stockStamp, bar>>
  <1>1. ASSUME NEW t \in Tickers, LiveRefresh(t)
        PROVE RefreshPrices(t) \/ UNCHANGED <<stockStamp, bar>>
    BY <1>1 DEF LiveRefresh, RefreshSelects, RefreshTechnicals, RefreshDies, LeaveRefresh
  <1>2. StartRun \/ Proceed \/ StageRaises \/ StepFails \/ Crash \/ RecordFails
          => LoadBody \/ UNCHANGED <<stockStamp, bar>>
    BY DEF Proceed, StartRun, FetchMacro, BeginStage, ExtractBody, TransformBody,
         DataQualityBody, FinishStage, StageRaises, MarkFlows, StepFails, Crash,
         RecordSuccess, RecordFails, ComputeTechnicals, ComputeFlows, ComputeScores,
         GenerateBrief
  <1> QED
    BY <1>1, <1>2 DEF Next, vars

LEMMA UnstoredWriters ==
  [Next]_vars => \/ TransformBody \/ (\E t \in Tickers : RefreshPrices(t))
                 \/ UNCHANGED unstored
  <1>1. ASSUME NEW t \in Tickers, LiveRefresh(t)
        PROVE RefreshPrices(t) \/ UNCHANGED unstored
    BY <1>1 DEF LiveRefresh, RefreshSelects, RefreshTechnicals, RefreshDies, LeaveRefresh, memo
  <1>2. StartRun \/ Proceed \/ StageRaises \/ StepFails \/ Crash \/ RecordFails
          => TransformBody \/ UNCHANGED unstored
    BY DEF Proceed, StartRun, FetchMacro, BeginStage, ExtractBody, LoadBody,
         DataQualityBody, FinishStage, StageRaises, MarkFlows, StepFails, Crash,
         RecordSuccess, RecordFails, ComputeTechnicals, ComputeFlows, ComputeScores,
         GenerateBrief, memo
  <1> QED
    BY <1>1, <1>2 DEF Next, vars, memo

LEMMA AmendedWriters ==
  [Next]_vars => \/ FinishStage \/ (\E t \in Tickers : LiveRefresh(t))
                 \/ UNCHANGED <<amended, live, held, refreshes>>
  BY DEF Next, vars, web, memo, Proceed, StartRun, FetchMacro, BeginStage, ExtractBody,
         TransformBody, LoadBody, DataQualityBody, StageRaises, MarkFlows, StepFails, Crash,
         RecordSuccess, RecordFails, ComputeTechnicals, ComputeFlows, ComputeScores,
         GenerateBrief

------------------------------------------------------------------------------
LEMMA InitType == ASSUME EodAssumption, Init PROVE TypeOK
  <1>1. ProcessType
    BY DEF Init, EodAssumption, ProcessType
  <1>2. MemoryType
    BY DEF Init, MemoryType
  <1>3. DataType
    BY DEF Init, DataType, Tickers
  <1>4. RecordType
    BY DEF Init, RecordType
  <1>5. WebType
    BY DEF Init, WebType, EodAssumption
  <1> QED
    BY <1>1, <1>2, <1>3, <1>4, <1>5 DEF TypeOK

LEMMA RefreshCount == WebType /\ EodAssumption => refreshes \in Nat
  BY DEF WebType, EodAssumption

LEMMA ProcessStep ==
  ASSUME EodAssumption, ProcessType, refreshes \in Nat, [Next]_vars PROVE ProcessType'
  BY Moves DEF EodAssumption, ProcessType, Proceed, Aside, process, GoTo, Stop, StartRun,
         FetchMacro, BeginStage, ExtractBody, TransformBody, LoadBody, DataQualityBody,
         FinishStage, AfterPipeline, StageRaises, ComputeTechnicals, ComputeFlows, MarkFlows,
         ComputeScores, GenerateBrief, StepFails, Crash, RecordSuccess, RecordFails

LEMMA MemoryStep ==
  ASSUME MemoryType, [Next]_vars PROVE MemoryType'
  BY Moves DEF MemoryType, Proceed, Aside, memory, Stop, StartRun,
         FetchMacro, BeginStage, ExtractBody, TransformBody, LoadBody, DataQualityBody,
         FinishStage, StageRaises, ComputeTechnicals, ComputeFlows, MarkFlows,
         ComputeScores, GenerateBrief, StepFails, Crash, RecordSuccess, RecordFails

LEMMA WebStep ==
  ASSUME EodAssumption, TypeOK, [Next]_vars PROVE WebType'
  <1> USE DEF TypeOK, WebType
  <1>0. /\ run \in Nat /\ MaxRuns \in Nat /\ MaxUpsets \in Nat
        /\ refreshes \in Nat /\ failures \in Nat
    BY EodAssumption DEF EodAssumption, ProcessType
  <1>a. bar \in [Tickers -> Nat]
    BY DEF DataType
  <1>1. skipped' \in SUBSET Stocks
    BY TableWriters DEF ComputeFlows, ComputeScores, GenerateBrief, memo
  <1>2. unstored' \in [Tickers -> SUBSET Nat]
    <2>1. CASE TransformBody
      BY <1>0, <2>1 DEF TransformBody
    <2>2. ASSUME NEW t \in Tickers, RefreshPrices(t) PROVE unstored' \in [Tickers -> SUBSET Nat]
      <3>1. Refresh' \in Nat
        BY <1>0, <2>2 DEF RefreshPrices, Refresh
      <3> QED
        BY <2>2, <3>1 DEF RefreshPrices
    <2> QED
      BY <2>1, <2>2, UnstoredWriters
  <1>3. /\ refreshes' \in 0..MaxUpsets
        /\ live' \in [Tickers -> {"none", "select", "technicals"}]
        /\ held' \in [Tickers -> Nat]
        /\ amended' \in SUBSET Tickers
    <2>1. CASE FinishStage
      BY <2>1 DEF FinishStage, web, Refreshing
    <2>2. ASSUME NEW t \in Tickers, RefreshPrices(t)
          PROVE  /\ refreshes' \in 0..MaxUpsets
                 /\ live' \in [Tickers -> {"none", "select", "technicals"}]
                 /\ held' \in [Tickers -> Nat]
                 /\ amended' \in SUBSET Tickers
      BY <1>0, <2>2 DEF RefreshPrices
    <2>3. ASSUME NEW t \in Tickers, RefreshSelects(t)
          PROVE  /\ UNCHANGED <<refreshes, amended>>
                 /\ live' \in [Tickers -> {"none", "select", "technicals"}]
                 /\ held' \in [Tickers -> Nat]
      BY <1>a, <2>3 DEF RefreshSelects, memo
    <2>4. ASSUME NEW t \in Tickers, RefreshTechnicals(t) \/ RefreshDies(t)
          PROVE  /\ UNCHANGED <<refreshes, amended>>
                 /\ live' \in [Tickers -> {"none", "select", "technicals"}]
                 /\ held' \in [Tickers -> Nat]
      BY <2>4 DEF RefreshTechnicals, RefreshDies, LeaveRefresh, memo
    <2> QED
      BY <2>1, <2>2, <2>3, <2>4, AmendedWriters DEF LiveRefresh
  <1> QED
    BY <1>1, <1>2, <1>3

LEMMA DataStep ==
  ASSUME EodAssumption, TypeOK, [Next]_vars PROVE DataType'
  <1>0. /\ run \in Nat /\ MaxRuns \in Nat /\ refreshes \in Nat
        /\ bar \in [Tickers -> Nat] /\ tech \in [Tickers -> Nat]
        /\ flow \in [Sectors -> Nat] /\ held \in [Tickers -> Nat] /\ made[Macro] \in Nat
    BY EodAssumption DEF EodAssumption, TypeOK, ProcessType, DataType, WebType, RecordType
  <1>1. bar' \in [Tickers -> Nat]
    <2>1. CASE LoadBody
      BY <1>0, <2>1 DEF LoadBody
    <2>2. ASSUME NEW t \in Tickers, RefreshPrices(t) PROVE bar' \in [Tickers -> Nat]
      <3>1. Refresh' \in Nat
        BY <1>0, <2>2 DEF RefreshPrices, Refresh
      <3> QED
        BY <1>0, <2>2, <3>1 DEF RefreshPrices
    <2> QED
      BY <1>0, <2>1, <2>2, BarWriters
  <1>2. tech' \in [Tickers -> Nat]
    <2>1. CASE ComputeTechnicals
      BY <1>0, <2>1 DEF ComputeTechnicals
    <2>2. ASSUME NEW t \in Tickers, RefreshTechnicals(t) PROVE tech' \in [Tickers -> Nat]
      BY <1>0, <2>2 DEF RefreshTechnicals
    <2> QED
      BY <1>0, <2>1, <2>2, TechWriters
  <1>3. flow' \in [Sectors -> Nat]
    BY <1>0, TableWriters DEF ComputeFlows, ComputeScores, GenerateBrief, Tickers
  <1>4. score' \in [Stocks -> [macro : Nat, bar : Nat, tech : Nat, flow : [Sectors -> Nat],
                              etf : [Sectors -> Nat]]]
    <2>1. CASE ComputeScores
      <3>1. [e \in Sectors |-> bar[e]] \in [Sectors -> Nat]
        BY <1>0 DEF Tickers
      <3>2. \A s \in Stocks : bar[s] \in Nat /\ tech[s] \in Nat
        BY <1>0 DEF Tickers
      <3> QED
        BY <1>0, <2>1, <3>1, <3>2 DEF ComputeScores, TypeOK, DataType
    <2> QED
      BY <2>1, TableWriters DEF ComputeFlows, GenerateBrief, TypeOK, DataType
  <1>5. brief' \in [macro : Nat, bar : [Tickers -> Nat]]
    BY <1>0, TableWriters DEF ComputeFlows, ComputeScores, GenerateBrief, TypeOK, DataType
  <1> QED
    BY <1>1, <1>2, <1>3, <1>4, <1>5 DEF DataType

LEMMA RecordStep ==
  ASSUME EodAssumption, TypeOK, [Next]_vars PROVE RecordType'
  <1>0. run \in Nat /\ MaxRuns \in Nat /\ refreshes \in Nat
    BY EodAssumption DEF EodAssumption, TypeOK, ProcessType, WebType
  <1> USE DEF TypeOK, RecordType
  <1>1. log' \in [1..MaxRuns -> [Stages -> Status]]
    <2>1. ASSUME NEW s \in Status, log' = [log EXCEPT ![run][stage] = s]
          PROVE log' \in [1..MaxRuns -> [Stages -> Status]]
      BY <2>1
    <2>2. CASE BeginStage
      BY <2>1, <2>2 DEF BeginStage
    <2>3. CASE FinishStage
      BY <2>1, <2>3 DEF FinishStage
    <2>4. CASE StageRaises
      BY <2>1, <2>4 DEF StageRaises, StatusOnError
    <2>5. CASE UNCHANGED log
      BY <2>5
    <2> QED
      BY <2>2, <2>3, <2>4, <2>5, LogWriters
  <1>2. stockStamp' \in [Tickers -> Nat]
    <2>1. CASE LoadBody
      BY <1>0, <2>1 DEF LoadBody
    <2>2. ASSUME NEW t \in Tickers, RefreshPrices(t) PROVE stockStamp' \in [Tickers -> Nat]
      <3>1. Refresh' \in Nat
        BY <1>0, <2>2 DEF RefreshPrices, Refresh
      <3> QED
        BY <2>2, <3>1 DEF RefreshPrices
    <2> QED
      BY <2>1, <2>2, StockStampWriters
  <1>3. source' \in [Sources -> Nat]
    <2>1. ASSUME NEW names, source' = Stamp(names)
          PROVE source' \in [Sources -> Nat]
      BY <1>0, <2>1 DEF Stamp
    <2>2. \/ \E names : source' = Stamp(names)
          \/ UNCHANGED source
      BY SourceWriters DEF FetchMacro, LoadBody, MarkFlows, ComputeScores, GenerateBrief,
                          RecordSuccess
    <2> QED
      BY <2>1, <2>2
  <1>4. made' \in [Steps -> Nat] /\ dq' \in Nat
    <2>1. \/ made' = Produced(Macro) \/ made' = Produced(Load) \/ made' = Produced(Technicals)
          \/ made' = Produced(Flows) \/ made' = Produced(Scores) \/ made' = Produced(Brief)
          \/ UNCHANGED made
      BY HistoryWriters DEF FetchMacro, LoadBody, DataQualityBody,
                            ComputeTechnicals, ComputeFlows, ComputeScores, GenerateBrief
    <2>2. dq' = dq \/ dq' = run
      BY HistoryWriters DEF FetchMacro, LoadBody, DataQualityBody,
                            ComputeTechnicals, ComputeFlows, ComputeScores, GenerateBrief
    <2>3. made' \in [Steps -> Nat]
      <3>1. ASSUME NEW i \in Steps, made' = Produced(i)
            PROVE made' \in [Steps -> Nat]
        BY <1>0, <3>1 DEF Produced
      <3> QED
        BY <2>1, <3>1
    <2> QED
      BY <1>0, <2>2, <2>3
  <1> QED
    BY <1>1, <1>2, <1>3, <1>4

(* The variables of the update keep their types, for every watchlist.      *)
THEOREM TypeCorrect == Spec => []TypeOK
  <1>1. Init => TypeOK
    BY InitType, EodAssumption
  <1>2. TypeOK /\ [Next]_vars => TypeOK'
    BY RefreshCount, ProcessStep, MemoryStep, DataStep, RecordStep, WebStep, EodAssumption DEF TypeOK
  <1> QED
    BY <1>1, <1>2, PTL DEF Spec
------------------------------------------------------------------------------
(* Why SuccessIsCoherent holds: from the step that computes a table on,    *)
(* the table agrees with what it was computed from, but for the tickers a  *)
(* live refresh has been at since step 3 began; whatever the refresh of a  *)
(* ticker still holds, the ticker is among these.                          *)
TechsAgree == \A t \in Tickers \ amended : tech[t] = bar[t]
FlowsAgree == \A e \in Sectors \ amended : flow[e] = bar[e]
ScoresAgree ==
  \A s \in Stocks \ skipped :
    /\ score[s].macro = made[Macro] /\ score[s].flow = flow
    /\ \A e \in Sectors \ amended : score[s].etf[e] = bar[e]
    /\ s \notin amended => score[s].bar = bar[s] /\ score[s].tech = tech[s]
BriefAgrees == brief.macro = made[Macro] /\ \A t \in Tickers \ amended : brief.bar[t] = bar[t]

AllDone == pc = "record" \/ (pc = "idle" /\ exit = "ok")

AtFlows == pc \in {"flows", "mark_flows", "scores", "brief"} \/ AllDone
AtMark == pc \in {"mark_flows", "scores", "brief"} \/ AllDone
AtBrief == pc = "brief" \/ AllDone

Coherent ==
  /\ Refreshing \subseteq amended
  /\ AtFlows => TechsAgree
  /\ AtMark => FlowsAgree
  /\ AtBrief => ScoresAgree
  /\ AllDone => BriefAgrees

(* A live refresh disturbs nothing but the bars and the technicals of a    *)
(* ticker that it has put among the amended ones.                          *)
LEMMA RefreshCoherent ==
  ASSUME TypeOK, Coherent, NEW u \in Tickers, LiveRefresh(u) PROVE Coherent'
  <1>0. /\ bar \in [Tickers -> Nat] /\ tech \in [Tickers -> Nat]
        /\ live \in [Tickers -> {"none", "select", "technicals"}]
        /\ Stocks \subseteq Tickers /\ Sectors \subseteq Tickers
    BY DEF TypeOK, DataType, WebType, Tickers
  <1>1. Aside
    BY RefreshIsAside
  <1>2. /\ amended \subseteq amended' /\ u \in amended'
        /\ \A t \in Tickers \ {u} : live'[t] = live[t] /\ bar'[t] = bar[t] /\ tech'[t] = tech[t]
    <2>1. CASE RefreshPrices(u)
      BY <1>0, <2>1 DEF RefreshPrices, derived
    <2>2. CASE RefreshSelects(u) \/ RefreshTechnicals(u) \/ RefreshDies(u)
      <3>1. UNCHANGED <<amended, bar>> /\ live[u] # "none"
        BY <2>2 DEF RefreshSelects, RefreshTechnicals, RefreshDies, LeaveRefresh, memo
      <3>2. u \in amended
        BY <3>1 DEF Coherent, Refreshing
      <3>3. \A t \in Tickers \ {u} : live'[t] = live[t] /\ tech'[t] = tech[t]
        BY <1>0, <2>2 DEF RefreshSelects, RefreshTechnicals, RefreshDies, LeaveRefresh, derived
      <3> QED
        BY <3>1, <3>2, <3>3
    <2> QED
      BY <2>1, <2>2 DEF LiveRefresh
  <1>3. /\ UNCHANGED <<pc, exit, flow, score, brief, made, skipped>>
    BY <1>1 DEF Aside, process
  <1>4. Refreshing' \subseteq amended'
    BY <1>2 DEF Coherent, Refreshing
  <1>5. AtFlows' => TechsAgree'
    BY <1>2, <1>3 DEF Coherent, AtFlows, AllDone, TechsAgree
  <1>6. AtMark' => FlowsAgree'
    BY <1>0, <1>2, <1>3 DEF Coherent, AtMark, AllDone, FlowsAgree
  <1>7. AtBrief' => ScoresAgree'
    BY <1>0, <1>2, <1>3 DEF Coherent, AtBrief, AllDone, ScoresAgree
  <1>8. AllDone' => BriefAgrees'
    BY <1>2, <1>3 DEF Coherent, AllDone, BriefAgrees
  <1> QED
    BY <1>4, <1>5, <1>6, <1>7, <1>8 DEF Coherent

LEMMA CoherentStep ==
  ASSUME TypeOK, Coherent, [Next]_vars PROVE Coherent'
  <1>a. bar \in [Tickers -> Nat] /\ tech \in [Tickers -> Nat] /\ Stocks \subseteq Tickers
        /\ Sectors \subseteq Tickers
    BY DEF TypeOK, DataType, Tickers
  <1> USE DEF Coherent, AllDone, AtFlows, AtMark, AtBrief
  <1>1. CASE StartRun
    BY <1>1 DEF StartRun, web, memo, Refreshing
  <1>2. CASE FetchMacro \/ BeginStage \/ ExtractBody \/ TransformBody \/ LoadBody
             \/ DataQualityBody
    BY <1>2 DEF FetchMacro, BeginStage, ExtractBody, TransformBody, LoadBody, DataQualityBody,
                GoTo, web, memo, Refreshing
  <1>b. CASE FinishStage
    BY <1>b DEF FinishStage, AfterPipeline, web, Refreshing
  <1>3. CASE ComputeTechnicals
    BY <1>3 DEF ComputeTechnicals, GoTo, web, memo, Refreshing, TechsAgree
  <1>4. CASE ComputeFlows
    BY <1>a, <1>4 DEF ComputeFlows, GoTo, web, memo, Refreshing, TechsAgree, FlowsAgree
  <1>5. CASE MarkFlows
    BY <1>5 DEF MarkFlows, GoTo, derived, web, memo, Refreshing, TechsAgree, FlowsAgree
  <1>6. CASE ComputeScores
    <2>1. pc' = "brief" /\ UNCHANGED <<amended, live, tech, bar, flow>>
      BY <1>6 DEF ComputeScores, GoTo, web
    <2>2. made'[Macro] = made[Macro]
      BY <1>6 DEF ComputeScores, Produced, TypeOK, RecordType
    <2>3. ScoresAgree'
      <3> SUFFICES ASSUME NEW s \in Stocks \ skipped'
                   PROVE /\ score'[s].macro = made[Macro] /\ score'[s].flow = flow
                         /\ \A e \in Sectors \ amended : score'[s].etf[e] = bar[e]
                         /\ score'[s].bar = bar[s] /\ score'[s].tech = tech[s]
        BY <2>1, <2>2 DEF ScoresAgree
      <3>1. score'[s] = [macro |-> made[Macro], bar |-> bar[s], tech |-> tech[s],
                         flow |-> flow, etf |-> [e \in Sectors |-> bar[e]]]
        BY <1>6 DEF ComputeScores
      <3> QED
        BY <3>1
    <2> QED
      BY <1>6, <2>1, <2>3 DEF ComputeScores, Refreshing, TechsAgree, FlowsAgree
  <1>7. CASE GenerateBrief
    <2>1. made'[Macro] = made[Macro]
      BY <1>7 DEF GenerateBrief, Produced, TypeOK, RecordType
    <2>2. pc = "brief" /\ pc' = "record"
          /\ UNCHANGED <<amended, live, tech, bar, flow, score, skipped>>
      BY <1>7 DEF GenerateBrief, GoTo, web, memo
    <2>3. brief'.macro = made[Macro] /\ brief'.bar = bar
      BY <1>7 DEF GenerateBrief
    <2>4. ScoresAgree'
      BY <2>1, <2>2 DEF ScoresAgree
    <2>5. BriefAgrees'
      BY <2>1, <2>2, <2>3 DEF BriefAgrees
    <2> QED
      BY <2>2, <2>4, <2>5 DEF Refreshing, TechsAgree, FlowsAgree
  <1>8. CASE StageRaises \/ StepFails \/ Crash
    BY <1>8 DEF StageRaises, StepFails, Crash, Stop, web, memo, Refreshing
  <1>9. CASE RecordSuccess \/ RecordFails
    BY <1>9 DEF RecordSuccess, RecordFails, Stop, derived, web, memo, Refreshing, TechsAgree,
                FlowsAgree, ScoresAgree, BriefAgrees
  <1>10. CASE UNCHANGED vars
    BY <1>10 DEF vars, process, derived, web, memo, Refreshing, TechsAgree, FlowsAgree,
                 ScoresAgree, BriefAgrees
  <1> HIDE DEF Coherent
  <1>11. CASE \E t \in Tickers : LiveRefresh(t)
    BY <1>11, RefreshCoherent
  <1> QED
    BY <1>1, <1>2, <1>b, <1>3, <1>4, <1>5, <1>6, <1>7, <1>8, <1>9, <1>10, <1>11
       DEF Next, Proceed

(* After a successful run, whatever failed before it and whatever live     *)
(* refreshes did meanwhile, every row of steps 3 to 6 was computed from    *)
(* the rows stored now, but for the tickers a live refresh has been at and *)
(* the stocks that could not be scored.                                    *)
THEOREM CoherenceCorrect == Spec => []SuccessIsCoherent
  <1>1. Init => Coherent
    BY DEF Init, Coherent, AllDone, AtFlows, AtMark, AtBrief, Refreshing
  <1>2. TypeOK /\ Coherent /\ [Next]_vars => Coherent'
    BY CoherentStep
  <1>3. Coherent => SuccessIsCoherent
    BY DEF Coherent, AllDone, AtFlows, AtMark, AtBrief, TechsAgree, FlowsAgree, ScoresAgree,
           BriefAgrees, SuccessIsCoherent
  <1> QED
    BY <1>1, <1>2, <1>3, TypeCorrect, PTL DEF Spec

------------------------------------------------------------------------------
(* Why the log, the stamps and the refinement hold: the inductive          *)
(* invariant.                                                              *)
Bounded ==
  /\ pc # "idle" => run > 0
  /\ pc \in {"idle", "macro"} => stage = Extract
  /\ \A i \in Steps : made[i] <= run
  /\ \A s \in Sources : source[s] <= run
  /\ \A t \in Tickers : bar[t] <= run \/ bar[t] > MaxRuns
  /\ dq <= run

DqDone == pc \in {"technicals", "flows", "mark_flows", "scores", "brief", "record"}
          \/ (pc = "finish" /\ stage = DataQuality)

(* The current run has produced the output of its first Done steps and of  *)
(* no other; what it has not written yet is of earlier runs.               *)
Progress ==
  pc # "idle" =>
    /\ \A i \in Steps : IF i <= Done THEN made[i] = run ELSE made[i] < run
    /\ Done < Load => \A t \in Tickers : bar[t] # run
    /\ IF DqDone THEN dq = run ELSE dq < run
    /\ source["eod_update"] < run

(* The rows of the current run, by the place it has reached.               *)
Logged ==
  /\ \A r \in 1..MaxRuns : r > run => \A k \in Stages : log[r][k] = "none"
  /\ pc = "macro" => \A k \in Stages : log[run][k] = "none"
  /\ pc \in {"begin", "body", "finish"} =>
       \A k \in Stages : /\ k < stage => log[run][k] = "Success"
                         /\ k > stage => log[run][k] = "none"
  /\ pc = "begin" => log[run][stage] = "none"
  /\ pc \in {"technicals", "flows", "mark_flows", "scores", "brief", "record"} =>
       \A k \in Stages : log[run][k] = "Success"

(* What validation has dropped it has noted, until the rows are loaded.    *)
Noted ==
  (\/ pc = "finish" /\ stage = Transform
   \/ pc \in {"begin", "body"} /\ stage = LoadStage)
    => \A t \in fetched \ records : run \in unstored[t]

IInv == TypeOK /\ Bounded /\ Progress /\ Logged /\ Noted
           /\ LogTellsTheTruth /\ EodStampEarned /\ StampsNeverAhead

(* How the process moves, and which outputs a step can produce.            *)
LEMMA RunMoves ==
  [Next]_vars => \/ StartRun
                 \/ /\ UNCHANGED run /\ (pc' # "idle" => pc # "idle")
                    /\ pc' = "idle" => stage' = Extract \/ UNCHANGED <<pc, stage>>
                    /\ pc' = "macro" => UNCHANGED <<pc, stage>>
  BY Moves DEF Proceed, Aside, process, GoTo, Stop, FetchMacro, BeginStage, ExtractBody,
         TransformBody, LoadBody, DataQualityBody, FinishStage, AfterPipeline, StageRaises,
         ComputeTechnicals, ComputeFlows, MarkFlows, ComputeScores, GenerateBrief, StepFails,
         Crash, RecordSuccess, RecordFails

(* A bar is left alone, or is this run's, or a live refresh's.             *)
LEMMA BarMoves ==
  ASSUME EodAssumption, TypeOK, [Next]_vars, NEW t \in Tickers
  PROVE \/ bar'[t] = bar[t]
        \/ LoadBody /\ bar'[t] = run
        \/ Aside /\ bar'[t] > MaxRuns
  <1>1. CASE LoadBody
    BY <1>1 DEF LoadBody
  <1>2. ASSUME NEW u \in Tickers, RefreshPrices(u)
        PROVE Aside /\ (bar'[t] = bar[t] \/ bar'[t] > MaxRuns)
    <2>1. Aside
      BY <1>2, RefreshIsAside DEF LiveRefresh
    <2>2. Refresh' > MaxRuns
      BY <1>2, EodAssumption DEF RefreshPrices, Refresh, TypeOK, WebType, EodAssumption
    <2> QED
      BY <1>2, <2>1, <2>2 DEF RefreshPrices, TypeOK, DataType
  <1> QED
    BY <1>1, <1>2, BarWriters

LEMMA BoundedStep ==
  ASSUME EodAssumption, TypeOK, Bounded, [Next]_vars PROVE Bounded'
  <1>0. run \in Nat
    BY EodAssumption DEF EodAssumption, TypeOK, ProcessType
  <1>1. CASE StartRun
    <2>1. run < run'
      BY <1>0, <1>1 DEF StartRun
    <2>2. run' \in Nat /\ run' > 0
      BY <1>0, <1>1 DEF StartRun
    <2>3. UNCHANGED <<made, source, bar, dq>> /\ stage' = Extract
      BY <1>1 DEF StartRun
    <2>4. \A i \in Steps : made[i] \in Nat
      BY DEF TypeOK, RecordType
    <2>5. \A s \in Sources : source[s] \in Nat
      BY DEF TypeOK, RecordType
    <2>6. (\A t \in Tickers : bar[t] \in Nat) /\ dq \in Nat
      BY DEF TypeOK, RecordType, DataType
    <2> QED
      BY <1>0, <2>1, <2>2, <2>3, <2>4, <2>5, <2>6 DEF Bounded
  <1>2. CASE /\ UNCHANGED run /\ (pc' # "idle" => pc # "idle")
             /\ pc' = "idle" => stage' = Extract \/ UNCHANGED <<pc, stage>>
             /\ pc' = "macro" => UNCHANGED <<pc, stage>>
    <2>1. /\ pc' # "idle" => run' > 0
          /\ pc' \in {"idle", "macro"} => stage' = Extract
      BY <1>2 DEF Bounded
    <2>2. \A i \in Steps : made'[i] <= run'
      <3>1. ASSUME NEW i \in Steps, made' = Produced(i)
            PROVE \A j \in Steps : made'[j] <= run'
        BY <1>0, <1>2, <3>1 DEF Produced, Bounded, TypeOK, RecordType
      <3>2. \/ made' = Produced(Macro) \/ made' = Produced(Load)
            \/ made' = Produced(Technicals) \/ made' = Produced(Flows)
            \/ made' = Produced(Scores) \/ made' = Produced(Brief) \/ UNCHANGED made
        BY HistoryWriters DEF FetchMacro, LoadBody, DataQualityBody,
                              ComputeTechnicals, ComputeFlows, ComputeScores, GenerateBrief
      <3>3. CASE UNCHANGED made
        BY <1>2, <3>3 DEF Bounded
      <3> QED
        BY <3>1, <3>2, <3>3
    <2>3. \A s \in Sources : source'[s] <= run'
      <3>1. ASSUME NEW names, source' = Stamp(names)
            PROVE \A s \in Sources : source'[s] <= run'
        BY <1>0, <1>2, <3>1 DEF Stamp, Bounded
      <3>2. (\E names : source' = Stamp(names)) \/ UNCHANGED source
        BY SourceWriters DEF FetchMacro, LoadBody, MarkFlows, ComputeScores, GenerateBrief,
                            RecordSuccess
      <3> QED
        BY <1>2, <3>1, <3>2 DEF Bounded
    <2>4. \A t \in Tickers : bar'[t] <= run' \/ bar'[t] > MaxRuns
      BY <1>0, <1>2, BarMoves DEF Bounded
    <2>5. dq' <= run'
      <3>1. dq' = dq \/ dq' = run
        BY HistoryWriters DEF FetchMacro, LoadBody, DataQualityBody,
                              ComputeTechnicals, ComputeFlows, ComputeScores, GenerateBrief
      <3> QED
        BY <1>0, <1>2, <3>1 DEF Bounded
    <2> QED
      BY <2>1, <2>2, <2>3, <2>4, <2>5 DEF Bounded
  <1> QED
    BY <1>1, <1>2, RunMoves

(* Every action is one of four kinds of move, or a stutter.               *)
SameStamp == source'["eod_update"] = source["eod_update"]
Starts == pc = "idle" /\ pc' = "macro" /\ run' = run + 1 /\ SameStamp /\ UNCHANGED made
Produces(i) == /\ pc # "idle" /\ pc' # "idle" /\ UNCHANGED run /\ SameStamp
               /\ Done = i - 1 /\ Done' = i /\ made' = Produced(i)
Continues == /\ pc # "idle" /\ pc' # "idle" /\ UNCHANGED <<run, made>> /\ SameStamp
             /\ Done' = Done
Stops == /\ pc # "idle" /\ pc' = "idle" /\ UNCHANGED <<run, made>>
         /\ SameStamp \/ (pc = "record" /\ source'["eod_update"] = run)

LEMMA EodStampMoves ==
  ASSUME TypeOK, [Next]_vars
  PROVE RecordSuccess \/ SameStamp
  <1> USE DEF SameStamp
  <1>1. ASSUME NEW names, "eod_update" \notin names, source' = Stamp(names)
        PROVE SameStamp
    BY <1>1 DEF Stamp, Sources
  <1>2. FetchMacro => SameStamp
    BY <1>1 DEF FetchMacro
  <1>3. LoadBody => SameStamp
    BY <1>1 DEF LoadBody, LoadSources
  <1>4. MarkFlows \/ ComputeScores \/ GenerateBrief => SameStamp
    BY <1>1 DEF MarkFlows, ComputeScores, GenerateBrief
  <1> QED
    BY <1>2, <1>3, <1>4, SourceWriters

LEMMA DoneMoves ==
  ASSUME TypeOK, Bounded, [Next]_vars
  PROVE \/ Starts
        \/ Produces(Macro) \/ Produces(Load) \/ Produces(Technicals) \/ Produces(Flows)
        \/ Produces(Scores) \/ Produces(Brief)
        \/ Continues \/ Stops \/ Aside
  <1>0. stage \in Stages
    BY DEF TypeOK, ProcessType
  <1>1. CASE StartRun
    BY <1>1, EodStampMoves DEF StartRun, Starts, RecordSuccess
  <1>2. FetchMacro => Produces(Macro)
    <2> SUFFICES ASSUME FetchMacro PROVE Produces(Macro)
      OBVIOUS
    <2>1. SameStamp
      BY EodStampMoves DEF FetchMacro, RecordSuccess
    <2>2. pc = "macro" /\ pc' = "begin" /\ UNCHANGED <<run, stage>> /\ made' = Produced(Macro)
      BY DEF FetchMacro, GoTo
    <2>3. Done = 0 /\ Done' = 1
      BY <1>0, <2>2 DEF Done, Bounded
    <2> QED
      BY <2>1, <2>2, <2>3 DEF Produces
  <1>3. LoadBody => Produces(Load)
    BY <1>0, EodStampMoves DEF LoadBody, Produces, Done, GoTo, RecordSuccess
  <1>4. ComputeTechnicals => Produces(Technicals)
    BY <1>0, EodStampMoves DEF ComputeTechnicals, Produces, Done, GoTo, RecordSuccess
  <1>5. ComputeFlows => Produces(Flows)
    BY <1>0, EodStampMoves DEF ComputeFlows, Produces, Done, GoTo, RecordSuccess
  <1>6. ComputeScores => Produces(Scores)
    BY <1>0, EodStampMoves DEF ComputeScores, Produces, Done, GoTo, RecordSuccess
  <1>7. GenerateBrief => Produces(Brief)
    BY <1>0, EodStampMoves DEF GenerateBrief, Produces, Done, GoTo, RecordSuccess
  <1>8. BeginStage \/ ExtractBody \/ TransformBody \/ DataQualityBody \/ FinishStage \/ MarkFlows
          => Continues
    BY <1>0, EodStampMoves DEF BeginStage, ExtractBody, TransformBody, DataQualityBody,
         FinishStage, AfterPipeline, MarkFlows, Continues, Done, GoTo, RecordSuccess
  <1>9. StageRaises \/ StepFails \/ Crash \/ RecordFails => Stops
    BY EodStampMoves DEF StageRaises, StepFails, Crash, RecordFails, Stops, Stop, SameStamp
  <1>10. RecordSuccess => Stops
    BY DEF RecordSuccess, Stops, Stop, Stamp, Sources
  <1> QED
    BY <1>1, <1>2, <1>3, <1>4, <1>5, <1>6, <1>7, <1>8, <1>9, <1>10, Moves DEF Proceed

(* The Python steps implement the ordered update: every action of the      *)
(* detailed specification is an action of the abstract one or a stutter.   *)
LEMMA DoneType == ASSUME TypeOK PROVE Done \in 0..6
  BY DEF TypeOK, ProcessType, Done

LEMMA RefinesStep ==
  ASSUME TypeOK, Bounded, [Next]_vars PROVE [Promise!Next]_(Promise!vars)
  <1>1. Starts => Promise!Begin
    BY DEF Starts, SameStamp, Promise!Begin, Done
  <1>2. ASSUME NEW i \in Steps, Produces(i) PROVE Promise!Produce
    BY <1>2 DEF Produces, SameStamp, Promise!Produce, Produced
  <1>3. Continues => UNCHANGED Promise!vars
    BY DEF Continues, SameStamp, Promise!vars
  <1>4. Stops => Promise!Abandon \/ Promise!Finish
    BY DEF Stops, SameStamp, Promise!Abandon, Promise!Finish, Done
  <1>5. Aside => UNCHANGED Promise!vars
    BY DEF Aside, process, Promise!vars, Done
  <1> QED
    BY <1>1, <1>2, <1>3, <1>4, <1>5, DoneMoves DEF Promise!Next

THEOREM Refinement == Spec => ImplementsOrderedUpdate
  <1>1. Init => Promise!Init
    BY DEF Init, Promise!Init, Done, Sources
  <1>2. TypeOK /\ Bounded /\ [Next]_vars => [Promise!Next]_(Promise!vars)
    BY RefinesStep
  <1>3. Init => Bounded
    BY DEF Init, Bounded
  <1>4. TypeOK /\ Bounded /\ [Next]_vars => Bounded'
    BY BoundedStep, EodAssumption
  <1> QED
    BY <1>1, <1>2, <1>3, <1>4, TypeCorrect, PTL
       DEF Spec, ImplementsOrderedUpdate, Promise!Spec

------------------------------------------------------------------------------
(* The current run, its log rows and its stamp.                            *)
LEMMA ProgressStep ==
  ASSUME EodAssumption, TypeOK, Bounded, Progress, [Next]_vars PROVE Progress'
  <1>0. run \in Nat
    BY EodAssumption DEF EodAssumption, TypeOK, ProcessType
  <1>a. \A i \in Steps : made[i] \in Nat /\ made[i] <= run
    BY DEF TypeOK, RecordType, Bounded
  <1>b. source["eod_update"] \in Nat /\ source["eod_update"] <= run
    BY DEF TypeOK, RecordType, Bounded, Sources
  <1>1. CASE Starts
    <2>1. Done' = 0 /\ ~DqDone'
      BY <1>1 DEF Starts, Done, DqDone
    <2>2. UNCHANGED dq /\ run' <= MaxRuns
      BY <1>1, HistoryWriters, ProcessStep, RefreshCount
         DEF Starts, LoadBody, ComputeTechnicals, ComputeFlows, ComputeScores, GenerateBrief,
             FetchMacro, DataQualityBody, TypeOK, ProcessType
    <2>3. \A t \in Tickers : bar'[t] # run'
      <3>1. ~LoadBody /\ ~Aside
        BY <1>0, <1>1 DEF Starts, LoadBody, Aside, process
      <3>2. \A t \in Tickers : bar'[t] = bar[t]
        BY <3>1, BarMoves
      <3> QED
        BY <1>0, <1>1, <2>2, <3>2, EodAssumption
           DEF Bounded, TypeOK, DataType, Starts, EodAssumption
    <2>4. dq \in Nat /\ dq <= run
      BY DEF TypeOK, RecordType, Bounded
    <2>5. run' = run + 1 /\ UNCHANGED made /\ SameStamp
      BY <1>1 DEF Starts
    <2> QED
      BY <1>0, <1>a, <1>b, <2>1, <2>2, <2>3, <2>4, <2>5 DEF Progress, SameStamp
  <1>2. ASSUME pc # "idle", pc' # "idle", UNCHANGED run
        PROVE  /\ Done' < Load => \A t \in Tickers : bar'[t] # run'
               /\ IF DqDone' THEN dq' = run' ELSE dq' < run'
    <2>1. Done' < Load => Done < Load /\ \A t \in Tickers : bar'[t] = bar[t] \/ bar'[t] # run
      <3>1. LoadBody \/ \A t \in Tickers : bar'[t] = bar[t] \/ bar'[t] # run
        BY <1>0, BarMoves, EodAssumption DEF TypeOK, ProcessType, EodAssumption
      <3>2. LoadBody => Done' = 2
        BY DEF LoadBody, GoTo, Done, TypeOK, ProcessType
      <3>3. Done' < Load => Done < Load
        <4>1. Aside => Done' = Done
          BY DEF Aside, process, Done
        <4>2. \A i \in Steps : Produces(i) => Done' = Done + 1
          BY DoneType DEF Produces
        <4> QED
          BY <1>2, <4>1, <4>2, DoneMoves, DoneType DEF Starts, Continues, Stops
      <3> QED
        BY <3>1, <3>2, <3>3
    <2>2. \/ DqDone' /\ dq' = run
          \/ (DqDone <=> DqDone') /\ UNCHANGED dq
      <3>1. DataQualityBody \/ UNCHANGED dq
        BY HistoryWriters DEF FetchMacro, LoadBody, ComputeTechnicals,
             ComputeFlows, ComputeScores, GenerateBrief
      <3>2. DataQualityBody => DqDone' /\ dq' = run
        BY DEF DataQualityBody, GoTo, DqDone
      <3>3. DataQualityBody \/ (DqDone <=> DqDone')
        <4>0. stage \in Stages
          BY DEF TypeOK, ProcessType
        <4>1. FinishStage => (DqDone <=> DqDone')
          BY <4>0 DEF FinishStage, AfterPipeline, DqDone
        <4>2. \/ DataQualityBody \/ FinishStage
              \/ UNCHANGED <<pc, stage>>
              \/ pc \in {"macro", "begin"} /\ pc' \in {"begin", "body"}
              \/ pc = "body" /\ stage # DataQuality /\ pc' = "finish" /\ UNCHANGED stage
              \/ /\ pc \in {"technicals", "flows", "mark_flows", "scores", "brief"}
                 /\ pc' \in {"flows", "mark_flows", "scores", "brief", "record"}
          BY <1>2, Moves DEF Aside, Proceed, process, GoTo, Stop, StartRun, FetchMacro,
               BeginStage, ExtractBody, TransformBody, LoadBody, StageRaises,
               ComputeTechnicals, ComputeFlows, MarkFlows, ComputeScores, GenerateBrief,
               StepFails, Crash, RecordSuccess, RecordFails
        <4> QED
          BY <4>1, <4>2 DEF DqDone
      <3> QED
        BY <3>1, <3>2, <3>3
    <2>3. \A t \in Tickers : Done < Load => bar[t] # run
      BY <1>2 DEF Progress
    <2>4. IF DqDone THEN dq = run ELSE dq < run
      BY <1>2 DEF Progress
    <2> QED
      BY <1>2, <2>1, <2>2, <2>3, <2>4
  <1>3. ASSUME NEW i \in Steps, Produces(i)
        PROVE Progress'
    <2>1. /\ pc # "idle" /\ UNCHANGED run /\ pc' # "idle" /\ Done = i - 1 /\ Done' = i
          /\ made' = Produced(i) /\ SameStamp
      BY <1>3 DEF Produces
    <2>2. \A j \in Steps : IF j <= i THEN made'[j] = run ELSE made'[j] < run
      BY <1>0, <1>a, <2>1 DEF Progress, Produced, TypeOK, RecordType
    <2> QED
      BY <1>2, <2>1, <2>2 DEF Progress, SameStamp
  <1>4. CASE Continues
    BY <1>2, <1>4 DEF Continues, Progress, SameStamp
  <1>5. CASE Stops
    BY <1>5 DEF Stops, Progress
  <1>6. CASE Aside
    <2>1. UNCHANGED <<pc, stage, run, made, dq, source>> /\ Done' = Done
          /\ (DqDone' <=> DqDone)
      BY <1>6 DEF Aside, process, Done, DqDone
    <2> QED
      BY <1>2, <2>1 DEF Progress
  <1> QED
    BY <1>1, <1>3, <1>4, <1>5, <1>6, DoneMoves

LEMMA LoggedStep ==
  ASSUME EodAssumption, TypeOK, Bounded, Logged, [Next]_vars PROVE Logged'
  <1>0. run \in 0..MaxRuns /\ MaxRuns \in Nat /\ stage \in Stages /\ (pc # "idle" => run \in 1..MaxRuns)
    BY EodAssumption DEF EodAssumption, TypeOK, ProcessType, Bounded
  <1>1. log \in [1..MaxRuns -> [Stages -> Status]]
    BY DEF TypeOK, RecordType
  <1>2. CASE StartRun
    BY <1>0, <1>1, <1>2 DEF StartRun, Logged
  <1>3. CASE FetchMacro
    BY <1>0, <1>1, <1>3 DEF FetchMacro, GoTo, Logged, Bounded
  <1>4. CASE BeginStage
    BY <1>0, <1>1, <1>4 DEF BeginStage, GoTo, Logged
  <1>5. CASE ExtractBody \/ TransformBody \/ LoadBody \/ DataQualityBody
    BY <1>5 DEF ExtractBody, TransformBody, LoadBody, DataQualityBody, GoTo, Logged
  <1>6. CASE FinishStage
    BY <1>0, <1>1, <1>6 DEF FinishStage, AfterPipeline, Logged
  <1>7. CASE StageRaises
    BY <1>0, <1>1, <1>7 DEF StageRaises, Stop, Logged
  <1>8. CASE ComputeTechnicals \/ ComputeFlows \/ MarkFlows \/ ComputeScores \/ GenerateBrief
    BY <1>8 DEF ComputeTechnicals, ComputeFlows, MarkFlows, ComputeScores, GenerateBrief,
                GoTo, Logged
  <1>9. CASE StepFails \/ Crash \/ RecordSuccess \/ RecordFails
    BY <1>9 DEF StepFails, Crash, RecordSuccess, RecordFails, Stop, Logged
  <1>10. CASE Aside
    BY <1>10 DEF Aside, process, Logged
  <1> QED
    BY <1>2, <1>3, <1>4, <1>5, <1>6, <1>7, <1>8, <1>9, <1>10, Moves DEF Proceed

LEMMA EodStampStep ==
  ASSUME EodAssumption, TypeOK, Bounded, Progress, Logged, EodStampEarned, [Next]_vars
  PROVE EodStampEarned'
  <1>0. run \in Nat /\ (pc # "idle" => run \in 1..MaxRuns) /\ stage \in Stages
    BY EodAssumption DEF EodAssumption, TypeOK, ProcessType, Bounded
  <1>1. \A i \in Steps : made[i] \in Nat /\ made[i] <= run
    BY DEF TypeOK, RecordType, Bounded
  <1>2. source["eod_update"] \in Nat
    BY DEF TypeOK, RecordType, Sources
  <1>3. CASE RecordSuccess
    <2>1. source'["eod_update"] = run /\ UNCHANGED <<log, made>> /\ pc = "record"
      BY <1>3 DEF RecordSuccess, Stamp, Sources
    <2>2. Done = 6
      BY <2>1 DEF Done
    <2>3. (\A i \in Steps : made[i] = run) /\ \A k \in Stages : log[run][k] = "Success"
      BY <2>1, <2>2 DEF Progress, Logged
    <2> QED
      BY <1>0, <2>1, <2>3 DEF EodStampEarned
  <1>4. CASE SameStamp
    <2>1. \A i \in Steps : made'[i] >= made[i]
      <3>1. ASSUME NEW i \in Steps, made' = Produced(i)
            PROVE \A j \in Steps : made'[j] >= made[j]
        BY <1>0, <1>1, <3>1 DEF Produced, TypeOK, RecordType
      <3>2. CASE UNCHANGED made
        BY <1>1, <3>2
      <3> QED
        BY <3>1, <3>2, DoneMoves DEF Starts, Produces, Continues, Stops, Aside
    <2>2. source["eod_update"] > 0 =>
            \A k \in Stages : log'[source["eod_update"]][k] = log[source["eod_update"]][k]
      <3>1. BeginStage \/ FinishStage \/ StageRaises =>
              /\ pc # "idle"
              /\ \E s \in Status : log' = [log EXCEPT ![run][stage] = s]
        BY DEF BeginStage, FinishStage, StageRaises, StatusOnError
      <3>2. pc # "idle" => source["eod_update"] < run
        BY DEF Progress
      <3>3. source["eod_update"] <= run /\ run <= MaxRuns
        BY EodAssumption DEF EodAssumption, Bounded, Sources, TypeOK, ProcessType
      <3> QED
        <4>1. ASSUME NEW s \in Status, pc # "idle", log' = [log EXCEPT ![run][stage] = s],
                     source["eod_update"] > 0, NEW k \in Stages
              PROVE log'[source["eod_update"]][k] = log[source["eod_update"]][k]
          <5> DEFINE r == source["eod_update"]
          <5>1. r \in 1..MaxRuns /\ r # run
            BY <1>0, <1>2, <3>2, <3>3, <4>1, EodAssumption DEF EodAssumption
          <5> HIDE DEF r
          <5>2. log'[r][k] = log[r][k]
            BY <4>1, <5>1 DEF TypeOK, RecordType
          <5> QED
            BY <5>2 DEF r
        <4> QED
          BY <3>1, <4>1, LogWriters
    <2>3. \A i \in Steps : made'[i] \in Nat
      BY RecordStep DEF RecordType
    <2> QED
      BY <1>1, <1>2, <1>4, <2>1, <2>2, <2>3 DEF EodStampEarned, SameStamp
  <1> QED
    BY <1>3, <1>4, EodStampMoves

(* The run recorded as successful committed everything it should have, for *)
(* any pattern of failures and kills.                                      *)
THEOREM EodStampCorrect == Spec => []EodStampEarned
  <1>1. Init => Bounded /\ Progress /\ Logged /\ EodStampEarned
    BY DEF Init, Bounded, Progress, Logged, EodStampEarned, Sources
  <1>2. /\ TypeOK /\ Bounded /\ Progress /\ Logged /\ EodStampEarned
        /\ [Next]_vars
        => Bounded' /\ Progress' /\ Logged' /\ EodStampEarned'
    BY BoundedStep, ProgressStep, LoggedStep, EodStampStep, EodAssumption
  <1> QED
    BY <1>1, <1>2, TypeCorrect, PTL DEF Spec

(* What a step can write in the log, and what it then knows.               *)
LEMMA LogMoves ==
  ASSUME TypeOK, Bounded, Progress, Logged, [Next]_vars
  PROVE \/ UNCHANGED log
        \/ /\ pc # "idle"
           /\ \/ pc = "begin" /\ log' = [log EXCEPT ![run][stage] = "Running"]
              \/ pc = "finish" /\ log' = [log EXCEPT ![run][stage] = "Success"]
              \/ pc = "body" /\ log' = [log EXCEPT ![run][stage] = "Failed"]
           /\ UNCHANGED <<made, bar, dq>>
           /\ \A k \in Stages : k < stage => log[run][k] = "Success"
  BY LogWriters DEF BeginStage, FinishStage, StageRaises, StatusOnError, Logged, derived

(* One row of the log is written, the others stay.                         *)
LEMMA OneRow ==
  ASSUME log \in [1..MaxRuns -> [Stages -> Status]], run \in 1..MaxRuns, stage \in Stages,
         NEW s, log' = [log EXCEPT ![run][stage] = s]
  PROVE  /\ log'[run][stage] = s
         /\ \A r \in 1..MaxRuns, k \in Stages : (r # run \/ k # stage) => log'[r][k] = log[r][k]
  <1>1. log' = [log EXCEPT ![run] = [log[run] EXCEPT ![stage] = s]]
    OBVIOUS
  <1>2. /\ log'[run] = [log[run] EXCEPT ![stage] = s]
        /\ \A r \in 1..MaxRuns \ {run} : log'[r] = log[r]
    BY <1>1
  <1>3. log[run] \in [Stages -> Status]
    OBVIOUS
  <1>4. log'[run][stage] = s /\ \A k \in Stages \ {stage} : log'[run][k] = log[run][k]
    BY <1>2, <1>3
  <1> QED
    BY <1>2, <1>4

LEMMA RowsInOrderStep ==
  ASSUME EodAssumption, TypeOK, Bounded, Progress, Logged, RowsInOrder, [Next]_vars
  PROVE RowsInOrder'
  <1>0. stage \in Stages /\ (pc # "idle" => run \in 1..MaxRuns)
    BY EodAssumption DEF EodAssumption, TypeOK, ProcessType, Bounded
  <1>1. CASE UNCHANGED log
    BY <1>1 DEF RowsInOrder
  <1>2. ASSUME NEW s \in Status, pc # "idle", log' = [log EXCEPT ![run][stage] = s],
               \A k \in Stages : k < stage => log[run][k] = "Success",
               \A k \in Stages : k > stage => log[run][k] = "none"
        PROVE RowsInOrder'
    <2> SUFFICES ASSUME NEW r \in 1..MaxRuns, NEW j \in Stages, NEW k \in Stages,
                        j < k, log'[r][k] # "none"
                 PROVE log'[r][j] = "Success"
      BY DEF RowsInOrder
    <2>0. /\ log'[run][stage] = s
          /\ \A q \in 1..MaxRuns, i \in Stages :
               (q # run \/ i # stage) => log'[q][i] = log[q][i]
      BY <1>0, <1>2, OneRow DEF TypeOK, RecordType
    <2>1. CASE r # run
      BY <2>0, <2>1 DEF RowsInOrder
    <2>2. CASE r = run
      BY <1>0, <1>2, <2>0, <2>2 DEF Stages
    <2> QED
      BY <2>1, <2>2
  <1> QED
    BY <1>1, <1>2, LogMoves DEF Logged

LEMMA RowsMatchStep ==
  ASSUME EodAssumption, TypeOK, Bounded, Progress, Logged, RowIsRunning, RowsMatchData,
         [Next]_vars
  PROVE RowsMatchData'
  <1>0. stage \in Stages /\ run \in Nat /\ (pc # "idle" => run \in 1..MaxRuns)
    BY EodAssumption DEF EodAssumption, TypeOK, ProcessType, Bounded
  <1>1. made[Load] \in Nat /\ made[Load] <= run /\ dq \in Nat /\ dq <= run
    BY DEF TypeOK, RecordType, Bounded
  <1>2. MaxRuns \in Nat /\ \A t \in Tickers : bar[t] \in Nat
    BY EodAssumption DEF TypeOK, DataType, EodAssumption
  <1>4. CASE LoadBody
    <2>1. /\ pc = "body" /\ stage = LoadStage /\ UNCHANGED <<log, dq>>
          /\ \A t \in Tickers : bar'[t] = run \/ bar'[t] = bar[t]
      BY <1>4 DEF LoadBody
    <2>2. made'[Load] = run
      BY <1>4 DEF LoadBody, Produced, TypeOK, RecordType
    <2>3. log[run][LoadStage] = "Running" /\ log[run][DataQuality] = "none"
      BY <2>1 DEF RowIsRunning, Logged
    <2>4. \A r \in 1..MaxRuns : r > run => \A k \in Stages : log[r][k] = "none"
      BY DEF Logged
    <2> SUFFICES ASSUME NEW r \in 1..MaxRuns, r < run
                 PROVE  /\ log[r][LoadStage] = "Failed" => \A t \in Tickers : bar'[t] # r
                        /\ log[r][DataQuality] = "Success" => dq >= r
                        /\ log[r][DataQuality] = "Failed" => dq # r
      BY <1>0, <1>1, <2>1, <2>2, <2>3, <2>4 DEF RowsMatchData
    <2> QED
      BY <1>0, <1>2, <2>1 DEF RowsMatchData
  <1>5. CASE DataQualityBody
    <2>1. pc = "body" /\ stage = DataQuality /\ UNCHANGED <<log, made, bar>> /\ dq' = run
      BY <1>5 DEF DataQualityBody
    <2>2. log[run][DataQuality] = "Running"
      BY <2>1 DEF RowIsRunning
    <2>3. \A r \in 1..MaxRuns : r > run => \A k \in Stages : log[r][k] = "none"
      BY DEF Logged
    <2> QED
      BY <1>0, <2>1, <2>2, <2>3 DEF RowsMatchData
  <1>6. ASSUME BeginStage \/ FinishStage \/ StageRaises PROVE RowsMatchData'
    <2>1. /\ pc # "idle" /\ UNCHANGED <<made, bar, dq>>
          /\ \/ pc = "begin" /\ log' = [log EXCEPT ![run][stage] = "Running"]
             \/ pc = "finish" /\ log' = [log EXCEPT ![run][stage] = "Success"]
             \/ pc = "body" /\ log' = [log EXCEPT ![run][stage] = "Failed"]
      BY <1>6 DEF BeginStage, FinishStage, StageRaises, StatusOnError, derived
    <2>0. log \in [1..MaxRuns -> [Stages -> Status]] /\ run \in 1..MaxRuns /\ stage \in Stages
      BY <1>0, <2>1 DEF TypeOK, RecordType
    <2>a. \/ pc = "begin" /\ log'[run][stage] = "Running"
          \/ pc = "finish" /\ log'[run][stage] = "Success"
          \/ pc = "body" /\ log'[run][stage] = "Failed"
      BY <2>0, <2>1, OneRow
    <2>2. \A r \in 1..MaxRuns, k \in Stages :
            (r # run \/ k # stage) => log'[r][k] = log[r][k]
      BY <2>0, <2>1, OneRow
    <2>3. log'[run][stage] = "Success" => pc = "finish"
      BY <2>a
    <2>4. log'[run][stage] = "Failed" => pc = "body"
      BY <2>a
    <2>5. pc = "finish" /\ stage = LoadStage => made[Load] = run
      BY <2>1 DEF Progress, Done
    <2>6. pc = "finish" /\ stage = DataQuality => dq = run
      BY <2>1 DEF Progress, DqDone
    <2>7. pc = "body" /\ stage = LoadStage =>
            made[Load] < run /\ \A t \in Tickers : bar[t] # run
      BY <2>1 DEF Progress, Done
    <2>8. pc = "body" /\ stage = DataQuality => made[Load] = run /\ dq < run
      BY <2>1 DEF Progress, Done, DqDone
    <2> SUFFICES ASSUME NEW r \in 1..MaxRuns
                 PROVE  /\ log'[r][LoadStage] = "Success" => made[Load] >= r
                        /\ log'[r][LoadStage] = "Failed" =>
                             made[Load] # r /\ \A t \in Tickers : bar[t] # r
                        /\ log'[r][DataQuality] = "Success" => dq >= r
                        /\ log'[r][DataQuality] = "Failed" => dq # r /\ made[Load] >= r
      BY <2>1 DEF RowsMatchData
    <2>9. CASE r # run
      BY <2>2, <2>9 DEF RowsMatchData
    <2>10. CASE r = run /\ stage \notin {LoadStage, DataQuality}
      BY <2>2, <2>10 DEF RowsMatchData
    <2>11. CASE r = run /\ stage = LoadStage
      BY <1>0, <1>1, <1>2, <2>2, <2>3, <2>4, <2>5, <2>7, <2>11 DEF RowsMatchData
    <2>12. CASE r = run /\ stage = DataQuality
      BY <1>0, <1>1, <1>2, <2>2, <2>3, <2>4, <2>6, <2>8, <2>12 DEF RowsMatchData
    <2> QED
      BY <1>0, <2>9, <2>10, <2>11, <2>12
  <1> QED
    <2>1. \/ LoadBody \/ DataQualityBody \/ BeginStage \/ FinishStage \/ StageRaises
          \/ (UNCHANGED <<log, dq>> /\ made'[Load] = made[Load])
      <3>1. \A i \in Steps \ {Load} : made' = Produced(i) => made'[Load] = made[Load]
        BY DEF Produced, TypeOK, RecordType
      <3> QED
        BY <3>1, LogWriters, HistoryWriters DEF FetchMacro, ComputeTechnicals,
           ComputeFlows, ComputeScores, GenerateBrief, derived
    <2>2. ASSUME UNCHANGED <<log, dq>>, made'[Load] = made[Load], ~LoadBody
          PROVE RowsMatchData'
      <3>1. \A t \in Tickers : bar'[t] = bar[t] \/ bar'[t] > MaxRuns
        BY <2>2, BarMoves
      <3>2. \A r \in 1..MaxRuns, t \in Tickers : bar[t] # r => bar'[t] # r
        BY <1>2, <3>1
      <3> QED
        BY <2>2, <3>2 DEF RowsMatchData
    <2> QED
      BY <1>4, <1>5, <1>6, <2>1, <2>2

LEMMA RowRunsStep ==
  ASSUME EodAssumption, TypeOK, Bounded, RowIsRunning, [Next]_vars PROVE RowIsRunning'
  <1>0. stage \in Stages /\ (pc # "idle" => run \in 1..MaxRuns)
    BY EodAssumption DEF EodAssumption, TypeOK, ProcessType, Bounded
  <1>1. CASE BeginStage
    BY <1>0, <1>1 DEF BeginStage, GoTo, RowIsRunning, TypeOK, RecordType
  <1>2. CASE ~BeginStage
    <2>1. pc' \in {"body", "finish"} =>
            pc \in {"body", "finish"} /\ UNCHANGED <<run, stage, log>>
      BY <1>2, Moves DEF Aside, Proceed, process, GoTo, Stop, StartRun, FetchMacro,
           ExtractBody, TransformBody, LoadBody, DataQualityBody, FinishStage, AfterPipeline,
           StageRaises, ComputeTechnicals, ComputeFlows, MarkFlows, ComputeScores,
           GenerateBrief, StepFails, Crash, RecordSuccess, RecordFails
    <2> QED
      BY <2>1 DEF RowIsRunning
  <1> QED
    BY <1>1, <1>2

(* The log agrees with the data after every step and every kill.           *)
THEOREM LogCorrect == Spec => []LogTellsTheTruth
  <1> DEFINE Inv == Bounded /\ Progress /\ Logged /\ LogTellsTheTruth
  <1>1. Init => Inv
    BY DEF Init, Bounded, Progress, Logged, LogTellsTheTruth, RowsInOrder, RowsMatchData,
           RowIsRunning, Sources
  <1>2. TypeOK /\ Inv /\ [Next]_vars => Inv'
    BY BoundedStep, ProgressStep, LoggedStep, RowsInOrderStep, RowsMatchStep, RowRunsStep,
       EodAssumption DEF LogTellsTheTruth
  <1>3. Inv => LogTellsTheTruth
    OBVIOUS
  <1> HIDE DEF Inv
  <1> QED
    BY <1>1, <1>2, <1>3, TypeCorrect, PTL DEF Spec

------------------------------------------------------------------------------
(* The stamps.                                                             *)
LEMMA NotedStep ==
  ASSUME EodAssumption, TypeOK, Bounded, Noted, [Next]_vars PROVE Noted'
  <1>0. /\ run \in Nat /\ stage \in Stages /\ fetched \subseteq Tickers
        /\ unstored \in [Tickers -> SUBSET Nat]
    BY EodAssumption DEF EodAssumption, TypeOK, ProcessType, MemoryType, WebType
  <1>1. CASE TransformBody
    BY <1>0, <1>1 DEF TransformBody, GoTo, Noted
  <1>2. CASE ~TransformBody
    <2>1. ASSUME \/ pc' = "finish" /\ stage' = Transform
                 \/ pc' \in {"begin", "body"} /\ stage' = LoadStage
          PROVE  /\ \/ pc = "finish" /\ stage = Transform
                    \/ pc \in {"begin", "body"} /\ stage = LoadStage
                 /\ UNCHANGED <<run, fetched, records>>
      <3>1. CASE Aside
        BY <2>1, <3>1 DEF Aside, process, memory
      <3>2. CASE BeginStage
        BY <2>1, <3>2 DEF BeginStage, GoTo, memory
      <3>3. CASE FinishStage
        BY <1>0, <2>1, <3>3 DEF FinishStage, AfterPipeline, memory
      <3>4. CASE ExtractBody \/ LoadBody \/ DataQualityBody
        BY <2>1, <3>4 DEF ExtractBody, LoadBody, DataQualityBody, GoTo
      <3>5. CASE FetchMacro
        BY <2>1, <3>5 DEF FetchMacro, GoTo, memory, Bounded
      <3>6. pc' \notin {"begin", "body", "finish"} \/ Aside \/ BeginStage \/ FinishStage
              \/ ExtractBody \/ LoadBody \/ DataQualityBody \/ FetchMacro
        BY <1>2, Moves DEF Proceed, GoTo, Stop, StartRun, StageRaises, ComputeTechnicals,
             ComputeFlows, MarkFlows, ComputeScores, GenerateBrief, StepFails, Crash,
             RecordSuccess, RecordFails
      <3> QED
        BY <2>1, <3>1, <3>2, <3>3, <3>4, <3>5, <3>6
    <2>2. \A t \in Tickers : unstored[t] \subseteq unstored'[t]
      BY <1>0, <1>2, UnstoredWriters DEF RefreshPrices
    <2> QED
      BY <1>0, <2>1, <2>2 DEF Noted
  <1> QED
    BY <1>1, <1>2

LEMMA StepStampsStep ==
  ASSUME EodAssumption, TypeOK, Bounded, Progress, StepStampsEarned, [Next]_vars
  PROVE StepStampsEarned'
  <1>0. run \in Nat /\ \A i \in Steps : made[i] \in Nat /\ made[i] <= run
    BY EodAssumption DEF EodAssumption, TypeOK, ProcessType, RecordType, Bounded
  <1>1. \A s \in Sources : source[s] \in Nat /\ source[s] <= run
    BY DEF TypeOK, RecordType, Bounded
  <1>2. \A i \in Steps : made'[i] = run \/ made'[i] = made[i]
    <2>1. ASSUME NEW i \in Steps, made' = Produced(i)
          PROVE \A j \in Steps : made'[j] = run \/ made'[j] = made[j]
      BY <2>1 DEF Produced, TypeOK, RecordType
    <2> QED
      BY <2>1, DoneMoves DEF Starts, Produces, Continues, Stops, Aside
  <1>a. ComputeScores \/ UNCHANGED <<score, skipped>>
    BY TableWriters DEF ComputeFlows, GenerateBrief, memo
  <1>b. GenerateBrief \/ UNCHANGED brief
    BY TableWriters DEF ComputeFlows, ComputeScores
  <1>c. pc \in {"scores", "brief"} => made[Macro] = run
    BY DEF Progress, Done
  <1>3. ASSUME NEW names \in SUBSET Sources, source' = Stamp(names),
               "macro" \in names \/ "fx" \in names => made'[Macro] = run,
               "sector_flows" \in names => made'[Flows] = run,
               "scores" \in names => ComputeScores,
               "brief" \in names => GenerateBrief
        PROVE StepStampsEarned'
    <2>1. \A s \in Sources : source'[s] = IF s \in names THEN run ELSE source[s]
      BY <1>3 DEF Stamp
    <2>2. source'["macro"] <= made'[Macro] /\ source'["fx"] <= made'[Macro]
      BY <1>0, <1>1, <1>2, <1>3, <2>1 DEF StepStampsEarned, Sources
    <2>3. source'["sector_flows"] <= made'[Flows]
      BY <1>0, <1>1, <1>2, <1>3, <2>1 DEF StepStampsEarned, Sources
    <2>4. \A s \in Stocks \ skipped' : source'["scores"] <= score'[s].macro
      <3>1. CASE ComputeScores
        <4>1. \A s \in Stocks \ skipped' : score'[s].macro = run
          BY <1>c, <3>1 DEF ComputeScores
        <4>2. source'["scores"] <= run
          BY <1>0, <1>1, <2>1 DEF Sources
        <4> QED
          BY <4>1, <4>2
      <3>2. CASE ~ComputeScores
        <4>1. source'["scores"] = source["scores"]
          BY <1>3, <2>1, <3>2 DEF Sources
        <4> QED
          BY <1>a, <3>2, <4>1 DEF StepStampsEarned
      <3> QED
        BY <3>1, <3>2
    <2>5. source'["brief"] <= brief'.macro
      <3>1. CASE GenerateBrief
        <4>1. brief'.macro = run
          BY <1>c, <3>1 DEF GenerateBrief
        <4>2. source'["brief"] <= run
          BY <1>0, <1>1, <2>1 DEF Sources
        <4> QED
          BY <4>1, <4>2
      <3>2. CASE ~GenerateBrief
        <4>1. source'["brief"] = source["brief"]
          BY <1>3, <2>1, <3>2 DEF Sources
        <4> QED
          BY <1>b, <3>2, <4>1 DEF StepStampsEarned
      <3> QED
        BY <3>1, <3>2
    <2> QED
      BY <2>2, <2>3, <2>4, <2>5 DEF StepStampsEarned
  <1>4. CASE FetchMacro
    <2>1. PICK fx \in SUBSET {"fx"} : source' = Stamp({"macro"} \cup fx)
      BY <1>4 DEF FetchMacro
    <2>2. made'[Macro] = run
      BY <1>4 DEF FetchMacro, Produced, TypeOK, RecordType
    <2> QED
      BY <1>3, <2>1, <2>2 DEF Sources
  <1>5. CASE LoadBody
    BY <1>3, <1>5 DEF LoadBody, LoadSources, Sources
  <1>6. CASE MarkFlows
    <2>1. made'[Flows] = run
      BY <1>6 DEF MarkFlows, Progress, Done
    <2> QED
      BY <1>3, <1>6, <2>1 DEF MarkFlows, Sources
  <1>7. CASE ComputeScores
    <2>1. source' = Stamp({"scores"})
      BY <1>7 DEF ComputeScores
    <2> QED
      BY <1>3, <1>7, <2>1 DEF Sources
  <1>8. CASE GenerateBrief
    <2>1. source' = Stamp({"brief"})
      BY <1>8 DEF GenerateBrief
    <2> QED
      BY <1>3, <1>8, <2>1 DEF Sources
  <1>9. CASE RecordSuccess
    BY <1>3, <1>9 DEF RecordSuccess, Sources
  <1>10. CASE UNCHANGED source
    <2>1. ~ComputeScores /\ ~GenerateBrief =>
            /\ \A s \in Stocks \ skipped' : source'["scores"] <= score'[s].macro
            /\ source'["brief"] <= brief'.macro
      BY <1>10, <1>a, <1>b DEF StepStampsEarned
    <2>2. /\ source'["macro"] <= made'[Macro] /\ source'["fx"] <= made'[Macro]
          /\ source'["sector_flows"] <= made'[Flows]
      BY <1>0, <1>1, <1>2, <1>10 DEF StepStampsEarned, Sources
    <2> QED
      BY <1>7, <1>8, <2>1, <2>2 DEF StepStampsEarned
  <1> QED
    BY <1>4, <1>5, <1>6, <1>7, <1>8, <1>9, <1>10, SourceWriters

LEMMA StockStampsStep ==
  ASSUME EodAssumption, TypeOK, Noted, StockStampsEarned, [Next]_vars
  PROVE StockStampsEarned'
  <1>0. /\ records \subseteq fetched /\ unstored \in [Tickers -> SUBSET Nat]
        /\ bar \in [Tickers -> Nat] /\ stockStamp \in [Tickers -> Nat]
    BY DEF TypeOK, MemoryType, WebType, DataType, RecordType
  <1>a. \A t \in Tickers : unstored[t] \subseteq unstored'[t]
    BY <1>0, UnstoredWriters DEF RefreshPrices, TransformBody
  <1>1. CASE LoadBody
    <2>1. \A t \in Tickers : /\ stockStamp'[t] = IF t \in fetched THEN run ELSE stockStamp[t]
                             /\ bar'[t] = IF t \in records THEN run ELSE bar[t]
      BY <1>1 DEF LoadBody, PricesMarked
    <2>2. \A t \in fetched \ records : run \in unstored[t]
      BY <1>1 DEF LoadBody, Noted
    <2> QED
      BY <1>0, <1>a, <2>1, <2>2 DEF StockStampsEarned
  <1>2. ASSUME NEW u \in Tickers, RefreshPrices(u) PROVE StockStampsEarned'
    <2> SUFFICES ASSUME NEW t \in Tickers
                 PROVE stockStamp'[t] = bar'[t] \/ stockStamp'[t] \in unstored'[t]
      BY DEF StockStampsEarned
    <2>1. CASE t = u
      BY <1>0, <1>2, <2>1 DEF RefreshPrices
    <2>2. CASE t # u
      BY <1>0, <1>a, <1>2, <2>2 DEF RefreshPrices, StockStampsEarned
    <2> QED
      BY <2>1, <2>2
  <1>3. CASE UNCHANGED <<stockStamp, bar>>
    BY <1>a, <1>3 DEF StockStampsEarned
  <1> QED
    BY <1>1, <1>2, <1>3, StockStampWriters

LEMMA PriceStampStep ==
  ASSUME EodAssumption, TypeOK, Bounded, PriceStampEarned, [Next]_vars
  PROVE PriceStampEarned'
  <1>0. /\ run \in Nat /\ MaxRuns \in Nat /\ run <= MaxRuns
        /\ \A t \in Tickers : bar[t] \in Nat /\ (bar[t] <= run \/ bar[t] > MaxRuns)
    BY EodAssumption DEF EodAssumption, TypeOK, ProcessType, DataType, Bounded
  <1>1. source["prices"] \in Nat /\ source["prices"] <= run
    BY DEF TypeOK, RecordType, Bounded, Sources
  <1>2. CASE LoadBody
    <2>1. \A t \in Tickers : bar'[t] = IF t \in records THEN run ELSE bar[t]
      BY <1>2 DEF LoadBody
    <2>2. source'["prices"] = IF records # {} THEN run ELSE source["prices"]
      BY <1>2 DEF LoadBody, Stamp, Sources, LoadSources
    <2>3. records \subseteq Tickers
      BY DEF TypeOK, MemoryType
    <2> QED
      BY <1>0, <1>1, <2>1, <2>2, <2>3 DEF PriceStampEarned
  <1>4. ASSUME NEW names, "prices" \notin names, source' = Stamp(names)
        PROVE source'["prices"] = source["prices"]
    BY <1>4 DEF Stamp, Sources
  <1>5. LoadBody \/ source'["prices"] = source["prices"]
    <2>1. FetchMacro => source'["prices"] = source["prices"]
      BY <1>4 DEF FetchMacro
    <2>2. MarkFlows \/ ComputeScores \/ GenerateBrief \/ RecordSuccess
            => source'["prices"] = source["prices"]
      BY <1>4 DEF MarkFlows, ComputeScores, GenerateBrief, RecordSuccess
    <2> QED
      BY <2>1, <2>2, SourceWriters
  <1>6. CASE ~LoadBody
    <2>1. \A t \in Tickers : bar'[t] = bar[t] \/ bar'[t] > MaxRuns
      BY <1>6, BarMoves
    <2>2. bar' \in [Tickers -> Nat]
      BY DataStep DEF DataType
    <2>3. ASSUME source["prices"] > 0, NEW t \in Tickers, bar[t] >= source["prices"]
          PROVE bar'[t] >= source["prices"]
      BY <1>0, <1>1, <2>1, <2>2, <2>3
    <2> QED
      BY <1>5, <1>6, <2>3 DEF PriceStampEarned
  <1> QED
    BY <1>2, <1>6

(* No timestamp is of data that was not committed: a source's never, a     *)
(* ticker's PricesFetchedAt but for a fetch that left no row to store.     *)
THEOREM StampsCorrect == Spec => []StampsNeverAhead
  <1> DEFINE Inv == Bounded /\ Progress /\ Noted /\ StampsNeverAhead
  <1>1. Init => Inv
    BY DEF Init, Bounded, Progress, Noted, StampsNeverAhead, StepStampsEarned,
           StockStampsEarned, PriceStampEarned, Sources
  <1>2. TypeOK /\ Inv /\ [Next]_vars => Inv'
    BY BoundedStep, ProgressStep, NotedStep, StepStampsStep, StockStampsStep,
       PriceStampStep, EodAssumption DEF StampsNeverAhead
  <1>3. Inv => StampsNeverAhead
    OBVIOUS
  <1> HIDE DEF Inv
  <1> QED
    BY <1>1, <1>2, <1>3, TypeCorrect, PTL DEF Spec
==============================================================================
