----------------------------- MODULE RecentNews ------------------------------
(***************************************************************************)
(* The news half of a load, as the database sees it: upsert_news_articles  *)
(* followed by refresh_recent_news, in one READ COMMITTED transaction of   *)
(* the pipeline (all tickers) or of a live refresh (one ticker).  Writers  *)
(* run in different processes and meet only in PostgreSQL's row locks and  *)
(* in the primary key of StockRecentNews.                                  *)
(*                                                                         *)
(* An action is one SQL statement.  What a transaction has not committed   *)
(* is kept beside the tables (locked, added, deleted, inserted): its own   *)
(* statements see it, the others wait for it.                              *)
(***************************************************************************)
EXTENDS Integers, FiniteSets, Relation

CONSTANTS
  Tickers,        \* numbered in ORDER BY "Ticker"
  Articles,       \* headlines of the lookback window with a link, numbered by PublishedAt
  About,          \* About[a]: the tickers the headline names (mentions_stock)
  Pipelines,      \* transactions of pipeline runs
  Live,           \* transactions of live refreshes
  PanelSize       \* NEWS_COUNT

Writers == Pipelines \cup Live
Nobody == 0                         \* no ticker: the article is not stored

ASSUME NewsAssumption ==
  /\ Tickers \subseteq Nat \ {Nobody} /\ IsFiniteSet(Tickers)
  /\ Articles \subseteq Nat /\ IsFiniteSet(Articles)
  /\ About \in [Articles -> SUBSET Tickers]
  /\ PanelSize \in 1..10            \* CHECK ("Rank" BETWEEN 1 AND 10)

(* The transactions of earlier days are none of these.                     *)
ASSUME EarlierAssumption == "before" \notin Writers

VARIABLES
  \* the database
  stored,         \* NewsArticles: the ticker whose AssetKey the article carries
  panel,          \* StockRecentNews: rows [ticker, rank, article, by]
  \* the transactions
  pc,
  todo,           \* articles fetched and not yet upserted: [ticker, article]
  queue,          \* tickers whose panel is still to refresh
  current,        \* the ticker being refreshed
  picked,         \* select_recent's answer, not yet inserted
  victims,        \* the rows the DELETE found when it started
  locked,         \* articles upserted in this transaction
  added,          \* articles it inserted: [ticker, article]
  deleted,        \* panel rows it deleted
  inserted        \* panel rows it inserted

database == <<stored, panel>>
uncommitted == <<locked, added, deleted, inserted>>
vars == <<database, uncommitted, pc, todo, queue, current, picked, victims>>

Row == [ticker : Tickers, rank : 1..10, article : Articles, by : Writers \cup {"before"}]
PC == {"fetch", "upsert", "select", "delete", "wait", "insert", "done", "failed"}
InFlight == {w \in Writers : pc[w] \in {"upsert", "select", "delete", "wait", "insert"}}

RankFromZero(a, S) == Cardinality({b \in S : b > a})      \* mutant: enumerate(picked)

(* The newest headlines of S, numbered by rank: what select_recent returns *)
(* and the INSERTs number from 1.                                          *)
RankIn(a, S) == 1 + Cardinality({b \in S : b > a})

Newest(S, t, w) ==
  {[ticker |-> t, rank |-> RankIn(a, S), article |-> a, by |-> w] :
     a \in {b \in S : RankIn(b, S) <= PanelSize}}

PanelOf(t) == {r \in panel : r.ticker = t}
StoredFor(t) == {a \in Articles : stored[a] = t}

(* Any stored articles, and the panel the last refresh made of them.       *)
Init ==
  /\ stored \in {f \in [Articles -> Tickers \cup {Nobody}] :
                   \A a \in Articles : f[a] \in About[a] \cup {Nobody}}
  /\ panel = UNION {Newest(StoredFor(t), t, "before") : t \in Tickers}
  /\ pc = [w \in Writers |-> "fetch"]
  /\ todo = [w \in Writers |-> {}]
  /\ queue = [w \in Writers |-> {}]
  /\ current = [w \in Writers |-> Nobody]
  /\ picked = [w \in Writers |-> {}]
  /\ victims = [w \in Writers |-> {}]
  /\ locked = [w \in Writers |-> {}]
  /\ added = [w \in Writers |-> {}]
  /\ deleted = [w \in Writers |-> {}]
  /\ inserted = [w \in Writers |-> {}]

------------------------------------------------------------------------------
(* What the feeds of the tickers in T return: any of the headlines that    *)
(* name the ticker, none when no feed was reached.  A headline that came   *)
(* in under an earlier ticker is dropped (check_duplicate_news).           *)
Feeds(T) ==
  {F \in SUBSET [ticker : T, article : Articles] :
     /\ \A f \in F : f.ticker \in About[f.article]
     /\ \A f, g \in F : f.article = g.article => f = g}

Fetch(w) ==
  /\ pc[w] = "fetch"
  /\ \E T \in IF w \in Pipelines THEN {Tickers} ELSE {{t} : t \in Tickers} :
       /\ \E F \in Feeds(T) : todo' = [todo EXCEPT ![w] = F]
       /\ queue' = [queue EXCEPT ![w] = T]
  /\ pc' = [pc EXCEPT ![w] = "upsert"]
  /\ UNCHANGED <<database, uncommitted, current, picked, victims>>

(* Ticker by ticker, newest first.                                         *)
First(F) ==
  CHOOSE f \in F : \A g \in F : \/ f.ticker < g.ticker
                                \/ f.ticker = g.ticker /\ f.article >= g.article

(* The transactions a statement of w waits for.                            *)
UpsertWaitsFor(w) ==
  IF todo[w] = {} THEN {} ELSE {u \in InFlight \ {w} : First(todo[w]).article \in locked[u]}

DeleteWaitsFor(w) == {u \in InFlight \ {w} : victims[w] \cap deleted[u] # {}}

SameKey(r, s) == r.ticker = s.ticker /\ r.rank = s.rank

FirstPicked(w) == CHOOSE r \in picked[w] : \A s \in picked[w] : r.rank <= s.rank

InsertWaitsFor(w) ==
  IF picked[w] = {} THEN {}
  ELSE {u \in InFlight \ {w} :
          \E r \in inserted[u] \cup (deleted[u] \cap panel) : SameKey(r, FirstPicked(w))}

WaitsFor(w) ==
  CASE pc[w] = "upsert" -> UpsertWaitsFor(w)
    [] pc[w] = "wait"   -> DeleteWaitsFor(w)
    [] pc[w] = "insert" -> InsertWaitsFor(w)
    [] OTHER            -> {}

UpsertTakesOver(w) ==               \* mutant: a conflict moves the article to the new ticker
  LET f == First(todo[w]) IN
    /\ added' = [added EXCEPT ![w] = @ \cup {f}]
    /\ locked' = [locked EXCEPT ![w] = @ \cup {f.article}]
    /\ todo' = [todo EXCEPT ![w] = @ \ {f}]

(* ON CONFLICT updates SourceUrl only: a stored article keeps its ticker.  *)
UpsertRow(w) ==
  LET f == First(todo[w]) IN
    /\ added' = [added EXCEPT ![w] = IF stored[f.article] = Nobody THEN @ \cup {f} ELSE @]
    /\ locked' = [locked EXCEPT ![w] = @ \cup {f.article}]
    /\ todo' = [todo EXCEPT ![w] = @ \ {f}]

Upsert(w) ==
  /\ pc[w] = "upsert" /\ todo[w] # {} /\ WaitsFor(w) = {}
  /\ UpsertRow(w)
  /\ UNCHANGED <<database, deleted, inserted, pc, queue, current, picked, victims>>

(* The next panel: the SELECT sees what is committed and what this         *)
(* transaction added.  The order of the asset keys is unspecified.         *)
Select(w) ==
  /\ pc[w] \in {"upsert", "select"} /\ todo[w] = {}
  /\ \E t \in queue[w] :
       /\ current' = [current EXCEPT ![w] = t]
       /\ queue' = [queue EXCEPT ![w] = @ \ {t}]
       /\ LET own == {f.article : f \in {g \in added[w] : g.ticker = t}}
          IN  picked' = [picked EXCEPT ![w] = Newest(StoredFor(t) \cup own, t, w)]
  /\ pc' = [pc EXCEPT ![w] = "delete"]
  /\ UNCHANGED <<database, uncommitted, todo, victims>>

(* DELETE finds the rows committed when it starts ...                      *)
DeleteFinds(w) ==
  /\ pc[w] = "delete"
  /\ victims' = [victims EXCEPT ![w] = PanelOf(current[w])]
  /\ pc' = [pc EXCEPT ![w] = "wait"]
  /\ UNCHANGED <<database, uncommitted, todo, queue, current, picked>>

(* ... waits for whoever is deleting one of them, and passes over those    *)
(* that are gone by then; rows committed meanwhile it does not see.        *)
Delete(w) ==
  /\ pc[w] = "wait" /\ WaitsFor(w) = {}
  /\ deleted' = [deleted EXCEPT ![w] = @ \cup (victims[w] \cap panel)]
  /\ victims' = [victims EXCEPT ![w] = {}]
  /\ pc' = [pc EXCEPT ![w] = "insert"]
  /\ UNCHANGED <<database, locked, added, inserted, todo, queue, current, picked>>

(* A committed row holds the key of the row to insert.                     *)
KeyTaken(w) == \E r \in panel \ deleted[w] : SameKey(r, FirstPicked(w))

InsertOnConflictUpdate(w) ==        \* mutant: the INSERT is made an upsert
  /\ pc[w] = "insert" /\ picked[w] # {} /\ WaitsFor(w) = {}
  /\ deleted' = [deleted EXCEPT ![w] = @ \cup {r \in panel : SameKey(r, FirstPicked(w))}]
  /\ inserted' = [inserted EXCEPT ![w] = @ \cup {FirstPicked(w)}]
  /\ picked' = [picked EXCEPT ![w] = @ \ {FirstPicked(w)}]
  /\ UNCHANGED <<database, locked, added, pc, todo, queue, current, victims>>

Insert(w) ==
  /\ pc[w] = "insert" /\ picked[w] # {} /\ WaitsFor(w) = {}
  /\ ~KeyTaken(w)
  /\ inserted' = [inserted EXCEPT ![w] = @ \cup {FirstPicked(w)}]
  /\ picked' = [picked EXCEPT ![w] = @ \ {FirstPicked(w)}]
  /\ UNCHANGED <<database, locked, added, deleted, pc, todo, queue, current, victims>>

NextTicker(w) ==
  /\ pc[w] = "insert" /\ picked[w] = {} /\ queue[w] # {}
  /\ pc' = [pc EXCEPT ![w] = "select"]
  /\ UNCHANGED <<database, uncommitted, todo, queue, current, picked, victims>>

Forget(w) ==
  /\ todo' = [todo EXCEPT ![w] = {}]
  /\ queue' = [queue EXCEPT ![w] = {}]
  /\ current' = [current EXCEPT ![w] = Nobody]
  /\ picked' = [picked EXCEPT ![w] = {}]
  /\ victims' = [victims EXCEPT ![w] = {}]
  /\ locked' = [locked EXCEPT ![w] = {}]
  /\ added' = [added EXCEPT ![w] = {}]
  /\ deleted' = [deleted EXCEPT ![w] = {}]
  /\ inserted' = [inserted EXCEPT ![w] = {}]

Commit(w) ==
  /\ pc[w] = "insert" /\ picked[w] = {} /\ queue[w] = {}
  /\ stored' = [a \in Articles |->
                  IF \E f \in added[w] : f.article = a
                    THEN (CHOOSE f \in added[w] : f.article = a).ticker
                    ELSE stored[a]]
  /\ panel' = (panel \ deleted[w]) \cup inserted[w]
  /\ pc' = [pc EXCEPT ![w] = "done"]
  /\ Forget(w)

AbortHangs(w) ==                    \* mutant: the failed transaction is left open
  /\ UNCHANGED <<database, uncommitted, pc, todo, queue, current, picked, victims>>

(* log_stage rolls the pipeline back, engine.begin the live refresh.       *)
Abort(w) ==
  /\ pc' = [pc EXCEPT ![w] = "failed"]
  /\ Forget(w)
  /\ UNCHANGED database

KeyViolated(w) ==
  /\ pc[w] = "insert" /\ picked[w] # {} /\ WaitsFor(w) = {}
  /\ KeyTaken(w)

(* duplicate key value violates the primary key ("AssetKey", "Rank").      *)
UniqueViolation(w) == KeyViolated(w) /\ Abort(w)

Waits == [p \in Writers \X Writers |-> p[2] \in WaitsFor(p[1])]

(* PostgreSQL picks a victim of the cycle once deadlock_timeout is over.   *)
DeadlockDetected(w) ==
  /\ TransitiveClosure(Waits, Writers)[<<w, w>>]
  /\ Abort(w)

(* The process or its connection is lost.                                  *)
Killed(w) ==
  /\ w \in InFlight
  /\ Abort(w)

Statement(w) ==
  \/ Fetch(w) \/ Upsert(w) \/ Select(w) \/ DeleteFinds(w) \/ Delete(w)
  \/ Insert(w) \/ NextTicker(w) \/ Commit(w) \/ UniqueViolation(w) \/ DeadlockDetected(w)

Next == \E w \in Writers : Statement(w) \/ Killed(w)

Spec == Init /\ [][Next]_vars

(* The server executes statements and its deadlock detector runs.  Nobody  *)
(* has to be killed.                                                       *)
FairSpec == Spec /\ WF_vars(\E w \in Writers : Statement(w))

------------------------------------------------------------------------------
TypeOK ==
  /\ stored \in [Articles -> Tickers \cup {Nobody}]
  /\ panel \subseteq Row
  /\ pc \in [Writers -> PC]
  /\ todo \in [Writers -> SUBSET [ticker : Tickers, article : Articles]]
  /\ queue \in [Writers -> SUBSET Tickers]
  /\ current \in [Writers -> Tickers \cup {Nobody}]
  /\ \A w \in Writers :
       /\ picked[w] \subseteq Row /\ victims[w] \subseteq Row
       /\ deleted[w] \subseteq panel /\ inserted[w] \subseteq Row
       /\ locked[w] \subseteq Articles /\ {f.article : f \in added[w]} \subseteq locked[w]

(* A reader never sees a panel mixed from two refreshes: the rows of a     *)
(* ticker were written by one transaction, are numbered 1, 2, ... without  *)
(* a gap, and get older down the list (refresh_recent_news, PRIMARY KEY    *)
(* (AssetKey, Rank)).                                                      *)
PanelFromOneRefresh ==
  \A t \in Tickers :
    /\ \A r, s \in PanelOf(t) : r.by = s.by /\ (r.rank < s.rank => r.article > s.article)
    /\ {r.rank : r \in PanelOf(t)} = 1..Cardinality(PanelOf(t))

(* A headline shown for a stock is stored for that stock, whoever stored   *)
(* it and in whatever order the same headline came in under another one.   *)
PanelRowsStored == \A r \in panel : stored[r.article] = r.ticker

(* Whatever the transactions meet (each other's articles in the opposite   *)
(* order, a panel being rewritten, a row that took their key), every one   *)
(* of them commits or is rolled back: nobody waits forever.                *)
AllEnd == <>(\A w \in Writers : pc[w] \in {"done", "failed"})

------------------------------------------------------------------------------
(* What the text says and the code does not do.                            *)

(* "Latest headlines that explicitly name each ticker, from everything     *)
(* stored in the lookback window" (pipeline.py): when nobody is writing,   *)
(* the panel shows the newest stored headlines.                            *)
PanelLatestAtRest ==
  (InFlight = {}) =>
    \A t \in Tickers :
      {r.article : r \in PanelOf(t)} =
        {a \in StoredFor(t) : RankIn(a, StoredFor(t)) <= PanelSize}
==============================================================================
