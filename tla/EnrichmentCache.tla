--------------------------- MODULE EnrichmentCache ---------------------------
(***************************************************************************)
(* Short interest, fundamentals and insider filings of one stock           *)
(* (webapp/enrichment.py), fetched from the provider when somebody needs   *)
(* them and kept in StockEnrichmentCache and InsiderTransactions.  Page    *)
(* loads and the score batch (both through db.enrich_stock) do so at the   *)
(* same time, each in one READ COMMITTED transaction that stays open       *)
(* across both calls to the provider.                                      *)
(*                                                                         *)
(* The snapshot of a stock is identified with the moment the provider was  *)
(* asked for it.                                                           *)
(***************************************************************************)
EXTENDS Naturals

CONSTANTS
  Requests,       \* page loads and batch scores of the stock, one at a time each
  Filings,        \* the insider filings there can be
  TTL,            \* CACHE_TTL
  MaxTime         \* bound: the clock

None == 0         \* NULL; no moment of a run is 0
Start == TTL + 1  \* to_timestamp(0) is older than CACHE_TTL at every moment

ASSUME CacheAssumption == TTL \in Nat /\ MaxTime \in Nat /\ MaxTime >= Start

VARIABLES
  now,
  filed,          \* filed[f]: when the provider started to list filing f, None if not yet
  row,            \* the stock's row of StockEnrichmentCache, as committed
  txns,           \* the stock's InsiderTransactions, as committed
  rowLock,        \* the request whose transaction has written the row, or NoOne
  txnLock,        \* the same for its InsiderTransactions
  req             \* req[r]: the transaction of request r

vars == <<now, filed, row, txns, rowLock, txnLock, req>>

NoOne == "no one"
NoRow == [exists |-> FALSE, data |-> None, fetched |-> None, funda |-> None, insider |-> None]

Times == 0..MaxTime
Rows == [exists : BOOLEAN, data : Times, fetched : Times, funda : Times, insider : Times]

(* at     : what the request does next                                     *)
(* start  : now() of its transaction                                       *)
(* short  : the snapshot to answer with: the cached one, then the one      *)
(*          fetched                                                        *)
(* seen   : the InsiderFetchedAt it read                                   *)
(* wrote  : whether the snapshot is written                                *)
(* got    : the filings to store                                           *)
(* stamps : whether InsiderFetchedAt is written                            *)
(* missed : history: a call to the provider failed                         *)
Idle == [at |-> "idle", start |-> None, seen |-> None, short |-> None,
         wrote |-> FALSE, got |-> {}, stamps |-> FALSE, missed |-> FALSE]

Busy == {"info", "store", "insiders", "file", "stamp", "answer"}

(* No row; a row of before migration 007, without fundamentals, or of      *)
(* before migration 011, whose filings are to be read again.               *)
InitialRows ==
  {NoRow, [exists |-> TRUE, data |-> Start, fetched |-> Start, funda |-> None, insider |-> None],
          [exists |-> TRUE, data |-> Start, fetched |-> Start, funda |-> Start, insider |-> None]}

Init ==
  /\ now = Start
  /\ filed = [f \in Filings |-> None]
  /\ row \in InitialRows
  /\ txns = {}
  /\ rowLock = NoOne /\ txnLock = NoOne
  /\ req = [r \in Requests |-> Idle]

------------------------------------------------------------------------------
Old(stamp) == now - stamp > TTL

(* is_stale                                                                *)
SnapshotStale == ~row.exists \/ row.funda = None \/ Old(row.fetched)

InsiderStaleIfNew(seen) == seen = None      \* mutant: fetched once, ever

(* insider_stale                                                           *)
InsiderStale(seen) == seen = None \/ Old(seen)

(* The transaction begins with the SELECT of the cached row.               *)
Begin(r) ==
  /\ req[r].at = "idle"
  /\ req' = [req EXCEPT ![r] = [Idle EXCEPT !.at = IF SnapshotStale THEN "info" ELSE "insiders",
                                            !.start = now, !.seen = row.insider,
                                            !.short = row.data]]
  /\ UNCHANGED <<now, filed, row, txns, rowLock, txnLock>>

(* _fetch_info_snapshot; it may fail.                                      *)
FetchSnapshot(r) ==
  /\ req[r].at = "info"
  /\ \/ req' = [req EXCEPT ![r].at = "store", ![r].short = now]
     \/ req' = [req EXCEPT ![r].at = "insiders", ![r].missed = TRUE]
  /\ UNCHANGED <<now, filed, row, txns, rowLock, txnLock>>

(* The upsert of the snapshot waits while another transaction has written  *)
(* the row.                                                                *)
StoreSnapshot(r) ==
  /\ req[r].at = "store"
  /\ rowLock \in {NoOne, r}
  /\ rowLock' = r
  /\ req' = [req EXCEPT ![r].at = "insiders", ![r].wrote = TRUE]
  /\ UNCHANGED <<now, filed, row, txns, txnLock>>

Listed == {f \in Filings : filed[f] # None}

(* _fetch_insider_transactions: None when the call failed, else what the   *)
(* provider lists, which may be nothing.                                   *)
FetchInsiders(r) ==
  /\ req[r].at = "insiders"
  /\ \/ /\ ~InsiderStale(req[r].seen)
        /\ req' = [req EXCEPT ![r].at = "answer"]
     \/ /\ InsiderStale(req[r].seen)
        /\ \/ req' = [req EXCEPT ![r].at = IF Listed = {} THEN "stamp" ELSE "file",
                                 ![r].got = Listed]
           \/ req' = [req EXCEPT ![r].at = "answer", ![r].missed = TRUE]
  /\ UNCHANGED <<now, filed, row, txns, rowLock, txnLock>>

(* The upserts of the filings.  The provider only ever adds filings, so    *)
(* two transactions that store any meet at a common one.                   *)
StoreInsiders(r) ==
  /\ req[r].at = "file"
  /\ txnLock = NoOne
  /\ txnLock' = r
  /\ req' = [req EXCEPT ![r].at = "stamp"]
  /\ UNCHANGED <<now, filed, row, txns, rowLock>>

(* INSERT ... ON CONFLICT DO UPDATE SET "InsiderFetchedAt" = now()         *)
StampInsiders(r) ==
  /\ req[r].at = "stamp"
  /\ rowLock \in {NoOne, r}
  /\ rowLock' = r
  /\ req' = [req EXCEPT ![r].at = "answer", ![r].stamps = TRUE]
  /\ UNCHANGED <<now, filed, row, txns, txnLock>>

StampedAtCommit(r) ==                       \* mutant: the clock at the end, not now()
  LET q == req[r] IN
    [exists  |-> row.exists \/ q.wrote \/ q.stamps,
     data    |-> IF q.wrote THEN q.short ELSE row.data,
     fetched |-> IF q.wrote THEN now ELSE row.fetched,
     funda   |-> IF q.wrote THEN now ELSE row.funda,
     insider |-> IF q.stamps THEN now ELSE row.insider]

(* What the two upserts make of the row.  A row that starts with insiders  *)
(* has FetchedAt = to_timestamp(0).                                        *)
Written(r) ==
  LET q == req[r] IN
    [exists  |-> row.exists \/ q.wrote \/ q.stamps,
     data    |-> IF q.wrote THEN q.short ELSE row.data,
     fetched |-> IF q.wrote THEN q.start ELSE row.fetched,
     funda   |-> IF q.wrote THEN q.start ELSE row.funda,
     insider |-> IF q.stamps THEN q.start ELSE row.insider]

KeepLocks(r) == UNCHANGED <<rowLock, txnLock>>      \* mutant: the transaction is left open

Release(r) ==
  /\ rowLock' = IF rowLock = r THEN NoOne ELSE rowLock
  /\ txnLock' = IF txnLock = r THEN NoOne ELSE txnLock

(* The filings a request answers with, read in the transaction that is     *)
(* then committed.                                                         *)
Seen(r) == txns \cup req[r].got

Ends(r) ==
  /\ req' = [req EXCEPT ![r] = Idle]
  /\ Release(r)
  /\ UNCHANGED <<now, filed>>

Answer(r) ==
  /\ req[r].at = "answer"
  /\ row' = Written(r)
  /\ txns' = Seen(r)
  /\ Ends(r)

(* An exception rolls everything back.                                     *)
Fail(r) == Ends(r) /\ UNCHANGED <<row, txns>>

(* PostgreSQL finds that two transactions wait for each other: one has     *)
(* stored filings and wants the row, the other has written the row and     *)
(* wants to store filings.  Either is the victim.                          *)
BreakDeadlock ==
  \E r, s \in Requests :
    /\ req[r].at = "stamp" /\ txnLock = r
    /\ req[s].at = "file" /\ rowLock = s
    /\ Fail(r) \/ Fail(s)

(* The worker is killed (60 s in gunicorn), or the connection is lost.     *)
Kill(r) ==
  /\ req[r].at \in Busy
  /\ Fail(r)

(* The provider lists one more filing.                                     *)
File ==
  /\ \E f \in Filings :
       /\ filed[f] = None
       /\ filed' = [filed EXCEPT ![f] = now]
  /\ UNCHANGED <<now, row, txns, rowLock, txnLock, req>>

Tick ==
  /\ now < MaxTime
  /\ now' = now + 1
  /\ UNCHANGED <<filed, row, txns, rowLock, txnLock, req>>

Locking(r) == StoreSnapshot(r) \/ StoreInsiders(r) \/ StampInsiders(r)
Going(r) == FetchSnapshot(r) \/ FetchInsiders(r) \/ Answer(r)

Next ==
  \/ \E r \in Requests : Begin(r) \/ Going(r) \/ Locking(r) \/ Kill(r)
  \/ BreakDeadlock
  \/ File
  \/ Tick

Spec == Init /\ [][Next]_vars

(* A call to the provider returns or fails; PostgreSQL grants a lock in    *)
(* the order of the requests for it and looks for deadlocks.               *)
FairSpec ==
  /\ Spec
  /\ \A r \in Requests : WF_vars(Going(r)) /\ SF_vars(Locking(r))
  /\ WF_vars(BreakDeadlock)

------------------------------------------------------------------------------
Transactions ==
  [at : {"idle"} \cup Busy, start : Times, seen : Times, short : Times,
   wrote : BOOLEAN, got : SUBSET Filings, stamps : BOOLEAN, missed : BOOLEAN]

TypeOK ==
  /\ now \in Times
  /\ filed \in [Filings -> Times]
  /\ row \in Rows /\ txns \subseteq Filings
  /\ rowLock \in Requests \cup {NoOne} /\ txnLock \in Requests \cup {NoOne}
  /\ req \in [Requests -> Transactions]

(* The stamps the cache is judged by never claim more than was read,       *)
(* whichever of several requests was the last to commit: a snapshot is not *)
(* older than its FetchedAt (so a failed call cannot have written one),    *)
(* and every filing listed before InsiderFetchedAt is stored.              *)
StampsHonest ==
  /\ row.fetched <= row.data /\ row.funda <= row.data
  /\ \A f \in Filings :
       filed[f] # None /\ filed[f] < row.insider => f \in txns

(* An answer, on the page or in the score batch, is at most CACHE_TTL old  *)
(* unless a call of its own failed: its snapshot was read, and its filings *)
(* are those listed, no longer ago than that before the request.           *)
AnswersFresh ==
  \A r \in Requests :
    req[r].at = "answer" /\ ~req[r].missed =>
      /\ req[r].short + TTL >= req[r].start
      /\ \A f \in Filings :
           filed[f] # None /\ filed[f] + TTL < req[r].start => f \in Seen(r)

(* Every request is answered or fails, also when two of them take the two  *)
(* locks in opposite orders.                                               *)
RequestsEnd ==
  \A r \in Requests : req[r].at \in Busy ~> req[r].at = "idle"
==============================================================================
